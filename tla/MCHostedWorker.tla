--------------------------- MODULE MCHostedWorker ---------------------------
(* TLC instances of HostedWorker.  Workers, turns and tokens are             *)
(* interchangeable, so runs without liveness may use their permutations.     *)
EXTENDS HostedWorker, TLC

Symmetry == Permutations(Workers) \cup Permutations(Tokens)
=============================================================================
