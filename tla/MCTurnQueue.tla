---------------------------- MODULE MCTurnQueue ----------------------------
(* TLC instance of TurnQueue: turns, keys, payloads, workers and sessions   *)
(* are interchangeable, so safety runs may use their permutations.          *)
EXTENDS TurnQueue, TLC

Symmetry == Permutations(Turns) \cup Permutations(Keys) \cup
            Permutations(Payloads) \cup Permutations(Workers) \cup
            Permutations(Sessions)
=============================================================================
