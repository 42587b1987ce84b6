----------------------------- MODULE ModelCalls -----------------------------
(***************************************************************************)
(* One step of a turn asks the model: agents/codeAgent.py (the step),       *)
(* core/runtime/model_gateway.py (streamed or not, through the recorder of  *)
(* core/vcr.py), core/llm.py (attempts, the stream and how its pieces are   *)
(* put together).  The provider may refuse, fail, break off or stop early.  *)
(* A turn may ask the same again; the recorder's tape outlives it.          *)
(***************************************************************************)
EXTENDS Naturals, SequencesExt

CONSTANTS
  None,
  MaxRetries,     \* max_retries of the client
  MaxChunks, MaxSteps                                              \* bounds

(* What a chunk may hold: "thought" is all that neither answers nor calls    *)
(* (reasoning, white space, usage); "first", "second" a fragment of the call *)
(* with that index; "loose" a fragment of a call without one.               *)
Pieces    == {"thought", "text", "first", "second", "loose"}
Modes     == {"off", "new_episodes", "once", "none"}
Finishes  == {"stop", "length", "content_filter", "missing"}

VARIABLES
  setup,     \* [streaming, mode of the recorder]
  step,      \* where the step stands
  chunks,    \* of the response that is read
  came,      \* all that came in this step: <<request, place, piece>>
  tape,      \* [prompts -> the recorded answer, or None]
  saved      \* what the step left in the history: None, "incomplete"

vars == <<setup, step, chunks, came, tape, saved>>

Fresh(n) == [n |-> n, pc |-> "idle", attempt |-> 0, bare |-> FALSE, hinted |-> FALSE,
             sent |-> 0, played |-> FALSE, finish |-> None, result |-> None]

Prompt == IF step.hinted THEN "hinted" ELSE "plain"

Init ==
  /\ setup \in [streaming : BOOLEAN, mode : Modes]
  /\ step = Fresh(1)
  /\ chunks = <<>> /\ came = <<>>
  /\ tape = [p \in {"plain", "hinted"} |-> None]
  /\ saved = None

-----------------------------------------------------------------------------
(* How the pieces of a stream are put together: _merge_streaming_chunks.   *)

At(places, pieces) == {i \in DOMAIN places : places[i] \in pieces}

(* A fragment without an index starts a call under the next number. *)
IndexOf(piece, calls) ==
  CASE piece = "first"  -> 0
    [] piece = "second" -> 1
    [] OTHER            -> Cardinality(DOMAIN calls)

Merged(places) ==
  FoldLeft(LAMBDA calls, i :
             LET k == IndexOf(places[i], calls) IN
               [j \in DOMAIN calls \cup {k} |->
                  (IF j \in DOMAIN calls THEN calls[j] ELSE <<>>)
                  \o (IF j = k THEN <<i>> ELSE <<>>)],
           [j \in {} |-> <<>>],
           SetToSortSeq(At(places, {"first", "second", "loose"}), <))

Says(places)      == At(places, {"text"}) # {}
Announces(places) == DOMAIN Merged(places) # {}

-----------------------------------------------------------------------------
(* The gateway and the recorder: ModelGateway.invoke, VCR.call.             *)

Records == setup.mode # "off"

Begin ==
  /\ step.pc = "idle"
  /\ step' = [step EXCEPT !.pc = "call"]
  /\ UNCHANGED <<setup, chunks, came, tape, saved>>

(* The answer on tape is taken, nothing is shown as it comes. *)
Replay ==
  /\ step.pc = "call" /\ Records /\ tape[Prompt] # None
  /\ chunks' = tape[Prompt].places
  /\ step' = [step EXCEPT !.pc = "judge", !.finish = tape[Prompt].finish, !.played = TRUE]
  /\ UNCHANGED <<setup, came, tape, saved>>

Fail(why) ==
  /\ step' = [step EXCEPT !.pc = "failed", !.result = why]

FixtureMissing ==
  /\ step.pc = "call" /\ setup.mode = "none" /\ tape[Prompt] = None
  /\ Fail("fixture")
  /\ UNCHANGED <<setup, chunks, came, tape, saved>>

CallsProvider ==
  /\ step.pc = "call"
  /\ setup.mode # "none" /\ (Records => tape[Prompt] = None)
  /\ step' = [step EXCEPT !.pc = "ask", !.attempt = 0, !.bare = FALSE]
  /\ chunks' = <<>>
  /\ UNCHANGED <<setup, came, tape, saved>>

(* "new_episodes": the answer goes on tape by a rename; if that fails, or    *)
(* another process took the file away, the call fails with it.              *)
Record ==
  /\ step.pc = "record"
  /\ IF setup.mode = "new_episodes"
       THEN \/ /\ tape' = [tape EXCEPT ![Prompt] = [places |-> chunks, finish |-> step.finish]]
               /\ step' = [step EXCEPT !.pc = "judge"]
            \/ UNCHANGED tape /\ Fail("tape")
       ELSE UNCHANGED tape /\ step' = [step EXCEPT !.pc = "judge"]
  /\ UNCHANGED <<setup, chunks, came, saved>>

-----------------------------------------------------------------------------
(* One call of the client: stream_raw, invoke_raw.                          *)

(* An error before anything came: tried again while it is worth it, each    *)
(* attempt with all its options.                                           *)
AfterError(retryable) ==
  IF retryable /\ step.attempt < MaxRetries
    THEN [step EXCEPT !.attempt = @ + 1, !.bare = FALSE, !.sent = @ + 1]
    ELSE [step EXCEPT !.pc = "failed", !.sent = @ + 1, !.result = "provider"]

RequestFails ==
  /\ step.pc = "ask"
  /\ \E retryable \in BOOLEAN : step' = AfterError(retryable)
  /\ UNCHANGED <<setup, chunks, came, tape, saved>>

(* A provider that does not know stream_options is asked again without. *)
DropOptions ==
  /\ step.pc = "ask" /\ setup.streaming /\ ~step.bare
  /\ step' = [step EXCEPT !.bare = TRUE, !.sent = @ + 1]
  /\ UNCHANGED <<setup, chunks, came, tape, saved>>

OpenStream ==
  /\ step.pc = "ask" /\ setup.streaming
  /\ step' = [step EXCEPT !.pc = "stream", !.sent = @ + 1]
  /\ UNCHANGED <<setup, chunks, came, tape, saved>>

Chunk ==
  /\ step.pc = "stream" /\ Len(chunks) < MaxChunks                  \* bound
  /\ \E p \in Pieces :
       /\ chunks' = Append(chunks, p)
       /\ came' = Append(came, <<step.sent, Len(chunks) + 1, p>>)
  /\ UNCHANGED <<setup, step, tape, saved>>

(* Mutant: how far the stream got is not asked. *)
BreakAnywhere(retryable) ==
  [AfterError(retryable) EXCEPT !.sent = step.sent, !.pc = IF @ = "failed" THEN @ ELSE "ask"]

(* Half a stream is never asked for again. *)
Break(retryable) ==
  IF chunks # <<>> THEN [step EXCEPT !.pc = "failed", !.result = "stream_interrupted"]
  ELSE [AfterError(retryable) EXCEPT !.sent = step.sent, !.pc = IF @ = "failed" THEN @ ELSE "ask"]

StreamBreaks ==
  /\ step.pc = "stream"
  /\ \E retryable \in BOOLEAN : step' = Break(retryable)
  /\ chunks' = IF step'.pc = "ask" THEN <<>> ELSE chunks
  /\ UNCHANGED <<setup, came, tape, saved>>

(* It ends, with a reason or, when the connection is closed early, without. *)
StreamEnds ==
  /\ step.pc = "stream"
  /\ \E f \in Finishes : step' = [step EXCEPT !.pc = "record", !.finish = f]
  /\ UNCHANGED <<setup, chunks, came, tape, saved>>

(* Not streamed: the answer is there at once; a reasoning model's thought    *)
(* is a part of it.                                                         *)
WholeAnswer ==
  /\ step.pc = "ask" /\ ~setup.streaming
  /\ \E n \in 0..MaxChunks : chunks' \in [1..n -> Pieces]
  /\ \E f \in Finishes : step' = [step EXCEPT !.pc = "record", !.sent = @ + 1, !.finish = f]
  /\ UNCHANGED <<setup, came, tape, saved>>

-----------------------------------------------------------------------------
(* The step: _invoke_llm_with_retry.                                       *)

(* Provider stops that invalidate text and calls alike. *)
Incomplete(f) == f \in {"length", "content_filter"}

(* Kept as evidence, outside of what is answered and called. *)
JudgeIncomplete ==
  /\ step.pc = "judge" /\ Incomplete(step.finish)
  /\ Fail(step.finish)
  /\ saved' = "incomplete"
  /\ UNCHANGED <<setup, chunks, came, tape>>

JudgeWhole ==
  /\ step.pc = "judge" /\ ~Incomplete(step.finish)
  /\ Announces(chunks) \/ Says(chunks)
  /\ step' = [step EXCEPT !.pc = "answered", !.result = Merged(chunks)]
  /\ UNCHANGED <<setup, chunks, came, tape, saved>>

(* An empty answer is asked for again once, with a hint. *)
JudgeEmpty ==
  /\ step.pc = "judge" /\ ~Incomplete(step.finish)
  /\ ~Announces(chunks) /\ ~Says(chunks)
  /\ IF step.hinted THEN Fail("empty_response")
     ELSE step' = [step EXCEPT !.pc = "call", !.hinted = TRUE, !.played = FALSE]
  /\ UNCHANGED <<setup, chunks, came, tape, saved>>

(* A later turn asks the same: only the tape is left. *)
NextStep ==
  /\ step.pc \in {"answered", "failed"}
  /\ step.n < MaxSteps /\ setup.mode = "new_episodes"               \* bound
  /\ step' = Fresh(step.n + 1)
  /\ chunks' = <<>> /\ came' = <<>> /\ saved' = None
  /\ UNCHANGED <<setup, tape>>

Next ==
  \/ Begin \/ Replay \/ FixtureMissing \/ CallsProvider \/ Record
  \/ RequestFails \/ DropOptions \/ OpenStream \/ Chunk \/ StreamBreaks
  \/ StreamEnds \/ WholeAnswer
  \/ JudgeIncomplete \/ JudgeWhole \/ JudgeEmpty \/ NextStep

Spec == Init /\ [][Next]_vars

-----------------------------------------------------------------------------
(* Properties.                                                             *)

Telling == {"text", "first", "second", "loose"}

Told == {m \in ToSet(came) : m[3] \in Telling}

(* Once a word of an answer or a fragment of a call has come, nothing is     *)
(* asked again in this step ("retrying would duplicate visible text and     *)
(* potentially diverge tool calls"), whatever breaks, and the answer is the  *)
(* one that came.                                                          *)
SaysItOnce ==
  /\ \A m, k \in Told : m[1] = k[1]
  /\ step.pc = "answered" /\ setup.streaming /\ ~step.played =>
       Told = {<<step.sent, i, chunks[i]>> : i \in At(chunks, Telling)}

(* Tools are only called as an answer that was not cut off announced them:   *)
(* each call with all its fragments in their order, whatever came between.   *)
CallsAreWhole ==
  step.pc = "answered" =>
    /\ ~Incomplete(step.finish) /\ saved = None
    /\ At(chunks, {"loose"}) = {} =>
         step.result = [k \in {IndexOf(chunks[i], <<>>) : i \in At(chunks, {"first", "second"})} |->
                          SetToSortSeq(At(chunks, {<<"first", "second">>[k + 1]}), <)]

(* However a provider refuses, a step asks a bounded number of times; and    *)
(* what is on tape is not asked for.                                       *)
AsksWithinReason ==
  /\ step.sent <= 2 * 2 * (MaxRetries + 1)
  /\ step.played /\ ~step.hinted => step.sent = 0 /\ came = <<>>

AnswersAreWhole == SaysItOnce /\ CallsAreWhole /\ AsksWithinReason
=============================================================================
