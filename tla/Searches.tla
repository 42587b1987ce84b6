------------------------------- MODULE Searches -------------------------------
(***************************************************************************)
(* The tools that look for files: Glob walks the directories, Grep runs      *)
(* ripgrep or else walks them itself, LS lists one directory by pages.  They *)
(* run side by side with tools that create and remove files, each has bounds *)
(* on what it looks at, and the status of its answer says what it is worth.  *)
(* Patterns are abstract: Matching is what the pattern of the call matches.  *)
(***************************************************************************)
EXTENDS Naturals, Sequences, FiniteSets, SequencesExt

CONSTANTS
  None,
  Dirs, Files,          \* numbers, in the order in which a walk meets them
  Directory,            \* the directory of each file
  Matching, Hidden, Ignored,     \* files; an ignored one is in a pruned directory
  Limit,                \* limit of Glob and LS, MAX_RESULTS of Grep
  MaxVisited,           \* MAX_VISITED_ENTRIES
  MaxDuration,          \* MAX_DURATION_MS and TIMEOUT_SEC
  MaxChanges            \* bound

VARIABLES
  there,      \* the files that exist
  clock,      \* the time since the call began
  call,       \* a call of Glob or Grep, and the answer of the last one
  page,       \* a listing of a directory by pages: where it is, what it showed
  seen,       \* history: files that were there all through the call, and ever
  changes

vars == <<there, clock, call, page, seen, changes>>

Idle == [pc |-> "idle", tool |-> None, flags |-> {}, dir |-> 0, left |-> <<>>,
         visited |-> 0, found |-> {}, reason |-> None, fallback |-> FALSE,
         truncated |-> FALSE, status |-> None]

Init ==
  /\ there \in SUBSET Files
  /\ clock = 0 /\ call = Idle /\ changes = 0
  /\ page = [offset |-> 0, shown |-> <<>>, done |-> FALSE, steady |-> TRUE]
  /\ seen = [always |-> {}, ever |-> {}]

InOrder(S) == SetToSortSeq(S, <)

-----------------------------------------------------------------------------
(* Other tools, and time.                                                  *)

Change(f) ==
  /\ changes < MaxChanges /\ changes' = changes + 1
  /\ there' = IF f \in there THEN there \ {f} ELSE there \cup {f}
  /\ seen' = IF call.pc = "idle" THEN seen
             ELSE [always |-> seen.always \cap there', ever |-> seen.ever \cup there']
  /\ page' = [page EXCEPT !.steady = FALSE]
  /\ UNCHANGED <<clock, call>>

Tick ==
  /\ call.pc # "idle" /\ clock <= MaxDuration
  /\ clock' = clock + 1
  /\ UNCHANGED <<there, call, page, seen, changes>>

TimedOut == clock > MaxDuration

-----------------------------------------------------------------------------
(* A call.  The flags are include_hidden and include_ignored, of Glob only. *)

Start(tool, flags) ==
  /\ call.pc = "idle" /\ page.offset = 0
  /\ call' = [Idle EXCEPT !.pc = IF tool = "Grep" THEN "rg" ELSE "walk",
                          !.tool = tool, !.flags = flags]
  /\ clock' = 0
  /\ seen' = [always |-> there, ever |-> there]
  /\ UNCHANGED <<there, page, changes>>

StartGlob == \E flags \in SUBSET {"hidden", "ignored"} : Start("Glob", flags)
StartGrep == Start("Grep", {})

Shown == Files \ ((IF "hidden" \in call.flags THEN {} ELSE Hidden)
                  \cup (IF "ignored" \in call.flags THEN {} ELSE Ignored))
Wanted == Shown \cap Matching

Answer(c, status) == [c EXCEPT !.pc = "idle", !.status = status]

(* Mutants: a search that was cut short is a success if it has results. *)
GlobStatusIfFull(c) ==
  CASE c.reason # None /\ c.found = {} -> "error"
    [] c.truncated -> "partial"
    [] OTHER -> "success"

GrepStatusUnlessTimeout(c) ==
  CASE c.reason = "timeout" /\ c.found = {} -> "error"
    [] c.fallback \/ c.truncated -> "partial"
    [] OTHER -> "success"

(* Glob's status: nothing found before it was cut short is an error.       *)
GlobStatus(c) ==
  CASE c.reason # None /\ c.found = {} -> "error"
    [] c.truncated \/ c.reason # None  -> "partial"
    [] OTHER                           -> "success"

GrepStatus(c) ==
  CASE c.reason = "timeout" /\ c.found = {}            -> "error"
    [] c.fallback \/ c.truncated \/ c.reason # None    -> "partial"
    [] OTHER                                           -> "success"

-----------------------------------------------------------------------------
(* Glob: files and directories it comes past count as visited.             *)

Visit(c) == [c EXCEPT !.visited = @ + 1]
Aborted(c) ==
  [c EXCEPT !.reason = IF c.visited > MaxVisited THEN "count_limit" ELSE "time_limit"]
ShouldAbort(c) == c.visited > MaxVisited \/ TimedOut

(* The walk reads the names of a directory when it enters it.              *)
EnterDir ==
  /\ call.pc = "walk" /\ call.left = <<>> /\ \E d \in Dirs : d > call.dir
  /\ LET d == CHOOSE d \in Dirs : d > call.dir /\ \A e \in Dirs : e > call.dir => d <= e
         names == {f \in there \ Ignored : Directory[f] = d}
                    \cup (IF "ignored" \in call.flags
                          THEN {f \in there : Directory[f] = d} ELSE {})
         c == IF call.tool = "Glob" THEN Visit(call) ELSE call
     IN call' = IF call.tool = "Glob" /\ ShouldAbort(c)
                THEN Answer(Aborted(c), GlobStatus(Aborted(c)))
                ELSE [c EXCEPT !.dir = d, !.left = InOrder(names)]
  /\ UNCHANGED <<there, clock, page, seen, changes>>

(* A name is taken for a match whether or not its file is still there.     *)
GlobFile ==
  /\ call.pc = "walk" /\ call.tool = "Glob" /\ call.left # <<>>
  /\ LET c == [Visit(call) EXCEPT !.left = Tail(@)]
         f == Head(call.left)
         hit == [c EXCEPT !.found = @ \cup {f}]
         full == [hit EXCEPT !.truncated = TRUE]
     IN call' = CASE ShouldAbort(c) -> Answer(Aborted(c), GlobStatus(Aborted(c)))
                  [] ~ShouldAbort(c) /\ f \notin Wanted -> c
                  [] OTHER -> IF Cardinality(hit.found) >= Limit
                              THEN Answer(full, GlobStatus(full)) ELSE hit
  /\ UNCHANGED <<there, clock, page, seen, changes>>

WalkOver == call.pc = "walk" /\ call.left = <<>> /\ \A d \in Dirs : d <= call.dir

GlobEnds ==
  /\ WalkOver /\ call.tool = "Glob"
  /\ call' = Answer(call, GlobStatus(call))
  /\ UNCHANGED <<there, clock, page, seen, changes>>

-----------------------------------------------------------------------------
(* Grep.                                                                   *)

(* Matches are sorted by the time of their files, which may be any order.  *)
GrepAnswer(c) ==
  IF Cardinality(c.found) <= Limit
  THEN call' = Answer(c, GrepStatus(c))
  ELSE \E kept \in {S \in SUBSET c.found : Cardinality(S) = Limit} :
         LET t == [c EXCEPT !.found = kept, !.truncated = TRUE] IN
         call' = Answer(t, GrepStatus(t))

RgSucceeds ==
  /\ call.pc = "rg" /\ ~TimedOut
  /\ GrepAnswer([call EXCEPT !.found = there \cap Wanted])
  /\ UNCHANGED <<there, clock, page, seen, changes>>

(* What ripgrep printed before its time was over is kept.                  *)
RgTimesOut ==
  /\ call.pc = "rg" /\ TimedOut
  /\ \E S \in SUBSET (there \cap Wanted) :
       GrepAnswer([call EXCEPT !.found = S, !.reason = "timeout"])
  /\ UNCHANGED <<there, clock, page, seen, changes>>

(* Exit code 2 is taken for a pattern that is not valid.                   *)
RgRefuses ==
  /\ call.pc = "rg" /\ ~TimedOut
  /\ call' = Answer(call, "error")
  /\ UNCHANGED <<there, clock, page, seen, changes>>

(* Without ripgrep, or when it fails, the walk has what is left of the time. *)
FallBack ==
  /\ call.pc = "rg" /\ ~TimedOut
  /\ \E reason \in {"rg_failed", "rg_not_found"} :
       call' = [call EXCEPT !.pc = "walk", !.fallback = TRUE, !.reason = reason]
  /\ UNCHANGED <<there, clock, page, seen, changes>>

GrepCutShort ==
  /\ call.pc = "walk" /\ call.tool = "Grep" /\ call.left # <<>> /\ TimedOut
  /\ GrepAnswer([call EXCEPT !.reason = "timeout"])
  /\ UNCHANGED <<there, clock, page, seen, changes>>

(* A file that is gone, or cannot be read, is passed over; this walk does    *)
(* not leave hidden files out, as ripgrep does.                             *)
GrepFile ==
  /\ call.pc = "walk" /\ call.tool = "Grep" /\ call.left # <<>> /\ ~TimedOut
  /\ LET f == Head(call.left) IN
     \E hit \in BOOLEAN :
       /\ hit => f \in there \cap Matching
       /\ call' = [call EXCEPT !.left = Tail(@), !.found = IF hit THEN @ \cup {f} ELSE @]
  /\ UNCHANGED <<there, clock, page, seen, changes>>

GrepEnds ==
  /\ WalkOver /\ call.tool = "Grep"
  /\ GrepAnswer(call)
  /\ UNCHANGED <<there, clock, page, seen, changes>>

-----------------------------------------------------------------------------
(* LS: a page is cut out of the sorted listing of that moment; the answer   *)
(* names the offset of the next one.                                        *)

Listing == InOrder(there \ (Hidden \cup Ignored))
PageEnd(total) == IF page.offset + Limit < total THEN page.offset + Limit ELSE total

ListPage ==
  /\ call.pc = "idle" /\ ~page.done
  /\ LET total == Len(Listing)
         end == PageEnd(total)
         start == IF page.offset < total THEN page.offset ELSE total
     IN page' = [page EXCEPT !.offset = end, !.shown = @ \o SubSeq(Listing, start + 1, end),
                             !.done = end >= total]
  /\ UNCHANGED <<there, clock, call, seen, changes>>

ListAgain ==
  /\ page.done
  /\ page' = [offset |-> 0, shown |-> <<>>, done |-> FALSE, steady |-> TRUE]
  /\ UNCHANGED <<there, clock, call, seen, changes>>

-----------------------------------------------------------------------------
Next ==
  \/ \E f \in Files : Change(f)
  \/ Tick
  \/ StartGlob \/ StartGrep
  \/ EnterDir \/ GlobFile \/ GlobEnds
  \/ RgSucceeds \/ RgTimesOut \/ RgRefuses \/ FallBack
  \/ GrepCutShort \/ GrepFile \/ GrepEnds
  \/ ListPage \/ ListAgain

Spec == Init /\ [][Next]_vars

-----------------------------------------------------------------------------
(* search_files_by_name.py:369-372, search_code.py:476-480, list_files.py:   *)
(* an answer of success has every match that was there all through the call, *)
(* an error has none, and what is answered was there at some time; the pages *)
(* of a directory that does not change show all of it, once.                *)
AnswersAreHonest ==
  /\ call.status = "success" => seen.always \cap Wanted \subseteq call.found /\ ~call.truncated
  /\ call.status = "error" => call.found = {}
  /\ call.found \subseteq seen.ever \cap Matching /\ (call.pc = "idle" => Cardinality(call.found) <= Limit)
  /\ page.done /\ page.steady => page.shown = Listing

=============================================================================
