------------------------------- MODULE WebReads -------------------------------
(***************************************************************************)
(* WebFetch, called by several agents of one process that share a limit of   *)
(* requests per host and a cache of results.  A page is read by a request    *)
(* that may be redirected; each hop counts against the limit of its host.    *)
(* What a page says is the time at which it was read.                       *)
(***************************************************************************)
EXTENDS Naturals, Sequences, FiniteSets

CONSTANTS
  None, Readers,
  Pages,
  Host,               \* of each page
  Redirects,          \* of each page: None, or the page it may send the reader to
  Respected,          \* WEB_FETCH_RESPECT_ROBOTS
  Forbidden,          \* pages that robots.txt of their host forbids
  MaxRequests, Window, MaxRedirects,   \* of the limiter, and of redirects
  Ttl, RobotsTtl, MaxEntries,          \* of the caches
  MaxDelay,           \* from reading the clock to taking the limiter's lock
  MaxTime, MaxReads   \* bounds

Hosts == {Host[p] : p \in Pages}

VARIABLES
  now,
  history,        \* of the limiter: the times of the requests it let pass
  cache,          \* of results: [at, expires]
  robots,         \* of robots.txt: the time until which what is known is used
  fetch,          \* what a reader is doing
  answer,         \* what its last call returned
  sent,           \* for the properties: the requests to each host and their times
  reads

vars == <<now, history, cache, robots, fetch, answer, sent, reads>>
limiter == <<history, sent>>
caches == <<cache, robots>>

Init ==
  /\ now = 0 /\ reads = 0
  /\ history = [h \in Hosts |-> <<>>] /\ sent = [h \in Hosts |-> <<>>]
  /\ cache = [p \in Pages |-> None] /\ robots = [h \in Hosts |-> None]
  /\ fetch = [r \in Readers |-> None] /\ answer = [r \in Readers |-> None]

(* A reader waits for the limiter's lock no longer than MaxDelay.           *)
Tick ==
  /\ now < MaxTime /\ now' = now + 1
  /\ \A r \in Readers : fetch[r] # None /\ fetch[r].step = "acquire" =>
       now < fetch[r].clock + MaxDelay
  /\ UNCHANGED <<limiter, caches, fetch, answer, reads>>

-----------------------------------------------------------------------------
(* A call.                                                                 *)

Goes(r, f) == fetch' = [fetch EXCEPT ![r] = f]
Returns(r, result) == Goes(r, None) /\ answer' = [answer EXCEPT ![r] = result]
Failed(kind) == [kind |-> kind, at |-> None]

Request(page, fresh, attempt) ==
  [page |-> page, at |-> page, fresh |-> fresh, attempt |-> attempt, began |-> now,
   hops |-> 0, clock |-> None, step |-> "robots", read |-> None]

(* Mutant: an entry counts for as long as it is there.                      *)
CachedForEver(page) == cache[page] # None
Cached(page) == cache[page] # None /\ cache[page].expires > now

(* fetch_url(), at first or for the one retry: the cache, then the request. *)
Look(r, page, fresh, attempt) ==
  IF ~fresh /\ Cached(page)
  THEN /\ Returns(r, [kind |-> "page", at |-> cache[page].at]) /\ UNCHANGED cache
  ELSE /\ Goes(r, Request(page, fresh, attempt)) /\ answer' = [answer EXCEPT ![r] = None]
       /\ cache' = IF fresh THEN cache ELSE [cache EXCEPT ![page] = None]

Call(r, page, fresh) ==
  /\ fetch[r] = None /\ reads < MaxReads /\ reads' = reads + 1
  /\ Look(r, page, fresh, 0)
  /\ UNCHANGED <<now, limiter, robots>>

Denies(page, reached) == reached /\ page \in Forbidden

(* robots.txt of the first host, when it is respected; one that cannot be     *)
(* read allows everything until it is asked for again.                      *)
AskRobots(r) ==
  /\ fetch[r] # None /\ fetch[r].step = "robots"
  /\ LET f == fetch[r]  h == Host[f.page] IN
     IF ~Respected
     THEN Goes(r, [f EXCEPT !.step = "clock"]) /\ UNCHANGED <<robots, answer>>
     ELSE \E reached \in IF robots[h] # None /\ robots[h].until > now
                         THEN {robots[h].reached} ELSE BOOLEAN :
            /\ robots' = [robots EXCEPT ![h] =
                 IF @ # None /\ @.until > now THEN @
                 ELSE [reached |-> reached, until |-> now + RobotsTtl]]
            /\ IF Denies(f.page, reached)
               THEN Returns(r, Failed("denied"))
               ELSE Goes(r, [f EXCEPT !.step = "clock"]) /\ UNCHANGED answer
  /\ UNCHANGED <<now, limiter, cache, reads>>

ReadClock(r) ==
  /\ fetch[r] # None /\ fetch[r].step = "clock"
  /\ Goes(r, [fetch[r] EXCEPT !.step = "acquire", !.clock = now])
  /\ UNCHANGED <<now, limiter, caches, answer, reads>>

(* Mutant: a request leaves the window a unit early.                        *)
RecentOfLess(h, clock) == SelectSeq(history[h], LAMBDA t : t + Window - 1 > clock)

(* The requests in the window before the clock that was read.               *)
Recent(h, clock) == SelectSeq(history[h], LAMBDA t : t + Window > clock)

Acquire(r) ==
  /\ fetch[r] # None /\ fetch[r].step = "acquire"
  /\ LET f == fetch[r]  h == Host[f.at]  recent == Recent(h, f.clock) IN
     IF Len(recent) >= MaxRequests
     THEN /\ history' = [history EXCEPT ![h] = recent] /\ UNCHANGED sent
          /\ Returns(r, Failed("limited"))
     ELSE /\ history' = [history EXCEPT ![h] = Append(recent, f.clock)]
          /\ sent' = [sent EXCEPT ![h] = Append(@, now)]
          /\ Goes(r, [f EXCEPT !.step = "response"]) /\ UNCHANGED answer
  /\ UNCHANGED <<now, caches, reads>>

(* A redirect is followed MaxRedirects times.                               *)
Redirected(r) ==
  /\ fetch[r] # None /\ fetch[r].step = "response" /\ Redirects[fetch[r].at] # None
  /\ LET f == fetch[r] IN
     IF f.hops >= MaxRedirects
     THEN Returns(r, Failed("failed"))
     ELSE /\ Goes(r, [f EXCEPT !.at = Redirects[f.at], !.hops = @ + 1, !.step = "clock"])
          /\ UNCHANGED answer
  /\ UNCHANGED <<now, limiter, caches, reads>>

Responds(r) ==
  /\ fetch[r] # None /\ fetch[r].step = "response"
  /\ \/ Goes(r, [fetch[r] EXCEPT !.step = "put", !.read = now]) /\ UNCHANGED answer
     \/ Returns(r, Failed("failed"))
  /\ UNCHANGED <<now, limiter, caches, reads>>

(* A time-out is tried once again, with the cache looked up anew.           *)
TimesOut(r) ==
  /\ fetch[r] # None /\ fetch[r].step = "response"
  /\ IF fetch[r].attempt = 1
     THEN Returns(r, Failed("timeout")) /\ UNCHANGED cache
     ELSE Look(r, fetch[r].page, fetch[r].fresh, 1)
  /\ UNCHANGED <<now, limiter, robots, reads>>

(* Mutant: the entry counts from the time it is stored.                     *)
ExpiryOfStoring(f) == now + Ttl
Expiry(f) == f.began + Ttl

Oldest ==
  {p \in Pages : /\ cache[p] # None
                 /\ \A q \in Pages : cache[q] # None => cache[p].expires <= cache[q].expires}

(* A full cache loses its oldest entry, for a page it has as well.           *)
Put(r) ==
  /\ fetch[r] # None /\ fetch[r].step = "put"
  /\ LET f == fetch[r]
         entry == [at |-> f.read, expires |-> Expiry(f)]
         full == Cardinality({p \in Pages : cache[p] # None}) >= MaxEntries
     IN /\ Returns(r, [kind |-> "page", at |-> f.read])
        /\ IF f.fresh THEN UNCHANGED cache
           ELSE \E out \in IF full THEN Oldest ELSE {None} :
                  cache' = [p \in Pages |-> IF p = f.page THEN entry
                                            ELSE IF p = out THEN None ELSE cache[p]]
  /\ UNCHANGED <<now, limiter, robots, reads>>

Next ==
  \/ Tick
  \/ \E r \in Readers :
       \/ \E p \in Pages, fresh \in BOOLEAN : Call(r, p, fresh)
       \/ AskRobots(r) \/ ReadClock(r) \/ Acquire(r) \/ Redirected(r) \/ Responds(r)
       \/ TimesOut(r) \/ Put(r)

Spec == Init /\ [][Next]_vars

-----------------------------------------------------------------------------
(* However calls, redirects and retries of all agents meet, no host gets more *)
(* than MaxRequests requests within the window, less what the lock delays.   *)
HostsAreSpared ==
  \A h \in Hosts, start \in 0..MaxTime :
    Cardinality({n \in DOMAIN sent[h] : sent[h][n] \in start..(start + Window - MaxDelay - 1)})
      <= MaxRequests

(* A page that a call returns was read after the call began, or within the    *)
(* time that the cache is good for.                                         *)
AnswersAreRecent ==
  \A r \in Readers :
    fetch'[r] = None /\ answer'[r] # answer[r] /\ answer'[r].kind = "page" =>
      \/ answer'[r].at + Ttl > now
      \/ fetch[r] # None /\ answer'[r].at >= fetch[r].began
=============================================================================
