----------------------------- MODULE RateSeries -----------------------------
(***************************************************************************)
(* The registry of rate series in stats/engine.go: a sync.Map from process *)
(* or parameter to its series, a counter of the series kept apart from the *)
(* map, and a cleanup that any call may have to run.  The workers call     *)
(* Observe without a common lock, so every atomic operation is a step.     *)
(*                                                                         *)
(*   idle -> due -> [claim -> expire -> cap] -> find -> [add] -> touch     *)
(*                                                                         *)
(* with delete -> uncount in between for each series the cleanup removes.  *)
(* What is then measured on the series (rates, z-scores, bursts) is left   *)
(* to the modules of the statistics.                                       *)
(***************************************************************************)
EXTENDS Clock, FiniteSets, FiniteSetsExt

CONSTANTS Key, NoKey, Thread,
          EntryTTL, CleanupInterval,
          MaxEntries        \* the hard cap; 0 for none

ASSUME RateSeriesAssumption == /\ IsFiniteSet(Key) /\ IsFiniteSet(Thread)
                               /\ EntryTTL \in Nat \ {0}
                               /\ CleanupInterval \in Nat \ {0}
                               /\ MaxEntries \in Nat
                               /\ MaxTime # 0   \* the clock starts at 1

VARIABLES
    series,             \* the map: key -> series
    lastSeen,           \* series -> the stamp of its last observation, or 0
    count,              \* the counter of series
    lastCleanup,        \* the stamp of the last cleanup, or 0
    pc, call,           \* thread -> its step in Observe, and its locals
    arrivals,           \* history: thread -> series that came during its cleanup
    overlapped          \* history: two cleanups ran at the same time
shared == <<series, lastSeen, count, lastCleanup>>
history == <<arrivals, overlapped>>
vars == <<clock, shared, pc, call, history>>

\* One series for each key and one for each thread that still holds a removed
\* one are enough: what neither refers to is garbage.
Series == 1 .. Cardinality(Key) + Cardinality(Thread)

Cleaning == {t \in Thread :
               pc[t] \in {"expire", "expireDelete", "expireUncount",
                          "cap", "capDelete", "capUncount"}}
Adding == {t \in Thread : pc[t] = "add"}
Removing == {t \in Thread : pc[t] \in {"expireUncount", "capUncount"}}

Idle == [key |-> NoKey, now |-> 0, last |-> 0, left |-> {}, excess |-> 0,
         victim |-> NoKey, series |-> 0]

Init == /\ clock = 1
        /\ series = [k \in {} |-> 0]
        /\ lastSeen = [s \in Series |-> 0]
        /\ count = 0
        /\ lastCleanup = 0
        /\ pc = [t \in Thread |-> "idle"]
        /\ call = [t \in Thread |-> Idle]
        /\ arrivals = [t \in Thread |-> 0]
        /\ overlapped = FALSE

Goto(t, step) == pc' = [pc EXCEPT ![t] = step]

\* On to the series of the key, with nothing kept of the cleanup.
Proceed(t) ==
    /\ Goto(t, "find")
    /\ call' = [call EXCEPT ![t] = [Idle EXCEPT !.key = call[t].key,
                                                !.now = call[t].now]]

-----------------------------------------------------------------------------
(* Observe takes the stamp its caller read before, and may have to clean up. *)

Observe(t, k) ==
    /\ pc[t] = "idle"
    /\ Goto(t, "due")
    /\ call' = [call EXCEPT ![t].key = k, ![t].now = clock]
    /\ UNCHANGED <<clock, shared, history>>

CheckDue(t) ==
    /\ pc[t] = "due"
    /\ IF lastCleanup # 0 /\ call[t].now - lastCleanup < CleanupInterval
       THEN Proceed(t)
       ELSE Goto(t, "claim") /\ call' = [call EXCEPT ![t].last = lastCleanup]
    /\ UNCHANGED <<clock, shared, history>>

\* Mutant: a store instead of a compare-and-swap.
Overwrites(t) == TRUE

CompareAndSwapSucceeds(t) == lastCleanup = call[t].last

\* One of the callers that found the cleanup due runs it.
Claim(t) ==
    /\ pc[t] = "claim"
    /\ IF CompareAndSwapSucceeds(t)
       THEN /\ lastCleanup' = call[t].now
            /\ Goto(t, "expire")
            /\ call' = [call EXCEPT ![t].left = Key]
            /\ arrivals' = [arrivals EXCEPT ![t] = Cardinality(Adding)]
            /\ overlapped' = (overlapped \/ Cleaning # {})
       ELSE /\ Proceed(t)
            /\ UNCHANGED <<lastCleanup, history>>
    /\ UNCHANGED <<clock, series, lastSeen, count>>

-----------------------------------------------------------------------------
(* The cleanup.  Range looks at each key once, in any order, and finds it  *)
(* or not: a series stored meanwhile may be visited or missed.             *)

Expired(t, k) == lastSeen[series[k]] < call[t].now - EntryTTL

Visit(t, k, doomed) ==
    /\ k \in call[t].left
    /\ call' = [call EXCEPT ![t].left = @ \ {k},
                            ![t].victim = IF doomed THEN k ELSE @]
    /\ UNCHANGED <<clock, shared, history>>

ExpireVisit(t, k) ==
    LET doomed == k \in DOMAIN series /\ Expired(t, k)
    IN  /\ pc[t] = "expire"
        /\ Visit(t, k, doomed)
        /\ Goto(t, IF doomed THEN "expireDelete" ELSE "expire")

\* Mutant: the cap lets one series too many pass.
LaxExcess == count - MaxEntries - 1

Excess == count - MaxEntries

EndExpire(t) ==
    /\ pc[t] = "expire"
    /\ call[t].left = {}
    /\ IF MaxEntries > 0 /\ Excess > 0
       THEN /\ Goto(t, "cap")
            /\ call' = [call EXCEPT ![t].left = Key, ![t].excess = Excess]
       ELSE Proceed(t)
    /\ UNCHANGED <<clock, shared, history>>

CapVisit(t, k) ==
    LET doomed == k \in DOMAIN series
    IN  /\ pc[t] = "cap"
        /\ call[t].excess > 0
        /\ Visit(t, k, doomed)
        /\ Goto(t, IF doomed THEN "capDelete" ELSE "cap")

EndCap(t) ==
    /\ pc[t] = "cap"
    /\ call[t].excess = 0 \/ call[t].left = {}
    /\ Proceed(t)
    /\ UNCHANGED <<clock, shared, history>>

\* Delete removes whatever the key leads to by now, or nothing.
Delete(t) ==
    /\ pc[t] \in {"expireDelete", "capDelete"}
    /\ series' = [k \in DOMAIN series \ {call[t].victim} |-> series[k]]
    /\ Goto(t, IF pc[t] = "expireDelete" THEN "expireUncount" ELSE "capUncount")
    /\ UNCHANGED <<clock, lastSeen, count, lastCleanup, call, history>>

\* Mutant: the cap forgets to count what it removes.
UncountedByCap(t) == IF pc[t] = "capUncount" THEN count ELSE count - 1

Decremented(t) == count - 1

Uncount(t) ==
    /\ pc[t] \in {"expireUncount", "capUncount"}
    /\ count' = Decremented(t)
    /\ Goto(t, IF pc[t] = "expireUncount" THEN "expire" ELSE "cap")
    /\ call' = [call EXCEPT ![t].excess = IF pc[t] = "capUncount" THEN @ - 1 ELSE @]
    /\ UNCHANGED <<clock, series, lastSeen, lastCleanup, history>>

-----------------------------------------------------------------------------
(* The series of the key, an existing one or a new one. *)

InUse == {series[k] : k \in DOMAIN series} \cup {call[t].series : t \in Thread}

\* Load, and LoadOrStore when it finds nothing.
Find(t) ==
    LET k     == call[t].key
        found == k \in DOMAIN series
        s     == IF found THEN series[k] ELSE Min(Series \ InUse)
    IN  /\ pc[t] = "find"
        /\ Goto(t, IF found THEN "touch" ELSE "add")
        /\ call' = [call EXCEPT ![t].series = s]
        /\ IF found
           THEN UNCHANGED <<shared, history>>
           ELSE /\ series' = [j \in DOMAIN series \cup {k} |->
                                IF j = k THEN s ELSE series[j]]
                /\ lastSeen' = [lastSeen EXCEPT ![s] = 0]
                /\ arrivals' = [u \in Thread |-> IF u \in Cleaning
                                  THEN arrivals[u] + 1 ELSE arrivals[u]]
                /\ UNCHANGED <<count, lastCleanup, overlapped>>
        /\ UNCHANGED clock

\* Mutant: a new series is not counted.
NotIncremented(t) == count

Incremented(t) == count + 1

Add(t) ==
    /\ pc[t] = "add"
    /\ count' = Incremented(t)
    /\ Goto(t, "touch")
    /\ UNCHANGED <<clock, series, lastSeen, lastCleanup, call, history>>

\* Mutant: the moment of expiry is stored instead of the observation's.
ExpiryStamp(t) == call[t].now + EntryTTL

SeenStamp(t) == call[t].now

\* lastSeen.Store; what follows is measured on the series alone.
Touch(t) ==
    /\ pc[t] = "touch"
    /\ lastSeen' = [lastSeen EXCEPT ![call[t].series] = SeenStamp(t)]
    /\ Goto(t, "idle")
    /\ call' = [call EXCEPT ![t] = Idle]
    /\ arrivals' = [arrivals EXCEPT ![t] = 0]
    /\ UNCHANGED <<clock, series, count, lastCleanup, overlapped>>

TimeStep == Tick /\ UNCHANGED <<shared, pc, call, history>>

Next == \/ TimeStep
        \/ \E t \in Thread :
              \/ \E k \in Key : Observe(t, k) \/ ExpireVisit(t, k) \/ CapVisit(t, k)
              \/ CheckDue(t) \/ Claim(t) \/ EndExpire(t) \/ EndCap(t)
              \/ Delete(t) \/ Uncount(t) \/ Find(t) \/ Add(t) \/ Touch(t)

Spec == Init /\ [][Next]_vars

-----------------------------------------------------------------------------
TypeOK ==
    /\ clock \in 1 .. MaxTime
    /\ DOMAIN series \subseteq Key
    /\ \A k \in DOMAIN series : series[k] \in Series
    /\ \A j, k \in DOMAIN series : series[j] = series[k] => j = k
    /\ lastSeen \in [Series -> 0 .. MaxTime]
    /\ count \in Int
    /\ lastCleanup \in 0 .. MaxTime
    /\ DOMAIN call = Thread
    /\ arrivals \in [Thread -> Nat]
    /\ overlapped \in BOOLEAN

\* The counter, with the additions and removals that are still to be counted,
\* never exceeds the number of series in the map: cleanups that overlap can in
\* the end only make it too small.  For a moment it may be too large by what is
\* still to be counted: between a deletion (engine.go:315) and its removal from
\* the counter a second cleanup that overlaps takes an excess with the deleted
\* series in it, and evicts one too many.
CountNeverOverstates ==
    count + Cardinality(Adding) - Cardinality(Removing)
       <= Cardinality(DOMAIN series)

\* As long as no two cleanups have overlapped, the counter is exact.
LoneCleanupsCountExactly ==
    ~overlapped =>
       count + Cardinality(Adding) - Cardinality(Removing)
          = Cardinality(DOMAIN series)

\* Whatever order the callers' stamps arrive in, cleanups are at least an
\* interval apart: no stamp that was taken earlier turns the time back.
CleanupsAreSpaced ==
    [][lastCleanup' # lastCleanup /\ lastCleanup # 0
         => lastCleanup' - lastCleanup >= CleanupInterval]_vars

\* The "hard cap": when a cleanup ends that no other has ever overlapped, the
\* map exceeds the limit at most by the series stored while it ran.
LoneCleanupCaps ==
    [][\A t \in Cleaning :
          pc'[t] = "find" /\ MaxEntries > 0 /\ ~overlapped
             => Cardinality(DOMAIN series') <= MaxEntries + arrivals[t]]_vars
=============================================================================
