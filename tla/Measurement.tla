---------------------------- MODULE Measurement ----------------------------
(***************************************************************************)
(* One rate series under concurrent workers: what Observe of               *)
(* stats/engine.go does once it has found the series.  Each shared access  *)
(* is a step: the burst detector (its lock), the atomic swap of the time   *)
(* of the last event, the snapshot and the update of the running           *)
(* statistics (their lock).  processEvent has taken the time long before.  *)
(*                                                                         *)
(*   idle -> burst -> swap (-> snapshot -> update) -> idle                 *)
(*                                                                         *)
(* The statistics themselves are floating point: of them the model keeps   *)
(* the number of samples, and of a sample its interval, the inverse of the *)
(* rate.  The smoothed average is updated with them and read by no step.   *)
(***************************************************************************)
EXTENDS BurstDetector

CONSTANTS Thread,
          MinInterval,      \* the shortest interval, for the highest rate
          MaxCalls          \* bound: calls of Observe

ASSUME MeasurementAssumption == /\ MinInterval \in Nat \ {0}
                                /\ MaxCalls \in Nat

VARIABLES
    calls,                  \* for the bound
    pc, call,               \* thread -> its step, and its locals
    lastEvent,              \* the time of the last event, or NoTime
    samples,                \* samples in the running statistics
    stamps,                 \* history: the times of the events, as swapped in
    total                   \* history: the sum of the intervals measured
seriesVars == <<calls, pc, call, lastEvent, samples, stamps, total>>
vars == <<clock, burstVars, seriesVars>>

NoTime == -1
Steps == {"idle", "burst", "swap", "snapshot", "update"}
NoCall == [now |-> NoTime]

Init == /\ clock = 0
        /\ BurstInit
        /\ calls = 0
        /\ pc = [t \in Thread |-> "idle"]
        /\ call = [t \in Thread |-> NoCall]
        /\ lastEvent = NoTime
        /\ samples = 0
        /\ stamps = << >>
        /\ total = 0

-----------------------------------------------------------------------------
Goto(t, step) == pc' = [pc EXCEPT ![t] = step]
Return(t) == Goto(t, "idle") /\ call' = [call EXCEPT ![t] = NoCall]

\* processEvent takes the time and, later, calls Observe with it.
Begin(t) ==
    /\ pc[t] = "idle"
    /\ calls < MaxCalls
    /\ calls' = calls + 1
    /\ call' = [call EXCEPT ![t] = [now |-> clock]]
    /\ Goto(t, "burst")
    /\ UNCHANGED <<clock, burstVars, lastEvent, samples, stamps, total>>

AddToBurst(t) ==
    /\ pc[t] = "burst"
    /\ Add(call[t].now)
    /\ Goto(t, "swap")
    /\ UNCHANGED <<clock, calls, call, lastEvent, samples, stamps, total>>

Max2(a, b) == IF a >= b THEN a ELSE b

\* dt: what lies back further than the last event, or too close to it, counts
\* as the shortest interval.
Interval(now, prev) == Max2(now - prev, MinInterval)

Swapped(t, prev) ==
    /\ stamps' = Append(stamps, call[t].now)
    /\ IF prev = NoTime
       THEN Return(t) /\ UNCHANGED total
       ELSE /\ total' = total + Interval(call[t].now, prev)
            /\ call' = [call EXCEPT ![t] = [now   |-> @.now,
                                            place |-> Len(stamps) + 1]]
            /\ Goto(t, "snapshot")

\* Mutant: a load and a store instead of one atomic swap.
LoadThenStore(t) ==
    \/ /\ pc[t] = "swap"
       /\ call' = [call EXCEPT ![t] = [now |-> @.now, prev |-> lastEvent]]
       /\ Goto(t, "store")
       /\ UNCHANGED <<clock, burstVars, calls, lastEvent, samples, stamps, total>>
    \/ /\ pc[t] = "store"
       /\ lastEvent' = call[t].now
       /\ Swapped(t, call[t].prev)
       /\ UNCHANGED <<clock, burstVars, calls, samples>>

\* lastEvent.Swap; the first event of a series has no interval.
SwapLastEvent(t) ==
    /\ pc[t] = "swap"
    /\ lastEvent' = call[t].now
    /\ Swapped(t, lastEvent)
    /\ UNCHANGED <<clock, burstVars, calls, samples>>

\* running.Snapshot, which the rate is then compared with.
Snapshot(t) ==
    /\ pc[t] = "snapshot"
    /\ call' = [call EXCEPT ![t] = [now   |-> @.now, place |-> @.place,
                                    baseline |-> samples]]
    /\ Goto(t, "update")
    /\ UNCHANGED <<clock, burstVars, calls, lastEvent, samples, stamps, total>>

\* Mutant: a rate that there is no baseline for yet is not added to it.
UpdateKnown(t) == IF call[t].baseline = 0 THEN samples ELSE samples + 1

SamplesAfter(t) == samples + 1

Update(t) ==
    /\ pc[t] = "update"
    /\ samples' = SamplesAfter(t)
    /\ Return(t)
    /\ UNCHANGED <<clock, burstVars, calls, lastEvent, stamps, total>>

Observe(t) == \/ Begin(t) \/ AddToBurst(t) \/ SwapLastEvent(t)
              \/ Snapshot(t) \/ Update(t)

Next == \/ \E t \in Thread : Observe(t)
        \/ Tick /\ UNCHANGED <<burstVars, seriesVars>>

Spec == Init /\ [][Next]_vars

-----------------------------------------------------------------------------
Measuring == {t \in Thread : pc[t] \in {"snapshot", "update"}}

TypeOK == /\ clock \in 0 .. MaxTime
          /\ BurstTypeOK
          /\ calls \in 0 .. MaxCalls
          /\ pc \in [Thread -> Steps]
          /\ \A t \in Thread : call[t].now \in 0 .. clock \cup {NoTime}
          /\ lastEvent \in 0 .. clock \cup {NoTime}
          /\ samples \in Nat /\ total \in Nat
          /\ stamps \in Seq(0 .. clock)

\* Every event of a series but the first enters its statistics once, however
\* the workers interleave (engine.go:243 and :263).
MeasuredOnce == samples + Cardinality(Measuring) = Max2(Len(stamps) - 1, 0)

Spread == \A i \in 1 .. Len(stamps) - 1 : stamps[i + 1] - stamps[i] >= MinInterval

\* While the events reach the series in the order of their times, no interval
\* between two of them is measured twice or left out.
InOrderTimeIsExact ==
    stamps # << >> /\ Spread => total = lastEvent - stamps[1]

\* A worker compares a rate with statistics that other workers may not have
\* brought up to date: they lack fewer samples than there are workers, of the
\* events before its own (engine.go:259).
BaselineIsFresh ==
    \A t \in Thread : pc[t] = "update" =>
       (call[t].place - 2) - call[t].baseline < Cardinality(Thread)
=============================================================================
