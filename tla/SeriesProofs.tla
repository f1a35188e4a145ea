---------------------------- MODULE SeriesProofs ----------------------------
(***************************************************************************)
(* The counter and the cleanups of the registry of series, for any number  *)
(* of workers and keys, with or without a cap.                             *)
(***************************************************************************)
EXTENDS RateSeries, FiniteSetTheorems, WellFoundedInduction, TLAPS

Fields == {"key", "now", "last", "left", "excess", "victim", "series"}

\* The types the arguments below need.
ShapeInv ==
    /\ clock \in Int /\ count \in Int /\ lastCleanup \in Int
    /\ DOMAIN pc = Thread /\ DOMAIN call = Thread
    /\ \A t \in Thread : /\ DOMAIN call[t] = Fields
                         /\ call[t].now \in Int /\ call[t].last \in Int
    /\ IsFiniteSet(DOMAIN series)

\* One worker has moved, and its locals keep their shape.
LEMMA ShapeFrame ==
  ASSUME ShapeInv, NEW t \in Thread,
         DOMAIN pc' = DOMAIN pc, DOMAIN call' = DOMAIN call,
         \A u \in Thread : u # t => call'[u] = call[u],
         DOMAIN call'[t] = Fields,
         call'[t].now \in Int, call'[t].last \in Int,
         clock' \in Int, count' \in Int, lastCleanup' \in Int,
         IsFiniteSet(DOMAIN series')
  PROVE  ShapeInv'
BY DEF ShapeInv

LEMMA IdleShape ==
  /\ DOMAIN Idle = Fields /\ Idle.now = 0 /\ Idle.last = 0
  /\ Idle.victim = NoKey
BY DEF Idle, Fields

LEMMA ProceedShape ==
  ASSUME ShapeInv, NEW t \in Thread, Proceed(t)
  PROVE  /\ pc' = [pc EXCEPT ![t] = "find"]
         /\ DOMAIN call' = DOMAIN call
         /\ \A u \in Thread : u # t => call'[u] = call[u]
         /\ DOMAIN call'[t] = Fields
         /\ call'[t].now = call[t].now /\ call'[t].last = 0
<1> DEFINE c == [Idle EXCEPT !.key = call[t].key, !.now = call[t].now]
<1>1. call' = [call EXCEPT ![t] = c] /\ pc' = [pc EXCEPT ![t] = "find"]
  BY DEF Proceed, Goto
<1>2. DOMAIN c = Fields /\ c.now = call[t].now /\ c.last = 0
  BY IdleShape DEF Fields
<1> HIDE DEF c
<1> QED
  BY <1>1, <1>2 DEF ShapeInv

LEMMA ShapeStep == ShapeInv /\ [Next]_vars => ShapeInv'
<1> SUFFICES ASSUME ShapeInv, [Next]_vars PROVE ShapeInv'
  OBVIOUS
<1>1. CASE TimeStep \/ UNCHANGED vars
  BY <1>1 DEF TimeStep, Tick, shared, vars, ShapeInv
<1>2. ASSUME NEW t \in Thread, NEW k \in Key,
             Observe(t, k) \/ ExpireVisit(t, k) \/ CapVisit(t, k)
      PROVE  ShapeInv'
  <2>1. /\ DOMAIN pc' = DOMAIN pc /\ DOMAIN call' = DOMAIN call
        /\ \A u \in Thread : u # t => call'[u] = call[u]
        /\ UNCHANGED <<clock, count, lastCleanup, series>>
    <3>1. CASE Observe(t, k)
      BY <3>1 DEF Observe, Goto, shared, ShapeInv
    <3>2. CASE ExpireVisit(t, k)
      BY <3>2 DEF ExpireVisit, Visit, Goto, shared, ShapeInv
    <3>3. CASE CapVisit(t, k)
      BY <3>3 DEF CapVisit, Visit, Goto, shared, ShapeInv
    <3> QED
      BY <1>2, <3>1, <3>2, <3>3
  <2>2. /\ DOMAIN call'[t] = Fields
        /\ call'[t].now \in Int /\ call'[t].last \in Int
    BY <1>2 DEF Observe, ExpireVisit, CapVisit, Visit, ShapeInv, Fields
  <2> QED
    BY <2>1, <2>2, ShapeFrame DEF ShapeInv
<1>3. ASSUME NEW t \in Thread,
             CheckDue(t) \/ Claim(t) \/ EndExpire(t) \/ EndCap(t)
      PROVE  ShapeInv'
  <2>1. /\ UNCHANGED <<clock, count, series>>
        /\ lastCleanup' \in Int
    BY <1>3 DEF CheckDue, Claim, EndExpire, EndCap, shared, ShapeInv
  <2>2. CASE Proceed(t)
    BY <2>1, <2>2, ProceedShape, ShapeFrame DEF ShapeInv
  <2>3. CASE ~Proceed(t)
    <3>1. /\ DOMAIN pc' = DOMAIN pc /\ DOMAIN call' = DOMAIN call
          /\ \A u \in Thread : u # t => call'[u] = call[u]
          /\ DOMAIN call'[t] = Fields
          /\ call'[t].now \in Int /\ call'[t].last \in Int
      BY <1>3, <2>3 DEF CheckDue, Claim, EndExpire, EndCap, Goto, ShapeInv, Fields
    <3> QED
      BY <2>1, <3>1, ShapeFrame DEF ShapeInv
  <2> QED
    BY <2>2, <2>3
<1>4. ASSUME NEW t \in Thread, Delete(t) PROVE ShapeInv'
  <2>1. IsFiniteSet(DOMAIN series')
    BY <1>4, FS_RemoveElement DEF Delete, ShapeInv
  <2> QED
    BY <1>4, <2>1 DEF Delete, Goto, ShapeInv
<1>5. ASSUME NEW t \in Thread, Uncount(t) PROVE ShapeInv'
  <2>1. /\ count' \in Int /\ DOMAIN call'[t] = Fields
        /\ call'[t].now \in Int /\ call'[t].last \in Int
    BY <1>5 DEF Uncount, Decremented, ShapeInv, Fields
  <2> QED
    BY <1>5, <2>1, ShapeFrame DEF Uncount, Goto, ShapeInv
<1>6. ASSUME NEW t \in Thread, Find(t) PROVE ShapeInv'
  <2>1. IsFiniteSet(DOMAIN series')
    BY <1>6, FS_AddElement DEF Find, shared, ShapeInv
  <2>2. /\ DOMAIN pc' = DOMAIN pc /\ DOMAIN call' = DOMAIN call
        /\ \A u \in Thread : u # t => call'[u] = call[u]
        /\ UNCHANGED <<clock, count, lastCleanup>>
    BY <1>6 DEF Find, Goto, shared
  <2>3. /\ DOMAIN call'[t] = Fields
        /\ call'[t].now \in Int /\ call'[t].last \in Int
    BY <1>6 DEF Find, ShapeInv, Fields
  <2> QED
    BY <2>1, <2>2, <2>3, ShapeFrame DEF ShapeInv
<1>7. ASSUME NEW t \in Thread, Add(t) PROVE ShapeInv'
  BY <1>7 DEF Add, Incremented, Goto, ShapeInv
<1>8. ASSUME NEW t \in Thread, Touch(t) PROVE ShapeInv'
  BY <1>8, IdleShape, ShapeFrame DEF Touch, Goto, ShapeInv
<1> QED
  BY <1>1, <1>2, <1>3, <1>4, <1>5, <1>6, <1>7, <1>8 DEF Next

LEMMA ShapeHolds == Spec => []ShapeInv
<1>1. Init => ShapeInv
  BY IdleShape, FS_EmptySet DEF Init, ShapeInv
<1> QED
  BY <1>1, ShapeStep, PTL DEF Spec

-----------------------------------------------------------------------------
(* Cleanups are an interval apart. *)

\* A caller about to claim the cleanup has found it due since the time it
\* remembers.
ClaimInv ==
    \A t \in Thread : pc[t] = "claim" =>
       call[t].last = 0 \/ call[t].now - call[t].last >= CleanupInterval

LEMMA ClaimStep == ShapeInv /\ ClaimInv /\ [Next]_vars => ClaimInv'
<1> SUFFICES ASSUME ShapeInv, ClaimInv, [Next]_vars,
                    NEW u \in Thread, pc'[u] = "claim"
             PROVE  call'[u].last = 0 \/ call'[u].now - call'[u].last >= CleanupInterval
  BY DEF ClaimInv
<1>1. CASE CheckDue(u)
  <2>1. ~Proceed(u)
    BY <1>1 DEF Proceed, Goto, ShapeInv
  <2>2. /\ lastCleanup = 0 \/ ~(call[u].now - lastCleanup < CleanupInterval)
        /\ call'[u].last = lastCleanup /\ call'[u].now = call[u].now
    BY <1>1, <2>1 DEF CheckDue, ShapeInv, Fields
  <2> QED
    BY <2>2, RateSeriesAssumption DEF ShapeInv
<1>2. CASE ~CheckDue(u)
  <2>1. pc[u] = "claim" /\ call'[u] = call[u]
    <3>1. CASE TimeStep \/ UNCHANGED vars
      BY <3>1 DEF TimeStep, vars
    <3>2. ASSUME NEW t \in Thread, NEW k \in Key,
                 Observe(t, k) \/ ExpireVisit(t, k) \/ CapVisit(t, k)
          PROVE  pc[u] = "claim" /\ call'[u] = call[u]
      BY <3>2 DEF Observe, ExpireVisit, CapVisit, Visit, Goto, ShapeInv
    <3>3. ASSUME NEW t \in Thread,
                 CheckDue(t) \/ Claim(t) \/ EndExpire(t) \/ EndCap(t)
          PROVE  pc[u] = "claim" /\ call'[u] = call[u]
      BY <1>2, <3>3
      DEF CheckDue, Claim, EndExpire, EndCap, Proceed, Goto, ShapeInv
    <3>4. ASSUME NEW t \in Thread,
                 Delete(t) \/ Uncount(t) \/ Find(t) \/ Add(t) \/ Touch(t)
          PROVE  pc[u] = "claim" /\ call'[u] = call[u]
      BY <3>4 DEF Delete, Uncount, Find, Add, Touch, Goto, ShapeInv
    <3> QED
      BY <3>1, <3>2, <3>3, <3>4 DEF Next
  <2> QED
    BY <2>1 DEF ClaimInv
<1> QED
  BY <1>1, <1>2

\* Whatever stamps the callers arrive with, and however long they are delayed
\* between looking and claiming, the cleanups are an interval apart: the
\* compare-and-swap lets only a claim pass whose stamp was compared with the
\* cleanup that is still the last.
THEOREM CleanupsKeepTheInterval == Spec => CleanupsAreSpaced
<1>1. Init => ClaimInv
  BY DEF Init, ClaimInv
<1>2. ShapeInv /\ ClaimInv /\ [Next]_vars
        => [lastCleanup' # lastCleanup /\ lastCleanup # 0
              => lastCleanup' - lastCleanup >= CleanupInterval]_vars
  <2> SUFFICES ASSUME ShapeInv, ClaimInv, Next,
                      lastCleanup' # lastCleanup, lastCleanup # 0
               PROVE  lastCleanup' - lastCleanup >= CleanupInterval
    OBVIOUS
  <2>1. PICK t \in Thread : Claim(t) /\ CompareAndSwapSucceeds(t)
    <3>1. ~TimeStep
      BY DEF TimeStep, shared
    <3>2. ASSUME NEW t \in Thread, NEW k \in Key
          PROVE  ~Observe(t, k) /\ ~ExpireVisit(t, k) /\ ~CapVisit(t, k)
      BY DEF Observe, ExpireVisit, CapVisit, Visit, shared
    <3>3. ASSUME NEW t \in Thread
          PROVE  /\ ~CheckDue(t) /\ ~EndExpire(t) /\ ~EndCap(t) /\ ~Delete(t)
                 /\ ~Uncount(t) /\ ~Find(t) /\ ~Add(t) /\ ~Touch(t)
                 /\ Claim(t) => CompareAndSwapSucceeds(t)
      BY DEF CheckDue, EndExpire, EndCap, Delete, Uncount, Find, Add, Touch,
             Claim, shared
    <3> QED
      BY <3>1, <3>2, <3>3 DEF Next
  <2>2. pc[t] = "claim" /\ call[t].last = lastCleanup /\ lastCleanup' = call[t].now
    BY <2>1 DEF Claim, CompareAndSwapSucceeds
  <2> QED
    BY <2>2 DEF ClaimInv
<1> QED
  BY <1>1, <1>2, ClaimStep, ShapeHolds, PTL DEF Spec, CleanupsAreSpaced

-----------------------------------------------------------------------------
(* The counter. *)

Uncounting == {"expireUncount", "capUncount"}

\* What a step does to the sets of the workers that still have to count.
LEMMA CountingFrame ==
  ASSUME ShapeInv, NEW t \in Thread, NEW step, pc' = [pc EXCEPT ![t] = step]
  PROVE  /\ step = "add" => Adding' = Adding \cup {t}
         /\ step # "add" /\ t \in Adding => Adding' = Adding \ {t}
         /\ step # "add" /\ t \notin Adding => Adding' = Adding
         /\ step \in Uncounting => Removing' = Removing \cup {t}
         /\ step \notin Uncounting /\ t \in Removing => Removing' = Removing \ {t}
         /\ step \notin Uncounting /\ t \notin Removing => Removing' = Removing
<1>1. /\ \A u : u # t => (u \in Adding' <=> u \in Adding)
      /\ t \in Adding' <=> step = "add"
      /\ \A u : u # t => (u \in Removing' <=> u \in Removing)
      /\ t \in Removing' <=> step \in Uncounting
  BY DEF ShapeInv, Adding, Removing, Uncounting
<1>2. step = "add" => Adding' = Adding \cup {t}
  BY <1>1
<1>3. step # "add" /\ t \in Adding => Adding' = Adding \ {t}
  BY <1>1
<1>4. step # "add" /\ t \notin Adding => Adding' = Adding
  BY <1>1
<1>5. step \in Uncounting => Removing' = Removing \cup {t}
  BY <1>1
<1>6. step \notin Uncounting /\ t \in Removing => Removing' = Removing \ {t}
  BY <1>1
<1>7. step \notin Uncounting /\ t \notin Removing => Removing' = Removing
  BY <1>1
<1> QED
  BY <1>2, <1>3, <1>4, <1>5, <1>6, <1>7

\* The counter with what is still to be counted.
Balance == count + Cardinality(Adding) - Cardinality(Removing)

\* Every step but the deletion of a key that is gone moves the balance with
\* the size of the map.
LEMMA BalanceStep ==
  ASSUME IsFiniteSet(Thread), ShapeInv, [Next]_vars
  PROVE  /\ Balance \in Int /\ Cardinality(DOMAIN series) \in Nat
         /\ \/ Balance' - Balance =
                  Cardinality(DOMAIN series') - Cardinality(DOMAIN series)
            \/ \E t \in Thread : /\ Delete(t)
                                 /\ call[t].victim \notin DOMAIN series
                                 /\ Balance' = Balance - 1
                                 /\ DOMAIN series' = DOMAIN series
<1>1. /\ IsFiniteSet(Adding) /\ IsFiniteSet(Removing)
      /\ Cardinality(Adding) \in Nat /\ Cardinality(Removing) \in Nat
      /\ Cardinality(DOMAIN series) \in Nat
      /\ count \in Int
  <2>1. IsFiniteSet(Adding) /\ IsFiniteSet(Removing)
    BY FS_Subset DEF Adding, Removing
  <2> QED
    BY <2>1, FS_CardinalityType DEF ShapeInv
<1>2. Balance \in Int
  BY <1>1 DEF Balance
<1>3. ASSUME UNCHANGED <<count, series>>, Adding' = Adding, Removing' = Removing
      PROVE  Balance' - Balance =
               Cardinality(DOMAIN series') - Cardinality(DOMAIN series)
  BY <1>1, <1>3 DEF Balance
<1>4. CASE TimeStep \/ UNCHANGED vars
  <2>1. UNCHANGED <<count, series>> /\ UNCHANGED pc
    BY <1>4 DEF TimeStep, vars, shared
  <2>2. Adding' = Adding /\ Removing' = Removing
    BY <2>1 DEF Adding, Removing
  <2> QED
    BY <1>1, <1>2, <1>3, <2>1, <2>2
<1>5. ASSUME NEW t \in Thread, NEW step, pc' = [pc EXCEPT ![t] = step],
             pc[t] # "add", pc[t] \notin Uncounting,
             step # "add", step \notin Uncounting
      PROVE  Adding' = Adding /\ Removing' = Removing
  BY <1>5, CountingFrame DEF Adding, Removing, Uncounting
<1>6. ASSUME NEW t \in Thread, NEW k \in Key,
             Observe(t, k) \/ ExpireVisit(t, k) \/ CapVisit(t, k)
      PROVE  Balance' - Balance =
               Cardinality(DOMAIN series') - Cardinality(DOMAIN series)
  <2>1. UNCHANGED <<count, series>>
    BY <1>6 DEF Observe, ExpireVisit, CapVisit, Visit, shared
  <2>2. PICK step : /\ pc' = [pc EXCEPT ![t] = step]
                    /\ step # "add" /\ step \notin Uncounting
                    /\ pc[t] # "add" /\ pc[t] \notin Uncounting
    BY <1>6 DEF Observe, ExpireVisit, CapVisit, Visit, Goto, Uncounting
  <2> QED
    BY <1>3, <1>5, <2>1, <2>2
<1>7. ASSUME NEW t \in Thread,
             CheckDue(t) \/ Claim(t) \/ EndExpire(t) \/ EndCap(t) \/ Touch(t)
      PROVE  Balance' - Balance =
               Cardinality(DOMAIN series') - Cardinality(DOMAIN series)
  <2>1. UNCHANGED <<count, series>>
    BY <1>7 DEF CheckDue, Claim, EndExpire, EndCap, Touch, shared
  <2>2. PICK step : /\ pc' = [pc EXCEPT ![t] = step]
                    /\ step # "add" /\ step \notin Uncounting
                    /\ pc[t] # "add" /\ pc[t] \notin Uncounting
    BY <1>7 DEF CheckDue, Claim, EndExpire, EndCap, Touch, Proceed, Goto, Uncounting
  <2> QED
    BY <1>3, <1>5, <2>1, <2>2
<1>8. ASSUME NEW t \in Thread, Delete(t)
      PROVE  \/ Balance' - Balance =
                  Cardinality(DOMAIN series') - Cardinality(DOMAIN series)
             \/ /\ call[t].victim \notin DOMAIN series
                /\ Balance' = Balance - 1
                /\ DOMAIN series' = DOMAIN series
  <2>1. PICK step : pc' = [pc EXCEPT ![t] = step] /\ step \in Uncounting
    BY <1>8 DEF Delete, Goto, Uncounting
  <2>2. t \notin Removing /\ t \notin Adding
    BY <1>8 DEF Delete, Removing, Adding
  <2>3. Adding' = Adding /\ Removing' = Removing \cup {t}
    BY <2>1, <2>2, CountingFrame DEF Uncounting
  <2>4. Cardinality(Removing') = Cardinality(Removing) + 1
    BY <1>1, <2>2, <2>3, FS_AddElement
  <2>5. count' = count /\ DOMAIN series' = DOMAIN series \ {call[t].victim}
    BY <1>8 DEF Delete
  <2>6. Balance' = Balance - 1
    BY <1>1, <2>3, <2>4, <2>5 DEF Balance
  <2>7. CASE call[t].victim \in DOMAIN series
    <3>1. Cardinality(DOMAIN series') = Cardinality(DOMAIN series) - 1
      BY <2>5, <2>7, FS_RemoveElement DEF ShapeInv
    <3> QED
      BY <1>1, <1>2, <2>6, <3>1
  <2>8. CASE call[t].victim \notin DOMAIN series
    BY <2>5, <2>6, <2>8
  <2> QED
    BY <2>7, <2>8
<1>9. ASSUME NEW t \in Thread, Uncount(t)
      PROVE  Balance' - Balance =
               Cardinality(DOMAIN series') - Cardinality(DOMAIN series)
  <2>1. PICK step : /\ pc' = [pc EXCEPT ![t] = step]
                    /\ step # "add" /\ step \notin Uncounting
    <3>1. \/ pc' = [pc EXCEPT ![t] = "expire"]
          \/ pc' = [pc EXCEPT ![t] = "cap"]
      BY <1>9 DEF Uncount, Goto
    <3> QED
      BY <3>1 DEF Uncounting
  <2>2. t \in Removing /\ t \notin Adding
    BY <1>9 DEF Uncount, Removing, Adding
  <2>3. Adding' = Adding /\ Removing' = Removing \ {t}
    BY <2>1, <2>2, CountingFrame
  <2>4. Cardinality(Removing') = Cardinality(Removing) - 1
    BY <1>1, <2>2, <2>3, FS_RemoveElement
  <2>5. count' = count - 1 /\ series' = series
    BY <1>9 DEF Uncount, Decremented
  <2> QED
    BY <1>1, <2>3, <2>4, <2>5 DEF Balance
<1>10. ASSUME NEW t \in Thread, Add(t)
       PROVE  Balance' - Balance =
                Cardinality(DOMAIN series') - Cardinality(DOMAIN series)
  <2>1. t \in Adding /\ t \notin Removing
    BY <1>10 DEF Add, Removing, Adding
  <2>2. Adding' = Adding \ {t} /\ Removing' = Removing
    <3>1. pc' = [pc EXCEPT ![t] = "touch"]
      BY <1>10 DEF Add, Goto
    <3>2. "touch" # "add" /\ "touch" \notin Uncounting
      BY DEF Uncounting
    <3>3. PICK step : /\ pc' = [pc EXCEPT ![t] = step]
                      /\ step # "add" /\ step \notin Uncounting
      BY <3>1, <3>2
    <3> QED
      BY <2>1, <3>3, CountingFrame
  <2>3. Cardinality(Adding') = Cardinality(Adding) - 1
    BY <1>1, <2>1, <2>2, FS_RemoveElement
  <2>4. count' = count + 1 /\ series' = series
    BY <1>10 DEF Add, Incremented
  <2> QED
    BY <1>1, <2>2, <2>3, <2>4 DEF Balance
<1>11. ASSUME NEW t \in Thread, Find(t)
       PROVE  Balance' - Balance =
                Cardinality(DOMAIN series') - Cardinality(DOMAIN series)
  <2>1. t \notin Adding /\ t \notin Removing
    BY <1>11 DEF Find, Removing, Adding
  <2>2. CASE call[t].key \in DOMAIN series
    <3>1. UNCHANGED <<count, series>> /\ pc' = [pc EXCEPT ![t] = "touch"]
      BY <1>11, <2>2 DEF Find, Goto, shared
    <3>2. "touch" # "add" /\ "touch" \notin Uncounting
      BY DEF Uncounting
    <3>3. PICK step : /\ pc' = [pc EXCEPT ![t] = step]
                      /\ step # "add" /\ step \notin Uncounting
      BY <3>1, <3>2
    <3>4. Adding' = Adding /\ Removing' = Removing
      BY <2>1, <3>3, CountingFrame
    <3> QED
      BY <1>3, <3>1, <3>4
  <2>3. CASE call[t].key \notin DOMAIN series
    <3>1. /\ count' = count /\ DOMAIN series' = DOMAIN series \cup {call[t].key}
          /\ pc' = [pc EXCEPT ![t] = "add"]
      BY <1>11, <2>3 DEF Find, Goto
    <3>2. Adding' = Adding \cup {t} /\ Removing' = Removing
      BY <2>1, <3>1, CountingFrame DEF Uncounting
    <3>3. Cardinality(Adding') = Cardinality(Adding) + 1
      BY <1>1, <2>1, <3>2, FS_AddElement
    <3>4. IsFiniteSet(DOMAIN series)
      BY DEF ShapeInv
    <3>5. Cardinality(DOMAIN series') = Cardinality(DOMAIN series) + 1
      BY <2>3, <3>1, <3>4, FS_AddElement
    <3> QED
      BY <1>1, <3>1, <3>2, <3>3, <3>5 DEF Balance
  <2> QED
    BY <2>2, <2>3
<1> QED
  BY <1>1, <1>2, <1>4, <1>6, <1>7, <1>8, <1>9, <1>10, <1>11 DEF Next

\* However many cleanups overlap and whatever they delete twice, the counter
\* and what is still to be counted never exceed the series in the map.
THEOREM CountStaysBelow == Spec => []CountNeverOverstates
<1>. IsFiniteSet(Thread)
  BY RateSeriesAssumption
<1>1. Init => CountNeverOverstates
  <2> SUFFICES ASSUME Init PROVE CountNeverOverstates
    OBVIOUS
  <2>1. Adding = {} /\ Removing = {} /\ DOMAIN series = {} /\ count = 0
    BY DEF Init, Adding, Removing
  <2> QED
    BY <2>1, FS_EmptySet DEF CountNeverOverstates
<1>2. ShapeInv /\ CountNeverOverstates /\ [Next]_vars => CountNeverOverstates'
  <2> SUFFICES ASSUME ShapeInv, CountNeverOverstates, [Next]_vars
               PROVE  CountNeverOverstates'
    OBVIOUS
  <2>1. Balance <= Cardinality(DOMAIN series)
    BY DEF CountNeverOverstates, Balance
  <2>2. ShapeInv'
    BY ShapeStep
  <2>3. Balance \in Int /\ Cardinality(DOMAIN series) \in Nat
    BY BalanceStep
  <2>4. Balance' \in Int /\ Cardinality(DOMAIN series') \in Nat
    <3>1. /\ IsFiniteSet(Adding') /\ IsFiniteSet(Removing')
          /\ IsFiniteSet(DOMAIN series') /\ count' \in Int
      BY <2>2, FS_Subset DEF Adding, Removing, ShapeInv
    <3>2. Cardinality(Adding') \in Nat /\ Cardinality(Removing') \in Nat
      BY <3>1, FS_CardinalityType
    <3> QED
      BY <3>1, <3>2, FS_CardinalityType DEF Balance
  <2>5. Balance' <= Cardinality(DOMAIN series')
    BY <2>1, <2>3, <2>4, BalanceStep
  <2> QED
    BY <2>5 DEF CountNeverOverstates, Balance
<1> QED
  BY <1>1, <1>2, ShapeHolds, PTL DEF Spec

-----------------------------------------------------------------------------
(* Without overlapping cleanups the counter is exact. *)

Deleting == {"expireDelete", "capDelete"}

\* While no two cleanups have overlapped there is at most one, and what it is
\* about to delete is still there.
LoneInv ==
    ~overlapped =>
       /\ \A t, u \in Cleaning : t = u
       /\ \A t \in Thread : pc[t] \in Deleting => call[t].victim \in DOMAIN series
       /\ Balance = Cardinality(DOMAIN series)

LEMMA LoneStep ==
  ASSUME IsFiniteSet(Thread), ShapeInv, LoneInv, [Next]_vars
  PROVE  LoneInv'
<1> SUFFICES ASSUME ~overlapped'
             PROVE  /\ \A t, u \in Cleaning' : t = u
                    /\ \A t \in Thread : pc'[t] \in Deleting =>
                                       call'[t].victim \in DOMAIN series'
                    /\ Balance' = Cardinality(DOMAIN series')
  BY DEF LoneInv
<1>1. ~overlapped
  BY DEF Next, TimeStep, Observe, CheckDue, Claim, Visit, ExpireVisit,
         EndExpire, CapVisit, EndCap, Delete, Uncount, Find, Add, Touch, vars,
         history
<1>2. \A t, u \in Cleaning : t = u
  BY <1>1 DEF LoneInv
<1>3. \A t \in Thread : pc[t] \in Deleting => call[t].victim \in DOMAIN series
  BY <1>1 DEF LoneInv
<1>4. Balance' = Cardinality(DOMAIN series')
  <2>1. Balance = Cardinality(DOMAIN series)
    BY <1>1 DEF LoneInv
  <2>2. \A t \in Thread : Delete(t) => call[t].victim \in DOMAIN series
    BY <1>3 DEF Delete, Deleting
  <2>3. Balance' - Balance = Cardinality(DOMAIN series') - Cardinality(DOMAIN series)
    BY <2>2, BalanceStep
  <2>4. Balance' \in Int /\ Cardinality(DOMAIN series') \in Nat
    <3>1. ShapeInv'
      BY ShapeStep
    <3>2. /\ IsFiniteSet(Adding') /\ IsFiniteSet(Removing')
          /\ IsFiniteSet(DOMAIN series') /\ count' \in Int
      BY <3>1, FS_Subset DEF Adding, Removing, ShapeInv
    <3>3. Cardinality(Adding') \in Nat /\ Cardinality(Removing') \in Nat
      BY <3>2, FS_CardinalityType
    <3> QED
      BY <3>2, <3>3, FS_CardinalityType DEF Balance
  <2>5. Balance \in Int /\ Cardinality(DOMAIN series) \in Nat
    BY BalanceStep
  <2> QED
    BY <2>1, <2>3, <2>4, <2>5
<1>5. ASSUME NEW t \in Thread, Claim(t), CompareAndSwapSucceeds(t)
      PROVE  Cleaning' = {t} /\ \A u \in Thread : pc'[u] \notin Deleting
  <2>1. Cleaning = {} /\ pc' = [pc EXCEPT ![t] = "expire"]
    BY <1>5 DEF Claim, Goto
  <2> QED
    BY <2>1 DEF Cleaning, Deleting, ShapeInv
<1>6. ASSUME NEW t \in Thread, NEW k \in Key, ExpireVisit(t, k) \/ CapVisit(t, k)
      PROVE  /\ Cleaning' = Cleaning
             /\ series' = series
             /\ pc'[t] \in Deleting => call'[t].victim \in DOMAIN series
             /\ \A u \in Thread : u # t => pc'[u] = pc[u] /\ call'[u] = call[u]
  <2>1. \A u \in Thread : u # t => pc'[u] = pc[u] /\ call'[u] = call[u]
    BY <1>6 DEF ExpireVisit, CapVisit, Visit, Goto, ShapeInv
  <2>2. t \in Cleaning /\ t \in Cleaning'
    BY <1>6 DEF ExpireVisit, CapVisit, Goto, Cleaning, ShapeInv
  <2>3. Cleaning' = Cleaning
    BY <2>1, <2>2 DEF Cleaning
  <2>4. ASSUME pc'[t] \in Deleting PROVE call'[t].victim \in DOMAIN series
    <3>1. k \in DOMAIN series
      BY <1>6, <2>4 DEF ExpireVisit, CapVisit, Goto, Deleting, ShapeInv
    <3>2. call'[t].victim = k
      <4>1. CASE ExpireVisit(t, k)
        <5>1. Expired(t, k)
          BY <2>4, <4>1 DEF ExpireVisit, Goto, Deleting, ShapeInv
        <5> QED
          BY <3>1, <4>1, <5>1 DEF ExpireVisit, Visit, ShapeInv, Fields
      <4>2. CASE CapVisit(t, k)
        BY <3>1, <4>2 DEF CapVisit, Visit, ShapeInv, Fields
      <4> QED
        BY <1>6, <4>1, <4>2
    <3> QED
      BY <3>1, <3>2
  <2>5. series' = series
    BY <1>6 DEF ExpireVisit, CapVisit, Visit, shared
  <2> QED
    BY <2>1, <2>3, <2>4, <2>5
<1>7. ASSUME NEW t \in Thread, Delete(t)
      PROVE  Cleaning' = Cleaning /\ \A u \in Thread : pc'[u] \notin Deleting
  <2>1. /\ t \in Cleaning /\ t \in Cleaning' /\ pc'[t] \notin Deleting
        /\ \A u \in Thread : u # t => pc'[u] = pc[u]
    BY <1>7 DEF Delete, Goto, Cleaning, Deleting, ShapeInv
  <2>2. \A u \in Thread : pc[u] \in Deleting => u \in Cleaning
    BY DEF Deleting, Cleaning
  <2> QED
    BY <1>2, <2>1, <2>2 DEF Cleaning
<1>8. ASSUME NEW t \in Thread,
             \/ \E k \in Key : Observe(t, k)
             \/ CheckDue(t) \/ (Claim(t) /\ ~CompareAndSwapSucceeds(t))
             \/ EndExpire(t) \/ EndCap(t) \/ Uncount(t) \/ Find(t) \/ Add(t)
             \/ Touch(t)
      PROVE  /\ Cleaning' \subseteq Cleaning
             /\ DOMAIN series \subseteq DOMAIN series'
             /\ pc'[t] \notin Deleting
             /\ \A u \in Thread : u # t => pc'[u] = pc[u] /\ call'[u] = call[u]
  <2>1. \A u \in Thread : u # t => pc'[u] = pc[u] /\ call'[u] = call[u]
    BY <1>8 DEF Observe, CheckDue, Claim, EndExpire, EndCap, Uncount, Find, Add,
                Touch, Proceed, Goto, ShapeInv
  <2>2. pc'[t] \notin Deleting
    BY <1>8 DEF Observe, CheckDue, Claim, EndExpire, EndCap, Uncount, Find, Add,
                Touch, Proceed, Goto, Deleting, ShapeInv
  <2>3. t \in Cleaning' => t \in Cleaning
    BY <1>8 DEF Observe, CheckDue, Claim, EndExpire, EndCap, Uncount, Find, Add,
                Touch, Proceed, Goto, Cleaning, ShapeInv
  <2>4. DOMAIN series \subseteq DOMAIN series'
    BY <1>8 DEF Observe, CheckDue, Claim, EndExpire, EndCap, Uncount, Find, Add,
                Touch, shared
  <2> QED
    BY <2>1, <2>2, <2>3, <2>4 DEF Cleaning
<1>9. CASE TimeStep \/ UNCHANGED vars
  <2>1. UNCHANGED <<pc, call, series>>
    BY <1>9 DEF TimeStep, vars, shared
  <2> QED
    BY <1>2, <1>3, <1>4, <2>1 DEF Cleaning
<1> QED
  <2>1. ASSUME NEW t \in Thread, Claim(t), CompareAndSwapSucceeds(t)
        PROVE  /\ \A u, v \in Cleaning' : u = v
               /\ \A u \in Thread : pc'[u] \in Deleting =>
                                  call'[u].victim \in DOMAIN series'
    BY <1>5, <2>1
  <2>2. ASSUME NEW t \in Thread, NEW k \in Key, ExpireVisit(t, k) \/ CapVisit(t, k)
        PROVE  /\ \A u, v \in Cleaning' : u = v
               /\ \A u \in Thread : pc'[u] \in Deleting =>
                                  call'[u].victim \in DOMAIN series'
    BY <1>2, <1>3, <1>6, <2>2
  <2>3. ASSUME NEW t \in Thread, Delete(t)
        PROVE  /\ \A u, v \in Cleaning' : u = v
               /\ \A u \in Thread : pc'[u] \in Deleting =>
                                  call'[u].victim \in DOMAIN series'
    BY <1>2, <1>7, <2>3
  <2>4. ASSUME NEW t \in Thread,
               \/ \E k \in Key : Observe(t, k)
               \/ CheckDue(t) \/ (Claim(t) /\ ~CompareAndSwapSucceeds(t))
               \/ EndExpire(t) \/ EndCap(t) \/ Uncount(t) \/ Find(t) \/ Add(t)
               \/ Touch(t)
        PROVE  /\ \A u, v \in Cleaning' : u = v
               /\ \A u \in Thread : pc'[u] \in Deleting =>
                                  call'[u].victim \in DOMAIN series'
    <3>1. /\ Cleaning' \subseteq Cleaning
          /\ DOMAIN series \subseteq DOMAIN series'
          /\ pc'[t] \notin Deleting
          /\ \A u \in Thread : u # t => pc'[u] = pc[u] /\ call'[u] = call[u]
      BY <1>8, <2>4
    <3> QED
      BY <1>2, <1>3, <3>1
  <2> QED
    BY <1>4, <1>9, <2>1, <2>2, <2>3, <2>4 DEF Next

LEMMA LoneHolds == Spec => []LoneInv
<1>1. Init => LoneInv
  <2> SUFFICES ASSUME Init PROVE LoneInv
    OBVIOUS
  <2>1. /\ Cleaning = {} /\ Adding = {} /\ Removing = {}
        /\ DOMAIN series = {} /\ count = 0
    BY DEF Init, Cleaning, Adding, Removing
  <2> QED
    BY <2>1, FS_EmptySet DEF Init, LoneInv, Balance, Deleting
<1>2. ShapeInv /\ LoneInv /\ [Next]_vars => LoneInv'
  BY LoneStep, RateSeriesAssumption
<1> QED
  BY <1>1, <1>2, ShapeHolds, PTL DEF Spec

\* As long as no two cleanups have overlapped, the counter with what is still
\* to be counted is the number of series, for any number of workers and keys.
THEOREM LoneCleanupsAreExact == Spec => []LoneCleanupsCountExactly
<1>1. LoneInv => LoneCleanupsCountExactly
  BY DEF LoneInv, Balance, LoneCleanupsCountExactly
<1> QED
  BY <1>1, LoneHolds, PTL

-----------------------------------------------------------------------------
(* Types, and a free series for every new key. *)

MapType ==
    /\ DOMAIN series \subseteq Key
    /\ \A k \in DOMAIN series : series[k] \in Series
    /\ \A j, k \in DOMAIN series : series[j] = series[k] => j = k

\* What a worker holds of the key it observes.
KeyInv ==
    \A t \in Thread :
       /\ call[t].now \in 0 .. MaxTime
       /\ pc[t] # "idle" => call[t].key \in Key
       /\ pc[t] \in {"add", "touch"} => call[t].series \in Series

\* A function on a finite set has no more values than arguments.
LEMMA FewValues ==
  ASSUME NEW S, IsFiniteSet(S), NEW f, DOMAIN f = S
  PROVE  /\ IsFiniteSet({f[x] : x \in S})
         /\ Cardinality({f[x] : x \in S}) <= Cardinality(S)
<1> DEFINE T == {f[x] : x \in S}
           g == [x \in S |-> f[x]]
<1>1. g \in Surjection(S, T)
  BY DEF Surjection
<1> HIDE DEF g, T
<1>2. IsFiniteSet(T) /\ Cardinality(T) <= Cardinality(S)
  BY <1>1, FS_Surjection
<1> QED
  BY <1>2 DEF T

\* A non-empty set of natural numbers has a minimum.
LEMMA MinIsMember ==
  ASSUME NEW T, T \subseteq Nat, T # {}
  PROVE  Min(T) \in T
<1> DEFINE R == OpToRel(<, Nat)
<1>1. IsWellFoundedOn(R, Nat)
  BY NatLessThanWellFounded
<1> HIDE DEF R
<1>2. PICK x \in T : \A y \in T : ~(<<y, x>> \in R)
  BY <1>1, WFMin
<1>3. \A y \in T : y < x => <<y, x>> \in R
  BY DEF R, OpToRel
<1>4. \A y \in T : ~(y < x)
  BY <1>2, <1>3
<1>5. \A y \in T : x <= y
  BY <1>4
<1> QED
  BY <1>5 DEF Min

LEMMA SeriesIs ==
    /\ Cardinality(Key) \in Nat /\ Cardinality(Thread) \in Nat
    /\ Series \subseteq Nat
    /\ IsFiniteSet(Series)
    /\ Cardinality(Series) = Cardinality(Key) + Cardinality(Thread)
<1>1. Cardinality(Key) \in Nat /\ Cardinality(Thread) \in Nat
  BY RateSeriesAssumption, FS_CardinalityType
<1>2. /\ 1 \in Int /\ Cardinality(Key) + Cardinality(Thread) \in Int
  BY <1>1
<1>3. /\ IsFiniteSet(Series)
      /\ LET n == Cardinality(Key) + Cardinality(Thread)
         IN  Cardinality(Series) = IF 1 > n THEN 0 ELSE n - 1 + 1
  BY ONLY <1>2, FS_Interval, Zenon DEF Series
<1> QED
  BY <1>1, <1>3 DEF Series

\* The series in use are as many as the keys and the workers at most, and
\* fewer while a key has none.
LEMMA FreeSeries ==
  ASSUME MapType, DOMAIN call = Thread, NEW k \in Key \ DOMAIN series
  PROVE  Min(Series \ InUse) \in Series \ InUse
<1> DEFINE mapped == {series[j] : j \in DOMAIN series}
           values == [t \in Thread |-> call[t].series]
           held   == {values[t] : t \in Thread}
<1>1. IsFiniteSet(Key) /\ IsFiniteSet(Thread)
  BY RateSeriesAssumption
<1>2. /\ IsFiniteSet(DOMAIN series)
      /\ Cardinality(DOMAIN series) <= Cardinality(Key) - 1
  <2>1. DOMAIN series \subseteq Key \ {k}
    BY DEF MapType
  <2>2. /\ IsFiniteSet(Key \ {k})
        /\ Cardinality(Key \ {k}) = Cardinality(Key) - 1
    BY <1>1, FS_RemoveElement
  <2> QED
    BY <2>1, <2>2, FS_Subset
<1>3. IsFiniteSet(mapped) /\ Cardinality(mapped) <= Cardinality(DOMAIN series)
  BY <1>2, FewValues
<1>4. IsFiniteSet(held) /\ Cardinality(held) <= Cardinality(Thread)
  <2>1. DOMAIN values = Thread
    OBVIOUS
  <2> HIDE DEF values
  <2> QED
    BY <1>1, <2>1, FewValues
<1>5. InUse = mapped \cup held
  BY DEF InUse
<1> HIDE DEF held, mapped
<1>6. /\ IsFiniteSet(InUse)
      /\ Cardinality(InUse)
           = Cardinality(mapped) + Cardinality(held) - Cardinality(mapped \cap held)
  BY <1>3, <1>4, <1>5, FS_Union
<1>7. Cardinality(mapped \cap held) \in Nat
  <2>1. IsFiniteSet(mapped \cap held)
    BY <1>3, FS_Subset
  <2> QED
    BY <2>1, FS_CardinalityType
<1>8. Cardinality(InUse) < Cardinality(Series)
  <2>1. /\ Cardinality(mapped) \in Nat /\ Cardinality(held) \in Nat
        /\ Cardinality(DOMAIN series) \in Nat
    BY <1>2, <1>3, <1>4, FS_CardinalityType
  <2> QED
    BY <1>2, <1>3, <1>4, <1>6, <1>7, <2>1, SeriesIs
<1>9. Series \ InUse # {}
  <2>1. SUFFICES ASSUME Series \subseteq InUse PROVE FALSE
    OBVIOUS
  <2>2. Cardinality(Series) <= Cardinality(InUse)
    BY <1>6, <2>1, FS_Subset
  <2>3. Cardinality(InUse) \in Nat
    BY <1>6, FS_CardinalityType
  <2> QED
    BY <1>8, <2>2, <2>3, SeriesIs
<1> QED
  BY <1>9, MinIsMember, SeriesIs

\* One worker has moved, and nothing it has written has lost its type.
LEMMA TypeFrame ==
  ASSUME TypeOK, KeyInv, NEW t \in Thread,
         \A u \in Thread : u # t => call'[u] = call[u] /\ pc'[u] = pc[u],
         DOMAIN call' = Thread, call'[t].now \in 0 .. MaxTime,
         pc'[t] # "idle" => call'[t].key \in Key,
         pc'[t] \in {"add", "touch"} => call'[t].series \in Series,
         clock' = clock, lastCleanup' \in 0 .. MaxTime, count' \in Int,
         arrivals' \in [Thread -> Nat], overlapped' \in BOOLEAN,
         lastSeen' \in [Series -> 0 .. MaxTime], MapType'
  PROVE  TypeOK' /\ KeyInv'
<1>1. TypeOK'
  BY DEF TypeOK, MapType
<1>2. KeyInv'
  BY DEF KeyInv
<1> QED
  BY <1>1, <1>2

LEMMA TypeStep ==
  ASSUME ShapeInv, TypeOK, KeyInv, [Next]_vars
  PROVE  TypeOK' /\ KeyInv'
<1>1. /\ clock \in 0 .. MaxTime /\ lastCleanup \in 0 .. MaxTime /\ count \in Int
      /\ arrivals \in [Thread -> Nat] /\ overlapped \in BOOLEAN
      /\ lastSeen \in [Series -> 0 .. MaxTime] /\ MapType
      /\ DOMAIN pc = Thread /\ DOMAIN call = Thread
      /\ \A t \in Thread : DOMAIN call[t] = Fields
  BY MaxTimeAssumption DEF TypeOK, ShapeInv, MapType
<1>2. MapType /\ UNCHANGED series => MapType'
  BY DEF MapType
<1>3. ASSUME NEW t \in Thread, NEW k \in Key, Observe(t, k)
      PROVE  TypeOK' /\ KeyInv'
  <2>1. /\ \A u \in Thread : u # t => call'[u] = call[u] /\ pc'[u] = pc[u]
        /\ DOMAIN call' = Thread
        /\ call'[t].now = clock /\ call'[t].key = k
        /\ pc'[t] = "due"
        /\ UNCHANGED <<clock, series, lastSeen, count, lastCleanup, arrivals, overlapped>>
    BY <1>1, <1>3 DEF Observe, Goto, shared, history, Fields
  <2> QED
    BY <1>1, <1>2, <2>1, TypeFrame
<1>4. ASSUME NEW t \in Thread, Proceed(t), pc[t] # "idle",
             UNCHANGED <<clock, series, lastSeen, count, lastCleanup, arrivals, overlapped>>
      PROVE  TypeOK' /\ KeyInv'
  <2>1. PICK c : c = [Idle EXCEPT !.key = call[t].key, !.now = call[t].now]
    OBVIOUS
  <2>2. c.key = call[t].key /\ c.now = call[t].now
    BY <2>1, IdleShape DEF Fields
  <2>3. call' = [call EXCEPT ![t] = c] /\ pc' = [pc EXCEPT ![t] = "find"]
    BY <1>4, <2>1 DEF Proceed, Goto
  <2>4. /\ \A u \in Thread : u # t => call'[u] = call[u] /\ pc'[u] = pc[u]
        /\ DOMAIN call' = Thread /\ call'[t] = c /\ pc'[t] = "find"
    BY <1>1, <2>3
  <2>5. c.key \in Key /\ c.now \in 0 .. MaxTime
    BY <1>4, <2>2 DEF KeyInv
  <2> QED
    BY <1>1, <1>2, <1>4, <2>4, <2>5, TypeFrame
\* The locals a cleanup keeps are no part of the types.
<1>5. ASSUME NEW t \in Thread, pc[t] # "idle",
             \A u \in Thread : u # t => call'[u] = call[u] /\ pc'[u] = pc[u],
             DOMAIN call' = Thread,
             call'[t].now = call[t].now, call'[t].key = call[t].key,
             pc'[t] \notin {"add", "touch"},
             lastCleanup' \in 0 .. MaxTime, count' \in Int,
             arrivals' \in [Thread -> Nat], overlapped' \in BOOLEAN,
             MapType', UNCHANGED <<clock, lastSeen>>
      PROVE  TypeOK' /\ KeyInv'
  <2>1. call'[t].key \in Key /\ call'[t].now \in 0 .. MaxTime
    BY <1>5 DEF KeyInv
  <2> QED
    BY <1>1, <1>5, <2>1, TypeFrame
<1>6. ASSUME NEW t \in Thread, CheckDue(t) \/ EndExpire(t) \/ EndCap(t)
      PROVE  TypeOK' /\ KeyInv'
  <2>1. /\ UNCHANGED <<clock, series, lastSeen, count, lastCleanup, arrivals, overlapped>>
        /\ pc[t] # "idle"
    BY <1>6 DEF CheckDue, EndExpire, EndCap, shared, history
  <2>2. CASE Proceed(t)
    BY <1>4, <2>1, <2>2
  <2>3. CASE ~Proceed(t)
    <3>1. /\ \A u \in Thread : u # t => call'[u] = call[u] /\ pc'[u] = pc[u]
          /\ DOMAIN call' = Thread
          /\ call'[t].now = call[t].now /\ call'[t].key = call[t].key
          /\ pc'[t] \notin {"add", "touch"}
      BY <1>1, <1>6, <2>3 DEF CheckDue, EndExpire, EndCap, Goto, Fields
    <3> QED
      BY <1>1, <1>2, <1>5, <2>1, <3>1
  <2> QED
    BY <2>2, <2>3
<1>7. ASSUME NEW t \in Thread, Claim(t) PROVE TypeOK' /\ KeyInv'
  <2>1. UNCHANGED <<clock, series, lastSeen, count>> /\ pc[t] # "idle"
    BY <1>7 DEF Claim
  <2>2. CASE CompareAndSwapSucceeds(t)
    <3>1. /\ lastCleanup' = call[t].now
          /\ call' = [call EXCEPT ![t].left = Key]
          /\ pc' = [pc EXCEPT ![t] = "expire"]
          /\ arrivals' = [arrivals EXCEPT ![t] = Cardinality(Adding)]
          /\ overlapped' = (overlapped \/ Cleaning # {})
      BY <1>7, <2>2 DEF Claim, Goto
    <3>2. Cardinality(Adding) \in Nat
      BY RateSeriesAssumption, FS_Subset, FS_CardinalityType DEF Adding
    <3>3. arrivals' \in [Thread -> Nat]
      BY <1>1, <3>1, <3>2
    <3>4. overlapped' \in BOOLEAN
      BY <3>1
    <3>5. lastCleanup' \in 0 .. MaxTime
      BY <3>1 DEF KeyInv
    <3>6. /\ \A u \in Thread : u # t => call'[u] = call[u] /\ pc'[u] = pc[u]
          /\ DOMAIN call' = Thread
          /\ call'[t].now = call[t].now /\ call'[t].key = call[t].key
          /\ pc'[t] \notin {"add", "touch"}
      BY <1>1, <3>1 DEF Fields
    <3> QED
      BY <1>1, <1>2, <1>5, <2>1, <3>3, <3>4, <3>5, <3>6
  <2>3. CASE ~CompareAndSwapSucceeds(t)
    <3>1. Proceed(t) /\ UNCHANGED <<lastCleanup, arrivals, overlapped>>
      BY <1>7, <2>3 DEF Claim, history
    <3> QED
      BY <1>4, <2>1, <3>1
  <2> QED
    BY <2>2, <2>3
<1>8. ASSUME NEW t \in Thread, NEW k \in Key, ExpireVisit(t, k) \/ CapVisit(t, k)
      PROVE  TypeOK' /\ KeyInv'
  <2>1. /\ UNCHANGED <<clock, series, lastSeen, count, lastCleanup, arrivals, overlapped>>
        /\ pc[t] # "idle"
    BY <1>8 DEF ExpireVisit, CapVisit, Visit, shared, history
  <2>2. /\ \A u \in Thread : u # t => call'[u] = call[u] /\ pc'[u] = pc[u]
        /\ DOMAIN call' = Thread
        /\ call'[t].now = call[t].now /\ call'[t].key = call[t].key
        /\ pc'[t] \notin {"add", "touch"}
    BY <1>1, <1>8 DEF ExpireVisit, CapVisit, Visit, Goto, Fields
  <2> QED
    BY <1>1, <1>2, <1>5, <2>1, <2>2
<1>9. ASSUME NEW t \in Thread, Delete(t) PROVE TypeOK' /\ KeyInv'
  <2>1. /\ series' = [j \in DOMAIN series \ {call[t].victim} |-> series[j]]
        /\ UNCHANGED <<clock, lastSeen, count, lastCleanup, call, arrivals, overlapped>>
        /\ pc[t] # "idle"
    BY <1>9 DEF Delete, history
  <2>2. MapType'
    BY <1>1, <2>1 DEF MapType
  <2>3. /\ \A u \in Thread : u # t => pc'[u] = pc[u]
        /\ pc'[t] \notin {"add", "touch"}
    BY <1>1, <1>9 DEF Delete, Goto
  <2> QED
    BY <1>1, <1>5, <2>1, <2>2, <2>3
<1>10. ASSUME NEW t \in Thread, Uncount(t) PROVE TypeOK' /\ KeyInv'
  <2>1. /\ UNCHANGED <<clock, series, lastSeen, lastCleanup, arrivals, overlapped>>
        /\ pc[t] # "idle" /\ count' \in Int
    BY <1>1, <1>10 DEF Uncount, Decremented, history
  <2>2. /\ \A u \in Thread : u # t => call'[u] = call[u] /\ pc'[u] = pc[u]
        /\ DOMAIN call' = Thread
        /\ call'[t].now = call[t].now /\ call'[t].key = call[t].key
        /\ pc'[t] \notin {"add", "touch"}
    BY <1>1, <1>10 DEF Uncount, Goto, Fields
  <2> QED
    BY <1>1, <1>2, <1>5, <2>1, <2>2
<1>11. ASSUME NEW t \in Thread, Find(t) PROVE TypeOK' /\ KeyInv'
  <2>1. PICK k \in Key : k = call[t].key
    BY <1>11 DEF Find, KeyInv
  <2>2. PICK s \in Series :
           /\ s = IF k \in DOMAIN series THEN series[k] ELSE Min(Series \ InUse)
           /\ k \notin DOMAIN series => s \notin InUse
    <3>1. CASE k \in DOMAIN series
      BY <1>1, <3>1 DEF MapType
    <3>2. CASE k \notin DOMAIN series
      BY <1>1, <3>2, FreeSeries
    <3> QED
      BY <3>1, <3>2
  <2>3. /\ call' = [call EXCEPT ![t].series = s]
        /\ pc' = [pc EXCEPT ![t] = IF k \in DOMAIN series THEN "touch" ELSE "add"]
        /\ UNCHANGED <<clock, count, lastCleanup, overlapped>>
    BY <1>11, <2>1, <2>2 DEF Find, Goto, shared, history
  <2>4. /\ \A u \in Thread : u # t => call'[u] = call[u] /\ pc'[u] = pc[u]
        /\ DOMAIN call' = Thread
        /\ call'[t].now = call[t].now /\ call'[t].key = k /\ call'[t].series = s
        /\ call'[t].now \in 0 .. MaxTime
    BY <1>1, <2>1, <2>3 DEF Fields, KeyInv
  <2>5. CASE k \in DOMAIN series
    <3>1. UNCHANGED <<series, lastSeen, arrivals>>
      BY <1>11, <2>1, <2>5 DEF Find, shared, history
    <3> QED
      BY <1>1, <1>2, <2>3, <2>4, <3>1, TypeFrame
  <2>6. CASE k \notin DOMAIN series
    <3>1. /\ series' = [j \in DOMAIN series \cup {k} |-> IF j = k THEN s ELSE series[j]]
          /\ lastSeen' = [lastSeen EXCEPT ![s] = 0]
          /\ arrivals' = [u \in Thread |-> IF u \in Cleaning
                            THEN arrivals[u] + 1 ELSE arrivals[u]]
      BY <1>11, <2>1, <2>2, <2>6 DEF Find
    <3>2. MapType'
      <4>1. /\ DOMAIN series' = DOMAIN series \cup {k} /\ series'[k] = s
            /\ \A j \in DOMAIN series : series'[j] = series[j] /\ series[j] # s
        BY <2>2, <2>6, <3>1 DEF InUse
      <4> QED
        BY <1>1, <4>1 DEF MapType
    <3>3. lastSeen' \in [Series -> 0 .. MaxTime]
      BY <1>1, <3>1, MaxTimeAssumption
    <3>4. arrivals' \in [Thread -> Nat]
      BY <1>1, <3>1
    <3> QED
      BY <1>1, <2>3, <2>4, <3>2, <3>3, <3>4, TypeFrame
  <2> QED
    BY <2>5, <2>6
<1>12. ASSUME NEW t \in Thread, Add(t) PROVE TypeOK' /\ KeyInv'
  <2>1. /\ UNCHANGED <<clock, series, lastSeen, lastCleanup, call, arrivals, overlapped>>
        /\ pc[t] = "add" /\ count' \in Int
        /\ \A u \in Thread : u # t => pc'[u] = pc[u]
    BY <1>1, <1>12 DEF Add, Goto, Incremented, history
  <2>2. /\ call[t].now \in 0 .. MaxTime /\ call[t].key \in Key
        /\ call[t].series \in Series
    BY <2>1 DEF KeyInv
  <2> QED
    BY <1>1, <1>2, <2>1, <2>2, TypeFrame
<1>13. ASSUME NEW t \in Thread, Touch(t) PROVE TypeOK' /\ KeyInv'
  <2>1. /\ call' = [call EXCEPT ![t] = Idle] /\ pc' = [pc EXCEPT ![t] = "idle"]
        /\ lastSeen' = [lastSeen EXCEPT ![call[t].series] = call[t].now]
        /\ arrivals' = [arrivals EXCEPT ![t] = 0]
        /\ UNCHANGED <<clock, series, count, lastCleanup, overlapped>>
    BY <1>13 DEF Touch, SeenStamp, Goto
  <2>2. lastSeen' \in [Series -> 0 .. MaxTime] /\ arrivals' \in [Thread -> Nat]
    BY <1>1, <2>1 DEF KeyInv
  <2>3. /\ \A u \in Thread : u # t => call'[u] = call[u] /\ pc'[u] = pc[u]
        /\ DOMAIN call' = Thread /\ pc'[t] = "idle" /\ call'[t].now = 0
        /\ 0 \in 0 .. MaxTime
    BY <1>1, <2>1, IdleShape, MaxTimeAssumption
  <2> QED
    BY <1>1, <1>2, <2>1, <2>2, <2>3, TypeFrame
<1>14. CASE TimeStep \/ UNCHANGED vars
  <2>1. /\ UNCHANGED <<series, lastSeen, count, lastCleanup, pc, call, arrivals, overlapped>>
        /\ clock' \in 1 .. MaxTime
    BY <1>14, MaxTimeAssumption
    DEF TimeStep, Tick, vars, shared, history, TypeOK
  <2> QED
    BY <2>1 DEF TypeOK, KeyInv
<1> QED
  BY <1>3, <1>6, <1>7, <1>8, <1>9, <1>10, <1>11, <1>12, <1>13, <1>14 DEF Next

LEMMA TypesHold == Spec => [](TypeOK /\ KeyInv)
<1>1. Init => TypeOK /\ KeyInv
  <2> SUFFICES ASSUME Init PROVE TypeOK /\ KeyInv
    OBVIOUS
  <2>1. 1 \in 1 .. MaxTime /\ 0 \in 0 .. MaxTime
    BY MaxTimeAssumption, RateSeriesAssumption
  <2>2. DOMAIN series = {} /\ lastSeen \in [Series -> 0 .. MaxTime]
        /\ DOMAIN call = Thread /\ arrivals \in [Thread -> Nat]
    BY <2>1 DEF Init
  <2>3. TypeOK
    <3>1. clock = 1 /\ lastCleanup = 0 /\ count = 0 /\ overlapped = FALSE
      BY DEF Init
    <3>2. overlapped \in BOOLEAN
      BY <3>1, Zenon
    <3>3. count \in Int
      BY <3>1
    <3> QED
      BY <2>1, <2>2, <3>1, <3>2, <3>3 DEF TypeOK
  <2>4. KeyInv
    BY <2>1, IdleShape DEF Init, KeyInv
  <2> QED
    BY <2>3, <2>4
<1> QED
  BY <1>1, TypeStep, ShapeHolds, PTL DEF Spec

\* The variables of the registry keep their types; a series has one key, and a
\* new one is none that a worker still holds (engine.go:230).
THEOREM TypeCorrect == Spec => []TypeOK
BY TypesHold, PTL

-----------------------------------------------------------------------------
(* What the cap leaves in the map. *)

Capping == {"cap", "capDelete", "capUncount"}
Pending(t) == IF pc[t] = "capDelete" THEN {call[t].victim} ELSE {}

\* The series a cap has passed over, or whose keys it has looked at too early.
Skipped(t) == DOMAIN series \ (call[t].left \cup Pending(t))
Uncounted(t) == IF pc[t] = "capUncount" THEN 1 ELSE 0

\* For a cleanup: every series not counted yet arrived while it ran; when it
\* caps, what exceeds the limit has either arrived since or is still to be
\* deleted, and what it has passed over has arrived since.
CapOf(t) ==
    /\ Cardinality(Adding) <= arrivals[t]
    /\ pc[t] \in Capping =>
          /\ call[t].excess \in Int
          /\ Cardinality(DOMAIN series) + Uncounted(t)
               <= MaxEntries + call[t].excess + arrivals[t]
          /\ Cardinality(Skipped(t)) <= arrivals[t]

CapInv == ~overlapped => \A t \in Cleaning : CapOf(t)

\* A cleanup does not notice what leaves the map and the arrivals alone.
LEMMA CapFrame ==
  ASSUME NEW c, CapOf(c), call'[c] = call[c], pc'[c] = pc[c],
         arrivals'[c] = arrivals[c], UNCHANGED series,
         arrivals[c] \in Nat, Cardinality(Adding) \in Nat,
         Cardinality(Adding') \in Nat, Cardinality(Adding') <= Cardinality(Adding)
  PROVE  CapOf(c)'
<1>1. Cardinality(Adding') <= arrivals'[c]
  BY DEF CapOf
<1>2. Skipped(c)' = Skipped(c) /\ Uncounted(c)' = Uncounted(c)
  BY DEF Skipped, Pending, Uncounted
<1> QED
  BY <1>1, <1>2 DEF CapOf

LEMMA CapSizes ==
  ASSUME ShapeInv, TypeOK
  PROVE  /\ IsFiniteSet(Adding) /\ Cardinality(Adding) \in Nat
         /\ IsFiniteSet(DOMAIN series) /\ Cardinality(DOMAIN series) \in Nat
         /\ \A t \in Thread : arrivals[t] \in Nat
         /\ \A t : IsFiniteSet(Skipped(t)) /\ Cardinality(Skipped(t)) \in Nat
<1>1. IsFiniteSet(Adding) /\ IsFiniteSet(DOMAIN series)
  BY RateSeriesAssumption, FS_Subset DEF Adding, ShapeInv
<1>2. \A t : IsFiniteSet(Skipped(t))
  BY <1>1, FS_Subset DEF Skipped
<1>3. /\ Cardinality(Adding) \in Nat /\ Cardinality(DOMAIN series) \in Nat
      /\ \A t : Cardinality(Skipped(t)) \in Nat
  BY <1>1, <1>2, FS_CardinalityType
<1>4. \A t \in Thread : arrivals[t] \in Nat
  BY DEF TypeOK
<1> QED
  BY <1>1, <1>2, <1>3, <1>4

\* The set of the workers that have a series to count, after a step.
LEMMA AddingAfter ==
  ASSUME ShapeInv, NEW t \in Thread, NEW step, pc' = [pc EXCEPT ![t] = step],
         step # "add", pc[t] # "add"
  PROVE  Adding' = Adding
BY CountingFrame DEF Adding

\* A cleanup that caps starts with what it has counted.
LEMMA CapBegins ==
  ASSUME ShapeInv, TypeOK, LoneInv, ~overlapped, NEW t \in Thread,
         Cleaning = {t}, CapOf(t), EndExpire(t), ~Proceed(t)
  PROVE  CapOf(t)'
<1>1. /\ pc[t] = "expire" /\ MaxEntries > 0
      /\ call' = [call EXCEPT ![t].left = Key, ![t].excess = Excess]
      /\ pc' = [pc EXCEPT ![t] = "cap"]
      /\ UNCHANGED <<series, arrivals>>
  BY DEF EndExpire, Goto, shared, history
<1>2. /\ call'[t].left = Key /\ call'[t].excess = Excess /\ pc'[t] = "cap"
  BY <1>1 DEF ShapeInv, Fields
<1>3. Adding' = Adding
  BY <1>1, AddingAfter
<1>4. Removing = {}
  <2>1. Removing \subseteq Cleaning /\ t \notin Removing
    BY <1>1 DEF Removing, Cleaning
  <2> QED
    BY <2>1
<1>5. count + Cardinality(Adding) = Cardinality(DOMAIN series)
  <2>1. count + Cardinality(Adding) - 0 = Cardinality(DOMAIN series)
    BY <1>4, FS_EmptySet DEF LoneInv, Balance
  <2> QED
    BY <2>1, CapSizes DEF ShapeInv
<1>6. Cardinality(Adding) <= arrivals[t]
  BY DEF CapOf
<1>7. Skipped(t)' = {}
  BY <1>1, <1>2 DEF Skipped, Pending, TypeOK
<1>8. Cardinality({}) = 0
  BY FS_EmptySet
<1>9. Excess \in Int /\ Excess = count - MaxEntries /\ count \in Int
  BY RateSeriesAssumption DEF Excess, ShapeInv
<1>10. Cardinality(DOMAIN series) + 0 <= MaxEntries + Excess + arrivals[t]
  BY <1>5, <1>6, <1>9, CapSizes, RateSeriesAssumption
<1>11. Uncounted(t)' = 0
  BY <1>2 DEF Uncounted
<1>12. arrivals'[t] = arrivals[t] /\ arrivals[t] \in Nat
       /\ DOMAIN series' = DOMAIN series
  BY <1>1, CapSizes
<1> QED
  BY <1>2, <1>3, <1>6, <1>7, <1>8, <1>9, <1>10, <1>11, <1>12 DEF CapOf

\* A visit takes a key off the list, and its series, if it has one, is next.
LEMMA CapVisits ==
  ASSUME ShapeInv, TypeOK, NEW t \in Thread, CapOf(t), NEW k \in Key, CapVisit(t, k)
  PROVE  CapOf(t)'
<1>1. /\ pc[t] = "cap" /\ UNCHANGED <<series, arrivals>>
      /\ pc' = [pc EXCEPT ![t] = IF k \in DOMAIN series THEN "capDelete" ELSE "cap"]
      /\ call' = [call EXCEPT ![t].left = @ \ {k},
                      ![t].victim = IF k \in DOMAIN series THEN k ELSE @]
  BY DEF CapVisit, Visit, Goto, shared, history
<1>2. Adding' = Adding
  <2>1. PICK step : /\ step # "add" /\ pc' = [pc EXCEPT ![t] = step]
    BY <1>1
  <2> QED
    BY <1>1, <2>1, AddingAfter
<1>3. /\ call'[t].excess = call[t].excess /\ call'[t].left = call[t].left \ {k}
      /\ k \in DOMAIN series => call'[t].victim = k
      /\ pc'[t] = IF k \in DOMAIN series THEN "capDelete" ELSE "cap"
  BY <1>1 DEF ShapeInv, Fields
<1>4. Skipped(t)' \subseteq Skipped(t)
  <2>1. Skipped(t) = DOMAIN series \ call[t].left
    BY <1>1 DEF Skipped, Pending
  <2>2. CASE k \in DOMAIN series
    BY <1>1, <1>3, <2>1, <2>2 DEF Skipped, Pending
  <2>3. CASE k \notin DOMAIN series
    BY <1>1, <1>3, <2>1, <2>3 DEF Skipped, Pending
  <2> QED
    BY <2>2, <2>3
<1>5. Cardinality(Skipped(t)') <= Cardinality(Skipped(t)) /\ Cardinality(Skipped(t)') \in Nat
  BY <1>4, CapSizes, FS_Subset, FS_CardinalityType
<1>6. Uncounted(t) = 0 /\ Uncounted(t)' = 0
  BY <1>1, <1>3 DEF Uncounted
<1>7. /\ Cardinality(Adding) <= arrivals[t] /\ call[t].excess \in Int
      /\ Cardinality(DOMAIN series) + Uncounted(t)
               <= MaxEntries + call[t].excess + arrivals[t]
      /\ Cardinality(Skipped(t)) <= arrivals[t]
  BY <1>1 DEF CapOf, Capping
<1>8. Cardinality(Skipped(t)') <= arrivals[t]
  BY <1>5, <1>7, CapSizes
<1> QED
  BY <1>1, <1>2, <1>3, <1>6, <1>7, <1>8 DEF CapOf

\* The series it deletes is there, and it remembers to count it off.
LEMMA CapDeletes ==
  ASSUME ShapeInv, TypeOK, NEW t \in Thread, CapOf(t), Delete(t),
         call[t].victim \in DOMAIN series
  PROVE  CapOf(t)'
<1>1. /\ UNCHANGED <<call, arrivals>>
      /\ DOMAIN series' = DOMAIN series \ {call[t].victim}
      /\ pc' = [pc EXCEPT ![t] = IF pc[t] = "expireDelete" THEN "expireUncount"
                                 ELSE "capUncount"]
      /\ pc[t] \in {"expireDelete", "capDelete"}
  BY DEF Delete, Goto, history
<1>2. Adding' = Adding
  <2>1. PICK step : /\ step # "add" /\ pc' = [pc EXCEPT ![t] = step]
    BY <1>1
  <2> QED
    BY <1>1, <2>1, AddingAfter
<1>3. pc'[t] = IF pc[t] = "expireDelete" THEN "expireUncount" ELSE "capUncount"
  BY <1>1 DEF ShapeInv
<1>4. Cardinality(Adding') <= arrivals'[t]
  BY <1>1, <1>2 DEF CapOf
<1>5. CASE pc[t] = "expireDelete"
  BY <1>3, <1>4, <1>5 DEF CapOf, Capping
<1>6. CASE pc[t] = "capDelete"
  <2>1. Cardinality(DOMAIN series') = Cardinality(DOMAIN series) - 1
    <3>1. PICK v \in DOMAIN series : v = call[t].victim
      OBVIOUS
    <3>2. IsFiniteSet(DOMAIN series) /\ DOMAIN series' = DOMAIN series \ {v}
      BY <1>1, <3>1, CapSizes
    <3> QED
      BY ONLY <3>2, FS_RemoveElement
  <2>2. Skipped(t)' = Skipped(t)
    BY <1>1, <1>3, <1>6 DEF Skipped, Pending
  <2>3. Uncounted(t) = 0 /\ Uncounted(t)' = 1
    BY <1>3, <1>6 DEF Uncounted
  <2>4. /\ call[t].excess \in Int
        /\ Cardinality(DOMAIN series) + 0 <= MaxEntries + call[t].excess + arrivals[t]
        /\ Cardinality(Skipped(t)) <= arrivals[t]
    BY <1>6, <2>3 DEF CapOf, Capping
  <2>5. Cardinality(DOMAIN series') + 1 <= MaxEntries + call[t].excess + arrivals[t]
    BY <2>1, <2>4, CapSizes, RateSeriesAssumption
  <2> QED
    BY <1>1, <1>4, <2>2, <2>3, <2>4, <2>5 DEF CapOf
<1> QED
  BY <1>1, <1>5, <1>6

LEMMA CapUncounts ==
  ASSUME ShapeInv, TypeOK, NEW t \in Thread, CapOf(t), Uncount(t)
  PROVE  CapOf(t)'
<1>1. /\ UNCHANGED <<series, arrivals>>
      /\ pc' = [pc EXCEPT ![t] = IF pc[t] = "expireUncount" THEN "expire" ELSE "cap"]
      /\ call' = [call EXCEPT ![t].excess = IF pc[t] = "capUncount" THEN @ - 1 ELSE @]
      /\ pc[t] \in {"expireUncount", "capUncount"}
  BY DEF Uncount, Goto, history
<1>2. Adding' = Adding
  <2>1. PICK step : /\ step # "add" /\ pc' = [pc EXCEPT ![t] = step]
    BY <1>1
  <2> QED
    BY <1>1, <2>1, AddingAfter
<1>3. /\ pc'[t] = IF pc[t] = "expireUncount" THEN "expire" ELSE "cap"
      /\ call'[t].left = call[t].left
      /\ call'[t].excess = IF pc[t] = "capUncount" THEN call[t].excess - 1
                           ELSE call[t].excess
  BY <1>1 DEF ShapeInv, Fields
<1>4. Cardinality(Adding') <= arrivals'[t]
  BY <1>1, <1>2 DEF CapOf
<1>5. CASE pc[t] = "expireUncount"
  BY <1>3, <1>4, <1>5 DEF CapOf, Capping
<1>6. CASE pc[t] = "capUncount"
  <2>1. Skipped(t)' = Skipped(t)
    BY <1>1, <1>3, <1>6 DEF Skipped, Pending
  <2>2. Uncounted(t) = 1 /\ Uncounted(t)' = 0
    BY <1>3, <1>6 DEF Uncounted
  <2>3. /\ call[t].excess \in Int
        /\ Cardinality(DOMAIN series) + 1 <= MaxEntries + call[t].excess + arrivals[t]
        /\ Cardinality(Skipped(t)) <= arrivals[t]
    BY <1>6, <2>2 DEF CapOf, Capping
  <2>4. Cardinality(DOMAIN series) + 0
          <= MaxEntries + (call[t].excess - 1) + arrivals[t]
    BY <2>3, CapSizes, RateSeriesAssumption
  <2> QED
    BY <1>1, <1>3, <1>4, <1>6, <2>1, <2>2, <2>3, <2>4 DEF CapOf
<1> QED
  BY <1>1, <1>5, <1>6

\* A new series is one more of the arrivals of every cleanup.
LEMMA CapArrival ==
  ASSUME ShapeInv, TypeOK, NEW t \in Thread, Find(t),
         call[t].key \notin DOMAIN series,
         NEW c \in Cleaning, CapOf(c)
  PROVE  CapOf(c)'
<1>1. PICK k : k = call[t].key
  OBVIOUS
<1>2. /\ DOMAIN series' = DOMAIN series \cup {k} /\ k \notin DOMAIN series
      /\ pc' = [pc EXCEPT ![t] = "add"] /\ pc[t] = "find"
      /\ arrivals' = [u \in Thread |-> IF u \in Cleaning
                        THEN arrivals[u] + 1 ELSE arrivals[u]]
      /\ \A u \in Thread : u # t => call'[u] = call[u]
  BY <1>1 DEF Find, Goto, ShapeInv
<1>3. /\ c \in Thread /\ c # t
  BY <1>2 DEF Cleaning
<1>4. /\ call'[c] = call[c] /\ pc'[c] = pc[c] /\ arrivals'[c] = arrivals[c] + 1
      /\ arrivals[c] \in Nat
  BY <1>2, <1>3, CapSizes DEF ShapeInv
<1>5. Cardinality(Adding') = Cardinality(Adding) + 1
  <2>1. Adding' = Adding \cup {t} /\ t \notin Adding
    BY <1>2, CountingFrame DEF Adding
  <2> QED
    BY <2>1, CapSizes, FS_AddElement
<1>6. Cardinality(DOMAIN series') = Cardinality(DOMAIN series) + 1
  BY <1>2, CapSizes, FS_AddElement
<1>7. Cardinality(Skipped(c)') <= Cardinality(Skipped(c)) + 1
      /\ Cardinality(Skipped(c)') \in Nat
  <2>1. /\ IsFiniteSet(Skipped(c) \cup {k})
        /\ Cardinality(Skipped(c) \cup {k}) <= Cardinality(Skipped(c)) + 1
        /\ Cardinality(Skipped(c) \cup {k}) \in Nat
    <3>1. /\ IsFiniteSet(Skipped(c) \cup {k})
          /\ Cardinality(Skipped(c) \cup {k}) =
               IF k \in Skipped(c) THEN Cardinality(Skipped(c))
                                   ELSE Cardinality(Skipped(c)) + 1
      BY CapSizes, FS_AddElement
    <3> QED
      BY <3>1, CapSizes
  <2>2. Skipped(c)' \subseteq Skipped(c) \cup {k}
    BY <1>2, <1>4 DEF Skipped, Pending
  <2>3. /\ IsFiniteSet(Skipped(c)')
        /\ Cardinality(Skipped(c)') <= Cardinality(Skipped(c) \cup {k})
    BY <2>1, <2>2, FS_Subset
  <2>4. Cardinality(Skipped(c)') \in Nat
    BY <2>3, FS_CardinalityType
  <2> QED
    BY <2>1, <2>3, <2>4, CapSizes
<1>8. Uncounted(c)' = Uncounted(c) /\ Uncounted(c) \in Nat
  BY <1>4 DEF Uncounted
<1>9. Cardinality(Adding') <= arrivals'[c]
  BY <1>4, <1>5, CapSizes DEF CapOf
<1>10. ASSUME pc'[c] \in Capping
       PROVE  /\ call'[c].excess \in Int
              /\ Cardinality(DOMAIN series') + Uncounted(c)'
                   <= MaxEntries + call'[c].excess + arrivals'[c]
              /\ Cardinality(Skipped(c)') <= arrivals'[c]
  <2>1. /\ call[c].excess \in Int
        /\ Cardinality(DOMAIN series) + Uncounted(c)
             <= MaxEntries + call[c].excess + arrivals[c]
        /\ Cardinality(Skipped(c)) <= arrivals[c]
    BY <1>4, <1>10 DEF CapOf
  <2>2. Cardinality(Skipped(c)') <= arrivals'[c]
    BY <1>4, <1>7, <2>1, CapSizes
  <2>3. Cardinality(DOMAIN series') + Uncounted(c)'
          <= MaxEntries + call'[c].excess + arrivals'[c]
    BY <1>4, <1>6, <1>8, <2>1, CapSizes, RateSeriesAssumption
  <2> QED
    BY <1>4, <2>1, <2>2, <2>3
<1> QED
  BY <1>9, <1>10 DEF CapOf

LEMMA CapStep ==
  ASSUME ShapeInv, TypeOK, LoneInv, CapInv, [Next]_vars
  PROVE  CapInv'
<1> SUFFICES ASSUME ~overlapped', NEW c \in Cleaning' PROVE CapOf(c)'
  BY DEF CapInv
<1>1. ~overlapped
  BY DEF Next, TimeStep, Observe, CheckDue, Claim, Visit, ExpireVisit,
         EndExpire, CapVisit, EndCap, Delete, Uncount, Find, Add, Touch, vars,
         history
<1>2. /\ \A t, u \in Cleaning : t = u
      /\ \A t \in Cleaning : CapOf(t)
      /\ \A t \in Thread : pc[t] \in Deleting => call[t].victim \in DOMAIN series
  BY <1>1 DEF LoneInv, CapInv
<1>4. Cardinality(Adding') \in Nat /\ c \in Thread
  BY RateSeriesAssumption, FS_Subset, FS_CardinalityType DEF Adding, Cleaning
\* A cleanup that another worker, or nobody, takes a step beside.
<1>5. ASSUME NEW t, \A u \in Thread \ {t} : pc'[u] = pc[u] /\ call'[u] = call[u],
             c # t, UNCHANGED <<series, arrivals>>, Adding' \subseteq Adding
      PROVE  CapOf(c)'
  <2>1. c \in Cleaning /\ call'[c] = call[c] /\ pc'[c] = pc[c]
    BY <1>4, <1>5 DEF Cleaning
  <2>2. Cardinality(Adding') <= Cardinality(Adding)
    BY <1>5, CapSizes, FS_Subset
  <2>3. arrivals'[c] = arrivals[c] /\ arrivals[c] \in Nat
    BY <1>4, <1>5, CapSizes
  <2> QED
    BY <1>2, <1>4, <1>5, <2>1, <2>2, <2>3, CapSizes, CapFrame
<1>6. CASE TimeStep \/ UNCHANGED vars
  <2>1. UNCHANGED <<pc, call, series, arrivals>>
    BY <1>6 DEF TimeStep, vars, shared, history
  <2>2. c \in Cleaning /\ Adding' = Adding
    BY <2>1 DEF Cleaning, Adding
  <2>3. CapOf(c)
    BY <1>2, <2>2
  <2> QED
    BY <1>4, <2>1, <2>2, <2>3, CapSizes, CapFrame
<1>7. ASSUME NEW t \in Thread, Claim(t), CompareAndSwapSucceeds(t)
      PROVE  CapOf(c)'
  <2>1. /\ Cleaning = {} /\ pc' = [pc EXCEPT ![t] = "expire"] /\ pc[t] = "claim"
        /\ arrivals' = [arrivals EXCEPT ![t] = Cardinality(Adding)]
    BY <1>7 DEF Claim, Goto
  <2>2. c = t /\ pc'[c] = "expire" /\ arrivals'[c] = Cardinality(Adding)
    BY <2>1 DEF Cleaning, ShapeInv, TypeOK
  <2>3. Adding' = Adding
    BY <2>1, AddingAfter
  <2> QED
    BY <2>2, <2>3, CapSizes DEF CapOf, Capping
\* Steps of workers that have nothing to do with the cleanup.
<1>8. ASSUME NEW t \in Thread,
             \/ \E k \in Key : Observe(t, k)
             \/ CheckDue(t) \/ (Claim(t) /\ ~CompareAndSwapSucceeds(t))
             \/ (Find(t) /\ call[t].key \in DOMAIN series) \/ Add(t)
      PROVE  CapOf(c)'
  <2>1. /\ \A u \in Thread \ {t} : pc'[u] = pc[u] /\ call'[u] = call[u]
        /\ UNCHANGED <<series, arrivals>>
    BY <1>8 DEF Observe, CheckDue, Claim, Find, Add, Proceed, Goto, ShapeInv,
                shared, history
  <2>2. pc'[t] \in {"due", "find", "claim", "touch"}
    BY <1>8 DEF Observe, CheckDue, Claim, Find, Add, Proceed, Goto, ShapeInv
  <2>3. c # t /\ Adding' \subseteq Adding
    BY <2>1, <2>2 DEF Cleaning, Adding
  <2> QED
    BY <1>5, <2>1, <2>3
<1>9. ASSUME NEW t \in Thread, Touch(t) PROVE CapOf(c)'
  <2>1. /\ \A u \in Thread \ {t} : pc'[u] = pc[u] /\ call'[u] = call[u]
        /\ arrivals' = [arrivals EXCEPT ![t] = 0]
        /\ series' = series /\ pc'[t] = "idle"
    BY <1>9 DEF Touch, Goto, ShapeInv
  <2>2. c # t /\ c \in Cleaning /\ Adding' \subseteq Adding
    BY <1>4, <2>1 DEF Cleaning, Adding
  <2>3. arrivals'[c] = arrivals[c] /\ call'[c] = call[c] /\ pc'[c] = pc[c]
    BY <1>4, <2>1, <2>2
  <2>4. Cardinality(Adding') <= Cardinality(Adding)
    BY <2>2, CapSizes, FS_Subset
  <2>5. arrivals[c] \in Nat /\ CapOf(c)
    BY <1>2, <1>4, <2>2, CapSizes
  <2> QED
    BY <1>4, <2>1, <2>3, <2>4, <2>5, CapSizes, CapFrame
<1>10. ASSUME NEW t \in Thread, Find(t), call[t].key \notin DOMAIN series
       PROVE  CapOf(c)'
  <2>1. pc' = [pc EXCEPT ![t] = "add"]
    BY <1>10 DEF Find, Goto
  <2>2. c \in Cleaning
    BY <1>4, <2>1 DEF Cleaning, ShapeInv
  <2> QED
    BY <1>2, <1>10, <2>2, CapArrival
\* Steps of the cleanup itself.
<1>11. ASSUME NEW t \in Cleaning, \A u \in Thread \ {t} : pc'[u] = pc[u]
       PROVE  c = t /\ Cleaning = {t} /\ CapOf(t)
  BY <1>2, <1>4, <1>11 DEF Cleaning
<1>12. ASSUME NEW t \in Thread, NEW k \in Key, ExpireVisit(t, k) PROVE CapOf(c)'
  <2>1. /\ pc[t] = "expire" /\ UNCHANGED <<series, arrivals>>
        /\ pc'[t] \in {"expire", "expireDelete"}
        /\ \A u \in Thread \ {t} : pc'[u] = pc[u]
    BY <1>12 DEF ExpireVisit, Visit, Goto, shared, history, ShapeInv
  <2>2. t \in Cleaning
    BY <2>1 DEF Cleaning
  <2>3. c = t /\ CapOf(t)
    BY <1>11, <2>1, <2>2
  <2>4. Adding' = Adding
    BY <2>1 DEF Adding
  <2> QED
    BY <2>1, <2>3, <2>4 DEF CapOf, Capping
<1>13. ASSUME NEW t \in Thread, EndExpire(t) \/ EndCap(t) PROVE CapOf(c)'
  <2>1. /\ t \in Cleaning /\ \A u \in Thread \ {t} : pc'[u] = pc[u]
    <3>1. t \in Cleaning
      BY <1>13 DEF EndExpire, EndCap, Cleaning
    <3>2. PICK step : pc' = [pc EXCEPT ![t] = step]
      BY <1>13 DEF EndExpire, EndCap, Proceed, Goto
    <3> QED
      BY <3>1, <3>2 DEF ShapeInv
  <2>2. c = t /\ Cleaning = {t} /\ CapOf(t)
    BY <1>11, <2>1
  <2>3. ~Proceed(t)
    BY <2>2 DEF Proceed, Goto, Cleaning, ShapeInv
  <2> QED
    BY <1>1, <1>13, <2>2, <2>3, CapBegins DEF EndCap
<1>14. ASSUME NEW t \in Thread, NEW k \in Key, CapVisit(t, k) PROVE CapOf(c)'
  <2>1. t \in Cleaning /\ \A u \in Thread \ {t} : pc'[u] = pc[u]
    BY <1>14 DEF CapVisit, Goto, Cleaning
  <2> QED
    BY <1>11, <1>14, <2>1, CapVisits
<1>15. ASSUME NEW t \in Thread, Delete(t) PROVE CapOf(c)'
  <2>1. t \in Cleaning /\ \A u \in Thread \ {t} : pc'[u] = pc[u]
    BY <1>15 DEF Delete, Goto, Cleaning
  <2>2. call[t].victim \in DOMAIN series
    BY <1>2, <1>15 DEF Delete, Deleting
  <2> QED
    BY <1>11, <1>15, <2>1, <2>2, CapDeletes
<1>16. ASSUME NEW t \in Thread, Uncount(t) PROVE CapOf(c)'
  <2>1. t \in Cleaning /\ \A u \in Thread \ {t} : pc'[u] = pc[u]
    BY <1>16 DEF Uncount, Goto, Cleaning
  <2> QED
    BY <1>11, <1>16, <2>1, CapUncounts
<1> QED
  BY <1>6, <1>7, <1>8, <1>9, <1>10, <1>12, <1>13, <1>14, <1>15, <1>16 DEF Next

\* The cap is hard as long as cleanups do not overlap: when one ends, the map
\* exceeds the limit at most by the series that were stored while it ran, for
\* any number of keys and workers and any limit (engine.go:307).
THEOREM LoneCleanupsCap == Spec => LoneCleanupCaps
<1>1. Init => CapInv
  BY DEF Init, CapInv, Cleaning
<1>2. ShapeInv /\ TypeOK /\ LoneInv /\ CapInv /\ [Next]_vars => CapInv'
  BY CapStep
<1>3. ShapeInv /\ TypeOK /\ LoneInv /\ CapInv /\ [Next]_vars
        => [\A t \in Cleaning :
              pc'[t] = "find" /\ MaxEntries > 0 /\ ~overlapped
                 => Cardinality(DOMAIN series') <= MaxEntries + arrivals[t]]_vars
  <2> SUFFICES ASSUME ShapeInv, TypeOK, LoneInv, CapInv, Next,
                      NEW t \in Cleaning, pc'[t] = "find", MaxEntries > 0,
                      ~overlapped
               PROVE  Cardinality(DOMAIN series') <= MaxEntries + arrivals[t]
    OBVIOUS
  <2>1. EndExpire(t) \/ EndCap(t)
    <3>1. t \in Thread /\ pc[t] # pc'[t]
      BY DEF Cleaning
    <3>2. ~TimeStep
      BY <3>1 DEF TimeStep
    <3>3. PICK u \in Thread :
             \/ \E k \in Key : Observe(u, k) \/ ExpireVisit(u, k) \/ CapVisit(u, k)
             \/ CheckDue(u) \/ Claim(u) \/ EndExpire(u) \/ EndCap(u)
             \/ Delete(u) \/ Uncount(u) \/ Find(u) \/ Add(u) \/ Touch(u)
      BY <3>2 DEF Next
    <3>4. \A v \in Thread \ {u} : pc'[v] = pc[v]
      <4>1. PICK step : pc' = [pc EXCEPT ![u] = step]
        <5>1. CASE \E k \in Key : Observe(u, k) \/ ExpireVisit(u, k) \/ CapVisit(u, k)
          BY <5>1 DEF Observe, ExpireVisit, CapVisit, Goto
        <5>2. CASE CheckDue(u) \/ Claim(u) \/ EndExpire(u) \/ EndCap(u)
          BY <5>2 DEF CheckDue, Claim, EndExpire, EndCap, Proceed, Goto
        <5>3. CASE Delete(u) \/ Uncount(u) \/ Find(u) \/ Add(u) \/ Touch(u)
          BY <5>3 DEF Delete, Uncount, Find, Add, Touch, Goto
        <5> QED
          BY <3>3, <5>1, <5>2, <5>3
      <4> QED
        BY <4>1 DEF ShapeInv
    <3>5. u = t
      BY <3>1, <3>4
    <3> QED
      BY <3>1, <3>3, <3>5 DEF Observe, CheckDue, Claim, ExpireVisit, CapVisit,
         Delete, Uncount, Find, Add, Touch, Goto, Cleaning, ShapeInv
  <2>2. /\ t \in Thread /\ CapOf(t) /\ arrivals[t] \in Nat
        /\ series' = series
    BY <2>1, CapSizes DEF CapInv, Cleaning, EndExpire, EndCap, shared
  <2>3. CASE EndExpire(t)
    <3>1. /\ pc[t] = "expire" /\ Excess <= 0
      <4>1. ~(MaxEntries > 0 /\ Excess > 0)
        BY <2>2, <2>3 DEF EndExpire, Goto, ShapeInv
      <4>2. Excess \in Int
        BY RateSeriesAssumption DEF Excess, ShapeInv
      <4> QED
        BY <2>3, <4>1, <4>2 DEF EndExpire
    <3>2. Removing = {}
      <4>1. \A u \in Cleaning : u = t
        BY DEF LoneInv
      <4>2. Removing \subseteq Cleaning /\ t \notin Removing
        BY <3>1 DEF Removing, Cleaning
      <4> QED
        BY <4>1, <4>2
    <3>3. count + Cardinality(Adding) - 0 = Cardinality(DOMAIN series)
      BY <3>2, FS_EmptySet DEF LoneInv, Balance
    <3>4. count <= MaxEntries /\ count \in Int
      BY <3>1, RateSeriesAssumption DEF Excess, ShapeInv
    <3>5. Cardinality(Adding) <= arrivals[t]
      BY <2>2 DEF CapOf
    <3> QED
      BY <2>2, <3>3, <3>4, <3>5, CapSizes, RateSeriesAssumption
  <2>4. CASE EndCap(t)
    <3>1. /\ pc[t] = "cap" /\ (call[t].excess = 0 \/ call[t].left = {})
          /\ call[t].excess \in Int
          /\ Cardinality(DOMAIN series) + Uncounted(t)
               <= MaxEntries + call[t].excess + arrivals[t]
          /\ Cardinality(Skipped(t)) <= arrivals[t]
          /\ Uncounted(t) = 0
      BY <2>2, <2>4 DEF EndCap, CapOf, Capping, Uncounted
    <3>2. CASE call[t].excess = 0
      BY <2>2, <3>1, <3>2, CapSizes, RateSeriesAssumption
    <3>3. CASE call[t].left = {}
      <4>1. Skipped(t) = DOMAIN series
        BY <3>1, <3>3 DEF Skipped, Pending
      <4> QED
        BY <2>2, <3>1, <4>1, CapSizes, RateSeriesAssumption
    <3> QED
      BY <3>1, <3>2, <3>3
  <2> QED
    BY <2>1, <2>3, <2>4
<1> QED
  BY <1>1, <1>2, <1>3, LoneHolds, ShapeHolds, TypeCorrect, PTL
  DEF Spec, LoneCleanupCaps
=============================================================================
