--------------------------- MODULE ConflictProofs ---------------------------
(***************************************************************************)
(* The conflict manager keeps its map free of empty entries, and it        *)
(* implements the log that forgets nothing, for any number of parameters   *)
(* and drifts and any threshold, as long as all its callers ask about one  *)
(* window.                                                                 *)
(***************************************************************************)
EXTENDS ConflictHistory, FiniteSetTheorems, TLAPS

\* What the manager and the log hold after a cutoff.
Held(p, cutoff)   == {s \in Events(p) : s.at > cutoff}
Logged(p, cutoff) == {i \in DOMAIN log[p] : log[p][i] > cutoff}

Stamp == [at : Nat, nth : Nat]

\* The numbers that keep the drifts of the present tick apart are in use.
Numbered(p) ==
    \A s \in Events(p) :
       s.at = clock => s.nth < Cardinality({r \in Events(p) : r.at = clock})

HistoryInv ==
    /\ clock \in Nat
    /\ log \in [Param -> Seq(Nat)]
    /\ \A p \in Param : /\ Events(p) \subseteq Stamp
                        /\ IsFiniteSet(Events(p))
                        /\ \A s \in Events(p) : s.at <= clock
                        /\ Numbered(p)

\* Pruning forgets nothing that a window still covers, nor will cover later:
\* after every cutoff that is not too old, as many drifts are held as logged.
CoverInv ==
    \A p \in Param, w \in Windows : \A cutoff \in Int :
       cutoff >= clock - w
         => Cardinality(Held(p, cutoff)) = Cardinality(Logged(p, cutoff))

LEMMA NewStamp ==
  ASSUME HistoryInv, NEW p \in Param
  PROVE  /\ NextStamp(p) \in Stamp /\ NextStamp(p) \notin Events(p)
         /\ NextStamp(p).at = clock
<1> DEFINE now == {r \in Events(p) : r.at = clock}
<1>1. IsFiniteSet(now)
  BY FS_Subset DEF HistoryInv
<1>2. Cardinality(now) \in Nat
  BY <1>1, FS_CardinalityType
<1>3. NextStamp(p) = [at |-> clock, nth |-> Cardinality(now)]
  BY DEF NextStamp
<1>4. \A s \in Events(p) : s.at = clock => s.nth < Cardinality(now)
  BY DEF HistoryInv, Numbered
<1> HIDE DEF now
<1>5. NextStamp(p) \in Stamp /\ NextStamp(p).at = clock
      /\ NextStamp(p).nth = Cardinality(now)
  BY <1>2, <1>3 DEF Stamp, HistoryInv
<1> QED
  BY <1>2, <1>4, <1>5

\* What recording and pruning make of the drifts of each parameter.
LEMMA RecordedEvents ==
  ASSUME NEW p \in Param, ConflictRecord(p), NEW q
  PROVE  Events(q)' = IF q = p THEN Events(p) \cup {NextStamp(p)} ELSE Events(q)
BY DEF ConflictRecord, Events

LEMMA PrunedEvents ==
  ASSUME NEW p \in Param, NEW w, events' = Pruned(p, w), NEW q
  PROVE  Events(q)' = IF q = p THEN Recent(Events(p), w) ELSE Events(q)
BY DEF Pruned, Events, Recent

LEMMA HistoryStep == HistoryInv /\ [Next]_vars => HistoryInv'
<1> SUFFICES ASSUME HistoryInv, [Next]_vars PROVE HistoryInv'
  OBVIOUS
<1>1. CASE Advance
  <2>1. clock' \in Nat /\ clock' = clock + 1 /\ UNCHANGED <<events, log>>
    BY <1>1 DEF Advance, Tick, HistoryInv
  <2>2. \A p : Events(p)' = Events(p)
    BY <2>1 DEF Events
  <2>3. \A p \in Param : \A s \in Events(p) : s.at \in Nat /\ s.at < clock'
    BY <2>1 DEF HistoryInv, Stamp
  <2>4. ASSUME NEW p \in Param
        PROVE  (\A s \in Events(p) : s.at <= clock') /\ Numbered(p)'
    BY <2>1, <2>2, <2>3, <2>4 DEF Numbered
  <2> QED
    BY <2>1, <2>2, <2>4 DEF HistoryInv
<1>2. ASSUME NEW p \in Param, Record(p) PROVE HistoryInv'
  <2>1. UNCHANGED clock /\ log' \in [Param -> Seq(Nat)]
    BY <1>2 DEF Record, HistoryInv
  <2>2. \A q \in Param : Events(q)' = IF q = p THEN Events(p) \cup {NextStamp(p)}
                                              ELSE Events(q)
    BY <1>2, RecordedEvents DEF Record
  <2>3. ASSUME NEW q \in Param
        PROVE  /\ Events(q)' \subseteq Stamp /\ IsFiniteSet(Events(q)')
               /\ \A s \in Events(q)' : s.at <= clock
               /\ Numbered(q)'
    <3>1. CASE q # p
      BY <2>1, <2>2, <3>1 DEF HistoryInv, Numbered
    <3>2. CASE q = p
      <4> DEFINE now == {r \in Events(p) : r.at = clock}
      <4>1. IsFiniteSet(now) /\ IsFiniteSet(Events(p))
        BY FS_Subset DEF HistoryInv
      <4>2. Events(q)' = Events(p) \cup {NextStamp(p)}
        BY <2>2, <3>2
      <4>3. {r \in Events(q)' : r.at = clock} = now \cup {NextStamp(p)}
        BY <4>2, NewStamp
      <4>4. Cardinality(now \cup {NextStamp(p)}) = Cardinality(now) + 1
        BY <4>1, NewStamp, FS_AddElement
      <4>5. NextStamp(p).nth = Cardinality(now)
        BY DEF NextStamp
      <4>6. \A s \in Events(p) : s.at = clock => s.nth < Cardinality(now)
        BY DEF HistoryInv, Numbered
      <4>7. Cardinality(now) \in Nat /\ \A s \in Events(p) : s.nth \in Nat
        BY <4>1, FS_CardinalityType DEF HistoryInv, Stamp
      <4> HIDE DEF now
      <4>8. \A s \in Events(q)' : s.at = clock =>
                s.nth < Cardinality({r \in Events(q)' : r.at = clock})
        <5>1. Cardinality({r \in Events(q)' : r.at = clock}) = Cardinality(now) + 1
          BY <4>3, <4>4
        <5>2. \A s \in Events(q)' : s.at = clock => s.nth < Cardinality(now) + 1
          BY <4>2, <4>5, <4>6, <4>7
        <5> QED
          BY <5>1, <5>2
      <4>9. Numbered(q)'
        BY <2>1, <4>8 DEF Numbered
      <4>10. /\ Events(q)' \subseteq Stamp
             /\ \A s \in Events(q)' : s.at <= clock
        BY <4>2, NewStamp DEF HistoryInv
      <4> QED
        BY <4>1, <4>2, <4>9, <4>10, FS_AddElement
    <3> QED
      BY <3>1, <3>2
  <2> QED
    BY <2>1, <2>3 DEF HistoryInv
<1>3. ASSUME NEW p \in Param, NEW w \in Windows, Ask(p, w) PROVE HistoryInv'
  <2>1. UNCHANGED <<clock, log>>
    BY <1>3 DEF Ask
  <2>2. w \in Nat \ {0}
    BY ConflictHistoryAssumption
  <2>3. ASSUME NEW q \in Param
        PROVE  /\ Events(q)' \subseteq Events(q)
               /\ {r \in Events(q)' : r.at = clock} = {r \in Events(q) : r.at = clock}
    <3>1. Events(q)' = IF q = p THEN Recent(Events(p), w) ELSE Events(q)
      BY <1>3, PrunedEvents DEF Ask
    <3>2. \A r \in Events(q) : r.at = clock => r.at > clock - w
      BY <2>2 DEF HistoryInv
    <3> QED
      BY <3>1, <3>2 DEF Recent
  <2>4. ASSUME NEW q \in Param
        PROVE  /\ Events(q)' \subseteq Stamp /\ IsFiniteSet(Events(q)')
               /\ \A s \in Events(q)' : s.at <= clock
               /\ Numbered(q)'
    BY <2>1, <2>3, FS_Subset DEF HistoryInv, Numbered
  <2> QED
    BY <2>1, <2>4 DEF HistoryInv
<1>4. ASSUME ClearAll \/ \E p \in Param : Clear(p) PROVE HistoryInv'
  <2>1. /\ UNCHANGED clock
        /\ log' \in [Param -> Seq(Nat)]
        /\ \A q \in Param : Events(q)' = {} \/ Events(q)' = Events(q)
    <3>1. CASE ClearAll
      BY <3>1 DEF ClearAll, ConflictClearAll, Events
    <3>2. ASSUME NEW p \in Param, Clear(p)
          PROVE  /\ UNCHANGED clock
                 /\ log' \in [Param -> Seq(Nat)]
                 /\ \A q \in Param : Events(q)' = {} \/ Events(q)' = Events(q)
      BY <3>2 DEF Clear, ConflictClear, Events, HistoryInv
    <3> QED
      BY <1>4, <3>1, <3>2
  <2> QED
    BY <2>1, FS_EmptySet DEF HistoryInv, Numbered
<1>5. CASE UNCHANGED vars
  BY <1>5 DEF vars, HistoryInv, Numbered, Events
<1> QED
  BY <1>1, <1>2, <1>3, <1>4, <1>5 DEF Next

LEMMA HistoryHolds == Spec => []HistoryInv
<1>1. Init => HistoryInv
  BY FS_EmptySet DEF Init, NewConflictManager, HistoryInv, Events, Numbered
<1> QED
  BY <1>1, HistoryStep, PTL DEF Spec

-----------------------------------------------------------------------------
(* Nothing that a window covers is forgotten. *)

LEMMA Finite ==
  ASSUME HistoryInv, NEW p \in Param, NEW cutoff \in Int
  PROVE  /\ IsFiniteSet(Held(p, cutoff)) /\ IsFiniteSet(Logged(p, cutoff))
         /\ Cardinality(Held(p, cutoff)) \in Nat
         /\ Cardinality(Logged(p, cutoff)) \in Nat
<1>1. IsFiniteSet(Held(p, cutoff))
  BY FS_Subset DEF Held, HistoryInv
<1>2. IsFiniteSet(Logged(p, cutoff))
  <2>1. /\ DOMAIN log[p] = 1 .. Len(log[p]) /\ Len(log[p]) \in Nat
    BY DEF HistoryInv
  <2>2. IsFiniteSet(1 .. Len(log[p]))
    BY <2>1, FS_Interval
  <2> QED
    BY <2>1, <2>2, FS_Subset DEF Logged
<1> QED
  BY <1>1, <1>2, FS_CardinalityType

\* A cutoff that is not too old after time has passed was not before.
LEMMA LaterCutoff ==
  ASSUME NEW before \in Nat, NEW now \in Nat, now >= before, NEW w \in Nat,
         NEW cutoff \in Int, cutoff >= now - w
  PROVE  cutoff >= before - w
OBVIOUS

LEMMA CoverStep ==
  ASSUME \A v, w \in Windows : v = w, HistoryInv, CoverInv, [Next]_vars
  PROVE  CoverInv'
<1> SUFFICES ASSUME NEW q \in Param, NEW w \in Windows, NEW cutoff \in Int,
                    cutoff >= clock' - w
             PROVE  Cardinality(Held(q, cutoff)') = Cardinality(Logged(q, cutoff)')
  BY DEF CoverInv
<1> USE DEF HistoryInv
<1>1. w \in Nat \ {0}
  BY ConflictHistoryAssumption
<1>2. cutoff >= clock - w => Cardinality(Held(q, cutoff)) = Cardinality(Logged(q, cutoff))
  BY DEF CoverInv
<1>3. CASE Advance \/ UNCHANGED vars
  <2>1. clock' >= clock /\ clock' \in Nat /\ UNCHANGED events /\ UNCHANGED log
    BY <1>3 DEF Advance, Tick, vars
  <2>2. Held(q, cutoff)' = Held(q, cutoff) /\ Logged(q, cutoff)' = Logged(q, cutoff)
    BY <2>1 DEF Held, Logged, Events
  <2>3. cutoff >= clock - w
    BY <1>1, <2>1, LaterCutoff
  <2>4. Cardinality(Held(q, cutoff)) = Cardinality(Logged(q, cutoff))
    BY <1>2, <2>3
  <2> QED
    BY <2>2, <2>4
<1>4. ASSUME NEW p \in Param, Record(p)
      PROVE  Cardinality(Held(q, cutoff)') = Cardinality(Logged(q, cutoff)')
  <2>1. /\ UNCHANGED clock
        /\ log' = [log EXCEPT ![p] = Append(@, clock)]
    BY <1>4 DEF Record
  <2>2. Events(q)' = IF q = p THEN Events(p) \cup {NextStamp(p)} ELSE Events(q)
    BY <1>4, RecordedEvents DEF Record
  <2>3. Cardinality(Held(q, cutoff)) = Cardinality(Logged(q, cutoff))
    BY <1>2, <2>1
  <2>4. CASE q # p
    <3>1. Held(q, cutoff)' = Held(q, cutoff) /\ Logged(q, cutoff)' = Logged(q, cutoff)
      BY <2>1, <2>2, <2>4 DEF Held, Logged
    <3> QED
      BY <2>3, <3>1
  <2>5. CASE q = p
    <3> DEFINE n == Len(log[p])
    <3>1. /\ log[p] \in Seq(Nat) /\ n \in Nat
          /\ DOMAIN log[p] = 1 .. n
          /\ log'[p] = Append(log[p], clock)
      BY <1>1, <2>1
    <3>2. /\ DOMAIN log'[p] = 1 .. n + 1
          /\ log'[p][n + 1] = clock
          /\ \A i \in 1 .. n : log'[p][i] = log[p][i]
      BY <3>1
    <3>3. CASE clock > cutoff
      <4>1. Held(q, cutoff)' = Held(q, cutoff) \cup {NextStamp(p)}
        BY <2>2, <2>5, <3>3, NewStamp DEF Held
      <4>2. NextStamp(p) \notin Held(q, cutoff)
        BY <2>5, NewStamp DEF Held
      <4>3. Logged(q, cutoff)' = Logged(q, cutoff) \cup {n + 1}
        BY <2>5, <3>1, <3>2, <3>3 DEF Logged
      <4>4. n + 1 \notin Logged(q, cutoff)
        BY <2>5, <3>1 DEF Logged
      <4>5. /\ IsFiniteSet(Held(q, cutoff)) /\ IsFiniteSet(Logged(q, cutoff))
            /\ Cardinality(Held(q, cutoff)) \in Nat
        BY Finite
      <4>6. Cardinality(Held(q, cutoff)') = Cardinality(Held(q, cutoff)) + 1
        BY <4>1, <4>2, <4>5, FS_AddElement
      <4>7. Cardinality(Logged(q, cutoff)') = Cardinality(Logged(q, cutoff)) + 1
        BY <4>3, <4>4, <4>5, FS_AddElement
      <4> QED
        BY <2>3, <4>6, <4>7
    <3>4. CASE ~(clock > cutoff)
      <4>1. Held(q, cutoff)' = Held(q, cutoff)
        BY <2>2, <2>5, <3>4, NewStamp DEF Held
      <4>2. Logged(q, cutoff)' = Logged(q, cutoff)
        BY <2>5, <3>1, <3>2, <3>4 DEF Logged
      <4> QED
        BY <2>3, <4>1, <4>2
    <3> QED
      BY <3>3, <3>4
  <2> QED
    BY <2>4, <2>5
<1>5. ASSUME NEW p \in Param, NEW v \in Windows, Ask(p, v)
      PROVE  Cardinality(Held(q, cutoff)') = Cardinality(Logged(q, cutoff)')
  <2>1. UNCHANGED clock /\ UNCHANGED log /\ v = w
    BY <1>5 DEF Ask
  <2>2. Events(q)' = IF q = p THEN Recent(Events(p), w) ELSE Events(q)
    BY <1>5, <2>1, PrunedEvents DEF Ask
  <2>3. \A s \in Events(q) : s.at \in Nat
    BY DEF Stamp
  <2>4. Held(q, cutoff)' = Held(q, cutoff)
    BY <1>1, <2>1, <2>2, <2>3 DEF Held, Recent
  <2>5. Logged(q, cutoff)' = Logged(q, cutoff)
    BY <2>1 DEF Logged
  <2> QED
    BY <1>2, <2>1, <2>4, <2>5
<1>6. ASSUME ClearAll \/ \E p \in Param : Clear(p)
      PROVE  Cardinality(Held(q, cutoff)') = Cardinality(Logged(q, cutoff)')
  <2>1. UNCHANGED clock
    BY <1>6 DEF ClearAll, Clear
  <2>2. \/ Events(q)' = {} /\ log'[q] = << >>
        \/ Events(q)' = Events(q) /\ log'[q] = log[q]
    BY <1>6 DEF ClearAll, ConflictClearAll, Clear, ConflictClear, Events
  <2>3. CASE Events(q)' = {} /\ log'[q] = << >>
    <3>1. Held(q, cutoff)' = {} /\ Logged(q, cutoff)' = {}
      BY <2>3 DEF Held, Logged
    <3> QED
      BY <3>1
  <2>4. CASE Events(q)' = Events(q) /\ log'[q] = log[q]
    <3>1. Held(q, cutoff)' = Held(q, cutoff) /\ Logged(q, cutoff)' = Logged(q, cutoff)
      BY <2>4 DEF Held, Logged
    <3> QED
      BY <1>2, <2>1, <3>1
  <2> QED
    BY <2>2, <2>3, <2>4
<1> QED
  BY <1>3, <1>4, <1>5, <1>6 DEF Next

-----------------------------------------------------------------------------
LEMMA WindowStep ==
  HistoryInv /\ CoverInv /\ [Next]_vars => [Window!Next]_(Window!vars)
<1> SUFFICES ASSUME HistoryInv, CoverInv, [Next]_vars
             PROVE  Window!Next \/ UNCHANGED Window!vars
  OBVIOUS
<1>1. CASE Advance
  BY <1>1 DEF Advance, Tick, Window!Next, Window!Advance, Window!Tick
<1>2. ASSUME NEW p \in Param, Record(p) PROVE Window!Next
  BY <1>2 DEF Record, Window!Next, Window!Record
<1>3. ASSUME NEW p \in Param, NEW w \in Windows, Ask(p, w) PROVE Window!Next
  <2>1. w \in Nat
    BY ConflictHistoryAssumption
  <2>2. Recent(Events(p), w) = Held(p, clock - w)
    BY DEF Recent, Held
  <2>3. Window!Count(p, w) = Cardinality(Logged(p, clock - w))
    <3>1. Window!Count(p, w) = Window!Cardinality(Logged(p, clock - w))
      BY DEF Window!Count, Logged
    <3> QED
      BY <3>1 DEF Window!Cardinality, Cardinality
  <2>4. Cardinality(Held(p, clock - w)) = Cardinality(Logged(p, clock - w))
    BY <2>1 DEF CoverInv, HistoryInv
  <2>5. Window!Ask(p, w)
    BY <1>3, <2>2, <2>3, <2>4 DEF Ask, IsConflicting, Window!Ask
  <2> QED
    BY <2>5 DEF Window!Next
<1>4. ASSUME NEW p \in Param, Clear(p) PROVE Window!Next
  <2>1. log' = [q \in Param |-> IF q \in {p} THEN << >> ELSE log[q]]
    BY <1>4 DEF Clear, HistoryInv
  <2>2. Window!Forget({p})
    BY <1>4, <2>1 DEF Clear, Window!Forget
  <2> QED
    BY <2>2 DEF Window!Next
<1>5. CASE ClearAll
  <2>1. log' = [q \in Param |-> IF q \in Param THEN << >> ELSE log[q]]
    BY <1>5 DEF ClearAll
  <2>2. Window!Forget(Param)
    BY <1>5, <2>1 DEF ClearAll, Window!Forget
  <2> QED
    BY <2>2 DEF Window!Next
<1>6. CASE UNCHANGED vars
  BY <1>6 DEF vars, Window!vars
<1> QED
  BY <1>1, <1>2, <1>3, <1>4, <1>5, <1>6 DEF Next

\* While every caller asks about one window, as processEvent does
\* (worker.go:148), the manager that prunes whenever it is asked answers as if
\* it had never forgotten anything.
THEOREM OneWindowForgetsNothing ==
  ASSUME \A v, w \in Windows : v = w
  PROVE  Spec => AnswersAsIfNothingForgotten
<1>1. Init => CoverInv
  <2> SUFFICES ASSUME Init, NEW p \in Param, NEW cutoff \in Int
               PROVE  Cardinality(Held(p, cutoff)) = Cardinality(Logged(p, cutoff))
    BY DEF CoverInv
  <2>1. Held(p, cutoff) = {} /\ Logged(p, cutoff) = {}
    BY DEF Init, NewConflictManager, Held, Logged, Events
  <2> QED
    BY <2>1
<1>2. HistoryInv /\ CoverInv /\ [Next]_vars => CoverInv'
  BY CoverStep
<1>3. Init => Window!Init
  BY DEF Init, Window!Init
<1> QED
  BY <1>1, <1>2, <1>3, HistoryHolds, WindowStep, PTL
  DEF Spec, AnswersAsIfNothingForgotten, Window!Spec

-----------------------------------------------------------------------------
(* The map stays as small as its drifts: an entry for each parameter that   *)
(* has some, and in no entry more than the log knows of.                    *)

MapInv ==
    /\ clock <= MaxTime
    /\ DOMAIN events \subseteq Param
    /\ \A p \in DOMAIN events : events[p] # {}
    /\ answer \in BOOLEAN
    /\ \A p \in Param : /\ Cardinality(Events(p)) <= Len(log[p])
                        /\ Len(log[p]) <= MaxRecords
                        /\ \A s \in Events(p) : s.nth < MaxRecords

LEMMA RecordKeepsMap ==
  ASSUME HistoryInv, MapInv, NEW p \in Param, Record(p)
  PROVE  MapInv'
<1>1. /\ UNCHANGED <<clock, answer>>
      /\ log' = [log EXCEPT ![p] = Append(@, clock)]
      /\ Len(log[p]) < MaxRecords
      /\ ConflictRecord(p)
  BY DEF Record
<1>2. \A q \in Param : Events(q)' = IF q = p THEN Events(p) \cup {NextStamp(p)}
                                            ELSE Events(q)
  BY <1>1, RecordedEvents
<1>3. /\ DOMAIN events' \subseteq Param
      /\ \A q \in DOMAIN events' : events'[q] # {}
  BY <1>1 DEF ConflictRecord, MapInv
<1>4. /\ log[p] \in Seq(Nat) /\ Len(log[p]) \in Nat /\ MaxRecords \in Nat
      /\ log'[p] = Append(log[p], clock) /\ clock \in Nat
  BY <1>1, ConflictHistoryAssumption DEF HistoryInv
<1>5. Len(log'[p]) = Len(log[p]) + 1
  BY <1>4
<1> DEFINE now == {s \in Events(p) : s.at = clock}
<1>6. IsFiniteSet(Events(p)) /\ now \subseteq Events(p)
  BY DEF HistoryInv
<1>7. /\ Cardinality(now) <= Cardinality(Events(p))
      /\ Cardinality(now) \in Nat /\ Cardinality(Events(p)) \in Nat
  BY <1>6, FS_Subset, FS_CardinalityType
<1>8. NextStamp(p).nth = Cardinality(now)
  BY DEF NextStamp
<1> HIDE DEF now
<1>9. NextStamp(p).nth < MaxRecords
  BY <1>1, <1>4, <1>7, <1>8 DEF MapInv
<1>10. Cardinality(Events(p) \cup {NextStamp(p)}) = Cardinality(Events(p)) + 1
  BY <1>6, NewStamp, FS_AddElement
<1>11. ASSUME NEW q \in Param
       PROVE  /\ Cardinality(Events(q)') <= Len(log'[q])
              /\ Len(log'[q]) <= MaxRecords
              /\ \A s \in Events(q)' : s.nth < MaxRecords
  <2>1. CASE q = p
    <3>1. Events(q)' = Events(p) \cup {NextStamp(p)}
      BY <1>2, <2>1
    <3>2. \A s \in Events(q)' : s.nth < MaxRecords
      BY <1>9, <3>1 DEF MapInv
    <3>3. Cardinality(Events(q)') = Cardinality(Events(p)) + 1
      BY <1>10, <3>1
    <3>4. Cardinality(Events(p)) <= Len(log[p])
      BY DEF MapInv
    <3> QED
      BY <1>1, <1>4, <1>5, <1>7, <2>1, <3>2, <3>3, <3>4
  <2>2. CASE q # p
    <3>1. Events(q)' = Events(q) /\ log'[q] = log[q]
      BY <1>1, <1>2, <2>2 DEF HistoryInv
    <3> QED
      BY <3>1 DEF MapInv
  <2> QED
    BY <2>1, <2>2
<1> QED
  BY <1>1, <1>3, <1>11 DEF MapInv

LEMMA AskKeepsMap ==
  ASSUME HistoryInv, MapInv, NEW p \in Param, NEW w \in Windows, Ask(p, w)
  PROVE  MapInv'
<1>1. UNCHANGED <<clock, log>> /\ events' = Pruned(p, w)
  BY DEF Ask
<1>2. answer' \in BOOLEAN
  BY DEF Ask, IsConflicting
<1>3. /\ DOMAIN events' \subseteq Param
      /\ \A q \in DOMAIN events' : events'[q] # {}
  BY <1>1 DEF Pruned, MapInv
<1>4. ASSUME NEW q \in Param
      PROVE  /\ Cardinality(Events(q)') <= Cardinality(Events(q))
             /\ Cardinality(Events(q)') \in Nat /\ Cardinality(Events(q)) \in Nat
             /\ Events(q)' \subseteq Events(q)
  <2>1. Events(q)' \subseteq Events(q)
    BY <1>1, PrunedEvents DEF Recent
  <2>2. IsFiniteSet(Events(q))
    BY DEF HistoryInv
  <2>3. IsFiniteSet(Events(q)') /\ Cardinality(Events(q)') <= Cardinality(Events(q))
    BY <2>1, <2>2, FS_Subset
  <2> QED
    BY <2>1, <2>2, <2>3, FS_CardinalityType
<1>5. ASSUME NEW q \in Param
      PROVE  /\ Cardinality(Events(q)') <= Len(log'[q])
             /\ Len(log'[q]) <= MaxRecords
             /\ \A s \in Events(q)' : s.nth < MaxRecords
  <2>1. log'[q] = log[q] /\ Len(log[q]) \in Nat
    BY <1>1 DEF HistoryInv
  <2>2. /\ Cardinality(Events(q)) <= Len(log[q])
        /\ Len(log[q]) <= MaxRecords
        /\ \A s \in Events(q) : s.nth < MaxRecords
    BY DEF MapInv
  <2> QED
    BY <1>4, <2>1, <2>2
<1> QED
  BY <1>1, <1>2, <1>3, <1>5 DEF MapInv

LEMMA ForgettingKeepsMap ==
  ASSUME HistoryInv, MapInv, ClearAll \/ \E p \in Param : Clear(p)
  PROVE  MapInv'
<1>1. /\ UNCHANGED <<clock, answer>>
      /\ DOMAIN events' \subseteq Param
      /\ \A q \in DOMAIN events' : events'[q] # {}
  BY DEF ClearAll, ConflictClearAll, Clear, ConflictClear, MapInv
<1>2. \A q \in Param : \/ Events(q)' = {} /\ log'[q] = << >>
                       \/ Events(q)' = Events(q) /\ log'[q] = log[q]
  BY DEF ClearAll, ConflictClearAll, Clear, ConflictClear, Events, HistoryInv
<1>3. Cardinality({}) = 0 /\ MaxRecords \in Nat
  BY FS_EmptySet, ConflictHistoryAssumption
<1>4. ASSUME NEW q \in Param
      PROVE  /\ Cardinality(Events(q)') <= Len(log'[q])
             /\ Len(log'[q]) <= MaxRecords
             /\ \A s \in Events(q)' : s.nth < MaxRecords
  <2>1. CASE Events(q)' = {} /\ log'[q] = << >>
    BY <1>3, <2>1
  <2>2. CASE Events(q)' = Events(q) /\ log'[q] = log[q]
    BY <2>2 DEF MapInv
  <2> QED
    BY <1>2, <2>1, <2>2
<1> QED
  BY <1>1, <1>4 DEF MapInv

LEMMA MapStep == HistoryInv /\ MapInv /\ [Next]_vars => MapInv'
<1> SUFFICES ASSUME HistoryInv, MapInv, [Next]_vars PROVE MapInv'
  OBVIOUS
<1>1. CASE Advance
  <2>1. clock' <= MaxTime /\ UNCHANGED <<events, log, answer>>
    BY <1>1, MaxTimeAssumption DEF Advance, Tick, HistoryInv
  <2> QED
    BY <2>1 DEF MapInv, Events
<1>2. CASE UNCHANGED vars
  BY <1>2 DEF vars, MapInv, Events
<1> QED
  BY <1>1, <1>2, RecordKeepsMap, AskKeepsMap, ForgettingKeepsMap DEF Next

\* The map of conflict.go:14 never holds an entry for a parameter without
\* drifts, however recording, asking and clearing interleave, and no entry
\* numbers a drift beyond those recorded since the last clear.
THEOREM TypeCorrect == Spec => []TypeOK
<1>1. Init => MapInv
  <2> SUFFICES ASSUME Init PROVE MapInv
    OBVIOUS
  <2>1. /\ clock <= MaxTime /\ answer \in BOOLEAN
        /\ DOMAIN events \subseteq Param
        /\ \A p \in DOMAIN events : events[p] # {}
    <3>1. clock = 0 /\ answer = FALSE /\ DOMAIN events = {}
      BY DEF Init, NewConflictManager
    <3>2. clock <= MaxTime
      BY <3>1, MaxTimeAssumption
    <3> QED
      BY <3>1, <3>2
  <2>2. ASSUME NEW p \in Param
        PROVE  Events(p) = {} /\ log[p] = << >>
    BY DEF Init, NewConflictManager, Events
  <2>3. Cardinality({}) = 0 /\ MaxRecords \in Nat /\ Len(<< >>) = 0
    BY FS_EmptySet, ConflictHistoryAssumption
  <2> QED
    BY <2>1, <2>2, <2>3 DEF MapInv
<1>2. HistoryInv /\ MapInv => TypeOK
  <2> SUFFICES ASSUME HistoryInv, MapInv PROVE TypeOK
    OBVIOUS
  <2>1. clock \in 0..MaxTime
    BY MaxTimeAssumption DEF HistoryInv, MapInv
  <2>2. ASSUME NEW p \in DOMAIN events
        PROVE  events[p] \subseteq [at : 0..MaxTime, nth : 0..MaxRecords - 1]
    <3>1. p \in Param /\ Events(p) = events[p]
      BY DEF MapInv, Events
    <3>2. ASSUME NEW s \in events[p]
          PROVE  s \in [at : 0..MaxTime, nth : 0..MaxRecords - 1]
      <4>1. s \in Stamp /\ s.at <= clock /\ s.nth < MaxRecords
        BY <3>1 DEF HistoryInv, MapInv
      <4>2. s.at \in 0..MaxTime /\ s.nth \in 0..MaxRecords - 1
        BY <2>1, <4>1, MaxTimeAssumption, ConflictHistoryAssumption DEF Stamp
      <4> QED
        BY <4>1, <4>2 DEF Stamp
    <3> QED
      BY <3>2
  <2> QED
    BY <2>1, <2>2 DEF MapInv, TypeOK
<1> QED
  BY <1>1, <1>2, MapStep, HistoryHolds, PTL DEF Spec
=============================================================================
