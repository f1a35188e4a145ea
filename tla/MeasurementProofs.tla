------------------------- MODULE MeasurementProofs -------------------------
(***************************************************************************)
(* That concurrent workers measure every event of a series once, that      *)
(* events in order are measured exactly, that a rate is compared with a    *)
(* fresh baseline, and that the ring of the burst detector is a queue and  *)
(* its count what it claims: for any number of workers and of events, any  *)
(* window, threshold and size of the ring.                                 *)
(***************************************************************************)
EXTENDS Measurement, FiniteSetTheorems, SequenceTheorems,
        WellFoundedInduction, TLAPS

\* What a series remembers of its events, and what a worker holds.
SeriesInv ==
    /\ clock \in Nat
    /\ pc \in [Thread -> Steps]
    /\ DOMAIN call = Thread
    /\ \A t \in Thread : pc[t] \in {"burst", "swap"} => call[t].now \in Nat
    /\ stamps \in Seq(Nat)
    /\ lastEvent = IF stamps = << >> THEN NoTime ELSE stamps[Len(stamps)]
    /\ samples \in Nat
    /\ total \in Nat
    /\ stamps = << >> => total = 0

\* A step of one worker that the series does not notice.
LEMMA SeriesFrame ==
  ASSUME SeriesInv, UNCHANGED <<clock, stamps, lastEvent, total>>,
         NEW t \in Thread, NEW step \in Steps,
         pc' = [pc EXCEPT ![t] = step], DOMAIN call' = DOMAIN call,
         \A u \in Thread : u # t => call'[u] = call[u],
         step \in {"burst", "swap"} => call'[t].now \in Nat,
         samples' \in Nat
  PROVE  SeriesInv'
<1>1. pc' \in [Thread -> Steps] /\ DOMAIN call' = Thread
  BY DEF SeriesInv
<1>2. ASSUME NEW u \in Thread, pc'[u] \in {"burst", "swap"}
      PROVE  call'[u].now \in Nat
  BY <1>2 DEF SeriesInv
<1> QED
  BY <1>1, <1>2 DEF SeriesInv

LEMMA SwapSeries ==
  ASSUME SeriesInv, NEW t \in Thread, SwapLastEvent(t)
  PROVE  /\ SeriesInv'
         /\ call[t].now \in Nat
         /\ stamps' = Append(stamps, call[t].now)
         /\ total' = IF stamps = << >> THEN total
                     ELSE total + Interval(call[t].now, lastEvent)
         /\ pc' = [pc EXCEPT ![t] = IF stamps = << >> THEN "idle" ELSE "snapshot"]
<1> DEFINE now == call[t].now
<1>1. now \in Nat
  BY DEF SwapLastEvent, SeriesInv
<1>2. stamps' = Append(stamps, now) /\ lastEvent' = now
  BY DEF SwapLastEvent, Swapped
<1>3. /\ stamps' \in Seq(Nat) /\ stamps' # << >>
      /\ stamps'[Len(stamps')] = now
  BY <1>1, <1>2 DEF SeriesInv
<1>4. lastEvent = NoTime <=> stamps = << >>
  BY DEF SeriesInv, NoTime
<1>5. stamps # << >> => lastEvent \in Nat
  BY DEF SeriesInv
<1>6. stamps # << >> => Interval(now, lastEvent) \in Nat
  BY <1>1, <1>5, MeasurementAssumption DEF Interval, Max2
<1>7. /\ total' = IF stamps = << >> THEN total
                  ELSE total + Interval(now, lastEvent)
      /\ pc' = [pc EXCEPT ![t] = IF stamps = << >> THEN "idle" ELSE "snapshot"]
      /\ DOMAIN call' = DOMAIN call
      /\ \A u \in Thread : u # t => call'[u] = call[u]
  <2>1. CASE stamps = << >>
    <3>1. /\ total' = total
          /\ pc' = [pc EXCEPT ![t] = "idle"]
          /\ call' = [call EXCEPT ![t] = NoCall]
      BY <1>4, <2>1 DEF SwapLastEvent, Swapped, Return, Goto
    <3> QED
      BY <2>1, <3>1
  <2>2. CASE stamps # << >>
    <3>1. /\ total' = total + Interval(now, lastEvent)
          /\ pc' = [pc EXCEPT ![t] = "snapshot"]
          /\ call' = [call EXCEPT ![t] = [now   |-> @.now,
                                          place |-> Len(stamps) + 1]]
      BY <1>4, <2>2 DEF SwapLastEvent, Swapped, Goto
    <3> QED
      BY <2>2, <3>1
  <2> QED
    BY <2>1, <2>2
<1>8. pc' \in [Thread -> Steps]
  BY <1>7 DEF SeriesInv, Steps
<1>9. ASSUME NEW u \in Thread, pc'[u] \in {"burst", "swap"}
      PROVE  call'[u].now \in Nat
  <2>1. u # t /\ pc'[u] = pc[u]
    BY <1>7, <1>9 DEF SeriesInv
  <2> QED
    BY <1>7, <1>9, <2>1 DEF SeriesInv
<1>10. total' \in Nat
  BY <1>6, <1>7 DEF SeriesInv
<1>11. SeriesInv'
  BY <1>2, <1>3, <1>7, <1>8, <1>9, <1>10 DEF SeriesInv, SwapLastEvent
<1> QED
  BY <1>1, <1>2, <1>7, <1>11

LEMMA SeriesStep == SeriesInv /\ [Next]_vars => SeriesInv'
<1> SUFFICES ASSUME SeriesInv, [Next]_vars PROVE SeriesInv'
  OBVIOUS
<1>1. ASSUME NEW t \in Thread, Begin(t) PROVE SeriesInv'
  <2>1. /\ call'[t].now \in Nat /\ DOMAIN call' = DOMAIN call
        /\ \A u \in Thread : u # t => call'[u] = call[u]
    BY <1>1 DEF Begin, SeriesInv
  <2> QED
    BY <1>1, <2>1, SeriesFrame DEF Begin, Goto, Steps, SeriesInv
<1>2. ASSUME NEW t \in Thread, AddToBurst(t) PROVE SeriesInv'
  <2>1. call[t].now \in Nat /\ call' = call
    BY <1>2 DEF AddToBurst, SeriesInv
  <2> QED
    BY <1>2, <2>1, SeriesFrame DEF AddToBurst, Goto, Steps, SeriesInv
<1>3. ASSUME NEW t \in Thread, SwapLastEvent(t) PROVE SeriesInv'
  BY <1>3, SwapSeries
<1>4. ASSUME NEW t \in Thread, Snapshot(t) PROVE SeriesInv'
  <2>1. /\ DOMAIN call' = DOMAIN call
        /\ \A u \in Thread : u # t => call'[u] = call[u]
    BY <1>4 DEF Snapshot
  <2> QED
    BY <1>4, <2>1, SeriesFrame DEF Snapshot, Goto, Steps, SeriesInv
<1>5. ASSUME NEW t \in Thread, Update(t) PROVE SeriesInv'
  BY <1>5, SeriesFrame DEF Update, SamplesAfter, Return, Goto, Steps, SeriesInv
<1>6. CASE Tick /\ UNCHANGED <<burstVars, seriesVars>>
  BY <1>6 DEF Tick, seriesVars, SeriesInv
<1>7. CASE UNCHANGED vars
  BY <1>7 DEF vars, seriesVars, SeriesInv
<1> QED
  BY <1>1, <1>2, <1>3, <1>4, <1>5, <1>6, <1>7 DEF Next, Observe

LEMMA SeriesHolds == Spec => []SeriesInv
<1>1. Init => SeriesInv
  BY DEF Init, SeriesInv, Steps, NoTime
<1> QED
  BY <1>1, SeriesStep, PTL DEF Spec

-----------------------------------------------------------------------------
\* While events reach the series in the order of their times, and no closer
\* than the shortest interval, the intervals that enter its statistics add up
\* to the time between the first and the last: none is measured twice or left
\* out, although workers compute them outside of any lock.
THEOREM InOrderTimeHolds == Spec => []InOrderTimeIsExact
<1>1. Init => InOrderTimeIsExact
  BY DEF Init, InOrderTimeIsExact
<1>2. SeriesInv /\ InOrderTimeIsExact /\ [Next]_vars => InOrderTimeIsExact'
  <2> SUFFICES ASSUME SeriesInv, InOrderTimeIsExact, [Next]_vars
               PROVE  InOrderTimeIsExact'
    OBVIOUS
  <2>1. ASSUME NEW t \in Thread, SwapLastEvent(t) PROVE InOrderTimeIsExact'
    <3> DEFINE now == call[t].now
               n   == Len(stamps)
    <3>1. /\ now \in Nat /\ stamps' = Append(stamps, now) /\ lastEvent' = now
          /\ total' = IF stamps = << >> THEN total
                      ELSE total + Interval(now, lastEvent)
      BY <2>1, SwapSeries DEF SwapLastEvent
    <3>2. stamps \in Seq(Nat) /\ n \in Nat /\ Len(stamps') = n + 1
      BY <3>1 DEF SeriesInv
    <3>3. \A i \in 1 .. n : stamps'[i] = stamps[i] /\ stamps[i] \in Nat
      BY <3>1, <3>2
    <3>4. stamps'[n + 1] = now
      BY <3>1, <3>2
    <3> SUFFICES ASSUME Spread' PROVE total' = now - stamps'[1]
      BY <3>1 DEF InOrderTimeIsExact
    <3>5. CASE stamps = << >>
      BY <3>1, <3>2, <3>4, <3>5 DEF SeriesInv
    <3>6. CASE stamps # << >>
      <4>1. n >= 1 /\ lastEvent = stamps[n] /\ lastEvent \in Nat
        BY <3>2, <3>3, <3>6 DEF SeriesInv
      <4>2. Spread
        BY <3>2, <3>3 DEF Spread
      <4>3. now - lastEvent >= MinInterval
        BY <3>2, <3>3, <3>4, <4>1 DEF Spread
      <4>4. Interval(now, lastEvent) = now - lastEvent
        BY <3>1, <4>1, <4>3, MeasurementAssumption DEF Interval, Max2
      <4>5. total = lastEvent - stamps[1]
        BY <3>6, <4>2 DEF InOrderTimeIsExact
      <4>6. stamps'[1] = stamps[1] /\ stamps[1] \in Nat
        BY <3>2, <3>3, <4>1
      <4> QED
        BY <3>1, <3>6, <4>1, <4>4, <4>5, <4>6
    <3> QED
      BY <3>5, <3>6
  <2>2. CASE \A t \in Thread : ~SwapLastEvent(t)
    <3>1. UNCHANGED <<stamps, lastEvent, total>>
      BY <2>2 DEF Next, Observe, Begin, AddToBurst, Snapshot, Update, vars,
                  seriesVars
    <3> QED
      BY <3>1 DEF InOrderTimeIsExact, Spread
  <2> QED
    BY <2>1, <2>2
<1> QED
  BY <1>1, <1>2, SeriesHolds, PTL DEF Spec

\* Every event of a series but the first enters its statistics exactly once,
\* for any number of workers: the swap hands each of them another predecessor.
THEOREM EveryEventMeasuredOnce ==
  ASSUME IsFiniteSet(Thread)
  PROVE  Spec => []MeasuredOnce
<1>1. Init => MeasuredOnce
  <2> SUFFICES ASSUME Init PROVE MeasuredOnce
    OBVIOUS
  <2>1. Measuring = {} /\ samples = 0 /\ Len(stamps) = 0
    BY DEF Init, Measuring
  <2> QED
    BY <2>1, FS_EmptySet DEF MeasuredOnce, Max2
<1>2. SeriesInv /\ MeasuredOnce /\ [Next]_vars => MeasuredOnce'
  <2> SUFFICES ASSUME SeriesInv, MeasuredOnce, [Next]_vars PROVE MeasuredOnce'
    OBVIOUS
  <2>1. IsFiniteSet(Measuring) /\ Cardinality(Measuring) \in Nat
    <3>1. IsFiniteSet(Measuring)
      BY FS_Subset DEF Measuring
    <3> QED
      BY <3>1, FS_CardinalityType
  <2>2. samples \in Nat /\ Len(stamps) \in Nat
    BY DEF SeriesInv
  <2>3. ASSUME NEW t \in Thread, SwapLastEvent(t) PROVE MeasuredOnce'
    <3>1. /\ Len(stamps') = Len(stamps) + 1
          /\ pc' = [pc EXCEPT ![t] = IF stamps = << >> THEN "idle" ELSE "snapshot"]
          /\ samples' = samples
      BY <2>3, SwapSeries DEF SwapLastEvent, SeriesInv
    <3>2. t \notin Measuring
      BY <2>3 DEF SwapLastEvent, Measuring
    <3>3. CASE stamps = << >>
      <4>1. Measuring' = Measuring
        BY <3>1, <3>2, <3>3 DEF Measuring, SeriesInv
      <4>2. Len(stamps) = 0
        BY <3>3
      <4> QED
        BY <2>1, <2>2, <3>1, <4>1, <4>2 DEF MeasuredOnce, Max2
    <3>4. CASE stamps # << >>
      <4>1. Measuring' = Measuring \cup {t}
        BY <3>1, <3>4 DEF Measuring, SeriesInv
      <4>2. Cardinality(Measuring') = Cardinality(Measuring) + 1
        BY <2>1, <3>2, <4>1, FS_AddElement
      <4>3. Len(stamps) >= 1
        BY <2>2, <3>4 DEF SeriesInv
      <4> QED
        BY <2>1, <2>2, <3>1, <4>2, <4>3 DEF MeasuredOnce, Max2
    <3> QED
      BY <3>3, <3>4
  <2>4. ASSUME NEW t \in Thread, Update(t) PROVE MeasuredOnce'
    <3>1. /\ Measuring' = Measuring \ {t} /\ t \in Measuring
      BY <2>4 DEF Update, Return, Goto, Measuring, SeriesInv
    <3>2. Cardinality(Measuring') = Cardinality(Measuring) - 1
      BY <2>1, <3>1, FS_RemoveElement
    <3> QED
      BY <2>1, <2>2, <2>4, <3>2 DEF Update, SamplesAfter, MeasuredOnce
  <2>5. CASE \A t \in Thread : ~SwapLastEvent(t) /\ ~Update(t)
    <3>1. UNCHANGED <<samples, stamps>>
      BY <2>5 DEF Next, Observe, Begin, AddToBurst, Snapshot, vars, seriesVars
    <3>2. Measuring' = Measuring
      <4>1. CASE UNCHANGED pc
        BY <4>1 DEF Measuring
      <4>2. ASSUME NEW t \in Thread, Begin(t) \/ AddToBurst(t) \/ Snapshot(t)
            PROVE  Measuring' = Measuring
        BY <4>2 DEF Begin, AddToBurst, Snapshot, Goto, Measuring, SeriesInv
      <4> QED
        BY <2>5, <4>1, <4>2 DEF Next, Observe, vars, seriesVars
    <3> QED
      BY <3>1, <3>2 DEF MeasuredOnce
  <2> QED
    BY <2>3, <2>4, <2>5
<1> QED
  BY <1>1, <1>2, SeriesHolds, PTL DEF Spec

-----------------------------------------------------------------------------
(* The ring of the burst detector. *)

LEMMA LeastNatural ==
  ASSUME NEW T, T \subseteq Nat, T # {}
  PROVE  \E x \in T : \A y \in T : x <= y
<1> DEFINE R == OpToRel(<, Nat)
<1>1. IsWellFoundedOn(R, Nat)
  BY NatLessThanWellFounded
<1> HIDE DEF R
<1>2. PICK x \in T : \A y \in T : ~(<<y, x>> \in R)
  BY <1>1, WFMin
<1>3. \A y \in T : y < x => <<y, x>> \in R
  BY DEF R, OpToRel
<1>4. \A y \in T : ~(y < x)
  BY <1>2, <1>3
<1>5. \A y \in T : x <= y
  BY <1>4
<1> QED
  BY <1>5

LEMMA Room == MaxSamples \in Nat \ {0}
BY BurstAssumption

\* Where the remainder takes a cell: around the end of the ring, or not.
LEMMA AtIs ==
  ASSUME NEW h \in Cells, NEW i \in 0 .. MaxSamples
  PROVE  /\ At(h, i) = IF h + i < MaxSamples THEN h + i ELSE h + i - MaxSamples
         /\ At(h, i) \in Cells
BY Room DEF At, Cells

LEMMA AtAdds ==
  ASSUME NEW h \in Cells, NEW i \in 0 .. MaxSamples, NEW j \in 0 .. MaxSamples,
         i + j <= MaxSamples
  PROVE  At(At(h, i), j) = At(h, i + j)
<1>1. At(h, i) \in Cells /\ i + j \in 0 .. MaxSamples
  BY AtIs
<1>2. /\ At(At(h, i), j) = IF At(h, i) + j < MaxSamples THEN At(h, i) + j
                                                   ELSE At(h, i) + j - MaxSamples
      /\ At(h, i + j) = IF h + (i + j) < MaxSamples THEN h + (i + j)
                                               ELSE h + (i + j) - MaxSamples
      /\ At(h, i) = IF h + i < MaxSamples THEN h + i ELSE h + i - MaxSamples
  BY <1>1, AtIs
<1> QED
  BY <1>1, <1>2, Room DEF Cells

\* The ring holds the latest times in their order; the first of them is fresh
\* for the last event; and what it no longer holds of the latest MaxSamples was
\* stale for some event.
RingInv ==
    /\ buf \in [Cells -> 0 .. MaxTime]
    /\ head \in Cells
    /\ size \in 0 .. MaxSamples
    /\ severity = SeverityOf(size)
    /\ added \in Seq(0 .. MaxTime)
    /\ size <= Len(added)
    /\ \A i \in 1 .. size : buf[At(head, i - 1)] = added[Len(added) - size + i]
    /\ added # << >> =>
          size > 0 /\ Fresh(added[Len(added) - size + 1], added[Len(added)])
    /\ \A i \in DOMAIN added :
          Len(added) - MaxSamples < i /\ i <= Len(added) - size
            => \E j \in DOMAIN added : ~Fresh(added[i], added[j])

\* What Add has written before it looks for stale times.
Written(now) == [buf EXCEPT ![At(HeadAfterWrite, SizeAfterWrite - 1)] = now]

LEMMA WriteKeepsOrder ==
  ASSUME RingInv, NEW now \in 0 .. MaxTime
  PROVE  /\ HeadAfterWrite \in Cells
         /\ SizeAfterWrite \in 1 .. MaxSamples
         /\ SizeAfterWrite <= Len(added) + 1
         /\ Written(now) \in [Cells -> 0 .. MaxTime]
         /\ \A i \in 1 .. SizeAfterWrite :
               Written(now)[At(HeadAfterWrite, i - 1)]
                 = Append(added, now)[Len(added) + 1 - SizeAfterWrite + i]
<1> DEFINE first == HeadAfterWrite
           n == SizeAfterWrite
           m == Len(added)
<1>1. /\ buf \in [Cells -> 0 .. MaxTime] /\ head \in Cells
      /\ size \in 0 .. MaxSamples
      /\ added \in Seq(0 .. MaxTime) /\ m \in Nat /\ size <= m
      /\ \A i \in 1 .. size : buf[At(head, i - 1)] = added[m - size + i]
  BY DEF RingInv
<1>2. first \in Cells
  BY <1>1, AtIs, Room DEF HeadAfterWrite
<1>3. n \in 1 .. MaxSamples /\ n <= m + 1 /\ n - 1 <= size
  BY <1>1, Room DEF SizeAfterWrite
<1>4. At(first, n - 1) \in Cells
  <2>1. n - 1 \in 0 .. MaxSamples
    BY <1>3, Room
  <2> QED
    BY <1>2, <2>1, AtIs
<1>5. Written(now) \in [Cells -> 0 .. MaxTime]
  BY <1>1, <1>4 DEF Written
<1>6. /\ \A i \in 1 .. m : Append(added, now)[i] = added[i]
      /\ Append(added, now)[m + 1] = now
  BY <1>1
<1>7. ASSUME NEW i \in 1 .. n - 1
      PROVE  Written(now)[At(first, i - 1)] = Append(added, now)[m + 1 - n + i]
  <2>1. i - 1 \in 0 .. MaxSamples /\ n - 1 \in 0 .. MaxSamples
    BY <1>3, <1>7, Room
  <2>2. At(first, i - 1) # At(first, n - 1) /\ At(first, i - 1) \in Cells
    <3>1. /\ At(first, i - 1) = IF first + (i - 1) < MaxSamples THEN first + (i - 1)
                               ELSE first + (i - 1) - MaxSamples
          /\ At(first, n - 1) = IF first + (n - 1) < MaxSamples THEN first + (n - 1)
                               ELSE first + (n - 1) - MaxSamples
          /\ At(first, i - 1) \in Cells
      BY <1>2, <2>1, AtIs
    <3> HIDE DEF first, n
    <3> QED
      BY <1>2, <1>3, <1>7, <3>1, Room DEF Cells
  <2>3. Written(now)[At(first, i - 1)] = buf[At(first, i - 1)]
    BY <1>1, <1>4, <2>2 DEF Written
  <2>4. CASE size = MaxSamples
    <3>1. first = At(head, 1) /\ n = MaxSamples
      BY <2>4 DEF HeadAfterWrite, SizeAfterWrite
    <3>2. At(first, i - 1) = At(head, (i + 1) - 1)
      <4>1. 1 \in 0 .. MaxSamples /\ 1 + (i - 1) <= MaxSamples
            /\ 1 + (i - 1) = (i + 1) - 1
        BY <1>3, <1>7, Room
      <4> QED
        BY <1>1, <2>1, <3>1, <4>1, AtAdds
    <3>3. i + 1 \in 1 .. size
      BY <1>7, <2>4, <3>1, Room
    <3>4. buf[At(head, (i + 1) - 1)] = added[m - size + (i + 1)]
      BY <1>1, <3>3
    <3>5. m - size + (i + 1) = m + 1 - n + i /\ m + 1 - n + i \in 1 .. m
      BY <1>1, <1>7, <2>4, <3>1, <3>3, Room
    <3> QED
      BY <1>6, <2>3, <3>2, <3>4, <3>5
  <2>5. CASE size # MaxSamples
    <3>1. first = head /\ n = size + 1
      BY <2>5 DEF HeadAfterWrite, SizeAfterWrite
    <3>2. i \in 1 .. size /\ m - size + i = m + 1 - n + i
          /\ m + 1 - n + i \in 1 .. m
      BY <1>1, <1>7, <3>1
    <3> QED
      BY <1>1, <1>6, <2>3, <3>1, <3>2
  <2> QED
    BY <2>4, <2>5
<1>8. Written(now)[At(first, n - 1)] = Append(added, now)[m + 1 - n + n]
  <2>1. m + 1 - n + n = m + 1
    BY <1>1, <1>3
  <2> QED
    BY <1>1, <1>4, <1>6, <2>1 DEF Written
<1>9. ASSUME NEW i \in 1 .. n
      PROVE  Written(now)[At(first, i - 1)] = Append(added, now)[m + 1 - n + i]
  <2>1. i \in 1 .. n - 1 \/ i = n
    BY <1>3, <1>9
  <2> QED
    BY <1>7, <1>8, <2>1
<1> QED
  BY <1>2, <1>3, <1>5, <1>9

\* The loop that drops stale times stops at the first fresh one.
LEMMA TrimIs ==
  ASSUME NEW r \in [Cells -> 0 .. MaxTime], NEW first \in Cells,
         NEW n \in 0 .. MaxSamples, NEW now \in Int
  PROVE  LET d == Trim(r, first, n, now)
         IN  /\ d \in 0 .. n
             /\ \A i \in 0 .. d - 1 : ~Fresh(r[At(first, i)], now)
             /\ d < n => Fresh(r[At(first, d)], now)
<1> DEFINE Stops(d) == /\ \A i \in 0 .. d - 1 : ~Fresh(r[At(first, i)], now)
                       /\ d < n => Fresh(r[At(first, d)], now)
           T == {i \in 0 .. n - 1 : Fresh(r[At(first, i)], now)}
<1>1. \E d \in 0 .. n : Stops(d)
  <2>1. CASE T = {}
    <3>1. Stops(n)
      BY <2>1
    <3> QED
      BY <3>1
  <2>2. CASE T # {}
    <3>1. T \subseteq Nat
      OBVIOUS
    <3>2. PICK d \in T : \A i \in T : d <= i
      BY <2>2, <3>1, LeastNatural
    <3>3. \A i \in 0 .. d - 1 : i \in 0 .. n - 1 /\ ~(d <= i)
      BY <3>1, <3>2
    <3>4. Stops(d) /\ d \in 0 .. n
      BY <3>2, <3>3
    <3> QED
      BY <3>4
  <2> QED
    BY <2>1, <2>2
<1>2. Trim(r, first, n, now) = CHOOSE d \in 0 .. n : Stops(d)
  BY DEF Trim
<1> HIDE DEF Stops
<1>3. Trim(r, first, n, now) \in 0 .. n /\ Stops(Trim(r, first, n, now))
  BY <1>1, <1>2
<1> QED
  BY <1>3 DEF Stops

LEMMA AddRing ==
  ASSUME RingInv, NEW now \in 0 .. MaxTime, Add(now)
  PROVE  /\ RingInv'
         /\ added' = Append(added, now)
         /\ \E d \in 0 .. SizeAfterWrite - 1 :
               /\ size' = SizeAfterWrite - d
               /\ \A i \in 1 .. d : ~Fresh(Written(now)[At(HeadAfterWrite, i - 1)], now)
               /\ Fresh(Written(now)[At(HeadAfterWrite, d)], now)
               /\ \A i \in 1 .. size' : buf'[At(head', i - 1)] =
                                   Written(now)[At(HeadAfterWrite, d + i - 1)]
<1> DEFINE first == HeadAfterWrite
           n == SizeAfterWrite
           m == Len(added)
           r == Written(now)
           d == Trim(r, first, n, now)
<1>1. /\ buf' = r /\ head' = At(first, d) /\ size' = n - d
      /\ severity' = SeverityOf(n - d) /\ added' = Append(added, now)
  BY DEF Add, Written
<1>2. /\ first \in Cells /\ n \in 1 .. MaxSamples /\ n <= m + 1
      /\ r \in [Cells -> 0 .. MaxTime]
      /\ \A i \in 1 .. n : r[At(first, i - 1)] = Append(added, now)[m + 1 - n + i]
  BY WriteKeepsOrder
<1>3. added \in Seq(0 .. MaxTime) /\ m \in Nat
  BY DEF RingInv
<1>4. /\ added' \in Seq(0 .. MaxTime) /\ Len(added') = m + 1
      /\ \A i \in 1 .. m : added'[i] = added[i]
      /\ added'[m + 1] = now
  BY <1>1, <1>3
<1> HIDE DEF first, n, r
<1>5. /\ d \in 0 .. n
      /\ \A i \in 0 .. d - 1 : ~Fresh(r[At(first, i)], now)
      /\ d < n => Fresh(r[At(first, d)], now)
  <2>1. n \in 0 .. MaxSamples /\ now \in Int
    BY <1>2
  <2> QED
    BY <1>2, <2>1, TrimIs
<1> HIDE DEF d
<1>6. d < n
  <2>1. r[At(first, n - 1)] = now
    <3>1. n \in 1 .. n /\ m + 1 - n + n = m + 1
      BY <1>2, <1>3
    <3> QED
      BY <1>1, <1>2, <1>4, <3>1
  <2>2. Fresh(r[At(first, n - 1)], now)
    BY <2>1, BurstAssumption DEF Fresh
  <2>3. n - 1 \in 0 .. n - 1
    BY <1>2
  <2> QED
    BY <1>2, <1>5, <2>2, <2>3
<1>7. Fresh(r[At(first, d)], now)
  BY <1>5, <1>6
<1>8. head' \in Cells /\ size' \in 1 .. MaxSamples /\ size' <= Len(added')
  <2>1. d \in 0 .. MaxSamples
    BY <1>2, <1>5, Room
  <2> QED
    BY <1>1, <1>2, <1>3, <1>4, <1>5, <1>6, <2>1, AtIs, Room
<1>9. ASSUME NEW i \in 1 .. size'
      PROVE  /\ buf'[At(head', i - 1)] = r[At(first, d + i - 1)]
             /\ buf'[At(head', i - 1)] = added'[Len(added') - size' + i]
  <2>1. /\ d \in 0 .. MaxSamples /\ i - 1 \in 0 .. MaxSamples
        /\ d + (i - 1) <= MaxSamples
        /\ d + (i - 1) = d + i - 1 /\ d + i - 1 = (d + i) - 1
        /\ d + i \in 1 .. n
        /\ m + 1 - n + (d + i) = (m + 1) - (n - d) + i
    BY <1>1, <1>2, <1>3, <1>5, Room
  <2>2. At(head', i - 1) = At(first, d + (i - 1))
    BY <1>1, <1>2, <2>1, AtAdds
  <2>3. r[At(first, (d + i) - 1)] = added'[m + 1 - n + (d + i)]
    BY <1>1, <1>2, <2>1
  <2> QED
    BY <1>1, <1>4, <2>1, <2>2, <2>3
<1>10. added' # << >> =>
         size' > 0 /\ Fresh(added'[Len(added') - size' + 1], added'[Len(added')])
  <2>1. 1 \in 1 .. size' /\ d + 1 - 1 = d
    BY <1>5, <1>8, Room
  <2>2. added'[Len(added') - size' + 1] = r[At(first, d)]
    BY <1>9, <2>1
  <2> QED
    BY <1>4, <1>7, <1>8, <2>2
<1>11. ASSUME NEW i \in DOMAIN added',
              Len(added') - MaxSamples < i, i <= Len(added') - size'
       PROVE  \E j \in DOMAIN added' : ~Fresh(added'[i], added'[j])
  <2>1. i \in 1 .. m + 1 /\ m + 1 \in DOMAIN added'
    BY <1>3, <1>4
  <2>2. CASE i > m + 1 - n
    <3> DEFINE k == i - (m + 1 - n)
    <3>1. k \in 1 .. d /\ k - 1 \in 0 .. d - 1 /\ k \in 1 .. n /\ m + 1 - n + k = i
      BY <1>1, <1>2, <1>3, <1>4, <1>5, <1>11, <2>1, <2>2
    <3>2. ~Fresh(r[At(first, k - 1)], now)
      BY <1>5, <3>1
    <3>3. r[At(first, k - 1)] = added'[i]
      BY <1>1, <1>2, <3>1
    <3> QED
      BY <1>4, <2>1, <3>2, <3>3
  <2>3. CASE ~(i > m + 1 - n)
    <3>1. size # MaxSamples /\ n = size + 1
      BY <1>2, <1>3, <1>4, <1>11, <2>1, <2>3, Room DEF n, SizeAfterWrite
    <3>2. /\ i \in DOMAIN added
          /\ m - MaxSamples < i /\ i <= m - size
      BY <1>2, <1>3, <1>4, <1>11, <2>1, <2>3, <3>1, Room DEF RingInv
    <3>3. PICK j \in DOMAIN added : ~Fresh(added[i], added[j])
      BY <3>2 DEF RingInv
    <3>4. i \in 1 .. m /\ j \in 1 .. m /\ j \in DOMAIN added'
      BY <1>3, <1>4, <3>2, <3>3
    <3> QED
      BY <1>4, <3>3, <3>4
  <2> QED
    BY <2>2, <2>3
<1>12. RingInv'
  <2>1. buf' \in [Cells -> 0 .. MaxTime] /\ severity' = SeverityOf(size')
    BY <1>1, <1>2
  <2>2. size' \in 0 .. MaxSamples
    BY <1>8, Room
  <2>3. \A i \in 1 .. size' :
           buf'[At(head', i - 1)] = added'[Len(added') - size' + i]
    BY <1>9
  <2>4. \A i \in DOMAIN added' :
           Len(added') - MaxSamples < i /\ i <= Len(added') - size'
             => \E j \in DOMAIN added' : ~Fresh(added'[i], added'[j])
    BY <1>11
  <2> QED
    BY <1>4, <1>8, <1>10, <2>1, <2>2, <2>3, <2>4, Zenon DEF RingInv
<1>13. /\ d \in 0 .. n - 1
       /\ \A i \in 1 .. d : ~Fresh(r[At(first, i - 1)], now)
  BY <1>2, <1>5, <1>6
<1> QED
  BY <1>1, <1>7, <1>9, <1>12, <1>13 DEF first, n, r

-----------------------------------------------------------------------------
(* Types, with the ring. *)

LEMMA TypeStep ==
  ASSUME TypeOK, SeriesInv, RingInv, [Next]_vars
  PROVE  TypeOK' /\ RingInv'
<1> USE MaxTimeAssumption, MeasurementAssumption
<1>1. /\ clock \in 0 .. MaxTime
      /\ calls \in 0 .. MaxCalls
      /\ \A t \in Thread : call[t].now \in 0 .. clock \cup {NoTime}
      /\ lastEvent \in 0 .. clock \cup {NoTime}
      /\ stamps \in Seq(0 .. clock)
  BY DEF TypeOK
<1>2. SeriesInv'
  BY SeriesStep
<1>3. ASSUME RingInv', clock' = clock, calls' \in 0 .. MaxCalls,
             \A t \in Thread : call'[t].now \in 0 .. clock \cup {NoTime},
             lastEvent' \in 0 .. clock \cup {NoTime},
             stamps' \in Seq(0 .. clock)
      PROVE  TypeOK' /\ RingInv'
  <2>1. BurstTypeOK'
    BY <1>3 DEF RingInv, BurstTypeOK, SeverityOf
  <2> QED
    BY <1>1, <1>2, <1>3, <2>1 DEF TypeOK, SeriesInv
<1>4. ASSUME UNCHANGED burstVars PROVE RingInv'
  BY <1>4 DEF burstVars, RingInv
<1>5. ASSUME NEW t \in Thread, Begin(t) PROVE TypeOK' /\ RingInv'
  <2>1. /\ UNCHANGED <<clock, burstVars, lastEvent, stamps>>
        /\ call' = [call EXCEPT ![t] = [now |-> clock]]
        /\ calls' = calls + 1 /\ calls < MaxCalls
    BY <1>5 DEF Begin
  <2>2. \A u \in Thread : call'[u].now \in 0 .. clock \cup {NoTime}
    BY <1>1, <2>1 DEF SeriesInv
  <2>3. calls' \in 0 .. MaxCalls
    BY <1>1, <2>1
  <2> QED
    BY <1>1, <1>3, <1>4, <2>1, <2>2, <2>3
<1>6. ASSUME NEW t \in Thread, AddToBurst(t) PROVE TypeOK' /\ RingInv'
  <2>1. UNCHANGED <<clock, calls, call, lastEvent, stamps>> /\ Add(call[t].now)
    BY <1>6 DEF AddToBurst
  <2>2. call[t].now \in 0 .. MaxTime
    BY <1>1, <1>6 DEF AddToBurst, SeriesInv, NoTime
  <2>3. RingInv'
    BY <2>1, <2>2, AddRing
  <2> QED
    BY <1>1, <1>3, <2>1, <2>3
<1>7. ASSUME NEW t \in Thread, SwapLastEvent(t) PROVE TypeOK' /\ RingInv'
  <2>1. /\ UNCHANGED <<clock, burstVars, calls>> /\ lastEvent' = call[t].now
        /\ stamps' = Append(stamps, call[t].now)
        /\ \/ call' = [call EXCEPT ![t] = NoCall]
           \/ call' = [call EXCEPT ![t] = [now   |-> @.now,
                                           place |-> Len(stamps) + 1]]
    BY <1>7 DEF SwapLastEvent, Swapped, Return
  <2>2. call[t].now \in 0 .. clock
    BY <1>1, <1>7 DEF SwapLastEvent, SeriesInv, NoTime
  <2>3. \A u \in Thread : call'[u].now \in 0 .. clock \cup {NoTime}
    BY <1>1, <2>1, <2>2 DEF SeriesInv, NoCall
  <2>4. stamps' \in Seq(0 .. clock)
    BY <1>1, <2>1, <2>2
  <2> QED
    BY <1>1, <1>3, <1>4, <2>1, <2>2, <2>3, <2>4
<1>8. ASSUME NEW t \in Thread, Snapshot(t) \/ Update(t) PROVE TypeOK' /\ RingInv'
  <2>1. /\ UNCHANGED <<clock, burstVars, calls, lastEvent, stamps>>
        /\ \/ call' = [call EXCEPT ![t] = NoCall]
           \/ call' = [call EXCEPT ![t] = [now   |-> @.now, place |-> @.place,
                                           baseline |-> samples]]
    BY <1>8 DEF Snapshot, Update, Return
  <2>2. \A u \in Thread : call'[u].now \in 0 .. clock \cup {NoTime}
    BY <1>1, <2>1 DEF SeriesInv, NoCall
  <2> QED
    BY <1>1, <1>3, <1>4, <2>1, <2>2
<1>9. CASE Tick /\ UNCHANGED <<burstVars, seriesVars>>
  <2>1. clock' \in 0 .. MaxTime /\ 0 .. clock \subseteq 0 .. clock'
    BY <1>1, <1>9 DEF Tick
  <2>2. UNCHANGED <<burstVars, calls, pc, call, lastEvent, samples, stamps, total>>
    BY <1>9 DEF seriesVars
  <2>3. /\ \A t \in Thread : call'[t].now \in 0 .. clock' \cup {NoTime}
        /\ lastEvent' \in 0 .. clock' \cup {NoTime}
    BY <1>1, <2>1, <2>2
  <2>4. stamps' \in Seq(0 .. clock')
    BY <1>1, <2>1, <2>2
  <2>5. BurstTypeOK'
    BY <2>2 DEF TypeOK, BurstTypeOK, burstVars, Kept
  <2> QED
    BY <1>1, <1>2, <1>4, <2>1, <2>2, <2>3, <2>4, <2>5 DEF TypeOK, SeriesInv
<1>10. CASE UNCHANGED vars
  <2>1. UNCHANGED <<clock, burstVars, calls, pc, call, lastEvent, samples, stamps, total>>
    BY <1>10 DEF vars, seriesVars
  <2> QED
    BY <1>1, <1>3, <1>4, <2>1
<1> QED
  BY <1>5, <1>6, <1>7, <1>8, <1>9, <1>10 DEF Next, Observe

LEMMA RingTyped == Spec => [](TypeOK /\ RingInv)
<1>1. Init => TypeOK /\ RingInv
  <2> SUFFICES ASSUME Init PROVE TypeOK /\ RingInv
    OBVIOUS
  <2>1. RingInv
    <3>1. /\ buf \in [Cells -> 0 .. MaxTime] /\ head \in Cells
          /\ added = << >> /\ size = 0
      BY Room, MaxTimeAssumption DEF Init, BurstInit, Cells
    <3>2. severity = SeverityOf(size)
      BY BurstAssumption DEF Init, BurstInit, SeverityOf
    <3>3. size \in 0 .. MaxSamples /\ added \in Seq(0 .. MaxTime) /\ Len(added) = 0
          /\ DOMAIN added = {}
      BY <3>1, Room
    <3> QED
      BY <3>1, <3>2, <3>3 DEF RingInv
  <2>2. BurstTypeOK
    BY <2>1 DEF RingInv, BurstTypeOK, SeverityOf
  <2>3. /\ pc \in [Thread -> Steps] /\ stamps \in Seq(0 .. clock)
        /\ clock \in 0 .. MaxTime /\ calls \in 0 .. MaxCalls
        /\ samples \in Nat /\ total \in Nat
        /\ lastEvent \in 0 .. clock \cup {NoTime}
        /\ \A t \in Thread : call[t].now \in 0 .. clock \cup {NoTime}
    BY MaxTimeAssumption, MeasurementAssumption DEF Init, Steps, NoCall
  <2> QED
    BY <2>1, <2>2, <2>3 DEF TypeOK
<1> QED
  BY <1>1, TypeStep, SeriesHolds, PTL DEF Spec

\* Every variable of the series keeps its type, the ring its cells, whatever
\* order the times arrive in (burst.go:64).
THEOREM TypeCorrect == Spec => []TypeOK
BY RingTyped, PTL

-----------------------------------------------------------------------------
(* What a burst is rated by. *)

\* The places of what the ring holds.
Remembered == Len(added) - size + 1 .. Len(added)

LEMMA RememberedCount ==
  ASSUME RingInv
  PROVE  /\ IsFiniteSet(Remembered) /\ Cardinality(Remembered) = size
         /\ Remembered \subseteq DOMAIN added
         /\ IsFiniteSet(DOMAIN added)
<1>1. /\ size \in Nat /\ Len(added) \in Nat /\ size <= Len(added)
      /\ DOMAIN added = 1 .. Len(added)
  BY Room DEF RingInv
<1>2. /\ Len(added) - size + 1 \in Int /\ Len(added) \in Int /\ 1 \in Int
  BY <1>1
<1>3. /\ IsFiniteSet(Remembered)
      /\ Cardinality(Remembered) =
           IF Len(added) - size + 1 > Len(added) THEN 0
           ELSE Len(added) - (Len(added) - size + 1) + 1
  BY <1>2, FS_Interval DEF Remembered
<1>4. IsFiniteSet(DOMAIN added)
  BY <1>1, <1>2, FS_Interval
<1> QED
  BY <1>1, <1>3, <1>4 DEF Remembered

\* What the ring has dropped of the latest MaxSamples times was stale for some
\* event, and so it is for one with the newest time of all.
LEMMA DroppedIsStale ==
  ASSUME RingInv, added # << >>, \A i \in DOMAIN added : added[i] <= Latest,
         NEW i \in DOMAIN added, i > Len(added) - MaxSamples, i \notin Remembered
  PROVE  ~(added[i] > Latest - Window)
<1>1. /\ added \in Seq(0 .. MaxTime) /\ Len(added) \in Nat \ {0}
      /\ DOMAIN added = 1 .. Len(added) /\ size \in Nat
  BY Room DEF RingInv
<1>2. /\ Latest \in Int /\ Window \in Int
      /\ \A j \in DOMAIN added : added[j] \in Int
  BY <1>1, BurstAssumption, MaxTimeAssumption DEF Latest
<1>3. Len(added) - MaxSamples < i /\ i <= Len(added) - size
  BY <1>1, Room DEF Remembered
<1>4. PICK j \in DOMAIN added : ~Fresh(added[i], added[j])
  BY <1>3 DEF RingInv
<1>5. added[j] <= Latest /\ ~(added[i] > added[j] - Window)
  BY <1>4 DEF Fresh
<1> QED
  BY <1>2, <1>5

\* An event with the newest time so far counts every event of its window among
\* the latest MaxSamples, in whatever order the others arrived.
THEOREM NewestCountsAll == Spec => []NewestTimeMissesNone
<1>1. RingInv => NewestTimeMissesNone
  <2> SUFFICES ASSUME RingInv, added # << >>, \A i \in DOMAIN added : added[i] <= Latest
               PROVE  size >= InWindow(Last(MaxSamples))
    BY DEF NewestTimeMissesNone
  <2> DEFINE W == {i \in Last(MaxSamples) : added[i] > Latest - Window}
  <2>1. W \subseteq Remembered
    BY DroppedIsStale DEF Last
  <2>2. IsFiniteSet(Remembered) /\ Cardinality(Remembered) = size
    BY RememberedCount
  <2>3. Cardinality(W) <= size
    BY <2>1, <2>2, FS_Subset
  <2>4. Cardinality(W) \in Nat /\ size \in Nat
    BY <2>1, <2>2, FS_Subset, FS_CardinalityType
  <2>5. InWindow(Last(MaxSamples)) = Cardinality(W)
    BY DEF InWindow
  <2> QED
    BY <2>3, <2>4, <2>5
<1> QED
  BY <1>1, RingTyped, PTL

\* While the times arrive in order a burst is rated by the number of events of
\* its window, up to the size of the ring: for any window, threshold and ring.
THEOREM BurstCountIsExact == Spec => []InOrderCountIsExact
<1>1. RingInv => InOrderCountIsExact
  <2> SUFFICES ASSUME RingInv, added # << >>, InOrder
               PROVE  LET events == InWindow(DOMAIN added)
                          count  == IF events < MaxSamples THEN events ELSE MaxSamples
                      IN  size = count /\ severity = SeverityOf(count)
    BY Zenon DEF InOrderCountIsExact, SeverityOf
  <2> DEFINE W == {i \in DOMAIN added : added[i] > Latest - Window}
             m == Len(added)
  <2>1. /\ added \in Seq(0 .. MaxTime) /\ m \in Nat \ {0}
        /\ DOMAIN added = 1 .. m
        /\ size \in 1 .. MaxSamples /\ size <= m
        /\ severity = SeverityOf(size)
        /\ added[m - size + 1] > Latest - Window
    BY Room DEF RingInv, Fresh, Latest
  <2>2. /\ Latest \in Int /\ Window \in Int
        /\ \A i \in 1 .. m : added[i] \in Int
        /\ \A i \in 1 .. m : added[i] <= Latest
        /\ \A i, j \in 1 .. m : i <= j => added[i] <= added[j]
    <3>1. Window \in Int /\ \A i \in 1 .. m : added[i] \in Int
      BY <2>1, BurstAssumption, MaxTimeAssumption
    <3>2. m \in 1 .. m /\ Latest = added[m]
      BY <2>1 DEF Latest
    <3>3. \A i, j \in 1 .. m : i <= j => added[i] <= added[j]
      BY <2>1, <3>1 DEF InOrder
    <3> QED
      BY <3>1, <3>2, <3>3
  <2>3. Remembered \subseteq W
    <3>1. m - size + 1 \in 1 .. m
      BY <2>1
    <3>2. ASSUME NEW i \in Remembered PROVE i \in W
      <4>1. i \in 1 .. m /\ m - size + 1 <= i
        BY <2>1 DEF Remembered
      <4>2. added[m - size + 1] <= added[i]
        BY <2>2, <3>1, <4>1
      <4> QED
        BY <2>1, <2>2, <3>1, <4>1, <4>2
    <3> QED
      BY <3>2
  <2>4. /\ IsFiniteSet(Remembered) /\ Cardinality(Remembered) = size
        /\ IsFiniteSet(W) /\ Cardinality(W) \in Nat
    <3>1. IsFiniteSet(W)
      BY RememberedCount, FS_Subset
    <3> QED
      BY <3>1, RememberedCount, FS_CardinalityType
  <2>5. Cardinality(W) >= size
    BY <2>3, <2>4, FS_Subset
  <2>6. ASSUME size # MaxSamples PROVE W = Remembered
    <3>1. ASSUME NEW i \in W, i \notin Remembered PROVE FALSE
      <4> DEFINE k == m - size
      <4>1. i \in 1 .. m /\ i <= k /\ added[i] > Latest - Window
        BY <2>1, <3>1 DEF Remembered
      <4>2. /\ k \in DOMAIN added /\ k > m - MaxSamples /\ k \notin Remembered
        BY <2>1, <2>6, <4>1, Room DEF Remembered
      <4>3. ~(added[k] > Latest - Window)
        BY <2>1, <2>2, <4>2, DroppedIsStale
      <4>4. added[i] <= added[k] /\ added[k] \in Int /\ added[i] \in Int
        BY <2>1, <2>2, <4>1, <4>2
      <4> QED
        BY <2>2, <4>1, <4>3, <4>4
    <3> QED
      BY <2>3, <3>1
  <2>7. size = IF Cardinality(W) < MaxSamples THEN Cardinality(W) ELSE MaxSamples
    <3>1. CASE size = MaxSamples
      BY <2>4, <2>5, <3>1, Room
    <3>2. CASE size # MaxSamples
      <4>1. Cardinality(W) = size
        BY <2>4, <2>6, <3>2, Zenon
      <4>2. size < MaxSamples
        BY <2>1, <3>2, Room
      <4> HIDE DEF W
      <4> QED
        BY <4>1, <4>2
    <3> QED
      BY <3>1, <3>2
  <2>8. InWindow(DOMAIN added) = Cardinality(W)
    BY DEF InWindow
  <2> QED
    BY <2>1, <2>7, <2>8, Zenon
<1> QED
  BY <1>1, RingTyped, PTL

-----------------------------------------------------------------------------
(* The ring is a queue. *)

LEMMA KeptIs ==
  ASSUME RingInv
  PROVE  /\ Kept \in Seq(0 .. MaxTime) /\ Len(Kept) = size
         /\ \A i \in 1 .. size : Kept[i] = added[Len(added) - size + i]
<1>1. size \in Nat
  BY Room DEF RingInv
<1>2. \A i \in 1 .. size : buf[At(head, i - 1)] \in 0 .. MaxTime
  <2> SUFFICES ASSUME NEW i \in 1 .. size PROVE buf[At(head, i - 1)] \in 0 .. MaxTime
    OBVIOUS
  <2>1. i - 1 \in 0 .. MaxSamples
    BY Room DEF RingInv
  <2>2. At(head, i - 1) \in Cells
    BY <2>1, AtIs DEF RingInv
  <2> QED
    BY <2>2 DEF RingInv
<1>3. Kept \in Seq(0 .. MaxTime) /\ Len(Kept) = size
  BY <1>1, <1>2 DEF Kept
<1>4. \A i \in 1 .. size : Kept[i] = buf[At(head, i - 1)]
  BY DEF Kept
<1> QED
  BY <1>3, <1>4 DEF RingInv

\* The queue with the new event, before stale times are dropped.
Grown(now) == Append(Kept, now)
Roomy(now) == IF Len(Grown(now)) > MaxSamples THEN Tail(Grown(now)) ELSE Grown(now)

LEMMA RoomyIs ==
  ASSUME RingInv, NEW now \in 0 .. MaxTime
  PROVE  /\ Roomy(now) \in Seq(0 .. MaxTime)
         /\ Len(Roomy(now)) = SizeAfterWrite
         /\ \A i \in 1 .. SizeAfterWrite :
               Roomy(now)[i] = Written(now)[At(HeadAfterWrite, i - 1)]
<1> DEFINE n == SizeAfterWrite
           m == Len(added)
           g == Grown(now)
<1>1. /\ size \in 0 .. MaxSamples /\ m \in Nat /\ size <= m
      /\ added \in Seq(0 .. MaxTime)
      /\ \A i \in 1 .. m : Append(added, now)[i] = added[i]
      /\ Append(added, now)[m + 1] = now
  BY DEF RingInv
<1>2. /\ g \in Seq(0 .. MaxTime) /\ Len(g) = size + 1
      /\ \A i \in 1 .. size : g[i] = Kept[i]
      /\ g[size + 1] = now
  BY KeptIs, <1>1, Room DEF Grown
<1>3. \A i \in 1 .. size + 1 : g[i] = Append(added, now)[m - size + i]
  <2> SUFFICES ASSUME NEW i \in 1 .. size + 1
               PROVE  g[i] = Append(added, now)[m - size + i]
    OBVIOUS
  <2>1. CASE i \in 1 .. size
    <3>1. m - size + i \in 1 .. m
      BY <1>1, <2>1, Room
    <3> QED
      BY <1>1, <1>2, <2>1, <3>1, KeptIs
  <2>2. CASE i = size + 1
    <3>1. m - size + i = m + 1
      BY <1>1, <2>2, Room
    <3> QED
      BY <1>1, <1>2, <2>2, <3>1
  <2> QED
    BY <1>1, <2>1, <2>2, Room
<1>4. \A i \in 1 .. n : Written(now)[At(HeadAfterWrite, i - 1)] =
                          Append(added, now)[m + 1 - n + i]
  BY WriteKeepsOrder
<1> HIDE DEF g, n
<1>5. CASE size = MaxSamples
  <2>1. Roomy(now) = Tail(g) /\ n = MaxSamples
    BY <1>2, <1>5, Room DEF Roomy, g, n, SizeAfterWrite
  <2>2. /\ Tail(g) \in Seq(0 .. MaxTime) /\ Len(Tail(g)) = size
        /\ \A i \in 1 .. size : Tail(g)[i] = g[i + 1]
    BY <1>1, <1>2, <1>5, Room
  <2>3. ASSUME NEW i \in 1 .. size
        PROVE  Tail(g)[i] = Append(added, now)[m + 1 - n + i]
    <3>1. i + 1 \in 1 .. size + 1 /\ m - size + (i + 1) = m + 1 - n + i
      BY <1>1, <1>5, <2>1, Room
    <3> QED
      BY <1>3, <2>2, <3>1
  <2> QED
    BY <1>4, <1>5, <2>1, <2>2, <2>3 DEF n
<1>6. CASE size # MaxSamples
  <2>1. Roomy(now) = g /\ n = size + 1
    BY <1>1, <1>2, <1>6, Room DEF Roomy, g, n, SizeAfterWrite
  <2>2. \A i \in 1 .. n : g[i] = Append(added, now)[m + 1 - n + i]
    <3>1. m + 1 - n = m - size
      BY <1>1, <2>1, Room
    <3> QED
      BY <1>3, <2>1, <3>1
  <2> QED
    BY <1>2, <1>4, <2>1, <2>2 DEF n
<1> QED
  BY <1>5, <1>6

\* A function on the numbers from 1 to k is a sequence of length k.
LEMMA FunctionIsSeq ==
    ASSUME NEW S, NEW k \in Nat, NEW f \in [1 .. k -> S]
    PROVE  f \in Seq(S) /\ Len(f) = k
<1>1. f \in Seq(S)
  BY SeqDef
<1>2. Len(f) \in Nat /\ 1 .. Len(f) = DOMAIN f /\ DOMAIN f = 1 .. k
  BY <1>1, LenProperties
<1> QED
  BY <1>1, <1>2

LEMMA AddKeeps ==
  ASSUME RingInv, NEW now \in 0 .. MaxTime, Add(now)
  PROVE  Queue!Keep(now)
<1> DEFINE r == Roomy(now)
           n == SizeAfterWrite
<1>1. /\ r \in Seq(0 .. MaxTime) /\ Len(r) = n /\ n \in 1 .. MaxSamples
      /\ \A i \in 1 .. n : r[i] = Written(now)[At(HeadAfterWrite, i - 1)]
  BY RoomyIs, WriteKeepsOrder
<1>2. RingInv'
  BY AddRing
<1>3. PICK d \in 0 .. n - 1 :
        /\ size' = n - d
        /\ \A i \in 1 .. d : ~Fresh(Written(now)[At(HeadAfterWrite, i - 1)], now)
        /\ Fresh(Written(now)[At(HeadAfterWrite, d)], now)
        /\ \A i \in 1 .. size' : buf'[At(head', i - 1)] =
                            Written(now)[At(HeadAfterWrite, d + i - 1)]
  BY AddRing
<1> HIDE DEF n, r
<1>4. d \in 0 .. Len(r) /\ d < Len(r)
  BY <1>1
<1>5. /\ Window \in Int /\ now \in Int
      /\ \A i \in 1 .. n : r[i] \in Int
  BY <1>1, BurstAssumption, MaxTimeAssumption
<1>6. ASSUME NEW i \in 1 .. d PROVE Queue!Stale(r[i], now)
  <2>1. i \in 1 .. n
    BY <1>1, <1>6
  <2>2. ~(r[i] > now - Window)
    BY <1>1, <1>3, <1>6, <2>1 DEF Fresh
  <2> QED
    BY <1>5, <2>1, <2>2 DEF Queue!Stale
<1>7. ~Queue!Stale(r[d + 1], now)
  <2>1. d + 1 \in 1 .. n /\ (d + 1) - 1 = d
    BY <1>1
  <2>2. r[d + 1] > now - Window
    BY <1>1, <1>3, <2>1 DEF Fresh
  <2> QED
    BY <1>5, <2>1, <2>2 DEF Queue!Stale
<1>8. Kept' = SubSeq(r, d + 1, Len(r))
  <2>1. size' \in 1 .. MaxSamples /\ size' = n - d
    BY <1>1, <1>3, Room
  <2>2. ASSUME NEW i \in 1 .. size' PROVE buf'[At(head', i - 1)] = r[d + i]
    <3>1. d + i \in 1 .. n /\ (d + i) - 1 = d + i - 1
      BY <1>1, <2>1
    <3> QED
      BY <1>1, <1>3, <3>1
  <2>3. Kept' = [i \in 1 .. size' |-> buf'[At(head', i - 1)]]
    BY DEF Kept
  <2>4. Kept' = [i \in 1 .. n - d |-> r[d + i]]
    BY <2>1, <2>2, <2>3
  <2> DEFINE left  == SubSeq(r, d + 1, n)
             right == [i \in 1 .. n - d |-> r[d + i]]
  <2>5. \A i \in d + 1 .. n : r[i] \in 0 .. MaxTime
    <3>1. \A i \in 1 .. n : r[i] \in 0 .. MaxTime
      BY ONLY <1>1, ElementOfSeq
    <3>2. \A i \in d + 1 .. n : i \in 1 .. n
      BY <1>1
    <3> QED
      BY ONLY <3>1, <3>2
  <2>6. /\ d + 1 \in Int /\ n \in Int /\ d + 1 <= n
        /\ n - (d + 1) + 1 = n - d
        /\ \A i \in 1 .. n - d : d + 1 + i - 1 = d + i
    BY <1>1
  <2>7. /\ left \in Seq(0 .. MaxTime)
        /\ Len(left) = n - d
        /\ \A i \in 1 .. n - d : left[i] = r[d + i]
    <3>1. /\ SubSeq(r, d + 1, n) \in Seq(0 .. MaxTime)
          /\ Len(SubSeq(r, d + 1, n)) = IF d + 1 <= n THEN n - (d + 1) + 1 ELSE 0
          /\ \A i \in 1 .. n - (d + 1) + 1 :
                SubSeq(r, d + 1, n)[i] = r[d + 1 + i - 1]
      BY ONLY <2>5, <2>6, SubSeqProperties
    <3> QED
      BY <3>1, <2>6
  <2>8. /\ right \in Seq(0 .. MaxTime)
        /\ Len(right) = n - d
        /\ \A i \in 1 .. n - d : right[i] = r[d + i]
    <3>1. n - d \in Nat /\ \A i \in 1 .. n - d : d + i \in d + 1 .. n
      BY <1>1
    <3>2. right \in [1 .. n - d -> 0 .. MaxTime]
      BY <2>5, <3>1
    <3>3. \A i \in 1 .. n - d : right[i] = r[d + i]
      OBVIOUS
    <3> HIDE DEF right
    <3> QED
      BY ONLY <3>1, <3>2, <3>3, FunctionIsSeq
  <2>9. left = right
    <3> HIDE DEF left, right
    <3> QED
      BY ONLY <2>7, <2>8, SeqEqual
  <2> QED
    BY <1>1, <2>4, <2>9
<1>9. \E k \in 0 .. Len(r) :
         /\ \A i \in 1 .. k : Queue!Stale(r[i], now)
         /\ k < Len(r) => ~Queue!Stale(r[k + 1], now)
         /\ Kept' = SubSeq(r, k + 1, Len(r))
  BY <1>4, <1>6, <1>7, <1>8
<1> QED
  BY <1>9 DEF Queue!Keep, r, Roomy, Grown

\* Every step of a series is a step of the queue, or one it does not notice.
LEMMA QueueStep ==
  ASSUME TypeOK, SeriesInv, RingInv, [Next]_vars
  PROVE  [Queue!Next]_(Queue!vars)
<1>1. ASSUME NEW t \in Thread, AddToBurst(t) PROVE Queue!Next
  <2>1. call[t].now \in 0 .. clock
    <3>1. call[t].now \in 0 .. clock \cup {NoTime} /\ call[t].now \in Nat
      BY <1>1 DEF AddToBurst, SeriesInv, TypeOK
    <3> QED
      BY <3>1 DEF NoTime
  <2>2. call[t].now \in 0 .. MaxTime
    BY <2>1, MaxTimeAssumption DEF TypeOK
  <2>3. Add(call[t].now) /\ UNCHANGED clock
    BY <1>1 DEF AddToBurst
  <2>4. Queue!Keep(call[t].now)
    BY <2>2, <2>3, AddKeeps
  <2> QED
    BY <2>1, <2>3, <2>4 DEF Queue!Next
<1>2. ASSUME UNCHANGED burstVars PROVE Kept' = Kept
  BY <1>2 DEF burstVars, Kept
<1>3. ASSUME NEW t \in Thread, Begin(t) \/ SwapLastEvent(t) \/ Snapshot(t) \/ Update(t)
      PROVE  UNCHANGED <<clock, burstVars>>
  BY <1>3 DEF Begin, SwapLastEvent, Snapshot, Update
<1>4. CASE Tick /\ UNCHANGED <<burstVars, seriesVars>>
  BY <1>2, <1>4 DEF Queue!Next, Queue!Tick, Tick
<1>5. ASSUME UNCHANGED <<clock, burstVars>> PROVE UNCHANGED Queue!vars
  BY <1>2, <1>5 DEF Queue!vars
<1>6. CASE UNCHANGED vars
  BY <1>5, <1>6 DEF vars
<1> QED
  BY <1>1, <1>3, <1>4, <1>5, <1>6 DEF Next, Observe

\* The ring buffer implements the queue of SlidingWindow, whatever order the
\* times arrive in: an event enters at the new end, and what leaves, leaves at
\* the old end, for want of room or because it is stale (burst.go:64).
THEOREM RingIsAQueue == Spec => RingIsQueue
<1>1. Init => Queue!Init
  <2> SUFFICES ASSUME Init PROVE Queue!Init
    OBVIOUS
  <2>1. size = 0 /\ clock = 0
    BY DEF Init, BurstInit
  <2>2. Kept = << >>
    BY <2>1 DEF Kept
  <2> QED
    BY <2>1, <2>2 DEF Queue!Init
<1> QED
  BY <1>1, QueueStep, RingTyped, SeriesHolds, PTL DEF Spec, RingIsQueue, Queue!Spec

-----------------------------------------------------------------------------
(* The baseline a rate is compared with. *)

\* A worker that measures an event knows its place among the events there are,
\* and one that has a baseline compares with a fresh one.
BaselineInv ==
    \A t \in Thread :
       /\ pc[t] \in {"snapshot", "update"} =>
             call[t].place \in Nat /\ call[t].place <= Len(stamps)
       /\ pc[t] = "update" =>
             /\ call[t].baseline \in Nat
             /\ (call[t].place - 2) - call[t].baseline < Cardinality(Thread)

LEMMA BaselineStep ==
  ASSUME IsFiniteSet(Thread), SeriesInv, MeasuredOnce, BaselineInv, [Next]_vars
  PROVE  BaselineInv'
<1>1. /\ pc \in [Thread -> Steps] /\ DOMAIN call = Thread
      /\ Len(stamps) \in Nat /\ samples \in Nat
  BY DEF SeriesInv
<1>2. ASSUME NEW t \in Thread, \A u \in Thread : u # t =>
                call'[u] = call[u] /\ pc'[u] = pc[u],
             Len(stamps') \in Nat, Len(stamps') >= Len(stamps),
             pc'[t] \in {"snapshot", "update"} =>
                call'[t].place \in Nat /\ call'[t].place <= Len(stamps'),
             pc'[t] = "update" =>
                /\ call'[t].baseline \in Nat
                /\ (call'[t].place - 2) - call'[t].baseline < Cardinality(Thread)
      PROVE  BaselineInv'
  <2> SUFFICES ASSUME NEW u \in Thread
               PROVE  /\ pc'[u] \in {"snapshot", "update"} =>
                            call'[u].place \in Nat /\ call'[u].place <= Len(stamps')
                      /\ pc'[u] = "update" =>
                            /\ call'[u].baseline \in Nat
                            /\ (call'[u].place - 2) - call'[u].baseline
                                  < Cardinality(Thread)
    BY DEF BaselineInv
  <2>1. CASE u = t
    BY <1>2, <2>1
  <2>2. CASE u # t
    <3>1. call'[u] = call[u] /\ pc'[u] = pc[u]
      BY <1>2, <2>2
    <3>2. pc[u] \in {"snapshot", "update"} =>
             call[u].place \in Nat /\ call[u].place <= Len(stamps')
      BY <1>1, <1>2 DEF BaselineInv
    <3> QED
      BY <3>1, <3>2 DEF BaselineInv
  <2> QED
    BY <2>1, <2>2
<1>3. ASSUME NEW t \in Thread, Begin(t) \/ AddToBurst(t) \/ Update(t)
      PROVE  BaselineInv'
  <2>1. /\ \A u \in Thread : u # t => call'[u] = call[u] /\ pc'[u] = pc[u]
        /\ stamps' = stamps
        /\ pc'[t] \in {"idle", "burst", "swap"}
    BY <1>1, <1>3 DEF Begin, AddToBurst, Update, Return, Goto
  <2> QED
    BY <1>1, <1>2, <2>1
<1>4. ASSUME NEW t \in Thread, SwapLastEvent(t) PROVE BaselineInv'
  <2>1. /\ Len(stamps') = Len(stamps) + 1
        /\ pc' = [pc EXCEPT ![t] = IF stamps = << >> THEN "idle" ELSE "snapshot"]
    BY <1>4, SwapSeries DEF SeriesInv
  <2>2. /\ \A u \in Thread : u # t => call'[u] = call[u]
        /\ pc'[t] = "snapshot" => call'[t].place = Len(stamps) + 1
    <3>1. CASE lastEvent = NoTime
      <4>1. pc' = [pc EXCEPT ![t] = "idle"] /\ call' = [call EXCEPT ![t] = NoCall]
        BY <1>4, <3>1 DEF SwapLastEvent, Swapped, Return, Goto
      <4> QED
        BY <1>1, <4>1
    <3>2. CASE lastEvent # NoTime
      <4>1. call' = [call EXCEPT ![t] = [now   |-> @.now,
                                         place |-> Len(stamps) + 1]]
        BY <1>4, <3>2 DEF SwapLastEvent, Swapped
      <4> QED
        BY <1>1, <4>1
    <3> QED
      BY <3>1, <3>2
  <2>3. pc'[t] \in {"idle", "snapshot"} /\ \A u \in Thread : u # t => pc'[u] = pc[u]
    BY <1>1, <2>1
  <2> QED
    BY <1>1, <1>2, <2>1, <2>2, <2>3
<1>5. ASSUME NEW t \in Thread, Snapshot(t) PROVE BaselineInv'
  <2>1. /\ pc[t] = "snapshot" /\ stamps' = stamps
        /\ call' = [call EXCEPT ![t] = [now   |-> @.now, place |-> @.place,
                                        baseline |-> samples]]
        /\ pc' = [pc EXCEPT ![t] = "update"]
    BY <1>5 DEF Snapshot, Goto
  <2>2. call[t].place \in Nat /\ call[t].place <= Len(stamps)
    BY <2>1 DEF BaselineInv
  <2>3. /\ Cardinality(Measuring) \in Nat /\ Cardinality(Thread) \in Nat
        /\ Cardinality(Measuring) <= Cardinality(Thread)
    BY FS_Subset, FS_CardinalityType DEF Measuring
  <2>4. samples + Cardinality(Measuring) >= Len(stamps) - 1
    BY <1>1, <2>3 DEF MeasuredOnce, Max2
  <2>5. Len(stamps) >= 2 => (call[t].place - 2) - samples < Cardinality(Thread)
    BY <1>1, <2>2, <2>3, <2>4
  <2>6. t \in Measuring /\ Cardinality(Thread) >= 1
    <3>1. t \in Measuring
      BY <2>1 DEF Measuring
    <3>2. Cardinality(Thread) # 0
      BY FS_EmptySet
    <3> QED
      BY <2>3, <3>1, <3>2
  <2>7. (call[t].place - 2) - samples < Cardinality(Thread)
    BY <1>1, <2>2, <2>3, <2>5, <2>6
  <2>8. /\ call'[t].place = call[t].place /\ call'[t].baseline = samples
        /\ \A u \in Thread : u # t => call'[u] = call[u] /\ pc'[u] = pc[u]
    BY <1>1, <2>1
  <2> QED
    BY <1>1, <1>2, <2>1, <2>2, <2>7, <2>8
<1>6. ASSUME UNCHANGED <<pc, call, stamps>> PROVE BaselineInv'
  BY <1>6 DEF BaselineInv
<1> QED
  BY <1>3, <1>4, <1>5, <1>6 DEF Next, Observe, vars, seriesVars

\* The statistics a worker compares its rate with lack fewer of the samples
\* before its own than there are workers, however they interleave: between
\* the swap and the update an event is in the hands of one of them
\* (engine.go:259).
THEOREM BaselineStaysFresh ==
  ASSUME IsFiniteSet(Thread)
  PROVE  Spec => []BaselineIsFresh
<1>1. Init => BaselineInv
  BY DEF Init, BaselineInv
<1>2. Spec => []MeasuredOnce
  BY EveryEventMeasuredOnce
<1>3. SeriesInv /\ MeasuredOnce /\ BaselineInv /\ [Next]_vars => BaselineInv'
  BY BaselineStep
<1>4. BaselineInv => BaselineIsFresh
  BY DEF BaselineInv, BaselineIsFresh
<1> QED
  BY <1>1, <1>2, <1>3, <1>4, SeriesHolds, PTL DEF Spec
=============================================================================
