--------------------------- MODULE UploaderProofs ---------------------------
EXTENDS Uploader, TLAPS

LEMMA InSequence ==
  ASSUME NEW S, NEW s \in Seq(S), NEW e
  PROVE  /\ e \in ToSet(s) <=> \E i \in 1 .. Len(s) : s[i] = e
         /\ Contains(s, e) <=> e \in ToSet(s)
BY DEF ToSet, Contains

LEMMA Appended ==
  ASSUME NEW S, NEW s \in Seq(S), NEW e \in S
  PROVE  ToSet(Append(s, e)) = ToSet(s) \cup {e}
<1>1. /\ Append(s, e) \in Seq(S) /\ Len(Append(s, e)) = Len(s) + 1
      /\ \A i \in 1 .. Len(s) : Append(s, e)[i] = s[i]
      /\ Append(s, e)[Len(s) + 1] = e
      /\ Len(s) \in Nat
  OBVIOUS
<1>2. ASSUME NEW x PROVE x \in ToSet(Append(s, e)) <=> x \in ToSet(s) \cup {e}
  <2>1. x \in ToSet(s) <=> \E i \in 1 .. Len(s) : s[i] = x
    BY InSequence
  <2>2. x \in ToSet(Append(s, e)) <=>
           \E i \in 1 .. Len(s) + 1 : Append(s, e)[i] = x
    <3>1. DOMAIN Append(s, e) = 1 .. Len(s) + 1
      BY <1>1
    <3> QED
      BY <3>1 DEF ToSet
  <2> QED
    BY <1>1, <2>1, <2>2
<1> QED
  BY <1>2

LEMMA Taken ==
  ASSUME NEW S, NEW s \in Seq(S), s # << >>
  PROVE  /\ Head(s) \in S /\ Tail(s) \in Seq(S)
         /\ Head(s) = s[1] /\ Len(s) \in Nat \ {0}
         /\ Len(Tail(s)) = Len(s) - 1
         /\ \A i \in 1 .. Len(s) - 1 : Tail(s)[i] = s[i + 1]
         /\ ToSet(s) = {Head(s)} \cup ToSet(Tail(s))
<1>1. /\ Head(s) \in S /\ Tail(s) \in Seq(S)
      /\ Head(s) = s[1] /\ Len(s) \in Nat \ {0}
      /\ Len(Tail(s)) = Len(s) - 1
      /\ \A i \in 1 .. Len(s) - 1 : Tail(s)[i] = s[i + 1]
  OBVIOUS
<1>2. ASSUME NEW x PROVE x \in ToSet(s) <=> x \in {Head(s)} \cup ToSet(Tail(s))
  <2>1. x \in ToSet(s) <=> \E i \in 1 .. Len(s) : s[i] = x
    BY InSequence
  <2>2. x \in ToSet(Tail(s)) <=> \E i \in 1 .. Len(s) - 1 : s[i + 1] = x
    <3>1. DOMAIN Tail(s) = 1 .. Len(s) - 1
      BY <1>1
    <3> QED
      BY <1>1, <3>1 DEF ToSet
  <2>3. \A i \in 1 .. Len(s) : i = 1 \/ i - 1 \in 1 .. Len(s) - 1
    BY <1>1
  <2>4. \A i \in 1 .. Len(s) - 1 : i + 1 \in 1 .. Len(s)
    BY <1>1
  <2>5. 1 \in 1 .. Len(s)
    BY <1>1
  <2>6. ASSUME NEW i \in 1 .. Len(s), s[i] = x, i # 1
        PROVE  \E j \in 1 .. Len(s) - 1 : s[j + 1] = x
    <3>1. i - 1 \in 1 .. Len(s) - 1 /\ (i - 1) + 1 = i
      BY <2>3, <2>6
    <3> QED
      BY <2>6, <3>1
  <2> QED
    BY <1>1, <2>1, <2>2, <2>4, <2>5, <2>6
<1> QED
  BY <1>1, <1>2

-----------------------------------------------------------------------------
LEMMA InitType == Init => TypeOK /\ OrderInv
<1> SUFFICES ASSUME Init PROVE TypeOK /\ OrderInv
  OBVIOUS
<1>1. \A t : t \notin ToSet(<< >>)
  BY DEF ToSet
<1>2. TypeOK
  BY UploaderAssumption DEF Init, TypeOK, NoTrace
<1>3. OrderInv
  BY <1>1 DEF Init, OrderInv, Tried, NoTrace
<1> QED
  BY <1>2, <1>3

LEMMA EnqueueType ==
  ASSUME TypeOK, NEW w \in Worker, Enqueue(w)
  PROVE  TypeOK'
<1>1. emitted + 1 \in Trace /\ emitted' = emitted + 1
  BY DEF TypeOK, Trace, Enqueue
<1>2. CASE Len(ch) < Size
  <2>1. /\ ch' = Append(ch, emitted + 1) /\ dropped' = dropped
        /\ Len(ch') = Len(ch) + 1
    BY <1>2 DEF Enqueue, TypeOK
  <2> QED
    BY <1>1, <1>2, <2>1, UploaderAssumption DEF Enqueue, TypeOK
<1>3. CASE ~(Len(ch) < Size)
  <2>1. ch' = ch /\ dropped' = dropped \cup {emitted + 1}
    BY <1>3 DEF Enqueue
  <2> QED
    BY <1>1, <2>1 DEF Enqueue, TypeOK
<1> QED
  BY <1>2, <1>3

LEMMA TakeTraceType == TypeOK /\ TakeTrace => TypeOK'
<1> SUFFICES ASSUME TypeOK, TakeTrace PROVE TypeOK'
  OBVIOUS
<1>1. Head(ch) \in Trace /\ Tail(ch) \in Seq(Trace) /\ Len(Tail(ch)) = Len(ch) - 1
      /\ Len(ch) \in Nat
  BY Taken DEF TypeOK, TakeTrace
<1>2. ch' \in Seq(Trace) /\ Len(ch') <= Size
  BY <1>1, UploaderAssumption DEF TypeOK, TakeTrace
<1>3. NoTrace \notin Trace
  BY DEF NoTrace, Trace
<1> QED
  BY <1>1, <1>2, <1>3 DEF TypeOK, TakeTrace, Fail

LEMMA OtherType ==
  ASSUME TypeOK,
         \/ \E w \in Worker : Judge(w)
         \/ UploadSucceeds \/ UploadFails \/ StopUploader \/ Cancel \/ Exit
         \/ \E t \in wire : Receive(t) \/ Lose(t)
  PROVE  TypeOK'
<1>1. CASE \E t \in wire : Receive(t)
  BY <1>1 DEF TypeOK, Receive
<1>2. CASE ~\E t \in wire : Receive(t)
  BY <1>2 DEF TypeOK, Judge, UploadSucceeds, UploadFails, Fail, StopUploader,
              Cancel, Exit, Lose
<1> QED
  BY <1>1, <1>2

\* Every variable keeps its type, a request is open exactly while the uploader
\* sends, and the channel never exceeds its capacity.
THEOREM TypeCorrect == Spec => []TypeOK
<1>1. TypeOK /\ [Next]_vars => TypeOK'
  <2> SUFFICES ASSUME TypeOK, [Next]_vars PROVE TypeOK'
    OBVIOUS
  <2>1. CASE UNCHANGED vars
    BY <2>1 DEF vars, TypeOK
  <2> QED
    BY <2>1, EnqueueType, TakeTraceType, OtherType DEF Next, UploaderStep
<1> QED
  BY InitType, <1>1, PTL DEF Spec

-----------------------------------------------------------------------------
(* The order of the traces. *)

\* Steps that only take requests off the wire, or give up on them.
LEMMA OrderFrame ==
  ASSUME TypeOK, OrderInv, UNCHANGED <<ch, received>>,
         emitted' = emitted, wire' \subseteq wire, failed \subseteq failed',
         failed' \subseteq failed \cup ({sending} \ {NoTrace}),
         sending' = sending \/ sending' = NoTrace,
         \/ uploader' = uploader /\ sending' = sending
         \/ uploader' = "stopped"
         \/ /\ uploader = "sending" /\ uploader' = "select"
            /\ sending \in failed' \/ sending \notin wire
  PROVE  OrderInv'
<1>1. Tried' \subseteq Tried
  BY DEF Tried
<1>2. /\ \A t \in Tried' : t <= emitted
      /\ \A i \in DOMAIN ch : ch[i] <= emitted /\ \A t \in Tried' : t < ch[i]
  BY <1>1 DEF OrderInv
<1>3. wire' \cap ToSet(received) = {}
  BY DEF OrderInv
<1>4. \A t \in wire' \ failed', s \in wire' \cup ToSet(received) : s <= t
  BY DEF OrderInv
<1>5. /\ uploader' = "select" => wire' \subseteq failed'
      /\ uploader' = "sending" => wire' \ failed' \subseteq {sending'}
  BY DEF OrderInv
<1> QED
  BY <1>2, <1>3, <1>4, <1>5 DEF OrderInv

LEMMA EnqueueOrder ==
  ASSUME TypeOK, OrderInv, NEW w \in Worker, Enqueue(w)
  PROVE  OrderInv'
<1>1. /\ UNCHANGED <<uploader, sending, wire, received, failed>>
      /\ emitted' = emitted + 1 /\ emitted \in Nat /\ Len(ch) \in Nat
      /\ DOMAIN ch = 1 .. Len(ch)
      /\ \A i \in DOMAIN ch : ch[i] \in Nat
  BY DEF Enqueue, TypeOK, Trace
<1>2. \/ ch' = ch
      \/ /\ DOMAIN ch' = 1 .. Len(ch) + 1
         /\ \A i \in DOMAIN ch : ch'[i] = ch[i]
         /\ ch'[Len(ch) + 1] = emitted'
  BY <1>1 DEF Enqueue, TypeOK
<1>3. Tried' = Tried /\ \A t \in Tried : t \in Nat
  <2>1. \A t \in ToSet(received) : t \in Nat
    BY DEF TypeOK, ToSet, Trace
  <2> QED
    BY <1>1, <2>1 DEF Tried, TypeOK, Trace, NoTrace
<1>4. /\ \A i, j \in DOMAIN ch : i < j => ch[i] < ch[j]
      /\ \A i \in DOMAIN ch : ch[i] <= emitted /\ \A t \in Tried : t < ch[i]
      /\ \A t \in Tried : t <= emitted
  BY DEF OrderInv
<1>5. \A i, j \in DOMAIN ch' : i < j => ch'[i] < ch'[j]
  BY <1>1, <1>2, <1>4
<1>6. \A i \in DOMAIN ch' : ch'[i] <= emitted'
  BY <1>1, <1>2, <1>4
<1>7. \A i \in DOMAIN ch' : \A t \in Tried : t < ch'[i]
  BY <1>1, <1>2, <1>3, <1>4
<1>8. \A t \in Tried' : t <= emitted'
  BY <1>1, <1>3, <1>4
<1> QED
  BY <1>1, <1>3, <1>5, <1>6, <1>7, <1>8 DEF OrderInv

LEMMA TakeTraceOrder ==
  ASSUME TypeOK, OrderInv, TakeTrace
  PROVE  OrderInv'
<1> DEFINE h == Head(ch)
<1>1. /\ h \in Trace /\ ch' = Tail(ch) /\ h = ch[1] /\ Len(ch) \in Nat \ {0}
      /\ ch' \in Seq(Trace) /\ Len(ch') = Len(ch) - 1
      /\ \A i \in 1 .. Len(ch) - 1 : ch'[i] = ch[i + 1]
      /\ DOMAIN ch = 1 .. Len(ch) /\ DOMAIN ch' = 1 .. Len(ch) - 1
      /\ \A i \in DOMAIN ch : ch[i] \in Nat
  BY Taken DEF TakeTrace, TypeOK, Trace
<1>2. /\ UNCHANGED <<emitted, received>> /\ uploader = "select"
      /\ sending = NoTrace
      /\ \/ /\ wire' = wire \cup {h} /\ failed' = failed /\ sending' = h
            /\ uploader' = "sending"
         \/ /\ wire' = wire /\ failed' = failed \cup {h} /\ sending' = NoTrace
            /\ uploader' = "select"
  BY DEF TakeTrace, Fail, TypeOK
<1>3. /\ \A t \in Tried : t < h /\ t \in Nat
      /\ h <= emitted /\ h \in Nat
      /\ \A i \in DOMAIN ch' : h < ch'[i]
  <2>1. \A t \in ToSet(received) : t \in Nat
    BY DEF TypeOK, ToSet, Trace
  <2>2. \A t \in Tried : t \in Nat
    BY <2>1 DEF Tried, TypeOK, Trace, NoTrace
  <2>3. 1 \in DOMAIN ch /\ \A i \in DOMAIN ch' : i + 1 \in DOMAIN ch /\ 1 < i + 1
    BY <1>1
  <2>4. h \in Nat /\ h <= emitted /\ \A t \in Tried : t < h
    BY <1>1, <2>3 DEF OrderInv
  <2>5. \A i \in DOMAIN ch' : ch[1] < ch[i + 1]
    BY <2>3 DEF OrderInv
  <2> QED
    BY <1>1, <2>2, <2>4, <2>5
<1>4. Tried' \subseteq Tried \cup {h}
  BY <1>2 DEF Tried
<1>5. /\ \A i, j \in DOMAIN ch' : i < j => ch'[i] < ch'[j]
      /\ \A i \in DOMAIN ch' : ch'[i] <= emitted /\ \A t \in Tried' : t < ch'[i]
      /\ \A t \in Tried' : t <= emitted
  BY <1>1, <1>3, <1>4 DEF OrderInv
<1>6. h \notin wire \cup ToSet(received)
  BY <1>3 DEF Tried
<1>7. /\ wire' \cap ToSet(received) = {}
      /\ wire' \ failed' \subseteq {h}
      /\ uploader' = "select" => wire' \subseteq failed'
      /\ uploader' = "sending" => wire' \ failed' \subseteq {sending'}
  BY <1>2, <1>6 DEF OrderInv
<1>8. \A s \in wire' \cup ToSet(received) : s <= h
  BY <1>2, <1>3 DEF Tried
<1> QED
  BY <1>2, <1>5, <1>7, <1>8 DEF OrderInv

LEMMA ReceiveOrder ==
  ASSUME TypeOK, OrderInv, NEW t \in wire, Receive(t)
  PROVE  OrderInv'
<1>1. /\ ToSet(received') = ToSet(received) \cup {t} /\ wire' = wire \ {t}
      /\ UNCHANGED <<emitted, ch, uploader, sending, failed>>
  BY Appended DEF Receive, TypeOK
<1>2. Tried' = Tried
  BY <1>1 DEF Tried
<1>3. /\ wire' \cap ToSet(received') = {}
      /\ wire' \cup ToSet(received') = wire \cup ToSet(received)
  BY <1>1 DEF OrderInv
<1>4. \A s \in wire' \ failed', r \in wire' \cup ToSet(received') : r <= s
  BY <1>1, <1>3 DEF OrderInv
<1> QED
  BY <1>1, <1>2, <1>3, <1>4 DEF OrderInv

LEMMA OrderStep == TypeOK /\ OrderInv /\ [Next]_vars => OrderInv'
<1> SUFFICES ASSUME TypeOK, OrderInv, [Next]_vars PROVE OrderInv'
  OBVIOUS
<1>1. CASE \/ \E w \in Worker : Judge(w)
           \/ StopUploader \/ Cancel \/ Exit \/ UNCHANGED vars
  BY <1>1, OrderFrame DEF Judge, StopUploader, Cancel, Exit, vars
<1>2. CASE UploadFails
  <2>1. sending # NoTrace /\ uploader = "sending"
    BY <1>2 DEF UploadFails, TypeOK
  <2> QED
    BY <1>2, <2>1, OrderFrame DEF UploadFails, Fail
<1>3. CASE UploadSucceeds
  <2>1. sending \in ToSet(received)
    BY <1>3, InSequence DEF UploadSucceeds, TypeOK
  <2>2. sending \notin wire
    BY <2>1 DEF OrderInv
  <2> QED
    BY <1>3, <2>2, OrderFrame DEF UploadSucceeds
<1>4. ASSUME NEW t \in wire, Lose(t) PROVE OrderInv'
  BY <1>4, OrderFrame DEF Lose
<1> QED
  BY <1>1, <1>2, <1>3, <1>4, EnqueueOrder, TakeTraceOrder, ReceiveOrder
  DEF Next, UploaderStep

LEMMA OrderHolds == Spec => []OrderInv
BY InitType, OrderStep, TypeCorrect, PTL DEF Spec

\* Whatever the network does with requests, and however late a cancelled or
\* timed-out one arrives, the control plane gets no trace twice, and a trace
\* that the uploader had not given up in the order of the enqueuing.
THEOREM ArrivesOnceAndInOrder == Spec => []OnceAndInOrder
<1>1. Init => OnceAndInOrder
  BY DEF Init, OnceAndInOrder
<1>2. TypeOK /\ OrderInv /\ OnceAndInOrder /\ [Next]_vars => OnceAndInOrder'
  <2> SUFFICES ASSUME TypeOK, OrderInv, OnceAndInOrder, [Next]_vars
               PROVE  OnceAndInOrder'
    OBVIOUS
  <2>1. CASE received' = received /\ failed \subseteq failed'
    BY <2>1 DEF OnceAndInOrder
  <2>2. ASSUME NEW t \in wire, Receive(t) PROVE OnceAndInOrder'
    <3>1. /\ DOMAIN received' = 1 .. Len(received) + 1 /\ failed' = failed
          /\ \A i \in DOMAIN received : received'[i] = received[i]
          /\ received'[Len(received) + 1] = t
          /\ DOMAIN received = 1 .. Len(received) /\ Len(received) \in Nat
          /\ t \in Nat /\ \A i \in DOMAIN received : received[i] \in Nat
      BY <2>2 DEF Receive, TypeOK, Trace
    <3>2. \A i \in DOMAIN received : received[i] # t /\ (t \in failed \/ received[i] < t)
      <4>1. \A i \in DOMAIN received : received[i] \in ToSet(received)
        BY DEF ToSet
      <4> QED
        BY <3>1, <4>1 DEF OrderInv
    <3> QED
      BY <3>1, <3>2 DEF OnceAndInOrder
  <2>3. CASE ~\E t \in wire : Receive(t)
    BY <2>1, <2>3 DEF Next, UploaderStep, Judge, Enqueue, TakeTrace, Fail,
       UploadSucceeds, UploadFails, StopUploader, Cancel, Exit, Lose, vars
  <2> QED
    BY <2>2, <2>3
<1> QED
  BY <1>1, <1>2, TypeCorrect, OrderHolds, PTL DEF Spec

\* Until a signal, no trace vanishes: what a full channel refuses and what the
\* uploader gives up is all that does not wait, fly or arrive.
THEOREM NoTraceVanishes == Spec => []NothingVanishes
<1>1. Init => NothingVanishes
  BY DEF Init, NothingVanishes, ToSet, NoTrace
<1>2. TypeOK /\ OrderInv /\ NothingVanishes /\ [Next]_vars => NothingVanishes'
  <2> SUFFICES ASSUME TypeOK, OrderInv, NothingVanishes, [Next]_vars, agent' = "running"
               PROVE  NothingVanishes'
    BY DEF NothingVanishes
  <2>1. agent = "running"
    BY DEF Next, UploaderStep, Judge, Enqueue, TakeTrace, UploadSucceeds,
       UploadFails, StopUploader, Cancel, Exit, Receive, Lose, vars
  <2>2. ASSUME NEW w \in Worker, Enqueue(w) PROVE NothingVanishes'
    <3>1. /\ 1 .. emitted' = 1 .. emitted \cup {emitted + 1}
          /\ emitted + 1 \in Trace
      BY <2>2 DEF Enqueue, TypeOK, Trace
    <3>2. ToSet(ch') \cup dropped' = ToSet(ch) \cup dropped \cup {emitted + 1}
      <4>1. CASE Len(ch) < Size
        <5>1. ToSet(Append(ch, emitted + 1)) = ToSet(ch) \cup {emitted + 1}
          BY <3>1, Appended DEF TypeOK
        <5> QED
          BY <2>2, <4>1, <5>1 DEF Enqueue
      <4>2. CASE ~(Len(ch) < Size)
        BY <2>2, <4>2 DEF Enqueue
      <4> QED
        BY <4>1, <4>2
    <3>3. UNCHANGED <<received, failed, sending>>
      BY <2>2 DEF Enqueue
    <3> QED
      BY <2>1, <3>1, <3>2, <3>3 DEF NothingVanishes
  <2>3. CASE TakeTrace
    <3>1. ToSet(ch) = {Head(ch)} \cup ToSet(ch') /\ Head(ch) # NoTrace
      BY <2>3, Taken DEF TakeTrace, TypeOK, Trace, NoTrace
    <3>2. /\ UNCHANGED <<emitted, received, dropped>> /\ sending = NoTrace
          /\ \/ failed' = failed /\ sending' = Head(ch)
             \/ failed' = failed \cup {Head(ch)} /\ sending' = NoTrace
      BY <2>3 DEF TakeTrace, Fail, TypeOK
    <3> QED
      BY <2>1, <3>1, <3>2 DEF NothingVanishes
  <2>4. CASE UploadSucceeds
    <3>1. sending \in ToSet(received) /\ sending' = NoTrace
      BY <2>4, InSequence DEF UploadSucceeds, TypeOK
    <3> QED
      BY <2>1, <2>4, <3>1 DEF UploadSucceeds, NothingVanishes
  <2>5. CASE UploadFails
    <3>1. sending # NoTrace
      BY <2>5 DEF UploadFails, TypeOK
    <3> QED
      BY <2>1, <2>5, <3>1 DEF UploadFails, Fail, NothingVanishes
  <2>6. ASSUME NEW t \in wire, Receive(t) PROVE NothingVanishes'
    <3>1. ToSet(received') = ToSet(received) \cup {t}
      BY <2>6, Appended DEF Receive, TypeOK
    <3>2. t \in 1 .. emitted
      BY <2>6 DEF OrderInv, Tried, TypeOK, Trace
    <3> QED
      BY <2>1, <2>6, <3>1, <3>2 DEF Receive, NothingVanishes
  <2>7. CASE \/ \E w \in Worker : Judge(w)
             \/ StopUploader \/ (\E t \in wire : Lose(t)) \/ UNCHANGED vars
    BY <2>1, <2>7 DEF Judge, StopUploader, Lose, vars, NothingVanishes
  <2>8. ~Cancel /\ ~Exit
    BY <2>1 DEF Cancel, Exit
  <2> QED
    BY <2>2, <2>3, <2>4, <2>5, <2>6, <2>7, <2>8 DEF Next, UploaderStep
<1> QED
  BY <1>1, <1>2, TypeCorrect, OrderHolds, PTL DEF Spec
=============================================================================
