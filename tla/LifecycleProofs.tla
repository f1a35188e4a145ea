--------------------------- MODULE LifecycleProofs ---------------------------
EXTENDS AgentLifecycle, TLAPS

(* The kinds of step, told apart by what they may change. *)

\* A step of main that leaves the identity of its instance alone.
Onward(a) == \/ Start(a) \/ Register(a) \/ RegisterReturns(a) \/ LoadPolicy(a)
             \/ (\E p \in Param : ValidateParam(a, p))
             \/ AttachTracepoint(a) \/ NewReader(a) \/ Serve(a) \/ Signal(a)

\* A step that moves no instance at all.
Aside == \/ \E a \in Instance : \/ HeartbeatStep(a)
                                \/ \E n \in DOMAIN opens : Examine(a, n)
         \/ \E p \in Param : OpenParam(p)
         \/ \E n \in DOMAIN opens : StoreParam(n) \/ CloseParam(n)

GoneStep == \/ \E a \in Instance : Exit(a) \/ Die(a)
            \/ PowerLoss

DiskStep == WriteBack /\ UNCHANGED <<starts, fileVars, monitorVars, planeVars>>

LEMMA Steps ==
  ASSUME Next
  PROVE  \/ \E a \in Instance : Onward(a) \/ Identify(a)
         \/ Aside \/ GoneStep \/ DiskStep
BY DEF Next, MainStep, WorkersStep, Onward, Aside, GoneStep, DiskStep

-----------------------------------------------------------------------------
(* Type correctness. *)

\* The parts of TypeOK about the opens, their events, and the parameters.
OpensType == /\ opens \in Seq(Param) /\ Len(opens) <= MaxOpens
             /\ unclosed \subseteq DOMAIN opens
EventsType == /\ {heard, pending} \subseteq [Instance -> SUBSET DOMAIN opens]
              /\ \A a \in Instance : pending[a] \subseteq heard[a]
AccountsType == /\ unseen \subseteq Param
                /\ {todo, skipped, unheard, outrun}
                      \subseteq [Instance -> SUBSET Param]

LEMMA InitType == Init => TypeOK
<1> SUFFICES ASSUME Init PROVE TypeOK
  OBVIOUS
<1>1. IdentityTypeOK
  BY DEF Init, IdentityInit, IdentityTypeOK, NoID
<1>2. pc \in [Instance -> Phases]
  BY DEF Init, IdentityInit, Phases
<1>3. \A a \in Instance : pc[a] = "off"
  BY DEF Init, IdentityInit
<1>4. EventsType /\ AccountsType
  BY DEF Init, EventsType, AccountsType
<1>5. /\ starts \in [Instance -> Nat]
      /\ beat \in [Instance -> {"none", "waiting", "sending"}]
  BY DEF Init
<1>6. OpensType
  <2>1. PICK n \in 0 .. MaxOpens : opens \in [1 .. n -> Param]
    BY DEF Init
  <2>2. opens \in Seq(Param) /\ Len(opens) = n
    BY <2>1
  <2> QED
    BY <2>1, <2>2, LifecycleAssumption DEF Init, OpensType
<1> QED
  BY <1>1, <1>2, <1>3, <1>4, <1>5, <1>6
  DEF Init, TypeOK, OpensType, EventsType, AccountsType

LEMMA Phased == /\ {"off", "load", "create", "write", "identified", "registering",
                    "policy", "validate", "reader", "serve", "running",
                    "closing"} \subseteq Phases
<1>1. /\ DOMAIN PhaseSeq = 1 .. 11
      /\ PhaseSeq[1] = "load" /\ PhaseSeq[2] = "create" /\ PhaseSeq[3] = "write"
      /\ PhaseSeq[4] = "identified" /\ PhaseSeq[5] = "registering"
      /\ PhaseSeq[6] = "policy" /\ PhaseSeq[7] = "validate"
      /\ PhaseSeq[8] = "reader" /\ PhaseSeq[9] = "serve"
      /\ PhaseSeq[10] = "running" /\ PhaseSeq[11] = "closing"
  BY DEF PhaseSeq
<1> QED
  BY <1>1 DEF Phases

LEMMA OnwardType ==
  ASSUME TypeOK, NEW a \in Instance, Onward(a)
  PROVE  TypeOK'
<1>1. UNCHANGED <<nodeID, file, disk, generated, overlapped, forgotten>>
  BY DEF Onward, Start, Register, RegisterReturns, LoadPolicy, ValidateParam,
         AttachTracepoint, NewReader, Serve, Signal, identityVars
<1>2. IdentityTypeOK'
  BY <1>1 DEF TypeOK, IdentityTypeOK
<1>3. pc' \in [Instance -> Phases]
  BY Phased DEF TypeOK, Onward, Start, Register, RegisterReturns, LoadPolicy,
     ValidateParam, AttachTracepoint, NewReader, Serve, Signal, identityVars, Goto
<1>4. \A b \in Instance : pc'[b] \notin {"off", "load"} => nodeID'[b] \in NodeID
  BY <1>1 DEF TypeOK, Onward, Start, Register, RegisterReturns, LoadPolicy,
     ValidateParam, AttachTracepoint, NewReader, Serve, Signal, identityVars, Goto
<1>5. starts' \in [Instance -> Nat]
  <2>1. CASE Start(a)
    BY <2>1 DEF TypeOK, Start
  <2>2. CASE ~Start(a)
    BY <2>2 DEF TypeOK, Onward, Register, RegisterReturns, LoadPolicy,
       ValidateParam, AttachTracepoint, NewReader, Serve, Signal
  <2> QED
    BY <2>1, <2>2
<1>6. UNCHANGED <<opens, unclosed>>
  BY DEF Onward, Start, Register, RegisterReturns, LoadPolicy,
     ValidateParam, AttachTracepoint, NewReader, Serve, Signal, fileVars
<1>7. beat' \in [Instance -> {"none", "waiting", "sending"}]
  <2>1. CASE Serve(a)
    BY <2>1 DEF TypeOK, Serve
  <2>2. CASE ~Serve(a)
    BY <2>2 DEF TypeOK, Onward, Start, Register, RegisterReturns, LoadPolicy,
       ValidateParam, AttachTracepoint, NewReader, Signal, planeVars
  <2> QED
    BY <2>1, <2>2
<1>8. announced' \subseteq NodeID
  <2>1. CASE Register(a)
    <3>1. nodeID[a] \in NodeID
      BY <2>1 DEF TypeOK, Register
    <3> QED
      BY <2>1, <3>1 DEF TypeOK, Register
  <2>2. CASE ~Register(a)
    BY <2>2 DEF TypeOK, Onward, Start, RegisterReturns, LoadPolicy,
       ValidateParam, AttachTracepoint, NewReader, Serve, Signal, planeVars
  <2> QED
    BY <2>1, <2>2
<1>9. AccountsType'
  <2>1. AccountsType
    BY DEF TypeOK, AccountsType
  <2>2. CASE LoadPolicy(a)
    BY <2>1, <2>2 DEF AccountsType, LoadPolicy, accountVars
  <2>3. ASSUME NEW p \in Param, ValidateParam(a, p) PROVE AccountsType'
    BY <2>1, <2>3 DEF AccountsType, ValidateParam
  <2>4. CASE UNCHANGED <<unseen, todo, skipped, unheard, outrun>>
    BY <2>1, <2>4 DEF AccountsType
  <2> QED
    BY <2>2, <2>3, <2>4
    DEF Onward, Start, Register, RegisterReturns, AttachTracepoint, NewReader,
        Serve, Signal, monitorVars, accountVars
<1>10. EventsType'
  <2>1. CASE Signal(a)
    <3>1. /\ UNCHANGED <<heard, opens>>
          /\ \E queued \in SUBSET pending[a] :
                pending' = [pending EXCEPT ![a] = queued]
      BY <2>1 DEF Signal, fileVars
    <3> QED
      BY <3>1 DEF TypeOK, EventsType
  <2>2. CASE ~Signal(a)
    <3>1. UNCHANGED <<heard, pending, opens>>
      BY <2>2 DEF Onward, Start, Register, RegisterReturns, LoadPolicy,
         ValidateParam, AttachTracepoint, NewReader, Serve, monitorVars, eventVars,
         fileVars
    <3> QED
      BY <3>1 DEF TypeOK, EventsType
  <2> QED
    BY <2>1, <2>2
<1> QED
  BY <1>2, <1>3, <1>4, <1>5, <1>6, <1>7, <1>8, <1>9, <1>10
  DEF TypeOK, EventsType, AccountsType

LEMMA IdentifyType ==
  ASSUME TypeOK, NEW a \in Instance, Identify(a)
  PROVE  TypeOK'
<1>1. UNCHANGED <<starts, opens, unclosed, unseen, todo, heard, pending,
                  skipped, unheard, outrun, beat, announced>>
  BY DEF Identify, fileVars, monitorVars, eventVars, accountVars, planeVars
<1>2. /\ IdentityTypeOK /\ pc \in [Instance -> Phases]
      /\ \A b \in Instance : pc[b] \notin {"off", "load"} => nodeID[b] \in NodeID
  BY DEF TypeOK
<1>3. ASSUME NEW read, LoadNodeID(a, read) PROVE TypeOK'
  <2>1. IdentityTypeOK'
    <3>1. UNCHANGED <<file, disk, forgotten>> /\ overlapped' \in BOOLEAN
      BY <1>3, <1>2 DEF IdentityTypeOK, LoadNodeID
    <3>2. generated' \in Nat /\ nodeID' \in [Instance -> NodeID \cup {NoID}]
      BY <1>3, <1>2 DEF IdentityTypeOK, LoadNodeID, NodeID, FreshID
    <3> QED
      BY <1>2, <3>1, <3>2 DEF IdentityTypeOK
  <2>2. pc' \in [Instance -> Phases]
    BY <1>3, <1>2, Phased DEF LoadNodeID, Goto
  <2>3. \A b \in Instance : pc'[b] \notin {"off", "load"} => nodeID'[b] \in NodeID
    BY <1>3, <1>2 DEF IdentityTypeOK, LoadNodeID, Goto, NodeID, FreshID
  <2> QED
    BY <1>1, <2>1, <2>2, <2>3 DEF TypeOK
<1>4. CASE TruncateFile(a) \/ WriteNodeID(a)
  <2>1. IdentityTypeOK' /\ pc' \in [Instance -> Phases]
    BY <1>4, <1>2, Phased
    DEF IdentityTypeOK, TruncateFile, WriteNodeID, Goto
  <2>2. \A b \in Instance : pc'[b] \notin {"off", "load"} => nodeID'[b] \in NodeID
    BY <1>4, <1>2 DEF TruncateFile, WriteNodeID, Goto
  <2> QED
    BY <1>1, <2>1, <2>2 DEF TypeOK
<1> QED
  BY <1>3, <1>4 DEF Identify

LEMMA HeartbeatType ==
  ASSUME TypeOK, NEW a \in Instance, HeartbeatStep(a)
  PROVE  TypeOK'
<1>1. UNCHANGED <<identityVars, starts, fileVars, monitorVars>>
  BY DEF HeartbeatStep, SendHeartbeat, HeartbeatReturns, StopHeartbeats
<1>2. beat' \in [Instance -> {"none", "waiting", "sending"}]
  BY DEF TypeOK, HeartbeatStep, SendHeartbeat, HeartbeatReturns, StopHeartbeats,
         BeatAfter
<1>3. announced' \subseteq NodeID
  BY DEF TypeOK, HeartbeatStep, SendHeartbeat, HeartbeatReturns, StopHeartbeats
<1> QED
  BY <1>1, <1>2, <1>3 DEF TypeOK, IdentityTypeOK, identityVars, fileVars,
     monitorVars, eventVars, accountVars

LEMMA ExamineType ==
  ASSUME TypeOK, NEW a \in Instance, NEW n \in DOMAIN opens, Examine(a, n)
  PROVE  TypeOK'
<1>1. UNCHANGED <<identityVars, starts, opens, unclosed, todo, heard, planeVars>>
  BY DEF Examine, fileVars
<1>2. AccountsType'
  <2>1. opens[n] \in Param
    BY DEF TypeOK
  <2>2. AccountsType
    BY DEF TypeOK, AccountsType
  <2> QED
    BY <2>1, <2>2, <1>1 DEF AccountsType, Examine
<1>3. EventsType'
  BY <1>1 DEF TypeOK, EventsType, Examine
<1> QED
  BY <1>1, <1>2, <1>3 DEF TypeOK, IdentityTypeOK, identityVars, planeVars,
     EventsType, AccountsType

\* An open numbers the next event, and leaves the earlier ones alone.
LEMMA Opened ==
  ASSUME TypeOK, NEW p \in Param, OpenParam(p)
  PROVE  /\ opens' \in Seq(Param)
         /\ DOMAIN opens' = DOMAIN opens \cup {Len(opens) + 1}
         /\ \A n \in DOMAIN opens : opens'[n] = opens[n]
         /\ \A a \in Instance : pending[a] \subseteq pending'[a]
<1>1. opens \in Seq(Param) /\ opens' = Append(opens, p)
  BY DEF TypeOK, OpenParam
<1> QED
  BY <1>1 DEF OpenParam

LEMMA OpenType ==
  ASSUME TypeOK, NEW p \in Param, OpenParam(p)
  PROVE  TypeOK'
<1>1. UNCHANGED <<identityVars, starts, unseen, todo, skipped, unheard, outrun,
                  planeVars>>
  BY DEF OpenParam, accountVars
<1>2. OpensType'
  <2>1. Len(opens') = Len(opens) + 1 /\ Len(opens) \in Nat
    BY DEF TypeOK, OpenParam
  <2> QED
    BY <2>1, Opened, LifecycleAssumption DEF TypeOK, OpenParam, OpensType
<1>3. EventsType'
  <2>1. PICK told \in SUBSET {a \in Instance : Watching(a)} :
          /\ heard' = [a \in Instance |->
                         heard[a] \cup IF a \in told THEN {Len(opens) + 1} ELSE {}]
          /\ pending' = [a \in Instance |->
                           pending[a] \cup IF a \in told THEN {Len(opens) + 1} ELSE {}]
    BY DEF OpenParam
  <2>2. \A a \in Instance : heard[a] \subseteq DOMAIN opens
                            /\ pending[a] \subseteq heard[a]
    BY DEF TypeOK
  <2> QED
    BY <2>1, <2>2, Opened DEF EventsType
<1> QED
  BY <1>1, <1>2, <1>3 DEF TypeOK, IdentityTypeOK, identityVars, planeVars,
     OpensType, EventsType

LEMMA StoreType ==
  ASSUME TypeOK, NEW n \in DOMAIN opens, StoreParam(n) \/ CloseParam(n)
  PROVE  TypeOK'
<1>1. UNCHANGED <<identityVars, starts, opens, todo, heard, pending, planeVars>>
      /\ unclosed' \subseteq unclosed
  BY DEF StoreParam, CloseParam, fileVars, eventVars, monitorVars
<1>2. AccountsType'
  <2>1. opens[n] \in Param
    BY DEF TypeOK
  <2>2. CASE StoreParam(n)
    BY <2>1, <2>2, <1>1 DEF StoreParam, Marked, TypeOK, AccountsType
  <2>3. CASE CloseParam(n)
    BY <2>3 DEF CloseParam, monitorVars, accountVars, TypeOK, AccountsType
  <2> QED
    BY <2>2, <2>3
<1> QED
  BY <1>1, <1>2 DEF TypeOK, IdentityTypeOK, identityVars, planeVars, AccountsType

LEMMA AsideType ==
  ASSUME TypeOK, Aside
  PROVE  TypeOK'
BY HeartbeatType, ExamineType, OpenType, StoreType DEF Aside

LEMMA GoneType ==
  ASSUME TypeOK, GoneStep
  PROVE  TypeOK'
<1>1. PICK A \in SUBSET Instance : Gone(A)
  BY DEF GoneStep, Exit, Die, PowerLoss
<1>2. IdentityTypeOK'
  <2>1. nodeID' \in [Instance -> NodeID \cup {NoID}]
    BY <1>1 DEF TypeOK, IdentityTypeOK, Gone
  <2>2. UNCHANGED <<disk, generated, overlapped>> /\ file' \in {file, disk}
    BY DEF GoneStep, Exit, Die, PowerLoss, LoseCache
  <2>3. forgotten' \in BOOLEAN
    BY DEF TypeOK, IdentityTypeOK, GoneStep, Exit, Die, PowerLoss, LoseCache
  <2> QED
    BY <2>1, <2>2, <2>3 DEF TypeOK, IdentityTypeOK
<1>3. /\ pc' \in [Instance -> Phases]
      /\ \A b \in Instance : pc'[b] \notin {"off", "load"} => nodeID'[b] \in NodeID
  BY <1>1, Phased DEF TypeOK, Gone
<1>4. /\ {todo, skipped, unheard, outrun}' \subseteq [Instance -> SUBSET Param]
      /\ {heard, pending}' \subseteq [Instance -> SUBSET DOMAIN opens]
      /\ \A a \in Instance : pending'[a] \subseteq heard'[a]
  BY <1>1 DEF TypeOK, Gone, Forget
<1>5. beat' \in [Instance -> {"none", "waiting", "sending"}]
  BY <1>1 DEF TypeOK, Gone
<1>6. /\ UNCHANGED <<starts, opens, announced>>
      /\ unclosed' \subseteq unclosed /\ unseen' \subseteq Param
  BY DEF TypeOK, GoneStep, Exit, Die, PowerLoss, fileVars
<1> QED
  BY <1>2, <1>3, <1>4, <1>5, <1>6 DEF TypeOK

\* Every variable keeps its type, and whoever is past the load has an identity.
THEOREM TypeCorrect == Spec => []TypeOK
<1>1. TypeOK /\ [Next]_vars => TypeOK'
  <2> SUFFICES ASSUME TypeOK, [Next]_vars PROVE TypeOK'
    OBVIOUS
  <2>1. CASE DiskStep
    BY <2>1 DEF DiskStep, WriteBack, fileVars, monitorVars, eventVars, accountVars,
                planeVars, TypeOK, IdentityTypeOK
  <2>2. CASE UNCHANGED vars
    BY <2>2 DEF vars, identityVars, fileVars, monitorVars, eventVars, accountVars,
                planeVars, TypeOK, IdentityTypeOK
  <2> QED
    BY <2>1, <2>2, Steps, OnwardType, IdentifyType, AsideType, GoneType
<1> QED
  BY InitType, <1>1, PTL DEF Spec

-----------------------------------------------------------------------------
(* One identity. *)

\* Steps that leave the file, the disk and the creation of identities alone,
\* and announce nothing but what an identified instance holds.
LEMMA IdentityFrame ==
  ASSUME TypeOK, IdentityInv,
         UNCHANGED <<file, disk, overlapped, forgotten>>,
         \A a \in Instance : Creating(a)' => Creating(a),
         \A a \in Instance : pc'[a] \notin {"off", "load"} =>
            nodeID'[a] = nodeID[a] /\ pc[a] \notin {"off", "load"},
         \A a \in Instance : Creating(a) => Creating(a)' \/ pc'[a] = "off",
         \/ announced' = announced
         \/ \E a \in Instance : /\ pc[a] \notin {"off", "load"} /\ ~Creating(a)
                                /\ announced' = announced \cup {nodeID[a]}
  PROVE  IdentityInv'
<1> SUFFICES ASSUME ~overlapped, ~forgotten PROVE IdentityInv'
  BY DEF IdentityInv
<1>1. announced' \subseteq {file}
  BY DEF IdentityInv
<1>2. \A a \in Instance :
         pc'[a] \notin {"off", "load"} /\ ~Creating(a)' => nodeID'[a] = file
  BY DEF IdentityInv
<1>3. /\ \A a, b \in Instance : Creating(a)' /\ Creating(b)' => a = b
      /\ \A a \in Instance : Creating(a)' => file \notin NodeID
  BY DEF IdentityInv
<1> QED
  BY <1>1, <1>2, <1>3 DEF IdentityInv

LEMMA OnwardIdentity ==
  ASSUME TypeOK, IdentityInv, NEW a \in Instance, Onward(a)
  PROVE  IdentityInv'
<1>1. UNCHANGED <<nodeID, file, disk, overlapped, forgotten>>
  BY DEF Onward, Start, Register, RegisterReturns, LoadPolicy, ValidateParam,
         AttachTracepoint, NewReader, Serve, Signal, identityVars
<1>2. /\ \A b \in Instance \ {a} : pc'[b] = pc[b]
      /\ ~Creating(a) /\ ~Creating(a)'
      /\ pc'[a] # "load" => pc[a] \notin {"off", "load"}
  BY DEF TypeOK, Onward, Start, Register, RegisterReturns, LoadPolicy,
     ValidateParam, AttachTracepoint, NewReader, Serve, Signal, identityVars,
     Goto, Creating
<1>3. \/ announced' = announced
      \/ /\ pc[a] = "identified"
         /\ announced' = announced \cup {nodeID[a]}
  BY DEF Onward, Start, Register, RegisterReturns, LoadPolicy, ValidateParam,
         AttachTracepoint, NewReader, Serve, Signal, planeVars
<1>4. \A b \in Instance : /\ Creating(b)' <=> Creating(b)
                          /\ pc'[b] \notin {"off", "load"} =>
                                pc[b] \notin {"off", "load"}
  BY <1>2 DEF Creating
<1> QED
  BY <1>1, <1>2, <1>3, <1>4, IdentityFrame

LEMMA IdentifyIdentity ==
  ASSUME TypeOK, IdentityInv, NEW a \in Instance, Identify(a)
  PROVE  IdentityInv'
<1> SUFFICES ASSUME ~overlapped', ~forgotten' PROVE IdentityInv'
  BY DEF IdentityInv
<1>1. UNCHANGED announced
  BY DEF Identify, planeVars
<1>2. ASSUME NEW read, read = file \/ read = Unreadable, LoadNodeID(a, read)
      PROVE  IdentityInv'
  <2>1. /\ ~overlapped /\ ~forgotten
        /\ UNCHANGED <<file, disk>>
        /\ \A b \in Instance \ {a} : pc'[b] = pc[b] /\ nodeID'[b] = nodeID[b]
    BY <1>2 DEF LoadNodeID, TypeOK, IdentityTypeOK, Goto
  <2>2. CASE NoIdentity(read) /\ pc'[a] = "create"
    <3>1. \A b \in Instance \ {a} : ~Creating(b)
      <4>1. overlapped' = (overlapped \/ \E b \in Instance \ {a} : Creating(b))
        BY <1>2, <2>2 DEF LoadNodeID, Goto, TypeOK
      <4> QED
        BY <4>1
    <3>2. file \notin NodeID
      BY <1>2, <2>2, IdentityAssumption DEF NoIdentity, NodeID
    <3> QED
      BY <1>1, <2>1, <2>2, <3>1, <3>2 DEF IdentityInv, Creating
  <2>3. CASE read \in NodeID /\ pc'[a] = "identified" /\ nodeID'[a] = read
    <3>1. read = file
      BY <1>2, <2>3, IdentityAssumption DEF NodeID
    <3> QED
      BY <1>1, <2>1, <2>3, <3>1 DEF IdentityInv, Creating
  <2> QED
    BY <1>2, <2>2, <2>3 DEF LoadNodeID, TypeOK, IdentityTypeOK, Goto
<1>3. CASE TruncateFile(a)
  <2>1. /\ ~overlapped /\ ~forgotten /\ UNCHANGED <<nodeID, disk>>
        /\ file' = Blank /\ file' \notin NodeID
        /\ Creating(a)
        /\ \A b \in Instance : Creating(b)' <=> Creating(b)
        /\ \A b \in Instance : pc'[b] \notin {"off", "load"} /\ ~Creating(b)' =>
              pc'[b] = pc[b]
    BY <1>3, IdentityAssumption DEF TruncateFile, TypeOK, Goto, Creating, NodeID
  <2>2. file \notin NodeID
    BY <2>1 DEF IdentityInv
  <2>3. disk \notin NodeID /\ announced = {}
    BY <2>1, <2>2 DEF IdentityInv, TypeOK
  <2>4. \A b \in Instance : pc'[b] \notin {"off", "load"} => Creating(b)'
    BY <2>1, <2>2 DEF IdentityInv, TypeOK
  <2> QED
    BY <1>1, <2>1, <2>3, <2>4 DEF IdentityInv
<1>4. CASE WriteNodeID(a)
  <2>1. /\ ~overlapped /\ ~forgotten /\ UNCHANGED <<nodeID, disk>>
        /\ file' = nodeID[a] /\ nodeID[a] \in NodeID
        /\ Creating(a)
        /\ pc'[a] = "identified"
        /\ \A b \in Instance \ {a} : pc'[b] = pc[b]
    BY <1>4 DEF WriteNodeID, TypeOK, Goto, Creating
  <2>2. file \notin NodeID
    BY <2>1 DEF IdentityInv
  <2>3. disk \notin NodeID /\ announced = {}
    BY <2>1, <2>2 DEF IdentityInv, TypeOK
  <2>4. \A b \in Instance \ {a} : ~Creating(b)
    BY <2>1 DEF IdentityInv
  <2>5. \A b \in Instance \ {a} : pc[b] \in {"off", "load"}
    BY <2>1, <2>2, <2>4 DEF IdentityInv, TypeOK
  <2> QED
    BY <1>1, <2>1, <2>3, <2>4, <2>5 DEF IdentityInv, Creating
<1> QED
  BY <1>2, <1>3, <1>4 DEF Identify

LEMMA AsideIdentity ==
  ASSUME TypeOK, IdentityInv, Aside
  PROVE  IdentityInv'
<1>1. UNCHANGED <<pc, nodeID, file, disk, overlapped, forgotten>>
  BY DEF Aside, HeartbeatStep, SendHeartbeat, HeartbeatReturns, StopHeartbeats,
         Examine, OpenParam, StoreParam, CloseParam, identityVars
<1>2. \/ announced' = announced
      \/ \E a \in Instance : /\ pc[a] = "running"
                             /\ announced' = announced \cup {nodeID[a]}
  BY DEF Aside, HeartbeatStep, SendHeartbeat, HeartbeatReturns, StopHeartbeats,
         Examine, OpenParam, StoreParam, CloseParam, planeVars
<1> QED
  BY <1>1, <1>2, IdentityFrame DEF Creating

LEMMA GoneIdentity ==
  ASSUME TypeOK, IdentityInv, GoneStep
  PROVE  IdentityInv'
<1> SUFFICES ASSUME ~overlapped', ~forgotten' PROVE IdentityInv'
  BY DEF IdentityInv
<1>1. CASE PowerLoss
  <2>1. \A a \in Instance : pc'[a] = "off"
    BY <1>1 DEF PowerLoss, Gone
  <2>2. ~overlapped /\ ~forgotten /\ file' = disk
        /\ UNCHANGED <<disk, announced>>
    BY <1>1 DEF PowerLoss, LoseCache
  <2>3. file \in NodeID => disk = file
    BY <1>1 DEF PowerLoss, LoseCache
  <2>4. announced \subseteq {file'}
    BY <2>2, <2>3 DEF IdentityInv, TypeOK
  <2> QED
    BY <2>1, <2>2, <2>4 DEF IdentityInv, Creating
<1>2. ASSUME NEW a \in Instance, Exit(a) \/ Die(a) PROVE IdentityInv'
  <2>1. /\ UNCHANGED <<file, disk, overlapped, forgotten, announced>>
        /\ pc'[a] = "off"
        /\ \A b \in Instance \ {a} : pc'[b] = pc[b] /\ nodeID'[b] = nodeID[b]
    BY <1>2 DEF Exit, Die, Gone
  <2> QED
    BY <2>1, IdentityFrame DEF Creating
<1> QED
  BY <1>1, <1>2 DEF GoneStep

LEMMA DiskIdentity ==
  ASSUME TypeOK, IdentityInv, DiskStep
  PROVE  IdentityInv'
BY DEF DiskStep, WriteBack, planeVars, IdentityInv, Creating

\* Unless two instances created the file at once, or the power failed before it
\* was on the disk, all the starts of all the instances, however they crash and
\* whatever fails, give the control plane one identity.
THEOREM OneIdentityHolds == Spec => []OneIdentity
<1>1. Init => IdentityInv
  <2> SUFFICES ASSUME Init PROVE IdentityInv
    OBVIOUS
  <2>1. disk \notin NodeID /\ announced = {}
        /\ \A a \in Instance : pc[a] = "off"
    BY IdentityAssumption DEF Init, IdentityInit, NodeID
  <2> QED
    BY <2>1 DEF IdentityInv, Creating
<1>2. TypeOK /\ IdentityInv /\ [Next]_vars => IdentityInv'
  <2> SUFFICES ASSUME TypeOK, IdentityInv, [Next]_vars PROVE IdentityInv'
    OBVIOUS
  <2>1. CASE UNCHANGED vars
    BY <2>1 DEF vars, identityVars, planeVars, IdentityInv, Creating
  <2> QED
    BY <2>1, Steps, OnwardIdentity, IdentifyIdentity, AsideIdentity,
       GoneIdentity, DiskIdentity
<1>3. IdentityInv => OneIdentity
  BY DEF IdentityInv, OneIdentity
<1> QED
  BY <1>1, <1>2, <1>3, TypeCorrect, PTL DEF Spec

-----------------------------------------------------------------------------
(* Drifts that nobody has compared. *)

LEMMA AccountOnward ==
  ASSUME TypeOK, AccountInv, NEW a \in Instance, Onward(a)
  PROVE  AccountInv'
<1>1. CASE \/ Start(a) \/ Register(a) \/ RegisterReturns(a)
           \/ NewReader(a) \/ Serve(a)
  <2>1. /\ \A b \in Instance \ {a} : pc'[b] = pc[b]
        /\ pc'[a] \in {"reader", "serve", "running"} =>
              pc[a] \in {"reader", "serve", "running"}
        /\ pc'[a] # "validate"
        /\ UNCHANGED <<opens, unseen, todo, pending, skipped, unheard, outrun>>
    BY <1>1 DEF TypeOK, Start, Register, RegisterReturns, NewReader, Serve, Goto,
                fileVars, monitorVars, eventVars, accountVars
  <2>2. \A b \in Instance : Excused(b)' = Excused(b)
    BY <2>1 DEF Excused, Awaited
  <2> QED
    BY <2>1, <2>2 DEF AccountInv
<1>2. CASE AttachTracepoint(a)
  <2>1. /\ \A b \in Instance \ {a} : pc'[b] = pc[b]
        /\ pc[a] = "validate" /\ todo[a] = {} /\ pc'[a] = "reader"
        /\ UNCHANGED <<opens, unseen, todo, pending, skipped, unheard, outrun>>
    BY <1>2 DEF AttachTracepoint, TypeOK, Goto, fileVars, monitorVars, eventVars,
                accountVars
  <2>2. \A b \in Instance : Excused(b)' = Excused(b)
    BY <2>1 DEF Excused, Awaited
  <2> QED
    BY <2>1, <2>2 DEF AccountInv
<1>3. CASE LoadPolicy(a)
  <2>1. /\ \A b \in Instance \ {a} : pc'[b] = pc[b] /\ todo'[b] = todo[b]
        /\ pc'[a] = "validate" /\ todo'[a] = Param
        /\ UNCHANGED <<opens, unseen, pending, skipped, unheard, outrun>>
    BY <1>3 DEF LoadPolicy, TypeOK, Goto, fileVars, eventVars, accountVars
  <2>2. /\ \A b \in Instance : Excused(b)' = Excused(b)
        /\ unseen \subseteq Param
    BY <2>1 DEF Excused, Awaited, TypeOK
  <2> QED
    BY <2>1, <2>2 DEF AccountInv
<1>4. ASSUME NEW p \in Param, ValidateParam(a, p) PROVE AccountInv'
  <2>1. /\ UNCHANGED <<pc, opens, pending, unheard, outrun>>
        /\ pc[a] = "validate"
        /\ \A b \in Instance \ {a} : todo'[b] = todo[b] /\ skipped'[b] = skipped[b]
        /\ todo'[a] = todo[a] \ {p}
    BY <1>4 DEF ValidateParam, TypeOK, identityVars, fileVars, eventVars
  <2>2. \/ unseen' = unseen /\ skipped'[a] = skipped[a] \cup {p}
        \/ unseen' = unseen \ {p} /\ skipped'[a] = skipped[a]
    BY <1>4 DEF ValidateParam, TypeOK
  <2>3. /\ \A b \in Instance : Excused(b) \subseteq Excused(b)'
        /\ skipped'[a] \subseteq Excused(a)'
    BY <2>1, <2>2 DEF Excused, Awaited
  <2> QED
    BY <2>1, <2>2, <2>3 DEF AccountInv
<1>5. CASE Signal(a)
  <2>1. /\ \A b \in Instance \ {a} : pc'[b] = pc[b] /\ pending'[b] = pending[b]
        /\ pc'[a] = "closing"
        /\ UNCHANGED <<opens, unseen, todo, skipped, unheard, outrun>>
    BY <1>5 DEF Signal, TypeOK, Goto, fileVars, accountVars
  <2>2. \A b \in Instance \ {a} : Excused(b)' = Excused(b)
    BY <2>1 DEF Excused, Awaited
  <2> QED
    BY <2>1, <2>2 DEF AccountInv
<1> QED
  BY <1>1, <1>2, <1>3, <1>4, <1>5
  DEF Onward

LEMMA AccountIdentify ==
  ASSUME TypeOK, AccountInv, NEW a \in Instance, Identify(a)
  PROVE  AccountInv'
<1>1. /\ \A b \in Instance \ {a} : pc'[b] = pc[b]
      /\ pc'[a] \in {"create", "write", "identified"}
      /\ UNCHANGED <<opens, unseen, todo, pending, skipped, unheard, outrun>>
  BY DEF Identify, LoadNodeID, TruncateFile, WriteNodeID, TypeOK, Goto,
     fileVars, monitorVars, eventVars, accountVars
<1>2. \A b \in Instance : Excused(b)' = Excused(b)
  BY <1>1 DEF Excused, Awaited
<1> QED
  BY <1>1, <1>2 DEF AccountInv

LEMMA AccountOpen ==
  ASSUME TypeOK, AccountInv, NEW p \in Param, OpenParam(p)
  PROVE  AccountInv'
<1>1. UNCHANGED <<pc, unseen, todo, skipped, unheard, outrun>>
  BY DEF OpenParam, identityVars, accountVars
<1>2. \A a \in Instance : Awaited(a) \subseteq Awaited(a)'
  BY Opened DEF Awaited, TypeOK
<1>3. \A a \in Instance : Excused(a) \subseteq Excused(a)'
  BY <1>1, <1>2 DEF Excused
<1> QED
  BY <1>1, <1>3 DEF AccountInv

LEMMA AccountStore ==
  ASSUME TypeOK, AccountInv, NEW n \in DOMAIN opens, StoreParam(n)
  PROVE  AccountInv'
<1> DEFINE p == opens[n]
<1>1. UNCHANGED <<pc, opens, pending, todo>> /\ unseen' \subseteq unseen \cup {p}
  BY DEF StoreParam, identityVars, fileVars, eventVars
<1> SUFFICES ASSUME NEW a \in Instance,
                    pc[a] \in {"validate", "reader", "serve", "running"}
             PROVE  unseen' \subseteq todo[a] \cup Excused(a)'
  BY <1>1 DEF AccountInv
<1>2. Awaited(a)' = Awaited(a)
  BY <1>1 DEF Awaited
<1>3. Excused(a) \ {p} \subseteq Excused(a)'
  BY <1>2 DEF Excused, StoreParam, Marked
<1>4. p \in todo[a] \cup Excused(a)'
  <2>1. CASE p \in todo[a] \/ p \in Awaited(a)
    BY <2>1, <1>2 DEF Excused
  <2>2. CASE p \notin todo[a] /\ p \notin Awaited(a)
    <3>1. Past(a, p)
      BY <2>2 DEF Past, Watching
    <3>2. CASE n \in heard[a]
      BY <3>1, <3>2 DEF Excused, StoreParam, Marked
    <3>3. CASE n \notin heard[a]
      BY <3>1, <3>3 DEF Excused, StoreParam, Marked
    <3> QED
      BY <3>2, <3>3
  <2> QED
    BY <2>1, <2>2
<1>5. unseen \subseteq todo[a] \cup Excused(a)
  BY DEF AccountInv
<1> QED
  BY <1>1, <1>3, <1>4, <1>5

LEMMA AccountExamine ==
  ASSUME TypeOK, AccountInv, NEW a \in Instance, NEW n \in DOMAIN opens,
         Examine(a, n)
  PROVE  AccountInv'
<1> DEFINE p == opens[n]
<1>1. UNCHANGED <<pc, opens, todo>>
  BY DEF Examine, identityVars, fileVars
<1>2. /\ pending'[a] = pending[a] \ {n}
      /\ \A b \in Instance \ {a} : pending'[b] = pending[b]
      /\ \A b \in Instance : /\ unheard[b] \ {p} \subseteq unheard'[b]
                             /\ outrun[b] \ {p} \subseteq outrun'[b]
                             /\ skipped[b] \ {p} \subseteq skipped'[b]
      /\ \A b \in Instance \ {a} : unheard'[b] = unheard[b] /\ outrun'[b] = outrun[b]
  BY DEF Examine, TypeOK
<1>3. \A b \in Instance : Awaited(b) \ {p} \subseteq Awaited(b)'
  BY <1>1, <1>2 DEF Awaited
<1>4. \A b \in Instance : Excused(b) \ {p} \subseteq Excused(b)'
  BY <1>2, <1>3 DEF Excused
<1>5. CASE unseen' = unseen \ {p}
  BY <1>1, <1>4, <1>5 DEF AccountInv
<1>6. CASE unseen' # unseen \ {p}
  <2>1. unseen' = unseen /\ skipped' = [skipped EXCEPT ![a] = @ \cup {p}]
    BY <1>6 DEF Examine
  <2>2. p \in Excused(a)'
    BY <2>1 DEF Excused, TypeOK
  <2>3. \A b \in Instance \ {a} : Excused(b)' = Excused(b)
    BY <1>1, <1>2, <2>1 DEF Excused, Awaited, TypeOK
  <2> QED
    BY <1>1, <1>4, <2>1, <2>2, <2>3 DEF AccountInv
<1> QED
  BY <1>5, <1>6

LEMMA AccountGone ==
  ASSUME TypeOK, AccountInv, GoneStep
  PROVE  AccountInv'
<1>1. CASE PowerLoss
  BY <1>1 DEF PowerLoss, Gone, AccountInv
<1>2. ASSUME NEW a \in Instance, Exit(a) \/ Die(a) PROVE AccountInv'
  <2>1. /\ pc'[a] = "off" /\ unseen' = unseen /\ opens' = opens
        /\ \A b \in Instance \ {a} :
              /\ pc'[b] = pc[b] /\ todo'[b] = todo[b] /\ pending'[b] = pending[b]
              /\ skipped'[b] = skipped[b] /\ unheard'[b] = unheard[b]
              /\ outrun'[b] = outrun[b]
    BY <1>2 DEF Exit, Die, Gone, Forget, fileVars
  <2>2. \A b \in Instance \ {a} : Excused(b)' = Excused(b)
    BY <2>1 DEF Excused, Awaited
  <2> QED
    BY <2>1, <2>2 DEF AccountInv
<1> QED
  BY <1>1, <1>2 DEF GoneStep

\* However many agents start, crash and restart while processes open files and
\* store by them, what one that monitors has not compared has an event on its
\* way, was not comparable, or was stored after the validation by an open that
\* the agent was not told of or had already examined.
THEOREM MissedAreUnheardOrOutrun == Spec => []MissedOnlyUnheardOrOutrun
<1>1. Init => AccountInv
  BY DEF Init, IdentityInit, AccountInv
<1>2. TypeOK /\ AccountInv /\ [Next]_vars => AccountInv'
  <2> SUFFICES ASSUME TypeOK, AccountInv, [Next]_vars PROVE AccountInv'
    OBVIOUS
  <2>1. CASE UNCHANGED <<pc, opens, monitorVars>>
    <3>1. /\ UNCHANGED <<pc, opens, unseen, todo, pending, skipped, unheard, outrun>>
      BY <2>1 DEF monitorVars, eventVars, accountVars
    <3>2. \A b \in Instance : Excused(b)' = Excused(b)
      BY <3>1 DEF Excused, Awaited
    <3> QED
      BY <3>1, <3>2 DEF AccountInv
  <2>2. CASE Aside
    <3>1. ASSUME NEW a \in Instance, HeartbeatStep(a) PROVE AccountInv'
      BY <2>1, <3>1 DEF HeartbeatStep, SendHeartbeat, HeartbeatReturns,
         StopHeartbeats, identityVars, fileVars
    <3>2. ASSUME NEW n \in DOMAIN opens, CloseParam(n) PROVE AccountInv'
      BY <2>1, <3>2 DEF CloseParam, identityVars
    <3> QED
      BY <2>2, <3>1, <3>2, AccountExamine, AccountOpen, AccountStore DEF Aside
  <2>3. CASE DiskStep \/ UNCHANGED vars
    BY <2>1, <2>3 DEF DiskStep, WriteBack, vars, identityVars, fileVars
  <2> QED
    BY <2>2, <2>3, Steps, AccountOnward, AccountIdentify, AccountGone
<1>3. AccountInv => MissedOnlyUnheardOrOutrun
  BY DEF AccountInv, MissedOnlyUnheardOrOutrun, Watching
<1> QED
  BY <1>1, <1>2, <1>3, TypeCorrect, PTL DEF Spec

=============================================================================
