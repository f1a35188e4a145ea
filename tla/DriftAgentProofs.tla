--------------------------- MODULE DriftAgentProofs ---------------------------
(***************************************************************************)
(* The agent at work, for any number of workers, parameters and processes: *)
(* types, the pacing of each worker, the bound on attempts, what follows   *)
(* for the remediations of all workers together, that each is licensed by  *)
(* the policy, and what an agent that has exited leaves behind.            *)
(***************************************************************************)
EXTENDS DriftAgent, FiniteSetTheorems, TLAPS

LEMMA CooldownIsNat == \A p \in Baseline : CooldownOf(p) \in Nat
BY WorkerPoolAssumption DEF CooldownOf

LEMMA DecisionIsAction ==
  ASSUME NEW ctx, NEW entry, NEW global
  PROVE  EvaluateDecision(ctx, entry, global).action \in Actions
<1>1. \A score : ThresholdAction(score, global) \in Actions
  BY DEF ThresholdAction, Actions
<1> QED
  BY <1>1 DEF EvaluateDecision, Actions

LEMMA TraceType ==
  ASSUME ring \in [CPU -> Seq(Event)], lost \in BOOLEAN,
         \A c \in CPU : Len(ring[c]) <= RingSize,
         NEW e \in Event, TraceOpenat(e)
  PROVE  /\ ring' \in [CPU -> Seq(Event)]
         /\ \A c \in CPU : Len(ring'[c]) <= RingSize
         /\ lost' \in BOOLEAN
<1>1. CASE UNCHANGED <<ring, lost>>
  BY <1>1
<1>2. CASE \E c \in CPU : /\ Len(ring[c]) < RingSize
                          /\ ring' = [ring EXCEPT ![c] = Append(@, e)]
                          /\ UNCHANGED lost
  <2>1. PICK c \in CPU : /\ Len(ring[c]) < RingSize
                         /\ ring' = [ring EXCEPT ![c] = Append(@, e)]
                         /\ UNCHANGED lost
    BY <1>2
  <2>2. /\ Append(ring[c], e) \in Seq(Event)
        /\ Len(Append(ring[c], e)) = Len(ring[c]) + 1
        /\ Len(ring[c]) \in Nat
    OBVIOUS
  <2> QED
    BY <2>1, <2>2, KernelAssumption
<1>3. CASE lost' = TRUE /\ UNCHANGED ring
  BY <1>3
<1> QED
  BY <1>1, <1>2, <1>3 DEF TraceOpenat

LEMMA KernelEvents ==
  /\ \A q \in Process, f \in Path :
       /\ [process |-> q, access |-> "WRITE", path |-> f] \in Event
       /\ [process |-> q, access |-> "READ", path |-> f] \in Event
  /\ \A p \in Baseline :
       /\ [process |-> Child, access |-> "WRITE", path |-> ProcPath[p]] \in Event
       /\ [process |-> Agent, access |-> "READ", path |-> ProcPath[p]] \in Event
BY KernelAssumption, WorkerPoolAssumption DEF Event, Source, Baseline

LEMMA InitType == Init => TypeOK
<1> SUFFICES ASSUME Init PROVE TypeOK
  OBVIOUS
<1>1. KernelTypeOK
  <2>1. ring \in [CPU -> Seq(Event)] /\ \A c \in CPU : Len(ring[c]) <= RingSize
    BY KernelAssumption DEF Init, KernelInit
  <2>2. current \in [Param -> Value] /\ opens \in 0..MaxOpens
    BY KernelAssumption DEF Init, KernelInit
  <2> QED
    BY <2>1, <2>2 DEF Init, KernelInit, KernelTypeOK
<1>2. \A w \in Worker : JobOK(w)
  BY DEF Init, PoolInit, JobOK, NoJob, Drifting
<1>3. MainOK
  BY DEF Init, PoolInit, MainOK, NoEvent
<1> QED
  BY <1>1, <1>2, <1>3, WorkerPoolAssumption
  DEF Init, PoolInit, TypeOK, NewCooldownManager, NewConflictManager, Steps, Stamp

\* One worker's step keeps the shape of its own job and touches no other's.
LEMMA OtherJobs ==
  ASSUME pc \in [Worker -> Steps], DOMAIN job = Worker,
         \A v \in Worker : JobOK(v),
         NEW w \in Worker, NEW step \in Steps, NEW j,
         pc' = [pc EXCEPT ![w] = step], job' = [job EXCEPT ![w] = j],
         \/ step \in {"idle", "stopped"} /\ j = NoJob
         \/ step \in {"read", "decide"} /\ j \in TakenJob
         \/ step \in Drifting /\ j \in Job
  PROVE  /\ pc' \in [Worker -> Steps]
         /\ DOMAIN job' = Worker
         /\ \A v \in Worker : JobOK(v)'
<1>1. /\ pc' \in [Worker -> Steps]
      /\ DOMAIN job' = Worker
  OBVIOUS
<1>2. ASSUME NEW v \in Worker PROVE JobOK(v)'
  <2>1. CASE v = w
    <3>1. pc'[v] = step /\ job'[v] = j
      BY <2>1
    <3> QED
      BY <3>1 DEF JobOK, Drifting
  <2>2. CASE v # w
    <3>1. pc'[v] = pc[v] /\ job'[v] = job[v]
      BY <2>2
    <3> QED
      BY <3>1 DEF JobOK
  <2> QED
    BY <2>1, <2>2
<1> QED
  BY <1>1, <1>2

LEMMA KernelStepType == TypeOK /\ KernelStep => TypeOK'
<1> SUFFICES ASSUME TypeOK, KernelStep PROVE TypeOK'
  OBVIOUS
<1>1. KernelTypeOK'
  <2>0. PICK q \in Process : \/ \E f \in Path : OpenForWrite(q, f)
                             \/ \E f \in Path : OpenForRead(q, f)
                             \/ Write(q)
                             \/ Close(q)
    BY DEF KernelStep, Processes
  <2>1. ASSUME NEW f \in Path, OpenForWrite(q, f) PROVE KernelTypeOK'
    <3>1. /\ ring' \in [CPU -> Seq(Event)]
          /\ \A c \in CPU : Len(ring'[c]) <= RingSize
          /\ lost' \in BOOLEAN
      BY <2>1, TraceType, KernelEvents DEF OpenForWrite, TypeOK, KernelTypeOK
    <3> QED
      BY <2>1, <3>1, KernelAssumption DEF OpenForWrite, TypeOK, KernelTypeOK
  <2>2. ASSUME NEW f \in Path, OpenForRead(q, f) PROVE KernelTypeOK'
    <3>1. /\ ring' \in [CPU -> Seq(Event)]
          /\ \A c \in CPU : Len(ring'[c]) <= RingSize
          /\ lost' \in BOOLEAN
      BY <2>2, TraceType, KernelEvents DEF OpenForRead, TypeOK, KernelTypeOK
    <3> QED
      BY <2>2, <3>1, KernelAssumption DEF OpenForRead, TypeOK, KernelTypeOK
  <2>3. CASE Write(q)
    <3>1. PICK v \in Value : Store(Target[opening[q]], v)
      BY <2>3 DEF Write
    <3>2. Target[opening[q]] \in Param /\ q \in Source
      BY <2>3, KernelAssumption DEF Write, TypeOK, KernelTypeOK, Source
    <3> QED
      BY <2>3, <3>1, <3>2 DEF Write, Store, TypeOK, KernelTypeOK
  <2>4. CASE Close(q)
    BY <2>4 DEF Close, TypeOK, KernelTypeOK
  <2> QED
    BY <2>0, <2>1, <2>2, <2>3, <2>4
<1> QED
  BY <1>1 DEF KernelStep, poolVars, mainVars, TypeOK, JobOK, MainOK

LEMMA MainStepType == TypeOK /\ MainStep => TypeOK'
<1> SUFFICES ASSUME TypeOK, MainStep PROVE TypeOK'
  OBVIOUS
<1>1. CASE MainRead
  <2>1. PICK c \in CPU : /\ ring[c] # << >>
                         /\ held' = Head(ring[c])
                         /\ ring' = [ring EXCEPT ![c] = Tail(@)]
    BY <1>1 DEF MainRead
  <2>2. /\ Head(ring[c]) \in Event
        /\ Tail(ring[c]) \in Seq(Event)
        /\ Len(Tail(ring[c])) <= Len(ring[c])
        /\ Len(ring[c]) \in Nat
        /\ Len(Tail(ring[c])) \in Nat
    BY <2>1 DEF TypeOK, KernelTypeOK
  <2>3. KernelTypeOK'
    BY <1>1, <2>1, <2>2, KernelAssumption DEF MainRead, TypeOK, KernelTypeOK
  <2>4. MainOK'
    BY <1>1, <2>1, <2>2 DEF MainRead, TypeOK, MainOK, poolVars
  <2> QED
    BY <1>1, <2>3, <2>4 DEF MainRead, TypeOK, JobOK, poolVars
<1>2. CASE MainSend
  <2>1. /\ queue' \in Seq(Event)
        /\ Len(queue') <= QueueSize
    BY <1>2, WorkerPoolAssumption DEF MainSend, TypeOK, MainOK
  <2>2. MainOK' /\ KernelTypeOK'
    BY <1>2 DEF MainSend, TypeOK, MainOK, KernelTypeOK, kernelVars
  <2> QED
    BY <1>2, <2>1, <2>2 DEF MainSend, TypeOK, JobOK
<1>3. CASE MainBreak
  BY <1>3 DEF MainBreak, TypeOK, JobOK, MainOK, KernelTypeOK, kernelVars
<1>4. CASE MainExit
  BY <1>4 DEF MainExit, TypeOK, JobOK, MainOK, KernelTypeOK, kernelVars, poolVars
<1> QED
  BY <1>1, <1>2, <1>3, <1>4 DEF MainStep

LEMMA SignalAndTimeType == TypeOK /\ (Signal \/ TimeStep) => TypeOK'
<1> SUFFICES ASSUME TypeOK, Signal \/ TimeStep PROVE TypeOK'
  OBVIOUS
<1>1. CASE Signal
  BY <1>1 DEF Signal, TypeOK, JobOK, MainOK, KernelTypeOK, kernelVars, poolVars
<1>2. CASE TimeStep
  BY <1>2 DEF TimeStep, Tick, TypeOK, JobOK, MainOK, KernelTypeOK, kernelVars,
              poolVars, mainVars
<1> QED
  BY <1>1, <1>2

\* What a worker's step must show of the pool for the type invariant to hold.
LEMMA PoolFrame ==
  ASSUME TypeOK, NEW w \in Worker, WorkerStep(w), UNCHANGED mainVars,
         UNCHANGED <<clock, closed>>,
         KernelTypeOK',
         queue' \in Seq(Event), Len(queue') <= QueueSize,
         pc' \in [Worker -> Steps], DOMAIN job' = Worker,
         \A v \in Worker : JobOK(v)',
         DOMAIN lastRemediated' \subseteq Baseline,
         \A p \in DOMAIN lastRemediated' : lastRemediated'[p] \in Nat,
         DOMAIN events' \subseteq Baseline,
         \A p \in DOMAIN events' : /\ events'[p] \subseteq Stamp
                                  /\ IsFiniteSet(events'[p]),
         remediations' \subseteq [worker : Worker, param : Baseline, at : Nat],
         attempts' \in [Param -> SUBSET Stamp]
  PROVE  TypeOK'
BY DEF TypeOK, MainOK, mainVars

LEMMA ReturnType ==
  ASSUME TypeOK, NEW w \in Worker, Return(w)
  PROVE  /\ pc' \in [Worker -> Steps]
         /\ DOMAIN job' = Worker
         /\ \A v \in Worker : JobOK(v)'
<1>1. "idle" \in Steps
  BY DEF Steps
<1> QED
  BY <1>1, OtherJobs DEF TypeOK, Return, Goto

LEMMA GotoType ==
  ASSUME TypeOK, NEW w \in Worker, NEW step \in Steps, Goto(w, step),
         UNCHANGED job,
         \/ pc[w] = "idle" /\ step = "stopped"
         \/ pc[w] = "read" /\ step = "decide"
         \/ pc[w] \in Drifting /\ step \in Drifting
  PROVE  /\ pc' \in [Worker -> Steps]
         /\ DOMAIN job' = Worker
         /\ \A v \in Worker : JobOK(v)'
<1>1. /\ pc' \in [Worker -> Steps]
      /\ DOMAIN job' = Worker
  BY DEF TypeOK, Goto
<1>2. ASSUME NEW v \in Worker PROVE JobOK(v)'
  <2>1. CASE v = w
    BY <2>1 DEF TypeOK, Goto, JobOK, Drifting
  <2>2. CASE v # w
    BY <2>2 DEF TypeOK, Goto, JobOK
  <2> QED
    BY <2>1, <2>2
<1> QED
  BY <1>1, <1>2

LEMMA AgentReadsType ==
  ASSUME TypeOK, NEW w \in Worker, AgentReads(w), job[w].param \in Baseline,
         \/ UNCHANGED unread
         \/ unread' = unread \ {job[w].param}
  PROVE  KernelTypeOK'
<1>1. /\ ring' \in [CPU -> Seq(Event)]
      /\ \A c \in CPU : Len(ring'[c]) <= RingSize
      /\ lost' \in BOOLEAN
  BY TraceType, KernelEvents DEF AgentReads, TypeOK, KernelTypeOK
<1> QED
  BY <1>1 DEF AgentReads, TypeOK, KernelTypeOK

LEMMA TakeType ==
  ASSUME TypeOK, NEW w \in Worker, Take(w), UNCHANGED mainVars
  PROVE  TypeOK'
<1>1. /\ Head(queue) \in Event
      /\ Tail(queue) \in Seq(Event)
      /\ Len(Tail(queue)) <= QueueSize
  BY WorkerPoolAssumption DEF Take, TypeOK
<1>2. /\ pc' \in [Worker -> Steps]
      /\ DOMAIN job' = Worker
      /\ \A v \in Worker : JobOK(v)'
  <2>1. CASE Ignored(Head(queue))
    BY <2>1 DEF Take, TypeOK, JobOK
  <2>2. CASE ~Ignored(Head(queue))
    <3> DEFINE j == [process |-> Head(queue).process,
                     param   |-> Name[Head(queue).path]]
    <3>1. j \in TakenJob
      BY <1>1, <2>2 DEF Ignored, Event, TakenJob
    <3>2. pc' = [pc EXCEPT ![w] = "read"] /\ job' = [job EXCEPT ![w] = j]
      BY <2>2 DEF Take, Goto
    <3> HIDE DEF j
    <3>3. "read" \in Steps
      BY DEF Steps
    <3> QED
      BY <3>1, <3>2, <3>3, OtherJobs DEF TypeOK
  <2> QED
    BY <2>1, <2>2
<1>3. KernelTypeOK'
  BY DEF Take, TypeOK, KernelTypeOK, kernelVars
<1>4. WorkerStep(w)
  BY DEF WorkerStep
<1> QED
  BY <1>1, <1>2, <1>3, <1>4, PoolFrame DEF Take, TypeOK

LEMMA StopAndFinishType ==
  ASSUME TypeOK, NEW w \in Worker, Stop(w) \/ Finish(w), UNCHANGED mainVars
  PROVE  TypeOK'
<1>1. /\ pc' \in [Worker -> Steps]
      /\ DOMAIN job' = Worker
      /\ \A v \in Worker : JobOK(v)'
  <2>1. CASE Stop(w)
    BY <2>1, GotoType DEF Stop, Steps
  <2>2. CASE Finish(w)
    BY <2>2, ReturnType DEF Finish
  <2> QED
    BY <2>1, <2>2
<1>2. KernelTypeOK'
  BY DEF Stop, Finish, TypeOK, KernelTypeOK, kernelVars
<1>3. WorkerStep(w)
  BY DEF WorkerStep
<1> QED
  BY <1>1, <1>2, <1>3, PoolFrame DEF Stop, Finish, TypeOK

LEMMA ReadActualType ==
  ASSUME TypeOK, NEW w \in Worker, ReadActual(w), UNCHANGED mainVars
  PROVE  TypeOK'
<1>1. /\ pc' \in [Worker -> Steps]
      /\ DOMAIN job' = Worker
      /\ \A v \in Worker : JobOK(v)'
  <2>1. CASE Return(w)
    BY <2>1, ReturnType
  <2>2. CASE Goto(w, "decide") /\ UNCHANGED job
    BY <2>2, GotoType DEF ReadActual, Steps
  <2> QED
    BY <2>1, <2>2 DEF ReadActual
<1>2. job[w].param \in Baseline
  BY DEF ReadActual, TypeOK, JobOK, TakenJob
<1>3. KernelTypeOK'
  BY <1>2, AgentReadsType DEF ReadActual
<1>4. WorkerStep(w)
  BY DEF WorkerStep
<1> QED
  BY <1>1, <1>3, <1>4, PoolFrame DEF ReadActual, TypeOK

\* The conflict manager: a new stamp is a stamp, and recording or pruning
\* leaves finite sets of stamps.
LEMMA EventsType ==
  ASSUME TypeOK, NEW p \in Param
  PROVE  Events(p) \subseteq Stamp /\ IsFiniteSet(Events(p))
BY FS_EmptySet DEF TypeOK, Events

LEMMA NextStampType ==
  ASSUME TypeOK, NEW p \in Param
  PROVE  NextStamp(p) \in Stamp
<1>1. IsFiniteSet({s \in Events(p) : s.at = clock})
  BY EventsType, FS_Subset
<1>2. Cardinality({s \in Events(p) : s.at = clock}) \in Nat
  BY <1>1, FS_CardinalityType
<1> QED
  BY <1>2 DEF NextStamp, Stamp, TypeOK

LEMMA RecordType ==
  ASSUME TypeOK, NEW p \in Baseline, ConflictRecord(p)
  PROVE  /\ DOMAIN events' \subseteq Baseline
         /\ \A q \in DOMAIN events' : /\ events'[q] \subseteq Stamp
                                      /\ IsFiniteSet(events'[q])
<1>1. p \in Param
  BY WorkerPoolAssumption
<1>2. /\ Events(p) \cup {NextStamp(p)} \subseteq Stamp
      /\ IsFiniteSet(Events(p) \cup {NextStamp(p)})
  BY <1>1, EventsType, NextStampType, FS_AddElement
<1> QED
  BY <1>2 DEF ConflictRecord, TypeOK

LEMMA PrunedType ==
  ASSUME TypeOK, NEW p \in Baseline, NEW window, events' = Pruned(p, window)
  PROVE  /\ DOMAIN events' \subseteq Baseline
         /\ \A q \in DOMAIN events' : /\ events'[q] \subseteq Stamp
                                      /\ IsFiniteSet(events'[q])
<1>1. p \in Param
  BY WorkerPoolAssumption
<1>2. /\ Recent(Events(p), window) \subseteq Stamp
      /\ IsFiniteSet(Recent(Events(p), window))
  BY <1>1, EventsType, FS_Subset DEF Recent
<1> QED
  BY <1>2 DEF Pruned, TypeOK

LEMMA DecideType ==
  ASSUME TypeOK, NEW w \in Worker, Decide(w), UNCHANGED mainVars
  PROVE  TypeOK'
<1>1. job[w].param \in Baseline /\ job[w].process \in Source
  BY DEF Decide, TypeOK, JobOK, TakenJob
<1>2. PICK intel \in Intelligence :
        LET param  == job[w].param
            action == EvaluateDecision(
                          BuildContext(job[w].process, param, intel),
                          Sysctl[param], Global).action
        IN  /\ job' = [job EXCEPT ![w] =
                         [process |-> job[w].process, param |-> param,
                          decided |-> action, action |-> action,
                          drift |-> NextStamp(param),
                          cooldownApplied |-> FALSE,
                          conflictDetected |-> FALSE]]
            /\ ConflictRecord(param)
            /\ Goto(w, IF action = "remediate" THEN "cooldown" ELSE "conflict")
  BY DEF Decide
<1> DEFINE action == EvaluateDecision(
                         BuildContext(job[w].process, job[w].param, intel),
                         Sysctl[job[w].param], Global).action
           j == [process |-> job[w].process, param |-> job[w].param,
                 decided |-> action, action |-> action,
                 drift |-> NextStamp(job[w].param),
                 cooldownApplied |-> FALSE, conflictDetected |-> FALSE]
           step == IF action = "remediate" THEN "cooldown" ELSE "conflict"
<1>3. action \in Actions
  BY DecisionIsAction
<1>4. NextStamp(job[w].param) \in Stamp
  BY <1>1, NextStampType, WorkerPoolAssumption
<1>5. j \in Job
  BY <1>1, <1>3, <1>4 DEF Job
<1>6. step \in Drifting /\ step \in Steps
  BY DEF Drifting, Steps
<1>7. job' = [job EXCEPT ![w] = j] /\ pc' = [pc EXCEPT ![w] = step]
  BY <1>2 DEF Goto
<1>8. ConflictRecord(job[w].param)
  BY <1>2
<1> HIDE DEF j, step, action
<1>9. /\ pc' \in [Worker -> Steps]
      /\ DOMAIN job' = Worker
      /\ \A v \in Worker : JobOK(v)'
  BY <1>5, <1>6, <1>7, OtherJobs DEF TypeOK
<1>10. /\ DOMAIN events' \subseteq Baseline
       /\ \A q \in DOMAIN events' : /\ events'[q] \subseteq Stamp
                                    /\ IsFiniteSet(events'[q])
  BY <1>1, <1>8, RecordType
<1>11. KernelTypeOK' /\ WorkerStep(w)
  BY DEF Decide, TypeOK, KernelTypeOK, kernelVars, WorkerStep
<1> QED
  BY <1>9, <1>10, <1>11, PoolFrame DEF Decide, TypeOK

LEMMA CheckCooldownType ==
  ASSUME TypeOK, NEW w \in Worker, CheckCooldown(w), UNCHANGED mainVars
  PROVE  TypeOK'
<1>1. job[w] \in Job
  BY DEF CheckCooldown, TypeOK, JobOK, Drifting
<1>2. /\ pc' \in [Worker -> Steps]
      /\ DOMAIN job' = Worker
      /\ \A v \in Worker : JobOK(v)'
  <2>1. CASE UNCHANGED job
    BY <2>1, GotoType DEF CheckCooldown, Steps, Drifting
  <2>2. CASE job' = [job EXCEPT ![w].action = "alert",
                                ![w].cooldownApplied = TRUE]
    <3> DEFINE j == [job[w] EXCEPT !.action = "alert", !.cooldownApplied = TRUE]
    <3>1. j \in Job
      BY <1>1 DEF Job, Actions
    <3>2. job' = [job EXCEPT ![w] = j]
      BY <2>2 DEF TypeOK
    <3> HIDE DEF j
    <3>3. pc' = [pc EXCEPT ![w] = "conflict"] /\ "conflict" \in Steps \cap Drifting
      BY DEF CheckCooldown, Goto, Steps, Drifting
    <3> QED
      BY <3>1, <3>2, <3>3, OtherJobs DEF TypeOK
  <2> QED
    BY <2>1, <2>2 DEF CheckCooldown
<1>3. KernelTypeOK' /\ WorkerStep(w)
  BY DEF CheckCooldown, TypeOK, KernelTypeOK, kernelVars, WorkerStep
<1> QED
  BY <1>2, <1>3, PoolFrame DEF CheckCooldown, TypeOK

LEMMA CheckConflictType ==
  ASSUME TypeOK, NEW w \in Worker, CheckConflict(w), UNCHANGED mainVars
  PROVE  TypeOK'
<1> DEFINE param == job[w].param
           conflicting == IsConflicting(param, ConflictWindow, ConflictThreshold)
           remediate == job[w].action = "remediate" /\ ~conflicting
           j == [job[w] EXCEPT
                   !.action = IF @ = "remediate" /\ conflicting
                              THEN "alert" ELSE @,
                   !.conflictDetected = conflicting]
           step == IF remediate THEN "spawn" ELSE "finish"
<1>1. job[w] \in Job
  BY DEF CheckConflict, TypeOK, JobOK, Drifting
<1>2. j \in Job
  <2>1. conflicting \in BOOLEAN
    BY DEF IsConflicting
  <2> HIDE DEF conflicting
  <2> QED
    BY <1>1, <2>1 DEF Job, Actions
<1>3. job' = [job EXCEPT ![w] = j]
  BY DEF CheckConflict, TypeOK
<1>4. pc' = [pc EXCEPT ![w] = step] /\ step \in Steps /\ step \in Drifting
  BY DEF CheckConflict, Goto, Steps, Drifting
<1>5. /\ DOMAIN events' \subseteq Baseline
      /\ \A q \in DOMAIN events' : /\ events'[q] \subseteq Stamp
                                   /\ IsFiniteSet(events'[q])
  BY <1>1, PrunedType DEF CheckConflict, Job
<1>6. attempts' \in [Param -> SUBSET Stamp]
  <2>1. param \in Param /\ job[w].drift \in Stamp
    BY <1>1, WorkerPoolAssumption DEF Job
  <2> QED
    BY <2>1 DEF CheckConflict, TypeOK
<1>7. KernelTypeOK' /\ WorkerStep(w)
  BY DEF CheckConflict, TypeOK, KernelTypeOK, kernelVars, WorkerStep
<1>8. UNCHANGED <<clock, queue, closed, lastRemediated, remediations>>
  BY DEF CheckConflict
<1> HIDE DEF j, step
<1>9. /\ pc' \in [Worker -> Steps]
      /\ DOMAIN job' = Worker
      /\ \A v \in Worker : JobOK(v)'
  BY <1>2, <1>3, <1>4, OtherJobs DEF TypeOK
<1> QED
  BY <1>5, <1>6, <1>7, <1>8, <1>9, PoolFrame DEF TypeOK

LEMMA RemediationType ==
  ASSUME TypeOK, NEW w \in Worker, UNCHANGED mainVars,
         Spawn(w) \/ ChildStore(w) \/ Verify(w) \/ RecordRemediation(w)
  PROVE  TypeOK'
<1>1. job[w] \in Job
  BY DEF Spawn, ChildStore, Verify, RecordRemediation, TypeOK, JobOK, Drifting
<1>2. /\ job[w].param \in Baseline
      /\ job[w].param \in Param
      /\ Expected(w) \in Value
  BY <1>1, WorkerPoolAssumption DEF Job, Expected
<1>3. /\ pc' \in [Worker -> Steps]
      /\ DOMAIN job' = Worker
      /\ \A v \in Worker : JobOK(v)'
  BY GotoType
  DEF Spawn, ChildStore, Verify, RecordRemediation, Steps, Drifting
<1>4. KernelTypeOK'
  <2>1. CASE Spawn(w)
    <3>1. /\ ring' \in [CPU -> Seq(Event)]
          /\ \A c \in CPU : Len(ring'[c]) <= RingSize
          /\ lost' \in BOOLEAN
      BY <1>2, <2>1, TraceType, KernelEvents DEF Spawn, TypeOK, KernelTypeOK
    <3> QED
      BY <2>1, <3>1 DEF Spawn, TypeOK, KernelTypeOK
  <2>2. CASE ChildStore(w)
    <3>1. Child \in Source
      BY DEF Source
    <3> QED
      BY <1>2, <2>2, <3>1 DEF ChildStore, Store, TypeOK, KernelTypeOK
  <2>3. CASE Verify(w)
    BY <1>2, <2>3, AgentReadsType DEF Verify
  <2>4. CASE RecordRemediation(w)
    BY <2>4 DEF RecordRemediation, TypeOK, KernelTypeOK, kernelVars
  <2> QED
    BY <2>1, <2>2, <2>3, <2>4
<1>5. /\ DOMAIN lastRemediated' \subseteq Baseline
      /\ \A p \in DOMAIN lastRemediated' : lastRemediated'[p] \in Nat
  BY <1>2 DEF Spawn, ChildStore, Verify, RecordRemediation, CooldownRecord, TypeOK
<1>6. remediations' \subseteq [worker : Worker, param : Baseline, at : Nat]
  BY <1>2 DEF Spawn, ChildStore, Verify, RecordRemediation, TypeOK
<1>7. UNCHANGED <<clock, queue, closed, events, attempts>>
  BY DEF Spawn, ChildStore, Verify, RecordRemediation
<1>8. WorkerStep(w)
  BY DEF WorkerStep
<1> QED
  BY <1>3, <1>4, <1>5, <1>6, <1>7, <1>8, PoolFrame DEF TypeOK

LEMMA PoolStepType ==
  ASSUME TypeOK, NEW w \in Worker, PoolStep(w)
  PROVE  TypeOK'
BY TakeType, StopAndFinishType, ReadActualType, DecideType, CheckCooldownType,
   CheckConflictType, RemediationType
DEF PoolStep, WorkerStep

\* The type invariant of the agent: what every variable holds, at which step a
\* worker has which locals, and that neither the queue nor a ring overflows.
THEOREM TypeCorrect == Spec => []TypeOK
<1>1. TypeOK /\ [Next]_vars => TypeOK'
  <2>1. TypeOK /\ Next => TypeOK'
    BY KernelStepType, MainStepType, SignalAndTimeType, PoolStepType DEF Next
  <2>2. TypeOK /\ UNCHANGED vars => TypeOK'
    BY DEF vars, kernelVars, poolVars, mainVars, TypeOK, KernelTypeOK, MainOK,
           JobOK
  <2> QED
    BY <2>1, <2>2
<1> QED
  BY InitType, <1>1, PTL DEF Spec

-----------------------------------------------------------------------------
(* The cooldown: one worker paces itself. *)

\* What a step other than the check and the record leaves of PacingInv.
LEMMA PacingFrame ==
  ASSUME TypeOK, PacingInv, UNCHANGED <<lastRemediated, remediations>>,
         clock' \in Nat, clock <= clock',
         \A w \in Worker : Cleared(w)' => /\ Cleared(w)
                                          /\ job'[w].param = job[w].param,
         \A w \in Worker : Cleared(w) => job[w].param \in Baseline
  PROVE  PacingInv'
<1>1. \A r \in remediations : r.at \in Nat /\ clock \in Nat
  BY DEF TypeOK
<1>2. \A p \in DOMAIN lastRemediated : lastRemediated[p] \in Nat
  BY DEF TypeOK
<1>3. \A r \in remediations : r.at <= clock'
  BY <1>1 DEF PacingInv
<1>4. \A p \in DOMAIN lastRemediated : lastRemediated[p] <= clock'
  BY <1>1, <1>2 DEF PacingInv, TypeOK
<1>5. ASSUME NEW w \in Worker, Cleared(w)', NEW r \in remediations,
             r.worker = w, r.param = job'[w].param
      PROVE  clock' - r.at >= CooldownOf(r.param)
  <2>1. Cleared(w) /\ r.param = job[w].param
    BY <1>5
  <2>2. clock - r.at >= CooldownOf(r.param)
    BY <1>5, <2>1 DEF PacingInv
  <2>3. CooldownOf(r.param) \in Nat
    BY <2>1, CooldownIsNat
  <2> QED
    BY <1>1, <2>2, <2>3
<1> QED
  BY <1>3, <1>4, <1>5 DEF PacingInv

LEMMA ClearedParam ==
  ASSUME TypeOK, NEW w \in Worker, Cleared(w)
  PROVE  job[w] \in Job /\ job[w].param \in Baseline
BY DEF TypeOK, JobOK, Cleared, Remediating, Drifting, Job

\* No worker becomes cleared but by the cooldown check.
LEMMA OnlyCheckClears ==
  ASSUME TypeOK, NEW w \in Worker, PoolStep(w), ~CheckCooldown(w),
         NEW v \in Worker, Cleared(v)'
  PROVE  Cleared(v) /\ job'[v].param = job[v].param
<1>1. CASE v # w
  <2>1. pc'[v] = pc[v] /\ job'[v] = job[v]
    BY <1>1
    DEF PoolStep, WorkerStep, Take, Stop, ReadActual, Decide, CheckConflict,
        Spawn, ChildStore, Verify, RecordRemediation, Finish, Goto, Return,
        TypeOK
  <2> QED
    BY <2>1 DEF Cleared
<1>2. CASE v = w
  <2>1. ~Take(w) /\ ~Stop(w) /\ ~ReadActual(w) /\ ~Finish(w)
    BY <1>2 DEF Take, Stop, ReadActual, Finish, Goto, Return, Cleared,
                Remediating, TypeOK
  <2>2. ~Decide(w)
    <3> SUFFICES ASSUME Decide(w) PROVE FALSE
      OBVIOUS
    <3>1. PICK action :
            /\ job'[w].action = action
            /\ pc'[w] = IF action = "remediate" THEN "cooldown" ELSE "conflict"
      BY DEF Decide, Goto, TypeOK
    <3> QED
      BY <1>2, <3>1 DEF Cleared, Remediating
  <2>3. CASE CheckConflict(w)
    BY <1>2, <2>3 DEF CheckConflict, Goto, Cleared, Remediating, TypeOK
  <2>4. CASE Spawn(w) \/ ChildStore(w) \/ Verify(w) \/ RecordRemediation(w)
    BY <1>2, <2>4 DEF Spawn, ChildStore, Verify, RecordRemediation, Goto,
                      Cleared, Remediating, TypeOK
  <2> QED
    BY <2>1, <2>2, <2>3, <2>4 DEF PoolStep, WorkerStep
<1> QED
  BY <1>1, <1>2

LEMMA CheckCooldownPacing ==
  ASSUME TypeOK, PacingInv, NEW w \in Worker, CheckCooldown(w)
  PROVE  PacingInv'
<1>1. UNCHANGED <<clock, lastRemediated, remediations>>
  BY DEF CheckCooldown
<1>2. ASSUME NEW v \in Worker, Cleared(v)', NEW r \in remediations,
             r.worker = v, r.param = job'[v].param
      PROVE  clock - r.at >= CooldownOf(r.param)
  <2>1. CASE v # w
    <3>1. Cleared(v) /\ job'[v].param = job[v].param
      BY <1>2, <2>1 DEF CheckCooldown, Goto, Cleared, TypeOK
    <3> QED
      BY <1>2, <3>1 DEF PacingInv
  <2>2. CASE v = w
    <3>1. job[w] \in Job
      BY DEF CheckCooldown, TypeOK, JobOK, Drifting
    <3>2. CASE InCooldown(job[w].param, CooldownOf(job[w].param))
      <4>1. job'[w].action = "alert" /\ pc'[w] = "conflict"
        BY <3>1, <3>2 DEF CheckCooldown, Goto, TypeOK, Job
      <4> QED
        BY <1>2, <2>2, <4>1 DEF Cleared, Remediating
    <3>3. CASE ~InCooldown(job[w].param, CooldownOf(job[w].param))
      <4>1. job'[w].param = job[w].param
        BY <3>3 DEF CheckCooldown
      <4>2. /\ r.param \in DOMAIN lastRemediated
            /\ r.at <= lastRemediated[r.param]
            /\ r.at \in Nat /\ clock \in Nat /\ lastRemediated[r.param] \in Nat
            /\ CooldownOf(r.param) \in Nat
        BY CooldownIsNat DEF PacingInv, TypeOK
      <4> QED
        BY <1>2, <2>2, <3>3, <4>1, <4>2 DEF InCooldown
    <3> QED
      BY <3>2, <3>3
  <2> QED
    BY <2>1, <2>2
<1> QED
  BY <1>1, <1>2 DEF PacingInv

LEMMA RecordPacing ==
  ASSUME TypeOK, PacingInv, NEW w \in Worker, RecordRemediation(w)
  PROVE  PacingInv'
<1> DEFINE new == [worker |-> w, param |-> job[w].param, at |-> clock]
<1>1. /\ remediations' = remediations \cup {new}
      /\ UNCHANGED <<clock, job>>
      /\ DOMAIN lastRemediated' = DOMAIN lastRemediated \cup {job[w].param}
      /\ lastRemediated'[job[w].param] = clock
      /\ \A p \in DOMAIN lastRemediated :
            p # job[w].param => lastRemediated'[p] = lastRemediated[p]
  BY DEF RecordRemediation, CooldownRecord
<1>2. clock \in Nat /\ \A r \in remediations : r.at \in Nat
  BY DEF TypeOK
<1>3. \A r \in remediations' : /\ r.at <= clock
                               /\ r.param \in DOMAIN lastRemediated'
                               /\ r.at <= lastRemediated'[r.param]
  BY <1>1, <1>2 DEF PacingInv
<1>4. \A p \in DOMAIN lastRemediated' : lastRemediated'[p] <= clock
  BY <1>1, <1>2 DEF PacingInv
<1>5. ASSUME NEW v \in Worker, Cleared(v)', NEW r \in remediations',
             r.worker = v, r.param = job[v].param
      PROVE  clock - r.at >= CooldownOf(r.param)
  <2>1. v # w /\ Cleared(v)
    BY <1>1, <1>5 DEF RecordRemediation, Goto, Cleared, Remediating, TypeOK
  <2>2. r \in remediations
    BY <1>1, <1>5, <2>1
  <2> QED
    BY <1>5, <2>1, <2>2 DEF PacingInv
<1> QED
  BY <1>1, <1>3, <1>4, <1>5 DEF PacingInv

LEMMA PacingStep == TypeOK /\ PacingInv /\ [Next]_vars => PacingInv'
<1> SUFFICES ASSUME TypeOK, PacingInv, [Next]_vars PROVE PacingInv'
  OBVIOUS
<1>1. \A w \in Worker : Cleared(w) => job[w].param \in Baseline
  BY ClearedParam
<1>2. CASE TimeStep
  BY <1>1, <1>2, PacingFrame
  DEF TimeStep, Tick, TypeOK, poolVars, Cleared
<1>3. CASE KernelStep \/ Signal \/ MainStep \/ UNCHANGED vars
  <2>1. UNCHANGED <<clock, lastRemediated, remediations, pc, job>>
    BY <1>3 DEF KernelStep, Signal, MainStep, MainRead, MainSend, MainBreak,
                MainExit, vars, poolVars
  <2> QED
    BY <1>1, <2>1, PacingFrame DEF TypeOK, Cleared
<1>4. ASSUME NEW w \in Worker, PoolStep(w) PROVE PacingInv'
  <2>1. CASE CheckCooldown(w)
    BY <2>1, CheckCooldownPacing
  <2>2. CASE RecordRemediation(w)
    BY <2>2, RecordPacing
  <2>3. CASE ~CheckCooldown(w) /\ ~RecordRemediation(w)
    <3>1. UNCHANGED <<clock, lastRemediated, remediations>>
      BY <1>4, <2>3 DEF PoolStep, WorkerStep, Take, Stop, ReadActual, Decide,
                        CheckConflict, Spawn, ChildStore, Verify, Finish
    <3> QED
      BY <1>1, <1>4, <2>3, <3>1, OnlyCheckClears, PacingFrame DEF TypeOK
  <2> QED
    BY <2>1, <2>2, <2>3
<1> QED
  BY <1>2, <1>3, <1>4 DEF Next

\* PacingInv is an invariant: in particular a worker about to remediate has
\* completed none of the same parameter for at least its cooldown.
THEOREM PacingHolds == Spec => []PacingInv
<1>1. Init => PacingInv
  BY DEF Init, PoolInit, NewCooldownManager, PacingInv, Cleared, Remediating
<1> QED
  BY <1>1, PacingStep, TypeCorrect, PTL DEF Spec

LEMMA PacingRefinementStep ==
  TypeOK /\ PacingInv /\ [Next]_vars => [Pacing!Next]_(Pacing!vars)
<1> SUFFICES ASSUME TypeOK, PacingInv, [Next]_vars
             PROVE  Pacing!Next \/ UNCHANGED <<clock, remediations>>
  BY DEF Pacing!vars
<1>1. CASE TimeStep
  BY <1>1 DEF TimeStep, poolVars, Pacing!Next, Pacing!Advance, Pacing!Tick, Tick
<1>2. CASE KernelStep \/ Signal \/ MainStep \/ UNCHANGED vars
  BY <1>2 DEF KernelStep, Signal, MainStep, MainRead, MainSend, MainBreak,
              MainExit, vars, poolVars
<1>3. ASSUME NEW w \in Worker, RecordRemediation(w) PROVE Pacing!Next
  <2>1. Cleared(w)
    BY <1>3 DEF RecordRemediation, Cleared, Remediating
  <2>2. job[w].param \in Baseline
    BY <2>1, ClearedParam
  <2>3. Cooldown[job[w].param] = CooldownOf(job[w].param)
    BY <2>2 DEF Cooldown
  <2>4. Pacing!Remediate(w, job[w].param)
    BY <1>3, <2>1, <2>3 DEF RecordRemediation, PacingInv, Pacing!Remediate
  <2> QED
    BY <2>2, <2>4 DEF Pacing!Next
<1>4. ASSUME NEW w \in Worker, PoolStep(w), ~RecordRemediation(w)
      PROVE  UNCHANGED <<clock, remediations>>
  BY <1>4 DEF PoolStep, WorkerStep, Take, Stop, ReadActual, Decide,
              CheckCooldown, CheckConflict, Spawn, ChildStore, Verify, Finish
<1> QED
  BY <1>1, <1>2, <1>3, <1>4 DEF Next, PoolStep

\* The agent implements RemediationPacing: whatever its workers, queues and
\* failures do, each worker keeps the cooldown between its own remediations.
THEOREM AgentImplementsPacing == Spec => PacedByCooldown
<1>1. Init => Pacing!Init
  BY DEF Init, PoolInit, Pacing!Init
<1> QED
  BY <1>1, PacingRefinementStep, TypeCorrect, PacingHolds, PTL
  DEF Spec, PacedByCooldown, Pacing!Spec

-----------------------------------------------------------------------------
(* The conflict brake: attempts stay below the threshold. *)

LEMMA FewerStillBelow ==
  ASSUME NEW S, IsFiniteSet(S), Cardinality(S) < ConflictThreshold,
         NEW T, T \subseteq S
  PROVE  Cardinality(T) < ConflictThreshold
<1>1. /\ IsFiniteSet(T)
      /\ Cardinality(T) <= Cardinality(S)
  BY FS_Subset
<1>2. Cardinality(T) \in Nat /\ Cardinality(S) \in Nat
  BY <1>1, FS_CardinalityType
<1> QED
  BY <1>1, <1>2, WorkerPoolAssumption

LEMMA AttemptsInit == Init => AttemptsInv /\ AttemptsBelowThreshold
<1> SUFFICES ASSUME Init PROVE AttemptsInv /\ AttemptsBelowThreshold
  OBVIOUS
<1>1. \A p \in Baseline : Recent(attempts[p], ConflictWindow) = {}
  BY WorkerPoolAssumption DEF Init, PoolInit, Recent
<1>2. Cardinality({}) = 0 /\ 0 < ConflictThreshold
  BY FS_EmptySet, WorkerPoolAssumption
<1> QED
  BY <1>1, <1>2 DEF Init, PoolInit, AttemptsInv, AttemptsBelowThreshold

LEMMA TimeAttempts ==
  ASSUME TypeOK, AttemptsInv, AttemptsBelowThreshold, TimeStep
  PROVE  AttemptsInv' /\ AttemptsBelowThreshold'
<1>1. /\ clock \in Nat /\ clock' \in Nat /\ clock <= clock'
      /\ UNCHANGED <<attempts, events, pc, job>>
  BY DEF TimeStep, Tick, TypeOK, poolVars
<1>2. ASSUME NEW p \in Baseline
      PROVE  Recent(attempts[p], ConflictWindow)'
               \subseteq Recent(attempts[p], ConflictWindow)
  <2>1. attempts[p] \subseteq Stamp
    BY WorkerPoolAssumption DEF TypeOK
  <2> QED
    BY <1>1, <2>1, WorkerPoolAssumption DEF Recent, Stamp
<1>3. ASSUME NEW p \in Baseline
      PROVE  /\ Recent(attempts[p], ConflictWindow)' \subseteq Events(p)'
             /\ Cardinality(Recent(attempts[p], ConflictWindow)')
                  < ConflictThreshold
  <2>1. Events(p)' = Events(p)
    BY <1>1 DEF Events
  <2>2. IsFiniteSet(Recent(attempts[p], ConflictWindow))
    BY EventsType, FS_Subset, WorkerPoolAssumption DEF AttemptsInv
  <2>3. Cardinality(Recent(attempts[p], ConflictWindow)) < ConflictThreshold
    BY DEF AttemptsBelowThreshold
  <2>4. Cardinality(Recent(attempts[p], ConflictWindow)') < ConflictThreshold
    BY <1>2, <2>2, <2>3, FewerStillBelow
  <2> QED
    BY <1>2, <2>1, <2>4 DEF AttemptsInv
<1>4. ASSUME NEW w \in Worker, pc'[w] \in {"cooldown", "conflict"}
      PROVE  Recent({job[w].drift}, ConflictWindow)' \subseteq Events(job[w].param)'
  <2>1. job[w] \in Job
    BY <1>1, <1>4 DEF TypeOK, JobOK, Drifting
  <2>2. Recent({job[w].drift}, ConflictWindow)'
          \subseteq Recent({job[w].drift}, ConflictWindow)
    BY <1>1, <2>1, WorkerPoolAssumption DEF Recent, Job, Stamp
  <2> QED
    BY <1>1, <1>4, <2>2 DEF AttemptsInv, Events
<1> QED
  BY <1>1, <1>3, <1>4 DEF AttemptsInv, AttemptsBelowThreshold

\* w holds a recorded drift the conflict brake has not judged yet.
Pending(w) == pc[w] \in {"cooldown", "conflict"}

LEMMA AttemptsFrame ==
  ASSUME AttemptsInv, AttemptsBelowThreshold,
         UNCHANGED <<clock, attempts, events>>,
         \A w \in Worker : Pending(w)' => /\ Pending(w)
                                          /\ job'[w].drift = job[w].drift
                                          /\ job'[w].param = job[w].param
  PROVE  AttemptsInv' /\ AttemptsBelowThreshold'
<1>1. AttemptsBelowThreshold'
  BY DEF AttemptsBelowThreshold, Recent
<1>2. \A p \in Baseline :
         Recent(attempts[p], ConflictWindow)' \subseteq Events(p)'
  BY DEF AttemptsInv, Recent, Events
<1>3. ASSUME NEW w \in Worker, Pending(w)'
      PROVE  Recent({job[w].drift}, ConflictWindow)' \subseteq Events(job[w].param)'
  <2>1. Recent({job[w].drift}, ConflictWindow) \subseteq Events(job[w].param)
    BY <1>3 DEF AttemptsInv, Pending
  <2> QED
    BY <1>3, <2>1 DEF Recent, Events
<1> QED
  BY <1>1, <1>2, <1>3 DEF AttemptsInv, Pending

LEMMA DecideAttempts ==
  ASSUME TypeOK, AttemptsInv, AttemptsBelowThreshold, NEW w \in Worker, Decide(w)
  PROVE  AttemptsInv' /\ AttemptsBelowThreshold'
<1> DEFINE param == job[w].param
<1>1. /\ UNCHANGED <<clock, attempts>>
      /\ ConflictRecord(param)
      /\ job'[w].drift = NextStamp(param) /\ job'[w].param = param
      /\ \A v \in Worker : v # w => pc'[v] = pc[v] /\ job'[v] = job[v]
  BY DEF Decide, Goto, TypeOK
<1>2. /\ \A p : Events(p) \subseteq Events(p)'
      /\ NextStamp(param) \in Events(param)'
  BY <1>1 DEF ConflictRecord, Events
<1>3. AttemptsBelowThreshold'
  BY <1>1 DEF AttemptsBelowThreshold, Recent
<1>4. \A p \in Baseline :
         Recent(attempts[p], ConflictWindow)' \subseteq Events(p)'
  BY <1>1, <1>2 DEF AttemptsInv, Recent
<1>5. ASSUME NEW v \in Worker, Pending(v)'
      PROVE  Recent({job[v].drift}, ConflictWindow)' \subseteq Events(job[v].param)'
  <2>1. CASE v = w
    <3>1. Events(job[v].param)' = Events(param)'
      BY <1>1, <2>1 DEF Events
    <3> QED
      BY <1>1, <1>2, <2>1, <3>1 DEF Recent
  <2>2. CASE v # w
    <3>1. Pending(v) /\ job'[v] = job[v]
      BY <1>1, <1>5, <2>2 DEF Pending
    <3>2. Recent({job[v].drift}, ConflictWindow) \subseteq Events(job[v].param)
      BY <3>1 DEF AttemptsInv, Pending
    <3>3. Events(job[v].param) \subseteq Events(job[v].param)'
      BY <1>1, <3>1 DEF ConflictRecord, Events
    <3> QED
      BY <1>1, <3>1, <3>2, <3>3 DEF Recent
  <2> QED
    BY <2>1, <2>2
<1> QED
  BY <1>3, <1>4, <1>5 DEF AttemptsInv, Pending

LEMMA CheckConflictAttempts ==
  ASSUME TypeOK, AttemptsInv, AttemptsBelowThreshold, NEW w \in Worker,
         CheckConflict(w)
  PROVE  AttemptsInv' /\ AttemptsBelowThreshold'
<1> DEFINE param == job[w].param
           valid == Recent(Events(param), ConflictWindow)
           conflicting == Cardinality(valid) >= ConflictThreshold
           remediate == job[w].action = "remediate" /\ ~conflicting
<1>1. job[w] \in Job /\ param \in Baseline /\ param \in Param
  BY WorkerPoolAssumption DEF CheckConflict, TypeOK, JobOK, Drifting, Job
<1>2. /\ UNCHANGED clock
      /\ events' = Pruned(param, ConflictWindow)
      /\ attempts' = IF remediate
                     THEN [attempts EXCEPT ![param] = @ \cup {job[w].drift}]
                     ELSE attempts
      /\ pc'[w] \notin {"cooldown", "conflict"}
      /\ \A v \in Worker : v # w => pc'[v] = pc[v] /\ job'[v] = job[v]
  BY DEF CheckConflict, IsConflicting, Goto, TypeOK
<1>3. ASSUME NEW p
      PROVE  Events(p)' = IF p = param THEN valid ELSE Events(p)
  BY <1>2 DEF Pruned, Events, Recent
<1>4. Recent({job[w].drift}, ConflictWindow) \subseteq Events(param)
  BY DEF CheckConflict, AttemptsInv
<1>5. Recent(attempts'[param], ConflictWindow) \subseteq valid
  <2>1. Recent(attempts[param], ConflictWindow) \subseteq Events(param)
    BY <1>1 DEF AttemptsInv
  <2>2. attempts'[param] \subseteq attempts[param] \cup {job[w].drift}
    BY <1>1, <1>2 DEF TypeOK
  <2> QED
    BY <1>4, <2>1, <2>2 DEF Recent
<1>6. \A p \in Baseline : p # param => attempts'[p] = attempts[p]
  BY <1>1, <1>2, WorkerPoolAssumption DEF TypeOK
<1>7. \A p \in Baseline :
         Recent(attempts[p], ConflictWindow)' \subseteq Events(p)'
  <2>1. TAKE p \in Baseline
  <2>2. Recent(attempts[p], ConflictWindow)'
          = Recent(attempts'[p], ConflictWindow)
    BY <1>2 DEF Recent
  <2>3. CASE p = param
    BY <1>3, <1>5, <2>2, <2>3
  <2>4. CASE p # param
    <3>1. Events(p)' = Events(p)
      BY <1>3, <2>4
    <3>2. Recent(attempts[p], ConflictWindow) \subseteq Events(p)
      BY DEF AttemptsInv
    <3> QED
      BY <1>6, <2>2, <2>4, <3>1, <3>2
  <2> QED
    BY <2>3, <2>4
<1>8. ASSUME NEW v \in Worker, Pending(v)'
      PROVE  Recent({job[v].drift}, ConflictWindow)' \subseteq Events(job[v].param)'
  <2>1. v # w /\ Pending(v) /\ job'[v] = job[v]
    BY <1>2, <1>8 DEF Pending
  <2>2. Recent({job[v].drift}, ConflictWindow) \subseteq Events(job[v].param)
    BY <2>1 DEF AttemptsInv, Pending
  <2>3. Recent({job[v].drift}, ConflictWindow)'
          = Recent({job[v].drift}, ConflictWindow)
    BY <1>2, <2>1 DEF Recent
  <2>4. CASE job[v].param = param
    <3>1. Events(job[v].param)' = Recent(Events(param), ConflictWindow)
      BY <1>2, <2>1, <2>4 DEF Pruned, Events, Recent
    <3> QED
      BY <2>2, <2>3, <2>4, <3>1 DEF Recent
  <2>5. CASE job[v].param # param
    <3>1. Events(job[v].param)' = Events(job[v].param)
      BY <1>2, <2>1, <2>5 DEF Pruned, Events
    <3> QED
      BY <2>2, <2>3, <3>1
  <2> QED
    BY <2>4, <2>5
<1>9. ASSUME NEW p \in Baseline
       PROVE  Cardinality(Recent(attempts[p], ConflictWindow)') < ConflictThreshold
  <2>1. Recent(attempts[p], ConflictWindow)'
          = Recent(attempts'[p], ConflictWindow)
    BY <1>2 DEF Recent
  <2>2. CASE p = param /\ remediate
    <3>1. IsFiniteSet(valid) /\ Cardinality(valid) < ConflictThreshold
      <4>1. IsFiniteSet(valid)
        BY <1>1, EventsType, FS_Subset DEF Recent
      <4>2. Cardinality(valid) \in Nat
        BY <4>1, FS_CardinalityType
      <4> QED
        BY <2>2, <4>1, <4>2, WorkerPoolAssumption
    <3> QED
      BY <1>5, <2>1, <2>2, <3>1, FewerStillBelow
  <2>3. CASE ~(p = param /\ remediate)
    <3>1. attempts'[p] = attempts[p]
      BY <1>2, <1>6, <2>3
    <3> QED
      BY <2>1, <3>1 DEF AttemptsBelowThreshold
  <2> QED
    BY <2>2, <2>3
<1> QED
  BY <1>7, <1>8, <1>9 DEF AttemptsInv, AttemptsBelowThreshold, Pending

LEMMA OtherWorkerAttempts ==
  ASSUME TypeOK, AttemptsInv, AttemptsBelowThreshold, NEW w \in Worker,
         PoolStep(w), ~Decide(w), ~CheckConflict(w)
  PROVE  AttemptsInv' /\ AttemptsBelowThreshold'
<1>1. UNCHANGED <<clock, attempts, events>>
  BY DEF PoolStep, WorkerStep, Take, Stop, ReadActual, CheckCooldown, Spawn,
         ChildStore, Verify, RecordRemediation, Finish
<1>2. ASSUME NEW v \in Worker, Pending(v)'
      PROVE  /\ Pending(v)
             /\ job'[v].drift = job[v].drift /\ job'[v].param = job[v].param
  <2>1. CASE v # w
    <3>1. pc'[v] = pc[v] /\ job'[v] = job[v]
      BY <2>1
      DEF PoolStep, WorkerStep, Take, Stop, ReadActual, CheckCooldown, Spawn,
          ChildStore, Verify, RecordRemediation, Finish, Goto, Return, TypeOK
    <3> QED
      BY <1>2, <3>1 DEF Pending
  <2>2. CASE v = w
    <3>1. CASE CheckCooldown(w)
      <4>1. job[w] \in Job
        BY <3>1 DEF CheckCooldown, TypeOK, JobOK, Drifting
      <4> QED
        BY <2>2, <3>1, <4>1 DEF CheckCooldown, Pending, TypeOK, Job
    <3>2. CASE ~CheckCooldown(w)
      BY <1>2, <2>2, <3>2
      DEF PoolStep, WorkerStep, Take, Stop, ReadActual, Spawn, ChildStore,
          Verify, RecordRemediation, Finish, Goto, Return, Pending, TypeOK
    <3> QED
      BY <3>1, <3>2
  <2> QED
    BY <2>1, <2>2
<1> QED
  BY <1>1, <1>2, AttemptsFrame

LEMMA AttemptsStep ==
  TypeOK /\ AttemptsInv /\ AttemptsBelowThreshold /\ [Next]_vars
    => AttemptsInv' /\ AttemptsBelowThreshold'
<1> SUFFICES ASSUME TypeOK, AttemptsInv, AttemptsBelowThreshold, [Next]_vars
             PROVE  AttemptsInv' /\ AttemptsBelowThreshold'
  OBVIOUS
<1>1. CASE TimeStep
  BY <1>1, TimeAttempts
<1>2. CASE KernelStep \/ Signal \/ MainStep \/ UNCHANGED vars
  <2>1. UNCHANGED <<clock, attempts, events, pc, job>>
    BY <1>2 DEF KernelStep, Signal, MainStep, MainRead, MainSend, MainBreak,
                MainExit, vars, poolVars
  <2> QED
    BY <2>1, AttemptsFrame DEF Pending
<1>3. ASSUME NEW w \in Worker, PoolStep(w)
      PROVE  AttemptsInv' /\ AttemptsBelowThreshold'
  BY <1>3, DecideAttempts, CheckConflictAttempts, OtherWorkerAttempts
<1> QED
  BY <1>1, <1>2, <1>3 DEF Next

\* No drift inside the window that led to an attempt, and none of a worker that
\* may still attempt, is ever forgotten by the conflict manager, although every
\* question prunes it (conflict.go): the invariant behind the next theorem.
THEOREM AttemptsInvHolds == Spec => [](AttemptsInv /\ AttemptsBelowThreshold)
BY AttemptsInit, AttemptsStep, TypeCorrect, PTL DEF Spec

\* The conflict brake holds for any number of workers, any window and any
\* threshold: of the drifts of a parameter inside the window, fewer than the
\* threshold have led to an attempt to remediate it.
THEOREM AttemptsStayBelowThreshold == Spec => []AttemptsBelowThreshold
BY AttemptsInvHolds, PTL

-----------------------------------------------------------------------------
(* The remediations of all workers. *)

\* Two remediations of a parameter by one worker are a cooldown apart.
WorkersAreSpaced ==
    \A r, s \in remediations :
       r # s /\ r.param = s.param /\ r.worker = s.worker
         => \/ r.at - s.at >= CooldownOf(r.param)
            \/ s.at - r.at >= CooldownOf(r.param)

LEMMA SpacedStep ==
  TypeOK /\ PacingInv /\ WorkersAreSpaced /\ [Next]_vars => WorkersAreSpaced'
<1> SUFFICES ASSUME TypeOK, PacingInv, WorkersAreSpaced, [Next]_vars
             PROVE  WorkersAreSpaced'
  OBVIOUS
<1>1. ASSUME NEW w \in Worker, RecordRemediation(w) PROVE WorkersAreSpaced'
  <2> DEFINE new == [worker |-> w, param |-> job[w].param, at |-> clock]
  <2>1. remediations' = remediations \cup {new}
    BY <1>1 DEF RecordRemediation
  <2>2. Cleared(w)
    BY <1>1 DEF RecordRemediation, Cleared, Remediating
  <2>3. \A r \in remediations :
           r.worker = w /\ r.param = job[w].param
             => new.at - r.at >= CooldownOf(r.param)
    BY <2>2 DEF PacingInv
  <2>4. new.worker = w /\ new.param = job[w].param
    OBVIOUS
  <2> HIDE DEF new
  <2> QED
    BY <2>1, <2>3, <2>4 DEF WorkersAreSpaced
<1>2. CASE \A w \in Worker : ~RecordRemediation(w)
  <2>1. UNCHANGED remediations
    BY <1>2 DEF Next, KernelStep, PoolStep, WorkerStep, MainStep, Signal, TimeStep,
                Take, Stop, ReadActual, Decide, CheckCooldown, CheckConflict,
                Spawn, ChildStore, Verify, Finish, MainRead, MainSend, MainBreak,
                MainExit, vars, poolVars
  <2> QED
    BY <2>1 DEF WorkersAreSpaced
<1> QED
  BY <1>1, <1>2

LEMMA Spaced == Spec => []WorkersAreSpaced
<1>1. Init => WorkersAreSpaced
  BY DEF Init, PoolInit, WorkersAreSpaced
<1> QED
  BY <1>1, SpacedStep, TypeCorrect, PacingHolds, PTL DEF Spec

\* With one worker, as on a machine with one cpu, the cooldown is what the
\* documents promise: no second remediation of a parameter within the window.
THEOREM OneWorkerBlocksTheSecond ==
  ASSUME \A v, w \in Worker : v = w
  PROVE  Spec => []SecondRemediationBlocked
<1>1. TypeOK /\ WorkersAreSpaced => SecondRemediationBlocked
  BY DEF TypeOK, WorkersAreSpaced, SecondRemediationBlocked
<1> QED
  BY <1>1, Spaced, TypeCorrect, PTL

\* The remediations of a parameter that its cooldown still covers.
InWindow(p) == {r \in remediations : r.param = p /\ clock - r.at < CooldownOf(p)}

\* What the documented promise becomes with several workers, as long as the
\* check and the record of the cooldown are two critical sections
\* (worker.go:136 and :174): a window holds at most as many remediations of a
\* parameter as there are workers.
AtMostOnePerWorker ==
    \A p \in Baseline : Cardinality(InWindow(p)) <= Cardinality(Worker)

\* Two remediations of a window have different workers, so that there are no
\* more of them than workers.
THEOREM WindowHoldsOnePerWorker ==
  ASSUME IsFiniteSet(Worker)
  PROVE  Spec => []AtMostOnePerWorker
<1>1. TypeOK /\ PacingInv /\ WorkersAreSpaced => AtMostOnePerWorker
  <2> SUFFICES ASSUME TypeOK, PacingInv, WorkersAreSpaced, NEW p \in Baseline
               PROVE  Cardinality(InWindow(p)) <= Cardinality(Worker)
    BY DEF AtMostOnePerWorker
  <2> DEFINE f == [r \in InWindow(p) |-> r.worker]
  <2>1. f \in [InWindow(p) -> Worker]
    BY DEF InWindow, TypeOK
  <2>2. ASSUME NEW r \in InWindow(p), NEW s \in InWindow(p), f[r] = f[s]
        PROVE  r = s
    <3>1. /\ r \in remediations /\ s \in remediations
          /\ r.param = p /\ s.param = p /\ r.worker = s.worker
          /\ clock - r.at < CooldownOf(p) /\ clock - s.at < CooldownOf(p)
      BY <2>2 DEF InWindow
    <3>2. /\ r.at \in Nat /\ s.at \in Nat /\ clock \in Nat
          /\ r.at <= clock /\ s.at <= clock
      BY <3>1 DEF TypeOK, PacingInv
    <3>3. CooldownOf(p) \in Nat
      BY CooldownIsNat
    <3>4. ~(r.at - s.at >= CooldownOf(p)) /\ ~(s.at - r.at >= CooldownOf(p))
      BY <3>1, <3>2, <3>3
    <3> QED
      BY <3>1, <3>4 DEF WorkersAreSpaced
  <2> HIDE DEF f
  <2>3. f \in Injection(InWindow(p), Worker)
    BY <2>1, <2>2 DEF Injection, IsInjective
  <2> QED
    BY <2>3, FS_Injection
<1> QED
  BY <1>1, Spaced, TypeCorrect, PacingHolds, PTL

-----------------------------------------------------------------------------
(* The policy is respected to the end. *)

Licensed(w) == /\ ~IsAllowed(job[w].process, job[w].param)
               /\ Sysctl[job[w].param].remediation # "alert"
               /\ ~job[w].cooldownApplied /\ ~job[w].conflictDetected

\* A worker whose decision still is to remediate has a licence already.
LicenceInv ==
    \A w \in Worker :
       \/ pc[w] \in {"cooldown", "conflict"} /\ job[w].action = "remediate"
       \/ pc[w] \in Remediating
       => Licensed(w)

LEMMA DecisionIsLicensed ==
  ASSUME NEW ctx, NEW entry, NEW global,
         EvaluateDecision(ctx, entry, global).action = "remediate"
  PROVE  ~ctx.isAllowedProcess /\ entry.remediation # "alert"
<1> DEFINE score  == FinalScore(ctx)
           action == ThresholdAction(score, global)
<1>1. EvaluateDecision(ctx, entry, global) =
        IF ctx.isAllowedProcess THEN [action |-> "allow", score |-> 0]
        ELSE IF action = "remediate" /\ entry.remediation = "alert"
             THEN [action |-> "alert", score |-> score]
             ELSE [action |-> action, score |-> score]
  BY DEF EvaluateDecision
<1> HIDE DEF score, action
<1> QED
  BY <1>1

LEMMA LicenceFrame ==
  ASSUME LicenceInv, NEW w \in Worker,
         \A v \in Worker : v # w => pc'[v] = pc[v] /\ job'[v] = job[v],
         \/ pc'[w] \in {"cooldown", "conflict"} /\ job'[w].action = "remediate"
         \/ pc'[w] \in Remediating
         => Licensed(w)'
  PROVE  LicenceInv'
<1> SUFFICES ASSUME NEW v \in Worker,
                    \/ /\ pc'[v] \in {"cooldown", "conflict"}
                       /\ job'[v].action = "remediate"
                    \/ pc'[v] \in Remediating
             PROVE  Licensed(v)'
  BY DEF LicenceInv
<1>1. CASE v = w
  BY <1>1
<1>2. CASE v # w
  BY <1>2 DEF LicenceInv, Licensed
<1> QED
  BY <1>1, <1>2

LEMMA LicenceStep == TypeOK /\ LicenceInv /\ [Next]_vars => LicenceInv'
<1> SUFFICES ASSUME TypeOK, LicenceInv, [Next]_vars PROVE LicenceInv'
  OBVIOUS
<1>1. CASE KernelStep \/ Signal \/ MainStep \/ TimeStep \/ UNCHANGED vars
  <2>1. UNCHANGED <<pc, job>>
    BY <1>1 DEF KernelStep, Signal, MainStep, MainRead, MainSend, MainBreak,
                MainExit, TimeStep, vars, poolVars
  <2> QED
    BY <2>1 DEF LicenceInv, Licensed
<1>2. ASSUME NEW w \in Worker, PoolStep(w) PROVE LicenceInv'
  <2>1. \A v \in Worker : v # w => pc'[v] = pc[v] /\ job'[v] = job[v]
    BY <1>2
    DEF PoolStep, WorkerStep, Take, Stop, ReadActual, Decide, CheckCooldown,
        CheckConflict, Spawn, ChildStore, Verify, RecordRemediation, Finish,
        Goto, Return, TypeOK
  <2> SUFFICES ASSUME \/ /\ pc'[w] \in {"cooldown", "conflict"}
                         /\ job'[w].action = "remediate"
                      \/ pc'[w] \in Remediating
               PROVE  Licensed(w)'
    BY <2>1, LicenceFrame
  <2>2. ~Take(w) /\ ~Stop(w) /\ ~ReadActual(w) /\ ~Finish(w)
    BY DEF Take, Stop, ReadActual, Finish, Goto, Return, Remediating, TypeOK
  <2>3. CASE Decide(w)
    <3>1. PICK intel \in Intelligence :
            /\ job'[w].action =
                 EvaluateDecision(BuildContext(job[w].process, job[w].param, intel),
                                  Sysctl[job[w].param], Global).action
            /\ job'[w].process = job[w].process /\ job'[w].param = job[w].param
            /\ job'[w].cooldownApplied = FALSE
            /\ job'[w].conflictDetected = FALSE
            /\ pc'[w] \in {"cooldown", "conflict"}
      BY <2>3 DEF Decide, Goto, TypeOK
    <3>2. job'[w].action = "remediate"
      BY <3>1 DEF Remediating
    <3>3. /\ ~BuildContext(job[w].process, job[w].param, intel).isAllowedProcess
          /\ Sysctl[job[w].param].remediation # "alert"
      BY <3>1, <3>2, DecisionIsLicensed
    <3>4. ~IsAllowed(job[w].process, job[w].param)
      BY <3>3 DEF BuildContext
    <3> QED
      BY <3>1, <3>3, <3>4 DEF Licensed, IsAllowed
  <2>4. CASE CheckCooldown(w)
    <3>1. job[w] \in Job
      BY <2>4 DEF CheckCooldown, TypeOK, JobOK, Drifting
    <3>2. /\ pc'[w] = "conflict"
          /\ job'[w].action = "remediate"
      BY <2>4 DEF CheckCooldown, Goto, Remediating, TypeOK
    <3>3. job'[w] = job[w]
      BY <2>4, <3>1, <3>2 DEF CheckCooldown, Job, TypeOK
    <3> QED
      BY <2>4, <3>2, <3>3 DEF CheckCooldown, LicenceInv, Licensed
  <2>5. CASE CheckConflict(w)
    <3>1. job[w] \in Job
      BY <2>5 DEF CheckConflict, TypeOK, JobOK, Drifting
    <3> DEFINE conflicting == IsConflicting(job[w].param, ConflictWindow,
                                            ConflictThreshold)
    <3>2. /\ pc'[w] = "spawn" /\ job[w].action = "remediate" /\ ~conflicting
      BY <2>5 DEF CheckConflict, Goto, Remediating, TypeOK
    <3>3. /\ job'[w].process = job[w].process /\ job'[w].param = job[w].param
          /\ job'[w].cooldownApplied = job[w].cooldownApplied
          /\ job'[w].conflictDetected = conflicting
      BY <2>5, <3>1 DEF CheckConflict, Job, TypeOK
    <3> HIDE DEF conflicting
    <3>4. Licensed(w)
      BY <2>5, <3>2 DEF CheckConflict, LicenceInv
    <3> QED
      BY <3>2, <3>3, <3>4 DEF Licensed, IsAllowed
  <2>6. CASE Spawn(w) \/ ChildStore(w) \/ Verify(w) \/ RecordRemediation(w)
    <3>1. pc[w] \in Remediating /\ job' = job
      BY <2>6 DEF Spawn, ChildStore, Verify, RecordRemediation, Remediating
    <3> QED
      BY <3>1 DEF LicenceInv, Licensed
  <2> QED
    BY <1>2, <2>2, <2>3, <2>4, <2>5, <2>6 DEF PoolStep, WorkerStep
<1> QED
  BY <1>1, <1>2 DEF Next

\* Whatever the statistics measure and however workers interleave, only what
\* the policy lets the agent remediate is remediated, and only while neither
\* brake has spoken.
THEOREM RemediationsAreLicensed == Spec => []RemediationIsLicensed
<1>1. Init => LicenceInv
  BY DEF Init, PoolInit, LicenceInv, Remediating
<1>2. LicenceInv => RemediationIsLicensed
  BY DEF LicenceInv, Licensed, RemediationIsLicensed
<1> QED
  BY <1>1, <1>2, LicenceStep, TypeCorrect, PTL DEF Spec

-----------------------------------------------------------------------------
(* The shutdown. *)

\* The queue is closed once the loop is left, nothing is held then, and a
\* worker that has stopped has seen the queue closed and empty.
ShutdownInv ==
    /\ mainPc # "sending" => held = NoEvent
    /\ closed <=> mainPc \in {"draining", "exited"}
    /\ \A w \in Worker : pc[w] = "stopped" => closed /\ queue = << >>
    /\ mainPc = "exited" => \A w \in Worker : pc[w] = "stopped"

LEMMA ShutdownStep == TypeOK /\ ShutdownInv /\ [Next]_vars => ShutdownInv'
<1> SUFFICES ASSUME TypeOK, ShutdownInv, [Next]_vars PROVE ShutdownInv'
  OBVIOUS
<1>1. CASE KernelStep \/ Signal \/ TimeStep \/ UNCHANGED vars
  <2>1. UNCHANGED <<mainPc, held, closed, queue, pc>>
    BY <1>1 DEF KernelStep, Signal, TimeStep, vars, poolVars, mainVars
  <2> QED
    BY <2>1 DEF ShutdownInv
<1>2. CASE MainStep
  <2>1. CASE MainRead
    BY <2>1 DEF MainRead, ShutdownInv, poolVars
  <2>2. CASE MainSend
    BY <2>2 DEF MainSend, ShutdownInv
  <2>3. CASE MainBreak
    BY <2>3 DEF MainBreak, ShutdownInv
  <2>4. CASE MainExit
    BY <2>4 DEF MainExit, ShutdownInv, poolVars
  <2> QED
    BY <1>2, <2>1, <2>2, <2>3, <2>4 DEF MainStep
<1>3. ASSUME NEW w \in Worker, PoolStep(w) PROVE ShutdownInv'
  <2>1. UNCHANGED <<mainPc, held, closed>>
    BY <1>3
    DEF PoolStep, mainVars, WorkerStep, Take, Stop, ReadActual, Decide,
        CheckCooldown, CheckConflict, Spawn, ChildStore, Verify,
        RecordRemediation, Finish
  <2>2. pc[w] # "stopped"
    BY <1>3
    DEF PoolStep, WorkerStep, Take, Stop, ReadActual, Decide, CheckCooldown,
        CheckConflict, Spawn, ChildStore, Verify, RecordRemediation, Finish
  <2>3. \A v \in Worker : v # w => pc'[v] = pc[v]
    BY <1>3
    DEF PoolStep, WorkerStep, Take, Stop, ReadActual, Decide, CheckCooldown,
        CheckConflict, Spawn, ChildStore, Verify, RecordRemediation, Finish,
        Goto, Return, TypeOK
  <2>4. mainPc # "exited"
    BY <2>2 DEF ShutdownInv
  <2>5. CASE Take(w)
    <3>1. \A v \in Worker : pc[v] # "stopped"
      BY <2>5 DEF Take, ShutdownInv
    <3>2. \A v \in Worker : pc'[v] # "stopped"
      BY <2>3, <2>5, <3>1 DEF Take, Goto, TypeOK
    <3> QED
      BY <2>1, <2>4, <3>2 DEF ShutdownInv
  <2>6. CASE Stop(w)
    BY <2>1, <2>3, <2>4, <2>6 DEF Stop, ShutdownInv
  <2>7. CASE ~Take(w) /\ ~Stop(w)
    <3>1. UNCHANGED queue /\ pc'[w] # "stopped"
      BY <1>3, <2>7
      DEF PoolStep, WorkerStep, ReadActual, Decide, CheckCooldown,
          CheckConflict, Spawn, ChildStore, Verify, RecordRemediation, Finish,
          Goto, Return, TypeOK
    <3> QED
      BY <2>1, <2>3, <2>4, <3>1 DEF ShutdownInv
  <2> QED
    BY <2>5, <2>6, <2>7
<1> QED
  BY <1>1, <1>2, <1>3 DEF Next

\* An agent that has exited has handled every event it took off a ring buffer,
\* for any number of workers, of which runtime.NumCPU promises one.
THEOREM ExitLeavesNothing ==
  ASSUME Worker # {}
  PROVE  Spec => []ExitDrained
<1>1. Init => ShutdownInv
  BY DEF Init, PoolInit, ShutdownInv
<1>2. TypeOK /\ ShutdownInv => ExitDrained
  BY DEF TypeOK, JobOK, ShutdownInv, ExitDrained
<1> QED
  BY <1>1, <1>2, ShutdownStep, TypeCorrect, PTL DEF Spec
=============================================================================
