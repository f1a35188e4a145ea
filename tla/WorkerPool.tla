----------------------------- MODULE WorkerPool -----------------------------
(***************************************************************************)
(* The worker goroutines of agent/worker.go.  processEvent is cut at every *)
(* point where another worker, the kernel or a process can slip in: each   *)
(* read of /proc/sys, each call of a manager (one critical section), and   *)
(* the three moments of the child that ApplyRemediation executes.  What a  *)
(* worker computes between two such points is local to it.                 *)
(*                                                                         *)
(*   idle -> read -> decide -> cooldown -> conflict -> spawn -> store      *)
(*        -> verify -> record -> finish -> idle                            *)
(***************************************************************************)
EXTENDS Kernel, CooldownManager, ConflictManager, Evaluator

CONSTANTS
    Worker,             \* runtime.NumCPU() of them
    Name,               \* path -> what ResolveParameter makes of its text
    ProcPath,           \* parameter -> the path the agent and sysctl use
    Sysctl,             \* the baseline: parameter -> its policy entry
    TrustedProcesses,   \* commands whose name matches trusted_processes
    Global,             \* default cooldown and thresholds
    Intelligence,       \* measurements the stats engine may come up with
    QueueSize,
    ConflictWindow, ConflictThreshold,
    Failures            \* which system calls may fail: read, exec, write

Baseline == DOMAIN Sysctl

ASSUME WorkerPoolAssumption ==
    /\ Baseline \subseteq Param
    /\ Name \in [Path -> Param \cup {NoParam}]
    /\ ProcPath \in [Param -> Path]
    /\ \A p \in Baseline : /\ Sysctl[p].expected \in Value
                           /\ Sysctl[p].cooldown \in Nat
    /\ Global.defaultCooldown \in Nat
    /\ QueueSize \in Nat \ {0}
    /\ ConflictWindow \in Nat \ {0} /\ ConflictThreshold \in Nat \ {0}
    /\ Failures \subseteq {"read", "exec", "write"}

VARIABLES
    queue, closed,      \* the eventQueue channel
    pc, job,            \* worker -> its step in processEvent, and its locals
    remediations,       \* history: the successful remediations
    attempts            \* history: parameter -> drifts that led to an attempt
poolVars == <<queue, closed, pc, job, lastRemediated, events,
              remediations, attempts>>

Steps == {"idle", "read", "decide", "cooldown", "conflict",
          "spawn", "store", "verify", "record", "finish", "stopped"}
NoJob == [param |-> NoParam]

PoolInit ==
    /\ queue = << >>
    /\ closed = FALSE
    /\ pc = [w \in Worker |-> "idle"]
    /\ job = [w \in Worker |-> NoJob]
    /\ NewCooldownManager
    /\ NewConflictManager
    /\ remediations = {}
    /\ attempts = [p \in Param |-> {}]

Goto(w, step) == pc' = [pc EXCEPT ![w] = step]
Return(w) == Goto(w, "idle") /\ job' = [job EXCEPT ![w] = NoJob]
Expected(w) == Sysctl[job[w].param].expected

-----------------------------------------------------------------------------
(* Taking an event: lines 67-88, all of it local to the worker. *)

Ignored(e) == \/ e.process = Agent
              \/ e.access # "WRITE"
              \/ Name[e.path] \notin Baseline

Take(w) ==
    /\ pc[w] = "idle"
    /\ queue # << >>
    /\ queue' = Tail(queue)
    /\ IF Ignored(Head(queue))
       THEN UNCHANGED <<pc, job>>
       ELSE /\ Goto(w, "read")
            /\ job' = [job EXCEPT ![w] = [process |-> Head(queue).process,
                                          param   |-> Name[Head(queue).path]]]
    /\ UNCHANGED <<kernelVars, clock, closed, lastRemediated, events,
                   remediations, attempts>>

\* Mutant: a worker that leaves as soon as the channel is closed.
HastyStop(w) ==
    /\ pc[w] = "idle"
    /\ closed
    /\ Goto(w, "stopped")
    /\ UNCHANGED <<kernelVars, clock, queue, closed, job, lastRemediated,
                   events, remediations, attempts>>

\* The range over a closed, drained channel ends.
Stop(w) ==
    /\ pc[w] = "idle"
    /\ closed
    /\ queue = << >>
    /\ Goto(w, "stopped")
    /\ UNCHANGED <<kernelVars, clock, queue, closed, job, lastRemediated,
                   events, remediations, attempts>>

-----------------------------------------------------------------------------
(* Comparing with the baseline and deciding: lines 90-130. *)

AgentReads(w) ==
    /\ TraceOpenat([process |-> Agent, access |-> "READ",
                    path |-> ProcPath[job[w].param]])
    /\ UNCHANGED <<current, opening, opens>>

ReadActual(w) ==
    /\ pc[w] = "read"
    /\ AgentReads(w)
    /\ \/ /\ "read" \in Failures
          /\ Return(w)
          /\ UNCHANGED unread
       \/ /\ unread' = unread \ {job[w].param}
          /\ IF current[job[w].param] = Expected(w)
             THEN Return(w)
             ELSE Goto(w, "decide") /\ UNCHANGED job
    /\ UNCHANGED <<clock, queue, closed, lastRemediated, events,
                   remediations, attempts>>

IsAllowed(process, param) == process \in Sysctl[param].allowProcesses

BuildContext(process, param, intel) ==
    [category         |-> Sysctl[param].category,
     criticality      |-> Sysctl[param].criticality,
     isTrustedProcess |-> process \in TrustedProcesses,
     isAllowedProcess |-> IsAllowed(process, param),
     hasIntel         |-> TRUE,
     intel            |-> intel]

Decide(w) ==
    /\ pc[w] = "decide"
    /\ \E intel \in Intelligence :
         LET param  == job[w].param
             action == EvaluateDecision(
                           BuildContext(job[w].process, param, intel),
                           Sysctl[param], Global).action
         IN  /\ job' = [job EXCEPT ![w] =
                          [process |-> job[w].process, param |-> param,
                           decided |-> action, action |-> action,
                           drift |-> NextStamp(param),
                           cooldownApplied |-> FALSE,
                           conflictDetected |-> FALSE]]
             /\ ConflictRecord(param)
             /\ Goto(w, IF action = "remediate" THEN "cooldown" ELSE "conflict")
    /\ UNCHANGED <<kernelVars, clock, queue, closed, lastRemediated,
                   remediations, attempts>>

-----------------------------------------------------------------------------
(* The two brakes: lines 132-159. *)

CooldownOf(param) == IF Sysctl[param].cooldown = 0 THEN Global.defaultCooldown
                                                   ELSE Sysctl[param].cooldown

CheckCooldown(w) ==
    /\ pc[w] = "cooldown"
    /\ IF InCooldown(job[w].param, CooldownOf(job[w].param))
       THEN job' = [job EXCEPT ![w].action = "alert",
                               ![w].cooldownApplied = TRUE]
       ELSE UNCHANGED job
    /\ Goto(w, "conflict")
    /\ UNCHANGED <<kernelVars, clock, queue, closed, lastRemediated, events,
                   remediations, attempts>>

CheckConflict(w) ==
    LET param       == job[w].param
        conflicting == IsConflicting(param, ConflictWindow, ConflictThreshold)
        remediate   == job[w].action = "remediate" /\ ~conflicting
    IN  /\ pc[w] = "conflict"
        /\ events' = Pruned(param, ConflictWindow)
        /\ job' = [job EXCEPT
             ![w].action = IF @ = "remediate" /\ conflicting THEN "alert" ELSE @,
             ![w].conflictDetected = conflicting]
        /\ attempts' = IF remediate
                       THEN [attempts EXCEPT ![param] = @ \cup {job[w].drift}]
                       ELSE attempts
        /\ Goto(w, IF remediate THEN "spawn" ELSE "finish")
        /\ UNCHANGED <<kernelVars, clock, queue, closed, lastRemediated,
                       remediations>>

-----------------------------------------------------------------------------
(* Executing sysctl -w, remediation.go, and what follows its success. *)

Spawn(w) ==
    /\ pc[w] = "spawn"
    /\ \/ /\ "exec" \in Failures
          /\ Goto(w, "finish")
          /\ UNCHANGED <<ring, lost>>
       \/ /\ TraceOpenat([process |-> Child, access |-> "WRITE",
                          path |-> ProcPath[job[w].param]])
          /\ Goto(w, "store")
    /\ UNCHANGED <<current, opening, opens, unread, clock, queue,
                   closed, job, lastRemediated, events, remediations, attempts>>

ChildStore(w) ==
    /\ pc[w] = "store"
    /\ \/ /\ "write" \in Failures
          /\ Goto(w, "finish")
          /\ UNCHANGED <<current, unread>>
       \/ /\ Store(job[w].param, Expected(w))
          /\ Goto(w, "verify")
    /\ UNCHANGED <<opening, opens, ring, lost, clock, queue, closed, job,
                   lastRemediated, events, remediations, attempts>>

Verify(w) ==
    /\ pc[w] = "verify"
    /\ AgentReads(w)
    /\ \/ "read" \in Failures /\ Goto(w, "finish") /\ UNCHANGED unread
       \/ /\ unread' = unread \ {job[w].param}
          /\ Goto(w, IF current[job[w].param] = Expected(w)
                     THEN "record" ELSE "finish")
    /\ UNCHANGED <<clock, queue, closed, job, lastRemediated, events,
                   remediations, attempts>>

RecordRemediation(w) ==
    /\ pc[w] = "record"
    /\ CooldownRecord(job[w].param)
    /\ remediations' = remediations
         \cup {[worker |-> w, param |-> job[w].param, at |-> clock]}
    /\ Goto(w, "finish")
    /\ UNCHANGED <<kernelVars, clock, queue, closed, job, events, attempts>>

\* Reputation update and trace: nothing another worker waits for.
Finish(w) ==
    /\ pc[w] = "finish"
    /\ Return(w)
    /\ UNCHANGED <<kernelVars, clock, queue, closed, lastRemediated, events,
                   remediations, attempts>>

WorkerStep(w) ==
    \/ Take(w) \/ Stop(w)
    \/ ReadActual(w) \/ Decide(w)
    \/ CheckCooldown(w) \/ CheckConflict(w)
    \/ Spawn(w) \/ ChildStore(w) \/ Verify(w) \/ RecordRemediation(w)
    \/ Finish(w)
=============================================================================
