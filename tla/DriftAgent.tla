----------------------------- MODULE DriftAgent -----------------------------
(***************************************************************************)
(* The running agent: the main goroutine of agent/main.go between the      *)
(* kernel's perf ring buffers and the workers, the signal that ends it,    *)
(* and time.  The control plane, which only receives traces, is left out.  *)
(***************************************************************************)
EXTENDS WorkerPool

CONSTANT Signals            \* bound: whether a run may be signalled

VARIABLES
    mainPc,             \* the main goroutine: where in the read loop it is
    held,               \* the event it has read and not yet queued
    readerClosed        \* rd.Close() was called by the signal goroutine
mainVars == <<mainPc, held, readerClosed>>
vars == <<clock, kernelVars, poolVars, mainVars>>

NoEvent == [process |-> NoParam]

Init ==
    /\ clock = 0
    /\ KernelInit
    /\ PoolInit
    /\ mainPc = "reading"
    /\ held = NoEvent
    /\ readerClosed = FALSE

-----------------------------------------------------------------------------
\* rd.Read returns a record of some cpu's buffer, decoded into a WorkEvent.
\* Records of lost samples and transient errors only make the loop go round.
MainRead ==
    /\ mainPc = "reading"
    /\ ~readerClosed
    /\ \E c \in CPU :
          /\ ring[c] # << >>
          /\ held' = Head(ring[c])
          /\ ring' = [ring EXCEPT ![c] = Tail(@)]
    /\ mainPc' = "sending"
    /\ UNCHANGED <<clock, current, opening, opens, lost, unread,
                   poolVars, readerClosed>>

\* Mutant: a send that overfills the queue.
OverfillingSend ==
    /\ mainPc = "sending"
    /\ queue' = Append(queue, held)
    /\ held' = NoEvent
    /\ mainPc' = "reading"
    /\ UNCHANGED <<clock, kernelVars, closed, pc, job, lastRemediated, events,
                   remediations, attempts, readerClosed>>

\* Mutant: a non-blocking send, which drops the event when the queue is full.
DroppingSend ==
    /\ mainPc = "sending"
    /\ queue' = IF Len(queue) < QueueSize THEN Append(queue, held) ELSE queue
    /\ held' = NoEvent
    /\ mainPc' = "reading"
    /\ UNCHANGED <<clock, kernelVars, closed, pc, job, lastRemediated, events,
                   remediations, attempts, readerClosed>>

\* eventQueue <- event: blocks while the queue is full.
MainSend ==
    /\ mainPc = "sending"
    /\ Len(queue) < QueueSize
    /\ queue' = Append(queue, held)
    /\ held' = NoEvent
    /\ mainPc' = "reading"
    /\ UNCHANGED <<clock, kernelVars, closed, pc, job, lastRemediated, events,
                   remediations, attempts, readerClosed>>

\* Mutant: the queue is never closed.
ForgetfulBreak ==
    /\ mainPc = "reading"
    /\ readerClosed
    /\ mainPc' = "draining"
    /\ UNCHANGED <<clock, kernelVars, poolVars, held, readerClosed>>

\* rd.Read returns ErrClosed: leave the loop and close the queue.
MainBreak ==
    /\ mainPc = "reading"
    /\ readerClosed
    /\ closed' = TRUE
    /\ mainPc' = "draining"
    /\ UNCHANGED <<clock, kernelVars, queue, pc, job, lastRemediated, events,
                   remediations, attempts, held, readerClosed>>

\* workersDone.Wait() returns.
MainExit ==
    /\ mainPc = "draining"
    /\ \A w \in Worker : pc[w] = "stopped"
    /\ mainPc' = "exited"
    /\ UNCHANGED <<clock, kernelVars, poolVars, held, readerClosed>>

\* SIGINT or SIGTERM: the signal goroutine closes the reader and ends.
Signal ==
    /\ Signals
    /\ ~readerClosed
    /\ readerClosed' = TRUE
    /\ UNCHANGED <<clock, kernelVars, poolVars, mainPc, held>>

MainStep == MainRead \/ MainSend \/ MainBreak \/ MainExit

KernelStep == Processes /\ UNCHANGED <<clock, poolVars, mainVars>>
PoolStep(w) == WorkerStep(w) /\ UNCHANGED mainVars
TimeStep == Tick /\ UNCHANGED <<kernelVars, poolVars, mainVars>>

Next == \/ KernelStep
        \/ \E w \in Worker : PoolStep(w)
        \/ MainStep
        \/ Signal
        \/ TimeStep

Spec == Init /\ [][Next]_vars

\* The Go scheduler runs every goroutine that can run, and the sysctl command
\* returns.  Nothing makes processes write, signals come or time pass.
Fairness == /\ WF_vars(MainStep)
            /\ \A w \in Worker : WF_vars(PoolStep(w))
FairSpec == Spec /\ Fairness

-----------------------------------------------------------------------------
Drifting == {"cooldown", "conflict", "spawn", "store", "verify", "record", "finish"}
Remediating == {"spawn", "store", "verify", "record"}

Stamp == [at : Nat, nth : Nat]
Job == [process : Source, param : Baseline, decided : Actions, action : Actions,
        drift : Stamp, cooldownApplied : BOOLEAN, conflictDetected : BOOLEAN]
TakenJob == [process : Source, param : Baseline]

JobOK(w) ==
    /\ pc[w] \in {"idle", "stopped"} => job[w] = NoJob
    /\ pc[w] \in {"read", "decide"} => job[w] \in TakenJob
    /\ pc[w] \in Drifting => job[w] \in Job

MainOK == /\ mainPc \in {"reading", "sending", "draining", "exited"}
          /\ readerClosed \in BOOLEAN
          /\ closed \in BOOLEAN
          /\ held \in Event \cup {NoEvent}
          /\ mainPc = "sending" => held \in Event

TypeOK ==
    /\ clock \in Nat
    /\ KernelTypeOK
    /\ queue \in Seq(Event) /\ Len(queue) <= QueueSize
    /\ MainOK
    /\ pc \in [Worker -> Steps]
    /\ DOMAIN job = Worker
    /\ \A w \in Worker : JobOK(w)
    /\ DOMAIN lastRemediated \subseteq Baseline
    /\ \A p \in DOMAIN lastRemediated : lastRemediated[p] \in Nat
    /\ DOMAIN events \subseteq Baseline
    /\ \A p \in DOMAIN events : events[p] \subseteq Stamp /\ IsFiniteSet(events[p])
    /\ remediations \subseteq [worker : Worker, param : Baseline, at : Nat]
    /\ attempts \in [Param -> SUBSET Stamp]

-----------------------------------------------------------------------------
(* Safety. *)

\* No worker completes two remediations of a parameter within its cooldown,
\* although it checks the cooldown long before it records the remediation and
\* other workers overwrite the record in between (worker.go:140 and :174).
Cooldown == [p \in Baseline |-> CooldownOf(p)]
Pacing == INSTANCE RemediationPacing WITH Param <- Baseline
PacedByCooldown == Pacing!Spec

\* The cooldown as the documents promise it (IMPLEMENTATION_COMPLETE.md:150,
\* QUICK_REFERENCE.md:103): a second remediation of a parameter within the
\* window is blocked, whoever attempts it.
SecondRemediationBlocked ==
    \A r, s \in remediations :
       r # s /\ r.param = s.param
         => \/ r.at - s.at >= CooldownOf(r.param)
            \/ s.at - r.at >= CooldownOf(r.param)

\* The conflict brake: of the drifts of a parameter recorded within the
\* window, fewer than the threshold ever lead to an attempt to remediate,
\* whatever the workers' interleaving and whatever the manager has pruned.
AttemptsBelowThreshold ==
    \A p \in Baseline :
       Cardinality(Recent(attempts[p], ConflictWindow)) < ConflictThreshold

\* The policy is respected to the end: a worker that remediates does so for a
\* process the entry does not allow, on an entry that is not alert-only, and
\* neither brake has spoken.
RemediationIsLicensed ==
    \A w \in Worker :
       pc[w] \in Remediating =>
          /\ ~IsAllowed(job[w].process, job[w].param)
          /\ Sysctl[job[w].param].remediation # "alert"
          /\ ~job[w].cooldownApplied /\ ~job[w].conflictDetected

\* When the agent exits, every event it took off the ring has been handled.
ExitDrained ==
    mainPc = "exited" => /\ queue = << >>
                         /\ held = NoEvent
                         /\ \A w \in Worker : job[w] = NoJob

-----------------------------------------------------------------------------
(* Why the two brakes hold: the strengthenings that are inductive. *)

\* w has passed the cooldown check, and nothing has stopped it since.
Cleared(w) == \/ pc[w] = "conflict" /\ job[w].action = "remediate"
              \/ pc[w] \in Remediating

\* The manager's record of a parameter is never older than any remediation of
\* it, whoever made it, and a worker past the check has no recent one of its
\* own: only its own step could add one.
PacingInv ==
    /\ \A r \in remediations : /\ r.at <= clock
                               /\ r.param \in DOMAIN lastRemediated
                               /\ r.at <= lastRemediated[r.param]
    /\ \A p \in DOMAIN lastRemediated : lastRemediated[p] <= clock
    /\ \A w \in Worker : Cleared(w) =>
          \A r \in remediations :
             r.worker = w /\ r.param = job[w].param
               => clock - r.at >= CooldownOf(r.param)

\* The manager may forget, but never a drift inside the window that has led,
\* or may still lead, to an attempt.
AttemptsInv ==
    /\ \A p \in Baseline :
          Recent(attempts[p], ConflictWindow) \subseteq Events(p)
    /\ \A w \in Worker : pc[w] \in {"cooldown", "conflict"} =>
          Recent({job[w].drift}, ConflictWindow) \subseteq Events(job[w].param)

-----------------------------------------------------------------------------
(* What the documents say, and the code does not do. *)

Working(w) == pc[w] \notin {"idle", "stopped"}

\* Self-event filtering: the agent does not examine the events its own
\* remediations generate (README.md:282, worker.go:13 and :68).
NoSelfEvaluation == \A w \in Worker : Working(w) => job[w].process # Child

\* Whenever a configuration change occurs, the value is compared against the
\* baseline (README.md:235): once everything has come to rest and no event was
\* lost, no drift is left that the agent never looked at.
AtRest == /\ \A w \in Worker : ~Working(w)
          /\ queue = << >> /\ mainPc = "reading" /\ ~readerClosed
          /\ \A c \in CPU : ring[c] = << >>
          /\ \A q \in Process : opening[q] = NoParam
DriftsAreCompared ==
    AtRest /\ ~lost =>
       \A p \in Baseline : current[p] # Sysctl[p].expected => p \notin unread

-----------------------------------------------------------------------------
(* Liveness, under FairSpec. *)

\* A signalled agent exits: the queue drains and every worker stops.
SignalledAgentExits == readerClosed ~> mainPc = "exited"

\* Within a conflict window the agent comes to rest: remediations whose own
\* write is seen as a drift, even when it fails each time, do not keep it busy
\* for ever.  The window is as long as the clock stands still; once it passes,
\* a write that keeps failing is tried again, fewer times than the threshold
\* in each window (AttemptsBelowThreshold).
Resting == queue = << >> /\ \A w \in Worker : pc[w] \in {"idle", "stopped"}
EventuallyRests == <>[]Resting

\* No event dies between the ring buffer and a worker, however full the queue
\* is: a write of a baseline parameter that reached a ring buffer is examined,
\* unless the agent is told to stop first.
Buffered(p) == \E c \in CPU : \E i \in DOMAIN ring[c] :
                  ~Ignored(ring[c][i]) /\ Name[ring[c][i].path] = p
Examined(p) == \E w \in Worker : pc[w] = "read" /\ job[w].param = p
BufferedWritesAreExamined ==
    \A p \in Baseline : Buffered(p) ~> Examined(p) \/ readerClosed
=============================================================================
