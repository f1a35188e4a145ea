--------------------------- MODULE AgentLifecycle ---------------------------
(***************************************************************************)
(* The life of an agent process, agent/main.go: its start, step by step,   *)
(* up to the reading of events, its end by a signal, a failed step, a      *)
(* crash or a power loss, and the next start.  Beside it run the control   *)
(* plane, which answers or not, and the processes that change parameters.  *)
(*                                                                         *)
(*   off -> load (-> create -> write) -> identified (-> registering)       *)
(*       -> policy -> validate -> reader -> serve -> running -> closing    *)
(*       -> off                                                            *)
(*                                                                         *)
(* A process that changes a parameter opens its file, which is when the    *)
(* event is, and stores a value later, or several, or none.  The file may  *)
(* have been open before the agent was there.  An event that has reached   *)
(* a reader is pending until it is examined; the perf buffers, the queue   *)
(* and the workers on its way are DriftAgent, and here it may be lost.     *)
(***************************************************************************)
EXTENDS NodeIdentity, Sequences

CONSTANTS Param,            \* the parameters of the baseline
          Unspecified,      \* those whose entry has an empty expected value
          Failures,         \* reads that may fail: of the "file", of a "param"
          Configured,       \* instances that are given a control plane URL
          Plane,            \* the control plane: "answering" or "silent"
          Brief,            \* bound: instances not followed past registration
          MaxStarts,        \* bound: instance -> its starts
          MaxOpens          \* bound: opens of files for writing

ASSUME LifecycleAssumption == /\ Unspecified \subseteq Param
                              /\ Failures \subseteq {"file", "param"}
                              /\ Configured \subseteq Instance
                              /\ Plane \in {"answering", "silent"}
                              /\ Brief \subseteq Instance
                              /\ MaxStarts \in [Instance -> Nat]
                              /\ MaxOpens \in Nat

VARIABLES
    starts,                 \* instance -> its starts, for the bound
    opens,                  \* the parameters whose files were opened, in order
    unclosed,               \* opens whose file is still open
    unseen,                 \* history: drifts not compared since they were stored
    todo,                   \* instance -> parameters it has yet to validate
    heard,                  \* history: instance -> opens whose event reached it
    pending,                \* instance -> those of them it has yet to examine
    skipped,                \* history: instance -> those it could not compare
    unheard,                \* history: instance -> those stored, with no event to
                            \*    come, by an open that it has not heard of
    outrun,                 \* history: instance -> those stored, with no event to
                            \*    come, by an open that it has examined
    beat,                   \* instance -> its heartbeat goroutine
    announced               \* history: identities in requests that were sent
fileVars == <<opens, unclosed>>
eventVars == <<heard, pending>>
accountVars == <<skipped, unheard, outrun>>
monitorVars == <<unseen, todo, eventVars, accountVars>>
planeVars == <<beat, announced>>
vars == <<identityVars, starts, fileVars, monitorVars, planeVars>>

PhaseSeq == <<"load", "create", "write", "identified", "registering", "policy",
              "validate", "reader", "serve", "running", "closing">>
Phases == {"off"} \cup {PhaseSeq[i] : i \in DOMAIN PhaseSeq}

Init ==
    /\ IdentityInit
    /\ starts = [a \in Instance |-> 0]
    /\ \E n \in 0 .. MaxOpens : opens \in [1 .. n -> Param]
    /\ unclosed = DOMAIN opens
    /\ unseen \in SUBSET Param
    /\ todo    = [a \in Instance |-> {}]
    /\ heard   = [a \in Instance |-> {}]
    /\ pending = [a \in Instance |-> {}]
    /\ skipped = [a \in Instance |-> {}]
    /\ unheard = [a \in Instance |-> {}]
    /\ outrun  = [a \in Instance |-> {}]
    /\ beat = [a \in Instance |-> "none"]
    /\ announced = {}

-----------------------------------------------------------------------------
(* The start: identity, registration, policy. *)

Start(a) ==
    /\ pc[a] = "off"
    /\ starts[a] < MaxStarts[a]
    /\ starts' = [starts EXCEPT ![a] = @ + 1]
    /\ Goto(a, "load")
    /\ UNCHANGED <<nodeID, file, disk, generated, overlapped, forgotten,
                   fileVars, monitorVars, planeVars>>

Identify(a) ==
    /\ \/ LoadNodeID(a, file)
       \/ "file" \in Failures /\ file # Absent /\ LoadNodeID(a, Unreadable)
       \/ TruncateFile(a)
       \/ WriteNodeID(a)
    /\ UNCHANGED <<starts, fileVars, monitorVars, planeVars>>

\* NewControlPlaneClient and RegisterNode, unless there is no URL.
Register(a) ==
    /\ pc[a] = "identified"
    /\ IF a \in Configured
       THEN /\ announced' = announced \cup {nodeID[a]}
            /\ Goto(a, "registering")
       ELSE /\ Goto(a, "policy")
            /\ UNCHANGED announced
    /\ UNCHANGED <<nodeID, file, disk, generated, overlapped, forgotten,
                   starts, fileVars, monitorVars, beat>>

\* Mutant: a client and a context without a timeout.
Answers(plane) == plane = "answering"

\* A request ends with an answer, an error, or else the timeout of the client.
RequestEnds(plane) == plane \in {"answering", "silent"}

\* RegisterNode returns; main goes on whatever it returned.
RegisterReturns(a) ==
    /\ pc[a] = "registering"
    /\ RequestEnds(Plane)
    /\ Goto(a, "policy")
    /\ UNCHANGED <<nodeID, file, disk, generated, overlapped, forgotten,
                   starts, fileVars, monitorVars, planeVars>>

LoadPolicy(a) ==
    /\ pc[a] = "policy"
    /\ a \notin Brief
    /\ todo' = [todo EXCEPT ![a] = Param]
    /\ Goto(a, "validate")
    /\ UNCHANGED <<nodeID, file, disk, generated, overlapped, forgotten,
                   starts, fileVars, unseen, eventVars, accountVars,
                   planeVars>>

-----------------------------------------------------------------------------
(* Start-up validation, and the way from there to the first event. *)

\* One turn of the loop of RunStartupValidation, which ranges over a map and so
\* in any order.  A drift is reported and nothing else.
ValidateParam(a, p) ==
    /\ pc[a] = "validate"
    /\ p \in todo[a]
    /\ todo' = [todo EXCEPT ![a] = @ \ {p}]
    /\ \E failed \in {FALSE, "param" \in Failures} :
          IF failed \/ p \in Unspecified
          THEN /\ skipped' = [skipped EXCEPT ![a] = @ \cup {p}]
               /\ UNCHANGED unseen
          ELSE /\ unseen' = unseen \ {p}
               /\ UNCHANGED skipped
    /\ UNCHANGED <<identityVars, starts, fileVars, eventVars, unheard, outrun,
                   planeVars>>

\* Mutant: the validation may end early, at a parameter it cannot read.
AttachAnyway(a) ==
    /\ pc[a] = "validate"
    /\ todo' = [todo EXCEPT ![a] = {}]
    /\ Goto(a, "reader")
    /\ UNCHANGED <<nodeID, file, disk, generated, overlapped, forgotten,
                   starts, fileVars, unseen, eventVars, accountVars, planeVars>>

\* The end of the validation, and then loading the program and attaching it to
\* the tracepoint.  Its events have nowhere to go yet.
AttachTracepoint(a) ==
    /\ pc[a] = "validate"
    /\ todo[a] = {}
    /\ Goto(a, "reader")
    /\ UNCHANGED <<nodeID, file, disk, generated, overlapped, forgotten,
                   starts, fileVars, monitorVars, planeVars>>

\* perf.NewReader gives the program its ring buffers.
NewReader(a) ==
    /\ pc[a] = "reader"
    /\ Goto(a, "serve")
    /\ UNCHANGED <<nodeID, file, disk, generated, overlapped, forgotten,
                   starts, fileVars, monitorVars, planeVars>>

\* The signal goroutine, the heartbeats, the uploader and the workers start.
Serve(a) ==
    /\ pc[a] = "serve"
    /\ beat' = [beat EXCEPT ![a] = IF a \in Configured THEN "waiting" ELSE "none"]
    /\ Goto(a, "running")
    /\ UNCHANGED <<nodeID, file, disk, generated, overlapped, forgotten,
                   starts, fileVars, monitorVars, announced>>
-----------------------------------------------------------------------------
(* Monitoring, and the end of a process. *)

\* A worker that has the event of the n-th open reads the value and compares
\* it, unless it cannot read it.
Examine(a, n) ==
    /\ pc[a] \in {"running", "closing"}
    /\ n \in pending[a]
    /\ pending' = [pending EXCEPT ![a] = @ \ {n}]
    /\ unheard' = [unheard EXCEPT ![a] = @ \ {opens[n]}]
    /\ outrun'  = [outrun  EXCEPT ![a] = @ \ {opens[n]}]
    /\ \/ /\ skipped' = [skipped EXCEPT ![a] = @ \ {opens[n]}]
          /\ unseen' = unseen \ {opens[n]}
       \/ /\ "param" \in Failures
          /\ skipped' = [skipped EXCEPT ![a] = @ \cup {opens[n]}]
          /\ UNCHANGED unseen
    /\ UNCHANGED <<identityVars, starts, fileVars, todo, heard, planeVars>>

\* SIGINT or SIGTERM: the reader is closed with the events that are still in
\* its ring buffers, the heartbeats are cancelled, the queue is drained.
Signal(a) ==
    /\ pc[a] = "running"
    /\ \E queued \in SUBSET pending[a] :
          pending' = [pending EXCEPT ![a] = queued]
    /\ Goto(a, "closing")
    /\ UNCHANGED <<nodeID, file, disk, generated, overlapped, forgotten,
                   starts, fileVars, unseen, todo, heard, accountVars,
                   planeVars>>

\* The processes A are gone, with all they had in memory.
Forget(f, A) == [a \in Instance |-> IF a \in A THEN {} ELSE f[a]]
Gone(A) ==
    /\ pc'      = [a \in Instance |-> IF a \in A THEN "off" ELSE pc[a]]
    /\ nodeID'  = [a \in Instance |-> IF a \in A THEN NoID ELSE nodeID[a]]
    /\ todo'    = Forget(todo, A)
    /\ heard'   = Forget(heard, A)
    /\ pending' = Forget(pending, A)
    /\ skipped' = Forget(skipped, A)
    /\ unheard' = Forget(unheard, A)
    /\ outrun'  = Forget(outrun, A)
    /\ beat'    = [a \in Instance |-> IF a \in A THEN "none" ELSE beat[a]]

Exit(a) ==
    /\ pc[a] = "closing"
    /\ pending[a] = {}
    /\ Gone({a})
    /\ UNCHANGED <<file, disk, generated, overlapped, forgotten, starts,
                   fileVars, unseen, announced>>

\* A step of the start that fails (os.Exit), a kill, or a signal that comes
\* before signal.Notify: at any point, the process is gone.
Die(a) ==
    /\ pc[a] # "off"
    /\ Gone({a})
    /\ UNCHANGED <<file, disk, generated, overlapped, forgotten, starts,
                   fileVars, unseen, announced>>

\* The machine stops at once and comes up again, with parameters set anew.
PowerLoss ==
    /\ Gone(Instance)
    /\ LoseCache
    /\ unclosed' = {}
    /\ unseen' \in SUBSET Param
    /\ UNCHANGED <<disk, generated, overlapped, starts, opens, announced>>

-----------------------------------------------------------------------------
(* The environment: parameters, the heartbeat goroutine, the control plane. *)

\* The reader exists, so an event waits in a ring buffer until it is read.
Watching(a) == pc[a] \in {"serve", "running"}

\* Some process opens the file of a parameter for writing.  The tracepoint is on
\* the entry of openat, so the event is now, for those who watch and whose ring
\* buffer has room for it.
OpenParam(p) ==
    /\ Len(opens) < MaxOpens
    /\ opens' = Append(opens, p)
    /\ unclosed' = unclosed \cup {Len(opens) + 1}
    /\ \E told \in SUBSET {a \in Instance : Watching(a)} :
          /\ heard' = [a \in Instance |->
                         heard[a] \cup IF a \in told THEN {Len(opens) + 1} ELSE {}]
          /\ pending' = [a \in Instance |->
                           pending[a] \cup IF a \in told THEN {Len(opens) + 1} ELSE {}]
    /\ UNCHANGED <<identityVars, starts, unseen, todo, accountVars, planeVars>>

\* Parameters of which a has an event to examine.
Awaited(a) == {opens[n] : n \in pending[a]}

\* a's validation is past p, and no event will make a look at it again.
Past(a, p) == /\ \/ pc[a] = "validate" /\ p \notin todo[a]
                 \/ pc[a] = "reader" \/ Watching(a)
              /\ p \notin Awaited(a)

\* In f, p is one of those of the instances A, and of no other's.
Marked(f, A, p) ==
    [a \in Instance |-> IF a \in A THEN f[a] \cup {p} ELSE f[a] \ {p}]

\* The process sets the parameter, to the expected value or to another one, by
\* the file it has open; it may do so again.
StoreParam(n) ==
    LET p    == opens[n]
        past == {a \in Instance : Past(a, p)}
    IN  /\ n \in unclosed
        /\ unseen' \in {unseen \cup {p}, unseen \ {p}}
        /\ skipped' = Marked(skipped, {}, p)
        /\ unheard' = Marked(unheard, {a \in past : n \notin heard[a]}, p)
        /\ outrun'  = Marked(outrun, {a \in past : n \in heard[a]}, p)
        /\ UNCHANGED <<identityVars, starts, fileVars, todo, eventVars, planeVars>>

CloseParam(n) ==
    /\ n \in unclosed
    /\ unclosed' = unclosed \ {n}
    /\ UNCHANGED <<identityVars, starts, opens, monitorVars, planeVars>>

\* send() of the heartbeat goroutine, at once and then at each tick.
SendHeartbeat(a) ==
    /\ pc[a] = "running"
    /\ beat[a] = "waiting"
    /\ beat' = [beat EXCEPT ![a] = "sending"]
    /\ announced' = announced \cup {nodeID[a]}
    /\ UNCHANGED <<identityVars, starts, fileVars, monitorVars>>

\* Mutant: a heartbeat loop that gives up after an error.
BeatAfterError == "none"

BeatAfter == "waiting"

\* SendHeartbeat returns: an answer, an error, or the timeout of the client.
HeartbeatReturns(a) ==
    /\ beat[a] = "sending"
    /\ RequestEnds(Plane)
    /\ beat' = [beat EXCEPT ![a] = BeatAfter]
    /\ UNCHANGED <<identityVars, starts, fileVars, monitorVars, announced>>

\* ctx.Done(): the loop ends.
StopHeartbeats(a) ==
    /\ pc[a] = "closing"
    /\ beat[a] = "waiting"
    /\ beat' = [beat EXCEPT ![a] = "none"]
    /\ UNCHANGED <<identityVars, starts, fileVars, monitorVars, announced>>

-----------------------------------------------------------------------------
MainStep(a) ==
    \/ Identify(a) \/ Register(a) \/ RegisterReturns(a) \/ LoadPolicy(a)
    \/ \E p \in Param : ValidateParam(a, p)
    \/ AttachTracepoint(a) \/ NewReader(a) \/ Serve(a)
HeartbeatStep(a) == SendHeartbeat(a) \/ HeartbeatReturns(a) \/ StopHeartbeats(a)
WorkersStep(a) == (\E n \in DOMAIN opens : Examine(a, n)) \/ Exit(a)

Next ==
    \/ \E a \in Instance : \/ Start(a) \/ MainStep(a) \/ HeartbeatStep(a)
                           \/ WorkersStep(a) \/ Signal(a) \/ Die(a)
    \/ \E p \in Param : OpenParam(p)
    \/ \E n \in DOMAIN opens : StoreParam(n) \/ CloseParam(n)
    \/ PowerLoss
    \/ WriteBack /\ UNCHANGED <<starts, fileVars, monitorVars, planeVars>>

Spec == Init /\ [][Next]_vars

\* The goroutines of a process run, and so do its timers, so that each request
\* ends.  Nothing is assumed of the control plane, the disk, or who starts it.
Fairness == \A a \in Instance : /\ WF_vars(MainStep(a))
                                /\ WF_vars(HeartbeatStep(a))
                                /\ WF_vars(WorkersStep(a))
FairSpec == Spec /\ Fairness

-----------------------------------------------------------------------------
TypeOK ==
    /\ IdentityTypeOK
    /\ pc \in [Instance -> Phases]
    /\ starts \in [Instance -> Nat]
    /\ opens \in Seq(Param) /\ Len(opens) <= MaxOpens
    /\ unclosed \subseteq DOMAIN opens
    /\ unseen \subseteq Param
    /\ {todo, skipped, unheard, outrun} \subseteq [Instance -> SUBSET Param]
    /\ {heard, pending} \subseteq [Instance -> SUBSET DOMAIN opens]
    /\ \A a \in Instance : pending[a] \subseteq heard[a]
    /\ beat \in [Instance -> {"none", "waiting", "sending"}]
    /\ announced \subseteq NodeID
    /\ \A a \in Instance :
          pc[a] \notin {"off", "load"} => nodeID[a] \in NodeID

\* The identity of a machine (identity.go:16 and :26): through any number of
\* starts, crashes at any point and errors of the file system, the control
\* plane gets to know one identity only, unless two agents created the file at
\* the same time or the power failed before it was on the disk.
OneIdentity ==
    ~overlapped /\ ~forgotten => \A x, y \in announced : x = y

\* Why: until the file holds an identity one instance at most is creating it,
\* and from then on nothing else is in it, in memory, or in a request.
IdentityInv ==
    ~overlapped /\ ~forgotten =>
       /\ \A a, b \in Instance : Creating(a) /\ Creating(b) => a = b
       /\ \A a \in Instance : Creating(a) => file \notin NodeID
       /\ \A a \in Instance :
             pc[a] \notin {"off", "load"} /\ ~Creating(a) => nodeID[a] = file
       /\ disk \in NodeID => disk = file
       /\ announced \subseteq {file}

\* What accounts for a drift that a's validation has passed and a has not seen.
Excused(a) == Awaited(a) \cup skipped[a] \cup unheard[a] \cup outrun[a]

\* Start-up validation catches the drifts from before the launch, and events
\* the ones from then on (startup_validator.go:7).  What an agent that monitors
\* has not compared, with no event of it to come, could not be read or has
\* nothing to be compared with, or was stored after the validation had passed it
\* in one of two ways: by a file whose open the agent was not told of, because
\* its reader did not exist yet (main.go:140) or its ring buffer was full; or by
\* a file whose open it had examined before (sysctl_monitor.c:56).
MissedOnlyUnheardOrOutrun ==
    \A a \in Instance : Watching(a) => unseen \subseteq Excused(a)

\* The same, told of the whole start: what is unseen has yet to be validated,
\* or an event of it to be examined, or is one of those.
AccountInv ==
    \A a \in Instance :
       /\ pc[a] \in {"validate", "reader", "serve", "running"} =>
             unseen \subseteq todo[a] \cup Excused(a)
       /\ pc[a] \in {"reader", "serve", "running"} => todo[a] = {}

\* A control plane that does not answer keeps no agent from its work: one that
\* has started monitors, or is gone (main.go:74, best-effort).
SilentPlaneBlocksNoStart ==
    \A a \in Instance \ Brief : pc[a] = "load" ~> pc[a] \in {"running", "off"}

\* As long as the agent monitors, it goes on sending heartbeats, whether or not
\* its registration or an earlier one was answered (heartbeat.go:17).
Beating(a) == pc[a] = "running" /\ a \in Configured
HeartbeatsGoOn ==
    \A a \in Instance : /\ []<>(Beating(a) => beat[a] = "sending")
                        /\ []<>(Beating(a) => beat[a] = "waiting")
=============================================================================
