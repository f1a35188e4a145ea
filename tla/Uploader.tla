------------------------------ MODULE Uploader ------------------------------
(***************************************************************************)
(* The way of the traces from the workers to the control plane: EmitTrace  *)
(* of agent/observability.go and the uploader goroutine of                 *)
(* agent/controlplane/events.go, with the signal that cancels its context  *)
(* while the workers still drain their queue.  The network keeps requests  *)
(* as long as it likes, delivers them in any order, or loses them; a       *)
(* request that its sender has given up may be delivered all the same.     *)
(***************************************************************************)
EXTENDS Integers, Sequences, FiniteSets, SequencesExt

CONSTANTS Worker,
          Size,             \* capacity of the channel
          MaxTraces         \* bound: traces emitted

ASSUME UploaderAssumption == Size \in Nat \ {0} /\ MaxTraces \in Nat

VARIABLES
    agent,                  \* "running", "cancelled" by a signal, "exited"
    emitting,               \* workers with a trace to enqueue
    emitted,                \* traces so far: a trace is its number, in the
                            \* order of the calls of Enqueue
    ch,                     \* the channel
    uploader,               \* the goroutine: "select", "sending", "stopped"
    sending,                \* the trace of its request, or NoTrace
    wire,                   \* requests under way
    received,               \* the traces the control plane got, in order
    dropped,                \* history: refused by a full channel
    failed                  \* history: given up by the uploader
vars == <<agent, emitting, emitted, ch, uploader, sending, wire, received,
          dropped, failed>>

Trace == Nat \ {0}
NoTrace == 0

Init == /\ agent = "running"
        /\ emitting = {}
        /\ emitted = 0
        /\ ch = << >>
        /\ uploader = "select"
        /\ sending = NoTrace
        /\ wire = {}
        /\ received = << >>
        /\ dropped = {}
        /\ failed = {}

-----------------------------------------------------------------------------
(* The workers. *)

\* A worker comes to the end of an event, until the queue is drained.  A trace
\* that cannot be marshalled (observability.go:100) never gets here: EmitTrace
\* returns before the enqueue, and nothing is emitted.
Judge(w) ==
    /\ agent # "exited"
    /\ w \notin emitting
    /\ emitted + Cardinality(emitting) < MaxTraces
    /\ emitting' = emitting \cup {w}
    /\ UNCHANGED <<agent, emitted, ch, uploader, sending, wire, received,
                   dropped, failed>>

\* Mutant: a send that waits for room.
WaitingEnqueue(w) ==
    /\ w \in emitting
    /\ Len(ch) < Size
    /\ emitting' = emitting \ {w}
    /\ emitted' = emitted + 1
    /\ ch' = Append(ch, emitted + 1)
    /\ UNCHANGED <<agent, uploader, sending, wire, received, dropped, failed>>

\* Mutant: a full channel makes room by forgetting its oldest trace.
EvictingEnqueue(w) ==
    /\ w \in emitting
    /\ emitting' = emitting \ {w}
    /\ emitted' = emitted + 1
    /\ ch' = Append(IF Len(ch) < Size THEN ch ELSE Tail(ch), emitted + 1)
    /\ UNCHANGED <<agent, uploader, sending, wire, received, dropped, failed>>

\* EnqueueToDefault: the select with a default, which drops the trace.
Enqueue(w) ==
    /\ w \in emitting
    /\ emitting' = emitting \ {w}
    /\ emitted' = emitted + 1
    /\ IF Len(ch) < Size
       THEN ch' = Append(ch, emitted + 1) /\ UNCHANGED dropped
       ELSE dropped' = dropped \cup {emitted + 1} /\ UNCHANGED ch
    /\ UNCHANGED <<agent, uploader, sending, wire, received, failed>>

-----------------------------------------------------------------------------
(* The uploader: one request at a time, and one for each trace. *)

\* Mutant: the failed request is not forgotten.
StickyFail(t) == /\ failed' = failed \cup {t}
                 /\ uploader' = "select"
                 /\ sending' = t

Fail(t) == /\ failed' = failed \cup {t}
           /\ uploader' = "select"
           /\ sending' = NoTrace

\* The select takes a trace, even when the context is cancelled as well; the
\* request then fails before it is sent, as it does when nobody listens.
TakeTrace ==
    /\ uploader = "select"
    /\ ch # << >>
    /\ ch' = Tail(ch)
    /\ \/ /\ agent = "running"
          /\ sending' = Head(ch)
          /\ wire' = wire \cup {Head(ch)}
          /\ uploader' = "sending"
          /\ UNCHANGED failed
       \/ Fail(Head(ch)) /\ UNCHANGED wire
    /\ UNCHANGED <<agent, emitting, emitted, received, dropped>>

\* A good status: the control plane has the trace.
UploadSucceeds ==
    /\ uploader = "sending"
    /\ Contains(received, sending)
    /\ uploader' = "select"
    /\ sending' = NoTrace
    /\ UNCHANGED <<agent, emitting, emitted, ch, wire, received, dropped, failed>>

\* Mutant: a client without a timeout, which only notices a broken connection.
PatientUpload ==
    /\ uploader = "sending"
    /\ sending \notin wire
    /\ Fail(sending)
    /\ UNCHANGED <<agent, emitting, emitted, ch, wire, received, dropped>>

\* Mutant: a trace whose upload failed goes back to the channel.
RetriedUpload ==
    /\ uploader = "sending"
    /\ Len(ch) < Size
    /\ ch' = Append(ch, sending)
    /\ uploader' = "select"
    /\ sending' = NoTrace
    /\ UNCHANGED <<agent, emitting, emitted, wire, received, dropped, failed>>

\* A bad status, a broken connection, the client's timeout or a cancelled
\* context.  The trace is not tried again, and may have arrived nonetheless.
UploadFails ==
    /\ uploader = "sending"
    /\ Fail(sending)
    /\ UNCHANGED <<agent, emitting, emitted, ch, wire, received, dropped>>

\* The select sees ctx.Done(), whatever else is ready.
StopUploader ==
    /\ uploader = "select"
    /\ agent = "cancelled"
    /\ uploader' = "stopped"
    /\ UNCHANGED <<agent, emitting, emitted, ch, sending, wire, received,
                   dropped, failed>>

-----------------------------------------------------------------------------
(* The signal, the end of main, and the network. *)

Cancel ==
    /\ agent = "running"
    /\ agent' = "cancelled"
    /\ UNCHANGED <<emitting, emitted, ch, uploader, sending, wire, received,
                   dropped, failed>>

\* workersDone.Wait() returns and main with it; nobody waits for the uploader.
Exit ==
    /\ agent = "cancelled"
    /\ emitting = {}
    /\ agent' = "exited"
    /\ uploader' = "stopped"
    /\ sending' = NoTrace
    /\ UNCHANGED <<emitting, emitted, ch, wire, received, dropped, failed>>

Receive(t) ==
    /\ wire' = wire \ {t}
    /\ received' = Append(received, t)
    /\ UNCHANGED <<agent, emitting, emitted, ch, uploader, sending, dropped, failed>>

Lose(t) ==
    /\ wire' = wire \ {t}
    /\ UNCHANGED <<agent, emitting, emitted, ch, uploader, sending, received,
                   dropped, failed>>

UploaderStep == TakeTrace \/ UploadSucceeds \/ UploadFails \/ StopUploader

Next == \/ \E w \in Worker : Judge(w) \/ Enqueue(w)
        \/ UploaderStep
        \/ Cancel \/ Exit
        \/ \E t \in wire : Receive(t) \/ Lose(t)

Spec == Init /\ [][Next]_vars

\* Workers and uploader run and timers expire; nothing is assumed of the network,
\* the control plane or signals.
Fairness == /\ \A w \in Worker : WF_vars(Enqueue(w))
            /\ WF_vars(UploaderStep)
FairSpec == Spec /\ Fairness

-----------------------------------------------------------------------------
TypeOK == /\ agent \in {"running", "cancelled", "exited"}
          /\ emitting \subseteq Worker
          /\ emitted \in Nat
          /\ ch \in Seq(Trace) /\ Len(ch) <= Size
          /\ uploader \in {"select", "sending", "stopped"}
          /\ sending \in Trace \cup {NoTrace}
          /\ (uploader = "sending") = (sending # NoTrace)
          /\ wire \subseteq Trace
          /\ received \in Seq(Trace)
          /\ dropped \subseteq Trace /\ failed \subseteq Trace

\* The control plane gets a trace at most once, and one enqueued before another
\* arrives before it, unless the uploader had given up on it (events.go:44).
OnceAndInOrder ==
    \A i, j \in DOMAIN received : i < j =>
       \/ received[i] < received[j]
       \/ received[j] \in failed /\ received[i] # received[j]

\* Why: the channel holds, in order, traces younger than all that the uploader
\* has tried, and of the requests under way only the youngest is not given up.
Tried == wire \cup ToSet(received) \cup failed \cup ({sending} \ {NoTrace})
OrderInv ==
    /\ \A i, j \in DOMAIN ch : i < j => ch[i] < ch[j]
    /\ \A i \in DOMAIN ch : ch[i] <= emitted /\ \A t \in Tried : t < ch[i]
    /\ \A t \in Tried : t <= emitted
    /\ wire \cap ToSet(received) = {}
    /\ \A t \in wire \ failed, s \in wire \cup ToSet(received) : s <= t
    /\ uploader = "select" => wire \subseteq failed
    /\ uploader = "sending" => wire \ failed \subseteq {sending}

\* Until a signal, each trace that was emitted is accounted for: it waits, is on
\* its way, has arrived, was refused by a full channel, or its upload failed.
NothingVanishes ==
    agent = "running" =>
       1 .. emitted = ToSet(ch) \cup ToSet(received) \cup dropped \cup failed
                      \cup ({sending} \ {NoTrace})

\* A worker never waits for the control plane, not even when that is silent,
\* the channel full and the uploader gone (observability.go:108, events.go:68).
WorkersNeverWait == \A w \in Worker : w \in emitting ~> w \notin emitting

\* However silent the control plane, what the channel has accepted is tried,
\* unless a signal comes first.
AcceptedAreTried ==
    \A t \in 1 .. MaxTraces : Contains(ch, t) ~> ~Contains(ch, t) \/ agent # "running"
=============================================================================
