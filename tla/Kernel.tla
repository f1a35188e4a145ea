------------------------------- MODULE Kernel -------------------------------
(***************************************************************************)
(* The machine the agent watches.  /proc/sys and the processes that write  *)
(* to it are outside the repository; the eBPF program that turns their     *)
(* opens into events is ebpf/sysctl_monitor.c.                             *)
(*                                                                         *)
(* The program hangs on sys_ENTER_openat: an event exists before the file  *)
(* is open, so before the value changes, and exists as well when the       *)
(* process then writes nothing.                                            *)
(***************************************************************************)
EXTENDS Integers, Sequences, FiniteSets

CONSTANTS
    Param,              \* sysctl parameters of the machine
    Path,               \* spellings of the files processes open
    Target,             \* path -> the parameter it leads to, or NoParam
    NoParam,
    Traced,             \* paths whose text starts with "/proc/sys"
    Value,              \* values a parameter can hold
    InitialValue,       \* parameter -> the value when monitoring starts
    Process,            \* command names of the processes that open files
    Agent, Child,       \* the agent itself, and the sysctl it executes
    CPU, RingSize,      \* perf ring buffers and the events each can hold
    TracedAccess,       \* bound: the accesses whose events are kept
    MaxOpens            \* bound: the opens by Process

ASSUME KernelAssumption ==
    /\ NoParam \notin Param
    /\ Target \in [Path -> Param \cup {NoParam}]
    /\ InitialValue \in [Param -> Value]
    /\ Traced \subseteq Path
    /\ TracedAccess \subseteq {"READ", "WRITE"}
    /\ RingSize \in Nat /\ MaxOpens \in Nat
    /\ Agent \notin Process /\ Child \notin Process /\ Agent # Child

VARIABLES
    current,            \* parameter -> its value
    opening,            \* process -> the path it has open for writing, or NoParam
    opens,              \* opens so far, for the bound
    ring,               \* cpu -> its perf ring buffer
    lost,               \* history: a ring buffer overflowed
    unread              \* history: parameters stored since the agent read them
kernelVars == <<current, opening, opens, ring, lost, unread>>

Source == Process \cup {Agent, Child}
Event == [process : Source, access : {"READ", "WRITE"}, path : Path]

KernelTypeOK ==
    /\ current \in [Param -> Value]
    /\ opening \in [Process -> Path \cup {NoParam}]
    /\ opens \in 0..MaxOpens
    /\ ring \in [CPU -> Seq(Event)]
    /\ \A c \in CPU : Len(ring[c]) <= RingSize
    /\ lost \in BOOLEAN
    /\ unread \subseteq Param

KernelInit ==
    /\ current = InitialValue
    /\ opening = [q \in Process |-> NoParam]
    /\ opens = 0
    /\ ring = [c \in CPU |-> << >>]
    /\ lost = FALSE
    /\ unread = {}

-----------------------------------------------------------------------------
\* trace_openat: filter on the text of the path, then output to the ring
\* buffer of the cpu the process runs on, which drops the event when full.
TraceOpenat(e) ==
    IF e.path \in Traced /\ e.access \in TracedAccess
    THEN \E c \in CPU :
            IF Len(ring[c]) < RingSize
            THEN ring' = [ring EXCEPT ![c] = Append(@, e)] /\ UNCHANGED lost
            ELSE lost' = TRUE /\ UNCHANGED ring
    ELSE UNCHANGED <<ring, lost>>

Store(p, v) == /\ current' = [current EXCEPT ![p] = v]
               /\ unread' = unread \cup {p}

\* A process opens a file for writing.
OpenForWrite(q, f) ==
    /\ opens < MaxOpens
    /\ opening[q] = NoParam
    /\ opening' = [opening EXCEPT ![q] = f]
    /\ opens' = opens + 1
    /\ TraceOpenat([process |-> q, access |-> "WRITE", path |-> f])
    /\ UNCHANGED <<current, unread>>

\* A process opens a file for reading: all that is left of it is the event.
OpenForRead(q, f) ==
    /\ "READ" \in TracedAccess
    /\ opens < MaxOpens
    /\ opens' = opens + 1
    /\ TraceOpenat([process |-> q, access |-> "READ", path |-> f])
    /\ UNCHANGED <<current, opening, unread>>

\* It writes a value and closes the file.
Write(q) ==
    /\ opening[q] # NoParam
    /\ Target[opening[q]] # NoParam
    /\ \E v \in Value : Store(Target[opening[q]], v)
    /\ opening' = [opening EXCEPT ![q] = NoParam]
    /\ UNCHANGED <<opens, ring, lost>>

\* It closes the file without having changed anything.
Close(q) ==
    /\ opening[q] # NoParam
    /\ opening' = [opening EXCEPT ![q] = NoParam]
    /\ UNCHANGED <<current, opens, ring, lost, unread>>

Processes == \E q \in Process : \/ \E f \in Path : OpenForWrite(q, f)
                                \/ \E f \in Path : OpenForRead(q, f)
                                \/ Write(q)
                                \/ Close(q)
=============================================================================
