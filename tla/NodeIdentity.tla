---------------------------- MODULE NodeIdentity ----------------------------
(***************************************************************************)
(* The file that holds the identity of a node, agent/identity.go.  It is   *)
(* read without a lock and written in place (os.WriteFile: open with       *)
(* O_TRUNC, then write) and nothing is synced: other agents and later      *)
(* starts see what the operating system caches, a power loss leaves what   *)
(* had reached the disk.  A write is far shorter than a block and takes    *)
(* effect at once.                                                         *)
(***************************************************************************)
EXTENDS Naturals

CONSTANTS Instance,         \* agent processes that may run at the same time
          Absent,           \* there is no file
          Blank,            \* the file holds nothing, or only white space
          Unreadable        \* the file exists and reading it fails

\* Identities are random, never the same twice; the model numbers them.
NodeID == Nat \ {0}
NoID   == 0

ASSUME IdentityAssumption ==
    /\ Absent \notin Nat /\ Blank \notin Nat /\ Unreadable \notin Nat
    /\ Unreadable \notin {Absent, Blank}

VARIABLES
    pc,                     \* instance -> where main is
    nodeID,                 \* instance -> the identity it holds in memory
    file, disk,             \* the file as it is read, and as it is on the disk
    generated,              \* identities generated so far; the next is fresh
    overlapped,             \* history: two instances created the file at once
    forgotten               \* history: a power loss before the file was on disk
identityVars == <<pc, nodeID, file, disk, generated, overlapped, forgotten>>

Goto(a, step) == pc' = [pc EXCEPT ![a] = step]
Creating(a) == pc[a] \in {"create", "write"}

IdentityInit ==
    /\ pc = [a \in Instance |-> "off"]
    /\ nodeID = [a \in Instance |-> NoID]
    /\ file = Absent
    /\ disk = Absent
    /\ generated = 0
    /\ overlapped = FALSE
    /\ forgotten = FALSE

-----------------------------------------------------------------------------
\* Mutant: an identity that could not be generated is used all the same.
EmptyID == NoID

FreshID == generated + 1

\* Mutant: any error of the read counts as no file.
NothingOnFile(read) == read \in {Absent, Blank, Unreadable}

\* What was read holds no identity; only a file that does not exist may be
\* missing, every other error ends the agent.
NoIdentity(read) == read \in {Absent, Blank}

\* os.ReadFile, and what loadOrCreateNodeID makes of it.  Generating needs
\* nothing shared, so it belongs to this step.
LoadNodeID(a, read) ==
    /\ pc[a] = "load"
    /\ \/ /\ NoIdentity(read)
          /\ generated' = generated + 1
          /\ nodeID' = [nodeID EXCEPT ![a] = FreshID]
          /\ overlapped' = (overlapped \/ \E b \in Instance \ {a} : Creating(b))
          /\ Goto(a, "create")
       \/ /\ read \in NodeID
          /\ nodeID' = [nodeID EXCEPT ![a] = read]
          /\ Goto(a, "identified")
          /\ UNCHANGED <<generated, overlapped>>
    /\ UNCHANGED <<file, disk, forgotten>>

\* os.MkdirAll and the open: the file exists and is empty.
TruncateFile(a) ==
    /\ pc[a] = "create"
    /\ file' = Blank
    /\ Goto(a, "write")
    /\ UNCHANGED <<nodeID, disk, generated, overlapped, forgotten>>

WriteNodeID(a) ==
    /\ pc[a] = "write"
    /\ file' = nodeID[a]
    /\ Goto(a, "identified")
    /\ UNCHANGED <<nodeID, disk, generated, overlapped, forgotten>>

\* The operating system writes the file back, some time.
WriteBack ==
    /\ disk # file
    /\ disk' = file
    /\ UNCHANGED <<pc, nodeID, file, generated, overlapped, forgotten>>

LoseCache ==
    /\ file' = disk
    /\ forgotten' = (forgotten \/ (file \in NodeID /\ disk # file))

IdentityTypeOK ==
    /\ nodeID \in [Instance -> NodeID \cup {NoID}]
    /\ {file, disk} \subseteq NodeID \cup {Absent, Blank}
    /\ generated \in Nat
    /\ overlapped \in BOOLEAN
    /\ forgotten \in BOOLEAN
=============================================================================
