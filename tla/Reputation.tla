----------------------------- MODULE Reputation -----------------------------
(***************************************************************************)
(* The reputation of processes, stats/reputation.go.  Workers read and     *)
(* update the entries concurrently: the map has a lock, each entry another *)
(* one, and between the two a cleanup may remove the entry.  The stamps    *)
(* are taken before either lock, so an entry meets them in any order.      *)
(*                                                                         *)
(*   idle -> due -> [claim -> evict] -> lookup -> [create] -> touch        *)
(*        -> apply -> idle                                                 *)
(*                                                                         *)
(* Scores are small integers.  A decay takes the score nearer to neutral   *)
(* by an amount left open; the time it stands for is kept instead, in the  *)
(* fields newest, covered and inOrder, which are history: the latest stamp *)
(* an entry has met, the time up to which its score has decayed, counting  *)
(* twice what is decayed twice, and whether its stamps came in order.      *)
(* The counters and stableSince of an entry only go into traces and are    *)
(* left out.  Touch and Evict are each one step, though the cleanup may    *)
(* hold the lock of the map while lastSeen is stored: the store falls      *)
(* before or after the comparison, and so before or after the cleanup.     *)
(***************************************************************************)
EXTENDS Clock, FiniteSets, FiniteSetsExt

CONSTANTS Process, Thread,
          RawConfigs,       \* [initial, min, max, neutral] as configured
          Half, One,        \* the scores 0.5 and 1
          Weight,           \* the reward and the penalties
          Updates,          \* the updates workers report
          EntryTTL, CleanupInterval, MaxEntries,
          NoProcess

WeightFields == {"reward", "drift", "alert", "remediate", "cooldown", "conflict",
                 "medium", "high"}

ASSUME ReputationAssumption ==
    /\ IsFiniteSet(Process) /\ IsFiniteSet(Thread) /\ NoProcess \notin Process
    /\ Half \in Nat /\ One \in Nat /\ 0 < Half /\ Half < One
    /\ \A c \in RawConfigs : {c.initial, c.min, c.max, c.neutral} \subseteq Int
    /\ Weight \in [WeightFields -> Nat \ {0}]
    /\ {EntryTTL, CleanupInterval, MaxEntries} \subseteq Nat \ {0}
    /\ MaxTime # 0      \* the clock starts at 1: the stamp 0 stands for none

VARIABLES
    cfg,                \* the configuration, normalised
    entries,            \* the map: process -> entry
    rec,                \* entry -> its contents
    lastCleanup,        \* stamp of the last cleanup, or 0
    pc, call,           \* thread -> its step, and its locals
    evicted             \* history: the entries a cleanup has removed
shared == <<cfg, entries, rec, lastCleanup>>
vars == <<clock, shared, pc, call, evicted>>

\* One entry for each process and one for each thread that still holds a
\* removed one: nothing refers to more.
Entry == 1 .. Cardinality(Process) + Cardinality(Thread)

AtMost(a, b) == IF a <= b THEN a ELSE b
AtLeast(a, b) == IF a >= b THEN a ELSE b

-----------------------------------------------------------------------------
(* Configuration and scores. *)

\* Mutant: the neutral score may lie outside the bounds.
UnclampedNeutral(neutral, min, max) == neutral

ClampedNeutral(neutral, min, max) == AtMost(AtLeast(neutral, min), max)

\* withDefaults: what is not set gets a default, and the rest is made to fit.
Normalised(raw) ==
    LET Given(x, default) == IF x <= 0 THEN default ELSE x
        min == AtLeast(raw.min, 0)
        max == AtLeast(Given(raw.max, One), min)
    IN  [min     |-> min,
         max     |-> max,
         neutral |-> ClampedNeutral(Given(raw.neutral, Half), min, max),
         initial |-> AtMost(AtLeast(Given(raw.initial, Half), min), max)]

Clamp(score) == AtMost(AtLeast(score, cfg.min), cfg.max)

\* Mutant: the score decays, but the time it has decayed to is not noted.
ForgottenDecayTime(r, now) == r.last

DecayTime(r, now) == now

\* A stamp not after the last update decays nothing.
Decayed(r, now) ==
    IF now <= r.last THEN {r}
    ELSE {[r EXCEPT !.score = s, !.last = DecayTime(r, now),
                    !.covered = @ + (now - r.last)] :
             s \in AtMost(r.score, cfg.neutral) .. AtLeast(r.score, cfg.neutral)}

Stable(u) == ~u.drift /\ u.anomaly # "high" /\ u.burst # "high"

ActionPenalty(action) ==
    CASE action = "alert" -> Weight.alert [] action = "remediate" -> Weight.remediate
      [] OTHER -> 0

SeverityPenalty(severity) ==
    CASE severity = "high" -> Weight.high [] severity = "medium" -> Weight.medium
      [] OTHER -> 0

Penalty(u) ==
    (IF u.drift THEN Weight.drift ELSE 0)
  + ActionPenalty(u.action)
  + (IF u.cooldown THEN Weight.cooldown ELSE 0)
  + (IF u.conflict THEN Weight.conflict ELSE 0)
  + SeverityPenalty(u.anomaly)
  + SeverityPenalty(u.burst)

\* The reward of stable behaviour comes first; the penalties, each of them
\* clamped, add up to one.
Rated(score, u) ==
    Clamp((IF Stable(u) THEN Clamp(score + Weight.reward) ELSE score) - Penalty(u))

-----------------------------------------------------------------------------
(* Get and Update, with the cleanup either may have to run. *)

\* What a call without an update asks for.
Get == [action |-> "get"]

Idle == [process |-> NoProcess, now |-> 0, update |-> Get, last |-> 0, entry |-> 0]

Init == /\ clock = 1
        /\ cfg \in {Normalised(raw) : raw \in RawConfigs}
        /\ entries = [p \in {} |-> 0]
        /\ rec = [e \in {} |-> 0]
        /\ lastCleanup = 0
        /\ pc = [t \in Thread |-> "idle"]
        /\ call = [t \in Thread |-> Idle]
        /\ evicted = {}

Goto(t, step) == pc' = [pc EXCEPT ![t] = step]

Call(t, p, update) ==
    /\ pc[t] = "idle"
    /\ Goto(t, "due")
    /\ call' = [call EXCEPT ![t] = [Idle EXCEPT !.process = p, !.now = clock,
                                                !.update = update]]
    /\ UNCHANGED <<clock, shared, evicted>>

CheckDue(t) ==
    /\ pc[t] = "due"
    /\ IF lastCleanup # 0 /\ call[t].now - lastCleanup < CleanupInterval
       THEN Goto(t, "lookup") /\ UNCHANGED call
       ELSE Goto(t, "claim") /\ call' = [call EXCEPT ![t].last = lastCleanup]
    /\ UNCHANGED <<clock, shared, evicted>>

Claim(t) ==
    /\ pc[t] = "claim"
    /\ call' = [call EXCEPT ![t].last = 0]
    /\ IF lastCleanup = call[t].last
       THEN Goto(t, "evict") /\ lastCleanup' = call[t].now
       ELSE Goto(t, "lookup") /\ UNCHANGED lastCleanup
    /\ UNCHANGED <<clock, cfg, entries, rec, evicted>>

Held(threads) == {call[t].entry : t \in threads} \ {0}
Kept(map, threads) == {map[p] : p \in DOMAIN map} \cup Held(threads)

\* Under the lock of the map: the expired go, and if there are still too
\* many, arbitrary ones as well.
Evict(t) ==
    LET fresh == {p \in DOMAIN entries :
                    rec[entries[p]].seen >= call[t].now - EntryTTL}
        room  == AtMost(Cardinality(fresh), MaxEntries)
    IN  /\ pc[t] = "evict"
        /\ Goto(t, "lookup")
        /\ \E stay \in kSubset(room, fresh) :
              LET map  == [p \in stay |-> entries[p]]
                  kept == Kept(map, Thread)
              IN  /\ entries' = map
                  /\ rec' = [e \in kept |-> rec[e]]
                  /\ evicted' = kept \ {map[p] : p \in stay}
        /\ UNCHANGED <<clock, cfg, lastCleanup, call>>

Takes(t, e) == Goto(t, "touch") /\ call' = [call EXCEPT ![t].entry = e]

\* Under the read lock.
Lookup(t) ==
    /\ pc[t] = "lookup"
    /\ IF call[t].process \in DOMAIN entries
       THEN Takes(t, entries[call[t].process])
       ELSE Goto(t, "create") /\ UNCHANGED call
    /\ UNCHANGED <<clock, shared, evicted>>

\* Mutant: somebody else may have created the entry, but nobody looks.
NobodyElseCreated(t) == FALSE

CreatedMeanwhile(t) == call[t].process \in DOMAIN entries

\* Under the write lock.
Create(t) ==
    LET p     == call[t].process
        e     == Min(Entry \ DOMAIN rec)
        now   == call[t].now
        fresh == [score |-> cfg.initial, last |-> now, seen |-> now,
                  newest |-> now, covered |-> now, inOrder |-> TRUE]
    IN  /\ pc[t] = "create"
        /\ IF CreatedMeanwhile(t)
           THEN Takes(t, entries[p]) /\ UNCHANGED <<entries, rec>>
           ELSE /\ Takes(t, e)
                /\ entries' = [q \in DOMAIN entries \cup {p} |->
                                 IF q = p THEN e ELSE entries[q]]
                /\ rec' = [d \in DOMAIN rec \cup {e} |->
                             IF d = e THEN fresh ELSE rec[d]]
        /\ UNCHANGED <<clock, cfg, lastCleanup, evicted>>

SeenAt(t) == call[t].now

Touch(t) ==
    /\ pc[t] = "touch"
    /\ Goto(t, "apply")
    /\ rec' = [rec EXCEPT ![call[t].entry].seen = SeenAt(t)]
    /\ UNCHANGED <<clock, cfg, entries, lastCleanup, call, evicted>>

\* Mutant: the update is dated when it gets the lock.
LockTime(t) == clock

UpdateTime(t) == call[t].now

\* The decayed entry, with the update.
Applied(r, t) ==
    LET u   == call[t].update
        now == call[t].now
    IN  [r EXCEPT !.score = IF u = Get THEN Clamp(@) ELSE Rated(Clamp(@), u),
                  !.last = IF u = Get THEN @ ELSE UpdateTime(t),
                  !.newest = AtLeast(@, now),
                  !.inOrder = @ /\ now >= r.last]

\* Under the lock of the entry.
Apply(t) ==
    LET e    == call[t].entry
        kept == Kept(entries, Thread \ {t})
    IN  /\ pc[t] = "apply"
        /\ Goto(t, "idle")
        /\ call' = [call EXCEPT ![t] = Idle]
        /\ \E r \in Decayed(rec[e], call[t].now) :
              rec' = [d \in kept |-> IF d = e THEN Applied(r, t) ELSE rec[d]]
        /\ evicted' = evicted \cap kept
        /\ UNCHANGED <<clock, cfg, entries, lastCleanup>>

TimeStep == Tick /\ UNCHANGED <<shared, pc, call, evicted>>

Next == \/ TimeStep
        \/ \E t \in Thread :
              \/ \E p \in Process, u \in Updates \cup {Get} : Call(t, p, u)
              \/ CheckDue(t) \/ Claim(t) \/ Evict(t)
              \/ Lookup(t) \/ Create(t) \/ Touch(t) \/ Apply(t)

Spec == Init /\ [][Next]_vars
-----------------------------------------------------------------------------
\* A score has its bounds for a type, however those, the neutral and the initial
\* score are mixed up in the configuration, and so has what a decay makes of it.
TypeOK ==
    /\ clock \in 1 .. MaxTime
    /\ DOMAIN entries \subseteq Process
    /\ \A p, q \in DOMAIN entries : entries[p] = entries[q] => p = q
    /\ \A p \in DOMAIN entries : entries[p] \in DOMAIN rec
    /\ DOMAIN rec \subseteq Entry
    /\ \A e \in DOMAIN rec : {rec[e].last, rec[e].seen} \subseteq 1 .. MaxTime
    /\ \A e \in DOMAIN rec, now \in 1 .. MaxTime :
          \A r \in {rec[e]} \cup Decayed(rec[e], now) : r.score \in cfg.min .. cfg.max
    /\ lastCleanup \in 0 .. MaxTime
    /\ \A t \in Thread : pc[t] \in {"touch", "apply"} => call[t].entry \in DOMAIN rec
    /\ evicted \subseteq DOMAIN rec

\* While an entry meets its stamps in order, no time decays its score twice
\* and none is left out.
InOrderDecayIsExact ==
    \A e \in DOMAIN rec :
       rec[e].inOrder => rec[e].covered = rec[e].last

\* A late stamp dates the entry back, so time may count twice; but none is
\* ever skipped: bad and good behaviour fades at least as fast as configured.
NoTimeIsSkipped ==
    \A e \in DOMAIN rec : rec[e].covered >= rec[e].newest

\* What a worker does to an entry that is no longer in the map is lost to the
\* readers: that happens only when a cleanup has removed the entry in between,
\* never because two workers created the entry of a process together.
UpdateLostOnlyByCleanup ==
    \A t \in Thread : pc[t] \in {"touch", "apply"} =>
       \/ call[t].entry \in evicted
       \/ /\ call[t].process \in DOMAIN entries
          /\ entries[call[t].process] = call[t].entry
=============================================================================
