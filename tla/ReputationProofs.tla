-------------------------- MODULE ReputationProofs --------------------------
(***************************************************************************)
(* That the reputation of a process keeps its bounds, decays by exactly    *)
(* the time its stamps span or by more, and loses an update to nothing but *)
(* a cleanup: for any number of processes and of workers, any              *)
(* configuration and weights, any interval and limit of the cleanup.       *)
(***************************************************************************)
EXTENDS Reputation, FiniteSetTheorems, WellFoundedInduction, TLAPS

Steps == {"idle", "due", "claim", "evict", "lookup", "create", "touch", "apply"}

\* An entry, and the locals of a worker.
Content == [score : Int, last : 1 .. MaxTime, seen : 1 .. MaxTime,
            newest : 1 .. MaxTime, covered : Int, inOrder : BOOLEAN]
Local == [process : Process \cup {NoProcess}, now : 0 .. MaxTime,
          update : Updates \cup {Get}, last : 0 .. MaxTime, entry : Entry \cup {0}]

Holding(t) == pc[t] \in {"touch", "apply"}

\* The entries of the map.
Mapped == {entries[p] : p \in DOMAIN entries}

CfgInv ==
    /\ cfg \in [min : Int, max : Int, neutral : Int, initial : Int]
    /\ cfg.min <= cfg.max
    /\ cfg.neutral \in cfg.min .. cfg.max
    /\ cfg.initial \in cfg.min .. cfg.max

\* Entries have one owner; those that exist are the ones of the map and the
\* ones workers hold, and those no longer in the map have been evicted.
EntriesInv ==
    /\ entries \in [DOMAIN entries -> Entry]
    /\ DOMAIN entries \subseteq Process
    /\ \A p, q \in DOMAIN entries : entries[p] = entries[q] => p = q
    /\ rec \in [DOMAIN rec -> Content]
    /\ DOMAIN rec = Kept(entries, Thread)
    /\ evicted = DOMAIN rec \ Mapped

WorkerInv ==
    /\ pc \in [Thread -> Steps]
    /\ call \in [Thread -> Local]
    /\ \A t \in Thread : pc[t] # "idle" =>
          call[t].now # 0 /\ call[t].process \in Process
    /\ \A t \in Thread : call[t].entry # 0 <=> Holding(t)

\* Scores keep their bounds; what an entry has decayed for reaches its last
\* update and its latest stamp.
ScoreInv ==
    \A e \in DOMAIN rec : rec[e].score \in cfg.min .. cfg.max

DecayInv ==
    \A e \in DOMAIN rec :
       /\ rec[e].covered >= rec[e].last
       /\ rec[e].covered >= rec[e].newest
       /\ rec[e].inOrder => rec[e].covered = rec[e].last

RepInv ==
    /\ clock \in 1 .. MaxTime
    /\ lastCleanup \in 0 .. MaxTime
    /\ CfgInv
    /\ EntriesInv
    /\ WorkerInv
    /\ ScoreInv
    /\ DecayInv

-----------------------------------------------------------------------------
(* There is always a free entry to create. *)

\* A function on a finite set has no more values than arguments.
LEMMA FewValues ==
  ASSUME NEW S, IsFiniteSet(S), NEW f, DOMAIN f = S
  PROVE  /\ IsFiniteSet({f[x] : x \in S})
         /\ Cardinality({f[x] : x \in S}) <= Cardinality(S)
<1> DEFINE T == {f[x] : x \in S}
           g == [x \in S |-> f[x]]
<1>1. g \in Surjection(S, T)
  BY DEF Surjection
<1> HIDE DEF g, T
<1>2. IsFiniteSet(T) /\ Cardinality(T) <= Cardinality(S)
  BY <1>1, FS_Surjection
<1> QED
  BY <1>2 DEF T

\* A non-empty set of natural numbers has a minimum.
LEMMA MinIsMember ==
  ASSUME NEW T, T \subseteq Nat, T # {}
  PROVE  Min(T) \in T
<1> DEFINE R == OpToRel(<, Nat)
<1>1. IsWellFoundedOn(R, Nat)
  BY NatLessThanWellFounded
<1> HIDE DEF R
<1>2. PICK x \in T : \A y \in T : ~(<<y, x>> \in R)
  BY <1>1, WFMin
<1>3. \A y \in T : y < x => <<y, x>> \in R
  BY DEF R, OpToRel
<1>4. \A y \in T : ~(y < x)
  BY <1>2, <1>3
<1>5. \A y \in T : x <= y
  BY <1>4
<1> QED
  BY <1>5 DEF Min

LEMMA EntryIs ==
    /\ Cardinality(Process) \in Nat /\ Cardinality(Thread) \in Nat
    /\ Entry \subseteq Nat \ {0}
    /\ IsFiniteSet(Entry)
    /\ Cardinality(Entry) = Cardinality(Process) + Cardinality(Thread)
<1>1. Cardinality(Process) \in Nat /\ Cardinality(Thread) \in Nat
  BY ReputationAssumption, FS_CardinalityType
<1>2. /\ 1 \in Int /\ Cardinality(Process) + Cardinality(Thread) \in Int
  BY <1>1
<1>3. /\ IsFiniteSet(Entry)
      /\ LET n == Cardinality(Process) + Cardinality(Thread)
         IN  Cardinality(Entry) = IF 1 > n THEN 0 ELSE n - 1 + 1
  BY ONLY <1>2, FS_Interval, Zenon DEF Entry
<1> QED
  BY <1>1, <1>3 DEF Entry

\* The entries that exist are as many as the processes and the workers at
\* most, and fewer while a process has none.
LEMMA FreeEntry ==
  ASSUME EntriesInv, WorkerInv, NEW p \in Process \ DOMAIN entries
  PROVE  Min(Entry \ DOMAIN rec) \in Entry \ DOMAIN rec
<1> DEFINE values == [t \in Thread |-> call[t].entry]
           held   == {values[t] : t \in Thread}
<1>1. IsFiniteSet(Process) /\ IsFiniteSet(Thread)
  BY ReputationAssumption
<1>2. /\ IsFiniteSet(DOMAIN entries)
      /\ Cardinality(DOMAIN entries) <= Cardinality(Process) - 1
  <2>1. DOMAIN entries \subseteq Process \ {p}
    BY DEF EntriesInv
  <2>2. /\ IsFiniteSet(Process \ {p})
        /\ Cardinality(Process \ {p}) = Cardinality(Process) - 1
    BY <1>1, FS_RemoveElement
  <2> QED
    BY <2>1, <2>2, FS_Subset
<1>3. IsFiniteSet(Mapped) /\ Cardinality(Mapped) <= Cardinality(DOMAIN entries)
  BY <1>2, FewValues DEF Mapped
<1>4. IsFiniteSet(held) /\ Cardinality(held) <= Cardinality(Thread)
  <2>1. DOMAIN values = Thread
    OBVIOUS
  <2> HIDE DEF values
  <2> QED
    BY <1>1, <2>1, FewValues
<1>5. DOMAIN rec \subseteq Mapped \cup held
  BY DEF EntriesInv, Kept, Held, Mapped
<1>6. /\ IsFiniteSet(Mapped \cup held)
      /\ Cardinality(Mapped \cup held)
           = Cardinality(Mapped) + Cardinality(held) - Cardinality(Mapped \cap held)
  <2> HIDE DEF held
  <2> QED
    BY <1>3, <1>4, FS_Union
<1>7. Cardinality(Mapped \cap held) \in Nat
  <2> HIDE DEF held
  <2>1. IsFiniteSet(Mapped \cap held)
    BY <1>3, FS_Subset
  <2> QED
    BY <2>1, FS_CardinalityType
<1>8. Cardinality(Mapped \cup held) < Cardinality(Entry)
  <2> HIDE DEF held
  <2>1. /\ Cardinality(Mapped) \in Nat /\ Cardinality(held) \in Nat
        /\ Cardinality(DOMAIN entries) \in Nat
    BY <1>2, <1>3, <1>4, FS_CardinalityType
  <2> QED
    BY <1>2, <1>3, <1>4, <1>6, <1>7, <2>1, EntryIs
<1>9. Entry \ DOMAIN rec # {}
  <2> HIDE DEF held
  <2>1. SUFFICES ASSUME Entry \subseteq Mapped \cup held PROVE FALSE
    BY <1>5
  <2>2. Cardinality(Entry) <= Cardinality(Mapped \cup held)
    BY <1>6, <2>1, FS_Subset
  <2>3. Cardinality(Mapped \cup held) \in Nat
    BY <1>6, FS_CardinalityType
  <2> QED
    BY <1>8, <2>2, <2>3, EntryIs
<1> QED
  BY <1>9, MinIsMember, EntryIs

-----------------------------------------------------------------------------
(* Scores. *)

LEMMA ClampBounds ==
  ASSUME CfgInv, NEW s \in Int
  PROVE  Clamp(s) \in cfg.min .. cfg.max
BY DEF CfgInv, Clamp, AtMost, AtLeast

LEMMA PenaltyIsNatural == ASSUME NEW u PROVE Penalty(u) \in Nat
<1>1. \A f \in WeightFields : Weight[f] \in Nat
  BY ReputationAssumption
<1>2. /\ Weight.drift \in Nat /\ Weight.alert \in Nat /\ Weight.remediate \in Nat
      /\ Weight.cooldown \in Nat /\ Weight.conflict \in Nat
      /\ Weight.medium \in Nat /\ Weight.high \in Nat
  BY <1>1 DEF WeightFields
<1>3. ActionPenalty(u.action) \in Nat
  BY <1>2 DEF ActionPenalty
<1>4. SeverityPenalty(u.anomaly) \in Nat /\ SeverityPenalty(u.burst) \in Nat
  BY <1>2 DEF SeverityPenalty
<1> QED
  BY <1>2, <1>3, <1>4 DEF Penalty

LEMMA RatedBounds ==
  ASSUME CfgInv, NEW s \in Int, NEW u
  PROVE  Rated(s, u) \in cfg.min .. cfg.max
<1>1. Weight.reward \in Int
  BY ReputationAssumption DEF WeightFields
<1>2. Clamp(s + Weight.reward) \in Int
  BY <1>1, ClampBounds DEF CfgInv
<1>3. (IF Stable(u) THEN Clamp(s + Weight.reward) ELSE s) - Penalty(u) \in Int
  BY <1>2, PenaltyIsNatural
<1> QED
  BY <1>3, ClampBounds DEF Rated

\* A decay keeps the bounds and the order of the stamps, and reaches the stamp
\* it is for.
LEMMA DecayedIs ==
  ASSUME CfgInv, NEW d \in Content, d.score \in cfg.min .. cfg.max,
         NEW now \in 1 .. MaxTime, NEW r \in Decayed(d, now)
  PROVE  /\ r \in Content
         /\ r.score \in cfg.min .. cfg.max
         /\ r.last = AtLeast(now, d.last)
         /\ r.covered = d.covered + (r.last - d.last)
         /\ r.newest = d.newest /\ r.inOrder = d.inOrder
<1>1. d.last \in Int /\ d.covered \in Int /\ d.score \in Int
  BY MaxTimeAssumption DEF Content
<1>2. CASE now <= d.last
  <2>1. r = d
    BY <1>2 DEF Decayed
  <2>2. AtLeast(now, d.last) = d.last
    BY <1>1, <1>2, MaxTimeAssumption DEF AtLeast
  <2> QED
    BY <1>1, <2>1, <2>2
<1>3. CASE ~(now <= d.last)
  <2>1. PICK s \in AtMost(d.score, cfg.neutral) .. AtLeast(d.score, cfg.neutral) :
           r = [d EXCEPT !.score = s, !.last = now,
                         !.covered = @ + (now - d.last)]
    BY <1>3 DEF Decayed, DecayTime
  <2>2. s \in cfg.min .. cfg.max /\ s \in Int
    BY <1>1 DEF CfgInv, AtMost, AtLeast
  <2>3. AtLeast(now, d.last) = now /\ now \in Int
    BY <1>1, <1>3, MaxTimeAssumption DEF AtLeast
  <2>4. d.covered + (now - d.last) \in Int
    BY <1>1, <2>3
  <2> QED
    BY <2>1, <2>2, <2>3, <2>4 DEF Content
<1> QED
  BY <1>2, <1>3

LEMMA ConfigFits == Init => CfgInv
<1> SUFFICES ASSUME Init PROVE CfgInv
  OBVIOUS
<1>1. PICK raw \in RawConfigs : cfg = Normalised(raw)
  BY DEF Init
<1>2. /\ raw.initial \in Int /\ raw.min \in Int /\ raw.max \in Int
      /\ raw.neutral \in Int /\ Half \in Int /\ One \in Int
  BY ReputationAssumption
<1>3. \A a \in Int : \A b \in Int : AtMost(a, b) \in Int /\ AtLeast(a, b) \in Int
  BY DEF AtMost, AtLeast
<1> QED
  BY <1>1, <1>2 DEF CfgInv, Normalised, ClampedNeutral, AtMost, AtLeast

-----------------------------------------------------------------------------
(* The steps of a worker. *)

\* Where a worker goes, with which locals; the others stay.
LEMMA WorkerMoves ==
  ASSUME WorkerInv, NEW t \in Thread, NEW step \in Steps, NEW local \in Local,
         pc' = [pc EXCEPT ![t] = step], call' = [call EXCEPT ![t] = local],
         step # "idle" => local.now # 0 /\ local.process \in Process,
         local.entry # 0 <=> step \in {"touch", "apply"}
  PROVE  /\ WorkerInv'
         /\ call'[t] = local /\ pc'[t] = step
         /\ \A u \in Thread \ {t} : call'[u] = call[u] /\ pc'[u] = pc[u]
<1>1. /\ pc' \in [Thread -> Steps] /\ call' \in [Thread -> Local]
      /\ call'[t] = local /\ pc'[t] = step
      /\ \A u \in Thread \ {t} : call'[u] = call[u] /\ pc'[u] = pc[u]
  BY DEF WorkerInv
<1>2. ASSUME NEW u \in Thread
      PROVE  /\ pc'[u] # "idle" => call'[u].now # 0 /\ call'[u].process \in Process
             /\ call'[u].entry # 0 <=> pc'[u] \in {"touch", "apply"}
  <2>1. CASE u = t
    BY <1>1, <2>1
  <2>2. CASE u # t
    BY <1>1, <2>2 DEF WorkerInv, Holding
  <2> QED
    BY <2>1, <2>2
<1> QED
  BY <1>1, <1>2 DEF WorkerInv, Holding

\* The same when the worker keeps its locals.
LEMMA WorkerGoes ==
  ASSUME WorkerInv, NEW t \in Thread, NEW step \in Steps,
         Goto(t, step), call' = call,
         pc[t] # "idle", Holding(t) <=> step \in {"touch", "apply"}
  PROVE  WorkerInv' /\ \A u \in Thread : call'[u] = call[u]
<1>1. /\ call[t] \in Local /\ call' = [call EXCEPT ![t] = call[t]]
      /\ call[t].now # 0 /\ call[t].process \in Process
      /\ call[t].entry # 0 <=> step \in {"touch", "apply"}
  BY DEF WorkerInv
<1>2. pc' = [pc EXCEPT ![t] = step]
  BY DEF Goto
<1> QED
  BY <1>1, <1>2, WorkerMoves

\* What a worker calls, the time it does so and the entries stay in their types.
LEMMA LocalIs ==
  ASSUME RepInv, NEW t \in Thread, pc[t] # "idle"
  PROVE  /\ call[t] \in Local
         /\ call[t].now \in 1 .. MaxTime
         /\ call[t].process \in Process
         /\ Holding(t) => call[t].entry \in DOMAIN rec /\ call[t].entry \in Entry
         /\ call[t].entry = 0 <=> ~Holding(t)
<1>1. /\ call[t] \in Local /\ call[t].now # 0 /\ call[t].process \in Process
      /\ call[t].entry # 0 <=> Holding(t)
  BY DEF RepInv, WorkerInv
<1>2. call[t].now \in 1 .. MaxTime
  BY <1>1, MaxTimeAssumption DEF Local
<1>3. call[t].entry # 0 => call[t].entry \in DOMAIN rec /\ call[t].entry \in Entry
  BY <1>1 DEF RepInv, EntriesInv, Kept, Held, Local
<1> QED
  BY <1>1, <1>2, <1>3

\* A step that touches neither the map nor an entry, and lets a worker take no
\* entry but one of the map.
LEMMA MapFrame ==
  ASSUME RepInv, UNCHANGED <<cfg, entries, rec, evicted>>,
         clock' \in 1 .. MaxTime, lastCleanup' \in 0 .. MaxTime,
         WorkerInv', Kept(entries, Thread)' = Kept(entries, Thread)
  PROVE  RepInv'
<1>1. CfgInv' /\ ScoreInv' /\ DecayInv'
  BY DEF RepInv, CfgInv, ScoreInv, DecayInv
<1>2. EntriesInv'
  BY DEF RepInv, EntriesInv, Mapped
<1> QED
  BY <1>1, <1>2 DEF RepInv

\* A worker holds what it held.
LEMMA SameHeld ==
  ASSUME entries' = entries, \A t \in Thread : call'[t].entry = call[t].entry
  PROVE  Kept(entries, Thread)' = Kept(entries, Thread)
BY DEF Kept, Held

LEMMA CallStep ==
  ASSUME RepInv, NEW t \in Thread, NEW p \in Process, NEW u \in Updates \cup {Get},
         Call(t, p, u)
  PROVE  RepInv'
<1> DEFINE local == [Idle EXCEPT !.process = p, !.now = clock, !.update = u]
<1>1. /\ local \in Local /\ local.now # 0 /\ local.process \in Process
      /\ local.entry = 0
  <2>1. clock \in 0 .. MaxTime /\ clock # 0 /\ 0 \in 0 .. MaxTime
    BY MaxTimeAssumption DEF RepInv
  <2>2. Idle \in Local
    BY <2>1 DEF Idle, Local
  <2> QED
    BY <2>1, <2>2 DEF Idle, Local
<1>2. /\ pc' = [pc EXCEPT ![t] = "due"] /\ call' = [call EXCEPT ![t] = local]
      /\ pc[t] = "idle"
  BY DEF Call, Goto
<1>3. /\ WorkerInv' /\ call'[t] = local
      /\ \A v \in Thread \ {t} : call'[v] = call[v]
  <2> HIDE DEF local
  <2> QED
    BY <1>1, <1>2, WorkerMoves DEF RepInv, Steps
<1>4. call[t].entry = 0
  BY <1>2 DEF RepInv, WorkerInv, Holding
<1>5. Kept(entries, Thread)' = Kept(entries, Thread)
  <2>1. \A v \in Thread : call'[v].entry = call[v].entry
    BY <1>1, <1>3, <1>4
  <2> QED
    BY <2>1, SameHeld DEF Call, shared
<1> QED
  BY <1>3, <1>5, MapFrame DEF RepInv, Call, shared

LEMMA CheckDueStep ==
  ASSUME RepInv, NEW t \in Thread, CheckDue(t)
  PROVE  RepInv'
<1>1. /\ call[t] \in Local /\ call[t].now # 0 /\ call[t].process \in Process
      /\ call[t].entry = 0 /\ ~Holding(t) /\ pc[t] # "idle"
  BY LocalIs DEF CheckDue, Holding, RepInv, WorkerInv
<1>2. WorkerInv' /\ \A v \in Thread : call'[v].entry = call[v].entry
  <2>1. CASE Goto(t, "lookup") /\ UNCHANGED call
    BY <1>1, <2>1, WorkerGoes DEF RepInv, Steps
  <2>2. CASE Goto(t, "claim") /\ call' = [call EXCEPT ![t].last = lastCleanup]
    <3> DEFINE local == [call[t] EXCEPT !.last = lastCleanup]
    <3>1. /\ local \in Local /\ local.now # 0 /\ local.process \in Process
          /\ local.entry = 0
      BY <1>1 DEF RepInv, Local
    <3>2. call' = [call EXCEPT ![t] = local] /\ pc' = [pc EXCEPT ![t] = "claim"]
      BY <2>2 DEF Goto
    <3> HIDE DEF local
    <3>3. /\ WorkerInv' /\ call'[t] = local
          /\ \A v \in Thread \ {t} : call'[v] = call[v]
      BY <3>1, <3>2, WorkerMoves DEF RepInv, Steps
    <3> QED
      BY <1>1, <3>1, <3>3
  <2> QED
    BY <2>1, <2>2 DEF CheckDue
<1>3. Kept(entries, Thread)' = Kept(entries, Thread)
  BY <1>2, SameHeld DEF CheckDue, shared
<1> QED
  BY <1>2, <1>3, MapFrame DEF RepInv, CheckDue, shared

LEMMA ClaimStep ==
  ASSUME RepInv, NEW t \in Thread, Claim(t)
  PROVE  RepInv'
<1>1. /\ call[t] \in Local /\ call[t].now # 0 /\ call[t].process \in Process
      /\ call[t].entry = 0 /\ call[t].now \in 1 .. MaxTime
  BY LocalIs DEF Claim, Holding
<1> DEFINE local == [call[t] EXCEPT !.last = 0]
<1>2. /\ local \in Local /\ local.now # 0 /\ local.process \in Process
      /\ local.entry = 0
  BY <1>1, MaxTimeAssumption DEF Local
<1>3. /\ call' = [call EXCEPT ![t] = local]
      /\ \/ pc' = [pc EXCEPT ![t] = "evict"]
         \/ pc' = [pc EXCEPT ![t] = "lookup"]
  BY DEF Claim, Goto
<1> HIDE DEF local
<1>4. /\ WorkerInv' /\ call'[t] = local
      /\ \A v \in Thread \ {t} : call'[v] = call[v]
  BY <1>2, <1>3, WorkerMoves DEF RepInv, Steps
<1>5. \A v \in Thread : call'[v].entry = call[v].entry
  BY <1>1, <1>2, <1>4
<1>6. lastCleanup' \in 0 .. MaxTime
  BY <1>1, MaxTimeAssumption DEF Claim, RepInv
<1>7. Kept(entries, Thread)' = Kept(entries, Thread)
  BY <1>5, SameHeld DEF Claim
<1> QED
  BY <1>4, <1>6, <1>7, MapFrame DEF RepInv, Claim

\* A worker takes the entry of its process that the map holds.
LEMMA TakesMapped ==
  ASSUME RepInv, NEW t \in Thread, pc[t] \in {"lookup", "create"},
         call[t].process \in DOMAIN entries,
         Takes(t, entries[call[t].process]),
         UNCHANGED <<clock, cfg, entries, rec, lastCleanup, evicted>>
  PROVE  RepInv'
<1> DEFINE local == [call[t] EXCEPT !.entry = entries[call[t].process]]
<1>1. /\ call[t] \in Local /\ call[t].now # 0 /\ call[t].process \in Process
      /\ call[t].entry = 0
      /\ entries[call[t].process] \in Entry /\ entries[call[t].process] \in Mapped
  BY LocalIs DEF Holding, RepInv, EntriesInv, Mapped
<1>2. /\ local \in Local /\ local.now # 0 /\ local.process \in Process
      /\ local.entry = entries[call[t].process] /\ local.entry # 0
  BY <1>1, EntryIs DEF Local
<1>3. /\ call' = [call EXCEPT ![t] = local]
      /\ pc' = [pc EXCEPT ![t] = "touch"]
  BY DEF Takes, Goto
<1> HIDE DEF local
<1>4. /\ WorkerInv' /\ call'[t] = local
      /\ \A v \in Thread \ {t} : call'[v] = call[v]
  BY <1>2, <1>3, WorkerMoves DEF RepInv, Steps
<1>5. Kept(entries, Thread)' = Kept(entries, Thread)
  <2>1. Held(Thread)' \subseteq Held(Thread) \cup Mapped
    BY <1>1, <1>2, <1>4 DEF Held
  <2>2. Held(Thread) \subseteq Held(Thread)'
    BY <1>1, <1>4 DEF Held
  <2>3. Kept(entries, Thread) = Mapped \cup Held(Thread)
    BY DEF Kept, Mapped
  <2>4. Kept(entries, Thread)' = Mapped \cup Held(Thread)'
    BY DEF Kept, Mapped
  <2> QED
    BY <2>1, <2>2, <2>3, <2>4
<1> QED
  BY <1>4, <1>5, MapFrame DEF RepInv

LEMMA LookupStep ==
  ASSUME RepInv, NEW t \in Thread, Lookup(t)
  PROVE  RepInv'
<1>1. CASE call[t].process \in DOMAIN entries
  BY <1>1, TakesMapped DEF Lookup, shared
<1>2. CASE call[t].process \notin DOMAIN entries
  <2>1. /\ Goto(t, "create") /\ call' = call
        /\ UNCHANGED <<clock, cfg, entries, rec, lastCleanup, evicted>>
    BY <1>2 DEF Lookup, shared
  <2>2. WorkerInv' /\ \A v \in Thread : call'[v] = call[v]
    BY <2>1, WorkerGoes DEF Lookup, Holding, RepInv, Steps
  <2>3. Kept(entries, Thread)' = Kept(entries, Thread)
    BY <2>1, <2>2, SameHeld
  <2> QED
    BY <2>1, <2>2, <2>3, MapFrame DEF RepInv
<1> QED
  BY <1>1, <1>2

LEMMA EvictStep ==
  ASSUME RepInv, NEW t \in Thread, Evict(t)
  PROVE  RepInv'
<1>1. PICK stay \in SUBSET DOMAIN entries :
         LET map  == [p \in stay |-> entries[p]]
             kept == Kept(map, Thread)
         IN  /\ entries' = map
             /\ rec' = [e \in kept |-> rec[e]]
             /\ evicted' = kept \ {map[p] : p \in stay}
  BY DEF Evict, kSubset
<1> DEFINE kept == Kept(entries', Thread)
<1>2. /\ entries' = [p \in stay |-> entries[p]]
      /\ rec' = [e \in kept |-> rec[e]]
      /\ evicted' = kept \ {entries'[p] : p \in stay}
  BY <1>1
<1>3. /\ Goto(t, "lookup") /\ pc[t] = "evict" /\ call' = call
      /\ UNCHANGED <<clock, cfg, lastCleanup>>
  BY DEF Evict
<1>4. WorkerInv' /\ \A v \in Thread : call'[v] = call[v]
  BY <1>3, WorkerGoes DEF Holding, RepInv, Steps
<1>5. /\ DOMAIN entries' = stay
      /\ \A p \in stay : entries'[p] = entries[p]
  BY <1>2
<1>6. Kept(entries, Thread)' = kept
  BY <1>3 DEF Kept, Held
<1>7. kept \subseteq DOMAIN rec
  BY <1>5 DEF Kept, RepInv, EntriesInv
<1> HIDE DEF kept
<1>8. /\ DOMAIN rec' = kept
      /\ \A e \in kept : rec'[e] = rec[e]
  BY <1>2
<1>9. EntriesInv'
  <2>1. /\ entries' \in [DOMAIN entries' -> Entry]
        /\ DOMAIN entries' \subseteq Process
        /\ \A p, q \in DOMAIN entries' : entries'[p] = entries'[q] => p = q
    BY <1>2, <1>5 DEF RepInv, EntriesInv
  <2>2. rec' \in [DOMAIN rec' -> Content]
    BY <1>2, <1>7, <1>8 DEF RepInv, EntriesInv
  <2>3. evicted' = DOMAIN rec' \ Mapped'
    BY <1>2, <1>5, <1>8 DEF Mapped
  <2> QED
    BY <1>6, <1>8, <2>1, <2>2, <2>3 DEF EntriesInv
<1>10. ScoreInv' /\ DecayInv' /\ CfgInv'
  BY <1>3, <1>7, <1>8 DEF RepInv, ScoreInv, DecayInv, CfgInv
<1> QED
  BY <1>3, <1>4, <1>9, <1>10 DEF RepInv

LEMMA CreateStep ==
  ASSUME RepInv, NEW t \in Thread, Create(t)
  PROVE  RepInv'
<1> DEFINE p == call[t].process
           now == call[t].now
<1>1. CASE p \in DOMAIN entries
  BY <1>1, TakesMapped DEF Create, CreatedMeanwhile
<1>2. CASE p \notin DOMAIN entries
  <2>1. /\ call[t] \in Local /\ now # 0 /\ p \in Process
        /\ call[t].entry = 0 /\ now \in 1 .. MaxTime
    BY LocalIs DEF Create, Holding
  <2>2. PICK e \in Entry \ DOMAIN rec : e = Min(Entry \ DOMAIN rec)
    BY <1>2, <2>1, FreeEntry DEF RepInv
  <2>3. PICK fresh : fresh = [score |-> cfg.initial, last |-> now, seen |-> now,
                              newest |-> now, covered |-> now, inOrder |-> TRUE]
    OBVIOUS
  <2>4. /\ Takes(t, e)
        /\ entries' = [q \in DOMAIN entries \cup {p} |->
                         IF q = p THEN e ELSE entries[q]]
        /\ rec' = [d \in DOMAIN rec \cup {e} |-> IF d = e THEN fresh ELSE rec[d]]
        /\ UNCHANGED <<clock, cfg, lastCleanup, evicted>>
    BY <1>2, <2>2, <2>3 DEF Create, CreatedMeanwhile
  <2>5. /\ fresh \in Content /\ fresh.score \in cfg.min .. cfg.max
        /\ fresh.covered = fresh.last /\ fresh.covered = fresh.newest
        /\ fresh.last \in Int /\ fresh.covered \in Int /\ fresh.newest \in Int
    <3>1. cfg.initial \in Int /\ now \in Int
      BY <2>1, MaxTimeAssumption DEF RepInv, CfgInv
    <3>2. fresh \in Content
      BY <2>1, <2>3, <3>1 DEF Content
    <3> QED
      BY <2>3, <3>1, <3>2 DEF RepInv, CfgInv
  <2> DEFINE local == [call[t] EXCEPT !.entry = e]
  <2>6. /\ local \in Local /\ local.now # 0 /\ local.process \in Process
        /\ local.entry = e /\ local.entry # 0
    BY <2>1, EntryIs DEF Local
  <2>7. /\ call' = [call EXCEPT ![t] = local]
        /\ pc' = [pc EXCEPT ![t] = "touch"]
    BY <2>4 DEF Takes, Goto
  <2> HIDE DEF local
  <2>8. /\ WorkerInv' /\ call'[t] = local
        /\ \A v \in Thread \ {t} : call'[v] = call[v]
    BY <2>6, <2>7, WorkerMoves DEF RepInv, Steps
  <2>9. Held(Thread)' = Held(Thread) \cup {e}
    <3>1. /\ call'[t].entry = e /\ call[t].entry = 0 /\ e # 0
          /\ \A v \in Thread \ {t} : call'[v].entry = call[v].entry
      BY <2>1, <2>6, <2>8
    <3> QED
      BY <3>1 DEF Held
  <2> HIDE DEF p, now
  <2>10. /\ DOMAIN entries' = DOMAIN entries \cup {p}
         /\ entries'[p] = e
         /\ \A q \in DOMAIN entries : entries'[q] = entries[q]
    BY <1>2, <2>4
  <2>11. Mapped' = Mapped \cup {e}
    BY <2>10 DEF Mapped
  <2>12. /\ DOMAIN rec' = DOMAIN rec \cup {e}
         /\ rec'[e] = fresh
         /\ \A d \in DOMAIN rec : rec'[d] = rec[d]
    BY <2>2, <2>4
  <2>13. DOMAIN rec' = Kept(entries, Thread)'
    <3>1. DOMAIN rec = Mapped \cup Held(Thread)
      BY DEF RepInv, EntriesInv, Kept, Mapped
    <3>2. Kept(entries, Thread)' = Mapped' \cup Held(Thread)'
      BY DEF Kept, Mapped
    <3> QED
      BY <2>9, <2>11, <2>12, <3>1, <3>2
  <2>14. EntriesInv'
    <3>1. entries' \in [DOMAIN entries' -> Entry] /\ DOMAIN entries' \subseteq Process
      BY <2>1, <2>2, <2>4, <2>10 DEF RepInv, EntriesInv, p
    <3>2. \A q, r \in DOMAIN entries' : entries'[q] = entries'[r] => q = r
      <4>1. \A q \in DOMAIN entries : entries[q] # e
        BY <2>2 DEF RepInv, EntriesInv, Kept
      <4> QED
        BY <2>10, <4>1 DEF RepInv, EntriesInv
    <3>3. rec' \in [DOMAIN rec' -> Content]
      BY <2>4, <2>5, <2>12 DEF RepInv, EntriesInv
    <3>4. evicted' = DOMAIN rec' \ Mapped'
      BY <2>2, <2>4, <2>11, <2>12 DEF RepInv, EntriesInv
    <3> QED
      BY <2>13, <3>1, <3>2, <3>3, <3>4 DEF EntriesInv
  <2>15. ScoreInv'
    BY <2>4, <2>5, <2>12 DEF RepInv, ScoreInv
  <2>16. DecayInv'
    <3> SUFFICES ASSUME NEW d \in DOMAIN rec'
                 PROVE  /\ rec'[d].covered >= rec'[d].last
                        /\ rec'[d].covered >= rec'[d].newest
                        /\ rec'[d].inOrder => rec'[d].covered = rec'[d].last
      BY DEF DecayInv
    <3>1. CASE d = e
      <4>1. rec'[d] = fresh
        BY <2>12, <3>1
      <4>2. fresh.covered >= fresh.last /\ fresh.covered >= fresh.newest
        BY ONLY <2>5
      <4> QED
        BY <2>5, <4>1, <4>2
    <3>2. CASE d \in DOMAIN rec
      BY <2>12, <3>2 DEF RepInv, DecayInv
    <3> QED
      BY <2>12, <3>1, <3>2
  <2> QED
    BY <2>4, <2>8, <2>14, <2>15, <2>16 DEF RepInv, CfgInv
<1> QED
  BY <1>1, <1>2

LEMMA TouchStep ==
  ASSUME RepInv, NEW t \in Thread, Touch(t)
  PROVE  RepInv'
<1>1. /\ call[t].entry \in DOMAIN rec /\ call[t].now \in 1 .. MaxTime
  BY LocalIs DEF Touch, Holding
<1>2. PICK e \in DOMAIN rec : e = call[t].entry
  BY <1>1
<1>3. PICK seen \in 1 .. MaxTime : seen = call[t].now
  BY <1>1
<1>4. /\ rec' = [rec EXCEPT ![e].seen = seen]
      /\ Goto(t, "apply") /\ pc[t] = "touch" /\ call' = call
      /\ UNCHANGED <<clock, cfg, entries, lastCleanup, evicted>>
  BY <1>2, <1>3 DEF Touch, SeenAt
<1>5. WorkerInv'
  BY <1>4, WorkerGoes DEF Holding, RepInv, Steps
<1>6. rec \in [DOMAIN rec -> Content]
  BY DEF RepInv, EntriesInv
<1>7. /\ DOMAIN rec' = DOMAIN rec
      /\ \A d \in DOMAIN rec :
            /\ rec'[d] \in Content
            /\ rec'[d].score = rec[d].score /\ rec'[d].covered = rec[d].covered
            /\ rec'[d].last = rec[d].last /\ rec'[d].newest = rec[d].newest
            /\ rec'[d].inOrder = rec[d].inOrder
  BY <1>4, <1>6 DEF Content
<1>8. rec' \in [DOMAIN rec' -> Content]
  BY <1>4, <1>7
<1>9. EntriesInv'
  <2>1. Kept(entries, Thread)' = Kept(entries, Thread) /\ Mapped' = Mapped
    BY <1>4 DEF Kept, Held, Mapped
  <2> QED
    BY <1>4, <1>7, <1>8, <2>1 DEF RepInv, EntriesInv
<1>10. ScoreInv' /\ DecayInv'
  BY <1>4, <1>7 DEF RepInv, ScoreInv, DecayInv
<1> QED
  BY <1>4, <1>5, <1>9, <1>10 DEF RepInv, CfgInv

\* What an update makes of an entry.
LEMMA AppliedIs ==
  ASSUME CfgInv, NEW d \in Content, d.score \in cfg.min .. cfg.max,
         d.covered >= d.last, d.covered >= d.newest,
         d.inOrder => d.covered = d.last,
         NEW t, NEW now \in 1 .. MaxTime, now = call[t].now,
         NEW r \in Decayed(d, now), NEW a, a = Applied(r, t)
  PROVE  /\ a \in Content
         /\ a.score \in cfg.min .. cfg.max
         /\ a.covered >= a.last /\ a.covered >= a.newest
         /\ a.inOrder => a.covered = a.last
<1> DEFINE u == call[t].update
<1> HIDE DEF u
<1>1. /\ r \in Content /\ r.score \in Int
      /\ r.last = AtLeast(now, d.last)
      /\ r.covered = d.covered + (r.last - d.last)
      /\ r.newest = d.newest /\ r.inOrder = d.inOrder
  BY DecayedIs DEF CfgInv, Content
<1>2. /\ now \in Int /\ r.last \in Int /\ r.covered \in Int /\ r.newest \in Int
      /\ d.last \in Int /\ d.covered \in Int /\ d.newest \in Int
      /\ r.inOrder \in BOOLEAN
  BY <1>1, MaxTimeAssumption DEF Content
<1>3. /\ Clamp(r.score) \in cfg.min .. cfg.max
      /\ Clamp(r.score) \in Int
  BY <1>1, ClampBounds DEF CfgInv
<1>4. Rated(Clamp(r.score), u) \in cfg.min .. cfg.max
  BY <1>3, RatedBounds
<1>5. PICK score \in cfg.min .. cfg.max :
         score = IF u = Get THEN Clamp(r.score) ELSE Rated(Clamp(r.score), u)
  BY <1>3, <1>4
<1>6. PICK last \in 1 .. MaxTime : last = IF u = Get THEN r.last ELSE now
  BY <1>1 DEF Content
<1>7. PICK newest \in 1 .. MaxTime : newest = AtLeast(r.newest, now)
  BY <1>1 DEF Content, AtLeast
<1>8. PICK ordered \in BOOLEAN : ordered = (r.inOrder /\ now >= r.last)
  BY <1>2
<1>9. a = [r EXCEPT !.score = score, !.last = last, !.newest = newest,
                    !.inOrder = ordered]
  BY <1>5, <1>6, <1>7, <1>8 DEF Applied, UpdateTime, u
<1>10. /\ a.score = score /\ a.last = last /\ a.newest = newest
       /\ a.inOrder = ordered /\ a.covered = r.covered
  BY <1>1, <1>9 DEF Content
<1>11. a \in Content
  <2>1. score \in Int
    BY DEF CfgInv
  <2> QED
    BY <1>1, <1>9, <2>1 DEF Content
<1>12. /\ r.covered >= r.last /\ r.covered >= r.newest
       /\ r.last >= now /\ (d.inOrder => r.covered = r.last)
  BY <1>1, <1>2 DEF AtLeast
<1>13. r.covered >= last
  BY <1>2, <1>6, <1>12
<1>14. r.covered >= newest
  <2>1. r.covered >= now
    BY <1>2, <1>12
  <2>2. newest = r.newest \/ newest = now
    BY <1>7 DEF AtLeast
  <2>3. CASE newest = now
    BY <1>2, <2>1, <2>3
  <2>4. CASE newest = r.newest
    BY <1>2, <1>12, <2>4
  <2> QED
    BY <2>2, <2>3, <2>4
<1>15. ASSUME ordered PROVE r.covered = last
  <2>1. d.inOrder /\ now >= r.last
    BY <1>1, <1>8, <1>15
  <2>2. r.covered = r.last
    BY <1>12, <2>1
  <2>3. now = r.last
    BY <1>2, <1>12, <2>1
  <2> QED
    BY <1>6, <2>2, <2>3
<1> QED
  BY <1>10, <1>11, <1>13, <1>14, <1>15

LEMMA ApplyStep ==
  ASSUME RepInv, NEW t \in Thread, Apply(t)
  PROVE  RepInv'
<1>1. /\ call[t].entry \in DOMAIN rec /\ call[t].now \in 1 .. MaxTime
      /\ call[t].entry # 0
  BY LocalIs, EntryIs DEF Apply, Holding
<1>2. PICK e \in DOMAIN rec : e = call[t].entry
  BY <1>1
<1>3. PICK now \in 1 .. MaxTime : now = call[t].now
  BY <1>1
<1>4. PICK kept : kept = Kept(entries, Thread \ {t})
  OBVIOUS
<1>5. PICK r \in Decayed(rec[e], now) :
         rec' = [d \in kept |-> IF d = e THEN Applied(r, t) ELSE rec[d]]
  BY <1>2, <1>3, <1>4 DEF Apply
<1>6. PICK a :
         /\ a = Applied(r, t)
         /\ rec' = [d \in kept |-> IF d = e THEN a ELSE rec[d]]
         /\ evicted' = evicted \cap kept
  BY <1>4, <1>5 DEF Apply
<1>7. /\ Goto(t, "idle") /\ call' = [call EXCEPT ![t] = Idle]
      /\ UNCHANGED <<clock, cfg, entries, lastCleanup>>
  BY DEF Apply
<1>8. rec \in [DOMAIN rec -> Content] /\ CfgInv
  BY DEF RepInv, EntriesInv
<1>9. /\ a \in Content
      /\ a.score \in cfg.min .. cfg.max
      /\ a.covered >= a.last /\ a.covered >= a.newest
      /\ a.inOrder => a.covered = a.last
  <2>1. /\ rec[e] \in Content /\ rec[e].score \in cfg.min .. cfg.max
        /\ rec[e].covered >= rec[e].last /\ rec[e].covered >= rec[e].newest
        /\ rec[e].inOrder => rec[e].covered = rec[e].last
    BY <1>8 DEF RepInv, ScoreInv, DecayInv
  <2> QED
    BY <1>3, <1>6, <1>8, <2>1, AppliedIs
<1>10. /\ WorkerInv' /\ call'[t] = Idle
       /\ \A v \in Thread \ {t} : call'[v] = call[v]
  <2>1. Idle \in Local /\ Idle.entry = 0
    BY MaxTimeAssumption DEF Idle, Local
  <2>2. pc' = [pc EXCEPT ![t] = "idle"]
    BY <1>7 DEF Goto
  <2> QED
    BY <1>7, <2>1, <2>2, WorkerMoves DEF RepInv, Steps
<1>11. Kept(entries, Thread)' = kept /\ kept \subseteq DOMAIN rec
  <2>1. Held(Thread)' = Held(Thread \ {t})
    <3>1. call'[t].entry = 0
      BY <1>10 DEF Idle
    <3> QED
      BY <1>10, <3>1 DEF Held
  <2>2. Held(Thread \ {t}) \subseteq Held(Thread)
    BY DEF Held
  <2> QED
    BY <1>4, <1>7, <2>1, <2>2 DEF Kept, RepInv, EntriesInv
<1>12. /\ DOMAIN rec' = kept
       /\ \A d \in kept : rec'[d] = IF d = e THEN a ELSE rec[d]
  BY <1>6
<1>13. EntriesInv'
  <2>1. rec' \in [DOMAIN rec' -> Content]
    BY <1>6, <1>8, <1>9, <1>11, <1>12
  <2>2. Mapped' = Mapped
    BY <1>7 DEF Mapped
  <2>3. evicted' = DOMAIN rec' \ Mapped'
    BY <1>6, <1>11, <1>12, <2>2 DEF RepInv, EntriesInv
  <2> QED
    BY <1>7, <1>11, <1>12, <2>1, <2>3 DEF RepInv, EntriesInv
<1>14. ScoreInv'
  BY <1>7, <1>9, <1>11, <1>12 DEF RepInv, ScoreInv
<1>15. DecayInv'
  <2> SUFFICES ASSUME NEW d \in kept
               PROVE  /\ rec'[d].covered >= rec'[d].last
                      /\ rec'[d].covered >= rec'[d].newest
                      /\ rec'[d].inOrder => rec'[d].covered = rec'[d].last
    BY <1>12 DEF DecayInv
  <2>1. CASE d = e
    BY <1>9, <1>12, <2>1
  <2>2. CASE d # e
    BY <1>11, <1>12, <2>2 DEF RepInv, DecayInv
  <2> QED
    BY <2>1, <2>2
<1> QED
  BY <1>7, <1>10, <1>13, <1>14, <1>15 DEF RepInv, CfgInv

LEMMA RepStep == RepInv /\ [Next]_vars => RepInv'
<1> SUFFICES ASSUME RepInv, [Next]_vars PROVE RepInv'
  OBVIOUS
<1>1. ASSUME UNCHANGED <<shared, pc, call, evicted>>, clock' \in 1 .. MaxTime
      PROVE  RepInv'
  <2>1. WorkerInv' /\ Kept(entries, Thread)' = Kept(entries, Thread)
    BY <1>1, SameHeld DEF RepInv, WorkerInv, Holding, shared
  <2> QED
    BY <1>1, <2>1, MapFrame DEF shared, RepInv
<1>2. CASE TimeStep
  <2>1. clock' \in 1 .. MaxTime
    BY <1>2, MaxTimeAssumption DEF TimeStep, Tick, RepInv
  <2> QED
    BY <1>1, <1>2, <2>1 DEF TimeStep
<1>3. CASE UNCHANGED vars
  BY <1>1, <1>3 DEF vars, RepInv
<1> QED
  BY <1>2, <1>3, CallStep, CheckDueStep, ClaimStep, EvictStep, LookupStep,
     CreateStep, TouchStep, ApplyStep DEF Next

LEMMA RepHolds == Spec => []RepInv
<1>1. Init => RepInv
  <2> SUFFICES ASSUME Init PROVE RepInv
    OBVIOUS
  <2>1. clock \in 1 .. MaxTime /\ lastCleanup \in 0 .. MaxTime
    BY MaxTimeAssumption, ReputationAssumption DEF Init
  <2>2. WorkerInv
    <3>1. Idle \in Local /\ Idle.entry = 0
      BY MaxTimeAssumption DEF Idle, Local
    <3> QED
      BY <3>1 DEF Init, WorkerInv, Holding, Steps
  <2>3. EntriesInv
    <3>1. /\ DOMAIN entries = {} /\ DOMAIN rec = {} /\ evicted = {}
          /\ entries \in [{} -> Entry] /\ rec \in [{} -> Content]
      BY DEF Init
    <3>2. \A t \in Thread : call[t].entry = 0
      BY DEF Init, Idle
    <3>3. Kept(entries, Thread) = {} /\ Mapped = {}
      BY <3>1, <3>2 DEF Kept, Held, Mapped
    <3> QED
      BY <3>1, <3>3 DEF EntriesInv
  <2>4. ScoreInv /\ DecayInv
    BY DEF Init, ScoreInv, DecayInv
  <2> QED
    BY <2>1, <2>2, <2>3, <2>4, ConfigFits DEF RepInv
<1> QED
  BY <1>1, RepStep, PTL DEF Spec

-----------------------------------------------------------------------------
\* Scores keep their bounds whatever the configuration, the updates and their
\* order; an entry has one owner, and a worker never holds one that is gone
\* (reputation.go:167 and :324).
THEOREM TypeCorrect == Spec => []TypeOK
<1>1. RepInv => TypeOK
  <2> SUFFICES ASSUME RepInv PROVE TypeOK
    OBVIOUS
  <2>1. /\ \A p \in DOMAIN entries : entries[p] \in DOMAIN rec
        /\ DOMAIN rec \subseteq Entry
        /\ evicted \subseteq DOMAIN rec
    BY DEF RepInv, EntriesInv, WorkerInv, Local, Kept, Held
  <2>2. \A e \in DOMAIN rec : {rec[e].last, rec[e].seen} \subseteq 1 .. MaxTime
    BY DEF RepInv, EntriesInv, Content
  <2>3. ASSUME NEW e \in DOMAIN rec, NEW now \in 1 .. MaxTime,
               NEW r \in {rec[e]} \cup Decayed(rec[e], now)
        PROVE  r.score \in cfg.min .. cfg.max
    <3>1. rec[e] \in Content /\ rec[e].score \in cfg.min .. cfg.max /\ CfgInv
      BY DEF RepInv, EntriesInv, ScoreInv
    <3> QED
      BY <2>3, <3>1, DecayedIs
  <2>4. \A t \in Thread : pc[t] \in {"touch", "apply"} => call[t].entry \in DOMAIN rec
    BY LocalIs DEF Holding
  <2> QED
    BY <2>1, <2>2, <2>3, <2>4 DEF RepInv, EntriesInv, TypeOK
<1> QED
  BY <1>1, RepHolds, PTL

\* While an entry meets its stamps in order, the time its score has decayed
\* for is the time from its creation to its last update: none counts twice and
\* none is left out, however the workers interleave (reputation.go:115).
THEOREM DecayIsExact == Spec => []InOrderDecayIsExact
<1>1. RepInv => InOrderDecayIsExact
  BY DEF RepInv, DecayInv, InOrderDecayIsExact
<1> QED
  BY <1>1, RepHolds, PTL

\* Stamps that arrive late may let time count twice, but never let a score
\* decay for less than up to the latest stamp it has met (reputation.go:115).
THEOREM DecaySkipsNothing == Spec => []NoTimeIsSkipped
<1>1. RepInv => NoTimeIsSkipped
  BY DEF RepInv, DecayInv, NoTimeIsSkipped
<1> QED
  BY <1>1, RepHolds, PTL

\* A worker that holds an entry: of the map, or evicted.
Reachable(t) ==
    \/ call[t].entry \in evicted
    \/ /\ call[t].process \in DOMAIN entries
       /\ entries[call[t].process] = call[t].entry

\* A worker that keeps its entry still reaches it where the map changes only by
\* new entries, and what is evicted stays so while it is held.
LEMMA StaysReachable ==
  ASSUME UpdateLostOnlyByCleanup, NEW u \in Thread,
         pc'[u] \in {"touch", "apply"}, pc[u] \in {"touch", "apply"},
         call'[u].entry = call[u].entry, call'[u].process = call[u].process,
         call[u].entry \in evicted => call[u].entry \in evicted',
         DOMAIN entries \subseteq DOMAIN entries',
         \A p \in DOMAIN entries : entries'[p] = entries[p]
  PROVE  Reachable(u)'
BY DEF UpdateLostOnlyByCleanup, Reachable

LEMMA LossStep ==
  ASSUME RepInv, RepInv', UpdateLostOnlyByCleanup, [Next]_vars
  PROVE  UpdateLostOnlyByCleanup'
<1> SUFFICES ASSUME NEW u \in Thread, pc'[u] \in {"touch", "apply"}
             PROVE  Reachable(u)'
  BY DEF UpdateLostOnlyByCleanup, Reachable
<1>1. pc \in [Thread -> Steps] /\ call \in [Thread -> Local]
  BY DEF RepInv, WorkerInv
<1>2. ASSUME UNCHANGED <<entries, evicted>>, pc[u] \in {"touch", "apply"},
             call'[u].entry = call[u].entry, call'[u].process = call[u].process
      PROVE  Reachable(u)'
  BY <1>2, StaysReachable
<1>3. ASSUME NEW t \in Thread, Goto(t, "due") \/ Goto(t, "claim") \/ Goto(t, "evict")
                               \/ Goto(t, "lookup") \/ Goto(t, "create")
                               \/ Goto(t, "idle")
      PROVE  u # t /\ pc[u] \in {"touch", "apply"}
  BY <1>1, <1>3 DEF Goto
<1>4. ASSUME NEW t \in Thread, NEW p \in Process, NEW upd \in Updates \cup {Get},
             Call(t, p, upd)
      PROVE  Reachable(u)'
  <2>1. u # t /\ pc[u] \in {"touch", "apply"}
    BY <1>3, <1>4 DEF Call
  <2> QED
    BY <1>1, <1>2, <1>4, <2>1 DEF Call, shared
<1>5. ASSUME NEW t \in Thread, CheckDue(t) \/ Claim(t) PROVE Reachable(u)'
  <2>1. u # t /\ pc[u] \in {"touch", "apply"}
    BY <1>3, <1>5 DEF CheckDue, Claim
  <2>2. UNCHANGED <<entries, evicted>> /\ call'[u] = call[u]
    BY <1>1, <1>5, <2>1 DEF CheckDue, Claim, shared
  <2> QED
    BY <1>2, <2>1, <2>2
<1>6. ASSUME NEW t \in Thread, Evict(t) PROVE Reachable(u)'
  <2>1. pc[u] \in {"touch", "apply"} /\ call' = call
    BY <1>3, <1>6 DEF Evict
  <2>2. PICK stay \in SUBSET DOMAIN entries :
           LET map  == [p \in stay |-> entries[p]]
               kept == Kept(map, Thread)
           IN  /\ entries' = map
               /\ evicted' = kept \ {map[p] : p \in stay}
    BY <1>6 DEF Evict, kSubset
  <2>3. /\ entries' = [p \in stay |-> entries[p]]
        /\ evicted' = Kept(entries', Thread) \ {entries'[p] : p \in stay}
    BY <2>2
  <2>4. call[u].entry \in Kept(entries', Thread)
    BY <2>1, LocalIs DEF Kept, Held, Holding, RepInv, WorkerInv
  <2>5. CASE call[u].entry \in evicted
    <3>1. \A p \in stay : entries'[p] # call[u].entry
      BY <2>3, <2>5 DEF RepInv, EntriesInv, Mapped
    <3> QED
      BY <2>1, <2>3, <2>4, <3>1 DEF Reachable
  <2>6. CASE /\ call[u].process \in DOMAIN entries
             /\ entries[call[u].process] = call[u].entry
    <3>1. CASE call[u].process \in stay
      BY <2>1, <2>3, <2>6, <3>1 DEF Reachable
    <3>2. CASE call[u].process \notin stay
      <4>1. \A p \in stay : entries'[p] # call[u].entry
        BY <2>3, <2>6, <3>2 DEF RepInv, EntriesInv
      <4> QED
        BY <2>1, <2>3, <2>4, <4>1 DEF Reachable
    <3> QED
      BY <3>1, <3>2
  <2> QED
    BY <2>1, <2>5, <2>6 DEF UpdateLostOnlyByCleanup
<1>7. ASSUME NEW t \in Thread, NEW e, Takes(t, e), pc[t] \in {"lookup", "create"},
             call[t].process \in DOMAIN entries', entries'[call[t].process] = e,
             UNCHANGED evicted, DOMAIN entries \subseteq DOMAIN entries',
             \A p \in DOMAIN entries : entries'[p] = entries[p]
      PROVE  Reachable(u)'
  <2>1. CASE u = t
    <3>1. call'[u].entry = e /\ call'[u].process = call[u].process
      BY <1>1, <1>7, <2>1 DEF Takes, Local
    <3> QED
      BY <1>7, <2>1, <3>1 DEF Reachable
  <2>2. CASE u # t
    <3>1. call'[u] = call[u] /\ pc[u] \in {"touch", "apply"}
      BY <1>1, <1>7, <2>2 DEF Takes, Goto
    <3> QED
      BY <1>7, <3>1, StaysReachable
  <2> QED
    BY <2>1, <2>2
<1>8. ASSUME NEW t \in Thread, Lookup(t) PROVE Reachable(u)'
  <2>1. CASE call[t].process \in DOMAIN entries
    BY <1>7, <1>8, <2>1 DEF Lookup, shared
  <2>2. CASE call[t].process \notin DOMAIN entries
    <3>1. /\ u # t /\ pc[u] \in {"touch", "apply"} /\ call' = call
          /\ UNCHANGED <<entries, evicted>>
      BY <1>3, <1>8, <2>2 DEF Lookup, shared
    <3> QED
      BY <1>2, <3>1
  <2> QED
    BY <2>1, <2>2
<1>9. ASSUME NEW t \in Thread, Create(t) PROVE Reachable(u)'
  <2>1. CASE call[t].process \in DOMAIN entries
    BY <1>7, <1>9, <2>1 DEF Create, CreatedMeanwhile
  <2>2. CASE call[t].process \notin DOMAIN entries
    <3>1. PICK e : e = Min(Entry \ DOMAIN rec)
      OBVIOUS
    <3>2. PICK p : p = call[t].process
      OBVIOUS
    <3>3. /\ Takes(t, e) /\ pc[t] = "create" /\ UNCHANGED evicted
          /\ entries' = [q \in DOMAIN entries \cup {p} |->
                           IF q = p THEN e ELSE entries[q]]
      BY <1>9, <2>2, <3>1, <3>2 DEF Create, CreatedMeanwhile
    <3>4. /\ p \in DOMAIN entries' /\ entries'[p] = e
          /\ DOMAIN entries \subseteq DOMAIN entries'
          /\ \A q \in DOMAIN entries : entries'[q] = entries[q]
      BY <2>2, <3>2, <3>3
    <3> QED
      BY <1>7, <3>2, <3>3, <3>4
  <2> QED
    BY <2>1, <2>2
<1>10. ASSUME NEW t \in Thread, Touch(t) PROVE Reachable(u)'
  <2>1. /\ pc[u] \in {"touch", "apply"} /\ call' = call
        /\ UNCHANGED <<entries, evicted>>
    BY <1>1, <1>10 DEF Touch, Goto
  <2> QED
    BY <1>2, <2>1
<1>11. ASSUME NEW t \in Thread, Apply(t) PROVE Reachable(u)'
  <2>1. u # t /\ pc[u] \in {"touch", "apply"}
    BY <1>3, <1>11 DEF Apply
  <2>2. /\ call'[u] = call[u] /\ UNCHANGED entries
        /\ evicted' = evicted \cap Kept(entries, Thread \ {t})
    BY <1>1, <1>11, <2>1 DEF Apply
  <2>3. call[u].entry \in Kept(entries, Thread \ {t})
    BY <2>1, LocalIs DEF Kept, Held, Holding, RepInv, WorkerInv
  <2> QED
    BY <2>1, <2>2, <2>3, StaysReachable
<1>12. CASE TimeStep \/ UNCHANGED vars
  BY <1>2, <1>12 DEF TimeStep, vars, shared
<1> QED
  BY <1>4, <1>5, <1>6, <1>8, <1>9, <1>10, <1>11, <1>12 DEF Next

\* A worker updates an entry that readers of the map do not find only when a
\* cleanup has removed it in between, never because two workers created the
\* entry of one process: the second looks again under the lock
\* (reputation.go:341).
THEOREM LossNeedsCleanup == Spec => []UpdateLostOnlyByCleanup
<1>1. Init => UpdateLostOnlyByCleanup
  BY DEF Init, UpdateLostOnlyByCleanup
<1>2. RepInv /\ RepInv' /\ UpdateLostOnlyByCleanup /\ [Next]_vars
        => UpdateLostOnlyByCleanup'
  BY LossStep
<1> QED
  BY <1>1, <1>2, RepHolds, PTL DEF Spec
=============================================================================
