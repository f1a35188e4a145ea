# Specifications of the drift agent

The repository holds an agent that watches `/proc/sys`, compares every changed
sysctl parameter with a baseline and decides whether to allow the change, to
report it, or to put the baseline value back. These TLA+ modules say what that
agent does when its goroutines, the kernel, other processes and time interleave
as they please, what holds of it in every such run, and what the documents say
that does not.

Run a model with `tlc -config agent.cfg MCDriftAgent.tla` and check proofs with,
say, `tlapm DriftAgentProofs.tla`. `PROJECT.json` lists the runs, the source
lines each definition stands for, the hazards, and for each property a mutation
of a modelled definition that breaks it (the operators commented `Mutant:`).

## 1. Inventory

The agent is one Go process and one eBPF program.

| component | state | operations | talks to |
|---|---|---|---|
| tracepoint program, `ebpf/sysctl_monitor.c` | one perf ring buffer per cpu | on **entry** of `openat`: copy the path, keep it if it starts with `/proc/sys`, output an event | main loop, through the ring buffers |
| main, `agent/main.go`, `queue.go` | the perf reader, the channel `eventQueue` (100), the cancel context | start-up, read loop, signal goroutine, close and wait | tracepoint, workers, control plane |
| workers, `agent/worker.go`, `resolver.go`, `reader.go` | per worker: the locals of `processEvent` | `processEvent` | everything below |
| decision engine, `agent/evaluator.go` | none | `EvaluateDecision` | called by workers |
| cooldown, `agent/cooldown.go` | parameter -> time of last remediation, a mutex | `InCooldown`, `Record` (`Clear`, `LastRemediation`: tests only) | called by workers |
| conflict, `agent/conflict.go` | parameter -> times of drifts, a mutex | `Record`, `IsConflicting` (prunes), `EventCount`, `Clear`, `ClearAll` | called by workers |
| remediation, `agent/remediation.go` | none | run `sysctl -w`, read back | the kernel: its child opens a file as well |
| policy, `agent/policy.go` | read-only after `LoadPolicy` | `LoadPolicy`, `isTrusted`, `isAllowed`, `BuildContext` | called by main and workers |
| start-up validation, `agent/startup_validator.go` | none | reads every parameter once, reports | runs before the tracepoint is attached |
| traces, `agent/observability.go` | none | `BuildTraceLog`, `EmitTrace` | uploader |
| statistics, `stats/engine.go` and `ewma`, `variance`, `anomaly` | three registries of rate series (a `sync.Map` and a counter), last cleanup | `Observe...`, cleanup inside any call | called by workers |
| burst detector, `stats/burst.go` | ring buffer of times, per series | `Add` | called by `Observe` |
| reputation, `stats/reputation.go` | process -> score, counters, last update | `Get`, `Update`, cleanup inside any call | called by workers |
| control plane client, `agent/controlplane/*` | upload channel (100); one goroutine for the heartbeats, one for the uploads | register once, heartbeat every 10 s, enqueue and upload; every request ends within 5 s | HTTP server outside the repository |
| identity, `agent/identity.go` | a file with the node id | load or create | start-up |

**What is hard.** An event exists before the change it announces. The remedy
itself causes events. A worker checks the cooldown, then runs a child process,
and only then records the remediation. The managers forget on purpose, inside a
question. Stamps are taken before locks. A cleanup is run by whichever caller
notices that it is due, without excluding the others. The shutdown depends on a
chain: reader closed, loop left, channel closed, queue drained, workers done;
the uploader is cancelled at its start, not at its end. The start has a moment
in which neither the validation nor the events see a change. The node id is
written in place, without a lock or a sync. A request that timed out may arrive.
`PROJECT.json` lists each of these hazards at its line.

**What makes each part correct.**
*Agent:* remediations of a parameter keep a distance; a fight over a parameter
ends; what is in a ring buffer is examined; only what the policy licenses is
remediated; a signalled agent exits with nothing half done.
*Decision engine:* more suspicion never gives a milder decision; the hard rules
hold whatever the statistics say. *Conflict manager:* pruning never changes an
answer. *Registry:* the counter agrees with the map and the cap holds. *Burst
detector:* the ring is a sliding window. *Reputation:* scores stay in their
bounds, decay skips no time, updates are lost only by eviction.
*Measurement:* every event is measured once, events in order exactly.
*Control plane:* workers never wait for it, nor does the start; traces go out in
order and at most once; heartbeats go on. *Identity:* one identity through
restarts and crashes. *Start:* what is missed was stored in a known way.

## 2. Modules

| module | models | state and actions |
|---|---|---|
| `Clock` | `time.Now`, monotonic, in ticks | `clock`; `Tick` |
| `Kernel` | processes and `/proc/sys` (external), the tracepoint program, the ring buffers | `current` values, `opening` files, `ring`; `OpenForWrite` (the event), later `Write` or `Close`; `OpenForRead` |
| `CooldownManager`, `ConflictManager` | the two managers as operators on their maps; each call is one critical section | `lastRemediated`, `events` |
| `Evaluator` | `EvaluateDecision` as a pure function | none |
| `WorkerPool` | `processEvent`, cut wherever somebody else can slip in | `pc`, `job` per worker: `idle read decide cooldown conflict spawn store verify record finish` |
| `DriftAgent` | composes all of the above with the read loop and the signal | `mainPc`, `held`, `readerClosed`; `MainRead`, `MainSend`, `MainBreak`, `MainExit`, `Signal` |
| `RemediationPacing` | abstract: what the cooldown promises of each worker | the set of remediations |
| `Anomaly` | the classification of a z-score and the fusion of the two measurements of an event, pure functions | none |
| `Evaluation` | composes `Evaluator` and `Anomaly` with `LoadPolicy`'s two layouts of thresholds: the engine under changing behaviour | inputs and the last decision |
| `ConflictHistory`, `ConflictWindow` | the conflict manager in every order of calls; the log that forgets nothing, which it implements | `events` beside `log` |
| `RateSeries` | the registry of series, every atomic operation a step | `series`, `count`, `lastCleanup`, `pc`, `call` |
| `BurstDetector`, `SlidingWindow` | the ring; the queue of times it implements | `buf`, `head`, `size` |
| `Measurement` | one series under concurrent workers: composes the ring with the swap of the last time, the baseline and its update | `lastEvent`, `samples`, `pc`, `call`; `Begin AddToBurst SwapLastEvent Snapshot Update` |
| `Reputation` | the reputations of processes: configuration, decay, reads and updates by concurrent workers, cleanup | `cfg`, `entries`, `rec`, `lastCleanup`, `pc`, `call`; one action per atomic operation or critical section |
| `NodeIdentity` | the file with the node id, as it is read and as it is on the disk | `file`, `disk`, `nodeID`; `LoadNodeID TruncateFile WriteNodeID WriteBack LoseCache` |
| `AgentLifecycle` | composes it with the life of the process: start, registration, validation, monitoring, heartbeats, the ways to end | `pc`, `todo`, `opens`, `unclosed`, `heard`, `pending`, `beat`; one action per step of `main`, of the validation loop and of the heartbeat loop, `OpenParam` (the event), `StoreParam` and `CloseParam` of the processes, `Die` at any point, `PowerLoss` |
| `Uploader` | traces from the workers to the control plane over a network that delays, reorders and loses | `ch`, `uploader`, `sending`, `wire`, `received`; `Enqueue TakeTrace UploadSucceeds UploadFails Cancel Exit` |
| `DriftAgentProofs`, `LifecycleProofs`, `UploaderProofs`, `EvaluationProofs`, `MeasurementProofs`, `SeriesProofs`, `ReputationProofs`, `ConflictProofs` | theorems, section 4 | |
| `MC...` | values of the constants for TLC | |

How the code is cut. A worker's computation between two shared accesses is local
and belongs to the step before it: taking an event, dropping the agent's own
events, reads and unknown parameters is one step (`Take`, worker.go:67-88). The
child that `ApplyRemediation` runs has three moments that others can observe: it
opens the file (`Spawn`, an event), it writes (`ChildStore`), the agent reads
back (`Verify`). Any of them may fail, as the constant `Failures` allows. Every
read of a parameter by the agent is an open too, so it fills the ring buffers.
In `AgentLifecycle` the open of a file and the store by it are two steps, and a
file may have been open before the agent was there; an event may be lost, and
what lies between one that is not and its comparison is one step, since
`DriftAgent` has it in full. In turn `DriftAgent` begins where the start ends,
with no file open. `Uploader` begins where `DriftAgent` ends: a worker in its last step.

Data. Paths, names, values and commands are model values. `Target` and `Name`
keep apart what the kernel makes of a path and what `ResolveParameter` makes of
its text. Substring matching of trusted and allowed processes is a set of
matching names. The statistics answer `processEvent` with any element of
`Intelligence`, so what holds of the agent holds whatever they compute. The
engine's floats are exact integers in `Evaluator`: bursts in tenths, reputations
in hundredths and without an upper bound (the policy file sets `max_score`), the product of the multipliers in units of 1/800000. Rounding to
whole points gives the same result as the code's floating point for every
combination of the base scores 0, 3, 5, 8 and 10 with these inputs. Z-scores are
whole standard deviations, which keeps each side of each boundary. Of the
running statistics `Measurement` keeps the number of samples, and of a sample
its interval, the inverse of the rate. Node ids are numbers, never given twice;
traces are numbered in the order they are enqueued.

## 3. Runs

`CHECK_DEADLOCK FALSE` where it appears: the agent may have exited or wait for
events for ever, and the bounded histories end when their bound is reached.

| run | question | properties |
|---|---|---|
| `evaluation` | can the statistics soften a decision, or worse behaviour a later one, for any policy file? | `OnlyHighReputationSoftens`, `WorseBehaviourNeverSoftens`, `HardRule2FloorHolds` |
| `conflict_one_window` | does forgetting change an answer? | `AnswersAsIfNothingForgotten` (refinement), `TypeOK` (no empty entries) |
| `agent` | do the two brakes hold with two workers and the agent's own events? | `PacedByCooldown` (refinement), `AttemptsBelowThreshold`, and the inductive `PacingInv`, `AttemptsInv` |
| `agent_live` | with two parameters, strange paths, reads, every call free to fail and a signal at any time: is everything examined, does it come to rest, and does it exit? | `BufferedWritesAreExamined`, `EventuallyRests`, `SignalledAgentExits`, `ExitDrained` |
| `series` | does the counter agree with the map, and does the cap hold? | `CountNeverOverstates`, `LoneCleanupsCountExactly`, `LoneCleanupCaps`, `CleanupsAreSpaced` |
| `measure` | what do concurrent workers and late times do to the ring and the statistics of a series? | `RingIsQueue` (refinement), `InOrderCountIsExact`, `NewestTimeMissesNone`, `MeasuredOnce`, `InOrderTimeIsExact`, `BaselineIsFresh` |
| `reputation` | what do late stamps and evictions do to a score? | `InOrderDecayIsExact`, `NoTimeIsSkipped`, `UpdateLostOnlyByCleanup`, `TypeOK` (scores in their bounds) |
| `lifecycle` | what survives crashes, a power loss, a second agent and a silent control plane, and which drifts can an agent miss that starts while a process has a file open? | `OneIdentity`, `MissedOnlyUnheardOrOutrun`, `SilentPlaneBlocksNoStart`, `HeartbeatsGoOn` |
| `uploader` | what does a bad network do to the traces, and the control plane to the workers? | `OnceAndInOrder`, `NothingVanishes`, `WorkersNeverWait`, `AcceptedAreTried` |
| `agent_race`, `agent_self`, `agent_silent` | expected violations, section 6 | one each |

Bounds and why they suffice.

* `MaxOpens` bounds what processes do, not what the agent and its children do.
  Two opens put both workers on the same parameter; the children's own events
  then add further drifts, and three drifts reach the conflict threshold, which
  keeps its value of three.
* `MaxTime` in `agent` is three, one more than the cooldown and the conflict
  window of two ticks each, so remediations and drifts do leave their windows.
  In the liveness run the clock stands still: nothing of what must happen
  there waits for time, and a bounded clock is what makes `EventuallyRests` a
  statement about one window. Over unbounded time a write that never takes
  effect is tried again window after window, fewer than the threshold each;
  `AttemptsBelowThreshold` is the statement that covers it.
* `RingSize` and `QueueSize` are one or two, so that both fill up, the send
  blocks and the ring overflows; `lost` remembers it.
* Workers are interchangeable and, in `agent`, a symmetry set. The liveness runs
  use none.
* In `series` two threads and two keys with a cap of one reach overlapping
  cleanups, a lost compare-and-swap, a cap that evicts, and series that are
  stored while they are swept. There are as many identities of series as can be
  referred to at once; the rest is garbage.
* In `measure` two workers make five calls: a ring of three cells wraps, two
  calls are swapped in the other order than their times, and one worker measures
  while the other is between its snapshot and its update.
* In `reputation` two threads meet stamps one and two ticks late, an entry
  not seen for more than a tick expires, and room for one entry with two
  processes makes the cap evict entries in use. Scores are 1 and 2, with the
  configured initial and neutral scores above both, and the one update earns the
  reward and two penalties. An entry's decay moves its score by any amount towards neutral.

* In `evaluation` there are measurements on either side of each boundary, and
  reputations on either side of one half, where the discount begins, and of
  1.125, where it first costs a point; two is the value of a configured
  `max_score` above one, far enough to meet the clamp of the multiplier.
* In `lifecycle` the agent is started twice, so that an identity meets a restart
  after each kind of end. The second instance is a process started by hand
  without a control plane, once, and is not followed past its registration
  (`Brief`): what it does to the file is done by then. The control plane is the
  silent one, the worse of the two; reads of the file and of parameters may
  fail. One process opens the file of the one parameter, at any time: before the
  agent is there, between its validation and its reader, or while it monitors.
  `MaxOpens` bounds the opens only, and the process may store by the open file as
  often as it likes, before, during and after any phase of the start; each of the
  ways to miss a drift occurs. That the validation goes on to the next parameter
  after one it cannot read, with several opens of several parameters, is for the
  proof: `MissedAreUnheardOrOutrun` holds for any number of each.
* In `uploader` five traces and a channel for two let the channel overflow while
  one trace is being sent and another is still under way, given up.

Fairness. `DriftAgent!FairSpec` assumes weak fairness of the main goroutine and
of each worker: the Go scheduler runs every goroutine that can run, and a
`sysctl` command and a read of `/proc/sys` return. (The command has no timeout;
one that hangs is outside the assumption and would keep the agent from exiting.)
`AgentLifecycle` and `Uploader` assume weak fairness of the goroutines too, and
so of their timers: the HTTP client gives up after 5 s (client.go:24) and the
ticker goes on, which is what ends a request to a plane that says nothing.
Nothing is assumed of processes, signals, time, disks, the network, the control
plane, or of whoever starts an agent.

## 4. Proofs

All theorems hold for **any** values of the constants, from the assumptions
stated beside them (paths lead to parameters, cooldowns are natural numbers,
capacities, windows, thresholds and weights positive, and the like). Where the
stamp zero stands for no time, as it does in the code, the clock starts at one
and its bound is assumed to leave room for that (`MaxTime # 0`). What a theorem
assumes on top of them is in its statement.

| module, theorem | statement | on top |
|---|---|---|
| `DriftAgentProofs` `TypeCorrect` | `Spec => []TypeOK` | |
| `PacingHolds` | `Spec => []PacingInv` | |
| `AgentImplementsPacing` | `Spec => Pacing!Spec`, the refinement of `RemediationPacing` | |
| `AttemptsInvHolds`, `AttemptsStayBelowThreshold` | `Spec => [](AttemptsInv /\ AttemptsBelowThreshold)` | |
| `OneWorkerBlocksTheSecond` | `Spec => []SecondRemediationBlocked` | one worker |
| `WindowHoldsOnePerWorker` | `Spec => []AtMostOnePerWorker` | finitely many workers |
| `RemediationsAreLicensed` | `Spec => []RemediationIsLicensed` | |
| `ExitLeavesNothing` | `Spec => []ExitDrained` | some worker |
| `LifecycleProofs` `TypeCorrect`, `OneIdentityHolds`, `MissedAreUnheardOrOutrun` | `[]TypeOK`, `[]OneIdentity`, `[]MissedOnlyUnheardOrOutrun` | |
| `UploaderProofs` `TypeCorrect`, `ArrivesOnceAndInOrder`, `NoTraceVanishes` | `[]TypeOK`, `[]OnceAndInOrder`, `[]NothingVanishes` | |
| `EvaluationProofs` `SofteningNeedsHighReputation`, `HardRule2IsAFloor`, `WorseIsNeverMilder` | `[]OnlyHighReputationSoftens`, `[]HardRule2FloorHolds`, `WorseBehaviourNeverSoftens` | |
| `MeasurementProofs` `TypeCorrect`, `InOrderTimeHolds`, `NewestCountsAll`, `BurstCountIsExact` | `[]TypeOK`, `[]InOrderTimeIsExact`, `[]NewestTimeMissesNone`, `[]InOrderCountIsExact` | |
| `RingIsAQueue` | `Spec => Queue!Spec`, the refinement of `SlidingWindow` | |
| `EveryEventMeasuredOnce`, `BaselineStaysFresh` | `[]MeasuredOnce`, `[]BaselineIsFresh` | finitely many workers |
| `SeriesProofs` `TypeCorrect`, `CountStaysBelow`, `LoneCleanupsAreExact` | `[]TypeOK`, `[]CountNeverOverstates`, `[]LoneCleanupsCountExactly` | |
| `CleanupsKeepTheInterval`, `LoneCleanupsCap` | the action properties `CleanupsAreSpaced`, `LoneCleanupCaps` | |
| `ReputationProofs` `TypeCorrect`, `DecayIsExact`, `DecaySkipsNothing`, `LossNeedsCleanup` | `[]TypeOK`, `[]InOrderDecayIsExact`, `[]NoTimeIsSkipped`, `[]UpdateLostOnlyByCleanup` | |
| `ConflictProofs` `TypeCorrect` | `[]TypeOK` | |
| `OneWindowForgetsNothing` | `Spec => Window!Spec`, the refinement of `ConflictWindow` | all callers use one window |

*Pacing.* That a worker keeps the cooldown between its own remediations is not
inductive: the check and the record lie several steps apart and the manager's
map is overwritten by other workers in between. `PacingInv` adds that the map is
never older than any remediation it stands for (others can only make it
younger, and the clock never goes back), and that a worker past the check has no
remediation of its own inside the window. Only its own step could add one, and
the time that passes only helps. From there each step of the agent is a step of
`RemediationPacing` or leaves its variables alone.

*Attempts.* The conflict manager counts what it still remembers. `AttemptsInv`
says that it has forgotten no drift inside the window that led to an attempt,
nor the drift of a worker that may still attempt. When a worker passes the
question the manager holds fewer than the threshold, its own drift among them,
and the attempts within the window are a subset of those; finite-set
cardinality gives the bound.

`TypeCorrect` carries the typing and the finiteness of the sets both rest on.

*Remediations.* From the refinement, two remediations of a parameter in one
window have different workers (`WorkersAreSpaced`). With one worker that is the
documented promise; with more it bounds a window by their number, since the map
from its remediations to their workers is injective. `LicenceInv` carries the
licence of a decision through the brakes, whose only way is from `remediate` to
`alert`, up to the execution. `ShutdownInv` says that no worker stops before the
queue is closed and empty, and that it is closed only after main has handed over
what it held.

*Identity.* `IdentityInv`: until the file holds an identity at most one instance
is creating it, and after that the memory of every instance, the disk if it
holds one, and everything announced agree with the file. The two histories
`overlapped` and `forgotten` name the two ways out, and each is needed: TLC finds
two identities without either. *Missed drifts.* `AccountInv` tells of the whole
start what the property tells of a running agent: what is unseen has yet to be
validated, or an event of it to be examined, or is excused (`Excused`). The
property excuses a drift that could not be compared, one that was stored by a
file whose open the agent has not heard of (its reader did not exist yet, or
its ring buffer was full), and one that was stored by a file whose open it had
examined before. TLC finds a run that needs each of the three.

*Uploader.* Order is not inductive: `OrderInv` adds that the channel is ordered
and younger than all that was tried, and that of the requests under way only the
youngest is not given up, and no request under way has arrived already.

*Decision engine.* `SofteningNeedsHighReputation` is arithmetic: no measurement
brings the product of the multipliers below 0.9, where the code clamps it, nor
below 0.938 with a reputation of at most 1.12. Rounding gives back a tenth of a
base score of zero, three or five and 0.062 of eight (`RoundingGivesBack`), and
hard rule 2 has a floor, so that only eight points with a higher reputation lose
one (`FinalAgainstBase`). `WorseIsNeverMilder` follows a comparison
through every stage: a worse rate has no lower severity, the fusion takes the larger of two multipliers (`MaxSeverityMultiplies`), and the product,
the rounding, the floor of hard rule 2 and the thresholds are each monotone.

*Measurement.* `SeriesInv` ties `lastEvent` to the end of the sequence of swaps.
A worker compares its rate with statistics that other workers are still filling:
`BaselineInv` says that what its snapshot lacked of them was in the hands of the
others, one event each.

*Ring.* `RingInv`: the cells in use, read from `head` onwards, are the latest
`size` of the times added. A write keeps that in either case, the ring full or
not (`WriteKeepsOrder`), and so does trimming, which drops from the old end
(`TrimIs`). What has been dropped was stale or had no room (`DroppedIsStale`),
whence the two statements about counts. For the refinement the ring is read as
a sequence, and one `Add` becomes one step of `SlidingWindow`: append, drop the
oldest if there are too many, drop a stale prefix (`KeptIs`, `RoomyIs`,
`AddKeeps`). None of this assumes that times arrive in order.

*Registry.* The balance is the counter with the additions and removals that are
still to be counted. `BalanceStep` shows that it moves with the size of the map,
except when a key is deleted that is gone already, where it falls.
`LoneInv` adds, while no two cleanups have overlapped, that the key a cleanup is
about to delete is still there. `ClaimInv` says that a caller about to claim a
cleanup has found it due since the time it remembers. `CapInv` is about the
visits of the cap: what the map exceeds its limit by is what is left to delete
and what was stored meanwhile, and so is what the visits have passed over. That
a new series is always to be had (`FreeSeries`) is a count of the references:
the map has one for a key at most, and a worker one.

*Reputation.* `RepInv` holds the whole of it. The entries that exist are those
of the map and those that workers hold, and what is not in the map has been
evicted; an entry has decayed at least up to its last update and its latest
stamp, exactly so while its stamps came in order. Bounds of scores are kept by
every decay, as neutral lies within them, and by every reward and penalty, as
each is clamped. An entry to create always exists (`FreeEntry`, by the same count as
for series). `LossStep` follows a worker from the moment it gets its entry:
until it has updated it, the entry is the one in the map or a cleanup has
removed it, because whoever creates one looks again under the lock.

*Conflicts.* `CoverInv`: for every cutoff that a question may still use, the
manager and the log hold the same number of drifts after it. `MapInv`: there is
no empty entry, and the manager never holds more drifts than the log.

Every invariant and every action property that a passing run checks has its
theorem. Only model-checked is liveness, which is beyond the prover:
`SignalledAgentExits`, `EventuallyRests`, `BufferedWritesAreExamined`,
`SilentPlaneBlocksNoStart`, `HeartbeatsGoOn`, `WorkersNeverWait` and
`AcceptedAreTried`.

## 5. Not modelled

The examples, the test harness and the shell scripts are no part of the agent.
The numeric smoothing (EWMA, variance, the z-score itself) is floating point and
only feeds the decision; its results are inputs of `Evaluation`. Wording,
formatting and logging are left out, and so is what a trace says. Records of
lost samples, transient read errors and short records make the read loop go
round and change nothing. Parsing YAML and the search for a path of the node id
file have no state. `register.go` holds a second `RegisterNode` with the choice
of a local address; main uses the client's. `LastRemediation`, `Clear` of the
cooldown manager, `EventCount` and `LastEvent` are called by tests only.
`RateSeries` stops where the measurement of a series begins, which is
`Measurement`; `Reputation` leaves out the counters and `stableSince`, which only
go into traces.

## 6. Where the code and its documents differ

Each has a run in which TLC finds the violation.

* **`agent_race`**: two workers both pass the cooldown check before either
  records, so two remediations fall within one window (worker.go:140, :174). The
  documents say that a second one is blocked. What does hold is
  `PacedByCooldown`, per worker: a window holds at most as many remediations as
  there are workers, and with one worker the documented promise is true
  (theorems `WindowHoldsOnePerWorker`, `OneWorkerBlocksTheSecond`).
* **`agent_self`**: self-events are recognised by the agent's PID
  (worker.go:69), but the write is made by a `sysctl` child with a PID of its
  own, so the agent does examine its own remediation. It ends only because the
  value is then right, or by the brakes.
* **`agent_silent`**: the event precedes the write; a worker that is quicker
  than the process compares the old value and nobody looks again.
Smaller differences, without a run: hard rule 2 sets the score to ten and then
compares it with the configured threshold (evaluator.go:181) like any other
score, so with a `remediate` threshold above ten a critical violation by an
untrusted process only alerts, where IMPLEMENTATION_COMPLETE.md:140 says
"Critical violations → always 10 (remediate)" (`HardRule2FloorHolds` is what does
hold); the trace of a blocked remediation reports
the decision `alert`, because the decision is overwritten (worker.go:141) before
the trace is built, where OBSERVABILITY.md:152-157 shows `remediate`;
drifts that were allowed or only reported count towards a conflict, although conflict.go:9 speaks of attempts; after
`IsConflicting` has pruned with one window, `EventCount` with a wider one counts
too few (the agent uses one window only); with a `max_score` above one in the
policy file, which nothing forbids, a reputation above 1.125 turns the eight
points of an untrusted change of a highly critical parameter into seven, and so
by the default thresholds a remediation into an alert
(`OnlyHighReputationSoftens`); the "hard cap" of the rate series fails for good
after two cleanups have overlapped, since the counter then stays too small, and
evicts one series too many when the second takes its excess between a deletion
of the first (engine.go:315) and the counter's (engine.go:316). README.md:311
speaks of complete coverage of the time around the start, but a change after its
parameter was validated is seen by nobody when the file was opened before the
reader exists, and one by a file whose event has been examined is seen by
nobody either, until the parameter is opened again
(`MissedOnlyUnheardOrOutrun` names both). identity.go:16-17 says that a
machine keeps its identity across reboots: not if two agents created the file at
the same time, or the power failed before it reached the disk (`OneIdentity`). An
entry without an expected value is skipped by the validation
(startup_validator.go:26), whereas a worker compares with the empty value and
finds every event of it a drift (worker.go:102).

## 7. Plan

What could still be added, in this order:

1. The safety part of the liveness properties as theorems: that a signalled agent
   which has not exited has a step to take, and which worker or channel it waits
   for.
2. The counters and `stableSince` of `Reputation`, if a decision ever reads them.
3. `DriftAgent` composed with `Uploader` in one run. They meet in one step, which
   never waits, so that each is sound without the other; the composition would
   show no new behaviour of either.
