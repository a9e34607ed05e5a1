# tactus in TLA+

`tactus` is a headless orchestrator.  It takes a plan (a DAG of tasks), runs
coding agents on the tasks one attempt at a time, judges what each attempt left
in the working tree with gates and reviewers, climbs a ladder of ever stronger
models when an attempt fails, asks a person when the ladder ends, and publishes
each passing attempt as one commit on the run branch.  Everything it knows is a
fold over an append-only log, `events.jsonl`; when the process dies, `resume`
replays the log, reconciles it with git and goes on.

The modules in this directory are a verification development of that program:
TLA+ specifications written from the Rust source, TLC configurations that check
them on small instances, and TLAPS proofs of some of the results that matter
most.
Paths such as `engine.rs:2119` are below `src/src/`.

1. [The parts of the system](#1-the-parts-of-the-system)
2. [The modules and how they correspond to the code](#2-the-modules-and-how-they-correspond-to-the-code)
3. [What each run checks](#3-what-each-run-checks)
4. [What is proved](#4-what-is-proved)
5. [Where the code and its documents disagree](#5-where-the-code-and-its-documents-disagree)
6. [What is abstracted or not modelled](#6-what-is-abstracted-or-not-modelled)
7. [The plan](#7-the-plan)

## 1. The parts of the system

The program's own logic is one thread.  What makes it hard is that its effects
are spread over durable things (the log, the run branch and private refs, the
working tree, disposable worktrees, the question and answer files) that cannot
be updated together, that it may die between any two of them, and that an
operator, an agent or another process may touch them meanwhile.  Around that
thread there is real concurrency: locks between processes and threads, readers
of a log that is being written, signal handlers, a monitor thread, a guard and
a reaper process per agent.

| part | state it keeps | operations | hard behaviour | what makes it correct |
|---|---|---|---|---|
| **ladder** (`ladder.rs`) | none, a pure decision | `next_step(failure, position, policy)` | fourteen kinds of failure, three limits, boundary cases | judged attempts and nothing else spend a rung; it never climbs early; it always ends |
| **run state** (`events.rs`, `RunState`) | task states, per-task progress, questions, halt, budget stop, outcome: all a fold of the log | `apply`, one case per event | a replay must rebuild what the live process had; refunds of an allowance charged in advance | the fold never strands a task, never blames a second task for a halt, refunds exactly |
| **engine: scheduler and attempts** (`engine.rs`, `Run`) | the fold, plus what one process remembers (questions asked in vain, exhausted pools) | `drain`, `step_task`, `ingest_answer`, `resolve_one_question` | skip-ahead, stops, deferred work, shared working tree, termination | dependency order, one attempt at a time, no edit of one task in another's commit, no run that ends with work it could do |
| **engine: publication** (`engine.rs`, `workspace.rs`) | run branch, pins under `refs/tactus/prepared/`, the settlement's prepared commit | capture, prepare + pin, settle, compare-and-swap, unpin, clean, `task_committed` | a crash between any two; a branch that moves under it; bytes that change after the capture | each task's commit is published and recorded exactly once |
| **engine: resume** (`engine.rs`, `resume_harness_inner`) | none of its own | reconcile git with the log, drop orphan pins and residue, repair half-recorded answers, settle interrupted attempts | runs over every prefix a dead process can leave, and can itself die | it repairs every such prefix, or refuses; it never guesses |
| **answers and interaction** (`answer.rs`, `interaction.rs`) | `questions/<id>.json`, `answers/<id>.json` | `tactus answer`, the sweep, the terminal, the bounded wait | a second process with no lock; four durable effects per answer | an answer on file takes effect; a decline halts under the policy recorded with it |
| **capacity** (`capacity.rs`, `exhausted_pools` of `engine.rs`) | the set of exhausted pools, twice: folded from the log, and in memory | `observe`, `retire_signals`, `record_pool_exhausted`, `estimate` | two copies of one fact, one of them volatile | the engine does not forget an outage and tells it once |
| **event log file** (`events.rs`, `EventLog`, `LogTail`) | bytes of `events.jsonl`, a lock, a reader's offset | `open` (repairs a torn tail), `append`, `poll` | torn last line, a failed sync, a reader in the middle of a line | readers see a prefix of the appended events, in order |
| **run directory and locks** (`rundir.rs`) | worktree lock, run lock, cleanup lease | `acquire`, `is_running`, cleanup scope | the probe takes the lock it probes; a dead holder | one engine per run and per worktree |
| **gate and review snapshots** (`workspace.rs`) | intent files, registered worktrees | `gate_snapshot_*`, `reclaim_gate_workspaces` | a crash between intent, registration and removal | whatever a crash leaves is reclaimed, and nothing else |
| **process supervision** (`agent/proc.rs`) | the registered groups, launches in flight, the reaper's state and pipes | `run_with_timeout`, the signal monitor, the cleanup reaper | timeout racing the exit, descendants holding pipes, a SIGKILL of either side, a process number used again | bounded time, nothing of the child survives, no stranger is signalled |
| **job control** (`agent/proc.rs`) | flags of the signal handlers, guard, probe, reaper | stop, continue, terminate | four processes, signals that merge and overtake each other | agents stop and run with the conductor, and a termination always wins |
| **verification pipeline** (`run_attempt` of `engine.rs`, `gates.rs`, `review.rs`, `parse_output` of the adapters) | none across attempts | reading the agent's outcome, gates in order, review passes, one re-ask | the order of refusals, fail-closed parsing, whose fault a failure is | a pass means every gate and every pass said so |
| **start and preflight** (`engine.rs`, `run_harness_inner`, `preflight_with_recorded`) | what a process resolved and probed; the run's directories, branch, `run_started` | resolve, probe, freeze, record; the same against the record on resume | files and CLIs that change between a start and its resumes; a start cut short | a run works as it recorded, with CLIs that were probed |
| **routing, reviewers, configuration** (`route.rs`, `catalog.rs`, `config.rs`, `review.rs`) | none | `load`, `resolve`, `resolve_reviews` | precedence of pins, floors and demands | floors hold; the second judge is of another family |
| **plan reader and validation** (`plan/`, `validate.rs`, `ir.rs`) | none | `parse`, `validate`, `topo_order` | derived ids that collide, comments in odd places, cycles, artifacts | accepted exactly when it can be worked, and in an order that works |
| **agent commands** (`agent/claude.rs`, `codex.rs`, `copilot.rs`) | what a probe found | `probe`, `build_command` | options one surface has and another has not | every option was proven; a reviewer cannot write |
| **reporting and export** (`status.rs`, `export.rs`, `settle` in `engine.rs`) | none, a fold of the log | `load`, `report`, `follow`, `export` | reading a run that is being written; logs of older schemas | what is reported is what the log says |
| **git prerequisites, connect, CLI, helpers** | none, or user files | checks, prompts, arguments | formats of external tools | not a matter of state |

How they interact: `drain` calls everything.  An attempt is
`attempt_started` (log) → agent → `capture_candidate` (git) → gates and
reviewers → either `attempt_finished` with the ladder's decision and, when a
person is needed, the question inside the same event; or
`prepare_commit_from_candidate` + pin (git) → `attempt_finished` carrying the
prepared commit (log) → `update-ref` with an expected old value (git) → unpin
(git) → clean (tree) → `task_committed` (log).  The operator meets the engine
only through files (`answers/`), through the configuration the next process
reads, and through git.  A reader (`status`, `export`) meets it only through
the log and the liveness probe, which takes the very lease it asks about.

The hazards of this code, each at the line where it bites and with the
properties that watch it, are the list `hazards` of `PROJECT.json`.

## 2. The modules and how they correspond to the code

```
Ladder ── TaskProgress ──┬── RunState ── Engine ── MCEngine
   │                     │                  └─ EngineProofs
   │                     ├── LadderWalk ── LadderWalkProofs
   │                     ├── RunLog ── MCRunLog
   │                     └── TaskProgressProofs
   └── AgentOutcome ──┐
       GateSnapshots ─┴── AttemptPipeline ─┬─ MCAttemptPipeline
                                           └─ AttemptPipelineProofs

PoolSignals (proved about in EngineProofs)
RunLocks ─┬─ MCRunLocks                   AppendOnlyLog <= EventLogFile ─┬─ MCEventLogFile
          └─ RunLocksProofs                                              └─ EventLogFileProofs
Supervision ─┬─ MCSupervision             JobControl ─┬─ MCJobControl
             └─ SupervisionProofs                     └─ JobControlProofs
PlanText ─┬
Routing  ─┼── Startup ── MCStartup
AgentCommands ─┘                (lines: EXTENDS;  <= : is implemented by)
```

### One task, one log, one branch

**`Ladder`** is `ladder.rs`: the kinds of failure, what counts as an outage,
and `next_step` as the operator `NextStep`, branch for branch.

**`TaskProgress`** is the `Progress` record of `events.rs` and what each event
does to it.  One operator per event, record in, record out.  Saturating
subtraction is kept (`SaturatingPred`), because it could hide a refund too many.

**`RunState`** is `RunState::apply`: the durable state as ten variables and one
action per event.  Four of them (`recorded`, `unrecorded`, `defects`, `spent`)
are facts the code reads from the event list itself: `last_committed_sha`,
`unrecorded_commit`, the missing design defects, `reported_spend`.  `unrecorded`
is emptied by every append except that of a passing settlement: it is "the log
ends with a passing settlement", which is exactly what `unrecorded_commit`
(`engine.rs:1967`) asks.

**`Engine`** composes that state with git, the files and the process:

| variable | in the code |
|---|---|
| `branch` | the run branch after the base commit, oldest first; the tip is `head_sha_full` |
| `pins` | `refs/tactus/prepared/...` |
| `tree` | whose uncommitted edits the working tree holds; `0` stands for bytes that changed after a capture |
| `payload`, `answers` | `questions/<id>.json` and `answers/<id>.json` |
| `pc`, `cur`, `candidate`, `ingesting` | where the process is between two durable effects, and its locals there |
| `reply` | what the answer channel returned for the question just asked, until the sweep that follows is over |
| `unanswerable` | the questions this process asked in vain |
| `config` | what this process read from `tactus.toml`; every resume reads it again |

Its actions come in four groups, one label of `pc` per point at which the
process can die:

| group | actions | code |
|---|---|---|
| drain | `SweepAnswers`, `RecordDefect`, `FailDeclined`, `RewritePayload`, `StepTask`, `WaitForPool`, `Ask`, `ReplyLands`, `ReplyAbsorbed`, `NobodyReplied`, `Finish` | `drain`, `sweep_answers`, `ingest_answer`, `resolve_one_question`, `drain_and_report` |
| step | `NoRung`, `StopAtBudget`, `StartAttempt`, `RunAgent`, `SettleFailed`, `MaterializeQuestion`, `Tidy`, `PrepareCommit`, `PrepareRefused`, `SettlePassed`, `AdvanceBranch`, `AdvanceRefused`, `RemovePin`, `PublishRefused`, `ScrubTree`, `RecordCommit` | `step_task`, `run_attempt`, `Workspace::{capture_candidate, prepare_commit_from_candidate, advance_prepared_commit, discard_uncommitted}` |
| resume | `Resume`, `Republish`, `ConfirmRepublished`, `RemoveAdoptedPin`, `DropOrphanPins`, `DropResidue`, `Adopt`, `RepairDefect`, `RepairDecline`, `RewritePayloads`, `SettleInterrupted`, `FinishResume` | `resume_harness_inner` |
| environment | `Crash`, `LateWrite`, `OutsideCommit`, `OutsideReset`, `OperatorAnswers` | the operating system, the agent, the operator |

**`LadderWalk`** is one task on its ladder, apart from scheduling and git, with
larger limits than `Engine` can afford and an independent count (`charged`) of
what each rung ought to have been charged for.

**`PoolSignals`** sets the fold of the log (`capacity::observe`) against the
engine's own set.  It is kept apart because nothing schedules on it.

### One attempt

**`AgentOutcome`** is how a child process becomes a verdict: `parse_output` of
the three adapters, `evaluate_outcome`, `worker_question`, `parse_verdict`,
`review_failure`.  Text is abstract; what is kept is every distinction the code
branches on (a marker quoted without a question behind it, a verdict that
passes and still requires changes, rate-limit words in a successful body).

**`GateSnapshots`** is the store of disposable worktrees in `workspace.rs`.  A
snapshot is an intent file, two directories and git's own registration; `git
worktree add` and `remove` are processes with steps of their own, which can be
killed between any two and can outlive an engine that is killed alone.  The
variable `maybe` is the set of disks a power loss could leave: every state since
the last directory sync.  Any operation of creation and of cleanup may fail:
`CleanupFails` is each early return of `cleanup_gate_workspace` and
`worktree_is_registered` (git that cannot be spawned or cannot list its
worktrees, an intent that cannot be unlinked, its directory not synced).  `Drop`
ignores such an error and the run goes on over the intent; a resume is refused.
`failed` are the snapshots whose last cleanup met one.  `LiveIsIntact` and
`RefusedOnlyIfStuck` speak of `disk`, `NothingOrphaned` of every member of
`maybe`.

**`AttemptPipeline`** extends both: `run_attempt` from the spawn to its
failure or none, through the gates (`gates.rs`) and the review passes
(`review.rs`: rebinding, second opinion, one re-ask in the same session, the
pass's deadline, spend).  `Engine` leaves the end of an attempt to chance; this
module says which ends there are and whose fault each is.

### The log as others see it

**`AppendOnlyLog`** is the promise: a sequence that grows, an acknowledged
prefix that no crash takes back, and what a follower has been shown.
**`EventLogFile`** is the file: a line is three cells, so that a write can stop
inside the JSON or before the newline; `synced` is how much of it the disk has;
a resume reads the log without a sync (`ReadLog`), puts git right by what it read
(`Repair`: worktrees reclaimed, a prepared commit published, pins removed, edits
discarded) and only then opens it for appending (`OpenLog`), which repairs a torn
tail; a failed sync leaves a line that may or may not be
durable.  The ghost `rests` is what the effects outside the log were carried out
on: the events known at the repairs and after every append.  `status` and `export` take a snapshot by reading, probing and reading
again, and `LogTail::poll` reads on from its offset.  `KeepsThePromise` is
`AppendOnlyLog` with `log` mapped to the committed lines of `file`.

**`RunLog`** has the events themselves for state, because schema checks, the
refusal of undecided failures of schemas 1 and 2, recorded identity
(`standard`) and the export's pairing of events are questions about their
order.  A run may have been begun by an older binary, whose writer is modelled
as the current reader describes it; every later process is this one: it
refuses, upgrades, repairs, appends `run_resumed` and works on under a
configuration that may change in between.

### Processes and locks

**`RunLocks`** is `rundir.rs`: the worktree lease, a run's lock, the claims of
threads within a process, the cleanup lease and `is_running`.  An OS lock
belongs to a process and goes with the first descriptor of the file it closes;
the cleanup lease belongs to an open file.  Both are modelled as such.

**`Supervision`** is one agent of `agent/proc.rs` on Unix: caller thread,
signal monitor, reaper process, the agent's leader and a descendant, the anchor
that pins the group's number, and a kernel that kills, reaps and gives free
numbers to strangers; a caller's `cancel` waits for the reaper or gives up after
its two seconds.  **`JobControl`** is stop, continue and termination of
conductor and agents: handlers that only set flags, the monitor, the guard
process that stops and probes the conductor, the probe helper, the reaper's
mirroring, with the kernel's rules for pending `SIGSTOP` and `SIGCONT`.
Handlers, helper, reaper and user act whenever they can: the code makes none of
them wait for another.  The guard may die at any point or not answer in time, and
the monitor then asks for its own termination.  Where that timing can part
conductor and agents, the ghost `raced` gives it a name: `dropped`, the guard
forgets a continue the conductor has not recorded yet; `echo`, the conductor
takes back a probe's continue when the guard no longer stops it; `hasty`, stop and
continue follow each other before the monitor is done with the last suspension or
the reaper has seen it; `merged`, a continue is spent on the stop before the last,
or lost in a late one of the probe's, since flags and pending signals count nothing.

### From the files to the first spawn

**`PlanText`** is the reader over the blocks the CommonMark library reports
(`plan/markdown.rs`), the graph checks and `topo_order`; **`Routing`** the
catalog, `config::load`'s refusals and defaults, `route::resolve` and the review
plan; **`AgentCommands`** what `probe` demands of a CLI and the command line of
one spawn.  They are pure; **`Startup`** is the process over them:
`run_harness_inner`, `preflight_with_recorded`, the head of
`resume_harness_inner`, with every early return and what it leaves on disk,
while the plan, the configuration and the installed CLIs change around it.

### Conventions

`MC*` modules name the values their configurations use.  Next to some
definitions `Name` there is a `Name_Something` above it: the definition as a
plausible bug would have it: a dropped guard, a missing reset, a refund too
many.  Nothing refers to these operators.  Each is there so that the claim "this
property would notice" can be repeated: put in `Name`'s place, it makes the
property it is paired with in `PROJECT.json` fail.

## 3. What each run checks

| run | instance | checks |
|---|---|---|
| `shared` | two independent tasks on one tree and one branch, two attempts per rung, one deferral, every class of failure, late writes, either failure policy, one question, one crash anywhere | `PublishedAsRecorded`: the branch is what the log records and at most the commit of the settlement the log ends with; `CommittedOnce`; `AllowanceLeft`: whatever happened, a task that may run has an attempt left; `NothingLeaks` (`OwnVerifiedWork`: a task's commit holds its edits only, and no byte written after the capture; `SessionMatchesTree`; `PinsAccountedFor`); `RunsWhatItMay` (`OneAttemptAtATime`, `StoppedRunsNothing`, `NothingLeftRunnable`); `TypeOK` |
| `answers` | three tasks that ask, one without a chain; costs, a ceiling, an approval; two crashes, the failure policy may change at every resume; one commit by somebody else at any moment, and a move back | `AnswersStand` (`NoStrandedTask`, `AnswersFullyRecorded`, `DeclineHonoursRecordedPolicy`); `StopsKeepTheirReason` (`CeilingNotRelabelled`, `AnswersAndHaltStick`); `CommitsStay` (`RecordedOnBranch`, `BranchOnlyGrows`) |
| `tended` | two chained tasks, one question, an approval, one crash, fairness | `DependenciesFirst`, `EventuallyStops`, `AnswersTakeEffect` |
| `ladder_walk` | three rungs of three attempts, two deferrals, two answers, two crashes | `ChargedExactly`, `RungsUsedInFull`, `SpawnsBounded` |
| `pools` | three pools, two crashes | `OutagesRemembered`, `ToldOnce` |
| `log` | four events, two stops (kill, failed write or sync, power loss), a status, an export or a follower meanwhile | `WorkRestsOnTheLog` (`NeverCorrupt`, `MemoryIsTheLog`, `WorkRestsOnTheDisk`: work rests on the log appended to, a resume's repairs included, and on the disk for all that was acknowledged; not so for a line that was only read, section 5); `DeadMeansStill`; the refinement `KeepsThePromise`; `FollowerIsServed` (`ShowsThePrefix`, `FollowerReleased`) |
| `locks` | two runs of one worktree, two conductor threads of one process, one of another, a prober of a third, failing lock calls, one kill | `LocksFollowTheDriver` (`OneDriver`, `LocksNotStripped`, `NothingStale`); `AgentsDoNotOverlap`; `DeadWasDead` |
| `supervision` | one supervised agent with a descendant, a termination, one SIGKILL of conductor or reaper | `GroupIsOwned` (`NoUnownedAgent`, `LeaseOutlivesGroup`, `NoStrangerHit`); `VerdictIsSettled` (`ReturnedMeansSettled`, `ExitIsItsOwn`); `EverythingEnds` (`EveryCallReturns`, `CrashCleansUp`) |
| `jobs` | four upsets: stops and continues, SIGSTOPs to the conductor alone, a termination, launches, the guard's death | `SuspendedAsOne` (`StoppedTogether`, but for the races `hasty` and `echo`; `AcksMatch`); `AgentsKeepStep` (`StaysReleased`, but for `dropped`, `echo` and `merged`; `AgentsFollow`, but for `hasty` and `echo`); `TerminationWins`, but for `echo` |
| `pipeline` | one attempt of either of two workers under four review plans, no gate or two, two snapshots, two stops, one failing operation of their creation or cleanup | `SnapshotsAccountedFor` (`NothingOrphaned`, `RefusedOnlyIfStuck`, `CleanBeforeWork`: what stays was cut off in git, or its own cleanup failed); `JudgedAsPromised` (`PassMeansVerified`, `LiveIsIntact`, `JudgesGetTheirOwnTree`, `SecondLook`, `NoBlindVerdict`); `BlameAndBill` (`BlameIsRight`, `ReviewSpendRecorded`); `AttemptsEnd` (`VerificationEnds`, `LeftoversGo`) |
| `reports` | two tasks, two rungs of one attempt, any schema, three processes, two configurations | `LogServesEveryReader` (`AlwaysReadable`, `RefusedOnlyWhileUpgrading`, `RowsAreTheLedger`, `OwnLogsResume`, `BlockedNeedsAnAnswer`); `DecidedBeforeSpent` (`EveryFailureDecided`, `SpendWaitsForApproval`, `AtomicMeansTheSame`); `OneStandard` |
| `startup` | every plan of up to four blocks, every dependency graph of three tasks, ten projects started, resumed, edited, crashed; two upsets | `PlanIsHonoured` (`GraphVerdict`, `DistinctIds`, `CommentsOnlyAnnotate`, `ArtifactsComeFirst`, `FloorsHold`, `LabelsGiveDueCredit`); `RecordIsKept` (`WorksAsRecorded`, `SecondOpinionIsForeign`, `SelfReviewIsTold`, `HusksHaveACause`); `CommandsAreProven` (`SpawnedWereProbed`, `EveryOptionWasProven`, `EffortTakesEffect`, `AccessIsTheProfile`) |

A property with others in parentheses is their conjunction, one idea with
several parts; each part has a comment that says what it means and of which
code, and a mutant of its own in `PROJECT.json`.  The `TypeOK` of a module is a
part of one of them where the table does not show it; those of `LadderWalk` and
`PoolSignals` are proved (section 4) and not checked again.  The runs reach
between several thousand (`pools`) and three million (`answers`) states.

**Bounds.**  Every bound is a constant whose comment says `bound`.

* `Engine`: two tasks are enough for everything that happens between tasks (a
  dependency, a shared tree, a halt blamed on one of two, an open question
  beside a runnable task); the third of `answers` is the one with no chain.  Two
  attempts per rung is the least number that separates a retry from an
  escalation; one deferral the least that separates an outage that waits from
  one that asks.  One crash reaches every prefix of durable effects that a
  process can leave, and one resume over each; `answers` has two, so that a
  resume dies as well, because its repairs are several events themselves.  An
  agent that edits nothing can only be asked for when there is room for a
  question, so the question bound cuts no behaviour short that could go on.
* `EventLogFile`: four events are a `run_started`, work, a stop and a
  `run_resumed`, with one more to be cut short; two stops let a repair itself be
  cut short.
* `RunLocks`: two threads of one process and one of another are the three ways
  to meet on a lock, a run of one's own and a shared one the two ways to
  conflict on a worktree.
* `Supervision`: one agent, because calls share only the launch count and the
  monitor; one SIGKILL is what the code promises to survive.  `ReaperFault =
  "early"` lets the reaper be killed until the agent is launched under it; the
  code promises nothing for both killed later (`agent/proc.rs:663`).
* `JobControl`: four upsets are two stops and two continues, so that each can
  overlap the other's settling, or a stop, a continue and another stop with an
  agent, or one of each with an agent and a termination or a dead guard.
  (`StaysReleased` was also checked over four stops and continues with agents, but
  without a termination.)  `StablePolls = 2` is the least debounce that can be
  begun and not ended.  Two facts of time stand in guards: the pulse
  of a probe ends before the next (`Tick`) and takes fewer polls of the reaper's
  than the reaper wants before it believes in a resume (`ReaperPoll`): 250 ms and
  50 polls of 10 ms, against a handler that stops its process at once.
* `AttemptPipeline`: two snapshots are gates and reviewers; two stops let a
  reclaim die; one operation fails in a behaviour.
* `RunLog`: two starts are a failure and what its decision leads to; three
  processes are the older binary, an upgrade cut short and the one that repairs.
* `Startup`: a circle of three is the least one that a search for pairs misses,
  four blocks the least text with a heading, an annotation, a list and something
  between; two upsets are an edit and a crash, or two edits between two resumes.

**Deadlock** is checked where a system cannot stop while a budget is left
(`pools`, `locks`).  Elsewhere it is not: a finished run, an ended process, a
follower that returned, a call that returned stop for good.

**Fairness.**  `Engine`'s `Spec` has none: a process may die and never be
resumed.  `FairSpec` adds weak fairness of `Drain \/ Step \/ Recover`: the engine
is one thread that blocks only in waits the code bounds (the attempt timeout of
`agent/proc.rs`, `defer_backoff`, the answer budget of `interaction.rs`).  The
disjunction is one fairness condition, not one per action: nothing is assumed
about which branch is taken when two are open, such as how an attempt ends.
`TendedSpec` also has weak fairness of `Resume`: the operator keeps resuming a
run that can be resumed.  `EventLogFile` is fair to the follower's polling loop
alone.  `Supervision` and `JobControl` are fair to each thread and process by
itself, and to a clock's passing; strong fairness stands only for the sweep of
the process table, which is repeated until it finds the group empty.
`AttemptPipeline` is fair to git's steps, to the verification loop, whose
children proc.rs puts a deadline on, and to somebody resuming.  Crashes,
answers, users, agents' endings and outside commits are never fair.

## 4. What is proved

The proofs hold for every value of the constants that satisfies the named
assumptions of the modules (`DepsAssumption`, `ChainAssumption`,
`InputAssumption`, `BoundAssumption`, `NTasksAssumption`, `WalkAssumption`,
`PoolsAssumption`, `ThreadsHaveProcesses`, `AskersDriveNothing`,
`FilesAndThreads`, `BoundsAreNaturals`, `SnapshotBounds`, `PipelineBounds`,
`OtherFamilies`, `FaultsAreKnown`, `JobControlConstants`).  `EngineProofs` goes
from the types over who may run and why the run stopped to commits, to what
attempts leave behind, and to the pools; it rests on `TaskProgressProofs`, what
an event does to one task's record.

* **`TypeCorrect`** (`EngineProofs`): `Spec => []TypeOK`.  `TypeOK` is not
  inductive: during an ingestion an answer is applied to the question named by
  `ingesting`, and the candidate and the unrecorded commit are chosen from sets.
  `TypeInv` adds what those steps rely on: at the labels of an ingestion
  `ingesting` is a question that was raised, from capture to record there is a
  candidate, while a resume publishes or adopts there is a commit to record, and
  the questions stay within their bound (a question's number is an index of
  `payload`).

* **`AllowanceLeftAlways`**, **`RunsWhatItMayAlways`**, **`AnswersStandAlways`**
  and **`StopsKeepTheirReasonAlways`** (`EngineProofs`): the four scheduler
  properties, all from one inductive invariant, `SchedInv`.  None of its parts
  is inductive without the others:
  - *Ends* says which settlement the log ends with and whose step it is: at most
    one commit is unrecorded, its task is still `Pending`, and at the quiet
    labels there is none, so that appending an event loses nothing.
  - *Flight*: an attempt in flight is that of a `Pending` task, the only one,
    with no stop in force and no settlement pending; it is the task being
    stepped while the process lives.
  - *Allowed*: what is left of every task's allowance in each state it can be
    in, `Deferred` and parked included, because waking or answering makes it
    `Pending` without giving anything back (except for `Unblock`).
  - *Asked*, *Ingested* and *Unsettled* relate questions and tasks: an open
    question has its task waiting for it; a parked task waits for a question of
    its own that is open or was declined; a decline whose task has not failed
    yet is the one at hand, or a dead process left it, in which case nothing was
    appended since -- no stop, no settlement, no attempt -- and no scheduling
    happens before the repair.
  - *Halted*: a halt has a failed task and excludes a ceiling; a settled decline
    halted the run exactly if the policy recorded with it says so.  That a reply
    of the channel is only ever held below a ceiling is the part without which a
    decline could still halt a run that a ceiling has stopped.
  - *Ended* keeps a finished run as it was until it is resumed; *Filed* keeps
    payloads and design defects complete but for the one at hand.

* **`PublishedAlways`**, **`CommittedOnceAlways`**, **`DependenciesFirstAlways`**
  and **`CommitsStayAlways`** (`EngineProofs`), from `PubInv`.  Anybody may
  commit on the branch at any moment and move it back while no process runs; only
  `PublishedAlways`, which says the branch holds nothing but the record, has the
  hypothesis `MaxOutside = 0`.  `Carries(b, s)` says that the engine's own
  commits on the branch `b` are exactly the sequence `s`, in order, whatever lies
  between them; it is stated by counting (`Own`, `Before`), and its lemmas say
  what another commit of the engine, a commit of somebody else and a move back do
  to it.  The branch carries the record (*Unpublished*) or the record and the
  prepared commit (*Published*), and the label, while there is a process, says
  which.  A crash forgets the label and not the branch: `Tips` shows that resume
  tells the two apart from the tip alone, because a commit still to be recorded
  is that of a task the record does not have and is not its own parent (*Fresh*).
  `OneCommitPerTask` ties the record to the states of the tasks, and *Based*
  keeps the dependencies of the task being stepped, and of a commit to be
  recorded, committed.

* **`NothingLeaksAlways`** (`EngineProofs`), from `LeftInv`: `SchedInv` and
  four accounts of what an attempt leaves.  *Sessions*: a session is only ever to
  be resumed by the task being stepped, on the rung it was left on; *Trees*: the
  working tree holds edits of that task and late writes only, and nothing where
  an agent starts afresh -- with the exception of a budget stop whose cleaning
  failed, after which nothing starts before a resume has cleaned up; *Edits*: a
  candidate is captured from such a tree, and only a prepared candidate is
  settled or published; *Pinned*: a pin belongs to the attempt in flight or to
  the settlement the log ends with, and to nobody where the scheduler is at rest.

* **`ChargedExactlyAlways`**, **`RungsUsedInFullAlways`** and
  **`SpawnsBoundedAlways`** (`LadderWalkProofs`): the accounting of the ladder
  for every number of rungs, attempts and deferrals.  The first two are proved
  together: that a refund never meets the floor of the saturating subtraction
  needs the attempt in flight to have been charged, and that `charged` stays
  below `AttemptsPer` needs the charge the ladder reads to be exact.  The third
  says nothing of how much of the current allotment is gone; `Spent` does: what
  was spawned is what earlier answers paid for, the rungs climbed and the charge
  of this one, the deferrals since the last answer, the crashes, and one for a
  parked task and one for an attempt in flight.

* **`PoolsTypeCorrect`**, **`RememberedAlways`** and **`ToldOnceAlways`**
  (`EngineProofs`, of `PoolSignals`): for any set of pools.  The invariant says that a pool
  with an event is out by both accounts, and that between a settlement and its
  aftermath the two accounts differ by exactly what that settlement proves about
  its pools.

* **`LocksFollowTheDriverAlways`**, **`AgentsDoNotOverlapAlways`** and
  **`DeadWasDeadAlways`** (`RunLocksProofs`): for any finite set of threads in
  any processes, any runs and any number of kills.  *Held*: what a thread has
  claimed and locked follows from where it is, and of one process only one
  thread is past its claim to the worktree -- the claims tell the threads of a
  process apart, the OS lock tells the processes apart, and neither is inductive
  alone.  *Accounted* is the converse: every claim and every lock has a thread
  to give it up.  *Scanned*: a run crossed off the list of a scan has no orphan,
  and gets none while the worktree is held.  *Probed* keeps for every probe the
  instant at which its run was free.
  Two assumptions were made explicit for it.  `FilesAndThreads`: the worktree's
  lock file is no run's, and there are finitely many threads.
  `AskersDriveNothing`: no process both asks and drives, since a probe closes a
  descriptor of a lock file, which on Unix gives up the lock of its whole
  process.  The code's own commands satisfy it: `status`, `export` and `answer`
  end without driving, and `run` and `resume` do not probe.

* **`WorkRestsOnTheLogAlways`**, **`DeadMeansStillAlways`** and
  **`KeepsThePromiseAlways`** (`EventLogFileProofs`): the event log for any
  number of events, stops and reads.  `Shape(cells, events)` says that a file is
  the lines of `events`, three cells each, and then cells without a newline; the
  lemma `Reading` says that a reader makes of such a file exactly those events
  and calls it sound, and `ShapeCut`, `ShapeRest`, `ShapeWhole` and `ShapePart`
  what remains of it when it is cut anywhere, read from an offset, and written
  to, to the end of a line or short of it.  The invariant has a part for each
  party.  *FileInv*: the file always has such a shape, so a torn line is only
  ever the last; an engine that has opened the log left nothing behind its last
  line, so the next append cannot run into the remains of another; what is
  acknowledged is on disk, whatever work rested on below that is there too (`rests`,
  through power losses and other processes), and while a line is being written the
  file and what is left to write are the next shape.  *ReaderInv*: a reader that found nobody has
  either an instant at which nobody drove, or a log that is longer than what it
  read first and will stay so -- which is why the second read finds it out, and
  why comparing committed parts suffices.  *TailInv*: the follower's offset is
  behind the lines of exactly what it has shown.  The refinement maps each step
  to `Commit`, `Acknowledge`, `Show`, `Forget` or a stutter; that a power loss is
  a `Forget` rests on acknowledged events being on disk.
  `ShowsThePrefixAlways` proves the first half of `FollowerIsServed`; the fairness
  of `Spec` is used by none of them.

* **`SnapshotsAccountedForAlways`**, **`JudgedAsPromisedAlways`** and
  **`BlameAndBillAlways`** (`AttemptPipelineProofs`): the attempt and its
  snapshots for any number of snapshots, kills, faults, gates and plans; all that
  the run `pipeline` checks but `AttemptsEnd`.  The invariant has two halves.
  *SnapInv* speaks of the store alone.  `NothingOrphaned` is not inductive: that
  an intent may be unlinked needs git to have forgotten the worktree, which the
  engine has from `git worktree list` some steps before.  *Stages* says how far a
  snapshot has come at each step of the engine and of a running git, *Waited*
  that a running git is the one child the engine waits for or was left behind by
  a kill, *Disks* that every disk a power loss could bring back is sound, and
  *Leftovers* that work goes on over no remains but the snapshot in hand, what
  git was cut off in and what a failing cleanup left.  *AttemptInv* rests on it: *Heard* says which judges have
  spoken and which are still to be asked, in the order of the plan; *Proven* what
  the worker and the gates have shown; *Apart* that the snapshot judges look at
  is never the one gates ran in, because names are not given twice; *Billed* that
  the records and the pass in hand add up to what was charged.  `OtherFamilies`
  is what `resolve_reviews` makes sure of when the plan is bound
  (`review.rs:400`): whoever implements or judges has an adapter, and the
  alternative and the second opinion are not the primary.

* **`VerdictIsSettledAlways`**, **`LeaseOutlivesGroupAlways`**,
  **`NoStrangerHitAlways`**, **`NoUnownedAgentAlways`** and
  **`GroupIsOwnedAlways`** (`SupervisionProofs`): for any number of callers
  beside one monitor, and any number of SIGKILLs.  The run `supervision` has one
  caller and one SIGKILL; the theorems say which promise needs what.  That a
  returned call has settled its group, and that the lease outlives the group,
  needs nothing.  That no stranger is signalled needs that no reaper is killed
  while it sweeps (`ReaperFault # "always"`; with it and a single SIGKILL TLC
  finds `NoStrangerHit` violated, section 5).  That no agent runs unowned needs
  `OneKill`: one SIGKILL, or any number of them while reapers survive; with two,
  a reaper killed before its agent is launched and then the conductor, TLC finds
  an agent nobody will kill.  `GroupIsOwnedAlways` has both hypotheses.
  The invariant has an account for each party.  *PerCall* is of one call: the
  anchor keeps the group's number from being given away until the reaper has
  gone (*Anchored*), which signals may still be sent to it (*Free*), and what a
  caller past the cleanup has seen (*Returned*, *Seized*).  *Table* ties a
  caller's place to what registration, reply and reaper may be at that place,
  stage by stage, as long as the conductor lives -- killed, it leaves any of
  them behind.  *Counted* says that at most one launch is counted and whose it
  is, without which the monitor could kill the groups while one is about to be
  born.  *Blamed* says which deaths used up a SIGKILL: that is how `OneKill`
  enters, since an agent without a reaper has cost one.

* **`SuspendedAsOneAlways`**, with **`AcksMatchAlways`**, **`JobTypesAlways`** and
  **`StoppedTogetherAlways`** (`JobControlProofs`): for any number of commands of
  the user's and any debounce of the reaper's, in whatever order handlers, monitor,
  guard, helper, reaper and user act, with a guard that may die at any point.
  None has a hypothesis but `JobControlConstants`.  *Protocol* is about what is still in the command pipe
  of a living guard: two of the monitor's commands are there at once only as a
  disarm with the arm of the next suspension behind it, wherever the handlers'
  wakes fall between them, and an arm the monitor has given up waiting for is
  the last.  `StoppedTogether` says that no agent runs in a suspension unless
  `hasty` or `echo` has happened; *Together* is the same disjunction with, beside
  the races, *Calm* (between the user's stop and the guard's, the reaper mirrors
  nothing), *Held* (the groups are stopped from before the guard is armed until it
  lets go) and *Pulsed*: within a pulse the reaper has counted no more polls
  towards a resume than the pulse had, so it never takes a pulse for a resume.

Only model-checked: what the runs `reports` and `startup` check, and all liveness
(`EventuallyStops`, `AnswersTakeEffect`, `EverythingEnds`, `AgentsKeepStep`,
`TerminationWins`, `AttemptsEnd`, the second half of `FollowerIsServed`): fairness
is beyond this prover.  The functions of
`PlanText`, `Routing` and `RunLog`, which are recursive or fold over sequences,
need induction over data and stay with TLC as well.

## 5. Where the code and its documents disagree

Met while modelling, at the lines given.  A property that states the sentence stands in the module named, but in no
configuration: added to one, TLC shows the counterexample, for the bounds of its
run.

*With a property of its own:*

* **`RecoverableByReplay`** (`EventLogFile`): a crash is to be
  recoverable by replay because an event is on disk "before the work it describes
  carried on" (`events.rs:1554`).  A resume acts on a log it has read and not
  synced (`engine.rs:1212`, `:1601`); a settlement whose writer died between
  write and sync can be published and then be lost with the power.
* **`ResumeReclaimsEvery`** (`GateSnapshots`, temporal): resume "reclaims
  every such registration" (`DESIGN.md:402`).  A `git worktree add` killed in the
  middle leaves a locked registration that `worktree remove --force` does not
  remove, and every later resume is refused over it.  `RefusedOnlyIfStuck` is
  what does hold.
* **`LegacyStaysReadable`** (`RunLog`): a log of schema 1 "remains
  readable" (`DESIGN.md:416`).  Between `run_schema_upgraded` (`engine.rs:1745`)
  and the `run_resumed` that records the plan's digest (`engine.rs:1800`) export
  (`export.rs:182`) and status (`status.rs:109`) refuse it, and a crash leaves it
  so; `RefusedOnlyWhileUpgrading` is what holds.
* **`SigstopCovers`** (`JobControl`, race `hasty`): a second `SIGSTOP` within the
  reaper's resume debounce finds the mirror of the first still set
  (`agent/proc.rs:1701`) and is not mirrored: the conductor stays stopped and the
  agents run, against the test at `agent/proc.rs:4509`.
* **`ContinueIsFinal`** (`JobControl`, race `dropped`): the guard's arm drops a continue that
  reached it before the conductor's own handler had recorded it
  (`agent/proc.rs:2161`), and both stay stopped, against the test at
  `agent/proc.rs:4647`.
* **`TerminationIsFinal`** (`JobControl`, race `echo`): a probe's continue that is handled after
  the guard has let go makes the conductor stop itself (`agent/proc.rs:1130`), and
  a termination waits until somebody continues it, against the test at
  `agent/proc.rs:4667`.
* **`RecordIsAChain`** (`Engine`, with `MaxOutside = 1`): the head of the record
  is said to be "what HEAD must still be" (`engine.rs:1958`), but the publishing
  process takes as parent whatever HEAD names at the capture
  (`workspace.rs:525`).  A commit made in the worktree during an attempt becomes
  part of the published history without being judged.  Only `resume` checks.
* **`FirstAnswerKept`** (`Engine`): `answer.rs:55` wants answering twice to be
  caught.  The guard reads the payload, which only the engine rewrites, so a
  second answer before the engine's next turn replaces the first.
* **`UnansweredFails`** (`Engine`): `DESIGN.md:313` fails an unanswered task under
  CI mode.  The code leaves it parked (`engine.rs:3138`), as `DESIGN.md:324` says.
* **`EngineAgreesWithLog`** (`PoolSignals`): `engine.rs:2057` and `:2631` say the
  engine's set of exhausted pools and the log's fold agree about a recovery.  The
  success path returns before the set is touched (`engine.rs:2619`); the next
  outage of that pool goes unannounced.
* **`WaitsForTheMarker`** (`EventLogFile`): a follower that finds a
  `run_finished` and a held run "must wait for the marker" (`status.rs:449`); a
  probe that falls between two holders makes it return on the old result with
  the `run_resumed` already in the log.
* **`RunningWasRunning`** (`RunLocks`): "the lock now answers exactly"
  (`status.rs:422`).  The probe takes the cleanup lease for an instant
  (`rundir.rs:750`), and another probe that meets it reports a dead run as
  running.  Related: with a probe in the same process as a conductor, closing
  the probe's descriptor would take the conductor's lock away
  (`rundir.rs:568`, `:619`); no command of today combines the two.

*With `ReaperFault = "always"` in `Supervision`:* a reaper killed while the
conductor is being terminated leaves a group number that may have been given
to a stranger by the time it is signalled (`proc.rs:663`, `:200`);
`NoStrangerHit` fails.

*Seen in the models, without a property:*

* A resume's `--budget` has no effect: `ResumeOptions.budget_usd`
  (`engine.rs:1126`) is not copied into the options the run goes on with
  (`engine.rs:1256`).
* The second asking of a review resumes a session without looking at the
  capability to do so (`review.rs:597`, `:697`; the engine does for attempts,
  `engine.rs:2410`).  `EveryOptionWasProven` excepts it.
* A failure after the run's directory exists (lock, normalized plan, branch, log)
  leaves a directory without a run, which `latest_run` then finds.
  A failed freeze removes what it made, but ignores it when that
  fails in turn (`engine.rs:803`).  `HusksHaveACause` lists the ways.
* "Judges its own work" is decided by agent and model: the same model under
  another agent judges itself unwarned.  The warnings are in memory until the
  report, so a crash loses them, and a resume whose record already lacks the
  alternative does not repeat them.

## 6. What is abstracted or not modelled

In the modelled parts:

* Messages, prompts, ledgers' wording and feedback are left out.  A session id
  is a Boolean, an option is a set with at most one member, an edit is the
  number of the task that made it.
* In `Engine` agents, gates and reviewers are inputs: an attempt ends in any
  failure of `Failures`, or passes.  `AttemptPipeline` has the inside.  The two
  are not composed: their product is beyond TLC, and they meet only in the
  failure handed over.
* A failed append, git command or file write ends the process, as `?` does in
  the code, and is a `Crash` of `Engine`.  At the labels where `step_task` cleans
  the tree on its way out, the crash may do so too.
* An append is atomic and durable in `Engine` and `RunLog`; `EventLogFile` is
  about why they may take it so.
* The sweep ingests one question per turn of the loop where the code makes one
  pass; the turns between have no effect of their own.  An answer file that
  arrives in the middle of a step is seen at the next sweep, and so the
  operator's action commutes with it.
* `Tidy` tells what the settlement just folded decided from `resume_next` and
  the task's state; the code has the decision in a local.  The two agree: the
  one decision they could confuse with a retry, `Fail`, is taken only for a
  chain without rungs, and such a task never starts an attempt (`NoRung`).
* `RewritePayloads` rewrites every payload in one step where the code writes one
  file after the other.  The rewrite is idempotent and the next resume repeats
  it, so a crash in the middle leaves what a crash before it could leave, file
  by file.
* Bytes written after a capture that survive in a tree kept for a resumed retry
  belong to the next capture of the same task, as in the code.
* `PoolSignals` leaves out pools that the pools file does not name, which
  neither side tracks, and the renewed marking by `pool_exhausted`, which the
  settlement before it has already done.
* `GateSnapshots` takes the file system to keep the order of its own operations
  over a power loss, and no more.  Files of unknown names in the store, which
  the code refuses to touch, are left out.
* `RunLog` leaves out events that change no state and bind no identity.
* `PlanText` starts from the blocks of a text some reader has recognized: the
  refusal of a text no reader detects (`plan/markdown.rs:29`) comes before it, and
  an annotation inside a list item or a paragraph is a comment block beside it.
* `Routing` takes the globs an override has as the names they match.
  `LoadRefusals` is about the values of a file that could be read: globs that do
  not compile, an explicit file that is missing and the pools file are left out.

Not modelled:

* The Windows halves of `proc.rs`, `rundir.rs` and the gates' shells (job
  objects, `LockFileEx`): the Unix half is the one the documents reason about.
* The estimator's arithmetic and the pools file (`capacity.rs`), provenance of
  tests over diffs (`gates.rs`), the parsing of a typed answer and notifiers
  (`interaction.rs`), discovery of binaries and authentication, usage arithmetic
  of the adapters: computations over text or floats with no state.
* Layout and wording of reports, CSV quoting, numeric formats (`status.rs`,
  `export.rs`).
* Git prerequisites and filters, `connect`, the command line and helpers: checks,
  prompts and parsing; `Startup` has the refusal of the first as one outcome.
* Abbreviated run identifiers and the listing of runs.

## 7. The plan

Done: all the modules of section 2, the runs of section 3, the proofs of
section 4.  Next, in this order:

1. **Theorems.**  `OneStandard` of `RunLog` and `RecordIsKept` of `Startup`, once
   their recursive operators are recursive functions.
2. **`Publication`**, an abstract specification: a task is verified, its commit
   appears on the branch, its commit is in the record, each atomically and once;
   `Engine` implements it, the next-state part proved from `PubInv`.
3. The estimator and its windows against a reference definition; the parsing of
   typed answers.
