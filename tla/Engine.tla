------------------------------- MODULE Engine -------------------------------
(***************************************************************************)
(* The sequential orchestrator of src/src/engine.rs: the scheduler, one    *)
(* attempt at a time, the publication of a passing attempt, the answers an *)
(* operator leaves, a crash between any two durable effects, and resume.   *)
(*                                                                         *)
(* Durable state: the log (module RunState), the run branch, the private   *)
(* pins, the working tree, the question payloads and the answer files.     *)
(* Volatile state: where the process is (pc) and what it holds in memory.  *)
(* Every append of an event, every ref update and every clean of the tree  *)
(* is a step of its own, because the process can die between any two.      *)
(***************************************************************************)
EXTENDS RunState, FiniteSets, Functions

CONSTANTS
  Deps,             \* Deps[t]: the tasks t depends on
  Rungs,            \* Rungs[t]: how many rungs t's chain resolved to
  FrontierRungs,    \* the rungs of a chain whose tier is frontier
  AttemptsPer,      \* attempts allowed per rung
  MaxDefers,        \* deferrals an outage buys before a human is asked
  Failures,         \* the ways an attempt can fail that are explored
  Costs,            \* the costs an attempt can report
  Configs,          \* [halts, run_usd, task_usd] a process can read
  SpendApprovalOver,\* {threshold} of ask_before, {} when it is not set
  SessionResume,    \* does the agent support resuming a session?
  LateWrites,       \* can bytes change in the tree after the capture?
  MaxQuestions,     \* bound: questions raised
  MaxCrashes,       \* bound: processes that die
  MaxOutside        \* bound: commits made by someone other than the engine

ASSUME DepsAssumption == Deps \in [Task -> SUBSET Task]
ASSUME ChainAssumption ==
  /\ Rungs \in [Task -> Nat]
  /\ FrontierRungs \subseteq Nat
  /\ AttemptsPer \in Nat \ {0}
  /\ MaxDefers \in Nat
ASSUME InputAssumption ==
  /\ Failures \subseteq AttemptFailure
  /\ \A f \in Failures : f.kind \notin {"NoChain", "Declined", "Interrupted"}
  /\ Costs \subseteq Nat
  /\ Configs \subseteq [halts: BOOLEAN, run_usd: SUBSET Nat,
                        task_usd: SUBSET Nat]
  /\ SpendApprovalOver \subseteq Nat
  /\ SessionResume \in BOOLEAN /\ LateWrites \in BOOLEAN
ASSUME BoundAssumption ==
  MaxQuestions \in Nat /\ MaxCrashes \in Nat /\ MaxOutside \in Nat

VARIABLES
  branch,        \* commits on the run branch, oldest first, after the base
  pins,          \* prepared commits held by refs/tactus/prepared/...
  tree,          \* whose uncommitted edits the working tree holds
  payload,       \* each question's file: absent, open, or showing an answer
  answers,       \* each question's answer file
  pc,            \* what the process does next, "down" when there is none
  cur,           \* the task being stepped, 0 for none
  candidate,     \* {the captured candidate}, {} for none
  ingesting,     \* the question whose answer is being recorded, 0 for none
  reply,         \* {what the channel returned for the question asked}, or {}
  unanswerable,  \* questions this process asked and nobody answered
  config,        \* the configuration this process read
  crashes, outside   \* how much of the two bounds is used

gitVars == <<branch, pins, tree>>
fileVars == <<payload, answers>>
procVars == <<pc, cur, candidate, ingesting, reply, unanswerable, config>>
countVars == <<crashes, outside>>
vars == <<logVars, gitVars, fileVars, procVars, countVars>>

QuestionIx == 1..MaxQuestions

DrainStates == {"drain", "defect", "decline", "rewrite"}
StepStates == {"step", "attempt", "verify", "settle", "advance", "unpin",
               "scrub", "record", "materialize", "tidy"}
ResumeStates == {"republish", "recheck", "reunpin", "orphans", "residue",
                 "adopt", "repair", "interrupted"}

(* What asking about a question can return (interaction.rs: AnswerSource). *)
Reply == [question: Nat, answer: {"Answered", "Declined", "Unanswered"}]

Init ==
  /\ RunStateInit
  /\ branch = <<>> /\ pins = {} /\ tree = {}
  /\ payload = [q \in QuestionIx |-> "absent"]
  /\ answers = [q \in QuestionIx |-> "none"]
  /\ pc = "drain" /\ cur = 0 /\ candidate = {} /\ ingesting = 0
  /\ reply = {} /\ unanswerable = {}
  /\ config \in Configs
  /\ crashes = 0 /\ outside = 0

(* The types of the folded log, of git, of the files and of the process.   *)
TypeOK ==
  /\ RunStateTypeOK
  /\ branch \in Seq(Commit)
  /\ pins \in SUBSET Commit
  /\ tree \in SUBSET (0..NTasks)
  /\ payload \in [QuestionIx -> {"absent", "open", "closed"}]
  /\ answers \in [QuestionIx -> {"none", "Answered", "Declined"}]
  /\ pc \in DrainStates \union StepStates \union ResumeStates \union {"down"}
  /\ cur \in 0..NTasks
  /\ candidate \in SUBSET Commit
  /\ ingesting \in Nat
  /\ reply \in SUBSET Reply
  /\ unanswerable \in SUBSET Nat
  /\ config \in Configs
  /\ crashes \in Nat /\ outside \in Nat
-----------------------------------------------------------------------------
Questions == 1..Len(questions)
TipOf(commits) == IF commits = <<>> THEN Base ELSE commits[Len(commits)].id
Tip == TipOf(branch)

(* last_committed_sha: the commit the run's record ends at.                *)
RecordedHead == TipOf(recorded)

(* Where a task's current attempt commits, and the commit it would make.   *)
AttemptId(t) == <<t, progress[t].attempts>>

Stopped == halted_at # 0 \/ budget_stop

(* Faults: next_ready forgets the dependencies, or the stop.               *)
Ready_DepsIgnored == {t \in Task : ~Stopped /\ states[t].is = "Pending"}
Ready_EvenIfStopped ==
  {t \in Task : /\ states[t].is = "Pending"
                /\ \A d \in Deps[t] : states[d].is = "Done"}

(* next_ready: the lowest task of the plan that may run now.               *)
Ready == {t \in Task : /\ ~Stopped
                       /\ states[t].is = "Pending"
                       /\ \A d \in Deps[t] : states[d].is = "Done"}

Lowest(S) == CHOOSE n \in S : \A m \in S : n <= m

(* Open questions with an answer on file, and open questions this process  *)
(* has not yet asked in vain.                                              *)
Sweepable == {q \in Questions : IsOpen(q) /\ answers[q] # "none"}
Askable == {q \in Questions : IsOpen(q) /\ q \notin unanswerable}

RunSpend == SumFunctionOnSet(spent, Task)
BudgetBreach(t) == \/ \E limit \in config.run_usd : RunSpend >= limit
                   \/ \E limit \in config.task_usd : spent[t] >= limit

(* outcome(): a halt outranks a budget stop, which outranks parked work.   *)
RunOutcome == CASE halted_at # 0 -> "Halted"
                [] halted_at = 0 /\ budget_stop -> "BudgetExceeded"
                [] OTHER -> IF \E t \in Task : states[t].is = "AwaitingInput"
                            THEN "Parked" ELSE "Complete"

(* What a process that is gone no longer holds.                            *)
ForgetProcess ==
  /\ pc' = "down" /\ cur' = 0 /\ candidate' = {} /\ ingesting' = 0
  /\ reply' = {} /\ unanswerable' = {}
  /\ UNCHANGED config

Goto(label) ==
  /\ pc' = label
  /\ UNCHANGED <<cur, candidate, ingesting, reply, unanswerable, config>>

BackToDrain ==
  /\ pc' = "drain" /\ cur' = 0 /\ candidate' = {} /\ ingesting' = 0
  /\ UNCHANGED <<reply, unanswerable, config>>
-----------------------------------------------------------------------------
(* The drain loop: its four branches, in the order the loop tries them.    *)

(* ingest_answer is four durable effects: the answer, its design defect,   *)
(* the failure of a task whose question was declined, and the payload.     *)
IngestAnswer(q, answer) ==
  /\ QuestionAnswered(q, answer, answer = "Declined" /\ config.halts)
  /\ pc' = "defect" /\ ingesting' = q
  /\ UNCHANGED <<cur, candidate, unanswerable, config>>
  /\ UNCHANGED <<gitVars, fileVars, countVars>>

(* Fault: an answer is swept in although a ceiling stopped the run.        *)
SweepAnswers_PastCeiling ==
  /\ pc = "drain" /\ Sweepable # {}
  /\ LET q == Lowest(Sweepable) IN IngestAnswer(q, answers[q])
  /\ UNCHANGED reply

SweepAnswers ==
  /\ pc = "drain" /\ ~budget_stop /\ Sweepable # {}
  /\ LET q == Lowest(Sweepable) IN IngestAnswer(q, answers[q])
  /\ UNCHANGED reply

RecordDefect ==
  /\ pc = "defect"
  /\ DesignDefect(ingesting)
  /\ Goto(IF questions[ingesting].answer = "Declined" THEN "decline"
                                                     ELSE "rewrite")
  /\ UNCHANGED <<gitVars, fileVars, countVars>>

FailDeclined ==
  /\ pc = "decline"
  /\ LET t == questions[ingesting].task
     IN  IF states[t] = AwaitingInput(ingesting) THEN TaskFailed(t, config.halts)
                                                 ELSE UNCHANGED logVars
  /\ Goto("rewrite")
  /\ UNCHANGED <<gitVars, fileVars, countVars>>

RewritePayload ==
  /\ pc = "rewrite"
  /\ payload' = [payload EXCEPT ![ingesting] = "closed"]
  /\ BackToDrain
  /\ UNCHANGED <<logVars, gitVars, answers, countVars>>

NothingToSweep ==
  pc = "drain" /\ reply = {} /\ (budget_stop \/ Sweepable = {})

StepTask ==
  /\ NothingToSweep /\ Ready # {}
  /\ pc' = "step" /\ cur' = Lowest(Ready)
  /\ UNCHANGED <<candidate, ingesting, reply, unanswerable, config>>
  /\ UNCHANGED <<logVars, gitVars, fileVars, countVars>>

(* Fault: deferred work is waited for only when nothing else is left.      *)
DeferredWork_WhenNothingElse ==
  /\ ~Stopped /\ \E t \in Task : states[t].is = "Deferred"
  /\ \A t \in Task : states[t].is \in {"Deferred", "Done"}

DeferredWork == ~Stopped /\ \E t \in Task : states[t].is = "Deferred"

WaitForPool ==
  /\ NothingToSweep /\ Ready = {} /\ DeferredWork
  /\ DeferWaitElapsed
  /\ UNCHANGED <<gitVars, fileVars, procVars, countVars>>

HardBlock == NothingToSweep /\ Ready = {} /\ ~DeferredWork

(* resolve_one_question asks first, sweeps again, and only then applies    *)
(* what the channel returned: the channel may have waited on the very file *)
(* the sweep reads.                                                        *)
Ask(answer) ==
  /\ HardBlock /\ ~Stopped /\ Askable # {}
  /\ reply' = {[question |-> Lowest(Askable), answer |-> answer]}
  /\ UNCHANGED <<pc, cur, candidate, ingesting, unanswerable, config>>
  /\ UNCHANGED <<logVars, gitVars, fileVars, countVars>>

Swept(r) == pc = "drain" /\ r \in reply /\ Sweepable = {}

StillOpen(q) == q \in Questions /\ IsOpen(q)

ReplyLands(r) ==
  /\ Swept(r) /\ r.answer # "Unanswered" /\ StillOpen(r.question)
  /\ IngestAnswer(r.question, r.answer)
  /\ reply' = {}

(* The sweep answered this very question: the reply is absorbed.           *)
ReplyAbsorbed(r) ==
  /\ Swept(r) /\ r.answer # "Unanswered" /\ ~StillOpen(r.question)
  /\ reply' = {}
  /\ UNCHANGED <<pc, cur, candidate, ingesting, unanswerable, config>>
  /\ UNCHANGED <<logVars, gitVars, fileVars, countVars>>

NobodyReplied(r) ==
  /\ Swept(r) /\ r.answer = "Unanswered"
  /\ reply' = {}
  /\ unanswerable' = unanswerable \union {r.question}
  /\ UNCHANGED <<pc, cur, candidate, ingesting, config>>
  /\ UNCHANGED <<logVars, gitVars, fileVars, countVars>>

Finish ==
  /\ HardBlock /\ (Stopped \/ Askable = {})
  /\ RunFinished(RunOutcome)
  /\ ForgetProcess
  /\ UNCHANGED <<gitVars, fileVars, countVars>>
-----------------------------------------------------------------------------
(* step_task: one task driven until it yields the scheduler.               *)
Here(label) == pc = label /\ cur # 0

NoRung ==
  /\ Here("step") /\ progress[cur].rung >= Rungs[cur]
  /\ TaskFailed(cur, config.halts)
  /\ BackToDrain
  /\ UNCHANGED <<gitVars, fileVars, countVars>>

(* The ceiling is recorded first; cleaning the tree afterwards may fail,   *)
(* which only warns.                                                       *)
StopAtBudget ==
  /\ Here("step") /\ progress[cur].rung < Rungs[cur] /\ BudgetBreach(cur)
  /\ BudgetExceeded
  /\ tree' \in {{}, tree}
  /\ BackToDrain
  /\ UNCHANGED <<branch, pins, fileVars, countVars>>

StartAttempt ==
  /\ Here("step") /\ progress[cur].rung < Rungs[cur] /\ ~BudgetBreach(cur)
  /\ AttemptStarted(cur)
  /\ Goto("attempt")
  /\ UNCHANGED <<gitVars, fileVars, countVars>>

(* The agent edits the tree, or does not, and capture_candidate freezes    *)
(* what the tree holds on top of the commit HEAD names at that moment.     *)
RunAgent(edits) ==
  /\ Here("attempt")
  /\ edits \/ Len(questions) < MaxQuestions     \* bound: it may need to ask
  /\ LET held == (tree \ {0}) \union
                 (IF edits \/ 0 \in tree THEN {cur} ELSE {})
     IN  /\ tree' = held
         /\ candidate' = {[id |-> AttemptId(cur), parent |-> Tip,
                           edits |-> held]}
  /\ pc' = "verify"
  /\ UNCHANGED <<cur, ingesting, reply, unanswerable, config>>
  /\ UNCHANGED <<logVars, branch, pins, fileVars, countVars>>

(* Bytes that change under the engine once the candidate is captured.      *)
LateWrite ==
  /\ LateWrites /\ candidate # {} /\ pc \in {"verify", "settle", "advance"}
  /\ tree' = tree \union {0}
  /\ UNCHANGED <<logVars, branch, pins, fileVars, procVars, countVars>>

TheCandidate == CHOOSE c \in candidate : TRUE

(* Gates and reviewers passed; an empty diff never does.  The commit is    *)
(* made from the captured parent and tree and pinned, provided HEAD is     *)
(* still where the capture saw it.                                         *)
PrepareCommit ==
  /\ Here("verify") /\ TheCandidate.edits # {}
  /\ Tip = TheCandidate.parent
  /\ pins' = pins \union candidate
  /\ Goto("settle")
  /\ UNCHANGED <<logVars, branch, tree, fileVars, countVars>>

PrepareRefused ==
  /\ Here("verify") /\ TheCandidate.edits # {}
  /\ Tip # TheCandidate.parent
  /\ tree' \in {{}, tree}              \* cleaning it may fail as well
  /\ ForgetProcess
  /\ UNCHANGED <<logVars, branch, pins, fileVars, countVars>>

SettlePassed(reported, cost) ==
  /\ Here("settle")
  /\ AttemptPassed(cur, reported, cost, TheCandidate)
  /\ Goto("advance")
  /\ UNCHANGED <<gitVars, fileVars, countVars>>

(* Fault: update-ref without the expected old value moves the branch to    *)
(* the new commit, whatever came after the commit that one stands on.      *)
AdvanceBranch_Unconditional ==
  /\ Here("advance")
  /\ LET k == CHOOSE k \in 0..Len(branch) :
                TipOf(SubSeq(branch, 1, k)) = TheCandidate.parent
     IN  branch' = Append(SubSeq(branch, 1, k), TheCandidate)
  /\ Goto("unpin")
  /\ UNCHANGED <<logVars, pins, tree, fileVars, countVars>>

(* The compare-and-swap of the run branch.                                 *)
AdvanceBranch ==
  /\ Here("advance") /\ Tip = TheCandidate.parent
  /\ branch' = Append(branch, TheCandidate)
  /\ Goto("unpin")
  /\ UNCHANGED <<logVars, pins, tree, fileVars, countVars>>

AdvanceRefused ==
  /\ Here("advance") /\ Tip # TheCandidate.parent
  /\ ForgetProcess
  /\ UNCHANGED <<logVars, gitVars, fileVars, countVars>>

(* HEAD is read back; only if it is the new commit is the pin given up.    *)
RemovePin ==
  /\ Here("unpin") /\ Tip = TheCandidate.id
  /\ pins' = pins \ candidate
  /\ Goto("scrub")
  /\ UNCHANGED <<logVars, branch, tree, fileVars, countVars>>

PublishRefused ==
  /\ Here("unpin") /\ Tip # TheCandidate.id
  /\ ForgetProcess
  /\ UNCHANGED <<logVars, gitVars, fileVars, countVars>>

ScrubTree ==
  /\ Here("scrub")
  /\ tree' = {}
  /\ Goto("record")
  /\ UNCHANGED <<logVars, branch, pins, fileVars, countVars>>

RecordCommit ==
  /\ Here("record")
  /\ TaskCommitted(cur, TheCandidate)
  /\ BackToDrain
  /\ UNCHANGED <<gitVars, fileVars, countVars>>
-----------------------------------------------------------------------------
(* should_approve_spend: only a move onto a frontier rung from a cheaper   *)
(* one, and only once the run has spent its threshold.                     *)
ShouldApproveSpend(t, pending) ==
  /\ progress[t].rung + 1 \in FrontierRungs
  /\ progress[t].rung \notin FrontierRungs
  /\ \E threshold \in SpendApprovalOver : RunSpend + pending >= threshold

LadderDecision(t, failure, reported) ==
  NextStep(failure,
           [rung |-> progress[t].rung,
            attempts_on_rung |-> progress[t].attempts_on_rung,
            defers |-> progress[t].defers,
            resumable |-> SessionResume /\ (reported \/ progress[t].session)],
           [attempts_per |-> AttemptsPer, rungs |-> Rungs[t],
            max_defers |-> MaxDefers])

(* The failure, the ladder's decision and any parking are one event.  An   *)
(* outage and a request for clarification give the allowance back.         *)
SettleFailed(failure, reported, cost) ==
  LET next == LadderDecision(cur, failure, reported)
      asks == CASE next.step = "AskHuman" -> {next.kind}
                [] next.step = "Escalate" /\ ShouldApproveSpend(cur, cost) ->
                     {"ApproveSpend"}
                [] OTHER -> {}
      refund == next.step = "AskHuman" /\
                (next.kind = "Clarify" \/ IsOutage(failure))
  IN /\ Here("verify")
     /\ asks # {} => Len(questions) < MaxQuestions
     /\ AttemptFailed(cur, reported, cost, next, asks, refund, config.halts)
     /\ pc' = IF asks # {} THEN "materialize" ELSE "tidy"
     /\ candidate' = {}
     /\ UNCHANGED <<cur, ingesting, reply, unanswerable, config>>
     /\ UNCHANGED <<gitVars, fileVars, countVars>>

(* The question's payload, which is what `tactus answer` reads.            *)
MaterializeQuestion ==
  /\ Here("materialize")
  /\ payload' = [payload EXCEPT ![Len(questions)] = "open"]
  /\ Goto("tidy")
  /\ UNCHANGED <<logVars, gitVars, answers, countVars>>

(* Fault: no attempt's edits are ever cleaned away.                        *)
Tidy_KeepsEdits ==
  /\ Here("tidy")
  /\ IF states[cur].is = "Pending" THEN Goto("step") ELSE BackToDrain
  /\ UNCHANGED <<logVars, gitVars, fileVars, countVars>>

(* The tree survives only for a resumed retry.  A retry and an escalation  *)
(* nobody has to approve stay inside step_task; resume_next and a Pending  *)
(* state are how the settlement just folded says which one it was.         *)
Tidy ==
  /\ Here("tidy")
  /\ tree' = IF progress[cur].resume_next THEN tree ELSE {}
  /\ IF states[cur].is = "Pending" THEN Goto("step") ELSE BackToDrain
  /\ UNCHANGED <<logVars, branch, pins, fileVars, countVars>>
-----------------------------------------------------------------------------
(* resume: reconcile git with the log, then repair the log, then drain.    *)

(* Faults: a parked run is refused; any commit on top of the expected      *)
(* parent is taken for the prepared one.                                   *)
Resume_RefusesParked ==
  /\ pc = "down" /\ finished \notin {"Complete", "Halted", "Parked"}
  /\ config' \in Configs
  /\ unrecorded = {} /\ pc' = "orphans"
  /\ UNCHANGED <<cur, candidate, ingesting, reply, unanswerable>>
  /\ UNCHANGED <<logVars, gitVars, fileVars, countVars>>
Resume_AdoptsAnything ==
  /\ pc = "down" /\ finished \notin {"Complete", "Halted"}
  /\ config' \in Configs
  /\ \/ unrecorded # {} /\ Tip # RecordedHead /\ pc' = "reunpin"
     \/ unrecorded = {} /\ Tip = RecordedHead /\ pc' = "orphans"
  /\ UNCHANGED <<cur, candidate, ingesting, reply, unanswerable>>
  /\ UNCHANGED <<logVars, gitVars, fileVars, countVars>>

(* A completed or halted run is refused; so is one whose branch moved to   *)
(* something the record cannot account for.                                *)
Resume ==
  /\ pc = "down" /\ finished \notin {"Complete", "Halted"}
  /\ config' \in Configs
  /\ \/ /\ \E c \in unrecorded : /\ Tip = c.parent
                                 /\ Tip = RecordedHead
                                 /\ c \in pins
        /\ pc' = "republish"
     \/ /\ \E c \in unrecorded : Tip = c.id /\ c.parent = RecordedHead
        /\ pc' = "reunpin"
     \/ /\ unrecorded = {} /\ Tip = RecordedHead
        /\ pc' = "orphans"
  /\ UNCHANGED <<cur, candidate, ingesting, reply, unanswerable>>
  /\ UNCHANGED <<logVars, gitVars, fileVars, countVars>>

TheUnrecorded == CHOOSE c \in unrecorded : TRUE

Republish ==
  /\ pc = "republish"
  /\ IF Tip = TheUnrecorded.parent
     THEN branch' = Append(branch, TheUnrecorded) /\ Goto("recheck")
     ELSE branch' = branch /\ ForgetProcess
  /\ UNCHANGED <<logVars, pins, tree, fileVars, countVars>>

ConfirmRepublished ==
  /\ pc = "recheck"
  /\ IF Tip = TheUnrecorded.id THEN Goto("reunpin") ELSE ForgetProcess
  /\ UNCHANGED <<logVars, gitVars, fileVars, countVars>>

(* Fault: the pin of an adopted commit stays behind.                       *)
RemoveAdoptedPin_Kept ==
  /\ pc = "reunpin"
  /\ Goto("orphans")
  /\ UNCHANGED <<logVars, gitVars, fileVars, countVars>>

RemoveAdoptedPin ==
  /\ pc = "reunpin"
  /\ pins' = pins \ unrecorded
  /\ Goto("orphans")
  /\ UNCHANGED <<logVars, branch, tree, fileVars, countVars>>

(* Pins of attempts that never settled.                                    *)
DropOrphanPins ==
  /\ pc = "orphans"
  /\ pins' = {c \in pins : ~ \E t \in Task : /\ progress[t].in_flight
                                            /\ c.id = AttemptId(t)}
  /\ Goto("residue")
  /\ UNCHANGED <<logVars, branch, tree, fileVars, countVars>>

(* Faults: the dead agent's edits stay; the adopted commit is forgotten.   *)
DropResidue_KeepsEdits ==
  /\ pc = "residue"
  /\ Goto(IF unrecorded # {} THEN "adopt" ELSE "repair")
  /\ UNCHANGED <<logVars, gitVars, fileVars, countVars>>
DropResidue_ForgetsCommit ==
  /\ pc = "residue"
  /\ tree' = {}
  /\ Goto("repair")
  /\ UNCHANGED <<logVars, branch, pins, fileVars, countVars>>

(* The dead agent's edits.                                                 *)
DropResidue ==
  /\ pc = "residue"
  /\ tree' = {}
  /\ Goto(IF unrecorded # {} THEN "adopt" ELSE "repair")
  /\ UNCHANGED <<logVars, branch, pins, fileVars, countVars>>

(* Fault: the commit found on the branch is not recorded.                  *)
Adopt_Unrecorded ==
  /\ pc = "adopt"
  /\ Goto("repair")
  /\ UNCHANGED <<logVars, gitVars, fileVars, countVars>>

(* First append: schema 3 wants it right after its settlement.             *)
Adopt ==
  /\ pc = "adopt"
  /\ TaskCommitted(TheUnrecorded.id[1], TheUnrecorded)
  /\ Goto("repair")
  /\ UNCHANGED <<gitVars, fileVars, countVars>>

(* Fault: an unfinished decline is not looked for.                         *)
UnsettledDeclines_Overlooked == {}

MissingDefects == {q \in Questions : ~IsOpen(q) /\ q \notin defects}
UnsettledDeclines ==
  {q \in Questions : /\ questions[q].answer = "Declined"
                     /\ states[questions[q].task] = AwaitingInput(q)}

RepairDefect ==
  /\ pc = "repair" /\ MissingDefects # {}
  /\ DesignDefect(Lowest(MissingDefects))
  /\ UNCHANGED <<gitVars, fileVars, procVars, countVars>>

(* Fault: today's policy decides.                                          *)
RepairDecline_TodaysPolicy ==
  /\ pc = "repair" /\ MissingDefects = {} /\ UnsettledDeclines # {}
  /\ LET q == Lowest(UnsettledDeclines)
     IN  TaskFailed(questions[q].task, config.halts)
  /\ UNCHANGED <<gitVars, fileVars, procVars, countVars>>

(* Settled under the policy recorded with the decline, not today's.        *)
RepairDecline ==
  /\ pc = "repair" /\ MissingDefects = {} /\ UnsettledDeclines # {}
  /\ LET q == Lowest(UnsettledDeclines)
     IN  TaskFailed(questions[q].task, questions[q].halts)
  /\ UNCHANGED <<gitVars, fileVars, procVars, countVars>>

(* Fault: only the payloads of open questions are rewritten.               *)
RewritePayloads_OpenOnly ==
  /\ pc = "repair" /\ MissingDefects = {} /\ UnsettledDeclines = {}
  /\ payload' = [q \in QuestionIx |->
                   IF q \in Questions /\ IsOpen(q) THEN "open" ELSE payload[q]]
  /\ Goto("interrupted")
  /\ UNCHANGED <<logVars, gitVars, answers, countVars>>

RewritePayloads ==
  /\ pc = "repair" /\ MissingDefects = {} /\ UnsettledDeclines = {}
  /\ payload' = [q \in QuestionIx |->
                   IF q \notin Questions THEN payload[q]
                   ELSE IF IsOpen(q) THEN "open" ELSE "closed"]
  /\ Goto("interrupted")
  /\ UNCHANGED <<logVars, gitVars, answers, countVars>>

InFlight == {t \in Task : progress[t].in_flight}

SettleInterrupted ==
  /\ pc = "interrupted" /\ InFlight # {}
  /\ AttemptInterrupted(Lowest(InFlight))
  /\ UNCHANGED <<gitVars, fileVars, procVars, countVars>>

(* Fault: what was in flight is left in flight.                            *)
FinishResume_LeavesAttempts ==
  /\ pc = "interrupted"
  /\ RunResumed
  /\ Goto("drain")
  /\ UNCHANGED <<gitVars, fileVars, countVars>>

FinishResume ==
  /\ pc = "interrupted" /\ InFlight = {}
  /\ RunResumed
  /\ Goto("drain")
  /\ UNCHANGED <<gitVars, fileVars, countVars>>
-----------------------------------------------------------------------------
(* Everything the engine does not decide.                                  *)

(* The process dies; what it wrote stays.  A failing append, git command   *)
(* or file write ends the process the same way, and while an attempt is    *)
(* being judged it cleans the tree first.                                  *)
Crash ==
  /\ pc # "down" /\ crashes < MaxCrashes
  /\ crashes' = crashes + 1
  /\ tree' \in IF pc \in {"attempt", "verify", "settle", "advance",
                          "materialize", "tidy"} THEN {{}, tree} ELSE {tree}
  /\ ForgetProcess
  /\ UNCHANGED <<logVars, branch, pins, fileVars, outside>>

(* `tactus answer` looks at the payload only: a second answer replaces the *)
(* first while the engine has not ingested it.                             *)
OperatorAnswers(q, answer) ==
  /\ payload[q] = "open"
  /\ answers' = [answers EXCEPT ![q] = answer]
  /\ UNCHANGED <<logVars, gitVars, payload, procVars, countVars>>

(* A commit nobody asked the engine for: an agent's, or the operator's.    *)
OutsideCommit ==
  /\ outside < MaxOutside
  /\ outside' = outside + 1
  /\ branch' = Append(branch, [id |-> <<0, outside + 1>>, parent |-> Tip,
                               edits |-> {0}])
  /\ tree' \in {{}, tree}
  /\ UNCHANGED <<logVars, pins, fileVars, procVars, crashes>>

(* The operator moves the branch back, as resume's refusal asks.           *)
OutsideReset ==
  /\ pc = "down" /\ Tip # Base /\ Tip[1] = 0
  /\ branch' = SubSeq(branch, 1, Len(branch) - 1)
  /\ UNCHANGED <<logVars, pins, tree, fileVars, procVars, countVars>>
-----------------------------------------------------------------------------
Drain ==
  \/ SweepAnswers \/ RecordDefect \/ FailDeclined \/ RewritePayload
  \/ StepTask \/ WaitForPool \/ Finish
  \/ \E answer \in {"Answered", "Declined", "Unanswered"} : Ask(answer)
  \/ \E r \in reply : ReplyLands(r) \/ ReplyAbsorbed(r) \/ NobodyReplied(r)

Step ==
  \/ NoRung \/ StopAtBudget \/ StartAttempt
  \/ \E edits \in BOOLEAN : RunAgent(edits)
  \/ \E failure \in Failures, reported \in BOOLEAN, cost \in Costs :
       SettleFailed(failure, reported, cost)
  \/ MaterializeQuestion \/ Tidy
  \/ PrepareCommit \/ PrepareRefused
  \/ \E reported \in BOOLEAN, cost \in Costs : SettlePassed(reported, cost)
  \/ AdvanceBranch \/ AdvanceRefused \/ RemovePin \/ PublishRefused
  \/ ScrubTree \/ RecordCommit

Recover ==
  \/ Republish \/ ConfirmRepublished \/ RemoveAdoptedPin
  \/ DropOrphanPins \/ DropResidue \/ Adopt
  \/ RepairDefect \/ RepairDecline \/ RewritePayloads
  \/ SettleInterrupted \/ FinishResume

Environment ==
  \/ Crash \/ LateWrite \/ OutsideCommit \/ OutsideReset
  \/ \E q \in QuestionIx, answer \in {"Answered", "Declined"} :
       OperatorAnswers(q, answer)

Next == Drain \/ Step \/ Recover \/ Resume \/ Environment

Spec == Init /\ [][Next]_vars

(* A running process keeps running: the engine is one thread and every     *)
(* wait in it is bounded (attempt timeout, defer backoff, answer budget).  *)
FairSpec == Spec /\ WF_vars(Drain \/ Step \/ Recover)

(* In addition an operator who keeps resuming a run that can be resumed.   *)
TendedSpec == FairSpec /\ WF_vars(Resume)
-----------------------------------------------------------------------------
(* PROPERTIES.                                                             *)

(* Exactly-once publication.  With nobody else committing, the run branch  *)
(* is the commits the log records, in order, and at most one more: the     *)
(* prepared commit of the settlement the log ends with.  A crash between   *)
(* settlement, branch update and task_committed therefore never loses a    *)
(* commit, doubles one, or leaves one the next resume cannot account for   *)
(* (engine.rs: step_task's success path, resume's adoption).               *)
PublishedAsRecorded ==
  \/ branch = recorded
  \/ \E c \in unrecorded : branch = Append(recorded, c)

(* A task is recorded as Done when, and only when, the log has exactly one *)
(* commit of it, and no task is ever committed on the branch twice.        *)
CommittedOnce ==
  /\ \A i, j \in 1..Len(branch) :
       i # j /\ branch[i].id[1] # 0 => branch[i].id[1] # branch[j].id[1]
  /\ \A t \in Task : states[t].is = "Done" <=>
                     \E i \in 1..Len(recorded) : recorded[i].id[1] = t

(* On the branch, a task's commit comes after those of all the tasks it    *)
(* depends on, over any retries, parkings and crashes in between           *)
(* (engine.rs: next_ready).                                                *)
DependenciesFirst ==
  \A i \in 1..Len(branch) : branch[i].id[1] \in Task =>
    \A d \in Deps[branch[i].id[1]] : \E j \in 1..(i - 1) : branch[j].id[1] = d

(* A task's commit holds that task's edits and nothing else: no edit of a  *)
(* parked, deferred, rejected or crashed attempt of another task, and no   *)
(* byte written after the capture that gates and reviewers judged          *)
(* (workspace.rs: capture_candidate, prepare_commit_from_candidate,        *)
(* discard_uncommitted).                                                   *)
OwnVerifiedWork ==
  \A i \in 1..Len(branch) :
    branch[i].id[1] \in Task => branch[i].edits = {branch[i].id[1]}

(* An agent resumes its session only onto the tree it left: a resumed      *)
(* attempt starts on no other task's edits, a fresh one on a clean tree    *)
(* (engine.rs: step_task's comment on the surviving tree).                 *)
SessionMatchesTree ==
  pc = "attempt" => /\ progress[cur].session => tree \subseteq {cur, 0}
                    /\ ~progress[cur].session => tree = {}

(* Nothing but a judged attempt spends a rung's allowance: a task that may *)
(* be scheduled always has an attempt left on its rung, however many       *)
(* outages, clarifications and crashes it went through.                    *)
AllowanceLeft ==
  \A t \in Task :
    /\ progress[t].attempts_on_rung <= AttemptsPer
    /\ (/\ states[t].is = "Pending" /\ ~progress[t].in_flight
        /\ \A c \in unrecorded : c.id[1] # t)
       => progress[t].attempts_on_rung < AttemptsPer

(* A parked task always has somebody to wait for: whenever the scheduler   *)
(* is at rest its question is open, and every open question has its task   *)
(* waiting.  A crash inside ingest_answer must not leave a task parked on  *)
(* a closed question that nobody can answer any more.                      *)
NoStrandedTask ==
  /\ \A q \in Questions : IsOpen(q) => states[questions[q].task] = AwaitingInput(q)
  /\ pc \in {"drain", "step"} =>
       \A t \in Task : states[t].is = "AwaitingInput" =>
         /\ states[t].question \in Questions
         /\ questions[states[t].question].task = t
         /\ IsOpen(states[t].question)

(* Whenever the scheduler is at rest, every answer has its design_defect   *)
(* record and a payload that says it was answered, so that `tactus answer` *)
(* refuses a second one (engine.rs: resume's repairs).                     *)
AnswersFullyRecorded ==
  pc = "drain" => \A q \in Questions :
    /\ ~IsOpen(q) => q \in defects
    /\ payload[q] = IF IsOpen(q) THEN "open" ELSE "closed"

(* After a halt or a budget stop no attempt is running, and none is left   *)
(* dangling for a resume to find.                                          *)
StoppedRunsNothing == Stopped => InFlight = {}

(* At most one attempt is in flight, over crashes too.                     *)
OneAttemptAtATime == Cardinality(InFlight) <= 1

(* A decline on file cannot relabel a budget stop as a task failure: the   *)
(* two stops never meet in one epoch (engine.rs: drain's comment on the    *)
(* sweep's guard).                                                         *)
CeilingNotRelabelled == ~(budget_stop /\ halted_at # 0)

(* A decline halts the run exactly when the policy recorded with it says   *)
(* so, even when the process that recorded it died before failing the      *)
(* task and the configuration has changed since.                           *)
DeclineHonoursRecordedPolicy ==
  pc \in {"drain", "step"} => \A q \in Questions :
    /\ questions[q].answer = "Declined" /\ questions[q].halts => halted_at # 0
    /\ (/\ halted_at = questions[q].task
        /\ questions[q].answer = "Declined") => questions[q].halts

(* A run that ends Complete or Parked left nothing it could have run: no   *)
(* deferred task, and every pending task waits for one that is not Done.   *)
NothingLeftRunnable ==
  finished \in {"Complete", "Parked"} => \A t \in Task :
    /\ states[t].is # "Deferred"
    /\ states[t].is = "AwaitingInput" => finished = "Parked"
    /\ states[t].is = "Pending" => \E d \in Deps[t] : states[d].is # "Done"

(* A pin never outlives its attempt: when the scheduler is at rest no      *)
(* prepared commit is pinned, and any pin belongs to the attempt that is   *)
(* in flight or to the settlement the log ends with.                       *)
PinsAccountedFor ==
  /\ pc = "drain" => pins = {}
  /\ \A c \in pins : \/ c \in unrecorded
                     \/ \E t \in InFlight : c.id = AttemptId(t)

(* Whatever else lands on the branch, the commits the log records are on   *)
(* it, in the order they were recorded: the compare-and-swap never drops   *)
(* one, and resume never replays over a branch that lost one.              *)
RecordedOnBranch ==
  LET tasks == {i \in 1..Len(branch) : branch[i].id[1] # 0}
  IN  \A k \in 1..Len(recorded) : \E i \in tasks :
        /\ branch[i] = recorded[k]
        /\ Cardinality({j \in tasks : j < i}) = k - 1

(* Each recorded commit was made on the commit the record ended at, so     *)
(* that nothing unrecorded lies below a recorded commit (engine.rs: "The   *)
(* sha the run's record ends at, what HEAD must still be").                *)
RecordIsAChain ==
  \A k \in 1..Len(recorded) :
    recorded[k].parent = TipOf(SubSeq(recorded, 1, k - 1))

(* "Answering twice is a mistake worth catching rather than a              *)
(* last-write-wins race": an answer on file is not replaced.               *)
FirstAnswerKept ==
  [][\A q \in QuestionIx : answers[q] # "none" => answers'[q] = answers[q]]_vars

(* "Declined or unanswered under CI mode -> task Failed": a run that ends  *)
(* leaves no task waiting for an answer.                                   *)
UnansweredFails ==
  finished # "none" => \A t \in Task : states[t].is # "AwaitingInput"

(* The branch only ever grows under the engine: no step of it takes a      *)
(* commit away, its own or somebody else's.                                *)
BranchOnlyGrows ==
  [][ \/ Len(branch') >= Len(branch) /\ SubSeq(branch', 1, Len(branch)) = branch
      \/ pc = "down" /\ Tip[1] = 0 ]_vars

(* Once a task's question is answered the answer stays, and the first task *)
(* to halt the run stays the one that is named.                            *)
AnswersAndHaltStick ==
  [][ /\ \A q \in Questions : ~IsOpen(q) => questions'[q] = questions[q]
      /\ halted_at # 0 => halted_at' = halted_at ]_vars

(* The drain terminates: a process that is not killed stops by itself      *)
(* (engine.rs: "Why this terminates").                                     *)
EventuallyStops == (pc # "down") ~> (pc = "down")

(* An answer left on file takes effect, whatever crashes come between,     *)
(* unless the run halts first: the tended run ingests it.                  *)
AnswersTakeEffect ==
  \A q \in QuestionIx :
    (answers[q] # "none") ~> (\/ q \in Questions /\ ~IsOpen(q)
                              \/ finished = "Halted")

(* What an attempt leaves is its own: its edits in its commit, its tree to *)
(* its session, its pin to its settlement -- nothing of it reaches another *)
(* attempt, over parkings, outages, late writes and crashes.               *)
NothingLeaks == OwnVerifiedWork /\ SessionMatchesTree /\ PinsAccountedFor

(* The engine runs what it may, all of it and no more: one attempt at a    *)
(* time, none after a stop, and at the end of a run nothing is left that   *)
(* could have run.                                                         *)
RunsWhatItMay == OneAttemptAtATime /\ StoppedRunsNothing /\ NothingLeftRunnable

(* An answer is four durable effects, and a process may die between any    *)
(* two: whenever the scheduler is at rest they agree, under the policy of  *)
(* the process that recorded the first.                                    *)
AnswersStand ==
  NoStrandedTask /\ AnswersFullyRecorded /\ DeclineHonoursRecordedPolicy

(* Why a run stopped does not change afterwards: neither by an answer that *)
(* arrives later, nor by a resume under another policy.                    *)
StopsKeepTheirReason == []CeilingNotRelabelled /\ AnswersAndHaltStick

(* With somebody else committing on the branch at any moment, the engine   *)
(* neither drops their commits nor loses its own.                          *)
CommitsStay == []RecordedOnBranch /\ BranchOnlyGrows
=============================================================================
