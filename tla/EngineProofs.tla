---------------------------- MODULE EngineProofs ----------------------------
(***************************************************************************)
(* What the scheduler promises: an attempt left for every task it may run, *)
(* one attempt at a time and none after a stop, nothing runnable left      *)
(* behind, no task stranded on a question, and a stop that keeps its       *)
(* reason.  For any plan, chains, limits, failures, costs, configurations  *)
(* and bounds, with anybody committing on the branch at any moment.  It    *)
(* rests on the types: every event of the log, applied to a state of the   *)
(* right type, gives a state of the right type, and so does every step of  *)
(* the orchestrator.                                                       *)
(***************************************************************************)
EXTENDS Engine, PoolSignals, TaskProgressProofs, SequenceTheorems, FiniteSetTheorems

(* The log: one lemma for each operator of RunState.                       *)

(* The three task states that carry no question, and the one that does.    *)
LEMMA TaskStates ==
  /\ \A name \in {"Pending", "Deferred", "Done", "Failed"} :
       Plain(name) \in TaskState
  /\ \A q \in Nat : AwaitingInput(q) \in TaskState
  BY DEF Plain, AwaitingInput, TaskState

(* An empty log.                                                           *)
LEMMA RunStateInitType == RunStateInit => RunStateTypeOK
<1> SUFFICES ASSUME RunStateInit PROVE RunStateTypeOK
  OBVIOUS
<1>1. states \in [Task -> TaskState] /\ progress \in [Task -> Progress]
  BY TaskStates, NewProgressFields DEF RunStateInit
<1>2. questions \in Seq(Question) /\ recorded \in Seq(Commit)
  BY EmptySeq DEF RunStateInit
<1>3. /\ spent \in [Task -> Nat] /\ halted_at \in 0..NTasks
      /\ unrecorded \in SUBSET Commit /\ defects \in SUBSET Nat
  BY NTasksAssumption DEF RunStateInit
<1>4. budget_stop \in BOOLEAN /\ finished \in Outcome \union {"none"}
  BY DEF RunStateInit
<1> QED
  BY <1>1, <1>2, <1>3, <1>4 DEF RunStateTypeOK

(* attempt_started.                                                        *)
LEMMA AttemptStartedType ==
  ASSUME RunStateTypeOK, NEW t \in Task, AttemptStarted(t)
  PROVE  RunStateTypeOK'
<1>1. progress' \in [Task -> Progress]
  BY StartedFields DEF AttemptStarted, RunStateTypeOK
<1> QED
  BY <1>1 DEF AttemptStarted, RunStateTypeOK

(* attempt_interrupted.                                                    *)
LEMMA AttemptInterruptedType ==
  ASSUME RunStateTypeOK, NEW t \in Task, AttemptInterrupted(t)
  PROVE  RunStateTypeOK'
<1>1. progress' \in [Task -> Progress]
  BY InterruptedFields DEF AttemptInterrupted, RunStateTypeOK
<1> QED
  BY <1>1 DEF AttemptInterrupted, RunStateTypeOK

(* attempt_finished, passed.                                               *)
LEMMA AttemptPassedType ==
  ASSUME RunStateTypeOK, NEW t \in Task, NEW reported \in BOOLEAN,
         NEW cost \in Nat, NEW prepared \in Commit,
         AttemptPassed(t, reported, cost, prepared)
  PROVE  RunStateTypeOK'
<1>1. progress' \in [Task -> Progress]
  BY SettledFields DEF AttemptPassed, RunStateTypeOK
<1>2. spent' \in [Task -> Nat]
  BY DEF AttemptPassed, RunStateTypeOK
<1> QED
  BY <1>1, <1>2 DEF AttemptPassed, RunStateTypeOK

(* The first failure to halt the run names it.                             *)
LEMMA HaltAtType ==
  ASSUME halted_at \in 0..NTasks, NEW t \in Task, NEW halts \in BOOLEAN,
         HaltAt(t, halts)
  PROVE  halted_at' \in 0..NTasks
  BY NTasksAssumption DEF HaltAt, Task

(* attempt_finished, failed, with the question that travels with it.       *)
LEMMA AttemptFailedType ==
  ASSUME RunStateTypeOK, NEW t \in Task, NEW reported \in BOOLEAN,
         NEW cost \in Nat, NEW next \in Decision,
         NEW asks \in SUBSET QuestionKind, NEW refund \in BOOLEAN,
         NEW halts \in BOOLEAN,
         AttemptFailed(t, reported, cost, next, asks, refund, halts)
  PROVE  RunStateTypeOK'
<1>1. progress' \in [Task -> Progress]
  <2>1. (asks # {}) \in BOOLEAN
    OBVIOUS
  <2>2. SettledWith(progress[t], reported, next, asks # {}, refund) \in Progress
    BY <2>1, SettledWithType DEF RunStateTypeOK
  <2> QED
    BY <2>2 DEF AttemptFailed, RunStateTypeOK
<1>2. spent' \in [Task -> Nat]
  BY DEF AttemptFailed, RunStateTypeOK
<1>3. questions' \in Seq(Question)
  <2>1. CASE asks = {}
    BY <2>1 DEF AttemptFailed, RunStateTypeOK
  <2>2. CASE asks # {}
    <3>1. (CHOOSE kind \in asks : TRUE) \in QuestionKind
      BY <2>2
    <3>2. OpenQuestion(t, CHOOSE kind \in asks : TRUE) \in Question
      BY <3>1 DEF OpenQuestion, Question
    <3> QED
      BY <2>2, <3>2, AppendProperties DEF AttemptFailed, RunStateTypeOK
  <2> QED
    BY <2>1, <2>2
<1>4. states' \in [Task -> TaskState]
  <2>1. Len(questions) + 1 \in Nat
    BY LenProperties DEF RunStateTypeOK
  <2>2. /\ AwaitingInput(Len(questions) + 1) \in TaskState
        /\ Plain("Deferred") \in TaskState /\ Plain("Failed") \in TaskState
        /\ states[t] \in TaskState
    BY <2>1, TaskStates DEF RunStateTypeOK
  <2> QED
    BY <2>2 DEF AttemptFailed, RunStateTypeOK
<1>5. halted_at' \in 0..NTasks
  <2>1. (next.step = "Fail" /\ halts) \in BOOLEAN
    OBVIOUS
  <2> QED
    BY <2>1, HaltAtType DEF AttemptFailed, RunStateTypeOK
<1> QED
  BY <1>1, <1>2, <1>3, <1>4, <1>5 DEF AttemptFailed, RunStateTypeOK

(* Waking deferred work.                                                   *)
LEMMA WakeDeferredType ==
  ASSUME states \in [Task -> TaskState], WakeDeferred
  PROVE  states' \in [Task -> TaskState]
  BY TaskStates DEF WakeDeferred

(* defer_wait_elapsed.                                                     *)
LEMMA DeferWaitElapsedType ==
  ASSUME RunStateTypeOK, DeferWaitElapsed
  PROVE  RunStateTypeOK'
  BY WakeDeferredType DEF DeferWaitElapsed, RunStateTypeOK

(* task_committed.                                                         *)
LEMMA TaskCommittedType ==
  ASSUME RunStateTypeOK, NEW t, NEW commit \in Commit, TaskCommitted(t, commit)
  PROVE  RunStateTypeOK'
<1>1. states' \in [Task -> TaskState]
  BY TaskStates DEF TaskCommitted, RunStateTypeOK
<1>2. recorded' \in Seq(Commit)
  BY AppendProperties DEF TaskCommitted, RunStateTypeOK
<1> QED
  BY <1>1, <1>2 DEF TaskCommitted, RunStateTypeOK

(* task_failed.                                                            *)
LEMMA TaskFailedType ==
  ASSUME RunStateTypeOK, NEW t \in Task, NEW halts \in BOOLEAN,
         TaskFailed(t, halts)
  PROVE  RunStateTypeOK'
<1>1. states' \in [Task -> TaskState]
  BY TaskStates DEF TaskFailed, RunStateTypeOK
<1>2. halted_at' \in 0..NTasks
  BY HaltAtType DEF TaskFailed, RunStateTypeOK
<1> QED
  BY <1>1, <1>2 DEF TaskFailed, RunStateTypeOK

(* question_answered, of a question there is.                              *)
LEMMA QuestionAnsweredType ==
  ASSUME RunStateTypeOK, NEW q \in 1..Len(questions),
         NEW answer \in {"Answered", "Declined"}, NEW halts \in BOOLEAN,
         QuestionAnswered(q, answer, halts)
  PROVE  /\ RunStateTypeOK'
         /\ Len(questions') = Len(questions)
<1>1. questions[q] \in Question
  BY ElementOfSeq DEF RunStateTypeOK
<1>2. /\ questions' \in Seq(Question)
      /\ Len(questions') = Len(questions)
  <2>1. CASE IsOpen(q)
    <3>1. [questions[q] EXCEPT !.answer = answer, !.halts = halts] \in Question
      BY <1>1 DEF Question
    <3>2. questions' = [questions EXCEPT ![q] =
                          [questions[q] EXCEPT !.answer = answer, !.halts = halts]]
      BY <2>1 DEF QuestionAnswered
    <3> QED
      BY <3>1, <3>2, ExceptSeq DEF RunStateTypeOK
  <2>2. CASE ~IsOpen(q)
    BY <2>2 DEF QuestionAnswered, RunStateTypeOK
  <2> QED
    BY <2>1, <2>2
<1>3. states' \in [Task -> TaskState]
  BY TaskStates DEF QuestionAnswered, RunStateTypeOK
<1>4. progress' \in [Task -> Progress]
  <2>1. questions[q].task \in Task
    BY <1>1 DEF Question
  <2>2. Answered(progress[questions[q].task], questions[q].kind) \in Progress
    BY <2>1, AnsweredFields DEF RunStateTypeOK
  <2> QED
    BY <2>2 DEF QuestionAnswered, RunStateTypeOK
<1> QED
  BY <1>2, <1>3, <1>4 DEF QuestionAnswered, RunStateTypeOK

(* design_defect.                                                          *)
LEMMA DesignDefectType ==
  ASSUME RunStateTypeOK, NEW q \in Nat, DesignDefect(q)
  PROVE  RunStateTypeOK'
  BY DEF DesignDefect, RunStateTypeOK

(* budget_exceeded.                                                        *)
LEMMA BudgetExceededType ==
  ASSUME RunStateTypeOK, BudgetExceeded
  PROVE  RunStateTypeOK'
  BY DEF BudgetExceeded, RunStateTypeOK

(* run_resumed.                                                            *)
LEMMA RunResumedType ==
  ASSUME RunStateTypeOK, RunResumed
  PROVE  RunStateTypeOK'
<1>1. progress' \in [Task -> Progress]
  BY ResumedFields DEF RunResumed, RunStateTypeOK
<1> QED
  BY <1>1, WakeDeferredType DEF RunResumed, RunStateTypeOK

(* run_finished.                                                           *)
LEMMA RunFinishedType ==
  ASSUME RunStateTypeOK, NEW outcome \in Outcome, RunFinished(outcome)
  PROVE  RunStateTypeOK'
  BY DEF RunFinished, RunStateTypeOK

(* The log does not change.                                                *)
LEMMA LogUnchangedType ==
  ASSUME RunStateTypeOK, UNCHANGED logVars
  PROVE  RunStateTypeOK'
  BY DEF logVars, RunStateTypeOK
-----------------------------------------------------------------------------
(* The orchestrator.                                                       *)

(* What TypeOK needs to be inductive: a step that uses the question being  *)
(* ingested, the task being stepped, the captured candidate or the commit  *)
(* to adopt is only ever reached with one at hand.                         *)
TypeInv ==
  /\ TypeOK
  /\ Len(questions) <= MaxQuestions
  /\ pc \in {"defect", "decline", "rewrite"} => ingesting \in Questions
  /\ pc \in {"verify", "settle", "advance", "unpin", "scrub", "record"}
       => candidate # {}
  /\ pc \in {"republish", "recheck", "adopt"} => unrecorded # {}

(* The least element of a set of natural numbers is one of them: the       *)
(* intervals 1..n are well founded under strict inclusion.                 *)
LEMMA LowestIn ==
  ASSUME NEW S \in SUBSET Nat, S # {}
  PROVE  Lowest(S) \in S
<1> DEFINE T == {1..n : n \in S}
<1>1. T \subseteq FiniteSubsetsOf(Nat) /\ T # {}
  <2>1. \A n \in S : 1..n \in SUBSET Nat /\ IsFiniteSet(1..n)
    BY FS_Interval
  <2> QED
    BY <2>1 DEF FiniteSubsetsOf
<1>2. PICK I \in T : \A J \in T : ~ (<<J, I>> \in StrictSubsetOrdering(Nat))
  <2> HIDE DEF T
  <2> QED
    BY <1>1, FS_StrictSubsetOrderingWellFounded, WFMin
<1>3. PICK x \in S : I = 1..x
  OBVIOUS
<1>4. ASSUME NEW y \in S
      PROVE  x <= y
  <2> SUFFICES ASSUME y < x PROVE FALSE
    OBVIOUS
  <2>1. x \in Nat /\ y \in Nat
    OBVIOUS
  <2>2. 1..y \subseteq 1..x
    BY <2>1
  <2>3. x \in 1..x /\ x \notin 1..y
    BY <2>1
  <2>4. <<1..y, 1..x>> \in StrictSubsetOrdering(Nat)
    BY <2>1, <2>2, <2>3 DEF StrictSubsetOrdering
  <2> QED
    BY <1>2, <1>3, <2>4
<1> QED
  BY <1>3, <1>4 DEF Lowest

(* The ladder only ever decides one of the five moves.                     *)
LEMMA NextStepType ==
  ASSUME NEW f, NEW st, NEW pol, st.resumable \in BOOLEAN
  PROVE  NextStep(f, st, pol) \in Decision
  BY DEF NextStep, Decision, AskHuman, Fail, Defer, Escalate, RetrySameRung,
     QuestionKind

(* The tip of the branch is the name of a commit.                          *)
LEMMA TipType ==
  ASSUME NEW commits \in Seq(Commit)
  PROVE  TipOf(commits) \in CommitId
<1>1. CASE commits = <<>>
  BY <1>1, NTasksAssumption DEF TipOf, Base, CommitId
<1>2. CASE commits # <<>>
  <2>1. Len(commits) \in 1..Len(commits)
    BY <1>2, EmptySeq, LenProperties
  <2>2. commits[Len(commits)] \in Commit
    BY <2>1, ElementOfSeq
  <2> QED
    BY <1>2, <2>2 DEF TipOf, Commit
<1> QED
  BY <1>1, <1>2

(* The outcome of a run is one of the four.                                *)
LEMMA OutcomeType == RunOutcome \in Outcome
  BY DEF RunOutcome, Outcome

(* Facts about the constants, in the form the steps use them.              *)
LEMMA ConfigType ==
  ASSUME config \in Configs
  PROVE  config.halts \in BOOLEAN
  BY InputAssumption

(* A question that an answer can be recorded for.                          *)
LEMMA IngestType ==
  ASSUME TypeInv, NEW q \in Questions, NEW answer \in {"Answered", "Declined"},
         IngestAnswer(q, answer), reply' \in SUBSET reply
  PROVE  TypeInv'
<1> DEFINE halts == answer = "Declined" /\ config.halts
<1>1. RunStateTypeOK' /\ Len(questions') = Len(questions)
  <2>1. halts \in BOOLEAN
    OBVIOUS
  <2>2. QuestionAnswered(q, answer, halts)
    BY DEF IngestAnswer
  <2> HIDE DEF halts
  <2> QED
    BY <2>1, <2>2, QuestionAnsweredType DEF TypeInv, TypeOK, Questions
<1>2. q \in Nat
  BY LenProperties DEF Questions, TypeInv, TypeOK, RunStateTypeOK
<1> QED
  BY <1>1, <1>2 DEF IngestAnswer, TypeInv, TypeOK, Questions, gitVars,
     fileVars, countVars, DrainStates

(* The initial states.                                                     *)
LEMMA TypeInvInit == Init => TypeInv
<1> SUFFICES ASSUME Init PROVE TypeInv
  OBVIOUS
<1>1. RunStateTypeOK /\ Len(questions) = 0
  BY RunStateInitType, EmptySeq DEF Init, RunStateInit
<1>2. branch \in Seq(Commit)
  BY EmptySeq DEF Init
<1>3. /\ payload \in [QuestionIx -> {"absent", "open", "closed"}]
      /\ answers \in [QuestionIx -> {"none", "Answered", "Declined"}]
  BY DEF Init
<1>4. cur \in 0..NTasks
  BY NTasksAssumption DEF Init
<1> QED
  BY <1>1, <1>2, <1>3, <1>4, BoundAssumption DEF Init, TypeInv, TypeOK,
     DrainStates

(* The steps of the drain loop.                                            *)
LEMMA DrainType ==
  ASSUME TypeInv, Drain
  PROVE  TypeInv'
<1> USE DEF TypeInv, TypeOK, Questions, gitVars, fileVars, countVars,
        DrainStates, StepStates
<1>1. Len(questions) \in Nat /\ questions \in Seq(Question)
  BY LenProperties DEF RunStateTypeOK
<1>2. CASE SweepAnswers
  <2>1. Lowest(Sweepable) \in Sweepable
    <3>1. Sweepable \in SUBSET Nat /\ Sweepable # {}
      BY <1>1, <1>2 DEF SweepAnswers, Sweepable
    <3> QED
      BY <3>1, LowestIn
  <2>2. answers[Lowest(Sweepable)] \in {"Answered", "Declined"}
    BY <1>1, <2>1, BoundAssumption DEF Sweepable, QuestionIx
  <2>3. reply' \in SUBSET reply
    BY <1>2 DEF SweepAnswers
  <2> QED
    BY <1>2, <2>1, <2>2, <2>3, IngestType DEF SweepAnswers, Sweepable
<1>3. CASE RecordDefect
  <2>1. ingesting \in Nat
    OBVIOUS
  <2>2. RunStateTypeOK'
    BY <1>3, <2>1, DesignDefectType DEF RecordDefect
  <2> QED
    BY <1>3, <2>2 DEF RecordDefect, DesignDefect, Goto
<1>4. CASE FailDeclined
  <2>1. questions[ingesting].task \in Task
    <3>1. questions[ingesting] \in Question
      BY <1>1, <1>4, ElementOfSeq DEF FailDeclined
    <3> QED
      BY <3>1 DEF Question
  <2>2. RunStateTypeOK' /\ questions' = questions
    <3>1. CASE UNCHANGED logVars
      BY <3>1, LogUnchangedType DEF logVars
    <3>2. CASE TaskFailed(questions[ingesting].task, config.halts)
      BY <2>1, <3>2, ConfigType, TaskFailedType DEF TaskFailed
    <3> QED
      BY <1>4, <3>1, <3>2 DEF FailDeclined
  <2> QED
    BY <1>4, <2>2 DEF FailDeclined, Goto
<1>5. CASE RewritePayload
  <2>1. RunStateTypeOK' /\ questions' = questions
    BY <1>5, LogUnchangedType DEF RewritePayload, logVars
  <2>2. payload' \in [QuestionIx -> {"absent", "open", "closed"}]
    BY <1>5 DEF RewritePayload
  <2> QED
    BY <1>5, <2>1, <2>2, NTasksAssumption DEF RewritePayload, BackToDrain
<1>6. CASE StepTask
  <2>1. RunStateTypeOK' /\ questions' = questions
    BY <1>6, LogUnchangedType DEF StepTask, logVars
  <2>2. Lowest(Ready) \in Task
    <3>1. Ready \in SUBSET Nat /\ Ready # {} /\ Ready \subseteq Task
      BY <1>6 DEF StepTask, Ready, Task
    <3> QED
      BY <3>1, LowestIn
  <2>3. cur' \in 0..NTasks
    BY <1>6, <2>2, NTasksAssumption DEF StepTask, Task
  <2> QED
    BY <1>6, <2>1, <2>3 DEF StepTask
<1>7. CASE WaitForPool
  <2>1. RunStateTypeOK' /\ questions' = questions
    BY <1>7, DeferWaitElapsedType DEF WaitForPool, DeferWaitElapsed
  <2> QED
    BY <1>7, <2>1 DEF WaitForPool, NothingToSweep, procVars
<1>8. ASSUME NEW answer \in {"Answered", "Declined", "Unanswered"}, Ask(answer)
      PROVE  TypeInv'
  <2>1. Lowest(Askable) \in Questions
    <3>1. Askable \in SUBSET Nat /\ Askable # {} /\ Askable \subseteq Questions
      BY <1>1, <1>8 DEF Ask, Askable
    <3> QED
      BY <3>1, LowestIn
  <2>2. RunStateTypeOK' /\ questions' = questions
    BY <1>8, LogUnchangedType DEF Ask, logVars
  <2>3. reply' \in SUBSET Reply
    BY <1>1, <1>8, <2>1 DEF Ask, Reply
  <2> QED
    BY <1>8, <2>2, <2>3 DEF Ask, HardBlock, NothingToSweep
<1>9. ASSUME NEW r \in reply
      PROVE  /\ ReplyLands(r) => TypeInv'
             /\ ReplyAbsorbed(r) \/ NobodyReplied(r) => TypeInv'
  <2>1. r.question \in Nat /\ r \in Reply
    BY DEF Reply
  <2>2. ASSUME ReplyLands(r)
        PROVE  TypeInv'
    <3>1. /\ IngestAnswer(r.question, r.answer) /\ reply' = {}
          /\ r.question \in Questions /\ r.answer \in {"Answered", "Declined"}
      BY <2>1, <2>2 DEF ReplyLands, StillOpen, Reply
    <3> QED
      BY <2>1, <3>1, IngestType
  <2>3. ASSUME ReplyAbsorbed(r) \/ NobodyReplied(r)
        PROVE  TypeInv'
    <3>1. RunStateTypeOK' /\ questions' = questions
      BY <2>3, LogUnchangedType DEF ReplyAbsorbed, NobodyReplied, logVars
    <3>2. pc = "drain" /\ reply' = {} /\ unanswerable' \in SUBSET Nat
      BY <2>1, <2>3 DEF ReplyAbsorbed, NobodyReplied, Swept
    <3> QED
      BY <2>3, <3>1, <3>2 DEF ReplyAbsorbed, NobodyReplied
  <2> QED
    BY <2>2, <2>3
<1>10. CASE Finish
  <2>1. RunStateTypeOK' /\ questions' = questions
    BY <1>10, OutcomeType, RunFinishedType DEF Finish, RunFinished
  <2> QED
    BY <1>10, <2>1, NTasksAssumption DEF Finish, ForgetProcess
<1> QED
  BY <1>2, <1>3, <1>4, <1>5, <1>6, <1>7, <1>8, <1>9, <1>10 DEF Drain

(* The candidate that a step after the capture works with.                 *)
LEMMA CandidateType ==
  ASSUME TypeInv, candidate # {}
  PROVE  TheCandidate \in Commit
  BY DEF TypeInv, TypeOK, TheCandidate

(* The steps of one task.                                                  *)
LEMMA StepType ==
  ASSUME TypeInv, Step
  PROVE  TypeInv'
<1> USE DEF TypeInv, TypeOK, gitVars, fileVars, countVars, DrainStates,
        StepStates, Goto, BackToDrain, ForgetProcess
<1>1. Len(questions) \in Nat /\ questions \in Seq(Question)
  BY LenProperties DEF RunStateTypeOK
<1>2. ASSUME NEW label, Here(label)
      PROVE  cur \in Task
  BY <1>2, NTasksAssumption DEF Here, Task
<1>3. CASE NoRung
  <2>1. RunStateTypeOK' /\ questions' = questions
    BY <1>2, <1>3, ConfigType, TaskFailedType DEF NoRung, TaskFailed
  <2> QED
    BY <1>3, <2>1, NTasksAssumption DEF NoRung, Here, Questions
<1>4. CASE StopAtBudget
  <2>1. RunStateTypeOK' /\ questions' = questions
    BY <1>4, BudgetExceededType DEF StopAtBudget, BudgetExceeded
  <2>2. tree' \in SUBSET (0..NTasks)
    BY <1>4 DEF StopAtBudget
  <2>3. /\ pc' = "drain" /\ cur' = 0 /\ candidate' = {} /\ ingesting' = 0
        /\ UNCHANGED <<reply, unanswerable, config>>
        /\ UNCHANGED <<branch, pins, fileVars, countVars>>
    BY <1>4 DEF StopAtBudget
  <2> QED
    BY <2>1, <2>2, <2>3, NTasksAssumption
<1>5. CASE StartAttempt
  <2>1. RunStateTypeOK' /\ questions' = questions
    BY <1>2, <1>5, AttemptStartedType DEF StartAttempt, AttemptStarted
  <2> QED
    BY <1>5, <2>1 DEF StartAttempt, Here, Questions
<1>6. ASSUME NEW edits \in BOOLEAN, RunAgent(edits)
      PROVE  TypeInv'
  <2>1. RunStateTypeOK' /\ questions' = questions
    BY <1>6, LogUnchangedType DEF RunAgent, logVars
  <2>2. cur \in Task
    BY <1>2, <1>6 DEF RunAgent
  <2>3. tree' \in SUBSET (0..NTasks)
    BY <1>6, <2>2, NTasksAssumption DEF RunAgent, Task
  <2>4. AttemptId(cur) \in CommitId /\ Tip \in CommitId
    <3>1. progress[cur].attempts \in Nat
      BY <2>2 DEF RunStateTypeOK, Progress
    <3> QED
      BY <2>2, <3>1, NTasksAssumption, TipType DEF AttemptId, CommitId, Task, Tip
  <2>5. candidate' \in SUBSET Commit /\ candidate' # {}
    BY <1>6, <2>3, <2>4 DEF RunAgent, Commit
  <2> QED
    BY <1>6, <2>1, <2>3, <2>5 DEF RunAgent, Here, Questions
<1>7. ASSUME NEW failure \in Failures, NEW reported \in BOOLEAN,
             NEW cost \in Costs, SettleFailed(failure, reported, cost)
      PROVE  TypeInv'
  <2> DEFINE next == LadderDecision(cur, failure, reported)
             asks == CASE next.step = "AskHuman" -> {next.kind}
                       [] next.step = "Escalate" /\
                          ShouldApproveSpend(cur, cost) -> {"ApproveSpend"}
                       [] OTHER -> {}
             refund == next.step = "AskHuman" /\
                       (next.kind = "Clarify" \/ IsOutage(failure))
  <2>1. cur \in Task
    BY <1>2, <1>7 DEF SettleFailed
  <2>2. next \in Decision
    <3> DEFINE st == [rung |-> progress[cur].rung,
                      attempts_on_rung |-> progress[cur].attempts_on_rung,
                      defers |-> progress[cur].defers,
                      resumable |-> SessionResume /\
                                    (reported \/ progress[cur].session)]
               pol == [attempts_per |-> AttemptsPer, rungs |-> Rungs[cur],
                       max_defers |-> MaxDefers]
    <3>1. st.resumable \in BOOLEAN
      OBVIOUS
    <3>2. next = NextStep(failure, st, pol)
      BY DEF LadderDecision
    <3> HIDE DEF st, pol, next
    <3> QED
      BY <3>1, <3>2, NextStepType
  <2>3. asks \in SUBSET QuestionKind
    <3>1. next.step = "AskHuman" => next.kind \in QuestionKind
      BY DEF LadderDecision, NextStep, AskHuman, Fail, Defer, Escalate,
         RetrySameRung, QuestionKind
    <3> HIDE DEF next
    <3> QED
      BY <3>1 DEF QuestionKind
  <2>4. refund \in BOOLEAN
    OBVIOUS
  <2>5. /\ AttemptFailed(cur, reported, cost, next, asks, refund, config.halts)
        /\ asks # {} => Len(questions) < MaxQuestions
        /\ pc' = IF asks # {} THEN "materialize" ELSE "tidy"
        /\ candidate' = {}
        /\ UNCHANGED <<cur, ingesting, reply, unanswerable, config, gitVars,
                       fileVars, countVars>>
    BY <1>7 DEF SettleFailed
  <2> HIDE DEF next, asks, refund
  <2>6. cost \in Nat /\ config.halts \in BOOLEAN
    BY InputAssumption, ConfigType
  <2>7. RunStateTypeOK'
    BY <2>1, <2>2, <2>3, <2>4, <2>5, <2>6, AttemptFailedType
  <2>8. Len(questions') <= MaxQuestions
    <3>1. CASE asks = {}
      BY <2>5, <3>1 DEF AttemptFailed
    <3>2. CASE asks # {}
      <4>1. Len(questions') = Len(questions) + 1
        <5>1. (CHOOSE kind \in asks : TRUE) \in QuestionKind
          BY <2>3, <3>2
        <5>2. OpenQuestion(cur, CHOOSE kind \in asks : TRUE) \in Question
          BY <2>1, <5>1 DEF OpenQuestion, Question
        <5> QED
          BY <1>1, <2>5, <3>2, <5>2, AppendProperties DEF AttemptFailed
      <4> QED
        BY <1>1, <2>5, <3>2, <4>1, BoundAssumption
    <3> QED
      BY <3>1, <3>2
  <2>9. pc' \in {"materialize", "tidy"}
    BY <2>5
  <2> QED
    BY <2>5, <2>7, <2>8, <2>9
<1>8. CASE MaterializeQuestion
  <2>1. RunStateTypeOK' /\ questions' = questions
    BY <1>8, LogUnchangedType DEF MaterializeQuestion, logVars
  <2>2. payload' \in [QuestionIx -> {"absent", "open", "closed"}]
    BY <1>8 DEF MaterializeQuestion
  <2> QED
    BY <1>8, <2>1, <2>2 DEF MaterializeQuestion, Here
<1>9. CASE Tidy
  <2>1. RunStateTypeOK' /\ questions' = questions
    BY <1>9, LogUnchangedType DEF Tidy, logVars
  <2>2. tree' \in SUBSET (0..NTasks)
    BY <1>9 DEF Tidy
  <2>3. \/ /\ pc' = "step"
           /\ UNCHANGED <<cur, candidate, ingesting, reply, unanswerable, config>>
        \/ pc' = "drain" /\ cur' = 0 /\ candidate' = {} /\ ingesting' = 0
           /\ UNCHANGED <<reply, unanswerable, config>>
    BY <1>9 DEF Tidy
  <2>4. UNCHANGED <<branch, pins, fileVars, countVars>>
    BY <1>9 DEF Tidy
  <2> QED
    <3>1. CASE pc' = "step"
      BY <2>1, <2>2, <2>3, <2>4, <3>1
    <3>2. CASE pc' = "drain"
      <4>1. /\ cur' = 0 /\ candidate' = {} /\ ingesting' = 0
            /\ UNCHANGED <<reply, unanswerable, config>>
        BY <2>3, <3>2
      <4>2. 0 \in 0..NTasks
        BY NTasksAssumption
      <4> QED
        BY <2>1, <2>2, <2>4, <3>2, <4>1, <4>2
    <3> QED
      BY <2>3, <3>1, <3>2
<1>10. ASSUME NEW reported \in BOOLEAN, NEW cost \in Costs,
              SettlePassed(reported, cost)
       PROVE  TypeInv'
  <2>1. TheCandidate \in Commit /\ cur \in Task /\ cost \in Nat
    BY <1>2, <1>10, CandidateType, InputAssumption DEF SettlePassed, Here
  <2>2. RunStateTypeOK' /\ questions' = questions
    BY <1>10, <2>1, AttemptPassedType DEF SettlePassed, AttemptPassed
  <2> QED
    BY <1>10, <2>2 DEF SettlePassed, Here
<1>11. CASE PrepareCommit \/ PrepareRefused \/ AdvanceRefused \/ RemovePin
            \/ PublishRefused \/ ScrubTree
  <2>1. RunStateTypeOK' /\ questions' = questions
    BY <1>11, LogUnchangedType DEF PrepareCommit, PrepareRefused,
       AdvanceRefused, RemovePin, PublishRefused, ScrubTree, logVars
  <2>2. 0 \in 0..NTasks
    BY NTasksAssumption
  <2>3. CASE PrepareCommit
    BY <2>1, <2>3 DEF PrepareCommit, Here
  <2>4. CASE PrepareRefused \/ AdvanceRefused \/ PublishRefused
    <3>1. /\ pc' = "down" /\ cur' = 0 /\ candidate' = {} /\ ingesting' = 0
          /\ reply' = {} /\ unanswerable' = {} /\ tree' \in {{}, tree}
          /\ UNCHANGED <<config, branch, pins, fileVars, countVars>>
      BY <2>4 DEF PrepareRefused, AdvanceRefused, PublishRefused
    <3>2. tree' \in SUBSET (0..NTasks)
      BY <3>1
    <3> QED
      BY <2>1, <2>2, <3>1, <3>2
  <2>5. CASE RemovePin
    BY <2>1, <2>5 DEF RemovePin, Here
  <2>6. CASE ScrubTree
    BY <2>1, <2>6 DEF ScrubTree, Here
  <2> QED
    BY <1>11, <2>3, <2>4, <2>5, <2>6
<1>12. CASE AdvanceBranch
  <2>1. TheCandidate \in Commit
    BY <1>12, CandidateType DEF AdvanceBranch, Here
  <2>2. branch' \in Seq(Commit)
    BY <1>12, <2>1, AppendProperties DEF AdvanceBranch
  <2>3. RunStateTypeOK' /\ questions' = questions
    BY <1>12, LogUnchangedType DEF AdvanceBranch, logVars
  <2> QED
    BY <1>12, <2>2, <2>3 DEF AdvanceBranch, Here
<1>13. CASE RecordCommit
  <2>1. TheCandidate \in Commit
    BY <1>13, CandidateType DEF RecordCommit, Here
  <2>2. RunStateTypeOK' /\ questions' = questions
    BY <1>13, <2>1, TaskCommittedType DEF RecordCommit, TaskCommitted
  <2>3. 0 \in 0..NTasks
    BY NTasksAssumption
  <2> QED
    BY <1>13, <2>2, <2>3 DEF RecordCommit
<1> QED
  BY <1>3, <1>4, <1>5, <1>6, <1>7, <1>8, <1>9, <1>10, <1>11, <1>12, <1>13
     DEF Step

(* The steps of a resume.                                                  *)
LEMMA RecoverType ==
  ASSUME TypeInv, Recover \/ Resume
  PROVE  TypeInv'
<1> USE DEF TypeInv, TypeOK, gitVars, fileVars, procVars, countVars,
        DrainStates, ResumeStates, Goto, ForgetProcess
<1>1. Len(questions) \in Nat /\ questions \in Seq(Question) /\ 0 \in 0..NTasks
  BY LenProperties, NTasksAssumption DEF RunStateTypeOK
<1>2. unrecorded # {} => TheUnrecorded \in Commit
  BY DEF TheUnrecorded, RunStateTypeOK
<1>3. CASE Resume
  <2>1. RunStateTypeOK' /\ questions' = questions /\ unrecorded' = unrecorded
    BY <1>3, LogUnchangedType DEF Resume, logVars
  <2>2. \/ pc' = "republish" /\ unrecorded # {}
        \/ pc' \in {"reunpin", "orphans"}
    BY <1>3 DEF Resume
  <2> QED
    BY <1>3, <2>1, <2>2 DEF Resume
<1>4. CASE Republish
  <2>1. RunStateTypeOK' /\ questions' = questions /\ unrecorded' = unrecorded
    BY <1>4, LogUnchangedType DEF Republish, logVars
  <2>2. branch' \in Seq(Commit)
    <3>1. branch \in Seq(Commit) /\ TheUnrecorded \in Commit
      BY <1>2, <1>4 DEF Republish
    <3>2. branch' = branch \/ branch' = Append(branch, TheUnrecorded)
      BY <1>4 DEF Republish
    <3>3. Append(branch, TheUnrecorded) \in Seq(Commit)
      BY ONLY <3>1, AppendProperties
    <3> QED
      BY ONLY <3>1, <3>2, <3>3
  <2> QED
    <3>1. CASE Goto("recheck")
      BY <1>4, <2>1, <2>2, <3>1 DEF Republish
    <3>2. CASE ForgetProcess
      BY <1>1, <1>4, <2>1, <2>2, <3>2 DEF Republish
    <3> QED
      BY <1>4, <3>1, <3>2 DEF Republish
<1>5. CASE \/ ConfirmRepublished \/ RemoveAdoptedPin
           \/ DropOrphanPins \/ DropResidue
  <2>1. RunStateTypeOK' /\ questions' = questions /\ unrecorded' = unrecorded
    BY <1>5, LogUnchangedType DEF ConfirmRepublished, RemoveAdoptedPin,
       DropOrphanPins, DropResidue, logVars
  <2> QED
    <3>1. CASE ConfirmRepublished /\ Goto("reunpin")
      BY <2>1, <3>1 DEF ConfirmRepublished
    <3>2. CASE ConfirmRepublished /\ ForgetProcess
      BY <1>1, <2>1, <3>2 DEF ConfirmRepublished
    <3>3. CASE RemoveAdoptedPin
      BY <2>1, <3>3 DEF RemoveAdoptedPin
    <3>4. CASE DropOrphanPins
      <4>1. pins' \in SUBSET Commit
        BY <3>4 DEF DropOrphanPins
      <4> QED
        BY <2>1, <3>4, <4>1 DEF DropOrphanPins
    <3>5. CASE DropResidue
      <4>1. \/ pc' = "adopt" /\ unrecorded # {}
            \/ pc' = "repair"
        BY <3>5 DEF DropResidue
      <4> QED
        BY <2>1, <3>5, <4>1 DEF DropResidue
    <3> QED
      BY <1>5, <3>1, <3>2, <3>3, <3>4, <3>5 DEF ConfirmRepublished
<1>6. CASE Adopt
  <2>1. RunStateTypeOK' /\ questions' = questions
    BY <1>2, <1>6, TaskCommittedType DEF Adopt, TaskCommitted
  <2> QED
    BY <1>6, <2>1 DEF Adopt
<1>7. CASE RepairDefect
  <2>1. Lowest(MissingDefects) \in Nat
    <3>1. MissingDefects \in SUBSET Nat /\ MissingDefects # {}
      BY <1>1, <1>7 DEF RepairDefect, MissingDefects, Questions
    <3> QED
      BY <3>1, LowestIn
  <2>2. RunStateTypeOK' /\ questions' = questions
    BY <1>7, <2>1, DesignDefectType DEF RepairDefect, DesignDefect
  <2> QED
    BY <1>7, <2>2 DEF RepairDefect
<1>8. CASE RepairDecline
  <2>1. Lowest(UnsettledDeclines) \in Questions
    <3>1. /\ UnsettledDeclines \in SUBSET Nat /\ UnsettledDeclines # {}
          /\ UnsettledDeclines \subseteq Questions
      BY <1>1, <1>8 DEF RepairDecline, UnsettledDeclines, Questions
    <3> QED
      BY <3>1, LowestIn
  <2>2. questions[Lowest(UnsettledDeclines)] \in Question
    BY <1>1, <2>1, ElementOfSeq DEF Questions
  <2>3. RunStateTypeOK' /\ questions' = questions
    BY <1>8, <2>2, TaskFailedType DEF RepairDecline, TaskFailed, Question
  <2> QED
    BY <1>8, <2>3 DEF RepairDecline
<1>9. CASE RewritePayloads
  <2>1. RunStateTypeOK' /\ questions' = questions
    BY <1>9, LogUnchangedType DEF RewritePayloads, logVars
  <2>2. payload' \in [QuestionIx -> {"absent", "open", "closed"}]
    BY <1>9 DEF RewritePayloads
  <2> QED
    BY <1>9, <2>1, <2>2 DEF RewritePayloads
<1>10. CASE SettleInterrupted
  <2>1. Lowest(InFlight) \in Task
    <3>1. InFlight \in SUBSET Nat /\ InFlight # {} /\ InFlight \subseteq Task
      BY <1>10 DEF SettleInterrupted, InFlight, Task
    <3> QED
      BY <3>1, LowestIn
  <2>2. RunStateTypeOK' /\ questions' = questions
    BY <1>10, <2>1, AttemptInterruptedType DEF SettleInterrupted,
       AttemptInterrupted
  <2> QED
    BY <1>10, <2>2 DEF SettleInterrupted
<1>11. CASE FinishResume
  <2>1. RunStateTypeOK' /\ questions' = questions
    BY <1>11, RunResumedType DEF FinishResume, RunResumed
  <2> QED
    BY <1>11, <2>1 DEF FinishResume
<1> QED
  BY <1>3, <1>4, <1>5, <1>6, <1>7, <1>8, <1>9, <1>10, <1>11 DEF Recover

(* Crashes, operators and other people's commits.                          *)
LEMMA EnvironmentType ==
  ASSUME TypeInv, Environment
  PROVE  TypeInv'
<1> USE DEF TypeInv, TypeOK, procVars, fileVars, countVars
<1>1. ASSUME UNCHANGED logVars
      PROVE  /\ RunStateTypeOK' /\ questions' = questions
             /\ unrecorded' = unrecorded
  BY <1>1, LogUnchangedType DEF logVars
<1>2. /\ 0 \in 0..NTasks /\ outside \in Nat /\ crashes \in Nat
      /\ tree \in SUBSET (0..NTasks)
  BY NTasksAssumption
<1>3. CASE Crash
  <2>1. tree' \in SUBSET (0..NTasks) /\ crashes' \in Nat
    <3>1. tree' \in {{}, tree} /\ crashes' = crashes + 1
      BY <1>3 DEF Crash
    <3>2. tree' = {} \/ tree' = tree
      BY <3>1
    <3>3. tree' \in SUBSET (0..NTasks)
      BY <1>2, <3>2
    <3>4. crashes' \in Nat
      BY <1>2, <3>1
    <3> QED
      BY <3>3, <3>4
  <2> QED
    BY <1>1, <1>2, <1>3, <2>1 DEF Crash, ForgetProcess
<1>4. CASE LateWrite
  BY <1>1, <1>2, <1>4 DEF LateWrite, Questions
<1>5. CASE OutsideCommit
  <2> DEFINE c == [id |-> <<0, outside + 1>>, parent |-> Tip, edits |-> {0}]
  <2>1. c \in Commit
    <3>1. Tip \in CommitId
      BY TipType DEF Tip
    <3> QED
      BY <1>2, <3>1 DEF Commit, CommitId
  <2>2. branch' = Append(branch, c)
    BY <1>5 DEF OutsideCommit
  <2> HIDE DEF c
  <2>3. branch' \in Seq(Commit)
    BY <2>1, <2>2, AppendProperties
  <2>4. /\ tree' \in {{}, tree} /\ outside' = outside + 1
        /\ UNCHANGED <<logVars, pins, fileVars, procVars, crashes>>
    BY <1>5 DEF OutsideCommit
  <2>5. tree' \in SUBSET (0..NTasks) /\ outside' \in Nat
    <3>1. tree' = {} \/ tree' = tree
      BY <2>4
    <3>2. tree' \in SUBSET (0..NTasks)
      BY <1>2, <3>1
    <3>3. outside' \in Nat
      BY <1>2, <2>4
    <3> QED
      BY <3>2, <3>3
  <2> QED
    BY <1>1, <2>3, <2>4, <2>5 DEF Questions
<1>6. CASE OutsideReset
  <2>1. branch' \in Seq(Commit)
    <3>1. branch # <<>>
      BY <1>6 DEF OutsideReset, Tip, TipOf
    <3>2. Len(branch) \in Nat \ {0}
      BY <3>1, EmptySeq
    <3> QED
      BY <1>6, <3>2, SubSeqProperties DEF OutsideReset
  <2> QED
    BY <1>1, <1>6, <2>1 DEF OutsideReset, Questions
<1>7. ASSUME NEW q \in QuestionIx, NEW answer \in {"Answered", "Declined"},
             OperatorAnswers(q, answer)
      PROVE  TypeInv'
  BY <1>1, <1>7 DEF OperatorAnswers, gitVars, Questions
<1> QED
  BY <1>3, <1>4, <1>5, <1>6, <1>7 DEF Environment

(* What every step keeps.                                                  *)
LEMMA TypeInvKept ==
  ASSUME TypeInv, [Next]_vars
  PROVE  TypeInv'
<1>1. CASE UNCHANGED vars
  <2>1. RunStateTypeOK'
    BY <1>1, LogUnchangedType DEF vars, TypeInv, TypeOK
  <2> QED
    BY <1>1, <2>1 DEF vars, logVars, gitVars, fileVars, procVars, countVars,
       TypeInv, TypeOK, Questions
<1> QED
  BY <1>1, DrainType, StepType, RecoverType, EnvironmentType DEF Next


(* Every variable keeps its type, whatever the plan, the chains, the       *)
(* limits, the failures and the bounds.                                    *)
THEOREM TypeCorrect == Spec => []TypeOK
<1>1. TypeInv /\ [Next]_vars => TypeInv'
  BY TypeInvKept
<1>2. TypeInv => TypeOK
  BY DEF TypeInv
<1> QED
  BY TypeInvInit, <1>1, <1>2, PTL DEF Spec

-----------------------------------------------------------------------------
(* The scheduler.                                                          *)

(* Where the log ends in no settlement that is still to be published.      *)
Quiet == DrainStates \union {"step", "attempt", "verify", "settle",
                             "materialize", "tidy", "repair", "interrupted"}

(* Where the process holds a captured candidate, and where an attempt is   *)
(* running or being judged.                                                *)
Holding == {"verify", "settle", "advance", "unpin", "scrub", "record"}
Judging == {"attempt", "verify", "settle"}
Working == Judging \union {"step", "materialize", "tidy"}
Away == ResumeStates \union {"down"}

(* Who is being stepped, and which settlement the log ends with.           *)
Ends ==
  /\ \A c \in unrecorded : /\ unrecorded = {c} /\ c.id[1] \in Task
                           /\ states[c.id[1]].is = "Pending"
  /\ pc \in Judging \union {"step"} => cur \in Task /\ states[cur].is = "Pending"
  /\ pc \in Holding => \E c \in candidate : /\ candidate = {c} /\ c.id[1] = cur
                                            /\ states[cur].is = "Pending"
  /\ pc \in Quiet => unrecorded = {}
  /\ pc \in {"advance", "unpin", "scrub", "record"} => unrecorded = candidate
  /\ pc \notin Away => finished = "none"

Declined(q) == questions[q].answer = "Declined"
Waiting(q) == states[questions[q].task] = AwaitingInput(q)

(* What the questions of the log and the states of its tasks have to do    *)
(* with each other.                                                        *)
Asked ==
  /\ \A q \in Questions : IsOpen(q) => Waiting(q)
  /\ \A t \in Task : states[t].is = "AwaitingInput" =>
       /\ states[t].question \in Questions
       /\ questions[states[t].question].task = t
       /\ IsOpen(states[t].question) \/ Declined(states[t].question)
  /\ \A q \in Questions : Declined(q) =>
       Waiting(q) \/ states[questions[q].task].is = "Failed"

(* The question being ingested.                                            *)
Ingested ==
  /\ pc = "decline" => Declined(ingesting)
  /\ pc \in {"defect", "decline", "rewrite"} => ~IsOpen(ingesting)
  /\ pc \in {"defect", "decline"} /\ Declined(ingesting) =>
       (questions[ingesting].halts <=> config.halts)

(* A declined question whose task has not been failed yet: the process     *)
(* that recorded the decline is at it, or died before it was done.         *)
Unsettled ==
  \A q \in Questions : Declined(q) /\ Waiting(q) =>
    /\ ~budget_stop /\ unrecorded = {} /\ InFlight = {} /\ finished = "none"
    /\ \/ pc \in {"defect", "decline"} /\ q = ingesting
       \/ pc \in Away \ {"interrupted"}

(* Why the run stopped.                                                    *)
Halted ==
  /\ halted_at # 0 => states[halted_at].is = "Failed" /\ ~budget_stop
  /\ \A q \in Questions : Declined(q) /\ ~Waiting(q) =>
       /\ questions[q].halts => halted_at # 0
       /\ halted_at = questions[q].task => questions[q].halts
  /\ reply # {} => ~budget_stop /\ pc \in DrainStates

(* The attempt in flight.                                                  *)
Flight ==
  /\ pc \in Judging => progress[cur].in_flight
  /\ \A t \in InFlight :
       /\ states[t].is = "Pending" /\ unrecorded = {} /\ ~Stopped
       /\ pc \in Judging \union Away /\ (pc \in Judging => t = cur)
       /\ \A u \in InFlight : u = t
  /\ pc \in Working => ~Stopped
  /\ pc \in Judging => progress[cur].rung < Rungs[cur]

(* What is left of a task's allowance.                                     *)
Within(t) ==
  LET n == progress[t].attempts_on_rung
  IN  /\ n <= AttemptsPer
      /\ (/\ states[t].is = "Pending" /\ ~progress[t].in_flight
          /\ \A c \in unrecorded : c.id[1] # t) => n < AttemptsPer
      /\ states[t].is = "Deferred" => n < AttemptsPer
      /\ (/\ states[t].is = "AwaitingInput"
          /\ questions[states[t].question].kind # "Unblock") => n < AttemptsPer

Allowed == \A t \in Task : Within(t)

(* A run that ended stays as it was until it is resumed.                   *)
Ended ==
  /\ finished # "none" => unrecorded = {}
  /\ finished \in {"Complete", "Parked"} => \A t \in Task :
       /\ states[t].is # "Deferred"
       /\ states[t].is = "AwaitingInput" => finished = "Parked"
       /\ states[t].is = "Pending" => \E d \in Deps[t] : states[d].is # "Done"

(* The payload of a question that is written is the one its state calls    *)
(* for, and a closed question has its design_defect.                       *)
Written(q) == payload[q] = IF IsOpen(q) THEN "open" ELSE "closed"
Filed ==
  /\ pc \notin Away \ {"interrupted"} => \A q \in Questions :
       ~IsOpen(q) => q \in defects \/ (pc = "defect" /\ q = ingesting)
  /\ pc \notin Away \ {"interrupted"} => \A q \in Questions :
       \/ Written(q)
       \/ pc \in {"defect", "decline", "rewrite"} /\ q = ingesting
       \/ pc = "materialize" /\ q = Len(questions)
  /\ pc = "materialize" => questions # <<>> /\ IsOpen(Len(questions))

(* The inductive invariant of the scheduler.                               *)
SchedInv ==
  /\ TypeInv /\ Ends /\ Asked /\ Ingested /\ Unsettled /\ Halted /\ Flight
  /\ Allowed /\ Ended /\ Filed
-----------------------------------------------------------------------------
(* What the steps do to the scheduler's state, git left aside.             *)

(* The log is not written.                                                 *)
SameLog == UNCHANGED <<states, progress, questions, halted_at, budget_stop,
                       finished, unrecorded, defects>>

(* Nothing moves, but the channel may have been asked and have replied.    *)
Rests ==
  /\ SameLog /\ UNCHANGED <<pc, cur, candidate, ingesting, config, payload>>
  /\ reply' = reply \/ (pc = "drain" /\ (reply' = {} \/ ~Stopped))

Dies == SameLog /\ pc' = "down" /\ reply' = {} /\ payload' = payload

Rewrites ==
  /\ SameLog /\ pc = "rewrite" /\ pc' = "drain"
  /\ payload' = [payload EXCEPT ![ingesting] = "closed"]
  /\ UNCHANGED <<reply, config>>

Picks ==
  /\ SameLog /\ pc = "drain" /\ pc' = "step" /\ cur' \in Ready
  /\ reply = {} /\ UNCHANGED <<reply, config, payload>>

Captures ==
  /\ SameLog /\ pc = "attempt" /\ pc' = "verify" /\ cur' = cur
  /\ \E c : candidate' = {c} /\ c.id = AttemptId(cur)
  /\ UNCHANGED <<reply, config, payload>>

Proceeds ==
  /\ SameLog /\ UNCHANGED <<cur, candidate, reply, config, payload>>
  /\ \/ pc = "verify" /\ pc' = "settle"
     \/ pc = "advance" /\ pc' = "unpin"
     \/ pc = "unpin" /\ pc' = "scrub"
     \/ pc = "scrub" /\ pc' = "record"

Materializes ==
  /\ SameLog /\ pc = "materialize" /\ pc' = "tidy"
  /\ payload' = [payload EXCEPT ![Len(questions)] = "open"]
  /\ UNCHANGED <<cur, reply, config>>

Tidies ==
  /\ SameLog /\ pc = "tidy" /\ UNCHANGED <<reply, config, payload>>
  /\ cur \in Task
  /\ \/ pc' = "drain" /\ states[cur].is # "Pending"
     \/ pc' = "step" /\ cur' = cur /\ states[cur].is = "Pending"

Recovers ==
  /\ SameLog /\ pc \in Away /\ UNCHANGED <<reply, payload>>
  /\ pc' \in {"republish", "recheck", "reunpin", "orphans", "residue", "adopt",
              "repair"}
  /\ pc' = "repair" => unrecorded = {}

Refiles ==
  /\ SameLog /\ pc = "repair" /\ pc' = "interrupted" /\ reply' = reply
  /\ MissingDefects = {} /\ UnsettledDeclines = {}
  /\ payload' = [q \in QuestionIx |->
                   IF q \notin Questions THEN payload[q]
                   ELSE IF IsOpen(q) THEN "open" ELSE "closed"]

Silent ==
  Rests \/ Dies \/ Rewrites \/ Picks \/ Captures \/ Proceeds \/ Materializes
    \/ Tidies \/ Recovers \/ Refiles

(* An answer is recorded, swept from its file or returned by the channel.  *)
Ingests(q, answer) ==
  /\ pc = "drain" /\ IsOpen(q) /\ IngestAnswer(q, answer)
  /\ reply' \subseteq reply /\ (~budget_stop \/ reply # {})

(* The types, as the steps below use them.                                 *)
LEMMA Known ==
  ASSUME TypeInv
  PROVE  /\ RunStateTypeOK /\ Len(questions) \in Nat
         /\ Questions = 1..Len(questions) /\ Len(questions) <= MaxQuestions
         /\ \A q \in Questions : /\ questions[q] \in Question /\ q \in QuestionIx
                                 /\ questions[q].task \in Task
         /\ \A t \in Task : states[t] \in TaskState /\ progress[t] \in Progress
         /\ DOMAIN states = Task /\ DOMAIN progress = Task
<1>1. RunStateTypeOK /\ questions \in Seq(Question) /\ Len(questions) <= MaxQuestions
  BY DEF TypeInv, TypeOK, RunStateTypeOK
<1>2. Len(questions) \in Nat /\ Questions = 1..Len(questions)
  BY <1>1, LenProperties DEF Questions
<1>3. ASSUME NEW q \in Questions
      PROVE  /\ questions[q] \in Question /\ q \in QuestionIx
             /\ questions[q].task \in Task
  <2>1. questions[q] \in Question
    BY <1>1, <1>2, ElementOfSeq
  <2>2. q \in QuestionIx
    BY <1>1, <1>2, BoundAssumption DEF QuestionIx
  <2> QED
    BY <2>1, <2>2 DEF Question
<1> QED
  BY <1>1, <1>2, <1>3 DEF RunStateTypeOK

(* Every step either leaves the log alone, in one of these ways, or is one *)
(* of the steps that write an event.                                       *)
LEMMA Steps ==
  ASSUME TypeInv, [Next]_vars
  PROVE  \/ Silent
         \/ \E q \in Questions, answer \in {"Answered", "Declined"} :
              Ingests(q, answer)
         \/ RecordDefect \/ FailDeclined \/ WaitForPool \/ Finish
         \/ NoRung \/ StopAtBudget \/ StartAttempt
         \/ \E reported \in BOOLEAN, cost \in Costs : SettlePassed(reported, cost)
         \/ \E failure \in Failures, reported \in BOOLEAN, cost \in Costs :
              SettleFailed(failure, reported, cost)
         \/ RecordCommit \/ Adopt \/ RepairDefect \/ RepairDecline
         \/ SettleInterrupted \/ FinishResume
<1> USE DEF gitVars, fileVars, procVars, countVars, logVars
<1>1. CASE UNCHANGED vars
  BY <1>1 DEF vars, Silent, Rests, SameLog
<1>2. ASSUME SweepAnswers
      PROVE  \E q \in Questions, answer \in {"Answered", "Declined"} :
               Ingests(q, answer)
  <2> DEFINE q == Lowest(Sweepable)
  <2>1. q \in Sweepable
    <3>1. Sweepable \in SUBSET Nat /\ Sweepable # {}
      BY <1>2, Known DEF SweepAnswers, Sweepable
    <3> QED
      BY <3>1, LowestIn
  <2>2. /\ q \in Questions /\ q \in QuestionIx /\ IsOpen(q) /\ answers[q] # "none"
    <3> HIDE DEF q
    <3> QED
      BY <2>1, Known DEF Sweepable
  <2>3. IngestAnswer(q, answers[q]) /\ pc = "drain" /\ ~budget_stop /\ reply' = reply
    BY <1>2 DEF SweepAnswers
  <2> HIDE DEF q
  <2>4. answers[q] \in {"Answered", "Declined"}
    BY <2>2 DEF TypeInv, TypeOK
  <2> QED
    BY <2>2, <2>3, <2>4 DEF Ingests
<1>3. ASSUME NEW r \in reply, ReplyLands(r)
      PROVE  \E q \in Questions, answer \in {"Answered", "Declined"} :
               Ingests(q, answer)
  <2>1. /\ r.question \in Questions /\ r.answer \in {"Answered", "Declined"}
        /\ pc = "drain" /\ IsOpen(r.question)
        /\ IngestAnswer(r.question, r.answer) /\ reply' = {} /\ reply # {}
    BY <1>3 DEF ReplyLands, Swept, StillOpen, Reply, TypeInv, TypeOK
  <2> QED
    BY <2>1 DEF Ingests
<1>4. ASSUME Drain
      PROVE  \/ Silent \/ SweepAnswers \/ RecordDefect \/ FailDeclined
             \/ WaitForPool \/ Finish \/ \E r \in reply : ReplyLands(r)
  <2>1. RewritePayload => Rewrites
    BY DEF RewritePayload, BackToDrain, Rewrites, SameLog
  <2>2. ASSUME StepTask PROVE Picks
    <3>1. Ready \in SUBSET Nat /\ Ready # {}
      BY <2>2 DEF StepTask, Ready, Task
    <3>2. Lowest(Ready) \in Ready
      BY <3>1, LowestIn
    <3> QED
      BY <2>2, <3>2 DEF StepTask, NothingToSweep, Picks, SameLog
  <2>3. \A answer : Ask(answer) => Rests
    BY DEF Ask, HardBlock, NothingToSweep, Rests, SameLog
  <2>4. \A r \in reply : ReplyAbsorbed(r) \/ NobodyReplied(r) => Rests
    BY DEF ReplyAbsorbed, NobodyReplied, Swept, Rests, SameLog
  <2> QED
    BY <1>4, <2>1, <2>2, <2>3, <2>4 DEF Drain, Silent
<1>5. ASSUME Step
      PROVE  \/ Silent \/ NoRung \/ StopAtBudget \/ StartAttempt
             \/ \E reported \in BOOLEAN, cost \in Costs : SettlePassed(reported, cost)
             \/ \E failure \in Failures, reported \in BOOLEAN, cost \in Costs :
                  SettleFailed(failure, reported, cost)
             \/ RecordCommit
  <2>1. ASSUME NEW edits \in BOOLEAN, RunAgent(edits) PROVE Captures
    <3> DEFINE held == (tree \ {0}) \union (IF edits \/ 0 \in tree THEN {cur} ELSE {})
               c == [id |-> AttemptId(cur), parent |-> Tip, edits |-> held]
    <3>1. candidate' = {c} /\ c.id = AttemptId(cur)
      BY <2>1 DEF RunAgent
    <3> HIDE DEF c
    <3> QED
      BY <2>1, <3>1 DEF RunAgent, Here, Captures, SameLog
  <2>2. PrepareCommit \/ AdvanceBranch \/ RemovePin \/ ScrubTree => Proceeds
    BY DEF PrepareCommit, AdvanceBranch, RemovePin, ScrubTree, Here, Goto,
       Proceeds, SameLog
  <2>3. PrepareRefused \/ AdvanceRefused \/ PublishRefused => Dies
    BY DEF PrepareRefused, AdvanceRefused, PublishRefused, ForgetProcess, Dies,
       SameLog
  <2>4. MaterializeQuestion => Materializes
    BY DEF MaterializeQuestion, Here, Goto, Materializes, SameLog
  <2>5. Tidy => Tidies
    BY NTasksAssumption DEF Tidy, Here, Goto, BackToDrain, Tidies, SameLog,
       TypeInv, TypeOK, Task
  <2> QED
    BY <1>5, <2>1, <2>2, <2>3, <2>4, <2>5 DEF Step, Silent
<1>6. ASSUME Recover \/ Resume
      PROVE  \/ Silent \/ Adopt \/ RepairDefect \/ RepairDecline
             \/ SettleInterrupted \/ FinishResume
  <2> USE DEF Away, ResumeStates
  <2>1. Resume => Recovers
    BY DEF Resume, Recovers, SameLog
  <2>2. Republish => Recovers \/ Dies
    BY DEF Republish, Goto, ForgetProcess, Recovers, Dies, SameLog
  <2>3. ConfirmRepublished => Recovers \/ Dies
    BY DEF ConfirmRepublished, Goto, ForgetProcess, Recovers, Dies, SameLog
  <2>4. RemoveAdoptedPin \/ DropOrphanPins => Recovers
    BY DEF RemoveAdoptedPin, DropOrphanPins, Goto, Recovers, SameLog
  <2>5. DropResidue => Recovers
    BY DEF DropResidue, Goto, Recovers, SameLog
  <2>6. RewritePayloads => Refiles
    BY DEF RewritePayloads, Goto, Refiles, SameLog
  <2> QED
    BY <1>6, <2>1, <2>2, <2>3, <2>4, <2>5, <2>6 DEF Recover, Silent
<1>7. Environment => Silent
  <2>1. Crash => Dies
    BY DEF Crash, ForgetProcess, Dies, SameLog
  <2>2. LateWrite \/ OutsideCommit \/ OutsideReset => Rests
    BY DEF LateWrite, OutsideCommit, OutsideReset, Rests, SameLog
  <2>3. \A q \in QuestionIx, answer \in {"Answered", "Declined"} :
          OperatorAnswers(q, answer) => Rests
    BY DEF OperatorAnswers, Rests, SameLog
  <2> QED
    BY <2>1, <2>2, <2>3 DEF Environment, Silent
<1> QED
  BY <1>1, <1>2, <1>3, <1>4, <1>5, <1>6, <1>7 DEF Next

(* What each event does, field by field.                                   *)

(* question_answered, of an open question that its task waits for: a       *)
(* declined one stays waited for until the task is failed.                 *)
LEMMA IngestDoes ==
  ASSUME TypeInv, NEW q \in Questions, NEW answer \in {"Answered", "Declined"},
         Ingests(q, answer), Waiting(q)
  PROVE  /\ pc' = "defect" /\ ingesting' = q /\ unrecorded' = {}
         /\ UNCHANGED <<halted_at, budget_stop, finished, defects, payload,
                        config, cur, candidate>>
         /\ Len(questions') = Len(questions)
         /\ \A r \in Questions : /\ r # q => questions'[r] = questions[r]
                                 /\ questions'[r].task = questions[r].task
                                 /\ questions'[r].kind = questions[r].kind
         /\ questions'[q].answer = answer
         /\ answer = "Declined" => (questions'[q].halts <=> config.halts)
         /\ answer = "Declined" => states' = states /\ progress' = progress
         /\ answer = "Answered" =>
              /\ states'[questions[q].task].is = "Pending"
              /\ progress'[questions[q].task] =
                   Answered(progress[questions[q].task], questions[q].kind)
              /\ \A u \in Task \ {questions[q].task} :
                   states'[u] = states[u] /\ progress'[u] = progress[u]
<1> DEFINE halts == answer = "Declined" /\ config.halts
           t == questions[q].task
<1>1. /\ pc' = "defect" /\ ingesting' = q /\ pc = "drain" /\ IsOpen(q)
      /\ UNCHANGED <<payload, config, cur, candidate>>
      /\ QuestionAnswered(q, answer, halts)
  BY DEF Ingests, IngestAnswer, fileVars
<1> HIDE DEF halts
<1>2. /\ questions' = [questions EXCEPT ![q].answer = answer, ![q].halts = halts]
      /\ UNCHANGED <<halted_at, budget_stop, finished, defects>>
      /\ unrecorded' = {}
      /\ states' = IF answer = "Answered"
                   THEN [states EXCEPT ![t] = Plain("Pending")] ELSE states
      /\ progress' = IF answer = "Answered"
                     THEN [progress EXCEPT ![t] = Answered(@, questions[q].kind)]
                     ELSE progress
  BY <1>1 DEF QuestionAnswered, Waiting
<1>3. /\ questions \in Seq(Question) /\ questions[q] \in Question
      /\ q \in 1..Len(questions) /\ t \in Task
      /\ DOMAIN states = Task /\ DOMAIN progress = Task
      /\ Questions = 1..Len(questions)
  BY Known DEF RunStateTypeOK
<1>4. /\ Len(questions') = Len(questions)
      /\ \A r \in 1..Len(questions) : r # q => questions'[r] = questions[r]
      /\ questions'[q] = [questions[q] EXCEPT !.answer = answer, !.halts = halts]
  <2> DEFINE closed == [questions[q] EXCEPT !.answer = answer, !.halts = halts]
  <2>1. questions' = [questions EXCEPT ![q] = closed]
    BY <1>2
  <2>2. closed \in Question
    BY <1>3 DEF Question, halts
  <2> SUFFICES /\ Len(questions') = Len(questions)
               /\ \A r \in 1..Len(questions) : r # q => questions'[r] = questions[r]
               /\ questions'[q] = closed
    OBVIOUS
  <2> HIDE DEF closed
  <2> QED
    BY <1>3, <2>1, <2>2, ExceptSeq
<1>5. /\ questions'[q].answer = answer /\ questions'[q].task = questions[q].task
      /\ questions'[q].kind = questions[q].kind /\ questions'[q].halts = halts
  BY <1>3, <1>4 DEF Question
<1>6. answer = "Answered" =>
        /\ states'[t].is = "Pending"
        /\ progress'[t] = Answered(progress[t], questions[q].kind)
        /\ \A u \in Task \ {t} : states'[u] = states[u] /\ progress'[u] = progress[u]
  BY <1>2, <1>3 DEF Plain
<1>7. answer = "Declined" => states' = states /\ progress' = progress
  BY <1>2
<1> QED
  BY <1>1, <1>2, <1>3, <1>4, <1>5, <1>6, <1>7 DEF halts

(* task_failed and task_committed end one task and touch no other.         *)
LEMMA TaskFailedDoes ==
  ASSUME TypeInv, NEW t \in Task, NEW halts, TaskFailed(t, halts)
  PROVE  /\ states'[t].is = "Failed"
         /\ \A u \in Task \ {t} : states'[u] = states[u]
         /\ halted_at' = IF halts /\ halted_at = 0 THEN t ELSE halted_at
         /\ unrecorded' = {}
         /\ UNCHANGED <<progress, questions, budget_stop, finished, recorded,
                        defects>>
  BY Known DEF TaskFailed, HaltAt, Plain

(* task_committed.                                                         *)
LEMMA TaskCommittedDoes ==
  ASSUME TypeInv, NEW t \in Task, NEW c, TaskCommitted(t, c)
  PROVE  /\ states'[t].is = "Done"
         /\ \A u \in Task \ {t} : states'[u] = states[u]
         /\ recorded' = Append(recorded, c) /\ unrecorded' = {}
         /\ UNCHANGED <<progress, questions, halted_at, budget_stop, finished,
                        defects>>
  BY Known DEF TaskCommitted, Plain

(* Waking deferred work.                                                   *)
LEMMA WakeDoes ==
  ASSUME WakeDeferred, NEW t \in Task
  PROVE  /\ states[t].is = "Deferred" => states'[t].is = "Pending"
         /\ states[t].is # "Deferred" => states'[t] = states[t]
  BY DEF WakeDeferred, Plain

(* attempt_started and attempt_interrupted.                                *)
LEMMA StartDoes ==
  ASSUME TypeInv, StartAttempt
  PROVE  /\ pc = "step" /\ pc' = "attempt" /\ cur \in Task
         /\ progress[cur].rung < Rungs[cur]
         /\ UNCHANGED <<cur, candidate, ingesting, reply, config, payload, states,
                        questions, halted_at, budget_stop, finished, defects>>
         /\ unrecorded' = {}
         /\ \A u \in Task \ {cur} : progress'[u] = progress[u]
         /\ progress'[cur].in_flight
         /\ progress'[cur].rung = progress[cur].rung
         /\ progress'[cur].attempts_on_rung = progress[cur].attempts_on_rung + 1
         /\ (progress'[cur].session <=> ResumesSession(progress[cur]))
         /\ (progress'[cur].resume_next <=> progress[cur].resume_next)
<1>1. cur \in Task
  BY NTasksAssumption DEF StartAttempt, Here, TypeInv, TypeOK, Task
<1>2. /\ progress' = [progress EXCEPT ![cur] = Started(@)]
      /\ DOMAIN progress = Task /\ progress[cur] \in Progress
  BY <1>1, Known DEF StartAttempt, AttemptStarted
<1>3. /\ progress'[cur] = Started(progress[cur])
      /\ \A u \in Task \ {cur} : progress'[u] = progress[u]
  BY <1>1, <1>2
<1>4. /\ progress'[cur].in_flight
      /\ progress'[cur].rung = progress[cur].rung
      /\ progress'[cur].attempts_on_rung = progress[cur].attempts_on_rung + 1
  BY <1>2, <1>3, StartedFields
<1>5. /\ (progress'[cur].session <=> ResumesSession(progress[cur]))
      /\ (progress'[cur].resume_next <=> progress[cur].resume_next)
  BY <1>2, <1>3, SessionDropped
<1> QED
  BY <1>1, <1>3, <1>4, <1>5 DEF StartAttempt, Here, AttemptStarted, Goto, fileVars

(* attempt_interrupted.                                                    *)
LEMMA InterruptDoes ==
  ASSUME TypeInv, SettleInterrupted
  PROVE  \E t \in InFlight :
           /\ pc = "interrupted" /\ pc' = "interrupted"
           /\ UNCHANGED <<cur, candidate, ingesting, reply, config, payload, states,
                          questions, halted_at, budget_stop, finished, defects>>
           /\ unrecorded' = {}
           /\ \A u \in Task \ {t} : progress'[u] = progress[u]
           /\ ~progress'[t].in_flight
           /\ ~progress'[t].resume_next
           /\ progress'[t].attempts = progress[t].attempts
           /\ progress'[t].attempts_on_rung =
                SaturatingPred(progress[t].attempts_on_rung)
<1> DEFINE t == Lowest(InFlight)
<1>1. t \in InFlight /\ t \in Task
  <2>1. InFlight \in SUBSET Nat /\ InFlight # {} /\ InFlight \subseteq Task
    BY DEF SettleInterrupted, InFlight, Task
  <2> QED
    BY <2>1, LowestIn
<1>2. /\ progress' = [progress EXCEPT ![t] = Interrupted(@)]
      /\ DOMAIN progress = Task /\ progress[t] \in Progress
  BY <1>1, Known DEF SettleInterrupted, AttemptInterrupted
<1>3. /\ pc = "interrupted" /\ pc' = "interrupted" /\ unrecorded' = {}
      /\ UNCHANGED <<cur, candidate, ingesting, reply, config, payload, states,
                     questions, halted_at, budget_stop, finished, defects>>
  BY DEF SettleInterrupted, AttemptInterrupted, procVars, fileVars
<1> HIDE DEF t
<1>4. /\ progress'[t] = Interrupted(progress[t])
      /\ \A u \in Task \ {t} : progress'[u] = progress[u]
  BY <1>1, <1>2
<1>5. /\ ~progress'[t].in_flight /\ progress'[t].attempts = progress[t].attempts
      /\ progress'[t].attempts_on_rung = SaturatingPred(progress[t].attempts_on_rung)
  BY <1>2, <1>4, InterruptedFields
<1>6. ~progress'[t].resume_next
  BY <1>2, <1>4, SessionDropped
<1> QED
  BY <1>1, <1>3, <1>4, <1>5, <1>6

(* A passing settlement.                                                   *)
LEMMA PassDoes ==
  ASSUME TypeInv, NEW reported \in BOOLEAN, NEW cost \in Costs,
         SettlePassed(reported, cost)
  PROVE  /\ pc = "settle" /\ pc' = "advance" /\ cur \in Task
         /\ UNCHANGED <<cur, candidate, ingesting, reply, config, payload, states,
                        questions, halted_at, budget_stop, finished, defects>>
         /\ unrecorded' = {TheCandidate}
         /\ \A u \in Task \ {cur} : progress'[u] = progress[u]
         /\ ~progress'[cur].in_flight
         /\ progress'[cur].attempts = progress[cur].attempts
         /\ progress'[cur].rung = progress[cur].rung
         /\ progress'[cur].attempts_on_rung = progress[cur].attempts_on_rung
         /\ (progress'[cur].resume_next <=> progress[cur].resume_next)
<1>1. cur \in Task
  BY NTasksAssumption DEF SettlePassed, Here, TypeInv, TypeOK, Task
<1>2. /\ progress' = [progress EXCEPT ![cur] = Settled(@, reported)]
      /\ DOMAIN progress = Task /\ progress[cur] \in Progress
  BY <1>1, Known DEF SettlePassed, AttemptPassed
<1>3. /\ progress'[cur] = Settled(progress[cur], reported)
      /\ \A u \in Task \ {cur} : progress'[u] = progress[u]
  BY <1>1, <1>2
<1>4. /\ ~progress'[cur].in_flight
      /\ progress'[cur].attempts = progress[cur].attempts
      /\ progress'[cur].rung = progress[cur].rung
      /\ progress'[cur].attempts_on_rung = progress[cur].attempts_on_rung
  <2> DEFINE s == Settled(progress[cur], reported)
  <2>1. /\ ~s.in_flight /\ s.attempts = progress[cur].attempts
        /\ s.rung = progress[cur].rung
        /\ s.attempts_on_rung = progress[cur].attempts_on_rung
    BY <1>2, SettledFields
  <2>2. progress'[cur] = s
    BY <1>3
  <2> HIDE DEF s
  <2> QED
    BY <2>1, <2>2
<1>5. progress'[cur].resume_next <=> progress[cur].resume_next
  <2> DEFINE s == Settled(progress[cur], reported)
  <2>1. s.resume_next <=> progress[cur].resume_next
    BY <1>2, SessionKept
  <2>2. progress'[cur] = s
    BY <1>3
  <2> HIDE DEF s
  <2> QED
    BY <2>1, <2>2
<1> QED
  BY <1>1, <1>3, <1>4, <1>5 DEF SettlePassed, Here, AttemptPassed, Goto, fileVars

(* run_resumed.                                                            *)
LEMMA ResumeDoes ==
  ASSUME TypeInv, FinishResume
  PROVE  /\ pc = "interrupted" /\ pc' = "drain" /\ InFlight = {}
         /\ finished' = "none" /\ budget_stop' = FALSE /\ unrecorded' = {}
         /\ WakeDeferred
         /\ UNCHANGED <<cur, candidate, ingesting, reply, config, payload,
                        questions, halted_at, defects>>
         /\ \A t \in Task :
              /\ progress'[t].in_flight = progress[t].in_flight
              /\ progress'[t].attempts_on_rung = progress[t].attempts_on_rung
              /\ progress'[t].attempts = progress[t].attempts
              /\ ~progress'[t].resume_next
<1>1. ASSUME NEW t \in Task
      PROVE  progress'[t] = Resumed(progress[t]) /\ progress[t] \in Progress
  BY Known DEF FinishResume, RunResumed
<1>2. ASSUME NEW t \in Task
      PROVE  /\ progress'[t].in_flight = progress[t].in_flight
             /\ progress'[t].attempts_on_rung = progress[t].attempts_on_rung
             /\ progress'[t].attempts = progress[t].attempts
             /\ ~progress'[t].resume_next
  <2>1. ~progress'[t].resume_next
    BY <1>1, SessionDropped
  <2> QED
    BY <1>1, <2>1, ResumedFields
<1> QED
  BY <1>2 DEF FinishResume, RunResumed, Goto, fileVars

(* A failed settlement never gives up on a task whose chain has rungs.     *)
LEMMA LadderDecides ==
  ASSUME NEW f \in Failures, NEW reported \in BOOLEAN, cur \in Task,
         progress[cur] \in Progress, progress[cur].rung < Rungs[cur]
  PROVE  LET next == LadderDecision(cur, f, reported)
         IN /\ next \in Decision /\ next.step # "Fail"
            /\ next.step = "AskHuman" => next.kind \in {"Clarify", "Unblock"}
            /\ next.step = "Retry" =>
                 progress[cur].attempts_on_rung < AttemptsPer
            /\ next.step = "Retry" =>
                 (next.resume => progress[cur].session \/ reported)
<1> DEFINE st == [rung |-> progress[cur].rung,
                  attempts_on_rung |-> progress[cur].attempts_on_rung,
                  defers |-> progress[cur].defers,
                  resumable |-> SessionResume /\
                                (reported \/ progress[cur].session)]
           pol == [attempts_per |-> AttemptsPer, rungs |-> Rungs[cur],
                   max_defers |-> MaxDefers]
           next == LadderDecision(cur, f, reported)
<1>1. /\ st.resumable \in BOOLEAN
      /\ st.resumable => progress[cur].session \/ reported
      /\ st.attempts_on_rung = progress[cur].attempts_on_rung
      /\ pol.attempts_per = AttemptsPer /\ pol.rungs # 0
  BY ChainAssumption, InputAssumption DEF Progress
<1>2. next = NextStep(f, st, pol)
  BY DEF LadderDecision
<1>3. f.kind # "NoChain"
  BY InputAssumption
<1> HIDE DEF st, pol, next
<1>4. next \in Decision
  BY <1>1, <1>2, NextStepType
<1>5. /\ next.step # "Fail"
      /\ next.step = "AskHuman" => next.kind \in {"Clarify", "Unblock"}
      /\ next.step = "Retry" => st.attempts_on_rung < pol.attempts_per
  BY <1>1, <1>2, <1>3 DEF NextStep, AskHuman, Defer, Escalate, RetrySameRung
<1>6. next.step = "Retry" => (next.resume => st.resumable)
  BY <1>1, <1>2, <1>3 DEF NextStep, AskHuman, Defer, Escalate, RetrySameRung
<1>7. next.step = "Retry" => (next.resume => progress[cur].session \/ reported)
  BY <1>1, <1>6
<1> QED
  BY <1>1, <1>4, <1>5, <1>7 DEF next

(* attempt_finished, failed: what it leaves of the task, by the decision   *)
(* that travels with it.                                                   *)
FailedAs(next, asks, refund) ==
  /\ UNCHANGED <<halted_at, budget_stop, finished, defects>>
  /\ unrecorded' = {}
  /\ \A u \in Task \ {cur} :
       states'[u] = states[u] /\ progress'[u] = progress[u]
  /\ asks = {} => questions' = questions
  /\ asks # {} => states'[cur] = AwaitingInput(Len(questions) + 1)
  /\ ~progress'[cur].in_flight
  /\ progress'[cur].attempts = progress[cur].attempts
  /\ next.step = "Retry" =>
       /\ states'[cur] = states[cur]
       /\ progress'[cur].rung = progress[cur].rung
       /\ progress'[cur].attempts_on_rung = progress[cur].attempts_on_rung
       /\ progress'[cur].resume_next => progress'[cur].session
  /\ next.step = "Escalate" =>
       /\ asks = {} => states'[cur] = states[cur]
       /\ progress'[cur].attempts_on_rung = 0
       /\ ~progress'[cur].resume_next
  /\ next.step = "Defer" =>
       /\ states'[cur].is = "Deferred"
       /\ ~progress'[cur].resume_next
       /\ progress'[cur].attempts_on_rung =
            SaturatingPred(progress[cur].attempts_on_rung)
  /\ next.step = "AskHuman" =>
       /\ ~progress'[cur].resume_next
       /\ progress'[cur].attempts_on_rung =
            IF refund THEN SaturatingPred(progress[cur].attempts_on_rung)
                      ELSE progress[cur].attempts_on_rung

(* What a failed settlement writes to the log.                             *)
LEMMA FailureDoes ==
  ASSUME TypeInv, cur \in Task, NEW reported \in BOOLEAN, NEW cost \in Costs,
         NEW next \in Decision, next.step # "Fail",
         next.step = "Retry" =>
           (next.resume => progress[cur].session \/ reported),
         NEW asks \in SUBSET QuestionKind, NEW refund \in BOOLEAN,
         next.step = "AskHuman" => asks = {next.kind},
         next.step \in {"Retry", "Defer"} => asks = {}, NEW halts,
         AttemptFailed(cur, reported, cost, next, asks, refund, halts)
  PROVE  FailedAs(next, asks, refund)
<1>1. /\ progress[cur] \in Progress
      /\ DOMAIN states = Task /\ DOMAIN progress = Task
  BY Known
<1>2. /\ questions' = IF asks = {} THEN questions
                      ELSE Append(questions,
                                  OpenQuestion(cur, CHOOSE kind \in asks : TRUE))
      /\ states' = [states EXCEPT ![cur] =
                      CASE asks # {}           -> AwaitingInput(Len(questions) + 1)
                        [] next.step = "Defer" -> Plain("Deferred")
                        [] next.step = "Fail"  -> Plain("Failed")
                        [] OTHER               -> @]
      /\ HaltAt(cur, next.step = "Fail" /\ halts)
      /\ unrecorded' = {}
      /\ UNCHANGED <<budget_stop, finished, defects>>
  BY DEF AttemptFailed
<1>3. halted_at' = halted_at
  BY <1>2 DEF HaltAt
<1>4. /\ \A u \in Task \ {cur} : states'[u] = states[u]
      /\ asks # {} => states'[cur] = AwaitingInput(Len(questions) + 1)
      /\ asks = {} /\ next.step = "Defer" => states'[cur].is = "Deferred"
      /\ asks = {} /\ next.step \in {"Retry", "Escalate"} =>
           states'[cur] = states[cur]
  BY <1>1, <1>2 DEF Plain
<1> DEFINE parks == asks # {}
           q == SettledWith(progress[cur], reported, next, parks, refund)
<1>5. /\ progress'[cur] = q
      /\ \A u \in Task \ {cur} : progress'[u] = progress[u]
  BY <1>1 DEF AttemptFailed
<1>6. /\ parks \in BOOLEAN
      /\ next.step = "AskHuman" => parks
      /\ next.step \in {"Retry", "Defer"} => ~parks
  OBVIOUS
<1> HIDE DEF parks
<1>7. /\ ~q.in_flight /\ q.attempts = progress[cur].attempts
      /\ next.step = "Retry" =>
           /\ q.rung = progress[cur].rung
           /\ q.attempts_on_rung = progress[cur].attempts_on_rung
           /\ q.resume_next => q.session
      /\ next.step = "Escalate" => q.attempts_on_rung = 0 /\ ~q.resume_next
      /\ next.step = "Defer" =>
           /\ ~q.resume_next
           /\ q.attempts_on_rung = SaturatingPred(progress[cur].attempts_on_rung)
      /\ next.step = "AskHuman" =>
           /\ ~q.resume_next
           /\ q.attempts_on_rung =
                IF refund THEN SaturatingPred(progress[cur].attempts_on_rung)
                          ELSE progress[cur].attempts_on_rung
  BY <1>1, <1>6, SettledWithFields
<1> HIDE DEF q
<1>8. next.step = "Retry" =>
        (progress'[cur].resume_next => progress'[cur].session)
  BY <1>5, <1>7
<1> QED
  BY <1>2, <1>3, <1>4, <1>5, <1>7, <1>8 DEF FailedAs

(* A failed settlement parks the task on a question, defers it, or leaves  *)
(* it to be retried or escalated; only a retry on the same rung keeps the  *)
(* charge, and only with an attempt left.                                  *)
Stays(left, left1) ==
  /\ pc' = "tidy" /\ questions' = questions /\ states'[cur] = states[cur]
  /\ \/ /\ left1 = left /\ left < AttemptsPer
        /\ progress'[cur].rung = progress[cur].rung
        /\ progress'[cur].resume_next => progress'[cur].session
     \/ left1 = 0 /\ ~progress'[cur].resume_next

Defers(left, left1) ==
  /\ pc' = "tidy" /\ questions' = questions /\ states'[cur].is = "Deferred"
  /\ left1 = SaturatingPred(left) /\ ~progress'[cur].resume_next

Parks(left, left1) ==
  /\ pc' = "materialize" /\ Len(questions) < MaxQuestions
  /\ states'[cur] = AwaitingInput(Len(questions) + 1)
  /\ \E kind \in QuestionKind :
       /\ questions' = Append(questions, OpenQuestion(cur, kind))
       /\ kind # "Unblock" => left1 \in {0, SaturatingPred(left)}
  /\ left1 \in {0, left, SaturatingPred(left)} /\ ~progress'[cur].resume_next

(* attempt_finished with a failure, as the scheduler sees it.              *)
LEMMA FailDoes ==
  ASSUME TypeInv, cur \in Task => progress[cur].rung < Rungs[cur],
         NEW failure \in Failures, NEW reported \in BOOLEAN, NEW cost \in Costs,
         SettleFailed(failure, reported, cost)
  PROVE  /\ pc = "verify" /\ cur \in Task /\ candidate' = {}
         /\ UNCHANGED <<cur, ingesting, reply, config, payload, halted_at,
                        budget_stop, finished, defects>>
         /\ unrecorded' = {}
         /\ \A u \in Task \ {cur} :
              states'[u] = states[u] /\ progress'[u] = progress[u]
         /\ ~progress'[cur].in_flight
         /\ progress'[cur].attempts = progress[cur].attempts
         /\ LET left == progress[cur].attempts_on_rung
                left1 == progress'[cur].attempts_on_rung
            IN  Stays(left, left1) \/ Defers(left, left1) \/ Parks(left, left1)
<1> DEFINE next == LadderDecision(cur, failure, reported)
           asks == CASE next.step = "AskHuman" -> {next.kind}
                     [] next.step = "Escalate" /\ ShouldApproveSpend(cur, cost) ->
                          {"ApproveSpend"}
                     [] OTHER -> {}
           refund == next.step = "AskHuman" /\
                     (next.kind = "Clarify" \/ IsOutage(failure))
<1>1. /\ Here("verify") /\ (asks # {} => Len(questions) < MaxQuestions)
      /\ AttemptFailed(cur, reported, cost, next, asks, refund, config.halts)
      /\ pc' = IF asks # {} THEN "materialize" ELSE "tidy"
      /\ candidate' = {}
      /\ UNCHANGED <<cur, ingesting, reply, config, payload>>
  BY DEF SettleFailed, fileVars
<1>2. cur \in Task /\ progress[cur] \in Progress /\ progress[cur].rung < Rungs[cur]
  BY <1>1, NTasksAssumption, Known DEF Here, TypeInv, TypeOK, Task
<1>3. /\ next \in Decision /\ next.step # "Fail"
      /\ next.step = "AskHuman" => next.kind \in {"Clarify", "Unblock"}
      /\ next.step = "Retry" => progress[cur].attempts_on_rung < AttemptsPer
      /\ next.step = "Retry" =>
           (next.resume => progress[cur].session \/ reported)
  BY <1>2, LadderDecides
<1> HIDE DEF next
<1>4. /\ asks \in SUBSET QuestionKind /\ refund \in BOOLEAN
      /\ next.step = "AskHuman" =>
           /\ asks = {next.kind} /\ next.kind \in QuestionKind
           /\ next.kind # "Unblock" => refund
      /\ next.step \in {"Retry", "Defer"} => asks = {}
      /\ next.step = "Escalate" => asks \in {{}, {"ApproveSpend"}}
  BY <1>3 DEF QuestionKind
<1> HIDE DEF asks, refund
<1>5. FailedAs(next, asks, refund)
  BY <1>1, <1>2, <1>3, <1>4, FailureDoes
<1>6. questions' = IF asks = {} THEN questions
                   ELSE Append(questions,
                               OpenQuestion(cur, CHOOSE kind \in asks : TRUE))
  BY <1>1 DEF AttemptFailed
<1> DEFINE left == progress[cur].attempts_on_rung
           left1 == progress'[cur].attempts_on_rung
<1>7. ASSUME next.step = "Retry" PROVE Stays(left, left1)
  BY <1>1, <1>3, <1>4, <1>5, <1>7 DEF FailedAs, Stays
<1>8. ASSUME next.step = "Escalate", asks = {} PROVE Stays(left, left1)
  BY <1>1, <1>5, <1>8 DEF FailedAs, Stays
<1>9. ASSUME next.step = "Defer" PROVE Defers(left, left1)
  BY <1>1, <1>4, <1>5, <1>9 DEF FailedAs, Defers
<1>10. ASSUME NEW kind \in QuestionKind, asks = {kind},
              kind # "Unblock" => left1 \in {0, SaturatingPred(left)},
              left1 \in {0, left, SaturatingPred(left)},
              ~progress'[cur].resume_next
       PROVE  Parks(left, left1)
  <2>1. (CHOOSE k \in asks : TRUE) = kind
    BY <1>10
  <2>2. questions' = Append(questions, OpenQuestion(cur, kind))
    BY <1>6, <1>10, <2>1
  <2> QED
    BY <1>1, <1>5, <1>10, <2>2 DEF FailedAs, Parks
<1>11. ASSUME next.step = "Escalate", asks = {"ApproveSpend"}
       PROVE  Parks(left, left1)
  <2>1. "ApproveSpend" \in QuestionKind
    BY DEF QuestionKind
  <2>2. left1 = 0 /\ ~progress'[cur].resume_next
    BY <1>5, <1>11 DEF FailedAs
  <2> QED
    BY <1>10, <1>11, <2>1, <2>2
<1>12. ASSUME next.step = "AskHuman" PROVE Parks(left, left1)
  <2>1. next.kind # "Unblock" => left1 = SaturatingPred(left)
    BY <1>4, <1>5, <1>12 DEF FailedAs
  <2>2. left1 \in {left, SaturatingPred(left)} /\ ~progress'[cur].resume_next
    BY <1>5, <1>12 DEF FailedAs
  <2> HIDE DEF left, left1
  <2> QED
    BY <1>4, <1>10, <1>12, <2>1, <2>2
<1> QED
  <2>1. Stays(left, left1) \/ Defers(left, left1) \/ Parks(left, left1)
    BY <1>3, <1>4, <1>7, <1>8, <1>9, <1>11, <1>12 DEF Decision
  <2> QED
    BY <1>1, <1>2, <1>5, <2>1 DEF Here, FailedAs

(* The rest of the events.                                                 *)
LEMMA DefectDoes ==
  ASSUME TypeInv, RecordDefect
  PROVE  /\ pc = "defect" /\ ingesting \in Questions
         /\ pc' = IF Declined(ingesting) THEN "decline" ELSE "rewrite"
         /\ defects' = defects \union {ingesting} /\ unrecorded' = {}
         /\ UNCHANGED <<cur, candidate, ingesting, reply, config, payload, states,
                        progress, questions, halted_at, budget_stop, finished>>
  BY DEF RecordDefect, DesignDefect, Goto, Declined, TypeInv, fileVars

(* The task of a declined question that waits for it is failed.            *)
Settles(q, halts) ==
  LET t == questions[q].task
  IN  /\ Waiting(q) /\ t \in Task /\ states'[t].is = "Failed"
      /\ \A u \in Task \ {t} : states'[u] = states[u]
      /\ halted_at' = IF halts /\ halted_at = 0 THEN t ELSE halted_at
      /\ unrecorded' = {}

(* The failure of a task whose question was declined.                      *)
LEMMA DeclineDoes ==
  ASSUME TypeInv, FailDeclined
  PROVE  /\ pc = "decline" /\ pc' = "rewrite" /\ ingesting \in Questions
         /\ UNCHANGED <<cur, candidate, ingesting, reply, config, payload,
                        progress, questions, budget_stop, finished, defects>>
         /\ \/ Settles(ingesting, config.halts)
            \/ /\ ~Waiting(ingesting)
               /\ UNCHANGED <<states, halted_at, unrecorded>>
<1> DEFINE t == questions[ingesting].task
<1>1. /\ pc = "decline" /\ pc' = "rewrite" /\ ingesting \in Questions
      /\ UNCHANGED <<cur, candidate, ingesting, reply, config, payload>>
      /\ IF Waiting(ingesting) THEN TaskFailed(t, config.halts)
                               ELSE UNCHANGED logVars
  BY DEF FailDeclined, Goto, Waiting, TypeInv, fileVars
<1>2. t \in Task
  BY <1>1, Known
<1>3. CASE Waiting(ingesting)
  BY <1>1, <1>2, <1>3, TaskFailedDoes DEF Settles
<1>4. CASE ~Waiting(ingesting)
  BY <1>1, <1>4 DEF logVars
<1> QED
  BY <1>3, <1>4

(* The wait for deferred work.                                             *)
LEMMA WaitDoes ==
  ASSUME WaitForPool
  PROVE  /\ pc = "drain" /\ ~Stopped /\ unrecorded' = {} /\ WakeDeferred
         /\ UNCHANGED <<pc, cur, candidate, ingesting, reply, config, payload,
                        progress, questions, halted_at, budget_stop, finished,
                        defects>>
  BY DEF WaitForPool, NothingToSweep, DeferredWork, DeferWaitElapsed, procVars,
     fileVars

(* run_finished.                                                           *)
LEMMA FinishDoes ==
  ASSUME Finish
  PROVE  /\ pc = "drain" /\ pc' = "down" /\ finished' = RunOutcome
         /\ Ready = {} /\ ~DeferredWork /\ reply' = {}
         /\ unrecorded' = {}
         /\ UNCHANGED <<config, payload, states, progress, questions, halted_at,
                        budget_stop, defects>>
  BY DEF Finish, HardBlock, NothingToSweep, RunFinished, ForgetProcess, fileVars

(* The task whose chain has no rung left.                                  *)
LEMMA NoRungDoes ==
  ASSUME TypeInv, NoRung
  PROVE  /\ pc = "step" /\ pc' = "drain" /\ cur \in Task
         /\ states'[cur].is = "Failed"
         /\ \A u \in Task \ {cur} : states'[u] = states[u]
         /\ halted_at' = IF config.halts /\ halted_at = 0 THEN cur ELSE halted_at
         /\ unrecorded' = {}
         /\ UNCHANGED <<reply, config, payload, progress, questions, budget_stop,
                        finished, defects>>
<1>1. cur \in Task
  BY NTasksAssumption DEF NoRung, Here, TypeInv, TypeOK, Task
<1> QED
  BY <1>1, TaskFailedDoes DEF NoRung, Here, BackToDrain, fileVars

(* budget_exceeded.                                                        *)
LEMMA BudgetDoes ==
  ASSUME TypeInv, StopAtBudget
  PROVE  /\ pc = "step" /\ pc' = "drain" /\ cur \in Task
         /\ budget_stop' = TRUE /\ unrecorded' = {}
         /\ UNCHANGED <<reply, config, payload, states, progress, questions,
                        halted_at, finished, defects>>
  BY NTasksAssumption DEF StopAtBudget, Here, BudgetExceeded, BackToDrain,
     fileVars, TypeInv, TypeOK, Task

(* task_committed at the end of an attempt.                                *)
LEMMA RecordDoes ==
  ASSUME TypeInv, RecordCommit
  PROVE  /\ pc = "record" /\ pc' = "drain" /\ cur \in Task
         /\ states'[cur].is = "Done"
         /\ \A u \in Task \ {cur} : states'[u] = states[u]
         /\ unrecorded' = {}
         /\ UNCHANGED <<reply, config, payload, progress, questions, halted_at,
                        budget_stop, finished, defects>>
<1>1. cur \in Task
  BY NTasksAssumption DEF RecordCommit, Here, TypeInv, TypeOK, Task
<1> QED
  BY <1>1, TaskCommittedDoes DEF RecordCommit, Here, BackToDrain, fileVars

(* task_committed for the commit a resume found.                           *)
LEMMA AdoptDoes ==
  ASSUME TypeInv, Ends, Adopt
  PROVE  /\ pc = "adopt" /\ pc' = "repair" /\ unrecorded' = {}
         /\ UNCHANGED <<reply, config, payload, progress, questions, halted_at,
                        budget_stop, finished, defects>>
         /\ \E c \in unrecorded :
              /\ states'[c.id[1]].is = "Done"
              /\ \A u \in Task \ {c.id[1]} : states'[u] = states[u]
<1> DEFINE c == TheUnrecorded
<1>1. c \in unrecorded
  BY DEF Adopt, TypeInv, TheUnrecorded
<1>2. /\ pc = "adopt" /\ pc' = "repair" /\ TaskCommitted(c.id[1], c)
      /\ UNCHANGED <<reply, config, payload>>
  BY DEF Adopt, Goto, fileVars
<1> HIDE DEF c
<1>3. c.id[1] \in Task
  BY <1>1 DEF Ends
<1> QED
  BY <1>1, <1>2, <1>3, TaskCommittedDoes

(* The repair of a missing design_defect.                                  *)
LEMMA RefileDoes ==
  ASSUME TypeInv, RepairDefect
  PROVE  /\ pc = "repair" /\ pc' = "repair" /\ unrecorded' = {}
         /\ defects \subseteq defects'
         /\ UNCHANGED <<reply, config, payload, states, progress, questions,
                        halted_at, budget_stop, finished>>
  BY DEF RepairDefect, DesignDefect, procVars, fileVars

(* The repair of an unfinished decline.                                    *)
LEMMA SettleDoes ==
  ASSUME TypeInv, RepairDecline
  PROVE  /\ pc = "repair" /\ pc' = "repair"
         /\ UNCHANGED <<reply, config, payload, progress, questions, budget_stop,
                        finished, defects>>
         /\ \E q \in Questions : Declined(q) /\ Settles(q, questions[q].halts)
<1> DEFINE q == Lowest(UnsettledDeclines)
<1>1. q \in UnsettledDeclines
  <2>1. UnsettledDeclines \in SUBSET Nat /\ UnsettledDeclines # {}
    BY Known DEF RepairDecline, UnsettledDeclines
  <2> QED
    BY <2>1, LowestIn
<1>2. /\ pc = "repair" /\ pc' = "repair"
      /\ TaskFailed(questions[q].task, questions[q].halts)
      /\ UNCHANGED <<reply, config, payload>>
  BY DEF RepairDecline, procVars, fileVars
<1> HIDE DEF q
<1>3. q \in Questions /\ Declined(q) /\ Waiting(q) /\ questions[q].task \in Task
  BY <1>1, Known DEF UnsettledDeclines, Declined, Waiting
<1> QED
  BY <1>2, <1>3, TaskFailedDoes DEF Settles

-----------------------------------------------------------------------------
(* Every step keeps the invariant, group by group.                         *)

(* A task that is not Pending is not being stepped.                        *)
LEMMA EndsKept ==
  ASSUME SchedInv, TypeInv', [Next]_vars
  PROVE  Ends'
<1> USE DEF Quiet, DrainStates, Holding, Judging, Away, ResumeStates
<1>1. TypeInv /\ Ends /\ Asked
  BY DEF SchedInv
<1>2. CASE Silent
  <2>1. Rests \/ Dies \/ Rewrites \/ Recovers \/ Refiles => Ends'
    BY <1>1 DEF Ends, Rests, Dies, Rewrites, Recovers, Refiles, SameLog
  <2>2. Picks => Ends'
    BY <1>1 DEF Ends, Picks, SameLog, Ready
  <2>3. ASSUME Captures PROVE Ends'
    <3>1. PICK c : candidate' = {c} /\ c.id = AttemptId(cur)
      BY <2>3 DEF Captures
    <3>2. c.id[1] = cur
      BY <3>1 DEF AttemptId
    <3> QED
      BY <1>1, <2>3, <3>1, <3>2 DEF Ends, Captures, SameLog
  <2>4. Proceeds => Ends'
    BY <1>1 DEF Ends, Proceeds, SameLog
  <2>5. Materializes \/ Tidies => Ends'
    BY <1>1 DEF Ends, Materializes, Tidies, SameLog
  <2> QED
    BY <1>2, <2>1, <2>2, <2>3, <2>4, <2>5 DEF Silent
<1>3. ASSUME NEW q \in Questions, NEW answer \in {"Answered", "Declined"},
             Ingests(q, answer)
      PROVE  Ends'
  <2>1. Waiting(q)
    BY <1>1, <1>3 DEF Asked, Ingests
  <2> QED
    BY <1>1, <1>3, <2>1, IngestDoes DEF Ends, Ingests
<1>4. RecordDefect => Ends'
  BY <1>1, DefectDoes DEF Ends
<1>5. FailDeclined => Ends'
  BY <1>1, DeclineDoes DEF Ends, Settles
<1>6. WaitForPool => Ends'
  BY <1>1, WaitDoes DEF Ends
<1>7. Finish => Ends'
  BY <1>1, FinishDoes DEF Ends
<1>8. NoRung => Ends'
  BY <1>1, NoRungDoes DEF Ends
<1>9. StopAtBudget => Ends'
  BY <1>1, BudgetDoes DEF Ends
<1>10. StartAttempt => Ends'
  BY <1>1, StartDoes DEF Ends
<1>11. ASSUME NEW reported \in BOOLEAN, NEW cost \in Costs,
              SettlePassed(reported, cost)
       PROVE  Ends'
  <2>1. /\ pc = "settle" /\ pc' = "advance" /\ cur \in Task
        /\ UNCHANGED <<cur, candidate, states, finished>>
        /\ unrecorded' = {TheCandidate}
    BY <1>1, <1>11, PassDoes
  <2>2. PICK c \in candidate : /\ candidate = {c} /\ c.id[1] = cur
                               /\ states[cur].is = "Pending"
    BY <1>1, <2>1 DEF Ends
  <2>3. TheCandidate = c
    BY <2>2 DEF TheCandidate
  <2> QED
    BY <1>1, <2>1, <2>2, <2>3 DEF Ends
<1>12. ASSUME NEW failure \in Failures, NEW reported \in BOOLEAN,
              NEW cost \in Costs, SettleFailed(failure, reported, cost)
       PROVE  Ends'
  <2>1. /\ pc = "verify" /\ pc' \in {"materialize", "tidy"} /\ unrecorded' = {}
        /\ finished' = finished
    BY <1>12 DEF SettleFailed, AttemptFailed, Here
  <2> QED
    BY <1>1, <2>1 DEF Ends
<1>13. RecordCommit => Ends'
  BY <1>1, RecordDoes DEF Ends
<1>14. Adopt => Ends'
  BY <1>1, AdoptDoes DEF Ends
<1>15. RepairDefect => Ends'
  BY <1>1, RefileDoes DEF Ends
<1>16. RepairDecline => Ends'
  BY <1>1, SettleDoes DEF Ends, Settles
<1>17. SettleInterrupted => Ends'
  BY <1>1, InterruptDoes DEF Ends
<1>18. FinishResume => Ends'
  BY <1>1, ResumeDoes DEF Ends
<1> QED
  BY <1>1, <1>2, <1>3, <1>4, <1>5, <1>6, <1>7, <1>8, <1>9, <1>10, <1>11, <1>12,
     <1>13, <1>14, <1>15, <1>16, <1>17, <1>18, Steps

(* A task that waits for a question, read off its state.                   *)
LEMMA AwaitingFields ==
  ASSUME NEW q
  PROVE  AwaitingInput(q).is = "AwaitingInput" /\ AwaitingInput(q).question = q
  BY DEF AwaitingInput

(* A parked task is parked on the question its state names.                *)
LEMMA AwaitingOnly ==
  ASSUME TypeInv, NEW t \in Task, states[t].is = "AwaitingInput"
  PROVE  states[t] = AwaitingInput(states[t].question)
  BY Known DEF TaskState, AwaitingInput

(* What a step can do to questions and to the tasks that wait for them:    *)
(* nothing, or record an answer, or fail the task of a declined question,  *)
(* or park a task.                                                         *)
Spares ==
  /\ questions' = questions
  /\ \A t \in Task :
       \/ states'[t] = states[t]
       \/ /\ states[t].is \notin {"AwaitingInput", "Failed"}
          /\ states'[t].is # "AwaitingInput"

Declines ==
  /\ questions' = questions
  /\ \E q \in Questions : Declined(q) /\ Settles(q, questions[q].halts)

ParksOne ==
  /\ unrecorded' = {} /\ cur \in Task /\ states[cur].is = "Pending"
  /\ states'[cur] = AwaitingInput(Len(questions) + 1)
  /\ \A u \in Task \ {cur} : states'[u] = states[u]
  /\ \E kind \in QuestionKind :
       questions' = Append(questions, OpenQuestion(cur, kind))

(* What a step can do to the questions of the log.                         *)
LEMMA QuestionSteps ==
  ASSUME SchedInv, [Next]_vars
  PROVE  \/ Spares \/ Declines \/ ParksOne
         \/ \E q \in Questions, answer \in {"Answered", "Declined"} :
              Waiting(q) /\ Ingests(q, answer)
<1>1. TypeInv /\ Ends /\ Asked /\ Ingested /\ Flight
  BY DEF SchedInv
<1>2. Silent => Spares
  BY DEF Silent, Rests, Dies, Rewrites, Picks, Captures, Proceeds, Materializes,
     Tidies, Recovers, Refiles, SameLog, Spares
<1>3. ASSUME NEW q \in Questions, NEW answer \in {"Answered", "Declined"},
             Ingests(q, answer)
      PROVE  Waiting(q)
  BY <1>1, <1>3 DEF Asked, Ingests
<1>4. RecordDefect => Spares
  BY <1>1, DefectDoes DEF Spares
<1>5. FailDeclined => Spares \/ Declines
  <2> SUFFICES ASSUME FailDeclined PROVE Spares \/ Declines
    OBVIOUS
  <2>1. /\ pc = "decline" /\ ingesting \in Questions /\ questions' = questions
        /\ \/ Settles(ingesting, config.halts)
           \/ states' = states
    BY <1>1, DeclineDoes
  <2>2. Declined(ingesting) /\ (questions[ingesting].halts <=> config.halts)
    BY <1>1, <2>1 DEF Ingested
  <2>3. Settles(ingesting, config.halts) =>
          Settles(ingesting, questions[ingesting].halts)
    BY <2>2 DEF Settles
  <2> QED
    BY <2>1, <2>2, <2>3 DEF Spares, Declines
<1>6. WaitForPool => Spares
  BY <1>1, WaitDoes, WakeDoes DEF Spares, WakeDeferred, Plain
<1>7. Finish => Spares
  BY <1>1, FinishDoes DEF Spares
<1>8. NoRung => Spares
  BY <1>1, NoRungDoes DEF Ends, Judging, Spares
<1>9. StopAtBudget => Spares
  BY <1>1, BudgetDoes DEF Spares
<1>10. StartAttempt => Spares
  BY <1>1, StartDoes DEF Spares
<1>11. ASSUME NEW reported \in BOOLEAN, NEW cost \in Costs,
              SettlePassed(reported, cost)
       PROVE  Spares
  BY <1>1, <1>11, PassDoes DEF Spares
<1>12. ASSUME NEW failure \in Failures, NEW reported \in BOOLEAN,
              NEW cost \in Costs, SettleFailed(failure, reported, cost)
       PROVE  Spares \/ ParksOne
  <2>1. /\ pc = "verify" /\ cur \in Task /\ unrecorded' = {}
        /\ \A u \in Task \ {cur} : states'[u] = states[u]
        /\ LET left == progress[cur].attempts_on_rung
               left1 == progress'[cur].attempts_on_rung
           IN  Stays(left, left1) \/ Defers(left, left1) \/ Parks(left, left1)
    <3>1. cur \in Task => progress[cur].rung < Rungs[cur]
      BY <1>1, <1>12 DEF Flight, Judging, SettleFailed, Here
    <3> QED
      BY <1>1, <1>12, <3>1, FailDoes
  <2>2. states[cur].is = "Pending"
    BY <1>1, <2>1 DEF Ends, Judging
  <2> QED
    BY <2>1, <2>2 DEF Stays, Defers, Parks, Spares, ParksOne
<1>13. RecordCommit => Spares
  BY <1>1, RecordDoes DEF Ends, Holding, Spares
<1>14. Adopt => Spares
  <2> SUFFICES ASSUME Adopt PROVE Spares
    OBVIOUS
  <2>1. PICK c \in unrecorded : /\ states'[c.id[1]].is = "Done"
                                /\ \A u \in Task \ {c.id[1]} : states'[u] = states[u]
    BY <1>1, AdoptDoes
  <2>2. c.id[1] \in Task /\ states[c.id[1]].is = "Pending"
    BY <1>1, <2>1 DEF Ends
  <2> QED
    BY <1>1, <2>1, <2>2, AdoptDoes DEF Spares
<1>15. RepairDefect => Spares
  BY <1>1, RefileDoes DEF Spares
<1>16. RepairDecline => Declines
  BY <1>1, SettleDoes DEF Declines
<1>17. SettleInterrupted => Spares
  BY <1>1, InterruptDoes DEF Spares
<1>18. FinishResume => Spares
  BY <1>1, ResumeDoes, WakeDoes DEF Spares, WakeDeferred, Plain
<1> QED
  BY <1>1, <1>2, <1>3, <1>4, <1>5, <1>6, <1>7, <1>8, <1>9, <1>10, <1>11, <1>12,
     <1>13, <1>14, <1>15, <1>16, <1>17, <1>18, Steps

(* A question that is asked comes last and is open.                        *)
LEMMA AskDoes ==
  ASSUME TypeInv, cur \in Task, NEW kind \in QuestionKind,
         questions' = Append(questions, OpenQuestion(cur, kind))
  PROVE  LET n == Len(questions) + 1
         IN  /\ Questions' = Questions \union {n} /\ n \notin Questions
             /\ Len(questions') = n
             /\ \A q \in Questions : questions'[q] = questions[q]
             /\ questions'[n].task = cur /\ questions'[n].kind = kind
             /\ questions'[n].answer = "open"
<1> DEFINE one == OpenQuestion(cur, kind)
           n == Len(questions) + 1
<1>1. /\ one \in Question /\ one.task = cur /\ one.kind = kind
      /\ one.answer = "open"
  BY DEF OpenQuestion, Question
<1> HIDE DEF one
<1>2. questions \in Seq(Question) /\ Len(questions) \in Nat
  BY Known DEF RunStateTypeOK
<1>3. /\ Len(questions') = n
      /\ \A q \in 1..Len(questions) : questions'[q] = questions[q]
      /\ questions'[n] = one
  BY <1>1, <1>2, AppendProperties DEF one
<1>4. Questions' = Questions \union {n} /\ n \notin Questions
  BY <1>2, <1>3 DEF Questions
<1> QED
  BY <1>1, <1>2, <1>3, <1>4 DEF Questions

(* No question is asked of a task that does not wait for it, and no task   *)
(* waits for one that is not its own.                                      *)
LEMMA AskedKept ==
  ASSUME SchedInv, [Next]_vars
  PROVE  Asked'
<1>1. TypeInv /\ Asked
  BY DEF SchedInv
<1>2. \A q \in Questions : questions[q].task \in Task
  BY <1>1, Known
<1>3. CASE Spares
  <2>1. Questions' = Questions /\ questions' = questions
    BY <1>3 DEF Spares, Questions
  <2>2. ASSUME NEW q \in Questions
        PROVE  Waiting(q) => Waiting(q)'
    BY <1>2, <1>3, <2>1, <2>2, AwaitingFields DEF Spares, Waiting
  <2>3. ASSUME NEW t \in Task, states'[t].is = "AwaitingInput"
        PROVE  states'[t] = states[t]
    BY <1>3, <2>3 DEF Spares
  <2>4. ASSUME NEW t \in Task, states[t].is = "Failed"
        PROVE  states'[t] = states[t]
    BY <1>3, <2>4 DEF Spares
  <2> QED
    BY <1>1, <1>2, <2>1, <2>2, <2>3, <2>4 DEF Asked, IsOpen, Declined
<1>4. CASE Declines
  <2>1. PICK q \in Questions : Declined(q) /\ Settles(q, questions[q].halts)
    BY <1>4 DEF Declines
  <2>2. Questions' = Questions /\ questions' = questions
    BY <1>4 DEF Declines, Questions
  <2>3. ASSUME NEW r \in Questions, Waiting(r)
        PROVE  Waiting(r)' \/ r = q
    BY <1>2, <2>1, <2>2, <2>3, AwaitingFields DEF Settles, Waiting
  <2> QED
    BY <1>1, <1>2, <2>1, <2>2, <2>3 DEF Asked, IsOpen, Declined, Settles
<1>5. ASSUME NEW q \in Questions, NEW answer \in {"Answered", "Declined"},
             Waiting(q), Ingests(q, answer)
      PROVE  Asked'
  <2> DEFINE t == questions[q].task
  <2>1. /\ Questions' = Questions /\ t \in Task /\ IsOpen(q)
        /\ \A r \in Questions : /\ questions'[r].task = questions[r].task
                                /\ r # q => questions'[r] = questions[r]
        /\ questions'[q].answer = answer
        /\ answer = "Declined" => states' = states
        /\ answer = "Answered" =>
             /\ states'[t].is = "Pending"
             /\ \A u \in Task \ {t} : states'[u] = states[u]
    BY <1>1, <1>2, <1>5, IngestDoes DEF Questions, Ingests
  <2>2. ASSUME NEW r \in Questions, Waiting(r)
        PROVE  Waiting(r)' \/ (r = q /\ answer = "Answered")
    BY <1>2, <1>5, <2>1, <2>2, AwaitingFields DEF Waiting
  <2>3. ASSUME NEW u \in Task, states'[u].is = "AwaitingInput"
        PROVE  /\ states'[u] = states[u]
               /\ answer = "Answered" => states[u].question # q
    BY <1>1, <1>5, <2>1, <2>3, AwaitingFields DEF Waiting, Asked
  <2>4. ASSUME NEW r \in Questions, Declined(r)'
        PROVE  \/ Waiting(r)'
               \/ states'[questions'[r].task].is = "Failed"
    <3>1. CASE r = q
      BY <1>5, <2>1, <2>2, <2>4, <3>1 DEF Declined
    <3>2. CASE r # q
      <4>1. Declined(r) /\ questions[r].task \in Task
        BY <1>2, <2>1, <2>4, <3>2 DEF Declined
      <4>2. CASE Waiting(r)
        BY <2>2, <3>2, <4>2
      <4>3. CASE states[questions[r].task].is = "Failed"
        BY <1>5, <2>1, <4>1, <4>3, AwaitingFields DEF Waiting
      <4> QED
        BY <1>1, <4>1, <4>2, <4>3 DEF Asked
    <3> QED
      BY <3>1, <3>2
  <2>5. ASSUME NEW r \in Questions, IsOpen(r)'
        PROVE  Waiting(r)'
    BY <1>1, <1>5, <2>1, <2>2, <2>5 DEF Asked, IsOpen
  <2>6. ASSUME NEW u \in Task, states'[u].is = "AwaitingInput"
        PROVE  /\ states'[u].question \in Questions
               /\ questions'[states'[u].question].task = u
               /\ IsOpen(states[u].question)' \/ Declined(states[u].question)'
    BY <1>1, <1>5, <2>1, <2>3, <2>6 DEF Asked, IsOpen, Declined
  <2> QED
    BY <2>1, <2>4, <2>5, <2>6 DEF Asked
<1>6. CASE ParksOne
  <2>0. PICK n : n = Len(questions) + 1
    OBVIOUS
  <2>1. PICK kind \in QuestionKind :
          questions' = Append(questions, OpenQuestion(cur, kind))
    BY <1>6 DEF ParksOne
  <2>2. /\ Questions' = Questions \union {n} /\ n \notin Questions
        /\ \A q \in Questions : questions'[q] = questions[q]
        /\ questions'[n].task = cur /\ questions'[n].answer = "open"
    BY <1>1, <1>6, <2>0, <2>1, AskDoes DEF ParksOne
  <2>3. /\ cur \in Task /\ states[cur].is = "Pending"
        /\ states'[cur] = AwaitingInput(n)
        /\ \A u \in Task \ {cur} : states'[u] = states[u]
    BY <1>6, <2>0 DEF ParksOne
  <2>4. Waiting(n)'
    BY <2>2, <2>3 DEF Waiting
  <2>5. ASSUME NEW q \in Questions
        PROVE  Waiting(q) => Waiting(q)'
    BY <1>2, <2>2, <2>3, AwaitingFields DEF Waiting
  <2> QED
    BY <1>1, <1>2, <2>2, <2>3, <2>4, <2>5, AwaitingFields
       DEF Asked, IsOpen, Declined
<1> QED
  BY <1>3, <1>4, <1>5, <1>6, QuestionSteps

(* The question being ingested stays the one that was answered.            *)
LEMMA IngestedKept ==
  ASSUME SchedInv, TypeInv', [Next]_vars
  PROVE  Ingested'
<1>1. TypeInv /\ TypeInv' /\ Asked /\ Ingested
  BY DEF SchedInv
<1>2. CASE Silent
  BY <1>1, <1>2 DEF Silent, Rests, Dies, Rewrites, Picks, Captures, Proceeds,
     Materializes, Tidies, Recovers, Refiles, SameLog, Ingested, IsOpen,
     Declined
<1>3. ASSUME NEW q \in Questions, NEW answer \in {"Answered", "Declined"},
             Ingests(q, answer)
      PROVE  Ingested'
  <2>1. Waiting(q)
    BY <1>1, <1>3 DEF Asked, Ingests
  <2> QED
    BY <1>1, <1>3, <2>1, IngestDoes DEF Ingested, IsOpen, Declined
<1>4. RecordDefect => Ingested'
  BY <1>1, DefectDoes DEF Ingested, IsOpen, Declined
<1>5. FailDeclined => Ingested'
  BY <1>1, DeclineDoes DEF Ingested, IsOpen, Declined
<1>6. WaitForPool => Ingested'
  BY <1>1, WaitDoes DEF Ingested
<1>7. Finish => Ingested'
  BY <1>1, FinishDoes DEF Ingested
<1>8. NoRung => Ingested'
  BY <1>1, NoRungDoes DEF Ingested
<1>9. StopAtBudget => Ingested'
  BY <1>1, BudgetDoes DEF Ingested
<1>10. StartAttempt => Ingested'
  BY <1>1, StartDoes DEF Ingested
<1>11. ASSUME NEW reported \in BOOLEAN, NEW cost \in Costs,
              SettlePassed(reported, cost)
       PROVE  Ingested'
  BY <1>1, <1>11, PassDoes DEF Ingested
<1>12. ASSUME NEW failure \in Failures, NEW reported \in BOOLEAN,
              NEW cost \in Costs, SettleFailed(failure, reported, cost)
       PROVE  Ingested'
  <2>1. pc' \in {"materialize", "tidy"}
    BY <1>12 DEF SettleFailed
  <2> QED
    BY <2>1 DEF Ingested
<1>13. RecordCommit => Ingested'
  BY <1>1, RecordDoes DEF Ingested
<1>14. Adopt => Ingested'
  BY DEF Adopt, Goto, Ingested
<1>15. RepairDefect => Ingested'
  BY <1>1, RefileDoes DEF Ingested
<1>16. RepairDecline => Ingested'
  BY <1>1, SettleDoes DEF Ingested
<1>17. SettleInterrupted => Ingested'
  BY <1>1, InterruptDoes DEF Ingested
<1>18. FinishResume => Ingested'
  BY <1>1, ResumeDoes DEF Ingested
<1> QED
  BY <1>1, <1>2, <1>3, <1>4, <1>5, <1>6, <1>7, <1>8, <1>9, <1>10, <1>11, <1>12,
     <1>13, <1>14, <1>15, <1>16, <1>17, <1>18, Steps

(* A task whose question was declined and that still waits: it was so      *)
(* before the step, or the step is the decline.                            *)
LEMMA StillWaiting ==
  ASSUME SchedInv, [Next]_vars, NEW q \in Questions', Declined(q)', Waiting(q)'
  PROVE  \/ q \in Questions /\ Declined(q) /\ Waiting(q)
         \/ q \in Questions /\ Ingests(q, "Declined") /\ Waiting(q)
<1>1. TypeInv /\ Asked
  BY DEF SchedInv
<1>2. \A r \in Questions : questions[r].task \in Task
  BY <1>1, Known
<1>3. CASE Spares
  BY <1>2, <1>3, AwaitingFields DEF Spares, Questions, Declined, Waiting
<1>4. CASE Declines
  BY <1>2, <1>4, AwaitingFields
     DEF Declines, Settles, Questions, Declined, Waiting
<1>5. ASSUME NEW r \in Questions, NEW answer \in {"Answered", "Declined"},
             Waiting(r), Ingests(r, answer)
      PROVE  \/ q \in Questions /\ Declined(q) /\ Waiting(q)
             \/ q \in Questions /\ Ingests(q, "Declined") /\ Waiting(q)
  <2>1. /\ Questions' = Questions
        /\ \A u \in Questions : /\ questions'[u].task = questions[u].task
                                /\ u # r => questions'[u] = questions[u]
        /\ questions'[r].answer = answer
        /\ answer = "Declined" => states' = states
        /\ answer = "Answered" =>
             /\ states'[questions[r].task].is = "Pending"
             /\ \A u \in Task \ {questions[r].task} : states'[u] = states[u]
    BY <1>1, <1>5, IngestDoes DEF Questions
  <2>2. CASE q = r
    BY <1>5, <2>1, <2>2 DEF Declined
  <2>3. CASE q # r
    <3>1. Declined(q) /\ questions[q].task \in Task /\ q \in Questions
      BY <1>2, <2>1, <2>3 DEF Declined
    <3>2. states[questions[q].task] = states'[questions[q].task]
      BY <2>1, <3>1, AwaitingFields DEF Waiting
    <3> QED
      BY <2>1, <3>1, <3>2 DEF Waiting
  <2> QED
    BY <2>2, <2>3
<1>6. CASE ParksOne
  <2>0. PICK n : n = Len(questions) + 1
    OBVIOUS
  <2>1. PICK kind \in QuestionKind :
          questions' = Append(questions, OpenQuestion(cur, kind))
    BY <1>6 DEF ParksOne
  <2>2. /\ Questions' = Questions \union {n} /\ n \notin Questions
        /\ \A r \in Questions : questions'[r] = questions[r]
        /\ questions'[n].answer = "open"
    BY <1>1, <1>6, <2>0, <2>1, AskDoes DEF ParksOne
  <2>3. /\ cur \in Task /\ states'[cur] = AwaitingInput(n)
        /\ \A u \in Task \ {cur} : states'[u] = states[u]
    BY <1>6, <2>0 DEF ParksOne
  <2>4. q \in Questions /\ Declined(q) /\ questions'[q] = questions[q]
    BY <2>2 DEF Declined
  <2>5. questions[q].task # cur
    BY <2>2, <2>3, <2>4, AwaitingFields DEF Waiting
  <2> QED
    BY <1>2, <2>3, <2>4, <2>5 DEF Waiting
<1> QED
  BY <1>3, <1>4, <1>5, <1>6, QuestionSteps

(* Nothing else happens to the log before such a task is failed.           *)
LEMMA UnsettledKept ==
  ASSUME SchedInv, TypeInv', [Next]_vars
  PROVE  Unsettled'
<1> DEFINE Rest == /\ ~budget_stop /\ unrecorded = {} /\ InFlight = {}
                   /\ finished = "none"
           At(q) == \/ pc \in {"defect", "decline"} /\ q = ingesting
                    \/ pc \in Away \ {"interrupted"}
<1> USE DEF DrainStates, Judging, Away, ResumeStates
<1>1. TypeInv /\ Ends /\ Unsettled /\ Halted /\ Flight
  BY DEF SchedInv
<1>2. SUFFICES ASSUME NEW q \in Questions', Declined(q)', Waiting(q)'
               PROVE  Rest' /\ At(q)'
  BY DEF Unsettled
<1>3. CASE q \in Questions /\ Ingests(q, "Declined") /\ Waiting(q)
  <2>1. /\ pc = "drain" /\ pc' = "defect" /\ ingesting' = q /\ unrecorded' = {}
        /\ UNCHANGED <<budget_stop, finished, progress>>
        /\ ~budget_stop \/ reply # {}
    BY <1>1, <1>3, IngestDoes DEF Ingests
  <2>2. ~budget_stop /\ finished = "none"
    BY <1>1, <2>1 DEF Halted, Ends
  <2>3. InFlight = {} /\ InFlight' = InFlight
    BY <1>1, <2>1 DEF Flight, InFlight
  <2> QED
    BY <2>1, <2>2, <2>3
<1>4. CASE q \in Questions /\ Declined(q) /\ Waiting(q)
  <2> HIDE DEF Rest, At
  <2>1. Rest /\ At(q)
    BY <1>1, <1>4 DEF Unsettled, Rest, At
  <2>2. pc \in {"defect", "decline"} \union (Away \ {"interrupted"})
    BY <2>1 DEF At
  <2>3. /\ ~RecordCommit /\ ~NoRung /\ ~StopAtBudget /\ ~StartAttempt
        /\ ~WaitForPool /\ ~Finish /\ ~SettleInterrupted /\ ~FinishResume
        /\ \A reported, cost : ~SettlePassed(reported, cost)
        /\ \A f, reported, cost : ~SettleFailed(f, reported, cost)
        /\ \A r, answer : ~Ingests(r, answer)
    BY <2>2 DEF RecordCommit, NoRung, StopAtBudget, StartAttempt, WaitForPool,
       Finish, HardBlock, NothingToSweep, SettleInterrupted, FinishResume,
       SettlePassed, SettleFailed, Here, Ingests
  <2>4. ASSUME Silent
        PROVE  Rest' /\ At(q)'
    <3>1. Rest'
      BY <2>1, <2>4 DEF Rest, InFlight, Silent, Rests, Dies, Rewrites, Picks,
         Captures, Proceeds, Materializes, Tidies, Recovers, Refiles, SameLog
    <3>2. ~Refiles
      BY <1>4 DEF Refiles, UnsettledDeclines, Declined, Waiting
    <3>3. At(q)'
      BY <2>1, <2>2, <2>4, <3>2 DEF At, Silent, Rests, Dies, Rewrites, Picks,
         Captures, Proceeds, Materializes, Tidies, Recovers
    <3> QED
      BY <3>1, <3>3
  <2>5. ASSUME RecordDefect
        PROVE  Rest' /\ At(q)'
    BY <1>1, <1>4, <2>1, <2>2, <2>5, DefectDoes DEF Rest, At, InFlight
  <2>6. ~FailDeclined
    <3> SUFFICES ASSUME FailDeclined PROVE FALSE
      OBVIOUS
    <3>1. /\ pc = "decline" /\ q = ingesting /\ questions' = questions
          /\ \/ Settles(ingesting, config.halts)
             \/ ~Waiting(ingesting)
      BY <1>1, <2>1, DeclineDoes DEF At
    <3>2. states'[questions[q].task].is = "Failed"
      BY <1>4, <3>1 DEF Settles
    <3> QED
      BY <1>2, <3>1, <3>2, AwaitingFields DEF Waiting
  <2>7. ~Adopt
    BY <1>1, <2>1 DEF Rest, Adopt, TypeInv
  <2>8. ASSUME RepairDefect
        PROVE  Rest' /\ At(q)'
    BY <1>1, <2>1, <2>8, RefileDoes DEF Rest, At, InFlight
  <2>9. ASSUME RepairDecline
        PROVE  Rest' /\ At(q)'
    BY <1>1, <2>1, <2>9, SettleDoes DEF Rest, At, InFlight, Settles
  <2>10. Silent \/ RecordDefect \/ RepairDefect \/ RepairDecline
    BY <1>1, <2>3, <2>6, <2>7, Steps, Zenon
  <2> QED
    BY <2>4, <2>5, <2>8, <2>9, <2>10
<1> QED
  BY <1>2, <1>3, <1>4, StillWaiting

(* The first failure that halts the run is the reason of the stop, and a   *)
(* ceiling never stops a run that is halted, nor the other way round.      *)
LEMMA HaltedKept ==
  ASSUME SchedInv, TypeInv', [Next]_vars
  PROVE  Halted'
<1> USE DEF DrainStates, Judging, Working, Away, ResumeStates
<1>1. /\ TypeInv /\ Ends /\ Asked /\ Unsettled /\ Halted /\ Flight
      /\ \A q \in Questions : questions[q].task \in Task
      /\ halted_at \in 0..NTasks
  BY Known DEF SchedInv, RunStateTypeOK
<1>2. halted_at # 0 => halted_at \in Task
  BY <1>1, NTasksAssumption DEF Task
<1>3. ASSUME Spares, UNCHANGED <<halted_at, budget_stop>>,
             reply' \subseteq reply \/ (pc = "drain" /\ ~Stopped),
             pc' \in DrainStates \/ reply' = {}
      PROVE  Halted'
  <2>1. Questions' = Questions /\ questions' = questions
    BY <1>3 DEF Spares, Questions
  <2>2. ASSUME NEW q \in Questions, Declined(q), ~Waiting(q)'
        PROVE  ~Waiting(q)
    BY <1>1, <1>3, <2>1, <2>2, AwaitingFields DEF Spares, Waiting
  <2>3. halted_at' # 0 => states'[halted_at'].is = "Failed" /\ ~budget_stop'
    BY <1>1, <1>2, <1>3 DEF Spares, Halted
  <2>4. reply' # {} => ~budget_stop' /\ pc' \in DrainStates
    BY <1>1, <1>3 DEF Halted, Stopped
  <2> QED
    BY <1>1, <1>3, <2>1, <2>2, <2>3, <2>4 DEF Halted, Declined
<1>4. CASE Silent
  <2>1. Spares /\ UNCHANGED <<halted_at, budget_stop>>
    BY <1>4 DEF Silent, Rests, Dies, Rewrites, Picks, Captures, Proceeds,
       Materializes, Tidies, Recovers, Refiles, SameLog, Spares
  <2>2. reply' \subseteq reply \/ (pc = "drain" /\ ~Stopped)
    BY <1>4 DEF Silent, Rests, Dies, Rewrites, Picks, Captures, Proceeds,
       Materializes, Tidies, Recovers, Refiles
  <2>3. pc' \in DrainStates \/ reply' = {}
    BY <1>1, <1>4 DEF Halted, Silent, Rests, Dies, Rewrites, Picks, Captures,
       Proceeds, Materializes, Tidies, Recovers, Refiles
  <2> QED
    BY <1>3, <2>1, <2>2, <2>3
(* A task that is failed.                                                  *)
<1>5. ASSUME NEW t \in Task, NEW halts \in BOOLEAN, questions' = questions,
             states'[t].is = "Failed",
             \A u \in Task \ {t} : states'[u] = states[u],
             halted_at' = IF halts /\ halted_at = 0 THEN t ELSE halted_at,
             budget_stop' = budget_stop, ~budget_stop,
             reply' = reply, pc' \in DrainStates \/ reply' = {},
             \A q \in Questions : questions[q].task = t =>
               \/ ~Declined(q)
               \/ Waiting(q) /\ (questions[q].halts <=> halts)
      PROVE  Halted'
  <2>1. Questions' = Questions
    BY <1>5 DEF Questions
  <2>3. ASSUME NEW q \in Questions, Declined(q), ~Waiting(q)'
        PROVE  /\ questions[q].halts => halted_at' # 0
               /\ halted_at' = questions[q].task => questions[q].halts
    <3>1. CASE questions[q].task = t
      <4>1. Waiting(q) /\ (questions[q].halts <=> halts)
        BY <1>5, <2>3, <3>1
      <4>2. states[t].is # "Failed"
        BY <3>1, <4>1, AwaitingFields DEF Waiting
      <4>3. halted_at # t
        BY <1>1, <1>5, <4>2 DEF Halted, Task
      <4> QED
        BY <1>2, <1>5, <3>1, <4>1, <4>3, NTasksAssumption DEF Task
    <3>2. CASE questions[q].task # t
      <4>1. ~Waiting(q)
        BY <1>1, <1>5, <2>3, <3>2 DEF Waiting
      <4>2. /\ questions[q].halts => halted_at # 0
            /\ halted_at = questions[q].task => questions[q].halts
        BY <1>1, <2>3, <4>1 DEF Halted
      <4> QED
        BY <1>5, <3>2, <4>2, NTasksAssumption DEF Task
    <3> QED
      BY <3>1, <3>2
  <2>4. halted_at' # 0 => states'[halted_at'].is = "Failed" /\ ~budget_stop'
    BY <1>1, <1>2, <1>5 DEF Halted
  <2>5. reply' # {} => ~budget_stop' /\ pc' \in DrainStates
    BY <1>5
  <2> QED
    BY <1>5, <2>1, <2>3, <2>4, <2>5 DEF Halted, Declined
(* A declined question is the only one its task waits for.                 *)
<1>6. ASSUME NEW q \in Questions, Declined(q), NEW halts \in BOOLEAN,
             questions[q].halts <=> halts, Settles(q, halts),
             questions' = questions, budget_stop' = budget_stop,
             reply' = reply, pc' \in DrainStates \/ reply' = {}
      PROVE  Halted'
  <2>1. ASSUME NEW r \in Questions, questions[r].task = questions[q].task
        PROVE  ~Declined(r) \/ r = q
    <3>1. Waiting(q)
      BY <1>6 DEF Settles
    <3> QED
      BY <1>1, <2>1, <3>1, AwaitingFields DEF Asked, Waiting
  <2>2. ~budget_stop
    BY <1>1, <1>6 DEF Unsettled, Settles
  <2>3. /\ states'[questions[q].task].is = "Failed" /\ Waiting(q)
        /\ \A u \in Task \ {questions[q].task} : states'[u] = states[u]
        /\ halted_at' = IF halts /\ halted_at = 0 THEN questions[q].task
                                                  ELSE halted_at
    BY <1>6 DEF Settles
  <2>4. \A r \in Questions : questions[r].task = questions[q].task =>
          \/ ~Declined(r)
          \/ Waiting(r) /\ (questions[r].halts <=> halts)
    BY <1>6, <2>1, <2>3
  <2> QED
    BY <1>1, <1>5, <1>6, <2>2, <2>3, <2>4
<1>7. ASSUME NEW q \in Questions, NEW answer \in {"Answered", "Declined"},
             Waiting(q), Ingests(q, answer)
      PROVE  Halted'
  <2> DEFINE t == questions[q].task
  <2>1. /\ Questions' = Questions /\ t \in Task /\ pc' = "defect"
        /\ UNCHANGED <<halted_at, budget_stop>> /\ reply' \subseteq reply
        /\ \A r \in Questions : /\ questions'[r].task = questions[r].task
                                /\ r # q => questions'[r] = questions[r]
        /\ questions'[q].answer = answer
        /\ answer = "Declined" => states' = states
        /\ answer = "Answered" =>
             /\ states'[t].is = "Pending"
             /\ \A u \in Task \ {t} : states'[u] = states[u]
    BY <1>1, <1>7, IngestDoes DEF Questions, Ingests
  <2>2. states[t].is # "Failed"
    BY <1>7, AwaitingFields DEF Waiting
  <2>3. halted_at' # 0 => states'[halted_at'].is = "Failed" /\ ~budget_stop'
    BY <1>1, <1>2, <2>1, <2>2 DEF Halted
  <2>4. reply' # {} => ~budget_stop' /\ pc' \in DrainStates
    BY <1>1, <2>1 DEF Halted
  <2>5. ASSUME NEW r \in Questions, Declined(r)', ~Waiting(r)'
        PROVE  /\ questions'[r].halts => halted_at' # 0
               /\ halted_at' = questions'[r].task => questions'[r].halts
    <3>1. r # q
      BY <1>7, <2>1, <2>5 DEF Declined, Waiting
    <3>2. Declined(r) /\ questions'[r] = questions[r]
      BY <2>1, <2>5, <3>1 DEF Declined
    <3>3. ~Waiting(r)
      <4> SUFFICES ASSUME Waiting(r) PROVE FALSE
        OBVIOUS
      <4>1. questions[r].task # t
        BY <1>7, <3>1, AwaitingFields DEF Waiting
      <4>2. states'[questions[r].task] = states[questions[r].task]
        BY <1>1, <2>1, <4>1
      <4> QED
        BY <2>5, <3>2, <4>2 DEF Waiting
    <3> QED
      BY <1>1, <2>1, <3>2, <3>3 DEF Halted
  <2> QED
    BY <2>1, <2>3, <2>4, <2>5 DEF Halted
<1>8. CASE ParksOne /\ UNCHANGED <<halted_at, budget_stop, reply>> /\ pc = "verify"
  <2>0. PICK n : n = Len(questions) + 1
    OBVIOUS
  <2>1. PICK kind \in QuestionKind :
          questions' = Append(questions, OpenQuestion(cur, kind))
    BY <1>8 DEF ParksOne
  <2>2. /\ Questions' = Questions \union {n} /\ n \notin Questions
        /\ \A q \in Questions : questions'[q] = questions[q]
        /\ questions'[n].answer = "open"
    BY <1>1, <1>8, <2>0, <2>1, AskDoes DEF ParksOne
  <2>3. /\ cur \in Task /\ states[cur].is = "Pending"
        /\ \A u \in Task \ {cur} : states'[u] = states[u]
    BY <1>8 DEF ParksOne
  <2>4. reply' = {}
    BY <1>1, <1>8 DEF Halted
  <2>5. halted_at' # 0 => states'[halted_at'].is = "Failed" /\ ~budget_stop'
    BY <1>1, <1>2, <1>8, <2>3 DEF Halted
  <2>6. ASSUME NEW q \in Questions', Declined(q)', ~Waiting(q)'
        PROVE  /\ questions'[q].halts => halted_at' # 0
               /\ halted_at' = questions'[q].task => questions'[q].halts
    <3>1. q \in Questions /\ Declined(q) /\ questions'[q] = questions[q]
      BY <2>2, <2>6 DEF Declined
    <3>2. ~Waiting(q)
      BY <1>1, <2>3, <2>6, <3>1, AwaitingFields DEF Waiting
    <3> QED
      BY <1>1, <1>8, <3>1, <3>2 DEF Halted
  <2> QED
    BY <2>4, <2>5, <2>6 DEF Halted
<1>9. RecordDefect => Halted'
  BY <1>1, <1>3, DefectDoes DEF Spares
<1>10. ASSUME FailDeclined PROVE Halted'
  <2>1. /\ pc = "decline" /\ ingesting \in Questions /\ pc' = "rewrite"
        /\ UNCHANGED <<questions, budget_stop, reply>>
        /\ \/ Settles(ingesting, config.halts)
           \/ UNCHANGED <<states, halted_at>>
    BY <1>1, <1>10, DeclineDoes
  <2>2. /\ Declined(ingesting) /\ (questions[ingesting].halts <=> config.halts)
    BY <2>1 DEF SchedInv, Ingested
  <2>3. config.halts \in BOOLEAN
    BY <1>1, ConfigType DEF TypeInv, TypeOK
  <2>4. CASE Settles(ingesting, config.halts)
    BY <1>6, <2>1, <2>2, <2>3, <2>4
  <2>5. CASE UNCHANGED <<states, halted_at>>
    BY <1>3, <2>1, <2>5 DEF Spares
  <2> QED
    BY <2>1, <2>4, <2>5
<1>11. ASSUME RepairDecline PROVE Halted'
  <2>1. /\ pc = "repair" /\ UNCHANGED <<questions, budget_stop, reply>>
    BY <1>1, <1>11, SettleDoes
  <2>2. PICK q \in Questions : Declined(q) /\ Settles(q, questions[q].halts)
    BY <1>1, <1>11, SettleDoes
  <2>3. questions[q].halts \in BOOLEAN
    BY <1>1, Known DEF Question
  <2>4. reply' = {}
    BY <1>1, <2>1 DEF Halted
  <2> QED
    BY <1>6, <2>1, <2>2, <2>3, <2>4
<1>12. ASSUME NoRung PROVE Halted'
  <2>1. /\ pc = "step" /\ pc' = "drain" /\ cur \in Task
        /\ states'[cur].is = "Failed"
        /\ \A u \in Task \ {cur} : states'[u] = states[u]
        /\ halted_at' = IF config.halts /\ halted_at = 0 THEN cur ELSE halted_at
        /\ UNCHANGED <<reply, questions, budget_stop>>
    BY <1>1, <1>12, NoRungDoes
  <2>2. config.halts \in BOOLEAN
    BY <1>1, ConfigType DEF TypeInv, TypeOK
  <2>3. ~budget_stop /\ states[cur].is = "Pending"
    BY <1>1, <2>1 DEF Flight, Stopped, Ends
  <2>4. \A q \in Questions : questions[q].task = cur => ~Declined(q)
    BY <1>1, <2>3, AwaitingFields DEF Asked, Waiting
  <2> QED
    BY <1>5, <2>1, <2>2, <2>3, <2>4
<1>13. ASSUME StopAtBudget PROVE Halted'
  <2>1. /\ pc = "step" /\ budget_stop' = TRUE
        /\ UNCHANGED <<reply, states, questions, halted_at>>
    BY <1>1, <1>13, BudgetDoes
  <2>2. halted_at = 0 /\ reply = {}
    BY <1>1, <2>1 DEF Flight, Stopped, Halted
  <2> QED
    BY <1>1, <2>1, <2>2 DEF Halted, Questions, Declined, Waiting
<1>14. WaitForPool => Halted'
  BY <1>1, <1>3, WaitDoes, WakeDoes DEF Spares, WakeDeferred, Plain
<1>15. Finish => Halted'
  BY <1>1, <1>3, FinishDoes DEF Spares
<1>16. ASSUME StartAttempt PROVE Halted'
  <2>1. reply = {}
    BY <1>1, <1>16, StartDoes DEF Halted
  <2> QED
    BY <1>1, <1>3, <1>16, <2>1, StartDoes DEF Spares
<1>17. ASSUME NEW reported \in BOOLEAN, NEW cost \in Costs,
              SettlePassed(reported, cost)
       PROVE  Halted'
  <2>1. /\ pc = "settle"
        /\ UNCHANGED <<reply, states, questions, halted_at, budget_stop>>
    BY <1>1, <1>17, PassDoes
  <2>2. reply = {}
    BY <1>1, <2>1 DEF Halted
  <2> QED
    BY <1>3, <2>1, <2>2 DEF Spares
<1>18. ASSUME NEW failure \in Failures, NEW reported \in BOOLEAN,
              NEW cost \in Costs, SettleFailed(failure, reported, cost)
       PROVE  Halted'
  <2>1. cur \in Task => progress[cur].rung < Rungs[cur]
    BY <1>1, <1>18 DEF Flight, SettleFailed, Here
  <2>2. /\ pc = "verify" /\ cur \in Task /\ unrecorded' = {}
        /\ UNCHANGED <<reply, halted_at, budget_stop>>
        /\ \A u \in Task \ {cur} : states'[u] = states[u]
        /\ LET left == progress[cur].attempts_on_rung
               left1 == progress'[cur].attempts_on_rung
           IN  Stays(left, left1) \/ Defers(left, left1) \/ Parks(left, left1)
    BY <1>1, <1>18, <2>1, FailDoes
  <2>3. states[cur].is = "Pending" /\ reply = {}
    BY <1>1, <2>2 DEF Ends, Halted
  <2>4. Spares \/ ParksOne
    BY <2>2, <2>3 DEF Stays, Defers, Parks, Spares, ParksOne
  <2> QED
    BY <1>3, <1>8, <2>2, <2>3, <2>4
<1>19. ASSUME RecordCommit PROVE Halted'
  <2>1. states[cur].is = "Pending" /\ reply = {}
    BY <1>1, <1>19, RecordDoes DEF Ends, Holding, Halted
  <2> QED
    BY <1>1, <1>3, <1>19, <2>1, RecordDoes DEF Spares
<1>20. ASSUME Adopt PROVE Halted'
  <2>1. PICK c \in unrecorded : /\ states'[c.id[1]].is = "Done"
                                /\ \A u \in Task \ {c.id[1]} : states'[u] = states[u]
    BY <1>1, <1>20, AdoptDoes
  <2>2. c.id[1] \in Task /\ states[c.id[1]].is = "Pending"
    BY <1>1, <2>1 DEF Ends
  <2>3. /\ pc = "adopt"
        /\ UNCHANGED <<reply, questions, halted_at, budget_stop>>
    BY <1>1, <1>20, AdoptDoes
  <2>4. reply = {}
    BY <1>1, <2>3 DEF Halted
  <2> QED
    BY <1>3, <2>1, <2>2, <2>3, <2>4 DEF Spares
<1>21. ASSUME RepairDefect PROVE Halted'
  <2>1. reply = {}
    BY <1>1, <1>21, RefileDoes DEF Halted
  <2> QED
    BY <1>1, <1>3, <1>21, <2>1, RefileDoes DEF Spares
<1>22. ASSUME SettleInterrupted PROVE Halted'
  <2>1. /\ pc = "interrupted"
        /\ UNCHANGED <<reply, states, questions, halted_at, budget_stop>>
    BY <1>1, <1>22, InterruptDoes
  <2>2. reply = {}
    BY <1>1, <2>1 DEF Halted
  <2> QED
    BY <1>3, <2>1, <2>2 DEF Spares
<1>23. ASSUME FinishResume PROVE Halted'
  <2>1. /\ pc = "interrupted" /\ budget_stop' = FALSE /\ WakeDeferred
        /\ UNCHANGED <<reply, questions, halted_at>>
    BY <1>1, <1>23, ResumeDoes
  <2>2. reply' = {} /\ Questions' = Questions
    BY <1>1, <2>1 DEF Halted, Questions
  <2>3. ASSUME NEW u \in Task
        PROVE  \/ states'[u] = states[u]
               \/ states[u].is = "Deferred" /\ states'[u].is = "Pending"
    BY <2>1, WakeDoes
  <2>4. \A q \in Questions : Waiting(q)' <=> Waiting(q)
    BY <1>1, <2>1, <2>3, AwaitingFields DEF Waiting
  <2>5. halted_at' # 0 => states'[halted_at'].is = "Failed" /\ ~budget_stop'
    BY <1>1, <1>2, <2>1, <2>3 DEF Halted
  <2> QED
    BY <1>1, <2>1, <2>2, <2>4, <2>5 DEF Halted, Declined
<1> QED
  <2>1. \A q \in Questions, answer \in {"Answered", "Declined"} :
          Ingests(q, answer) => Waiting(q)
    BY <1>1 DEF Asked, Ingests
  <2> QED
    BY <1>1, <1>4, <1>7, <1>9, <1>10, <1>11, <1>12, <1>13, <1>14, <1>15, <1>16,
       <1>17, <1>18, <1>19, <1>20, <1>21, <1>22, <1>23, <2>1, Steps

(* At most one attempt is in flight, and none once the run is stopped.     *)
LEMMA FlightKept ==
  ASSUME SchedInv, TypeInv', [Next]_vars
  PROVE  Flight'
<1> USE DEF DrainStates, Holding, Judging, Working, Away, ResumeStates
<1>1. /\ TypeInv /\ Ends /\ Asked /\ Unsettled /\ Flight
      /\ pc \in DrainStates \union StepStates \union ResumeStates \union {"down"}
  BY DEF SchedInv, TypeInv, TypeOK
<1>2. \A t \in Task : t \in InFlight <=> progress[t].in_flight
  BY DEF InFlight
<1>3. pc \notin Judging \union Away => InFlight = {}
  BY <1>1 DEF Flight, InFlight
(* A step that leaves none in flight and judges none.                      *)
<1>4. ASSUME InFlight' = {}, pc' \notin Judging, pc' \in Working => ~Stopped'
      PROVE  Flight'
  BY <1>4 DEF Flight
<1>5. ASSUME InFlight = {}, \A t \in Task : ~progress'[t].in_flight
      PROVE  InFlight' = {}
  BY <1>5 DEF InFlight
<1>6. CASE Silent
  <2>1. /\ UNCHANGED <<states, progress, unrecorded>> /\ InFlight' = InFlight
        /\ Stopped' = Stopped
    BY <1>6 DEF Silent, Rests, Dies, Rewrites, Picks, Captures, Proceeds,
       Materializes, Tidies, Recovers, Refiles, SameLog, InFlight, Stopped
  <2>2. Dies \/ Rewrites \/ Recovers \/ Refiles => Flight'
    BY <1>1, <1>3, <2>1 DEF Flight, Dies, Rewrites, Recovers, Refiles
  <2>3. Rests => Flight'
    BY <1>1, <2>1 DEF Flight, Rests
  <2>4. Picks => Flight'
    BY <1>1, <1>3, <1>4, <2>1 DEF Picks, Ready
  <2>5. Captures => Flight'
    BY <1>1, <2>1 DEF Flight, Captures
  <2>6. ASSUME Proceeds PROVE Flight'
    <3>1. CASE pc = "verify"
      BY <1>1, <2>1, <2>6, <3>1 DEF Flight, Proceeds
    <3>2. CASE pc # "verify"
      BY <1>1, <1>3, <1>4, <2>1, <2>6, <3>2 DEF Proceeds
    <3> QED
      BY <3>1, <3>2
  <2>7. Materializes \/ Tidies => Flight'
    BY <1>1, <1>3, <1>4, <2>1 DEF Flight, Materializes, Tidies
  <2> QED
    BY <1>6, <2>2, <2>3, <2>4, <2>5, <2>6, <2>7 DEF Silent
<1>7. ASSUME NEW q \in Questions, NEW answer \in {"Answered", "Declined"},
             Ingests(q, answer)
      PROVE  Flight'
  <2>1. Waiting(q) /\ pc = "drain" /\ questions[q].task \in Task
    BY <1>1, <1>7, Known DEF Asked, Ingests
  <2>2. ASSUME NEW t \in Task
        PROVE  ~progress'[t].in_flight
    <3>1. ~progress[t].in_flight /\ progress[t] \in Progress
      BY <1>1, <1>2, <1>3, <2>1, Known
    <3>2. \/ progress'[t] = progress[t]
          \/ progress'[t] = Answered(progress[t], questions[q].kind)
      BY <1>1, <1>7, <2>1, IngestDoes
    <3> QED
      BY <3>1, <3>2, AnsweredFields
  <2>3. pc' = "defect" /\ InFlight = {}
    BY <1>1, <1>3, <1>7, <2>1, IngestDoes
  <2> QED
    BY <1>4, <1>5, <2>2, <2>3
<1>8. RecordDefect => Flight'
  BY <1>1, <1>3, <1>4, DefectDoes DEF InFlight
<1>9. FailDeclined => Flight'
  BY <1>1, <1>3, <1>4, DeclineDoes DEF InFlight
<1>10. WaitForPool => Flight'
  BY <1>1, <1>3, <1>4, WaitDoes DEF InFlight
<1>11. Finish => Flight'
  BY <1>1, <1>3, <1>4, FinishDoes DEF InFlight
<1>12. NoRung => Flight'
  BY <1>1, <1>3, <1>4, NoRungDoes DEF InFlight
<1>13. StopAtBudget => Flight'
  BY <1>1, <1>3, <1>4, BudgetDoes DEF InFlight
<1>14. ASSUME StartAttempt PROVE Flight'
  <2>1. /\ pc = "step" /\ pc' = "attempt" /\ cur \in Task /\ cur' = cur
        /\ progress[cur].rung < Rungs[cur]
        /\ UNCHANGED <<states, halted_at, budget_stop>> /\ unrecorded' = {}
        /\ \A u \in Task \ {cur} : progress'[u] = progress[u]
        /\ progress'[cur].in_flight
        /\ progress'[cur].rung = progress[cur].rung
    BY <1>1, <1>14, StartDoes
  <2>2. InFlight = {} /\ ~Stopped /\ states[cur].is = "Pending"
    BY <1>1, <1>3, <2>1 DEF Flight, Ends
  <2>3. InFlight' = {cur}
    BY <1>2, <2>1, <2>2 DEF InFlight
  <2> QED
    BY <2>1, <2>2, <2>3 DEF Flight, Stopped
(* A settlement.                                                           *)
<1>15. ASSUME pc \in Judging, cur \in Task, ~progress'[cur].in_flight,
              \A u \in Task \ {cur} : progress'[u] = progress[u]
       PROVE  InFlight' = {}
  BY <1>1, <1>15 DEF Flight, InFlight
<1>16. ASSUME NEW reported \in BOOLEAN, NEW cost \in Costs,
              SettlePassed(reported, cost)
       PROVE  Flight'
  <2>1. /\ pc = "settle" /\ pc' = "advance" /\ cur \in Task
        /\ ~progress'[cur].in_flight
        /\ \A u \in Task \ {cur} : progress'[u] = progress[u]
    BY <1>1, <1>16, PassDoes
  <2> QED
    BY <1>4, <1>15, <2>1
<1>17. ASSUME NEW failure \in Failures, NEW reported \in BOOLEAN,
              NEW cost \in Costs, SettleFailed(failure, reported, cost)
       PROVE  Flight'
  <2>1. cur \in Task => progress[cur].rung < Rungs[cur]
    BY <1>1, <1>17 DEF Flight, SettleFailed, Here
  <2>2. /\ pc = "verify" /\ cur \in Task /\ ~progress'[cur].in_flight
        /\ UNCHANGED <<halted_at, budget_stop>>
        /\ \A u \in Task \ {cur} : progress'[u] = progress[u]
    BY <1>1, <1>17, <2>1, FailDoes
  <2>3. pc' \in {"materialize", "tidy"}
    BY <1>17 DEF SettleFailed
  <2> QED
    BY <1>1, <1>4, <1>15, <2>2, <2>3 DEF Flight, Stopped
<1>18. RecordCommit => Flight'
  BY <1>1, <1>3, <1>4, RecordDoes DEF InFlight
<1>19. ASSUME Adopt PROVE Flight'
  <2>1. unrecorded # {}
    BY <1>19 DEF Adopt, SchedInv, TypeInv
  <2>2. InFlight = {}
    BY <1>1, <2>1 DEF Flight, InFlight
  <2> QED
    BY <1>1, <1>4, <1>19, <2>2, AdoptDoes DEF InFlight
<1>20. RepairDefect => Flight'
  BY <1>1, RefileDoes DEF Flight, InFlight, Stopped
<1>21. ASSUME RepairDecline PROVE Flight'
  <2>1. InFlight = {}
    BY <1>1, <1>21, SettleDoes DEF Unsettled, Settles
  <2> QED
    BY <1>1, <1>4, <1>21, <2>1, SettleDoes DEF InFlight
<1>22. ASSUME SettleInterrupted PROVE Flight'
  <2>1. PICK t \in InFlight :
          /\ pc = "interrupted" /\ pc' = "interrupted"
          /\ UNCHANGED <<states, halted_at, budget_stop>>
          /\ \A u \in Task \ {t} : progress'[u] = progress[u]
          /\ ~progress'[t].in_flight
    BY <1>1, <1>22, InterruptDoes
  <2>2. InFlight = {t}
    BY <1>1, <2>1 DEF Flight
  <2>3. InFlight' = {}
    BY <1>2, <2>1, <2>2 DEF InFlight
  <2> QED
    BY <1>4, <2>1, <2>3
<1>23. ASSUME FinishResume PROVE Flight'
  <2>1. /\ pc' = "drain" /\ InFlight = {}
        /\ \A t \in Task : progress'[t].in_flight = progress[t].in_flight
    BY <1>1, <1>23, ResumeDoes
  <2>2. \A t \in Task : ~progress'[t].in_flight
    BY <1>2, <2>1
  <2> QED
    BY <1>4, <1>5, <2>1, <2>2
<1> QED
  BY <1>1, <1>6, <1>7, <1>8, <1>9, <1>10, <1>11, <1>12, <1>13, <1>14, <1>16,
     <1>17, <1>18, <1>19, <1>20, <1>21, <1>22, <1>23, Steps

(* A run that has ended is not touched until it is resumed.                *)
LEMMA EndedKept ==
  ASSUME SchedInv, TypeInv', [Next]_vars
  PROVE  Ended'
<1> USE DEF DrainStates, Away, ResumeStates
<1>1. TypeInv /\ Ends /\ Unsettled /\ Ended
  BY DEF SchedInv
<1>2. CASE finished = "none" /\ finished' = "none"
  BY <1>2 DEF Ended
<1>3. CASE Silent
  BY <1>1, <1>3 DEF Silent, Rests, Dies, Rewrites, Picks, Captures, Proceeds,
     Materializes, Tidies, Recovers, Refiles, SameLog, Ended
<1>4. ASSUME Finish PROVE Ended'
  <2>1. /\ finished' = RunOutcome /\ unrecorded' = {} /\ states' = states
        /\ Ready = {} /\ ~DeferredWork
    BY <1>4, FinishDoes
  <2>2. ASSUME RunOutcome \in {"Complete", "Parked"}
        PROVE  /\ ~Stopped
               /\ (\E t \in Task : states[t].is = "AwaitingInput")
                    => RunOutcome = "Parked"
    BY <2>2 DEF RunOutcome, Stopped
  <2> QED
    BY <2>1, <2>2 DEF Ended, Ready, DeferredWork
<1>5. ASSUME NEW q \in Questions, NEW answer \in {"Answered", "Declined"},
             Ingests(q, answer)
      PROVE  Ended'
  <2>1. pc = "drain" /\ finished' = finished
    BY <1>5 DEF Ingests, IngestAnswer, QuestionAnswered
  <2> QED
    BY <1>1, <1>2, <2>1 DEF Ends
<1>6. RecordDefect => Ended'
  BY <1>1, <1>2, DefectDoes DEF Ends
<1>7. FailDeclined => Ended'
  BY <1>1, <1>2, DeclineDoes DEF Ends
<1>8. WaitForPool => Ended'
  BY <1>1, <1>2, WaitDoes DEF Ends
<1>9. NoRung => Ended'
  BY <1>1, <1>2, NoRungDoes DEF Ends
<1>10. StopAtBudget => Ended'
  BY <1>1, <1>2, BudgetDoes DEF Ends
<1>11. StartAttempt => Ended'
  BY <1>1, <1>2, StartDoes DEF Ends
<1>12. ASSUME NEW reported \in BOOLEAN, NEW cost \in Costs,
              SettlePassed(reported, cost)
       PROVE  Ended'
  BY <1>1, <1>2, <1>12, PassDoes DEF Ends
<1>13. ASSUME NEW failure \in Failures, NEW reported \in BOOLEAN,
              NEW cost \in Costs, SettleFailed(failure, reported, cost)
       PROVE  Ended'
  <2>1. pc = "verify" /\ finished' = finished
    BY <1>13 DEF SettleFailed, Here, AttemptFailed
  <2> QED
    BY <1>1, <1>2, <2>1 DEF Ends
<1>14. RecordCommit => Ended'
  BY <1>1, <1>2, RecordDoes DEF Ends
<1>15. ASSUME Adopt PROVE Ended'
  <2>1. finished = "none"
    BY <1>1, <1>15 DEF Adopt, TypeInv, Ended
  <2> QED
    BY <1>1, <1>2, <1>15, <2>1, AdoptDoes
<1>16. RepairDefect => Ended'
  BY <1>1, RefileDoes DEF Ended
<1>17. ASSUME RepairDecline PROVE Ended'
  <2>1. finished = "none"
    BY <1>1, <1>17, SettleDoes DEF Unsettled, Settles
  <2> QED
    BY <1>1, <1>2, <1>17, <2>1, SettleDoes
<1>18. SettleInterrupted => Ended'
  BY <1>1, InterruptDoes DEF Ended
<1>19. FinishResume => Ended'
  BY <1>1, ResumeDoes DEF Ended
<1> QED
  BY <1>1, <1>3, <1>4, <1>5, <1>6, <1>7, <1>8, <1>9, <1>10, <1>11, <1>12, <1>13,
     <1>14, <1>15, <1>16, <1>17, <1>18, <1>19, Steps

(* Only a judged attempt spends the allowance, and every way back to       *)
(* Pending leaves an attempt of it.                                        *)
LEMMA AllowedKept ==
  ASSUME SchedInv, TypeInv', [Next]_vars
  PROVE  Allowed'
<1> USE DEF DrainStates, Quiet, Judging, Holding, Away, ResumeStates
<1>1. /\ TypeInv /\ Ends /\ Asked /\ Flight /\ Allowed
      /\ \A t \in Task : progress[t] \in Progress
      /\ \A t \in Task : progress[t].attempts_on_rung \in Nat
      /\ AttemptsPer \in Nat \ {0}
  BY Known, ChainAssumption DEF SchedInv, Progress
(* A task that the step leaves as it was.                                  *)
<1>2. ASSUME NEW t \in Task, states'[t] = states[t],
             progress'[t].attempts_on_rung = progress[t].attempts_on_rung,
             progress'[t].in_flight <=> progress[t].in_flight,
             \A q \in Questions : questions'[q].kind = questions[q].kind,
             (\A c \in unrecorded' : c.id[1] # t)
               => \A c \in unrecorded : c.id[1] # t
      PROVE  Within(t)'
  <2>1. Within(t)
    BY <1>1 DEF Allowed
  <2>2. states[t].is = "AwaitingInput" => states[t].question \in Questions
    BY <1>1 DEF Asked
  <2> QED
    BY <1>2, <2>1, <2>2 DEF Within
(* A task that the step ends, or that has an attempt left after it.        *)
<1>3. ASSUME NEW t \in Task, states'[t].is \in {"Done", "Failed"},
             progress'[t] = progress[t]
      PROVE  Within(t)'
  BY <1>1, <1>3 DEF Allowed, Within
<1>4. ASSUME NEW t \in Task, progress'[t].attempts_on_rung \in Nat,
             progress'[t].attempts_on_rung < AttemptsPer
      PROVE  Within(t)'
  BY <1>1, <1>4 DEF Within
(* A step at a place where the log ends in no settlement, and which writes *)
(* none.                                                                   *)
<1>5. ASSUME UNCHANGED <<states, progress, questions>>,
             unrecorded' = unrecorded \/ unrecorded = {}
      PROVE  Allowed'
  BY <1>2, <1>5 DEF Allowed
<1>6. Silent => Allowed'
  BY <1>5 DEF Silent, Rests, Dies, Rewrites, Picks, Captures, Proceeds,
     Materializes, Tidies, Recovers, Refiles, SameLog
<1>7. ASSUME NEW q \in Questions, NEW answer \in {"Answered", "Declined"},
             Ingests(q, answer)
      PROVE  Allowed'
  <2>1. Waiting(q) /\ pc = "drain" /\ questions[q].task \in Task
    BY <1>1, <1>7, Known DEF Asked, Ingests
  <2>2. unrecorded = {}
    BY <1>1, <2>1 DEF Ends
  <2>3. /\ \A r \in Questions : questions'[r].kind = questions[r].kind
        /\ \A u \in Task \ {questions[q].task} :
             states'[u] = states[u] /\ progress'[u] = progress[u]
        /\ answer = "Declined" => states' = states /\ progress' = progress
        /\ answer = "Answered" =>
             progress'[questions[q].task] =
               Answered(progress[questions[q].task], questions[q].kind)
    BY <1>1, <1>7, <2>1, IngestDoes
  <2>4. ASSUME NEW t \in Task, t # questions[q].task \/ answer = "Declined"
        PROVE  Within(t)'
    BY <1>2, <2>2, <2>3, <2>4
  <2>5. ASSUME answer = "Answered"
        PROVE  Within(questions[q].task)'
    <3>1. PICK t \in Task : t = questions[q].task
      BY <2>1
    <3>2. progress'[t].attempts_on_rung =
            IF questions[q].kind = "Unblock" THEN 0
                                             ELSE progress[t].attempts_on_rung
      BY <1>1, <2>3, <2>5, <3>1, AnsweredFields
    <3>3. /\ states[t].is = "AwaitingInput" /\ states[t].question = q
      BY <2>1, <3>1, AwaitingFields DEF Waiting
    <3>4. questions[q].kind # "Unblock" =>
            progress[t].attempts_on_rung < AttemptsPer
      BY <1>1, <3>3 DEF Allowed, Within
    <3>5. Within(t)'
      BY <1>1, <1>4, <3>2, <3>4
    <3>6. questions'[q].task = questions[q].task
      BY <1>1, <1>7, <2>1, IngestDoes
    <3> QED
      BY <3>1, <3>5, <3>6
  <2>6. questions'[q].task = questions[q].task
    BY <1>1, <1>7, <2>1, IngestDoes
  <2> QED
    BY <2>1, <2>4, <2>5, <2>6 DEF Allowed
<1>8. RecordDefect => Allowed'
  BY <1>1, <1>5, DefectDoes DEF Ends
<1>9. ASSUME NEW t \in Task, states'[t].is \in {"Done", "Failed"},
             \A u \in Task \ {t} : states'[u] = states[u],
             UNCHANGED <<progress, questions>>,
             \A c \in unrecorded : c.id[1] = t
      PROVE  Allowed'
  BY <1>2, <1>3, <1>9 DEF Allowed
<1>10. ASSUME FailDeclined PROVE Allowed'
  <2>1. /\ pc = "decline" /\ UNCHANGED <<progress, questions>>
        /\ \/ Settles(ingesting, config.halts)
           \/ UNCHANGED <<states, unrecorded>>
    BY <1>1, <1>10, DeclineDoes
  <2>2. unrecorded = {}
    BY <1>1, <2>1 DEF Ends
  <2> QED
    BY <1>5, <1>9, <2>1, <2>2 DEF Settles
<1>11. ASSUME UNCHANGED questions, unrecorded = {},
              \A t \in Task :
                /\ progress'[t].attempts_on_rung = progress[t].attempts_on_rung
                /\ progress'[t].in_flight <=> progress[t].in_flight,
              WakeDeferred
       PROVE  Allowed'
  <2>1. ASSUME NEW t \in Task PROVE Within(t)'
    <3>1. CASE states[t].is = "Deferred"
      BY <1>1, <1>4, <1>11, <3>1 DEF Allowed, Within
    <3>2. CASE states[t].is # "Deferred"
      BY <1>2, <1>11, <3>2, WakeDoes
    <3> QED
      BY <3>1, <3>2
  <2> QED
    BY <2>1 DEF Allowed
<1>12. WaitForPool => Allowed'
  BY <1>1, <1>11, WaitDoes DEF Ends
<1>13. Finish => Allowed'
  BY <1>1, <1>5, FinishDoes DEF Ends
<1>14. NoRung => Allowed'
  BY <1>1, <1>9, NoRungDoes DEF Ends
<1>15. StopAtBudget => Allowed'
  BY <1>1, <1>5, BudgetDoes DEF Ends
<1>16. ASSUME StartAttempt PROVE Allowed'
  <2>1. /\ pc = "step" /\ cur \in Task
        /\ UNCHANGED <<states, questions>>
        /\ \A u \in Task \ {cur} : progress'[u] = progress[u]
        /\ progress'[cur].in_flight
        /\ progress'[cur].attempts_on_rung = progress[cur].attempts_on_rung + 1
    BY <1>1, <1>16, StartDoes
  <2>2. /\ unrecorded = {} /\ states[cur].is = "Pending"
        /\ ~progress[cur].in_flight
    BY <1>1, <2>1 DEF Ends, Flight, InFlight
  <2>3. progress[cur].attempts_on_rung < AttemptsPer
    BY <1>1, <2>1, <2>2 DEF Allowed, Within
  <2>4. Within(cur)'
    <3>1. PICK t \in Task : t = cur /\ t = cur'
      BY <1>1, <1>16, <2>1, StartDoes
    <3>2. Within(t)'
      BY <1>1, <2>1, <2>2, <2>3, <3>1 DEF Within
    <3> QED
      BY <3>1, <3>2
  <2>5. cur' = cur
    BY <1>1, <1>16, StartDoes
  <2> QED
    BY <1>2, <2>1, <2>2, <2>4, <2>5 DEF Allowed
<1>17. ASSUME NEW reported \in BOOLEAN, NEW cost \in Costs,
              SettlePassed(reported, cost)
       PROVE  Allowed'
  <2>1. /\ pc = "settle" /\ cur \in Task /\ unrecorded' = {TheCandidate}
        /\ UNCHANGED <<states, questions>>
        /\ \A u \in Task \ {cur} : progress'[u] = progress[u]
        /\ progress'[cur].attempts_on_rung = progress[cur].attempts_on_rung
    BY <1>1, <1>17, PassDoes
  <2>2. PICK c \in candidate : candidate = {c} /\ c.id[1] = cur
    BY <1>1, <2>1 DEF Ends
  <2>3. /\ TheCandidate = c /\ unrecorded = {} /\ states[cur].is = "Pending"
    BY <1>1, <2>1, <2>2 DEF TheCandidate, Ends
  <2>4. PICK t \in Task : t = cur
    BY <2>1
  <2>5. Within(t)'
    BY <1>1, <2>1, <2>2, <2>3, <2>4 DEF Allowed, Within
  <2>6. \A u \in Task \ {t} : Within(u)'
    BY <1>2, <2>1, <2>3, <2>4
  <2> QED
    BY <2>5, <2>6 DEF Allowed
<1>18. ASSUME NEW failure \in Failures, NEW reported \in BOOLEAN,
              NEW cost \in Costs, SettleFailed(failure, reported, cost)
       PROVE  Allowed'
  <2> DEFINE left == progress[cur].attempts_on_rung
             left1 == progress'[cur].attempts_on_rung
  <2>1. cur \in Task => progress[cur].rung < Rungs[cur]
    BY <1>1, <1>18 DEF Flight, SettleFailed, Here
  <2>2. /\ pc = "verify" /\ cur \in Task /\ unrecorded' = {}
        /\ \A u \in Task \ {cur} :
             states'[u] = states[u] /\ progress'[u] = progress[u]
        /\ Stays(left, left1) \/ Defers(left, left1) \/ Parks(left, left1)
    BY <1>1, <1>18, <2>1, FailDoes
  <2>3. /\ unrecorded = {} /\ left \in Nat /\ left <= AttemptsPer
        /\ SaturatingPred(left) \in Nat /\ SaturatingPred(left) < AttemptsPer
    BY <1>1, <2>2 DEF Ends, Allowed, Within, SaturatingPred
  <2>4. \A q \in Questions : questions'[q].kind = questions[q].kind
    BY <1>1, <2>2, AskDoes DEF Stays, Defers, Parks
  <2>5. PICK t \in Task : t = cur
    BY <2>2
  <2>6. \A u \in Task \ {t} : Within(u)'
    BY <1>2, <2>2, <2>3, <2>4, <2>5
  <2>7. ASSUME Stays(left, left1) \/ Defers(left, left1)
        PROVE  Within(t)'
    BY <1>1, <1>4, <2>3, <2>5, <2>7 DEF Stays, Defers
  <2>8. ASSUME Parks(left, left1)
        PROVE  Within(t)'
    <3>0. PICK n : n = Len(questions) + 1
      OBVIOUS
    <3>1. PICK kind \in QuestionKind :
            /\ questions' = Append(questions, OpenQuestion(cur, kind))
            /\ kind # "Unblock" => left1 \in {0, SaturatingPred(left)}
      BY <2>8 DEF Parks
    <3>2. left1 \in {0, left, SaturatingPred(left)} /\ states'[t] = AwaitingInput(n)
      BY <2>5, <2>8, <3>0 DEF Parks
    <3>3. questions'[n].kind = kind
      BY <1>1, <2>2, <3>0, <3>1, AskDoes
    <3>4. /\ left1 \in Nat /\ left1 <= AttemptsPer
          /\ kind # "Unblock" => left1 < AttemptsPer
      BY <1>1, <2>3, <3>1, <3>2
    <3>5. states'[t].is = "AwaitingInput" /\ states'[t].question = n
      BY <3>2, AwaitingFields
    <3>6. progress'[t].attempts_on_rung = left1
      BY <2>5
    <3> HIDE DEF left1
    <3> QED
      BY <3>3, <3>4, <3>5, <3>6 DEF Within
  <2> QED
    BY <2>2, <2>6, <2>7, <2>8 DEF Allowed
<1>19. ASSUME RecordCommit PROVE Allowed'
  <2>1. \A c \in unrecorded : c.id[1] = cur
    BY <1>1, <1>19, RecordDoes DEF Ends
  <2> QED
    BY <1>1, <1>9, <1>19, <2>1, RecordDoes
<1>20. ASSUME Adopt PROVE Allowed'
  <2>1. PICK c \in unrecorded : /\ states'[c.id[1]].is = "Done"
                                /\ \A u \in Task \ {c.id[1]} : states'[u] = states[u]
    BY <1>1, <1>20, AdoptDoes
  <2>2. c.id[1] \in Task /\ \A d \in unrecorded : d.id[1] = c.id[1]
    BY <1>1, <2>1 DEF Ends
  <2>3. UNCHANGED <<progress, questions>>
    BY <1>1, <1>20, AdoptDoes
  <2> QED
    BY <1>9, <2>1, <2>2, <2>3
<1>21. RepairDefect => Allowed'
  BY <1>1, <1>5, RefileDoes DEF Ends
<1>22. ASSUME RepairDecline PROVE Allowed'
  <2>1. unrecorded = {} /\ UNCHANGED <<progress, questions>>
    BY <1>1, <1>22, SettleDoes DEF Ends
  <2>2. PICK q \in Questions : Settles(q, questions[q].halts)
    BY <1>1, <1>22, SettleDoes
  <2> QED
    BY <1>9, <2>1, <2>2 DEF Settles
<1>23. ASSUME SettleInterrupted PROVE Allowed'
  <2>1. PICK t \in InFlight :
          /\ pc = "interrupted" /\ UNCHANGED <<states, questions>>
          /\ \A u \in Task \ {t} : progress'[u] = progress[u]
          /\ progress'[t].attempts_on_rung =
               SaturatingPred(progress[t].attempts_on_rung)
    BY <1>1, <1>23, InterruptDoes
  <2>2. unrecorded = {} /\ t \in Task
    BY <1>1, <2>1 DEF Ends, InFlight
  <2>3. Within(t)'
    <3>1. /\ progress'[t].attempts_on_rung \in Nat
          /\ progress'[t].attempts_on_rung < AttemptsPer
      BY <1>1, <2>1, <2>2 DEF Allowed, Within, SaturatingPred
    <3> QED
      BY <1>4, <2>2, <3>1
  <2> QED
    BY <1>2, <2>1, <2>2, <2>3 DEF Allowed
<1>24. ASSUME FinishResume PROVE Allowed'
  <2>1. /\ pc = "interrupted" /\ questions' = questions /\ WakeDeferred
        /\ \A t \in Task :
             /\ progress'[t].in_flight = progress[t].in_flight
             /\ progress'[t].attempts_on_rung = progress[t].attempts_on_rung
    BY <1>1, <1>24, ResumeDoes
  <2> QED
    BY <1>1, <1>11, <2>1 DEF Ends
<1> QED
  BY <1>1, <1>6, <1>7, <1>8, <1>10, <1>12, <1>13, <1>14, <1>15, <1>16, <1>17,
     <1>18, <1>19, <1>20, <1>21, <1>22, <1>23, <1>24, Steps

(* Every closed question has its design defect and a payload that says so, *)
(* but for the one at hand.                                                *)
LEMMA FiledKept ==
  ASSUME SchedInv, TypeInv', [Next]_vars
  PROVE  Filed'
<1> DEFINE Gone == Away \ {"interrupted"}
           Busy == {"defect", "decline", "rewrite", "materialize"}
<1> USE DEF DrainStates, Away, ResumeStates
<1>1. /\ TypeInv /\ TypeInv' /\ Ingested /\ Asked /\ Filed
      /\ Questions = 1..Len(questions) /\ Len(questions) \in Nat
      /\ Questions \subseteq QuestionIx /\ DOMAIN payload = QuestionIx
  BY Known DEF SchedInv, TypeInv, TypeOK
<1>2. ASSUME pc' \in Gone PROVE Filed'
  BY <1>2 DEF Filed
(* A step from a place where everything is filed.                          *)
<1>3. ASSUME pc \notin Gone \union Busy, UNCHANGED <<questions, payload>>,
             defects \subseteq defects', pc' # "materialize"
      PROVE  Filed'
  BY <1>1, <1>3 DEF Filed, IsOpen, Written, Questions
<1>4. CASE Silent
  <2>1. UNCHANGED <<questions, defects>> /\ Questions' = Questions
    BY <1>4 DEF Silent, Rests, Dies, Rewrites, Picks, Captures, Proceeds,
       Materializes, Tidies, Recovers, Refiles, SameLog, Questions
  <2>2. Dies \/ Recovers => Filed'
    BY <1>2 DEF Dies, Recovers
  <2>3. Rests => Filed'
    BY <1>1, <2>1 DEF Filed, IsOpen, Written, Rests
  <2>4. Picks \/ Captures \/ Proceeds \/ Tidies => Filed'
    BY <1>3, <2>1 DEF Picks, Captures, Proceeds, Tidies
  <2>5. ASSUME Rewrites PROVE Filed'
    <3>1. ~IsOpen(ingesting) /\ ingesting \in Questions
      BY <1>1, <2>5 DEF Rewrites, Ingested, TypeInv
    <3>2. /\ payload'[ingesting] = "closed"
          /\ \A q \in Questions : q # ingesting => payload'[q] = payload[q]
      BY <1>1, <2>5, <3>1 DEF Rewrites
    <3> QED
      BY <1>1, <2>1, <2>5, <3>1, <3>2 DEF Filed, IsOpen, Written, Rewrites
  <2>6. ASSUME Materializes PROVE Filed'
    <3>1. Len(questions) \in Questions /\ IsOpen(Len(questions))
      BY <1>1, <2>6, EmptySeq, Known DEF Filed, Materializes, RunStateTypeOK
    <3>2. /\ payload'[Len(questions)] = "open"
          /\ \A q \in Questions : q # Len(questions) => payload'[q] = payload[q]
      BY <1>1, <2>6, <3>1 DEF Materializes
    <3> QED
      BY <1>1, <2>1, <2>6, <3>1, <3>2 DEF Filed, IsOpen, Written, Materializes
  <2>7. ASSUME Refiles PROVE Filed'
    <3>1. \A q \in Questions :
            payload'[q] = IF IsOpen(q) THEN "open" ELSE "closed"
      BY <1>1, <2>7 DEF Refiles
    <3>2. \A q \in Questions : ~IsOpen(q) => q \in defects
      BY <2>7 DEF Refiles, MissingDefects
    <3> QED
      BY <2>1, <2>7, <3>1, <3>2 DEF Filed, IsOpen, Written, Refiles
  <2> QED
    BY <1>4, <2>2, <2>3, <2>4, <2>5, <2>6, <2>7 DEF Silent
<1>5. ASSUME NEW q \in Questions, NEW answer \in {"Answered", "Declined"},
             Ingests(q, answer)
      PROVE  Filed'
  <2>1. Waiting(q) /\ pc = "drain"
    BY <1>1, <1>5 DEF Asked, Ingests
  <2>2. /\ Questions' = Questions /\ pc' = "defect" /\ ingesting' = q
        /\ UNCHANGED <<defects, payload>>
        /\ \A r \in Questions : r # q => questions'[r] = questions[r]
    BY <1>1, <1>5, <2>1, IngestDoes DEF Questions
  <2> QED
    BY <1>1, <2>1, <2>2 DEF Filed, IsOpen, Written
<1>6. RecordDefect => Filed'
  BY <1>1, DefectDoes DEF Filed, IsOpen, Written, Questions
<1>7. FailDeclined => Filed'
  BY <1>1, DeclineDoes DEF Filed, IsOpen, Written, Questions
<1>8. WaitForPool => Filed'
  BY <1>3, WaitDoes
<1>9. Finish => Filed'
  BY <1>2, FinishDoes
<1>10. NoRung => Filed'
  BY <1>1, <1>3, NoRungDoes
<1>11. StopAtBudget => Filed'
  BY <1>1, <1>3, BudgetDoes
<1>12. StartAttempt => Filed'
  BY <1>1, <1>3, StartDoes
<1>13. ASSUME NEW reported \in BOOLEAN, NEW cost \in Costs,
              SettlePassed(reported, cost)
       PROVE  Filed'
  BY <1>1, <1>3, <1>13, PassDoes
<1>14. ASSUME NEW failure \in Failures, NEW reported \in BOOLEAN,
              NEW cost \in Costs, SettleFailed(failure, reported, cost)
       PROVE  Filed'
  <2> DEFINE left == progress[cur].attempts_on_rung
             left1 == progress'[cur].attempts_on_rung
  <2>1. cur \in Task => progress[cur].rung < Rungs[cur]
    BY <1>14 DEF SchedInv, Flight, Judging, SettleFailed, Here
  <2>2. /\ pc = "verify" /\ cur \in Task /\ UNCHANGED <<defects, payload>>
        /\ Stays(left, left1) \/ Defers(left, left1) \/ Parks(left, left1)
    BY <1>1, <1>14, <2>1, FailDoes
  <2>3. Stays(left, left1) \/ Defers(left, left1) => Filed'
    BY <1>3, <2>2 DEF Stays, Defers
  <2>4. ASSUME Parks(left, left1) PROVE Filed'
    <3>0. PICK n : n = Len(questions) + 1
      OBVIOUS
    <3>1. PICK kind \in QuestionKind :
            questions' = Append(questions, OpenQuestion(cur, kind))
      BY <2>4 DEF Parks
    <3>2. /\ Questions' = Questions \union {n} /\ n \notin Questions
          /\ Len(questions') = n /\ questions'[n].answer = "open"
          /\ \A q \in Questions : questions'[q] = questions[q]
      BY <1>1, <2>2, <3>0, <3>1, AskDoes
    <3>3. pc' = "materialize"
      BY <2>4 DEF Parks
    <3>4. questions' # <<>>
      BY <1>1, <3>0, <3>2, EmptySeq
    <3> QED
      BY <1>1, <2>2, <3>2, <3>3, <3>4 DEF Filed, IsOpen, Written
  <2> QED
    BY <2>2, <2>3, <2>4
<1>15. RecordCommit => Filed'
  BY <1>1, <1>3, RecordDoes
<1>16. Adopt => Filed'
  BY <1>2 DEF Adopt, Goto
<1>17. RepairDefect => Filed'
  BY <1>1, <1>2, RefileDoes
<1>18. RepairDecline => Filed'
  BY <1>1, <1>2, SettleDoes
<1>19. SettleInterrupted => Filed'
  BY <1>1, <1>3, InterruptDoes
<1>20. FinishResume => Filed'
  BY <1>1, <1>3, ResumeDoes
<1> QED
  BY <1>1, <1>4, <1>5, <1>6, <1>7, <1>8, <1>9, <1>10, <1>11, <1>12, <1>13,
     <1>14, <1>15, <1>16, <1>17, <1>18, <1>19, <1>20, Steps

(* The invariant holds at first.                                           *)
LEMMA SchedInvInit == Init => SchedInv
<1> SUFFICES ASSUME Init PROVE SchedInv
  OBVIOUS
<1>1. /\ questions = <<>> /\ unrecorded = {} /\ halted_at = 0
      /\ budget_stop = FALSE /\ finished = "none"
      /\ pc = "drain" /\ reply = {}
      /\ \A t \in Task : states[t].is = "Pending" /\ progress[t] = NewProgress
  BY DEF Init, RunStateInit, Plain
<1>2. Questions = {}
  BY <1>1, EmptySeq DEF Questions
<1>3. \A t \in Task : /\ ~progress[t].in_flight
                      /\ progress[t].attempts_on_rung = 0
  BY <1>1, NewProgressFields
<1>4. InFlight = {}
  BY <1>3 DEF InFlight
<1>5. Allowed
  BY <1>1, <1>3, ChainAssumption DEF Allowed, Within
<1> QED
  BY <1>1, <1>2, <1>4, <1>5, TypeInvInit DEF SchedInv, Ends, Asked, Ingested,
     Unsettled, Halted, Flight, Ended, Filed, Judging, Working, Holding, Quiet,
     Away, DrainStates, ResumeStates

(* Every step keeps it.                                                    *)
LEMMA SchedInvKept ==
  ASSUME SchedInv, [Next]_vars
  PROVE  SchedInv'
<1>1. TypeInv'
  BY TypeInvKept DEF SchedInv
<1> QED
  BY <1>1, EndsKept, AskedKept, IngestedKept, UnsettledKept, HaltedKept,
     FlightKept, AllowedKept, EndedKept, FiledKept DEF SchedInv

(* So it holds always.                                                     *)
LEMMA SchedAlways == Spec => []SchedInv
<1>1. SchedInv /\ [Next]_vars => SchedInv'
  BY SchedInvKept
<1> QED
  BY SchedInvInit, <1>1, PTL DEF Spec
-----------------------------------------------------------------------------
(* Whatever outages, clarifications, interruptions and crashes a task went *)
(* through, it is never left Pending without an attempt on its rung: only  *)
(* a judged attempt is charged, for any chain and any allowance.           *)
THEOREM AllowanceLeftAlways == Spec => []AllowanceLeft
<1>1. SchedInv => AllowanceLeft
  BY DEF SchedInv, Allowed, Within, AllowanceLeft
<1> QED
  BY SchedAlways, <1>1, PTL

(* One attempt at a time, over crashes too, none after a halt or a budget  *)
(* stop, and a run that ends Complete or Parked left nothing it could have *)
(* run.                                                                    *)
THEOREM RunsWhatItMayAlways == Spec => []RunsWhatItMay
<1>1. SchedInv => RunsWhatItMay
  <2> SUFFICES ASSUME SchedInv PROVE RunsWhatItMay
    OBVIOUS
  <2>1. Flight /\ Ended
    BY DEF SchedInv
  <2>2. InFlight = {} \/ \E t \in InFlight : InFlight = {t}
    BY <2>1 DEF Flight
  <2>3. OneAttemptAtATime
    <3>1. \E n \in {0, 1} : Cardinality(InFlight) = n
      <4>1. InFlight = {} => Cardinality(InFlight) = 0
        <5>1. Cardinality({}) = 0
          BY FS_EmptySet
        <5> QED
          BY <5>1
      <4>2. ASSUME NEW t \in InFlight, InFlight = {t}
            PROVE  Cardinality(InFlight) = 1
        <5>1. Cardinality({t}) = 1
          BY FS_Singleton
        <5> QED
          BY <4>2, <5>1
      <4> QED
        BY <2>2, <4>1, <4>2
    <3> QED
      BY <3>1 DEF OneAttemptAtATime
  <2>4. StoppedRunsNothing
    BY <2>1, <2>2 DEF Flight, StoppedRunsNothing
  <2> QED
    BY <2>1, <2>3, <2>4 DEF RunsWhatItMay, Ended, NothingLeftRunnable
<1> QED
  BY SchedAlways, <1>1, PTL

(* An answer is durable in four places and a process may die between any   *)
(* two of them; whenever the scheduler is at rest they agree: no task is   *)
(* parked on a question nobody can answer, every answer has its design     *)
(* defect and a payload that says so, and a decline halted the run exactly *)
(* when the policy recorded with it says so.                               *)
THEOREM AnswersStandAlways == Spec => []AnswersStand
<1>1. SchedInv => AnswersStand
  <2> SUFFICES ASSUME SchedInv PROVE AnswersStand
    OBVIOUS
  <2> USE DEF DrainStates, Away, ResumeStates
  <2>1. TypeInv /\ Asked /\ Unsettled /\ Halted /\ Filed
    BY DEF SchedInv
  <2>2. ASSUME pc \in {"drain", "step"}, NEW q \in Questions, Declined(q)
        PROVE  ~Waiting(q)
    BY <2>1, <2>2 DEF Unsettled
  <2>3. NoStrandedTask
    <3>1. ASSUME pc \in {"drain", "step"}, NEW t \in Task,
                 states[t].is = "AwaitingInput"
          PROVE  /\ states[t].question \in Questions
                 /\ questions[states[t].question].task = t
                 /\ IsOpen(states[t].question)
      <4>1. PICK q \in Questions : /\ q = states[t].question
                                   /\ questions[q].task = t
                                   /\ IsOpen(q) \/ Declined(q)
        BY <2>1, <3>1 DEF Asked
      <4>2. Waiting(q)
        BY <2>1, <3>1, <4>1, AwaitingOnly DEF Waiting
      <4> QED
        BY <2>2, <3>1, <4>1, <4>2
    <3> QED
      BY <2>1, <3>1 DEF Asked, Waiting, NoStrandedTask
  <2>4. AnswersFullyRecorded
    BY <2>1 DEF Filed, Written, AnswersFullyRecorded
  <2>5. DeclineHonoursRecordedPolicy
    <3>1. ASSUME pc \in {"drain", "step"}, NEW q \in Questions, Declined(q)
          PROVE  /\ questions[q].halts => halted_at # 0
                 /\ halted_at = questions[q].task => questions[q].halts
      BY <2>1, <2>2, <3>1 DEF Halted
    <3> QED
      BY <3>1 DEF Declined, DeclineHonoursRecordedPolicy
  <2> QED
    BY <2>3, <2>4, <2>5 DEF AnswersStand
<1> QED
  BY SchedAlways, <1>1, PTL

(* A ceiling and a halt never meet, an answer that was recorded stays, and *)
(* the first task to halt the run stays the one that is named.             *)
THEOREM StopsKeepTheirReasonAlways == Spec => StopsKeepTheirReason
<1> DEFINE Stick == /\ \A q \in Questions : ~IsOpen(q) => questions'[q] = questions[q]
                    /\ halted_at # 0 => halted_at' = halted_at
<1>1. SchedInv => CeilingNotRelabelled
  BY DEF SchedInv, Halted, CeilingNotRelabelled
<1>2. SchedInv /\ [Next]_vars => Stick
  <2> SUFFICES ASSUME SchedInv, [Next]_vars PROVE Stick
    OBVIOUS
  <2>1. TypeInv
    BY DEF SchedInv
  <2>2. \A q \in Questions : ~IsOpen(q) => questions'[q] = questions[q]
    <3>1. CASE Spares \/ Declines
      BY <3>1 DEF Spares, Declines
    <3>2. CASE ParksOne
      BY <2>1, <3>2, AskDoes DEF ParksOne
    <3>3. ASSUME NEW q \in Questions, NEW answer \in {"Answered", "Declined"},
                 Waiting(q), Ingests(q, answer)
          PROVE  \A r \in Questions : ~IsOpen(r) => questions'[r] = questions[r]
      BY <2>1, <3>3, IngestDoes DEF Ingests
    <3> QED
      BY <3>1, <3>2, <3>3, QuestionSteps
  <2>3. halted_at # 0 => halted_at' = halted_at
    <3>1. Silent => halted_at' = halted_at
      BY DEF Silent, Rests, Dies, Rewrites, Picks, Captures, Proceeds,
         Materializes, Tidies, Recovers, Refiles, SameLog
    <3>2. ASSUME NEW q, NEW answer, Ingests(q, answer)
          PROVE  halted_at' = halted_at
      BY <3>2 DEF Ingests, IngestAnswer, QuestionAnswered
    <3>3. ASSUME NEW failure \in Failures, NEW reported \in BOOLEAN,
                 NEW cost \in Costs, SettleFailed(failure, reported, cost)
          PROVE  halted_at' = halted_at
      <4>1. cur \in Task => progress[cur].rung < Rungs[cur]
        BY <3>3 DEF SchedInv, Flight, Judging, SettleFailed, Here
      <4> QED
        BY <2>1, <3>3, <4>1, FailDoes
    <3>4. ASSUME NEW reported \in BOOLEAN, NEW cost \in Costs,
                 SettlePassed(reported, cost)
          PROVE  halted_at' = halted_at
      BY <2>1, <3>4, PassDoes
    <3>5. RecordDefect \/ WaitForPool \/ Finish \/ StopAtBudget \/ StartAttempt
            => halted_at' = halted_at
      BY <2>1, DefectDoes, WaitDoes, FinishDoes, BudgetDoes, StartDoes
    <3>6. RecordCommit \/ Adopt \/ RepairDefect \/ SettleInterrupted \/ FinishResume
            => halted_at' = halted_at
      BY <2>1, RecordDoes, AdoptDoes, RefileDoes, InterruptDoes, ResumeDoes
         DEF SchedInv
    <3>7. FailDeclined \/ NoRung \/ RepairDecline =>
            (halted_at # 0 => halted_at' = halted_at)
      BY <2>1, DeclineDoes, NoRungDoes, SettleDoes DEF Settles
    <3> QED
      BY <2>1, <3>1, <3>2, <3>3, <3>4, <3>5, <3>6, <3>7, Steps
  <2> QED
    BY <2>2, <2>3
<1>3. Spec => [][Stick]_vars
  <2>1. SchedInv /\ [Next]_vars => [Stick]_vars
    BY <1>2
  <2> QED
    BY SchedAlways, <2>1, PTL DEF Spec
<1>4. Spec => []CeilingNotRelabelled
  BY SchedAlways, <1>1, PTL
<1> QED
  BY <1>3, <1>4 DEF StopsKeepTheirReason, AnswersAndHaltStick
-----------------------------------------------------------------------------
(***************************************************************************)
(* Publication: a task is committed exactly once, after the tasks it       *)
(* depends on, and no commit that landed is ever lost, whoever else        *)
(* commits on the branch and wherever the process dies between settlement, *)
(* pin, branch update and record; and what an attempt leaves behind        *)
(* reaches no other attempt.  For any plan, any number of tasks, rungs,    *)
(* crashes and outside commits.                                            *)
(***************************************************************************)

(* The places of the engine's own commits on a branch, and how many of     *)
(* them lie before one of its places.                                      *)
Own(b) == {i \in 1..Len(b) : b[i].id[1] # 0}
Before(b, i) == Cardinality({j \in Own(b) : j < i})

(* The engine's own commits on the branch are exactly these, in order,     *)
(* whatever other commits lie in between.                                  *)
Carries(b, s) ==
  /\ Cardinality(Own(b)) = Len(s)
  /\ \A i \in Own(b) : Before(b, i) < Len(s) /\ b[i] = s[Before(b, i) + 1]
  /\ \A k \in 1..Len(s) : \E i \in Own(b) : Before(b, i) = k - 1
-----------------------------------------------------------------------------
(* Counting the engine's commits: the count is a number, and it grows from *)
(* one of them to the next.                                                *)
LEMMA OwnCounts ==
  ASSUME NEW b \in Seq(Commit)
  PROVE  /\ IsFiniteSet(Own(b)) /\ Cardinality(Own(b)) \in Nat
         /\ \A i \in Nat : Before(b, i) \in Nat
         /\ \A i \in Own(b), j \in Nat : i < j => Before(b, i) < Before(b, j)
<1> Len(b) \in Nat /\ Own(b) \subseteq 1..Len(b)
  BY LenProperties DEF Own
<1>1. IsFiniteSet(Own(b))
  <2>1. IsFiniteSet(1..Len(b))
    BY FS_Interval
  <2> QED
    BY <2>1, FS_Subset
<1>2. ASSUME NEW i \in Nat
      PROVE  IsFiniteSet({j \in Own(b) : j < i}) /\ Before(b, i) \in Nat
  <2>1. {j \in Own(b) : j < i} \in SUBSET Own(b)
    OBVIOUS
  <2>2. IsFiniteSet({j \in Own(b) : j < i})
    BY <1>1, <2>1, FS_Subset
  <2> QED
    BY <2>2, FS_CardinalityType DEF Before
<1>3. ASSUME NEW i \in Own(b), NEW j \in Nat, i < j
      PROVE  Before(b, i) < Before(b, j)
  <2> DEFINE Under(n) == {k \in Own(b) : k < n}
  <2>1. i \in Nat /\ IsFiniteSet(Under(i)) /\ IsFiniteSet(Under(j))
    BY <1>2
  <2>2. Under(i) \subseteq Under(j) /\ i \in Under(j) /\ i \notin Under(i)
    BY <1>3, <2>1
  <2>3. Cardinality(Under(i)) <= Cardinality(Under(j))
        /\ Cardinality(Under(i)) # Cardinality(Under(j))
    <3> HIDE DEF Under
    <3> QED
      BY <2>1, <2>2, FS_Subset
  <2>4. Before(b, i) \in Nat /\ Before(b, j) \in Nat
    BY <1>2, <2>1
  <2> QED
    BY <2>3, <2>4 DEF Before
<1> QED
  BY <1>1, <1>2, <1>3, FS_CardinalityType

(* Counting them once more when the branch is one commit longer.           *)
LEMMA OwnAppend ==
  ASSUME NEW b \in Seq(Commit), NEW c \in Commit
  PROVE  LET longer == Append(b, c) IN
         /\ longer \in Seq(Commit) /\ Len(longer) = Len(b) + 1
         /\ longer[Len(b) + 1] = c
         /\ \A i \in 1..Len(b) : longer[i] = b[i]
         /\ \A i \in 1..Len(b) : Before(longer, i) = Before(b, i)
         /\ Before(longer, Len(b) + 1) = Cardinality(Own(b))
         /\ c.id[1] = 0 => Own(longer) = Own(b)
         /\ c.id[1] # 0 => /\ Own(longer) = Own(b) \union {Len(b) + 1}
                           /\ Cardinality(Own(longer)) = Cardinality(Own(b)) + 1
<1> DEFINE longer == Append(b, c)
<1>1. /\ longer \in Seq(Commit) /\ Len(b) \in Nat /\ Len(longer) = Len(b) + 1
      /\ longer[Len(b) + 1] = c /\ \A i \in 1..Len(b) : longer[i] = b[i]
  BY AppendProperties, LenProperties
<1> HIDE DEF longer
<1>2. Own(longer) = IF c.id[1] = 0 THEN Own(b) ELSE Own(b) \union {Len(b) + 1}
  BY <1>1 DEF Own
<1>3. \A i \in 1..Len(b) : {j \in Own(longer) : j < i} = {j \in Own(b) : j < i}
  BY <1>1, <1>2
<1>4. {j \in Own(longer) : j < Len(b) + 1} = Own(b)
  BY <1>1, <1>2 DEF Own
<1>5. c.id[1] # 0 => Cardinality(Own(longer)) = Cardinality(Own(b)) + 1
  <2>1. IsFiniteSet(Own(b)) /\ Len(b) + 1 \notin Own(b)
    BY <1>1, OwnCounts DEF Own
  <2>2. Cardinality(Own(b) \union {Len(b) + 1}) = Cardinality(Own(b)) + 1
    BY <2>1, FS_AddElement
  <2> QED
    BY <1>2, <2>2
<1>6. (\A i \in 1..Len(b) : Before(longer, i) = Before(b, i))
      /\ Before(longer, Len(b) + 1) = Cardinality(Own(b))
  BY <1>3, <1>4 DEF Before
<1> QED
  BY <1>1, <1>2, <1>5, <1>6 DEF longer

(* A commit of the engine's own continues what the branch carries.         *)
LEMMA CarriesOwn ==
  ASSUME NEW b \in Seq(Commit), NEW s \in Seq(Commit), NEW c \in Commit,
         Carries(b, s), c.id[1] # 0
  PROVE  Carries(Append(b, c), Append(s, c))
<1> DEFINE longer == Append(b, c)
           more == Append(s, c)
<1>1. /\ Len(longer) = Len(b) + 1 /\ longer[Len(b) + 1] = c
      /\ \A i \in 1..Len(b) : longer[i] = b[i] /\ Before(longer, i) = Before(b, i)
      /\ Before(longer, Len(b) + 1) = Cardinality(Own(b))
      /\ Own(longer) = Own(b) \union {Len(b) + 1}
      /\ Cardinality(Own(longer)) = Cardinality(Own(b)) + 1
  BY OwnAppend
<1>2. /\ Len(s) \in Nat /\ Len(more) = Len(s) + 1 /\ more[Len(s) + 1] = c
      /\ \A k \in 1..Len(s) : more[k] = s[k]
  BY AppendProperties, LenProperties
<1>3. Len(b) \in Nat /\ Own(b) \subseteq 1..Len(b)
  BY LenProperties DEF Own
<1>4. \A i \in Own(b) : Before(b, i) \in Nat
  BY <1>3, OwnCounts
<1> HIDE DEF longer, more
<1>5. ASSUME NEW i \in Own(longer)
      PROVE  Before(longer, i) < Len(more) /\ longer[i] = more[Before(longer, i) + 1]
  <2>1. CASE i \in Own(b)
    <3>1. /\ Before(longer, i) = Before(b, i) /\ longer[i] = b[i]
          /\ Before(b, i) < Len(s) /\ b[i] = s[Before(b, i) + 1]
          /\ Before(b, i) \in Nat
      BY <1>1, <1>3, <1>4, <2>1 DEF Carries
    <3>2. Before(b, i) + 1 \in 1..Len(s)
      BY <1>2, <3>1
    <3> QED
      BY <1>2, <3>1, <3>2
  <2>2. CASE i = Len(b) + 1
    BY <1>1, <1>2, <2>2 DEF Carries
  <2> QED
    BY <1>1, <1>5, <2>1, <2>2
<1>6. ASSUME NEW k \in 1..Len(more)
      PROVE  \E i \in Own(longer) : Before(longer, i) = k - 1
  <2>1. CASE k \in 1..Len(s)
    <3>1. PICK i \in Own(b) : Before(b, i) = k - 1
      BY <2>1 DEF Carries
    <3> QED
      BY <1>1, <1>3, <3>1
  <2>2. CASE k = Len(s) + 1
    BY <1>1, <1>2, <2>2 DEF Carries
  <2> QED
    BY <1>2, <2>1, <2>2
<1>7. Carries(longer, more)
  BY <1>1, <1>2, <1>5, <1>6 DEF Carries
<1> QED
  BY <1>7 DEF longer, more

(* A commit of somebody else's changes nothing in what the branch carries, *)
(* neither when it lands nor when it is taken away again.                  *)
LEMMA CarriesOther ==
  ASSUME NEW b \in Seq(Commit), NEW s, NEW c \in Commit, c.id[1] = 0
  PROVE  Carries(Append(b, c), s) <=> Carries(b, s)
<1> DEFINE longer == Append(b, c)
<1>1. /\ Own(longer) = Own(b)
      /\ \A i \in 1..Len(b) : longer[i] = b[i] /\ Before(longer, i) = Before(b, i)
  BY OwnAppend
<1> Own(b) \subseteq 1..Len(b)
  BY DEF Own
<1> HIDE DEF longer
<1>2. Carries(longer, s) <=> Carries(b, s)
  BY <1>1 DEF Carries
<1> QED
  BY <1>2 DEF longer

(* A commit of the engine's own at the tip is the last one carried.        *)
LEMMA CarriesTip ==
  ASSUME NEW b \in Seq(Commit), NEW s \in Seq(Commit), Carries(b, s),
         b # <<>>, b[Len(b)].id[1] # 0
  PROVE  Len(s) \in 1..Len(s) /\ b[Len(b)] = s[Len(s)]
<1>1. Len(b) \in Nat /\ Len(b) \in Own(b) /\ Len(s) \in Nat
  BY EmptySeq, LenProperties DEF Own
<1>2. {j \in Own(b) : j < Len(b)} = Own(b) \ {Len(b)}
  BY <1>1 DEF Own
<1>3. Cardinality(Own(b) \ {Len(b)}) = Len(s) - 1
  BY <1>1, OwnCounts, FS_RemoveElement DEF Carries
<1>4. Before(b, Len(b)) = Len(s) - 1 /\ Before(b, Len(b)) \in Nat
  BY <1>1, <1>2, <1>3, OwnCounts DEF Before
<1> QED
  BY <1>1, <1>4 DEF Carries

(* A commit carried once is not carried twice.                             *)
LEMMA CarriedOnce ==
  ASSUME NEW b \in Seq(Commit), NEW i \in Own(b), NEW j \in Own(b),
         Before(b, i) = Before(b, j)
  PROVE  i = j
<1>1. i \in Nat /\ j \in Nat
  BY LenProperties DEF Own
<1>2. /\ Before(b, i) \in Nat
      /\ i < j => Before(b, i) < Before(b, j)
      /\ j < i => Before(b, j) < Before(b, i)
  BY <1>1, OwnCounts
<1> QED
  BY <1>1, <1>2

(* Where nobody else committed, the branch is what it carries.             *)
LEMMA CarriesAll ==
  ASSUME NEW b \in Seq(Commit), NEW s \in Seq(Commit), Carries(b, s),
         \A i \in 1..Len(b) : b[i].id[1] # 0
  PROVE  b = s
<1>1. Len(b) \in Nat /\ Len(s) \in Nat /\ Own(b) = 1..Len(b)
  BY LenProperties DEF Own
<1>2. Len(s) = Len(b)
  <2>1. Cardinality(1..Len(b)) = IF 1 > Len(b) THEN 0 ELSE Len(b) - 1 + 1
    <3>1. 1 \in Int /\ Len(b) \in Int
      BY <1>1
    <3> QED
      BY <3>1, FS_Interval
  <2>2. Cardinality(1..Len(b)) = Len(s)
    BY <1>1 DEF Carries
  <2> QED
    BY <1>1, <2>1, <2>2
<1>3. ASSUME NEW i \in 1..Len(b)
      PROVE  b[i] = s[i]
  <2>1. {j \in Own(b) : j < i} = 1..(i - 1)
    BY <1>1
  <2>2. Before(b, i) = i - 1
    <3>1. i - 1 \in Int
      BY <1>1
    <3>2. Cardinality(1..(i - 1)) = IF 1 > i - 1 THEN 0 ELSE (i - 1) - 1 + 1
      BY <3>1, FS_Interval
    <3>3. Cardinality(1..(i - 1)) = i - 1
      BY <1>1, <3>2
    <3>4. Before(b, i) = Cardinality(1..(i - 1))
      BY <2>1 DEF Before
    <3> QED
      BY <3>3, <3>4
  <2>3. b[i] = s[Before(b, i) + 1]
    BY <1>1 DEF Carries
  <2>4. (i - 1) + 1 = i
    BY <1>1
  <2> QED
    BY <2>2, <2>3, <2>4
<1> QED
  BY <1>2, <1>3, SeqEqual

(* A sequence without its last element.                                    *)
LEMMA ButLast ==
  ASSUME NEW S, NEW b \in Seq(S), b # <<>>,
         NEW front, front = SubSeq(b, 1, Len(b) - 1)
  PROVE  /\ front \in Seq(S) /\ b = Append(front, b[Len(b)])
         /\ Len(front) = Len(b) - 1
         /\ \A i \in 1..Len(front) : front[i] = b[i]
<1>1. Len(b) \in Nat /\ Len(b) >= 1 /\ Len(b) - 1 \in Int /\ 1 \in Int
  BY LenProperties, EmptySeq
<1>2. \A i \in 1..Len(b) : b[i] \in S
  BY ElementOfSeq
<1>3. \A i \in 1..(Len(b) - 1) : b[i] \in S
  BY <1>1, <1>2
<1>4. /\ front \in Seq(S)
      /\ Len(front) = IF 1 <= Len(b) - 1 THEN Len(b) - 1 - 1 + 1 ELSE 0
      /\ \A i \in 1..(Len(b) - 1 - 1 + 1) : front[i] = b[1 + i - 1]
  BY <1>1, <1>3, SubSeqProperties
<1>5. Len(front) = Len(b) - 1 /\ \A i \in 1..Len(front) : front[i] = b[i]
  <2>1. Len(front) = Len(b) - 1
    <3>1. PICK n \in Nat : n = Len(b) - 1
      BY <1>1
    <3>2. Len(front) = IF 1 <= n THEN n - 1 + 1 ELSE 0
      BY <1>4, <3>1
    <3> QED
      BY <3>1, <3>2
  <2>2. ASSUME NEW i \in 1..Len(front)
        PROVE  front[i] = b[i]
    <3>1. i \in 1..(Len(b) - 1 - 1 + 1) /\ 1 + i - 1 = i
      BY <1>1, <2>1
    <3> QED
      BY <1>4, <3>1
  <2> QED
    BY <2>1, <2>2
<1>6. /\ Append(front, b[Len(b)]) \in Seq(S)
      /\ Len(Append(front, b[Len(b)])) = Len(b)
      /\ \A i \in 1..Len(b) : Append(front, b[Len(b)])[i] = b[i]
  BY <1>1, <1>2, <1>4, <1>5, AppendProperties
<1>7. b = Append(front, b[Len(b)])
  BY <1>6, SeqEqual
<1> QED
  BY <1>4, <1>5, <1>7

-----------------------------------------------------------------------------
(* How far the publication of the settlement the log ends with got: the    *)
(* branch carries what the log records, or that and the prepared commit.   *)
Unpublished == Carries(branch, recorded)
Published   == \E c \in unrecorded : Carries(branch, Append(recorded, c))

(* A task an attempt may be made for: its dependencies are all committed.  *)
Based(t) == t \in Task /\ \A d \in Deps[t] : states[d].is = "Done"
Opening(t) == Based(t) /\ states[t].is = "Pending"

(* A commit that is still to be recorded is that of a task the log does    *)
(* not have yet; so it is not the commit it stands on, and resume can tell *)
(* from the tip alone whether it was published.                            *)
Fresh(c) == c \in Commit /\ Opening(c.id[1]) /\ c.parent # c.id

(* The log's commits are those of the tasks that are Done, one each.       *)
OneCommitPerTask ==
  /\ \A i \in 1..Len(recorded) : /\ recorded[i].id[1] \in Task
                                 /\ states[recorded[i].id[1]].is = "Done"
  /\ \A t \in Task : states[t].is = "Done" =>
       \E i \in 1..Len(recorded) : recorded[i].id[1] = t
  /\ \A i, j \in 1..Len(recorded) :
       recorded[i].id[1] = recorded[j].id[1] => i = j

(* The commits of others are numbered, and there are no more of them than  *)
(* the bound allows.                                                       *)
OthersCounted ==
  /\ outside \in 0..MaxOutside
  /\ \A i \in 1..Len(branch) : branch[i].id[1] = 0 => branch[i].id[2] \in 1..outside

(* The inductive invariant: between settlement, branch update and          *)
(* task_committed, pc says how far the publication got; a crash forgets pc *)
(* but not that the branch carries one of the two, from which resume finds *)
(* out again.                                                              *)
PubInv ==
  /\ TypeInv
  /\ Unpublished \/ Published
  /\ OneCommitPerTask /\ OthersCounted /\ DependenciesFirst
  /\ \A c \in unrecorded : unrecorded = {c} /\ Fresh(c)
  /\ pc \in {"step", "attempt", "verify", "settle"} => Opening(cur)
  /\ pc \in {"materialize", "tidy"} => Based(cur)
  /\ pc \in Holding =>
       \E c \in candidate : candidate = {c} /\ c.id[1] = cur /\ Fresh(c)
  /\ pc \in Quiet => unrecorded = {}
  /\ pc = "advance" => unrecorded = candidate /\ Unpublished
  /\ pc \in {"unpin", "scrub", "record"} => unrecorded = candidate /\ Published
  /\ pc = "republish" => unrecorded # {} /\ Unpublished
  /\ pc \in {"recheck", "reunpin", "adopt"} => Published
  /\ pc \in {"orphans", "residue"} => Published \/ unrecorded = {}

(* What is on the branch and who may be worked on, seen together.          *)
LEMMA SameRecord ==
  ASSUME UNCHANGED <<branch, recorded, outside>>,
         \A t \in Task : states'[t].is = "Done" <=> states[t].is = "Done"
  PROVE  /\ Unpublished' <=> Unpublished
         /\ unrecorded' = unrecorded => (Published' <=> Published)
         /\ OneCommitPerTask => OneCommitPerTask'
         /\ OthersCounted => OthersCounted'
         /\ DependenciesFirst => DependenciesFirst'
         /\ \A t : Based(t) => Based(t)'
<1>1. /\ Unpublished' <=> Unpublished
      /\ unrecorded' = unrecorded => (Published' <=> Published)
  BY DEF Unpublished, Published
<1>2. OneCommitPerTask => OneCommitPerTask'
  BY DEF OneCommitPerTask
<1>3. (OthersCounted => OthersCounted') /\ (DependenciesFirst => DependenciesFirst')
  BY DEF OthersCounted, DependenciesFirst
<1>4. \A t : Based(t) => Based(t)'
  BY DepsAssumption DEF Based
<1> QED
  BY <1>1, <1>2, <1>3, <1>4

(* A step between quiet places that publishes nothing and completes no     *)
(* task.                                                                   *)
LEMMA QuietStep ==
  ASSUME PubInv, TypeInv', pc \in Quiet, pc' \in Quiet \union {"down"},
         unrecorded' = {}, branch' = branch, recorded' = recorded,
         outside' = outside,
         \A t \in Task : states'[t].is = "Done" <=> states[t].is = "Done",
         pc' \in {"step", "attempt", "verify", "settle"} => Opening(cur)',
         pc' \in {"materialize", "tidy"} => Based(cur)',
         pc' \in {"verify", "settle"} =>
           \E c \in candidate' : candidate' = {c} /\ c.id[1] = cur' /\ Fresh(c)'
  PROVE  PubInv'
<1>1. unrecorded = {} /\ Unpublished
  BY DEF PubInv, Published
<1>2. Unpublished' /\ OneCommitPerTask' /\ OthersCounted' /\ DependenciesFirst'
  BY <1>1, SameRecord DEF PubInv
<1> QED
  BY <1>1, <1>2 DEF PubInv, Quiet, Holding, DrainStates

(* A step that leaves branch, log and task states alone and gives up the   *)
(* process.                                                                *)
LEMMA GoneDown ==
  ASSUME PubInv, TypeInv', pc' = "down",
         UNCHANGED <<states, branch, recorded, unrecorded, outside>>
  PROVE  PubInv'
<1>1. \A c : Fresh(c)' <=> Fresh(c)
  BY DEF Fresh, Opening, Based
<1>2. /\ Unpublished' \/ Published'
      /\ OneCommitPerTask' /\ OthersCounted' /\ DependenciesFirst'
  BY SameRecord DEF PubInv
<1> QED
  BY <1>1, <1>2 DEF PubInv, Quiet, Holding, DrainStates

(* A step that changes nothing the invariant speaks of, but may put a      *)
(* commit of somebody else on the branch.                                  *)
LEMMA Untouched ==
  ASSUME PubInv, TypeInv',
         Unpublished => Unpublished', Published => Published',
         OthersCounted', DependenciesFirst',
         UNCHANGED <<states, recorded, unrecorded, pc, cur, candidate>>
  PROVE  PubInv'
<1>1. \A c : Fresh(c)' <=> Fresh(c)
  BY DEF Fresh, Opening, Based
<1>2. /\ OneCommitPerTask'
      /\ \A t : (Opening(t)' <=> Opening(t)) /\ (Based(t)' <=> Based(t))
  BY DEF PubInv, OneCommitPerTask, Opening, Based
<1> QED
  BY <1>1, <1>2 DEF PubInv

(* The prepared commit lands on the branch, and stands on the commits of   *)
(* the tasks it depends on.                                                *)
LEMMA Lands ==
  ASSUME PubInv, Unpublished, NEW c \in unrecorded, branch' = Append(branch, c),
         UNCHANGED <<states, recorded, unrecorded, outside>>
  PROVE  /\ Published' /\ OneCommitPerTask' /\ OthersCounted' /\ DependenciesFirst'
         /\ \A d : Fresh(d)' <=> Fresh(d)
<1>1. /\ branch \in Seq(Commit) /\ recorded \in Seq(Commit) /\ c \in Commit
      /\ Fresh(c) /\ c.id[1] \in Task /\ c.id[1] # 0
  BY DEF PubInv, TypeInv, TypeOK, RunStateTypeOK, Fresh, Opening, Based, Task
<1>2. Carries(Append(branch, c), Append(recorded, c))
  BY <1>1, CarriesOwn DEF Unpublished
<1>3. Published'
  BY <1>2 DEF Published
<1>4. /\ Len(branch) \in Nat /\ Len(branch') = Len(branch) + 1
      /\ \A i \in 1..Len(branch) : branch'[i] = branch[i]
      /\ branch'[Len(branch) + 1] = c
  BY <1>1, AppendProperties, LenProperties
<1>5. OthersCounted'
  BY <1>1, <1>4 DEF PubInv, OthersCounted
<1>6. ASSUME NEW d \in Deps[c.id[1]]
      PROVE  \E j \in 1..Len(branch) : branch[j].id[1] = d
  <2>1. d \in Task /\ states[d].is = "Done"
    BY <1>1, <1>6, DepsAssumption DEF Fresh, Opening, Based
  <2>2. PICK k \in 1..Len(recorded) : recorded[k].id[1] = d
    BY <2>1 DEF PubInv, OneCommitPerTask
  <2>3. PICK i \in Own(branch) : Before(branch, i) = k - 1
    BY DEF Unpublished, Carries
  <2>4. k \in Nat /\ (k - 1) + 1 = k
    OBVIOUS
  <2>5. branch[i] = recorded[k]
    BY <2>3, <2>4 DEF Unpublished, Carries
  <2> QED
    BY <2>2, <2>5 DEF Own
<1>7. DependenciesFirst'
  <2> SUFFICES ASSUME NEW i \in 1..Len(branch'), branch'[i].id[1] \in Task,
                      NEW d \in Deps[branch'[i].id[1]]
               PROVE  \E j \in 1..(i - 1) : branch'[j].id[1] = d
    BY DEF DependenciesFirst
  <2>1. CASE i \in 1..Len(branch)
    <3>1. PICK j \in 1..(i - 1) : branch[j].id[1] = d
      BY <1>4, <2>1 DEF PubInv, DependenciesFirst
    <3> QED
      BY <1>4, <2>1, <3>1
  <2>2. CASE i = Len(branch) + 1
    <3>1. PICK j \in 1..Len(branch) : branch[j].id[1] = d
      BY <1>4, <1>6, <2>2
    <3> QED
      BY <1>4, <2>2, <3>1
  <2> QED
    BY <1>4, <2>1, <2>2
<1>8. OneCommitPerTask' /\ \A d : Fresh(d)' <=> Fresh(d)
  BY DEF PubInv, OneCommitPerTask, Fresh, Opening, Based
<1> QED
  BY <1>3, <1>5, <1>7, <1>8

(* task_committed closes the gap, whether written by the process that      *)
(* published or by a later resume.                                         *)
LEMMA GapClosed ==
  ASSUME PubInv, TypeInv', NEW c, Fresh(c), TaskCommitted(c.id[1], c),
         Carries(branch, Append(recorded, c)),
         branch' = branch, outside' = outside, pc' \in {"drain", "repair"}
  PROVE  PubInv'
<1>1. /\ recorded' = Append(recorded, c) /\ unrecorded' = {}
      /\ states' = [states EXCEPT ![c.id[1]] = Plain("Done")]
  BY DEF TaskCommitted
<1>2. /\ recorded \in Seq(Commit) /\ c \in Commit /\ c.id[1] \in Task
      /\ states \in [Task -> TaskState] /\ states[c.id[1]].is = "Pending"
  BY DEF PubInv, TypeInv, TypeOK, RunStateTypeOK, Fresh, Opening,
     Based
<1>3. /\ Len(recorded) \in Nat
      /\ Len(recorded') = Len(recorded) + 1
      /\ \A i \in 1..Len(recorded) : recorded'[i] = recorded[i]
      /\ recorded'[Len(recorded) + 1] = c
  BY <1>1, <1>2, AppendProperties, LenProperties
<1>4. \A t \in Task : states'[t].is = "Done" <=>
                      states[t].is = "Done" \/ t = c.id[1]
  BY <1>1, <1>2 DEF Plain
<1>5. \A i \in 1..Len(recorded) : recorded[i].id[1] # c.id[1]
  BY <1>2 DEF PubInv, OneCommitPerTask
<1>6. OneCommitPerTask'
  <2>1. ASSUME NEW i \in 1..Len(recorded')
        PROVE  recorded'[i].id[1] \in Task /\ states'[recorded'[i].id[1]].is = "Done"
    <3>1. CASE i \in 1..Len(recorded)
      BY <1>3, <1>4, <3>1 DEF PubInv, OneCommitPerTask
    <3>2. CASE i = Len(recorded) + 1
      BY <1>2, <1>3, <1>4, <3>2
    <3> QED
      BY <1>3, <3>1, <3>2
  <2>2. ASSUME NEW t \in Task, states'[t].is = "Done"
        PROVE  \E i \in 1..Len(recorded') : recorded'[i].id[1] = t
    <3>1. CASE states[t].is = "Done"
      <4>1. PICK i \in 1..Len(recorded) : recorded[i].id[1] = t
        BY <3>1 DEF PubInv, OneCommitPerTask
      <4>2. i \in 1..Len(recorded')
        BY <1>3
      <4> QED
        BY <1>3, <4>1, <4>2
    <3>2. CASE t = c.id[1]
      <4>1. Len(recorded) + 1 \in 1..Len(recorded')
        BY <1>3
      <4> QED
        BY <1>3, <3>2, <4>1
    <3> QED
      BY <1>4, <2>2, <3>1, <3>2
  <2>3. ASSUME NEW i \in 1..Len(recorded'), NEW j \in 1..Len(recorded'),
               recorded'[i].id[1] = recorded'[j].id[1]
        PROVE  i = j
    <3>1. /\ i \in 1..Len(recorded) \/ i = Len(recorded) + 1
          /\ j \in 1..Len(recorded) \/ j = Len(recorded) + 1
      BY <1>3
    <3>2. CASE i \in 1..Len(recorded) /\ j \in 1..Len(recorded)
      BY <1>3, <2>3, <3>2 DEF PubInv, OneCommitPerTask
    <3>3. CASE i \in 1..Len(recorded) /\ j = Len(recorded) + 1
      BY <1>3, <1>5, <2>3, <3>3
    <3>4. CASE i = Len(recorded) + 1 /\ j \in 1..Len(recorded)
      BY <1>3, <1>5, <2>3, <3>4
    <3> QED
      BY <3>1, <3>2, <3>3, <3>4
  <2> QED
    BY <2>1, <2>2, <2>3 DEF OneCommitPerTask
<1>7. Unpublished'
  BY <1>1 DEF Unpublished
<1>8. OthersCounted' /\ DependenciesFirst'
  BY DEF PubInv, OthersCounted, DependenciesFirst
<1> QED
  BY <1>1, <1>6, <1>7, <1>8 DEF PubInv, Quiet, Holding, DrainStates

(* The tip, seen from the log: the base, the commit of somebody else, or   *)
(* the last commit the branch carries.                                     *)
LEMMA TipIs ==
  ASSUME PubInv, NEW s \in Seq(Commit), Carries(branch, s)
  PROVE  \/ Tip = Base /\ s = <<>>
         \/ Tip[1] = 0 /\ Tip # Base
         \/ Len(s) \in 1..Len(s) /\ Tip = s[Len(s)].id
<1>1. branch \in Seq(Commit) /\ Len(branch) \in Nat
  BY LenProperties DEF PubInv, TypeInv, TypeOK
<1>2. CASE branch = <<>>
  <2>1. Own(branch) = {}
    BY <1>1, <1>2, EmptySeq DEF Own
  <2>2. Len(s) = 0
    BY <2>1, FS_EmptySet DEF Carries
  <2> QED
    BY <1>2, <2>2, EmptySeq DEF Tip, TipOf
<1>3. CASE branch # <<>> /\ branch[Len(branch)].id[1] = 0
  <2>1. Len(branch) \in 1..Len(branch) /\ Tip = branch[Len(branch)].id
    BY <1>1, <1>3, EmptySeq DEF Tip, TipOf
  <2>2. Tip[2] \in 1..outside
    BY <1>3, <2>1 DEF PubInv, OthersCounted
  <2> QED
    BY <1>3, <2>1, <2>2 DEF Base
<1>4. CASE branch # <<>> /\ branch[Len(branch)].id[1] # 0
  BY <1>1, <1>4, CarriesTip DEF Tip, TipOf
<1> QED
  BY <1>2, <1>3, <1>4

(* So the tip tells a published commit from an unpublished one.            *)
LEMMA Tips ==
  ASSUME PubInv
  PROVE  /\ \/ RecordedHead = Base
            \/ \E t \in Task : states[t].is = "Done" /\ RecordedHead[1] = t
         /\ Unpublished =>
              Tip[1] = 0 \/ \E t \in Task : states[t].is = "Done" /\ Tip[1] = t
         /\ Published =>
              (Tip[1] = 0 /\ Tip # Base) \/ \E c \in unrecorded : Tip = c.id
<1>1. recorded \in Seq(Commit) /\ unrecorded \in SUBSET Commit
  BY DEF PubInv, TypeInv, TypeOK, RunStateTypeOK
<1>2. Len(recorded) \in 1..Len(recorded) =>
        \E t \in Task : states[t].is = "Done" /\ recorded[Len(recorded)].id[1] = t
  BY DEF PubInv, OneCommitPerTask
<1>3. \/ RecordedHead = Base
      \/ \E t \in Task : states[t].is = "Done" /\ RecordedHead[1] = t
  <2>1. CASE recorded = <<>>
    BY <2>1 DEF RecordedHead, TipOf
  <2>2. CASE recorded # <<>>
    <3>1. Len(recorded) \in 1..Len(recorded)
      BY <1>1, <2>2, EmptySeq, LenProperties
    <3> QED
      BY <1>2, <2>2, <3>1 DEF RecordedHead, TipOf
  <2> QED
    BY <2>1, <2>2
<1>4. ASSUME Unpublished
      PROVE  Tip[1] = 0 \/ \E t \in Task : states[t].is = "Done" /\ Tip[1] = t
  <2>1. \/ Tip = Base \/ Tip[1] = 0
        \/ Len(recorded) \in 1..Len(recorded) /\ Tip = recorded[Len(recorded)].id
    BY <1>1, <1>4, TipIs DEF Unpublished
  <2> QED
    BY <1>2, <2>1 DEF Base
<1>5. ASSUME Published
      PROVE  (Tip[1] = 0 /\ Tip # Base) \/ \E c \in unrecorded : Tip = c.id
  <2>1. PICK c \in unrecorded : Carries(branch, Append(recorded, c))
    BY <1>5 DEF Published
  <2> DEFINE s == Append(recorded, c)
  <2>2. s \in Seq(Commit) /\ Len(s) = Len(recorded) + 1 /\ Len(recorded) \in Nat
        /\ s[Len(recorded) + 1] = c /\ Carries(branch, s)
    BY <1>1, <2>1, AppendProperties, LenProperties
  <2> HIDE DEF s
  <2>3. s # <<>> /\ s[Len(s)] = c
    BY <2>2, EmptySeq
  <2> QED
    BY <2>2, <2>3, TipIs
<1> QED
  BY <1>3, <1>4, <1>5

(* An empty branch and an empty log.                                       *)
LEMMA PubInvInit == Init => PubInv
<1> SUFFICES ASSUME Init PROVE PubInv
  OBVIOUS
<1>1. TypeInv
  BY TypeInvInit
<1>2. /\ branch = <<>> /\ unrecorded = {} /\ pc = "drain" /\ outside = 0
      /\ recorded = <<>> /\ \A t \in Task : states[t].is = "Pending"
  BY DEF Init, RunStateInit, Plain
<1>3. Unpublished
  <2>1. Own(branch) = {} /\ Len(recorded) = 0
    BY <1>2 DEF Own
  <2> QED
    BY <2>1, FS_EmptySet DEF Unpublished, Carries
<1>4. OneCommitPerTask /\ OthersCounted /\ DependenciesFirst
  BY <1>2, BoundAssumption DEF OneCommitPerTask, OthersCounted, DependenciesFirst
<1> QED
  BY <1>1, <1>2, <1>3, <1>4 DEF PubInv, Quiet, Holding, DrainStates

(* A task that fails was not Done, and no other task changes.              *)
LEMMA NoneCompleted ==
  ASSUME RunStateTypeOK, NEW t, NEW halts, states[t].is # "Done",
         TaskFailed(t, halts)
  PROVE  \A u \in Task : states'[u].is = "Done" <=> states[u].is = "Done"
<1>1. states' = [states EXCEPT ![t] = Plain("Failed")] /\ DOMAIN states = Task
  BY DEF TaskFailed, RunStateTypeOK
<1>2. Plain("Failed").is = "Failed"
  BY DEF Plain
<1> QED
  BY <1>1, <1>2

(* The steps of the drain loop.                                            *)
LEMMA DrainPublishes ==
  ASSUME PubInv, Drain
  PROVE  PubInv'
<1>1. TypeInv /\ TypeInv' /\ RunStateTypeOK
  BY DrainType DEF PubInv, TypeInv, TypeOK
<1>2. ASSUME NEW q, NEW answer \in {"Answered", "Declined"},
             IngestAnswer(q, answer), pc = "drain"
      PROVE  PubInv'
  <2>1. \A t \in Task : states'[t].is = "Done" <=> states[t].is = "Done"
    BY <1>1, <1>2 DEF IngestAnswer, QuestionAnswered, RunStateTypeOK,
       TaskState, AwaitingInput, Plain
  <2>2. /\ pc' = "defect" /\ unrecorded' = {}
        /\ UNCHANGED <<branch, recorded, outside>>
    BY <1>2 DEF IngestAnswer, QuestionAnswered, gitVars, countVars
  <2> QED
    BY <1>1, <1>2, <2>1, <2>2, QuietStep DEF Quiet, DrainStates
<1>3. CASE SweepAnswers
  <2>1. \E q : \E answer \in {"Answered", "Declined"} : IngestAnswer(q, answer)
    <3>1. Lowest(Sweepable) \in Sweepable
      <4>1. Sweepable \in SUBSET Nat /\ Sweepable # {}
        BY <1>1, <1>3, LenProperties DEF SweepAnswers, Sweepable, Questions,
           RunStateTypeOK
      <4> QED
        BY <4>1, LowestIn
    <3>2. answers[Lowest(Sweepable)] \in {"Answered", "Declined"}
      <4>1. Len(questions) \in Nat /\ Len(questions) <= MaxQuestions
        BY <1>1, LenProperties DEF TypeInv, RunStateTypeOK
      <4>2. Lowest(Sweepable) \in QuestionIx /\ answers[Lowest(Sweepable)] # "none"
        BY <3>1, <4>1, BoundAssumption DEF Sweepable, QuestionIx, Questions
      <4>3. answers \in [QuestionIx -> {"none", "Answered", "Declined"}]
        BY <1>1 DEF TypeInv, TypeOK
      <4> QED
        BY ONLY <4>2, <4>3
    <3> QED
      BY <1>3, <3>2 DEF SweepAnswers
  <2> QED
    BY <1>2, <1>3, <2>1 DEF SweepAnswers
<1>4. CASE RecordDefect
  <2>1. /\ pc = "defect" /\ pc' \in {"decline", "rewrite"} /\ unrecorded' = {}
        /\ UNCHANGED <<states, branch, recorded, outside>>
    BY <1>4 DEF RecordDefect, DesignDefect, Goto, gitVars, countVars
  <2> QED
    BY <1>1, <2>1, QuietStep DEF Quiet, DrainStates
<1>5. CASE FailDeclined
  <2>1. /\ pc = "decline" /\ pc' = "rewrite"
        /\ UNCHANGED <<branch, recorded, outside>>
    BY <1>5 DEF FailDeclined, Goto, gitVars, logVars, countVars, TaskFailed
  <2>2. unrecorded' = {}
    BY <1>5, <2>1 DEF FailDeclined, logVars, TaskFailed, PubInv, Quiet,
       DrainStates
  <2>3. \A t \in Task : states'[t].is = "Done" <=> states[t].is = "Done"
    <3> DEFINE declined == questions[ingesting].task
    <3>1. CASE UNCHANGED logVars
      BY <3>1 DEF logVars
    <3>2. CASE /\ states[declined] = AwaitingInput(ingesting)
               /\ TaskFailed(declined, config.halts)
      <4>1. states[declined].is = "AwaitingInput"
        BY <3>2 DEF AwaitingInput
      <4> QED
        BY <1>1, <3>2, <4>1, NoneCompleted
    <3> QED
      BY <1>5, <3>1, <3>2 DEF FailDeclined
  <2> QED
    BY <1>1, <2>1, <2>2, <2>3, QuietStep DEF Quiet, DrainStates
<1>6. CASE \/ RewritePayload
           \/ \E answer \in {"Answered", "Declined", "Unanswered"} : Ask(answer)
           \/ \E r \in reply : ReplyAbsorbed(r) \/ NobodyReplied(r)
  <2>1. /\ pc \in {"rewrite", "drain"} /\ pc' = "drain"
        /\ UNCHANGED <<states, branch, recorded, unrecorded, outside>>
    BY <1>6 DEF RewritePayload, Ask, ReplyAbsorbed, NobodyReplied, Swept,
       BackToDrain, gitVars, logVars, countVars, HardBlock, NothingToSweep
  <2>2. unrecorded' = {}
    BY <2>1 DEF PubInv, Quiet, DrainStates
  <2> QED
    BY <1>1, <2>1, <2>2, QuietStep DEF Quiet, DrainStates
<1>7. CASE StepTask
  <2>1. cur' \in Ready
    <3>1. Ready \in SUBSET Nat /\ Ready # {} /\ Ready \subseteq Task
      BY <1>7 DEF StepTask, Ready, Task
    <3>2. Lowest(Ready) \in Ready
      BY <3>1, LowestIn
    <3> QED
      BY <1>7, <3>2 DEF StepTask
  <2>2. /\ pc = "drain" /\ pc' = "step"
        /\ UNCHANGED <<states, branch, recorded, unrecorded, outside>>
    BY <1>7 DEF StepTask, NothingToSweep, gitVars, logVars, countVars
  <2>3. unrecorded' = {}
    BY <2>2 DEF PubInv, Quiet, DrainStates
  <2>4. Opening(cur)'
    BY <2>1, <2>2 DEF Ready, Opening, Based
  <2> QED
    BY <1>1, <2>2, <2>3, <2>4, QuietStep DEF Quiet, DrainStates
<1>8. CASE WaitForPool
  <2>1. /\ pc = "drain" /\ pc' = "drain" /\ unrecorded' = {}
        /\ UNCHANGED <<branch, recorded, outside>>
    BY <1>8 DEF WaitForPool, NothingToSweep, DeferWaitElapsed, procVars,
       gitVars, countVars
  <2>2. \A t \in Task : states'[t].is = "Done" <=> states[t].is = "Done"
    BY <1>8 DEF WaitForPool, DeferWaitElapsed, WakeDeferred, Plain
  <2> QED
    BY <1>1, <2>1, <2>2, QuietStep DEF Quiet, DrainStates
<1>9. CASE Finish
  <2>1. /\ pc = "drain" /\ pc' = "down" /\ unrecorded' = {}
        /\ UNCHANGED <<states, branch, recorded, outside>>
    BY <1>9 DEF Finish, HardBlock, NothingToSweep, RunFinished, ForgetProcess,
       gitVars, countVars
  <2> QED
    BY <1>1, <2>1, QuietStep DEF Quiet, DrainStates
<1>10. ASSUME NEW r \in reply, ReplyLands(r)
       PROVE  PubInv'
  <2>1. /\ IngestAnswer(r.question, r.answer) /\ pc = "drain"
        /\ r.answer \in {"Answered", "Declined"}
    BY <1>1, <1>10 DEF ReplyLands, Swept, Reply, TypeInv, TypeOK
  <2> QED
    BY <1>2, <2>1
<1> QED
  BY <1>3, <1>4, <1>5, <1>6, <1>7, <1>8, <1>9, <1>10 DEF Drain

(* The candidate, where the process holds one.                             *)
LEMMA Held ==
  ASSUME PubInv, pc \in Holding
  PROVE  /\ candidate = {TheCandidate} /\ TheCandidate.id[1] = cur
         /\ Fresh(TheCandidate)
  BY DEF PubInv, TheCandidate

(* The steps of one task.                                                  *)
LEMMA StepPublishes ==
  ASSUME PubInv, Step
  PROVE  PubInv'
<1>1. TypeInv /\ TypeInv' /\ RunStateTypeOK
  BY StepType DEF PubInv, TypeInv, TypeOK
<1>2. cur # 0 => cur \in Task
  BY <1>1, NTasksAssumption DEF TypeInv, TypeOK, Task
<1>3. CASE NoRung
  <2>1. \A t \in Task : states'[t].is = "Done" <=> states[t].is = "Done"
    <3>1. states[cur].is # "Done" /\ TaskFailed(cur, config.halts)
      BY <1>3 DEF NoRung, Here, PubInv, Opening
    <3> QED
      BY <1>1, <3>1, NoneCompleted
  <2>2. /\ pc = "step" /\ pc' = "drain" /\ unrecorded' = {}
        /\ UNCHANGED <<branch, recorded, outside>>
    BY <1>3 DEF NoRung, Here, TaskFailed, BackToDrain, gitVars, countVars
  <2> QED
    BY <1>1, <2>1, <2>2, QuietStep DEF Quiet, DrainStates
<1>4. CASE StopAtBudget
  <2>1. /\ pc = "step" /\ pc' = "drain" /\ unrecorded' = {}
        /\ UNCHANGED <<states, branch, recorded, outside>>
    BY <1>4 DEF StopAtBudget, Here, BudgetExceeded, BackToDrain, countVars
  <2> QED
    BY <1>1, <2>1, QuietStep DEF Quiet, DrainStates
<1>5. CASE StartAttempt
  <2>1. /\ pc = "step" /\ pc' = "attempt" /\ unrecorded' = {}
        /\ UNCHANGED <<states, branch, recorded, outside, cur>>
    BY <1>5 DEF StartAttempt, Here, AttemptStarted, Goto, gitVars, countVars
  <2>2. Opening(cur)'
    BY <2>1 DEF PubInv, Opening, Based
  <2> QED
    BY <1>1, <2>1, <2>2, QuietStep DEF Quiet, DrainStates
<1>6. ASSUME NEW edits \in BOOLEAN, RunAgent(edits)
      PROVE  PubInv'
  <2>1. /\ pc = "attempt" /\ pc' = "verify"
        /\ UNCHANGED <<states, branch, recorded, unrecorded, outside, cur>>
    BY <1>6 DEF RunAgent, Here, logVars, countVars
  <2>2. Opening(cur) /\ unrecorded = {} /\ Unpublished
    BY <2>1 DEF PubInv, Quiet, Published
  <2>3. Tip # AttemptId(cur)
    BY <2>2, Tips DEF AttemptId, Opening, Based, Task
  <2>4. PICK c : candidate' = {c} /\ c.id = AttemptId(cur) /\ c.parent = Tip
    <3>1. PICK held :
            candidate' = {[id |-> AttemptId(cur), parent |-> Tip, edits |-> held]}
      BY <1>6 DEF RunAgent
    <3> DEFINE made == [id |-> AttemptId(cur), parent |-> Tip, edits |-> held]
    <3>2. made.id = AttemptId(cur) /\ made.parent = Tip /\ candidate' = {made}
      BY <3>1
    <3> HIDE DEF made
    <3> QED
      BY <3>2
  <2>5. c \in Commit
    BY <1>1, <2>4 DEF TypeInv, TypeOK
  <2>6. c.id[1] = cur' /\ Fresh(c)'
    BY <2>1, <2>2, <2>3, <2>4, <2>5 DEF Fresh, Opening, Based, AttemptId
  <2>7. Opening(cur)'
    BY <2>1, <2>2 DEF Opening, Based
  <2> QED
    BY <1>1, <2>1, <2>2, <2>4, <2>6, <2>7, QuietStep DEF Quiet, DrainStates
<1>7. ASSUME NEW failure \in Failures, NEW reported \in BOOLEAN,
             NEW cost \in Costs, SettleFailed(failure, reported, cost)
      PROVE  PubInv'
  <2>1. PICK next, asks, refund :
          AttemptFailed(cur, reported, cost, next, asks, refund, config.halts)
    BY <1>7 DEF SettleFailed
  <2>2. /\ pc \in {"verify"} /\ pc' \in {"materialize", "tidy"}
        /\ UNCHANGED <<branch, outside, cur>>
    BY <1>7 DEF SettleFailed, Here, gitVars, countVars
  <2>3. unrecorded' = {} /\ recorded' = recorded
    BY <2>1 DEF AttemptFailed
  <2>4. \A t \in Task : states'[t].is = "Done" <=> states[t].is = "Done"
    <3>1. states[cur].is = "Pending"
      BY <2>2 DEF PubInv, Opening
    <3>2. PICK s : states' = [states EXCEPT ![cur] = s] /\ s.is # "Done"
      <4> DEFINE s == CASE asks # {} -> AwaitingInput(Len(questions) + 1)
                        [] next.step = "Defer" -> Plain("Deferred")
                        [] next.step = "Fail" -> Plain("Failed")
                        [] OTHER -> states[cur]
      <4>1. states' = [states EXCEPT ![cur] = s]
        BY <2>1 DEF AttemptFailed
      <4>2. s.is # "Done"
        BY <3>1 DEF AwaitingInput, Plain
      <4> HIDE DEF s
      <4> QED
        BY <4>1, <4>2
    <3>3. DOMAIN states = Task
      BY <1>1 DEF RunStateTypeOK
    <3>4. \A t \in Task : states'[t] = IF t = cur THEN s ELSE states[t]
      BY <3>2, <3>3
    <3> QED
      BY <3>1, <3>2, <3>4
  <2>5. Based(cur)'
    BY <2>2, <2>3, <2>4, SameRecord DEF PubInv, Opening, Based
  <2> QED
    BY <1>1, <2>2, <2>3, <2>4, <2>5, QuietStep DEF Quiet, DrainStates
<1>8. CASE MaterializeQuestion \/ Tidy
  <2>1. /\ pc \in {"materialize", "tidy"} /\ pc' \in {"tidy", "step", "drain"}
        /\ UNCHANGED <<states, branch, recorded, unrecorded, outside>>
    BY <1>8 DEF MaterializeQuestion, Tidy, Here, Goto, BackToDrain, logVars,
       gitVars, countVars
  <2>2. /\ pc' = "step" => Opening(cur)'
        /\ pc' = "tidy" => Based(cur)'
    BY <1>8, <2>1 DEF MaterializeQuestion, Tidy, Here, Goto, BackToDrain,
       PubInv, Opening, Based
  <2>3. unrecorded' = {}
    BY <2>1 DEF PubInv, Quiet, DrainStates
  <2> QED
    BY <1>1, <2>1, <2>2, <2>3, QuietStep DEF Quiet, DrainStates
<1>9. CASE PrepareCommit
  <2>1. /\ pc = "verify" /\ pc' = "settle" /\ UNCHANGED <<cur, candidate>>
        /\ UNCHANGED <<states, branch, recorded, unrecorded, outside>>
    BY <1>9 DEF PrepareCommit, Here, Goto, logVars, countVars
  <2>2. /\ Opening(cur)' /\ unrecorded' = {}
        /\ \E c \in candidate' :
             candidate' = {c} /\ c.id[1] = cur' /\ Fresh(c)'
    BY <2>1 DEF PubInv, Quiet, Holding, Fresh, Opening, Based
  <2> QED
    BY <1>1, <2>1, <2>2, QuietStep DEF Quiet, DrainStates
<1>10. CASE PrepareRefused \/ AdvanceRefused \/ PublishRefused
  <2>1. pc' = "down" /\ UNCHANGED <<states, branch, recorded, unrecorded, outside>>
    BY <1>10 DEF PrepareRefused, AdvanceRefused, PublishRefused,
       ForgetProcess, logVars, gitVars, countVars
  <2> QED
    BY <1>1, <2>1, GoneDown
<1>11. ASSUME NEW reported \in BOOLEAN, NEW cost \in Costs,
              SettlePassed(reported, cost)
       PROVE  PubInv'
  <2>1. /\ pc = "settle" /\ pc' = "advance" /\ unrecorded' = {TheCandidate}
        /\ UNCHANGED <<states, branch, recorded, outside, candidate, cur>>
    BY <1>11 DEF SettlePassed, Here, AttemptPassed, Goto, gitVars, countVars
  <2>2. /\ candidate = {TheCandidate} /\ TheCandidate.id[1] = cur
        /\ Fresh(TheCandidate) /\ Unpublished
    BY <2>1, Held DEF Holding, PubInv, Quiet, Published
  <2>3. PICK c : c = TheCandidate
    OBVIOUS
  <2>4. /\ unrecorded' = {c} /\ candidate' = {c} /\ c.id[1] = cur' /\ Fresh(c)
    BY <2>1, <2>2, <2>3
  <2>5. Fresh(c)'
    BY <2>1, <2>4 DEF Fresh, Opening, Based
  <2>6. Unpublished' /\ OneCommitPerTask' /\ OthersCounted' /\ DependenciesFirst'
    BY <2>1, <2>2, SameRecord DEF PubInv
  <2> QED
    BY <1>1, <2>1, <2>4, <2>5, <2>6 DEF PubInv, Quiet, Holding, DrainStates
<1>12. CASE AdvanceBranch
  <2>1. /\ pc = "advance" /\ pc' = "unpin"
        /\ branch' = Append(branch, TheCandidate)
        /\ UNCHANGED <<states, recorded, unrecorded, outside, candidate, cur>>
    BY <1>12 DEF AdvanceBranch, Here, Goto, logVars, countVars
  <2>2. /\ unrecorded' = candidate' /\ Unpublished /\ TheCandidate \in unrecorded
    BY <2>1, Held DEF Holding, PubInv
  <2>3. /\ Published' /\ OneCommitPerTask' /\ OthersCounted' /\ DependenciesFirst'
        /\ \A c : Fresh(c)' <=> Fresh(c)
    BY <2>1, <2>2, Lands
  <2> QED
    BY <1>1, <2>1, <2>2, <2>3 DEF PubInv, Quiet, Holding, DrainStates
<1>13. CASE RemovePin \/ ScrubTree
  <2>1. /\ \/ pc = "unpin" /\ pc' = "scrub"
           \/ pc = "scrub" /\ pc' = "record"
        /\ UNCHANGED <<states, branch, recorded, unrecorded, outside, candidate,
                       cur>>
    BY <1>13 DEF RemovePin, ScrubTree, Here, Goto, logVars, countVars
  <2>2. /\ unrecorded' = candidate' /\ Published'
        /\ OneCommitPerTask' /\ OthersCounted' /\ DependenciesFirst'
    BY <2>1, SameRecord DEF PubInv
  <2>3. \A c : Fresh(c)' <=> Fresh(c)
    BY <2>1 DEF Fresh, Opening, Based
  <2> QED
    BY <1>1, <2>1, <2>2, <2>3 DEF PubInv, Quiet, Holding, DrainStates
<1>14. CASE RecordCommit
  <2>1. pc = "record" /\ pc' = "drain" /\ UNCHANGED <<branch, outside>>
        /\ TaskCommitted(cur, TheCandidate)
    BY <1>14 DEF RecordCommit, Here, BackToDrain, gitVars, countVars
  <2>2. /\ Fresh(TheCandidate) /\ TheCandidate.id[1] = cur
        /\ Carries(branch, Append(recorded, TheCandidate))
    BY <2>1, Held DEF Holding, PubInv, Published
  <2> QED
    BY <1>1, <2>1, <2>2, GapClosed
<1> QED
  BY <1>3, <1>4, <1>5, <1>6, <1>7, <1>8, <1>9, <1>10, <1>11, <1>12, <1>13,
     <1>14 DEF Step

(* The steps of a resume.  The tip alone tells it how far the publication  *)
(* got, because a commit is never the one it stands on.                    *)
LEMMA RecoverPublishes ==
  ASSUME PubInv, Recover \/ Resume
  PROVE  PubInv'
<1>1. TypeInv /\ TypeInv' /\ RunStateTypeOK
  BY RecoverType DEF PubInv, TypeInv, TypeOK
<1>2. ASSUME unrecorded # {}
      PROVE  unrecorded = {TheUnrecorded} /\ Fresh(TheUnrecorded)
  BY <1>2 DEF PubInv, TheUnrecorded
<1>3. ASSUME UNCHANGED <<states, branch, recorded, unrecorded, outside>>
      PROVE  /\ (Unpublished' <=> Unpublished) /\ (Published' <=> Published)
             /\ OneCommitPerTask' /\ OthersCounted' /\ DependenciesFirst'
             /\ \A c : Fresh(c)' <=> Fresh(c)
  <2>1. \A c : Fresh(c)' <=> Fresh(c)
    BY <1>3 DEF Fresh, Opening, Based
  <2> QED
    BY <1>3, <2>1, SameRecord DEF PubInv
<1>4. CASE Resume
  <2>1. UNCHANGED <<states, branch, recorded, unrecorded, outside>>
    BY <1>4 DEF Resume, logVars, gitVars, countVars
  <2>2. CASE /\ \E c \in unrecorded : Tip = c.parent /\ Tip = RecordedHead
             /\ pc' = "republish"
    <3>1. PICK c \in unrecorded : Tip = c.parent /\ Tip = RecordedHead
      BY <2>2
    <3>2. c.parent # c.id /\ unrecorded = {c}
      BY <3>1 DEF PubInv, Fresh
    <3>3. ~ (Tip[1] = 0 /\ Tip # Base)
      BY <3>1, Tips DEF Task
    <3>4. Unpublished
      BY <3>1, <3>2, <3>3, Tips DEF PubInv
    <3> QED
      BY <1>1, <1>3, <2>1, <2>2, <3>2, <3>4
         DEF PubInv, Quiet, Holding, DrainStates
  <2>3. CASE (\E c \in unrecorded : Tip = c.id) /\ pc' = "reunpin"
    <3>1. PICK c \in unrecorded : Tip = c.id
      BY <2>3
    <3>2. Tip[1] \in Task /\ Tip[1] # 0 /\ states[Tip[1]].is = "Pending"
      BY <3>1 DEF PubInv, Fresh, Opening, Based, Task
    <3>3. Published
      BY <3>2, Tips DEF PubInv
    <3> QED
      BY <1>1, <1>3, <2>1, <2>3, <3>3 DEF PubInv, Quiet, Holding, DrainStates
  <2>4. CASE unrecorded = {} /\ pc' = "orphans"
    BY <1>1, <1>3, <2>1, <2>4 DEF PubInv, Quiet, Holding, DrainStates
  <2> QED
    BY <1>4, <2>2, <2>3, <2>4 DEF Resume
<1>5. CASE Republish
  <2>1. pc = "republish" /\ UNCHANGED <<states, recorded, unrecorded, outside>>
    BY <1>5 DEF Republish, logVars, countVars
  <2>2. TheUnrecorded \in unrecorded /\ Unpublished
    BY <1>2, <2>1 DEF PubInv
  <2>3. CASE branch' = Append(branch, TheUnrecorded) /\ Goto("recheck")
    <3>1. /\ Published' /\ OneCommitPerTask' /\ OthersCounted'
          /\ DependenciesFirst' /\ \A c : Fresh(c)' <=> Fresh(c)
      BY <2>1, <2>2, <2>3, Lands
    <3> QED
      BY <1>1, <2>1, <2>3, <3>1 DEF PubInv, Goto, Quiet, Holding, DrainStates
  <2>4. CASE branch' = branch /\ ForgetProcess
    BY <1>1, <2>1, <2>4, GoneDown DEF ForgetProcess
  <2> QED
    BY <1>5, <2>3, <2>4 DEF Republish
<1>6. CASE ConfirmRepublished
  <2>1. pc = "recheck" /\ UNCHANGED <<states, branch, recorded, unrecorded, outside>>
    BY <1>6 DEF ConfirmRepublished, logVars, gitVars, countVars
  <2>2. CASE pc' = "reunpin"
    BY <1>1, <1>3, <2>1, <2>2 DEF PubInv, Quiet, Holding, DrainStates
  <2>3. CASE pc' = "down"
    BY <1>1, <2>1, <2>3, GoneDown
  <2> QED
    BY <1>6, <2>2, <2>3 DEF ConfirmRepublished, Goto, ForgetProcess
<1>7. CASE RemoveAdoptedPin
  <2>1. /\ pc = "reunpin" /\ pc' = "orphans"
        /\ UNCHANGED <<states, branch, recorded, unrecorded, outside>>
    BY <1>7 DEF RemoveAdoptedPin, Goto, logVars, countVars
  <2> QED
    BY <1>1, <1>3, <2>1 DEF PubInv, Quiet, Holding, DrainStates
<1>8. CASE DropResidue
  <2>1. /\ pc = "residue"
        /\ UNCHANGED <<states, branch, recorded, unrecorded, outside>>
        /\ \/ unrecorded # {} /\ pc' = "adopt"
           \/ unrecorded = {} /\ pc' = "repair"
    BY <1>8 DEF DropResidue, Goto, logVars, countVars
  <2>2. unrecorded # {} => Published
    BY <2>1 DEF PubInv
  <2> QED
    BY <1>1, <1>3, <2>1, <2>2 DEF PubInv, Quiet, Holding, DrainStates
<1>9. CASE Adopt
  <2>1. /\ pc = "adopt" /\ pc' = "repair" /\ UNCHANGED <<branch, outside>>
        /\ TaskCommitted(TheUnrecorded.id[1], TheUnrecorded)
    BY <1>9 DEF Adopt, Goto, gitVars, countVars
  <2>2. Published /\ unrecorded # {}
    BY <2>1 DEF PubInv, Published
  <2>3. /\ Fresh(TheUnrecorded)
        /\ Carries(branch, Append(recorded, TheUnrecorded))
    BY <1>2, <2>2 DEF Published
  <2> QED
    BY <1>1, <2>1, <2>3, GapClosed
<1>10. CASE RepairDefect \/ RewritePayloads \/ SettleInterrupted
  <2>1. /\ pc \in {"repair", "interrupted"} /\ pc' \in {"repair", "interrupted"}
        /\ UNCHANGED <<states, branch, recorded, outside>>
    BY <1>10 DEF RepairDefect, DesignDefect, RewritePayloads,
       SettleInterrupted, AttemptInterrupted, Goto, logVars, gitVars,
       procVars, countVars
  <2>2. unrecorded' = {}
    BY <1>10, <2>1 DEF RepairDefect, DesignDefect, RewritePayloads,
       SettleInterrupted, AttemptInterrupted, logVars, PubInv, Quiet
  <2> QED
    BY <1>1, <2>1, <2>2, QuietStep DEF Quiet
<1>11. CASE RepairDecline
  <2> DEFINE q == Lowest(UnsettledDeclines)
  <2>1. states[questions[q].task].is # "Done"
    <3>1. UnsettledDeclines \in SUBSET Nat /\ UnsettledDeclines # {}
      BY <1>1, <1>11, LenProperties DEF RepairDecline, UnsettledDeclines,
         Questions, RunStateTypeOK
    <3>2. q \in UnsettledDeclines
      BY <3>1, LowestIn
    <3>3. states[questions[q].task] = AwaitingInput(q)
      <4> HIDE DEF q
      <4> QED
        BY <3>2 DEF UnsettledDeclines
    <3> HIDE DEF q
    <3>4. AwaitingInput(q).is = "AwaitingInput"
      BY DEF AwaitingInput
    <3> QED
      BY <3>3, <3>4
  <2>2. /\ pc = "repair" /\ pc' = "repair"
        /\ UNCHANGED <<branch, recorded, outside>>
        /\ TaskFailed(questions[q].task, questions[q].halts)
        /\ unrecorded' = {}
    BY <1>11 DEF RepairDecline, TaskFailed, procVars, gitVars, countVars
  <2> HIDE DEF q
  <2>3. \A t \in Task : states'[t].is = "Done" <=> states[t].is = "Done"
    BY <1>1, <2>1, <2>2, NoneCompleted
  <2> QED
    BY <1>1, <2>2, <2>3, QuietStep DEF Quiet
<1>12. CASE FinishResume
  <2>1. /\ pc = "interrupted" /\ pc' = "drain" /\ unrecorded' = {}
        /\ UNCHANGED <<branch, recorded, outside>>
    BY <1>12 DEF FinishResume, RunResumed, Goto, gitVars, countVars
  <2>2. \A t \in Task : states'[t].is = "Done" <=> states[t].is = "Done"
    BY <1>12 DEF FinishResume, RunResumed, WakeDeferred, Plain
  <2> QED
    BY <1>1, <2>1, <2>2, QuietStep DEF Quiet, DrainStates
<1>13. CASE DropOrphanPins
  <2>1. /\ pc = "orphans" /\ pc' = "residue"
        /\ UNCHANGED <<states, branch, recorded, unrecorded, outside>>
    BY <1>13 DEF DropOrphanPins, Goto, logVars, countVars
  <2> QED
    BY <1>1, <1>3, <2>1 DEF PubInv, Quiet, Holding, DrainStates
<1> QED
  BY <1>4, <1>5, <1>6, <1>7, <1>8, <1>9, <1>10, <1>11, <1>12, <1>13
     DEF Recover

(* Crashes, operators, and commits of others, which change nothing in what *)
(* the branch carries; nor does an operator who takes one of them away.    *)
LEMMA EnvironmentPublishes ==
  ASSUME PubInv, Environment
  PROVE  PubInv'
<1>1. TypeInv /\ TypeInv' /\ branch \in Seq(Commit) /\ Len(branch) \in Nat
      /\ outside \in Nat
  BY EnvironmentType, LenProperties DEF PubInv, TypeInv, TypeOK
<1>2. CASE Crash
  <2>1. pc' = "down" /\ UNCHANGED <<states, branch, recorded, unrecorded, outside>>
    BY <1>2 DEF Crash, ForgetProcess, logVars
  <2> QED
    BY <1>1, <2>1, GoneDown
<1>3. CASE \/ LateWrite
           \/ \E q \in QuestionIx, answer \in {"Answered", "Declined"} :
                OperatorAnswers(q, answer)
  <2>1. /\ UNCHANGED <<states, recorded, unrecorded, pc, cur, candidate>>
        /\ UNCHANGED <<branch, outside>>
    BY <1>3 DEF LateWrite, OperatorAnswers, logVars, gitVars, procVars, countVars
  <2>2. /\ Unpublished => Unpublished'
        /\ Published => Published'
        /\ OthersCounted' /\ DependenciesFirst'
    BY <2>1, SameRecord DEF PubInv
  <2> QED
    BY <1>1, <2>1, <2>2, Untouched
<1>4. ASSUME UNCHANGED <<recorded, unrecorded>>,
             \A s : Carries(branch', s) <=> Carries(branch, s)
      PROVE  (Unpublished => Unpublished') /\ (Published => Published')
  BY <1>4 DEF Unpublished, Published
<1>5. CASE OutsideCommit
  <2>1. PICK c : /\ c.id = <<0, outside + 1>> /\ branch' = Append(branch, c)
    <3> DEFINE c == [id |-> <<0, outside + 1>>, parent |-> Tip, edits |-> {0}]
    <3>1. c.id = <<0, outside + 1>> /\ branch' = Append(branch, c)
      BY <1>5 DEF OutsideCommit
    <3> HIDE DEF c
    <3> QED
      BY <3>1
  <2>2. /\ outside < MaxOutside /\ outside' = outside + 1
        /\ UNCHANGED <<states, recorded, unrecorded, pc, cur, candidate>>
    BY <1>5 DEF OutsideCommit, logVars, procVars
  <2>3. /\ Len(branch') = Len(branch) + 1 /\ branch'[Len(branch) + 1] = c
        /\ \A i \in 1..Len(branch) : branch'[i] = branch[i]
    BY <1>1, <2>1
  <2>4. c \in Commit
    <3>1. branch' \in Seq(Commit) /\ Len(branch) + 1 \in 1..Len(branch')
      BY <1>1, <2>3 DEF TypeInv, TypeOK
    <3> QED
      BY <2>3, <3>1, ElementOfSeq
  <2>5. (Unpublished => Unpublished') /\ (Published => Published')
    <3>1. \A s : Carries(branch', s) <=> Carries(branch, s)
      BY <1>1, <2>1, <2>4, CarriesOther
    <3> QED
      BY <1>4, <2>2, <3>1
  <2>6. OthersCounted'
    BY <1>1, <2>1, <2>2, <2>3, BoundAssumption DEF PubInv, OthersCounted
  <2>7. DependenciesFirst'
    <3>1. \A i \in 1..Len(branch') : branch'[i].id[1] \in Task => i \in 1..Len(branch)
      BY <1>1, <2>1, <2>3 DEF Task
    <3> QED
      BY <1>1, <2>3, <3>1 DEF PubInv, DependenciesFirst
  <2> QED
    BY <1>1, <2>2, <2>5, <2>6, <2>7, Untouched
<1>6. CASE OutsideReset
  <2>1. /\ Tip # Base /\ Tip[1] = 0 /\ branch' = SubSeq(branch, 1, Len(branch) - 1)
        /\ UNCHANGED <<states, recorded, unrecorded, pc, cur, candidate, outside>>
    BY <1>6 DEF OutsideReset, logVars, procVars, countVars
  <2>2. branch # <<>> /\ Tip = branch[Len(branch)].id
    BY <2>1 DEF Tip, TipOf
  <2>3. PICK c \in Commit : c = branch[Len(branch)]
    <3>1. Len(branch) \in 1..Len(branch)
      BY <1>1, <2>2, EmptySeq
    <3> QED
      BY <1>1, <3>1, ElementOfSeq
  <2>4. /\ branch' \in Seq(Commit) /\ branch = Append(branch', c)
        /\ Len(branch') = Len(branch) - 1
        /\ \A i \in 1..Len(branch') : branch'[i] = branch[i]
    <3>1. branch \in Seq(Commit)
      BY <1>1
    <3>2. PICK front : front = SubSeq(branch, 1, Len(branch) - 1)
      OBVIOUS
    <3>3. /\ front \in Seq(Commit) /\ branch = Append(front, branch[Len(branch)])
          /\ Len(front) = Len(branch) - 1
          /\ \A i \in 1..Len(front) : front[i] = branch[i]
      BY <2>2, <3>1, <3>2, ButLast
    <3> QED
      BY <2>1, <2>3, <3>2, <3>3
  <2>5. (Unpublished => Unpublished') /\ (Published => Published')
    <3>1. PICK b : b = branch'
      OBVIOUS
    <3>2. \A s : Carries(Append(b, c), s) <=> Carries(b, s)
      BY <2>1, <2>2, <2>3, <2>4, <3>1, CarriesOther
    <3>3. \A s : Carries(branch', s) <=> Carries(branch, s)
      BY <2>4, <3>1, <3>2
    <3>4. UNCHANGED <<recorded, unrecorded>>
      BY <2>1
    <3> QED
      BY <1>4, <3>3, <3>4
  <2>6. OthersCounted' /\ DependenciesFirst'
    <3>1. \A i \in 1..Len(branch') : /\ i \in 1..Len(branch) /\ branch'[i] = branch[i]
                                    /\ \A j \in 1..(i - 1) : branch'[j] = branch[j]
      BY <1>1, <2>4
    <3>2. OthersCounted'
      BY <2>1, <3>1 DEF PubInv, OthersCounted
    <3>3. ASSUME NEW i \in 1..Len(branch'), branch'[i].id[1] \in Task,
                 NEW d \in Deps[branch'[i].id[1]]
          PROVE  \E j \in 1..(i - 1) : branch'[j].id[1] = d
      <4>1. branch'[i] = branch[i] /\ i \in 1..Len(branch)
        BY <3>1
      <4>2. PICK j \in 1..(i - 1) : branch[j].id[1] = d
        BY <3>3, <4>1 DEF PubInv, DependenciesFirst
      <4> QED
        BY <3>1, <4>2
    <3>4. DependenciesFirst'
      BY <3>3 DEF DependenciesFirst
    <3> QED
      BY <3>2, <3>4
  <2> QED
    BY <1>1, <2>1, <2>5, <2>6, Untouched
<1> QED
  BY <1>2, <1>3, <1>5, <1>6 DEF Environment

(* What every step keeps.                                                  *)
LEMMA PubInvKept ==
  ASSUME PubInv, [Next]_vars
  PROVE  PubInv'
<1>1. CASE UNCHANGED vars
  <2>1. TypeInv'
    BY <1>1, TypeInvKept DEF PubInv
  <2>2. /\ UNCHANGED <<states, recorded, unrecorded, pc, cur, candidate>>
        /\ UNCHANGED <<branch, outside>>
    BY <1>1 DEF vars, logVars, gitVars, procVars, countVars
  <2>3. /\ Unpublished => Unpublished'
        /\ Published => Published'
        /\ OthersCounted' /\ DependenciesFirst'
    BY <2>2, SameRecord DEF PubInv
  <2> QED
    BY <2>1, <2>2, <2>3, Untouched
<1> QED
  BY <1>1, DrainPublishes, StepPublishes, RecoverPublishes,
     EnvironmentPublishes DEF Next

(* Everything these theorems say follows from this invariant.              *)
LEMMA PubAlways == Spec => []PubInv
<1>1. PubInv /\ [Next]_vars => PubInv'
  BY PubInvKept
<1> QED
  BY PubInvInit, <1>1, PTL DEF Spec

(* What the branch carries, one sequence for both stages of a publication. *)
LEMMA Carried ==
  ASSUME PubInv
  PROVE  \E s \in Seq(Commit) :
           /\ Carries(branch, s) /\ Len(s) \in Nat
           /\ s = recorded \/ \E c \in unrecorded : s = Append(recorded, c)
           /\ Len(recorded) \in Nat /\ Len(s) >= Len(recorded)
           /\ \A k \in 1..Len(recorded) : s[k] = recorded[k]
           /\ \A k, l \in 1..Len(s) : s[k].id[1] = s[l].id[1] => k = l
<1>1. recorded \in Seq(Commit) /\ unrecorded \in SUBSET Commit
      /\ Len(recorded) \in Nat
  BY LenProperties DEF PubInv, TypeInv, TypeOK, RunStateTypeOK
<1>2. CASE Unpublished
  BY <1>1, <1>2 DEF Unpublished, PubInv, OneCommitPerTask
<1>3. ASSUME NEW c \in unrecorded, Carries(branch, Append(recorded, c))
      PROVE  \E s \in Seq(Commit) :
               /\ Carries(branch, s) /\ Len(s) \in Nat
               /\ s = recorded \/ \E d \in unrecorded : s = Append(recorded, d)
               /\ Len(recorded) \in Nat /\ Len(s) >= Len(recorded)
               /\ \A k \in 1..Len(recorded) : s[k] = recorded[k]
               /\ \A k, l \in 1..Len(s) : s[k].id[1] = s[l].id[1] => k = l
  <2>1. PICK s \in Seq(Commit) : s = Append(recorded, c)
    BY <1>1, <1>3, AppendProperties
  <2>2. /\ s \in Seq(Commit) /\ Len(s) = Len(recorded) + 1
        /\ s[Len(recorded) + 1] = c
        /\ \A k \in 1..Len(recorded) : s[k] = recorded[k]
    BY <1>1, <1>3, <2>1, AppendProperties
  <2>3. \A k \in 1..Len(recorded) : s[k].id[1] # c.id[1]
    <3>1. states[c.id[1]].is = "Pending"
      BY <1>3 DEF PubInv, Fresh, Opening
    <3> QED
      BY <2>2, <3>1 DEF PubInv, OneCommitPerTask
  <2>4. ASSUME NEW k \in 1..Len(s), NEW l \in 1..Len(s), s[k].id[1] = s[l].id[1]
        PROVE  k = l
    <3>1. CASE k \in 1..Len(recorded) /\ l \in 1..Len(recorded)
      BY <2>2, <2>4, <3>1 DEF PubInv, OneCommitPerTask
    <3>2. CASE k = Len(recorded) + 1 \/ l = Len(recorded) + 1
      BY <1>1, <2>2, <2>3, <2>4, <3>2
    <3> QED
      BY <1>1, <2>2, <3>1, <3>2
  <2>5. Carries(branch, s)
    BY <1>3, <2>1
  <2>6. \E d \in unrecorded : s = Append(recorded, d)
    BY <1>3, <2>1
  <2>7. s \in Seq(Commit) /\ Len(s) \in Nat /\ Len(s) >= Len(recorded)
    BY <1>1, <2>2
  <2> WITNESS s \in Seq(Commit)
  <2> QED
    BY <1>1, <2>2, <2>4, <2>5, <2>6, <2>7
<1> QED
  BY <1>2, <1>3 DEF PubInv, Published

(* With nobody else committing, the run branch is at every moment the      *)
(* commits the log records, and at most the one of the settlement the log  *)
(* ends with: for every plan, every chain, every way attempts fail, every  *)
(* configuration, and any number of questions and crashes.                 *)
THEOREM PublishedAlways ==
  ASSUME MaxOutside = 0
  PROVE  Spec => []PublishedAsRecorded
<1>1. PubInv => PublishedAsRecorded
  <2> SUFFICES ASSUME PubInv PROVE PublishedAsRecorded
    OBVIOUS
  <2>1. PICK s \in Seq(Commit) :
          /\ Carries(branch, s)
          /\ s = recorded \/ \E c \in unrecorded : s = Append(recorded, c)
    BY Carried
  <2>2. branch \in Seq(Commit)
    BY DEF PubInv, TypeInv, TypeOK
  <2>3. \A i \in 1..Len(branch) : branch[i].id[1] # 0
    BY DEF PubInv, OthersCounted
  <2>4. branch = s
    BY <2>1, <2>2, <2>3, CarriesAll
  <2> QED
    BY <2>1, <2>4 DEF PublishedAsRecorded
<1> QED
  BY PubAlways, <1>1, PTL

(* Whoever else commits, no task is committed twice, and the tasks that    *)
(* are Done are those whose commit the log has.                            *)
THEOREM CommittedOnceAlways == Spec => []CommittedOnce
<1>1. PubInv => CommittedOnce
  <2> SUFFICES ASSUME PubInv PROVE CommittedOnce
    OBVIOUS
  <2>1. \A t \in Task : states[t].is = "Done" <=>
                        \E i \in 1..Len(recorded) : recorded[i].id[1] = t
    BY DEF PubInv, OneCommitPerTask
  <2>2. ASSUME NEW i \in 1..Len(branch), NEW j \in 1..Len(branch),
               branch[i].id[1] # 0, branch[i].id[1] = branch[j].id[1]
        PROVE  i = j
    <3>1. PICK s \in Seq(Commit) :
            /\ Carries(branch, s) /\ Len(s) \in Nat
            /\ \A k, l \in 1..Len(s) : s[k].id[1] = s[l].id[1] => k = l
      BY Carried
    <3>2. i \in Own(branch) /\ j \in Own(branch) /\ branch \in Seq(Commit)
          /\ i \in Nat /\ j \in Nat
      BY <2>2, LenProperties DEF Own, PubInv, TypeInv, TypeOK
    <3>3. Before(branch, i) \in Nat /\ Before(branch, j) \in Nat
      BY <3>2, OwnCounts
    <3>4. /\ Before(branch, i) < Len(s) /\ branch[i] = s[Before(branch, i) + 1]
          /\ Before(branch, j) < Len(s) /\ branch[j] = s[Before(branch, j) + 1]
      BY <3>1, <3>2 DEF Carries
    <3>5. Before(branch, i) + 1 = Before(branch, j) + 1
      BY <2>2, <3>1, <3>3, <3>4
    <3>6. Before(branch, i) = Before(branch, j)
      BY <3>3, <3>5
    <3> QED
      BY <3>2, <3>6, CarriedOnce
  <2> QED
    BY <2>1, <2>2 DEF CommittedOnce
<1> QED
  BY PubAlways, <1>1, PTL

(* On the branch, a task's commit comes after those of all the tasks it    *)
(* depends on.                                                             *)
THEOREM DependenciesFirstAlways == Spec => []DependenciesFirst
<1>1. PubInv => DependenciesFirst
  BY DEF PubInv
<1> QED
  BY PubAlways, <1>1, PTL

(* Whoever else commits, and whenever: the commits the log records stay on *)
(* the branch in the order they were recorded, and no step but an          *)
(* operator's reset of somebody else's commit takes one away.              *)
THEOREM CommitsStayAlways == Spec => CommitsStay
<1>1. PubInv => RecordedOnBranch
  <2> SUFFICES ASSUME PubInv, NEW k \in 1..Len(recorded)
               PROVE  \E i \in Own(branch) :
                        branch[i] = recorded[k] /\ Before(branch, i) = k - 1
    BY DEF RecordedOnBranch, Own, Before
  <2>1. PICK s \in Seq(Commit) :
          /\ Carries(branch, s) /\ Len(s) \in Nat
          /\ Len(recorded) \in Nat /\ Len(s) >= Len(recorded)
          /\ \A l \in 1..Len(recorded) : s[l] = recorded[l]
    BY Carried
  <2>2. k \in 1..Len(s) /\ (k - 1) + 1 = k /\ s[k] = recorded[k]
    BY <2>1
  <2>3. PICK i \in Own(branch) : Before(branch, i) = k - 1
    BY <2>1, <2>2 DEF Carries
  <2>4. branch[i] = s[Before(branch, i) + 1]
    BY <2>1 DEF Carries
  <2> QED
    BY <2>2, <2>3, <2>4
<1> DEFINE Grows ==
      \/ Len(branch') >= Len(branch) /\ SubSeq(branch', 1, Len(branch)) = branch
      \/ pc = "down" /\ Tip[1] = 0
<1>2. TypeInv /\ [Next]_vars => Grows
  <2> SUFFICES ASSUME TypeInv, [Next]_vars PROVE Grows
    OBVIOUS
  <2>1. branch \in Seq(Commit) /\ Len(branch) \in Nat
    BY LenProperties DEF TypeInv, TypeOK
  <2>2. CASE branch' = branch
    BY <2>1, <2>2, SubSeqFull
  <2>3. ASSUME NEW c, branch' = Append(branch, c)
        PROVE  Grows
    <3>1. TypeInv'
      BY TypeInvKept
    <3>2. branch' \in Seq(Commit)
      BY <3>1 DEF TypeInv, TypeOK
    <3> QED
      BY <2>1, <2>3, <3>2
  <2>4. CASE OutsideReset
    BY <2>4 DEF OutsideReset
  <2>5. branch' = branch \/ (\E c : branch' = Append(branch, c)) \/ OutsideReset
    <3> USE DEF gitVars
    <3>1. CASE UNCHANGED vars
      BY <3>1 DEF vars
    <3>2. CASE Drain
      BY <3>2 DEF Drain, SweepAnswers, IngestAnswer, RecordDefect, FailDeclined,
         RewritePayload, StepTask, WaitForPool, Finish, Ask, ReplyLands,
         ReplyAbsorbed, NobodyReplied
    <3>3. CASE Step
      <4>1. \/ \E failure \in Failures, reported \in BOOLEAN, cost \in Costs :
                 SettleFailed(failure, reported, cost)
            \/ \E reported \in BOOLEAN, cost \in Costs : SettlePassed(reported, cost)
            => branch' = branch
        BY DEF SettleFailed, SettlePassed
      <4>2. CASE AdvanceBranch
        BY <4>2 DEF AdvanceBranch
      <4> QED
        BY <3>3, <4>1, <4>2 DEF Step, NoRung, StopAtBudget, StartAttempt,
           RunAgent, MaterializeQuestion, Tidy, PrepareCommit, PrepareRefused,
           AdvanceRefused, RemovePin, PublishRefused, ScrubTree, RecordCommit
    <3>4. CASE Recover \/ Resume
      BY <3>4 DEF Recover, Resume, Republish, ConfirmRepublished,
         RemoveAdoptedPin, DropOrphanPins, DropResidue, Adopt, RepairDefect,
         RepairDecline, RewritePayloads, SettleInterrupted, FinishResume
    <3>5. CASE Environment
      BY <3>5 DEF Environment, Crash, LateWrite, OutsideCommit, OperatorAnswers
    <3> QED
      BY <3>1, <3>2, <3>3, <3>4, <3>5 DEF Next
  <2> QED
    BY <2>2, <2>3, <2>4, <2>5
<1>3. Spec => [][Grows]_vars
  <2>1. PubInv /\ [Next]_vars => [Grows]_vars
    BY <1>2 DEF PubInv
  <2> QED
    BY PubAlways, <2>1, PTL DEF Spec
<1>4. Spec => []RecordedOnBranch
  BY PubAlways, <1>1, PTL
<1> QED
  BY <1>3, <1>4 DEF CommitsStay, BranchOnlyGrows
-----------------------------------------------------------------------------
(* What an attempt leaves to the next one: its session.  Only the task     *)
(* being stepped has one to resume, and only to stay on its rung; a budget *)
(* stop may leave one behind, but nothing is started until a resume has    *)
(* dropped it.                                                             *)
Ongoing == pc \notin Away /\ ~budget_stop
Sessions ==
  /\ Ongoing => \A t \in Task : progress[t].resume_next =>
       \/ pc \notin DrainStates /\ t = cur
       \/ states[t].is \in {"Done", "Failed"}
  /\ pc \in {"step", "tidy"} /\ progress[cur].resume_next =>
       /\ progress[cur].session /\ progress[cur].rung < Rungs[cur]
       /\ states[cur].is = "Pending"
  /\ pc = "materialize" => ~progress[cur].resume_next

(* Whatever stops a task, moves it to another rung or hands it to somebody *)
(* else drops its session; only a retry on the same rung keeps it.         *)
LEMMA SessionsKept ==
  ASSUME SchedInv, Sessions, [Next]_vars
  PROVE  Sessions'
<1> USE DEF DrainStates, ResumeStates, Away, Ongoing
<1>1. TypeInv /\ Ends /\ Asked /\ Flight
  BY DEF SchedInv
<1>2. CASE Silent
  <2>1. /\ UNCHANGED <<states, progress, budget_stop>>
    BY <1>2 DEF Silent, Rests, Dies, Rewrites, Picks, Captures, Proceeds,
       Materializes, Tidies, Recovers, Refiles, SameLog
  <2>2. CASE Rests \/ Dies \/ Rewrites \/ Captures \/ Proceeds \/ Materializes
             \/ Recovers \/ Refiles
    BY <2>1, <2>2 DEF Rests, Dies, Rewrites, Captures, Proceeds, Materializes,
       Recovers, Refiles, Sessions
  <2>3. CASE Picks
    <3>1. /\ pc = "drain" /\ pc' = "step" /\ cur' \in Task /\ ~budget_stop
          /\ states[cur'].is = "Pending"
      BY <2>3 DEF Picks, Ready, Stopped
    <3>2. ~progress[cur'].resume_next
      BY <3>1 DEF Sessions
    <3> QED
      BY <2>1, <3>1, <3>2 DEF Sessions
  <2>4. CASE Tidies
    BY <2>1, <2>4 DEF Tidies, Sessions
  <2> QED
    BY <1>2, <2>2, <2>3, <2>4 DEF Silent
<1>3. ASSUME NEW q \in Questions, NEW answer \in {"Answered", "Declined"},
             Ingests(q, answer)
      PROVE  Sessions'
  <2>1. Waiting(q) /\ pc = "drain"
    BY <1>1, <1>3 DEF Asked, Ingests
  <2>2. pc' = "defect" /\ budget_stop' = budget_stop
    BY <1>1, <1>3, <2>1, IngestDoes
  <2>3. CASE answer = "Declined"
    <3>1. states' = states /\ progress' = progress
      BY <1>1, <1>3, <2>1, <2>3, IngestDoes
    <3> QED
      BY <2>1, <2>2, <3>1 DEF Sessions
  <2>4. CASE answer = "Answered"
    <3> DEFINE t == questions[q].task
    <3>1. /\ t \in Task
          /\ progress'[t] = Answered(progress[t], questions[q].kind)
          /\ \A u \in Task \ {t} : states'[u] = states[u] /\ progress'[u] = progress[u]
      BY <1>1, <1>3, <2>1, <2>4, IngestDoes, Known
    <3>2. ~progress'[t].resume_next
      BY <1>1, <3>1, Known, SessionDropped
    <3> HIDE DEF t
    <3> QED
      BY <2>1, <2>2, <3>1, <3>2 DEF Sessions
  <2> QED
    BY <1>3, <2>3, <2>4
<1>4. CASE RecordDefect
  BY <1>1, <1>4, DefectDoes DEF Sessions
<1>5. CASE FailDeclined
  BY <1>1, <1>5, DeclineDoes DEF Sessions, Settles
<1>6. CASE WaitForPool
  <2>1. /\ pc = "drain" /\ pc' = "drain" /\ WakeDeferred
        /\ UNCHANGED <<progress, budget_stop>>
    BY <1>6, WaitDoes
  <2>2. \A t \in Task : states[t].is \in {"Done", "Failed"} => states'[t] = states[t]
    BY <2>1, WakeDoes
  <2> QED
    BY <2>1, <2>2 DEF Sessions
<1>7. CASE Finish
  BY <1>7, FinishDoes DEF Sessions
<1>8. CASE NoRung
  BY <1>1, <1>8, NoRungDoes DEF Sessions
<1>9. CASE StopAtBudget
  BY <1>1, <1>9, BudgetDoes DEF Sessions
<1>10. CASE StartAttempt
  BY <1>1, <1>10, StartDoes DEF Sessions
<1>11. ASSUME NEW reported \in BOOLEAN, NEW cost \in Costs,
              SettlePassed(reported, cost)
       PROVE  Sessions'
  BY <1>1, <1>11, PassDoes DEF Sessions
<1>12. ASSUME NEW failure \in Failures, NEW reported \in BOOLEAN,
              NEW cost \in Costs, SettleFailed(failure, reported, cost)
       PROVE  Sessions'
  <2>1. cur \in Task => progress[cur].rung < Rungs[cur]
    BY <1>1, <1>12 DEF Flight, Judging, SettleFailed, Here
  <2>2. /\ pc = "verify" /\ cur \in Task
        /\ UNCHANGED <<cur, budget_stop>>
        /\ \A u \in Task \ {cur} :
             states'[u] = states[u] /\ progress'[u] = progress[u]
        /\ LET left == progress[cur].attempts_on_rung
               left1 == progress'[cur].attempts_on_rung
           IN  Stays(left, left1) \/ Defers(left, left1) \/ Parks(left, left1)
    BY <1>1, <1>12, <2>1, FailDoes
  <2>3. states[cur].is = "Pending"
    BY <1>1, <2>2 DEF Ends, Judging
  <2> QED
    BY <2>1, <2>2, <2>3 DEF Sessions, Stays, Defers, Parks
<1>13. CASE RecordCommit
  BY <1>1, <1>13, RecordDoes DEF Sessions
<1>14. CASE Adopt \/ RepairDefect \/ RepairDecline \/ SettleInterrupted
  BY <1>1, <1>14, AdoptDoes, RefileDoes, SettleDoes, InterruptDoes DEF Sessions
<1>15. CASE FinishResume
  BY <1>1, <1>15, ResumeDoes DEF Sessions
<1> QED
  BY <1>1, <1>2, <1>3, <1>4, <1>5, <1>6, <1>7, <1>8, <1>9, <1>10, <1>11, <1>12,
     <1>13, <1>14, <1>15, Steps

-----------------------------------------------------------------------------
(* Whose edits the working tree can hold: those of the task being stepped  *)
(* and late writes, and none at all where an agent starts afresh, where    *)
(* the scheduler is at rest and once a resume has cleaned up.  A budget    *)
(* stop whose cleaning failed is the exception; a resume ends it.          *)
Trees ==
  /\ pc \in Working => tree \subseteq {cur, 0}
  /\ pc = "step" /\ ~ResumesSession(progress[cur]) => tree = {}
  /\ pc = "attempt" /\ ~progress[cur].session => tree = {}
  /\ pc \in DrainStates => tree = {} \/ budget_stop
  /\ pc \in {"adopt", "repair", "interrupted", "record"} => tree = {}

(* An agent edits its own task's tree, late writes add to it, and every    *)
(* way out of an attempt either cleans it or keeps the session it belongs  *)
(* to.                                                                     *)
LEMMA TreesKept ==
  ASSUME SchedInv, Sessions, Trees, [Next]_vars
  PROVE  Trees'
<1> USE DEF DrainStates, ResumeStates, Working, Judging, Here
<1>1. TypeInv /\ Ends /\ Flight
  BY DEF SchedInv
(* Where neither the place nor the task changes, a tree may be cleaned.    *)
<1>2. ASSUME UNCHANGED <<pc, cur, progress, budget_stop>>, tree' \in {{}, tree}
      PROVE  Trees'
  BY <1>2 DEF Trees
<1>3. CASE UNCHANGED vars
  BY <1>2, <1>3 DEF vars, procVars, logVars, gitVars
<1>4. ASSUME Drain PROVE Trees'
  <2>1. tree' = tree
    BY <1>4 DEF Drain, SweepAnswers, IngestAnswer, RecordDefect, FailDeclined,
       RewritePayload, StepTask, WaitForPool, Finish, Ask, ReplyLands,
       ReplyAbsorbed, NobodyReplied, gitVars
  <2>2. CASE StepTask
    <3>1. Ready # {}
      BY <2>2 DEF StepTask
    <3>2. pc = "drain" /\ pc' = "step" /\ ~budget_stop
      BY <2>2, <3>1 DEF StepTask, NothingToSweep, Ready, Stopped
    <3>3. tree' = {}
      BY <2>1, <3>2 DEF Trees
    <3> QED
      BY <3>2, <3>3 DEF Trees
  <2>3. CASE ~StepTask
    <3>1. \A q, answer : IngestAnswer(q, answer) =>
            pc' = "defect" /\ budget_stop' = budget_stop
      BY DEF IngestAnswer, QuestionAnswered
    <3>2. FailDeclined => pc \in DrainStates /\ pc' = "rewrite"
                          /\ budget_stop' = budget_stop
      BY DEF FailDeclined, TaskFailed, logVars, Goto
    <3>3. /\ pc \in DrainStates /\ pc' \in DrainStates \union {"down"}
          /\ budget_stop' = budget_stop
      BY <1>4, <2>3, <3>1, <3>2 DEF Drain, SweepAnswers, RecordDefect,
         DesignDefect, RewritePayload, WaitForPool, DeferWaitElapsed, Finish,
         RunFinished, HardBlock, Ask, ReplyLands, ReplyAbsorbed, NobodyReplied,
         Swept, NothingToSweep, Goto, BackToDrain, ForgetProcess, logVars,
         procVars
    <3> QED
      BY <2>1, <3>3 DEF Trees
  <2> QED
    BY <2>2, <2>3
<1>5. ASSUME Step PROVE Trees'
  <2>1. ASSUME NoRung PROVE Trees'
    <3>1. /\ pc = "step" /\ pc' = "drain" /\ tree' = tree
          /\ progress[cur].rung >= Rungs[cur]
      BY <2>1 DEF NoRung, BackToDrain, gitVars
    <3>2. cur \in Task /\ progress[cur].rung \in Nat /\ Rungs[cur] \in Nat
      BY <1>1, <3>1, Known, ChainAssumption DEF Ends, Progress
    <3>3. ~progress[cur].resume_next
      BY <3>1, <3>2 DEF Sessions
    <3> QED
      BY <3>1, <3>3 DEF Trees, ResumesSession
  <2>2. StopAtBudget => Trees'
    BY DEF StopAtBudget, BudgetExceeded, BackToDrain, Trees
  <2>3. ASSUME StartAttempt PROVE Trees'
    <3>1. /\ pc = "step" /\ pc' = "attempt" /\ cur' = cur
          /\ (progress'[cur].session <=> ResumesSession(progress[cur]))
      BY <1>1, <2>3, StartDoes
    <3>2. tree' = tree
      BY <2>3 DEF StartAttempt, gitVars
    <3> QED
      BY <3>1, <3>2 DEF Trees
  <2>4. ASSUME NEW edits \in BOOLEAN, RunAgent(edits) PROVE Trees'
    <3>1. /\ pc = "attempt" /\ pc' = "verify" /\ cur' = cur
          /\ tree' = (tree \ {0}) \union
                       (IF edits \/ 0 \in tree THEN {cur} ELSE {})
      BY <2>4 DEF RunAgent
    <3> QED
      BY <3>1 DEF Trees
  <2>5. ASSUME NEW failure \in Failures, NEW reported \in BOOLEAN,
               NEW cost \in Costs, SettleFailed(failure, reported, cost)
        PROVE  Trees'
    <3>1. /\ pc = "verify" /\ pc' \in {"materialize", "tidy"} /\ cur' = cur
          /\ tree' = tree
      BY <2>5 DEF SettleFailed, gitVars
    <3> QED
      BY <3>1 DEF Trees
  <2>6. MaterializeQuestion => Trees'
    BY DEF MaterializeQuestion, Goto, gitVars, Trees
  <2>7. ASSUME Tidy PROVE Trees'
    <3>1. /\ pc = "tidy" /\ UNCHANGED <<progress, budget_stop>>
          /\ tree' = IF progress[cur].resume_next THEN tree ELSE {}
          /\ \/ states[cur].is = "Pending" /\ pc' = "step" /\ cur' = cur
             \/ states[cur].is # "Pending" /\ pc' = "drain"
      BY <2>7 DEF Tidy, Goto, BackToDrain, logVars
    <3> QED
      BY <3>1 DEF Trees, Sessions, ResumesSession
  <2>8. PrepareCommit => Trees'
    BY DEF PrepareCommit, Goto, Trees
  <2>9. PrepareRefused \/ AdvanceRefused \/ PublishRefused => Trees'
    BY DEF PrepareRefused, AdvanceRefused, PublishRefused, ForgetProcess, Trees
  <2>10. ASSUME NEW reported \in BOOLEAN, NEW cost \in Costs,
                SettlePassed(reported, cost)
         PROVE  Trees'
    BY <2>10 DEF SettlePassed, Goto, Trees
  <2>11. AdvanceBranch \/ RemovePin \/ ScrubTree => Trees'
    BY DEF AdvanceBranch, RemovePin, ScrubTree, Goto, Trees
  <2>12. RecordCommit => Trees'
    BY DEF RecordCommit, BackToDrain, gitVars, Trees
  <2> QED
    BY <1>5, <2>1, <2>2, <2>3, <2>4, <2>5, <2>6, <2>7, <2>8, <2>9, <2>10,
       <2>11, <2>12 DEF Step
<1>6. ASSUME Recover \/ Resume PROVE Trees'
  <2>1. Resume \/ Republish \/ ConfirmRepublished \/ RemoveAdoptedPin
          \/ DropOrphanPins \/ DropResidue => Trees'
    BY DEF Resume, Republish, ConfirmRepublished, RemoveAdoptedPin,
       DropOrphanPins, DropResidue, Goto, ForgetProcess, Trees
  <2>2. Adopt \/ RepairDefect \/ RepairDecline \/ RewritePayloads
          \/ SettleInterrupted \/ FinishResume => Trees'
    BY DEF Adopt, RepairDefect, RepairDecline, RewritePayloads,
       SettleInterrupted, FinishResume, Goto, procVars, gitVars, Trees
  <2> QED
    BY <1>6, <2>1, <2>2 DEF Recover
<1>7. ASSUME Environment PROVE Trees'
  <2>1. Crash => Trees'
    BY DEF Crash, ForgetProcess, Trees
  <2>2. LateWrite => Trees'
    BY DEF LateWrite, procVars, logVars, Trees
  <2>3. OutsideCommit => Trees'
    BY <1>2 DEF OutsideCommit, procVars, logVars
  <2>4. OutsideReset => Trees'
    BY <1>2 DEF OutsideReset, procVars, logVars
  <2>5. ASSUME NEW q \in QuestionIx, NEW answer \in {"Answered", "Declined"},
               OperatorAnswers(q, answer)
        PROVE  Trees'
    BY <1>2, <2>5 DEF OperatorAnswers, procVars, logVars, gitVars
  <2> QED
    BY <1>7, <2>1, <2>2, <2>3, <2>4, <2>5 DEF Environment
<1> QED
  BY <1>3, <1>4, <1>5, <1>6, <1>7 DEF Next

(* Whose edits a commit holds: from the moment a candidate passed, exactly *)
(* its task's own.                                                         *)
Mine(c) == c.id[1] \in Task => c.edits = {c.id[1]}
Edits ==
  /\ \A i \in 1..Len(branch) : Mine(branch[i])
  /\ \A c \in unrecorded : Mine(c)
  /\ pc \in {"settle", "advance", "unpin", "scrub", "record"} =>
       \A c \in candidate : Mine(c)
  /\ pc = "verify" => \A c \in candidate : c.edits \subseteq {cur}

(* One more commit that holds what it should.                              *)
LEMMA MineAppend ==
  ASSUME NEW b \in Seq(Commit), NEW c \in Commit, Mine(c),
         \A i \in 1..Len(b) : Mine(b[i])
  PROVE  \A i \in 1..Len(Append(b, c)) : Mine(Append(b, c)[i])
<1> DEFINE longer == Append(b, c)
<1>1. /\ Len(b) \in Nat /\ Len(longer) = Len(b) + 1 /\ longer[Len(b) + 1] = c
      /\ \A i \in 1..Len(b) : longer[i] = b[i]
  BY AppendProperties, LenProperties
<1> HIDE DEF longer
<1>2. \A i \in 1..Len(longer) : i \in 1..Len(b) \/ i = Len(b) + 1
  BY <1>1
<1>3. \A i \in 1..Len(longer) : Mine(longer[i])
  BY <1>1, <1>2
<1> QED
  BY <1>3 DEF longer

(* A candidate is captured from such a tree, and only a prepared candidate *)
(* is ever settled or put on the branch.                                   *)
LEMMA EditsKept ==
  ASSUME SchedInv, Trees, Edits, [Next]_vars
  PROVE  Edits'
<1> DEFINE Holds == {"settle", "advance", "unpin", "scrub", "record"}
<1> USE DEF DrainStates, ResumeStates, Here
<1>1. /\ TypeInv /\ TypeInv' /\ Ends
      /\ branch \in Seq(Commit) /\ branch' \in Seq(Commit)
      /\ unrecorded \subseteq Commit /\ candidate \subseteq Commit
  BY TypeInvKept DEF SchedInv, TypeInv, TypeOK, RunStateTypeOK
<1>2. pc \in Holding => candidate = {TheCandidate} /\ TheCandidate.id[1] = cur
  BY <1>1 DEF Ends, TheCandidate
(* Steps that commit nothing and capture nothing.                          *)
<1>3. ASSUME branch' = branch, unrecorded' = {} \/ unrecorded' = unrecorded,
             \/ pc' \notin Holds \union {"verify"}
             \/ pc' \in Holds /\ pc \in Holds /\ candidate' = candidate
             \/ UNCHANGED <<pc, cur, candidate>>
      PROVE  Edits'
  BY <1>3 DEF Edits, Mine
<1>4. CASE UNCHANGED vars
  BY <1>3, <1>4 DEF vars, procVars, logVars, gitVars
<1>5. ASSUME Drain PROVE Edits'
  <2>1. branch' = branch
    BY <1>5 DEF Drain, SweepAnswers, IngestAnswer, RecordDefect, FailDeclined,
       RewritePayload, StepTask, WaitForPool, Finish, Ask, ReplyLands,
       ReplyAbsorbed, NobodyReplied, gitVars
  <2>2. unrecorded' = {} \/ unrecorded' = unrecorded
    BY <1>5 DEF Drain, SweepAnswers, IngestAnswer, QuestionAnswered,
       RecordDefect, DesignDefect, FailDeclined, TaskFailed, RewritePayload,
       StepTask, WaitForPool, DeferWaitElapsed, Finish, RunFinished, Ask,
       ReplyLands, ReplyAbsorbed, NobodyReplied, logVars
  <2>3. pc' \in DrainStates \union {"down", "step"}
    BY <1>5 DEF Drain, SweepAnswers, IngestAnswer, RecordDefect, FailDeclined,
       RewritePayload, StepTask, WaitForPool, Finish, Ask, ReplyLands,
       ReplyAbsorbed, NobodyReplied, Swept, HardBlock, NothingToSweep, Goto,
       BackToDrain, ForgetProcess, procVars
  <2> QED
    BY <1>3, <2>1, <2>2, <2>3
<1>6. ASSUME Step PROVE Edits'
  <2>1. NoRung \/ StopAtBudget \/ StartAttempt => Edits'
    BY <1>3 DEF NoRung, TaskFailed, StopAtBudget, BudgetExceeded, StartAttempt,
       AttemptStarted, Goto, BackToDrain, gitVars
  <2>2. ASSUME NEW edits \in BOOLEAN, RunAgent(edits) PROVE Edits'
    <3>1. /\ pc = "attempt" /\ pc' = "verify" /\ cur' = cur
          /\ UNCHANGED <<branch, unrecorded>>
      BY <2>2 DEF RunAgent, logVars
    <3>2. tree' \subseteq {cur} /\ \A c \in candidate' : c.edits = tree'
      BY <2>2, <3>1 DEF RunAgent, Trees, Working, Judging
    <3> QED
      BY <3>1, <3>2 DEF Edits, Mine
  <2>3. ASSUME NEW failure \in Failures, NEW reported \in BOOLEAN,
               NEW cost \in Costs, SettleFailed(failure, reported, cost)
        PROVE  Edits'
    <3>1. branch' = branch /\ unrecorded' = {} /\ pc' \in {"materialize", "tidy"}
      BY <2>3 DEF SettleFailed, AttemptFailed, gitVars
    <3> QED
      BY <1>3, <3>1
  <2>4. MaterializeQuestion \/ Tidy \/ PrepareRefused \/ AdvanceRefused
          \/ PublishRefused => Edits'
    BY <1>3 DEF MaterializeQuestion, Tidy, PrepareRefused, AdvanceRefused,
       PublishRefused, Goto, BackToDrain, ForgetProcess, gitVars, logVars
  <2>5. ASSUME PrepareCommit PROVE Edits'
    <3>1. /\ pc = "verify" /\ pc' = "settle" /\ TheCandidate.edits # {}
          /\ UNCHANGED <<branch, unrecorded, cur, candidate>>
      BY <2>5 DEF PrepareCommit, Goto, logVars
    <3>2. candidate = {TheCandidate} /\ TheCandidate.id[1] = cur
      BY <1>2, <3>1 DEF Holding
    <3>3. TheCandidate.edits \subseteq {cur}
      BY <3>1, <3>2 DEF Edits
    <3>4. Mine(TheCandidate)
      BY <3>1, <3>2, <3>3 DEF Mine
    <3> QED
      BY <3>1, <3>2, <3>4 DEF Edits, Mine
  <2>6. ASSUME NEW reported \in BOOLEAN, NEW cost \in Costs,
               SettlePassed(reported, cost)
        PROVE  Edits'
    <3>1. /\ pc = "settle" /\ pc' = "advance" /\ unrecorded' = {TheCandidate}
          /\ UNCHANGED <<branch, cur, candidate>>
      BY <2>6 DEF SettlePassed, AttemptPassed, Goto, gitVars
    <3>2. candidate = {TheCandidate}
      BY <1>2, <3>1 DEF Holding
    <3> QED
      BY <3>1, <3>2 DEF Edits, Mine
  <2>7. ASSUME AdvanceBranch PROVE Edits'
    <3>1. /\ pc = "advance" /\ pc' = "unpin" /\ UNCHANGED <<unrecorded, candidate>>
          /\ branch' = Append(branch, TheCandidate)
      BY <2>7 DEF AdvanceBranch, Goto, logVars
    <3>2. TheCandidate \in candidate
      BY <1>2, <3>1 DEF Holding
    <3>3. TheCandidate \in Commit /\ Mine(TheCandidate)
      BY <1>1, <3>1, <3>2 DEF Edits
    <3>4. \A i \in 1..Len(branch') : Mine(branch'[i])
      BY <1>1, <3>1, <3>3, MineAppend DEF Edits
    <3> QED
      BY <3>1, <3>4 DEF Edits, Mine
  <2>8. RemovePin \/ ScrubTree => Edits'
    BY <1>3 DEF RemovePin, ScrubTree, Goto, logVars
  <2>9. RecordCommit => Edits'
    BY <1>3 DEF RecordCommit, TaskCommitted, BackToDrain, gitVars
  <2> QED
    BY <1>6, <2>1, <2>2, <2>3, <2>4, <2>5, <2>6, <2>7, <2>8, <2>9 DEF Step
<1>7. ASSUME Recover \/ Resume PROVE Edits'
  <2>1. ASSUME Republish PROVE Edits'
    <3>1. /\ pc = "republish" /\ pc' \in {"recheck", "down"}
          /\ unrecorded' = unrecorded
          /\ branch' = branch \/ branch' = Append(branch, TheUnrecorded)
      BY <2>1 DEF Republish, Goto, ForgetProcess, logVars
    <3>2. CASE branch' = branch
      BY <1>3, <3>1, <3>2
    <3>3. CASE branch' = Append(branch, TheUnrecorded)
      <4>1. TheUnrecorded \in unrecorded
        BY <1>1, <3>1 DEF TypeInv, TheUnrecorded
      <4>2. TheUnrecorded \in Commit /\ Mine(TheUnrecorded)
        BY <1>1, <4>1 DEF Edits
      <4>3. \A i \in 1..Len(branch') : Mine(branch'[i])
        BY <1>1, <3>3, <4>2, MineAppend DEF Edits
      <4> QED
        BY <3>1, <4>3 DEF Edits, Mine
    <3> QED
      BY <3>1, <3>2, <3>3
  <2>2. Resume \/ ConfirmRepublished \/ RemoveAdoptedPin \/ DropOrphanPins
          \/ DropResidue => Edits'
    BY <1>3 DEF Resume, ConfirmRepublished, RemoveAdoptedPin, DropOrphanPins,
       DropResidue, Goto, ForgetProcess, logVars, gitVars
  <2>3. Adopt \/ RepairDefect \/ RepairDecline \/ RewritePayloads
          \/ SettleInterrupted \/ FinishResume => Edits'
    BY <1>3 DEF Adopt, TaskCommitted, RepairDefect, DesignDefect, RepairDecline,
       TaskFailed, RewritePayloads, SettleInterrupted, AttemptInterrupted,
       FinishResume, RunResumed, Goto, procVars, logVars, gitVars
  <2> QED
    BY <1>7, <2>1, <2>2, <2>3 DEF Recover
<1>8. ASSUME Environment PROVE Edits'
  <2>1. Crash => Edits'
    BY <1>3 DEF Crash, ForgetProcess, logVars
  <2>2. LateWrite => Edits'
    BY <1>3 DEF LateWrite, procVars, logVars
  <2>3. ASSUME OutsideCommit PROVE Edits'
    <3>1. PICK c : /\ c = [id |-> <<0, outside + 1>>, parent |-> Tip,
                           edits |-> {0}]
                   /\ branch' = Append(branch, c)
                   /\ UNCHANGED <<unrecorded, pc, cur, candidate>>
      BY <2>3 DEF OutsideCommit, procVars, logVars
    <3>2. c.id[1] = 0 /\ 0 \notin Task
      BY <3>1 DEF Task
    <3>3. c \in Commit
      <4>1. branch'[Len(branch')] = c /\ Len(branch') \in 1..Len(branch')
        BY <1>1, <3>1, LenProperties, AppendProperties
      <4> QED
        BY <1>1, <4>1, ElementOfSeq
    <3>4. \A i \in 1..Len(branch') : Mine(branch'[i])
      BY <1>1, <3>1, <3>2, <3>3, MineAppend DEF Edits, Mine
    <3> QED
      BY <3>1, <3>4 DEF Edits, Mine
  <2>4. ASSUME OutsideReset PROVE Edits'
    <3>1. /\ Tip # Base /\ pc = "down" /\ UNCHANGED <<unrecorded, pc>>
          /\ branch' = SubSeq(branch, 1, Len(branch) - 1)
      BY <2>4 DEF OutsideReset, procVars, logVars
    <3>2. branch # <<>>
      BY <3>1 DEF Tip, TipOf
    <3>3. /\ Len(branch') = Len(branch) - 1 /\ Len(branch) \in Nat
          /\ \A i \in 1..Len(branch') : branch'[i] = branch[i]
      <4>1. PICK front : front = SubSeq(branch, 1, Len(branch) - 1)
        OBVIOUS
      <4>2. /\ Len(front) = Len(branch) - 1
            /\ \A i \in 1..Len(front) : front[i] = branch[i]
        BY <1>1, <3>2, <4>1, ButLast
      <4>3. Len(branch) \in Nat
        BY <1>1, LenProperties
      <4> QED
        BY <3>1, <4>1, <4>2, <4>3
    <3> QED
      BY <3>1, <3>3 DEF Edits, Mine
  <2>5. ASSUME NEW q \in QuestionIx, NEW answer \in {"Answered", "Declined"},
               OperatorAnswers(q, answer)
        PROVE  Edits'
    BY <1>3, <2>5 DEF OperatorAnswers, procVars, logVars, gitVars
  <2> QED
    BY <1>8, <2>1, <2>2, <2>3, <2>4, <2>5 DEF Environment
<1> QED
  BY <1>4, <1>5, <1>6, <1>7, <1>8 DEF Next

(* Whose commit is pinned: the candidate at hand, the settlement the log   *)
(* ends with, or the attempt a dead process left in flight.                *)
AtRest == {"step", "attempt", "verify", "materialize", "tidy", "scrub", "record",
           "residue", "adopt", "repair", "interrupted"}
Accounted(c) == c \in unrecorded \/ \E t \in InFlight : c.id = AttemptId(t)
Pinned ==
  /\ pc \in DrainStates \union AtRest => pins = {}
  /\ pc \in {"verify", "settle"} => \A c \in candidate : c.id = AttemptId(cur)
  /\ pc \in {"settle", "advance", "unpin"} => pins \subseteq candidate
  /\ \A c \in pins : Accounted(c)
  /\ pc = "orphans" => \A c \in pins : \E t \in InFlight : c.id = AttemptId(t)

(* A pin is made for the attempt in flight, becomes the settlement's, and  *)
(* is given up with its publication or by the resume that finds it.        *)
LEMMA PinnedKept ==
  ASSUME SchedInv, Pinned, [Next]_vars
  PROVE  Pinned'
<1> USE DEF DrainStates, ResumeStates, AtRest, Here
<1>1. TypeInv /\ Ends /\ Flight
  BY DEF SchedInv
<1>2. pc \in Holding => candidate = {TheCandidate} /\ TheCandidate.id[1] = cur
  BY <1>1 DEF Ends, TheCandidate
(* Steps after which nothing is pinned.                                    *)
<1>3. ASSUME pins' = {},
             \/ pc' \notin {"verify", "settle"}
             \/ UNCHANGED <<pc, cur, candidate, progress>>
      PROVE  Pinned'
  BY <1>3 DEF Pinned, AttemptId
(* Steps that pin nothing and leave the log alone.                         *)
<1>4. ASSUME pins' \subseteq pins, UNCHANGED <<progress, unrecorded>>,
             \/ pc' \in {"down", "republish", "recheck", "reunpin"}
             \/ UNCHANGED <<pc, cur, candidate>>
      PROVE  Pinned'
  <2>1. \A c \in pins' : Accounted(c)'
    BY <1>4 DEF Pinned, Accounted, InFlight, AttemptId
  <2> QED
    BY <1>4, <2>1 DEF Pinned, InFlight, AttemptId
<1>5. CASE UNCHANGED vars
  BY <1>4, <1>5 DEF vars, procVars, logVars, gitVars
<1>6. ASSUME Drain PROVE Pinned'
  <2>1. pins' = pins
    BY <1>6 DEF Drain, SweepAnswers, IngestAnswer, RecordDefect, FailDeclined,
       RewritePayload, StepTask, WaitForPool, Finish, Ask, ReplyLands,
       ReplyAbsorbed, NobodyReplied, gitVars
  <2>2. pc \in DrainStates
    BY <1>6 DEF Drain, SweepAnswers, RecordDefect, FailDeclined,
       RewritePayload, StepTask, WaitForPool, Finish, Ask, ReplyLands,
       ReplyAbsorbed, NobodyReplied, Swept, HardBlock, NothingToSweep
  <2>3. pc' \in DrainStates \union {"down", "step"}
    BY <1>6, <2>2 DEF Drain, SweepAnswers, IngestAnswer, RecordDefect,
       FailDeclined, RewritePayload, StepTask, WaitForPool, Finish, Ask,
       ReplyLands, ReplyAbsorbed, NobodyReplied, Goto, BackToDrain,
       ForgetProcess, procVars
  <2> QED
    BY <1>3, <2>1, <2>2, <2>3 DEF Pinned
<1>7. ASSUME Step PROVE Pinned'
  <2>1. NoRung \/ StopAtBudget \/ StartAttempt => Pinned'
    BY <1>3 DEF NoRung, StopAtBudget, StartAttempt, Goto, BackToDrain, gitVars,
       Pinned
  <2>2. ASSUME NEW edits \in BOOLEAN, RunAgent(edits) PROVE Pinned'
    <3>1. pc = "attempt" /\ pc' = "verify" /\ UNCHANGED <<pins, cur, progress>>
      BY <2>2 DEF RunAgent, logVars
    <3>2. \A c \in candidate' : c.id = AttemptId(cur)
      BY <2>2 DEF RunAgent
    <3>3. pins' = {} /\ AttemptId(cur)' = AttemptId(cur)
      BY <3>1 DEF Pinned, AttemptId
    <3> QED
      BY <3>1, <3>2, <3>3 DEF Pinned
  <2>3. ASSUME NEW failure \in Failures, NEW reported \in BOOLEAN,
               NEW cost \in Costs, SettleFailed(failure, reported, cost)
        PROVE  Pinned'
    <3>1. pc = "verify" /\ pc' \in {"materialize", "tidy"} /\ pins' = pins
      BY <2>3 DEF SettleFailed, gitVars
    <3> QED
      BY <1>3, <3>1 DEF Pinned
  <2>4. MaterializeQuestion \/ Tidy => Pinned'
    BY <1>3 DEF MaterializeQuestion, Tidy, Goto, BackToDrain, gitVars, Pinned
  <2>5. PrepareRefused \/ AdvanceRefused \/ PublishRefused => Pinned'
    BY <1>4 DEF PrepareRefused, AdvanceRefused, PublishRefused, ForgetProcess,
       gitVars, logVars
  <2>6. ASSUME PrepareCommit PROVE Pinned'
    <3>1. /\ pc = "verify" /\ pc' = "settle" /\ pins' = pins \union candidate
          /\ UNCHANGED <<unrecorded, progress, cur, candidate>>
      BY <2>6 DEF PrepareCommit, Goto, logVars
    <3>2. pins' = candidate
      BY <3>1 DEF Pinned
    <3>3. cur \in InFlight
      BY <1>1, <3>1 DEF Ends, Flight, Judging, InFlight
    <3>4. \A c \in candidate : c.id = AttemptId(cur)
      BY <3>1 DEF Pinned
    <3>5. InFlight' = InFlight /\ AttemptId(cur)' = AttemptId(cur)
      BY <3>1 DEF InFlight, AttemptId
    <3>6. \A c \in pins' : Accounted(c)'
      BY <3>1, <3>2, <3>3, <3>4, <3>5 DEF Accounted, AttemptId
    <3> QED
      BY <3>1, <3>2, <3>4, <3>5, <3>6 DEF Pinned
  <2>7. ASSUME NEW reported \in BOOLEAN, NEW cost \in Costs,
               SettlePassed(reported, cost)
        PROVE  Pinned'
    <3>1. /\ pc = "settle" /\ pc' = "advance" /\ unrecorded' = {TheCandidate}
          /\ UNCHANGED <<pins, candidate>>
      BY <2>7 DEF SettlePassed, AttemptPassed, Goto, gitVars
    <3>2. pins \subseteq candidate /\ candidate = {TheCandidate}
      BY <1>2, <3>1 DEF Pinned, Holding
    <3> QED
      BY <3>1, <3>2 DEF Pinned, Accounted
  <2>8. ASSUME AdvanceBranch PROVE Pinned'
    <3>1. /\ pc = "advance" /\ pc' = "unpin"
          /\ UNCHANGED <<pins, candidate, unrecorded>>
      BY <2>8 DEF AdvanceBranch, Goto, logVars
    <3>2. pins \subseteq candidate /\ unrecorded = candidate
      BY <1>1, <3>1 DEF Pinned, Ends
    <3> QED
      BY <3>1, <3>2 DEF Pinned, Accounted
  <2>9. ASSUME RemovePin PROVE Pinned'
    <3>1. pc = "unpin" /\ pc' = "scrub" /\ pins' = pins \ candidate
      BY <2>9 DEF RemovePin, Goto
    <3>2. pins' = {}
      BY <3>1 DEF Pinned
    <3> QED
      BY <1>3, <3>1, <3>2
  <2>10. ScrubTree \/ RecordCommit => Pinned'
    BY <1>3 DEF ScrubTree, RecordCommit, Goto, BackToDrain, gitVars, Pinned
  <2> QED
    BY <1>7, <2>1, <2>2, <2>3, <2>4, <2>5, <2>6, <2>7, <2>8, <2>9, <2>10 DEF Step
<1>8. ASSUME Recover \/ Resume PROVE Pinned'
  <2>1. ASSUME Resume PROVE Pinned'
    <3>1. /\ pc = "down" /\ UNCHANGED <<pins, progress, unrecorded>>
          /\ \/ pc' \in {"republish", "reunpin"}
             \/ pc' = "orphans" /\ unrecorded = {}
      BY <2>1 DEF Resume, gitVars, logVars
    <3>2. CASE pc' \in {"republish", "reunpin"}
      BY <1>4, <3>1, <3>2
    <3>3. CASE pc' = "orphans" /\ unrecorded = {}
      BY <3>1, <3>3 DEF Pinned, Accounted, InFlight, AttemptId
    <3> QED
      BY <3>1, <3>2, <3>3
  <2>2. Republish \/ ConfirmRepublished => Pinned'
    BY <1>4 DEF Republish, ConfirmRepublished, Goto, ForgetProcess, gitVars,
       logVars
  <2>3. ASSUME RemoveAdoptedPin PROVE Pinned'
    <3>1. /\ pc' = "orphans" /\ pins' = pins \ unrecorded
          /\ UNCHANGED <<progress, unrecorded>>
      BY <2>3 DEF RemoveAdoptedPin, Goto, logVars
    <3> QED
      BY <3>1 DEF Pinned, Accounted, InFlight, AttemptId
  <2>4. ASSUME DropOrphanPins PROVE Pinned'
    <3>1. /\ pc = "orphans" /\ pc' = "residue"
          /\ pins' = {c \in pins : ~ \E t \in Task : progress[t].in_flight
                                                     /\ c.id = AttemptId(t)}
      BY <2>4 DEF DropOrphanPins, Goto
    <3>2. pins' = {}
      BY <3>1 DEF Pinned, InFlight
    <3> QED
      BY <1>3, <3>1, <3>2
  <2>5. DropResidue \/ Adopt \/ RepairDefect \/ RepairDecline \/ RewritePayloads
          \/ SettleInterrupted \/ FinishResume => Pinned'
    BY <1>3 DEF DropResidue, Adopt, RepairDefect, RepairDecline,
       RewritePayloads, SettleInterrupted, FinishResume, Goto, procVars,
       gitVars, Pinned
  <2> QED
    BY <1>8, <2>1, <2>2, <2>3, <2>4, <2>5 DEF Recover
<1>9. ASSUME Environment PROVE Pinned'
  <2>1. Crash \/ LateWrite \/ OutsideCommit \/ OutsideReset => Pinned'
    BY <1>4 DEF Crash, LateWrite, OutsideCommit, OutsideReset, ForgetProcess,
       procVars, logVars
  <2>2. ASSUME NEW q \in QuestionIx, NEW answer \in {"Answered", "Declined"},
               OperatorAnswers(q, answer)
        PROVE  Pinned'
    BY <1>4, <2>2 DEF OperatorAnswers, procVars, logVars, gitVars
  <2> QED
    BY <1>9, <2>1, <2>2 DEF Environment
<1> QED
  BY <1>5, <1>6, <1>7, <1>8, <1>9 DEF Next

(* The inductive invariant of what attempts leave behind.                  *)
LeftInv == SchedInv /\ Sessions /\ Trees /\ Edits /\ Pinned

(* It holds at first, and every step keeps it.                             *)
LEMMA LeftInvInit == Init => LeftInv
<1> SUFFICES ASSUME Init PROVE LeftInv
  OBVIOUS
<1>1. /\ pc = "drain" /\ branch = <<>> /\ pins = {} /\ tree = {}
      /\ unrecorded = {} /\ \A t \in Task : ~progress[t].resume_next
  BY DEF Init, RunStateInit, NewProgress
<1>2. Len(branch) = 0
  BY <1>1, EmptySeq
<1>3. 1..Len(branch) = {}
  BY <1>2
<1> QED
  BY <1>1, <1>3, SchedInvInit DEF LeftInv, Sessions, Trees, Edits, Pinned,
     Ongoing, Away, ResumeStates, Working, Judging

(* So it holds always.                                                     *)
LEMMA LeftAlways == Spec => []LeftInv
<1>1. LeftInv /\ [Next]_vars => LeftInv'
  <2> SUFFICES ASSUME LeftInv, [Next]_vars PROVE LeftInv'
    OBVIOUS
  <2>1. SchedInv /\ Sessions /\ Trees /\ Edits /\ Pinned
    BY DEF LeftInv
  <2> QED
    BY <2>1, SchedInvKept, SessionsKept, TreesKept, EditsKept, PinnedKept
       DEF LeftInv
<1> QED
  BY LeftInvInit, <1>1, PTL DEF Spec

(* What an attempt leaves is its own: a commit on the branch holds its     *)
(* task's verified edits and no others, a resumed session finds the tree   *)
(* it left and a fresh one a clean tree, and a pin outlives neither its    *)
(* settlement nor its attempt, over parkings, outages, late writes and     *)
(* crashes.                                                                *)
THEOREM NothingLeaksAlways == Spec => []NothingLeaks
<1>1. LeftInv => NothingLeaks
  <2> SUFFICES ASSUME LeftInv PROVE NothingLeaks
    OBVIOUS
  <2>1. Trees /\ Edits /\ Pinned
    BY DEF LeftInv
  <2>2. OwnVerifiedWork
    BY <2>1 DEF Edits, Mine, OwnVerifiedWork
  <2>3. SessionMatchesTree
    BY <2>1 DEF Trees, Working, Judging, SessionMatchesTree
  <2>4. PinsAccountedFor
    BY <2>1 DEF Pinned, Accounted, DrainStates, PinsAccountedFor
  <2> QED
    BY <2>2, <2>3, <2>4 DEF NothingLeaks
<1> QED
  BY LeftAlways, <1>1, PTL

(* ------------------------------------------------------------------------- *)
(* The engine's set of exhausted pools against the log's, for any set of     *)
(* pools and any number of resumes: the specification of PoolSignals.        *)

(* Every pool with an event is out by both accounts, and while a           *)
(* settlement is owed its aftermath the two accounts differ by exactly     *)
(* what that settlement proves.                                            *)
Owed(s) ==
  /\ s \in Settlement
  /\ settling = {s}
  /\ observed \subseteq StillOut(s) \union s.limited
  /\ s.limited \subseteq observed
  /\ announced \intersect Served(s) = {}

PoolInv ==
  /\ announced \subseteq observed
  /\ announced \subseteq exhausted
  /\ OutagesRemembered
  /\ \A s \in settling : Owed(s)

(* Holds in the empty log of a new run.                                    *)
LEMMA PoolInvInit == PoolInit => PoolInv
  BY DEF PoolInit, PoolInv, OutagesRemembered

(* Every append, every aftermath and every restart keeps the accounts in   *)
(* that relation.                                                          *)
LEMMA PoolInvNext == PoolInv /\ [PoolNext]_poolVars => PoolInv'
<1> SUFFICES ASSUME PoolInv, [PoolNext]_poolVars PROVE PoolInv'
  OBVIOUS
<1> USE DEF PoolInv, OutagesRemembered, Owed, StillOut, Served
<1>1. ASSUME NEW s \in Settlement, Settle(s) PROVE PoolInv'
  BY <1>1 DEF Settle, ObserveSettlement
<1>2. ASSUME NEW s \in settling, AfterSuccess(s) PROVE PoolInv'
  <2>1. s.limited = {}
    BY <1>2 DEF AfterSuccess, Settlement
  <2> QED
    BY <1>2, <2>1 DEF AfterSuccess
<1>3. ASSUME NEW s \in settling, AfterFailure(s) PROVE PoolInv'
  BY <1>3 DEF AfterFailure, Announces
<1>4. CASE CrashAndResume
  BY <1>4 DEF CrashAndResume
<1>5. CASE UNCHANGED poolVars
  BY <1>5 DEF poolVars
<1> QED
  BY <1>1, <1>2, <1>3, <1>4, <1>5 DEF PoolNext

(* No crash between a settlement and its pool_exhausted event makes the    *)
(* engine forget an outage the log knows of.                               *)
THEOREM RememberedAlways == PoolSpec => []OutagesRemembered
<1>1. PoolInv => OutagesRemembered
  BY DEF PoolInv
<1> QED
  BY PoolInvInit, PoolInvNext, <1>1, PTL DEF PoolSpec

(* What the engine is about to announce has no event yet, whatever         *)
(* deferrals and crashes came before.                                      *)
THEOREM ToldOnceAlways == PoolSpec => []ToldOnce
<1>1. PoolInv => ToldOnce
  BY DEF PoolInv, ToldOnce, Owed, Announces, StillOut
<1> QED
  BY PoolInvInit, PoolInvNext, <1>1, PTL DEF PoolSpec

(* Both accounts are of the pools there are, and the count of crashes is   *)
(* one: what an attempt refuses on or proves is always a pool of the file. *)
THEOREM PoolsTypeCorrect == PoolSpec => []PoolTypeOK
<1>1. PoolInit => PoolTypeOK
  BY PoolsAssumption DEF PoolInit, PoolTypeOK
<1>2. ASSUME PoolTypeOK, [PoolNext]_poolVars PROVE PoolTypeOK'
  <2> USE <1>2 DEF PoolTypeOK
  <2>1. \A s \in Settlement : s.limited \subseteq Pools
    BY DEF Settlement
  <2>2. ASSUME NEW s \in Settlement, Settle(s) PROVE PoolTypeOK'
    BY <2>1, <2>2 DEF Settle, ObserveSettlement
  <2>3. ASSUME NEW s \in settling, AfterSuccess(s) PROVE PoolTypeOK'
    BY <2>3 DEF AfterSuccess
  <2>4. ASSUME NEW s \in settling, AfterFailure(s) PROVE PoolTypeOK'
    BY <2>1, <2>4 DEF AfterFailure, Announces, StillOut
  <2>5. CASE CrashAndResume
    BY <2>5 DEF CrashAndResume
  <2>6. CASE UNCHANGED poolVars
    BY <2>6 DEF poolVars
  <2> QED
    BY <2>2, <2>3, <2>4, <2>5, <2>6 DEF PoolNext
<1> QED
  BY <1>1, <1>2, PTL DEF PoolSpec
=============================================================================
