------------------------------ MODULE RunState ------------------------------
(***************************************************************************)
(* The state of a run as events.jsonl records it: RunState of              *)
(* src/src/events.rs, with one operator per event, each the effect of      *)
(* RunState::apply on every field it writes.  These variables are durable: *)
(* the file is only appended to, an append is one flushed and synced line, *)
(* and a restarted process rebuilds exactly these values by replaying it.  *)
(*                                                                         *)
(* Four variables keep facts a recovering process reads out of the log     *)
(* itself: the commits it names in order, the prepared commit of a passing *)
(* settlement when that settlement is the log's LAST event, the questions  *)
(* that have a design_defect event, and the spend its attempt records add  *)
(* up to.                                                                  *)
(***************************************************************************)
EXTENDS TaskProgress, Sequences

CONSTANT NTasks        \* how many tasks the frozen plan has

ASSUME NTasksAssumption == NTasks \in Nat \ {0}

VARIABLES
  states,        \* each task's TaskState
  progress,      \* each task's Progress
  questions,     \* every question raised, oldest first
  halted_at,     \* the task whose failure halted the run, 0 for none
  budget_stop,   \* a ceiling refused an attempt in this epoch
  finished,      \* the outcome of the last run_finished, "none" if none
  recorded,      \* commits named by task_committed events, in order
  unrecorded,    \* {the prepared commit of a passing settlement} while that
                 \* settlement is the last event of the log, {} otherwise
  defects,       \* questions with a design_defect event
  spent          \* each task's reported spend

logVars == <<states, progress, questions, halted_at, budget_stop, finished,
             recorded, unrecorded, defects, spent>>

Task == 1..NTasks

Outcome == {"Complete", "Parked", "Halted", "BudgetExceeded"}

(* A commit object is named by the attempt that made it; task 0 names the  *)
(* base the run started from and the commits somebody else makes.          *)
CommitId == (0..NTasks) \X Nat
Base     == <<0, 0>>

(* `edits` are the tasks whose working-tree edits the commit's tree holds. *)
(* The marker 0 among them stands for bytes written after the capture.     *)
Commit == [id: CommitId, parent: CommitId, edits: SUBSET (0..NTasks)]

TaskState == [is: {"Pending", "Deferred", "AwaitingInput", "Done", "Failed"},
              question: Nat]
Plain(name) == [is |-> name, question |-> 0]
AwaitingInput(q) == [is |-> "AwaitingInput", question |-> q]

(* halts is the contemporaneous on_task_failure a decline was recorded     *)
(* with.                                                                   *)
Question == [task: Task, kind: QuestionKind,
             answer: {"open", "Answered", "Declined"}, halts: BOOLEAN]

OpenQuestion(task, kind) ==
  [task |-> task, kind |-> kind, answer |-> "open", halts |-> FALSE]

IsOpen(q) == questions[q].answer = "open"

RunStateInit ==
  /\ states = [t \in Task |-> Plain("Pending")]
  /\ progress = [t \in Task |-> NewProgress]
  /\ questions = <<>>
  /\ halted_at = 0
  /\ budget_stop = FALSE
  /\ finished = "none"
  /\ recorded = <<>>
  /\ unrecorded = {}
  /\ defects = {}
  /\ spent = [t \in Task |-> 0]

RunStateTypeOK ==
  /\ states \in [Task -> TaskState]
  /\ progress \in [Task -> Progress]
  /\ questions \in Seq(Question)
  /\ halted_at \in 0..NTasks
  /\ budget_stop \in BOOLEAN
  /\ finished \in Outcome \union {"none"}
  /\ recorded \in Seq(Commit)
  /\ unrecorded \in SUBSET Commit
  /\ defects \in SUBSET Nat
  /\ spent \in [Task -> Nat]
-----------------------------------------------------------------------------
(* Fault: the wait ends and nobody is woken.                               *)
WakeDeferred_Nobody == states' = states

(* Deferred work has waited long enough: wake all of it.                   *)
WakeDeferred ==
  states' = [t \in Task |-> IF states[t].is = "Deferred" THEN Plain("Pending")
                                                         ELSE states[t]]

(* Fault: a later failure takes the blame over.                            *)
HaltAt_LastWins(t, halts) == halted_at' = IF halts THEN t ELSE halted_at

(* halted_at.get_or_insert: the first failure stays the one that is named. *)
HaltAt(t, halts) ==
  halted_at' = IF halts /\ halted_at = 0 THEN t ELSE halted_at

AttemptStarted(t) ==
  /\ progress' = [progress EXCEPT ![t] = Started(@)]
  /\ unrecorded' = {}
  /\ UNCHANGED <<states, questions, halted_at, budget_stop, finished,
                 recorded, defects, spent>>

AttemptInterrupted(t) ==
  /\ progress' = [progress EXCEPT ![t] = Interrupted(@)]
  /\ unrecorded' = {}
  /\ UNCHANGED <<states, questions, halted_at, budget_stop, finished,
                 recorded, defects, spent>>

(* A passing settlement carries the exact prepared commit.                 *)
AttemptPassed(t, reported, cost, prepared) ==
  /\ progress' = [progress EXCEPT ![t] = Settled(@, reported)]
  /\ spent' = [spent EXCEPT ![t] = @ + cost]
  /\ unrecorded' = {prepared}
  /\ UNCHANGED <<states, questions, halted_at, budget_stop, finished,
                 recorded, defects>>

(* A failed one carries the ladder's decision and the question that parks  *)
(* the task, if any: `asks` is {} or {kind of question}.                   *)
AttemptFailed(t, reported, cost, next, asks, refund, halts) ==
  /\ progress' = [progress EXCEPT ![t] =
                    SettledWith(@, reported, next, asks # {}, refund)]
  /\ spent' = [spent EXCEPT ![t] = @ + cost]
  /\ questions' = IF asks = {} THEN questions
                  ELSE Append(questions,
                              OpenQuestion(t, CHOOSE kind \in asks : TRUE))
  /\ states' = [states EXCEPT ![t] =
                  CASE asks # {}           -> AwaitingInput(Len(questions) + 1)
                    [] next.step = "Defer" -> Plain("Deferred")
                    [] next.step = "Fail"  -> Plain("Failed")
                    [] OTHER               -> @]
  /\ HaltAt(t, next.step = "Fail" /\ halts)
  /\ unrecorded' = {}
  /\ UNCHANGED <<budget_stop, finished, recorded, defects>>

DeferWaitElapsed ==
  /\ WakeDeferred
  /\ unrecorded' = {}
  /\ UNCHANGED <<progress, questions, halted_at, budget_stop, finished,
                 recorded, defects, spent>>

TaskCommitted(t, commit) ==
  /\ states' = [states EXCEPT ![t] = Plain("Done")]
  /\ recorded' = Append(recorded, commit)
  /\ unrecorded' = {}
  /\ UNCHANGED <<progress, questions, halted_at, budget_stop, finished,
                 defects, spent>>

TaskFailed(t, halts) ==
  /\ states' = [states EXCEPT ![t] = Plain("Failed")]
  /\ HaltAt(t, halts)
  /\ unrecorded' = {}
  /\ UNCHANGED <<progress, questions, budget_stop, finished, recorded,
                 defects, spent>>

(* Only an answer that is not a decline releases the task, and only if it  *)
(* is this very question the task waits for.  An answer to a closed        *)
(* question folds to nothing.                                              *)
QuestionAnswered(q, answer, halts) ==
  LET t == questions[q].task
      releases == /\ IsOpen(q)
                  /\ answer = "Answered"
                  /\ states[t] = AwaitingInput(q)
  IN /\ questions' = IF IsOpen(q)
                     THEN [questions EXCEPT ![q].answer = answer,
                                            ![q].halts = halts]
                     ELSE questions
     /\ states' = IF releases THEN [states EXCEPT ![t] = Plain("Pending")]
                              ELSE states
     /\ progress' = IF releases
                    THEN [progress EXCEPT ![t] =
                            Answered(@, questions[q].kind)]
                    ELSE progress
     /\ unrecorded' = {}
     /\ UNCHANGED <<halted_at, budget_stop, finished, recorded, defects,
                    spent>>

DesignDefect(q) ==
  /\ defects' = defects \union {q}
  /\ unrecorded' = {}
  /\ UNCHANGED <<states, progress, questions, halted_at, budget_stop,
                 finished, recorded, spent>>

BudgetExceeded ==
  /\ budget_stop' = TRUE
  /\ unrecorded' = {}
  /\ UNCHANGED <<states, progress, questions, halted_at, finished, recorded,
                 defects, spent>>

RunResumed ==
  /\ finished' = "none"
  /\ progress' = [t \in Task |-> Resumed(progress[t])]
  /\ WakeDeferred
  /\ budget_stop' = FALSE
  /\ unrecorded' = {}
  /\ UNCHANGED <<questions, halted_at, recorded, defects, spent>>

RunFinished(outcome) ==
  /\ finished' = outcome
  /\ unrecorded' = {}
  /\ UNCHANGED <<states, progress, questions, halted_at, budget_stop,
                 recorded, defects, spent>>
=============================================================================
