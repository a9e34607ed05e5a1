------------------------------- MODULE RunLog -------------------------------
(***************************************************************************)
(* events.jsonl as the thing everybody reads: the events one run's         *)
(* processes append to it, crash by crash, and what the other readers make *)
(* of the result.  RunState.tla keeps only the folded state; here the log  *)
(* itself is the state, because schema checks, the refusal of undecided    *)
(* legacy failures, recorded identity and the decision export are          *)
(* questions about the order of events.                                    *)
(*                                                                         *)
(*   - a run may have been begun by an older binary (event schema 1 or 2,  *)
(*     src/src/events.rs says what it wrote: a failure and its decision in *)
(*     separate appends, no prepared commit, parts of its identity never   *)
(*     recorded).  That writer is external: it is modelled as the current  *)
(*     code describes it;                                                  *)
(*   - every later process is this binary: it refuses or resumes, upgrades *)
(*     the schema, repairs what a crash cut short, and works on;           *)
(*   - `status`, `export` and the report are functions of the log.         *)
(*                                                                         *)
(* `standard` is the identity a run must not change half way: the gates,   *)
(* the effort, the reviewers, their timeout and the worker bindings.  Each *)
(* is the number of the configuration it was derived from, 0 where an      *)
(* event does not record it.                                               *)
(***************************************************************************)
EXTENDS TaskProgress, Sequences, FiniteSets

CONSTANTS
  NTasks,        \* tasks of the frozen plan, each depending on the previous
  Rungs,         \* length of every task's chain
  AttemptsPer,   \* attempts each rung is allowed
  MaxDefers,     \* outages a task waits out before it asks
  Failures,      \* the failures the environment produces
  Schemas,       \* event schemas a run may have been begun under
  MaxStarts,     \* bound: attempts of the whole run
  MaxProcesses,  \* bound: conductors
  MaxConfig      \* bound: versions of the configuration

ASSUME RunLogAssumption ==
  /\ {NTasks, Rungs, AttemptsPer, MaxConfig} \subseteq Nat \ {0}
  /\ MaxDefers \in Nat
  /\ Failures \subseteq AttemptFailure
  /\ Schemas \subseteq 1..3

VARIABLES
  log,        \* the events, oldest first
  state,      \* what RunState::apply has folded them into
  conductor,  \* the live process, or NoConductor
  processes,  \* how many there have been
  config      \* today's configuration

vars == <<log, state, conductor, processes, config>>

SCHEMA_VERSION == 3
Task == 1..NTasks
DependsOn(t) == IF t = 1 THEN {} ELSE {t - 1}
Policy == [attempts_per |-> AttemptsPer, rungs |-> Rungs,
           max_defers |-> MaxDefers]

Aspect == {"gates", "effort", "reviews", "timeout", "chains", "digest"}
Nothing == [a \in Aspect |-> 0]

(* `pending` are the events the process is in the middle of appending, `on` *)
(* the task whose attempt it runs, `under` the standard it works by.       *)
NoConductor == [alive |-> FALSE, schema |-> 0, pending |-> <<>>, on |-> 0,
                under |-> Nothing]
-----------------------------------------------------------------------------
(* What an event says, and what it folds to.                               *)

Is(e, names) == e.ev \in names
About(e, t) == "task" \in DOMAIN e /\ e.task = t

Passed(e) == Is(e, {"attempt_finished"}) /\ e.fail.kind = "none"
NoFailure == [kind |-> "none", origin |-> "Worker"]
CutOff == [kind |-> "Interrupted", origin |-> "Worker"]

Waits(q) == [is |-> "AwaitingInput", question |-> q]
Plain(name) == [is |-> name, question |-> 0]

NewState ==
  [states |-> [t \in Task |-> Plain("Pending")],
   progress |-> [t \in Task |-> NewProgress],
   records |-> [t \in Task |-> <<>>],
   questions |-> <<>>, halted_at |-> 0, finished |-> "none"]

Ask(s, t, kind) ==
  [s EXCEPT !.questions = Append(@, [task |-> t, kind |-> kind,
                                     answer |-> "open", halts |-> "none"])]

Step(s, t, p) == [s EXCEPT !.progress[t] = p]
Become(s, t, is) == [s EXCEPT !.states[t] = is]

(* apply_attempt_transition and the four separate events it stands for.    *)
Transition(s, t, step, resume) ==
  CASE step = "Retry"    -> Step(s, t, Retried(s.progress[t], resume))
    [] step = "Escalate" -> Step(s, t, Escalated(s.progress[t]))
    [] step = "Defer"    -> Become(Step(s, t, Deferred(s.progress[t])), t,
                                   Plain("Deferred"))
    [] OTHER             -> s

Park(s, t, q, refund) ==
  Become(Step(s, t, Parked(s.progress[t], refund)), t, Waits(q))

(* Fault: the parking that travels with a settlement forgets the refund.   *)
ParkWith_NoRefund(s, e) ==
  IF e.parks = "none" THEN s
  ELSE Park(Ask(s, e.task, e.parks), e.task, Len(s.questions) + 1, FALSE)

ParkWith(s, e) ==
  IF e.parks = "none" THEN s
  ELSE Park(Ask(s, e.task, e.parks), e.task, Len(s.questions) + 1, e.refund)

Recorded(s, e) ==
  [s EXCEPT !.records[e.task] =
     Append(@, [attempt |-> e.attempt, fail |-> e.fail, cost |-> e.cost])]

FailTask(s, t, halts) ==
  [Become(s, t, Plain("Failed")) EXCEPT
     !.halted_at = IF halts /\ @ = 0 THEN t ELSE @]

Answer(s, e) ==
  LET question == s.questions[e.q]
      t == question.task
      closed == [s EXCEPT !.questions[e.q].answer = e.answer,
                          !.questions[e.q].halts = e.halts]
  IN  IF question.answer # "open" THEN s
      ELSE IF e.answer = "Answered" /\ s.states[t] = Waits(e.q)
        THEN Become(Step(closed, t, Answered(s.progress[t], question.kind)),
                    t, Plain("Pending"))
      ELSE closed

Wake(s) ==
  [s EXCEPT !.states = [t \in Task |-> IF @[t].is = "Deferred"
                                       THEN Plain("Pending") ELSE @[t]]]

Apply(s, e) ==
  CASE e.ev = "attempt_started" -> Step(s, e.task, Started(s.progress[e.task]))
    [] e.ev = "attempt_finished" ->
         LET ended == Recorded(Step(s, e.task,
                                    Settled(s.progress[e.task], e.reported)), e)
         IN  ParkWith(Transition(ended, e.task, e.next, e.resume), e)
    [] e.ev = "attempt_interrupted" ->
         Recorded(Step(s, e.task, Interrupted(s.progress[e.task])), e)
    [] e.ev = "ladder_retry"    -> Transition(s, e.task, "Retry", e.resume)
    [] e.ev = "ladder_escalated" -> Transition(s, e.task, "Escalate", FALSE)
    [] e.ev = "task_deferred"   -> Transition(s, e.task, "Defer", FALSE)
    [] e.ev = "question_raised" -> Ask(s, e.task, e.kind)
    [] e.ev = "task_parked"     -> Park(s, e.task, e.q, e.refund)
    [] e.ev = "task_committed"  -> Become(s, e.task, Plain("Done"))
    [] e.ev = "task_failed"     -> FailTask(s, e.task, e.halts)
    [] e.ev = "question_answered" -> Answer(s, e)
    [] e.ev = "defer_wait_elapsed" -> Wake(s)
    [] e.ev = "run_resumed" ->
         Wake([s EXCEPT !.finished = "none",
                        !.progress = [t \in Task |-> Resumed(@[t])]])
    [] e.ev = "run_finished"    -> [s EXCEPT !.finished = e.outcome]
    [] OTHER                    -> s

RECURSIVE Replay(_, _)
Replay(s, events) ==
  IF events = <<>> THEN s ELSE Replay(Apply(s, Head(events)), Tail(events))
-----------------------------------------------------------------------------
(* What the log says about the run as a whole.                             *)

Upgrades(events) ==
  {i \in DOMAIN events : Is(events[i], {"run_schema_upgraded"})}

(* The schema in force where event i was written.                          *)
SchemaAt(events, i) ==
  LET before == {j \in Upgrades(events) : j <= i}
  IN  IF before = {} THEN events[1].schema
      ELSE events[CHOOSE j \in before : \A k \in before : k <= j].to

EffectiveSchema(events) == SchemaAt(events, Len(events))

(* Which events may carry a part of the standard: timeouts and plan        *)
(* digests count only where schema 3 is in force.                          *)
Carries(events, i, aspect) ==
  /\ Is(events[i], {"run_started", "run_resumed"})
  /\ events[i].standard[aspect] # 0
  /\ aspect \in {"timeout", "digest"} => SchemaAt(events, i) >= 3

(* recorded_gates, recorded_effort_policy, recorded_reviews, ...: the      *)
(* first event that records it, 0 if none does.                            *)
RecordedStandard(events, aspect) ==
  LET at == {i \in DOMAIN events : Carries(events, i, aspect)}
  IN  IF at = {} THEN 0
      ELSE events[CHOOSE i \in at : \A j \in at : i <= j].standard[aspect]

IsOutage_(fail) == fail.kind # "none" /\ IsOutage(fail)

(* valid_attempt_decision: the decisions each kind of failure admits.      *)
ValidDecision(e) ==
  CASE e.fail.kind = "NeedsHuman" ->
         e.next = "none" /\ e.parks = "Clarify" /\ e.refund
    [] e.fail.kind \in {"ReviewInputTooLarge", "ReviewInputOpaque"} ->
         /\ e.fail.origin = "Reviewer"
         /\ e.next = "none" /\ e.parks = "Unblock" /\ ~e.refund
    [] IsOutage_(e.fail) ->
         \/ e.next = "Defer" /\ e.parks = "none"
         \/ e.next = "none" /\ e.parks = "Unblock" /\ e.refund
    [] e.fail.kind \in {"Declined", "Interrupted"} -> FALSE
    [] OTHER ->
         \/ e.next \in {"Retry", "Escalate", "Fail"} /\ e.parks = "none"
         \/ e.next = "Escalate" /\ e.parks = "ApproveSpend" /\ ~e.refund
         \/ e.next = "none" /\ e.parks = "Unblock" /\ ~e.refund

Commits(committed, passed) ==
  /\ Is(committed, {"task_committed"})
  /\ committed.task = passed.task
  /\ committed.attempt = passed.attempt

(* ensure_supported_schema.                                                *)
TransitionsChain(events) ==
  \A i \in Upgrades(events) :
     /\ i > 1 /\ events[i].from = SchemaAt(events, i - 1)
     /\ events[i].to > events[i].from

SettlementsBound(events) ==
  \A i \in DOMAIN events :
    SchemaAt(events, i) >= 3 =>
      LET e == events[i] IN
      /\ Is(e, {"attempt_finished"}) =>
           LET decided == e.next # "none" \/ e.parks # "none" IN
           /\ Passed(e) <=> ~decided
           /\ Passed(e) <=> e.prepared
           /\ Passed(e) \/ ValidDecision(e)
           /\ Passed(e) /\ i < Len(events) => Commits(events[i + 1], e)
      /\ Is(e, {"task_committed"}) =>
           i > 1 /\ Passed(events[i - 1]) /\ Commits(e, events[i - 1])
                 /\ SchemaAt(events, i - 1) >= 3
      /\ Is(e, {"question_answered"}) /\ e.answer = "Declined" =>
           e.halts # "none"

IdentityBound(events) ==
  LET bound == {"digest", "reviews", "timeout"}
      resumes == {i \in DOMAIN events : Is(events[i], {"run_resumed"})
                                        /\ SchemaAt(events, i) >= 3}
  IN  IF events[1].schema >= 3
      THEN \A a \in bound : events[1].standard[a] # 0
      ELSE resumes = {} \/
           LET first == CHOOSE i \in resumes : \A j \in resumes : i <= j
           IN  \A a \in bound : events[first].standard[a] # 0

SchemaAccepted(events) ==
  /\ TransitionsChain(events)
  /\ EffectiveSchema(events) <= SCHEMA_VERSION
  /\ SettlementsBound(events)
  /\ IdentityBound(events)

(* legacy_unsettled_failure, one kind at a time.                           *)
Undecided(events, i) ==
  LET e == events[i] IN
  /\ Is(e, {"attempt_finished"}) /\ SchemaAt(events, i) < 3
  /\ ~Passed(e) /\ e.next = "none" /\ e.parks = "none"
  /\ ~\E j \in i+1..Len(events) :
        /\ About(events[j], e.task)
        /\ \/ /\ Is(events[j], {"ladder_retry", "ladder_escalated"})
              /\ events[j].attempt = e.attempt
           \/ Is(events[j], {"task_deferred", "task_failed", "task_parked"})

SpendUnparked(events, i) ==
  LET t == events[i].task
      ends == {"task_deferred", "task_failed", "task_parked",
               "attempt_started"}
  IN
  /\ \E k \in 1..i-1 :
       /\ Is(events[k], {"ladder_escalated"}) /\ About(events[k], t)
       /\ ~\E j \in k+1..i-1 : About(events[j], t) /\ Is(events[j], ends)
  /\ ~\E j \in i+1..Len(events) :
        About(events[j], t) /\ Is(events[j], {"task_parked"})

AsksToSpend(e) == Is(e, {"question_raised"}) /\ e.kind = "ApproveSpend"

(* Faults: only a missing decision is looked for; only the last event is.  *)
LegacyUnsettled_DecisionsOnly(events) ==
  \E i \in DOMAIN events : Undecided(events, i)
LegacyUnsettled_AtTheEnd(events) ==
  \/ Undecided(events, Len(events))
  \/ AsksToSpend(events[Len(events)]) /\ SpendUnparked(events, Len(events))

LegacyUnsettled(events) ==
  \E i \in DOMAIN events :
     \/ Undecided(events, i)
     \/ AsksToSpend(events[i]) /\ SpendUnparked(events, i)
-----------------------------------------------------------------------------
(* The writers.                                                            *)

StandardAtStart(schema, version) ==
  [a \in Aspect |->
     CASE schema >= 3 -> IF a = "digest" THEN 1 ELSE version
       [] schema = 2  -> IF a \in {"timeout", "digest"} THEN 0 ELSE version
       [] OTHER       -> 0]

RunStarted(schema, version) ==
  [ev |-> "run_started", schema |-> schema,
   standard |-> StandardAtStart(schema, version)]

Init ==
  \E schema \in Schemas :
    /\ log = <<RunStarted(schema, 1)>>
    /\ state = NewState
    /\ conductor = [alive |-> TRUE, schema |-> schema, pending |-> <<>>,
                    on |-> 0, under |-> StandardAtStart(3, 1)]
    /\ processes = 1
    /\ config = 1

(* Run::emit: append and fold.  What the process has still to append after *)
(* this event waits in `pending`; until then it does nothing else.         *)
Emit(e, after) ==
  /\ log' = Append(log, e)
  /\ state' = Apply(state, e)
  /\ conductor' = [conductor EXCEPT
                      !.pending = after,
                      !.on = CASE Is(e, {"attempt_started"}) -> e.task
                               [] Is(e, {"attempt_finished"}) -> 0
                               [] OTHER -> @]
  /\ UNCHANGED <<processes, config>>

AtWork == conductor.alive /\ conductor.pending = <<>>
Idle == AtWork /\ conductor.on = 0

EmitNext ==
  /\ conductor.alive
  /\ conductor.pending # <<>>
  /\ Emit(Head(conductor.pending), Tail(conductor.pending))

Ready(t) ==
  /\ state.halted_at = 0
  /\ state.states[t].is = "Pending"
  /\ \A d \in DependsOn(t) : state.states[d].is = "Done"

Starts(events) == {i \in DOMAIN events : Is(events[i], {"attempt_started"})}

StartAttempt(t) ==
  /\ Idle
  /\ Ready(t)
  /\ Cardinality(Starts(log)) < MaxStarts
  /\ Emit([ev |-> "attempt_started", task |-> t,
           attempt |-> state.progress[t].attempts + 1,
           rung |-> state.progress[t].rung,
           under |-> conductor.under], <<>>)

Finished(t, fail, next, parks, refund) ==
  [ev |-> "attempt_finished", task |-> t,
   attempt |-> state.progress[t].attempts, rung |-> state.progress[t].rung,
   fail |-> fail, reported |-> TRUE, next |-> next,
   resume |-> next = "Retry", parks |-> parks, refund |-> refund,
   prepared |-> fail.kind = "none" /\ conductor.schema >= 3, cost |-> 1]

TaskCommitted(passed) ==
  [ev |-> "task_committed", task |-> passed.task, attempt |-> passed.attempt]

AttemptPasses(t) ==
  LET passed == Finished(t, NoFailure, "none", "none", FALSE) IN
  /\ AtWork
  /\ conductor.on = t
  /\ Emit(passed, <<TaskCommitted(passed)>>)

(* What the ladder makes of a failure, as the settlement carries it.       *)
DecisionOn(t, fail, spends) ==
  LET p == state.progress[t]
      next == NextStep(fail, [rung |-> p.rung, defers |-> p.defers,
                              attempts_on_rung |-> p.attempts_on_rung,
                              resumable |-> TRUE], Policy)
  IN  [next |-> IF next.step = "AskHuman" THEN "none" ELSE next.step,
       parks |-> CASE next.step = "AskHuman" -> next.kind
                   [] next.step = "Escalate" /\ spends -> "ApproveSpend"
                   [] OTHER -> "none",
       refund |-> \/ fail.kind = "NeedsHuman"
                  \/ IsOutage(fail) /\ next.step = "AskHuman"]

(* The current writer: one event.                                          *)
AttemptFails(t, fail, spends) ==
  LET d == DecisionOn(t, fail, spends) IN
  /\ AtWork /\ conductor.schema >= 3
  /\ conductor.on = t
  /\ Emit(Finished(t, fail, d.next, d.parks, d.refund), <<>>)

(* A decision as its separate events, in the order they were written.      *)
Separately(e, q) ==
  LET place == [ev |-> "", task |-> e.task, attempt |-> e.attempt,
                rung |-> e.rung, resume |-> e.resume]
      moved == CASE e.next = "Retry" -> <<[place EXCEPT !.ev = "ladder_retry"]>>
                 [] e.next = "Escalate" ->
                      <<[place EXCEPT !.ev = "ladder_escalated"]>>
                 [] e.next = "Defer" ->
                      <<[ev |-> "task_deferred", task |-> e.task]>>
                 [] OTHER -> <<>>
      asked == <<[ev |-> "question_raised", task |-> e.task, kind |-> e.parks],
                 [ev |-> "task_parked", task |-> e.task, q |-> q,
                  refund |-> e.refund]>>
  IN  moved \o (IF e.parks = "none" THEN <<>> ELSE asked)

Bare(e) == [e EXCEPT !.next = "none", !.resume = FALSE,
                     !.parks = "none", !.refund = FALSE]

(* The writer of schemas 1 and 2: the attempt, then its decision.          *)
LegacyAttemptFails(t, fail, spends) ==
  LET d == DecisionOn(t, fail, spends)
      e == Finished(t, fail, d.next, d.parks, d.refund)
  IN
  /\ AtWork /\ conductor.schema < 3
  /\ conductor.on = t
  /\ Emit(Bare(e), Separately(e, Len(state.questions) + 1))

TaskFailed(t, halts) ==
  [ev |-> "task_failed", task |-> t, halts |-> halts]

DesignDefect(q) == [ev |-> "design_defect", q |-> q]

(* Fault: a decline is recorded without the policy of its day.             *)
PolicyOf_Never(answer, halts) == "none"

PolicyOf(answer, halts) ==
  IF answer = "Answered" \/ conductor.schema < 3 THEN "none"
  ELSE IF halts THEN "yes" ELSE "no"

(* ingest_answer: the answer, its design defect, the failure of a declined *)
(* task.  Before schema 3 the halt policy was not written down.            *)
AnswerArrives(q, answer, halts) ==
  LET t == state.questions[q].task IN
  /\ Idle
  /\ state.questions[q].answer = "open"
  /\ Emit([ev |-> "question_answered", q |-> q, answer |-> answer,
           halts |-> PolicyOf(answer, halts)],
          <<DesignDefect(q)>> \o
          (IF answer = "Declined" THEN <<TaskFailed(t, halts)>> ELSE <<>>))

DeferWaitElapsed ==
  /\ Idle
  /\ state.halted_at = 0
  /\ ~\E t \in Task : Ready(t)
  /\ \E t \in Task : state.states[t].is = "Deferred"
  /\ Emit([ev |-> "defer_wait_elapsed"], <<>>)

RunOutcome ==
  CASE state.halted_at # 0 -> "Halted"
    [] \E t \in Task : state.states[t].is = "AwaitingInput" -> "Parked"
    [] OTHER -> "Complete"

(* drain_and_report: nothing left to do; the process ends with the run.    *)
RunFinishes ==
  /\ Idle
  /\ state.halted_at # 0
     \/ \A t \in Task : ~Ready(t) /\ state.states[t].is # "Deferred"
  /\ log' = Append(log, [ev |-> "run_finished", outcome |-> RunOutcome])
  /\ state' = Apply(state, log'[Len(log')])
  /\ conductor' = NoConductor
  /\ UNCHANGED <<processes, config>>

(* A kill, a power loss or an error out of the drain.                      *)
Crash ==
  /\ conductor.alive
  /\ conductor' = NoConductor
  /\ UNCHANGED <<log, state, processes, config>>

EditConfig ==
  /\ ~conductor.alive
  /\ config < MaxConfig
  /\ config' = config + 1
  /\ UNCHANGED <<log, state, conductor, processes>>
-----------------------------------------------------------------------------
(* resume_harness_inner.                                                   *)

Last(events) == events[Len(events)]

Upto(n) == [i \in 1..n |-> i]
Those(n, Test(_)) == SelectSeq(Upto(n), Test)
MapSeq(s, F(_)) == [i \in DOMAIN s |-> F(s[i])]

Defective(q) ==
  \E i \in DOMAIN log : Is(log[i], {"design_defect"}) /\ log[i].q = q
ClosedWithoutDefect(q) ==
  state.questions[q].answer # "open" /\ ~Defective(q)
DeclinedButWaiting(q) ==
  /\ state.questions[q].answer = "Declined"
  /\ state.states[state.questions[q].task] = Waits(q)

(* Fault: the process works by what the configuration says today.          *)
StandardOnResume_Todays ==
  [a \in Aspect |-> IF a = "digest" THEN 1 ELSE config]

(* Recorded parts come from the log, the rest from today's configuration.  *)
StandardOnResume ==
  [a \in Aspect |->
     IF RecordedStandard(log, a) # 0 THEN RecordedStandard(log, a)
     ELSE IF a = "digest" THEN 1 ELSE config]

(* What this resume has to write down because no event has yet; a review   *)
(* plan without its timeout is written again, complete.                    *)
Established ==
  [a \in Aspect |->
     IF RecordedStandard(log, IF a = "reviews" THEN "timeout" ELSE a) # 0
     THEN 0 ELSE StandardOnResume[a]]

UpgradeEvent ==
  IF EffectiveSchema(log) >= SCHEMA_VERSION THEN <<>>
  ELSE <<[ev |-> "run_schema_upgraded", from |-> EffectiveSchema(log),
          to |-> SCHEMA_VERSION]>>

(* Fault: the commit a crash left unrecorded stays so.                     *)
Adopted_Forgets == <<>>

Adopted ==
  IF Passed(Last(log)) THEN <<TaskCommitted(Last(log))>> ELSE <<>>

DefectRepairs ==
  MapSeq(Those(Len(state.questions), ClosedWithoutDefect), DesignDefect)

DeclineRepairs ==
  LET Repair(q) == TaskFailed(state.questions[q].task,
                              state.questions[q].halts = "yes")
  IN  MapSeq(Those(Len(state.questions), DeclinedButWaiting), Repair)

AttemptInterrupted(t) ==
  [ev |-> "attempt_interrupted", task |-> t,
   attempt |-> state.progress[t].attempts, rung |-> state.progress[t].rung,
   fail |-> CutOff, cost |-> 0]

InterruptedRepairs ==
  LET InFlight(t) == state.progress[t].in_flight
  IN  MapSeq(Those(NTasks, InFlight), AttemptInterrupted)

ResumeEvents ==
  Adopted \o UpgradeEvent \o DefectRepairs \o DeclineRepairs
  \o InterruptedRepairs
  \o <<[ev |-> "run_resumed", standard |-> Established]>>

(* Why a resume refuses this log, whatever the repository looks like.      *)
RefusesToResume ==
  \/ ~SchemaAccepted(log)
  \/ LegacyUnsettled(log)
  \/ state.finished \in {"Complete", "Halted"}
  \/ Passed(Last(log)) /\ ~Last(log).prepared
  \/ \E q \in DOMAIN state.questions :
        DeclinedButWaiting(q) /\ state.questions[q].halts = "none"

Resume ==
  /\ ~conductor.alive
  /\ processes < MaxProcesses
  /\ ~RefusesToResume
  /\ processes' = processes + 1
  /\ conductor' = [alive |-> TRUE, schema |-> SCHEMA_VERSION,
                   pending |-> ResumeEvents, on |-> 0,
                   under |-> StandardOnResume]
  /\ UNCHANGED <<log, state, config>>
-----------------------------------------------------------------------------
(* What `tactus export` projects from a log it found at rest (how it makes *)
(* sure of that is EventLogFile's subject).                                *)

(* `settlements` and the loop over starts.                                 *)
Key(e) == <<e.task, e.attempt, e.rung>>
Settles(e) == Is(e, {"attempt_finished", "attempt_interrupted"})
Settlements(events) == {i \in DOMAIN events : Settles(events[i])}

(* validate_settlement: what travels with a settlement has to fit it.      *)
SettlementFits(e) ==
  IF Is(e, {"attempt_interrupted"}) THEN e.fail = CutOff
  ELSE LET outage == IsOutage_(e.fail)
           failed == e.fail.kind # "none"
       IN
  /\ e.fail.kind # "Interrupted"
  /\ CASE e.next \in {"Retry", "Escalate", "Fail"} -> failed
       [] e.next = "Defer" -> outage
       [] OTHER -> TRUE
  /\ CASE e.parks = "Clarify" ->
            e.fail.kind = "NeedsHuman" /\ e.next = "none" /\ e.refund
       [] e.parks = "ApproveSpend" -> e.next = "Escalate" /\ ~e.refund
       [] e.parks = "Unblock" ->
            /\ failed /\ e.next = "none" /\ e.refund = outage
            /\ e.fail.kind \in {"ReviewInputTooLarge", "ReviewInputOpaque"}
                 => e.fail.origin = "Reviewer"
       [] OTHER -> TRUE

(* From schema 3 on, export and status want the digest of the frozen plan. *)
PlanBound(events) ==
  EffectiveSchema(events) >= 3 => RecordedStandard(events, "digest") # 0

ExportAccepted(events) ==
  /\ SchemaAccepted(events)
  /\ PlanBound(events)
  /\ \A i, j \in Starts(events) : Key(events[i]) = Key(events[j]) => i = j
  /\ \A i, j \in Settlements(events) : Key(events[i]) = Key(events[j]) => i = j
  /\ \A i \in Starts(events) :
       events[i].attempt > 0 /\ events[i].rung < Rungs
  /\ \A i \in Settlements(events) :
       /\ \E j \in Starts(events) : j < i /\ Key(events[j]) = Key(events[i])
       /\ SettlementFits(events[i])

(* Fault: a start nobody settled is reported as a failure to spawn.        *)
RowOf_Passed(events, i) ==
  LET done == {j \in Settlements(events) : Key(events[j]) = Key(events[i])}
      settled == CHOOSE j \in done : TRUE
  IN  [task |-> events[i].task, attempt |-> events[i].attempt,
       fail |-> IF done = {} THEN NoFailure ELSE events[settled].fail,
       cost |-> IF done = {} THEN 0 ELSE events[settled].cost]

(* build_row: one row per start, interrupted unless a settlement says      *)
(* otherwise.                                                              *)
RowOf(events, i) ==
  LET done == {j \in Settlements(events) : Key(events[j]) = Key(events[i])}
      settled == CHOOSE j \in done : TRUE
  IN  [task |-> events[i].task, attempt |-> events[i].attempt,
       fail |-> IF done = {} THEN CutOff ELSE events[settled].fail,
       cost |-> IF done = {} THEN 0 ELSE events[settled].cost]

Rows(events) == {RowOf(events, i) : i \in Starts(events)}
-----------------------------------------------------------------------------
(* status: the fold, settled in memory when nobody drives the run, and the *)
(* report built from it.                                                   *)
Running == conductor.alive /\ state.finished = "none"

StatusAccepted(events) == SchemaAccepted(events) /\ PlanBound(events)

RECURSIVE SettleAll(_, _)
SettleAll(s, tasks) ==
  IF tasks = {} THEN s
  ELSE LET t == CHOOSE u \in tasks : TRUE
       IN  SettleAll(Apply(s, [AttemptInterrupted(t) EXCEPT
                                 !.attempt = s.progress[t].attempts]),
                     tasks \ {t})

Shown ==
  IF Running THEN state
  ELSE SettleAll(state, {t \in Task : state.progress[t].in_flight})

(* The attempts of the report's ledger.                                    *)
Ledger(s) ==
  UNION {{[task |-> t, attempt |-> s.records[t][i].attempt,
           fail |-> s.records[t][i].fail, cost |-> s.records[t][i].cost]
            : i \in DOMAIN s.records[t]} : t \in Task}

(* blocks_dependents.  The fault: anything short of done blocks.           *)
BlocksDependents_NotDone(is) == is # "Done"

BlocksDependents(is) ==
  CASE is = "Done" -> FALSE
    [] is \in {"Pending", "Deferred"} -> ~Running
    [] OTHER -> TRUE

(* settle: blocking propagates along the dependencies of pending tasks.    *)
Settle ==
  LET settled[t \in Task] ==
        IF /\ state.states[t].is = "Pending"
           /\ \E d \in DependsOn(t) : BlocksDependents(settled[d])
        THEN "Blocked"
        ELSE IF state.states[t].is = "Pending" /\ ~Running THEN "Skipped"
        ELSE state.states[t].is
  IN  settled
-----------------------------------------------------------------------------
Next ==
  \/ EmitNext \/ DeferWaitElapsed \/ RunFinishes \/ Crash \/ EditConfig
  \/ Resume
  \/ \E t \in Task : StartAttempt(t) \/ AttemptPasses(t)
  \/ \E t \in Task, fail \in Failures, spends \in BOOLEAN :
       AttemptFails(t, fail, spends) \/ LegacyAttemptFails(t, fail, spends)
  \/ \E q \in DOMAIN state.questions, answer \in {"Answered", "Declined"},
        halts \in BOOLEAN : AnswerArrives(q, answer, halts)

Spec == Init /\ [][Next]_vars
-----------------------------------------------------------------------------
(* The types of the folded state, the process and what it has recorded.    *)
TypeOK ==
  /\ \A i \in DOMAIN log : "ev" \in DOMAIN log[i]
  /\ state.progress \in [Task -> Progress]
  /\ conductor.alive \in BOOLEAN
  /\ processes \in 1..MaxProcesses
  /\ config \in 1..MaxConfig

(* Whatever a crash cuts off and in whatever order a resume repairs it,    *)
(* every prefix this program leaves behind passes the schema check every   *)
(* reader applies first: settlements stay next to the commit they bind.    *)
AlwaysReadable == SchemaAccepted(log)

(* A log whose upgrade to schema 3 was recorded, but not yet the resume    *)
(* that carries the identity schema 3 asks for.                            *)
Upgrading ==
  \E i \in Upgrades(log) :
     ~\E j \in i..Len(log) : Is(log[j], {"run_resumed"})

(* Neither status nor export refuses a log, save in one window: between    *)
(* the append of run_schema_upgraded and that of run_resumed, which a      *)
(* crash makes as long as the operator waits.  A resume is not refused     *)
(* there, and so closes it, unless the run was over.                       *)
RefusedOnlyWhileUpgrading ==
  ~(StatusAccepted(log) /\ ExportAccepted(log)) => Upgrading /\ ~RefusesToResume

(* Whenever the decision export writes a dataset, it is the ledger         *)
(* `status` shows: the same attempts, failures and spend, an attempt       *)
(* nobody finished being an interrupted one in both.                       *)
RowsAreTheLedger ==
  ExportAccepted(log) /\ ~Running => Rows(log) = Ledger(Shown)

(* DESIGN.md says a log of schema 1 remains readable by a current binary:  *)
(* status and export would always accept it, also during its upgrade.      *)
LegacyStaysReadable == StatusAccepted(log) /\ ExportAccepted(log)

(* A settlement that carries its decision folds to exactly the state the   *)
(* separate events of the older schemas fold to: upgrading a run changes   *)
(* nothing about what its history means.                                   *)
AtomicMeansTheSame ==
  LET QuestionsBefore(i) ==
        Cardinality({j \in 1..i-1 :
                       \/ Is(log[j], {"attempt_finished"})
                          /\ log[j].parks # "none"
                       \/ Is(log[j], {"question_raised"})})
      Split(i) == IF Is(log[i], {"attempt_finished"})
                  THEN <<Bare(log[i])>>
                       \o Separately(log[i], QuestionsBefore(i) + 1)
                  ELSE <<log[i]>>
      parts[i \in 0..Len(log)] == IF i = 0 THEN <<>>
                                  ELSE parts[i - 1] \o Split(i)
  IN  Replay(NewState, parts[Len(log)]) = state

(* No attempt is started on a task whose last failure has no recorded      *)
(* decision: nothing is paid for twice and no rung is guessed.             *)
EveryFailureDecided ==
  \A i \in DOMAIN log :
    /\ Is(log[i], {"attempt_finished"}) /\ ~Passed(log[i])
    /\ log[i].next = "none" /\ log[i].parks = "none"
    => ~\E k \in i+1..Len(log) :
          /\ Is(log[k], {"attempt_started"}) /\ About(log[k], log[i].task)
          /\ ~\E j \in i+1..k-1 :
                About(log[j], log[i].task)
                /\ Is(log[j], {"ladder_retry", "ladder_escalated",
                               "task_deferred", "task_parked"})

(* Once a log asks whether to spend more on a task, that task runs again   *)
(* only after somebody answered, however the log was cut.                  *)
SpendWaitsForApproval ==
  \A i \in DOMAIN log :
    (\/ AsksToSpend(log[i])
     \/ Is(log[i], {"attempt_finished"}) /\ log[i].parks = "ApproveSpend")
    => \A k \in i+1..Len(log) :
         Is(log[k], {"attempt_started"}) /\ About(log[k], log[i].task) =>
           \E j \in i+1..k-1 :
              /\ Is(log[j], {"question_answered"})
              /\ log[j].answer = "Answered"
              /\ state.questions[log[j].q].task = log[i].task

(* One run, one standard: every attempt after an aspect was recorded ran   *)
(* under the recorded one, and the attempts of a run that had not yet      *)
(* recorded it all ran under the same.                                     *)
OneStandard ==
  \A a \in Aspect :
    LET written == {j \in Starts(log) : \E k \in 1..j : Carries(log, k, a)}
    IN  /\ \A j \in written : log[j].under[a] = RecordedStandard(log, a)
        /\ \A i, j \in Starts(log) \ written :
              log[i].under[a] = log[j].under[a]

(* Only history of an older binary makes a run unresumable: what this      *)
(* binary wrote is always resumed, unless the run is over.                 *)
OwnLogsResume ==
  log[1].schema = SCHEMA_VERSION /\ RefusesToResume =>
    state.finished \in {"Complete", "Halted"}

(* `status` on a live run says "blocked" only of a task that nothing but   *)
(* a person's answer can move.                                             *)
BlockedNeedsAnAnswer ==
  [][\A t \in Task :
       Running /\ Running' /\ Settle[t] = "Blocked" =>
         Settle'[t] = "Blocked" \/ Is(Last(log)', {"question_answered"})]_vars

(* Whoever reads the log of a run, over any crash, is told the same:       *)
(* status, export, the next resume.  Only while the log of an older binary *)
(* is being upgraded do status and export refuse it; then a resume does    *)
(* not.                                                                    *)
LogServesEveryReader ==
  /\ [](TypeOK /\ AlwaysReadable /\ RefusedOnlyWhileUpgrading)
  /\ [](RowsAreTheLedger /\ OwnLogsResume)
  /\ BlockedNeedsAnAnswer

(* Nothing is spent on a task before its last failure is decided and any   *)
(* approval is given, and it makes no difference to either whether failure *)
(* and decision are one event or, as older binaries wrote them, several.   *)
DecidedBeforeSpent == EveryFailureDecided /\ SpendWaitsForApproval /\ AtomicMeansTheSame
=============================================================================
