----------------------------- MODULE LadderWalk -----------------------------
(***************************************************************************)
(* One task walking its chain under every possible history of failures,    *)
(* answers and crashes: the ladder's decision (module Ladder) folded into  *)
(* the task's progress (module TaskProgress), apart from scheduling and    *)
(* git.  Engine explores the same rules inside the whole system; here the  *)
(* limits can be larger, and `charged` counts independently what each rung *)
(* ought to have been charged for.                                         *)
(***************************************************************************)
EXTENDS TaskProgress

CONSTANTS
  AttemptsPer,   \* attempts allowed per rung
  RungCount,     \* rungs in the chain
  MaxDefers,     \* deferrals an outage buys
  MaxAnswers,    \* bound: questions answered
  MaxCrashes     \* bound: processes that die

ASSUME WalkAssumption ==
  /\ AttemptsPer \in Nat \ {0} /\ RungCount \in Nat \ {0}
  /\ MaxDefers \in Nat /\ MaxAnswers \in Nat /\ MaxCrashes \in Nat

VARIABLES
  p,             \* the task's Progress
  is,            \* where the task stands with the scheduler
  asked,         \* the kind of the open question, "none" without one
  charged,       \* judged attempts per rung since an answer re-armed it
  answered,      \* answers given
  crashes        \* processes that died

vars == <<p, is, asked, charged, answered, crashes>>

Rung == 0..(RungCount - 1)

(* The failures an attempt that ran can end with.                          *)
AttemptEnds == {f \in AttemptFailure :
                  f.kind \notin {"NoChain", "Declined", "Interrupted"}}

(* Somebody or something passed judgement on the work.                     *)
IsJudged(f) == f.kind # "NeedsHuman" /\ ~IsOutage(f)

Init ==
  /\ p = NewProgress
  /\ is = "Pending" /\ asked = "none"
  /\ charged = [r \in Rung |-> 0]
  /\ answered = 0 /\ crashes = 0

(* The types of the task's progress and of the walk's own counts.          *)
TypeOK ==
  /\ p \in Progress /\ p.rung \in Rung
  /\ is \in {"Pending", "Deferred", "AwaitingInput", "Done"}
  /\ asked \in QuestionKind \union {"none"}
  /\ charged \in [Rung -> Nat]
  /\ answered \in Nat /\ crashes \in Nat

Start ==
  /\ is = "Pending" /\ ~p.in_flight
  /\ p' = Started(p)
  /\ UNCHANGED <<is, asked, charged, answered, crashes>>

Pass ==
  /\ p.in_flight
  /\ p' = Settled(p, TRUE)
  /\ is' = "Done"
  /\ charged' = [charged EXCEPT ![p.rung] = @ + 1]
  /\ UNCHANGED <<asked, answered, crashes>>

(* `approve`: the escalation is one a person has to approve first.         *)
FailAttempt(f, reported, resumable, approve) ==
  LET next == NextStep(f,
                [rung |-> p.rung, attempts_on_rung |-> p.attempts_on_rung,
                 defers |-> p.defers, resumable |-> resumable],
                [attempts_per |-> AttemptsPer, rungs |-> RungCount,
                 max_defers |-> MaxDefers])
      parks == next.step = "AskHuman" \/ (next.step = "Escalate" /\ approve)
      refund == next.step = "AskHuman" /\
                (next.kind = "Clarify" \/ IsOutage(f))
  IN /\ p.in_flight
     /\ p' = SettledWith(p, reported, next, parks, refund)
     /\ is' = IF parks THEN "AwaitingInput"
              ELSE IF next.step = "Defer" THEN "Deferred" ELSE "Pending"
     /\ asked' = IF ~parks THEN "none"
                 ELSE IF next.step = "AskHuman" THEN next.kind
                 ELSE "ApproveSpend"
     /\ charged' = IF IsJudged(f) THEN [charged EXCEPT ![p.rung] = @ + 1]
                                  ELSE charged
     /\ UNCHANGED <<answered, crashes>>

Wake ==
  /\ is = "Deferred"
  /\ is' = "Pending"
  /\ UNCHANGED <<p, asked, charged, answered, crashes>>

Answer ==
  /\ is = "AwaitingInput" /\ answered < MaxAnswers
  /\ answered' = answered + 1
  /\ p' = Answered(p, asked)
  /\ is' = "Pending" /\ asked' = "none"
  /\ charged' = IF asked = "Unblock" THEN [charged EXCEPT ![p.rung] = 0]
                                     ELSE charged
  /\ UNCHANGED crashes

(* The process dies and a resume settles what it left.                     *)
CrashAndResume ==
  /\ is # "Done" /\ crashes < MaxCrashes
  /\ crashes' = crashes + 1
  /\ p' = Resumed(IF p.in_flight THEN Interrupted(p) ELSE p)
  /\ is' = IF is = "Deferred" THEN "Pending" ELSE is
  /\ UNCHANGED <<asked, charged, answered>>

Next ==
  \/ Start \/ Pass \/ Wake \/ Answer \/ CrashAndResume
  \/ \E f \in AttemptEnds, reported, resumable, approve \in BOOLEAN :
       FailAttempt(f, reported, resumable, approve)

Spec == Init /\ [][Next]_vars
-----------------------------------------------------------------------------
(* A rung is charged for the attempts that were judged on it, and for the  *)
(* one in flight, and for nothing else: an outage, a clarification and a   *)
(* crash all give back exactly what attempt_started took.                  *)
ChargedExactly ==
  p.attempts_on_rung = charged[p.rung] + (IF p.in_flight THEN 1 ELSE 0)

(* The ladder never climbs early and never overspends a rung: the rungs    *)
(* below the task were used in full, the one it stands on at most in full, *)
(* those above not at all, and an attempt starts only with one left.       *)
RungsUsedInFull ==
  /\ \A r \in Rung : /\ charged[r] <= AttemptsPer
                     /\ r < p.rung => charged[r] = AttemptsPer
                     /\ r > p.rung => charged[r] = 0
  /\ is = "Pending" => p.attempts_on_rung < AttemptsPer + (IF p.in_flight
                                                           THEN 1 ELSE 0)

(* What a task can spend is bounded by what people put into it: between    *)
(* two answers it runs at most one full chain of attempts, its deferrals   *)
(* and one more, and each crash wastes one (engine.rs: "no cycle exists    *)
(* that does not spend an attempt, a deferral, or a question").            *)
SpawnsBounded ==
  p.attempts <= (answered + 1) * (RungCount * AttemptsPer + MaxDefers + 1)
                + crashes
=============================================================================
