------------------------------- MODULE Ladder -------------------------------
(***************************************************************************)
(* The pure decision of src/src/ladder.rs: what the engine does with a     *)
(* failed attempt.  The whole policy is one function of three values: how  *)
(* the attempt failed, where the task stands on its chain of rungs, and    *)
(* the limits of that chain.                                               *)
(***************************************************************************)
EXTENDS Integers

FailureKind ==
  {"NoChain", "EmptyDiff", "AgentError", "Timeout", "RateLimited",
   "GateFailed", "TestProvenance", "ReviewInputTooLarge",
   "ReviewInputOpaque", "ReviewFailed", "ReviewUnavailable", "NeedsHuman",
   "Declined", "Interrupted"}

FailureOrigin == {"Worker", "Reviewer"}

AttemptFailure == [kind: FailureKind, origin: FailureOrigin]

QuestionKind == {"Clarify", "Unblock", "ApproveSpend"}

(* What happens next: the step, whether a retry resumes the session the    *)
(* attempt left behind, and the kind of question a human is asked.         *)
Decision == [step: {"Retry", "Escalate", "Defer", "AskHuman", "Fail"},
             resume: BOOLEAN,
             kind: QuestionKind \union {"none"}]

RetrySameRung(resume) ==
  [step |-> "Retry", resume |-> resume, kind |-> "none"]
Escalate == [step |-> "Escalate", resume |-> FALSE, kind |-> "none"]
Defer    == [step |-> "Defer", resume |-> FALSE, kind |-> "none"]
AskHuman(kind) ==
  [step |-> "AskHuman", resume |-> FALSE, kind |-> kind]
Fail     == [step |-> "Fail", resume |-> FALSE, kind |-> "none"]

(* The environment was at fault, not the code: a busy pool, a judge that   *)
(* could not run, a judge that timed out.  A worker's own timeout is not   *)
(* an outage.                                                              *)
IsOutage(failure) ==
  \/ failure.kind \in {"RateLimited", "ReviewUnavailable"}
  \/ failure.kind = "Timeout" /\ failure.origin = "Reviewer"

(* state:  [rung, attempts_on_rung, defers, resumable], the attempt that   *)
(*         just failed already counted in attempts_on_rung;                *)
(* policy: [attempts_per, rungs, max_defers].                              *)
NextStep(failure, state, policy) ==
  CASE failure.kind = "NeedsHuman" -> AskHuman("Clarify")
    [] failure.kind \in {"ReviewInputTooLarge", "ReviewInputOpaque"} ->
         AskHuman("Unblock")
    [] IsOutage(failure) ->
         IF state.defers < policy.max_defers THEN Defer
                                             ELSE AskHuman("Unblock")
    [] OTHER ->
         IF failure.kind = "NoChain" \/ policy.rungs = 0 THEN Fail
         ELSE IF state.attempts_on_rung < policy.attempts_per
           THEN RetrySameRung(state.resumable)
         ELSE IF state.rung + 1 < policy.rungs THEN Escalate
         ELSE AskHuman("Unblock")
=============================================================================
