---------------------------- MODULE AgentOutcome ----------------------------
(***************************************************************************)
(* What an agent's process comes to: the parse_output of the three         *)
(* adapters (src/src/agent/claude.rs, codex.rs, copilot.rs), the engine's  *)
(* reading of the worker's outcome (evaluate_outcome, worker_question) and *)
(* the reviewer's reply (parse_verdict, review_failure).                   *)
(*                                                                         *)
(* Text is abstract: what a message says is one of a few things the code   *)
(* tells apart.  "echo" quotes the question marker with nothing behind it, *)
(* "both" is a passing verdict that still requires changes.                *)
(***************************************************************************)
EXTENDS Ladder

Adapter == {"claude-code", "codex", "copilot"}

Message == {"nothing", "prose", "echo", "asks", "pass", "reject", "both",
            "human", "diagnostic"}

(* What came back from a child.  `body`: is stdout the adapter's structured*)
(* format, and does it call itself an error.  `limits`: the failure text   *)
(* has the words of a rate limit in it.  `noisy`: errors or stderr say     *)
(* something.                                                              *)
Process == [limited: BOOLEAN, timed_out: BOOLEAN, zero: BOOLEAN,
            body: {"none", "fine", "error"}, says: Message \ {"diagnostic"},
            limits: BOOLEAN, noisy: BOOLEAN, session: BOOLEAN]

OutcomeStatus == {"Completed", "AgentError", "Timeout", "RateLimited"}

Returned(status, detail, session, priced) ==
  [status |-> status, detail |-> detail, session |-> session, priced |-> priced]

(* The structured formats carry a session; only one of them a price.       *)
Carries(adapter, p) == adapter # "copilot" /\ p.body # "none"
Text(adapter, p) ==
  IF adapter = "copilot" \/ p.body # "none" THEN p.says ELSE "nothing"

Failed(adapter, p) ==
  ~p.zero \/ (adapter = "claude-code" /\ p.body # "fine")

(* What a failed attempt has to say for itself: the body first where it is *)
(* the diagnosis, the errors first where the body is half an answer.       *)
FailureDetail(adapter, p) ==
  LET text == Text(adapter, p)
  IN  CASE p.noisy /\ (adapter # "claude-code" \/ text = "nothing") -> "diagnostic"
        [] OTHER -> text

(* Fault: the words are looked for in every outcome.                       *)
ParseOutput_LimitsFirst(adapter, p) ==
  LET session == Carries(adapter, p) /\ p.session
      priced == adapter = "claude-code" /\ p.body # "none"
  IN  CASE p.limits -> Returned("RateLimited", FailureDetail(adapter, p), session, priced)
        [] OTHER -> Returned(IF Failed(adapter, p) THEN "AgentError" ELSE "Completed",
                             Text(adapter, p), session, priced)

(* The output limit first, then the clock, then the exit; the words of a   *)
(* rate limit only in a failure, since a task may be about rate limits.    *)
ParseOutput(adapter, p) ==
  LET session == Carries(adapter, p) /\ p.session
      priced == adapter = "claude-code" /\ p.body # "none"
  IN  CASE p.limited -> Returned("AgentError", "diagnostic", session, priced)
        [] ~p.limited /\ p.timed_out ->
             Returned("Timeout", "diagnostic", session, priced)
        [] ~p.limited /\ ~p.timed_out /\ ~Failed(adapter, p) ->
             Returned("Completed", Text(adapter, p), session, priced)
        [] OTHER ->
             Returned(IF p.limits THEN "RateLimited" ELSE "AgentError",
                      FailureDetail(adapter, p), session, priced)
-----------------------------------------------------------------------------
By(kind, origin) == [kind |-> kind, origin |-> origin]
NoFailure == [kind |-> "none", origin |-> "none"]

(* worker_question: the text behind the last marker, if there is any.      *)
WorkerQuestion(detail) == detail = "asks"

(* A question is honoured on a completed run only, and precedes the rule   *)
(* that an empty diff proves nothing.                                      *)
EvaluateOutcome(outcome, edits) ==
  CASE outcome.status = "Completed" /\ WorkerQuestion(outcome.detail) ->
         By("NeedsHuman", "Worker")
    [] outcome.status = "Completed" /\ ~WorkerQuestion(outcome.detail) ->
         IF edits = "none" THEN By("EmptyDiff", "Worker") ELSE NoFailure
    [] OTHER -> By(outcome.status, "Worker")
-----------------------------------------------------------------------------
(* parse_verdict: the whole reply is one verdict, or there is none.        *)
Verdicts == {"pass", "reject", "both", "human"}
HasVerdict(outcome) == outcome.detail \in Verdicts

Judged(verdict) == [is |-> "Judged", verdict |-> verdict]
Unavailable(status) == [is |-> "Unavailable", verdict |-> status]

(* Faults: a pass is a pass, whatever it still requires; an outage keeps   *)
(* the status it came with.                                                *)
ReviewFailure_TakesPass(result) ==
  IF result.is = "Judged" /\ result.verdict \in {"pass", "both"} THEN NoFailure
  ELSE By("ReviewFailed", "Worker")

ReviewFailure_KeepsStatus(result) ==
  CASE result.is = "Unavailable" -> By(result.verdict, "Reviewer")
    [] result.is = "Judged" /\ result.verdict = "human" -> By("NeedsHuman", "Reviewer")
    [] result.is = "Judged" /\ result.verdict = "pass" -> NoFailure
    [] OTHER -> By("ReviewFailed", "Worker")

(* review_failure: a judge that could not run is the reviewer's outage; a  *)
(* request for a person is no rejection; a pass that requires changes is.  *)
ReviewFailure(result) ==
  CASE result.is = "Unavailable" ->
         By(IF result.verdict \in {"RateLimited", "Timeout"} THEN result.verdict
                                                 ELSE "ReviewUnavailable",
            "Reviewer")
    [] result.is = "Judged" /\ result.verdict = "human" ->
         By("NeedsHuman", "Reviewer")
    [] result.is = "Judged" /\ result.verdict = "pass" -> NoFailure
    [] OTHER -> By("ReviewFailed", "Worker")
=============================================================================
