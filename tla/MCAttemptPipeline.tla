-------------------------- MODULE MCAttemptPipeline --------------------------
(* Values of AttemptPipeline's constants for TLC.                          *)
EXTENDS AttemptPipeline

Opus == [agent |-> "claude-code", model |-> "opus"]
Gpt == [agent |-> "copilot", model |-> "gpt"]
Small == [agent |-> "codex", model |-> "small"]

Plan(primary, alternative, second) ==
  [primary |-> primary, alternative |-> alternative, second |-> second]
Unreviewed == Plan(NoBinding, NoBinding, NoBinding)
EveryPlan == {Unreviewed, Plan(Opus, NoBinding, NoBinding),
              Plan(Opus, Gpt, NoBinding), Plan(Opus, Gpt, Gpt)}
EitherWorker == {Opus, Small}
==============================================================================
