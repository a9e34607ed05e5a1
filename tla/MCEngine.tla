------------------------------ MODULE MCEngine ------------------------------
(* Values of Engine's constants for TLC, combined by the .cfg files.       *)
EXTENDS Engine

Chained == <<{}, {1}>>        \* task 2 depends on task 1
Apart == <<{}, {}>>           \* two independent tasks
Trio == <<{}, {}, {}>>

OneRung == [t \in Task |-> 1]
TwoForFirst == [t \in Task |-> IF t = 1 THEN 2 ELSE 1]
NoneForLast == [t \in Task |-> IF t = NTasks THEN 0 ELSE 2]

Config(halts, run_usd, task_usd) ==
  [halts |-> halts, run_usd |-> run_usd, task_usd |-> task_usd]
EitherPolicy == {Config(h, {}, {}) : h \in BOOLEAN}
EitherPolicyBudgeted == EitherPolicy \cup {Config(TRUE, {1}, {})}

GateFails == [kind |-> "GateFailed", origin |-> "Worker"]
PoolEmpty == [kind |-> "RateLimited", origin |-> "Worker"]
AsksHuman == [kind |-> "NeedsHuman", origin |-> "Worker"]
TooLarge == [kind |-> "ReviewInputTooLarge", origin |-> "Reviewer"]

OnlyQuestions == {AsksHuman}
AllKinds == {GateFails, PoolEmpty, AsksHuman, TooLarge}
Free == {0}
OneEach == {1}
Unset == {}
AtOne == {1}
AtTwo == {2}
NoFrontier == {}
SecondIsFrontier == {1}
=============================================================================
