------------------------------- MODULE Routing -------------------------------
(***************************************************************************)
(* What a run is configured to do: the catalog (catalog.rs), the loading of *)
(* tactus.toml (config.rs), the resolution of a task's chain (route.rs) and *)
(* of its reviewers (review.rs).                                            *)
(*                                                                         *)
(* A tier is 1 (small), 2 (mid) or 3 (frontier).  A raw configuration is a  *)
(* record of the file's entries: "-" or 0 for an absent one, "?" or -1 for  *)
(* one that is written and not legal.  A path hint is a member of a set of  *)
(* names, and an override's globs are the names they match.                 *)
(***************************************************************************)
EXTENDS Integers, Sequences, FiniteSets
LOCAL INSTANCE SequencesExt

Least(S) == CHOOSE x \in S : \A y \in S : x <= y
Tiers == 1 .. 3
Kinds == {"design", "implement", "fix", "refactor", "test", "docs", "chore"}

(* -------------------------------- catalog ------------------------------- *)

Model(agent, model, tier, family) ==
    [agent |-> agent, model |-> model, tier |-> tier, family |-> family]

\* Table order is preference order.
Catalog == <<
    Model("claude", "haiku-4.5",   1, "anthropic"), Model("claude", "sonnet-4.5",  2, "anthropic"),
    Model("claude", "sonnet-5",    2, "anthropic"), Model("claude", "opus-5",      3, "anthropic"),
    Model("claude", "opus-4.8",    3, "anthropic"), Model("copilot", "gpt-5-mini", 1, "openai"),
    Model("copilot", "gemini-3.1", 2, "google"),    Model("copilot", "sonnet-5",   2, "anthropic"),
    Model("copilot", "gpt-5.3",    3, "openai"),    Model("copilot", "opus-5",     3, "anthropic"),
    Model("codex", "gpt-5.6",      3, "openai") >>

Binding(e) == [agent |-> e.agent, model |-> e.model]
Entries(agent, model) == {k \in DOMAIN Catalog : Catalog[k].agent = agent /\ Catalog[k].model = model}

Example(tier) ==
    Binding(Catalog[CASE tier = 1 -> 1 [] tier = 2 -> 3 [] tier = 3 -> 4])

FamilyOf(b) ==
    LET at == Entries(b.agent, b.model)
    IN  IF at = {} THEN "unknown" ELSE Catalog[Least(at)].family

\* A plausible slip: the preferred model at the tier, whoever made it.
DifferentFamilyAt_AnyFamily(tier, family, adapters) ==
    LET fit == {k \in DOMAIN Catalog : Catalog[k].tier = tier /\ Catalog[k].agent \in adapters}
    IN  IF fit = {} THEN <<>> ELSE <<Binding(Catalog[Least(fit)])>>

\* The first catalog model at the tier from another family with an adapter.
DifferentFamilyAt(tier, family, adapters) ==
    LET fit == {k \in DOMAIN Catalog : /\ Catalog[k].tier = tier
                                       /\ Catalog[k].family # family
                                       /\ Catalog[k].agent \in adapters}
    IN  IF fit = {} THEN <<>> ELSE <<Binding(Catalog[Least(fit)])>>

(* ----------------------------- configuration ---------------------------- *)

DefaultChain(kind) ==
    CASE kind = "design" -> <<3>>
      [] kind \in {"implement", "refactor"} -> <<2, 3>>
      [] kind \in {"fix", "test"} -> <<1, 2, 3>>
      [] kind \in {"docs", "chore"} -> <<1, 2>>

DefaultAttempts == 2
DefaultReviewTimeout == 90

\* One [routing] entry for a task kind: an explicit chain, else a tier, else
\* the default.
ChainFor(cfg, kind) ==
    IF kind \notin DOMAIN cfg.kinds
    THEN [chain |-> DefaultChain(kind), attempts |-> DefaultAttempts]
    ELSE LET e == cfg.kinds[kind]
         IN  [chain |-> IF e.chain # <<>> THEN e.chain
                        ELSE IF e.tier # 0 THEN <<e.tier>> ELSE DefaultChain(kind),
              attempts |-> IF e.attempts = 0 THEN DefaultAttempts ELSE e.attempts]

\* A ceiling must be positive and finite, wherever it is written.
BadBudget(limit) == limit < 0

\* What config::load refuses in the values of a file it could read.  (Globs that do
\* not compile, an explicit file that is missing and the pools file are its inputs'
\* faults and left out.  A second pin for a tier is dropped with a
\* warning before its effort is looked at; an unknown shell, routing kind,
\* strategy or notifier only warns.)
LoadRefusals(raw) ==
    {"effort" : x \in {y \in {raw.implementation, raw.review_effort} : y = "?"}}
    \cup {"kind" : k \in {j \in DOMAIN raw.kinds : raw.kinds[j].attempts = -1 \/ raw.kinds[j].misplaced}}
    \cup {"review" : x \in {y \in {raw.review} : y.timeout = -1 \/ y.misplaced}}
    \cup {"override" : k \in {j \in DOMAIN raw.overrides :
                               LET ov == raw.overrides[j]
                               IN  ov.second = "?" \/ (ov.start = 0 /\ ov.second = "-")}}
    \cup {"pin" : k \in {j \in DOMAIN raw.pins :
                          \/ Entries(raw.pins[j].agent, raw.pins[j].model) = {}
                          \/ /\ raw.pins[j].effort = "?"
                             /\ \A i \in 1 .. j - 1 : raw.pins[i].tier # raw.pins[j].tier}}
    \cup {"gates" : g \in {h \in ToSet(raw.gates.list) : h.timeout = -1 \/ h.cmd = "-"}}
    \cup {"engine" : x \in {y \in {raw.on_failure} : y = "?"}}
    \cup {"mode" : x \in {y \in {raw.mode} : y = "?"}}
    \cup {"ask" : x \in {y \in {raw.ask} : y < 0}}
    \cup {"budget" : x \in {y \in {raw.budget} : BadBudget(y)}}

FirstPins(pins) ==
    LET own(k) == \A i \in 1 .. k - 1 : pins[i].tier # pins[k].tier
        keep == SelectSeq([k \in DOMAIN pins |-> k], own)
    IN  [k \in DOMAIN keep |-> pins[keep[k]]]

Load(raw) ==
    [kinds |-> raw.kinds, overrides |-> raw.overrides, pins |-> FirstPins(raw.pins),
     review_tier |-> IF raw.review.tier = 0 THEN 3 ELSE raw.review.tier,
     review_enabled |-> raw.review.enabled,
     timeout |-> IF raw.review.timeout = 0 THEN DefaultReviewTimeout ELSE raw.review.timeout,
     implementation |-> raw.implementation, review_effort |-> raw.review_effort,
     gates |-> raw.gates, shell |-> IF raw.shell \in {"-", "?"} THEN "sh" ELSE raw.shell,
     on_failure |-> IF raw.on_failure = "-" THEN "halt" ELSE raw.on_failure,
     mode |-> IF raw.mode = "-" THEN "on_block" ELSE raw.mode,
     ask |-> raw.ask, budget |-> raw.budget]

\* Effort: the role's, else the tier's pin, else the tier's own.
TierEffort(cfg, tier) ==
    LET pins == SelectSeq(cfg.pins, LAMBDA p : p.tier = tier)
    IN  IF pins # <<>> /\ pins[1].effort # "-" THEN pins[1].effort
        ELSE CASE tier = 1 -> "low" [] tier = 2 -> "medium" [] tier = 3 -> "high"

EffortPolicy(cfg) ==
    [implementation |-> [t \in Tiers |-> IF cfg.implementation # "-" THEN cfg.implementation
                                         ELSE TierEffort(cfg, t)],
     review |-> IF cfg.review_effort # "-" THEN cfg.review_effort
                ELSE TierEffort(cfg, cfg.review_tier)]

(* -------------------------------- routing ------------------------------- *)

Bind(tier, cfg) ==
    LET pins == SelectSeq(cfg.pins, LAMBDA p : p.tier = tier)
    IN  IF pins # <<>> THEN Binding(pins[1]) ELSE Example(tier)

Matches(task, ov) == ToSet(task.hints) \cap ov.paths # {}

\* A plausible slip: nothing is left of a chain that lies below the floor.
RaiseStart_Empties(rungs, floor, source) ==
    LET kept == SelectSeq(rungs, LAMBDA r : r.tier >= floor)
    IN  IF Len(kept) = Len(rungs) \/ kept = <<>> THEN kept
        ELSE [kept EXCEPT ![1].source = source]

\* Drop the rungs below the floor; a chain left empty becomes the floor alone.
\* The first rung is relabelled when anything changed.
RaiseStart(rungs, floor, source) ==
    LET kept == SelectSeq(rungs, LAMBDA r : r.tier >= floor)
    IN  IF kept = <<>> THEN <<[tier |-> floor, source |-> source]>>
        ELSE IF Len(kept) = Len(rungs) THEN kept
        ELSE [kept EXCEPT ![1].source = source]

\* The floors of the matching overrides, in file order.
RaiseOverrides(rungs, task, cfg) ==
    FoldLeft(LAMBDA r, ov : IF ov.start # 0 /\ Matches(task, ov)
                            THEN RaiseStart(r, ov.start, "override") ELSE r,
             rungs, cfg.overrides)

\* A plausible slip: an annotation that agrees with a floor takes its credit.
Suggest_TakesCredit(rungs, tier) ==
    LET raised == RaiseStart(rungs, tier, "annotation")
    IN  IF tier = 0 THEN rungs
        ELSE IF raised[1].tier = tier THEN [raised EXCEPT ![1].source = "annotation"]
        ELSE raised

\* tier= is advisory: it raises the start, or is credited with a default it
\* agrees with, never with an override's floor.
Suggest(rungs, tier) ==
    LET raised == RaiseStart(rungs, tier, "annotation")
    IN  IF tier = 0 THEN rungs
        ELSE IF raised = rungs /\ rungs[1].tier = tier /\ rungs[1].source = "default"
             THEN [rungs EXCEPT ![1].source = "annotation"]
        ELSE raised

\* min= is binding.
Clip(rungs, min) == IF min = 0 THEN rungs ELSE RaiseStart(rungs, min, "annotation")

Rungs(task, cfg) ==
    LET start == [k \in DOMAIN ChainFor(cfg, task.kind).chain |->
                    [tier |-> ChainFor(cfg, task.kind).chain[k], source |-> "default"]]
    IN  Clip(Suggest(RaiseOverrides(start, task, cfg), task.suggested), task.min)

Resolve(task, cfg) ==
    [attempts |-> ChainFor(cfg, task.kind).attempts,
     rungs |-> LET r == Rungs(task, cfg)
               IN  [k \in DOMAIN r |-> [tier |-> r[k].tier, source |-> r[k].source,
                                        binding |-> Bind(r[k].tier, cfg)]]]

(* ------------------------------- reviewers ------------------------------ *)

Demanding(task, cfg) == {k \in DOMAIN cfg.overrides : cfg.overrides[k].second # "-"
                                                      /\ Matches(task, cfg.overrides[k])}

Demands(task, cfg) == Demanding(task, cfg) # {}

\* Explicit demands that cannot be met refuse the run; the reviewer that only
\* keeps a model from judging its own work may be missing.
ReviewRefused(tasks, cfg, adapters) ==
    LET primary == Bind(cfg.review_tier, cfg)
    IN  \E i \in DOMAIN tasks : Demands(tasks[i], cfg) /\
           \/ ~cfg.review_enabled
           \/ FamilyOf(primary) = "unknown"
           \/ DifferentFamilyAt(cfg.review_tier, FamilyOf(primary), adapters) = <<>>

ReviewPlan(tasks, cfg, adapters) ==
    LET primary == Bind(cfg.review_tier, cfg)
        cross   == IF FamilyOf(primary) = "unknown" THEN <<>>
                   ELSE DifferentFamilyAt(cfg.review_tier, FamilyOf(primary), adapters)
    IN  IF ~cfg.review_enabled
        THEN [primary |-> <<>>, alternative |-> <<>>, second |-> [i \in DOMAIN tasks |-> <<>>],
              timeout |-> DefaultReviewTimeout]
        ELSE [primary |-> <<primary>>, alternative |-> cross, timeout |-> cfg.timeout,
              second |-> [i \in DOMAIN tasks |-> IF Demands(tasks[i], cfg) THEN cross ELSE <<>>]]

AgentsOf(opts) == {o[1].agent : o \in {p \in opts : p # <<>>}}

\* A plausible slip: a second opinion is left among the optional agents.
RequiredReviewers_PrimaryOnly(plan) == AgentsOf({plan.primary})

\* Everything but the alternative is required.
RequiredReviewers(plan) == AgentsOf({plan.primary} \cup {plan.second[i] : i \in DOMAIN plan.second})
Reviewers(plan) == RequiredReviewers(plan) \cup AgentsOf({plan.alternative})

DropAlternative(plan) == [plan EXCEPT !.alternative = <<>>]

\* The tasks that may be judged by the model that wrote them: warned about when
\* no alternative is there.
AtRisk(plan, chains) ==
    IF plan.alternative # <<>> \/ plan.primary = <<>> THEN {}
    ELSE {i \in DOMAIN chains : plan.second[i] = <<>> /\
             \E k \in DOMAIN chains[i].rungs : chains[i].rungs[k].binding = plan.primary[1]}

\* The passes that judge task i when the given binding implemented it.
Passes(plan, i, implementer) ==
    IF plan.primary = <<>> THEN <<>>
    ELSE IF plan.second[i] # <<>> THEN <<plan.primary[1], plan.second[i][1]>>
    ELSE IF plan.alternative # <<>> /\ plan.primary[1] = implementer THEN <<plan.alternative[1]>>
    ELSE <<plan.primary[1]>>

\* A recorded review plan must be whole before anything is probed for it.
ReviewIdentityHolds(plan, tasks) ==
    IF plan.primary = <<>>
    THEN plan.alternative = <<>> /\ \A i \in DOMAIN plan.second : plan.second[i] = <<>>
    ELSE Len(plan.second) = tasks
=============================================================================
