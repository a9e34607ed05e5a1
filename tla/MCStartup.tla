------------------------------ MODULE MCStartup ------------------------------
\* Plans, configurations and installed agents for the model checker.
EXTENDS Startup

(* Documents. *)
Title(t, header) == [text |-> t, slug |-> <<t>>, words |-> {t}, header |-> header]
Heading(t) == [b |-> "heading", level |-> 2, quoted |-> FALSE, title |-> Title(t, FALSE), inline |-> <<>>]
Criteria   == [b |-> "heading", level |-> 3, quoted |-> FALSE, title |-> Title("criteria", TRUE), inline |-> <<>>]
Para(header) == [b |-> "para", header |-> header, hints |-> <<>>]
Items(box, t) == [b |-> "list", ordered |-> FALSE,
                  items |-> <<[title |-> Title(t, FALSE), box |-> box, inline |-> <<>>]>>]
Token(k, v) == [key |-> k, value |-> v, known |-> TRUE]
Note(tokens) == [b |-> "comment", tokens |-> tokens]

Blocks == {Heading("fix"), Heading("design"), Criteria, Para(TRUE), Items(TRUE, "done"),
           Note(<<Token("id", <<"fix", 2>>)>>), Note(<<Token("tier", 2)>>), [b |-> "code"]}
Layouts == UNION {[1 .. n -> Blocks] : n \in 2 .. 4}

\* Three tasks, with every way they can depend on each other, and one artifact.
Names == <<"x", "y", "z">>
Depends == {<<>>, << <<>> >>} \cup {<< <<<<"x">>>> >>, << <<<<"y">>>> >>, << <<<<"z">>>> >>,
                                   << <<<<"x">>, <<"z">>>> >>, << <<<<"w">>>> >>}
Section(n, d, makes, reads) ==
    <<Heading(Names[n]),
      Note(<<Token("id", <<Names[n]>>), Token("depends", d),
             Token("out", IF makes THEN <<"art">> ELSE <<>>),
             Token("needs", IF reads THEN <<"art">> ELSE <<>>)>>)>>
Graph(d, p, r) == Section(1, d[1], p = 1, r = 1) \o Section(2, d[2], p = 2, r = 2)
                  \o Section(3, d[3], p = 3, r = 3)
Graphs == {Graph(d, p, r) : d \in [1 .. 3 -> Depends], p \in 1 .. 3, r \in 0 .. 3}

(* Configurations. *)
NoKinds == [k \in {} |-> 0]
Plain ==
    [kinds |-> NoKinds, overrides |-> <<>>, pins |-> <<>>,
     review |-> [tier |-> 0, timeout |-> 0, enabled |-> TRUE, misplaced |-> FALSE],
     gates |-> [written |-> FALSE, list |-> <<>>], implementation |-> "-", review_effort |-> "-",
     shell |-> "-", on_failure |-> "-", mode |-> "-", ask |-> 0, budget |-> 0]
Kind(chain, tier, attempts) == [chain |-> chain, tier |-> tier, attempts |-> attempts, misplaced |-> FALSE]
Override(start, second) == [paths |-> {"src"}, start |-> start, second |-> second]
Pin(tier, agent, model, effort) == [tier |-> tier, agent |-> agent, model |-> model, effort |-> effort]
MyGate(text, program) == [name |-> "mine", cmd |-> text, program |-> program, timeout |-> 0]

Twice  == [Plain EXCEPT !.overrides = <<Override(3, "different-vendor")>>]
Floor2 == [Plain EXCEPT !.overrides = <<Override(2, "-")>>, !.kinds = [k \in {"implement"} |-> Kind(<<1>>, 0, 0)]]
Codex  == [Plain EXCEPT !.pins = <<Pin(3, "codex", "gpt-5.6", "max"), Pin(3, "claude", "opus-5", "?")>>]
Mixed  == [Plain EXCEPT !.pins = <<Pin(2, "copilot", "sonnet-5", "-")>>, !.review_effort = "xhigh",
                        !.gates = [written |-> TRUE, list |-> <<MyGate("make", "make")>>]]
Mid    == [Plain EXCEPT !.review.tier = 2, !.implementation = "high"]
Off    == [Plain EXCEPT !.review.enabled = FALSE, !.gates = [written |-> TRUE, list |-> <<>>]]

Legal   == {Plain, Twice, Floor2, Codex, Mixed, Mid, Off,
            [Codex EXCEPT !.overrides = <<Override(0, "different-vendor")>>]}
Illegal == {[Plain EXCEPT !.budget = -1], [Plain EXCEPT !.pins = <<Pin(1, "claude", "gpt-9", "-")>>],
            [Off EXCEPT !.overrides = <<Override(3, "different-vendor")>>],
            [Plain EXCEPT !.overrides = <<Override(0, "-")>>],
            [Mixed EXCEPT !.gates.list[1].timeout = -1],
            [Plain EXCEPT !.kinds = [k \in {"fix"} |-> Kind(<<>>, 1, -1)]]}

(* The plan the runs work on: a task under src, and one that is not. *)
Work(tier, min) ==
    <<Heading("api"), Note(<<Token("paths", <<"src">>), Token("tier", tier), Token("min", min)>>),
      Criteria, Items(FALSE, "works"), Heading("readme")>>
Project(doc, raw, marker) == [doc |-> doc, raw |-> raw, marker |-> marker]

McPreviews ==
    {Project(d, Plain, "cargo") : d \in Layouts \cup Graphs}
    \cup {Project(Work(t, m), raw, "go") : t \in 0 .. 3, m \in 0 .. 3, raw \in Legal \cup Illegal}
McProjects ==
    {Project(Work(0, 0), raw, "cargo") : raw \in Legal}
    \cup {Project(Work(2, 3), Plain, "npm"), Project(Work(3, 0), Mid, "other")}
McEditedConfigs == {Plain, Codex, Mixed, Twice}
McEditedPlans == {Work(2, 0)}

(* Installed agents. *)
Good(agent) ==
    [answers |-> TRUE, efforts |-> TRUE, help |-> Required(agent) \cup {"--resume"},
     resume |-> RequiredOnResume(agent), parser |-> [s \in Surfaces |-> "strict"]]
Absent(agent) == [Good(agent) EXCEPT !.answers = FALSE]
McVersions ==
    [claude  |-> {Good("claude"), [Good("claude") EXCEPT !.help = @ \ {"--resume"}]},
     copilot |-> {Good("copilot"), Absent("copilot"), [Good("copilot") EXCEPT !.help = @ \ {"--deny-tool"}]},
     codex   |-> {Good("codex"), [Good("codex") EXCEPT !.resume = @ \ {"-c"}],
                  [Good("codex") EXCEPT !.parser = [s \in Surfaces |-> "lax"]],
                  [Good("codex") EXCEPT !.parser = [s \in Surfaces |-> "other"]]}]
McPrograms == {{"sh", "cargo", "make", "npm"}, {"sh"}}
=============================================================================
