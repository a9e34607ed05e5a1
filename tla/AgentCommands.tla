---------------------------- MODULE AgentCommands ----------------------------
(***************************************************************************)
(* What the three adapters ask of a command-line agent before a run may use *)
(* it (probe), and the command they build for one spawn (agent/claude.rs,   *)
(* agent/copilot.rs, agent/codex.rs).                                       *)
(*                                                                         *)
(* An installed CLI is                                                      *)
(*   [answers, help, resume, efforts, parser]                               *)
(* answers: --version and every help call exit 0 with bounded output;       *)
(* help, resume: the options it advertises (resume: `codex exec resume`);   *)
(* efforts: every shared effort level is advertised, by the help or by the  *)
(* model catalog; parser: what each codex surface does with a config key.   *)
(***************************************************************************)
EXTENDS FiniteSets, Sequences

Agents == {"claude", "copilot", "codex"}
Surfaces == {"fresh", "resume"}

Required(agent) ==
    CASE agent = "claude"  -> {"-p", "--output-format", "--model", "--effort", "--settings",
                               "--setting-sources", "--permission-mode"}
      [] agent = "copilot" -> {"-s", "--model", "--effort", "--allow-tool", "--deny-tool",
                               "--no-ask-user"}
      [] agent = "codex"   -> {"--json", "--sandbox", "--model", "-c", "--config"}

\* Only codex has a second command line for a resumed session.
RequiredOnResume(agent) ==
    IF agent = "codex" THEN {"--json", "--model", "-c", "--config"} ELSE {}

\* A strict parser rejects a key it does not know before it looks for the
\* (missing) output schema; a lax one takes any key; one of another version is
\* strict and knows the effort under another name.
ParserSays(parser, key) ==
    IF parser = "lax" \/ (parser = "strict" /\ key = "model_reasoning_effort")
    THEN "missing schema" ELSE "unknown key"

\* A plausible slip: without the control an ignored key looks like an accepted
\* one.
KeyProven_NoControl(cli) ==
    \A s \in Surfaces : ParserSays(cli.parser[s], "model_reasoning_effort") = "missing schema"

KeyProven(cli) ==
    \A s \in Surfaces :
        /\ ParserSays(cli.parser[s], "a key nobody has") = "unknown key"
        /\ ParserSays(cli.parser[s], "model_reasoning_effort") = "missing schema"

\* A plausible slip: the surface of resumed attempts is not looked at.
Advertises_FreshOnly(agent, cli) == Required(agent) \subseteq cli.help

Advertises(agent, cli) ==
    Required(agent) \subseteq cli.help /\ RequiredOnResume(agent) \subseteq cli.resume

Probed(agent, cli) ==
    /\ cli.answers
    /\ Advertises(agent, cli)
    /\ cli.efforts
    /\ agent = "codex" => KeyProven(cli)

SessionResume(agent, cli) == agent = "codex" \/ "--resume" \in cli.help

(* ------------------------------- one spawn ------------------------------ *)

\* A run is [edit, gates, session]: its permission profile, the gate commands
\* it may run, and the access of the session it resumes ("none" when fresh).
Resumed(run) == run.session # "none"

Surface(agent, run) == IF agent = "codex" /\ Resumed(run) THEN "resume" ELSE "fresh"

\* Every run has an effort (EffortPolicy), and claude a settings file.
Options(agent, run) ==
    CASE agent = "claude" ->
           {"-p", "--output-format", "--model", "--permission-mode", "--setting-sources",
            "--effort", "--settings"} \cup (IF Resumed(run) THEN {"--resume"} ELSE {})
      [] agent = "copilot" ->
           {"-s", "--no-ask-user", "--model", "--effort"}
           \cup {IF run.edit THEN "--allow-tool" ELSE "--deny-tool"}
           \cup (IF Resumed(run) THEN {"--resume"} ELSE {})
      [] agent = "codex" ->
           {"--json", "--model", "-c"} \cup (IF Resumed(run) THEN {} ELSE {"--sandbox"})

\* codex implements nothing where its sandbox does not exist.
EditRefused(agent, run, windows) == agent = "codex" /\ windows /\ run.edit

\* What the spawned agent may do: write the workspace, and run these commands
\* outside a sandbox.  A resumed codex session keeps the sandbox it began with.
Access(agent, run) ==
    IF agent = "codex"
    THEN [write |-> IF Resumed(run) THEN run.session = "write" ELSE run.edit, runs |-> {}]
    ELSE [write |-> run.edit, runs |-> IF run.edit THEN run.gates ELSE {}]

\* Copilot's output names no session to take up.
LeavesSession(agent) == agent # "copilot"

\* The effort the CLI really works at: codex's lax parser drops the key, and a
\* CLI without the level falls back to its default.
EffectiveEffort(agent, cli, run, effort) ==
    IF cli.efforts /\ (agent = "codex" => cli.parser[Surface(agent, run)] = "strict")
    THEN effort ELSE "default"
=============================================================================
