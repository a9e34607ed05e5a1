------------------------------- MODULE Startup -------------------------------
(***************************************************************************)
(* From `tactus run` (or `tactus resume`) to the first agent spawned:       *)
(* run_harness_inner, preflight_with_recorded, and the head of              *)
(* resume_harness_inner (engine.rs), over the plan reader, the router and   *)
(* the adapters.  One run, started at most once and resumed at will; around *)
(* it the plan and tactus.toml are edited, agent CLIs are upgraded or       *)
(* removed, file and git operations fail, and the process dies.             *)
(* `tactus validate` is the same analysis with nothing after it.            *)
(***************************************************************************)
EXTENDS PlanText, Routing, AgentCommands
LOCAL INSTANCE SequencesExt

CONSTANTS Previews,    \* [doc, raw, marker] that are only validated
          Projects,    \* [doc, raw, marker] a run is started on
          EditedConfigs, EditedPlans,   \* what the two files may become
          Versions,    \* agent -> the CLIs that may be installed
          Programs,    \* the sets of shells and gate programs on PATH
          Adapters,    \* the agents this harness can spawn
          Windows,
          MaxUpsets    \* bound on edits, upgrades and crashes

VARIABLES files, clis, path,   \* the world: project, installed agents, PATH
          command,             \* "validate" or "run"
          at,                  \* where the process is; "idle" is no process
          how,                 \* "start" or "resume"
          got, caps,           \* what preflight resolved, what it probed
          told,                \* tasks whose self-review some process warned of
          disk, rec,           \* the run's directories and branch; run_started
          cause,               \* why the last process ended
          cmd, session,        \* the last agent spawned, the session it left
          upsets

world == <<files, clis, path, command>>
run   == <<disk, rec, told>>
vars  == <<files, clis, path, command, at, how, got, caps, told, disk, rec,
           cause, cmd, session, upsets>>

Nothing == [none |-> TRUE]
NoDisk  == [public |-> FALSE, private |-> FALSE, plan |-> FALSE, branch |-> FALSE]

(* ------------------------------- analysis ------------------------------- *)

\* The gates derived from a repository's marker file when none are configured.
Derive(marker) ==
    CASE marker = "cargo" -> << [name |-> "check", cmd |-> "cargo check", program |-> "cargo"],
                                [name |-> "test", cmd |-> "cargo test", program |-> "cargo"] >>
      [] marker = "go"    -> << [name |-> "build", cmd |-> "go build", program |-> "go"],
                                [name |-> "test", cmd |-> "go test", program |-> "go"] >>
      [] marker = "npm"   -> << [name |-> "test", cmd |-> "npm test", program |-> "npm"] >>
      [] OTHER -> <<>>

\* Configured gates win, an empty list included.
GatesOf(project, cfg) ==
    LET list == IF cfg.gates.written THEN cfg.gates.list ELSE Derive(project.marker)
    IN  [k \in DOMAIN list |-> [name |-> list[k].name, cmd |-> list[k].cmd,
                                program |-> list[k].program, shell |-> cfg.shell]]

\* What validate::analyze refuses, in its order.
AnalysisRefusal(project) ==
    LET tasks == ParsePlan(project.doc)
    IN  CASE tasks = <<>> -> "plan"
          [] LoadRefusals(project.raw) # {} -> "config"
          [] ~GraphAccepted(tasks) -> "graph"
          [] \E k \in DOMAIN project.raw.pins : project.raw.pins[k].agent \notin Agents -> "pin"
          [] OTHER -> "none"

Analysis(project) ==
    LET tasks == ParsePlan(project.doc)
        cfg   == Load(project.raw)
    IN  [tasks |-> tasks, cfg |-> cfg, doc |-> project.doc,
         chains |-> [i \in DOMAIN tasks |-> Resolve(tasks[i], cfg)],
         gates |-> GatesOf(project, cfg), efforts |-> EffortPolicy(cfg),
         reviews |-> ReviewPlan(tasks, cfg, Adapters)]

\* The index space of recorded progress: a recorded rung means nothing in
\* another one.
Structure(a) ==
    [i \in DOMAIN a.tasks |->
        [task |-> a.tasks[i].id, attempts |-> a.chains[i].attempts,
         tiers |-> [k \in DOMAIN a.chains[i].rungs |-> a.chains[i].rungs[k].tier]]]

\* A plausible slip: the structure is compared and today's bindings are kept.
RestoreBindings_Todays(a, r) == a.chains

RestoreBindings(a, r) ==
    [i \in DOMAIN a.chains |->
        [a.chains[i] EXCEPT !.rungs =
            [k \in DOMAIN @ |-> [@[k] EXCEPT !.binding = r.chains[i].rungs[k].binding]]]]

\* What this run recorded of itself wins over today's configuration.
Restored(a, r) ==
    [a EXCEPT !.chains = RestoreBindings(a, r), !.gates = r.gates,
              !.efforts = r.efforts, !.reviews = r.reviews]

(* -------------------------------- probing ------------------------------- *)

RequiredAgents(a) ==
    {a.chains[i].rungs[k].binding.agent :
        <<i, k>> \in {x \in (DOMAIN a.chains) \X (1 .. 3) : x[2] \in DOMAIN a.chains[x[1]].rungs}}
    \cup RequiredReviewers(a.reviews)

Usable(agent) == agent \in Adapters /\ Probed(agent, clis[agent])

\* A plausible slip: the second warning is left out, as the first was given.
ToldAfterProbe_Silent(a) == {}

\* A failing alternative is given up, and its tasks are named.
ToldAfterProbe(a) == AtRisk(DropAlternative(a.reviews), a.chains)

(* ------------------------------ the process ----------------------------- *)

Init ==
    /\ \/ /\ command = "validate" /\ files \in Previews
          /\ clis = Nothing /\ path = {}      \* neither is looked at
       \/ /\ command = "run" /\ files \in Projects /\ path \in Programs
          /\ clis \in {v \in [Agents -> UNION {Versions[a] : a \in Agents}] :
                         \A a \in Agents : v[a] \in Versions[a]}
    /\ at = "idle" /\ how = "start" /\ got = Nothing /\ caps = Nothing /\ told = {}
    /\ disk = NoDisk /\ rec = Nothing /\ cause = "none"
    /\ cmd = Nothing /\ session = Nothing /\ upsets = 0

End(why) ==
    /\ at' = "idle" /\ cause' = why
    /\ got' = Nothing /\ caps' = Nothing /\ cmd' = Nothing /\ session' = Nothing

\* Owns the worktree (and, resuming, the run) before it reads anything.
Open ==
    /\ at = "idle"
    /\ IF rec = Nothing THEN disk = NoDisk /\ how' = "start"
       ELSE cause # "refused for good" /\ how' = "resume"
    /\ at' = "opened" /\ cause' = "none"
    /\ UNCHANGED <<world, run, got, caps, cmd, session, upsets>>

\* Reads plan and configuration once; resuming, puts the recorded identity in
\* their place.
Analyze ==
    /\ at = "opened"
    /\ LET why == AnalysisRefusal(files)
           a   == Analysis(files)
       IN  IF why # "none" THEN End(why) /\ UNCHANGED told
           ELSE IF how = "resume" /\ Structure(a) # rec.structure
           THEN End("routing") /\ UNCHANGED told
           ELSE IF how = "start" /\ ReviewRefused(a.tasks, a.cfg, Adapters)
           THEN End("reviewers") /\ UNCHANGED told
           ELSE LET r == IF how = "resume" THEN Restored(a, rec) ELSE a
                IN  IF ~ReviewIdentityHolds(r.reviews, Len(r.tasks))
                    THEN End("identity") /\ UNCHANGED told
                    ELSE /\ got' = r /\ at' = "analyzed"
                         /\ told' = IF how = "start" THEN AtRisk(r.reviews, r.chains) ELSE told
                         /\ UNCHANGED <<caps, cmd, session, cause>>
    /\ UNCHANGED <<world, disk, rec, how, upsets>>

\* `tactus validate` prints its report here.
Preview ==
    /\ at = "analyzed" /\ command = "validate"
    /\ End("previewed") /\ UNCHANGED <<world, run, how, upsets>>

\* Required agents must probe.  The alternative may fail to.
Probe ==
    /\ at = "analyzed" /\ command = "run"
    /\ LET need == RequiredAgents(got)
           want == need \cup Reviewers(got.reviews)
           have == {a \in want : Usable(a)}
       IN  IF ~(need \subseteq have) THEN End("agent") /\ UNCHANGED told
           ELSE /\ caps' = [a \in have |-> clis[a]]
                /\ at' = "probed"
                /\ IF want \subseteq have THEN UNCHANGED <<got, told>>
                   ELSE /\ got' = [got EXCEPT !.reviews = DropAlternative(@)]
                        /\ told' = told \cup ToldAfterProbe(got)
                /\ UNCHANGED <<cmd, session, cause>>
    /\ UNCHANGED <<world, disk, rec, how, upsets>>

\* Shells and gate programs must resolve (PowerShell may know a cmdlet).
GatesResolve(gates) ==
    \A k \in DOMAIN gates :
        /\ gates[k].shell \in path
        /\ gates[k].program \in path \cup {"shell syntax"} \/ gates[k].shell = "powershell"

\* A plausible slip: a start goes on like a resume.
AfterCheck_Resumes(h) == "logged"

AfterCheck(h) == IF h = "start" THEN "checked" ELSE "logged"

\* The rest of preflight, and what stands between it and the run: a start wants
\* git's prerequisites and a clean tree, a resume the plan the run froze.
Check ==
    /\ at = "probed"
    /\ \/ ~GatesResolve(got.gates) /\ End("gates")
       \/ GatesResolve(got.gates) /\ how = "start" /\ End("git or dirty tree")
       \/ GatesResolve(got.gates) /\ how = "resume" /\ got.doc # rec.doc /\ End("plan changed")
       \/ /\ GatesResolve(got.gates)
          /\ how = "resume" => got.doc = rec.doc
          /\ at' = AfterCheck(how)
          /\ UNCHANGED <<got, caps, cmd, session, cause>>
    /\ UNCHANGED <<world, run, how, upsets>>

\* The directories are made and the run is locked; a failure half-way is
\* returned as it is.
CreateDirs ==
    /\ at = "checked"
    /\ \/ at' = "created" /\ disk' = [disk EXCEPT !.public = TRUE, !.private = TRUE]
          /\ UNCHANGED <<got, caps, cmd, session, cause>>
       \/ \E d \in {NoDisk, [NoDisk EXCEPT !.public = TRUE],
                    [NoDisk EXCEPT !.public = TRUE, !.private = TRUE]} :
             disk' = d /\ End("create")
    /\ UNCHANGED <<world, rec, told, how, upsets>>

\* A plausible slip: only the public directory is taken back.
AfterFailedFreeze_PublicOnly(d) == [d EXCEPT !.public = FALSE, !.plan = FALSE]

AfterFailedFreeze(d) == NoDisk

\* What a failed freeze leaves when tidying up, done as well as it can be, fails
\* too; a plan that cannot be rendered is returned before any of it.
Husks == {[NoDisk EXCEPT !.public = p, !.private = q, !.plan = w] :
            p \in BOOLEAN, q \in BOOLEAN, w \in BOOLEAN} \ {NoDisk}

\* The plan is written, read back and the branch made: all of it, or the
\* directories go as far as they can.
Freeze ==
    /\ at = "created"
    /\ \/ at' = "frozen" /\ disk' = [disk EXCEPT !.plan = TRUE, !.branch = TRUE]
          /\ UNCHANGED <<got, caps, cmd, session, cause>>
       \/ \E written \in BOOLEAN :
             /\ disk' = AfterFailedFreeze([disk EXCEPT !.plan = written])
             /\ End("freeze")
       \/ \E d \in Husks : (d.plan => d.public) /\ disk' = d /\ End("freeze, untidied")
    /\ UNCHANGED <<world, rec, told, how, upsets>>

\* The log is opened and run_started is on it: from here the run exists.
Begin ==
    /\ at = "frozen"
    /\ \/ /\ rec' = [structure |-> Structure(got), chains |-> got.chains, gates |-> got.gates,
                     efforts |-> got.efforts, reviews |-> got.reviews, doc |-> got.doc,
                     cfg |-> got.cfg, tasks |-> got.tasks]
          /\ at' = "logged" /\ UNCHANGED <<got, caps, cmd, session, cause>>
       \/ End("log") /\ UNCHANGED rec
    /\ UNCHANGED <<world, disk, told, how, upsets>>

\* Resuming refuses a run that is over; the decision is the log's (RunLog).
RefuseForGood ==
    /\ at = "logged" /\ how = "resume"
    /\ End("refused for good") /\ UNCHANGED <<world, run, how, upsets>>

(* ------------------------------- spawning ------------------------------- *)

\* A plausible slip: any session of the agent is taken up again.
SessionFor_AnyRole(role, b, task) ==
    IF session # Nothing /\ session.of = b /\ session.task = task
    THEN session.access ELSE "none"

\* The session a spawn may take up: an attempt its own rung's, a second asking
\* of a review the first one's.
SessionFor(role, b, task) ==
    IF session # Nothing /\ session.of = b /\ session.task = task /\ session.role = role
    THEN session.access ELSE "none"

Spawn(i, role, b, effort, resumes) ==
    LET edit == role = "implement"
        r    == [edit |-> edit, gates |-> {got.gates[k].cmd : k \in DOMAIN got.gates},
                 session |-> IF resumes THEN SessionFor(role, b, i) ELSE "none"]
        can  == Access(b.agent, r)
    IN  /\ ~EditRefused(b.agent, r, Windows)
        /\ resumes => Resumed(r)
        /\ cmd' = [task |-> i, role |-> role, agent |-> b.agent, model |-> b.model,
                   effort |-> effort, run |-> r, options |-> Options(b.agent, r), can |-> can]
        /\ session' = IF ~LeavesSession(b.agent) THEN Nothing
                      ELSE [of |-> b, task |-> i, role |-> role,
                            access |-> IF can.write THEN "write" ELSE "read"]
        /\ UNCHANGED <<world, run, at, how, got, caps, cause, upsets>>

\* An attempt resumes its session only where the probe saw the capability.
Attempt ==
    /\ at = "logged"
    /\ \E i \in DOMAIN got.tasks : \E k \in DOMAIN got.chains[i].rungs, again \in BOOLEAN :
          LET b == got.chains[i].rungs[k].binding
          IN  /\ again => b.agent \in DOMAIN caps /\ SessionResume(b.agent, caps[b.agent])
              /\ Spawn(i, "implement", b, got.efforts.implementation[got.chains[i].rungs[k].tier],
                       again)

\* A reviewer is asked, and asked again in its session when it left one.
Judge ==
    /\ at = "logged"
    /\ \E i \in DOMAIN got.tasks : \E k \in DOMAIN got.chains[i].rungs, again \in BOOLEAN :
          \E p \in ToSet(Passes(got.reviews, i, got.chains[i].rungs[k].binding)) :
             Spawn(i, "review", p, got.efforts.review, again)

Stop ==
    /\ at = "logged" /\ End("parked") /\ UNCHANGED <<world, run, how, upsets>>

(* ------------------------------- the world ------------------------------ *)

Upset == command = "run" /\ upsets < MaxUpsets /\ upsets' = upsets + 1

EditFiles ==
    /\ Upset
    /\ \/ \E raw \in EditedConfigs : raw # files.raw /\ files' = [files EXCEPT !.raw = raw]
       \/ \E doc \in EditedPlans : doc # files.doc /\ files' = [files EXCEPT !.doc = doc]
    /\ UNCHANGED <<clis, path, command, run, at, how, got, caps, cause, cmd, session>>

ChangeCli ==
    /\ Upset
    /\ \E a \in Agents : \E v \in Versions[a] : v # clis[a] /\ clis' = [clis EXCEPT ![a] = v]
    /\ UNCHANGED <<files, path, command, run, at, how, got, caps, cause, cmd, session>>

\* A kill, possibly between the steps of the action it interrupts.
Crash ==
    /\ Upset /\ at # "idle"
    /\ disk' \in CASE at = "checked" -> {NoDisk, [NoDisk EXCEPT !.public = TRUE],
                                         [NoDisk EXCEPT !.public = TRUE, !.private = TRUE]}
                   [] at = "created" -> {disk, [disk EXCEPT !.plan = TRUE],
                                         [disk EXCEPT !.plan = TRUE, !.branch = TRUE]}
                   [] OTHER -> {disk}
    /\ End("crash") /\ UNCHANGED <<world, rec, told, how>>

Next ==
    \/ Open \/ Analyze \/ Preview \/ Probe \/ Check \/ CreateDirs \/ Freeze \/ Begin
    \/ RefuseForGood \/ Attempt \/ Judge \/ Stop
    \/ EditFiles \/ ChangeCli \/ Crash

Spec == Init /\ [][Next]_vars

(* ------------------------------ properties ------------------------------ *)

\* The types, and what each stage of a start or resume has at hand.
TypeOK ==
    /\ command \in {"validate", "run"} /\ how \in {"start", "resume"}
    /\ at \in {"idle", "opened", "analyzed", "probed", "checked", "created", "frozen", "logged"}
    /\ disk \in [{"public", "private", "plan", "branch"} -> BOOLEAN]
    /\ upsets \in 0 .. MaxUpsets
    /\ got = Nothing <=> at \in {"idle", "opened"}
    /\ at = "logged" => rec # Nothing
    /\ rec # Nothing => disk.plan /\ disk.branch
    /\ got # Nothing => \A i \in DOMAIN got.tasks : got.tasks[i].kind \in Kinds
    /\ cmd # Nothing => at = "logged" /\ cmd.agent \in Agents

(* What the text means. *)

FirstLook == at = "opened" /\ upsets = 0 /\ how = "start"

\* Tasks depend on each other in a circle: some set of them in which each waits
\* for another of the set.
Circular(tasks) ==
    \E S \in (SUBSET DOMAIN tasks) \ {{}} :
        \A i \in S : \E j \in S : tasks[j].id \in ToSet(tasks[i].depends)

\* The depth-first search of validate.rs agrees with the definition: a plan
\* passes exactly when its ids differ, its edges resolve and no tasks wait in a
\* circle, whatever the length of the circle and the order of the tasks.
GraphVerdict ==
    FirstLook => LET tasks == ParsePlan(files.doc)
                 IN  GraphAccepted(tasks)
                     <=> /\ \A i, j \in DOMAIN tasks : i # j => tasks[i].id # tasks[j].id
                         /\ \A i \in DOMAIN tasks : \A d \in ToSet(tasks[i].depends) :
                               \E j \in DOMAIN tasks : tasks[j].id = d
                         /\ ~Circular(tasks)

\* Two tasks share an id only where the document writes that id twice: a derived
\* id never takes one that is written, later in the document included.
DistinctIds ==
    FirstLook => LET tasks  == ParsePlan(files.doc)
                     drafts == Drafts(files.doc)
                     writes(k, id) == drafts[k].ann # <<>> /\ drafts[k].ann[1].id = id
                 IN  \A i, j \in DOMAIN tasks :
                        i # j /\ tasks[i].id = tasks[j].id
                            => writes(i, tasks[i].id) /\ writes(j, tasks[i].id)

\* Comments say what they say and nothing else: without its annotations a
\* document has the same tasks with the same acceptance criteria.
CommentsOnlyAnnotate ==
    FirstLook => LET plain == SelectSeq(files.doc, LAMBDA x : x.b # "comment")
                     criteria(doc) == [k \in DOMAIN Drafts(doc) |-> Drafts(doc)[k].acceptance]
                 IN  criteria(plain) = criteria(files.doc)

\* With nothing warned about, every task that reads an artifact comes after the
\* task that makes it, in the order the work is done and reported in.
ArtifactsComeFirst ==
    at = "analyzed" /\ Miswired(got.tasks) = {}
        => LET order == TopoOrder(got.tasks)
               place(i) == CHOOSE n \in DOMAIN order : order[n] = i
           IN  \A i \in DOMAIN got.tasks : \A a \in ToSet(got.tasks[i].needs) :
                  LET p == Producer(got.tasks, a)
                  IN  p \notin {0, i} => place(p) < place(i)

(* What the configuration demands. *)

\* No rung of a resolved chain lies below a floor the plan or a matching
\* override sets, and no chain is left without a rung.
FloorsHold ==
    at = "analyzed" /\ how = "start" =>
        \A i \in DOMAIN got.tasks :
            /\ got.chains[i].rungs # <<>>
            /\ \A k \in DOMAIN got.chains[i].rungs :
                  /\ got.chains[i].rungs[k].tier >= got.tasks[i].min
                  /\ \A n \in DOMAIN got.cfg.overrides :
                        Matches(got.tasks[i], got.cfg.overrides[n])
                            => got.chains[i].rungs[k].tier >= got.cfg.overrides[n].start

\* A start an override holds up without the annotation is credited to the
\* override: removing tier= would not lower it.
LabelsGiveDueCredit ==
    at = "analyzed" /\ how = "start" =>
        \A i \in DOMAIN got.tasks :
            LET bare == Resolve([got.tasks[i] EXCEPT !.suggested = 0], got.cfg)
            IN  bare.rungs[1].source = "override"
                    /\ bare.rungs[1].tier = got.chains[i].rungs[1].tier
                => got.chains[i].rungs[1].source = "override"

\* For the whole life of a run, resumes on any later machine and configuration
\* included, a task its configuration wanted judged twice is judged by models
\* of two families.
SecondOpinionIsForeign ==
    at = "logged" =>
        \A i \in DOMAIN rec.tasks : Demanding(rec.tasks[i], rec.cfg) # {} =>
            \A k \in DOMAIN got.chains[i].rungs :
                LET by == {FamilyOf(p) : p \in ToSet(Passes(got.reviews, i, got.chains[i].rungs[k].binding))}
                IN  Cardinality(by \ {"unknown"}) >= 2

(* What a run keeps to. *)

\* A resumed run works as the run it continues: bindings, gates, efforts and
\* judges as recorded, whatever the files say now; only the alternative judge
\* may have been lost.
WorksAsRecorded ==
    at = "logged" =>
        /\ [i \in DOMAIN got.chains |-> [k \in DOMAIN got.chains[i].rungs |-> got.chains[i].rungs[k].binding]]
           = [i \in DOMAIN rec.chains |-> [k \in DOMAIN rec.chains[i].rungs |-> rec.chains[i].rungs[k].binding]]
        /\ got.gates = rec.gates /\ got.efforts = rec.efforts
        /\ got.reviews \in {rec.reviews, DropAlternative(rec.reviews)}
        /\ got.doc = rec.doc

\* Every agent a run spawns was probed by the process that spawns it.
SpawnedWereProbed == cmd # Nothing => cmd.agent \in DOMAIN caps

\* Every option a command carries was advertised by the CLI that was probed, on
\* the surface it is given to.  (The second asking of a review resumes without
\* the capability being looked at.)
EveryOptionWasProven ==
    cmd # Nothing /\ cmd.agent \in DOMAIN caps =>
        cmd.options \ (IF cmd.role = "review" THEN {"--resume"} ELSE {})
            \subseteq IF Surface(cmd.agent, cmd.run) = "resume"
                      THEN caps[cmd.agent].resume ELSE caps[cmd.agent].help

\* The effort the run recorded is the effort the probed CLI works at: no
\* accepted override is silently dropped.
EffortTakesEffect ==
    cmd # Nothing /\ cmd.agent \in DOMAIN caps =>
        EffectiveEffort(cmd.agent, caps[cmd.agent], cmd.run, cmd.effort) = cmd.effort

\* A reviewer can never write and runs nothing; an implementer runs only the
\* gates the run recorded.
AccessIsTheProfile ==
    cmd # Nothing =>
        /\ cmd.role = "review" => ~cmd.can.write /\ cmd.can.runs = {}
        /\ cmd.can.runs \subseteq {rec.gates[k].cmd : k \in DOMAIN rec.gates}

\* A reviewer that is the implementer itself, with nobody else to judge the
\* task, was warned about when the run began or when its alternative was lost.
SelfReviewIsTold ==
    at = "logged" =>
        \A i \in DOMAIN got.tasks : \A k \in DOMAIN got.chains[i].rungs :
            LET b == got.chains[i].rungs[k].binding
            IN  Passes(got.reviews, i, b) = <<b>> => i \in told

\* A run directory without a run is left only by a crash or by the failures
\* nothing cleans up after: a refusal, and a failure to freeze the plan or make
\* the branch whose directories could be removed, leave no trace that could be
\* taken for the latest run.
HusksHaveACause ==
    at = "idle" /\ rec = Nothing /\ disk # NoDisk =>
        cause \in {"crash", "create", "log", "freeze, untidied"}

\* A plan is worked as it is written: accepted exactly when it can be, each
\* section and item a task of its own, artifacts in order, no rung below a floor
\* and every start credited to what sets it.
PlanIsHonoured ==
    /\ GraphVerdict /\ DistinctIds /\ CommentsOnlyAnnotate /\ ArtifactsComeFirst
    /\ FloorsHold /\ LabelsGiveDueCredit

\* A run is what its record and its directories say, on every resume: it works as
\* recorded, its second opinions stay foreign, a self-review has been told of, and
\* a directory without a run is a crash's or of a failure nothing could tidy up.
RecordIsKept ==
    WorksAsRecorded /\ SecondOpinionIsForeign /\ SelfReviewIsTold /\ HusksHaveACause

\* What a run spawns was proven by the process that spawns it: the CLI, each
\* option, that the effort takes effect and that the access is the role's.
CommandsAreProven ==
    /\ TypeOK /\ SpawnedWereProbed /\ EveryOptionWasProven
    /\ EffortTakesEffect /\ AccessIsTheProfile
=============================================================================
