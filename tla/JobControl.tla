------------------------------ MODULE JobControl ------------------------------
(* Terminal stop, continue and termination of the conductor and the isolated *)
(* agent group beside it (agent/proc.rs): the signal handlers that only set  *)
(* flags, the monitor thread that acts on them, the guard process that stops *)
(* the conductor and probes it while it is stopped, the probe helper, and the*)
(* cleanup reaper that mirrors a stop nobody announced.                      *)
(*                                                                           *)
(* A stopped process runs neither handlers nor threads.  Generating SIGSTOP  *)
(* discards a pending SIGCONT, and a SIGCONT that finds one pending is lost, *)
(* as the kernel does it.                                                    *)
EXTENDS Naturals, Sequences

CONSTANTS
  MaxUpsets,     \* bound: commands of the user's, launches, the guard's death
  StablePolls    \* REAPER_RESUME_STABLE_POLLS

ASSUME JobControlConstants == MaxUpsets \in Nat /\ StablePolls \in Nat \ {0, 1}

VARIABLES
  tactus,     \* the conductor: "running", "stopped" or "gone"
  inbox,      \* its pending signals: cont is "none", "user" or "probe"; term
  flag,       \* the atomics the handlers set, and SUSPEND_ARMED
  relay,      \* a handler on its way through notify_guard
  restop,     \* the probe handler decided to stop the conductor again
  monitor,    \* where the monitor is
  state,      \* State: suspending, spawning
  agents,     \* the agent's group: "none", "running" or "stopped"
  guard,      \* guard_loop: armed, stopping, wake; alive
  wakePipe,   \* the guard's own signal record is readable
  commands,   \* the guard's command pipe
  ack,        \* the byte in its acknowledgement pipe
  probe,      \* the probe helper has a byte to act on
  reaper,     \* reaper_loop: mirrored, polls; seen and pulse time its polls
  wants,      \* ghost: the user's last job-control command: "run", "stop", "hold"
  asked,      \* ghost: the user asked for termination
  given,      \* upsets so far
  raced       \* ghost: which of the races below have happened

parent == <<tactus, inbox, flag, relay, restop>>
inside == <<monitor, state>>
outside == <<guard, wakePipe, commands, ack, probe>>
ghosts == <<wants, asked, given>>
vars == <<parent, inside, agents, outside, reaper, ghosts, raced>>

Upset == given < MaxUpsets /\ given' = given + 1

\* What the code leaves to timing: "dropped", the guard forgets a continue that
\* the conductor has not recorded yet; "echo", the conductor takes back a probe's
\* continue when the guard no longer stops it; "hasty", stop and continue follow
\* each other before the monitor is done with the last suspension or the reaper,
\* which only polls, has seen it; "merged", a continue is taken for an earlier one:
\* the monitor ends a suspension when the next stop is already up, or a probe's is
\* still pending when the guard no longer stops the conductor.
Races == {"dropped", "echo", "hasty", "merged"}
Race(happened, race) == raced' = IF happened THEN raced \union {race} ELSE raced
NoRace == UNCHANGED raced

Init ==
  /\ tactus = "running" /\ inbox = [cont |-> "none", term |-> FALSE]
  /\ flag = [term |-> FALSE, suspend |-> FALSE, cont |-> FALSE, armed |-> FALSE]
  /\ relay = "none" /\ restop = FALSE /\ monitor = "watch"
  /\ state = [suspending |-> FALSE, spawning |-> FALSE] /\ agents = "none"
  /\ guard = [armed |-> FALSE, stopping |-> FALSE, wake |-> FALSE, alive |-> TRUE]
  /\ wakePipe = FALSE /\ commands = <<>> /\ ack = "none" /\ probe = FALSE
  /\ reaper = [mirrored |-> FALSE, polls |-> 0, seen |-> FALSE, pulse |-> 0]
  /\ wants = "run" /\ asked = FALSE /\ given = 0 /\ raced = {}

Running == tactus = "running"

(* ------------------------------ the kernel ------------------------------- *)

Unseen == tactus = "stopped" /\ guard.stopping /\ reaper.mirrored /\ ~reaper.seen
Swallowed(source) == source = "user" /\ inbox.cont = "probe" /\ ~guard.stopping

SendCont(source) ==
  /\ tactus' = IF tactus = "stopped" THEN "running" ELSE tactus
  /\ inbox' = [inbox EXCEPT !.cont = IF @ = "none" THEN source ELSE @]
  /\ reaper' = IF tactus = "stopped" THEN [reaper EXCEPT !.seen = FALSE, !.pulse = 0] ELSE reaper
  /\ raced' = raced \union {r \in {"hasty"} : Unseen} \union {r \in {"merged"} : Swallowed(source)}

SendStop == tactus' = "stopped" /\ inbox' = [inbox EXCEPT !.cont = "none"]

Stopped(group) == IF group = "running" THEN "stopped" ELSE group
Continued(group) == IF group = "stopped" THEN "running" ELSE group

(* ------------------------- handlers in the conductor --------------------- *)

\* record_signal, for a termination: the flag first, the guard after it.
HandleTerm ==
  /\ Running /\ inbox.term
  /\ inbox' = [inbox EXCEPT !.term = FALSE]
  /\ flag' = [flag EXCEPT !.term = TRUE] /\ relay' = "look"
  /\ NoRace /\ UNCHANGED <<tactus, restop, inside, agents, outside, reaper, ghosts>>

PendingSeen_Fault == FALSE

\* pending_termination_signal: sigpending, seen from inside the handler.
PendingSeen == inbox.term

\* record_signal_info: a continue of the user's or the guard's is recorded; a
\* probe's looks for a termination and otherwise stops the conductor again.
HandleCont ==
  /\ Running /\ inbox.cont # "none" /\ ~restop
  /\ inbox' = [inbox EXCEPT !.cont = "none"]
  /\ \/ /\ inbox.cont = "user" /\ flag' = [flag EXCEPT !.cont = TRUE]
        /\ relay' = "look" /\ UNCHANGED restop
     \/ /\ inbox.cont = "probe" /\ (flag.term \/ PendingSeen)
        /\ flag' = [flag EXCEPT !.term = TRUE] /\ relay' = "look" /\ UNCHANGED restop
     \/ /\ inbox.cont = "probe" /\ ~(flag.term \/ PendingSeen)
        /\ restop' = TRUE /\ UNCHANGED <<flag, relay>>
  /\ NoRace
  /\ UNCHANGED <<tactus, inside, agents, outside, reaper, ghosts>>

\* Nothing in the handler looks at what the guard is doing by now.
Restop ==
  /\ Running /\ restop /\ restop' = FALSE
  /\ SendStop /\ Race(~guard.stopping, "echo")
  /\ UNCHANGED <<flag, relay, inside, agents, outside, reaper, ghosts>>

\* notify_guard: looks whether a stop is armed, then writes.
Look ==
  /\ Running /\ relay = "look"
  /\ relay' = IF flag.armed THEN "write" ELSE "none"
  /\ NoRace
  /\ UNCHANGED <<tactus, inbox, flag, restop, inside, agents, outside, reaper, ghosts>>

Write ==
  /\ Running /\ relay = "write" /\ relay' = "none"
  /\ commands' = Append(commands, "wake")
  /\ NoRace
  /\ UNCHANGED <<tactus, inbox, flag, restop, inside, agents, guard, wakePipe, ack, probe,
                 reaper, ghosts>>

Handlers == HandleTerm \/ HandleCont \/ Restop \/ Look \/ Write

(* ------------------------------ the monitor ------------------------------ *)

\* Termination: every group is killed, then the conductor with it.
Terminate ==
  /\ monitor = "watch" /\ flag.term /\ ~state.spawning
  /\ tactus' = "gone" /\ agents' = "none" /\ NoRace
  /\ UNCHANGED <<inbox, flag, relay, restop, inside, outside, reaper, ghosts>>

\* begin_suspend waits out a launch; the groups are stopped at once.
BeginSuspend ==
  /\ monitor = "watch" /\ ~flag.term /\ flag.suspend /\ ~state.spawning
  /\ flag' = [flag EXCEPT !.suspend = FALSE]
  /\ state' = [state EXCEPT !.suspending = TRUE]
  /\ agents' = Stopped(agents) /\ monitor' = "settling"
  /\ Race(reaper.mirrored, "hasty")
  /\ UNCHANGED <<tactus, inbox, relay, restop, outside, reaper, ghosts>>

\* A continue outside a suspension.
Forward ==
  /\ monitor = "watch" /\ ~flag.term /\ ~flag.suspend /\ flag.cont /\ ~state.spawning
  /\ flag' = [flag EXCEPT !.cont = FALSE] /\ agents' = Continued(agents)
  /\ NoRace /\ UNCHANGED <<tactus, inbox, relay, restop, inside, outside, reaper, ghosts>>

\* end_suspend and the continue that goes with it unless termination waits.
Release == agents' = IF flag.term THEN agents ELSE Continued(agents)

EndSuspend_Fault == monitor' = "watch" /\ UNCHANGED state
EndSuspend == monitor' = "watch" /\ state' = [state EXCEPT !.suspending = FALSE]

\* stop_groups sees them stopped, or gives up: on the clock or on a signal.
GroupsStopped ==
  /\ monitor = "settling" /\ agents # "running"
  /\ flag' = [flag EXCEPT !.armed = TRUE]
  /\ commands' = Append(commands, "arm") /\ monitor' = "arming" /\ NoRace
  /\ UNCHANGED <<tactus, inbox, relay, restop, state, agents, guard, wakePipe, ack, probe,
                 reaper, ghosts>>

GiveUp ==
  /\ monitor = "settling" /\ EndSuspend /\ Release /\ NoRace
  /\ UNCHANGED <<parent, outside, reaper, ghosts>>

Armed ==
  /\ monitor = "arming" /\ ack = "armed" /\ ack' = "none" /\ monitor' = "termination?"
  /\ NoRace
  /\ UNCHANGED <<parent, state, agents, guard, wakePipe, commands, probe, reaper, ghosts>>

\* No acknowledgement within two seconds, or none any more: the groups stay
\* stopped, and the monitor asks for its own termination next.
ArmFails ==
  /\ monitor = "arming" /\ ack # "armed"
  /\ flag' = [flag EXCEPT !.armed = FALSE]
  /\ monitor' = "unguarded" /\ state' = [state EXCEPT !.suspending = FALSE]
  /\ NoRace
  /\ UNCHANGED <<tactus, inbox, relay, restop, agents, outside, reaper, ghosts>>

Unguarded ==
  /\ monitor = "unguarded" /\ monitor' = "watch"
  /\ flag' = [flag EXCEPT !.term = TRUE]
  /\ NoRace
  /\ UNCHANGED <<tactus, inbox, relay, restop, state, agents, outside, reaper, ghosts>>

Disarm(more) ==
  /\ flag' = [more EXCEPT !.armed = FALSE] /\ commands' = Append(commands, "disarm")
  /\ EndSuspend

LookForTermination ==
  /\ monitor = "termination?"
  /\ IF flag.term THEN Disarm(flag)
                  ELSE monitor' = "continue?" /\ UNCHANGED <<flag, commands, state>>
  /\ NoRace
  /\ UNCHANGED <<tactus, inbox, relay, restop, agents, guard, wakePipe, ack, probe, reaper,
                 ghosts>>

LateContinue_Fault == FALSE

\* CONTINUE_REQUESTED, looked at once more with the guard armed.
LateContinue == flag.cont

LookForContinue ==
  /\ monitor = "continue?"
  /\ IF LateContinue
       THEN Disarm([flag EXCEPT !.cont = FALSE]) /\ agents' = Continued(agents)
       ELSE /\ commands' = Append(commands, "stop") /\ monitor' = "stopping"
            /\ UNCHANGED <<flag, state, agents>>
  /\ Race(LateContinue /\ flag.suspend, "merged")
  /\ UNCHANGED <<tactus, inbox, relay, restop, guard, wakePipe, ack, probe, reaper, ghosts>>

\* stop_parent returns: after a genuine resume, or because it was called off.
Resumed ==
  /\ monitor = "stopping" /\ ack \in {"stopped", "cancelled"} /\ ack' = "none"
  /\ Disarm([flag EXCEPT !.cont = IF ack = "stopped" THEN FALSE ELSE @]) /\ Release
  /\ Race(flag.suspend, "merged")
  /\ UNCHANGED <<tactus, inbox, relay, restop, guard, wakePipe, probe, reaper, ghosts>>

\* stop_parent finds the guard gone.
NobodyAnswers ==
  /\ monitor = "stopping" /\ ack = "none" /\ ~guard.alive
  /\ flag' = [flag EXCEPT !.armed = FALSE] /\ commands' = Append(commands, "disarm")
  /\ monitor' = "unguarded" /\ state' = [state EXCEPT !.suspending = FALSE]
  /\ NoRace
  /\ UNCHANGED <<tactus, inbox, relay, restop, agents, guard, wakePipe, ack, probe, reaper,
                 ghosts>>

Monitor ==
  /\ Running
  /\ \/ Terminate \/ BeginSuspend \/ Forward \/ GroupsStopped \/ GiveUp \/ Armed \/ ArmFails
     \/ LookForTermination \/ LookForContinue \/ Resumed \/ NobodyAnswers \/ Unguarded

(* ------------------------------ the callers ------------------------------ *)

MayLaunch_Fault == TRUE

\* claim_launch: not across a suspension.
MayLaunch == ~state.suspending

Launch ==
  /\ Running /\ agents = "none" /\ ~state.spawning /\ ~flag.term /\ MayLaunch
  /\ state' = [state EXCEPT !.spawning = TRUE] /\ agents' = "running"
  /\ reaper' = [reaper EXCEPT !.mirrored = FALSE, !.polls = 0]
  /\ Upset /\ NoRace
  /\ UNCHANGED <<parent, monitor, outside, wants, asked>>

Register ==
  /\ Running /\ state.spawning /\ state' = [state EXCEPT !.spawning = FALSE]
  /\ NoRace /\ UNCHANGED <<parent, monitor, agents, outside, reaper, ghosts>>

\* The agent is over, or past its time: its group is killed, stopped or not.
Over ==
  /\ Running /\ agents # "none" /\ ~state.spawning /\ agents' = "none"
  /\ NoRace /\ UNCHANGED <<parent, inside, outside, reaper, ghosts>>

(* ------------------------------- the guard ------------------------------- *)

Disarmed_Fault == guard
Disarmed == [guard EXCEPT !.armed = FALSE, !.stopping = FALSE, !.wake = FALSE]

\* A wake record goes while the signal itself still waits in the conductor.
Dropped == inbox.cont = "user" /\ (guard.wake \/ wakePipe)

\* A signal recorded before the stop was sent calls it off.
Wakeful == guard.wake

\* One byte of guard_loop's command pipe.
Command ==
  /\ commands # <<>> /\ commands' = Tail(commands)
  /\ \/ /\ Head(commands) = "arm"
        /\ guard' = [guard EXCEPT !.armed = TRUE, !.stopping = FALSE, !.wake = FALSE]
        /\ wakePipe' = FALSE /\ Race(Dropped, "dropped")
        /\ ack' = "armed" /\ UNCHANGED <<tactus, inbox>>
     \/ /\ Head(commands) = "stop"
        /\ IF ~guard.armed \/ Wakeful
             THEN /\ guard' = Disarmed
                  /\ ack' = "cancelled" /\ UNCHANGED <<tactus, inbox>>
             ELSE guard' = [guard EXCEPT !.stopping = TRUE] /\ SendStop /\ UNCHANGED ack
        /\ NoRace /\ UNCHANGED wakePipe
     \/ /\ Head(commands) = "disarm"
        /\ guard' = Disarmed
        /\ wakePipe' = FALSE /\ Race(Dropped, "dropped")
        /\ UNCHANGED <<ack, tactus, inbox>>
     \/ /\ Head(commands) = "wake"
        /\ guard' = [guard EXCEPT !.wake = TRUE]
        /\ NoRace /\ UNCHANGED <<wakePipe, ack, tactus, inbox>>
  /\ UNCHANGED <<flag, relay, restop, inside, agents, probe, reaper, ghosts>>

\* Its own record of a signal to the foreground group.
Noticed ==
  /\ wakePipe /\ wakePipe' = FALSE /\ guard' = [guard EXCEPT !.wake = TRUE]
  /\ NoRace
  /\ UNCHANGED <<parent, inside, agents, commands, ack, probe, reaper, ghosts>>

WakeParent ==
  /\ guard.armed /\ guard.stopping /\ guard.wake
  /\ SendCont("user") /\ ack' = "stopped"
  /\ guard' = Disarmed
  /\ UNCHANGED <<flag, relay, restop, inside, agents, wakePipe, commands, probe, ghosts>>

\* 250 ms without a sign.  Timing: a pulse is over before the next one, and the
\* reaper, every 10 ms, has looked in between.
Tick ==
  /\ guard.armed /\ guard.stopping /\ ~guard.wake /\ ~wakePipe /\ commands = <<>>
  /\ tactus = "stopped" /\ ~probe /\ (agents # "none" => reaper.seen)
  /\ probe' = TRUE
  /\ NoRace
  /\ UNCHANGED <<parent, inside, agents, guard, wakePipe, commands, ack, reaper, ghosts>>

\* probe_loop, a process of its own: by now the guard may have moved on.
Probe ==
  /\ probe /\ probe' = FALSE /\ SendCont("probe")
  /\ UNCHANGED <<flag, relay, restop, inside, agents, guard, wakePipe, commands, ack, ghosts>>

Guard == tactus # "gone" /\ guard.alive /\ (Command \/ Noticed \/ WakeParent)

\* The guard is killed, or a system call of its own ends it.
GuardDies ==
  /\ guard.alive /\ guard' = [Disarmed EXCEPT !.alive = FALSE] /\ wakePipe' = FALSE
  /\ Upset /\ NoRace
  /\ UNCHANGED <<parent, inside, agents, commands, ack, probe, reaper, wants, asked>>

(* ------------------------------- the reaper ------------------------------ *)

InPulse == guard.stopping /\ Running

MirrorStop_Fault == agents
MirrorStop == IF reaper.mirrored THEN agents ELSE Stopped(agents)

\* A poll that finds the conductor stopped starts the count again.
AfterStoppedPoll == 0

\* A pass of reaper_loop.  Timing: a pulse lasts less than the polls it takes
\* to believe in a resume.
ReaperPoll ==
  /\ agents # "none" /\ tactus # "gone"
  /\ InPulse => reaper.pulse < StablePolls - 1
  /\ IF tactus = "stopped"
       THEN /\ agents' = MirrorStop
            /\ reaper' = [reaper EXCEPT !.mirrored = TRUE, !.polls = AfterStoppedPoll,
                                        !.seen = TRUE]
       ELSE LET stable == reaper.mirrored /\ reaper.polls + 1 >= StablePolls IN
            /\ agents' = IF stable THEN Continued(agents) ELSE agents
            /\ reaper' = [reaper EXCEPT !.mirrored = @ /\ ~stable,
                                        !.polls = IF reaper.mirrored /\ ~stable THEN @ + 1 ELSE 0,
                                        !.pulse = IF InPulse THEN @ + 1 ELSE @]
  /\ NoRace
  /\ UNCHANGED <<parent, inside, outside, ghosts>>

(* ------------------------------- the user -------------------------------- *)

\* A stop from the terminal; the kernel discards a continue still pending.
Suspend ==
  /\ Running /\ Upset /\ wants = "run" /\ ~asked
  /\ flag' = [flag EXCEPT !.suspend = TRUE] /\ wants' = "stop"
  /\ inbox' = [inbox EXCEPT !.cont = "none"]
  /\ NoRace
  /\ UNCHANGED <<tactus, relay, restop, inside, agents, outside, reaper, asked>>

\* SIGSTOP, to the conductor alone.
StopAlone ==
  /\ Running /\ Upset /\ wants = "run" /\ ~asked
  /\ SendStop /\ wants' = "hold"
  /\ Race(reaper.mirrored \/ state.suspending, "hasty")
  /\ UNCHANGED <<flag, relay, restop, inside, agents, outside, reaper, asked>>

\* As fg sends it: to the whole foreground job, the guard included.
Continue ==
  /\ tactus # "gone" /\ Upset /\ wants # "run"
  /\ SendCont("user") /\ wakePipe' = guard.alive
  /\ wants' = "run"
  /\ UNCHANGED <<flag, relay, restop, inside, agents, guard, commands, ack, probe, asked>>

\* SIGTERM to the conductor, with or without the rest of its foreground group.
AskTermination ==
  /\ tactus # "gone" /\ Upset /\ ~asked /\ asked' = TRUE
  /\ inbox' = [inbox EXCEPT !.term = TRUE] /\ wakePipe' \in {wakePipe, guard.alive}
  /\ NoRace
  /\ UNCHANGED <<tactus, flag, relay, restop, inside, agents, guard, commands, ack, probe,
                 reaper, wants>>

Next ==
  \/ (Handlers /\ tactus # "gone") \/ Monitor \/ Launch \/ Register \/ Over \/ Guard \/ GuardDies
  \/ Tick \/ Probe \/ ReaperPoll \/ Suspend \/ StopAlone \/ Continue \/ AskTermination

\* Everything that can run does; an agent need not end, nor a user act.
Fairness ==
  /\ WF_vars(HandleTerm) /\ WF_vars(HandleCont) /\ WF_vars(Restop) /\ WF_vars(Look \/ Write)
  /\ WF_vars(Monitor) /\ WF_vars(Register) /\ WF_vars(Guard) /\ WF_vars(Tick) /\ WF_vars(Probe)
  /\ WF_vars(ReaperPoll)

Spec == Init /\ [][Next]_vars /\ Fairness

(* ------------------------------- properties ------------------------------ *)

\* The types of the four processes' state and of the pipes between them.
TypeOK ==
  /\ tactus \in {"running", "stopped", "gone"} /\ agents \in {"none", "running", "stopped"}
  /\ inbox \in [cont : {"none", "user", "probe"}, term : BOOLEAN]
  /\ flag \in [term : BOOLEAN, suspend : BOOLEAN, cont : BOOLEAN, armed : BOOLEAN]
  /\ relay \in {"none", "look", "write"} /\ restop \in BOOLEAN
  /\ monitor \in {"watch", "settling", "arming", "termination?", "continue?", "stopping",
                  "unguarded"}
  /\ state \in [suspending : BOOLEAN, spawning : BOOLEAN]
  /\ guard \in [armed : BOOLEAN, stopping : BOOLEAN, wake : BOOLEAN, alive : BOOLEAN]
  /\ ack \in {"none", "armed", "stopped", "cancelled"}
  /\ reaper.polls \in 0 .. StablePolls /\ reaper.pulse \in 0 .. StablePolls
  /\ monitor \notin {"watch", "unguarded"} <=> state.suspending
  /\ raced \subseteq Races

\* From the guard's stop of the conductor to the resume it acknowledges no agent
\* runs: not one launched meanwhile, not during the pulses that let the
\* conductor look for a termination, not through the reaper's own mirroring --
\* unless stops and continues were too hasty for reaper or monitor, or the
\* conductor stopped itself of a probe come late.
StoppedTogether ==
  guard.stopping => agents # "running" \/ {"hasty", "echo"} \cap raced # {}

\* The monitor has given the guard up and is about to end the conductor.
Ending == monitor = "unguarded" \/ (monitor = "watch" /\ flag.term)

\* Two suspensions do not overlap: an acknowledgement is only in the pipe while
\* the monitor waits for exactly it, so none left over from one suspension is
\* taken for the answer of the next.  One that comes too late finds a conductor
\* that will not suspend again.
AcksMatch ==
  /\ ack = "armed" => monitor = "arming" \/ Ending
  /\ ack \in {"stopped", "cancelled"} => monitor = "stopping"

Freed == tactus = "gone" \/ (tactus = "running" /\ agents # "stopped")

\* The test a_continue_racing_with_suspend_cannot_strand_the_tree: it does when the
\* guard, alive, forgets the continue.
ContinueIsFinal ==
  <>[](wants = "run") => <>[](Freed \/ ~guard.alive \/ {"echo", "merged"} \cap raced # {})

\* A continue that races a stop strands nothing: when it is the user's last word,
\* the conductor comes to run for good, and so does every agent it has -- unless
\* the guard forgot it or is dead, the conductor took it for a probe's, or it was
\* spent on the stop before the last.
StaysReleased ==
  <>[](wants = "run")
    => <>[](Freed \/ ~guard.alive \/ {"dropped", "echo", "merged"} \cap raced # {})

\* The test termination_racing_with_suspend_still_kills_the_tree: not when the
\* conductor stops itself again for a probe after the guard has let go.
TerminationIsFinal == asked ~> tactus = "gone" \/ wants = "hold" \/ ~guard.alive

\* A termination wins over a suspension at any stage of it, wherever it was
\* sent, and nobody has to continue the conductor for it -- unless it is held by
\* a SIGSTOP of the user's own or by its own of a probe come late, or the guard
\* that would wake it is dead.
TerminationWins ==
  asked ~> tactus = "gone" \/ wants = "hold" \/ ~guard.alive \/ "echo" \in raced

\* A conductor that stays stopped does not leave an agent running, even if
\* nothing announced the stop -- unless it comes before reaper and monitor are done
\* with the last one, or is the conductor's own of a late probe.
AgentsFollow ==
  [](tactus = "stopped" =>
       <>(tactus # "stopped" \/ agents # "running" \/ {"hasty", "echo"} \cap raced # {}))

\* The test uncatchable_sigstop_covers_the_isolated_tree: not of a stop that finds
\* the reaper in its mirror of the last one, the agents continued.
SigstopCovers ==
  [](tactus = "stopped" => <>(tactus # "stopped" \/ agents # "running" \/ "echo" \in raced))

\* A suspension is of conductor and agents as one, and of one suspension at a
\* time: no agent runs in it and no acknowledgement of another ends it.
SuspendedAsOne == TypeOK /\ StoppedTogether /\ AcksMatch

\* Conductor and agents end up as the user's last command wants them, running
\* together or stopped together.
AgentsKeepStep == StaysReleased /\ AgentsFollow
==============================================================================
