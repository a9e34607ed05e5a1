-------------------------- MODULE JobControlProofs --------------------------
(* That conductor and agents are suspended as one: for any number of commands  *)
(* of the user's and any number of polls the reaper wants to see before it     *)
(* believes in a resume, in whatever order handlers, monitor, guard, probe     *)
(* helper, reaper and user act, with a guard that may die at any point.        *)
EXTENDS JobControl, TLAPS

(* ------------------------------ the invariant ---------------------------- *)

Cmds == {"arm", "stop", "disarm", "wake"}

ConductorTypes ==
  /\ tactus \in {"running", "stopped", "gone"}
  /\ inbox \in [cont : {"none", "user", "probe"}, term : BOOLEAN]
  /\ flag \in [term : BOOLEAN, suspend : BOOLEAN, cont : BOOLEAN, armed : BOOLEAN]
  /\ relay \in {"none", "look", "write"} /\ restop \in BOOLEAN

MonitorTypes ==
  /\ monitor \in {"watch", "settling", "arming", "termination?", "continue?", "stopping",
                  "unguarded"}
  /\ state \in [suspending : BOOLEAN, spawning : BOOLEAN]
  /\ monitor \notin {"watch", "unguarded"} <=> state.suspending
  /\ agents \in {"none", "running", "stopped"}

GuardRecord == [armed : BOOLEAN, stopping : BOOLEAN, wake : BOOLEAN, alive : BOOLEAN]

GuardTypes ==
  /\ guard \in GuardRecord
  /\ ack \in {"none", "armed", "stopped", "cancelled"}
  /\ commands \in Seq(Cmds) /\ wakePipe \in BOOLEAN /\ probe \in BOOLEAN

Counts == [mirrored : BOOLEAN, polls : 0 .. StablePolls, seen : BOOLEAN,
           pulse : 0 .. StablePolls]

ReaperTypes == reaper \in Counts /\ raced \subseteq Races

Types == ConductorTypes /\ MonitorTypes /\ GuardTypes /\ ReaperTypes

In(cmd, pipe) == \E i \in 1 .. Len(pipe) : pipe[i] = cmd

(* Of the monitor's commands two are in the pipe at once only if an arm follows*)
(* the disarm of the suspension before; the handlers' wakes are anywhere.      *)
InOrder(pipe) ==
  \A i, j \in 1 .. Len(pipe) :
    i < j /\ pipe[i] # "wake" /\ pipe[j] # "wake" => pipe[i] = "disarm" /\ pipe[j] = "arm"

(* A command that a living guard will read.                                    *)
Sent(cmd) == guard.alive /\ In(cmd, commands)

(* Monitor and guard are in step: which commands may be on their way follows   *)
(* from what the monitor waits for, and while one of them is, or while the guard*)
(* holds the conductor stopped, nothing is acknowledged.  An arm the monitor has*)
(* given up waiting for is the last command there is.                          *)
Protocol ==
  /\ guard.alive => InOrder(commands)
  /\ Sent("arm") => (monitor = "arming" \/ Ending) /\ ack = "none"
  /\ Sent("disarm") => monitor \in {"watch", "settling", "arming", "unguarded"} /\ ack = "none"
  /\ Sent("stop") => monitor = "stopping" /\ ack = "none"
  /\ guard.stopping => guard.alive /\ monitor = "stopping" /\ ack = "none" /\ ~Sent("stop")
  /\ AcksMatch

(* A reaper that has seen the stop since the conductor last ran counts no poll *)
(* of a running one.                                                           *)
Looked == reaper.seen => tactus = "stopped" /\ reaper.polls = 0

IInv == Types /\ Protocol /\ Looked

(* From begin_suspend until the guard acts on its stop the conductor runs and  *)
(* the reaper mirrors nothing.                                                 *)
Calm ==
  monitor \in {"settling", "arming", "termination?", "continue?"} \/ Sent("stop")
    => ~reaper.mirrored /\ tactus # "stopped"

(* The groups are stopped from before the guard is armed until it lets go.     *)
Held ==
  monitor \in {"arming", "termination?", "continue?"} \/ Sent("stop") \/ guard.stopping
    => agents # "running"

(* While the conductor is held stopped the reaper has not counted more polls   *)
(* towards a resume than it had time for in this pulse.                        *)
Pulsed == guard.stopping /\ reaper.mirrored => reaper.polls <= reaper.pulse

(* The two races that part conductor and agents.                               *)
Parting == {"hasty", "echo"} \cap raced # {}

Together == Parting \/ (Calm /\ Held /\ Pulsed)

JInv == IInv /\ Together

(* ----------------------------- the command pipe ------------------------- *)

(* A pipe nobody has written to.                                               *)
LEMMA EmptyPipe == <<>> \in Seq(Cmds) /\ InOrder(<<>>) /\ \A x : ~In(x, <<>>)
  BY DEF InOrder, In

(* A command is written to the pipe.                                           *)
LEMMA Written ==
  ASSUME NEW pipe \in Seq(Cmds), NEW cmd \in Cmds
  PROVE  /\ Append(pipe, cmd) \in Seq(Cmds)
         /\ \A x : In(x, Append(pipe, cmd)) <=> In(x, pipe) \/ x = cmd
         /\ InOrder(pipe) /\ cmd = "wake" => InOrder(Append(pipe, cmd))
         /\ InOrder(pipe) /\ cmd = "arm" /\ ~In("arm", pipe) /\ ~In("stop", pipe)
              => InOrder(Append(pipe, cmd))
         /\ InOrder(pipe) /\ ~In("arm", pipe) /\ ~In("stop", pipe) /\ ~In("disarm", pipe)
              => InOrder(Append(pipe, cmd))
<1> DEFINE longer == Append(pipe, cmd)
<1>1. /\ longer \in Seq(Cmds) /\ Len(longer) = Len(pipe) + 1 /\ Len(pipe) \in Nat
      /\ \A i \in 1 .. Len(pipe) : longer[i] = pipe[i]
      /\ longer[Len(pipe) + 1] = cmd
  OBVIOUS
<1> HIDE DEF longer
<1>2. \A i \in 1 .. Len(longer) :
        (i \in 1 .. Len(pipe) /\ longer[i] = pipe[i]) \/ (i = Len(longer) /\ longer[i] = cmd)
  BY <1>1
<1>3. \A i \in 1 .. Len(pipe) : i \in 1 .. Len(longer) /\ longer[i] = pipe[i]
  BY <1>1
<1>4. \A x : In(x, longer) <=> In(x, pipe) \/ x = cmd
  <2>1. Len(longer) \in 1 .. Len(longer) /\ longer[Len(longer)] = cmd
    BY <1>1
  <2> QED
    BY <1>2, <1>3, <2>1 DEF In
<1>5. \A i \in 1 .. Len(pipe) : pipe[i] \in Cmds
  OBVIOUS
<1>6. ASSUME InOrder(pipe),
             \A i \in 1 .. Len(pipe) :
               pipe[i] # "wake" /\ cmd # "wake" => pipe[i] = "disarm" /\ cmd = "arm"
      PROVE  InOrder(longer)
  <2> SUFFICES ASSUME NEW i \in 1 .. Len(longer), NEW j \in 1 .. Len(longer), i < j,
                      longer[i] # "wake", longer[j] # "wake"
               PROVE  longer[i] = "disarm" /\ longer[j] = "arm"
    BY DEF InOrder
  <2>1. i \in 1 .. Len(pipe) /\ longer[i] = pipe[i]
    BY <1>1, <1>3
  <2>2. CASE j \in 1 .. Len(pipe)
    BY <1>3, <1>6, <2>1, <2>2 DEF InOrder
  <2>3. CASE j \notin 1 .. Len(pipe)
    BY <1>2, <1>6, <2>1, <2>3
  <2> QED
    BY <2>2, <2>3
<1>7. ASSUME ~In("arm", pipe), ~In("stop", pipe), NEW i \in 1 .. Len(pipe), pipe[i] # "wake"
      PROVE  pipe[i] = "disarm" /\ In("disarm", pipe)
  BY <1>5, <1>7 DEF In, Cmds
<1> QED
  BY <1>1, <1>4, <1>6, <1>7 DEF longer

(* A command is taken from it.                                                 *)
LEMMA Taken ==
  ASSUME NEW pipe \in Seq(Cmds), pipe # <<>>
  PROVE  /\ Tail(pipe) \in Seq(Cmds) /\ Head(pipe) \in Cmds /\ In(Head(pipe), pipe)
         /\ \A x : In(x, Tail(pipe)) => In(x, pipe)
         /\ InOrder(pipe) => InOrder(Tail(pipe))
         /\ InOrder(pipe) /\ Head(pipe) # "wake"
              => \A x : x # "wake" /\ In(x, Tail(pipe)) => Head(pipe) = "disarm" /\ x = "arm"
<1> DEFINE rest == Tail(pipe)
<1>1. /\ rest \in Seq(Cmds) /\ Len(rest) = Len(pipe) - 1 /\ Len(pipe) \in Nat \ {0}
      /\ \A i \in 1 .. Len(rest) : rest[i] = pipe[i + 1]
      /\ Head(pipe) = pipe[1] /\ Head(pipe) \in Cmds
  OBVIOUS
<1> HIDE DEF rest
<1>2. 1 \in 1 .. Len(pipe)
  BY <1>1
<1>3. \A i \in 1 .. Len(rest) : i + 1 \in 1 .. Len(pipe) /\ 1 < i + 1 /\ rest[i] = pipe[i + 1]
  BY <1>1
<1>4. \A i, j \in 1 .. Len(rest) : i < j => i + 1 < j + 1
  OBVIOUS
<1>5. In(Head(pipe), pipe)
  BY <1>1, <1>2 DEF In
<1>6. \A x : In(x, rest) => In(x, pipe)
  BY <1>3 DEF In
<1>7. InOrder(pipe) => InOrder(rest)
  BY <1>3, <1>4 DEF InOrder
<1>8. ASSUME InOrder(pipe), Head(pipe) # "wake", NEW x, x # "wake", In(x, rest)
      PROVE  Head(pipe) = "disarm" /\ x = "arm"
  <2>1. PICK i \in 1 .. Len(rest) : rest[i] = x
    BY <1>8 DEF In
  <2> QED
    BY <1>1, <1>2, <1>3, <1>8, <2>1 DEF InOrder
<1> QED
  BY <1>1, <1>5, <1>6, <1>7, <1>8 DEF rest

(* What the guard's record becomes.                                            *)
LEMMA NewGuard ==
  ASSUME guard \in GuardRecord
  PROVE  /\ Disarmed \in GuardRecord /\ Disarmed.alive = guard.alive /\ ~Disarmed.stopping
         /\ \A g \in {[guard EXCEPT !.armed = TRUE, !.stopping = FALSE, !.wake = FALSE]} :
              g \in GuardRecord /\ g.alive = guard.alive /\ ~g.stopping
         /\ \A g \in {[guard EXCEPT !.stopping = TRUE]} :
              g \in GuardRecord /\ g.alive = guard.alive /\ g.stopping
         /\ \A g \in {[guard EXCEPT !.wake = TRUE]} :
              g \in GuardRecord /\ g.alive = guard.alive /\ g.stopping = guard.stopping
         /\ \A g \in {[Disarmed EXCEPT !.alive = FALSE]} :
              g \in GuardRecord /\ ~g.alive /\ ~g.stopping
  BY DEF Disarmed, GuardRecord

(* What has raced stays so, and is one of the races.                           *)
LEMMA Racing ==
  ASSUME NEW race \in Races, NEW happened, Race(happened, race), raced \subseteq Races
  PROVE  /\ raced' \subseteq Races /\ (Parting => Parting')
         /\ happened /\ race \in {"hasty", "echo"} => Parting'
  BY DEF Race, Parting

(* What the reaper's record becomes.                                           *)
LEMMA NewCounts ==
  ASSUME reaper \in Counts,
         NEW m \in BOOLEAN, NEW p \in 0 .. StablePolls, NEW s \in BOOLEAN,
         NEW q \in 0 .. StablePolls
  PROVE  /\ [reaper EXCEPT !.mirrored = m, !.polls = p, !.seen = s] \in Counts
         /\ [reaper EXCEPT !.mirrored = m, !.polls = p, !.pulse = q] \in Counts
         /\ [reaper EXCEPT !.mirrored = m, !.polls = p] \in Counts
         /\ [reaper EXCEPT !.seen = s, !.pulse = q] \in Counts
<1> DEFINE S == 0 .. StablePolls
<1>1. reaper \in [mirrored : BOOLEAN, polls : S, seen : BOOLEAN, pulse : S]
  BY DEF Counts
<1>2. p \in S /\ q \in S
  OBVIOUS
<1>3. Counts = [mirrored : BOOLEAN, polls : S, seen : BOOLEAN, pulse : S]
  BY DEF Counts
<1> HIDE DEF S
<1> QED
  BY <1>1, <1>2, <1>3

(* A continue reaches the conductor: what the reaper has counted towards a     *)
(* resume goes with its pulse, or it has missed the stop before.               *)
LEMMA Resuming ==
  ASSUME NEW source, IInv, SendCont(source)
  PROVE  /\ ReaperTypes' /\ Looked' /\ (Parting => Parting')
         /\ ~Parting' /\ Pulsed /\ guard.stopping /\ reaper'.mirrored
              => reaper'.polls <= reaper'.pulse
<1> USE DEF SendCont, IInv, Types
<1>1. raced' \subseteq Races /\ (Parting => Parting') /\ (Unseen => Parting')
  BY DEF ReaperTypes, Races, Parting
<1>2. reaper' \in Counts
  <2>1. 0 \in 0 .. StablePolls /\ FALSE \in BOOLEAN
    BY JobControlConstants
  <2> QED
    BY <2>1, NewCounts DEF ReaperTypes
<1>3. /\ reaper'.mirrored = reaper.mirrored /\ reaper'.polls = reaper.polls
      /\ tactus = "stopped" => reaper'.pulse = 0 /\ ~reaper'.seen
      /\ tactus # "stopped" => reaper' = reaper /\ tactus' = tactus
  BY DEF ReaperTypes, Counts
<1>4. Looked'
  BY <1>3 DEF Looked
<1>5. ASSUME ~Parting', tactus = "stopped", guard.stopping, reaper.mirrored
      PROVE  reaper.polls = 0
  <2>1. reaper.seen
    BY <1>1, <1>5 DEF Unseen
  <2> QED
    BY <2>1 DEF Looked
<1>6. ASSUME ~Parting', Pulsed, guard.stopping, reaper'.mirrored
      PROVE  reaper'.polls <= reaper'.pulse
  <2>1. CASE tactus = "stopped"
    BY <1>3, <1>5, <1>6, <2>1
  <2>2. CASE tactus # "stopped"
    BY <1>3, <1>6, <2>2 DEF Pulsed
  <2> QED
    BY <2>1, <2>2
<1> QED
  BY <1>1, <1>2, <1>4, <1>6 DEF ReaperTypes

(* The handler of a termination.                                               *)
LEMMA HandleTermKeeps == ASSUME IInv, HandleTerm PROVE IInv'
<1> USE DEF HandleTerm, inside, outside, ghosts, Running, NoRace, IInv, Types
<1>1. ConductorTypes'
  BY DEF ConductorTypes
<1>2. MonitorTypes' /\ GuardTypes' /\ ReaperTypes'
  BY DEF MonitorTypes, GuardTypes, ReaperTypes
<1>3. Protocol'
  BY DEF Protocol, Sent, Ending, AcksMatch, ConductorTypes, MonitorTypes, GuardTypes,
     GuardRecord, Cmds
<1>4. Looked'
  BY DEF Looked, ReaperTypes, Counts
<1> QED
  BY <1>1, <1>2, <1>3, <1>4

(* The handler of a continue, the user's or the probe's.                       *)
LEMMA HandleContKeeps == ASSUME IInv, HandleCont PROVE IInv'
<1> USE DEF HandleCont, PendingSeen, inside, outside, ghosts, Running, NoRace, IInv,
   Types
<1>1. ConductorTypes'
  BY DEF ConductorTypes
<1>2. MonitorTypes' /\ GuardTypes' /\ ReaperTypes'
  BY DEF MonitorTypes, GuardTypes, ReaperTypes
<1>3. Protocol'
  BY DEF Protocol, Sent, Ending, AcksMatch, ConductorTypes, MonitorTypes, GuardTypes,
     GuardRecord, Cmds
<1>4. Looked'
  BY DEF Looked, ReaperTypes, Counts
<1> QED
  BY <1>1, <1>2, <1>3, <1>4

(* The handler of a probe stops the conductor again.                           *)
LEMMA RestopKeeps == ASSUME IInv, Restop PROVE IInv'
<1> USE DEF Restop, SendStop, inside, outside, ghosts, Running, IInv, Types
<1>1. ConductorTypes'
  BY DEF ConductorTypes
<1>2. ReaperTypes'
  <2>1. raced' \subseteq Races
    BY Racing DEF ReaperTypes, Races
  <2> QED
    BY <2>1 DEF ReaperTypes
<1>3. MonitorTypes' /\ GuardTypes'
  BY DEF MonitorTypes, GuardTypes
<1>4. Protocol'
  BY DEF Protocol, Sent, Ending, AcksMatch, ConductorTypes, MonitorTypes, GuardTypes,
     GuardRecord, Cmds
<1>5. Looked'
  BY DEF Looked, ReaperTypes, Counts
<1> QED
  BY <1>1, <1>2, <1>3, <1>4, <1>5

(* notify_guard looks whether a stop is armed.                                 *)
LEMMA LookKeeps == ASSUME IInv, Look PROVE IInv'
<1> USE DEF Look, inside, outside, ghosts, Running, NoRace, IInv, Types
<1>1. ConductorTypes'
  BY DEF ConductorTypes
<1>2. MonitorTypes' /\ GuardTypes' /\ ReaperTypes'
  BY DEF MonitorTypes, GuardTypes, ReaperTypes
<1>3. Protocol'
  BY DEF Protocol, Sent, Ending, AcksMatch, ConductorTypes, MonitorTypes, GuardTypes,
     GuardRecord, Cmds
<1>4. Looked'
  BY DEF Looked, ReaperTypes, Counts
<1> QED
  BY <1>1, <1>2, <1>3, <1>4

(* A handler tells the guard.                                                  *)
LEMMA WriteKeeps == ASSUME IInv, Write PROVE IInv'
<1> USE DEF Write, inside, ghosts, Running, NoRace, IInv, Types
<1>1. ConductorTypes'
  BY DEF ConductorTypes
<1>2. GuardTypes'
  BY Written, NewGuard DEF GuardTypes, Cmds
<1>3. MonitorTypes' /\ ReaperTypes'
  BY DEF MonitorTypes, ReaperTypes
<1>4. Protocol'
  BY Written DEF Protocol, Sent, Ending, AcksMatch, ConductorTypes, MonitorTypes,
     GuardTypes, GuardRecord, Cmds
<1>5. Looked'
  BY DEF Looked, ReaperTypes, Counts
<1> QED
  BY <1>1, <1>2, <1>3, <1>4, <1>5

(* Termination.                                                                *)
LEMMA TerminateKeeps == ASSUME IInv, Running, Terminate PROVE IInv'
<1> USE DEF Terminate, inside, outside, ghosts, Running, NoRace, IInv, Types
<1>1. ConductorTypes'
  BY DEF ConductorTypes
<1>2. MonitorTypes'
  BY DEF MonitorTypes
<1>3. GuardTypes' /\ ReaperTypes'
  BY DEF GuardTypes, ReaperTypes
<1>4. Protocol'
  BY DEF Protocol, Sent, Ending, AcksMatch, ConductorTypes, MonitorTypes, GuardTypes,
     GuardRecord, Cmds
<1>5. Looked'
  BY DEF Looked, ReaperTypes, Counts
<1> QED
  BY <1>1, <1>2, <1>3, <1>4, <1>5

(* begin_suspend.                                                              *)
LEMMA BeginSuspendKeeps == ASSUME IInv, Running, BeginSuspend PROVE IInv'
<1> USE DEF BeginSuspend, Stopped, outside, ghosts, Running, IInv, Types
<1>1. ConductorTypes'
  BY DEF ConductorTypes
<1>2. MonitorTypes'
  BY DEF MonitorTypes
<1>3. ReaperTypes'
  <2>1. raced' \subseteq Races
    BY Racing DEF ReaperTypes, Races
  <2> QED
    BY <2>1 DEF ReaperTypes
<1>4. GuardTypes'
  BY DEF GuardTypes
<1>5. Protocol'
  BY DEF Protocol, Sent, Ending, AcksMatch, ConductorTypes, MonitorTypes, GuardTypes,
     GuardRecord, Cmds
<1>6. Looked'
  BY DEF Looked, ReaperTypes, Counts
<1> QED
  BY <1>1, <1>2, <1>3, <1>4, <1>5, <1>6

(* A continue outside a suspension.                                            *)
LEMMA ForwardKeeps == ASSUME IInv, Forward PROVE IInv'
<1> USE DEF Forward, Continued, inside, outside, ghosts, NoRace, IInv, Types
<1>1. ConductorTypes'
  BY DEF ConductorTypes
<1>2. MonitorTypes'
  BY DEF MonitorTypes
<1>3. GuardTypes' /\ ReaperTypes'
  BY DEF GuardTypes, ReaperTypes
<1>4. Protocol'
  BY DEF Protocol, Sent, Ending, AcksMatch, ConductorTypes, MonitorTypes, GuardTypes,
     GuardRecord, Cmds
<1>5. Looked'
  BY DEF Looked, ReaperTypes, Counts
<1> QED
  BY <1>1, <1>2, <1>3, <1>4, <1>5

(* The groups are stopped, and the guard is to be armed.                       *)
LEMMA GroupsStoppedKeeps == ASSUME IInv, GroupsStopped PROVE IInv'
<1> USE DEF GroupsStopped, ghosts, NoRace, IInv, Types
<1>1. ConductorTypes'
  BY DEF ConductorTypes
<1>2. MonitorTypes'
  BY DEF MonitorTypes
<1>3. GuardTypes'
  BY Written, NewGuard DEF GuardTypes, Cmds
<1>4. ReaperTypes'
  BY DEF ReaperTypes
<1>5. Protocol'
  BY Written DEF Protocol, Sent, Ending, AcksMatch, ConductorTypes, MonitorTypes,
     GuardTypes, GuardRecord, Cmds
<1>6. Looked'
  BY DEF Looked, ReaperTypes, Counts
<1> QED
  BY <1>1, <1>2, <1>3, <1>4, <1>5, <1>6

(* The groups do not stop.                                                     *)
LEMMA GiveUpKeeps == ASSUME IInv, GiveUp PROVE IInv'
<1> USE DEF GiveUp, EndSuspend, Release, Continued, parent, outside, ghosts, NoRace,
   IInv, Types
<1>1. MonitorTypes'
  BY DEF MonitorTypes
<1>2. ConductorTypes' /\ GuardTypes' /\ ReaperTypes'
  BY DEF ConductorTypes, GuardTypes, ReaperTypes
<1>3. Protocol'
  BY DEF Protocol, Sent, Ending, AcksMatch, ConductorTypes, MonitorTypes, GuardTypes,
     GuardRecord, Cmds
<1>4. Looked'
  BY DEF Looked
<1> QED
  BY <1>1, <1>2, <1>3, <1>4

(* The guard is armed.                                                         *)
LEMMA ArmedKeeps == ASSUME IInv, Armed PROVE IInv'
<1> USE DEF Armed, parent, ghosts, NoRace, IInv, Types
<1>1. MonitorTypes'
  BY DEF MonitorTypes
<1>2. GuardTypes'
  BY NewGuard DEF GuardTypes
<1>3. ConductorTypes' /\ ReaperTypes'
  BY DEF ConductorTypes, ReaperTypes
<1>4. Protocol'
  BY DEF Protocol, Sent, Ending, AcksMatch, ConductorTypes, MonitorTypes, GuardTypes,
     GuardRecord, Cmds
<1>5. Looked'
  BY DEF Looked
<1> QED
  BY <1>1, <1>2, <1>3, <1>4, <1>5

(* No acknowledgement of the arm.                                              *)
LEMMA ArmFailsKeeps == ASSUME IInv, ArmFails PROVE IInv'
<1> USE DEF ArmFails, outside, ghosts, NoRace, IInv, Types
<1>1. ConductorTypes'
  BY DEF ConductorTypes
<1>2. MonitorTypes'
  BY DEF MonitorTypes
<1>3. GuardTypes' /\ ReaperTypes'
  BY DEF GuardTypes, ReaperTypes
<1>4. Protocol'
  BY DEF Protocol, Sent, Ending, AcksMatch, ConductorTypes, MonitorTypes, GuardTypes,
     GuardRecord, Cmds
<1>5. Looked'
  BY DEF Looked, ReaperTypes, Counts
<1> QED
  BY <1>1, <1>2, <1>3, <1>4, <1>5

(* Without a guard the monitor asks for its own termination.                   *)
LEMMA UnguardedKeeps == ASSUME IInv, Unguarded PROVE IInv'
<1> USE DEF Unguarded, outside, ghosts, NoRace, IInv, Types
<1>1. ConductorTypes'
  BY DEF ConductorTypes
<1>2. MonitorTypes'
  BY DEF MonitorTypes
<1>3. GuardTypes' /\ ReaperTypes'
  BY DEF GuardTypes, ReaperTypes
<1>4. Protocol'
  BY DEF Protocol, Sent, Ending, AcksMatch, ConductorTypes, MonitorTypes, GuardTypes,
     GuardRecord, Cmds
<1>5. Looked'
  BY DEF Looked, ReaperTypes, Counts
<1> QED
  BY <1>1, <1>2, <1>3, <1>4, <1>5

(* A termination calls the stop off.                                           *)
LEMMA LookForTerminationKeeps == ASSUME IInv, LookForTermination PROVE IInv'
<1> USE DEF LookForTermination, Disarm, EndSuspend, ghosts, NoRace, IInv, Types
<1>1. ConductorTypes'
  BY DEF ConductorTypes
<1>2. MonitorTypes'
  BY DEF MonitorTypes
<1>3. GuardTypes'
  BY Written, NewGuard DEF GuardTypes, Cmds
<1>4. ReaperTypes'
  BY DEF ReaperTypes
<1>5. Protocol'
  <2>1. /\ ack = "none" /\ ~guard.stopping /\ (guard.alive => InOrder(commands))
        /\ ~Sent("arm") /\ ~Sent("stop") /\ ~Sent("disarm")
    BY DEF Protocol, AcksMatch, Ending, GuardTypes
  <2>2. CASE flag.term
    <3>1. /\ commands' = Append(commands, "disarm") /\ monitor' = "watch"
          /\ ack' = ack /\ guard' = guard
      BY <2>2
    <3>2. commands \in Seq(Cmds) /\ "disarm" \in Cmds
      BY DEF GuardTypes, Cmds
    <3>3. /\ guard.alive => InOrder(commands')
          /\ \A x : In(x, commands') <=> In(x, commands) \/ x = "disarm"
      BY <2>1, <3>1, <3>2, Written DEF Sent
    <3> QED
      BY <2>1, <3>1, <3>3 DEF Protocol, Sent, AcksMatch
  <2>3. CASE ~flag.term
    BY <2>1, <2>3 DEF Protocol, Sent, AcksMatch
  <2> QED
    BY <2>2, <2>3
<1>6. Looked'
  BY DEF Looked, ReaperTypes, Counts
<1> QED
  BY <1>1, <1>2, <1>3, <1>4, <1>5, <1>6

(* A continue calls the stop off, or the guard is to stop the conductor.       *)
LEMMA LookForContinueKeeps == ASSUME IInv, LookForContinue PROVE IInv'
<1> USE DEF LookForContinue, LateContinue, Disarm, EndSuspend, Continued, ghosts,
   IInv, Types
<1>1. ConductorTypes'
  BY DEF ConductorTypes
<1>2. MonitorTypes'
  BY DEF MonitorTypes
<1>3. GuardTypes'
  BY Written, NewGuard DEF GuardTypes, Cmds
<1>4. ReaperTypes'
  BY Racing DEF ReaperTypes, Races
<1>5. Protocol'
  <2>1. /\ ack = "none" /\ ~guard.stopping /\ (guard.alive => InOrder(commands))
        /\ ~Sent("arm") /\ ~Sent("stop") /\ ~Sent("disarm")
    BY DEF Protocol, AcksMatch, Ending, GuardTypes
  <2>2. CASE LateContinue
    <3>1. /\ commands' = Append(commands, "disarm") /\ monitor' = "watch"
          /\ ack' = ack /\ guard' = guard
      BY <2>2
    <3>2. commands \in Seq(Cmds) /\ "disarm" \in Cmds
      BY DEF GuardTypes, Cmds
    <3>3. /\ guard.alive => InOrder(commands')
          /\ \A x : In(x, commands') <=> In(x, commands) \/ x = "disarm"
      BY <2>1, <3>1, <3>2, Written DEF Sent
    <3> QED
      BY <2>1, <3>1, <3>3 DEF Protocol, Sent, AcksMatch
  <2>3. CASE ~LateContinue
    <3>1. /\ commands' = Append(commands, "stop") /\ monitor' = "stopping"
          /\ ack' = ack /\ guard' = guard
      BY <2>3
    <3>2. commands \in Seq(Cmds) /\ "stop" \in Cmds
      BY DEF GuardTypes, Cmds
    <3>3. /\ guard.alive => InOrder(commands')
          /\ \A x : In(x, commands') <=> In(x, commands) \/ x = "stop"
      BY <2>1, <3>1, <3>2, Written DEF Sent
    <3> QED
      BY <2>1, <3>1, <3>3 DEF Protocol, Sent, AcksMatch
  <2> QED
    BY <2>2, <2>3
<1>6. Looked'
  BY DEF Looked, ReaperTypes, Counts
<1> QED
  BY <1>1, <1>2, <1>3, <1>4, <1>5, <1>6

(* stop_parent returns.                                                        *)
LEMMA ResumedKeeps == ASSUME IInv, Resumed PROVE IInv'
<1> USE DEF Resumed, Disarm, EndSuspend, Release, Continued, ghosts, IInv,
   Types
<1>1. ConductorTypes'
  BY DEF ConductorTypes
<1>2. MonitorTypes'
  BY DEF MonitorTypes
<1>3. GuardTypes'
  BY Written, NewGuard DEF GuardTypes, Cmds
<1>4. ReaperTypes'
  BY Racing DEF ReaperTypes, Races
<1>5. Protocol'
  BY Written DEF Protocol, Sent, Ending, AcksMatch, ConductorTypes, MonitorTypes,
     GuardTypes, GuardRecord, Cmds
<1>6. Looked'
  BY DEF Looked, ReaperTypes, Counts
<1> QED
  BY <1>1, <1>2, <1>3, <1>4, <1>5, <1>6

(* stop_parent finds the guard gone.                                           *)
LEMMA NobodyAnswersKeeps == ASSUME IInv, NobodyAnswers PROVE IInv'
<1> USE DEF NobodyAnswers, ghosts, NoRace, IInv, Types
<1>1. ConductorTypes'
  BY DEF ConductorTypes
<1>2. MonitorTypes'
  BY DEF MonitorTypes
<1>3. GuardTypes'
  BY Written, NewGuard DEF GuardTypes, Cmds
<1>4. ReaperTypes'
  BY DEF ReaperTypes
<1>5. Protocol'
  BY Written DEF Protocol, Sent, Ending, AcksMatch, ConductorTypes, MonitorTypes,
     GuardTypes, GuardRecord, Cmds
<1>6. Looked'
  BY DEF Looked, ReaperTypes, Counts
<1> QED
  BY <1>1, <1>2, <1>3, <1>4, <1>5, <1>6

(* claim_launch.                                                               *)
LEMMA LaunchKeeps == ASSUME IInv, Launch PROVE IInv'
<1> USE DEF Launch, MayLaunch, parent, outside, ghosts, Running, NoRace, IInv, Types
<1>1. MonitorTypes'
  BY DEF MonitorTypes
<1>2. ReaperTypes'
  <2>1. 0 \in 0 .. StablePolls /\ FALSE \in BOOLEAN
    BY JobControlConstants
  <2> QED
    BY <2>1, NewCounts DEF ReaperTypes
<1>3. ConductorTypes' /\ GuardTypes'
  BY DEF ConductorTypes, GuardTypes
<1>4. Protocol'
  BY DEF Protocol, Sent, Ending, AcksMatch, ConductorTypes, MonitorTypes, GuardTypes,
     GuardRecord, Cmds
<1>5. Looked'
  BY DEF Looked, ReaperTypes, Counts
<1> QED
  BY <1>1, <1>2, <1>3, <1>4, <1>5

(* The launch is over.                                                         *)
LEMMA RegisterKeeps == ASSUME IInv, Register PROVE IInv'
<1> USE DEF Register, parent, outside, ghosts, Running, NoRace, IInv, Types
<1>1. MonitorTypes'
  BY DEF MonitorTypes
<1>2. ConductorTypes' /\ GuardTypes' /\ ReaperTypes'
  BY DEF ConductorTypes, GuardTypes, ReaperTypes
<1>3. Protocol'
  BY DEF Protocol, Sent, Ending, AcksMatch, ConductorTypes, MonitorTypes, GuardTypes,
     GuardRecord, Cmds
<1>4. Looked'
  BY DEF Looked
<1> QED
  BY <1>1, <1>2, <1>3, <1>4

(* An agent is over.                                                           *)
LEMMA OverKeeps == ASSUME IInv, Over PROVE IInv'
<1> USE DEF Over, parent, inside, outside, ghosts, Running, NoRace, IInv, Types
<1>1. MonitorTypes'
  BY DEF MonitorTypes
<1>2. ConductorTypes' /\ GuardTypes' /\ ReaperTypes'
  BY DEF ConductorTypes, GuardTypes, ReaperTypes
<1>3. Protocol'
  BY DEF Protocol, Sent, Ending, AcksMatch, ConductorTypes, MonitorTypes, GuardTypes,
     GuardRecord, Cmds
<1>4. Looked'
  BY DEF Looked
<1> QED
  BY <1>1, <1>2, <1>3, <1>4

(* One command of the guard's.                                                 *)
LEMMA CommandKeeps == ASSUME IInv, guard.alive, Command PROVE IInv'
<1> USE DEF Command, Wakeful, SendStop, Dropped, inside, ghosts, NoRace, IInv, Types
<1>1. ConductorTypes'
  BY DEF ConductorTypes
<1>2. GuardTypes'
  <2>1. commands' \in Seq(Cmds)
    BY Taken DEF GuardTypes
  <2>2. guard' \in GuardRecord
    BY Zenon, NewGuard DEF GuardTypes
  <2>3. ack' \in {"none", "armed", "stopped", "cancelled"}
    BY DEF GuardTypes
  <2>4. wakePipe' \in BOOLEAN /\ probe' \in BOOLEAN
    BY DEF GuardTypes
  <2> QED
    BY <2>1, <2>2, <2>3, <2>4 DEF GuardTypes
<1>3. ReaperTypes'
  <2>1. raced' \subseteq Races
    BY Racing DEF ReaperTypes, Races
  <2> QED
    BY <2>1 DEF ReaperTypes
<1>4. MonitorTypes'
  BY DEF MonitorTypes
<1>5. Protocol'
  <2>1. /\ Head(commands) \in Cmds /\ In(Head(commands), commands)
        /\ \A x : In(x, commands') => In(x, commands)
        /\ InOrder(commands) => InOrder(commands')
    BY Taken DEF GuardTypes
  <2>2. InOrder(commands) /\ Head(commands) # "wake" =>
          \A x : x # "wake" /\ In(x, commands') => Head(commands) = "disarm" /\ x = "arm"
    BY Taken DEF GuardTypes
  <2>3. /\ guard'.alive = guard.alive
        /\ guard'.stopping => guard.stopping \/ Head(commands) = "stop"
    BY NewGuard DEF GuardTypes
  <2>4. /\ guard.alive
        /\ Head(commands) \in {"arm", "stop", "disarm"} => ack = "none" /\ ~guard.stopping
        /\ Head(commands) = "arm" => monitor = "arming" \/ Ending
        /\ Head(commands) = "stop" => monitor = "stopping"
    BY <2>1 DEF Protocol, Sent, Ending
  <2>5. CASE Head(commands) = "arm"
    BY <2>1, <2>2, <2>3, <2>4, <2>5 DEF Protocol, Sent, Ending, AcksMatch
  <2>6. CASE Head(commands) = "stop"
    <3>1. ack' = ack \/ (ack' = "cancelled" /\ ~guard'.stopping)
      BY <2>6, NewGuard DEF GuardTypes
    <3> QED
      BY <2>1, <2>2, <2>3, <2>4, <2>6, <3>1 DEF Protocol, Sent, Ending, AcksMatch
  <2>7. CASE Head(commands) = "disarm"
    BY <2>1, <2>2, <2>3, <2>4, <2>7 DEF Protocol, Sent, Ending, AcksMatch
  <2>8. CASE Head(commands) = "wake"
    BY <2>1, <2>3, <2>4, <2>8 DEF Protocol, Sent, Ending, AcksMatch
  <2> QED
    BY <2>1, <2>5, <2>6, <2>7, <2>8 DEF Cmds
<1>6. Looked'
  BY DEF Looked, ReaperTypes, Counts
<1> QED
  BY <1>1, <1>2, <1>3, <1>4, <1>5, <1>6

(* The guard's own record of a signal.                                         *)
LEMMA NoticedKeeps == ASSUME IInv, Noticed PROVE IInv'
<1> USE DEF Noticed, parent, inside, ghosts, NoRace, IInv, Types
<1>1. GuardTypes'
  BY NewGuard DEF GuardTypes
<1>2. ConductorTypes' /\ MonitorTypes' /\ ReaperTypes'
  BY DEF ConductorTypes, MonitorTypes, ReaperTypes
<1>3. Protocol'
  BY DEF Protocol, Sent, Ending, AcksMatch, ConductorTypes, MonitorTypes, GuardTypes,
     GuardRecord, Cmds
<1>4. Looked'
  BY DEF Looked
<1> QED
  BY <1>1, <1>2, <1>3, <1>4

(* The guard lets the conductor go.                                            *)
LEMMA WakeParentKeeps == ASSUME IInv, WakeParent PROVE IInv'
<1> USE DEF WakeParent, SendCont, inside, ghosts, IInv, Types
<1>1. ConductorTypes'
  BY DEF ConductorTypes
<1>2. GuardTypes'
  BY NewGuard DEF GuardTypes
<1>3. ReaperTypes'
  BY Resuming
<1>4. MonitorTypes'
  BY DEF MonitorTypes
<1>5. Protocol'
  <2>1. ~guard'.stopping /\ guard'.alive = guard.alive
    BY NewGuard DEF GuardTypes
  <2> QED
    BY <2>1 DEF Protocol, Sent, Ending, AcksMatch
<1>6. Looked'
  BY Resuming
<1> QED
  BY <1>1, <1>2, <1>3, <1>4, <1>5, <1>6

(* The guard is killed.                                                        *)
LEMMA GuardDiesKeeps == ASSUME IInv, GuardDies PROVE IInv'
<1> USE DEF GuardDies, parent, inside, ghosts, NoRace, IInv, Types
<1>1. GuardTypes'
  BY NewGuard DEF GuardTypes
<1>2. ConductorTypes' /\ MonitorTypes' /\ ReaperTypes'
  BY DEF ConductorTypes, MonitorTypes, ReaperTypes
<1>3. Protocol'
  <2>1. ~guard'.stopping /\ ~guard'.alive
    BY NewGuard DEF GuardTypes
  <2> QED
    BY <2>1 DEF Protocol, Sent, Ending, AcksMatch
<1>4. Looked'
  BY DEF Looked
<1> QED
  BY <1>1, <1>2, <1>3, <1>4

(* 250 ms without a sign.                                                      *)
LEMMA TickKeeps == ASSUME IInv, Tick PROVE IInv'
<1> USE DEF Tick, parent, inside, ghosts, NoRace, IInv, Types
<1>1. GuardTypes'
  BY NewGuard DEF GuardTypes
<1>2. ConductorTypes' /\ MonitorTypes' /\ ReaperTypes'
  BY DEF ConductorTypes, MonitorTypes, ReaperTypes
<1>3. Protocol'
  BY DEF Protocol, Sent, Ending, AcksMatch, ConductorTypes, MonitorTypes, GuardTypes,
     GuardRecord, Cmds
<1>4. Looked'
  BY DEF Looked
<1> QED
  BY <1>1, <1>2, <1>3, <1>4

(* The probe helper.                                                           *)
LEMMA ProbeKeeps == ASSUME IInv, Probe PROVE IInv'
<1> USE DEF Probe, SendCont, inside, ghosts, IInv, Types
<1>1. ConductorTypes'
  BY DEF ConductorTypes
<1>2. GuardTypes'
  BY NewGuard DEF GuardTypes
<1>3. ReaperTypes'
  BY Resuming
<1>4. MonitorTypes'
  BY DEF MonitorTypes
<1>5. Protocol'
  BY DEF Protocol, Sent, Ending, AcksMatch, ConductorTypes, MonitorTypes, GuardTypes,
     GuardRecord, Cmds
<1>6. Looked'
  BY Resuming
<1> QED
  BY <1>1, <1>2, <1>3, <1>4, <1>5, <1>6

(* A pass of reaper_loop.                                                      *)
LEMMA ReaperPollKeeps == ASSUME IInv, ReaperPoll PROVE IInv'
<1> USE DEF ReaperPoll, InPulse, MirrorStop, Stopped, Continued, AfterStoppedPoll,
   parent, inside, outside, ghosts, Running, NoRace, IInv, Types
<1>1. MonitorTypes'
  BY DEF MonitorTypes
<1>2. ReaperTypes'
  <2>1. /\ reaper.mirrored \in BOOLEAN /\ reaper.seen \in BOOLEAN
        /\ reaper.polls \in 0 .. StablePolls /\ reaper.pulse \in 0 .. StablePolls
    BY DEF ReaperTypes, Counts
  <2>2. 0 \in 0 .. StablePolls /\ StablePolls \in Nat
    BY JobControlConstants
  <2>3. CASE tactus = "stopped"
    BY <2>1, <2>2, <2>3, NewCounts DEF ReaperTypes
  <2>4. CASE tactus # "stopped"
    <3> DEFINE stable == reaper.mirrored /\ reaper.polls + 1 >= StablePolls
               polls == IF reaper.mirrored /\ ~stable THEN reaper.polls + 1 ELSE 0
               pulse == IF InPulse THEN reaper.pulse + 1 ELSE reaper.pulse
    <3>1. polls \in 0 .. StablePolls
      BY <2>1, <2>2
    <3>2. InPulse => reaper.pulse < StablePolls - 1
      BY Zenon
    <3>3. pulse \in 0 .. StablePolls
      BY <2>1, <2>2, <3>2
    <3>4. reaper' = [reaper EXCEPT !.mirrored = reaper.mirrored /\ ~stable, !.polls = polls,
                                   !.pulse = pulse]
      BY <2>4
    <3> HIDE DEF polls, pulse
    <3>5. (reaper.mirrored /\ ~stable) \in BOOLEAN
      OBVIOUS
    <3> HIDE DEF stable
    <3> QED
      BY <2>1, <3>1, <3>3, <3>4, <3>5, NewCounts DEF ReaperTypes
  <2> QED
    BY <2>3, <2>4
<1>3. ConductorTypes' /\ GuardTypes'
  BY DEF ConductorTypes, GuardTypes
<1>4. Protocol'
  BY DEF Protocol, Sent, Ending, AcksMatch, ConductorTypes, MonitorTypes, GuardTypes,
     GuardRecord, Cmds
<1>5. Looked'
  BY DEF Looked, ReaperTypes, Counts
<1> QED
  BY <1>1, <1>2, <1>3, <1>4, <1>5

(* The user's stop.                                                            *)
LEMMA SuspendKeeps == ASSUME IInv, Suspend PROVE IInv'
<1> USE DEF Suspend, inside, outside, Running, NoRace, IInv, Types
<1>1. ConductorTypes'
  BY DEF ConductorTypes
<1>2. MonitorTypes' /\ GuardTypes' /\ ReaperTypes'
  BY DEF MonitorTypes, GuardTypes, ReaperTypes
<1>3. Protocol'
  BY DEF Protocol, Sent, Ending, AcksMatch, ConductorTypes, MonitorTypes, GuardTypes,
     GuardRecord, Cmds
<1>4. Looked'
  BY DEF Looked, ReaperTypes, Counts
<1> QED
  BY <1>1, <1>2, <1>3, <1>4

(* A SIGSTOP to the conductor alone.                                           *)
LEMMA StopAloneKeeps == ASSUME IInv, StopAlone PROVE IInv'
<1> USE DEF StopAlone, SendStop, inside, outside, Running, IInv, Types
<1>1. ConductorTypes'
  BY DEF ConductorTypes
<1>2. ReaperTypes'
  <2>1. raced' \subseteq Races
    BY Racing DEF ReaperTypes, Races
  <2> QED
    BY <2>1 DEF ReaperTypes
<1>3. MonitorTypes' /\ GuardTypes'
  BY DEF MonitorTypes, GuardTypes
<1>4. Protocol'
  BY DEF Protocol, Sent, Ending, AcksMatch, ConductorTypes, MonitorTypes, GuardTypes,
     GuardRecord, Cmds
<1>5. Looked'
  BY DEF Looked, ReaperTypes, Counts
<1> QED
  BY <1>1, <1>2, <1>3, <1>4, <1>5

(* The user's continue.                                                        *)
LEMMA ContinueKeeps == ASSUME IInv, Continue PROVE IInv'
<1> USE DEF Continue, SendCont, inside, IInv, Types
<1>1. ConductorTypes'
  BY DEF ConductorTypes
<1>2. GuardTypes'
  BY DEF GuardTypes, GuardRecord
<1>3. ReaperTypes'
  BY Resuming
<1>4. MonitorTypes'
  BY DEF MonitorTypes
<1>5. Protocol'
  BY DEF Protocol, Sent, Ending, AcksMatch, ConductorTypes, MonitorTypes, GuardTypes,
     GuardRecord, Cmds
<1>6. Looked'
  BY Resuming
<1> QED
  BY <1>1, <1>2, <1>3, <1>4, <1>5, <1>6

(* SIGTERM.                                                                    *)
LEMMA AskTerminationKeeps == ASSUME IInv, AskTermination PROVE IInv'
<1> USE DEF AskTermination, inside, NoRace, IInv, Types
<1>1. ConductorTypes'
  BY DEF ConductorTypes
<1>2. GuardTypes'
  BY DEF GuardTypes, GuardRecord
<1>3. MonitorTypes' /\ ReaperTypes'
  BY DEF MonitorTypes, ReaperTypes
<1>4. Protocol'
  BY DEF Protocol, Sent, Ending, AcksMatch, ConductorTypes, MonitorTypes, GuardTypes,
     GuardRecord, Cmds
<1>5. Looked'
  BY DEF Looked, ReaperTypes, Counts
<1> QED
  BY <1>1, <1>2, <1>3, <1>4, <1>5

(* Nothing is suspended, asked or in a pipe to begin with.                     *)
LEMMA IInvInit == Init => IInv
<1> SUFFICES ASSUME Init PROVE IInv
  OBVIOUS
<1> USE DEF Init
<1>1. ConductorTypes /\ MonitorTypes
  BY DEF ConductorTypes, MonitorTypes
<1>2. GuardTypes
  BY EmptyPipe DEF GuardTypes, GuardRecord
<1>3. ReaperTypes /\ Looked
  BY JobControlConstants DEF ReaperTypes, Counts, Looked
<1>4. Protocol
  BY EmptyPipe DEF Protocol, Sent, AcksMatch
<1> QED
  BY <1>1, <1>2, <1>3, <1>4 DEF IInv, Types

(* Every step keeps monitor and guard in step.                                 *)
LEMMA IInvNext == IInv /\ [Next]_vars => IInv'
<1> SUFFICES ASSUME IInv, [Next]_vars PROVE IInv'
  OBVIOUS
<1>1. CASE Handlers
  BY <1>1, HandleTermKeeps, HandleContKeeps, RestopKeeps, LookKeeps, WriteKeeps DEF Handlers
<1>2. CASE Monitor
  BY <1>2, TerminateKeeps, BeginSuspendKeeps, ForwardKeeps, GroupsStoppedKeeps, GiveUpKeeps,
     ArmedKeeps, ArmFailsKeeps, LookForTerminationKeeps, LookForContinueKeeps, ResumedKeeps,
     NobodyAnswersKeeps, UnguardedKeeps
     DEF Monitor
<1>3. CASE Guard \/ GuardDies
  BY <1>3, CommandKeeps, NoticedKeeps, WakeParentKeeps, GuardDiesKeeps DEF Guard
<1>4. CASE Launch \/ Register \/ Over \/ Tick \/ ReaperPoll
  BY <1>4, LaunchKeeps, RegisterKeeps, OverKeeps, TickKeeps, ReaperPollKeeps
<1>5. CASE Suspend \/ StopAlone \/ Continue \/ AskTermination \/ Probe
  BY <1>5, SuspendKeeps, StopAloneKeeps, ContinueKeeps, AskTerminationKeeps, ProbeKeeps
<1>6. CASE UNCHANGED vars
  BY <1>6 DEF vars, parent, inside, outside, ghosts, IInv, Types, ConductorTypes,
     MonitorTypes, GuardTypes, ReaperTypes, Looked, Protocol, Sent, Ending, AcksMatch
<1> QED
  BY <1>1, <1>2, <1>3, <1>4, <1>5, <1>6 DEF Next

(* Two suspensions do not overlap: what the guard acknowledges is what the     *)
(* monitor waits for, in whatever order handlers, helpers and commands come.   *)
THEOREM AcksMatchAlways == Spec => []AcksMatch
<1>1. IInv => AcksMatch
  BY DEF IInv, Protocol
<1> QED
  BY IInvInit, IInvNext, <1>1, PTL DEF Spec

(* The state of the four processes keeps its type; in particular the monitor   *)
(* holds back launches exactly while it is suspending.                         *)
THEOREM JobTypesAlways == Spec => []TypeOK
<1>1. IInv => TypeOK
  <2> SUFFICES ASSUME IInv PROVE TypeOK
    OBVIOUS
  <2>1. /\ reaper.polls \in 0 .. StablePolls /\ reaper.pulse \in 0 .. StablePolls
        /\ raced \subseteq Races
    BY DEF IInv, Types, ReaperTypes, Counts
  <2> QED
    BY <2>1 DEF IInv, Types, TypeOK, ConductorTypes, MonitorTypes, GuardTypes, GuardRecord
<1> QED
  BY IInvInit, IInvNext, <1>1, PTL DEF Spec

(* ------------------------- suspended as one ------------------------------- *)

(* The handler of a termination.                                               *)
LEMMA HandleTermTogether == ASSUME JInv, HandleTerm PROVE Together'
<1> USE DEF HandleTerm, inside, outside, ghosts, Running, NoRace, JInv, IInv, Types
<1>1. Parting => Parting'
  BY DEF Parting
<1> SUFFICES ASSUME ~Parting', Calm, Held, Pulsed PROVE Calm' /\ Held' /\ Pulsed'
  BY <1>1 DEF Together
<1>2. Calm'
  BY DEF Calm, Sent, Protocol, MonitorTypes, ConductorTypes
<1>3. Held'
  BY DEF Held, Sent, Protocol, MonitorTypes
<1>4. Pulsed'
  BY DEF Pulsed, Protocol
<1> QED
  BY <1>2, <1>3, <1>4

(* The handler of a continue, the user's or the probe's.                       *)
LEMMA HandleContTogether == ASSUME JInv, HandleCont PROVE Together'
<1> USE DEF HandleCont, PendingSeen, inside, outside, ghosts, Running, NoRace, JInv,
   IInv, Types
<1>1. Parting => Parting'
  BY DEF Parting
<1> SUFFICES ASSUME ~Parting', Calm, Held, Pulsed PROVE Calm' /\ Held' /\ Pulsed'
  BY <1>1 DEF Together
<1>2. Calm'
  BY DEF Calm, Sent, Protocol, MonitorTypes, ConductorTypes
<1>3. Held'
  BY DEF Held, Sent, Protocol, MonitorTypes
<1>4. Pulsed'
  BY DEF Pulsed, Protocol
<1> QED
  BY <1>2, <1>3, <1>4

(* The handler of a probe stops the conductor again.                           *)
LEMMA RestopTogether == ASSUME JInv, Restop PROVE Together'
<1> USE DEF Restop, SendStop, inside, outside, ghosts, Running, JInv, IInv, Types
<1>1. Parting => Parting'
  BY Racing DEF ReaperTypes, Races
<1> SUFFICES ASSUME ~Parting', Calm, Held, Pulsed PROVE Calm' /\ Held' /\ Pulsed'
  BY <1>1 DEF Together
<1>2. Calm'
  <2>1. guard.stopping
    BY Racing DEF ReaperTypes, Races
  <2> QED
    BY <2>1 DEF Calm, Sent, Protocol
<1>3. Held'
  BY DEF Held, Sent, Protocol, MonitorTypes, ReaperTypes, Counts
<1>4. Pulsed'
  BY DEF Pulsed, Protocol, ReaperTypes, Counts
<1> QED
  BY <1>2, <1>3, <1>4

(* notify_guard looks whether a stop is armed.                                 *)
LEMMA LookTogether == ASSUME JInv, Look PROVE Together'
<1> USE DEF Look, inside, outside, ghosts, Running, NoRace, JInv, IInv, Types
<1>1. Parting => Parting'
  BY DEF Parting
<1> SUFFICES ASSUME ~Parting', Calm, Held, Pulsed PROVE Calm' /\ Held' /\ Pulsed'
  BY <1>1 DEF Together
<1>2. Calm'
  BY DEF Calm, Sent, Protocol, MonitorTypes, ConductorTypes
<1>3. Held'
  BY DEF Held, Sent, Protocol, MonitorTypes
<1>4. Pulsed'
  BY DEF Pulsed, Protocol
<1> QED
  BY <1>2, <1>3, <1>4

(* A handler tells the guard.                                                  *)
LEMMA WriteTogether == ASSUME JInv, Write PROVE Together'
<1> USE DEF Write, inside, ghosts, Running, NoRace, JInv, IInv, Types
<1>1. Parting => Parting'
  BY DEF Parting
<1> SUFFICES ASSUME ~Parting', Calm, Held, Pulsed PROVE Calm' /\ Held' /\ Pulsed'
  BY <1>1 DEF Together
<1>2. Calm'
  BY Written DEF Calm, Sent, Protocol, MonitorTypes, ConductorTypes, GuardTypes,
     GuardRecord, Cmds
<1>3. Held'
  BY Written DEF Held, Sent, Protocol, MonitorTypes, GuardTypes, GuardRecord, Cmds
<1>4. Pulsed'
  BY DEF Pulsed, Protocol, GuardTypes, GuardRecord
<1> QED
  BY <1>2, <1>3, <1>4

(* Termination.                                                                *)
LEMMA TerminateTogether == ASSUME JInv, Running, Terminate PROVE Together'
<1> USE DEF Terminate, inside, outside, ghosts, Running, NoRace, JInv, IInv, Types
<1>1. Parting => Parting'
  BY DEF Parting
<1> SUFFICES ASSUME ~Parting', Calm, Held, Pulsed PROVE Calm' /\ Held' /\ Pulsed'
  BY <1>1 DEF Together
<1>2. Calm'
  BY DEF Calm, Sent, Protocol, MonitorTypes, ConductorTypes
<1>3. Held'
  BY DEF Held, Sent, Protocol, MonitorTypes
<1>4. Pulsed'
  BY DEF Pulsed, Protocol
<1> QED
  BY <1>2, <1>3, <1>4

(* begin_suspend.                                                              *)
LEMMA BeginSuspendTogether == ASSUME JInv, Running, BeginSuspend PROVE Together'
<1> USE DEF BeginSuspend, Stopped, outside, ghosts, Running, JInv, IInv, Types
<1>1. Parting => Parting'
  BY Racing DEF ReaperTypes, Races
<1> SUFFICES ASSUME ~Parting', Calm, Held, Pulsed PROVE Calm' /\ Held' /\ Pulsed'
  BY <1>1 DEF Together
<1>2. Calm'
  <2>1. ~reaper.mirrored
    BY Racing DEF ReaperTypes, Races
  <2> QED
    BY <2>1 DEF Calm
<1>3. Held'
  BY DEF Held, Sent, Protocol, MonitorTypes, ReaperTypes, Counts
<1>4. Pulsed'
  BY DEF Pulsed, Protocol, ReaperTypes, Counts
<1> QED
  BY <1>2, <1>3, <1>4

(* A continue outside a suspension.                                            *)
LEMMA ForwardTogether == ASSUME JInv, Forward PROVE Together'
<1> USE DEF Forward, Continued, inside, outside, ghosts, NoRace, JInv, IInv, Types
<1>1. Parting => Parting'
  BY DEF Parting
<1> SUFFICES ASSUME ~Parting', Calm, Held, Pulsed PROVE Calm' /\ Held' /\ Pulsed'
  BY <1>1 DEF Together
<1>2. Calm'
  BY DEF Calm, Sent, Protocol, MonitorTypes, ConductorTypes
<1>3. Held'
  BY DEF Held, Sent, Protocol, MonitorTypes
<1>4. Pulsed'
  BY DEF Pulsed, Protocol
<1> QED
  BY <1>2, <1>3, <1>4

(* The groups are stopped, and the guard is to be armed.                       *)
LEMMA GroupsStoppedTogether == ASSUME JInv, GroupsStopped PROVE Together'
<1> USE DEF GroupsStopped, ghosts, NoRace, JInv, IInv, Types
<1>1. Parting => Parting'
  BY DEF Parting
<1> SUFFICES ASSUME ~Parting', Calm, Held, Pulsed PROVE Calm' /\ Held' /\ Pulsed'
  BY <1>1 DEF Together
<1>2. Calm'
  BY Written DEF Calm, Sent, Protocol, MonitorTypes, ConductorTypes, GuardTypes,
     GuardRecord, Cmds
<1>3. Held'
  BY Written DEF Held, Sent, Protocol, MonitorTypes, GuardTypes, GuardRecord, Cmds
<1>4. Pulsed'
  BY DEF Pulsed, Protocol, GuardTypes, GuardRecord
<1> QED
  BY <1>2, <1>3, <1>4

(* The groups do not stop.                                                     *)
LEMMA GiveUpTogether == ASSUME JInv, GiveUp PROVE Together'
<1> USE DEF GiveUp, EndSuspend, Release, Continued, parent, outside, ghosts, NoRace,
   JInv, IInv, Types
<1>1. Parting => Parting'
  BY DEF Parting
<1> SUFFICES ASSUME ~Parting', Calm, Held, Pulsed PROVE Calm' /\ Held' /\ Pulsed'
  BY <1>1 DEF Together
<1>2. Calm'
  BY DEF Calm, Sent, Protocol, MonitorTypes, ConductorTypes
<1>3. Held'
  BY DEF Held, Sent, Protocol, MonitorTypes
<1>4. Pulsed'
  BY DEF Pulsed, Protocol
<1> QED
  BY <1>2, <1>3, <1>4

(* The guard is armed.                                                         *)
LEMMA ArmedTogether == ASSUME JInv, Armed PROVE Together'
<1> USE DEF Armed, parent, ghosts, NoRace, JInv, IInv, Types
<1>1. Parting => Parting'
  BY DEF Parting
<1> SUFFICES ASSUME ~Parting', Calm, Held, Pulsed PROVE Calm' /\ Held' /\ Pulsed'
  BY <1>1 DEF Together
<1>2. Calm'
  BY DEF Calm, Sent, Protocol, MonitorTypes, ConductorTypes, GuardTypes, GuardRecord
<1>3. Held'
  BY DEF Held, Sent, Protocol, MonitorTypes, GuardTypes, GuardRecord
<1>4. Pulsed'
  BY DEF Pulsed, Protocol, GuardTypes, GuardRecord
<1> QED
  BY <1>2, <1>3, <1>4

(* No acknowledgement of the arm.                                              *)
LEMMA ArmFailsTogether == ASSUME JInv, ArmFails PROVE Together'
<1> USE DEF ArmFails, outside, ghosts, NoRace, JInv, IInv, Types
<1>1. Parting => Parting'
  BY DEF Parting
<1> SUFFICES ASSUME ~Parting', Calm, Held, Pulsed PROVE Calm' /\ Held' /\ Pulsed'
  BY <1>1 DEF Together
<1>2. Calm'
  BY DEF Calm, Sent, Protocol, MonitorTypes, ConductorTypes
<1>3. Held'
  BY DEF Held, Sent, Protocol, MonitorTypes
<1>4. Pulsed'
  BY DEF Pulsed, Protocol
<1> QED
  BY <1>2, <1>3, <1>4

(* Without a guard the monitor asks for its own termination.                   *)
LEMMA UnguardedTogether == ASSUME JInv, Unguarded PROVE Together'
<1> USE DEF Unguarded, outside, ghosts, NoRace, JInv, IInv, Types
<1>1. Parting => Parting'
  BY DEF Parting
<1> SUFFICES ASSUME ~Parting', Calm, Held, Pulsed PROVE Calm' /\ Held' /\ Pulsed'
  BY <1>1 DEF Together
<1>2. Calm'
  BY DEF Calm, Sent, Protocol, MonitorTypes, ConductorTypes
<1>3. Held'
  BY DEF Held, Sent, Protocol, MonitorTypes
<1>4. Pulsed'
  BY DEF Pulsed, Protocol
<1> QED
  BY <1>2, <1>3, <1>4

(* A termination calls the stop off.                                           *)
LEMMA LookForTerminationTogether == ASSUME JInv, LookForTermination PROVE Together'
<1> USE DEF LookForTermination, Disarm, EndSuspend, ghosts, NoRace, JInv, IInv, Types
<1>1. Parting => Parting'
  BY DEF Parting
<1> SUFFICES ASSUME ~Parting', Calm, Held, Pulsed PROVE Calm' /\ Held' /\ Pulsed'
  BY <1>1 DEF Together
<1>2. Calm'
  BY Written DEF Calm, Sent, Protocol, MonitorTypes, ConductorTypes, GuardTypes,
     GuardRecord, Cmds
<1>3. Held'
  BY Written DEF Held, Sent, Protocol, MonitorTypes, GuardTypes, GuardRecord, Cmds
<1>4. Pulsed'
  BY DEF Pulsed, Protocol, GuardTypes, GuardRecord
<1> QED
  BY <1>2, <1>3, <1>4

(* A continue calls the stop off, or the guard is to stop the conductor.       *)
LEMMA LookForContinueTogether == ASSUME JInv, LookForContinue PROVE Together'
<1> USE DEF LookForContinue, LateContinue, Disarm, EndSuspend, Continued, ghosts,
   JInv, IInv, Types
<1>1. Parting => Parting'
  BY Racing DEF ReaperTypes, Races
<1> SUFFICES ASSUME ~Parting', Calm, Held, Pulsed PROVE Calm' /\ Held' /\ Pulsed'
  BY <1>1 DEF Together
<1>2. Calm'
  BY Written DEF Calm, Sent, Protocol, MonitorTypes, ConductorTypes, GuardTypes,
     GuardRecord, Cmds
<1>3. Held'
  <2>1. /\ agents # "running" /\ ~guard.stopping /\ ~Sent("stop")
    BY DEF Held, Protocol, GuardTypes
  <2>2. CASE LateContinue
    <3>1. commands \in Seq(Cmds) /\ "disarm" \in Cmds
      BY DEF GuardTypes, Cmds
    <3>2. commands' = Append(commands, "disarm") /\ monitor' = "watch"
      BY <2>2
    <3>3. ~Sent("stop")'
      BY <2>1, <3>1, <3>2, Written DEF Sent
    <3> QED
      BY <2>1, <3>2, <3>3 DEF Held
  <2>3. CASE ~LateContinue
    BY <2>1, <2>3 DEF Held
  <2> QED
    BY <2>2, <2>3
<1>4. Pulsed'
  BY DEF Pulsed, Protocol, GuardTypes, GuardRecord
<1> QED
  BY <1>2, <1>3, <1>4

(* stop_parent returns.                                                        *)
LEMMA ResumedTogether == ASSUME JInv, Resumed PROVE Together'
<1> USE DEF Resumed, Disarm, EndSuspend, Release, Continued, ghosts, JInv,
   IInv, Types
<1>1. Parting => Parting'
  BY Racing DEF ReaperTypes, Races
<1> SUFFICES ASSUME ~Parting', Calm, Held, Pulsed PROVE Calm' /\ Held' /\ Pulsed'
  BY <1>1 DEF Together
<1>2. Calm'
  BY Written DEF Calm, Sent, Protocol, MonitorTypes, ConductorTypes, GuardTypes,
     GuardRecord, Cmds
<1>3. Held'
  BY Written DEF Held, Sent, Protocol, MonitorTypes, GuardTypes, GuardRecord, Cmds
<1>4. Pulsed'
  BY DEF Pulsed, Protocol, GuardTypes, GuardRecord
<1> QED
  BY <1>2, <1>3, <1>4

(* stop_parent finds the guard gone.                                           *)
LEMMA NobodyAnswersTogether == ASSUME JInv, NobodyAnswers PROVE Together'
<1> USE DEF NobodyAnswers, ghosts, NoRace, JInv, IInv, Types
<1>1. Parting => Parting'
  BY DEF Parting
<1> SUFFICES ASSUME ~Parting', Calm, Held, Pulsed PROVE Calm' /\ Held' /\ Pulsed'
  BY <1>1 DEF Together
<1>2. Calm'
  BY Written DEF Calm, Sent, Protocol, MonitorTypes, ConductorTypes, GuardTypes,
     GuardRecord, Cmds
<1>3. Held'
  BY Written DEF Held, Sent, Protocol, MonitorTypes, GuardTypes, GuardRecord, Cmds
<1>4. Pulsed'
  BY DEF Pulsed, Protocol, GuardTypes, GuardRecord
<1> QED
  BY <1>2, <1>3, <1>4

(* claim_launch.                                                               *)
LEMMA LaunchTogether == ASSUME JInv, Launch PROVE Together'
<1> USE DEF Launch, MayLaunch, parent, outside, ghosts, Running, NoRace, JInv, IInv,
   Types
<1>1. Parting => Parting'
  BY DEF Parting
<1> SUFFICES ASSUME ~Parting', Calm, Held, Pulsed PROVE Calm' /\ Held' /\ Pulsed'
  BY <1>1 DEF Together
<1>2. Calm'
  BY DEF Calm, Sent, Protocol, MonitorTypes, ConductorTypes, ReaperTypes, Counts
<1>3. Held'
  BY DEF Held, Sent, Protocol, MonitorTypes, ReaperTypes, Counts
<1>4. Pulsed'
  BY DEF Pulsed, Protocol, ReaperTypes, Counts
<1> QED
  BY <1>2, <1>3, <1>4

(* The launch is over.                                                         *)
LEMMA RegisterTogether == ASSUME JInv, Register PROVE Together'
<1> USE DEF Register, parent, outside, ghosts, Running, NoRace, JInv, IInv, Types
<1>1. Parting => Parting'
  BY DEF Parting
<1> SUFFICES ASSUME ~Parting', Calm, Held, Pulsed PROVE Calm' /\ Held' /\ Pulsed'
  BY <1>1 DEF Together
<1>2. Calm'
  BY DEF Calm, Sent, Protocol, MonitorTypes, ConductorTypes
<1>3. Held'
  BY DEF Held, Sent, Protocol, MonitorTypes
<1>4. Pulsed'
  BY DEF Pulsed, Protocol
<1> QED
  BY <1>2, <1>3, <1>4

(* An agent is over.                                                           *)
LEMMA OverTogether == ASSUME JInv, Over PROVE Together'
<1> USE DEF Over, parent, inside, outside, ghosts, Running, NoRace, JInv, IInv, Types
<1>1. Parting => Parting'
  BY DEF Parting
<1> SUFFICES ASSUME ~Parting', Calm, Held, Pulsed PROVE Calm' /\ Held' /\ Pulsed'
  BY <1>1 DEF Together
<1>2. Calm'
  BY DEF Calm, Sent, Protocol, MonitorTypes, ConductorTypes
<1>3. Held'
  BY DEF Held, Sent, Protocol, MonitorTypes
<1>4. Pulsed'
  BY DEF Pulsed, Protocol
<1> QED
  BY <1>2, <1>3, <1>4

(* One command of the guard's.                                                 *)
LEMMA CommandTogether == ASSUME JInv, guard.alive, Command PROVE Together'
<1> USE DEF Command, Wakeful, SendStop, Dropped, inside, ghosts, NoRace, JInv, IInv,
   Types
<1>1. Parting => Parting'
  BY DEF Parting, Race
<1> SUFFICES ASSUME ~Parting', Calm, Held, Pulsed PROVE Calm' /\ Held' /\ Pulsed'
  BY <1>1 DEF Together
<1>2. Calm'
  <2>1. /\ \A x : In(x, commands') => In(x, commands)
        /\ InOrder(commands) /\ Head(commands) # "wake" =>
             \A x : x # "wake" /\ In(x, commands') => Head(commands) = "disarm" /\ x = "arm"
        /\ In(Head(commands), commands)
    BY Taken DEF GuardTypes
  <2>2. guard'.alive = guard.alive /\ guard.alive
    BY <2>1, NewGuard DEF GuardTypes
  <2>3. CASE Head(commands) = "stop"
    <3>1. monitor = "stopping" /\ ~Sent("stop")'
      BY <2>1, <2>2, <2>3 DEF Protocol, Sent
    <3> QED
      BY <3>1 DEF Calm
  <2>4. CASE Head(commands) # "stop"
    BY <2>1, <2>2, <2>4 DEF Calm, Sent
  <2> QED
    BY <2>3, <2>4
<1>3. Held'
  <2>1. In(Head(commands), commands) /\ \A x : In(x, commands') => In(x, commands)
    BY Taken DEF GuardTypes
  <2>2. /\ guard'.alive = guard.alive
        /\ guard'.stopping => guard.stopping \/ Head(commands) = "stop"
    BY NewGuard DEF GuardTypes
  <2> QED
    BY <2>1, <2>2 DEF Held, Sent
<1>4. Pulsed'
  <2>1. In(Head(commands), commands)
    BY Taken DEF GuardTypes
  <2>2. guard'.stopping => guard.stopping \/ Head(commands) = "stop"
    BY NewGuard DEF GuardTypes
  <2>3. Head(commands) = "stop" => ~reaper.mirrored
    BY <2>1 DEF Calm, Sent
  <2> QED
    BY <2>2, <2>3 DEF Pulsed
<1> QED
  BY <1>2, <1>3, <1>4

(* The guard's own record of a signal.                                         *)
LEMMA NoticedTogether == ASSUME JInv, Noticed PROVE Together'
<1> USE DEF Noticed, parent, inside, ghosts, NoRace, JInv, IInv, Types
<1>1. Parting => Parting'
  BY DEF Parting
<1> SUFFICES ASSUME ~Parting', Calm, Held, Pulsed PROVE Calm' /\ Held' /\ Pulsed'
  BY <1>1 DEF Together
<1>2. Calm'
  BY DEF Calm, Sent, Protocol, MonitorTypes, ConductorTypes, GuardTypes, GuardRecord
<1>3. Held'
  BY DEF Held, Sent, Protocol, MonitorTypes, GuardTypes, GuardRecord
<1>4. Pulsed'
  BY DEF Pulsed, Protocol, GuardTypes, GuardRecord
<1> QED
  BY <1>2, <1>3, <1>4

(* The guard lets the conductor go.                                            *)
LEMMA WakeParentTogether == ASSUME JInv, WakeParent PROVE Together'
<1> USE DEF WakeParent, SendCont, inside, ghosts, JInv, IInv, Types
<1>1. Parting => Parting'
  BY DEF Parting
<1> SUFFICES ASSUME ~Parting', Calm, Held, Pulsed PROVE Calm' /\ Held' /\ Pulsed'
  BY <1>1 DEF Together
<1>2. Calm'
  BY DEF Calm, Sent, Protocol, MonitorTypes, ConductorTypes, GuardTypes, GuardRecord,
     ReaperTypes, Counts
<1>3. Held'
  BY DEF Held, Sent, Protocol, MonitorTypes, GuardTypes, GuardRecord, ReaperTypes,
     Counts
<1>4. Pulsed'
  <2>1. ~guard'.stopping
    BY NewGuard DEF GuardTypes
  <2> QED
    BY <2>1 DEF Pulsed
<1> QED
  BY <1>2, <1>3, <1>4

(* The guard is killed.                                                        *)
LEMMA GuardDiesTogether == ASSUME JInv, GuardDies PROVE Together'
<1> USE DEF GuardDies, parent, inside, ghosts, NoRace, JInv, IInv, Types
<1>1. Parting => Parting'
  BY DEF Parting
<1> SUFFICES ASSUME ~Parting', Calm, Held, Pulsed PROVE Calm' /\ Held' /\ Pulsed'
  BY <1>1 DEF Together
<1>2. Calm'
  BY DEF Calm, Sent, Protocol, MonitorTypes, ConductorTypes, GuardTypes, GuardRecord
<1>3. Held'
  <2>1. ~guard'.stopping /\ ~guard'.alive
    BY NewGuard DEF GuardTypes
  <2> QED
    BY <2>1 DEF Held, Sent
<1>4. Pulsed'
  <2>1. ~guard'.stopping
    BY NewGuard DEF GuardTypes
  <2> QED
    BY <2>1 DEF Pulsed
<1> QED
  BY <1>2, <1>3, <1>4

(* 250 ms without a sign.                                                      *)
LEMMA TickTogether == ASSUME JInv, Tick PROVE Together'
<1> USE DEF Tick, parent, inside, ghosts, NoRace, JInv, IInv, Types
<1>1. Parting => Parting'
  BY DEF Parting
<1> SUFFICES ASSUME ~Parting', Calm, Held, Pulsed PROVE Calm' /\ Held' /\ Pulsed'
  BY <1>1 DEF Together
<1>2. Calm'
  BY DEF Calm, Sent, Protocol, MonitorTypes, ConductorTypes, GuardTypes, GuardRecord
<1>3. Held'
  BY DEF Held, Sent, Protocol, MonitorTypes, GuardTypes, GuardRecord
<1>4. Pulsed'
  BY DEF Pulsed, Protocol, GuardTypes, GuardRecord
<1> QED
  BY <1>2, <1>3, <1>4

(* The probe helper.                                                           *)
LEMMA ProbeTogether == ASSUME JInv, Probe PROVE Together'
<1> USE DEF Probe, SendCont, inside, ghosts, JInv, IInv, Types
<1>1. Parting => Parting'
  BY DEF Parting
<1> SUFFICES ASSUME ~Parting', Calm, Held, Pulsed PROVE Calm' /\ Held' /\ Pulsed'
  BY <1>1 DEF Together
<1>2. Calm'
  BY DEF Calm, Sent, Protocol, MonitorTypes, ConductorTypes, GuardTypes, GuardRecord,
     ReaperTypes, Counts
<1>3. Held'
  BY DEF Held, Sent, Protocol, MonitorTypes, GuardTypes, GuardRecord, ReaperTypes,
     Counts
<1>4. Pulsed'
  BY Resuming DEF Pulsed
<1> QED
  BY <1>2, <1>3, <1>4

(* A pass of reaper_loop.                                                      *)
LEMMA ReaperPollTogether == ASSUME JInv, ReaperPoll PROVE Together'
<1> USE DEF ReaperPoll, InPulse, MirrorStop, Stopped, Continued, AfterStoppedPoll,
   parent, inside, outside, ghosts, Running, NoRace, JInv, IInv, Types
<1>1. Parting => Parting'
  BY DEF Parting
<1> SUFFICES ASSUME ~Parting', Calm, Held, Pulsed PROVE Calm' /\ Held' /\ Pulsed'
  BY <1>1 DEF Together
<1>2. Calm'
  BY DEF Calm, Sent, Protocol, MonitorTypes, ConductorTypes, ReaperTypes, Counts
<1>3. Held'
  <2>1. /\ reaper.mirrored \in BOOLEAN /\ StablePolls \in Nat
        /\ reaper.polls \in Nat /\ reaper.pulse \in Nat
    BY JobControlConstants DEF ReaperTypes, Counts
  <2>2. CASE tactus = "stopped"
    BY <2>2 DEF Held, Sent, MonitorTypes
  <2>3. CASE tactus # "stopped"
    <3>1. tactus = "running"
      BY <2>3 DEF ConductorTypes
    <3>2. guard.stopping =>
            ~(reaper.mirrored /\ reaper.polls + 1 >= StablePolls)
      BY <2>1, <3>1 DEF Pulsed
    <3>3. monitor \in {"arming", "termination?", "continue?"} \/ Sent("stop") => ~reaper.mirrored
      BY DEF Calm
    <3> QED
      BY <2>3, <3>2, <3>3 DEF Held, Sent
  <2> QED
    BY <2>2, <2>3
<1>4. Pulsed'
  <2>1. /\ reaper.mirrored \in BOOLEAN /\ reaper.polls \in Nat /\ reaper.pulse \in Nat
    BY JobControlConstants DEF ReaperTypes, Counts
  <2>2. CASE tactus = "stopped"
    <3>1. reaper'.polls = 0 /\ reaper'.pulse = reaper.pulse
      BY <2>2 DEF ReaperTypes, Counts
    <3> QED
      BY <2>1, <3>1 DEF Pulsed
  <2>3. CASE tactus # "stopped"
    <3>1. /\ reaper'.mirrored => reaper.mirrored /\ reaper'.polls = reaper.polls + 1
          /\ InPulse => reaper'.pulse = reaper.pulse + 1
      BY <2>3 DEF ReaperTypes, Counts
    <3>2. tactus = "running"
      BY <2>3 DEF ConductorTypes
    <3> QED
      BY <2>1, <3>1, <3>2 DEF Pulsed
  <2> QED
    BY <2>2, <2>3
<1> QED
  BY <1>2, <1>3, <1>4

(* The user's stop.                                                            *)
LEMMA SuspendTogether == ASSUME JInv, Suspend PROVE Together'
<1> USE DEF Suspend, inside, outside, Running, NoRace, JInv, IInv, Types
<1>1. Parting => Parting'
  BY DEF Parting
<1> SUFFICES ASSUME ~Parting', Calm, Held, Pulsed PROVE Calm' /\ Held' /\ Pulsed'
  BY <1>1 DEF Together
<1>2. Calm'
  BY DEF Calm, Sent, Protocol, MonitorTypes, ConductorTypes
<1>3. Held'
  BY DEF Held, Sent, Protocol, MonitorTypes
<1>4. Pulsed'
  BY DEF Pulsed, Protocol
<1> QED
  BY <1>2, <1>3, <1>4

(* A SIGSTOP to the conductor alone.                                           *)
LEMMA StopAloneTogether == ASSUME JInv, StopAlone PROVE Together'
<1> USE DEF StopAlone, SendStop, inside, outside, Running, JInv, IInv, Types
<1>1. Parting => Parting'
  BY Racing DEF ReaperTypes, Races
<1> SUFFICES ASSUME ~Parting', Calm, Held, Pulsed PROVE Calm' /\ Held' /\ Pulsed'
  BY <1>1 DEF Together
<1>2. Calm'
  <2>1. ~state.suspending
    BY Racing DEF ReaperTypes, Races
  <2> QED
    BY <2>1 DEF Calm, Sent, Protocol, MonitorTypes
<1>3. Held'
  BY DEF Held, Sent, Protocol, MonitorTypes, ReaperTypes, Counts
<1>4. Pulsed'
  BY DEF Pulsed, Protocol, ReaperTypes, Counts
<1> QED
  BY <1>2, <1>3, <1>4

(* The user's continue.                                                        *)
LEMMA ContinueTogether == ASSUME JInv, Continue PROVE Together'
<1> USE DEF Continue, SendCont, inside, JInv, IInv, Types
<1>1. Parting => Parting'
  BY DEF Parting
<1> SUFFICES ASSUME ~Parting', Calm, Held, Pulsed PROVE Calm' /\ Held' /\ Pulsed'
  BY <1>1 DEF Together
<1>2. Calm'
  BY DEF Calm, Sent, Protocol, MonitorTypes, ConductorTypes, GuardTypes, GuardRecord,
     ReaperTypes, Counts
<1>3. Held'
  BY DEF Held, Sent, Protocol, MonitorTypes, GuardTypes, GuardRecord, ReaperTypes,
     Counts
<1>4. Pulsed'
  BY Resuming DEF Pulsed
<1> QED
  BY <1>2, <1>3, <1>4

(* SIGTERM.                                                                    *)
LEMMA AskTerminationTogether == ASSUME JInv, AskTermination PROVE Together'
<1> USE DEF AskTermination, inside, NoRace, JInv, IInv, Types
<1>1. Parting => Parting'
  BY DEF Parting
<1> SUFFICES ASSUME ~Parting', Calm, Held, Pulsed PROVE Calm' /\ Held' /\ Pulsed'
  BY <1>1 DEF Together
<1>2. Calm'
  BY DEF Calm, Sent, Protocol, MonitorTypes, ConductorTypes, GuardTypes, GuardRecord
<1>3. Held'
  BY DEF Held, Sent, Protocol, MonitorTypes, GuardTypes, GuardRecord
<1>4. Pulsed'
  BY DEF Pulsed, Protocol, GuardTypes, GuardRecord
<1> QED
  BY <1>2, <1>3, <1>4

(* Everything runs to begin with, and nothing is on its way.                   *)
LEMMA JInvInit == Init => JInv
<1>1. Init => Together
  BY EmptyPipe DEF Init, Together, Calm, Held, Pulsed, Sent
<1> QED
  BY IInvInit, <1>1 DEF JInv

(* Every step keeps conductor and agents together, or is one of the two races. *)
LEMMA JInvNext == JInv /\ [Next]_vars => JInv'
<1> SUFFICES ASSUME JInv, [Next]_vars PROVE JInv'
  OBVIOUS
<1>1. IInv'
  BY IInvNext DEF JInv
<1>2. Together'
  <2>1. CASE Handlers
    BY <2>1, HandleTermTogether, HandleContTogether, RestopTogether, LookTogether,
       WriteTogether DEF Handlers
  <2>2. CASE Monitor
    BY <2>2, TerminateTogether, BeginSuspendTogether, ForwardTogether, GroupsStoppedTogether,
       GiveUpTogether, ArmedTogether, ArmFailsTogether, LookForTerminationTogether,
       LookForContinueTogether, ResumedTogether, NobodyAnswersTogether, UnguardedTogether
       DEF Monitor
  <2>3. CASE Guard \/ GuardDies
    BY <2>3, CommandTogether, NoticedTogether, WakeParentTogether, GuardDiesTogether DEF Guard
  <2>4. CASE Launch \/ Register \/ Over \/ Tick \/ ReaperPoll
    BY <2>4, LaunchTogether, RegisterTogether, OverTogether, TickTogether, ReaperPollTogether
  <2>5. CASE Suspend \/ StopAlone \/ Continue \/ AskTermination \/ Probe
    BY <2>5, SuspendTogether, StopAloneTogether, ContinueTogether, AskTerminationTogether,
       ProbeTogether
  <2>6. CASE UNCHANGED vars
    BY <2>6 DEF vars, parent, inside, outside, ghosts, JInv, Together, Parting, Calm, Held,
       Pulsed, Sent
  <2> QED
    BY <2>1, <2>2, <2>3, <2>4, <2>5, <2>6 DEF Next
<1> QED
  BY <1>1, <1>2 DEF JInv

(* From the guard's stop of the conductor to the resume it acknowledges no agent*)
(* runs: none launched meanwhile, none in the pulses in which the conductor    *)
(* looks for a termination, and none that the reaper continued by mistake --   *)
(* unless one of the two races that part them has happened.                    *)
THEOREM StoppedTogetherAlways == Spec => []StoppedTogether
<1>1. JInv => StoppedTogether
  BY DEF JInv, Together, Parting, Held, StoppedTogether
<1> QED
  BY JInvInit, JInvNext, <1>1, PTL DEF Spec

(* A suspension is of conductor and agents as one, and of one suspension at a  *)
(* time.                                                                       *)
THEOREM SuspendedAsOneAlways == Spec => []SuspendedAsOne
<1>1. TypeOK /\ StoppedTogether /\ AcksMatch => SuspendedAsOne
  BY DEF SuspendedAsOne
<1> QED
  BY <1>1, JobTypesAlways, StoppedTogetherAlways, AcksMatchAlways, PTL
==============================================================================
