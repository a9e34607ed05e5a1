--------------------------- MODULE RunLocksProofs ---------------------------
(***************************************************************************)
(* The locks of a worktree, for any threads in any processes, any runs and *)
(* any number of kills.  Exclusion rests on two facts that only together   *)
(* are inductive: the claims of one process tell its threads apart, and    *)
(* the OS lock tells the processes apart.  Both are kept by the order in   *)
(* which a thread gives up what it has: the file before the claim.         *)
(***************************************************************************)
EXTENDS RunLocks, FiniteSetTheorems, TLAPS

(* Where a thread that holds the OS lock of the worktree, or the claim to  *)
(* it, can be; and the same for the run it drives.                         *)
OwnsWorktree == {"scan", "claim run", "lock run", "take", "driving", "close run",
                 "unclaim run", "close worktree"}
ClaimsWorktree == OwnsWorktree \cup {"lock worktree", "unclaim worktree"}
OwnsRun == {"take", "driving", "close run"}
ClaimsRun == OwnsRun \cup {"lock run", "unclaim run"}

ConductorPlaces == ClaimsWorktree \cup {"idle", "claim worktree"}
ProberPlaces == {"idle", "query", "ask lease", "close probe"}

Thread == [at : ConductorPlaces \cup ProberPlaces, run : Keys, scan : SUBSET Runs,
           reaper : BOOLEAN, said : {"none", "running", "dead"}]

(* The files a thread has claimed, and those its process has locked for it,*)
(* by its place and its run.                                               *)
Claims(at, run) == (IF at \in ClaimsWorktree THEN {Worktree} ELSE {})
                   \cup (IF at \in ClaimsRun THEN {run} ELSE {})
Owns(at, run) == (IF at \in OwnsWorktree THEN {Worktree} ELSE {})
                 \cup (IF at \in OwnsRun THEN {run} ELSE {})
ClaimsOf(t) == Claims(thread[t].at, thread[t].run)
OwnsOf(t) == Owns(thread[t].at, thread[t].run)

(* Which places, runs and answers go with which thread.                    *)
Fits(t, at, run, reaper, said) ==
  /\ t \in Conductors => /\ at \in ConductorPlaces /\ said = "none"
                         /\ at # "idle" => run \in Runs
                         /\ reaper => at = "driving"
  /\ t \in Probers => /\ at \in ProberPlaces /\ ~reaper
                      /\ at # "idle" \/ said # "none" => run \in Runs

(* The types, and which places and runs go with which thread.              *)
Shapes ==
  /\ claims \in [Process -> SUBSET Keys] /\ owner \in [Keys -> Process \cup {NoProcess}]
  /\ probing \in [Runs -> SUBSET Threads]
  /\ \A r \in Runs : \A t, u \in probing[r] : t = u
  /\ orphans \in [Runs -> Nat]
  /\ thread \in [Threads -> Thread]
  /\ quiet \in [Threads -> BOOLEAN] /\ kills \in 0..MaxKills
  /\ \A t \in Threads :
       Fits(t, thread[t].at, thread[t].run, thread[t].reaper, thread[t].said)

(* A thread has what its place says, and at most one thread of a process   *)
(* is anywhere past its claim to the worktree.                             *)
Held ==
  /\ \A t \in Conductors : ClaimsOf(t) \subseteq claims[ProcessOf[t]]
  /\ \A t \in Conductors : \A k \in OwnsOf(t) : owner[k] = ProcessOf[t]
  /\ \A t, u \in Conductors :
       /\ ProcessOf[t] = ProcessOf[u]
       /\ thread[t].at \in ClaimsWorktree /\ thread[u].at \in ClaimsWorktree
       => t = u

(* And nothing is held that no thread's place accounts for.                *)
Accounted ==
  /\ \A p \in Process : \A k \in claims[p] :
       \E t \in Conductors : ProcessOf[t] = p /\ k \in ClaimsOf(t)
  /\ \A k \in Keys : owner[k] # NoProcess =>
       \E t \in Conductors : ProcessOf[t] = owner[k] /\ k \in OwnsOf(t)

(* A run that was scanned under the worktree lease has no agent left.      *)
Scanned ==
  \A t \in Conductors :
    /\ thread[t].at = "scan" => \A r \in Runs \ thread[t].scan : orphans[r] = 0
    /\ thread[t].at \in {"claim run", "lock run", "take", "driving"} =>
         \A r \in Runs : orphans[r] = 0

(* A probe past the lock has seen its run free, or nobody drives the run   *)
(* and its crash reapers keep everybody from starting to.                  *)
Probed ==
  \A t \in Probers :
    /\ thread[t].said = "dead" => quiet[t]
    /\ thread[t].at = "ask lease" /\ ~quiet[t] =>
         /\ orphans[thread[t].run] > 0
         /\ \A u \in Conductors : ~(thread[u].at = "driving" /\ thread[u].run = thread[t].run)

IInv == Shapes /\ Held /\ Accounted /\ Scanned /\ Probed

LEMMA IInvInit == Init => IInv
<1> SUFFICES ASSUME Init PROVE IInv
  OBVIOUS
<1>1. Idle \in Thread /\ Idle.at = "idle" /\ Idle.said = "none" /\ ~Idle.reaper
  BY DEF Idle, Thread, Keys, ConductorPlaces
<1>2. \A t \in Threads : thread[t] = Idle
  BY DEF Init
<1>3. Shapes
  <2>1. thread \in [Threads -> Thread]
    BY <1>1 DEF Init
  <2>2. Conductors \subseteq Threads /\ Probers \subseteq Threads
    BY DEF Threads
  <2> QED
    <3>1. \A t \in Conductors \cup Probers : thread[t].at = "idle" /\ thread[t].said = "none" /\ ~thread[t].reaper
      BY <1>1, <1>2, <2>2
    <3>2. /\ claims \in [Process -> SUBSET Keys] /\ owner \in [Keys -> Process \cup {NoProcess}]
          /\ probing \in [Runs -> SUBSET Threads]
          /\ \A r \in Runs : \A t, u \in probing[r] : t = u
      BY DEF Init
    <3>3. /\ orphans \in [Runs -> Nat]
          /\ quiet \in [Threads -> BOOLEAN] /\ kills \in 0..MaxKills
      BY ThreadsHaveProcesses DEF Init
    <3> QED
      BY <2>1, <3>1, <3>2, <3>3 DEF Shapes, Fits, Threads, ConductorPlaces, ProberPlaces
<1>4. Held /\ Accounted
  BY <1>1, <1>2, ThreadsHaveProcesses
     DEF Init, Held, Accounted, ClaimsOf, OwnsOf, Claims, Owns, Threads, ClaimsWorktree, ClaimsRun,
         OwnsWorktree, OwnsRun
<1>5. Scanned /\ Probed
  BY <1>1, <1>2 DEF Scanned, Probed, Threads
<1> QED
  BY <1>3, <1>4, <1>5 DEF IInv

(* One thread moves, the others stay.                                      *)
Moved(t, at, run, scan, reaper, said) ==
  /\ thread' \in [Threads -> Thread]
  /\ thread'[t].at = at /\ thread'[t].run = run /\ thread'[t].scan = scan
  /\ thread'[t].reaper = reaper /\ thread'[t].said = said
  /\ \A u \in Threads : u # t => thread'[u] = thread[u]

Place == ConductorPlaces \cup ProberPlaces

LEMMA Becomes ==
  ASSUME thread \in [Threads -> Thread], NEW t \in Threads, NEW v \in Thread,
         thread' = [thread EXCEPT ![t] = v]
  PROVE  Moved(t, v.at, v.run, v.scan, v.reaper, v.said)
  BY DEF Moved

(* The ways in which a step changes its thread.                            *)
LEMMA Goes ==
  ASSUME Shapes, NEW t \in Threads, NEW place \in Place, Goto(t, place)
  PROVE  Moved(t, place, thread[t].run, thread[t].scan, thread[t].reaper, thread[t].said)
<1> DEFINE v == [thread[t] EXCEPT !.at = place]
<1>1. thread[t] \in Thread
  BY DEF Shapes
<1>2. v \in Thread /\ v.at = place /\ v.run = thread[t].run /\ v.scan = thread[t].scan
      /\ v.reaper = thread[t].reaper /\ v.said = thread[t].said
  BY <1>1 DEF Thread, Place, Idle, Keys, ConductorPlaces, ProberPlaces
<1>3. thread' = [thread EXCEPT ![t] = v]
  BY DEF Goto, Say
<1> HIDE DEF v
<1>4. thread \in [Threads -> Thread]
  BY DEF Shapes
<1>5. Moved(t, v.at, v.run, v.scan, v.reaper, v.said)
  BY <1>2, <1>3, <1>4, Becomes
<1> QED
  BY <1>2, <1>5

LEMMA GoesScanning ==
  ASSUME Shapes, NEW t \in Threads, NEW place \in Place, NEW S \in SUBSET Runs,
         thread' = [thread EXCEPT ![t].at = place, ![t].scan = S]
  PROVE  Moved(t, place, thread[t].run, S, thread[t].reaper, thread[t].said)
<1> DEFINE v == [thread[t] EXCEPT !.at = place, !.scan = S]
<1>1. thread[t] \in Thread
  BY DEF Shapes
<1>2. v \in Thread /\ v.at = place /\ v.run = thread[t].run /\ v.scan = S
      /\ v.reaper = thread[t].reaper /\ v.said = thread[t].said
  BY <1>1 DEF Thread, Place, Idle, Keys, ConductorPlaces, ProberPlaces
<1>3. thread' = [thread EXCEPT ![t] = v]
  BY DEF Goto, Say
<1> HIDE DEF v
<1>4. thread \in [Threads -> Thread]
  BY DEF Shapes
<1>5. Moved(t, v.at, v.run, v.scan, v.reaper, v.said)
  BY <1>2, <1>3, <1>4, Becomes
<1> QED
  BY <1>2, <1>5

LEMMA ScansOn ==
  ASSUME Shapes, NEW t \in Threads, NEW S \in SUBSET Runs, thread' = [thread EXCEPT ![t].scan = S]
  PROVE  Moved(t, thread[t].at, thread[t].run, S, thread[t].reaper, thread[t].said)
<1> DEFINE v == [thread[t] EXCEPT !.scan = S]
<1>1. thread[t] \in Thread
  BY DEF Shapes
<1>2. v \in Thread /\ v.at = thread[t].at /\ v.run = thread[t].run /\ v.scan = S
      /\ v.reaper = thread[t].reaper /\ v.said = thread[t].said
  BY <1>1 DEF Thread, Place, Idle, Keys, ConductorPlaces, ProberPlaces
<1>3. thread' = [thread EXCEPT ![t] = v]
  BY DEF Goto, Say
<1> HIDE DEF v
<1>4. thread \in [Threads -> Thread]
  BY DEF Shapes
<1>5. Moved(t, v.at, v.run, v.scan, v.reaper, v.said)
  BY <1>2, <1>3, <1>4, Becomes
<1> QED
  BY <1>2, <1>5

LEMMA Reaps ==
  ASSUME Shapes, NEW t \in Threads, NEW b \in BOOLEAN, thread' = [thread EXCEPT ![t].reaper = b]
  PROVE  Moved(t, thread[t].at, thread[t].run, thread[t].scan, b, thread[t].said)
<1> DEFINE v == [thread[t] EXCEPT !.reaper = b]
<1>1. thread[t] \in Thread
  BY DEF Shapes
<1>2. v \in Thread /\ v.at = thread[t].at /\ v.run = thread[t].run /\ v.scan = thread[t].scan
      /\ v.reaper = b /\ v.said = thread[t].said
  BY <1>1 DEF Thread, Place, Idle, Keys, ConductorPlaces, ProberPlaces
<1>3. thread' = [thread EXCEPT ![t] = v]
  BY DEF Goto, Say
<1> HIDE DEF v
<1>4. thread \in [Threads -> Thread]
  BY DEF Shapes
<1>5. Moved(t, v.at, v.run, v.scan, v.reaper, v.said)
  BY <1>2, <1>3, <1>4, Becomes
<1> QED
  BY <1>2, <1>5

LEMMA Says ==
  ASSUME Shapes, NEW t \in Threads, NEW place \in Place, NEW answer \in {"none", "running", "dead"},
         thread' = [thread EXCEPT ![t].at = place, ![t].said = answer]
  PROVE  Moved(t, place, thread[t].run, thread[t].scan, thread[t].reaper, answer)
<1> DEFINE v == [thread[t] EXCEPT !.at = place, !.said = answer]
<1>1. thread[t] \in Thread
  BY DEF Shapes
<1>2. v \in Thread /\ v.at = place /\ v.run = thread[t].run /\ v.scan = thread[t].scan
      /\ v.reaper = thread[t].reaper /\ v.said = answer
  BY <1>1 DEF Thread, Place, Idle, Keys, ConductorPlaces, ProberPlaces
<1>3. thread' = [thread EXCEPT ![t] = v]
  BY DEF Goto, Say
<1> HIDE DEF v
<1>4. thread \in [Threads -> Thread]
  BY DEF Shapes
<1>5. Moved(t, v.at, v.run, v.scan, v.reaper, v.said)
  BY <1>2, <1>3, <1>4, Becomes
<1> QED
  BY <1>2, <1>5

LEMMA StartsOver ==
  ASSUME Shapes, NEW t \in Threads, NEW place \in Place, NEW r \in Runs,
         thread' = [thread EXCEPT ![t] = [Idle EXCEPT !.at = place, !.run = r]]
  PROVE  Moved(t, place, r, {}, FALSE, "none")
<1> DEFINE v == [Idle EXCEPT !.at = place, !.run = r]
<1>1. thread[t] \in Thread
  BY DEF Shapes
<1>2. v \in Thread /\ v.at = place /\ v.run = r /\ v.scan = {}
      /\ v.reaper = FALSE /\ v.said = "none"
  BY <1>1 DEF Thread, Place, Idle, Keys, ConductorPlaces, ProberPlaces
<1>3. thread' = [thread EXCEPT ![t] = v]
  BY DEF Goto, Say
<1> HIDE DEF v
<1>4. thread \in [Threads -> Thread]
  BY DEF Shapes
<1>5. Moved(t, v.at, v.run, v.scan, v.reaper, v.said)
  BY <1>2, <1>3, <1>4, Becomes
<1> QED
  BY <1>2, <1>5

LEMMA AnswersAtOnce ==
  ASSUME Shapes, NEW t \in Threads, NEW r \in Runs,
         thread' = [thread EXCEPT ![t] = [Idle EXCEPT !.run = r, !.said = "running"]]
  PROVE  Moved(t, "idle", r, {}, FALSE, "running")
<1> DEFINE v == [Idle EXCEPT !.run = r, !.said = "running"]
<1>1. thread[t] \in Thread
  BY DEF Shapes
<1>2. v \in Thread /\ v.at = "idle" /\ v.run = r /\ v.scan = {}
      /\ v.reaper = FALSE /\ v.said = "running"
  BY <1>1 DEF Thread, Place, Idle, Keys, ConductorPlaces, ProberPlaces
<1>3. thread' = [thread EXCEPT ![t] = v]
  BY DEF Goto, Say
<1> HIDE DEF v
<1>4. thread \in [Threads -> Thread]
  BY DEF Shapes
<1>5. Moved(t, v.at, v.run, v.scan, v.reaper, v.said)
  BY <1>2, <1>3, <1>4, Becomes
<1> QED
  BY <1>2, <1>5

(* What each action does to its thread, its claims and its locks.          *)
Stays(t) == Moved(t, thread[t].at, thread[t].run, thread[t].scan, thread[t].reaper, thread[t].said)
GoesTo(t, place) ==
  Moved(t, place, thread[t].run, thread[t].scan, thread[t].reaper, thread[t].said)

LEMMA Kinds == Conductors \subseteq Threads /\ Probers \subseteq Threads
               /\ \A t \in Threads : ProcessOf[t] \in Process
  BY ThreadsHaveProcesses DEF Threads

(* A place only one kind of thread can be at.                              *)
LEMMA WhoIsThere ==
  ASSUME Shapes, NEW t \in Threads
  PROVE  /\ thread[t].at \in ClaimsWorktree \cup {"claim worktree"} =>
              t \in Conductors /\ thread[t].run \in Runs
         /\ thread[t].at \in {"query", "ask lease", "close probe"} =>
              t \in Probers /\ thread[t].run \in Runs /\ ~thread[t].reaper
         /\ thread[t].reaper => t \in Conductors /\ thread[t].at = "driving"
  BY DEF Shapes, Fits, Threads, ProberPlaces, ConductorPlaces, ClaimsWorktree, OwnsWorktree

LEMMA ClaimDoes ==
  ASSUME Shapes, NEW t \in Threads, Claim(t)
  PROVE  \/ /\ thread[t].at = "claim worktree" /\ GoesTo(t, "idle") /\ claims' = claims
         \/ /\ thread[t].at = "claim worktree" /\ GoesTo(t, "lock worktree")
            /\ Worktree \notin claims[ProcessOf[t]]
            /\ claims' = [claims EXCEPT ![ProcessOf[t]] = @ \cup {Worktree}]
         \/ /\ thread[t].at = "claim run" /\ GoesTo(t, "close worktree") /\ claims' = claims
         \/ /\ thread[t].at = "claim run" /\ GoesTo(t, "lock run")
            /\ claims' = [claims EXCEPT ![ProcessOf[t]] = @ \cup {thread[t].run}]
<1>1. thread[t].at \in {"claim worktree", "claim run"} /\ thread[t].run \in Runs
  BY WhoIsThere DEF Claim, ClaimsWorktree, OwnsWorktree
<1>2. thread[t].run # Worktree
  BY <1>1, FilesAndThreads
<1>3. {"idle", "lock worktree", "close worktree", "lock run"} \subseteq Place
  BY DEF Place, ConductorPlaces, ClaimsWorktree, OwnsWorktree, ClaimsRun, OwnsRun
<1>4. \A place \in Place : Goto(t, place) => GoesTo(t, place)
  BY Goes DEF GoesTo
<1>5. CASE thread[t].at = "claim worktree"
  BY <1>3, <1>4, <1>5 DEF Claim, Claimed, Key
<1>6. CASE thread[t].at = "claim run"
  BY <1>2, <1>3, <1>4, <1>6 DEF Claim, Claimed, Key
<1> QED
  BY <1>1, <1>5, <1>6

LEMMA LockDoes ==
  ASSUME Shapes, NEW t \in Threads, Lock(t)
  PROVE  \/ /\ thread[t].at = "lock worktree" /\ owner[Worktree] \in {NoProcess, ProcessOf[t]}
            /\ owner' = [owner EXCEPT ![Worktree] = ProcessOf[t]]
            /\ Moved(t, "scan", thread[t].run, Runs, thread[t].reaper, thread[t].said)
         \/ /\ thread[t].at = "lock run" /\ owner[thread[t].run] \in {NoProcess, ProcessOf[t]}
            /\ owner' = [owner EXCEPT ![thread[t].run] = ProcessOf[t]]
            /\ Moved(t, "take", thread[t].run, {}, thread[t].reaper, thread[t].said)
         \/ thread[t].at = "lock worktree" /\ GoesTo(t, "unclaim worktree") /\ owner' = owner
         \/ thread[t].at = "lock run" /\ GoesTo(t, "unclaim run") /\ owner' = owner
<1>1. thread[t].at \in {"lock worktree", "lock run"} /\ thread[t].run \in Runs
  BY WhoIsThere DEF Lock, ClaimsWorktree, OwnsWorktree
<1>2. thread[t].run # Worktree
  BY <1>1, FilesAndThreads
<1>3. {"scan", "take", "unclaim worktree", "unclaim run"} \subseteq Place
  BY DEF Place, ConductorPlaces, ClaimsWorktree, OwnsWorktree
<1>4. \A place \in Place : Goto(t, place) => GoesTo(t, place)
  BY Goes DEF GoesTo
<1>5. CASE thread[t].at = "lock worktree"
  <2>1. Key(t, thread[t].at) = Worktree
    BY <1>5 DEF Key
  <2>2. \/ /\ owner[Worktree] \in {NoProcess, ProcessOf[t]}
           /\ owner' = [owner EXCEPT ![Worktree] = ProcessOf[t]]
           /\ thread' = [thread EXCEPT ![t].at = "scan", ![t].scan = Runs]
        \/ Goto(t, "unclaim worktree") /\ owner' = owner
    BY <2>1 DEF Lock
  <2>3. ASSUME thread' = [thread EXCEPT ![t].at = "scan", ![t].scan = Runs]
        PROVE  Moved(t, "scan", thread[t].run, Runs, thread[t].reaper, thread[t].said)
    <3>1. "scan" \in Place /\ Runs \in SUBSET Runs
      BY <1>3
    <3> QED
      BY <2>3, <3>1, GoesScanning
  <2> QED
    BY <1>3, <1>4, <1>5, <2>2, <2>3
<1>6. CASE thread[t].at = "lock run"
  <2>1. Key(t, thread[t].at) = thread[t].run
    BY <1>6 DEF Key
  <2>2. \/ /\ owner[thread[t].run] \in {NoProcess, ProcessOf[t]}
           /\ owner' = [owner EXCEPT ![thread[t].run] = ProcessOf[t]]
           /\ thread' = [thread EXCEPT ![t].at = "take", ![t].scan = {}]
        \/ Goto(t, "unclaim run") /\ owner' = owner
    BY <1>2, <2>1 DEF Lock
  <2>3. ASSUME thread' = [thread EXCEPT ![t].at = "take", ![t].scan = {}]
        PROVE  Moved(t, "take", thread[t].run, {}, thread[t].reaper, thread[t].said)
    <3>1. "take" \in Place /\ {} \in SUBSET Runs
      BY <1>3
    <3> QED
      BY <2>3, <3>1, GoesScanning
  <2> QED
    BY <1>3, <1>4, <1>6, <2>2, <2>3
<1> QED
  BY <1>1, <1>5, <1>6

LEMMA ReleaseDoes ==
  ASSUME Shapes, NEW t \in Threads, Release(t)
  PROVE  \/ /\ thread[t].at = "close run" /\ GoesTo(t, "unclaim run")
            /\ claims' = claims /\ owner' = Closed(thread[t].run, ProcessOf[t])
         \/ /\ thread[t].at = "unclaim run" /\ GoesTo(t, "close worktree")
            /\ owner' = owner
            /\ claims' = [claims EXCEPT ![ProcessOf[t]] = @ \ {thread[t].run}]
         \/ /\ thread[t].at = "close worktree" /\ GoesTo(t, "unclaim worktree")
            /\ claims' = claims /\ owner' = Closed(Worktree, ProcessOf[t])
         \/ /\ thread[t].at = "unclaim worktree" /\ GoesTo(t, "idle")
            /\ owner' = owner
            /\ claims' = [claims EXCEPT ![ProcessOf[t]] = @ \ {Worktree}]
<1>1. {"unclaim run", "close worktree", "unclaim worktree", "idle"} \subseteq Place
  BY DEF Place, ConductorPlaces, ClaimsWorktree, OwnsWorktree
<1>2. \A place \in Place : Goto(t, place) => GoesTo(t, place)
  BY Goes DEF GoesTo
<1>3. CASE thread[t].at = "close run"
  BY <1>1, <1>2, <1>3 DEF Release, Gives, AfterGiving, Key
<1>4. CASE thread[t].at = "unclaim run"
  BY <1>1, <1>2, <1>4 DEF Release, Gives, AfterGiving, Key
<1>5. CASE thread[t].at = "close worktree"
  BY <1>1, <1>2, <1>5 DEF Release, Gives, AfterGiving, Key
<1>6. CASE thread[t].at = "unclaim worktree"
  BY <1>1, <1>2, <1>6 DEF Release, Gives, AfterGiving, Key
<1> QED
  BY <1>3, <1>4, <1>5, <1>6 DEF Release

LEMMA LeaseDoes ==
  ASSUME Shapes, NEW t \in Threads
  PROVE  /\ ScanLease(t) =>
              \/ GoesTo(t, "claim run") /\ thread[t].scan = {} /\ probing' = probing
              \/ GoesTo(t, "close worktree") /\ probing' = probing
              \/ \E r \in thread[t].scan :
                   /\ LeaseFree(r) /\ TakeLease(t, r)
                   /\ Moved(t, "scan", thread[t].run, thread[t].scan \ {r}, thread[t].reaper,
                            thread[t].said)
         /\ TakeCleanup(t) =>
              \/ GoesTo(t, "driving") /\ LeaseFree(thread[t].run) /\ TakeLease(t, thread[t].run)
              \/ GoesTo(t, "close run") /\ probing' = probing
         /\ AskLease(t) =>
              \/ /\ LeaseFree(thread[t].run) /\ TakeLease(t, thread[t].run)
                 /\ Moved(t, "close probe", thread[t].run, thread[t].scan, thread[t].reaper, "dead")
              \/ /\ probing' = probing
                 /\ Moved(t, "close probe", thread[t].run, thread[t].scan, thread[t].reaper,
                          "running")
<1>1. {"claim run", "close worktree", "driving", "close run", "close probe"} \subseteq Place
  BY DEF Place, ConductorPlaces, ProberPlaces, ClaimsWorktree, OwnsWorktree
<1>2. \A place \in Place : Goto(t, place) => GoesTo(t, place)
  BY Goes DEF GoesTo
<1>3. \A place \in Place, answer \in {"none", "running", "dead"} :
        thread' = [thread EXCEPT ![t].at = place, ![t].said = answer]
          => Moved(t, place, thread[t].run, thread[t].scan, thread[t].reaper, answer)
  BY Says
<1>4. thread[t].scan \in SUBSET Runs
  BY DEF Shapes, Thread
<1>5. ASSUME ScanLease(t), NEW r \in thread[t].scan, LeaseFree(r), TakeLease(t, r),
             thread' = [thread EXCEPT ![t].scan = @ \ {r}]
      PROVE  Moved(t, "scan", thread[t].run, thread[t].scan \ {r}, thread[t].reaper, thread[t].said)
  <2> DEFINE S == thread[t].scan \ {r}
  <2>1. S \in SUBSET Runs /\ thread[t].at = "scan"
    BY <1>4, <1>5 DEF ScanLease
  <2>2. thread' = [thread EXCEPT ![t].scan = S]
    BY <1>5
  <2> HIDE DEF S
  <2>3. Moved(t, "scan", thread[t].run, S, thread[t].reaper, thread[t].said)
    BY <2>1, <2>2, ScansOn
  <2> QED
    BY <2>3 DEF S
<1>6. ASSUME ScanLease(t), thread[t].scan # {}
      PROVE  \E r \in thread[t].scan :
               \/ LeaseFree(r) /\ TakeLease(t, r) /\ thread' = [thread EXCEPT ![t].scan = @ \ {r}]
               \/ Goto(t, "close worktree") /\ probing' = probing
  BY <1>6 DEF ScanLease, Scan
<1>7. ASSUME ScanLease(t), thread[t].scan = {}
      PROVE  Goto(t, "claim run") /\ probing' = probing
  BY <1>7 DEF ScanLease, Scan
<1>8. ASSUME TakeCleanup(t)
      PROVE  \/ GoesTo(t, "driving") /\ LeaseFree(thread[t].run) /\ TakeLease(t, thread[t].run)
             \/ GoesTo(t, "close run") /\ probing' = probing
  BY <1>1, <1>2, <1>8 DEF TakeCleanup
<1>9. ASSUME AskLease(t)
      PROVE  \/ /\ LeaseFree(thread[t].run) /\ TakeLease(t, thread[t].run)
                /\ thread' = [thread EXCEPT ![t].at = "close probe", ![t].said = "dead"]
             \/ /\ probing' = probing
                /\ thread' = [thread EXCEPT ![t].at = "close probe", ![t].said = "running"]
  <2>1. CASE LeaseFree(thread[t].run)
    BY <1>9, <2>1 DEF AskLease, AnswerFor
  <2>2. CASE ~LeaseFree(thread[t].run)
    BY <1>9, <2>2 DEF AskLease, AnswerFor
  <2> QED
    BY <2>1, <2>2
<1> QED
  BY <1>1, <1>2, <1>3, <1>5, <1>6, <1>7, <1>8, <1>9

LEMMA DriverDoes ==
  ASSUME Shapes, NEW t \in Threads
  PROVE  /\ Begin(t) => t \in Conductors /\ thread[t].at = "idle"
                        /\ \E r \in Runs : Moved(t, "claim worktree", r, {}, FALSE, "none")
         /\ StartAgent(t) =>
              /\ thread[t].at = "driving" /\ ~thread[t].reaper
              /\ \/ Moved(t, "driving", thread[t].run, thread[t].scan, TRUE, thread[t].said)
                 \/ GoesTo(t, "close run")
         /\ AgentSettled(t) =>
              /\ thread[t].reaper
              /\ Moved(t, thread[t].at, thread[t].run, thread[t].scan, FALSE, thread[t].said)
         /\ StopDriving(t) =>
              thread[t].at = "driving" /\ ~thread[t].reaper /\ GoesTo(t, "close run")
<1>1. {"claim worktree", "close run"} \subseteq Place
  BY DEF Place, ConductorPlaces, ClaimsWorktree, OwnsWorktree
<1>2. \A place \in Place : Goto(t, place) => GoesTo(t, place)
  BY Goes DEF GoesTo
<1>3. Begin(t) => \E r \in Runs : Moved(t, "claim worktree", r, {}, FALSE, "none")
  BY <1>1, StartsOver DEF Begin
<1>4. \A b \in BOOLEAN : thread' = [thread EXCEPT ![t].reaper = b]
        => Moved(t, thread[t].at, thread[t].run, thread[t].scan, b, thread[t].said)
  BY Reaps
<1>5. StartAgent(t) => \/ thread' = [thread EXCEPT ![t].reaper = TRUE]
                       \/ Goto(t, "close run")
  BY DEF StartAgent
<1> QED
  BY <1>1, <1>2, <1>3, <1>4, <1>5 DEF Begin, StartAgent, AgentSettled, StopDriving, Driving

LEMMA ProbeDoes ==
  ASSUME Shapes, NEW t \in Threads
  PROVE  /\ Ask(t) => /\ t \in Probers /\ thread[t].at = "idle"
                      /\ \E r \in Runs : \/ Moved(t, "query", r, {}, FALSE, "none")
                                         \/ Moved(t, "idle", r, {}, FALSE, "running")
         /\ Query(t) =>
              \/ /\ owner[thread[t].run] \in {NoProcess, ProcessOf[t]} /\ owner' = owner
                 /\ GoesTo(t, "ask lease")
              \/ /\ owner' = Closed(thread[t].run, ProcessOf[t])
                 /\ Moved(t, "idle", thread[t].run, thread[t].scan, thread[t].reaper, "running")
         /\ CloseProbe(t) => GoesTo(t, "idle")
<1>1. {"query", "ask lease", "idle"} \subseteq Place
  BY DEF Place, ProberPlaces
<1>2. \A place \in Place : Goto(t, place) => GoesTo(t, place)
  BY Goes DEF GoesTo
<1>3. \A place \in Place, answer \in {"none", "running", "dead"} :
        thread' = [thread EXCEPT ![t].at = place, ![t].said = answer]
          => Moved(t, place, thread[t].run, thread[t].scan, thread[t].reaper, answer)
  BY Says
<1>4. \A r \in Runs : /\ thread' = [thread EXCEPT ![t] = [Idle EXCEPT !.at = "query", !.run = r]]
                          => Moved(t, "query", r, {}, FALSE, "none")
                      /\ thread' = [thread EXCEPT ![t] = [Idle EXCEPT !.run = r, !.said = "running"]]
                          => Moved(t, "idle", r, {}, FALSE, "running")
  BY <1>1, StartsOver, AnswersAtOnce
<1>5. Ask(t) => \E r \in Runs :
        \/ thread' = [thread EXCEPT ![t] = [Idle EXCEPT !.at = "query", !.run = r]]
        \/ thread' = [thread EXCEPT ![t] = [Idle EXCEPT !.run = r, !.said = "running"]]
  BY DEF Ask
<1>6. Query(t) =>
        \/ /\ owner[thread[t].run] \in {NoProcess, ProcessOf[t]} /\ owner' = owner
           /\ Goto(t, "ask lease")
        \/ /\ owner' = Closed(thread[t].run, ProcessOf[t])
           /\ thread' = [thread EXCEPT ![t].at = "idle", ![t].said = "running"]
  BY DEF Query, Say
<1> QED
  BY <1>1, <1>2, <1>3, <1>4, <1>5, <1>6 DEF Ask, CloseProbe

(* The types and shapes are kept by every step.                            *)
LEMMA ThreadsKept ==
  ASSUME Shapes, NEW t \in Threads,
         \/ Begin(t) \/ Claim(t) \/ Lock(t) \/ ScanLease(t) \/ TakeCleanup(t) \/ Unlease(t)
         \/ StartAgent(t) \/ AgentSettled(t) \/ StopDriving(t) \/ Release(t)
         \/ Ask(t) \/ Query(t) \/ AskLease(t) \/ CloseProbe(t)
  PROVE  /\ thread' \in [Threads -> Thread]
         /\ \A u \in Threads :
              Fits(u, thread'[u].at, thread'[u].run, thread'[u].reaper, thread'[u].said)
<1> DEFINE One(u) == Fits(u, thread'[u].at, thread'[u].run, thread'[u].reaper, thread'[u].said)
           Goal == thread' \in [Threads -> Thread] /\ One(t)
                   /\ \A u \in Threads : u # t => thread'[u] = thread[u]
<1>1. Fits(t, thread[t].at, thread[t].run, thread[t].reaper, thread[t].said)
  BY DEF Shapes
<1>2. /\ t \in Conductors => t \notin Probers
      /\ thread[t].reaper => t \in Conductors /\ thread[t].at = "driving"
  BY WhoIsThere, AskersDriveNothing
<1>3. CASE Begin(t)
  <2>1. Goal
    BY <1>1, <1>2, <1>3, DriverDoes DEF GoesTo, Moved, Fits, ConductorPlaces, ProberPlaces, ClaimsWorktree,
       OwnsWorktree
  <2> QED
    BY <2>1 DEF Shapes
<1>4. CASE Claim(t)
  <2>1. Goal
    BY <1>1, <1>2, <1>4, ClaimDoes DEF GoesTo, Moved, Fits, ConductorPlaces, ProberPlaces, ClaimsWorktree,
       OwnsWorktree
  <2> QED
    BY <2>1 DEF Shapes
<1>5. CASE Lock(t)
  <2>1. Goal
    BY <1>1, <1>2, <1>5, LockDoes DEF GoesTo, Moved, Fits, ConductorPlaces, ProberPlaces, ClaimsWorktree,
       OwnsWorktree
  <2> QED
    BY <2>1 DEF Shapes
<1>6. CASE ScanLease(t)
  <2>1. Goal
    BY <1>1, <1>2, <1>6, LeaseDoes DEF ScanLease, GoesTo, Moved, Fits, ConductorPlaces, ProberPlaces, ClaimsWorktree,
       OwnsWorktree
  <2> QED
    BY <2>1 DEF Shapes
<1>7. CASE TakeCleanup(t)
  <2>1. Goal
    BY <1>1, <1>2, <1>7, LeaseDoes DEF TakeCleanup, GoesTo, Moved, Fits, ConductorPlaces, ProberPlaces, ClaimsWorktree,
       OwnsWorktree
  <2> QED
    BY <2>1 DEF Shapes
<1>8. CASE StartAgent(t) \/ AgentSettled(t) \/ StopDriving(t)
  <2>1. Goal
    BY <1>1, <1>2, <1>8, DriverDoes DEF GoesTo, Moved, Fits, ConductorPlaces, ProberPlaces, ClaimsWorktree,
       OwnsWorktree
  <2> QED
    BY <2>1 DEF Shapes
<1>9. CASE Release(t)
  <2>1. Goal
    BY <1>1, <1>2, <1>9, ReleaseDoes DEF GoesTo, Moved, Fits, ConductorPlaces, ProberPlaces, ClaimsWorktree,
       OwnsWorktree
  <2> QED
    BY <2>1 DEF Shapes
<1>10. CASE Ask(t)
  <2>1. Goal
    BY <1>1, <1>2, <1>10, ProbeDoes DEF GoesTo, Moved, Fits, ConductorPlaces, ProberPlaces, ClaimsWorktree,
       OwnsWorktree
  <2> QED
    BY <2>1 DEF Shapes
<1>11. CASE Query(t)
  <2>1. Goal
    BY <1>1, <1>2, <1>11, ProbeDoes DEF Query, GoesTo, Moved, Fits, ConductorPlaces, ProberPlaces, ClaimsWorktree,
       OwnsWorktree
  <2> QED
    BY <2>1 DEF Shapes
<1>12. CASE AskLease(t)
  <2>1. Goal
    BY <1>1, <1>2, <1>12, LeaseDoes DEF AskLease, GoesTo, Moved, Fits, ConductorPlaces, ProberPlaces, ClaimsWorktree,
       OwnsWorktree
  <2> QED
    BY <2>1 DEF Shapes
<1>13. CASE CloseProbe(t)
  <2>1. Goal
    BY <1>1, <1>2, <1>13, ProbeDoes DEF CloseProbe, GoesTo, Moved, Fits, ConductorPlaces, ProberPlaces, ClaimsWorktree,
       OwnsWorktree
  <2> QED
    BY <2>1 DEF Shapes
<1>14. CASE Unlease(t)
  BY <1>14 DEF Unlease, Shapes
<1> QED
  BY <1>3, <1>4, <1>5, <1>6, <1>7, <1>8, <1>9, <1>10, <1>11, <1>12, <1>13, <1>14

(* What a process has once one of its descriptors is closed.               *)
LEMMA ClosedType ==
  ASSUME Shapes, NEW k \in Keys, NEW p
  PROVE  /\ Closed(k, p) \in [Keys -> Process \cup {NoProcess}]
         /\ Closed(k, p)[k] = IF owner[k] = p THEN NoProcess ELSE owner[k]
         /\ \A j \in Keys : j # k => Closed(k, p)[j] = owner[j]
  BY DEF Closed, Shapes

LEMMA LocksKept ==
  ASSUME Shapes, NEW t \in Threads,
         \/ Begin(t) \/ Claim(t) \/ Lock(t) \/ ScanLease(t) \/ TakeCleanup(t) \/ Unlease(t)
         \/ StartAgent(t) \/ AgentSettled(t) \/ StopDriving(t) \/ Release(t)
         \/ Ask(t) \/ Query(t) \/ AskLease(t) \/ CloseProbe(t)
  PROVE  /\ claims' \in [Process -> SUBSET Keys] /\ owner' \in [Keys -> Process \cup {NoProcess}]
         /\ probing' \in [Runs -> SUBSET Threads]
         /\ \A r \in Runs : \A u, w \in probing'[r] : u = w
         /\ orphans' = orphans /\ kills' = kills
<1>1. Worktree \in Keys /\ Runs \subseteq Keys /\ ProcessOf[t] \in Process
  BY Kinds DEF Keys
<1>2. thread[t].run \in Keys /\ thread[t].scan \subseteq Runs
  BY DEF Shapes, Thread
<1>3. claims' = claims /\ owner' = owner =>
        claims' \in [Process -> SUBSET Keys] /\ owner' \in [Keys -> Process \cup {NoProcess}]
  BY DEF Shapes
<1>4. probing' = probing => /\ probing' \in [Runs -> SUBSET Threads]
                            /\ \A r \in Runs : \A u, w \in probing'[r] : u = w
  BY DEF Shapes
<1>5. ASSUME NEW r \in Runs, TakeLease(t, r), LeaseFree(r)
      PROVE  /\ probing' \in [Runs -> SUBSET Threads]
             /\ \A q \in Runs : \A u, w \in probing'[q] : u = w
  BY <1>5 DEF Shapes, TakeLease, LeaseFree
<1>6. ASSUME NEW r \in Runs, DropLease(t, r)
      PROVE  /\ probing' \in [Runs -> SUBSET Threads]
             /\ \A q \in Runs : \A u, w \in probing'[q] : u = w
  BY <1>6 DEF Shapes, DropLease
<1>7. \A k \in {Worktree, thread[t].run} :
        /\ [claims EXCEPT ![ProcessOf[t]] = @ \cup {k}] \in [Process -> SUBSET Keys]
        /\ [claims EXCEPT ![ProcessOf[t]] = @ \ {k}] \in [Process -> SUBSET Keys]
  <2>1. claims \in [Process -> SUBSET Keys]
    BY DEF Shapes
  <2>2. \A S \in SUBSET Keys : [claims EXCEPT ![ProcessOf[t]] = S] \in [Process -> SUBSET Keys]
    BY <2>1
  <2>3. \A k \in {Worktree, thread[t].run} : /\ claims[ProcessOf[t]] \cup {k} \in SUBSET Keys
                                           /\ claims[ProcessOf[t]] \ {k} \in SUBSET Keys
    BY <1>1, <1>2, <2>1
  <2> QED
    BY <2>2, <2>3
<1>8. \A k \in {Worktree, thread[t].run} :
        Closed(k, ProcessOf[t]) \in [Keys -> Process \cup {NoProcess}]
  BY <1>1, <1>2, ClosedType
<1>9. CASE Begin(t) \/ StartAgent(t) \/ AgentSettled(t) \/ StopDriving(t) \/ Ask(t)
  BY <1>3, <1>4, <1>9 DEF Begin, StartAgent, AgentSettled, StopDriving, Ask
<1>10. CASE Claim(t)
  <2>1. claims' \in [Process -> SUBSET Keys]
    BY <1>3, <1>10, <1>7, ClaimDoes DEF Shapes
  <2> QED
    BY <1>4, <1>10, <2>1 DEF Claim, Shapes
<1>11. CASE Lock(t)
  <2>1. owner' \in [Keys -> Process \cup {NoProcess}]
    BY <1>1, <1>2, <1>11, LockDoes DEF Shapes
  <2> QED
    BY <1>4, <1>11, <2>1 DEF Lock, Shapes
<1>12. CASE ScanLease(t)
  BY <1>2, <1>3, <1>4, <1>5, <1>12, LeaseDoes DEF ScanLease
<1>13. CASE TakeCleanup(t)
  BY <1>3, <1>4, <1>5, <1>13, LeaseDoes, WhoIsThere
     DEF TakeCleanup, ClaimsWorktree, OwnsWorktree
<1>14. CASE Unlease(t)
  BY <1>3, <1>6, <1>14 DEF Unlease
<1>15. CASE Release(t)
  <2>1. claims' \in [Process -> SUBSET Keys] /\ owner' \in [Keys -> Process \cup {NoProcess}]
    BY <1>3, <1>15, <1>7, <1>8, ReleaseDoes DEF Shapes
  <2> QED
    BY <1>4, <1>15, <2>1 DEF Release
<1>16. CASE Query(t)
  <2>1. owner' \in [Keys -> Process \cup {NoProcess}]
    BY <1>16, <1>8, ProbeDoes DEF Shapes
  <2> QED
    BY <1>4, <1>16, <2>1 DEF Query, Shapes
<1>17. CASE AskLease(t)
  BY <1>3, <1>4, <1>5, <1>17, LeaseDoes, WhoIsThere DEF AskLease
<1>18. CASE CloseProbe(t)
  BY <1>2, <1>4, <1>18, ClosedType DEF CloseProbe, Shapes
<1> QED
  BY <1>9, <1>10, <1>11, <1>12, <1>13, <1>14, <1>15, <1>16, <1>17, <1>18

LEMMA KillDoes ==
  ASSUME Shapes, NEW p \in Process, Kill(p)
  PROVE  /\ \A t \in Threads : thread'[t] = IF ProcessOf[t] = p THEN Idle ELSE thread[t]
         /\ claims' = [claims EXCEPT ![p] = {}]
         /\ \A k \in Keys : owner'[k] = IF owner[k] = p THEN NoProcess ELSE owner[k]
         /\ \A r \in Runs :
              /\ orphans'[r] \in Nat
              /\ (\A t \in Threads : ProcessOf[t] = p => ~thread[t].reaper)
                   => orphans'[r] = orphans[r]
<1> DEFINE Left(r) == {t \in {u \in Threads : ProcessOf[u] = p} :
                        thread[t].reaper /\ thread[t].run = r}
<1>1. \A r \in Runs : orphans'[r] = orphans[r] + Cardinality(Left(r))
  BY DEF Kill
<1>2. \A r \in Runs : Cardinality(Left(r)) \in Nat
  BY FilesAndThreads, FS_Subset, FS_CardinalityType
<1>3. ASSUME \A t \in Threads : ProcessOf[t] = p => ~thread[t].reaper, NEW r \in Runs
      PROVE  Cardinality(Left(r)) = 0
  <2>1. Left(r) = {}
    BY <1>3
  <2> QED
    BY <2>1, FS_EmptySet
<1>4. \A r \in Runs : orphans[r] \in Nat
  BY DEF Shapes
<1>5. \A t \in Threads : thread'[t] = IF ProcessOf[t] = p THEN Idle ELSE thread[t]
  BY DEF Kill
<1>6. /\ claims' = [claims EXCEPT ![p] = {}]
      /\ \A k \in Keys : owner'[k] = IF owner[k] = p THEN NoProcess ELSE owner[k]
  BY DEF Kill
<1> HIDE DEF Left
<1>7. \A r \in Runs : orphans'[r] \in Nat
  BY <1>1, <1>2, <1>4
<1>8. (\A t \in Threads : ProcessOf[t] = p => ~thread[t].reaper)
        => \A r \in Runs : orphans'[r] = orphans[r]
  BY <1>1, <1>3, <1>4
<1> QED
  BY <1>5, <1>6, <1>7, <1>8

LEMMA IdleShape == Idle \in Thread /\ Idle.at = "idle" /\ Idle.said = "none" /\ ~Idle.reaper
  BY DEF Idle, Thread, Keys, ConductorPlaces

LEMMA ShapesKept ==
  ASSUME Shapes, Next
  PROVE  Shapes'
<1>1. quiet' \in [Threads -> BOOLEAN]
  BY DEF Next, Watch, FreeIn, Shapes
<1>2. ASSUME NEW t \in Threads,
             \/ Begin(t) \/ Claim(t) \/ Lock(t) \/ ScanLease(t) \/ TakeCleanup(t) \/ Unlease(t)
             \/ StartAgent(t) \/ AgentSettled(t) \/ StopDriving(t) \/ Release(t)
             \/ Ask(t) \/ Query(t) \/ AskLease(t) \/ CloseProbe(t)
      PROVE  Shapes'
  <2>1. /\ claims' \in [Process -> SUBSET Keys] /\ owner' \in [Keys -> Process \cup {NoProcess}]
        /\ probing' \in [Runs -> SUBSET Threads]
        /\ \A r \in Runs : \A u, w \in probing'[r] : u = w
        /\ orphans' = orphans /\ kills' = kills
    BY <1>2, LocksKept
  <2>2. /\ thread' \in [Threads -> Thread]
        /\ \A u \in Threads :
             Fits(u, thread'[u].at, thread'[u].run, thread'[u].reaper, thread'[u].said)
    BY <1>2, ThreadsKept
  <2>3. orphans \in [Runs -> Nat] /\ kills \in 0..MaxKills
    BY DEF Shapes
  <2> QED
    BY <1>1, <2>1, <2>2, <2>3 DEF Shapes
<1>3. ASSUME NEW p \in Process, Kill(p) PROVE Shapes'
  <2>1. thread' \in [Threads -> Thread]
    <3>1. thread \in [Threads -> Thread] /\ Idle \in Thread
      BY IdleShape DEF Shapes
    <3> QED
      BY <1>3, <3>1 DEF Kill
  <2>2. \A u \in Threads :
          Fits(u, thread'[u].at, thread'[u].run, thread'[u].reaper, thread'[u].said)
    BY <1>3, KillDoes, IdleShape DEF Shapes, Fits, ConductorPlaces, ProberPlaces
  <2>3. claims' \in [Process -> SUBSET Keys]
    BY <1>3 DEF Kill, Shapes
  <2>4. owner' \in [Keys -> Process \cup {NoProcess}]
    BY <1>3 DEF Kill, Shapes
  <2>5. /\ probing' \in [Runs -> SUBSET Threads]
        /\ \A r \in Runs : \A u, w \in probing'[r] : u = w
    BY <1>3 DEF Kill, Shapes
  <2>6. orphans' \in [Runs -> Nat]
    <3>1. \A r \in Runs : orphans'[r] \in Nat
      BY <1>3, KillDoes
    <3>2. orphans' = [r \in Runs |-> orphans'[r]]
      BY <1>3 DEF Kill
    <3> QED
      BY <3>1, <3>2
  <2>7. kills' \in 0..MaxKills
    BY <1>3, ThreadsHaveProcesses DEF Kill, Shapes
  <2> QED
    BY <1>1, <2>1, <2>2, <2>3, <2>4, <2>5, <2>6, <2>7 DEF Shapes
<1>4. CASE OrphanDone
  BY <1>1, <1>4 DEF OrphanDone, Shapes
<1> QED
  BY <1>2, <1>3, <1>4 DEF Next

(* What a place claims and owns.                                           *)
LEMMA PlaceHolds ==
  ASSUME NEW r
  PROVE  /\ \A at \in {"idle", "claim worktree"} \cup ProberPlaces :
              Claims(at, r) = {} /\ Owns(at, r) = {} /\ at \notin ClaimsWorktree
         /\ \A at \in {"lock worktree", "unclaim worktree"} :
              Claims(at, r) = {Worktree} /\ Owns(at, r) = {} /\ at \in ClaimsWorktree
         /\ \A at \in {"scan", "claim run", "close worktree"} :
              Claims(at, r) = {Worktree} /\ Owns(at, r) = {Worktree} /\ at \in ClaimsWorktree
         /\ \A at \in {"lock run", "unclaim run"} :
              Claims(at, r) = {Worktree, r} /\ Owns(at, r) = {Worktree} /\ at \in ClaimsWorktree
         /\ \A at \in {"take", "driving", "close run"} :
              Claims(at, r) = {Worktree, r} /\ Owns(at, r) = {Worktree, r} /\ at \in ClaimsWorktree
<1> USE DEF ClaimsWorktree, OwnsWorktree, ClaimsRun, OwnsRun
<1>1. \A at \in {"idle", "claim worktree"} \cup ProberPlaces :
         Claims(at, r) = {} /\ Owns(at, r) = {} /\ at \notin ClaimsWorktree
  BY DEF Claims, Owns, ProberPlaces
<1>2. \A at \in {"lock worktree", "unclaim worktree"} :
         Claims(at, r) = {Worktree} /\ Owns(at, r) = {} /\ at \in ClaimsWorktree
  BY DEF Claims, Owns
<1>3. \A at \in {"scan", "claim run", "close worktree"} :
         Claims(at, r) = {Worktree} /\ Owns(at, r) = {Worktree} /\ at \in ClaimsWorktree
  BY DEF Claims, Owns
<1>4. \A at \in {"lock run", "unclaim run"} :
         Claims(at, r) = {Worktree, r} /\ Owns(at, r) = {Worktree} /\ at \in ClaimsWorktree
  BY DEF Claims, Owns
<1>5. \A at \in {"take", "driving", "close run"} :
         Claims(at, r) = {Worktree, r} /\ Owns(at, r) = {Worktree, r} /\ at \in ClaimsWorktree
  BY DEF Claims, Owns
<1> QED
  BY <1>1, <1>2, <1>3, <1>4, <1>5

(* A step after which everyone's place holds what it held before.          *)
LEMMA SameHold ==
  ASSUME Held, Accounted, claims' = claims, owner' = owner,
         \A t \in Conductors :
           /\ ClaimsOf(t)' = ClaimsOf(t) /\ OwnsOf(t)' = OwnsOf(t)
           /\ thread'[t].at \in ClaimsWorktree => thread[t].at \in ClaimsWorktree
  PROVE  Held' /\ Accounted'
  BY DEF Held, Accounted

LEMMA IdleHolds == \A r : Claims("idle", r) = {} /\ Owns("idle", r) = {}
  BY PlaceHolds

LEMMA SamePlace ==
  ASSUME Shapes, Held, Accounted, NEW t \in Threads, claims' = claims, owner' = owner,
         NEW at, NEW run, NEW scan, NEW reaper, NEW said, Moved(t, at, run, scan, reaper, said),
         Claims(at, run) = ClaimsOf(t), Owns(at, run) = OwnsOf(t),
         at \in ClaimsWorktree => thread[t].at \in ClaimsWorktree
  PROVE  Held' /\ Accounted'
<1>1. \A u \in Conductors :
         /\ ClaimsOf(u)' = ClaimsOf(u) /\ OwnsOf(u)' = OwnsOf(u)
         /\ thread'[u].at \in ClaimsWorktree => thread[u].at \in ClaimsWorktree
  BY Kinds DEF ClaimsOf, OwnsOf, Moved
<1> QED
  BY <1>1, SameHold

(* The other threads' places hold what they held.                          *)
LEMMA OthersHold ==
  ASSUME NEW t \in Threads, NEW at, NEW run, NEW scan, NEW reaper, NEW said,
         Moved(t, at, run, scan, reaper, said)
  PROVE  /\ ClaimsOf(t)' = Claims(at, run) /\ OwnsOf(t)' = Owns(at, run) /\ thread'[t].at = at
         /\ \A u \in Conductors : u # t => /\ ClaimsOf(u)' = ClaimsOf(u) /\ OwnsOf(u)' = OwnsOf(u)
                                          /\ thread'[u].at = thread[u].at
  BY Kinds DEF ClaimsOf, OwnsOf, Moved

(* Claim, Lock and Release: the claim before the file, the file before the claim. *)
LEMMA HeldByClaim ==
  ASSUME Shapes, Held, Accounted, NEW t \in Threads, Claim(t)
  PROVE  Held' /\ Accounted'
<1> DEFINE p == ProcessOf[t]
           run == thread[t].run
<1>1. t \in Conductors /\ p \in Process /\ run \in Runs /\ owner' = owner
      /\ Conductors \subseteq Threads
  BY WhoIsThere, Kinds DEF Claim, ClaimsWorktree, OwnsWorktree
<1>2. CASE claims' = claims /\ thread[t].at = "claim worktree" /\ GoesTo(t, "idle")
  <2>1. /\ Claims("idle", run) = {} /\ Owns("idle", run) = {}
        /\ Claims("claim worktree", run) = {} /\ Owns("claim worktree", run) = {}
        /\ "idle" \in ClaimsWorktree => "claim worktree" \in ClaimsWorktree
    BY PlaceHolds
  <2> QED
    BY <1>1, <1>2, <2>1, SamePlace DEF ClaimsOf, OwnsOf, GoesTo
<1>3. CASE claims' = claims /\ thread[t].at = "claim run" /\ GoesTo(t, "close worktree")
  <2>1. /\ Claims("close worktree", run) = {Worktree} /\ Owns("close worktree", run) = {Worktree}
        /\ Claims("claim run", run) = {Worktree} /\ Owns("claim run", run) = {Worktree}
        /\ "close worktree" \in ClaimsWorktree => "claim run" \in ClaimsWorktree
    BY PlaceHolds
  <2> QED
    BY <1>1, <1>3, <2>1, SamePlace DEF ClaimsOf, OwnsOf, GoesTo
<1>4. ASSUME NEW k \in Keys, claims' = [claims EXCEPT ![p] = @ \cup {k}],
             NEW place, GoesTo(t, place),
             Claims(place, run) = ClaimsOf(t) \cup {k}, Owns(place, run) = OwnsOf(t),
             \/ thread[t].at \in ClaimsWorktree
             \/ Worktree \notin claims[p]
      PROVE  Held' /\ Accounted'
  <2>1. /\ \A q \in Process : claims[q] \subseteq claims'[q]
        /\ \A q \in Process : q # p => claims'[q] = claims[q]
        /\ claims'[p] = claims[p] \cup {k}
    BY <1>1, <1>4 DEF Shapes
  <2>2. /\ ClaimsOf(t)' = ClaimsOf(t) \cup {k} /\ OwnsOf(t)' = OwnsOf(t)
        /\ \A u \in Conductors : u # t => /\ ClaimsOf(u)' = ClaimsOf(u) /\ OwnsOf(u)' = OwnsOf(u)
                                         /\ thread'[u].at = thread[u].at
    BY <1>4, OthersHold DEF GoesTo
  <2>3. \A u \in Conductors : ProcessOf[u] \in Process /\ ClaimsOf(u)' \subseteq claims'[ProcessOf[u]]
    BY <1>1, <2>1, <2>2, Kinds DEF Held
  <2>4. \A u \in Conductors : \A j \in OwnsOf(u)' : owner'[j] = ProcessOf[u]
    BY <1>1, <2>2 DEF Held
  <2>5. \A u \in Conductors : u # t /\ ProcessOf[u] = p /\ thread[u].at \in ClaimsWorktree
                               => FALSE
    <3>1. \A u \in Conductors : thread[u].at \in ClaimsWorktree => Worktree \in ClaimsOf(u)
      BY DEF ClaimsOf, Claims
    <3> QED
      BY <1>1, <1>4, <3>1 DEF Held
  <2>6. Held'
    BY <1>1, <2>2, <2>3, <2>4, <2>5 DEF Held
  <2>7. Accounted'
    BY <1>1, <2>1, <2>2 DEF Accounted
  <2> QED
    BY <2>6, <2>7
<1>5. CASE /\ thread[t].at = "claim worktree" /\ GoesTo(t, "lock worktree")
           /\ Worktree \notin claims[p] /\ claims' = [claims EXCEPT ![p] = @ \cup {Worktree}]
  <2>1. Claims("lock worktree", run) = ClaimsOf(t) \cup {Worktree}
        /\ Owns("lock worktree", run) = OwnsOf(t)
    <3>1. /\ Claims("claim worktree", run) = {} /\ Owns("claim worktree", run) = {}
          /\ Claims("lock worktree", run) = {Worktree} /\ Owns("lock worktree", run) = {}
      BY PlaceHolds
    <3> QED
      BY <1>5, <3>1 DEF ClaimsOf, OwnsOf
  <2> QED
    BY <1>4, <1>5, <2>1 DEF Keys
<1>6. CASE /\ thread[t].at = "claim run" /\ GoesTo(t, "lock run")
           /\ claims' = [claims EXCEPT ![p] = @ \cup {run}]
  <2>1. Claims("lock run", run) = ClaimsOf(t) \cup {run} /\ Owns("lock run", run) = OwnsOf(t)
        /\ thread[t].at \in ClaimsWorktree
    <3>1. /\ Claims("lock run", run) = {Worktree, run} /\ Owns("lock run", run) = {Worktree}
          /\ Claims("claim run", run) = {Worktree} /\ Owns("claim run", run) = {Worktree}
          /\ "claim run" \in ClaimsWorktree
      BY PlaceHolds
    <3> QED
      BY <1>6, <3>1 DEF ClaimsOf, OwnsOf
  <2> QED
    BY <1>1, <1>4, <1>6, <2>1 DEF Keys
<1> QED
  BY <1>2, <1>3, <1>5, <1>6, ClaimDoes

LEMMA HeldByLock ==
  ASSUME Shapes, Held, Accounted, NEW t \in Threads, Lock(t)
  PROVE  Held' /\ Accounted'
<1> DEFINE p == ProcessOf[t]
           run == thread[t].run
<1>1. t \in Conductors /\ p \in Process /\ run \in Runs /\ claims' = claims
      /\ Conductors \subseteq Threads /\ p # NoProcess
  BY WhoIsThere, Kinds, ThreadsHaveProcesses DEF Lock, ClaimsWorktree, OwnsWorktree
<1>2. CASE owner' = owner /\ thread[t].at = "lock worktree" /\ GoesTo(t, "unclaim worktree")
  <2>1. /\ Claims("unclaim worktree", run) = {Worktree} /\ Owns("unclaim worktree", run) = {}
        /\ Claims("lock worktree", run) = {Worktree} /\ Owns("lock worktree", run) = {}
        /\ "unclaim worktree" \in ClaimsWorktree => "lock worktree" \in ClaimsWorktree
    BY PlaceHolds
  <2> QED
    BY <1>1, <1>2, <2>1, SamePlace DEF ClaimsOf, OwnsOf, GoesTo
<1>3. CASE owner' = owner /\ thread[t].at = "lock run" /\ GoesTo(t, "unclaim run")
  <2>1. /\ Claims("unclaim run", run) = {Worktree, run} /\ Owns("unclaim run", run) = {Worktree}
        /\ Claims("lock run", run) = {Worktree, run} /\ Owns("lock run", run) = {Worktree}
        /\ "unclaim run" \in ClaimsWorktree => "lock run" \in ClaimsWorktree
    BY PlaceHolds
  <2> QED
    BY <1>1, <1>3, <2>1, SamePlace DEF ClaimsOf, OwnsOf, GoesTo
<1>4. ASSUME NEW k \in Keys, owner[k] \in {NoProcess, p}, owner' = [owner EXCEPT ![k] = p],
             NEW place, NEW S, Moved(t, place, run, S, thread[t].reaper, thread[t].said),
             Claims(place, run) = ClaimsOf(t), Owns(place, run) = OwnsOf(t) \cup {k},
             thread[t].at \in ClaimsWorktree
      PROVE  Held' /\ Accounted'
  <2>1. owner'[k] = p /\ \A j \in Keys : j # k => owner'[j] = owner[j]
    BY <1>4 DEF Shapes
  <2>2. /\ ClaimsOf(t)' = ClaimsOf(t) /\ OwnsOf(t)' = OwnsOf(t) \cup {k}
        /\ \A u \in Conductors : u # t => /\ ClaimsOf(u)' = ClaimsOf(u) /\ OwnsOf(u)' = OwnsOf(u)
                                         /\ thread'[u].at = thread[u].at
    BY <1>4, OthersHold
  <2>3. \A u \in Conductors : ClaimsOf(u)' \subseteq claims'[ProcessOf[u]]
    BY <1>1, <2>2 DEF Held
  <2>4. \A u \in Conductors : \A j \in OwnsOf(u)' : owner'[j] = ProcessOf[u]
    <3>1. \A u \in Conductors : OwnsOf(u) \subseteq Keys /\ ProcessOf[u] # NoProcess
      BY <1>1, Kinds, ThreadsHaveProcesses DEF OwnsOf, Owns, Keys, Shapes, Thread
    <3> QED
      BY <1>1, <1>4, <2>1, <2>2, <3>1 DEF Held
  <2>5. Held'
    BY <1>1, <1>4, <2>2, <2>3, <2>4 DEF Held
  <2>6. Accounted'
    BY <1>1, <2>1, <2>2 DEF Accounted
  <2> QED
    BY <2>5, <2>6
<1>5. CASE /\ thread[t].at = "lock worktree" /\ owner[Worktree] \in {NoProcess, p}
           /\ owner' = [owner EXCEPT ![Worktree] = p]
           /\ Moved(t, "scan", run, Runs, thread[t].reaper, thread[t].said)
  <2>1. Claims("scan", run) = ClaimsOf(t) /\ Owns("scan", run) = OwnsOf(t) \cup {Worktree}
        /\ thread[t].at \in ClaimsWorktree
    <3>1. /\ Claims("scan", run) = {Worktree} /\ Owns("scan", run) = {Worktree}
          /\ Claims("lock worktree", run) = {Worktree} /\ Owns("lock worktree", run) = {}
          /\ "lock worktree" \in ClaimsWorktree
      BY PlaceHolds
    <3> QED
      BY <1>5, <3>1 DEF ClaimsOf, OwnsOf
  <2> QED
    BY <1>4, <1>5, <2>1 DEF Keys
<1>6. CASE /\ thread[t].at = "lock run" /\ owner[run] \in {NoProcess, p}
           /\ owner' = [owner EXCEPT ![run] = p]
           /\ Moved(t, "take", run, {}, thread[t].reaper, thread[t].said)
  <2>1. Claims("take", run) = ClaimsOf(t) /\ Owns("take", run) = OwnsOf(t) \cup {run}
        /\ thread[t].at \in ClaimsWorktree
    <3>1. /\ Claims("take", run) = {Worktree, run} /\ Owns("take", run) = {Worktree, run}
          /\ Claims("lock run", run) = {Worktree, run} /\ Owns("lock run", run) = {Worktree}
          /\ "lock run" \in ClaimsWorktree
      BY PlaceHolds
    <3> QED
      BY <1>6, <3>1 DEF ClaimsOf, OwnsOf
  <2> QED
    BY <1>1, <1>4, <1>6, <2>1 DEF Keys
<1> QED
  BY <1>2, <1>3, <1>5, <1>6, LockDoes

LEMMA HeldByRelease ==
  ASSUME Shapes, Held, Accounted, NEW t \in Threads, Release(t)
  PROVE  Held' /\ Accounted'
<1> DEFINE p == ProcessOf[t]
           run == thread[t].run
<1>1. /\ t \in Conductors /\ p \in Process /\ run \in Runs /\ Conductors \subseteq Threads
      /\ p # NoProcess /\ thread[t].at \in ClaimsWorktree
  BY WhoIsThere, Kinds, ThreadsHaveProcesses DEF Release, ClaimsWorktree, OwnsWorktree
<1>2. \A u \in Conductors : /\ u # t /\ ProcessOf[u] = p => thread[u].at \notin ClaimsWorktree
                            /\ thread[u].at \notin ClaimsWorktree => ClaimsOf(u) = {} /\ OwnsOf(u) = {}
  BY <1>1 DEF Held, ClaimsOf, OwnsOf, Claims, Owns, ClaimsWorktree, ClaimsRun, OwnsWorktree, OwnsRun
<1>3. ASSUME NEW k \in Keys, k \in OwnsOf(t), claims' = claims, owner' = Closed(k, p),
             NEW place, GoesTo(t, place),
             Claims(place, run) = ClaimsOf(t), Owns(place, run) = OwnsOf(t) \ {k}
      PROVE  Held' /\ Accounted'
  <2>1. owner'[k] = NoProcess /\ \A j \in Keys : j # k => owner'[j] = owner[j]
    BY <1>1, <1>3, ClosedType DEF Held
  <2>2. /\ ClaimsOf(t)' = ClaimsOf(t) /\ OwnsOf(t)' = OwnsOf(t) \ {k}
        /\ \A u \in Conductors : u # t => /\ ClaimsOf(u)' = ClaimsOf(u) /\ OwnsOf(u)' = OwnsOf(u)
                                         /\ thread'[u].at = thread[u].at
    BY <1>3, OthersHold DEF GoesTo
  <2>3. \A u \in Conductors : ClaimsOf(u)' \subseteq claims'[ProcessOf[u]]
    BY <1>1, <1>3, <2>2 DEF Held
  <2>4. \A u \in Conductors : \A j \in OwnsOf(u)' : owner'[j] = ProcessOf[u]
    <3>1. \A u \in Conductors : OwnsOf(u) \subseteq Keys
      BY <1>1 DEF OwnsOf, Owns, Keys, Shapes, Thread
    <3>2. \A u \in Conductors : u # t => k \notin OwnsOf(u)
      BY <1>1, <1>2, <1>3 DEF Held
    <3> QED
      BY <1>1, <2>1, <2>2, <3>1, <3>2 DEF Held
  <2>5. Held'
    BY <1>1, <2>2, <2>3, <2>4 DEF Held
  <2>6. Accounted'
    BY <1>1, <1>3, <2>1, <2>2 DEF Accounted
  <2> QED
    BY <2>5, <2>6
<1>4. ASSUME NEW k \in Keys, owner' = owner, claims' = [claims EXCEPT ![p] = @ \ {k}],
             NEW place, GoesTo(t, place),
             Claims(place, run) = ClaimsOf(t) \ {k}, Owns(place, run) = OwnsOf(t)
      PROVE  Held' /\ Accounted'
  <2>1. /\ claims'[p] = claims[p] \ {k}
        /\ \A q \in Process : q # p => claims'[q] = claims[q]
    BY <1>1, <1>4 DEF Shapes
  <2>2. /\ ClaimsOf(t)' = ClaimsOf(t) \ {k} /\ OwnsOf(t)' = OwnsOf(t)
        /\ \A u \in Conductors : u # t => /\ ClaimsOf(u)' = ClaimsOf(u) /\ OwnsOf(u)' = OwnsOf(u)
                                         /\ thread'[u].at = thread[u].at
    BY <1>4, OthersHold DEF GoesTo
  <2>3. \A u \in Conductors : ClaimsOf(u)' \subseteq claims'[ProcessOf[u]]
    <3>1. CASE \A u \in Conductors : u # t /\ ProcessOf[u] = p => ClaimsOf(u) = {}
      BY <1>1, <2>1, <2>2, <3>1, Kinds DEF Held
    <3> QED
      BY <1>2, <3>1
  <2>4. \A u \in Conductors : \A j \in OwnsOf(u)' : owner'[j] = ProcessOf[u]
    BY <1>1, <1>4, <2>2 DEF Held
  <2>5. Held'
    BY <1>1, <2>2, <2>3, <2>4 DEF Held
  <2>6. Accounted'
    BY <1>1, <1>4, <2>1, <2>2 DEF Accounted
  <2> QED
    BY <2>5, <2>6
<1>5. CASE /\ thread[t].at = "close run" /\ GoesTo(t, "unclaim run")
           /\ claims' = claims /\ owner' = Closed(run, p)
  <2>1. Claims("unclaim run", run) = ClaimsOf(t) /\ Owns("unclaim run", run) = OwnsOf(t) \ {run} /\ run \in OwnsOf(t)
    <3>1. /\ Claims("unclaim run", run) = {Worktree, run} /\ Owns("unclaim run", run) = {Worktree}
          /\ Claims("close run", run) = {Worktree, run} /\ Owns("close run", run) = {Worktree, run}
      BY PlaceHolds
    <3> QED
      BY <1>1, <1>5, <3>1, FilesAndThreads DEF ClaimsOf, OwnsOf
  <2> QED
    BY <1>1, <1>5, <2>1, <1>3 DEF Keys
<1>6. CASE /\ thread[t].at = "unclaim run" /\ GoesTo(t, "close worktree")
           /\ owner' = owner /\ claims' = [claims EXCEPT ![p] = @ \ {run}]
  <2>1. Claims("close worktree", run) = ClaimsOf(t) \ {run} /\ Owns("close worktree", run) = OwnsOf(t)
    <3>1. /\ Claims("close worktree", run) = {Worktree} /\ Owns("close worktree", run) = {Worktree}
          /\ Claims("unclaim run", run) = {Worktree, run} /\ Owns("unclaim run", run) = {Worktree}
      BY PlaceHolds
    <3> QED
      BY <1>1, <1>6, <3>1, FilesAndThreads DEF ClaimsOf, OwnsOf
  <2> QED
    BY <1>1, <1>6, <2>1, <1>4 DEF Keys
<1>7. CASE /\ thread[t].at = "close worktree" /\ GoesTo(t, "unclaim worktree")
           /\ claims' = claims /\ owner' = Closed(Worktree, p)
  <2>1. Claims("unclaim worktree", run) = ClaimsOf(t) /\ Owns("unclaim worktree", run) = OwnsOf(t) \ {Worktree} /\ Worktree \in OwnsOf(t)
    <3>1. /\ Claims("unclaim worktree", run) = {Worktree} /\ Owns("unclaim worktree", run) = {}
          /\ Claims("close worktree", run) = {Worktree} /\ Owns("close worktree", run) = {Worktree}
      BY PlaceHolds
    <3> QED
      BY <1>1, <1>7, <3>1, FilesAndThreads DEF ClaimsOf, OwnsOf
  <2> QED
    BY <1>1, <1>7, <2>1, <1>3 DEF Keys
<1>8. CASE /\ thread[t].at = "unclaim worktree" /\ GoesTo(t, "idle")
           /\ owner' = owner /\ claims' = [claims EXCEPT ![p] = @ \ {Worktree}]
  <2>1. Claims("idle", run) = ClaimsOf(t) \ {Worktree} /\ Owns("idle", run) = OwnsOf(t)
    <3>1. /\ Claims("idle", run) = {} /\ Owns("idle", run) = {}
          /\ Claims("unclaim worktree", run) = {Worktree} /\ Owns("unclaim worktree", run) = {}
      BY PlaceHolds
    <3> QED
      BY <1>1, <1>8, <3>1, FilesAndThreads DEF ClaimsOf, OwnsOf
  <2> QED
    BY <1>1, <1>8, <2>1, <1>4 DEF Keys
<1> QED
  BY <1>5, <1>6, <1>7, <1>8, ReleaseDoes

(* A probe closes a descriptor no conductor's lock hangs on: nothing that  *)
(* is locked is locked for its process.                                    *)
LEMMA ProbeTakesNothing ==
  ASSUME Shapes, Accounted, NEW t \in Probers, NEW k \in Keys
  PROVE  Closed(k, ProcessOf[t]) = owner
<1>1. owner[k] = NoProcess \/ \E u \in Conductors : ProcessOf[u] = owner[k]
  BY DEF Accounted
<1>2. owner[k] = ProcessOf[t] => FALSE
  BY <1>1, AskersDriveNothing, ThreadsHaveProcesses, Kinds
<1>3. owner = [j \in Keys |-> owner[j]]
  BY DEF Shapes
<1> QED
  BY <1>2, <1>3 DEF Closed

LEMMA HeldByKill ==
  ASSUME Shapes, Held, Accounted, NEW p \in Process, Kill(p)
  PROVE  Held' /\ Accounted'
<1>1. /\ \A t \in Conductors : ProcessOf[t] # p => ClaimsOf(t)' = ClaimsOf(t) /\ OwnsOf(t)' = OwnsOf(t)
                                                  /\ thread'[t].at = thread[t].at
      /\ \A t \in Conductors : ProcessOf[t] = p => ClaimsOf(t)' = {} /\ OwnsOf(t)' = {}
                                                  /\ thread'[t].at \notin ClaimsWorktree
  BY KillDoes, IdleShape, IdleHolds, Kinds DEF ClaimsOf, OwnsOf, ClaimsWorktree, OwnsWorktree
<1>2. /\ claims'[p] = {} /\ \A q \in Process : q # p => claims'[q] = claims[q]
  BY KillDoes DEF Shapes
<1>3. \A k \in Keys : /\ owner[k] = p => owner'[k] = NoProcess
                      /\ owner[k] # p => owner'[k] = owner[k]
  BY KillDoes
<1>4. \A t \in Conductors : OwnsOf(t) \subseteq Keys /\ ProcessOf[t] \in Process
  BY Kinds DEF OwnsOf, Owns, Keys, Shapes, Thread
<1>5. \A t \in Conductors : ClaimsOf(t)' \subseteq claims'[ProcessOf[t]]
  BY <1>1, <1>2, <1>4 DEF Held
<1>6. \A t \in Conductors : \A k \in OwnsOf(t)' : owner'[k] = ProcessOf[t]
  BY <1>1, <1>3, <1>4 DEF Held
<1>7. Held'
  BY <1>1, <1>5, <1>6 DEF Held
<1>8. Accounted'
  BY <1>1, <1>2, <1>3, ThreadsHaveProcesses DEF Accounted
<1> QED
  BY <1>7, <1>8

(* Two places that hold the same.                                          *)
Same(a, r, b, q) ==
  /\ Claims(a, r) = Claims(b, q) /\ Owns(a, r) = Owns(b, q)
  /\ b \in ClaimsWorktree => a \in ClaimsWorktree

LEMMA SamePlaces ==
  ASSUME NEW r, NEW q
  PROVE  /\ \A a, b \in {"idle", "claim worktree", "query", "ask lease", "close probe"} :
              Same(a, r, b, q)
         /\ \A a, b \in {"scan", "claim run", "close worktree"} : Same(a, r, b, r)
         /\ \A a, b \in {"take", "driving", "close run"} : Same(a, r, b, r)
  BY PlaceHolds DEF Same, ProberPlaces

LEMMA HeldKept ==
  ASSUME Shapes, Held, Accounted, Next
  PROVE  Held' /\ Accounted'
<1>1. ASSUME NEW t \in Threads,
             \/ Begin(t) \/ ScanLease(t) \/ TakeCleanup(t) \/ Unlease(t) \/ StartAgent(t)
             \/ AgentSettled(t) \/ StopDriving(t) \/ Ask(t) \/ Query(t) \/ AskLease(t) \/ CloseProbe(t)
      PROVE  Held' /\ Accounted'
  <2>1. claims' = claims /\ owner' = owner
    <3>1. CASE Query(t) \/ CloseProbe(t)
      <4>1. t \in Probers /\ thread[t].run \in Keys
        BY <3>1, WhoIsThere DEF Query, CloseProbe, Keys
      <4>2. Closed(thread[t].run, ProcessOf[t]) = owner
        BY <4>1, ProbeTakesNothing
      <4> QED
        BY <3>1, <4>2 DEF Query, CloseProbe
    <3> QED
      BY <1>1, <3>1 DEF Begin, ScanLease, TakeCleanup, Unlease, StartAgent, AgentSettled, StopDriving,
         Ask, AskLease
  <2> DEFINE Alike(u) == /\ ClaimsOf(u)' = ClaimsOf(u) /\ OwnsOf(u)' = OwnsOf(u)
                         /\ thread'[u].at \in ClaimsWorktree => thread[u].at \in ClaimsWorktree
             Others == \A u \in Threads : u # t => thread'[u] = thread[u]
  <2>2. Alike(t) /\ Others
    <3>1. ASSUME Same(thread[t].at, thread[t].run, thread'[t].at, thread'[t].run), Others
          PROVE  Alike(t) /\ Others
      BY <3>1 DEF Same, ClaimsOf, OwnsOf
    <3>2. CASE Unlease(t) \/ AgentSettled(t)
      BY <3>2, DriverDoes DEF Unlease, Moved, ClaimsOf, OwnsOf
    <3>3. CASE Begin(t)
      <4>1. Same(thread[t].at, thread[t].run, thread'[t].at, thread'[t].run) /\ Others
        BY <3>3, DriverDoes, SamePlaces DEF GoesTo, Moved
      <4> QED
        BY <3>1, <4>1
    <3>4. CASE ScanLease(t)
      <4>1. Same(thread[t].at, thread[t].run, thread'[t].at, thread'[t].run) /\ Others
        BY <3>4, LeaseDoes, SamePlaces DEF ScanLease, GoesTo, Moved
      <4> QED
        BY <3>1, <4>1
    <3>5. CASE TakeCleanup(t)
      <4>1. Same(thread[t].at, thread[t].run, thread'[t].at, thread'[t].run) /\ Others
        BY <3>5, LeaseDoes, SamePlaces DEF TakeCleanup, GoesTo, Moved
      <4> QED
        BY <3>1, <4>1
    <3>6. CASE StartAgent(t)
      <4>1. Same(thread[t].at, thread[t].run, thread'[t].at, thread'[t].run) /\ Others
        BY <3>6, DriverDoes, SamePlaces DEF GoesTo, Moved
      <4> QED
        BY <3>1, <4>1
    <3>7. CASE StopDriving(t)
      <4>1. Same(thread[t].at, thread[t].run, thread'[t].at, thread'[t].run) /\ Others
        BY <3>7, DriverDoes, SamePlaces DEF GoesTo, Moved
      <4> QED
        BY <3>1, <4>1
    <3>8. CASE Ask(t)
      <4>1. /\ Others
            /\ {thread[t].at, thread'[t].at} \subseteq {"idle", "claim worktree", "query", "ask lease", "close probe"}
        BY <3>8, ProbeDoes DEF Moved
      <4>2. Same(thread[t].at, thread[t].run, thread'[t].at, thread'[t].run)
        BY <4>1, SamePlaces
      <4> QED
        BY <3>1, <4>1, <4>2
    <3>9. CASE Query(t)
      <4>1. Same(thread[t].at, thread[t].run, thread'[t].at, thread'[t].run) /\ Others
        BY <3>9, ProbeDoes, SamePlaces DEF Query, GoesTo, Moved
      <4> QED
        BY <3>1, <4>1
    <3>10. CASE AskLease(t)
      <4>1. /\ Others
            /\ {thread[t].at, thread'[t].at} \subseteq {"idle", "claim worktree", "query", "ask lease", "close probe"}
        BY <3>10, LeaseDoes DEF AskLease, Moved
      <4>2. Same(thread[t].at, thread[t].run, thread'[t].at, thread'[t].run)
        BY <4>1, SamePlaces
      <4> QED
        BY <3>1, <4>1, <4>2
    <3>11. CASE CloseProbe(t)
      <4>1. Same(thread[t].at, thread[t].run, thread'[t].at, thread'[t].run) /\ Others
        BY <3>11, ProbeDoes, SamePlaces DEF CloseProbe, GoesTo, Moved
      <4> QED
        BY <3>1, <4>1
    <3> QED
      BY <1>1, <3>2, <3>3, <3>4, <3>5, <3>6, <3>7, <3>8, <3>9, <3>10, <3>11
  <2>3. \A u \in Conductors : Alike(u)
    BY <2>2, Kinds DEF ClaimsOf, OwnsOf
  <2> QED
    BY <2>1, <2>3, SameHold
<1>2. CASE OrphanDone
  <2>1. \A u \in Conductors :
          /\ ClaimsOf(u)' = ClaimsOf(u) /\ OwnsOf(u)' = OwnsOf(u)
          /\ thread'[u].at \in ClaimsWorktree => thread[u].at \in ClaimsWorktree
    BY <1>2 DEF OrphanDone, ClaimsOf, OwnsOf
  <2> QED
    BY <1>2, <2>1, SameHold DEF OrphanDone
<1> QED
  BY <1>1, <1>2, HeldByClaim, HeldByLock, HeldByRelease, HeldByKill DEF Next

(* Whoever drives, or is on the way to, is alone, and only the driver has a*)
(* reaper: no other process leaves one behind.                             *)
LEMMA Alone ==
  ASSUME Shapes, Held, NEW t \in Conductors, NEW u \in Threads,
         thread[t].at \in OwnsWorktree, thread[u].reaper
  PROVE  u = t /\ thread[t].at = "driving"
<1>1. u \in Conductors /\ thread[u].at = "driving"
  BY WhoIsThere
<1>2. Worktree \in OwnsOf(t) /\ Worktree \in OwnsOf(u)
  BY <1>1 DEF OwnsOf, Owns, OwnsWorktree
<1>3. ProcessOf[t] = ProcessOf[u]
  BY <1>1, <1>2 DEF Held
<1>4. thread[t].at \in ClaimsWorktree /\ thread[u].at \in ClaimsWorktree
  BY <1>1 DEF ClaimsWorktree, OwnsWorktree
<1> QED
  BY <1>1, <1>3, <1>4 DEF Held

LEMMA ScannedKept ==
  ASSUME Shapes, Held, Scanned, Next
  PROVE  Scanned'
<1> DEFINE Clear(u) ==
      /\ thread[u].at = "scan" => \A r \in Runs \ thread[u].scan : orphans[r] = 0
      /\ thread[u].at \in {"claim run", "lock run", "take", "driving"} =>
           \A r \in Runs : orphans[r] = 0
<1>1. ASSUME NEW t \in Threads,
             \/ Begin(t) \/ Claim(t) \/ Lock(t) \/ ScanLease(t) \/ TakeCleanup(t) \/ Unlease(t)
             \/ StartAgent(t) \/ AgentSettled(t) \/ StopDriving(t) \/ Release(t)
             \/ Ask(t) \/ Query(t) \/ AskLease(t) \/ CloseProbe(t)
      PROVE  Scanned'
  <2>1. orphans' = orphans
    BY <1>1, LocksKept
  <2>2. t \in Conductors => Clear(t)
    BY DEF Scanned
  <2> DEFINE Goal == (t \in Conductors => Clear(t)') /\ \A u \in Threads : u # t => thread'[u] = thread[u]
  <2>3. CASE Begin(t) \/ StartAgent(t) \/ AgentSettled(t) \/ StopDriving(t)
    <3>1. Goal
      BY <2>1, <2>2, <2>3, DriverDoes DEF GoesTo, Moved
    <3> QED
      BY <2>1, <3>1, Kinds DEF Scanned
  <2>4. CASE Claim(t)
    <3>1. Goal
      BY <2>1, <2>2, <2>4, ClaimDoes DEF GoesTo, Moved
    <3> QED
      BY <2>1, <3>1, Kinds DEF Scanned
  <2>5. CASE Lock(t)
    <3>1. Goal
      BY <2>1, <2>2, <2>5, LockDoes DEF GoesTo, Moved
    <3> QED
      BY <2>1, <3>1, Kinds DEF Scanned
  <2>6. CASE ScanLease(t)
    <3>1. Goal
      <4>1. thread[t].at = "scan" /\ t \in Conductors
        BY <2>6, WhoIsThere DEF ScanLease, ClaimsWorktree, OwnsWorktree
      <4>2. CASE \E r \in thread[t].scan :
                  /\ LeaseFree(r)
                  /\ Moved(t, "scan", thread[t].run, thread[t].scan \ {r}, thread[t].reaper,
                           thread[t].said)
        BY <2>1, <2>2, <4>1, <4>2 DEF LeaseFree, Moved
      <4>3. CASE GoesTo(t, "claim run") /\ thread[t].scan = {}
        BY <2>1, <2>2, <4>1, <4>3 DEF GoesTo, Moved
      <4>4. CASE GoesTo(t, "close worktree")
        BY <4>4 DEF GoesTo, Moved
      <4> QED
        BY <2>6, <4>2, <4>3, <4>4, LeaseDoes
    <3> QED
      BY <2>1, <3>1, Kinds DEF Scanned
  <2>7. CASE TakeCleanup(t) \/ AskLease(t)
    <3>1. Goal
      BY <2>1, <2>2, <2>7, LeaseDoes DEF TakeCleanup, GoesTo, Moved
    <3> QED
      BY <2>1, <3>1, Kinds DEF Scanned
  <2>8. CASE Release(t)
    <3>1. Goal
      BY <2>1, <2>2, <2>8, ReleaseDoes DEF GoesTo, Moved
    <3> QED
      BY <2>1, <3>1, Kinds DEF Scanned
  <2>9. CASE Ask(t) \/ Query(t) \/ CloseProbe(t)
    <3>1. Goal
      BY <2>1, <2>2, <2>9, ProbeDoes DEF GoesTo, Moved
    <3> QED
      BY <2>1, <3>1, Kinds DEF Scanned
  <2>10. CASE Unlease(t)
    BY <2>1, <2>10 DEF Unlease, Scanned
  <2> QED
    BY <1>1, <2>3, <2>4, <2>5, <2>6, <2>7, <2>8, <2>9, <2>10
<1>2. ASSUME NEW p \in Process, Kill(p) PROVE Scanned'
  <2>1. ASSUME NEW t \in Conductors PROVE Clear(t)'
    <3>1. CASE ProcessOf[t] = p
      BY <1>2, <3>1, KillDoes, IdleShape, Kinds
    <3>2. CASE ProcessOf[t] # p
      <4>1. thread'[t] = thread[t]
        BY <1>2, <3>2, KillDoes, Kinds
      <4>2. CASE thread[t].at \in OwnsWorktree
        <5>1. \A r \in Runs : orphans'[r] = orphans[r]
          BY <1>2, <3>2, <4>2, Alone, KillDoes
        <5> QED
          BY <4>1, <5>1 DEF Scanned
      <4> QED
        BY <4>1, <4>2 DEF OwnsWorktree
    <3> QED
      BY <3>1, <3>2
  <2> QED
    BY <2>1 DEF Scanned
<1>3. CASE OrphanDone
  <2>1. \A r \in Runs : orphans[r] = 0 => orphans'[r] = 0
    BY <1>3 DEF OrphanDone, Shapes
  <2> QED
    BY <1>3, <2>1 DEF OrphanDone, Scanned
<1> QED
  BY <1>1, <1>2, <1>3 DEF Next

(* What a probe was told stays true to what it saw.                        *)
LEMMA ProbedKept ==
  ASSUME Shapes, Held, Accounted, Scanned, Probed, Next
  PROVE  Probed'
<1> DEFINE NoDriver(r) == \A u \in Conductors : ~(thread[u].at = "driving" /\ thread[u].run = r)
           Sure(t) ==
             /\ thread[t].said = "dead" => quiet[t]
             /\ thread[t].at = "ask lease" /\ ~quiet[t] =>
                  orphans[thread[t].run] > 0 /\ NoDriver(thread[t].run)
<1>1. Probers \subseteq Threads /\ Conductors \subseteq Threads /\ Shapes'
  BY Kinds, ShapesKept
(* The ghost: it rises when the run is free, and falls only at the next    *)
(* question.                                                               *)
<1>2. ASSUME NEW t \in Probers, thread'[t].run \in Runs
      PROVE  /\ thread[t] = thread'[t] /\ quiet[t] => quiet'[t]
             /\ thread[t].at # "idle" /\ quiet[t] => quiet'[t]
             /\ ~(thread[t] = thread'[t] /\ thread[t].at = "idle")
                  /\ orphans'[thread'[t].run] = 0 /\ NoDriver(thread[t].run)' => quiet'[t]
  <2>1. quiet'[t] = IF t \notin Probers \/ thread'[t].run \notin Runs THEN FALSE
                    ELSE IF thread[t] = thread'[t] /\ thread[t].at = "idle" THEN quiet[t]
                    ELSE \/ quiet[t] /\ thread[t].at # "idle"
                         \/ FreeIn(thread'[t].run, orphans', thread')
    BY <1>1 DEF Next, Watch
  <2>2. FreeIn(thread'[t].run, orphans', thread')
          <=> orphans'[thread'[t].run] = 0 /\ NoDriver(thread[t].run)'
    BY DEF FreeIn
  <2> HIDE DEF NoDriver
  <2> QED
    BY <1>2, <2>1, <2>2
(* A run with an agent of a killed conductor left gets no driver.          *)
<1>3. ASSUME NEW r \in Runs, orphans[r] > 0, NoDriver(r)
      PROVE  NoDriver(r)'
  <2>1. ASSUME NEW t \in Threads, \/ Begin(t) \/ StartAgent(t) \/ AgentSettled(t) \/ StopDriving(t)
        PROVE  NoDriver(r)'
    BY <1>1, <1>3, <2>1, DriverDoes DEF GoesTo, Moved
  <2>2. ASSUME NEW t \in Threads, Claim(t) PROVE NoDriver(r)'
    BY <1>1, <1>3, <2>2, ClaimDoes DEF GoesTo, Moved
  <2>3. ASSUME NEW t \in Threads, Lock(t) PROVE NoDriver(r)'
    BY <1>1, <1>3, <2>3, LockDoes DEF GoesTo, Moved
  <2>4. ASSUME NEW t \in Threads, ScanLease(t) PROVE NoDriver(r)'
    BY <1>1, <1>3, <2>4, LeaseDoes DEF ScanLease, GoesTo, Moved
  <2>5. ASSUME NEW t \in Threads, TakeCleanup(t) PROVE NoDriver(r)'
    <3>1. CASE GoesTo(t, "driving") /\ LeaseFree(thread[t].run)
      <4>1. thread[t].run # r
        BY <1>3, <3>1 DEF LeaseFree
      <4> QED
        BY <1>1, <1>3, <3>1, <4>1 DEF GoesTo, Moved
    <3>2. CASE GoesTo(t, "close run")
      BY <1>1, <1>3, <3>2 DEF GoesTo, Moved
    <3> QED
      BY <2>5, <3>1, <3>2, LeaseDoes
  <2>6. ASSUME NEW t \in Threads, Release(t) PROVE NoDriver(r)'
    BY <1>1, <1>3, <2>6, ReleaseDoes DEF GoesTo, Moved
  <2>7. ASSUME NEW t \in Threads, \/ Ask(t) \/ Query(t) \/ CloseProbe(t) PROVE NoDriver(r)'
    BY <1>1, <1>3, <2>7, ProbeDoes DEF GoesTo, Moved
  <2>8. ASSUME NEW t \in Threads, AskLease(t) PROVE NoDriver(r)'
    BY <1>1, <1>3, <2>8, LeaseDoes DEF GoesTo, Moved
  <2>9. ASSUME NEW t \in Threads, Unlease(t) PROVE NoDriver(r)'
    BY <1>3, <2>9 DEF Unlease
  <2>10. ASSUME NEW p \in Process, Kill(p) PROVE NoDriver(r)'
    BY <1>1, <1>3, <2>10, KillDoes, IdleShape
  <2>11. CASE OrphanDone
    BY <1>3, <2>11 DEF OrphanDone
  <2> QED
    BY <2>1, <2>2, <2>3, <2>4, <2>5, <2>6, <2>7, <2>8, <2>9, <2>10, <2>11 DEF Next
(* An answer or a wait that the step leaves alone.                         *)
<1>4. ASSUME NEW t \in Probers, thread'[t] = thread[t]
      PROVE  Sure(t)'
  <2>1. ASSUME thread[t].said = "dead"
        PROVE  quiet'[t]
    <3>1. thread'[t].run \in Runs /\ quiet[t]
      BY <1>4, <2>1 DEF Shapes, Fits, Threads, Probed
    <3> QED
      BY <1>2, <1>4, <2>1, <3>1
  <2>2. ASSUME thread[t].at = "ask lease", ~quiet'[t]
        PROVE  orphans'[thread'[t].run] > 0 /\ NoDriver(thread[t].run)'
    <3>1. thread'[t].run \in Runs /\ thread[t].run \in Runs
      BY <1>4, <1>1, <2>2, WhoIsThere
    <3>2. ~quiet[t]
      BY <1>2, <1>4, <2>2, <3>1
    <3>3. orphans[thread[t].run] > 0 /\ NoDriver(thread[t].run)
      BY <2>2, <3>2 DEF Probed
    <3>4. NoDriver(thread[t].run)'
      BY <1>3, <1>4, <3>1, <3>3
    <3>5. orphans'[thread'[t].run] # 0 /\ orphans'[thread'[t].run] \in Nat
      BY <1>1, <1>2, <1>4, <2>2, <3>1, <3>4 DEF Shapes
    <3> QED
      BY <3>4, <3>5
  <2> QED
    BY <1>4, <2>1, <2>2
(* A conductor with the run's lock is seen by the probe of another process.*)
<1>5. ASSUME NEW t \in Probers, Query(t)
      PROVE  Sure(t)'
  <2>1. thread[t].at = "query" /\ thread[t].run \in Runs
    BY <1>1, <1>5, WhoIsThere DEF Query
  <2>2. CASE /\ owner[thread[t].run] \in {NoProcess, ProcessOf[t]} /\ owner' = owner
             /\ GoesTo(t, "ask lease")
    <3>1. thread'[t].at = "ask lease" /\ thread'[t].run = thread[t].run
          /\ thread'[t].said = thread[t].said
      BY <2>2 DEF GoesTo, Moved
    <3>2. NoDriver(thread[t].run)
      <4>1. \A u \in Conductors : thread[u].at = "driving" /\ thread[u].run = thread[t].run
                                  => owner[thread[t].run] = ProcessOf[u]
        BY DEF Held, OwnsOf, Owns, OwnsRun
      <4>2. \A u \in Conductors : ProcessOf[u] \notin {NoProcess, ProcessOf[t]}
        BY <1>1, AskersDriveNothing, ThreadsHaveProcesses
      <4> QED
        BY <2>2, <4>1, <4>2
    <3>3. NoDriver(thread[t].run)'
      <4>1. \A u \in Conductors : thread'[u] = thread[u]
        BY <1>1, <2>2, AskersDriveNothing DEF GoesTo, Moved
      <4> QED
        BY <3>1, <3>2, <4>1
    <3>4. ASSUME ~quiet'[t]
          PROVE  orphans'[thread'[t].run] > 0
      <4>1. orphans'[thread'[t].run] # 0
        BY <1>2, <2>1, <3>1, <3>3, <3>4
      <4>2. orphans'[thread'[t].run] \in Nat
        BY <1>1, <2>1, <3>1 DEF Shapes
      <4> QED
        BY <4>1, <4>2
    <3>5. thread'[t].said = "dead" => quiet'[t]
      BY <1>2, <2>1, <3>1 DEF Probed
    <3> QED
      BY <3>3, <3>4, <3>5
  <2>3. CASE Moved(t, "idle", thread[t].run, thread[t].scan, thread[t].reaper, "running")
    BY <2>3 DEF Moved
  <2> QED
    BY <1>1, <1>5, <2>2, <2>3, ProbeDoes
(* A free cleanup lease means that no reaper is left: the run is free now  *)
(* unless it was before.                                                   *)
<1>6. ASSUME NEW t \in Probers, AskLease(t)
      PROVE  Sure(t)'
  <2>1. thread[t].at = "ask lease" /\ thread[t].run \in Runs
    BY <1>1, <1>6, WhoIsThere DEF AskLease
  <2>2. CASE /\ LeaseFree(thread[t].run)
             /\ Moved(t, "close probe", thread[t].run, thread[t].scan, thread[t].reaper, "dead")
    <3>1. quiet[t]
      <4>1. orphans[thread[t].run] = 0
        BY <2>2 DEF LeaseFree
      <4>2. ~quiet[t] => orphans[thread[t].run] > 0
        BY <2>1 DEF Probed
      <4> QED
        BY <4>1, <4>2
    <3>2. thread'[t].run \in Runs
      BY <2>1, <2>2 DEF Moved
    <3>3. quiet'[t]
      BY <1>2, <2>1, <3>1, <3>2
    <3>4. thread'[t].at = "close probe"
      BY <2>2 DEF Moved
    <3> QED
      BY <3>3, <3>4
  <2>3. CASE Moved(t, "close probe", thread[t].run, thread[t].scan, thread[t].reaper, "running")
    BY <2>3 DEF Moved
  <2> QED
    BY <1>1, <1>6, <2>2, <2>3, LeaseDoes
<1>7. ASSUME NEW t \in Probers, CloseProbe(t)
      PROVE  Sure(t)'
  <2>1. thread[t].at = "close probe" /\ thread[t].run \in Runs /\ GoesTo(t, "idle")
    BY <1>1, <1>7, WhoIsThere, ProbeDoes DEF CloseProbe
  <2>2. /\ thread'[t].at = "idle" /\ thread'[t].said = thread[t].said
        /\ thread'[t].run \in Runs
    BY <2>1 DEF GoesTo, Moved
  <2>3. thread[t].said = "dead" => quiet'[t]
    BY <1>2, <2>1, <2>2 DEF Probed
  <2> QED
    BY <2>2, <2>3
<1>8. ASSUME NEW t \in Probers, Ask(t)
      PROVE  Sure(t)'
  BY <1>1, <1>8, ProbeDoes DEF Moved
<1>9. ASSUME NEW t \in Probers
      PROVE  Sure(t)'
  <2>1. ASSUME NEW u \in Threads, u # t,
               \/ Begin(u) \/ Claim(u) \/ Lock(u) \/ ScanLease(u) \/ TakeCleanup(u) \/ Unlease(u)
               \/ StartAgent(u) \/ AgentSettled(u) \/ StopDriving(u) \/ Release(u)
               \/ Ask(u) \/ Query(u) \/ AskLease(u) \/ CloseProbe(u)
        PROVE  thread'[t] = thread[t]
    <3>1. CASE Begin(u) \/ StartAgent(u) \/ AgentSettled(u) \/ StopDriving(u)
      BY <1>1, <2>1, <3>1, DriverDoes DEF GoesTo, Moved
    <3>2. CASE Claim(u)
      BY <1>1, <2>1, <3>2, ClaimDoes DEF GoesTo, Moved
    <3>3. CASE Lock(u)
      BY <1>1, <2>1, <3>3, LockDoes DEF GoesTo, Moved
    <3>4. CASE ScanLease(u) \/ TakeCleanup(u) \/ AskLease(u)
      BY <1>1, <2>1, <3>4, LeaseDoes DEF GoesTo, Moved
    <3>5. CASE Release(u)
      BY <1>1, <2>1, <3>5, ReleaseDoes DEF GoesTo, Moved
    <3>6. CASE Ask(u) \/ Query(u) \/ CloseProbe(u)
      BY <1>1, <2>1, <3>6, ProbeDoes DEF GoesTo, Moved
    <3>7. CASE Unlease(u)
      BY <3>7 DEF Unlease
    <3> QED
      BY <2>1, <3>1, <3>2, <3>3, <3>4, <3>5, <3>6, <3>7
  <2>2. ASSUME \/ Begin(t) \/ Claim(t) \/ Lock(t) \/ ScanLease(t) \/ TakeCleanup(t)
               \/ StartAgent(t) \/ AgentSettled(t) \/ StopDriving(t) \/ Release(t)
        PROVE  FALSE
    BY <1>1, <2>2, AskersDriveNothing, WhoIsThere, DriverDoes, ClaimDoes
       DEF Begin, Claim, Lock, ScanLease, TakeCleanup, StartAgent, Driving, AgentSettled, StopDriving,
           Release, ClaimsWorktree, OwnsWorktree
  <2>3. CASE Unlease(t) \/ OrphanDone
    BY <1>4, <2>3 DEF Unlease, OrphanDone
  <2>4. ASSUME NEW p \in Process, Kill(p)
        PROVE  Sure(t)'
    <3>1. CASE ProcessOf[t] = p
      BY <1>1, <2>4, <3>1, KillDoes, IdleShape
    <3>2. CASE ProcessOf[t] # p
      BY <1>1, <1>4, <2>4, <3>2, KillDoes
    <3> QED
      BY <3>1, <3>2
  <2>5. ASSUME NEW u \in Threads,
               \/ Begin(u) \/ Claim(u) \/ Lock(u) \/ ScanLease(u) \/ TakeCleanup(u) \/ Unlease(u)
               \/ StartAgent(u) \/ AgentSettled(u) \/ StopDriving(u) \/ Release(u)
               \/ Ask(u) \/ Query(u) \/ AskLease(u) \/ CloseProbe(u)
        PROVE  Sure(t)'
    <3>1. CASE u # t
      BY <1>4, <2>1, <2>5, <3>1
    <3>2. CASE u = t
      <4>1. CASE Ask(t) \/ Query(t) \/ AskLease(t) \/ CloseProbe(t)
        BY <1>5, <1>6, <1>7, <1>8, <4>1
      <4>2. CASE Unlease(t)
        BY <2>3, <4>2
      <4> QED
        BY <2>2, <2>5, <3>2, <4>1, <4>2
    <3> QED
      BY <3>1, <3>2
  <2> QED
    BY <2>3, <2>4, <2>5 DEF Next
<1> QED
  BY <1>9 DEF Probed

LEMMA IInvKept == IInv /\ [Next]_vars => IInv'
<1> SUFFICES ASSUME IInv, [Next]_vars PROVE IInv'
  OBVIOUS
<1>1. CASE Next
  BY <1>1, ShapesKept, HeldKept, ScannedKept, ProbedKept DEF IInv
<1>2. CASE UNCHANGED vars
  BY <1>2 DEF vars, IInv, Shapes, Held, Accounted, Scanned, Probed, ClaimsOf, OwnsOf
<1> QED
  BY <1>1, <1>2

LEMMA IInvAlways == Spec => []IInv
<1> QED
  BY IInvInit, IInvKept, PTL DEF Spec

(* Two engines never drive one worktree, whoever drives has the locks as   *)
(* long as it does, and when nobody is in the middle of anything nothing   *)
(* is held (rundir.rs: acquire_in, release_claim_after_file, is_running).  *)
THEOREM LocksFollowTheDriverAlways == Spec => []LocksFollowTheDriver
<1>1. IInv => LocksFollowTheDriver
  <2> SUFFICES ASSUME IInv PROVE LocksFollowTheDriver
    OBVIOUS
  <2>1. TypeOK
    <3>1. ASSUME NEW r \in Runs PROVE Cardinality(probing[r]) <= 1
      <4>1. CASE probing[r] = {}
        BY <4>1, FS_EmptySet
      <4>2. CASE probing[r] # {}
        <5>1. PICK t \in probing[r] : TRUE
          BY <4>2
        <5>2. probing[r] = {t}
          BY <5>1 DEF IInv, Shapes
        <5> QED
          BY <5>2, FS_Singleton
      <4> QED
        BY <4>1, <4>2
    <3> QED
      BY <3>1 DEF IInv, Shapes, TypeOK, Thread
  <2>2. \A t \in Conductors : thread[t].at = "driving" =>
           /\ owner[Worktree] = ProcessOf[t] /\ owner[thread[t].run] = ProcessOf[t]
           /\ thread[t].at \in ClaimsWorktree
    BY DEF IInv, Held, OwnsOf, Owns, OwnsWorktree, OwnsRun, ClaimsWorktree
  <2>3. OneDriver
    BY <2>2 DEF OneDriver, IInv, Held
  <2>4. LocksNotStripped
    BY <2>2 DEF LocksNotStripped
  <2>5. NothingStale
    BY Kinds, IdleHolds DEF NothingStale, IInv, Shapes, Accounted, ClaimsOf, OwnsOf
  <2> QED
    BY <2>1, <2>3, <2>4, <2>5 DEF LocksFollowTheDriver
<1> QED
  BY <1>1, IInvAlways, PTL

(* Nobody drives any run of the worktree while a crash reaper of any of    *)
(* them is at work: the scan asked about each, and nobody else could leave *)
(* one behind since.                                                       *)
THEOREM AgentsDoNotOverlapAlways == Spec => []AgentsDoNotOverlap
<1>1. IInv => AgentsDoNotOverlap
  BY DEF IInv, Scanned, AgentsDoNotOverlap
<1> QED
  BY <1>1, IInvAlways, PTL

(* A probe that says "dead" is right: the run was free at some instant     *)
(* between its question and its answer.                                    *)
THEOREM DeadWasDeadAlways == Spec => []DeadWasDead
<1>1. IInv => DeadWasDead
  BY DEF IInv, Probed, DeadWasDead
<1> QED
  BY <1>1, IInvAlways, PTL

=============================================================================
