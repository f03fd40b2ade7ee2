------------------------ MODULE SuiteLauncherProofs ------------------------
(***************************************************************************)
(* Proofs about the programs of the suite, for every set of satellites and  *)
(* every number of processes: however two launchers, crashes, roll-backs    *)
(* and stale lock files interleave, there is one of each program.           *)
(*                                                                          *)
(* That is inductive once it says who holds the lock: a program that is past *)
(* its tryLock is the one its lock file names.  The decoder needs the       *)
(* exemption from the start, since a lock that is removed while its owner   *)
(* lives leaves two owners, and the orderly end of one removes the file of  *)
(* the other.  The configuration follows from it while the proxy is on the  *)
(* window's list, and a roll-back is complete because what it has ended     *)
(* stays ended.                                                             *)
(*                                                                          *)
(* The second half is about the SDR programs, for every set of names and    *)
(* every length of the list: the preset, and then the list with its         *)
(* chooser.  What the loop of a deletion retains takes an induction over    *)
(* the list, done with the least entry at which it would fail.              *)
(***************************************************************************)
EXTENDS SuiteLauncher, SdrPrograms, FiniteSetTheorems,
        WellFoundedInduction, TLAPS

Programs == Locked \cup {"player"}

ProcessRecord == [prog : Programs \cup {"none"}, phase : Phases, code : Int]

LaunchRecord ==
    [todo : Seq(Programs), on : Pids \cup {0}, mine : SUBSET Pids,
     kill : SUBSET Pids, satellite : Satellites \cup {NoSatellite}]

\* A launcher that waits for a program has it on its list.
Lists(la) ==
    /\ la \in [Launchers -> LaunchRecord]
    /\ \A l \in Launchers : la[l].on # 0 => la[l].todo # <<>>

\* The records have the fields that the handlers read.
Records ==
    /\ proc \in [Pids -> ProcessRecord]
    /\ Lists(launch)
    /\ lock \in [Locked -> Pids \cup {Free, Broken}]
    /\ windows \in BOOLEAN /\ stolen \in BOOLEAN /\ ready \subseteq Pids
    /\ saved \in Satellites /\ config \in Satellites \cup {NoSatellite}

\* Which program can be where.
Places(pr) ==
    \A p \in Pids :
        /\ pr[p].phase # "dead" => pr[p].prog \in Programs
        /\ pr[p].phase \in {"refused", "replacing"} => pr[p].prog = "decoder"
        /\ pr[p].phase = "orphan" => pr[p].prog = "proxy"

Stolen(w, st) == ~w /\ st

\* Past its tryLock, a program is the one that the lock file names.
Holders(pr, lo, w, st) ==
    \A p \in Pids :
        pr[p].phase \in {"locked", "up"} /\ pr[p].prog \in Locked
        => lo[pr[p].prog] = p \/ (pr[p].prog = "decoder" /\ Stolen(w, st))

LauncherInv == Records /\ Places(proc) /\ Holders(proc, lock, windows, stolen)

-----------------------------------------------------------------------------

\* The initial states satisfy the invariant.
LEMMA LauncherInit == Init => LauncherInv
<1> SUFFICES ASSUME Init PROVE LauncherInv
  OBVIOUS
<1>1. Gone(1) \in ProcessRecord /\ Gone(1).phase = "dead"
  BY DEF Gone, ProcessRecord, Phases
<1>2. NoLaunch \in LaunchRecord
  BY DEF NoLaunch, LaunchRecord
<1>6. Lists(launch)
  BY <1>2 DEF Init, Lists, NoLaunch
<1>3. lock \in [Locked -> Pids \cup {Free, Broken}]
  BY DEF Init
<1>4. Records
  BY <1>1, <1>3, <1>6, LauncherAssumption DEF Init, Records, Satellites
<1>5. Places(proc) /\ Holders(proc, lock, windows, stolen)
  BY <1>1 DEF Init, Places, Holders
<1> QED
  BY <1>4, <1>5 DEF LauncherInv

-----------------------------------------------------------------------------
(***************************************************************************)
(* What a step does to a process and its lock.                              *)
(***************************************************************************)

\* A pid is no mark of a free lock.
LEMMA PidsAreOwners == Free \notin Pids /\ Broken \notin Pids
BY LauncherAssumption DEF Free, Broken, Pids

\* A process that exits leaves the locks of the others alone.
LEMMA ExitKeeps ==
    ASSUME LauncherInv, NEW p \in Pids, NEW code \in Int, Exit(p, code)
    PROVE  /\ proc' \in [Pids -> ProcessRecord]
           /\ lock' \in [Locked -> Pids \cup {Free, Broken}]
           /\ Places(proc')
           /\ Holders(proc', lock', windows, stolen)
<1> DEFINE g == Gone(IF windows /\ \E l \in Launchers : launch[l].on = p
                     THEN code ELSE 1)
<1>1. g \in ProcessRecord /\ g.phase = "dead"
  BY DEF Gone, ProcessRecord, Phases
<1>2. proc \in [Pids -> ProcessRecord] /\ lock \in [Locked -> Pids \cup {Free, Broken}]
  BY DEF LauncherInv, Records
<1>3. proc' = [proc EXCEPT ![p] = g] /\ lock' = Unlocked(p)
  BY DEF Exit
<1> HIDE DEF g
<1>4. proc' \in [Pids -> ProcessRecord]
      /\ \A q \in Pids : proc'[q] = IF q = p THEN g ELSE proc[q]
  BY <1>1, <1>2, <1>3
<1>5. lock' \in [Locked -> Pids \cup {Free, Broken}]
      /\ \A prog \in Locked : lock[prog] # p => lock'[prog] = lock[prog]
  BY <1>2, <1>3 DEF Unlocked
<1>6. Places(proc')
  BY <1>1, <1>4 DEF LauncherInv, Places
<1>7. Holders(proc', lock', windows, stolen)
  <2> SUFFICES ASSUME NEW q \in Pids, proc'[q].phase \in {"locked", "up"},
                      proc'[q].prog \in Locked
               PROVE  lock'[proc'[q].prog] = q
                      \/ (proc'[q].prog = "decoder" /\ Stolen(windows, stolen))
    BY DEF Holders
  <2>1. q # p /\ proc'[q] = proc[q]
    BY <1>1, <1>4
  <2>2. lock[proc[q].prog] = q
        \/ (proc[q].prog = "decoder" /\ Stolen(windows, stolen))
    BY <2>1 DEF LauncherInv, Holders
  <2> QED
    BY <1>5, <2>1, <2>2
<1> QED
  BY <1>4, <1>5, <1>6, <1>7

\* A process whose phase changes, but for taking a lock.
LEMMA BecomeKeeps ==
    ASSUME LauncherInv, NEW p \in Pids, NEW phase \in Phases, Become(p, phase),
           lock' = lock, phase # "dead", proc[p].phase # "dead",
           phase \in {"refused", "replacing"} => proc[p].prog = "decoder",
           phase = "orphan" => proc[p].prog = "proxy",
           phase \in {"locked", "up"}
              => proc[p].phase = "locked" \/ proc[p].prog = "player"
    PROVE  /\ proc' \in [Pids -> ProcessRecord] /\ Places(proc')
           /\ Holders(proc', lock', windows, stolen)
<1>1. proc \in [Pids -> ProcessRecord]
  BY DEF LauncherInv, Records
<1>2. [proc[p] EXCEPT !.phase = phase] \in ProcessRecord
      /\ [proc[p] EXCEPT !.phase = phase].phase = phase
      /\ [proc[p] EXCEPT !.phase = phase].prog = proc[p].prog
  BY <1>1 DEF ProcessRecord
<1>3. proc' = [proc EXCEPT ![p] = [proc[p] EXCEPT !.phase = phase]]
  BY <1>1 DEF Become
<1>4. proc' \in [Pids -> ProcessRecord]
      /\ \A q \in Pids : q # p => proc'[q] = proc[q]
  BY <1>1, <1>2, <1>3
<1>5. proc'[p].phase = phase /\ proc'[p].prog = proc[p].prog
  BY <1>1, <1>2, <1>3
<1>6. Places(proc')
  BY <1>4, <1>5 DEF LauncherInv, Places
<1>7. Holders(proc', lock', windows, stolen)
  <2> SUFFICES ASSUME NEW q \in Pids, proc'[q].phase \in {"locked", "up"},
                      proc'[q].prog \in Locked
               PROVE  lock[proc'[q].prog] = q
                      \/ (proc'[q].prog = "decoder" /\ Stolen(windows, stolen))
    BY DEF Holders
  <2>1. proc[q].phase \in {"locked", "up"} /\ proc[q].prog = proc'[q].prog
    BY <1>4, <1>5 DEF Locked
  <2> QED
    BY <2>1 DEF LauncherInv, Holders
<1> QED
  BY <1>4, <1>6, <1>7

\* A process takes its lock: nobody holds it, or a decoder's is stolen.
LEMMA AcquireKeeps ==
    ASSUME LauncherInv, NEW p \in Pids, NEW st \in BOOLEAN, Acquire(p),
           proc[p].prog \in Locked, Stolen(windows, stolen) => Stolen(windows, st),
           \/ lock[proc[p].prog] \notin Pids
           \/ proc[p].prog = "decoder" /\ Stolen(windows, st)
    PROVE  /\ proc' \in [Pids -> ProcessRecord] /\ Places(proc')
           /\ lock' \in [Locked -> Pids \cup {Free, Broken}]
           /\ Holders(proc', lock', windows, st)
<1>1. proc \in [Pids -> ProcessRecord] /\ lock \in [Locked -> Pids \cup {Free, Broken}]
  BY DEF LauncherInv, Records
<1>2. [proc[p] EXCEPT !.phase = "locked"] \in ProcessRecord
      /\ [proc[p] EXCEPT !.phase = "locked"].phase = "locked"
      /\ [proc[p] EXCEPT !.phase = "locked"].prog = proc[p].prog
  BY <1>1 DEF ProcessRecord, Phases
<1>3. proc' = [proc EXCEPT ![p] = [proc[p] EXCEPT !.phase = "locked"]]
      /\ lock' = [lock EXCEPT ![proc[p].prog] = p]
  BY <1>1 DEF Become, Acquire
<1>4. proc' \in [Pids -> ProcessRecord]
      /\ \A q \in Pids : q # p => proc'[q] = proc[q]
  BY <1>1, <1>2, <1>3
<1>5. proc'[p].phase = "locked" /\ proc'[p].prog = proc[p].prog
  BY <1>1, <1>2, <1>3
<1>6. /\ lock' \in [Locked -> Pids \cup {Free, Broken}]
      /\ lock'[proc[p].prog] = p
      /\ \A prog \in Locked : prog # proc[p].prog => lock'[prog] = lock[prog]
  BY <1>1, <1>3
<1>7. Places(proc')
  BY <1>4, <1>5 DEF LauncherInv, Places, Programs
<1>8. Holders(proc', lock', windows, st)
  <2> SUFFICES ASSUME NEW q \in Pids, proc'[q].phase \in {"locked", "up"},
                      proc'[q].prog \in Locked
               PROVE  lock'[proc'[q].prog] = q
                      \/ (proc'[q].prog = "decoder" /\ Stolen(windows, st))
    BY DEF Holders
  <2>1. CASE q = p
    BY <1>5, <1>6, <2>1
  <2>2. CASE q # p
    <3>1. proc'[q] = proc[q]
      BY <1>4, <2>2
    <3>2. lock[proc[q].prog] = q
          \/ (proc[q].prog = "decoder" /\ Stolen(windows, stolen))
      BY <3>1 DEF LauncherInv, Holders
    <3>3. CASE proc[q].prog # proc[p].prog
      BY <1>6, <3>1, <3>2, <3>3
    <3>4. CASE proc[q].prog = proc[p].prog
      BY <3>1, <3>2, <3>4
    <3> QED
      BY <3>3, <3>4
  <2> QED
    BY <2>1, <2>2
<1> QED
  BY <1>4, <1>6, <1>7, <1>8

-----------------------------------------------------------------------------
(***************************************************************************)
(* The processes.                                                           *)
(***************************************************************************)

\* A process loads, takes its lock, comes up, exits.
LEMMA ProcessSteps ==
    ASSUME LauncherInv, NEW p \in Pids, Process(p)
    PROVE  LauncherInv'
<1>1. /\ Records /\ Places(proc) /\ Holders(proc, lock, windows, stolen)
      /\ proc \in [Pids -> ProcessRecord]
      /\ lock \in [Locked -> Pids \cup {Free, Broken}]
      /\ windows \in BOOLEAN /\ stolen \in BOOLEAN
  BY DEF LauncherInv, Records
<1>2. UNCHANGED <<windows, launch, saved, config>> /\ ready' \subseteq Pids
      /\ stolen' \in BOOLEAN
  <2>1. CASE TryLock(p) \/ Examine(p) \/ ReplaceLock(p) \/ CloseUnlinks(p)
             \/ Close(p)
    BY <1>1, <2>1
    DEF TryLock, Examine, ReplaceLock, CloseUnlinks, Close, Records, system
  <2>2. CASE ComeUp(p)
    BY <1>1, <2>2 DEF ComeUp, Records, system
  <2> QED
    BY <2>1, <2>2 DEF Process
<1>3. SUFFICES /\ proc' \in [Pids -> ProcessRecord] /\ Places(proc')
               /\ lock' \in [Locked -> Pids \cup {Free, Broken}]
               /\ Holders(proc', lock', windows, stolen')
  BY <1>1, <1>2 DEF LauncherInv, Records
<1>4. ASSUME NEW code \in Int, Exit(p, code), stolen' = stolen
      PROVE  /\ proc' \in [Pids -> ProcessRecord] /\ Places(proc')
             /\ lock' \in [Locked -> Pids \cup {Free, Broken}]
             /\ Holders(proc', lock', windows, stolen')
  BY <1>1, <1>4, ExitKeeps
<1>5. CASE TryLock(p)
  <2>1. proc[p].phase = "loading" /\ stolen' = stolen /\ proc[p].prog \in Programs
    BY <1>1, <1>5 DEF TryLock, Places, system
  <2>2. CASE proc[p].prog = "player"
    <3>1. Become(p, "locked") /\ lock' = lock
      BY <1>5, <2>2 DEF TryLock
    <3> QED
      BY <1>1, <2>1, <2>2, <3>1, BecomeKeeps DEF Phases
  <2>3. CASE proc[p].prog # "player" /\ lock[proc[p].prog] = Free
    <3>1. Acquire(p) /\ proc[p].prog \in Locked
      BY <1>5, <2>1, <2>3 DEF TryLock, Programs
    <3> QED
      BY <1>1, <2>1, <2>3, <3>1, AcquireKeeps, PidsAreOwners
  <2>4. CASE proc[p].prog = "decoder" /\ lock[proc[p].prog] # Free
    <3>1. Become(p, "refused") /\ lock' = lock
      BY <1>5, <2>4 DEF TryLock
    <3> QED
      BY <1>1, <2>1, <2>4, <3>1, BecomeKeeps DEF Phases
  <2>5. CASE proc[p].prog \notin {"player", "decoder"} /\ lock[proc[p].prog] # Free
    <3>1. Exit(p, 3)
      BY <1>5, <2>5 DEF TryLock
    <3> QED
      BY <1>4, <2>1, <3>1
  <2> QED
    BY <2>2, <2>3, <2>4, <2>5
<1>6. CASE Examine(p)
  <2>1. proc[p].phase = "refused" /\ stolen' = stolen /\ proc[p].prog = "decoder"
    BY <1>1, <1>6 DEF Examine, Places, system
  <2>2. CASE lock["decoder"] \in Pids
    <3>1. Exit(p, 3)
      BY <1>6, <2>2 DEF Examine
    <3> QED
      BY <1>4, <2>1, <3>1
  <2>3. CASE lock["decoder"] \notin Pids
    <3>1. Become(p, "replacing") /\ lock' = lock
      BY <1>6, <2>3 DEF Examine
    <3> QED
      BY <1>1, <2>1, <3>1, BecomeKeeps DEF Phases
  <2> QED
    BY <2>2, <2>3
<1>7. CASE ReplaceLock(p)
  <2>1. /\ proc[p].phase = "replacing" /\ proc[p].prog = "decoder"
        /\ stolen' = (stolen \/ (~windows /\ lock["decoder"] \in Pids))
    BY <1>1, <1>7 DEF ReplaceLock, Places
  <2>2. CASE windows /\ lock["decoder"] \in Pids
    <3>1. Exit(p, 3) /\ stolen' = stolen
      BY <1>1, <1>7, <2>1, <2>2 DEF ReplaceLock
    <3> QED
      BY <1>4, <3>1
  <2>3. CASE ~(windows /\ lock["decoder"] \in Pids)
    <3>1. Acquire(p)
      BY <1>7, <2>3 DEF ReplaceLock
    <3>2. /\ proc[p].prog \in Locked
          /\ Stolen(windows, stolen) => Stolen(windows, stolen')
          /\ lock[proc[p].prog] \notin Pids \/ Stolen(windows, stolen')
      BY <1>1, <2>1, <2>3 DEF Stolen, Locked
    <3> QED
      BY <1>2, <2>1, <3>1, <3>2, AcquireKeeps
  <2> QED
    BY <2>2, <2>3
<1>8. CASE ComeUp(p)
  <2>1. proc[p].phase = "locked" /\ stolen' = stolen
    BY <1>8 DEF ComeUp, system
  <2>2. CASE proc[p].prog = "proxy" /\ ~Configured
    <3>1. Exit(p, 1)
      BY <1>8, <2>2 DEF ComeUp
    <3> QED
      BY <1>4, <2>1, <3>1
  <2>3. CASE ~(proc[p].prog = "proxy" /\ ~Configured)
    <3>1. Become(p, "up") /\ lock' = lock
      BY <1>8, <2>3 DEF ComeUp
    <3> QED
      BY <1>1, <2>1, <3>1, BecomeKeeps DEF Phases
  <2> QED
    BY <2>2, <2>3
<1>9. CASE Close(p)
  <2>1. Exit(p, 1) /\ stolen' = stolen
    BY <1>9 DEF Close, system
  <2> QED
    BY <1>4, <2>1
<1>10. CASE CloseUnlinks(p)
  <2>1. /\ proc[p].phase \in {"locked", "up"} /\ proc[p].prog = "decoder"
        /\ lock["decoder"] # p /\ stolen' = stolen
        /\ proc' = [proc EXCEPT ![p] = Gone(1)]
        /\ lock' = [lock EXCEPT !["decoder"] = Free]
    BY <1>10 DEF CloseUnlinks, system
  <2>2. Stolen(windows, stolen')
    BY <1>1, <2>1 DEF Holders, Locked
  <2>3. Gone(1) \in ProcessRecord /\ Gone(1).phase = "dead"
    BY DEF Gone, ProcessRecord, Phases
  <2>4. proc' \in [Pids -> ProcessRecord]
        /\ \A q \in Pids : proc'[q] = IF q = p THEN Gone(1) ELSE proc[q]
    BY <1>1, <2>1, <2>3
  <2>5. lock' \in [Locked -> Pids \cup {Free, Broken}]
        /\ \A prog \in Locked \ {"decoder"} : lock'[prog] = lock[prog]
    BY <1>1, <2>1
  <2>6. Places(proc')
    BY <1>1, <2>3, <2>4 DEF Places
  <2>7. Holders(proc', lock', windows, stolen')
    BY <1>1, <2>2, <2>3, <2>4, <2>5 DEF Holders
  <2> QED
    BY <2>4, <2>5, <2>6, <2>7
<1> QED
  BY <1>5, <1>6, <1>7, <1>8, <1>9, <1>10 DEF Process

-----------------------------------------------------------------------------
(***************************************************************************)
(* The launchers.                                                           *)
(***************************************************************************)

\* What is left to start, or to take back, is well formed.
LEMMA LaunchKeeps ==
    ASSUME LauncherInv, NEW l \in Launchers, NEW pids \in SUBSET Pids,
           TakeBack(l, pids)
           \/ (launch[l].todo # <<>> /\ NextProgram(l, pids))
    PROVE  Lists(launch')
<1>1. /\ launch \in [Launchers -> LaunchRecord]
      /\ \A k \in Launchers : launch[k].on # 0 => launch[k].todo # <<>>
  BY DEF LauncherInv, Records, Lists
<1>2. NoLaunch \in LaunchRecord /\ NoLaunch.on = 0
  BY DEF NoLaunch, LaunchRecord
<1>5. ASSUME NEW new \in LaunchRecord, new.on = 0,
             launch' = [launch EXCEPT ![l] = new]
      PROVE  Lists(launch')
  BY <1>1, <1>5 DEF Lists
<1>3. CASE TakeBack(l, pids)
  <2> DEFINE new == [launch[l] EXCEPT !.todo = <<>>, !.on = 0, !.kill = pids]
  <2>1. new \in LaunchRecord /\ new.on = 0
    <3>1. <<>> \in Seq(Programs) /\ 0 \in Pids \cup {0} /\ launch[l] \in LaunchRecord
      BY <1>1
    <3> QED
      BY <3>1 DEF LaunchRecord
  <2>2. launch' = [launch EXCEPT ![l] = IF pids = {} THEN NoLaunch ELSE new]
    BY <1>1, <1>3 DEF TakeBack
  <2> QED
    BY <1>2, <1>5, <2>1, <2>2
<1>4. CASE launch[l].todo # <<>> /\ NextProgram(l, pids)
  <2>1. launch[l].todo \in Seq(Programs) /\ launch[l].mine \subseteq Pids
    BY <1>1 DEF LaunchRecord
  <2>2. Tail(launch[l].todo) \in Seq(Programs)
    BY <1>4, <2>1
  <2> DEFINE new == [launch[l] EXCEPT !.todo = Tail(launch[l].todo), !.on = 0,
                                      !.mine = launch[l].mine \cup pids]
  <2>3. new \in LaunchRecord /\ new.on = 0
    BY <1>1, <2>1, <2>2 DEF LaunchRecord
  <2>4. launch' = [launch EXCEPT ![l] =
                      IF Tail(launch[l].todo) = <<>> THEN NoLaunch ELSE new]
    BY <1>1, <1>4 DEF NextProgram
  <2> QED
    BY <1>2, <1>5, <2>3, <2>4
<1> QED
  BY <1>3, <1>4

\* A program that is not started is passed over, or all are taken back.
LEMMA NotStartedKeeps ==
    ASSUME LauncherInv, NEW l \in Launchers, NEW pids \in SUBSET Pids,
           launch[l].todo # <<>>, NotStarted(l, pids) \/ GiveUp(l, pids)
    PROVE  Lists(launch')
<1>1. launch[l].mine \cup pids \in SUBSET Pids /\ {} \in SUBSET Pids
  BY DEF LauncherInv, Records, Lists, LaunchRecord
<1>2. CASE NextProgram(l, {})
  BY <1>1, <1>2, LaunchKeeps
<1>3. CASE GiveUp(l, pids)
  BY <1>1, <1>3, LaunchKeeps DEF GiveUp
<1> QED
  BY <1>2, <1>3 DEF NotStarted

\* A waiting launcher has a program that it waits for.
LEMMA WaitsFor ==
    ASSUME LauncherInv, NEW l \in Launchers, NEW progs, Waits(l, progs)
    PROVE  launch[l].on \in Pids /\ launch[l].todo # <<>>
BY DEF LauncherInv, Records, Lists, LaunchRecord, Waits

\* The window's handlers touch no process and no lock.
LEMMA HandlerSteps ==
    ASSUME LauncherInv,
           Start \/ Play \/ Command \/ Upload \/ AutoSave \/ Reopen
    PROVE  LauncherInv'
<1>1. Records /\ Lists(launch) /\ launch \in [Launchers -> LaunchRecord]
  BY DEF LauncherInv, Records, Lists
<1>2. "window" \in Launchers /\ "command" \in Launchers
      /\ "decoder" \in Programs /\ "player" \in Programs
      /\ "proxy" \in Programs /\ "uploader" \in Programs
  BY DEF Launchers, Programs, Locked
<1>3. UNCHANGED <<system, proc, lock, ready>>
  BY DEF Start, Play, Command, Upload, AutoSave, Reopen
<1>4. saved' \in Satellites /\ config' \in Satellites \cup {NoSatellite}
  BY <1>1 DEF Start, Play, Command, Upload, AutoSave, Reopen, Save, Records
<1>5. ASSUME NEW l \in Launchers, NEW todo \in Seq(Programs),
             NEW satellite \in Satellites \cup {NoSatellite},
             Begin(l, todo, satellite)
      PROVE  Lists(launch')
  <2>1. [launch[l] EXCEPT !.todo = todo, !.satellite = satellite]
           \in LaunchRecord
    BY <1>1 DEF LaunchRecord
  <2>2. launch' = [launch EXCEPT ![l] =
           [launch[l] EXCEPT !.todo = todo, !.satellite = satellite]]
    BY <1>1, <1>5 DEF Begin
  <2>3. launch[l].on = 0
    BY <1>1, <1>5 DEF Begin, Busy, Lists
  <2>4. [launch[l] EXCEPT !.todo = todo, !.satellite = satellite].on = 0
    BY <1>1, <2>3 DEF LaunchRecord
  <2> QED
    BY <1>1, <2>1, <2>2, <2>4 DEF Lists
<1>6. Lists(launch')
  <2>1. CASE Start \/ Play \/ Command
    <3>1. /\ <<"decoder">> \in Seq(Programs) /\ <<"player">> \in Seq(Programs)
          /\ <<"proxy", "decoder">> \in Seq(Programs)
      BY <1>2
    <3>2. NoSatellite \in Satellites \cup {NoSatellite}
      OBVIOUS
    <3> QED
      BY <1>2, <1>5, <2>1, <3>1, <3>2 DEF Start, Play, Command
  <2>2. CASE Upload
    <3>1. ASSUME NEW satellite \in Satellites, NEW satnogs \in BOOLEAN
          PROVE  Uploads(satellite, satnogs) \in Seq(Programs)
      <4>1. /\ (IF satnogs THEN <<"uploader">> ELSE <<>>) \in Seq(Programs)
            /\ (IF satellite \in MmtSatellites THEN <<"proxy">> ELSE <<>>)
                 \in Seq(Programs)
        BY <1>2
      <4> QED
        BY <4>1 DEF Uploads
    <3>2. \/ UNCHANGED launch
          \/ \E satellite \in Satellites, satnogs \in BOOLEAN :
                Begin("window", Uploads(satellite, satnogs), satellite)
      BY <2>2 DEF Upload
    <3> QED
      BY <1>1, <1>2, <1>5, <3>1, <3>2
  <2>3. CASE AutoSave \/ Reopen
    BY <1>1, <2>3 DEF AutoSave, Reopen
  <2> QED
    BY <2>1, <2>2, <2>3
<1>7. Records'
  BY <1>1, <1>3, <1>4, <1>6 DEF Records, system
<1> QED
  BY <1>3, <1>7 DEF LauncherInv, Places, Holders, system

\* A launcher starts, waits for and takes back programs.
LEMMA LaunchSteps ==
    ASSUME LauncherInv, NEW l \in Launchers, Launch(l)
    PROVE  LauncherInv'
<1>1. /\ Records /\ Places(proc) /\ Holders(proc, lock, windows, stolen)
      /\ proc \in [Pids -> ProcessRecord]
      /\ lock \in [Locked -> Pids \cup {Free, Broken}]
      /\ Lists(launch) /\ launch \in [Launchers -> LaunchRecord]
      /\ ready \subseteq Pids
  BY DEF LauncherInv, Records, Lists
<1>2. UNCHANGED <<system, saved, config>>
  BY DEF Launch, Spawn, Survived, ExitedEarly, DecoderReady, DecoderNotReady,
         Terminate
<1>3. SUFFICES /\ Lists(launch') /\ ready' \subseteq Pids
               /\ proc' \in [Pids -> ProcessRecord] /\ Places(proc')
               /\ lock' \in [Locked -> Pids \cup {Free, Broken}]
               /\ Holders(proc', lock', windows, stolen)
  BY <1>1, <1>2 DEF LauncherInv, Records, system
<1>4. CASE Spawn(l)
  <2>1. launch[l].todo # <<>> /\ lock' = lock
    BY <1>4 DEF Spawn
  <2>2. CASE NotStarted(l, {}) /\ UNCHANGED <<proc, ready>>
    BY <1>1, <2>1, <2>2, NotStartedKeeps
  <2>3. CASE /\ Unused # {}
             /\ proc' = [proc EXCEPT ![Pid] =
                            [prog |-> Head(launch[l].todo), phase |-> "loading",
                             code |-> 0]]
             /\ launch' = [launch EXCEPT ![l].on = Pid]
             /\ ready' = ready \ {Pid}
    <3> DEFINE new == [prog |-> Head(launch[l].todo), phase |-> "loading",
                       code |-> 0]
    <3>1. Pid \in Pids
      BY <2>3 DEF Pid, Unused
    <3>2. launch[l].todo \in Seq(Programs)
      BY <1>1 DEF LaunchRecord
    <3>3. Head(launch[l].todo) \in Programs
      BY <2>1, <3>2
    <3>4. new \in ProcessRecord /\ new.phase = "loading" /\ new.prog \in Programs
      BY <3>3 DEF ProcessRecord, Phases
    <3> HIDE DEF new
    <3>5. proc' \in [Pids -> ProcessRecord]
          /\ \A q \in Pids : proc'[q] = IF q = Pid THEN new ELSE proc[q]
      BY <1>1, <2>3, <3>1, <3>4 DEF new
    <3>6. Places(proc') /\ Holders(proc', lock', windows, stolen)
      BY <1>1, <2>1, <3>4, <3>5 DEF Places, Holders
    <3>7. [launch[l] EXCEPT !.on = Pid] \in LaunchRecord
      BY <1>1, <3>1 DEF LaunchRecord
    <3>8. launch' = [launch EXCEPT ![l] = [launch[l] EXCEPT !.on = Pid]]
      BY <1>1, <2>3
    <3>9. [launch[l] EXCEPT !.on = Pid].todo # <<>>
      BY <1>1, <2>1 DEF LaunchRecord
    <3>10. Lists(launch')
      BY <1>1, <3>7, <3>8, <3>9 DEF Lists
    <3> QED
      BY <1>1, <2>1, <2>3, <3>5, <3>6, <3>10
  <2> QED
    BY <1>4, <2>2, <2>3 DEF Spawn
<1>5. CASE Survived(l)
  <2>1. launch[l].on \in Pids /\ launch[l].todo # <<>>
        /\ NextProgram(l, {launch[l].on}) /\ UNCHANGED <<proc, lock, ready>>
    BY <1>5, WaitsFor DEF Survived, Waits
  <2> QED
    BY <1>1, <2>1, LaunchKeeps
<1>6. CASE ExitedEarly(l)
  <2>1. /\ launch[l].on \in Pids /\ launch[l].todo # <<>>
        /\ NextProgram(l, {}) \/ NotStarted(l, {})
        /\ proc' = [proc EXCEPT ![launch[l].on] = Gone(1)]
        /\ UNCHANGED <<lock, ready>>
    BY <1>6, WaitsFor DEF ExitedEarly
  <2>2. Lists(launch')
    <3>1. {} \in SUBSET Pids
      OBVIOUS
    <3> QED
      BY <2>1, <3>1, LaunchKeeps, NotStartedKeeps
  <2>3. Gone(1) \in ProcessRecord /\ Gone(1).phase = "dead"
    BY DEF Gone, ProcessRecord, Phases
  <2>4. proc' \in [Pids -> ProcessRecord]
        /\ \A q \in Pids : proc'[q] = Gone(1) \/ proc'[q] = proc[q]
    BY <1>1, <2>1, <2>3
  <2>5. Places(proc') /\ Holders(proc', lock', windows, stolen)
    BY <1>1, <2>1, <2>3, <2>4 DEF Places, Holders
  <2> QED
    BY <1>1, <2>1, <2>2, <2>4, <2>5
<1>7. CASE DecoderReady(l)
  <2>1. /\ launch[l].on \in Pids /\ launch[l].todo # <<>>
        /\ NextProgram(l, {launch[l].on}) /\ UNCHANGED <<proc, lock>>
        /\ ready' \subseteq ready
    BY <1>7, WaitsFor DEF DecoderReady
  <2>2. {launch[l].on} \in SUBSET Pids
    BY <2>1
  <2> QED
    BY <1>1, <2>1, <2>2, LaunchKeeps
<1>8. CASE DecoderNotReady(l)
  <2>1. /\ launch[l].on \in Pids /\ launch[l].todo # <<>>
        /\ GiveUp(l, {launch[l].on}) /\ UNCHANGED <<proc, lock, ready>>
    BY <1>8, WaitsFor DEF DecoderNotReady
  <2>2. {launch[l].on} \in SUBSET Pids
    BY <2>1
  <2> QED
    BY <1>1, <2>1, <2>2, NotStartedKeeps
<1>9. CASE Terminate(l)
  <2>1. PICK p \in launch[l].kill :
           /\ IF windows /\ proc[p].prog = "proxy" /\ proc[p].phase = "up"
              THEN Become(p, "orphan") /\ lock' = Unlocked(p)
              ELSE IF Alive(p) THEN Exit(p, 1) ELSE UNCHANGED <<proc, lock>>
           /\ TakeBack(l, launch[l].kill \ {p})
           /\ ready' = ready \ {p}
    BY <1>9 DEF Terminate
  <2>2. p \in Pids /\ launch[l].kill \ {p} \in SUBSET Pids
    BY <1>1, <2>1 DEF LaunchRecord
  <2>3. Lists(launch') /\ ready' \subseteq Pids
    BY <1>1, <2>1, <2>2, LaunchKeeps
  <2>4. CASE /\ windows /\ proc[p].prog = "proxy" /\ proc[p].phase = "up"
             /\ Become(p, "orphan") /\ lock' = Unlocked(p)
    <3> DEFINE new == [proc[p] EXCEPT !.phase = "orphan"]
    <3>1. new \in ProcessRecord /\ new.phase = "orphan" /\ new.prog = "proxy"
      BY <1>1, <2>2, <2>4 DEF ProcessRecord, Phases
    <3>2. proc' = [proc EXCEPT ![p] = new]
      BY <1>1, <2>2, <2>4 DEF Become
    <3> HIDE DEF new
    <3>3. proc' \in [Pids -> ProcessRecord]
          /\ \A q \in Pids : proc'[q] = IF q = p THEN new ELSE proc[q]
      BY <1>1, <2>2, <3>1, <3>2
    <3>4. lock' \in [Locked -> Pids \cup {Free, Broken}]
          /\ \A prog \in Locked : lock[prog] # p => lock'[prog] = lock[prog]
      BY <1>1, <2>4 DEF Unlocked
    <3>5. Places(proc')
      BY <1>1, <3>1, <3>3 DEF Places, Programs, Locked
    <3>6. Holders(proc', lock', windows, stolen)
      BY <1>1, <3>1, <3>3, <3>4 DEF Holders
    <3> QED
      BY <2>3, <3>3, <3>4, <3>5, <3>6
  <2>5. CASE Exit(p, 1)
    BY <2>2, <2>3, <2>5, ExitKeeps
  <2>6. CASE UNCHANGED <<proc, lock>>
    BY <1>1, <2>3, <2>6
  <2> QED
    BY <2>1, <2>4, <2>5, <2>6
<1> QED
  BY <1>4, <1>5, <1>6, <1>7, <1>8, <1>9 DEF Launch

-----------------------------------------------------------------------------

\* Every step keeps the invariant.
LEMMA LauncherStep == ASSUME LauncherInv, [Next]_vars PROVE LauncherInv'
<1>1. CASE UNCHANGED vars
  BY <1>1 DEF LauncherInv, Records, Places, Holders, vars
<1> QED
  BY <1>1, ProcessSteps, LaunchSteps, HandlerSteps DEF Next

\* A set without two members has at most one.
LEMMA AtMostOne ==
    ASSUME NEW S, NEW x, S \subseteq {x}
    PROVE  Cardinality(S) <= 1
<1>1. CASE S = {}
  BY <1>1, FS_EmptySet
<1>2. CASE S = {x}
  BY <1>2, FS_Singleton
<1> QED
  BY <1>1, <1>2

\* One uploader, one decoder and one proxy, but for a stolen lock file and for a
\* proxy whose wrapper a roll-back ended.
THEOREM OneOfEachProgram == Spec => []OneOfEach
<1>1. ASSUME LauncherInv PROVE OneOfEach
  <2>1. /\ Records /\ Places(proc) /\ Holders(proc, lock, windows, stolen)
        /\ windows \in BOOLEAN /\ stolen \in BOOLEAN
    BY <1>1 DEF LauncherInv, Records
  <2>2. TypeOK
    <3>1. \A p \in Pids : /\ proc[p].prog \in Locked \cup {"player", "none"}
                          /\ proc[p].phase \in Phases
      BY <2>1 DEF Records, ProcessRecord, Programs
    <3>2. \A l \in Launchers : /\ launch[l].on \in Pids \cup {0}
                               /\ launch[l].mine \subseteq Pids
      BY <2>1 DEF Records, Lists, LaunchRecord
    <3> QED
      BY <2>1, <3>1, <3>2 DEF TypeOK, Records
  <2>3. Instances("uploader") \subseteq {lock["uploader"]}
    BY <2>1 DEF Instances, Holders, Places, Locked
  <2>4. ~(~windows /\ stolen) => Instances("decoder") \subseteq {lock["decoder"]}
    BY <2>1 DEF Instances, Holders, Places, Locked, Stolen
  <2>5. {p \in Instances("proxy") : Alive(p)} \subseteq {lock["proxy"]}
    BY <2>1 DEF Instances, Holders, Locked, Alive
  <2> QED
    BY <2>2, <2>3, <2>4, <2>5, AtMostOne DEF OneOfEach
<1> QED
  BY LauncherInit, LauncherStep, <1>1, PTL DEF Spec

-----------------------------------------------------------------------------
(***************************************************************************)
(* What a step of a launcher leaves of its list.                            *)
(***************************************************************************)

\* The launcher's record after a step: given up, or a program further, or as it
\* was but for the process that is waited for.
Onward(old, new) ==
    \/ new = NoLaunch
    \/ /\ old.todo # <<>> /\ new.kill = old.kill
       /\ new.satellite = old.satellite
       /\ new.todo = old.todo \/ new.todo = Tail(old.todo)
    \/ /\ new.todo = <<>> /\ new.mine = old.mine /\ new.kill # {}
       /\ old.kill = {} => new.mine \subseteq new.kill

\* A roll-back of nothing ends the launch; otherwise its list is what it ends.
LEMMA TakeBackOnward ==
    ASSUME LauncherInv, NEW l \in Launchers, NEW pids \in SUBSET Pids,
           TakeBack(l, pids)
    PROVE  /\ \A k \in Launchers : k # l => launch'[k] = launch[k]
           /\ pids = {} => launch'[l] = NoLaunch
           /\ pids # {} => /\ launch'[l].todo = <<>> /\ launch'[l].kill = pids
                           /\ launch'[l].mine = launch[l].mine
BY DEF LauncherInv, Records, Lists, LaunchRecord, TakeBack

\* The next program, or the end of the launch.
LEMMA NextOnward ==
    ASSUME LauncherInv, NEW l \in Launchers, NEW pids \in SUBSET Pids,
           NextProgram(l, pids), launch[l].todo # <<>>
    PROVE  /\ \A k \in Launchers : k # l => launch'[k] = launch[k]
           /\ Onward(launch[l], launch'[l])
<1>1. launch \in [Launchers -> LaunchRecord]
  BY DEF LauncherInv, Records, Lists
<1> DEFINE new == [launch[l] EXCEPT !.todo = Tail(launch[l].todo), !.on = 0,
                                    !.mine = launch[l].mine \cup pids]
<1>2. /\ new.todo = Tail(launch[l].todo) /\ new.kill = launch[l].kill
      /\ new.satellite = launch[l].satellite
  BY <1>1 DEF LaunchRecord
<1>3. launch' = [launch EXCEPT ![l] =
                    IF Tail(launch[l].todo) = <<>> THEN NoLaunch ELSE new]
  BY <1>1 DEF NextProgram
<1> HIDE DEF new
<1>4. launch'[l] = NoLaunch \/ launch'[l] = new
  BY <1>1, <1>3
<1>5. Onward(launch[l], launch'[l])
  BY <1>2, <1>4 DEF Onward
<1> QED
  BY <1>1, <1>3, <1>5

\* A program that is not started is passed over, or the launch is given up.
LEMMA GiveUpOnward ==
    ASSUME LauncherInv, NEW l \in Launchers, NEW pids \in SUBSET Pids,
           launch[l].todo # <<>>, NotStarted(l, pids) \/ GiveUp(l, pids)
    PROVE  /\ \A k \in Launchers : k # l => launch'[k] = launch[k]
           /\ Onward(launch[l], launch'[l])
<1>1. launch[l].mine \cup pids \in SUBSET Pids /\ {} \in SUBSET Pids
  BY DEF LauncherInv, Records, Lists, LaunchRecord
<1>2. CASE NextProgram(l, {})
  BY <1>1, <1>2, NextOnward
<1>3. CASE GiveUp(l, pids)
  <2>1. TakeBack(l, launch[l].mine \cup pids)
    BY <1>3 DEF GiveUp
  <2> QED
    BY <1>1, <2>1, TakeBackOnward DEF Onward
<1> QED
  BY <1>2, <1>3 DEF NotStarted

\* Every step of a launcher.
LEMMA LaunchOnward ==
    ASSUME LauncherInv, NEW l \in Launchers, Launch(l)
    PROVE  /\ \A k \in Launchers : k # l => launch'[k] = launch[k]
           /\ Onward(launch[l], launch'[l])
<1>1. launch \in [Launchers -> LaunchRecord] /\ {} \in SUBSET Pids
  BY DEF LauncherInv, Records, Lists
<1>2. CASE Spawn(l)
  <2>1. launch[l].todo # <<>>
    BY <1>2 DEF Spawn
  <2>2. CASE launch' = [launch EXCEPT ![l].on = Pid]
    <3>1. /\ launch'[l].todo = launch[l].todo /\ launch'[l].kill = launch[l].kill
          /\ launch'[l].satellite = launch[l].satellite
          /\ \A k \in Launchers : k # l => launch'[k] = launch[k]
      BY <1>1, <2>2 DEF LaunchRecord
    <3> QED
      BY <2>1, <3>1 DEF Onward
  <2>3. CASE NotStarted(l, {})
    BY <1>1, <2>1, <2>3, GiveUpOnward
  <2> QED
    BY <1>2, <2>2, <2>3 DEF Spawn
<1>3. CASE Survived(l) \/ DecoderReady(l)
  <2>1. /\ {launch[l].on} \in SUBSET Pids /\ launch[l].todo # <<>>
        /\ NextProgram(l, {launch[l].on})
    BY <1>3, WaitsFor DEF Survived, DecoderReady
  <2> QED
    BY <2>1, NextOnward
<1>4. CASE ExitedEarly(l)
  <2>1. launch[l].todo # <<>> /\ (NextProgram(l, {}) \/ NotStarted(l, {}))
    BY <1>4, WaitsFor DEF ExitedEarly
  <2> QED
    BY <1>1, <2>1, NextOnward, GiveUpOnward
<1>5. CASE DecoderNotReady(l)
  <2>1. /\ {launch[l].on} \in SUBSET Pids /\ launch[l].todo # <<>>
        /\ GiveUp(l, {launch[l].on})
    BY <1>5, WaitsFor DEF DecoderNotReady
  <2> QED
    BY <2>1, GiveUpOnward
<1>6. CASE Terminate(l)
  <2>1. PICK p \in launch[l].kill : TakeBack(l, launch[l].kill \ {p})
    BY <1>6 DEF Terminate
  <2>2. launch[l].kill \ {p} \in SUBSET Pids /\ launch[l].kill # {}
    BY <1>1 DEF LaunchRecord
  <2> QED
    BY <2>1, <2>2, TakeBackOnward DEF Onward
<1> QED
  BY <1>2, <1>3, <1>4, <1>5, <1>6 DEF Launch

-----------------------------------------------------------------------------
(***************************************************************************)
(* The configuration of the upload.                                         *)
(***************************************************************************)

\* While a proxy is on the window's list, the file names the chosen satellite.
Configures(la, co) ==
    \A i \in 1 .. Len(la.todo) : la.todo[i] = "proxy" => co = la.satellite

ChoiceInv == LauncherInv /\ Configures(launch["window"], config)

\* A proxy that an upload started and waits for comes up with the satellite that
\* was chosen in that upload, whatever saves before it were committed or not: an
\* upload that could not commit the file starts no proxy.  While it waits nothing
\* in its window saves, and another window is not modelled.
THEOREM ProxyFollowsChoice == Spec => ProxyServesChoice
<1>1. Init => ChoiceInv
  BY LauncherInit DEF Init, ChoiceInv, Configures, NoLaunch, Launchers
<1>2. ASSUME ChoiceInv, [Next]_vars PROVE ChoiceInv'
  <2>1. LauncherInv'
    BY <1>2, LauncherStep DEF ChoiceInv
  <2>2. /\ launch \in [Launchers -> LaunchRecord] /\ "window" \in Launchers
        /\ launch["window"].todo \in Seq(Programs)
    BY <1>2 DEF ChoiceInv, LauncherInv, Records, Lists, LaunchRecord, Launchers
  <2>3. CASE UNCHANGED <<launch, config>>
    BY <1>2, <2>1, <2>3 DEF ChoiceInv
  <2>4. ASSUME NEW l \in Launchers, Launch(l)
        PROVE  Configures(launch["window"], config)'
    <3>1. config' = config
      BY <2>4 DEF Launch, Spawn, Survived, ExitedEarly, DecoderReady,
                  DecoderNotReady, Terminate
    <3>2. CASE l # "window"
      <4>1. launch'["window"] = launch["window"]
        BY <1>2, <2>2, <2>4, <3>2, LaunchOnward DEF ChoiceInv
      <4> QED
        BY <1>2, <3>1, <4>1 DEF ChoiceInv
    <3>3. CASE l = "window"
      <4>1. Onward(launch["window"], launch'["window"])
        BY <1>2, <2>4, <3>3, LaunchOnward DEF ChoiceInv
      <4>2. CASE launch'["window"].todo = <<>>
        BY <4>2 DEF Configures
      <4>3. CASE /\ launch["window"].todo # <<>>
                 /\ launch'["window"].satellite = launch["window"].satellite
                 /\ launch'["window"].todo = launch["window"].todo
                    \/ launch'["window"].todo = Tail(launch["window"].todo)
        <5>1. \A i \in 1 .. Len(launch'["window"].todo) :
                 \E j \in 1 .. Len(launch["window"].todo) :
                    launch'["window"].todo[i] = launch["window"].todo[j]
          <6>1. CASE launch'["window"].todo = launch["window"].todo
            BY <6>1
          <6>2. CASE launch'["window"].todo = Tail(launch["window"].todo)
            BY <2>2, <4>3, <6>2
          <6> QED
            BY <4>3, <6>1, <6>2
        <5> QED
          BY <1>2, <3>1, <4>3, <5>1 DEF ChoiceInv, Configures
      <4> QED
        BY <4>1, <4>2, <4>3 DEF Onward, NoLaunch
    <3> QED
      BY <3>2, <3>3
  <2>5. ASSUME NEW todo, NEW satellite, Begin("window", todo, satellite)
        PROVE  launch'["window"].todo = todo
               /\ launch'["window"].satellite = satellite
    BY <2>2, <2>5 DEF Begin, LaunchRecord
  <2>6. CASE Start \/ Play
    <3>1. \E prog \in {"decoder", "player"} :
             launch'["window"].todo = <<prog>>
      BY <2>5, <2>6 DEF Start, Play
    <3> QED
      BY <2>1, <3>1 DEF ChoiceInv, Configures
  <2>7. CASE Command
    <3>1. launch'["window"] = launch["window"] /\ config' = config
      BY <2>2, <2>7 DEF Command, Begin, Launchers
    <3> QED
      BY <1>2, <2>1, <3>1 DEF ChoiceInv
  <2>8. CASE Upload
    <3>1. CASE \E satellite \in Satellites, satnogs \in BOOLEAN :
                  Begin("window", Uploads(satellite, satnogs), satellite)
                  /\ config' = satellite
      BY <2>1, <2>5, <3>1 DEF ChoiceInv, Configures
    <3>2. CASE ~Busy("window") /\ UNCHANGED launch
      BY <2>1, <3>2 DEF ChoiceInv, Configures, Busy
    <3> QED
      BY <2>8, <3>1, <3>2 DEF Upload, Save
  <2>9. CASE AutoSave \/ Reopen
    <3>1. ~Busy("window") /\ launch' = launch
      BY <2>9 DEF AutoSave, Reopen
    <3> QED
      BY <2>1, <3>1 DEF ChoiceInv, Configures, Busy
  <2>10. CASE \E p \in Pids : Process(p)
    BY <2>3, <2>10
    DEF Process, TryLock, Examine, ReplaceLock, ComeUp, CloseUnlinks, Close
  <2> QED
    BY <1>2, <2>1, <2>3, <2>4, <2>6, <2>7, <2>8, <2>9, <2>10
    DEF Next, vars, ChoiceInv
<1>3. ChoiceInv /\ Waits("window", {"proxy"})
      => config = launch["window"].satellite
  <2> SUFFICES ASSUME ChoiceInv, Waits("window", {"proxy"})
               PROVE  config = launch["window"].satellite
    OBVIOUS
  <2>1. "window" \in Launchers
    BY DEF Launchers
  <2>2. /\ launch["window"].todo \in Seq(Programs)
        /\ launch["window"].todo # <<>>
        /\ Head(launch["window"].todo) = "proxy"
    BY <2>1, WaitsFor DEF ChoiceInv, LauncherInv, Records, Lists, LaunchRecord,
                          Waits
  <2> QED
    BY <2>2 DEF ChoiceInv, Configures
<1>4. ChoiceInv /\ [Next]_vars
      => [ LET p == launch["window"].on
           IN  /\ Waits("window", {"proxy"})
               /\ proc[p].phase # "up" /\ proc'[p].phase = "up"
               => config = launch["window"].satellite ]_vars
  BY <1>3
<1> QED
  BY <1>1, <1>2, <1>4, PTL DEF Spec, ProxyServesChoice

-----------------------------------------------------------------------------
(***************************************************************************)
(* The roll-back.                                                           *)
(***************************************************************************)

\* A process that runs no more, or a proxy without its wrapper.
Ended(pr, w, p) == pr[p].phase = "dead" \/ (w /\ pr[p].phase = "orphan")

\* A roll-back starts nothing, and what is not on its list any more has ended.
RollsBack(la, pr, w) ==
    la.kill # {} => la.todo = <<>> /\ \A p \in la.mine \ la.kill : Ended(pr, w, p)

RollBackInv ==
    /\ LauncherInv
    /\ \A p \in Pids : proc[p].phase = "orphan" => windows
    /\ \A l \in Launchers : RollsBack(launch[l], proc, windows)

\* Only a proxy of the Windows build is left by its wrapper.
LEMMA OrphansOnWindows ==
    ASSUME RollBackInv, [Next]_vars
    PROVE  \A p \in Pids : proc'[p].phase = "orphan" => windows'
<1>1. /\ proc \in [Pids -> ProcessRecord] /\ windows' = windows
      /\ \A p \in Pids : proc[p].phase = "orphan" => windows
  <2>1. windows' = windows
    BY DEF Next, vars, system, Process, TryLock, Examine, ReplaceLock, ComeUp,
           CloseUnlinks, Close, Launch, Spawn, Survived, ExitedEarly,
           DecoderReady, DecoderNotReady, Terminate, Start, Play, Command,
           Upload, AutoSave, Reopen
  <2> QED
    BY <2>1 DEF RollBackInv, LauncherInv, Records
<1>2. ASSUME NEW p \in Pids, NEW new, new.phase # "orphan" \/ windows,
             proc' = [proc EXCEPT ![p] = new]
      PROVE  \A q \in Pids : proc'[q].phase = "orphan" => windows'
  BY <1>1, <1>2
<1>3. ASSUME NEW p \in Pids, NEW phase, Become(p, phase),
             phase # "orphan" \/ windows
      PROVE  \A q \in Pids : proc'[q].phase = "orphan" => windows'
  <2>1. [proc[p] EXCEPT !.phase = phase].phase = phase
    BY <1>1 DEF ProcessRecord
  <2>2. proc' = [proc EXCEPT ![p] = [proc[p] EXCEPT !.phase = phase]]
    BY <1>1, <1>3 DEF Become
  <2> QED
    BY <1>2, <1>3, <2>1, <2>2
<1>4. ASSUME NEW code, NEW p \in Pids,
             proc' = [proc EXCEPT ![p] = Gone(code)]
      PROVE  \A q \in Pids : proc'[q].phase = "orphan" => windows'
  BY <1>2, <1>4 DEF Gone
<1>5. ASSUME NEW code, NEW p \in Pids, Exit(p, code)
      PROVE  \A q \in Pids : proc'[q].phase = "orphan" => windows'
  BY <1>4, <1>5 DEF Exit
<1>6. ASSUME NEW p \in Pids, Process(p)
      PROVE  \A q \in Pids : proc'[q].phase = "orphan" => windows'
  BY <1>3, <1>4, <1>5, <1>6
  DEF Process, TryLock, Examine, ReplaceLock, Acquire, ComeUp, CloseUnlinks,
      Close
<1>7. ASSUME NEW l \in Launchers, Launch(l)
      PROVE  \A q \in Pids : proc'[q].phase = "orphan" => windows'
  <2>1. CASE UNCHANGED proc
    BY <1>1, <2>1
  <2>2. ASSUME Spawn(l), proc' # proc
        PROVE  \A q \in Pids : proc'[q].phase = "orphan" => windows'
    <3>1. /\ Unused # {}
          /\ proc' = [proc EXCEPT ![Pid] =
                 [prog |-> Head(launch[l].todo), phase |-> "loading", code |-> 0]]
      BY <2>2 DEF Spawn
    <3>2. Pid \in Pids
      BY <3>1 DEF Pid, Unused
    <3> QED
      BY <1>2, <3>1, <3>2
  <2>3. CASE ExitedEarly(l)
    BY <1>4, <2>3, WaitsFor DEF ExitedEarly, RollBackInv
  <2>4. CASE Terminate(l)
    <3>1. PICK p \in launch[l].kill :
             IF windows /\ proc[p].prog = "proxy" /\ proc[p].phase = "up"
             THEN Become(p, "orphan")
             ELSE IF Alive(p) THEN Exit(p, 1) ELSE UNCHANGED proc
      BY <2>4 DEF Terminate
    <3>2. p \in Pids
      BY <3>1 DEF RollBackInv, LauncherInv, Records, Lists, LaunchRecord
    <3> QED
      BY <1>1, <1>3, <1>5, <3>1, <3>2
  <2> QED
    BY <1>7, <2>1, <2>2, <2>3, <2>4
    DEF Launch, Survived, DecoderReady, DecoderNotReady
<1> QED
  BY <1>1, <1>6, <1>7
  DEF Next, vars, Start, Play, Command, Upload, AutoSave, Reopen

\* A process that a launcher remembers and that has ended stays so: its pid is
\* not used again.
LEMMA EndedStays ==
    ASSUME RollBackInv, [Next]_vars, NEW l \in Launchers,
           NEW p \in launch[l].mine \cup launch[l].kill, Ended(proc, windows, p)
    PROVE  Ended(proc', windows', p)
<1>1. /\ p \in Pids /\ proc \in [Pids -> ProcessRecord]
      /\ proc[p].phase \in {"dead", "orphan"} /\ p \notin Unused
  BY DEF RollBackInv, LauncherInv, Records, Lists, LaunchRecord, Ended, Unused
<1>2. SUFFICES proc'[p] = proc[p] \/ proc'[p].phase = "dead"
  <2>1. proc'[p].phase = "orphan" => windows'
    BY <1>1, OrphansOnWindows
  <2> QED
    BY <1>1, <1>2, <2>1 DEF Ended
<1>3. ASSUME NEW q \in Pids, NEW new, proc' = [proc EXCEPT ![q] = new],
             q # p \/ new.phase = "dead"
      PROVE  proc'[p] = proc[p] \/ proc'[p].phase = "dead"
  BY <1>1, <1>3
<1>4. ASSUME NEW q \in Pids, NEW phase, Become(q, phase), q # p
      PROVE  proc'[p] = proc[p]
  BY <1>1, <1>4 DEF Become
<1>5. ASSUME NEW q \in Pids, NEW code, Exit(q, code)
      PROVE  proc'[p] = proc[p] \/ proc'[p].phase = "dead"
  BY <1>3, <1>5 DEF Exit, Gone
<1>6. ASSUME NEW q \in Pids, Process(q)
      PROVE  proc'[p] = proc[p] \/ proc'[p].phase = "dead"
  <2>1. CASE CloseUnlinks(q)
    BY <1>3, <2>1 DEF CloseUnlinks, Gone
  <2>2. CASE Close(q)
    BY <1>5, <2>2 DEF Close
  <2>3. CASE TryLock(q) \/ Examine(q) \/ ReplaceLock(q) \/ ComeUp(q)
    <3>1. q # p
      BY <1>1, <2>3 DEF TryLock, Examine, ReplaceLock, ComeUp
    <3> QED
      BY <1>4, <1>5, <2>3, <3>1
      DEF TryLock, Examine, ReplaceLock, ComeUp, Acquire
  <2> QED
    BY <1>6, <2>1, <2>2, <2>3 DEF Process
<1>7. ASSUME NEW k \in Launchers, Launch(k)
      PROVE  proc'[p] = proc[p] \/ proc'[p].phase = "dead"
  <2>1. CASE UNCHANGED proc
    BY <2>1
  <2>2. ASSUME Spawn(k), proc' # proc
        PROVE  proc'[p] = proc[p] \/ proc'[p].phase = "dead"
    <3>1. /\ Unused # {}
          /\ proc' = [proc EXCEPT ![Pid] =
                 [prog |-> Head(launch[k].todo), phase |-> "loading", code |-> 0]]
      BY <2>2 DEF Spawn
    <3>2. Pid \in Unused
      BY <3>1 DEF Pid
    <3>3. Pid \in Pids /\ Pid # p
      BY <1>1, <3>2 DEF Unused
    <3> QED
      BY <1>3, <3>1, <3>3
  <2>3. CASE ExitedEarly(k)
    BY <1>3, <2>3, WaitsFor DEF ExitedEarly, RollBackInv, Gone
  <2>4. CASE Terminate(k)
    <3>1. PICK q \in launch[k].kill :
             IF windows /\ proc[q].prog = "proxy" /\ proc[q].phase = "up"
             THEN Become(q, "orphan")
             ELSE IF Alive(q) THEN Exit(q, 1) ELSE UNCHANGED proc
      BY <2>4 DEF Terminate
    <3>2. q \in Pids
      BY <3>1 DEF RollBackInv, LauncherInv, Records, Lists, LaunchRecord
    <3> QED
      BY <1>1, <1>4, <1>5, <3>1, <3>2
  <2> QED
    BY <1>7, <2>1, <2>2, <2>3, <2>4
    DEF Launch, Survived, DecoderReady, DecoderNotReady
<1> QED
  BY <1>6, <1>7 DEF Next, vars, Start, Play, Command, Upload, AutoSave, Reopen

\* A launcher in a roll-back ends one process after the other.
LEMMA RollBackEnds ==
    ASSUME RollBackInv, NEW l \in Launchers, Launch(l), launch[l].kill # {}
    PROVE  \E p \in launch[l].kill :
              TakeBack(l, launch[l].kill \ {p}) /\ Ended(proc', windows', p)
<1>1. launch[l].todo = <<>>
  BY DEF RollBackInv, RollsBack
<1>2. Terminate(l)
  BY <1>1, WaitsFor
  DEF Launch, Spawn, Survived, ExitedEarly, DecoderReady, DecoderNotReady,
      RollBackInv
<1>3. PICK p \in launch[l].kill :
         /\ IF windows /\ proc[p].prog = "proxy" /\ proc[p].phase = "up"
            THEN Become(p, "orphan")
            ELSE IF Alive(p) THEN Exit(p, 1) ELSE UNCHANGED proc
         /\ TakeBack(l, launch[l].kill \ {p})
  BY <1>2 DEF Terminate
<1>4. /\ p \in Pids /\ proc \in [Pids -> ProcessRecord] /\ windows' = windows
  BY <1>2, <1>3
  DEF RollBackInv, LauncherInv, Records, Lists, LaunchRecord, Terminate, system
<1>5. CASE Become(p, "orphan") /\ windows
  BY <1>3, <1>4, <1>5 DEF Become, Ended, ProcessRecord
<1>6. CASE Exit(p, 1)
  BY <1>3, <1>4, <1>6 DEF Exit, Ended, Gone
<1>7. CASE ~Alive(p) /\ UNCHANGED proc
  BY <1>3, <1>4, <1>7 DEF Alive, Ended, RollBackInv
<1> QED
  BY <1>3, <1>5, <1>6, <1>7

\* Every step keeps the roll-backs.
LEMMA RollBackStep == ASSUME RollBackInv, [Next]_vars PROVE RollBackInv'
<1>1. LauncherInv' /\ \A p \in Pids : proc'[p].phase = "orphan" => windows'
  BY LauncherStep, OrphansOnWindows DEF RollBackInv
<1>2. SUFFICES ASSUME NEW l \in Launchers
               PROVE  RollsBack(launch'[l], proc', windows')
  BY <1>1 DEF RollBackInv
<1>3. /\ RollsBack(launch[l], proc, windows) /\ LauncherInv
      /\ launch \in [Launchers -> LaunchRecord]
  BY DEF RollBackInv, LauncherInv, Records, Lists
<1>4. ASSUME NEW new, new.kill = {} PROVE RollsBack(new, proc', windows')
  BY <1>4 DEF RollsBack
<1>5. CASE launch'[l] = launch[l]
  BY <1>3, <1>5, EndedStays DEF RollsBack
<1>6. CASE Launch(l)
  <2>1. Onward(launch[l], launch'[l])
    BY <1>3, <1>6, LaunchOnward
  <2>2. CASE launch'[l] = NoLaunch
    BY <1>4, <2>2 DEF NoLaunch
  <2>3. CASE launch[l].todo # <<>> /\ launch'[l].kill = launch[l].kill
    BY <1>3, <1>4, <2>3 DEF RollsBack
  <2>4. CASE launch[l].kill = {} /\ launch'[l].todo = <<>>
             /\ launch'[l].mine \subseteq launch'[l].kill
    BY <2>4 DEF RollsBack
  <2>5. CASE launch[l].kill # {}
    <3>1. PICK p \in launch[l].kill :
             TakeBack(l, launch[l].kill \ {p}) /\ Ended(proc', windows', p)
      BY <1>6, <2>5, RollBackEnds
    <3>2. launch[l].kill \ {p} \in SUBSET Pids
      BY <1>3 DEF LaunchRecord
    <3>3. CASE launch[l].kill \ {p} = {}
      BY <1>3, <1>4, <3>1, <3>2, <3>3, TakeBackOnward DEF NoLaunch
    <3>4. CASE launch[l].kill \ {p} # {}
      <4>1. /\ launch'[l].todo = <<>> /\ launch'[l].kill = launch[l].kill \ {p}
            /\ launch'[l].mine = launch[l].mine
        BY <1>3, <3>1, <3>2, <3>4, TakeBackOnward
      <4>2. \A q \in launch[l].mine \ launch[l].kill : Ended(proc', windows', q)
        BY <1>3, <2>5, EndedStays DEF RollsBack
      <4> QED
        BY <3>1, <4>1, <4>2 DEF RollsBack
    <3> QED
      BY <3>3, <3>4
  <2> QED
    BY <2>1, <2>2, <2>3, <2>4, <2>5 DEF Onward
<1>7. ASSUME NEW k \in Launchers, Launch(k), k # l
      PROVE  launch'[l] = launch[l]
  BY <1>3, <1>7, LaunchOnward
<1>8. ASSUME NEW k \in Launchers, NEW todo, NEW satellite,
             Begin(k, todo, satellite)
      PROVE  RollsBack(launch'[l], proc', windows')
  <2>1. CASE k # l
    <3>1. launch'[l] = launch[l]
      BY <1>3, <1>8, <2>1 DEF Begin
    <3> QED
      BY <1>5, <3>1
  <2>2. CASE k = l
    <3>1. launch'[l].kill = launch[l].kill /\ launch[l].kill = {}
      BY <1>3, <1>8, <2>2 DEF Begin, Busy, LaunchRecord
    <3> QED
      BY <1>4, <3>1
  <2> QED
    BY <2>1, <2>2
<1>9. CASE Start \/ Play \/ Command \/ Upload
  <2>1. \/ UNCHANGED launch
        \/ \E k \in Launchers : \E todo, satellite : Begin(k, todo, satellite)
    BY <1>9 DEF Start, Play, Command, Upload, Launchers
  <2> QED
    BY <1>5, <1>8, <2>1
<1>10. CASE UNCHANGED launch
  BY <1>5, <1>10
<1> QED
  BY <1>5, <1>6, <1>7, <1>9, <1>10
  DEF Next, vars, Process, TryLock, Examine, ReplaceLock, ComeUp, CloseUnlinks,
      Close, AutoSave, Reopen

\* A launch that failed leaves none of the programs it started.
THEOREM RollBackIsComplete == Spec => FailedLaunchLeavesNothing
<1>1. Init => RollBackInv
  <2> SUFFICES ASSUME Init PROVE RollBackInv
    OBVIOUS
  <2>1. \A p \in Pids : proc[p].phase = "dead"
    BY DEF Init, Gone
  <2>2. \A l \in Launchers : launch[l].kill = {}
    BY DEF Init, NoLaunch
  <2> QED
    BY <2>1, <2>2, LauncherInit DEF RollBackInv, RollsBack
<1>2. ASSUME RollBackInv, [Next]_vars, NEW l \in Launchers,
             launch[l].kill # {}, ~Busy(l)',
             NEW p \in launch[l].mine \cup launch[l].kill
      PROVE  Dead(p)' \/ (windows /\ proc'[p].phase = "orphan")
  <2>1. RollsBack(launch[l], proc, windows)
    BY <1>2 DEF RollBackInv
  <2>2. /\ launch \in [Launchers -> LaunchRecord] /\ windows' = windows
    BY <1>2 DEF RollBackInv, LauncherInv, Records, Lists, Next, vars, system,
                Process, TryLock, Examine, ReplaceLock, ComeUp, CloseUnlinks,
                Close, Launch, Spawn, Survived, ExitedEarly, DecoderReady,
                DecoderNotReady, Terminate, Start, Play, Command, Upload,
                AutoSave, Reopen
  <2>3. Launch(l)
    <3>1. launch'[l].kill # launch[l].kill
      BY <1>2 DEF Busy
    <3>2. ASSUME NEW k \in Launchers, Launch(k), k # l PROVE FALSE
      BY <1>2, <3>1, <3>2, LaunchOnward DEF RollBackInv
    <3>3. ASSUME NEW k \in Launchers, NEW todo, NEW satellite,
                 Begin(k, todo, satellite)
          PROVE  FALSE
      <4>1. launch'[l].kill = launch[l].kill
        BY <2>2, <3>3 DEF Begin, LaunchRecord
      <4> QED
        BY <3>1, <4>1
    <3>4. UNCHANGED launch => FALSE
      BY <3>1
    <3>5. ~(Start \/ Play \/ Command \/ Upload)
      BY <3>3, <3>4 DEF Start, Play, Command, Upload, Launchers
    <3> QED
      BY <1>2, <3>2, <3>4, <3>5
      DEF Next, vars, Process, TryLock, Examine, ReplaceLock, ComeUp,
          CloseUnlinks, Close, AutoSave, Reopen
  <2>4. PICK q \in launch[l].kill :
           TakeBack(l, launch[l].kill \ {q}) /\ Ended(proc', windows', q)
    BY <1>2, <2>3, RollBackEnds
  <2>5. launch[l].kill = {q}
    <3>1. launch[l].kill \ {q} \in SUBSET Pids
      BY <2>2 DEF LaunchRecord
    <3>2. launch[l].kill \ {q} = {}
      BY <1>2, <2>4, <3>1, TakeBackOnward DEF RollBackInv, Busy
    <3> QED
      BY <3>2
  <2>6. Ended(proc', windows', p)
    BY <1>2, <2>1, <2>4, <2>5, EndedStays DEF RollsBack
  <2> QED
    BY <2>2, <2>6 DEF Ended, Dead
<1>3. RollBackInv /\ [Next]_vars
      => [ \A l \in Launchers : launch[l].kill # {} /\ ~Busy(l)' =>
             \A p \in launch[l].mine \cup launch[l].kill :
                Dead(p)' \/ (windows /\ proc'[p].phase = "orphan") ]_vars
  BY <1>2
<1> QED
  BY <1>1, RollBackStep, <1>3, PTL DEF Spec, FailedLaunchLeavesNothing

-----------------------------------------------------------------------------
(***************************************************************************)
(* The preset of SDR++.  While its files have one user at a time, what a    *)
(* launcher has read is what they hold, each file it has migrated stays so, *)
(* and SDR++ was started with no old file once there is a marker.           *)
(***************************************************************************)
Stages == {"idle", "read", "marker", "repair", "radio", "bridge", "config",
           "version", "run"}

\* The files that are written before a launcher comes to a stage.
Migrated(at) ==
    CASE at = "bridge"  -> {"radio"}
      [] at = "config"  -> {"radio", "bridge"}
      [] at = "version" -> Files
      [] OTHER          -> {}

\* A launcher that is to repair a file has read it.
StartRecord ==
    {r \in [at : Stages, config : {"none", "old", "preset", "chosen"},
            center : BOOLEAN] :
        r.at \in {"marker", "repair"} => r.config # "none"}

PresetTypes ==
    /\ file \in [Files -> {"old", "preset", "chosen"}]
    /\ center \in BOOLEAN /\ overlap \in BOOLEAN /\ misread \in BOOLEAN
    /\ marker \in {0, Preset - 1, Preset}
    /\ start \in [SdrLaunchers -> StartRecord]

\* One user at a time: a launcher or SDR++.
OneUser ==
    /\ \A k, l \in SdrLaunchers :
          start[k] # Idle /\ start[l] # Idle => k = l
    /\ \A l \in SdrLaunchers : start[l] # Idle => ~Running

\* How far a launcher is, and what it has read.
StartIsTrue ==
    \A l \in SdrLaunchers :
        /\ start[l].at \in {"radio", "bridge", "config"}
           => marker = 0 \/ misread
        /\ start[l].at = "repair" => marker # 0
        /\ \A f \in Migrated(start[l].at) : file[f] # "old"
        /\ start[l].at \in {"marker", "repair"}
           => start[l].config = file["config"]

\* Behind a marker nothing is old, nor was it when SDR++ read it.
NothingOld ==
    marker # 0 => /\ \A f \in Files : file[f] # "old"
                  /\ Running => sdrpp = {}

PresetInv == PresetTypes /\ (~overlap => OneUser /\ StartIsTrue /\ NothingOld)

\* Where SDR++ runs no file may be old behind a marker.
LEMMA NoneOld ==
    ASSUME NothingOld, marker # 0
    PROVE  Old = {}
BY DEF NothingOld, Old

\* The initial states satisfy the invariant.
LEMMA PresetInit == SdrInit => PresetInv
<1> SUFFICES ASSUME SdrInit PROVE PresetInv
  OBVIOUS
<1>1. \A l \in SdrLaunchers : start[l] = Idle
  BY DEF SdrInit
<1>2. Idle.at = "idle" /\ ~Running
  BY DEF SdrInit, Idle, Running
<1>3. PresetTypes
  BY DEF SdrInit, PresetTypes, StartRecord, Idle, Stages, Preset
<1>4. OneUser /\ StartIsTrue
  BY <1>1, <1>2 DEF OneUser, StartIsTrue, Migrated
<1>5. NothingOld
  BY <1>2 DEF SdrInit, NothingOld
<1> QED
  BY <1>3, <1>4, <1>5 DEF PresetInv

\* A launcher that moves on leaves the others where they are, and it alone was
\* at the files if nobody interfered.
LEMMA StartAlone ==
    ASSUME PresetInv, ~overlap, NEW l \in SdrLaunchers, start[l] # Idle
    PROVE  /\ \A k \in SdrLaunchers \ {l} : start[k] = Idle
           /\ ~Running
BY DEF PresetInv, OneUser

\* What follows for the parts from where one launcher is.
LEMMA OneAt ==
    ASSUME NEW l \in SdrLaunchers, ~Running',
           \A k \in SdrLaunchers \ {l} : start'[k] = Idle,
           start'[l].at \in {"radio", "bridge", "config"}
           => marker' = 0 \/ misread',
           start'[l].at = "repair" => marker' # 0,
           \A f \in Migrated(start'[l].at) : file'[f] # "old",
           start'[l].at \in {"marker", "repair"}
           => start'[l].config = file'["config"]
    PROVE  OneUser' /\ StartIsTrue'
<1>1. Idle.at = "idle"
  BY DEF Idle
<1>2. StartIsTrue'
  <2> SUFFICES ASSUME NEW k \in SdrLaunchers
               PROVE  /\ start'[k].at \in {"radio", "bridge", "config"}
                         => marker' = 0 \/ misread'
                      /\ start'[k].at = "repair" => marker' # 0
                      /\ \A f \in Migrated(start'[k].at) : file'[f] # "old"
                      /\ start'[k].at \in {"marker", "repair"}
                         => start'[k].config = file'["config"]
    BY DEF StartIsTrue
  <2>1. CASE k = l
    BY <2>1
  <2>2. CASE k # l
    BY <1>1, <2>2 DEF Migrated
  <2> QED
    BY <2>1, <2>2
<1> QED
  BY <1>2 DEF OneUser

-----------------------------------------------------------------------------

\* What a step of a launcher does to its record.
LEMMA StartMoves ==
    ASSUME PresetTypes, NEW l \in SdrLaunchers, NEW at \in Stages,
           at # "marker",
           at = "repair" => start[l].at = "marker" /\ Goes(l, at),
           Goes(l, at) \/ Forgets(l, at)
    PROVE  /\ start' \in [SdrLaunchers -> StartRecord]
           /\ start'[l].at = at
           /\ \A k \in SdrLaunchers \ {l} : start'[k] = start[k]
           /\ Goes(l, at) => start'[l].config = start[l].config
<1>1. CASE Goes(l, at)
  <2>1. [start[l] EXCEPT !.at = at] \in StartRecord
        /\ [start[l] EXCEPT !.at = at].at = at
        /\ [start[l] EXCEPT !.at = at].config = start[l].config
    BY DEF PresetTypes, StartRecord
  <2> QED
    BY <1>1, <2>1 DEF Goes, PresetTypes
<1>2. CASE Forgets(l, at)
  <2>0. CASE at = "repair"
    BY <1>1, <2>0
  <2> SUFFICES ASSUME at # "repair"
               PROVE  /\ start' \in [SdrLaunchers -> StartRecord]
                      /\ start'[l].at = at
                      /\ \A k \in SdrLaunchers \ {l} : start'[k] = start[k]
                      /\ Goes(l, at) => start'[l].config = start[l].config
    BY <2>0
  <2>1. [Idle EXCEPT !.at = at] \in StartRecord
        /\ [Idle EXCEPT !.at = at].at = at
    BY DEF Idle, StartRecord
  <2>2. /\ start' \in [SdrLaunchers -> StartRecord] /\ start'[l].at = at
        /\ \A k \in SdrLaunchers \ {l} : start'[k] = start[k]
    BY <1>2, <2>1 DEF Forgets, PresetTypes
  <2> QED
    BY <1>1, <2>2
<1> QED
  BY <1>1, <1>2

LEMMA StartStops ==
    ASSUME PresetTypes, NEW l \in SdrLaunchers, Stops(l)
    PROVE  /\ start' \in [SdrLaunchers -> StartRecord]
           /\ start'[l] = Idle
           /\ \A k \in SdrLaunchers \ {l} : start'[k] = start[k]
BY DEF Stops, PresetTypes, StartRecord, Idle, Stages

\* A launcher at a stage of its start is not idle.
LEMMA AtWork ==
    ASSUME NEW l \in SdrLaunchers, start[l].at # "idle"
    PROVE  start[l] # Idle
BY DEF Idle

\* Reading, up to the decision what to write.
LEMMA BeginKeeps ==
    ASSUME PresetInv, NEW l \in SdrLaunchers, BeginStart(l)
    PROVE  PresetInv'
<1>1. Goes(l, "read") /\ ~Running /\ UNCHANGED <<file, center, marker, misread, sdrpp>>
  BY DEF BeginStart
<1>2. /\ start' \in [SdrLaunchers -> StartRecord] /\ start'[l].at = "read"
      /\ \A k \in SdrLaunchers \ {l} : start'[k] = start[k]
  BY <1>1, StartMoves DEF Stages, PresetInv
<1>3. overlap' = (overlap \/ \E k \in SdrLaunchers \ {l} : start[k] # Idle)
  BY DEF BeginStart, Interferes
<1>4. PresetTypes'
  BY <1>1, <1>2, <1>3 DEF PresetInv, PresetTypes
<1>5. CASE ~overlap'
  <2>1. ~overlap /\ \A k \in SdrLaunchers \ {l} : start[k] = Idle
    BY <1>3, <1>5
  <2>2. ~Running'
    BY <1>1 DEF Running
  <2>3. OneUser' /\ StartIsTrue'
    BY <1>2, <2>1, <2>2, OneAt DEF Migrated
  <2>4. NothingOld'
    BY <1>1, <2>1, <2>2 DEF PresetInv, NothingOld
  <2> QED
    BY <1>4, <2>3, <2>4 DEF PresetInv
<1> QED
  BY <1>4, <1>5 DEF PresetInv

LEMMA ReadKeeps ==
    ASSUME PresetInv, NEW l \in SdrLaunchers, Read(l)
    PROVE  PresetInv'
<1>1. /\ start[l].at = "read"
      /\ UNCHANGED <<file, center, marker, misread, sdrpp, overlap>>
  BY DEF Read
<1>2. /\ start' \in [SdrLaunchers -> StartRecord]
      /\ start'[l].at \in {"marker", "run"}
      /\ start'[l].at = "marker" => start'[l].config = file["config"]
      /\ \A k \in SdrLaunchers \ {l} : start'[k] = start[k]
  <2>1. CASE Goes(l, "run")
    BY <2>1, StartMoves DEF Stages, PresetInv
  <2>2. CASE start' = [start EXCEPT ![l] = [at |-> "marker", center |-> center,
                                            config |-> file["config"]]]
    <3>1. [at |-> "marker", center |-> center, config |-> file["config"]]
          \in StartRecord
      BY DEF PresetInv, PresetTypes, StartRecord, Stages, Files
    <3> QED
      BY <2>2, <3>1 DEF PresetInv, PresetTypes
  <2> QED
    BY <2>1, <2>2 DEF Read
<1>3. PresetTypes'
  BY <1>1, <1>2 DEF PresetInv, PresetTypes
<1>4. CASE ~overlap
  <2>1. (\A k \in SdrLaunchers \ {l} : start[k] = Idle) /\ ~Running
    BY <1>1, <1>4, AtWork, StartAlone
  <2>2. ~Running'
    BY <1>1, <2>1 DEF Running
  <2>3. OneUser' /\ StartIsTrue'
    BY <1>1, <1>2, <2>1, <2>2, OneAt DEF Migrated
  <2>4. NothingOld'
    BY <1>1, <1>4, <2>2 DEF PresetInv, NothingOld
  <2> QED
    BY <1>3, <2>3, <2>4 DEF PresetInv
<1> QED
  BY <1>1, <1>3, <1>4 DEF PresetInv

LEMMA ReadMarkerKeeps ==
    ASSUME PresetInv, NEW l \in SdrLaunchers, ReadMarker(l)
    PROVE  PresetInv'
<1>1. /\ start[l].at = "marker"
      /\ UNCHANGED <<file, center, marker, sdrpp, overlap>>
  BY DEF ReadMarker
<1>2. PICK at \in Stages :
         /\ at \in {"repair", "radio", "version", "run"}
         /\ Goes(l, at) \/ Forgets(l, at)
         /\ at = "repair" => Goes(l, at)
         /\ at = "repair" => marker # 0
         /\ at = "radio" => marker = 0 \/ misread'
         /\ at = "version" => marker # 0
         /\ misread' \in BOOLEAN
  <2>1. PICK read \in {marker, 0} :
           /\ misread' = (read # marker)
           /\ IF read # 0 /\ start[l].center
              THEN Goes(l, "repair")
              ELSE Forgets(l, CASE read = 0 -> "radio"
                             [] read \in 1 .. Preset - 1 -> "version"
                             [] OTHER -> "run")
    BY DEF ReadMarker
  <2>2. read \in {0, Preset - 1, Preset} /\ misread' \in BOOLEAN
        /\ (read # 0 => marker # 0) /\ (read = 0 => marker = 0 \/ misread')
    BY <2>1 DEF PresetInv, PresetTypes
  <2>3. CASE read # 0 /\ start[l].center
    BY <2>1, <2>2, <2>3 DEF Stages
  <2>4. CASE ~(read # 0 /\ start[l].center)
    <3>1. start[l].center \in BOOLEAN
      BY DEF PresetInv, PresetTypes, StartRecord
    <3>2. CASE read = 0
      <4>1. Forgets(l, "radio")
        BY <2>1, <2>4, <3>1, <3>2 DEF Forgets, Preset
      <4> QED
        BY <2>2, <3>2, <4>1 DEF Stages
    <3>3. CASE read = Preset - 1
      <4>1. Forgets(l, "version")
        BY <2>1, <2>4, <3>1, <3>3 DEF Forgets, Preset
      <4> QED
        BY <2>2, <3>3, <4>1 DEF Stages, Preset
    <3>4. CASE read = Preset
      <4>1. Forgets(l, "run")
        BY <2>1, <2>4, <3>1, <3>4 DEF Forgets, Preset
      <4> QED
        BY <2>2, <3>4, <4>1 DEF Stages
    <3> QED
      BY <2>2, <3>2, <3>3, <3>4
  <2> QED
    BY <2>3, <2>4
<1>3. /\ start' \in [SdrLaunchers -> StartRecord] /\ start'[l].at = at
      /\ \A k \in SdrLaunchers \ {l} : start'[k] = start[k]
      /\ at = "repair" => start'[l].config = start[l].config
  BY <1>1, <1>2, StartMoves DEF PresetInv
<1>4. PresetTypes'
  BY <1>1, <1>2, <1>3 DEF PresetInv, PresetTypes
<1>5. CASE ~overlap
  <2>1. (\A k \in SdrLaunchers \ {l} : start[k] = Idle) /\ ~Running
    BY <1>1, <1>5, AtWork, StartAlone
  <2>2. ~Running'
    BY <1>1, <2>1 DEF Running
  <2>3. start[l].config = file["config"]
    BY <1>1, <1>5 DEF PresetInv, StartIsTrue
  <2>4. \A f \in Migrated(at) : file[f] # "old"
    BY <1>2, <1>5 DEF PresetInv, NothingOld, Migrated
  <2>5. OneUser' /\ StartIsTrue'
    BY <1>1, <1>2, <1>3, <2>1, <2>2, <2>3, <2>4, OneAt
  <2>6. NothingOld'
    BY <1>1, <1>5, <2>2 DEF PresetInv, NothingOld
  <2> QED
    BY <1>4, <2>5, <2>6 DEF PresetInv
<1> QED
  BY <1>1, <1>4, <1>5 DEF PresetInv

\* Writing: each file is as the launcher read it, or has the preset.
LEMMA RepairKeeps ==
    ASSUME PresetInv, NEW l \in SdrLaunchers, Repair(l)
    PROVE  /\ PresetInv'
           /\ ~overlap => file' = file
<1>1. /\ start[l].at = "repair" /\ UNCHANGED <<marker, misread, sdrpp, overlap>>
      /\ file' = [file EXCEPT !["config"] = start[l].config]
      /\ center' = FALSE
  BY DEF Repair
<1>2. PICK at \in {"version", "run"} : Forgets(l, at) /\ (at = "version" => marker < Preset)
  BY DEF Repair
<1>3. /\ start' \in [SdrLaunchers -> StartRecord] /\ start'[l].at = at
      /\ \A k \in SdrLaunchers \ {l} : start'[k] = start[k]
  BY <1>2, StartMoves DEF PresetInv, Stages
<1>4. CASE ~overlap
  <2>1. (\A k \in SdrLaunchers \ {l} : start[k] = Idle) /\ ~Running
    BY <1>1, <1>4, AtWork, StartAlone
  <2>2. ~Running'
    BY <1>1, <2>1 DEF Running
  <2>3. file' = file
    BY <1>1, <1>4 DEF PresetInv, StartIsTrue, PresetTypes
  <2>4. PresetTypes'
    BY <1>1, <1>3, <2>3 DEF PresetInv, PresetTypes
  <2>5. \A f \in Migrated(at) : file[f] # "old"
    BY <1>1, <1>4 DEF PresetInv, NothingOld, StartIsTrue, Migrated
  <2>6. OneUser' /\ StartIsTrue'
    BY <1>2, <1>3, <2>1, <2>2, <2>3, <2>5, OneAt
  <2>7. NothingOld'
    BY <1>1, <1>4, <2>2, <2>3 DEF PresetInv, NothingOld
  <2> QED
    BY <2>3, <2>4, <2>6, <2>7 DEF PresetInv
<1>5. CASE overlap
  <2>1. start[l].config \in {"old", "preset", "chosen"}
    BY <1>1 DEF PresetInv, PresetTypes, StartRecord
  <2>2. file' \in [Files -> {"old", "preset", "chosen"}]
    BY <1>1, <2>1 DEF PresetInv, PresetTypes
  <2> QED
    BY <1>1, <1>3, <1>5, <2>2 DEF PresetInv, PresetTypes
<1> QED
  BY <1>4, <1>5

LEMMA MigrateKeeps ==
    ASSUME PresetInv, NEW l \in SdrLaunchers, Migration(l)
    PROVE  /\ PresetInv'
           /\ ~overlap => marker = 0 \/ misread
<1>1. PICK f \in {"radio", "bridge", "config"},
           next \in {"bridge", "config", "version"} :
         /\ Migrate(l, f, next)
         /\ Migrated(next) = Migrated(f) \cup {f}
  BY DEF Migration, Migrated, Files
<1>2. /\ start[l].at = f /\ UNCHANGED <<marker, misread, sdrpp, overlap>>
      /\ file' = [file EXCEPT ![f] = "preset"]
      /\ center' = (IF f = "config" THEN FALSE ELSE center)
      /\ Goes(l, next)
  BY <1>1 DEF Migrate
<1>3. /\ start' \in [SdrLaunchers -> StartRecord] /\ start'[l].at = next
      /\ \A k \in SdrLaunchers \ {l} : start'[k] = start[k]
  BY <1>2, StartMoves DEF PresetInv, Stages
<1>4. PresetTypes'
  BY <1>2, <1>3 DEF PresetInv, PresetTypes
<1>5. CASE ~overlap
  <2>1. (\A k \in SdrLaunchers \ {l} : start[k] = Idle) /\ ~Running
    BY <1>2, <1>5, AtWork, StartAlone
  <2>2. ~Running'
    BY <1>2, <2>1 DEF Running
  <2>3. marker = 0 \/ misread
    BY <1>2, <1>5 DEF PresetInv, StartIsTrue
  <2>4. \A g \in Migrated(next) : file'[g] # "old"
    <3>1. \A g \in Migrated(f) : file[g] # "old"
      BY <1>2, <1>5 DEF PresetInv, StartIsTrue
    <3>2. Migrated(f) \subseteq Files /\ f \in Files
      BY DEF Migrated, Files
    <3> QED
      BY <1>1, <1>2, <3>1, <3>2 DEF PresetInv, PresetTypes
  <2>5. OneUser' /\ StartIsTrue'
    BY <1>2, <1>3, <2>1, <2>2, <2>3, <2>4, OneAt
  <2>6. NothingOld'
    <3>1. \A g \in Files : file'[g] = file[g] \/ file'[g] = "preset"
      BY <1>1, <1>2 DEF PresetInv, PresetTypes, Files
    <3> QED
      BY <1>2, <1>5, <2>2, <3>1 DEF PresetInv, NothingOld
  <2> QED
    BY <1>4, <2>3, <2>5, <2>6 DEF PresetInv
<1> QED
  BY <1>2, <1>4, <1>5 DEF PresetInv

LEMMA MarkKeeps ==
    ASSUME PresetInv, NEW l \in SdrLaunchers, Mark(l)
    PROVE  PresetInv'
<1>1. /\ start[l].at = "version" /\ Goes(l, "run") /\ marker' = Preset
      /\ UNCHANGED <<file, center, misread, sdrpp, overlap>>
  BY DEF Mark
<1>2. /\ start' \in [SdrLaunchers -> StartRecord] /\ start'[l].at = "run"
      /\ \A k \in SdrLaunchers \ {l} : start'[k] = start[k]
  BY <1>1, StartMoves DEF PresetInv, Stages
<1>3. PresetTypes'
  BY <1>1, <1>2 DEF PresetInv, PresetTypes
<1>4. CASE ~overlap
  <2>1. (\A k \in SdrLaunchers \ {l} : start[k] = Idle) /\ ~Running
    BY <1>1, <1>4, AtWork, StartAlone
  <2>2. ~Running'
    BY <1>1, <2>1 DEF Running
  <2>3. \A f \in Files : file[f] # "old"
    BY <1>1, <1>4 DEF PresetInv, StartIsTrue, Migrated
  <2>4. OneUser' /\ StartIsTrue'
    BY <1>2, <2>1, <2>2, OneAt DEF Migrated
  <2>5. NothingOld'
    BY <1>1, <2>2, <2>3 DEF NothingOld
  <2> QED
    BY <1>3, <2>4, <2>5 DEF PresetInv
<1> QED
  BY <1>1, <1>3, <1>4 DEF PresetInv

\* The end of a start: SDR++ runs in the place of the launcher, or does not.
LEMMA RunKeeps ==
    ASSUME PresetInv, NEW l \in SdrLaunchers, Run(l)
    PROVE  PresetInv'
<1>1. /\ start[l].at = "run" /\ Stops(l) /\ UNCHANGED <<file, center, marker, misread>>
      /\ sdrpp' = IF Running THEN sdrpp ELSE Old
      /\ Interferes(l, Running)
  BY DEF Run
<1>2. /\ start' \in [SdrLaunchers -> StartRecord] /\ start'[l] = Idle
      /\ \A k \in SdrLaunchers \ {l} : start'[k] = start[k]
  BY <1>1, StartStops DEF PresetInv
<1>3. /\ overlap' \in BOOLEAN
      /\ ~overlap' => ~overlap /\ ~Running
  BY <1>1 DEF Interferes, PresetInv, PresetTypes, Running
<1>4. PresetTypes'
  BY <1>1, <1>2, <1>3 DEF PresetInv, PresetTypes
<1>5. CASE ~overlap'
  <2>1. \A k \in SdrLaunchers \ {l} : start[k] = Idle
    BY <1>1, <1>3, <1>5, AtWork, StartAlone
  <2>2. \A k \in SdrLaunchers : start'[k] = Idle
    BY <1>2, <2>1
  <2>3. OneUser' /\ StartIsTrue'
    BY <2>2 DEF OneUser, StartIsTrue, Idle, Migrated
  <2>4. NothingOld'
    BY <1>1, <1>3, <1>5, NoneOld DEF PresetInv, NothingOld
  <2> QED
    BY <1>4, <2>3, <2>4 DEF PresetInv
<1> QED
  BY <1>4, <1>5 DEF PresetInv

LEMMA AbandonKeeps ==
    ASSUME PresetInv, NEW l \in SdrLaunchers, Abandon(l)
    PROVE  PresetInv'
<1>1. /\ start[l] # Idle /\ Stops(l)
      /\ UNCHANGED <<file, center, marker, misread, sdrpp, overlap>>
  BY DEF Abandon
<1>2. /\ start' \in [SdrLaunchers -> StartRecord] /\ start'[l] = Idle
      /\ \A k \in SdrLaunchers \ {l} : start'[k] = start[k]
  BY <1>1, StartStops DEF PresetInv
<1>3. PresetTypes'
  BY <1>1, <1>2 DEF PresetInv, PresetTypes
<1>4. CASE ~overlap
  <2>1. (\A k \in SdrLaunchers \ {l} : start[k] = Idle) /\ ~Running
    BY <1>1, <1>4, StartAlone
  <2>2. \A k \in SdrLaunchers : start'[k] = Idle
    BY <1>2, <2>1
  <2>3. OneUser' /\ StartIsTrue'
    BY <2>2 DEF OneUser, StartIsTrue, Idle, Migrated
  <2>4. NothingOld'
    BY <1>1, <1>4 DEF PresetInv, NothingOld, Running
  <2> QED
    BY <1>3, <2>3, <2>4 DEF PresetInv
<1> QED
  BY <1>1, <1>3, <1>4 DEF PresetInv

\* SDR++, and the steps that have no part in the preset.
LEMMA ByHandKeeps ==
    ASSUME PresetInv, StartedByHand
    PROVE  PresetInv'
<1>1. /\ ~Running /\ sdrpp' = Old /\ UNCHANGED <<file, center, marker, misread, start>>
      /\ overlap' = (overlap \/ \E l \in SdrLaunchers : start[l] # Idle)
  BY DEF StartedByHand
<1>2. PresetTypes'
  BY <1>1 DEF PresetInv, PresetTypes
<1>3. CASE ~overlap'
  <2>1. ~overlap /\ \A l \in SdrLaunchers : start'[l] = Idle
    BY <1>1, <1>3
  <2>2. OneUser' /\ StartIsTrue'
    BY <2>1 DEF OneUser, StartIsTrue, Idle, Migrated
  <2>3. NothingOld'
    BY <1>1, <2>1, NoneOld DEF PresetInv, NothingOld
  <2> QED
    BY <1>2, <2>2, <2>3 DEF PresetInv
<1> QED
  BY <1>2, <1>3 DEF PresetInv

LEMMA ChoosesKeeps ==
    ASSUME PresetInv, NEW f \in Files, Chooses(f)
    PROVE  /\ PresetInv'
           /\ marker # 0 /\ ~overlap /\ ~misread
              => file' = [file EXCEPT ![f] = "chosen"]
<1>1. /\ Running /\ UNCHANGED <<marker, misread, start, sdrpp, overlap>>
      /\ file' = [file EXCEPT ![f] = IF f \in sdrpp THEN "old" ELSE "chosen"]
      /\ center' \in IF f = "config" THEN BOOLEAN ELSE {center}
  BY DEF Chooses
<1>2. PresetTypes'
  BY <1>1 DEF PresetInv, PresetTypes
<1>3. CASE ~overlap
  <2>1. \A l \in SdrLaunchers : start'[l] = Idle
    BY <1>1, <1>3 DEF PresetInv, OneUser
  <2>2. OneUser' /\ StartIsTrue'
    BY <2>1 DEF OneUser, StartIsTrue, Idle, Migrated
  <2>3. marker # 0 => file' = [file EXCEPT ![f] = "chosen"]
    BY <1>1, <1>3 DEF PresetInv, NothingOld
  <2>4. NothingOld'
    BY <1>1, <1>3, <2>3 DEF PresetInv, PresetTypes, NothingOld, Running
  <2> QED
    BY <1>2, <2>2, <2>3, <2>4 DEF PresetInv
<1> QED
  BY <1>1, <1>2, <1>3 DEF PresetInv

LEMMA QuitsKeeps ==
    ASSUME PresetInv, Quits
    PROVE  PresetInv'
<1>1. ~Running' /\ UNCHANGED <<file, center, marker, misread, start, overlap>>
  BY DEF Quits, Running
<1>2. PresetTypes'
  BY <1>1 DEF PresetInv, PresetTypes
<1>3. CASE ~overlap
  BY <1>1, <1>2, <1>3
  DEF PresetInv, OneUser, StartIsTrue, NothingOld, Migrated
<1> QED
  BY <1>1, <1>2, <1>3 DEF PresetInv

LEMMA ListKeepsPreset ==
    ASSUME PresetInv,
           \/ ShowChooser \/ CloseChooser \/ Add \/ EditBundled
           \/ OnCard(Edit) \/ OnCard(Delete) \/ UNCHANGED sdrVars
    PROVE  PresetInv' /\ UNCHANGED preset
<1>1. UNCHANGED preset
  BY DEF ShowChooser, CloseChooser, Add, EditBundled, OnCard, Edit, Delete,
         sdrVars
<1> QED
  BY <1>1 DEF preset, PresetInv, PresetTypes, OneUser, StartIsTrue, NothingOld,
              Migrated, Running

\* Every step keeps the invariant, and takes no choice back.
LEMMA PresetStep ==
    PresetInv /\ [SdrNext]_sdrVars
    => /\ PresetInv'
       /\ marker # 0 /\ ~overlap /\ ~misread =>
             \A f \in Files : file[f] = "chosen" => file'[f] = "chosen"
<1> SUFFICES ASSUME PresetInv, [SdrNext]_sdrVars
             PROVE  /\ PresetInv'
                    /\ marker # 0 /\ ~overlap /\ ~misread =>
                          \A f \in Files :
                             file[f] = "chosen" => file'[f] = "chosen"
  OBVIOUS
<1>1. ASSUME NEW l \in SdrLaunchers, Starting(l)
      PROVE  PresetInv' /\ (marker # 0 /\ ~overlap /\ ~misread => file' = file)
  <2>1. CASE BeginStart(l)
    BY <2>1, BeginKeeps DEF BeginStart
  <2>2. CASE Read(l)
    BY <2>2, ReadKeeps DEF Read
  <2>3. CASE ReadMarker(l)
    BY <2>3, ReadMarkerKeeps DEF ReadMarker
  <2>4. CASE Repair(l)
    BY <2>4, RepairKeeps
  <2>5. CASE Migration(l)
    BY <2>5, MigrateKeeps
  <2>6. CASE Mark(l)
    BY <2>6, MarkKeeps DEF Mark
  <2>7. CASE Run(l)
    BY <2>7, RunKeeps DEF Run
  <2>8. CASE Abandon(l)
    BY <2>8, AbandonKeeps DEF Abandon
  <2> QED
    BY <1>1, <2>1, <2>2, <2>3, <2>4, <2>5, <2>6, <2>7, <2>8 DEF Starting
<1>2. ASSUME NEW f \in Files, Chooses(f)
      PROVE  /\ PresetInv'
             /\ marker # 0 /\ ~overlap /\ ~misread =>
                   \A g \in Files : file[g] = "chosen" => file'[g] = "chosen"
  BY <1>2, ChoosesKeeps DEF PresetInv, PresetTypes
<1>3. CASE StartedByHand \/ Quits
  BY <1>3, ByHandKeeps, QuitsKeeps DEF StartedByHand, Quits
<1>4. CASE \/ ShowChooser \/ CloseChooser \/ Add \/ EditBundled
           \/ OnCard(Edit) \/ OnCard(Delete) \/ UNCHANGED sdrVars
  BY <1>4, ListKeepsPreset DEF preset
<1> QED
  BY <1>1, <1>2, <1>3, <1>4 DEF SdrNext

\* The marker says that all the files have had the preset.
THEOREM PresetIsComplete == SdrSpec => []PresetComplete
<1>1. PresetInv => PresetComplete
  BY DEF PresetInv, NothingOld, PresetComplete, Preset
<1> QED
  BY <1>1, PresetInit, PresetStep, PTL DEF SdrSpec

\* No later start takes back what the operator chose.
THEOREM ChoicesSurvive == SdrSpec => ChoicesKept
<1>1. PresetInv /\ [SdrNext]_sdrVars
      => [marker # 0 /\ ~overlap /\ ~misread =>
             \A f \in Files :
                file[f] = "chosen" => file'[f] = "chosen"]_sdrVars
  BY PresetStep
<1> QED
  BY <1>1, PresetInit, PresetStep, PTL DEF SdrSpec, ChoicesKept

-----------------------------------------------------------------------------
\* A set of natural numbers has a least one: what stands in for induction.
LEMMA LeastNumber ==
    ASSUME NEW T \in SUBSET Nat, T # {}
    PROVE  \E x \in T : \A y \in T : x <= y
<1> DEFINE Before == OpToRel(<, Nat)
<1>1. IsWellFoundedOn(Before, Nat)
  BY NatLessThanWellFounded
<1>2. \A x, y \in T : y < x => <<y, x>> \in Before
  BY DEF OpToRel
<1> HIDE DEF Before
<1>3. PICK x \in T : \A y \in T : <<y, x>> \notin Before
  <2>1. T \subseteq Nat
    OBVIOUS
  <2> QED
    BY <1>1, <2>1, WFMin
<1>4. \A y \in T : ~(y < x)
  BY <1>2, <1>3
<1>5. \A y \in T : x <= y
  BY <1>4
<1> QED
  BY <1>5

-----------------------------------------------------------------------------
(***************************************************************************)
(* What a deletion retains.                                                 *)
(***************************************************************************)
LoopStep(g, names, own, i) ==
    IF i = 0 THEN <<>>
    ELSE IF names[i] = own THEN g[i - 1]
    ELSE Append(g[i - 1], names[i])

IsLoop(g, names, own, k) ==
    /\ DOMAIN g = 0 .. k
    /\ g = [i \in 0 .. k |-> LoopStep(g, names, own, i)]

\* The loop can be run up to each entry.
LEMMA LoopRuns ==
    ASSUME NEW names, NEW own, NEW len \in Nat
    PROVE  \E g : IsLoop(g, names, own, len)
<1> DEFINE Bad == {k \in Nat : ~\E g : IsLoop(g, names, own, k)}
<1> SUFFICES Bad = {}
  OBVIOUS
<1> SUFFICES ASSUME Bad # {} PROVE FALSE
  OBVIOUS
<1>1. PICK k \in Bad : \A j \in Bad : k <= j
  BY LeastNumber
<1>2. CASE k = 0
  <2>1. IsLoop([i \in 0 .. 0 |-> <<>>], names, own, 0)
    BY DEF IsLoop, LoopStep
  <2> QED
    BY <1>2, <2>1
<1>3. CASE k # 0
  <2>1. k - 1 \in Nat /\ k - 1 \notin Bad
    BY <1>1, <1>3
  <2>2. PICK g : IsLoop(g, names, own, k - 1)
    BY <2>1
  <2> DEFINE h == [i \in 0 .. k |-> IF i = k THEN LoopStep(g, names, own, k)
                                    ELSE g[i]]
  <2>3. \A i \in 0 .. k : h[i] = LoopStep(h, names, own, i)
    <3> SUFFICES ASSUME NEW i \in 0 .. k
                 PROVE  h[i] = LoopStep(h, names, own, i)
      OBVIOUS
    <3>1. i # 0 => i - 1 \in 0 .. k /\ i - 1 # k
      OBVIOUS
    <3>2. i # 0 => h[i - 1] = g[i - 1]
      BY <3>1
    <3>3. LoopStep(h, names, own, i) = LoopStep(g, names, own, i)
      BY <3>2 DEF LoopStep
    <3>4. i # k => g[i] = LoopStep(g, names, own, i)
      <4>1. i # k => i \in 0 .. k - 1
        OBVIOUS
      <4> QED
        BY <2>2, <4>1 DEF IsLoop
    <3> QED
      BY <3>3, <3>4
  <2>4. IsLoop(h, names, own, k)
    BY <2>3 DEF IsLoop
  <2> QED
    BY <2>4
<1> QED
  BY <1>2, <1>3

\* What has been retained of the first entries.
LEMMA LoopRetains ==
    ASSUME NEW S, NEW names \in Seq(S), NEW own
    PROVE  \E g : /\ IsLoop(g, names, own, Len(names))
                  /\ Retained(names, own) = g[Len(names)]
<1> DEFINE IsUpTo(g) ==
       g = [i \in 0 .. Len(names) |->
              IF i = 0 THEN <<>>
              ELSE IF names[i] = own THEN g[i - 1]
              ELSE Append(g[i - 1], names[i])]
<1>1. Retained(names, own) = (CHOOSE g : IsUpTo(g))[Len(names)]
  BY DEF Retained
<1>2. PICK g : IsLoop(g, names, own, Len(names))
  <2>1. Len(names) \in Nat
    OBVIOUS
  <2> QED
    BY <2>1, LoopRuns
<1>3. IsUpTo(g)
  BY <1>2 DEF IsLoop, LoopStep
<1>4. \A f : IsUpTo(f) => IsLoop(f, names, own, Len(names))
  BY DEF IsLoop, LoopStep
<1> HIDE DEF IsUpTo
<1>5. IsUpTo(CHOOSE f : IsUpTo(f))
  BY <1>3
<1> QED
  BY <1>1, <1>4, <1>5

\* It is the sequence of the entries of another name, and none is there twice
\* that was there once.
Occurs(v, s, n) == \E j \in 1 .. n : s[j] = v
AllDiffer(s, n) == \A j, k \in 1 .. n : s[j] = s[k] => j = k

RetainedFrom(S, r, names, own, n) ==
    /\ r \in Seq(S) /\ Len(r) <= n
    /\ \A v : Occurs(v, r, Len(r)) <=> v # own /\ Occurs(v, names, n)
    /\ AllDiffer(names, n) => AllDiffer(r, Len(r))

LEMMA AppendRetains ==
    ASSUME NEW S, NEW r \in Seq(S), NEW names \in Seq(S), NEW own,
           NEW n \in Nat, n < Len(names), names[n + 1] # own,
           RetainedFrom(S, r, names, own, n)
    PROVE  RetainedFrom(S, Append(r, names[n + 1]), names, own, n + 1)
<1> DEFINE x == names[n + 1]
           t == Append(r, x)
<1>1. /\ x \in S /\ t \in Seq(S) /\ Len(r) \in Nat /\ Len(t) = Len(r) + 1
      /\ \A j \in 1 .. Len(r) : t[j] = r[j]
      /\ t[Len(r) + 1] = x
  OBVIOUS
<1>2. 1 .. n + 1 = (1 .. n) \cup {n + 1}
  OBVIOUS
<1>3. 1 .. Len(t) = (1 .. Len(r)) \cup {Len(r) + 1}
  BY <1>1
<1> HIDE DEF t
<1>4. Len(t) <= n + 1
  BY <1>1 DEF RetainedFrom
<1>5. ASSUME NEW v
      PROVE  Occurs(v, t, Len(t)) <=> v # own /\ Occurs(v, names, n + 1)
  <2>1. Occurs(v, t, Len(t)) <=> Occurs(v, r, Len(r)) \/ v = x
    BY <1>1, <1>3 DEF Occurs
  <2>2. Occurs(v, names, n + 1) <=> Occurs(v, names, n) \/ v = x
    BY <1>2 DEF Occurs
  <2> QED
    BY <2>1, <2>2 DEF RetainedFrom
<1>6. ASSUME AllDiffer(names, n + 1) PROVE AllDiffer(t, Len(t))
  <2>1. AllDiffer(names, n)
    BY <1>2, <1>6 DEF AllDiffer
  <2>2. ~Occurs(x, names, n)
    BY <1>2, <1>6 DEF AllDiffer, Occurs
  <2>3. AllDiffer(r, Len(r)) /\ ~Occurs(x, r, Len(r))
    BY <2>1, <2>2 DEF RetainedFrom
  <2> QED
    BY <1>1, <1>3, <2>3 DEF AllDiffer, Occurs
<1> QED
  BY <1>1, <1>4, <1>5, <1>6 DEF RetainedFrom, t

LEMMA RetainedIs ==
    ASSUME NEW S, NEW names \in Seq(S), NEW own
    PROVE  RetainedFrom(S, Retained(names, own), names, own, Len(names))
<1> DEFINE len == Len(names)
<1>1. len \in Nat
  OBVIOUS
<1>2. PICK g : IsLoop(g, names, own, len) /\ Retained(names, own) = g[len]
  BY LoopRetains
<1> DEFINE Bad == {i \in 0 .. len : ~RetainedFrom(S, g[i], names, own, i)}
<1>3. Bad = {}
  <2> SUFFICES ASSUME Bad # {} PROVE FALSE
    OBVIOUS
  <2>1. PICK n \in Bad : \A j \in Bad : n <= j
    <3>1. Bad \in SUBSET Nat
      OBVIOUS
    <3> HIDE DEF Bad
    <3> QED
      BY <3>1, LeastNumber
  <2>2. n \in 0 .. len /\ g[n] = LoopStep(g, names, own, n)
    BY <1>2, <2>1 DEF IsLoop
  <2>3. CASE n = 0
    <3>1. g[0] = <<>>
      BY <2>2, <2>3 DEF LoopStep
    <3>2. RetainedFrom(S, <<>>, names, own, 0)
      BY DEF RetainedFrom, Occurs, AllDiffer
    <3> QED
      BY <2>1, <2>3, <3>1, <3>2
  <2>4. CASE n # 0
    <3>1. n - 1 \in 0 .. len /\ n - 1 \in Nat /\ n - 1 < len
          /\ (n - 1) + 1 = n
      BY <1>1, <2>2, <2>4
    <3>2. RetainedFrom(S, g[n - 1], names, own, n - 1)
      BY <2>1, <3>1
    <3>3. CASE names[n] # own
      <4>1. g[n] = Append(g[n - 1], names[n])
        BY <2>2, <2>4, <3>3 DEF LoopStep
      <4>2. g[n - 1] \in Seq(S)
        BY <3>2 DEF RetainedFrom
      <4>3. RetainedFrom(S, g[n], names, own, n)
        BY <3>1, <3>2, <3>3, <4>1, <4>2, AppendRetains
      <4> QED
        BY <2>1, <4>3
    <3>4. CASE names[n] = own
      <4>1. g[n] = g[n - 1]
        BY <2>2, <2>4, <3>4 DEF LoopStep
      <4>2. 1 .. n = (1 .. n - 1) \cup {n}
        BY <2>2, <2>4
      <4>3. RetainedFrom(S, g[n - 1], names, own, n)
        <5>1. g[n - 1] \in Seq(S) /\ Len(g[n - 1]) <= n
          BY <2>2, <3>1, <3>2 DEF RetainedFrom
        <5>2. \A v : v # own /\ Occurs(v, names, n)
                     <=> v # own /\ Occurs(v, names, n - 1)
          BY <3>4, <4>2 DEF Occurs
        <5>3. AllDiffer(names, n) => AllDiffer(names, n - 1)
          BY <4>2 DEF AllDiffer
        <5> QED
          BY <3>2, <5>1, <5>2, <5>3 DEF RetainedFrom
      <4> QED
        BY <2>1, <4>1, <4>3
    <3> QED
      BY <3>3, <3>4
  <2> QED
    BY <2>3, <2>4
<1>4. RetainedFrom(S, g[len], names, own, len)
  BY <1>1, <1>3
<1> QED
  BY <1>2, <1>4

-----------------------------------------------------------------------------
(***************************************************************************)
(* The list of programs.  In the terms of its entries: the cards are the    *)
(* list's or known to be old, and until an old card is edited no name is    *)
(* there twice and none is the bundled program's.                           *)
(***************************************************************************)
Entries == Names \cup {NoName}

ListTypes ==
    /\ stored \in Seq(Entries) /\ Len(stored) <= MaxKept
    /\ size \in 0 .. Len(stored) /\ name \in Names
    /\ stale \in BOOLEAN /\ misled \in BOOLEAN
    /\ cards # NoCards => \A c \in cards : c.index \in 1 .. MaxKept

CardsShow == cards # NoCards /\ ~stale => cards = Cards(Kept)

Distinct == AllDiffer(stored, size) /\ ~Occurs(name, stored, size)

ListInv == ListTypes /\ CardsShow /\ (~misled => Distinct)

\* The first entries of a list.
LEMMA FirstEntries ==
    ASSUME NEW S, NEW s \in Seq(S), NEW n \in 0 .. Len(s)
    PROVE  /\ SubSeq(s, 1, n) \in Seq(S) /\ Len(SubSeq(s, 1, n)) = n
           /\ \A i \in 1 .. n : SubSeq(s, 1, n)[i] = s[i]
           /\ \A v : v \in ToSet(SubSeq(s, 1, n)) <=> Occurs(v, s, n)
<1>1. /\ SubSeq(s, 1, n) \in Seq(S) /\ Len(SubSeq(s, 1, n)) = n
      /\ \A i \in 1 .. n : SubSeq(s, 1, n)[i] = s[i]
      /\ DOMAIN SubSeq(s, 1, n) = 1 .. n
  OBVIOUS
<1> QED
  BY <1>1 DEF ToSet, Occurs

\* The same entries, the same list.
LEMMA SameEntries ==
    ASSUME NEW S, NEW s \in Seq(S), NEW t \in Seq(S), NEW n \in 0 .. Len(s),
           n <= Len(t), \A i \in 1 .. n : s[i] = t[i]
    PROVE  SubSeq(s, 1, n) = SubSeq(t, 1, n)
OBVIOUS

LEMMA WholeList ==
    ASSUME NEW S, NEW s \in Seq(S)
    PROVE  SubSeq(s, 1, Len(s)) = s
OBVIOUS

\* The names of the list.
LEMMA NamesAre ==
    ASSUME ListTypes
    PROVE  /\ \A v : v \in KeptNames <=> Occurs(v, stored, size)
           /\ Kept \in Seq(Entries) /\ Len(Kept) = size
           /\ \A i \in 1 .. size : Kept[i] = stored[i]
BY FirstEntries DEF ListTypes, KeptNames, Kept

\* What a card is.
LEMMA CardIs ==
    ASSUME ListInv, cards # NoCards, ~stale, NEW c \in cards
    PROVE  c.index \in 1 .. size /\ c.name = stored[c.index]
<1>1. Len(Kept) = size /\ \A j \in 1 .. size : Kept[j] = stored[j]
  BY NamesAre DEF ListInv
<1>2. PICK i \in 1 .. Len(Kept) : c = [name |-> Kept[i], index |-> i]
  BY DEF ListInv, CardsShow, Cards
<1> QED
  BY <1>1, <1>2

\* After a sync the cards are the list's, or are known to be old.
LEMMA SyncedFits ==
    ASSUME ListInv, Synced, stored' \in Seq(Entries), Len(stored') <= MaxKept,
           size' \in 0 .. Len(stored')
    PROVE  /\ stale' \in BOOLEAN /\ CardsShow'
           /\ cards' # NoCards => \A c \in cards' : c.index \in 1 .. MaxKept
<1>1. CASE cards' = Cards(Kept') /\ stale' = FALSE
  <2>1. Len(Kept') = size'
    BY FirstEntries DEF Kept
  <2>2. \A c \in cards' : c.index \in 1 .. size'
    BY <1>1, <2>1 DEF Cards
  <2>3. MaxKept \in Nat /\ Len(stored') \in Nat
    BY SdrAssumption
  <2>4. stale' \in BOOLEAN /\ CardsShow'
    BY <1>1 DEF CardsShow
  <2>5. \A c \in cards' : c.index \in 1 .. MaxKept
    <3> SUFFICES ASSUME NEW c \in cards' PROVE c.index \in 1 .. MaxKept
      OBVIOUS
    <3>1. PICK i \in 1 .. size' : c.index = i
      BY <2>2
    <3> QED
      BY <2>3, <3>1
  <2> QED
    BY <2>4, <2>5
<1>2. CASE stale' = TRUE /\ cards' = cards
  BY <1>2 DEF CardsShow, ListInv, ListTypes
<1> QED
  BY <1>1, <1>2 DEF Synced

LEMMA ListInit == SdrInit => ListInv
<1> SUFFICES ASSUME SdrInit PROVE ListInv
  OBVIOUS
<1>1. stored = <<>> /\ size = 0 /\ Len(stored) = 0 /\ cards = NoCards
      /\ stale = FALSE /\ misled = FALSE /\ name = Bundled
  BY DEF SdrInit
<1>2. ListTypes /\ CardsShow
  <2>1. stored \in Seq(Entries)
    BY <1>1
  <2>2. Len(stored) <= MaxKept /\ size \in 0 .. Len(stored)
    BY <1>1, SdrAssumption
  <2>3. name \in Names /\ stale \in BOOLEAN /\ misled \in BOOLEAN
    BY <1>1, SdrAssumption
  <2> QED
    BY <1>1, <2>1, <2>2, <2>3 DEF ListTypes, CardsShow
<1>3. Distinct
  BY <1>1 DEF Distinct, AllDiffer, Occurs
<1> QED
  BY <1>2, <1>3 DEF ListInv

\* An added program is behind the others.
LEMMA AddKeeps ==
    ASSUME ListInv, Add
    PROVE  ListInv' /\ KeptNames \subseteq KeptNames'
<1> DEFINE card(n) == [name |-> n, index |-> size + 1]
<1>1. PICK n \in FreeNames(0) :
         /\ stored' = IF size < Len(stored)
                      THEN [stored EXCEPT ![size + 1] = n]
                      ELSE Append(stored, n)
         /\ size' = size + 1
         /\ \/ cards' = cards \cup {card(n)} /\ stale' = stale
            \/ stale' = TRUE /\ cards' = cards
  BY DEF Add
<1>2. /\ size < MaxKept /\ cards # NoCards /\ name' = name /\ misled' = misled
      /\ stale' \in BOOLEAN
  BY <1>1 DEF Add, Open, ListInv, ListTypes
<1>3. /\ size \in Nat /\ MaxKept \in Nat /\ stored \in Seq(Entries)
      /\ Len(stored) \in Nat /\ size <= Len(stored) /\ Len(stored) <= MaxKept
  BY SdrAssumption DEF ListInv, ListTypes
<1>4. n \in Names /\ n # NoName /\ ~Occurs(n, stored, size) /\ n # name
  <2>1. n \in Names /\ n # name /\ \A i \in 1 .. Len(Kept) : i # 0 => n # Kept[i]
    BY DEF FreeNames
  <2>2. Len(Kept) = size /\ \A i \in 1 .. size : Kept[i] = stored[i]
    BY NamesAre DEF ListInv
  <2>3. \A i \in 1 .. size : i # 0
    BY <1>3
  <2> QED
    BY <2>1, <2>2, <2>3, SdrAssumption DEF Occurs
<1>5. /\ stored' \in Seq(Entries)
      /\ size' <= Len(stored') /\ Len(stored') <= MaxKept
      /\ \A i \in 1 .. size : stored'[i] = stored[i]
      /\ stored'[size + 1] = n
  <2>1. n \in Entries
    BY <1>4 DEF Entries
  <2>2. CASE size < Len(stored)
    BY <1>1, <1>2, <1>3, <2>1, <2>2
  <2>3. CASE size = Len(stored)
    BY <1>1, <1>2, <1>3, <2>1, <2>3
  <2> QED
    BY <1>3, <2>2, <2>3
<1>6. 1 .. size + 1 = (1 .. size) \cup {size + 1}
  BY <1>3
<1>7. cards' # NoCards => \A c \in cards' : c.index \in 1 .. MaxKept
  <2>1. size + 1 \in 1 .. MaxKept
    BY <1>2, <1>3
  <2> QED
    BY <1>1, <1>2, <2>1 DEF ListInv, ListTypes
<1>8. ListTypes'
  BY <1>1, <1>2, <1>3, <1>5, <1>7 DEF ListInv, ListTypes
<1>9. ASSUME ~misled' PROVE Distinct'
  <2>1. AllDiffer(stored, size)'
    BY <1>1, <1>2, <1>4, <1>5, <1>6, <1>9
    DEF ListInv, Distinct, AllDiffer, Occurs
  <2>2. Occurs(name, stored, size)' = \E j \in 1 .. size' : stored'[j] = name
    BY <1>2 DEF Occurs
  <2> QED
    BY <1>1, <1>2, <1>4, <1>5, <1>6, <1>9, <2>1, <2>2
    DEF ListInv, Distinct, Occurs
<1>10. CardsShow'
  <2> SUFFICES ASSUME ~stale' PROVE cards' = Cards(Kept')
    BY DEF CardsShow
  <2>1. /\ Len(Kept) = size /\ \A i \in 1 .. size : Kept[i] = stored[i]
        /\ Len(Kept') = size + 1
        /\ \A i \in 1 .. size + 1 : Kept'[i] = stored'[i]
    BY <1>1, <1>8, NamesAre, FirstEntries DEF ListInv, ListTypes, Kept
  <2>2. cards = Cards(Kept) /\ cards' = cards \cup {card(n)}
    BY <1>1, <1>2 DEF ListInv, CardsShow
  <2>3. \A i \in 1 .. size : Kept'[i] = Kept[i] /\ i \in 1 .. size + 1
    BY <1>5, <1>6, <2>1
  <2>4. size + 1 \in 1 .. size + 1 /\ Kept'[size + 1] = n
    BY <1>5, <1>6, <2>1
  <2>5. \A c : c \in Cards(Kept') <=> c \in Cards(Kept) \/ c = card(n)
    BY <1>4, <1>6, <2>1, <2>3, <2>4 DEF Cards
  <2> QED
    BY <2>2, <2>5
<1>11. KeptNames \subseteq KeptNames'
  <2>1. \A v : v \in KeptNames <=> Occurs(v, stored, size)
    BY NamesAre DEF ListInv
  <2>2. \A v : v \in KeptNames' <=> Occurs(v, stored', size')
    BY <1>8, FirstEntries DEF ListTypes, KeptNames, Kept
  <2>3. \A v : Occurs(v, stored, size) => Occurs(v, stored', size')
    BY <1>1, <1>5, <1>6 DEF Occurs
  <2> QED
    BY <2>1, <2>2, <2>3
<1> QED
  BY <1>8, <1>9, <1>10, <1>11 DEF ListInv

\* An edit ends the list with the entry it writes.
LEMMA EditKeeps ==
    ASSUME ListInv, cards # NoCards, NEW c \in cards, Edit(c)
    PROVE  /\ ListInv'
           /\ ~stale => /\ stored[c.index] = c.name
                        /\ KeptNames \ KeptNames'
                           \subseteq ToSet(SubSeq(stored, c.index, size))
<1> DEFINE i == c.index
<1>1. PICK n \in FreeNames(i) :
         stored' = [j \in (DOMAIN stored) \cup (1 .. i) |->
                       IF j = i THEN n
                       ELSE IF j \in DOMAIN stored THEN stored[j] ELSE NoName]
  BY DEF Edit
<1>2. /\ size' = i /\ Synced /\ name' = name
      /\ misled' = (misled \/ stale)
  BY DEF Edit
<1>3. /\ stored \in Seq(Entries) /\ size \in 0 .. Len(stored) /\ name \in Names
      /\ Len(stored) \in Nat /\ Len(stored) <= MaxKept /\ MaxKept \in Nat
      /\ DOMAIN stored = 1 .. Len(stored) /\ i \in 1 .. MaxKept
      /\ misled \in BOOLEAN /\ stale \in BOOLEAN
  BY SdrAssumption DEF ListInv, ListTypes
<1>4. n \in Names /\ n \in Entries /\ n # name
  BY DEF FreeNames, Entries
<1> HIDE DEF i
<1>5. /\ stored' \in Seq(Entries) /\ i <= Len(stored')
      /\ Len(stored') <= MaxKept
      /\ stored'[i] = n
      /\ \A j \in 1 .. Len(stored) : j # i => stored'[j] = stored[j]
  <2> DEFINE m == IF i <= Len(stored) THEN Len(stored) ELSE i
  <2>1. m \in Nat /\ i \in 1 .. m /\ m <= MaxKept
        /\ (1 .. Len(stored)) \cup (1 .. i) = 1 .. m
    BY <1>3
  <2>2. \A j \in 1 .. Len(stored) : stored[j] \in Entries
    BY <1>3
  <2> HIDE DEF m
  <2>3. stored' = [j \in 1 .. m |->
                      IF j = i THEN n
                      ELSE IF j \in 1 .. Len(stored) THEN stored[j] ELSE NoName]
    BY <1>1, <1>3, <2>1
  <2>4. stored' \in [1 .. m -> Entries]
    BY <1>4, <2>2, <2>3 DEF Entries
  <2>5. stored' \in Seq(Entries) /\ Len(stored') = m
    BY <2>1, <2>4
  <2>6. \A j \in 1 .. Len(stored) : j \in 1 .. m
    BY <2>1
  <2> QED
    BY <1>3, <2>1, <2>3, <2>5, <2>6
<1>6. size' \in 0 .. Len(stored')
  BY <1>2, <1>3, <1>5
<1>7. /\ stale' \in BOOLEAN /\ CardsShow'
      /\ cards' # NoCards => \A d \in cards' : d.index \in 1 .. MaxKept
  BY <1>2, <1>5, <1>6, SyncedFits
<1>8. ListTypes'
  BY <1>2, <1>3, <1>5, <1>6, <1>7 DEF ListTypes
<1>9. ASSUME ~stale
      PROVE  i \in 1 .. size /\ stored[i] = c.name
             /\ \A j \in 1 .. i : j \in 1 .. size /\ j \in 1 .. Len(stored)
  <2>1. i \in 1 .. size /\ stored[i] = c.name
    BY <1>9, CardIs DEF i
  <2> QED
    BY <1>3, <2>1
<1>10. ASSUME ~misled' PROVE Distinct'
  <2>1. ~stale /\ Distinct
    BY <1>2, <1>3, <1>10 DEF ListInv
  <2>2. \A j \in 1 .. size : j # i => n # stored[j]
    <3>1. Len(Kept) = size /\ \A j \in 1 .. size : Kept[j] = stored[j]
      BY NamesAre DEF ListInv
    <3> QED
      BY <3>1 DEF FreeNames
  <2>3. AllDiffer(stored, size)'
    BY <1>2, <1>5, <1>9, <2>1, <2>2 DEF Distinct, AllDiffer
  <2>4. ~\E j \in 1 .. i : stored'[j] = name
    BY <1>4, <1>5, <1>9, <2>1 DEF Distinct, Occurs
  <2> QED
    BY <1>2, <2>3, <2>4 DEF Distinct, Occurs
<1>11. ASSUME ~stale
       PROVE  KeptNames \ KeptNames' \subseteq ToSet(SubSeq(stored, i, size))
  <2> SUFFICES ASSUME NEW v \in KeptNames, v \notin KeptNames'
               PROVE  v \in ToSet(SubSeq(stored, i, size))
    OBVIOUS
  <2>1. PICK j \in 1 .. size : stored[j] = v
    BY NamesAre DEF ListInv, Occurs
  <2>2. \A k \in 1 .. i : stored'[k] # v
    BY <1>2, <1>8, FirstEntries DEF ListTypes, KeptNames, Kept, Occurs
  <2>3. ~(j < i)
    BY <1>3, <1>5, <1>9, <1>11, <2>1, <2>2
  <2>4. i \in 1 .. size
    BY <1>9, <1>11
  <2>5. j - i + 1 \in 1 .. size - i + 1
    BY <1>3, <2>1, <2>3, <2>4
  <2>6. /\ DOMAIN SubSeq(stored, i, size) = 1 .. size - i + 1
        /\ SubSeq(stored, i, size)[j - i + 1] = stored[j]
    BY <1>3, <2>1, <2>4, <2>5
  <2> QED
    BY <2>1, <2>5, <2>6 DEF ToSet
<1> QED
  BY <1>7, <1>8, <1>9, <1>10, <1>11 DEF ListInv, i

\* A deletion takes away the one name.
LEMMA DeleteKeeps ==
    ASSUME ListInv, cards # NoCards, NEW c \in cards, Delete(c)
    PROVE  /\ ListInv'
           /\ ~stale => KeptNames \ KeptNames' = {c.name}
<1> DEFINE own == c.name
<1>1. /\ stored' = Retained(Kept, own) /\ size' = Len(stored')
      /\ Synced /\ name' = name /\ misled' = misled
  BY DEF Delete
<1>2. /\ Kept \in Seq(Entries) /\ Len(Kept) = size
      /\ \A j \in 1 .. size : Kept[j] = stored[j]
      /\ size \in Nat /\ size <= MaxKept /\ MaxKept \in Nat
  BY NamesAre, SdrAssumption DEF ListInv, ListTypes
<1>3. RetainedFrom(Entries, stored', Kept, own, size)
  BY <1>1, <1>2, RetainedIs
<1>4. /\ \A v : Occurs(v, Kept, size) <=> Occurs(v, stored, size)
      /\ AllDiffer(Kept, size) <=> AllDiffer(stored, size)
  BY <1>2 DEF Occurs, AllDiffer
<1>5. /\ stored' \in Seq(Entries) /\ Len(stored') <= MaxKept
      /\ Len(stored') \in Nat
      /\ \A v : Occurs(v, stored', size') <=> v # own /\ Occurs(v, stored, size)
      /\ AllDiffer(stored, size) => AllDiffer(stored', size')
  BY <1>1, <1>2, <1>3, <1>4 DEF RetainedFrom
<1>6. size' \in 0 .. Len(stored')
  BY <1>1, <1>5
<1>7. /\ stale' \in BOOLEAN /\ CardsShow'
      /\ cards' # NoCards => \A d \in cards' : d.index \in 1 .. MaxKept
  BY <1>1, <1>5, <1>6, SyncedFits
<1>8. ListTypes'
  BY <1>1, <1>5, <1>6, <1>7 DEF ListInv, ListTypes
<1>9. ASSUME ~misled' PROVE Distinct'
  BY <1>1, <1>5, <1>9 DEF ListInv, Distinct
<1>10. ASSUME ~stale PROVE KeptNames \ KeptNames' = {own}
  <2>1. \A v : v \in KeptNames <=> Occurs(v, stored, size)
    BY NamesAre DEF ListInv
  <2>2. \A v : v \in KeptNames' <=> Occurs(v, stored', size')
    BY <1>8, FirstEntries DEF ListTypes, KeptNames, Kept
  <2>3. Occurs(own, stored, size)
    BY <1>10, CardIs DEF Occurs
  <2> QED
    BY <1>5, <2>1, <2>2, <2>3
<1> QED
  BY <1>7, <1>8, <1>9, <1>10 DEF ListInv

\* The bundled program takes a name that no other has.
LEMMA EditBundledKeeps ==
    ASSUME ListInv, EditBundled
    PROVE  ListInv'
<1>1. /\ name' \in Names \ KeptNames /\ Synced
      /\ UNCHANGED <<stored, size, misled>>
  BY DEF EditBundled
<1>2. /\ stale' \in BOOLEAN /\ CardsShow'
      /\ cards' # NoCards => \A d \in cards' : d.index \in 1 .. MaxKept
  BY <1>1, SyncedFits DEF ListInv, ListTypes
<1>3. name' \in Names /\ ~Occurs(name', stored, size)
  BY <1>1, NamesAre DEF ListInv
<1>4. ListTypes'
  BY <1>1, <1>2, <1>3 DEF ListInv, ListTypes
<1>5. ASSUME ~misled' PROVE Distinct'
  <2>1. AllDiffer(stored, size)'
    BY <1>1, <1>5 DEF ListInv, Distinct, AllDiffer
  <2>2. ~Occurs(name, stored, size)'
    BY <1>1, <1>3 DEF Occurs
  <2> QED
    BY <2>1, <2>2 DEF Distinct
<1> QED
  BY <1>2, <1>4, <1>5 DEF ListInv

\* All other steps show the list, close it or leave it alone.
LEMMA OthersKeepList ==
    ASSUME ListInv, [SdrNext]_sdrVars,
           ~Add, ~EditBundled, ~OnCard(Edit), ~OnCard(Delete)
    PROVE  /\ ListInv' /\ KeptNames' = KeptNames
<1>1. /\ UNCHANGED <<stored, size, name, misled>>
      /\ \/ cards' \in {cards, NoCards} /\ stale' = stale
         \/ cards' = NoCards /\ stale' = FALSE
         \/ cards' = Cards(Kept) /\ stale' = FALSE
  BY DEF SdrNext, ShowChooser, CloseChooser, Starting, BeginStart, Read,
         ReadMarker, Repair, Migration, Migrate, Mark, Run, Abandon,
         StartedByHand, Quits, Chooses, list, preset, sdrVars
<1>2. Kept' = Kept /\ KeptNames' = KeptNames
  BY <1>1 DEF Kept, KeptNames
<1>3. \A d \in Cards(Kept) : d.index \in 1 .. MaxKept
  <2>1. Len(Kept) = size /\ size \in Nat /\ size <= MaxKept /\ MaxKept \in Nat
    BY NamesAre, SdrAssumption DEF ListInv, ListTypes
  <2> QED
    BY <2>1 DEF Cards
<1>4. ListTypes'
  BY <1>1, <1>3 DEF ListInv, ListTypes
<1>5. CardsShow'
  BY <1>1, <1>2 DEF ListInv, CardsShow
<1>6. (~misled => Distinct)'
  BY <1>1 DEF ListInv, Distinct, AllDiffer, Occurs
<1> QED
  BY <1>2, <1>4, <1>5, <1>6 DEF ListInv

\* What a step takes away.
Takes ==
    LET gone == KeptNames \ KeptNames'
    IN \/ gone = {} \/ stale
       \/ \E card \in cards : Delete(card) /\ gone = {card.name}
       \/ \E card \in cards :
             /\ Edit(card) /\ stored[card.index] = card.name
             /\ gone \subseteq ToSet(SubSeq(stored, card.index, size))

\* Every step keeps the list in order, and takes away what it should.
LEMMA ListStep == ListInv /\ [SdrNext]_sdrVars => ListInv' /\ Takes
<1> SUFFICES ASSUME ListInv, [SdrNext]_sdrVars PROVE ListInv' /\ Takes
  OBVIOUS
<1>1. CASE OnCard(Edit)
  <2>1. PICK c \in cards : cards # NoCards /\ Edit(c)
    BY <1>1 DEF OnCard, Open
  <2> QED
    BY <2>1, EditKeeps DEF Takes
<1>2. CASE OnCard(Delete)
  <2>1. PICK c \in cards : cards # NoCards /\ Delete(c)
    BY <1>2 DEF OnCard, Open
  <2> QED
    BY <2>1, DeleteKeeps DEF Takes
<1>3. CASE Add
  BY <1>3, AddKeeps DEF Takes
<1>4. CASE EditBundled
  BY <1>4, EditBundledKeeps DEF EditBundled, KeptNames, Kept, Takes
<1>5. CASE ~Add /\ ~EditBundled /\ ~OnCard(Edit) /\ ~OnCard(Delete)
  BY <1>5, OthersKeepList DEF Takes
<1> QED
  BY <1>1, <1>2, <1>3, <1>4, <1>5

\* An open chooser has one card for each program that was added, unless the
\* settings could not be saved since it was made, and no two programs have a
\* name in common until a card of such a chooser is edited.
THEOREM CardsAreTruthful == SdrSpec => []CardsTruthful
<1>1. ListInv /\ PresetInv => CardsTruthful
  <2> SUFFICES ASSUME ListInv, PresetInv PROVE CardsTruthful
    OBVIOUS
  <2>1. stored \in BoundedSeq(Names \cup {NoName}, MaxKept)
    BY SdrAssumption DEF ListInv, ListTypes, Entries, BoundedSeq, SeqOf
  <2>2. SdrTypeOK
    BY <2>1 DEF ListInv, ListTypes, PresetInv, PresetTypes, SdrTypeOK
  <2>3. ~misled => IsInjective(Kept)
    <3>1. DOMAIN Kept = 1 .. size
      BY NamesAre DEF ListInv, ListTypes
    <3> QED
      BY <3>1, NamesAre DEF ListInv, Distinct, AllDiffer, IsInjective
  <2>4. ~misled => name \notin KeptNames
    BY NamesAre DEF ListInv, Distinct
  <2> QED
    BY <2>2, <2>3, <2>4 DEF ListInv, CardsShow, CardsTruthful
<1>2. ListInv /\ [SdrNext]_sdrVars => ListInv'
  BY ListStep
<1> QED
  BY <1>1, <1>2, ListInit, PresetInit, PresetStep, PTL DEF SdrSpec

\* A deletion takes away the program of its own card and an edit what its card
\* names and what was behind it, unless the cards stayed after a failed save.
THEOREM OthersAreKept == SdrSpec => OthersKept
<1>1. ListInv /\ [SdrNext]_sdrVars
      => [LET gone == KeptNames \ KeptNames'
          IN \/ gone = {} \/ stale
             \/ \E card \in cards : Delete(card) /\ gone = {card.name}
             \/ \E card \in cards :
                   /\ Edit(card) /\ stored[card.index] = card.name
                   /\ gone \subseteq ToSet(SubSeq(stored, card.index, size))
         ]_sdrVars
  BY ListStep DEF Takes
<1>2. ListInv /\ [SdrNext]_sdrVars => ListInv'
  BY ListStep
<1> QED
  BY <1>1, <1>2, ListInit, PTL DEF SdrSpec, OthersKept
=============================================================================
