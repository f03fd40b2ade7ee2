---------------------------- MODULE SuiteLauncher ----------------------------
(***************************************************************************)
(* The launcher starts the programs of the suite and takes back what it     *)
(* started when one of them does not come up.                               *)
(*                                                                          *)
(* Source: apps/launcher/suite_launcher.cpp and the starts of the programs  *)
(* in apps/dsp/main.cpp, apps/satnogs-uploader/main.cpp, apps/proxy/main.cpp *)
(* and apps/proxy-wrapper.  There are two launchers: a window, whose        *)
(* handlers block until the programs are up, and a command, --start.  They  *)
(* share the lock files, the configuration file and nothing else.  A check  *)
(* that polls ends at any moment: 1.2 s and 15 s are no bounds on how long   *)
(* a program takes to come up.                                              *)
(***************************************************************************)
EXTENDS Integers, Sequences, FiniteSets

CONSTANTS
    MmtSatellites,   \* satellites with an MMT upload server
    FirstSatellite,  \* the one that is chosen before any choice
    OtherSatellites, \* satellites that only SatNOGS takes telemetry of
    MaxProcs         \* bound: processes at a time

ASSUME LauncherAssumption ==
    /\ FirstSatellite \in MmtSatellites
    /\ MmtSatellites \cap OtherSatellites = {}
    /\ MaxProcs \in Nat \ {0}

Satellites == MmtSatellites \cup OtherSatellites
NoSatellite == "none"
Locked == {"decoder", "uploader", "proxy"} \* one instance at a time
Launchers == {"window", "command"}

Free == 0    \* no lock file, or one whose owner is known to be dead
Broken == -1 \* a file of which QLockFile cannot tell that its owner is dead

VARIABLES
    windows, \* the build: Windows, or POSIX
    stolen,  \* history: a live decoder's lock file was removed
    proc,    \* the processes, by pid; one that nobody knows of is reused
    lock,    \* the lock files (on Windows the proxy's is a mutex)
    ready,   \* decoders whose ready file is in their session directory
    launch,  \* what each launcher is doing
    saved,   \* the satellite in the settings
    config   \* the satellite in the configuration file

vars == <<windows, stolen, proc, lock, ready, launch, saved, config>>
system == <<windows, stolen>>

Pids == 1 .. MaxProcs
Phases == {"loading", "refused", "replacing", "locked", "up",
           "orphan", "dead"}
Gone(code) == [prog |-> "none", phase |-> "dead", code |-> code]
Dead(p) == proc[p].phase = "dead"
\* A wrapper that was terminated is dead, its child is not.
Alive(p) == proc[p].phase \notin {"dead", "orphan"}

NoLaunch == [todo |-> <<>>,              \* the programs that are left
             on |-> 0,                   \* the process that is waited for
             mine |-> {},                \* those that were started
             kill |-> {},                \* those that are to be terminated
             satellite |-> NoSatellite]  \* the one that was chosen
Busy(l) == launch[l].todo # <<>> \/ launch[l].kill # {}

TypeOK ==
    /\ windows \in BOOLEAN /\ stolen \in BOOLEAN
    /\ \A p \in Pids :
          /\ proc[p].prog \in Locked \cup {"player", "none"}
          /\ proc[p].phase \in Phases
    /\ lock \in [Locked -> Pids \cup {Free, Broken}]
    /\ ready \subseteq Pids
    /\ \A l \in Launchers :
          /\ launch[l].on \in Pids \cup {0} /\ launch[l].mine \subseteq Pids
    /\ saved \in Satellites /\ config \in Satellites \cup {NoSatellite}

\* The settings name the first satellite until another one is saved.
Init ==
    /\ windows \in BOOLEAN
    /\ stolen = FALSE
    /\ proc = [p \in Pids |-> Gone(1)] /\ ready = {}
    /\ \E before \in {Free, Broken} :
          lock = [prog \in Locked |-> IF prog = "decoder" THEN before
                                                         ELSE Free]
    /\ launch = [l \in Launchers |-> NoLaunch]
    /\ saved = FirstSatellite /\ config \in {NoSatellite, saved}

-----------------------------------------------------------------------------
(***************************************************************************)
(* The processes.                                                           *)
(***************************************************************************)

Become(p, phase) == proc' = [proc EXCEPT ![p].phase = phase]

Unlocked(p) == [prog \in Locked |-> IF lock[prog] = p THEN Free
                                                     ELSE lock[prog]]

\* The lock file may stay: QLockFile::tryLock takes that of a dead owner.  The
\* code is there for who holds the process; on POSIX it is not known.
Exit(p, code) ==
    /\ proc' = [proc EXCEPT ![p] =
          Gone(IF windows /\ \E l \in Launchers : launch[l].on = p
               THEN code ELSE 1)]
    /\ lock' = Unlocked(p)

Acquire(p) ==
    /\ lock' = [lock EXCEPT ![proc[p].prog] = p]
    /\ Become(p, "locked")

\* Fault: the uploader runs without its lock.
AcquireAlways(p) ==
    /\ proc[p].phase = "loading"
    /\ Become(p, "locked")
    /\ UNCHANGED <<lock, system, ready, launch, saved, config>>

\* main asks for the lock.  A recording is played without one.
TryLock(p) ==
    /\ proc[p].phase = "loading"
    /\ IF proc[p].prog = "player"
       THEN Become(p, "locked") /\ UNCHANGED lock
       ELSE IF lock[proc[p].prog] = Free
            THEN Acquire(p)
            ELSE IF proc[p].prog = "decoder"
                 THEN Become(p, "refused") /\ UNCHANGED lock
                 ELSE Exit(p, 3)
    /\ UNCHANGED <<system, ready, launch, saved, config>>

\* Fault: whoever holds the lock, its file is replaced.
NeverLive(p) ==
    /\ proc[p].phase = "refused"
    /\ Become(p, "replacing")
    /\ UNCHANGED <<lock, system, ready, launch, saved, config>>

\* lockOwnerIsLiveDecoder.
Examine(p) ==
    /\ proc[p].phase = "refused"
    /\ IF lock["decoder"] \in Pids
       THEN Exit(p, 3)
       ELSE Become(p, "replacing") /\ UNCHANGED lock
    /\ UNCHANGED <<system, ready, launch, saved, config>>

\* QFile::remove takes whatever file is there by now; Windows does not remove
\* one that is open.  Then tryLock again.
ReplaceLock(p) ==
    /\ proc[p].phase = "replacing"
    /\ IF windows /\ lock["decoder"] \in Pids
       THEN Exit(p, 3) ELSE Acquire(p)
    /\ stolen' = (stolen \/ (~windows /\ lock["decoder"] \in Pids))
    /\ UNCHANGED <<windows, ready, launch, saved, config>>

\* ~QLockFile of an orderly exit removes the file, whose ever it is by now.
CloseUnlinks(p) ==
    /\ proc[p].phase \in {"locked", "up"} /\ proc[p].prog = "decoder"
    /\ ~windows /\ lock["decoder"] # p
    /\ proc' = [proc EXCEPT ![p] = Gone(1)]
    /\ lock' = [lock EXCEPT !["decoder"] = Free]
    /\ UNCHANGED <<system, ready, launch, saved, config>>

\* loadProxyConfig: the file is there and names a server.
Configured == config \in MmtSatellites

\* The program does what it is there for.  The proxy reads the configuration,
\* which names no server for some satellites.
ComeUp(p) ==
    /\ proc[p].phase = "locked"
    /\ IF proc[p].prog = "proxy" /\ ~Configured
       THEN Exit(p, 1)
       ELSE Become(p, "up") /\ UNCHANGED lock
    /\ ready' = IF proc[p].prog \in {"decoder", "player"}
                THEN ready \cup {p} ELSE ready
    /\ UNCHANGED <<system, launch, saved, config>>

\* The operator closes it, it crashes, or it did not come up: then the decoder
\* and the uploader show a dialog first, the lock in hand.
Close(p) ==
    /\ proc[p].phase \in {"locked", "up", "orphan"}
    /\ Exit(p, 1)
    /\ UNCHANGED <<system, ready, launch, saved, config>>

Process(p) ==
    TryLock(p) \/ Examine(p) \/ ReplaceLock(p) \/ ComeUp(p)
    \/ CloseUnlinks(p) \/ Close(p)

-----------------------------------------------------------------------------
(***************************************************************************)
(* The handlers of the window, and the command line.                        *)
(***************************************************************************)

Unused == {p \in Pids : /\ Dead(p)
                        /\ \A l \in Launchers : p \notin {launch[l].on}
                              \cup launch[l].mine \cup launch[l].kill}

\* Room for the programs this launch starts beside those of the other.
Room(n) == n + Len(launch["window"].todo) + Len(launch["command"].todo)
               <= Cardinality(Unused)

Begin(l, todo, satellite) ==
    /\ ~Busy(l) /\ Room(Len(todo))
    /\ launch' = [launch EXCEPT ![l].todo = todo, ![l].satellite = satellite]

\* The start button: startSuite without the proxy.  An input that is not there,
\* or a session directory that is not made, and nothing happens.
Start ==
    /\ Begin("window", <<"decoder">>, NoSatellite)
    /\ UNCHANGED <<system, proc, lock, ready, saved, config>>

\* A recording, if it is converted and has one channel or two.
Play ==
    /\ Begin("window", <<"player">>, NoSatellite)
    /\ UNCHANGED <<system, proc, lock, ready, saved, config>>

\* launcher --start.
Command ==
    /\ Begin("command", <<"proxy", "decoder">>, NoSatellite)
    /\ UNCHANGED <<system, proc, lock, ready, saved, config>>

\* SatNOGS is no choice for a satellite that has no other server.
Uploads(satellite, satnogs) ==
    (IF satnogs THEN <<"uploader">> ELSE <<>>)
        \o (IF satellite \in MmtSatellites THEN <<"proxy">> ELSE <<>>)

\* saveConfiguration: the settings, and then the file, if it is committed.
Save(satellite, committed) ==
    /\ saved' = satellite
    /\ config' = IF committed THEN satellite ELSE config

\* Fault: the programs are started although the file was not committed.
UploadUnsaved ==
    /\ \E satellite \in Satellites, satnogs, committed \in BOOLEAN :
          /\ satellite \in OtherSatellites => satnogs
          /\ Save(satellite, committed)
          /\ Begin("window", Uploads(satellite, satnogs), satellite)
    /\ UNCHANGED <<system, proc, lock, ready>>

\* The upload button.
Upload ==
    /\ \E satellite \in Satellites, satnogs, committed \in BOOLEAN :
          /\ satellite \in OtherSatellites => satnogs
          /\ Save(satellite, committed)
          /\ IF committed
             THEN Begin("window", Uploads(satellite, satnogs), satellite)
             ELSE ~Busy("window") /\ UNCHANGED launch
    /\ UNCHANGED <<system, proc, lock, ready>>

\* autoSaveTimer_: a field was changed; the file follows the settings.
AutoSave ==
    /\ ~Busy("window")
    /\ Save(saved, TRUE)
    /\ UNCHANGED <<system, proc, lock, ready, launch>>

\* Another window is opened: loadConfiguration takes the file's satellite.
Reopen ==
    /\ ~Busy("window") /\ config # NoSatellite
    /\ saved' = config
    /\ UNCHANGED <<system, proc, lock, ready, launch, config>>

-----------------------------------------------------------------------------
(***************************************************************************)
(* startSuite, startProxy and startSatnogsUploader.                         *)
(***************************************************************************)

\* started: the pid that is remembered, and later taken back.
NextProgram(l, started) ==
    LET left == Tail(launch[l].todo)
    IN  launch' = [launch EXCEPT ![l] =
                      IF left = <<>> THEN NoLaunch
                      ELSE [@ EXCEPT !.todo = left, !.on = 0,
                                     !.mine = launch[l].mine \cup started]]

TakeBack(l, pids) ==
    launch' = [launch EXCEPT ![l] =
                  IF pids = {} THEN NoLaunch
                  ELSE [@ EXCEPT !.todo = <<>>, !.on = 0, !.kill = pids]]

\* Fault: the program that failed is the only one that is taken back.
GiveUpOne(l, running) == TakeBack(l, running)

\* running: the decoder, if it did not come up in time.
GiveUp(l, running) == TakeBack(l, launch[l].mine \cup running)

\* A session goes on without its proxy, nothing else does without a program.
NotStarted(l, running) ==
    IF l = "command" /\ Head(launch[l].todo) = "proxy"
    THEN NextProgram(l, {})
    ELSE GiveUp(l, running)

Pid == CHOOSE p \in Unused : TRUE

\* startDetached, after the ready file was removed.  The program may be missing,
\* and startProxy asks for the configuration file.
Spawn(l) ==
    /\ launch[l].todo # <<>> /\ launch[l].on = 0
    /\ LET prog == Head(launch[l].todo)
       IN  \/ /\ Unused # {}
              /\ prog = "proxy" => config # NoSatellite
              /\ proc' = [proc EXCEPT ![Pid] =
                             [prog |-> prog, phase |-> "loading", code |-> 0]]
              /\ launch' = [launch EXCEPT ![l].on = Pid]
              /\ ready' = ready \ {Pid}
           \/ NotStarted(l, {}) /\ UNCHANGED <<proc, ready>>
    /\ UNCHANGED <<system, lock, saved, config>>

Waits(l, progs) == launch[l].on # 0 /\ Head(launch[l].todo) \in progs

\* processSurvivedStartup: alive after 1200 ms counts as started.
Survived(l) ==
    /\ Waits(l, {"uploader", "proxy"})
    /\ Alive(launch[l].on)
    /\ NextProgram(l, {launch[l].on})
    /\ UNCHANGED <<system, proc, lock, ready, saved, config>>

\* It exited.  Code 3 says that another one runs, which is as good.
ExitedEarly(l) ==
    /\ Waits(l, {"uploader", "proxy"})
    /\ Dead(launch[l].on)
    /\ IF proc[launch[l].on].code = 3
       THEN NextProgram(l, {})
       ELSE NotStarted(l, {})
    /\ proc' = [proc EXCEPT ![launch[l].on] = Gone(1)]
    /\ UNCHANGED <<system, lock, ready, saved, config>>

\* The ready file is in the directory of this session.
DecoderReady(l) ==
    /\ Waits(l, {"decoder", "player"})
    /\ launch[l].on \in ready
    /\ NextProgram(l, {launch[l].on})
    /\ ready' = ready \ {launch[l].on}
    /\ UNCHANGED <<system, proc, lock, saved, config>>

\* It is dead, or 15 s have passed.  The file was looked at before, so that it
\* may be there by now.
DecoderNotReady(l) ==
    /\ Waits(l, {"decoder", "player"})
    /\ GiveUp(l, {launch[l].on})
    /\ UNCHANGED <<system, proc, lock, ready, saved, config>>

\* terminateDetachedProcess, the decoder first.  On Windows it ends the
\* wrapper, not the proxy that the wrapper started.
Terminate(l) ==
    /\ \E p \in launch[l].kill :
          /\ \A q \in launch[l].kill \ {p} : proc[q].prog # "decoder"
          /\ IF windows /\ proc[p].prog = "proxy" /\ proc[p].phase = "up"
             THEN Become(p, "orphan") /\ lock' = Unlocked(p)
             ELSE IF Alive(p) THEN Exit(p, 1) ELSE UNCHANGED <<proc, lock>>
          /\ TakeBack(l, launch[l].kill \ {p})
          /\ ready' = ready \ {p} \* nobody reads it any more
    /\ UNCHANGED <<system, saved, config>>

Launch(l) ==
    Spawn(l) \/ Survived(l) \/ ExitedEarly(l) \/ DecoderReady(l)
    \/ DecoderNotReady(l) \/ Terminate(l)

-----------------------------------------------------------------------------

Next ==
    \/ \E p \in Pids : Process(p)
    \/ \E l \in Launchers : Launch(l)
    \/ Start \/ Play \/ Command \/ Upload \/ AutoSave \/ Reopen

Spec == Init /\ [][Next]_vars

-----------------------------------------------------------------------------
(***************************************************************************)
(* Properties.                                                              *)
(***************************************************************************)

\* A launch that failed leaves none of the programs it started running, in
\* whichever order they came up, failed and were taken back: but for the proxy
\* whose wrapper was terminated on Windows (startSuite rolls the start back).
FailedLaunchLeavesNothing ==
    [][\A l \in Launchers : launch[l].kill # {} /\ ~Busy(l)' =>
          \A p \in launch[l].mine \cup launch[l].kill :
             Dead(p)' \/ (windows /\ proc'[p].phase = "orphan")]_vars

Instances(prog) ==
    {p \in Pids : proc[p].prog = prog
                  /\ proc[p].phase \in {"locked", "up", "orphan"}}

\* However the launchers and the crashes interleave, there is one uploader, one
\* live decoder and one proxy: but for a decoder that removes the lock file
\* which another one has taken since it looked at it, on POSIX, and for a proxy
\* whose wrapper a roll-back ended on Windows, beside which another one starts
\* (the locks of the three main functions and of the wrapper).
OneOfEach ==
    /\ TypeOK
    /\ Cardinality(Instances("uploader")) <= 1
    /\ Cardinality(Instances("decoder")) <= 1
          \/ (~windows /\ stolen)
    /\ Cardinality({p \in Instances("proxy") : Alive(p)}) <= 1

\* A proxy that comes up while the upload handler waits for it serves the
\* satellite the operator chose, whatever files were not committed and whatever
\* the timer and another start saved before (saveConfiguration, loadProxyConfig).
\* One that takes more than 1.2 s reads the configuration of a later choice.
ProxyServesChoice ==
    [][LET p == launch["window"].on
       IN  /\ Waits("window", {"proxy"})
           /\ proc[p].phase # "up" /\ proc'[p].phase = "up"
           => config = launch["window"].satellite]_vars
=============================================================================
