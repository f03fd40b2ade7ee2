---------------------------- MODULE AudioSwitch ----------------------------
(***************************************************************************)
(* The receiver's main window and its flowgraph: the launcher asks for      *)
(* another sound card, a stalled card is restarted, drivers block or fail,  *)
(* and the window is closed at any moment.                                  *)
(*                                                                          *)
(* Source: apps/dsp/main_window.cpp.  Everything runs on the GUI thread but *)
(* AsrtuFlowgraph::stop, which detached threads call and which may never    *)
(* return.  A handler is one step, unless it opens a dialog: the dialog's   *)
(* event loop runs other handlers.  Graphs are numbered as they are         *)
(* created; the central widget has the number of the graph whose sinks it   *)
(* shows.                                                                   *)
(***************************************************************************)
EXTENDS Integers, FiniteSets

CONSTANTS
    Devices,
    MaxRestarts, \* automatic restarts of a stalled card (3)
    MaxCommands, \* bound: commands of the launcher
    MaxGraphs    \* bound: graphs that are created

ASSUME SwitchAssumption ==
    /\ MaxRestarts \in Nat /\ MaxCommands \in Nat
    /\ MaxGraphs \in Nat \ {0}

NoDevice == [none |-> TRUE]
NoGraph == 0
Graph == 1 .. MaxGraphs

VARIABLES
    graph,    \* flowgraph_
    device,   \* audio_device_id_
    switching, \* audio_switch_in_progress_
    pending,  \* pending_audio_device_id_
    unsafe,   \* unsafe_flowgraph_
    closing,  \* closing_
    attempts, \* audio_restart_attempts_
    central,  \* the central widget
    dialog,   \* the dialog of a failed switch is open
    \* Threads and events
    stop,     \* the thread that stops a graph for a switch, and its report
    closer,   \* the thread that stops the graph for closeEvent, and its report
    restart,  \* a restart of the card is posted
    posted,   \* devices for which a switch is posted
    exit,     \* "no", "posted", "quit": destructors run, "exited": they do not
    \* Bounds and history
    created,  \* graphs created
    holding,  \* graphs not stopped: their sinks use their central widget
    choice,   \* the device asked for last, if nothing has given it up
    late,     \* a switch was begun after a stop had failed or while closing
    commands

app  == <<graph, device, switching, pending, unsafe, closing, attempts,
          central, dialog>>
env  == <<stop, closer, restart, posted, exit>>
hist == <<created, holding, choice, late, commands>>
vars == <<app, env, hist>>

NoStop == [phase |-> "none", graph |-> NoGraph, device |-> NoDevice]
NoCloser == [phase |-> "none", graph |-> NoGraph]

TypeOK ==
    /\ graph \in Graph \cup {NoGraph} /\ unsafe \in Graph \cup {NoGraph}
    /\ central \in Graph \cup {NoGraph}
    /\ device \in Devices /\ pending \in Devices \cup {NoDevice}
    /\ switching \in BOOLEAN /\ closing \in BOOLEAN
    /\ dialog \in BOOLEAN /\ restart \in BOOLEAN
    /\ attempts \in 0 .. MaxRestarts
    /\ stop.phase \in {"none", "stopping", "stopped", "failed"}
    /\ closer.phase \in {"none", "stopping", "stopped", "failed"}
    /\ posted \subseteq Devices
    /\ exit \in {"no", "posted", "quit", "exited"}
    /\ created \in 0 .. MaxGraphs /\ holding \subseteq Graph
    /\ late \in BOOLEAN /\ choice \in Devices \cup {NoDevice}
    /\ commands \in 0 .. MaxCommands

\* The constructor starts the first graph.
Init ==
    /\ graph = 1 /\ central = 1 /\ created = 1 /\ holding = {1}
    /\ device \in Devices
    /\ switching = FALSE /\ pending = NoDevice /\ unsafe = NoGraph
    /\ closing = FALSE /\ attempts = 0
    /\ dialog = FALSE /\ stop = NoStop /\ closer = NoCloser
    /\ restart = FALSE /\ posted = {} /\ exit = "no" /\ commands = 0
    /\ late = FALSE /\ choice = NoDevice

Running == exit \in {"no", "posted"}

-----------------------------------------------------------------------------
(***************************************************************************)
(* finishAudioDeviceSwitch.                                                 *)
(***************************************************************************)

\* createFlowgraph, buildUi and start succeed: the new graph has a new widget.
\* gone is a graph that was stopped and is deleted first.
Created(gone) ==
    /\ created < MaxGraphs
    /\ created' = created + 1
    /\ graph' = created + 1 /\ central' = created + 1
    /\ holding' = (holding \ {gone}) \cup {created + 1}

\* One of them throws: there is no graph.
NotCreated(gone) ==
    /\ graph' = NoGraph /\ central' = NoGraph
    /\ holding' = holding \ {gone}
    /\ UNCHANGED created

\* Fault: the window goes on to count as switching.
FinishedStaysBusy(new, request, left) ==
    /\ UNCHANGED switching
    /\ pending' = NoDevice
    /\ posted' = left \cup ({request} \ {NoDevice, new})

\* Fault: the request is cleared before it is read.
FinishedForgets(new, request, left) ==
    /\ switching' = FALSE
    /\ pending' = NoDevice
    /\ posted' = left

\* The switch has ended with the device new: a request that came during it is
\* posted, after those that are.
Finished(new, request, left) ==
    /\ switching' = FALSE
    /\ pending' = NoDevice
    /\ posted' = left \cup ({request} \ {NoDevice, new})

\* What was asked for is given up when the device d is the one.
GivenUp(asked, d) == IF asked = d THEN NoDevice ELSE asked

\* The stopped graph gone is replaced; when that fails, a dialog is opened
\* before the old device is tried.  asked is the device asked for last.
Finish(gone, new, request, left, asked) ==
    \/ /\ Created(gone)
       /\ device' = new /\ Finished(new, request, left)
       /\ choice' = asked
       /\ UNCHANGED dialog
    \/ /\ NotCreated(gone)
       /\ dialog' = TRUE /\ switching' = TRUE
       /\ pending' = request /\ posted' = left
       /\ choice' = GivenUp(asked, new)
       /\ UNCHANGED device

\* The dialog is closed: the old device is opened again, or nothing is.
DialogClosed ==
    /\ Running /\ dialog
    /\ dialog' = FALSE
    /\ \/ Created(NoGraph) /\ UNCHANGED choice
       \/ NotCreated(NoGraph) /\ choice' = GivenUp(choice, device)
    /\ Finished(device, pending, posted)
    /\ UNCHANGED <<device, unsafe, closing, attempts, stop, closer, restart,
                   exit, late, commands>>

\* Fault: after a failed stop, the graph is replaced as after any other.
StopReportedAsStopped ==
    /\ Running /\ stop.phase \in {"stopped", "failed"}
    /\ stop' = NoStop
    /\ Finish(NoGraph, stop.device, pending, posted, choice)
    /\ UNCHANGED <<unsafe, closing, attempts, closer, restart, exit, late,
                   commands>>

\* The report of the thread that stopped the graph.  After a failure, the graph
\* and its widget are kept, and a request that came meanwhile stays pending.
StopReported ==
    /\ Running /\ stop.phase \in {"stopped", "failed"}
    /\ stop' = NoStop
    /\ \/ /\ stop.phase = "stopped"
          /\ Finish(stop.graph, stop.device, pending, posted, choice)
          /\ UNCHANGED unsafe
       \/ /\ stop.phase = "failed"
          /\ unsafe' = stop.graph /\ switching' = FALSE
          /\ choice' = NoDevice
          /\ UNCHANGED <<graph, device, pending, central, dialog, posted,
                         created, holding>>
    /\ UNCHANGED <<closing, attempts, closer, restart, exit, late, commands>>

-----------------------------------------------------------------------------
(***************************************************************************)
(* switchAudioDevice and its callers.                                       *)
(***************************************************************************)

\* The request waits for the switch in progress; or the graph, if there is one,
\* is handed to a thread that stops it; or the switch is finished at once.
\* left are the requests that stay posted.  Nobody looks at a stop that failed,
\* or at the window that is closing.  A restart takes the place of the request
\* that waits.
Switch(d, force, left) ==
    \/ /\ ~force /\ d = device /\ graph # NoGraph
       /\ posted' = left /\ choice' = d
       /\ UNCHANGED <<app, stop, created, holding, late>>
    \/ /\ force \/ d # device \/ graph = NoGraph
       /\ attempts' = IF force THEN attempts ELSE 0
       /\ late' = (late \/ (~switching /\ (unsafe # NoGraph \/ closing)))
       /\ \/ /\ switching
             /\ pending' = d /\ posted' = left
             /\ choice' = IF force THEN NoDevice ELSE d
             /\ UNCHANGED <<graph, device, switching, central, dialog, stop,
                            created, holding>>
          \/ /\ ~switching /\ graph # NoGraph
             /\ switching' = TRUE /\ pending' = NoDevice /\ posted' = left
             /\ stop' = [phase |-> "stopping", graph |-> graph, device |-> d]
             /\ graph' = NoGraph
             /\ choice' = IF force THEN choice ELSE d
             /\ UNCHANGED <<device, central, dialog, created, holding>>
          \/ /\ ~switching /\ graph = NoGraph
             /\ Finish(NoGraph, d, NoDevice, left, IF force THEN choice ELSE d)
             /\ UNCHANGED stop
       /\ UNCHANGED <<unsafe, closing>>

\* handleControlSocket: a command of the launcher.
Command ==
    /\ Running
    /\ commands < MaxCommands
    /\ commands' = commands + 1
    /\ \E d \in Devices : Switch(d, FALSE, posted)
    /\ UNCHANGED <<closer, restart, exit>>

\* The request that came during a switch.
PostedSwitch ==
    /\ Running
    /\ \E d \in posted : Switch(d, FALSE, posted \ {d})
    /\ UNCHANGED <<closer, restart, exit, commands>>

\* updateStatus: no samples for two seconds.
Stall ==
    /\ Running /\ graph # NoGraph /\ ~switching /\ ~restart
    /\ attempts < MaxRestarts
    /\ attempts' = attempts + 1
    /\ restart' = TRUE
    /\ UNCHANGED <<graph, device, switching, pending, unsafe, closing, central,
                   dialog, stop, closer, posted, exit, hist>>

\* The card delivers for five seconds.
Steady ==
    /\ Running /\ graph # NoGraph /\ attempts > 0
    /\ attempts' = 0
    /\ UNCHANGED <<graph, device, switching, pending, unsafe, closing, central,
                   dialog, env, hist>>

\* The restart that updateStatus posted takes the device of now.
RestartDevice ==
    /\ Running /\ restart
    /\ restart' = FALSE
    /\ Switch(device, TRUE, posted)
    /\ UNCHANGED <<closer, exit, commands>>

-----------------------------------------------------------------------------
(***************************************************************************)
(* closeEvent and the end of the process.                                   *)
(***************************************************************************)

\* A graph that may still use its widgets ends the process without destructors;
\* without a graph the window closes; otherwise a thread stops the graph.
Close ==
    /\ exit = "no" /\ ~closing
    /\ \/ /\ unsafe # NoGraph \/ switching
          /\ closing' = TRUE /\ exit' = "posted"
          /\ UNCHANGED <<graph, closer>>
       \/ /\ unsafe = NoGraph /\ ~switching /\ graph = NoGraph
          /\ exit' = "quit"
          /\ UNCHANGED <<graph, closing, closer>>
       \/ /\ unsafe = NoGraph /\ ~switching /\ graph # NoGraph
          /\ closing' = TRUE /\ graph' = NoGraph
          /\ closer' = [phase |-> "stopping", graph |-> graph]
          /\ UNCHANGED exit
    /\ UNCHANGED <<device, switching, pending, unsafe, attempts, central, dialog,
                   stop, restart, posted, hist>>

CloserReturns ==
    /\ Running /\ closer.phase = "stopping"
    /\ \/ closer' = [closer EXCEPT !.phase = "failed"] /\ UNCHANGED holding
       \/ /\ closer' = [closer EXCEPT !.phase = "stopped"]
          /\ holding' = holding \ {closer.graph}
    /\ UNCHANGED <<app, stop, restart, posted, exit, created, choice, late,
                   commands>>

\* The process ends: after a stop that succeeded with its destructors, after a
\* failure or three seconds without them.
End ==
    /\ Running
    /\ \/ closer.phase = "stopped" /\ exit' = "quit"
       \/ (closer # NoCloser \/ exit = "posted") /\ exit' = "exited"
    /\ UNCHANGED <<app, stop, closer, restart, posted, hist>>

\* AsrtuFlowgraph::stop returns or throws, in the thread.
StopReturns ==
    /\ Running /\ stop.phase = "stopping"
    /\ \/ stop' = [stop EXCEPT !.phase = "failed"] /\ UNCHANGED holding
       \/ stop' = [stop EXCEPT !.phase = "stopped"] /\ holding' = holding \ {stop.graph}
    /\ UNCHANGED <<app, closer, restart, posted, exit, created, choice, late,
                   commands>>

Ended == ~Running /\ UNCHANGED vars

Next ==
    \/ Command \/ PostedSwitch \/ RestartDevice \/ Stall \/ Steady
    \/ StopReturns \/ StopReported \/ DialogClosed
    \/ Close \/ CloserReturns \/ End \/ Ended

Spec == Init /\ [][Next]_vars

\* The event loop runs and the operator closes the dialog.  Nothing is assumed
\* of StopReturns: "Audio drivers may block".
LiveSpec == Spec /\ WF_vars(StopReported) /\ WF_vars(DialogClosed)

-----------------------------------------------------------------------------
(***************************************************************************)
(* Properties.                                                              *)
(***************************************************************************)

\* The widget of a graph that is not stopped, and may never be, is the one in
\* the window, for its sinks draw in it from another thread: "destroying either
\* could race a still-running sink".  And destructors run only when no graph but
\* the window's own, which they stop first, may use a widget: "Normal QObject
\* destruction would therefore race the worker".  Both hold until a switch is
\* begun after a stop has failed or while the window closes, which nothing in
\* switchAudioDevice refuses.
WidgetsOutliveGraphs ==
    /\ TypeOK
    /\ late \/ \A g \in holding : central = g
    /\ late \/ exit # "quit" \/ holding \subseteq {graph}

\* The device that switchAudioDevice was asked for last is the one the window
\* ends with: it is open, or is opened when a graph has stopped, waits for the
\* end of a switch, or is posted (and is asked for again then, after a command
\* that came in between).  So it stays through switches that overlap, dialogs
\* and fall-backs to the old device, until it cannot be opened itself, the stop
\* of a graph fails, or a restart of the stalled card takes its place.
ChoiceServed ==
    choice # NoDevice =>
        \/ choice \in posted
        \/ switching /\ pending = choice
        \/ switching /\ pending = NoDevice /\ stop.device = choice
        \/ ~switching /\ device = choice /\ (graph # NoGraph \/ closing)

\* Once the driver has let the graph go, or has failed to, the switch ends,
\* whatever then fails and whatever is asked meanwhile.
SwitchEnds ==
    switching /\ stop.phase # "stopping" ~> ~switching \/ ~Running
=============================================================================
