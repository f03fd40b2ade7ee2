------------------------- MODULE AudioSwitchProofs -------------------------
(***************************************************************************)
(* Proofs about the device switch and the shutdown of the receiver's window, *)
(* for every number of devices, graphs, restarts and commands.              *)
(*                                                                          *)
(* That a widget outlives its graph is inductive only with what holds at    *)
(* each station of a switch: a graph in use has the widget in the window, so *)
(* has the graph that a thread is stopping, and when a graph is about to be  *)
(* created none is held.  That the device asked for last is opened needs that *)
(* a request waits only while a switch goes on, and that the dialog of a    *)
(* failed switch and a thread that stops a graph are never there together.  *)
(***************************************************************************)
EXTENDS AudioSwitch, TLAPS

\* The reports of the threads have the fields the handlers read.
Reports ==
    /\ stop \in [phase : {"none", "stopping", "stopped", "failed"},
                 graph : Graph \cup {NoGraph},
                 device : Devices \cup {NoDevice}]
    /\ closer \in [phase : {"none", "stopping", "stopped", "failed"},
                   graph : Graph \cup {NoGraph}]
    /\ stop.phase # "none" => stop.graph \in Graph /\ stop.device \in Devices
    /\ closer.phase # "none" => closer.graph \in Graph

\* Where the one graph that is not stopped may be, station by station.
Stations ==
    /\ holding \subseteq {central}
    /\ graph # NoGraph => central = graph
    /\ stop.phase # "none" => central = stop.graph /\ switching /\ ~dialog
    /\ closer.phase # "none" =>
          central = closer.graph /\ ~switching /\ closing /\ graph = NoGraph
    /\ stop.phase = "stopped" => holding = {}
    /\ closer.phase = "stopped" => holding = {}
    /\ dialog => holding = {} /\ switching
    /\ switching => graph = NoGraph
    /\ graph = NoGraph /\ ~switching /\ unsafe = NoGraph /\ ~closing
       => holding = {}
    /\ exit = "quit" => holding \subseteq {graph}

AudioInv == TypeOK /\ Reports /\ (late \/ Stations)

-----------------------------------------------------------------------------

\* The initial states satisfy the invariant.
LEMMA AudioInit == Init => AudioInv
<1> SUFFICES ASSUME Init PROVE AudioInv
  OBVIOUS
<1>1. 1 \in Graph /\ 0 \in 0 .. MaxGraphs /\ 1 \in 0 .. MaxGraphs
      /\ 0 \in 0 .. MaxRestarts /\ 0 \in 0 .. MaxCommands
  BY SwitchAssumption DEF Graph
<1>2. TypeOK
  BY <1>1 DEF Init, TypeOK, NoStop, NoCloser
<1>3. Reports
  BY DEF Init, Reports, NoStop, NoCloser
<1>4. Stations
  BY DEF Init, Stations, NoStop, NoCloser, NoGraph
<1> QED
  BY <1>2, <1>3, <1>4 DEF AudioInv

\* A new graph, or the failure to make one, when all others are stopped.
LEMMA Made ==
    ASSUME AudioInv, NEW gone \in Graph \cup {NoGraph},
           Created(gone) \/ NotCreated(gone)
    PROVE  /\ graph' \in Graph \cup {NoGraph} /\ central' = graph'
           /\ created' \in 0 .. MaxGraphs /\ holding' \subseteq Graph
           /\ holding \subseteq {gone} => holding' \subseteq {graph'}
           /\ graph' = NoGraph /\ holding \subseteq {gone} => holding' = {}
<1>1. created \in 0 .. MaxGraphs /\ holding \subseteq Graph
  BY DEF AudioInv, TypeOK
<1>2. CASE Created(gone)
  <2>1. created + 1 \in Graph /\ created + 1 \in 0 .. MaxGraphs
        /\ created + 1 # NoGraph
    BY <1>1, <1>2, SwitchAssumption DEF Created, Graph, NoGraph
  <2> QED
    BY <1>1, <1>2, <2>1 DEF Created
<1>3. CASE NotCreated(gone)
  BY <1>1, <1>3 DEF NotCreated
<1> QED
  BY <1>2, <1>3

-----------------------------------------------------------------------------

\* Steps that take no part in a switch.
LEMMA QuietSteps ==
    ASSUME AudioInv, Stall \/ Steady \/ Ended \/ UNCHANGED vars
    PROVE  AudioInv'
<1>1. CASE Stall
  <2>1. attempts' \in 0 .. MaxRestarts /\ restart' = TRUE
    BY <1>1, SwitchAssumption DEF Stall, AudioInv, TypeOK
  <2>2. TypeOK'
    BY <1>1, <2>1 DEF Stall, AudioInv, TypeOK, hist
  <2>3. Reports' /\ (late \/ Stations)'
    BY <1>1 DEF Stall, AudioInv, Reports, Stations, hist
  <2> QED
    BY <2>2, <2>3 DEF AudioInv
<1>2. CASE Steady
  <2>1. attempts' \in 0 .. MaxRestarts
    BY <1>2, SwitchAssumption DEF Steady
  <2>2. TypeOK'
    BY <1>2, <2>1 DEF Steady, AudioInv, TypeOK, env, hist
  <2>3. Reports' /\ (late \/ Stations)'
    BY <1>2 DEF Steady, AudioInv, Reports, Stations, env, hist
  <2> QED
    BY <2>2, <2>3 DEF AudioInv
<1>3. CASE UNCHANGED vars
  BY <1>3 DEF AudioInv, TypeOK, Reports, Stations, vars, app, env, hist
<1> QED
  BY <1>1, <1>2, <1>3 DEF Ended

\* The threads report, the window closes, the process ends.
LEMMA EndSteps ==
    ASSUME AudioInv, StopReturns \/ Close \/ CloserReturns \/ End
    PROVE  AudioInv'
<1> USE DEF AudioInv, TypeOK, Reports, Stations, app, hist
<1>1. CASE StopReturns
  <2>1. /\ stop'.phase \in {"stopped", "failed"}
        /\ stop'.graph = stop.graph /\ stop'.device = stop.device
        /\ stop' \in [phase : {"none", "stopping", "stopped", "failed"},
                      graph : Graph \cup {NoGraph},
                      device : Devices \cup {NoDevice}]
        /\ stop.phase = "stopping"
    BY <1>1 DEF StopReturns
  <2>2. \/ stop'.phase = "failed" /\ holding' = holding
        \/ stop'.phase = "stopped" /\ holding' = holding \ {stop.graph}
    BY <1>1 DEF StopReturns
  <2>3. TypeOK' /\ Reports'
    BY <1>1, <2>1, <2>2 DEF StopReturns
  <2>4. (late \/ Stations)'
    BY <1>1, <2>1, <2>2 DEF StopReturns, Running
  <2> QED
    BY <2>3, <2>4
<1>2. CASE Close
  <2>1. CASE exit' = "posted" /\ UNCHANGED <<graph, closer>> /\ closing'
             /\ (unsafe # NoGraph \/ switching)
    BY <1>2, <2>1 DEF Close
  <2>2. CASE exit' = "quit" /\ UNCHANGED <<graph, closing, closer>>
             /\ unsafe = NoGraph /\ ~switching /\ graph = NoGraph
    BY <1>2, <2>2 DEF Close
  <2>3. CASE /\ unsafe = NoGraph /\ ~switching /\ graph # NoGraph
             /\ closing' = TRUE /\ graph' = NoGraph
             /\ closer' = [phase |-> "stopping", graph |-> graph]
             /\ UNCHANGED exit
    <3>1. /\ closer' \in [phase : {"none", "stopping", "stopped", "failed"},
                          graph : Graph \cup {NoGraph}]
          /\ closer'.phase = "stopping" /\ closer'.graph = graph
          /\ graph \in Graph /\ graph' = NoGraph
      BY <2>3
    <3>2. TypeOK' /\ Reports'
      BY <1>2, <2>3, <3>1 DEF Close
    <3>3. (late \/ Stations)'
      BY <1>2, <2>3, <3>1 DEF Close
    <3> QED
      BY <3>2, <3>3
  <2> QED
    BY <1>2, <2>1, <2>2, <2>3 DEF Close
<1>3. CASE CloserReturns
  <2>1. /\ closer'.phase \in {"stopped", "failed"}
        /\ closer'.graph = closer.graph
        /\ closer' \in [phase : {"none", "stopping", "stopped", "failed"},
                        graph : Graph \cup {NoGraph}]
        /\ closer.phase = "stopping"
    BY <1>3 DEF CloserReturns
  <2>2. \/ closer'.phase = "failed" /\ holding' = holding
        \/ closer'.phase = "stopped" /\ holding' = holding \ {closer.graph}
    BY <1>3 DEF CloserReturns
  <2>3. TypeOK' /\ Reports'
    BY <1>3, <2>1, <2>2 DEF CloserReturns
  <2>4. (late \/ Stations)'
    BY <1>3, <2>1, <2>2 DEF CloserReturns, Running
  <2> QED
    BY <2>3, <2>4
<1>4. CASE End
  BY <1>4 DEF End, NoCloser
<1> QED
  BY <1>1, <1>2, <1>3, <1>4

-----------------------------------------------------------------------------

\* The stopped graph is replaced, in the window's state that a finished switch
\* leaves: it switches no more, or its dialog is open.
LEMMA FinishFits ==
    ASSUME AudioInv, NEW gone \in Graph \cup {NoGraph}, NEW d \in Devices,
           NEW request \in Devices \cup {NoDevice}, NEW left \in SUBSET Devices,
           NEW asked \in Devices \cup {NoDevice},
           Finish(gone, d, request, left, asked), late' \/ holding \subseteq {gone}
    PROVE  /\ graph' \in Graph \cup {NoGraph} /\ central' = graph'
           /\ created' \in 0 .. MaxGraphs /\ holding' \subseteq Graph
           /\ device' \in Devices /\ pending' \in Devices \cup {NoDevice}
           /\ choice' \in Devices \cup {NoDevice}
           /\ switching' \in BOOLEAN /\ dialog' \in BOOLEAN
           /\ posted' \subseteq Devices
           /\ late' \/ /\ holding' \subseteq {graph'}
                       /\ graph' = NoGraph => holding' = {}
                       /\ \/ ~switching' /\ dialog' = dialog
                          \/ switching' /\ graph' = NoGraph
<1>1. Created(gone) \/ NotCreated(gone)
  BY DEF Finish
<1>2. /\ graph' \in Graph \cup {NoGraph} /\ central' = graph'
      /\ created' \in 0 .. MaxGraphs /\ holding' \subseteq Graph
      /\ holding \subseteq {gone} => holding' \subseteq {graph'}
      /\ graph' = NoGraph /\ holding \subseteq {gone} => holding' = {}
  BY <1>1, Made
<1>3. dialog \in BOOLEAN /\ device \in Devices
  BY DEF AudioInv, TypeOK
<1>4. CASE Created(gone) /\ device' = d /\ Finished(d, request, left)
           /\ choice' = asked /\ dialog' = dialog
  <2>1. posted' \subseteq Devices /\ pending' = NoDevice /\ switching' = FALSE
    BY <1>4 DEF Finished
  <2> QED
    BY <1>2, <1>3, <1>4, <2>1
<1>5. CASE NotCreated(gone) /\ dialog' = TRUE /\ switching' = TRUE
           /\ pending' = request /\ posted' = left /\ device' = device
           /\ choice' = GivenUp(asked, d)
  BY <1>2, <1>3, <1>5 DEF NotCreated, GivenUp
<1> QED
  BY <1>4, <1>5 DEF Finish

\* The stop of a graph is reported, or the dialog of a failed switch is closed.
LEMMA ReportSteps ==
    ASSUME AudioInv, StopReported \/ DialogClosed
    PROVE  AudioInv'
<1>1. CASE StopReported
  <2>1. /\ stop.graph \in Graph /\ stop.device \in Devices
        /\ stop'.phase = "none"
        /\ stop' \in [phase : {"none", "stopping", "stopped", "failed"},
                      graph : Graph \cup {NoGraph},
                      device : Devices \cup {NoDevice}]
    BY <1>1 DEF StopReported, NoStop, AudioInv, Reports
  <2>2. CASE stop.phase = "stopped" /\ UNCHANGED unsafe
             /\ Finish(stop.graph, stop.device, pending, posted, choice)
    <3>1. late' \/ (holding = {} /\ ~dialog /\ switching)
      BY <1>1, <2>2 DEF StopReported, AudioInv, Stations
    <3>2. late' \/ holding \subseteq {stop.graph}
      BY <3>1
    <3>3. /\ graph' \in Graph \cup {NoGraph} /\ central' = graph'
          /\ created' \in 0 .. MaxGraphs /\ holding' \subseteq Graph
          /\ device' \in Devices /\ pending' \in Devices \cup {NoDevice}
          /\ choice' \in Devices \cup {NoDevice}
          /\ switching' \in BOOLEAN /\ dialog' \in BOOLEAN
          /\ posted' \subseteq Devices
          /\ late' \/ /\ holding' \subseteq {graph'}
                      /\ graph' = NoGraph => holding' = {}
                      /\ \/ ~switching' /\ dialog' = dialog
                         \/ switching' /\ graph' = NoGraph
      <4>1. /\ pending \in Devices \cup {NoDevice} /\ posted \in SUBSET Devices
            /\ choice \in Devices \cup {NoDevice}
        BY DEF AudioInv, TypeOK
      <4> QED
        BY <2>1, <2>2, <3>2, <4>1, FinishFits
    <3>4. TypeOK'
      BY <1>1, <2>1, <2>2, <3>3 DEF StopReported, AudioInv, TypeOK
    <3>5. Reports'
      BY <1>1, <2>1 DEF StopReported, AudioInv, Reports
    <3>6. ASSUME ~late' PROVE Stations'
      <4>1. closer'.phase = "none" /\ exit' # "quit"
        BY <1>1, <2>2, <3>6 DEF StopReported, AudioInv, Stations, Running
      <4> QED
        BY <2>1, <3>1, <3>3, <3>6, <4>1 DEF Stations
    <3> QED
      BY <3>4, <3>5, <3>6 DEF AudioInv
  <2>3. CASE stop.phase = "failed" /\ unsafe' = stop.graph /\ switching' = FALSE
             /\ choice' = NoDevice
             /\ UNCHANGED <<graph, device, pending, central, dialog, posted,
                            created, holding>>
    <3>1. TypeOK'
      BY <1>1, <2>1, <2>3, ZenonT(40) DEF StopReported, AudioInv, TypeOK
    <3>2. Reports'
      BY <1>1, <2>1 DEF StopReported, AudioInv, Reports
    <3>3. ASSUME ~late' PROVE Stations'
      <4>1. closer'.phase = "none" /\ exit' # "quit" /\ unsafe' # NoGraph
            /\ graph' = NoGraph /\ dialog' = FALSE
        BY <1>1, <2>1, <2>3, <3>3
        DEF StopReported, AudioInv, TypeOK, Stations, Running, Graph, NoGraph
      <4> QED
        BY <1>1, <2>1, <2>3, <3>3, <4>1 DEF StopReported, AudioInv, Stations
    <3> QED
      BY <3>1, <3>2, <3>3 DEF AudioInv
  <2> QED
    BY <1>1, <2>2, <2>3 DEF StopReported
<1>2. CASE DialogClosed
  <2>1. dialog /\ dialog' = FALSE /\ UNCHANGED <<device, stop, closer, late>>
        /\ (late \/ (holding = {} /\ switching))
    <3>1. dialog /\ dialog' = FALSE /\ device' = device /\ stop' = stop
          /\ closer' = closer /\ late' = late
      BY <1>2 DEF DialogClosed
    <3>2. late \/ (dialog => holding = {} /\ switching)
      BY DEF AudioInv, Stations
    <3> QED
      BY <3>1, <3>2
  <2>2. NoGraph \in Graph \cup {NoGraph}
        /\ (Created(NoGraph) \/ NotCreated(NoGraph))
    BY <1>2 DEF DialogClosed
  <2>3. /\ graph' \in Graph \cup {NoGraph} /\ central' = graph'
        /\ created' \in 0 .. MaxGraphs /\ holding' \subseteq Graph
        /\ holding \subseteq {NoGraph} => holding' \subseteq {graph'}
        /\ graph' = NoGraph /\ holding \subseteq {NoGraph} => holding' = {}
    BY <2>2, Made
  <2>4. switching' = FALSE /\ pending' = NoDevice /\ posted' \subseteq Devices
    BY <1>2 DEF DialogClosed, Finished, AudioInv, TypeOK
  <2>5. TypeOK'
    <3>1. choice' \in Devices \cup {NoDevice}
      BY <1>2 DEF DialogClosed, GivenUp, AudioInv, TypeOK
    <3> QED
      BY <1>2, <2>1, <2>3, <2>4, <3>1 DEF DialogClosed, AudioInv, TypeOK
  <2>6. Reports'
    BY <1>2 DEF DialogClosed, AudioInv, Reports
  <2>7. ASSUME ~late' PROVE Stations'
    <3>1. holding = {} /\ holding' \subseteq {graph'} /\ exit' # "quit"
          /\ stop'.phase = "none" /\ closer'.phase = "none"
      BY <1>2, <2>1, <2>3, <2>7
      DEF DialogClosed, AudioInv, TypeOK, Stations, Running
    <3> QED
      BY <2>1, <2>3, <2>4, <3>1 DEF Stations
  <2> QED
    BY <2>5, <2>6, <2>7 DEF AudioInv
<1> QED
  BY <1>1, <1>2

\* The callers of switchAudioDevice.
LEMMA SwitchSteps ==
    ASSUME AudioInv, Command \/ PostedSwitch \/ RestartDevice
    PROVE  AudioInv'
<1>1. PICK d \in Devices, force \in BOOLEAN, left \in SUBSET Devices :
        /\ Switch(d, force, left)
        /\ closer' = closer /\ exit' = exit /\ Running
        /\ commands' \in 0 .. MaxCommands /\ restart' \in BOOLEAN
  <2>1. CASE Command
    <3>1. commands' \in 0 .. MaxCommands /\ posted \in SUBSET Devices
          /\ restart' \in BOOLEAN
      BY <2>1, SwitchAssumption DEF Command, Switch, AudioInv, TypeOK
    <3>2. PICK d \in Devices : Switch(d, FALSE, posted)
      BY <2>1 DEF Command
    <3> QED
      BY <2>1, <3>1, <3>2 DEF Command
  <2>2. CASE PostedSwitch
    BY <2>2 DEF PostedSwitch, AudioInv, TypeOK
  <2>3. CASE RestartDevice
    BY <2>3 DEF RestartDevice, AudioInv, TypeOK
  <2> QED
    BY <2>1, <2>2, <2>3
<1>2. choice' \in Devices \cup {NoDevice}
  BY <1>1 DEF Switch, Finish, GivenUp, AudioInv, TypeOK
<1>3. CASE posted' = left /\ UNCHANGED <<app, stop, created, holding, late>>
  <2>1. TypeOK' /\ Reports'
    BY <1>1, <1>3, <1>2 DEF AudioInv, TypeOK, Reports, app
  <2>2. (late \/ Stations)'
    BY <1>1, <1>3 DEF AudioInv, Stations, app
  <2> QED
    BY <2>1, <2>2 DEF AudioInv
<1>4. ASSUME attempts' = (IF force THEN attempts ELSE 0),
             late' = (late \/ (~switching /\ (unsafe # NoGraph \/ closing))),
             UNCHANGED <<unsafe, closing>>
      PROVE  /\ attempts' \in 0 .. MaxRestarts /\ late' \in BOOLEAN
             /\ unsafe' = unsafe /\ closing' = closing
             /\ late => late'
             /\ late' \/ switching \/ (unsafe = NoGraph /\ ~closing)
  <2>1. attempts' \in 0 .. MaxRestarts
    BY <1>4, SwitchAssumption DEF AudioInv, TypeOK
  <2>2. late \in BOOLEAN /\ switching \in BOOLEAN /\ closing \in BOOLEAN
    BY DEF AudioInv, TypeOK
  <2>3. unsafe' = unsafe /\ closing' = closing
    BY <1>4
  <2>4. late' \in BOOLEAN /\ (late => late')
        /\ (late' \/ switching \/ (unsafe = NoGraph /\ ~closing))
    BY <1>4, <2>2
  <2> QED
    BY <2>1, <2>3, <2>4
<1>5. ASSUME attempts' \in 0 .. MaxRestarts, late' \in BOOLEAN,
             unsafe' = unsafe, closing' = closing, late => late',
             switching, pending' = d, posted' = left,
             UNCHANGED <<graph, device, switching, central, dialog, stop,
                         created, holding>>
      PROVE  AudioInv'
  <2>1. TypeOK' /\ Reports'
    BY <1>1, <1>5, <1>2 DEF AudioInv, TypeOK, Reports
  <2>2. (late \/ Stations)'
    BY <1>1, <1>5 DEF AudioInv, Stations
  <2> QED
    BY <2>1, <2>2 DEF AudioInv
<1>6. ASSUME attempts' \in 0 .. MaxRestarts, late' \in BOOLEAN,
             unsafe' = unsafe, closing' = closing, late => late',
             late' \/ (unsafe = NoGraph /\ ~closing),
             ~switching, graph # NoGraph,
             switching' = TRUE, pending' = NoDevice, posted' = left,
             stop' = [phase |-> "stopping", graph |-> graph, device |-> d],
             graph' = NoGraph,
             UNCHANGED <<device, central, dialog, created, holding>>
      PROVE  AudioInv'
  <2>1. /\ stop' \in [phase : {"none", "stopping", "stopped", "failed"},
                      graph : Graph \cup {NoGraph},
                      device : Devices \cup {NoDevice}]
        /\ stop'.phase = "stopping" /\ stop'.graph = graph
        /\ stop'.device = d /\ graph \in Graph
    BY <1>6 DEF AudioInv, TypeOK
  <2>2. TypeOK'
    BY <1>1, <1>6, <1>2, <2>1 DEF AudioInv, TypeOK
  <2>3. Reports'
    BY <1>1, <1>6, <2>1 DEF AudioInv, Reports
  <2>4. ASSUME ~late' PROVE Stations'
    <3>1. /\ holding \subseteq {central} /\ central = graph
          /\ ~dialog /\ closer.phase = "none" /\ exit # "quit"
      BY <1>1, <1>6, <2>4 DEF AudioInv, Stations, Running
    <3> QED
      BY <1>1, <1>6, <2>1, <3>1 DEF Stations
  <2> QED
    BY <2>2, <2>3, <2>4 DEF AudioInv
<1>7. ASSUME attempts' \in 0 .. MaxRestarts, late' \in BOOLEAN,
             unsafe' = unsafe, closing' = closing, late => late',
             late' \/ (unsafe = NoGraph /\ ~closing),
             ~switching, graph = NoGraph,
             Finish(NoGraph, d, NoDevice, left, IF force THEN choice ELSE d),
             stop' = stop
      PROVE  AudioInv'
  <2>1. ASSUME ~late'
        PROVE  holding = {} /\ ~dialog /\ stop.phase = "none"
               /\ closer.phase = "none" /\ exit # "quit"
    BY <1>1, <1>7, <2>1 DEF AudioInv, Stations, Running
  <2>2. /\ graph' \in Graph \cup {NoGraph} /\ central' = graph'
        /\ created' \in 0 .. MaxGraphs /\ holding' \subseteq Graph
        /\ device' \in Devices /\ pending' \in Devices \cup {NoDevice}
        /\ switching' \in BOOLEAN /\ dialog' \in BOOLEAN
        /\ posted' \subseteq Devices
        /\ late' \/ /\ holding' \subseteq {graph'}
                    /\ graph' = NoGraph => holding' = {}
                    /\ \/ ~switching' /\ dialog' = dialog
                       \/ switching' /\ graph' = NoGraph
    <3>1. (IF force THEN choice ELSE d) \in Devices \cup {NoDevice}
      BY DEF AudioInv, TypeOK
    <3> QED
      BY <1>7, <2>1, <3>1, FinishFits
  <2>3. TypeOK'
    BY <1>1, <1>7, <1>2, <2>2 DEF AudioInv, TypeOK
  <2>4. Reports'
    BY <1>1, <1>7 DEF AudioInv, Reports
  <2>5. ASSUME ~late' PROVE Stations'
    BY <1>1, <1>7, <2>1, <2>2, <2>5 DEF Stations
  <2> QED
    BY <2>3, <2>4, <2>5 DEF AudioInv
<1> QED
  BY <1>1, <1>3, <1>4, <1>5, <1>6, <1>7 DEF Switch

-----------------------------------------------------------------------------

\* While a graph may use its widget, the window keeps it, and destructors run
\* only when no other graph does: until a switch is begun after a stop has
\* failed or while the window closes.
THEOREM WidgetsOutlive == Spec => []WidgetsOutliveGraphs
<1>1. AudioInv /\ [Next]_vars => AudioInv'
  BY QuietSteps, EndSteps, ReportSteps, SwitchSteps DEF Next
<1>2. AudioInv => WidgetsOutliveGraphs
  BY DEF AudioInv, Stations, WidgetsOutliveGraphs
<1> QED
  BY AudioInit, <1>1, <1>2, PTL DEF Spec


-----------------------------------------------------------------------------

\* The device asked for last is found, with what the stations of a switch say of
\* the request that waits for its end.
Answered ==
    /\ graph # NoGraph => ~switching /\ pending = NoDevice
    /\ dialog => switching
    /\ stop.phase # "none" => switching /\ ~dialog
    /\ stop.phase = "none" => stop.device = NoDevice
    /\ ChoiceServed

\* The replacement of a graph, or the dialog that tells of its failure, keeps
\* the device asked for, if that was posted, waited, or is the one opened.
LEMMA FinishAnswers ==
    ASSUME AudioInv, NEW gone, NEW new, NEW request, NEW left, NEW asked,
           Finish(gone, new, request, left, asked),
           \/ asked = NoDevice \/ asked \in left \/ asked = request
           \/ request = NoDevice /\ asked = new
    PROVE  /\ ChoiceServed'
           /\ \/ ~switching' /\ pending' = NoDevice /\ dialog' = dialog
              \/ switching' /\ dialog' /\ graph' = NoGraph
<1>1. CASE Created(gone) /\ device' = new /\ Finished(new, request, left)
           /\ choice' = asked /\ dialog' = dialog
  <2>1. graph' # NoGraph
    BY <1>1 DEF Created, NoGraph, AudioInv, TypeOK
  <2>2. switching' = FALSE /\ pending' = NoDevice
        /\ posted' = left \cup ({request} \ {NoDevice, new})
    BY <1>1 DEF Finished
  <2> QED
    BY <1>1, <2>1, <2>2 DEF ChoiceServed
<1>2. CASE NotCreated(gone) /\ dialog' = TRUE /\ switching' = TRUE
           /\ pending' = request /\ posted' = left
           /\ choice' = GivenUp(asked, new)
  <2>1. graph' = NoGraph
    BY <1>2 DEF NotCreated
  <2>2. choice' = NoDevice \/ (choice' = asked /\ asked # new)
    BY <1>2 DEF GivenUp
  <2> QED
    BY <1>2, <2>1, <2>2 DEF ChoiceServed
<1> QED
  BY <1>1, <1>2 DEF Finish

\* The callers of switchAudioDevice keep it.
LEMMA SwitchAnswers ==
    ASSUME AudioInv, Answered, NEW d \in Devices, NEW force \in BOOLEAN, NEW left,
           Switch(d, force, left), posted \subseteq left \cup {d},
           force => d = device /\ posted \subseteq left
    PROVE  Answered'
<1>1. CASE posted' = left /\ choice' = d /\ d = device /\ graph # NoGraph
           /\ UNCHANGED <<app, stop, created, holding, late>>
  BY <1>1 DEF app, Answered, ChoiceServed
<1>2. ASSUME switching, pending' = d, posted' = left,
             choice' = IF force THEN NoDevice ELSE d,
             UNCHANGED <<graph, device, switching, central, dialog, stop,
                         created, holding>>
      PROVE  Answered'
  BY <1>2 DEF Answered, ChoiceServed
<1>3. ASSUME ~switching, graph # NoGraph, switching' = TRUE,
             pending' = NoDevice, posted' = left,
             stop' = [phase |-> "stopping", graph |-> graph, device |-> d],
             graph' = NoGraph, choice' = IF force THEN choice ELSE d,
             UNCHANGED <<device, central, dialog, created, holding>>
      PROVE  Answered'
  <2>1. stop'.phase = "stopping" /\ stop'.device = d
    BY <1>3
  <2>2. choice' = NoDevice \/ choice' = d \/ choice' \in left
    BY <1>3 DEF Answered, ChoiceServed
  <2> QED
    BY <1>3, <2>1, <2>2 DEF Answered, ChoiceServed
<1>4. ASSUME ~switching, graph = NoGraph, stop' = stop,
             Finish(NoGraph, d, NoDevice, left, IF force THEN choice ELSE d)
      PROVE  Answered'
  <2> DEFINE asked == IF force THEN choice ELSE d
  <2>1. asked = NoDevice \/ asked \in left \/ asked = d
    BY <1>4 DEF Answered, ChoiceServed
  <2>2. /\ ChoiceServed'
        /\ \/ ~switching' /\ pending' = NoDevice /\ dialog' = dialog
           \/ switching' /\ dialog' /\ graph' = NoGraph
    BY <1>4, <2>1, FinishAnswers
  <2> QED
    BY <1>4, <2>2 DEF Answered
<1> QED
  BY <1>1, <1>2, <1>3, <1>4 DEF Switch

\* The device that switchAudioDevice was asked for last is open, about to be
\* opened, or still to be asked for, whatever the number of overlapping switches
\* and failures, until it fails itself, a stop fails or a restart overtakes it.
THEOREM ChoiceIsServed == Spec => []ChoiceServed
<1>1. Init => Answered
  BY DEF Init, Answered, ChoiceServed, NoStop
<1>2. AudioInv /\ Answered /\ [Next]_vars => Answered'
  <2> SUFFICES ASSUME AudioInv, Answered, [Next]_vars PROVE Answered'
    OBVIOUS
  <2>1. CASE Command
    BY <2>1, SwitchAnswers DEF Command
  <2>2. CASE PostedSwitch
    <3>1. PICK d \in posted : Switch(d, FALSE, posted \ {d})
      BY <2>2 DEF PostedSwitch
    <3>2. d \in Devices /\ posted \subseteq (posted \ {d}) \cup {d}
      BY DEF AudioInv, TypeOK
    <3> QED
      BY <3>1, <3>2, SwitchAnswers
  <2>3. CASE RestartDevice
    <3>1. device \in Devices /\ Switch(device, TRUE, posted)
      BY <2>3 DEF RestartDevice, AudioInv, TypeOK
    <3> QED
      BY <3>1, SwitchAnswers
  <2>4. CASE StopReported
    <3>1. stop.phase # "none" /\ stop' = NoStop
      BY <2>4 DEF StopReported
    <3>2. CASE Finish(stop.graph, stop.device, pending, posted, choice)
      <4>1. \/ choice = NoDevice \/ choice \in posted \/ choice = pending
            \/ pending = NoDevice /\ choice = stop.device
        BY <3>1 DEF Answered, ChoiceServed
      <4>2. /\ ChoiceServed'
            /\ \/ ~switching' /\ pending' = NoDevice /\ dialog' = dialog
               \/ switching' /\ dialog' /\ graph' = NoGraph
        BY <3>2, <4>1, FinishAnswers
      <4> QED
        BY <3>1, <4>2 DEF Answered, NoStop
    <3>3. CASE switching' = FALSE /\ choice' = NoDevice
               /\ UNCHANGED <<graph, device, pending, central, dialog, posted,
                              created, holding>>
      BY <3>1, <3>3 DEF Answered, ChoiceServed, NoStop
    <3> QED
      BY <2>4, <3>2, <3>3 DEF StopReported
  <2>5. CASE DialogClosed
    <3>1. /\ dialog /\ ~dialog' /\ ~switching' /\ pending' = NoDevice
          /\ posted' = posted \cup ({pending} \ {NoDevice, device})
          /\ stop' = stop /\ device' = device
      BY <2>5 DEF DialogClosed, Finished
    <3>2. stop.phase = "none" /\ stop.device = NoDevice /\ switching
      BY <3>1 DEF Answered
    <3>3. choice = NoDevice \/ choice = device \/ choice \in posted'
      BY <3>1, <3>2 DEF Answered, ChoiceServed
    <3>4. CASE Created(NoGraph) /\ choice' = choice
      <4>1. graph' # NoGraph
        BY <3>4 DEF Created, NoGraph, AudioInv, TypeOK
      <4> QED
        BY <3>1, <3>2, <3>3, <3>4, <4>1 DEF Answered, ChoiceServed
    <3>5. CASE NotCreated(NoGraph) /\ choice' = GivenUp(choice, device)
      <4>1. choice' = NoDevice \/ (choice' = choice /\ choice # device)
        BY <3>5 DEF GivenUp
      <4> QED
        BY <3>1, <3>2, <3>3, <4>1 DEF Answered, ChoiceServed
    <3> QED
      BY <2>5, <3>4, <3>5 DEF DialogClosed
  <2>6. CASE Close
    BY <2>6 DEF Close, hist, Answered, ChoiceServed
  <2>7. CASE StopReturns
    <3>1. stop.phase = "stopping" /\ stop'.phase # "none"
          /\ stop'.device = stop.device
      BY <2>7 DEF StopReturns, AudioInv, Reports
    <3> QED
      BY <2>7, <3>1 DEF StopReturns, app, Answered, ChoiceServed
  <2>8. CASE Stall \/ Steady \/ CloserReturns \/ End \/ Ended \/ UNCHANGED vars
    BY <2>8 DEF Stall, Steady, CloserReturns, End, Ended, vars, app, env, hist,
                Answered, ChoiceServed
  <2> QED
    BY <2>1, <2>2, <2>3, <2>4, <2>5, <2>6, <2>7, <2>8 DEF Next
<1>3. AudioInv /\ [Next]_vars => AudioInv'
  BY QuietSteps, EndSteps, ReportSteps, SwitchSteps DEF Next
<1>4. Answered => ChoiceServed
  BY DEF Answered
<1> QED
  BY AudioInit, <1>1, <1>2, <1>3, <1>4, PTL DEF Spec
=============================================================================
