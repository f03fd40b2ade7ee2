---------------------------- MODULE DopplerTuning ----------------------------
(***************************************************************************)
(* The sink plug-in in SDR++ follows the tracker, and the source plug-ins   *)
(* take the frequency to the radio.                                         *)
(*                                                                          *)
(* Source: integrations/sdrpp/asrtu_sink/src/main.cpp, soapy_source/main.cpp *)
(* and plutosdr_source/main.cpp.  Frames, menus and the source's handlers   *)
(* run on SDR++'s GUI thread; the source has a worker thread, and the sink  *)
(* may be stopped by another thread, which the sink's mutex keeps out of    *)
(* one locked section at a time.  Where SDR++ puts the VFO is left out.     *)
(***************************************************************************)
EXTENDS DopplerRecord

CONSTANTS
    Offset,   \* kIfOffsetHz
    Recenter, \* kRecentersHz
    Elsewhere \* a frequency far from all targets

ASSUME TuningAssumption ==
    /\ Offset \in Nat /\ Recenter \in Nat \ {0} /\ Elsewhere \in Nat \ {0}

VARIABLES
    active,  \* the sink's bridge runs
    gui,     \* what the GUI thread is at
    target,  \* the target of this frame
    vfo,     \* trackedVfo_ is not empty
    tracked, \* trackedCenterHz_
    center,  \* the center that SDR++ believes the radio to be at
    moved,   \* history: it was moved since the last recenter or stop
    kind,    \* the source: "soapy" or "pluto"
    freq,    \* the source's own note of the frequency, or Astray
    radio,   \* the frequency the radio is at, or Astray, or 0 if it is closed
    running, \* the source's flag
    stream,  \* the stream is open
    worker   \* the worker thread: "none", "streaming" or "ended"

sink == <<active, gui, target, vfo, tracked, moved>>
source == <<kind, freq, radio, running, stream, worker>>
vars == <<doppler, sink, center, source>>

Guis == {"idle", "read", "tracking", "recenter", "tune", "vfo", "join"}

Center(t) == t + Offset
Centers == {Center(t) : t \in Targets} \cup {Elsewhere}

\* Any frequency: SDR++ did not ask for it, or the radio did not take the last.
Astray == -1

TypeOK ==
    /\ DopplerTypeOK
    /\ active \in BOOLEAN /\ vfo \in BOOLEAN /\ moved \in BOOLEAN
    /\ gui \in Guis /\ target \in Targets \cup {0}
    /\ tracked \in Centers \cup {0} /\ center \in Centers
    /\ kind \in {"soapy", "pluto"}
    /\ freq \in Centers \cup {Astray} /\ radio \in Centers \cup {Astray, 0}
    /\ running \in BOOLEAN /\ stream \in BOOLEAN
    /\ worker \in {"none", "streaming", "ended"}

\* A source's note of the frequency is not initialised.
Init ==
    /\ DopplerInit
    /\ active = FALSE /\ gui = "idle" /\ target = 0 /\ vfo = FALSE
    /\ tracked = 0 /\ moved = FALSE
    /\ center = Elsewhere
    /\ kind \in {"soapy", "pluto"}
    /\ freq = Astray
    /\ radio = 0 /\ running = FALSE /\ stream = FALSE /\ worker = "none"

-----------------------------------------------------------------------------
(***************************************************************************)
(* The source: start, stop, tune and the worker.                            *)
(***************************************************************************)

\* Nobody looks at whether a PlutoSDR takes the frequency.
Written(f) == radio' = f \/ (kind = "pluto" /\ radio' = Astray)

Opened ==
    /\ gui = "idle" /\ ~running
    /\ Written(freq)
    /\ running' = TRUE /\ stream' = TRUE /\ worker' = "streaming"
    /\ UNCHANGED <<doppler, sink, center, kind, freq>>

\* With no device, or one that does not open, nothing happens.
StartSoapy == kind = "soapy" /\ Opened

\* Likewise; the context is closed again where a part of it is not there.
StartPluto == kind = "pluto" /\ Opened

Stopped(streamLeft) ==
    /\ gui = "idle" /\ running
    /\ running' = FALSE /\ stream' = streamLeft
    /\ gui' = "join"
    /\ UNCHANGED <<doppler, active, target, vfo, tracked, moved, center>>
    /\ UNCHANGED <<kind, freq, radio, worker>>

\* The stream is closed before the worker is joined.
StopSoapy == kind = "soapy" /\ Stopped(FALSE)

StopPluto == kind = "pluto" /\ Stopped(TRUE)

\* Fault: the device is closed before the worker has ended.
JoinNobody ==
    /\ gui = "join"
    /\ radio' = 0 /\ stream' = FALSE
    /\ gui' = "idle"
    /\ UNCHANGED <<doppler, active, target, vfo, tracked, moved, center>>
    /\ UNCHANGED <<kind, freq, running, worker>>

\* The rest of stop: the device is closed.
JoinWorker ==
    /\ gui = "join" /\ worker = "ended"
    /\ worker' = "none"
    /\ radio' = 0 /\ stream' = FALSE
    /\ gui' = "idle"
    /\ UNCHANGED <<doppler, active, target, vfo, tracked, moved, center>>
    /\ UNCHANGED <<kind, freq, running>>

Ends ==
    /\ worker = "streaming"
    /\ worker' = "ended"
    /\ UNCHANGED <<doppler, sink, center>>
    /\ UNCHANGED <<kind, freq, radio, running, stream>>

\* The flag is down, or the writer of the sample stream was stopped.
SoapyWorkerEnds == kind = "soapy" /\ ~running /\ Ends

\* It also ends when it gets no channel or no buffer, and the flag stays up.
PlutoWorkerEnds == kind = "pluto" /\ Ends

Tune(f) ==
    /\ freq' = f
    /\ IF running THEN Written(f) ELSE UNCHANGED radio
    /\ UNCHANGED <<kind, running, stream, worker>>

\* The operator, or SDR++ itself, moves the center, away from all the targets.
MoveCenter ==
    /\ gui = "idle"
    /\ center' = Elsewhere /\ Tune(Elsewhere)
    /\ moved' = TRUE
    /\ UNCHANGED <<doppler, active, gui, target, vfo, tracked>>

\* The other source is not tuned, and what its note says is of another time.
SelectSource ==
    /\ gui = "idle" /\ ~running
    /\ kind' \in {"soapy", "pluto"} \ {kind}
    /\ freq' = Astray
    /\ UNCHANGED <<doppler, sink, center, radio, running, stream, worker>>

-----------------------------------------------------------------------------
(***************************************************************************)
(* The sink: start, stop and its menu.                                      *)
(***************************************************************************)

\* start, or the menu; the bridge may have another owner.
StartSink ==
    /\ gui # "read" /\ ~active
    /\ active' = TRUE
    /\ UNCHANGED <<doppler, gui, target, vfo, tracked, moved, center, source>>

DopplerClosed ==
    Unmap /\ UNCHANGED <<record, writer, todo, next, reader, seen, touched>>

\* Fault: the center of the last recenter is remembered.
StopKeepsCenter ==
    /\ gui # "read"
    /\ active' = FALSE /\ vfo' = FALSE /\ moved' = FALSE
    /\ DopplerClosed
    /\ UNCHANGED <<gui, target, tracked, center, source>>

\* stop, on any thread, in between the locked sections of a frame.
StopSink ==
    /\ gui # "read"
    /\ active' = FALSE /\ vfo' = FALSE /\ tracked' = 0 /\ moved' = FALSE
    /\ DopplerClosed
    /\ UNCHANGED <<gui, target, center, source>>

\* The button: the center is still remembered.
MenuStop ==
    /\ gui = "idle" /\ active
    /\ active' = FALSE
    /\ DopplerClosed
    /\ UNCHANGED <<gui, target, vfo, tracked, moved, center, source>>

-----------------------------------------------------------------------------
(***************************************************************************)
(* onFrame.                                                                 *)
(***************************************************************************)

\* The first locked section, a poll every 100 ms: with the bridge active, the
\* box checked and a VFO there the record is read.
Frame ==
    /\ gui = "idle" /\ active
    /\ gui' = "read"
    /\ Read
    /\ UNCHANGED <<active, target, vfo, tracked, moved, center, source>>

\* What read does up to its last load.
Loads ==
    /\ LoadSequence \/ LoadFields
    /\ gui' = IF reader' = "idle" THEN "idle" ELSE "read"
    /\ UNCHANGED <<active, target, vfo, tracked, moved, center, source>>

\* Fault: the sequence is not compared.
ReadAlways ==
    /\ reader = "after"
    /\ Done /\ Close
    /\ IF Fresh /\ seen.target # 0
       THEN gui' = "tracking" /\ target' = seen.target /\ vfo' = TRUE
       ELSE gui' = "idle" /\ UNCHANGED <<target, vfo>>
    /\ UNCHANGED <<record, writer, todo, next>>
    /\ UNCHANGED <<active, tracked, moved, center, source>>

\* read returns, and the rest of the section.
ReadEnds ==
    /\ reader = "after"
    /\ Done /\ Close
    /\ IF Accepts
       THEN gui' = "tracking" /\ target' = seen.target /\ vfo' = TRUE
       ELSE gui' = "idle" /\ UNCHANGED <<target, vfo>>
    /\ UNCHANGED <<record, writer, todo, next>>
    /\ UNCHANGED <<active, tracked, moved, center, source>>

\* The second: a sink that was stopped meanwhile has no VFO.
StillTracked ==
    /\ gui = "tracking"
    /\ gui' = IF vfo THEN "recenter" ELSE "idle"
    /\ target' = IF vfo THEN target ELSE 0
    /\ vfo' = FALSE \* until it is set again, nobody asks
    /\ UNCHANGED <<doppler, active, tracked, moved, center, source>>

Near(f) == f - Center(target) < Recenter /\ Center(target) - f < Recenter

\* The third.
DecideRecenter ==
    /\ gui = "recenter"
    /\ IF tracked = 0 \/ ~Near(tracked)
       THEN gui' = "tune" /\ tracked' = Center(target)
       ELSE gui' = "vfo" /\ UNCHANGED tracked
    /\ UNCHANGED <<doppler, active, target, vfo, moved, center, source>>

TuneCenter ==
    /\ gui = "tune"
    /\ center' = Center(target) /\ Tune(Center(target))
    /\ moved' = FALSE
    /\ gui' = "vfo"
    /\ UNCHANGED <<doppler, active, target, vfo, tracked>>

\* A SoapySDR device throws where it is set to a frequency, when it is started or
\* tuned: nothing here catches that, and SDR++ ends and is started again.
SoapyThrows ==
    /\ kind = "soapy" /\ gui \in {"idle", "tune"} /\ (gui = "tune" => running)
    /\ DopplerClosed
    /\ active' = FALSE /\ gui' = "idle" /\ target' = 0 /\ vfo' = FALSE
    /\ tracked' = 0 /\ moved' = FALSE
    /\ center' = Elsewhere
    /\ kind' \in {"soapy", "pluto"}
    /\ freq' = Astray
    /\ radio' = 0 /\ running' = FALSE /\ stream' = FALSE /\ worker' = "none"

\* tuner::tune moves the VFO to the target.
TuneVfo ==
    /\ gui = "vfo"
    /\ gui' = "idle" /\ target' = 0
    /\ UNCHANGED <<doppler, active, vfo, tracked, moved, center, source>>

-----------------------------------------------------------------------------

Tracker ==
    /\ Publish \/ Store \/ Finish \/ Die \/ Restart
    /\ UNCHANGED <<sink, center, source>>

Time ==
    /\ TimePasses
    /\ UNCHANGED <<sink, center, source>>

OnFrame ==
    Frame \/ Loads \/ ReadEnds \/ StillTracked \/ DecideRecenter
    \/ TuneCenter \/ TuneVfo

Next ==
    \/ Tracker \/ Time \/ OnFrame
    \/ StartSink \/ StopSink \/ MenuStop \/ MoveCenter
    \/ SelectSource \/ SoapyThrows
    \/ StartSoapy \/ StartPluto \/ StopSoapy \/ StopPluto \/ JoinWorker
    \/ SoapyWorkerEnds \/ PlutoWorkerEnds

Spec == Init /\ [][Next]_vars

\* SDR++ goes on drawing frames whatever else its GUI thread does in between,
\* with the box checked, what a frame or a stop began it ends, and time passes.
Fairness ==
    /\ SF_vars(Frame)
    /\ WF_vars(Loads \/ ReadEnds \/ StillTracked \/ DecideRecenter
               \/ TuneCenter \/ TuneVfo)
    /\ WF_vars(JoinWorker \/ SoapyWorkerEnds \/ PlutoWorkerEnds)
    /\ WF_vars(Time)

FairSpec == Spec /\ Fairness

\* Bound: no radio is astray, and no note of it, while the reader is left with
\* the record of a writer that replaced it.
Apart == mapped = "left" => freq # Astray /\ radio # Astray

-----------------------------------------------------------------------------
(***************************************************************************)
(* Properties.                                                              *)
(***************************************************************************)

\* A target the sink follows is that of one record: at the moment read returns
\* the record is complete, and the target (with it the correction and the mark of
\* a valid one, which have no fields of their own here) and the time stamp that was
\* found fresh are its own, wherever the writer was, died and was started again
\* (DopplerReader::read).
TargetIsARecord ==
    [][gui = "read" /\ gui' = "tracking"
       => ~Mapped.odd /\ seen = Mapped.data]_vars

\* The center is left alone only where it is within 1 kHz of where the target
\* wants it, though what the sink compares is what it once asked for: but for a
\* center that somebody moved since, and the sink was not stopped
\* (onFrame; the menu's stop button is no stop).
CenterFollows ==
    [][gui = "recenter" /\ gui' = "vfo" => Near(center) \/ moved]_vars

\* Whenever a source runs that was tuned since it was selected its radio is where
\* SDR++ believes it to be, whether it was tuned before it was started or after,
\* by the sink or by hand, unless a PlutoSDR did not take the last frequency; and a
\* worker only streams from a device that is open, and from an open stream but
\* for the moment in which stop has closed a SoapySDR stream and not yet joined
\* the worker (start, stop, tune and the workers of both sources).
SourceInStep ==
    /\ TypeOK
    /\ running => radio \in {center, Astray}
    /\ radio = Astray => kind = "pluto" \/ freq = Astray
    /\ worker = "streaming"
       => radio # 0 /\ (stream \/ (kind = "soapy" /\ gui = "join"))

\* A reader that is left with the record of a writer that replaced it lets go of
\* it in the end, unless the record was abandoned with an odd sequence: nothing
\* makes the reader close that one but a stop (DopplerReader::read).
Reconnects == mapped = "left" /\ ~left.odd ~> mapped # "left"
=============================================================================
