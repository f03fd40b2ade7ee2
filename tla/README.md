# A TLA+ verification of the ASRTU Series Receiver

This directory models, model-checks and proves properties of the parts of the
suite in which threads, processes, files, queues, timers and retries meet. The
modules are translated from the sources under `src/`; `PROJECT.json` maps every
definition to the lines it models, lists the runs, the properties, a plausible
bug ("Fault" operators in the modules) that each property would catch, the
hazards of the code and the theorems.

## 1. The system

The suite receives the telemetry and SSDV images of the ASRTU satellites. SDR++
tunes the radio and hands I/Q samples to the receiver program through shared
memory (or the receiver opens a sound card). The receiver demodulates the
samples in a GNU Radio flowgraph, several decoder branches in parallel; the
frame monitor decides which of their frames count. Frames go to the SSDV
receiver, which assembles images and shows them, and by ZeroMQ to two uploaders,
one for the project's server (WebSocket) and one for SatNOGS (HTTP). A launcher
starts the programs, prepares SDR++ and sends the receiver commands. TinyDoppler,
a program of its own, publishes the frequency of the satellite, which the plug-in
in SDR++ takes to the radio.

```
 SDR++ + asrtu_sink --ring in a mapped file--> SharedIqSource --> demodulators, FEC
        ^                                                              | messages
        | Doppler record                                               v
 Doppler program                      AsyncWavRecorder         FrameMonitor
                                                             |        |
                          SatnogsUploader <--ZeroMQ--+-------+        v
                          UploadProxy     <--ZeroMQ--+           SsdvReceiver
                                                                      | posted updates
 launcher --local socket--> MainWindow (device switch, close)   SsdvImageWindow
    |  starts, waits for, takes back: decoder, proxy (through a wrapper), uploader
    '--configuration files--> SDR++ (preset), proxy (satellite)
```

### Components, their state and what makes them correct

| Component | State | Operations | Hard behaviour | Correct when |
|---|---|---|---|---|
| SSDV receiver, threads (`ssdv_receiver.cpp`) | frame queue, generation, clear and stop requests, the batch in the worker's hands, the refresh deadline | `ingestFrame`, `clear`, `finish`, `workerLoop`, the image callback | clear or stop between any two unlocked steps of the worker; full queue; timed waits | a cleared image never comes back, every frame is accounted for, closing returns, the preview catches up |
| SSDV receiver, session | packets of the image, packets for the packet file, failed ids, save time, serial | `processFrame`, `rebuildImage`, `savePacketBin`, `clearState` | late, repeated and damaged packets, failing writes, decoder rejections, throttled saves | images are split where a new one begins, verified packets stay, files hold what was selected |
| SSDV image window (`ssdv_image_window.cpp`) | gallery, selected index, minimum generation | `updateImage`, browse, `clearDisplay` | stale updates, an index into a list that loses its head | what is shown is what is selected, updates do not take the display away |
| I/Q bridge, producer (`posix_bridge.h`, `shared_bridge.h`) | header words and ring in a mapped file | `start`, `write`, `stop` | crash between any two stores, hand-over to another process | a stream that only grows |
| I/Q bridge, consumer (`shared_iq_source.cpp`) | read position, "producer was active", drop counter | `work` | lock-free reads while the producer writes, laps, pauses | consecutive intervals, every skip counted, no published overwrite delivered |
| Frame arbitration (`frame_monitor.cpp`) | recently sent frames, pending candidates | `handle`, `handleLocalCandidate`, `candidateWorker`, destructor | three threads over two locks, deadlines | one publication per window, a success beats what waits, the best candidate waits, none for ever |
| WAV recorder (`async_wav_recorder_sink.cpp`) | chunk queue and its count, the open segment | `work`, `writerLoop`, `stop` | bounded queue, failing disk, a notification without the mutex | files in order and complete up to the drops counted, the writer never sleeps on work, `stop` returns |
| Upload proxy (`upload_proxy.cpp`) | socket state, reconnect timer, pending frames, counters | receive tick, `submitFrame`, `flushPending`, the socket's signals | two signals for one failure, a send that closes the socket inside the flush | each frame in one place, always a way back to the server |
| SatNOGS uploader (`satnogs_uploader_window.cpp`) | pending frames, requests in flight, one retry timer | `enqueueFrame`, `submitPending`, the reply's `finished` slot, timer | several requests sharing one back-off, a full queue that holds retries, `Retry-After` overflow | retries never dropped, back-offs honoured, every frame resolved |
| Main window (`main_window.cpp`) | flowgraph, unsafe flowgraph, switch in progress, pending device, central widget | `switchAudioDevice`, `finishAudioDeviceSwitch`, restarts, `closeEvent` | drivers that block, fail or throw; dialogs with nested event loops; close at any moment | widgets outlive the graphs that draw in them, the device asked for last is served, switches end |
| Doppler record (`posix_bridge.h:150-213`, `shared_bridge.h:195-259`) | the record in a mapped file, the reader's mapping | `read`, `close`; the tracker's stores | a writer that dies between two stores or is replaced with its file | what is read is one complete, fresh record, and a reader finds the new file |
| Doppler tuning (`asrtu_sink/src/main.cpp`) | the center last asked for, the VFO followed, whether the bridge runs | `onFrame`, `start`, `stop`, the menu's buttons | a stop between two locked sections of a frame, a center moved by hand | the radio is left alone only where the target is near |
| PlutoSDR and SoapySDR sources (`plutosdr_source/main.cpp`, `soapy_source/main.cpp`) | the flag, the device, the stream, the worker thread, the frequency | `start`, `stop`, `tune`, the workers | tuned while stopped, a frequency the radio does not take, a worker that outlives the stream or ends by itself | the running radio is where SDR++ believes it to be once it took a frequency, no worker without a device |
| Launcher, start of the suite (`suite_launcher.cpp`), with `apps/dsp/main.cpp`, the wrapper, and the locks of proxy and uploader | processes, lock and ready files, the saved choice, what a start has begun | `startSuite`, `startProgram`, `startProxy`, `startSatnogsUploader`, the buttons, `--start` | programs that hang, crash or refuse at any moment, two starts at once, stale locks, roll-back | one of each program, a failed start leaves nothing, the proxy serves the choice |
| Launcher, SDR programs (`suite_launcher.cpp:101-1348`) | the stored array of programs, the open chooser's cards, SDR++'s configuration files and the preset's marker | add, edit, delete, `configureSdrppPreset`, `startSdrProgram` | indexes into a list that changed, settings that cannot be saved, writes that fail, a marker that cannot be read, a kill between files, SDR++ saving its own files | a card names its own entry, other entries stay, the preset is complete where it is marked, choices survive |
| Windows sound card source (`winmm_iq_source.cpp`) | waveIn buffers | driver callback, `work` | buffers that circulate between driver and reader | not modelled yet |
| Flowgraph wiring, decoders' adapters, WAV file source, PMT decoder, proxy's window, plots, packaging, vendored codec and modem | none that outlives a call, or none but the user interface's | | | not modelled, see section 7 |

## 2. Plan

1. The SSDV receiver's threads (`SsdvReceiver`), because most of the program's
   locking is there, then its packets and files (`SsdvSession`) and the window
   (`SsdvGallery`). Done.
2. The I/Q bridge with both processes (`SharedIqRing`) and the stream it
   promises (`BridgeStream`). Done.
3. The two uploaders (`SatnogsUploader`, `UploadProxy`). Done.
4. Arbitration (`FrameMonitor`), recorder (`WavRecorder`), device switch and
   shutdown (`AudioSwitch`). Done.
5. The launcher with the programs it starts (`SuiteLauncher`), the SDR programs
   and the preset (`SdrPrograms`). Done.
6. The Doppler record (`DopplerRecord`) and, composed with it, the sink and the
   radio sources that follow it (`DopplerTuning`). Done.
7. Proofs: types, and every invariant and action property that the runs check.
   Done, see section 5.
8. Next: the waveIn buffers; the start of TinyDoppler; the nested event loop of
   the stall's message box.
9. Next proofs: the safety parts of the liveness properties, that is what each of
   them needs to hold at every moment so that the scheduling can do the rest (a
   retry has a timer, a preview that is behind has a deadline, an open connection
   is flushed). The liveness properties themselves stay with TLC.

`SsdvReceiver` composes with the others by its free choices: which packets join
an image is `SsdvSession`'s question, and what the window does with more than
one image is `SsdvGallery`'s. They are kept apart because their product has far
more states than their questions need: the threads do not depend on what a
packet holds, and the session runs on one thread.

## 3. The modules and the code

**SsdvReceiver.** `queue`, `gen`, `dropped`, `clearReq`, `stopReq` are the
fields under `queue_mutex_`; `batch`, `dirty`, `urgent`, `due`, `packets`,
`path`, `serial`, `complete`, `stateGen` belong to the worker; `posted`,
`minGen`, `gallery` to the Qt thread and its event queue. Each region that the
code runs under the mutex is one action, each region that the worker runs
without it is another, so that ingest, clear and stop fall between any two of
them: between the extraction of the batch and each of its frames (`NextFrame`,
`Process`), and at the three generation checks of `rebuildImage`
(`CheckBeforeDecode`, `Decode`, `CheckBeforePublish`, `Publish`). What
`processFrame` decides is the free choice `Reject \/ Join \/ Open`.
`Decode` may reject packets (`RejectPackets`), with which the image's parts and
`complete_` are reckoned again; `CheckBeforePublish` also saves the image, where a
save is due, and a save that fails publishes nothing. `AppendRawFrame` may fail:
the frame is then `unsaved` and goes on as before.
`clear` and `clearDisplay` are two steps of one event handler, the worker may run
between them. The histories `ingested`, `evicted`, `logged`, `archived` and `unsaved`
are what the program received, lost, logged, wrote to the raw archive and could not
write there.

**SsdvSession.** `processFrame` for packets of several images, in both formats
(DSLWP and JAMX) or damaged: `Usable`, `SessionChanged`, `Ignored`,
`KeepsExisting` are the code's conditions in its order. `Rebuild` is
`rebuildImage`: the decoder may reject packets, decoding and each write may fail.
The time since the last save has three values (`never`, `recent`, `old`), which is
all the code distinguishes. A clear or a stop can come during a refresh and is
then the next thing the worker does. Frames that are refused before the image is
looked at are left out. `Outcome` collects what may go wrong in a refresh.

**SsdvGallery.** The window's handlers, each run to its end on the GUI thread,
and a receiver that makes an update before a clear and posts it after. The
generation travels in the update as in the code.

**SharedIqRing.** One step for each access that the other process can observe:
a sample of a `memcpy`, or the store or load of a header word. The producer can
crash between any two of them, and another process can take over the file: the
lock admits one at a time. A sample is its index in the stream, so that a slot
tells which lap it is from. `mark`, `origin`, `delivered`, `dropped`, `block` are
histories. **BridgeStream** is the abstract specification: a stream that only
grows and a reader that walks forward, by delivering or by skipping.
`ImplementsStream` checks the refinement, with the cursor for the stream's length
and `read_index_` for the position.

**FrameMonitor.** `handle` is two actions (under `candidate_mutex_`, then under
`dispatch_mutex_`), so is `handleLocalCandidate` (in the opposite order), and the
candidate worker is three: both waits and the callbacks that run without a lock.
GNU Radio runs the handlers of one block on one thread, so `Handlers` has one
element in the run; `frame_monitor.h:63-65` provides for more, which the module has
too, and section 5 says which theorems are about any number. Lengths and the
counters of the status line are left out.

**WavRecorder.** `work` under the queue's mutex, the writer's wait as predicate
and sleep (two steps, the mutex is held between them), one step for each file
operation, each of which may fail. `stop` sets `stopping_` and notifies in two
steps without the mutex, as the code does. Spurious wake-ups are an action
without fairness.

**UploadProxy.** A receive tick takes up to `MaxPerTick` messages, one action
each. Nothing else can run in between but what a failing send causes: then the
disconnect handler runs inside it. `FlushPending` is the whole loop: a prefix is
sent, and the send after it fails or closes the connection. `refused` is the
socket after a handshake that the server refuses: an error is reported and the
socket is still open, so that only the disconnect arms the timer.

**SatnogsUploader.** One action for each event handler with everything it
calls: every handler that changes the queue ends in `SubmitPending` where the
code does. `Finished` is the reply's slot with its three ends (accepted, given
up, retried). `ServerDelays` has the outcomes of the multiplication of
`Retry-After` by 1000 that overflows an `int`: exact or wrapped. `owed` is the
history of what the frames were promised.

**SuiteLauncher.** A process is a record: its program, its phase (`loading`,
`refused`, `replacing`, `locked`, `up`, `orphan`, `dead`), its exit code; one that hangs
is one that takes no further step. `Acquire`,
`Examine` and `ReplaceLock` are the steps of `apps/dsp/main.cpp` from `tryLock` to
the second `tryLock`, so that another receiver can act in between; the uploader's
and the proxy's main functions take theirs in one step. A launch is a record of
what it has to start, what it is waiting for, what it has started and what it is
taking back; there are two of them, the launcher's window and `launcher --start`,
whose steps interleave. `Spawn`, `Survived`, `ExitedEarly`, `DecoderReady`,
`DecoderNotReady` and `Terminate` are `startSuite` and the functions it calls,
between their waits; `Upload`, `Start`, `Play`, `AutoSave` and `Reopen` are the
window's handlers. Timeouts are choices: whatever has not happened yet may come
too late. `windows` says which of the two builds runs: on Windows the proxy is
started through a wrapper and exit codes are known, on POSIX they are not.

**SdrPrograms.** The array of programs as QSettings stores it, entries and size
apart (`stored`, `size`), and the chooser's cards with the index each was built
with. Each rewriting of the array ends in `Synced`: if the settings cannot be saved
the array has changed all the same, the chooser keeps its old cards (`stale`), and
what is edited or deleted through them is another entry than the card shows, or one
behind the list's end (`misled`). `ReadMarker` takes a marker that it cannot open or
parse for none (`misread`). `configureSdrppPreset` is one action for each file it reads or writes, run
by the chooser or by `launcher --sdrpp`, so that a failed write, a kill of the
launcher, another launcher or SDR++ saving its files can come between any two of
them; a file is `old`, `preset` or what the operator chose. Names are model values;
paths and arguments travel with a name and are left out. `Retained` is the loop in
which a deletion collects what it writes again.

**DopplerRecord.** One step for each load of the reader and each store of the
writer. The writer is not in the repository: it is modelled from the protocol the
reader goes by, and may die at any store and start again on the same file or a
new one, of which a reader that has the old one mapped learns nothing. The
sequence is its parity and whether it was stored since the reader loaded it, so
that no bound on the number of records is needed. **DopplerTuning** extends it
with the sink's frame handler (one action for each section under its mutex and for
each call that tunes), its start, stop and menu, and with the two radio sources,
of which the operator selects one. Selecting does not tune, and a source's note of
its frequency is not initialised: `Astray` stands for any frequency that SDR++ did
not ask for. A PlutoSDR may not take a frequency, which nobody looks at (`Written`);
a SoapySDR device may throw, which nothing in `src/` catches, so that SDR++ ends and
is started again (`SoapyThrows`). SDR++'s GUI thread runs frames, menus and
the source's handlers one at a time (`gui`); the sink's `stop` may also come from
another thread, which the mutex keeps out of one section at a time. The writer's
protocol and the frequencies are the only things left of TinyDoppler and of SDR++.

**AudioSwitch.** The GUI thread's handlers as single steps, except at a dialog,
whose event loop runs other handlers (`DialogClosed` ends it). The threads that
call `AsrtuFlowgraph::stop` may return, throw or never return. The central
widget has the number of the graph whose sinks draw in it, `holding` are the
graphs not stopped. `choice` is the device that `switchAudioDevice` was asked for
last, until it is given up (`GivenUp`): it failed itself, a stop failed, or a restart
of the stalled card took its place. `late` is the history of a switch that was begun while the
window was closing or after a stop had failed, which the code permits and two
comments rule out (section 6): `WidgetsOutliveGraphs` holds until then, the other
properties always.

## 4. The runs

Every run checks deadlock; a state in which the program really has ended or the
bounds are used up is an explicit stuttering action (`Closed`, `Ended`, `Quiet`,
`Destroyed`, `Stopped`).

| Run | Bounds | What it shows |
|---|---|---|
| `ssdv_receiver` | 3 frames, queue of 2, 2 clears, decodes and saves that fail, one frame not archived or one refresh that rejects packets | `ClearedImageNeverShown`, `FramesAccounted`, `FinishReturns`, `PreviewCatchesUp` |
| `ssdv_session` | 3 packets out of 2 images, ids 0..2, one faulty refresh or save | `BinFileCurrent`, `NewImageJustified`, `VerifiedStays`, `ReplacedImageSaved` |
| `ssdv_gallery` | gallery of 4, 6 images, 2 updates on their way, 2 clears | `UpdateKeepsView` (with `ShownIsSelected`) |
| `iq_ring` | capacity 3, latency limit 2, output 2, writes up to 4, 6 samples | `PositionExplained`, `TornOnlyByUnpublished`, `ImplementsStream`, `CatchesUp` |
| `satnogs` | queue of 3, 2 requests, 3 attempts, 5 frames, an `int` of 8 values | `RetryNeverDropped`, `EachFrameOnce`, `BackoffHonoured`, `EveryFrameResolved` |
| `monitor` | 2 keys of 2 payloads each, 3 messages, window 2, arbitration 1, 4 ticks | `CopiesSuppressed`, `SuccessWins`, `BestCandidateWaits`, `CandidatesLeave` |
| `upload_proxy` | queue of 3, 2 messages a tick, 7 messages | `NothingMiscounted` (with `EveryFrameAccounted`), `ReconnectScheduled`, `NoFrameWaitsForever` |
| `wav_recorder` | queue of 3, segments of 2, bursts up to 4, 9 frames, failing disk | `RecordingFaithful`, `WriterWakes` |
| `audio_switch` | 2 devices, 3 commands, 4 graphs, 1 restart | `WidgetsOutliveGraphs`, `ChoiceServed`, `SwitchEnds` |
| `suite_launcher` | 3 processes at a time, 3 satellites of which 2 use the proxy | `OneOfEach`, `FailedLaunchLeavesNothing`, `ProxyServesChoice` |
| `sdr_programs` | 3 names besides the bundled one, 2 kept entries, settings that cannot be saved, a marker that cannot be read | `CardsTruthful`, `OthersKept`, `PresetComplete`, `ChoicesKept` |
| `doppler_tuning` | 2 targets, apart by the limit of a recenter, frequencies that are not taken | `SourceInStep`, `TargetIsARecord`, `CenterFollows`, `Reconnects` |

Each module has one type invariant, `TypeOK` or a name of its own, which is the first conjunct of one
of the properties above.

### Why the bounds are enough

- A queue of two or three with more frames than it holds reaches every case of a
  bounded queue: empty, filling, full, dropping, and dropping more than once; a
  burst larger than the queue is possible in `wav_recorder` (4 against 3), and a
  write larger than the ring in `iq_ring` (4 against 3).
- Two clears give three generations: a frame, an update and a request can each
  be of a different one.
- Three packets are the shortest sequences in which one opens an image, one
  comes late or again, and one replaces the image; ids up to 2 leave a packet in
  the middle that is neither the first nor the last, and `MaxJump = 1` makes the
  limit on damaged ids bite.
- The ring of three with writes of up to four samples and six in all goes
  around twice; a reader is lapped within one copy, and the latency limit of two
  is below the capacity, as in the code.
- In `monitor` a publication needs an arbitration of one tick at most, so that time
  stamps go from 0 to 3 with a window of 2: a frame published at 0 is forgotten at
  the dispatch of a message of 3, and its copy is published again. The mutant of
  `CopiesSuppressed` is a `prune` that forgets nothing.
- In `satnogs` a tick is a second, the limit of the back-off lies between the
  second and the third exponential delay, `Retry-After = 2` asks for more than the
  first one, and `Retry-After = 5` wraps to a
  negative number. One status stands for those that are not retried (404) and one
  for those that are (0, the status of an aborted request).
- `suite_launcher` has three process slots, which are used again when nobody
  refers to the dead process in them: a decoder that is up, one that is starting
  and one that looks at the lock of the two is the smallest crowd in which a lock
  is stolen; a start needs at most two at once, so that a roll-back can meet the
  programs of another start. Two satellites of the proxy make a stale
  configuration visible.
- `sdr_programs`: with three names an entry can be before, at or behind the one
  that is edited or deleted. The preset's version, its three files and its marker
  are those of the code. The list and the preset share no file but the chooser's
  event loop: `Apart` keeps their product small, in that a launch of SDR++ is not
  explored behind settings that could not be saved. The proofs have no such bound.
- `doppler_tuning`: the two targets lie apart by exactly the limit, so that an
  off-by-one in the comparison would show; `Elsewhere` is far from both. The record
  has no bound: sequences and time are abstracted to what the reader compares.
  `Apart` leaves out the states in which a radio is astray while the reader is left
  with a replaced record; neither looks at the other. The proofs do not need it.
- Symmetry is used in `ssdv_session` and `sdr_programs`, which have no liveness
  property.

### Fairness

- `SsdvReceiver!FairSpec`: the worker thread runs, the steady clock advances, the
  Qt event loop delivers, each weakly fair. A decode that is attempted for ever
  succeeds now and then (strong fairness of `Decode` when it goes on), and so does
  the save behind it (strong fairness of `CheckBeforePublish` when it goes on):
  without them a decoder or a disk that always fails never shows anything, which is
  what the code does (section 6). Nobody must send frames, clear or close.
- `SharedIqRing!FairSpec`: the flowgraph keeps calling `work`. The producer has
  no fairness: it may stop anywhere. Each load and store is a step that all see in
  the same order; what a weakly ordered memory could reorder (the copy of the block
  before the acquire load of the cursor behind it) is left out.
- `SatnogsUploader!FairSpec`: a request finishes (the code aborts it after 15
  seconds), due timers are delivered, the clock advances.
- `FrameMonitor!MonitorFairSpec`: a handler that has begun goes on, the worker and the
  destructor run, the clock advances. No message is ever owed.
- `UploadProxy!LiveSpec`: a receive tick ends; the address can be used now and
  then; the server closes what it refuses, and a connection on which sends fail
  breaks; and, if the proxy keeps trying, the server at some time accepts a
  connection and what waits. The last three are strong, because receive ticks
  come in between. They are assumptions about the network; the property then says
  that the proxy uses the chance.
- `WavRecorder!RecorderLiveSpec`: both threads run. A sleeping writer wakes only when it
  is notified: a spurious wake-up may come and is never relied on.
- `AudioSwitch!LiveSpec`: the event loop delivers and the operator closes the dialog.
  Nothing is assumed of a driver, which may block for ever: `SwitchEnds` is about a
  switch whose stop has returned or thrown, or that has none.
- `DopplerTuning!FairSpec`: SDR++ draws frames again and again (strong, because a
  stop of the source blocks its GUI thread in between), a frame and a stop that
  have begun go on, the source's worker ends, and time passes. That a frame reads
  again and again assumes that the operator leaves the auto-Doppler box checked
  (`asrtu_sink/src/main.cpp:180`): with the box off the old mapping is kept. The
  tracker owes nothing: it may be dead for ever.
- `SuiteLauncher` and `SdrPrograms` have no liveness property: every wait of the
  launcher ends by its own time limit, and whether a program comes up is not in
  its hands.

## 5. What is proved

The theorems hold for every value of the constants that the named `ASSUME`s
admit; TLC checks those assumptions in every run.

**SsdvReceiverProofs.** `TypeCorrect`: the state stays well formed, the queue
within its limit. `ClearIsFinal`: no frame of before a clear is ever in the
gallery after it. `ClearedImageNeverShown` is not inductive: it says nothing of
what is on its way to the gallery. `GenInv` strengthens it along the path of a
frame: the queue holds frames of the current generation; the batch and the open
image hold frames of the generation the worker works for; that generation is
the current one unless a clear is pending; every posted update holds frames of
its own generation; and no update of the gallery is older than the minimum. Each
action disturbs one station of that path. The theorem needs no assumption on
the queue's size, the number of clears or the decoder. `EveryFrameAccounted`
(`FramesAccounted`): a frame that no clear revoked is on its way, archived, one whose
write failed, or dropped and counted, for any number of failing writes. `OrderInv` says that the archive, the batch
and the queue hold frames in the order of their arrival, each of them before the
next: what is taken or dropped at the head of the queue is then known to be nowhere
else, and the counter of the drops is the size of a set.

**SatnogsUploaderProofs.** `TypeCorrect`: queue, request window and attempts
stay within their limits and `inFlight_` counts the outstanding requests.
`RetriesSurvive`: a frame waiting for a retry is never pushed out. A full queue
loses its newest frame to a retry, which is safe only because retries are few
and in front: `QueueInv` states that a retry at position `i` fits, with the
requests in flight, in the window (`i + inFlight_ <= kMaximumInFlightRequests`).
It needs the window not to be larger than the queue (`UploaderAssumption`; 4 and
128 in the code). One lemma for each thing a handler does to the queue (append,
drop the oldest, remove a request, put a retry in front, drop the newest, post)
shows that it keeps `QueueInv`, and the handlers compose them.
`BackoffIsHonoured`: the shared timer never ends before a back-off that a frame
was promised, for every header, including one that overflows; the lemma
`DelayRange` shows that a wrapped header never shortens the exponential delay.
`FramesOnce` (`EachFrameOnce`): a frame is waiting, requested, accepted, given up or
dropped, and in one of them only. `OnceInv` says that the names in the queue and in
the requests differ, and that the sizes of the five places add up to what was
received; one lemma for each thing a handler does to the queue moves one name.

**UploadProxyProofs.** `TypeCorrect`; `FramesAccounted`: a frame is sent, dropped
or waiting, in exactly one of them, and what was dropped is older than all that
waits; `AlwaysReconnects`: an unconnected socket has a timer. The invariant
`IInv` adds the order of the queue, without which neither the suffix that a
flush leaves nor the head that a full queue loses would be known to be distinct
from the rest, and the bound of the model. The lemmas `SuffixOfIncreasing` and
`AppendToIncreasing` carry the argument about sequences.

**SharedIqRingProofs.** For every capacity, latency limit, block size and length
of the stream, with a producer that crashes between any two stores. `Positions`:
every sample that the reader passed was delivered or is counted
(`PositionExplained`). `PositionInv` adds that a producer which writes works from
the cursor it loaded, and that every position the reader holds was a cursor or is
behind one. `Torn` (`TornOnlyByUnpublished`): a block that the check lets pass
holds the samples it should, but for those of a `write()` whose cursor is not
published. `SampleInv` says what a slot may hold: what the cursor has published
is there or has been replaced by a sample of the same slot, and the lemma `NextLap`
says that such a sample is at least a lap later (`SlotsTrue`); a `write()` has
stored what it has passed, but for the part that it leaves out because it would
overwrite it itself (`WriteTrue`); what the reader has copied is true unless the
cursor has meanwhile passed it by a lap (`CopyTrue`), which is what the check
after the copy finds. `BridgeImplementsStream`: under the mapping in
`SharedIqRing`, every initial state is one of `BridgeStream` and every step is one of its
steps or a stutter.

**ReceptionProofs** is about what a frame meets in the receiver after the
decoders; it has the proofs of four modules.

- *FrameMonitor.* `BestWaits` (`BestCandidateWaits`) and `CancelledStays`
  (`CancelledNeverForwarded`, the first part of `SuccessWins`) hold for any number of
  handler threads. The second follows from `CancelInv`: a message is in one place, on
  its way to the table, in the table, with the worker or cancelled, so that what a
  success cancels has not been taken and cannot be.
  `SuccessBeatsWhatWaits` (`SuccessWins`) and `OncePerWindow` (`CopiesSuppressed`) have the
  hypothesis `OneThread`: `handle` takes its two mutexes one after the other, so that
  a second handler between them could leave the copy of a frame that is being
  published in the table. GNU Radio runs the handlers of a block on one thread.
  `PublishedInv` says what that thread knows between the two locks; `WindowInv` that
  time stamps are taken in the order of the dispatches, and that what was published
  is remembered or older than the window to whatever comes.
- *SsdvSession.* `PacketFileCurrent` (`BinFileCurrent`), `ImagesAreJustified`
  (`NewImageJustified`), `VerifiedPacketsStay` (`VerifiedStays`) and
  `ReplacedImagesSaved` (`ReplacedImageSaved`), for every set of images, ids and
  contents. `SessionInv`: each packet of the image is also selected for the packet
  file, only packets that passed no check are marked as failed, and a packet file
  that is not marked dirty is on disk.
- *SsdvGallery.* `ViewKept` (`UpdateKeepsView`), for every size of the gallery.
  `GalleryInv`: the window's minimum generation is the receiver's, what is shown is
  what is selected, and an image is in the gallery once, so that an update of one
  leaves all the others where they were.
- *WavRecorder.* `RecorderIsFaithful` (`RecordingFaithful`), for every limit of the
  queue and of a segment and for every burst. `RecorderInv` has the frames in the
  order in which they were taken, in the files, in the chunk that is written and in
  the queue (`FilesOrdered`, `ChunkOrdered`, `QueueOrdered`); the queue's counter
  right; who can still be there when which thread has ended (`Ends`); the length
  that the next header will state that of the open file (`OpenFile`, `LengthsRight`);
  and, until a write fails, nothing lost (`AllThere`).

**AudioSwitchProofs.** `WidgetsOutlive` (`WidgetsOutliveGraphs`): a graph that is
not stopped is the one whose widgets are in the window, unless a switch is begun
after a stop that failed or while the window closes. It is not inductive: nothing in
it connects the graph that a thread is stopping with the window. `Stations` says
where the one graph that is not stopped can be at each step of a switch, of the
failure's dialog and of the close, and `Reports` what the threads hand over. From the
first late switch on (`late`) nothing is claimed of the stations; the property has
the same exception. `ChoiceIsServed` (`ChoiceServed`) has no exception: the device
asked for last is open, is opened when a stop has returned, waits for a switch to end
or is posted, until it is given up. `Answered` adds which of these places can be
occupied at all at each station of a switch (no request waits beside a graph that
runs), and the lemma `FinishAnswers` carries the request through the end of a switch,
whatever graph it leaves and whether a dialog follows.

**SuiteLauncherProofs.** `OneOfEachProgram` (`OneOfEach`): `LauncherInv` adds to the
records' form that a program past its `tryLock` is the one that its lock file
names. A decoder is exempted once a lock file was removed under a live owner
(`stolen`, POSIX), since from then on the orderly end of one decoder removes the
file of the other. `ProxyFollowsChoice` (`ProxyServesChoice`): `ChoiceInv` says that
the configuration names the chosen satellite as long as the proxy is on the
window's list: an upload whose file was not committed puts none there, and what the
timer, a failed commit or another upload left in the settings before is overwritten
by it. While a launch of the window goes on no handler of it saves (`Busy`); a second
window, which could, is not modelled, so that the theorem says nothing of one. `RollBackIsComplete` (`FailedLaunchLeavesNothing`): a
launcher in a roll-back starts nothing and whatever has left its list has ended
(`RollBackInv`); this lasts because a pid that a launcher remembers is not used again,
which is the model's assumption about the operating system (`Unused`).

The same module has the proofs about *SdrPrograms*, for every set of names and every
length of the list. `PresetIsComplete` (`PresetComplete`) and `ChoicesSurvive`
(`ChoicesKept`): `PresetInv` says that, unless two were at the files at once
(`overlap`), a launcher at work is the only one and SDR++ does not run; the files
before the one that it is about to write have the preset; what it has read for a
repair is still there; and behind a marker SDR++ was started with no old file, which
it could otherwise save over the preset. A launcher that migrates has found no marker
or could not read it (`misread`), which is where choices may be lost.
`CardsAreTruthful` (`CardsTruthful`) and `OthersAreKept` (`OthersKept`): `ListInv` says
that an open chooser's cards are the list's unless a save has failed (`stale`), and,
until an entry was changed through such a card (`misled`), that no name is twice among
the entries that count and none is the bundled program's. `OthersAreKept` ties what
vanishes to the card that was deleted or edited. The lemma `RetainedIs` says what the loop of a deletion leaves, in which
order and how often. It is an induction over the list; since the induction rule
itself cannot be used, each such proof takes the least number at which the statement
fails (`LeastNumber`, from the well-foundedness of the naturals) and refutes it there.
`LoopRuns` shows in the same way that the loop's recursion defines a function.

**DopplerProofs.** `ReadsAreAtomic`: a target that `read` returns belongs, with
the time stamp that was found fresh, to one complete record, for every set of
targets and wherever the writer was, died and was started again. `ReadInv` has
the three facts of the argument: the sequence is odd whenever the writer is between
its fields; while nobody has stored the sequence since the reader loaded it even,
what it has loaded is still in the record it maps; and nobody unmaps the record
during a read. The store of a field then meets no reader that would accept it, and
a writer that replaces the file leaves the reader its old record untouched.
`RadioInStep`: a running radio is at the center SDR++ believes in, unless its source
was not tuned since it was selected or a PlutoSDR did not take the frequency, and a
worker only streams from an open device. The strengthening adds that the source's
own note of the frequency, once it was tuned, follows the center also while it is
stopped, which is what makes a later start right. `CenterIsFollowed` (`CenterFollows`): the center is left
alone only where it is near the one the target wants, unless somebody moved it.
`CenterRemembered` says that what the sink compares is where SDR++ is, or is going to
be at the end of a tuning; a stop that comes between the decision and the tuning makes
the sink forget it, which is on the safe side.

Only model-checked: the liveness properties (`FinishReturns`,
`PreviewCatchesUp`, `CatchesUp`, `EveryFrameResolved`, `CandidatesLeave`,
`NoFrameWaitsForever`, `WriterWakes`, `SwitchEnds`, `Reconnects`) and the absence of
deadlocks, which every run checks: temporal reasoning under fairness, and what is
enabled, are outside what the prover does. Every invariant and every action property
of the runs is a theorem. Two of them, `SuccessBeatsWhatWaits` and `OncePerWindow`, have a
hypothesis besides the named `ASSUME`s (`OneThread`, above).

## 6. Where the code and its own words disagree

These were met while modelling. The models contain the behaviour, and a property
states what the code does keep:

- `ssdv_receiver.cpp:535`: a refresh within a second of the last save shows the
  image and leaves it unsaved, and `finish()` saves only an image that is still
  dirty. The comment at `ssdv_receiver.h:52` promises to save the final image file.
  `ReplacedImageSaved` is about the images before the last one.
- `async_wav_recorder_sink.cpp:170`: `stopping_` is set without the mutex of the
  condition variable; the notification can fall between the writer's test and its
  sleep, and then the join never ends. `WriterWakes` says that this is the only
  notification that can be missed.
- `main_window.cpp:891`: after a stop that threw, the next audio-device command
  deletes the central widget that the comment at line 952 says is kept alive; and
  a switch that begins after the close (line 1121) can leave a graph that runs
  while the destructors do (comment at line 1100). `WidgetsOutliveGraphs` has both
  as its exception.
- `posix_bridge.h:195`: a record left with an odd sequence keeps the reader on its
  old mapping for ever when the file is replaced: read returns before it looks at
  the time stamp. `Reconnects` has this case as its exception. A writer that takes
  the old file again repairs it.
- `asrtu_sink/src/main.cpp:211`: the decision to recenter compares the target with
  what the sink last asked for, so that a center that was moved by hand stays
  where it was put, while the menu reports tracking; and the menu's stop button,
  unlike `stop`, does not forget it. `CenterFollows` has this as its exception.
- `dsp/main.cpp:142`: between the look at the lock's owner and the removal of the
  file another receiver can take the lock; on POSIX both then run. `OneOfEach` has
  this as its exception (`stolen`).
- `suite_launcher.cpp:1444`: terminating the proxy's wrapper on Windows leaves the
  proxy that it started. `FailedLaunchLeavesNothing` and `OneOfEach` say so.
- `suite_launcher.cpp:1420`: on POSIX the exit code of a program is not known, so
  that code 3 ("already running") is reported as an error there, and a second click
  on upload fails; `satnogs-uploader/main.cpp:106` says that the launcher
  takes the code for success.
- `suite_launcher.cpp:1515`: a proxy that needs longer than 1.2 s to come up reads
  the configuration of a later choice, and one that is already running keeps its
  satellite. `ProxyServesChoice` is about the proxy that the handler waits for.
- `suite_launcher.cpp:1721`: a roll-back may end a proxy that another start
  has meanwhile found running and reported.
- `suite_launcher.cpp:989`: `beginWriteArray` without a size, then `endArray`: an edit
  of an entry leaves the array as long as that entry's index, and the later entries
  are not read any more. `OthersKept` is about the entries before it.
- `suite_launcher.cpp:510-650`: SDR++, or a second launcher, that writes its files
  while the preset is written can undo a part of it; SDR++ entered as a custom
  program gets no preset. `PresetComplete` has both as exceptions.
- `ssdv_receiver.cpp:206`: a clear, a new frame and a finish before the worker
  wakes lose the new frame, although the comment at line 192 says the queue is
  drained. `FramesAccounted` has this case as its exception (`discarded`).
- `ssdv_receiver.cpp:499`: a verified packet that the decoder rejected leaves
  the packet table, so that an unverified copy can replace it in the packet file
  (comment at line 397: never). `VerifiedStays` is about the table.
- `ssdv_image_window.cpp:349`: an operator who looks at the image before the
  newest is taken to the new one (comment at line 346: browsing is left alone).
  `UpdateKeepsView` states what holds.
- `shared_iq_source.cpp:291`: a write that has begun to overwrite the block and
  is not published passes the lap check (comment at line 283: a torn block is
  discarded). `TornOnlyByUnpublished` is exactly what the check achieves.
- `frame_monitor.cpp:147`: a success that arrives between the extraction of a
  candidate and its callback does not cancel it (comments at lines 85 and 182).
  `SuccessWins` covers the candidates that still wait.
- `frame_monitor.cpp:92`: whole payloads are compared, so that a failed copy of a
  published frame with other bytes, when it comes after the success, waits and is
  forwarded (comment at line 182: a success always wins). `SuccessWins` says what it
  does beat: what waits when it comes, and byte-identical copies.
- `frame_monitor.h:63`: handlers "may be entered concurrently". If they were, a failed
  copy that comes between the two locks of `handle` would stay in the table
  and be forwarded behind the success. The run and two theorems assume one thread.
- `ssdv_receiver.cpp:499`: an identical retransmission of packet 0 opens a new image
  if the decoder has rejected the first copy, since the comparison at line 336 finds no
  packet (comment at line 329: otherwise the duplicate clears the accumulated image).
  `NewImageJustified` has rejected packets as its exception.

Errors that the code meets and goes on from, as the models do:

- `ssdv_receiver.cpp:421`: a frame that cannot be appended to the raw archive is only
  logged, and decoded all the same; what `QFile` buffers and cannot write at its
  close is not even logged. `FramesAccounted` counts such frames (`unsaved`).
- `ssdv_receiver.cpp:538`: an image that cannot be saved when a save is due is not
  shown either. On a disk that stays full the window shows nothing new;
  `PreviewCatchesUp` assumes that a save succeeds now and then.
- `main_window.cpp:949`: a stop that throws ends the switch without a look at the
  request that was kept for its end, and line 892 forgets it at the next one.
  `main_window.cpp:694`: the restart of a stalled card that is delivered during a
  switch asks for the old device, takes the place of the operator's request (line 876)
  and makes the switch's end go back. `ChoiceServed` has both as exceptions.
- `main_window.cpp:1068`: a request that was kept is posted at the end of the switch; a
  command that comes before it is delivered begins another switch, at whose end the
  older request is served. The model has this order; `ChoiceServed` counts the posted
  request as the one asked for last, which it is when it is delivered.
- `suite_launcher.cpp:1013` and `:1260`: when the settings cannot be saved the array has
  been rewritten in the process all the same, and the chooser stays with the cards it
  had: a card may name another entry or one that is gone, and an entry has no card.
  `CardsTruthful` and `OthersKept` have the time until the next chooser as exception.
- `suite_launcher.cpp:541`: a marker that cannot be opened, or that does not begin with a
  number, counts as version 0, and the whole migration is played over what the
  operator chose since. `ChoicesKept` has this as its exception.
- `plutosdr_source/main.cpp:451` and `:506`: the result of writing the frequency is not
  looked at. `soapy_source/main.cpp:632` and `plutosdr_source/main.cpp:740`: the
  frequency is not initialised and selecting a source does not tune it (TODO at
  `soapy_source/main.cpp:34`), so that a source that is started first is tuned to whatever
  is there. `SourceInStep` has both as exceptions.
- `soapy_source/main.cpp:390` and `:423`: a device that throws is caught by nothing in
  the plug-in.
- `soapy_source/main.cpp:409`: stop closes the stream while the worker may still read
  from it. `SourceInStep` has this moment as its exception.

## 7. What is not modelled

Sample values, demodulation and error correction (`flowgraph.cpp`, the decoder
adapters, `third_party/`): signal processing without a protocol. The parsers
(`pmt_frame_decoder.cpp`, headers of SSDV packets): their verdicts are inputs of
the models. User interface, settings, translations, device lists, plots and packaging.
The waveIn source (Windows), whose buffers circulate between driver and reader,
has a state machine worth modelling and is next in the plan. Inside modelled
components these are left out: the statistics of the frame monitor, the status
text of every window, the recording menu, the nested event loop of the stall's
message box (`main_window.cpp:634`: it goes on with a `flowgraph_` that a switch may
have released), the fields of the reports; of the launcher the start of
TinyDoppler, the driver setup and more than one window of it; of the radio
sources what SDR++ itself does around a start, and their menus (the AGC box of a SoapySDR source that is stopped sets the gain
of a device that is not open, `soapy_source/main.cpp:523`), device lists and
gains.

## 8. How to run

```
tlc -workers 2 -config SsdvReceiver.cfg SsdvReceiver.tla
tlapm SsdvReceiverProofs.tla
```

and likewise for each run and each `*Proofs` module of `PROJECT.json`. The longest
run takes about three minutes.
