----------------------------- MODULE SdrPrograms -----------------------------
(***************************************************************************)
(* The SDR programs of the launcher: the list of programs the operator       *)
(* keeps and its chooser, and the preset that is written once into the      *)
(* settings of the SDR++ that comes with the suite before it is started.    *)
(*                                                                          *)
(* Source: apps/launcher/suite_launcher.cpp.  The settings keep the         *)
(* programs the operator added as a QSettings array: entries beyond its     *)
(* size stay there, unread; what could not be saved stays in the process.   *)
(* The chooser shows a card per program, made when it opens; one chooser is *)
(* open at a time.  SDR++ is started by the chooser, by launcher --sdrpp or *)
(* by hand, and writes its own files.                                       *)
(***************************************************************************)
EXTENDS Integers, SequencesExt, FiniteSets

CONSTANTS
    Names,   \* names of programs
    Bundled, \* the name of the bundled SDR++, as long as it is not edited
    MaxKept  \* bound: programs the operator added

\* An entry that was never written reads as one without a name.
NoName == ""

ASSUME SdrAssumption ==
    Bundled \in Names /\ NoName \notin Names /\ MaxKept \in Nat

SdrLaunchers == {"chooser", "command"}
Files == {"radio", "bridge", "config"}
Preset == 4

VARIABLES
    \* The list
    stored,  \* sdr/customPrograms: the names in the array
    size,    \* and how many of them count
    name,    \* sdr/programOverrides: the name of the bundled SDR++
    cards,   \* the cards of the added programs, NoCards if it is closed
    stale,   \* history: the cards are older than an array that was not saved
    misled,  \* history: such a card was edited
    \* The preset
    file,    \* SDR++'s settings: "old", "preset", or "chosen" since
    center,  \* centerTuning in config.json
    marker,  \* asrtu-preset.version, 0 if there is none
    misread, \* history: the launcher at the files could not read the marker
    start,   \* how far a launcher is with starting SDR++
    sdrpp,   \* SDR++: NotRunning, or the files that were old as it started
    overlap  \* history: SDR++ or two launchers were at the files at once

list == <<stored, size, name, cards, stale, misled>>
preset == <<file, center, marker, misread, start, sdrpp, overlap>>
sdrVars == <<list, preset>>

NoCards == {[name |-> Bundled, index |-> 0]}
NotRunning == {"none"}
Running == sdrpp # NotRunning
Old == {f \in Files : file[f] = "old"}
Idle == [at |-> "idle", config |-> "none", center |-> FALSE]

Kept == SubSeq(stored, 1, size)
KeptNames == ToSet(Kept)

SdrTypeOK ==
    /\ stored \in BoundedSeq(Names \cup {NoName}, MaxKept) /\ size \in 0 .. Len(stored)
    /\ name \in Names /\ stale \in BOOLEAN /\ misled \in BOOLEAN
    /\ file \in [Files -> {"old", "preset", "chosen"}]
    /\ center \in BOOLEAN /\ overlap \in BOOLEAN /\ misread \in BOOLEAN
    /\ marker \in {0, Preset - 1, Preset}

\* An older preset had been applied, or none.
SdrInit ==
    /\ stored = <<>> /\ size = 0 /\ name = Bundled /\ cards = NoCards
    /\ stale = FALSE /\ misled = FALSE /\ misread = FALSE
    /\ marker \in {0, Preset - 1}
    /\ file = [f \in Files |-> IF marker = 0 THEN "old" ELSE "preset"]
    /\ center \in BOOLEAN
    /\ start = [l \in SdrLaunchers |-> Idle]
    /\ sdrpp = NotRunning /\ overlap = FALSE

-----------------------------------------------------------------------------
(***************************************************************************)
(* The chooser.                                                             *)
(***************************************************************************)

\* availableSdrPrograms: a card remembers its entry's index.
Cards(names) ==
    {[name |-> names[i], index |-> i] :
        i \in {j \in 1 .. Len(names) : names[j] # NoName}}

\* While SDR++ is started the chooser does nothing else.
Open == cards # NoCards /\ start["chooser"] = Idle

ShowChooser ==
    /\ cards = NoCards
    /\ cards' = Cards(Kept) /\ stale' = FALSE
    /\ UNCHANGED <<stored, size, name, misled, preset>>

CloseChooser ==
    /\ Open
    /\ cards' = NoCards /\ stale' = FALSE
    /\ UNCHANGED <<stored, size, name, misled, preset>>

\* The array is in the settings already when they are synced: the chooser is
\* shown anew, or a failure is reported and the old cards stay.
Synced ==
    \/ cards' = Cards(Kept') /\ stale' = FALSE
    \/ stale' = TRUE /\ UNCHANGED cards

\* editSdrProgramDialog: no other program has the name.
FreeNames(index) ==
    Names \ ({Kept[i] : i \in (1 .. Len(Kept)) \ {index}} \cup {name})

Add ==
    /\ Open /\ size < MaxKept
    /\ \E n \in FreeNames(0) :
          /\ stored' = IF size < Len(stored)
                       THEN [stored EXCEPT ![size + 1] = n]
                       ELSE Append(stored, n)
          /\ size' = size + 1
          /\ \/ cards' = cards \cup {[name |-> n, index |-> size + 1]}
                /\ UNCHANGED stale
             \/ stale' = TRUE /\ UNCHANGED cards
    /\ UNCHANGED <<name, misled, preset>>

\* QSettings::beginWriteArray without a size, and endArray: the array ends with
\* the entry that was written, wherever its card says.
Edit(card) ==
    /\ \E n \in FreeNames(card.index) :
          stored' = [i \in (DOMAIN stored) \cup (1 .. card.index) |->
                        IF i = card.index THEN n
                        ELSE IF i \in DOMAIN stored THEN stored[i] ELSE NoName]
    /\ size' = card.index
    /\ Synced
    /\ misled' = (misled \/ stale)
    /\ UNCHANGED <<name, preset>>

EditBundled ==
    /\ Open
    /\ name' \in Names \ KeptNames
    /\ UNCHANGED <<stored, size, misled, preset>>
    /\ Synced

\* What the loop retains of the list: the entries that have another name.
Retained(names, own) ==
    LET upTo[i \in 0 .. Len(names)] ==
            IF i = 0 THEN <<>>
            ELSE IF names[i] = own THEN upTo[i - 1]
            ELSE Append(upTo[i - 1], names[i])
    IN upTo[Len(names)]

\* Fault: the other cards stay.
DeleteKeepsCards(card) ==
    /\ stored' = Retained(Kept, card.name)
    /\ size' = Len(stored')
    /\ cards' = cards \ {card}
    /\ UNCHANGED <<name, stale, misled, preset>>

\* Fault: the entry is taken out of the array, the rest is not renumbered.
DeleteLast(card) ==
    /\ stored' = SubSeq(stored, 1, card.index - 1)
    /\ size' = Len(stored')
    /\ Synced
    /\ UNCHANGED <<name, misled, preset>>

\* The array is written again without the entries of that name.
Delete(card) ==
    /\ stored' = Retained(Kept, card.name)
    /\ size' = Len(stored')
    /\ Synced
    /\ UNCHANGED <<name, misled, preset>>

-----------------------------------------------------------------------------
(***************************************************************************)
(* configureSdrppPreset and startSdrProgram.                                *)
(***************************************************************************)

Goes(l, at) == start' = [start EXCEPT ![l].at = at]
Forgets(l, at) == start' = [start EXCEPT ![l] = [Idle EXCEPT !.at = at]]
Stops(l) == start' = [start EXCEPT ![l] = Idle]

\* Another launcher, or SDR++, works on the same files.
Interferes(l, running) ==
    overlap' = (overlap \/ running
                \/ \E k \in SdrLaunchers \ {l} : start[k] # Idle)

\* startSdrProgram.  SDR++ that runs is not started again.
BeginStart(l) ==
    /\ start[l] = Idle
    /\ l = "chooser" => cards # NoCards
    /\ ~Running
    /\ Goes(l, "read")
    /\ Interferes(l, FALSE)
    /\ UNCHANGED <<list, file, center, marker, misread, sdrpp>>

\* readJsonObject of the three files.  Without the plug-in there is no preset;
\* a file that cannot be read or is no object ends the start.
Read(l) ==
    /\ start[l].at = "read"
    /\ \/ start' = [start EXCEPT ![l] = [at |-> "marker", center |-> center,
                                         config |-> file["config"]]]
       \/ Goes(l, "run")
    /\ UNCHANGED <<list, file, center, marker, misread, sdrpp, overlap>>

\* A marker that cannot be opened, or holds no number, counts as none.
ReadMarker(l) ==
    /\ start[l].at = "marker"
    /\ \E read \in {marker, 0} :
          /\ misread' = (read # marker)
          /\ IF read # 0 /\ start[l].center
             THEN Goes(l, "repair")
             ELSE Forgets(l, CASE read = 0 -> "radio"
                            [] read \in 1 .. Preset - 1 -> "version"
                            [] OTHER -> "run")
    /\ UNCHANGED <<list, file, center, marker, sdrpp, overlap>>

\* Fault: the settings that are repaired are those of the preset.
RepairAll(l) ==
    /\ start[l].at = "repair"
    /\ file' = [f \in Files |-> "preset"]
    /\ center' = FALSE
    /\ Forgets(l, IF marker < Preset THEN "version" ELSE "run")
    /\ UNCHANGED <<list, marker, misread, sdrpp, overlap>>

\* centerTuning is repaired in what was read.
Repair(l) ==
    /\ start[l].at = "repair"
    /\ file' = [file EXCEPT !["config"] = start[l].config]
    /\ center' = FALSE
    /\ Forgets(l, IF marker < Preset THEN "version" ELSE "run")
    /\ UNCHANGED <<list, marker, misread, sdrpp, overlap>>

Migrate(l, f, next) ==
    /\ start[l].at = f
    /\ file' = [file EXCEPT ![f] = "preset"]
    /\ center' = (IF f = "config" THEN FALSE ELSE center)
    /\ Goes(l, next)
    /\ UNCHANGED <<list, marker, misread, sdrpp, overlap>>

\* Fault: the marker is written with the first of the files.
MigrateMarked(l) ==
    \/ /\ start[l].at = "radio"
       /\ file' = [file EXCEPT !["radio"] = "preset"]
       /\ marker' = Preset
       /\ Goes(l, "bridge")
       /\ UNCHANGED <<list, center, misread, sdrpp, overlap>>
    \/ Migrate(l, "bridge", "config")
    \/ Migrate(l, "config", "version")

\* The files one after the other, the marker last.
Migration(l) ==
    \/ Migrate(l, "radio", "bridge")
    \/ Migrate(l, "bridge", "config")
    \/ Migrate(l, "config", "version")

Mark(l) ==
    /\ start[l].at = "version"
    /\ marker' = Preset
    /\ Goes(l, "run")
    /\ UNCHANGED <<list, file, center, misread, sdrpp, overlap>>

\* startDetached.  The chooser is closed.
Run(l) ==
    /\ start[l].at = "run"
    /\ Stops(l)
    /\ sdrpp' = IF Running THEN sdrpp ELSE Old
    /\ cards' = IF l = "chooser" THEN NoCards ELSE cards
    /\ Interferes(l, Running)
    /\ UNCHANGED <<stored, size, name, stale, misled, file, center, marker,
                   misread>>

\* A read, a write or the start fails, or the launcher is killed.
Abandon(l) ==
    /\ start[l] # Idle
    /\ Stops(l)
    /\ cards' \in IF l = "chooser" THEN {cards, NoCards} ELSE {cards}
    /\ UNCHANGED <<stored, size, name, stale, misled, file, center, marker,
                   misread, sdrpp, overlap>>

-----------------------------------------------------------------------------
(***************************************************************************)
(* SDR++: it reads its files when it starts and saves them whole.           *)
(***************************************************************************)

StartedByHand ==
    /\ ~Running
    /\ sdrpp' = Old
    /\ overlap' = (overlap \/ \E l \in SdrLaunchers : start[l] # Idle)
    /\ UNCHANGED <<list, file, center, marker, misread, start>>

\* The operator changes a setting; centerTuning is one of them.
Chooses(f) ==
    /\ Running
    /\ file' = [file EXCEPT ![f] = IF f \in sdrpp THEN "old" ELSE "chosen"]
    /\ center' \in IF f = "config" THEN BOOLEAN ELSE {center}
    /\ UNCHANGED <<list, marker, misread, start, sdrpp, overlap>>

Quits ==
    /\ Running
    /\ sdrpp' = NotRunning
    /\ UNCHANGED <<list, file, center, marker, misread, start, overlap>>

-----------------------------------------------------------------------------

OnCard(Handler(_)) == Open /\ \E card \in cards : Handler(card)

Starting(l) ==
    BeginStart(l) \/ Read(l) \/ ReadMarker(l) \/ Repair(l) \/ Migration(l)
    \/ Mark(l) \/ Run(l) \/ Abandon(l)

SdrNext ==
    \/ ShowChooser \/ CloseChooser \/ Add \/ EditBundled
    \/ OnCard(Edit) \/ OnCard(Delete)
    \/ \E l \in SdrLaunchers : Starting(l)
    \/ StartedByHand \/ Quits \/ \E f \in Files : Chooses(f)

SdrSpec == SdrInit /\ [][SdrNext]_sdrVars

Symmetry == Permutations(Names \ {Bundled})

\* Bound: after a failed save SDR++ has not been started yet.
Apart ==
    stale \/ misled =>
        /\ \A l \in SdrLaunchers : start[l] = Idle
        /\ ~Running /\ ~overlap /\ marker # Preset

-----------------------------------------------------------------------------
(***************************************************************************)
(* Properties.                                                              *)
(***************************************************************************)

\* Whatever was added, edited and deleted before, an open chooser has one card
\* for each added program, and the entry at the card's index is that program's;
\* but for the cards that stay when the settings could not be saved, which
\* showSdrChooser does not make anew.  No two programs have a name in common,
\* until one of those cards has been edited.
CardsTruthful ==
    /\ SdrTypeOK
    /\ cards # NoCards /\ ~stale => cards = Cards(Kept)
    /\ ~misled => IsInjective(Kept) /\ name \notin KeptNames

\* A deletion takes away the program of its own card, an edit the program of its
\* own and at most those that were added after it (editSdrProgramDialog gives
\* the array no size), and nothing else takes any; but for the cards that stayed
\* after a failed save.
OthersKept ==
    [][LET gone == KeptNames \ KeptNames'
       IN \/ gone = {} \/ stale
          \/ \E card \in cards : Delete(card) /\ gone = {card.name}
          \/ \E card \in cards :
                /\ Edit(card) /\ stored[card.index] = card.name
                /\ gone \subseteq ToSet(SubSeq(stored, card.index, size))]_sdrVars

\* Whatever writes failed and wherever a launcher was killed, the marker says
\* that all the files have had the preset; but for files that SDR++ or another
\* launcher rewrote while the preset was being written (configureSdrppPreset:
\* the marker is committed last).
PresetComplete ==
    marker = Preset /\ ~overlap => \A f \in Files : file[f] # "old"

\* What the operator chose after the preset outlives every later start, but
\* for centerTuning (launcher_sdr_test: a later operator choice must survive),
\* unless the launcher that starts could not read the marker.
ChoicesKept ==
    [][marker # 0 /\ ~overlap /\ ~misread =>
          \A f \in Files : file[f] = "chosen" => file'[f] = "chosen"]_sdrVars
=============================================================================
