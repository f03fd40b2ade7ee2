----------------------------- MODULE SsdvSession -----------------------------
(***************************************************************************)
(* What the SSDV worker makes of the frames: which packets belong to one    *)
(* image, when a new image starts, and what reaches the disk.               *)
(*                                                                          *)
(* Source: libs/demod/ssdv_receiver.cpp, processFrame, savePacketBin,       *)
(* rebuildImage and clearState, called by workerLoop.  All of it runs on    *)
(* the worker thread; SsdvReceiver models the threads around it.  Frames    *)
(* that processFrame rejects before it looks at the image (wrong length,    *)
(* wrong virtual channel, implausible header) are left out.  The decoder is *)
(* third_party/ssdv_dslwp: which packets it rejects is a free choice.       *)
(***************************************************************************)
EXTENDS Integers, FiniteSets, FiniteSetsExt

CONSTANTS
    Images,    \* identities: image id, size, quality and spacecraft header
    LastId,    \* greatest packet id of an image
    Contents,  \* what a validated packet may hold
    MaxJump,   \* how far ahead an unverified packet id may be (64)
    MaxFrames, \* bound: frames processed
    MaxFaults  \* bound: refreshes or saves in which something fails

\* No image is open.
None == [none |-> TRUE]

ASSUME SessionAssumption ==
    /\ None \notin Images
    /\ LastId \in Nat /\ MaxJump \in Nat
    /\ MaxFrames \in Nat /\ MaxFaults \in Nat

Ids == 0 .. LastId

\* A packet passes the DSLWP check, the JAMX check, or neither.  Only a damaged
\* packet can have a wrong end-of-image flag.
Valid == {[image |-> i, id |-> n, data |-> d, crc |-> c, eoi |-> n = LastId] :
             i \in Images, n \in Ids, d \in Contents, c \in {"dslwp", "jamx"}}
Damaged == {[image |-> i, id |-> n, data |-> "damaged", crc |-> "none", eoi |-> e] :
             i \in Images, n \in Ids, e \in BOOLEAN}
Packet == Valid \cup Damaged

VARIABLES
    image,    \* the identity of the open image, None at first
    jamx,     \* jamx_mode_
    packets,  \* packets_: packet id -> packet
    bin,      \* bin_packets_: packet id -> packet
    crcFailed, \* crc_failed_packet_ids_
    complete, \* complete_
    binDirty, \* bin_dirty_
    lastSave, \* last_image_save_: "never", "recent" or "old"
    serial,   \* session_serial_, which names the files of the image
    dirty,    \* workerLoop: the image has changes that were not shown
    ending,   \* a clear or a stop was requested and not yet taken
    ended,    \* the worker has left its loop
    \* The disk: serial -> contents of the .bin and .jpg files
    binFile,
    jpgFile,
    \* Bounds and history
    seen,     \* frames processed
    faults    \* refreshes and saves in which something failed

session     == <<image, jamx, packets, bin, crcFailed, complete, serial>>
savedFiles  == <<binFile, jpgFile>>
sessionVars ==
    <<session, binDirty, lastSave, dirty, ending, ended, savedFiles, seen, faults>>

Packets == UNION {[D -> Packet] : D \in SUBSET Ids}
Serials == 1 .. MaxFrames

SessionTypeOK ==
    /\ image \in Images \cup {None}
    /\ jamx \in BOOLEAN
    /\ packets \in Packets /\ bin \in Packets
    /\ \A n \in DOMAIN packets : packets[n].id = n /\ packets[n].image = image
    /\ crcFailed \subseteq Ids
    /\ complete \in BOOLEAN /\ binDirty \in BOOLEAN
    /\ lastSave \in {"never", "recent", "old"}
    /\ serial \in 0 .. MaxFrames
    /\ dirty \in BOOLEAN /\ ending \in BOOLEAN /\ ended \in BOOLEAN
    /\ binFile \in [Serials -> Packets]
    /\ jpgFile \in [Serials -> Packets]
    /\ seen \in 0 .. MaxFrames
    /\ faults \in 0 .. MaxFaults

NoPackets == [n \in {} |-> None]

SessionInit ==
    /\ image = None /\ jamx = FALSE
    /\ packets = NoPackets /\ bin = NoPackets /\ crcFailed = {}
    /\ complete = FALSE /\ binDirty = FALSE
    /\ lastSave = "never" /\ serial = 0
    /\ dirty = FALSE /\ ending = FALSE /\ ended = FALSE
    /\ binFile = [s \in Serials |-> NoPackets]
    /\ jpgFile = [s \in Serials |-> NoPackets]
    /\ seen = 0 /\ faults = 0

WithPacket(f, p) == [n \in DOMAIN f \cup {p.id} |-> IF n = p.id THEN p ELSE f[n]]
Only(f, D) == [n \in D |-> f[n]]

-----------------------------------------------------------------------------
(***************************************************************************)
(* Files.                                                                   *)
(***************************************************************************)

\* The packet file after savePacketBin, which writes only what has changed.
BinFileAfter(written) ==
    IF binDirty /\ bin # NoPackets /\ written
    THEN [binFile EXCEPT ![serial] = bin] ELSE binFile

\* Fault: a packet file that could not be written is not tried again.
SavePacketBinOnce(written) ==
    binFile' = BinFileAfter(written) /\ binDirty' = FALSE

\* savePacketBin: the packets go to the file unless it is up to date.
SavePacketBin(written) ==
    /\ binFile' = BinFileAfter(written)
    /\ binDirty' = (binDirty /\ (bin = NoPackets \/ ~written))

\* A complete image is saved at once, others once an interval.
SaveNow(done, saved) == done \/ saved \in {"never", "old"}

\* rebuildImage with that outcome; saved is the last save it starts from.
Rebuild(o, saved, stopped) ==
    LET kept == Only(packets, o.kept)
        done == IF kept = packets THEN complete
                ELSE \E n \in DOMAIN kept : kept[n].eoi
        decoded == o.decoded /\ kept # NoPackets /\ stopped # "early"
        save == decoded /\ SaveNow(done, saved)
    IN  [done  |-> done,
         jpg   |-> IF save /\ o.jpgWritten
                   THEN [jpgFile EXCEPT ![serial] = kept] ELSE jpgFile,
         saved |-> IF save /\ o.jpgWritten THEN "recent" ELSE saved,
         shown |-> decoded /\ (save => o.jpgWritten) /\ stopped = "no"]

\* What may happen to the open image when it is rebuilt and saved: the packets
\* that the decoder accepts, when it starts again without those it rejected;
\* its result; and the results of writing the two files.
Outcome == [kept : SUBSET DOMAIN packets, decoded : BOOLEAN,
            binWritten : BOOLEAN, jpgWritten : BOOLEAN]

Success == [kept |-> DOMAIN packets, decoded |-> TRUE,
            binWritten |-> TRUE, jpgWritten |-> TRUE]

Happens(o) ==
    \/ o = Success /\ UNCHANGED faults
    \/ o # Success /\ faults < MaxFaults /\ faults' = faults + 1

-----------------------------------------------------------------------------
(***************************************************************************)
(* processFrame: is the packet taken, and does it start a new image?        *)
(***************************************************************************)

Verified(p) == p.crc # "none"

Has(p) == p.id \in DOMAIN packets
Duplicate(p) == Has(p) /\ packets[p.id] = p
ExistingFailed(p) == Has(p) /\ p.id \in crcFailed

\* A damaged packet only adds to an image that a validated one has opened.
Usable(p) ==
    \/ Verified(p)
    \/ /\ image = p.image
       /\ packets # NoPackets /\ ~Has(p)
             => p.id <= Max(DOMAIN packets) + MaxJump

\* The format of a damaged packet is taken to be the current one.
Mode(p) == p.crc = "jamx" \/ (~Verified(p) /\ jamx)

FormatChanged(p) == image # None /\ Verified(p) /\ Mode(p) # jamx

ReplacedFirst(p) ==
    /\ Verified(p) /\ p.id = 0
    /\ 0 \in DOMAIN packets /\ ~ExistingFailed(p)
    /\ packets[0] # p

\* Fault: every packet that comes late starts a new image.
RegressedOnAnyLatePacket(p) ==
    /\ Verified(p) /\ packets # NoPackets /\ ~ExistingFailed(p)
    /\ p.id < Max(DOMAIN packets)

\* A validated return to the first packet is a new pass over the image.
Regressed(p) ==
    /\ Verified(p) /\ packets # NoPackets /\ ~ExistingFailed(p)
    /\ p.id < Max(DOMAIN packets)
    /\ p.id = 0 \/ p.id = Min(DOMAIN packets)

SessionChanged(p) ==
    image # p.image \/ ReplacedFirst(p) \/ Regressed(p) \/ FormatChanged(p)

Ignored(p) == Duplicate(p) /\ ~complete

\* Fault: the last copy of a packet wins.
KeepsNothing(p) == FALSE

\* An unverified copy never replaces a packet that passed a check.
KeepsExisting(p) == Has(p) /\ ~ExistingFailed(p) /\ ~Verified(p)

\* Fault: the files of the replaced image are not written.
LeaveWithoutSaving(o) ==
    UNCHANGED <<savedFiles, lastSave>> /\ Happens(o)

\* The files of an image that is being replaced are brought up to date.
\* last_image_save_ is only reset for this: the next image goes on from it.
Leave(o) ==
    LET r == Rebuild(o, "never", "no") IN
    /\ Happens(o)
    /\ jpgFile' = r.jpg
    /\ binFile' = BinFileAfter(o.binWritten)
    /\ lastSave' = IF packets = NoPackets THEN lastSave ELSE r.saved

StartImage(p) ==
    /\ \E o \in Outcome : Leave(o)
    /\ image' = p.image
    /\ jamx' = Mode(p)
    /\ serial' = serial + 1
    /\ packets' = WithPacket(NoPackets, p)
    /\ bin' = WithPacket(NoPackets, p)
    /\ crcFailed' = {}
    /\ complete' = p.eoi

Mark(p) == IF Verified(p) THEN crcFailed \ {p.id} ELSE crcFailed \cup {p.id}

AddPacket(p) ==
    /\ ~KeepsExisting(p) /\ ~Duplicate(p)
    /\ packets' = WithPacket(packets, p)
    /\ bin' = WithPacket(bin, p)
    /\ crcFailed' = Mark(p)
    /\ complete' = (complete \/ p.eoi)
    /\ UNCHANGED <<image, jamx, serial, lastSave, savedFiles, faults>>

ProcessFrame(p) ==
    /\ ~ended
    /\ seen < MaxFrames
    /\ seen' = seen + 1
    /\ \/ /\ Usable(p) /\ ~Ignored(p)
          /\ \/ SessionChanged(p) /\ StartImage(p)
             \/ ~SessionChanged(p) /\ AddPacket(p)
          /\ binDirty' = TRUE
          /\ dirty' = TRUE
       \/ /\ \/ ~Usable(p) \/ Ignored(p)
             \/ ~SessionChanged(p) /\ (KeepsExisting(p) \/ Duplicate(p))
          /\ UNCHANGED <<session, binDirty, lastSave, dirty, savedFiles, faults>>
    /\ UNCHANGED <<ending, ended>>

-----------------------------------------------------------------------------
(***************************************************************************)
(* workerLoop: refreshes, clears and the end.                               *)
(***************************************************************************)

\* A refresh of the preview.  A clear or a stop that comes during it makes it
\* give up, before the file is saved or after.
Refresh ==
    /\ dirty /\ ~ended
    /\ \E o \in Outcome,
          stopped \in IF ending THEN {"early"} ELSE {"no", "early", "late"} :
         LET r == Rebuild(o, lastSave, stopped) IN
         /\ ending => o.kept = DOMAIN packets
         /\ Happens(o)
         /\ SavePacketBin(o.binWritten)
         /\ packets' = Only(packets, o.kept)
         /\ crcFailed' = crcFailed \cap o.kept
         /\ complete' = r.done
         /\ jpgFile' = r.jpg
         /\ lastSave' = r.saved
         /\ dirty' = ~r.shown
         /\ ending' = (ending \/ stopped # "no")
    /\ UNCHANGED <<image, jamx, bin, serial, ended, seen>>

ClearState ==
    /\ image' = None /\ jamx' = FALSE
    /\ packets' = NoPackets /\ bin' = NoPackets /\ crcFailed' = {}
    /\ complete' = FALSE /\ lastSave' = "never"

\* The operator's clear: the packets are archived, the image is not.
ClearSession ==
    /\ ~ended
    /\ \E o \in {p \in Outcome : p = [Success EXCEPT !.binWritten = p.binWritten]} :
         Happens(o) /\ binFile' = BinFileAfter(o.binWritten)
    /\ ClearState
    /\ binDirty' = FALSE /\ dirty' = FALSE /\ ending' = FALSE
    /\ UNCHANGED <<serial, ended, jpgFile, seen>>

\* The stop branch, after the frames that were still queued: a dirty image is
\* rebuilt and saved, whatever the interval.
Finish ==
    /\ ~ended
    /\ ended' = TRUE
    /\ \E o \in Outcome :
         LET r == Rebuild(o, "never", "no") IN
         /\ ~dirty => o.kept = DOMAIN packets
         /\ Happens(o)
         /\ SavePacketBin(o.binWritten)
         /\ packets' = Only(packets, o.kept)
         /\ crcFailed' = crcFailed \cap o.kept
         /\ IF dirty
            THEN /\ complete' = r.done /\ jpgFile' = r.jpg
                 /\ lastSave' = r.saved
            ELSE UNCHANGED <<complete, jpgFile, lastSave>>
    /\ UNCHANGED <<image, jamx, bin, serial, dirty, ending, seen>>

\* kImageSaveInterval passes.
Elapse ==
    /\ lastSave = "recent" /\ ~ended
    /\ lastSave' = "old"
    /\ UNCHANGED <<session, binDirty, dirty, ending, ended, savedFiles, seen, faults>>

Ended == ended /\ UNCHANGED sessionVars

SessionNext ==
    \/ \E p \in Packet : ProcessFrame(p)
    \/ Refresh \/ ClearSession \/ Finish \/ Elapse \/ Ended

SessionSpec == SessionInit /\ [][SessionNext]_sessionVars

-----------------------------------------------------------------------------
(***************************************************************************)
(* Properties.                                                              *)
(***************************************************************************)

NewImage == serial' # serial

\* A packet that passed a check is not replaced by one that passed none, as
\* long as the image is open and the decoder has not thrown it out.
VerifiedStays ==
    [][~NewImage =>
         \A n \in DOMAIN packets \cap DOMAIN packets' :
             Verified(packets[n]) => Verified(packets'[n])]_sessionVars

\* Damaged data never opens an image, and never ends one.
OpenedByVerified == \A n \in DOMAIN packets' : Verified(packets'[n])

\* A late packet does not split an image: in one image and format, a new pass
\* starts with its first packet.
LatePacketJoins ==
    image' = image /\ jamx' = jamx =>
        \A n \in DOMAIN packets' : n = 0 \/ n = Min(DOMAIN packets)

\* Selected for the image, and then thrown out of it by the decoder.
Rejected(n) == n \in DOMAIN bin \ DOMAIN packets

\* A packet that was selected for an incomplete image and is sent again as it
\* was does not split the image, unless the decoder has rejected it: of such a
\* packet processFrame no longer knows that it had it.
RetransmissionIgnored ==
    image' = image /\ ~complete =>
        \A n \in DOMAIN packets' \cap DOMAIN bin :
            packets'[n] = bin[n] => Rejected(n)

\* Reception splits into images where a new one begins: never at damaged data,
\* never at a packet that is late, and at a repeated one only when the image
\* was complete or the decoder had rejected the packet.
NewImageJustified ==
    [][NewImage =>
         OpenedByVerified /\ LatePacketJoins /\ RetransmissionIgnored]_sessionVars

\* A packet file that is not marked dirty holds every packet selected, also
\* after writes that failed.
BinFileCurrent ==
    /\ SessionTypeOK
    /\ ~binDirty /\ bin # NoPackets => binFile[serial] = bin

\* An image that is replaced is on disk as it was, unless something fails just
\* then: earlier failures are made up for.
ReplacedImageSaved ==
    [][NewImage /\ packets # NoPackets /\ faults' = faults
         => binFile'[serial] = bin /\ jpgFile'[serial] = packets]_sessionVars
=============================================================================
