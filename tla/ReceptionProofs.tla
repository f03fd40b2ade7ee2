--------------------------- MODULE ReceptionProofs ---------------------------
(***************************************************************************)
(* Proofs about what a received frame meets in the receiver program after   *)
(* the decoders: the arbitration (FrameMonitor), the session that makes     *)
(* images of packets (SsdvSession), their window (SsdvGallery) and the      *)
(* recorder of what was received (WavRecorder).                             *)
(***************************************************************************)
EXTENDS FrameMonitor, SsdvSession, SsdvGallery, WavRecorder,
        SequenceTheorems, FiniteSetTheorems, WellFoundedInduction, TLAPS

(***************************************************************************)
(* Facts about naturals, finite sets and sequences.                         *)
(***************************************************************************)

(* Every set of naturals has a least element.                              *)
LEMMA LeastNat ==
    ASSUME NEW T \in SUBSET Nat, T # {}
    PROVE  \E x \in T : \A y \in T : x <= y
<1>1. PICK x \in T : \A y \in T : ~(<<y, x>> \in OpToRel(<, Nat))
  BY NatLessThanWellFounded, WFMin
<1>2. ASSUME NEW y \in T PROVE ~(y < x)
  <2>1. <<y, x>> \notin OpToRel(<, Nat) /\ y \in Nat /\ x \in Nat
    BY <1>1
  <2> QED
    BY <2>1 DEF OpToRel
<1> QED
  BY <1>2

LEMMA SetToSeqFacts ==
    ASSUME NEW S, IsFiniteSet(S)
    PROVE  /\ SetToSeq(S) \in Seq(S)
           /\ \A i \in 1 .. Len(SetToSeq(S)) : SetToSeq(S)[i] \in S
<1>1. Cardinality(S) \in Nat /\ Bijection(1 .. Cardinality(S), S) # {}
  BY FS_CardinalityType DEF ExistsBijection
<1>2. \E f \in [1 .. Cardinality(S) -> S] : IsInjective(f)
  BY <1>1 DEF Bijection, Injection
<1>3. SetToSeq(S) \in [1 .. Cardinality(S) -> S]
  BY <1>2 DEF SetToSeq
<1> QED
  BY <1>1, <1>3

(* A part of 1 .. n that holds everything below its elements is an initial  *)
(* segment.                                                                *)
LEMMA InitialSegment ==
    ASSUME NEW n \in Nat, NEW K \in SUBSET (1 .. n),
           \A i \in K : 1 .. i \subseteq K
    PROVE  /\ Cardinality(K) \in 0 .. n
           /\ K = 1 .. Cardinality(K)
<1>1. PICK m \in 0 .. n : K = 1 .. m
  <2> DEFINE out == (1 .. n + 1) \ K
  <2>1. out \in SUBSET Nat /\ n + 1 \in out
    OBVIOUS
  <2>2. PICK x \in out : \A y \in out : x <= y
    BY <2>1, LeastNat
  <2>3. \A i \in 1 .. n : i < x => i \in K
    BY <2>2
  <2>4. \A i \in K : i < x
    <3> SUFFICES ASSUME NEW i \in K, x <= i PROVE FALSE
      BY <2>2
    <3>1. x \in 1 .. i
      BY <2>2
    <3> QED
      BY <2>2, <3>1
  <2>5. x - 1 \in 0 .. n /\ K = 1 .. x - 1
    <3>1. x \in 1 .. n + 1
      BY <2>2
    <3>2. \A i \in K : i \in 1 .. n /\ i < x
      BY <2>4
    <3>3. \A i \in 1 .. x - 1 : i \in K
      BY <2>3, <3>1
    <3>4. K \subseteq 1 .. x - 1
      BY <3>1, <3>2
    <3>5. 1 .. x - 1 \subseteq K
      BY <3>3
    <3>6. K = 1 .. x - 1
      BY <3>4, <3>5
    <3>7. x - 1 \in 0 .. n
      BY <3>1
    <3> QED
      BY <3>6, <3>7
  <2> HIDE DEF out
  <2>6. PICK m : m = x - 1
    OBVIOUS
  <2>7. m \in 0 .. n /\ K = 1 .. m
    BY <2>5, <2>6
  <2> QED
    BY <2>7
<1>2. Cardinality(1 .. m) = m
  BY FS_Interval
<1> QED
  BY <1>1, <1>2

LEMMA TailFacts ==
    ASSUME NEW S, NEW s \in Seq(S), s # <<>>
    PROVE  /\ Tail(s) \in Seq(S) /\ Len(Tail(s)) = Len(s) - 1 /\ Len(s) \in Nat \ {0}
           /\ Head(s) \in S /\ Head(s) = s[1]
           /\ \A i \in 1 .. Len(s) - 1 : Tail(s)[i] = s[i + 1]
<1>1. Len(s) \in Nat \ {0}
  BY EmptySeq
<1> QED
  BY <1>1, HeadTailProperties

LEMMA AppendFacts ==
    ASSUME NEW S, NEW s \in Seq(S), NEW e \in S
    PROVE  /\ Append(s, e) \in Seq(S) /\ Len(s) \in Nat
           /\ Len(Append(s, e)) = Len(s) + 1
           /\ Append(s, e)[Len(s) + 1] = e
           /\ \A i \in 1 .. Len(s) : Append(s, e)[i] = s[i]
  BY AppendProperties

LEMMA PrefixFacts ==
    ASSUME NEW S, NEW s \in Seq(S), NEW c \in 0 .. Len(s)
    PROVE  /\ SubSeq(s, 1, c) \in Seq(S)
           /\ Len(SubSeq(s, 1, c)) = c
           /\ \A i \in 1 .. c : SubSeq(s, 1, c)[i] = s[i]
<1>1. PICK n : n = Len(s)
  OBVIOUS
<1>2. n \in Nat /\ c \in 0 .. n
  BY <1>1
<1>3. \A i \in 1 .. c : s[i] \in S
  BY <1>1, <1>2
<1>4. /\ SubSeq(s, 1, c) \in Seq(S)
      /\ Len(SubSeq(s, 1, c)) = IF 1 <= c THEN c - 1 + 1 ELSE 0
      /\ \A i \in 1 .. c - 1 + 1 : SubSeq(s, 1, c)[i] = s[1 + i - 1]
  BY <1>2, <1>3, SubSeqProperties
<1>5. /\ (IF 1 <= c THEN c - 1 + 1 ELSE 0) = c
      /\ c - 1 + 1 = c
      /\ \A i \in 1 .. c : 1 + i - 1 = i
  BY <1>2
<1> QED
  BY <1>4, <1>5

LEMMA SuffixFacts ==
    ASSUME NEW S, NEW s \in Seq(S), NEW c \in 0 .. Len(s)
    PROVE  /\ SubSeq(s, c + 1, Len(s)) \in Seq(S)
           /\ Len(SubSeq(s, c + 1, Len(s))) = Len(s) - c
           /\ \A i \in 1 .. Len(s) - c : SubSeq(s, c + 1, Len(s))[i] = s[c + i]
<1>1. PICK n : n = Len(s)
  OBVIOUS
<1>2. n \in Nat /\ c \in 0 .. n
  BY <1>1
<1>3. \A i \in c + 1 .. n : s[i] \in S
  BY <1>1, <1>2
<1>4. /\ SubSeq(s, c + 1, n) \in Seq(S)
      /\ Len(SubSeq(s, c + 1, n)) = IF c + 1 <= n THEN n - (c + 1) + 1 ELSE 0
      /\ \A i \in 1 .. n - (c + 1) + 1 : SubSeq(s, c + 1, n)[i] = s[(c + 1) + i - 1]
  BY <1>2, <1>3, SubSeqProperties
<1>5. /\ (IF c + 1 <= n THEN n - (c + 1) + 1 ELSE 0) = n - c
      /\ n - (c + 1) + 1 = n - c
      /\ \A i \in 1 .. n - c : (c + 1) + i - 1 = c + i
  BY <1>2
<1> QED
  BY <1>1, <1>4, <1>5

-----------------------------------------------------------------------------

(***************************************************************************)
(* The SSDV session.                                                        *)
(***************************************************************************)

(* Reception of an image: what its tables and its packet file agree on.    *)
(* Each packet of the image is also selected for the packet file, and only  *)
(* packets that passed no check are marked as failed.                       *)
SessionInv ==
    /\ SessionTypeOK
    /\ serial <= seen
    /\ bin # NoPackets \/ image # None => serial \in Serials
    /\ DOMAIN packets \subseteq DOMAIN bin
    /\ \A n \in DOMAIN packets : bin[n] = packets[n]
    /\ \A n \in DOMAIN packets \cap crcFailed : ~Verified(packets[n])
    /\ ~binDirty /\ bin # NoPackets => binFile[serial] = bin

LEMMA EmptyTable ==
    /\ NoPackets \in Packets /\ DOMAIN NoPackets = {}
    /\ \A f \in Packets : DOMAIN f = {} => f = NoPackets
<1>1. NoPackets \in [{} -> Packet] /\ DOMAIN NoPackets = {}
  BY DEF NoPackets
<1>2. ASSUME NEW f \in Packets, DOMAIN f = {} PROVE f = NoPackets
  BY <1>2 DEF Packets, NoPackets
<1> QED
  BY <1>1, <1>2 DEF Packets

LEMMA PacketFields ==
    ASSUME NEW p \in Packet
    PROVE  p.image \in Images /\ p.id \in Ids /\ p.eoi \in BOOLEAN
<1>1. CASE p \in Valid
  <2>1. PICK i \in Images, n \in Ids, d \in Contents, c \in {"dslwp", "jamx"} :
          p = [image |-> i, id |-> n, data |-> d, crc |-> c, eoi |-> n = LastId]
    BY <1>1 DEF Valid
  <2>2. (n = LastId) \in BOOLEAN
    OBVIOUS
  <2> QED
    BY <2>1, <2>2
<1>2. CASE p \in Damaged
  BY <1>2 DEF Damaged
<1> QED
  BY <1>1, <1>2 DEF Packet

LEMMA TableWith ==
    ASSUME NEW f \in Packets, NEW p \in Packet
    PROVE  /\ WithPacket(f, p) \in Packets
           /\ DOMAIN WithPacket(f, p) = DOMAIN f \cup {p.id}
           /\ WithPacket(f, p)[p.id] = p /\ p.id \in Ids
           /\ \A n \in DOMAIN f : n # p.id => WithPacket(f, p)[n] = f[n]
           /\ WithPacket(f, p) # NoPackets
<1>1. p.id \in Ids
  BY PacketFields
<1>2. PICK D \in SUBSET Ids : f \in [D -> Packet]
  BY DEF Packets
<1>3. WithPacket(f, p) \in [D \cup {p.id} -> Packet]
  BY <1>2 DEF WithPacket
<1>4. /\ DOMAIN WithPacket(f, p) = DOMAIN f \cup {p.id}
      /\ WithPacket(f, p)[p.id] = p
      /\ \A n \in DOMAIN f : n # p.id => WithPacket(f, p)[n] = f[n]
  BY DEF WithPacket
<1>5. WithPacket(f, p) # NoPackets
  BY <1>4, EmptyTable
<1> QED
  BY <1>1, <1>2, <1>3, <1>4, <1>5 DEF Packets

LEMMA TableOnly ==
    ASSUME NEW f \in Packets, NEW D \in SUBSET DOMAIN f
    PROVE  /\ Only(f, D) \in Packets /\ DOMAIN Only(f, D) = D
           /\ \A n \in D : Only(f, D)[n] = f[n]
           /\ D = DOMAIN f => Only(f, D) = f
<1>1. PICK E \in SUBSET Ids : f \in [E -> Packet]
  BY DEF Packets
<1>2. Only(f, D) \in [D -> Packet] /\ D \in SUBSET Ids
  BY <1>1 DEF Only
<1>3. D = DOMAIN f => Only(f, D) = f
  BY <1>1 DEF Only
<1> QED
  BY <1>2, <1>3 DEF Packets, Only

LEMMA FaultCount ==
    ASSUME SessionTypeOK, NEW o, Happens(o)
    PROVE  /\ faults' \in 0 .. MaxFaults
           /\ faults' = faults => o = Success
  BY SessionAssumption DEF SessionTypeOK, Happens

(* The packet file after a save, whether it was written or not.            *)
LEMMA BinFileFacts ==
    ASSUME SessionInv, NEW w \in BOOLEAN
    PROVE  /\ BinFileAfter(w) \in [Serials -> Packets]
           /\ binDirty /\ bin # NoPackets /\ w => BinFileAfter(w)[serial] = bin
           /\ ~binDirty \/ bin = NoPackets \/ ~w => BinFileAfter(w) = binFile
<1>1. binFile \in [Serials -> Packets] /\ bin \in Packets
      /\ (bin # NoPackets => serial \in Serials)
  BY DEF SessionInv, SessionTypeOK
<1>2. CASE binDirty /\ bin # NoPackets /\ w
  <2>1. BinFileAfter(w) = [binFile EXCEPT ![serial] = bin]
    BY <1>2 DEF BinFileAfter
  <2> QED
    BY <1>1, <1>2, <2>1
<1>3. CASE ~(binDirty /\ bin # NoPackets /\ w)
  BY <1>1, <1>3 DEF BinFileAfter
<1> QED
  BY <1>2, <1>3

LEMMA RebuildFacts ==
    ASSUME SessionInv, NEW o \in Outcome, NEW stopped,
           NEW saved \in {"never", "recent", "old"}
    PROVE  LET r == Rebuild(o, saved, stopped)
           IN  /\ r.done \in BOOLEAN /\ r.jpg \in [Serials -> Packets]
               /\ r.saved \in {"never", "recent", "old"} /\ r.shown \in BOOLEAN
<1> DEFINE kept == Only(packets, o.kept)
           done == IF kept = packets THEN complete
                   ELSE \E n \in DOMAIN kept : kept[n].eoi
           decoded == o.decoded /\ kept # NoPackets /\ stopped # "early"
           save == decoded /\ SaveNow(done, saved)
<1>1. o.kept \in SUBSET DOMAIN packets /\ o.jpgWritten \in BOOLEAN /\ o.decoded \in BOOLEAN
  BY DEF Outcome
<1>2. kept \in Packets
  BY <1>1, TableOnly DEF SessionInv, SessionTypeOK
<1>3. done \in BOOLEAN
  BY DEF SessionInv, SessionTypeOK
<1>4. jpgFile \in [Serials -> Packets]
  BY DEF SessionInv, SessionTypeOK
<1>5. Rebuild(o, saved, stopped) =
        [done  |-> done,
         jpg   |-> IF save /\ o.jpgWritten
                   THEN [jpgFile EXCEPT ![serial] = kept] ELSE jpgFile,
         saved |-> IF save /\ o.jpgWritten THEN "recent" ELSE saved,
         shown |-> decoded /\ (save => o.jpgWritten) /\ stopped = "no"]
  BY DEF Rebuild
<1>6. [jpgFile EXCEPT ![serial] = kept] \in [Serials -> Packets]
  BY <1>2, <1>4
<1>7. (decoded /\ (save => o.jpgWritten) /\ stopped = "no") \in BOOLEAN
  OBVIOUS
<1> HIDE DEF kept, done, decoded, save
<1>8. PICK r : r = Rebuild(o, saved, stopped)
  OBVIOUS
<1>9. /\ r.done = done
      /\ r.jpg = IF save /\ o.jpgWritten
                 THEN [jpgFile EXCEPT ![serial] = kept] ELSE jpgFile
      /\ r.saved = IF save /\ o.jpgWritten THEN "recent" ELSE saved
      /\ r.shown = (decoded /\ (save => o.jpgWritten) /\ stopped = "no")
  BY <1>5, <1>8
<1>10. r.jpg \in [Serials -> Packets] /\ r.saved \in {"never", "recent", "old"}
  BY <1>4, <1>6, <1>9
<1>11. r.done \in BOOLEAN /\ r.shown \in BOOLEAN
  BY <1>3, <1>7, <1>9
<1> QED
  BY <1>8, <1>10, <1>11

LEMMA SessionInitial == SessionInit => SessionInv
<1> SUFFICES ASSUME SessionInit PROVE SessionInv
  OBVIOUS
<1>1. NoPackets \in Packets /\ DOMAIN NoPackets = {}
  BY EmptyTable
<1>2. SessionTypeOK
  <2>1. [s \in Serials |-> NoPackets] \in [Serials -> Packets]
    BY <1>1
  <2>2. /\ binFile \in [Serials -> Packets] /\ jpgFile \in [Serials -> Packets]
        /\ packets \in Packets /\ bin \in Packets /\ DOMAIN packets = {}
    BY <1>1, <2>1 DEF SessionInit
  <2>3. serial \in 0 .. MaxFrames /\ seen \in 0 .. MaxFrames /\ faults \in 0 .. MaxFaults
    BY SessionAssumption DEF SessionInit
  <2>4. /\ image \in Images \cup {None} /\ crcFailed \subseteq Ids
        /\ lastSave \in {"never", "recent", "old"}
    BY DEF SessionInit
  <2>5. /\ jamx \in BOOLEAN /\ complete \in BOOLEAN /\ binDirty \in BOOLEAN
        /\ dirty \in BOOLEAN /\ ending \in BOOLEAN /\ ended \in BOOLEAN
    BY DEF SessionInit
  <2> QED
    BY <2>2, <2>3, <2>4, <2>5 DEF SessionTypeOK
<1> QED
  BY <1>1, <1>2 DEF SessionInit, SessionInv, SessionTypeOK

(* The conditions of processFrame under which a packet starts a new image. *)
LEMMA OnlyVerifiedOpens ==
    ASSUME NEW p, Usable(p), SessionChanged(p)
    PROVE  Verified(p)
  BY DEF Usable, SessionChanged, ReplacedFirst, Regressed, FormatChanged

LEMMA StartStep ==
    ASSUME SessionInv, NEW p \in Packet, StartImage(p), Usable(p), SessionChanged(p),
           seen < MaxFrames, seen' = seen + 1, binDirty' = TRUE, dirty' = TRUE,
           UNCHANGED <<ending, ended>>
    PROVE  SessionInv'
<1>1. PICK o \in Outcome : Leave(o)
  BY DEF StartImage
<1>2. PICK t : t = WithPacket(NoPackets, p)
  OBVIOUS
<1>3. /\ t \in Packets /\ DOMAIN t = {p.id} /\ t[p.id] = p /\ p.id \in Ids
      /\ t # NoPackets
  <2>1. NoPackets \in Packets /\ DOMAIN NoPackets = {}
    BY EmptyTable
  <2> QED
    BY <1>2, <2>1, TableWith, ZenonT(40)
<1>4. /\ packets' = t /\ bin' = t /\ crcFailed' = {} /\ serial' = serial + 1
      /\ image' = p.image /\ jamx' = Mode(p) /\ complete' = p.eoi
  BY <1>2 DEF StartImage
<1>5. /\ faults' \in 0 .. MaxFaults
      /\ binFile' \in [Serials -> Packets] /\ jpgFile' \in [Serials -> Packets]
      /\ lastSave' \in {"never", "recent", "old"}
  <2>1. o.binWritten \in BOOLEAN
    BY DEF Outcome
  <2>2. PICK r : r = Rebuild(o, "never", "no")
    OBVIOUS
  <2>3. r.jpg \in [Serials -> Packets] /\ r.saved \in {"never", "recent", "old"}
    BY <2>2, RebuildFacts
  <2>4. /\ jpgFile' = r.jpg /\ binFile' = BinFileAfter(o.binWritten) /\ Happens(o)
        /\ lastSave' = IF packets = NoPackets THEN lastSave ELSE r.saved
    BY <1>1, <2>2 DEF Leave
  <2>5. faults' \in 0 .. MaxFaults
    BY <2>4, FaultCount DEF SessionInv
  <2>6. binFile' \in [Serials -> Packets]
    BY <2>1, <2>4, BinFileFacts
  <2>7. lastSave' \in {"never", "recent", "old"}
    BY <2>3, <2>4 DEF SessionInv, SessionTypeOK
  <2> QED
    BY <2>3, <2>4, <2>5, <2>6, <2>7
<1>6. p.image \in Images /\ p.eoi \in BOOLEAN
  BY PacketFields
<1>7. Mode(p) \in BOOLEAN
  BY Zenon DEF Mode
<1>8. serial + 1 \in Serials /\ serial + 1 \in 0 .. MaxFrames /\ seen + 1 \in 0 .. MaxFrames
      /\ serial + 1 <= seen + 1
  <2>1. /\ serial \in 0 .. MaxFrames /\ seen \in 0 .. MaxFrames /\ serial <= seen
        /\ MaxFrames \in Nat
    BY SessionAssumption DEF SessionInv, SessionTypeOK
  <2> QED
    BY <2>1 DEF Serials
<1>9. SessionTypeOK'
  <2>1. \A n \in DOMAIN t : t[n].id = n /\ t[n].image = p.image
    BY <1>3
  <2> QED
    BY <1>3, <1>4, <1>5, <1>6, <1>7, <1>8, <2>1 DEF SessionInv, SessionTypeOK
<1> QED
  BY <1>3, <1>4, <1>8, <1>9 DEF SessionInv

LEMMA AddStep ==
    ASSUME SessionInv, NEW p \in Packet, AddPacket(p), ~SessionChanged(p),
           seen < MaxFrames, seen' = seen + 1, binDirty' = TRUE, dirty' = TRUE,
           UNCHANGED <<ending, ended>>
    PROVE  SessionInv'
<1>1. PICK t, b : t = WithPacket(packets, p) /\ b = WithPacket(bin, p)
  OBVIOUS
<1>2. /\ t \in Packets /\ DOMAIN t = DOMAIN packets \cup {p.id} /\ t[p.id] = p
      /\ \A n \in DOMAIN packets : n # p.id => t[n] = packets[n]
      /\ p.id \in Ids
  BY <1>1, TableWith DEF SessionInv, SessionTypeOK
<1>3. /\ b \in Packets /\ DOMAIN b = DOMAIN bin \cup {p.id} /\ b[p.id] = p
      /\ \A n \in DOMAIN bin : n # p.id => b[n] = bin[n]
  BY <1>1, TableWith DEF SessionInv, SessionTypeOK
<1>4. /\ packets' = t /\ bin' = b /\ crcFailed' = Mark(p)
      /\ complete' = (complete \/ p.eoi)
      /\ UNCHANGED <<image, jamx, serial, lastSave, binFile, jpgFile, faults>>
  BY <1>1 DEF AddPacket, savedFiles
<1>5. image = p.image
  BY DEF SessionChanged
<1>6. crcFailed' \subseteq Ids
  BY <1>2, <1>4 DEF Mark, SessionInv, SessionTypeOK
<1>7. \A n \in DOMAIN t \cap crcFailed' : ~Verified(t[n])
  BY <1>2, <1>4 DEF Mark, SessionInv
<1>8. serial \in Serials
  <2>1. image # None
    BY <1>5, SessionAssumption, PacketFields
  <2> QED
    BY <2>1 DEF SessionInv
<1>9. SessionTypeOK'
  <2>1. \A n \in DOMAIN t : t[n].id = n /\ t[n].image = image
    BY <1>2, <1>5 DEF SessionInv, SessionTypeOK
  <2>2. complete' \in BOOLEAN
    BY <1>4, Zenon
  <2>3. seen' \in 0 .. MaxFrames
    BY SessionAssumption DEF SessionInv, SessionTypeOK
  <2> QED
    BY <1>2, <1>3, <1>4, <1>6, <2>1, <2>2, <2>3 DEF SessionInv, SessionTypeOK
<1>10. serial' <= seen'
  BY <1>4 DEF SessionInv, SessionTypeOK
<1> QED
  BY <1>2, <1>3, <1>4, <1>7, <1>8, <1>9, <1>10 DEF SessionInv

LEMMA RefreshStep == ASSUME SessionInv, Refresh PROVE SessionInv'
<1>1. PICK o, stopped :
        /\ o \in Outcome /\ Happens(o) /\ SavePacketBin(o.binWritten)
        /\ packets' = Only(packets, o.kept) /\ crcFailed' = crcFailed \cap o.kept
        /\ complete' = Rebuild(o, lastSave, stopped).done
        /\ jpgFile' = Rebuild(o, lastSave, stopped).jpg
        /\ lastSave' = Rebuild(o, lastSave, stopped).saved
        /\ dirty' = ~Rebuild(o, lastSave, stopped).shown
        /\ ending' = (ending \/ stopped # "no")
  BY DEF Refresh
<1>2. UNCHANGED <<image, jamx, bin, serial, ended, seen>>
  BY DEF Refresh
<1>3. o.kept \in SUBSET DOMAIN packets /\ o.binWritten \in BOOLEAN
  BY <1>1 DEF Outcome
<1>4. PICK r : r = Rebuild(o, lastSave, stopped)
  OBVIOUS
<1>5. /\ r.done \in BOOLEAN /\ r.jpg \in [Serials -> Packets]
      /\ r.saved \in {"never", "recent", "old"} /\ r.shown \in BOOLEAN
  BY <1>1, <1>4, RebuildFacts DEF SessionInv, SessionTypeOK
<1>6. faults' \in 0 .. MaxFaults
  BY <1>1, FaultCount DEF SessionInv
<1>7. /\ packets' \in Packets /\ DOMAIN packets' = o.kept
      /\ \A n \in o.kept : packets'[n] = packets[n]
  BY <1>1, <1>3, TableOnly DEF SessionInv, SessionTypeOK
<1>8. /\ binFile' \in [Serials -> Packets] /\ binDirty' \in BOOLEAN
      /\ ~binDirty' /\ bin # NoPackets => binFile'[serial] = bin
  BY <1>1, <1>3, BinFileFacts DEF SavePacketBin, SessionInv, SessionTypeOK
<1>9. SessionTypeOK'
  <2>1. \A n \in DOMAIN packets' : packets'[n].id = n /\ packets'[n].image = image
    BY <1>3, <1>7 DEF SessionInv, SessionTypeOK
  <2>2. dirty' \in BOOLEAN /\ ending' \in BOOLEAN
    BY <1>1, <1>4, <1>5
  <2> QED
    BY <1>1, <1>2, <1>4, <1>5, <1>6, <1>7, <1>8, <2>1, <2>2
       DEF SessionInv, SessionTypeOK
<1> QED
  BY <1>1, <1>2, <1>3, <1>7, <1>8, <1>9 DEF SessionInv

LEMMA FinishSessionStep == ASSUME SessionInv, Finish PROVE SessionInv'
<1>1. PICK o \in Outcome :
        /\ Happens(o) /\ SavePacketBin(o.binWritten)
        /\ packets' = Only(packets, o.kept) /\ crcFailed' = crcFailed \cap o.kept
        /\ IF dirty
           THEN /\ complete' = Rebuild(o, "never", "no").done
                /\ jpgFile' = Rebuild(o, "never", "no").jpg
                /\ lastSave' = Rebuild(o, "never", "no").saved
           ELSE UNCHANGED <<complete, jpgFile, lastSave>>
  BY DEF Finish
<1>2. ended' = TRUE /\ UNCHANGED <<image, jamx, bin, serial, dirty, ending, seen>>
  BY DEF Finish
<1>3. o.kept \in SUBSET DOMAIN packets /\ o.binWritten \in BOOLEAN
  BY DEF Outcome
<1>4. PICK r : r = Rebuild(o, "never", "no")
  OBVIOUS
<1>5. /\ r.done \in BOOLEAN /\ r.jpg \in [Serials -> Packets]
      /\ r.saved \in {"never", "recent", "old"}
  BY <1>4, RebuildFacts
<1>6. faults' \in 0 .. MaxFaults
  BY <1>1, FaultCount DEF SessionInv
<1>7. /\ packets' \in Packets /\ DOMAIN packets' = o.kept
      /\ \A n \in o.kept : packets'[n] = packets[n]
  BY <1>1, <1>3, TableOnly DEF SessionInv, SessionTypeOK
<1>8. /\ binFile' \in [Serials -> Packets] /\ binDirty' \in BOOLEAN
      /\ ~binDirty' /\ bin # NoPackets => binFile'[serial] = bin
  BY <1>1, <1>3, BinFileFacts DEF SavePacketBin, SessionInv, SessionTypeOK
<1>9. /\ complete' \in BOOLEAN /\ jpgFile' \in [Serials -> Packets]
      /\ lastSave' \in {"never", "recent", "old"}
  BY <1>1, <1>4, <1>5 DEF SessionInv, SessionTypeOK
<1>10. SessionTypeOK'
  <2>1. \A n \in DOMAIN packets' : packets'[n].id = n /\ packets'[n].image = image
    BY <1>3, <1>7 DEF SessionInv, SessionTypeOK
  <2> QED
    BY <1>1, <1>2, <1>6, <1>7, <1>8, <1>9, <2>1 DEF SessionInv, SessionTypeOK
<1> QED
  BY <1>1, <1>2, <1>3, <1>7, <1>8, <1>10 DEF SessionInv

LEMMA ClearSessionStep == ASSUME SessionInv, ClearSession PROVE SessionInv'
<1>1. PICK o \in Outcome : Happens(o) /\ binFile' = BinFileAfter(o.binWritten)
  BY DEF ClearSession
<1>2. o.binWritten \in BOOLEAN
  BY DEF Outcome
<1>3. faults' \in 0 .. MaxFaults /\ binFile' \in [Serials -> Packets]
  BY <1>1, <1>2, FaultCount, BinFileFacts DEF SessionInv
<1>4. /\ image' = None /\ jamx' = FALSE /\ packets' = NoPackets /\ bin' = NoPackets
      /\ crcFailed' = {} /\ complete' = FALSE /\ lastSave' = "never"
      /\ binDirty' = FALSE /\ dirty' = FALSE /\ ending' = FALSE
      /\ UNCHANGED <<serial, ended, jpgFile, seen>>
  BY DEF ClearSession, ClearState
<1>5. NoPackets \in Packets /\ DOMAIN NoPackets = {}
  BY EmptyTable
<1>6. SessionTypeOK'
  BY <1>3, <1>4, <1>5 DEF SessionInv, SessionTypeOK
<1> QED
  BY <1>4, <1>5, <1>6 DEF SessionInv

LEMMA ProcessStep ==
    ASSUME SessionInv, NEW p \in Packet, ProcessFrame(p) PROVE SessionInv'
<1>1. /\ seen < MaxFrames /\ seen' = seen + 1 /\ UNCHANGED <<ending, ended>>
  BY DEF ProcessFrame
<1>2. CASE /\ Usable(p) /\ SessionChanged(p) /\ StartImage(p)
           /\ binDirty' = TRUE /\ dirty' = TRUE
  BY <1>1, <1>2, StartStep
<1>3. CASE /\ ~SessionChanged(p) /\ AddPacket(p)
           /\ binDirty' = TRUE /\ dirty' = TRUE
  BY <1>1, <1>3, AddStep
<1>4. CASE UNCHANGED <<session, binDirty, lastSave, dirty, savedFiles, faults>>
  <2>1. UNCHANGED <<image, jamx, packets, bin, crcFailed, complete, serial, binDirty,
                    lastSave, dirty, binFile, jpgFile, faults>>
    BY <1>4 DEF session, savedFiles
  <2>2. /\ seen \in 0 .. MaxFrames /\ serial \in 0 .. MaxFrames /\ serial <= seen
        /\ MaxFrames \in Nat
    BY SessionAssumption DEF SessionInv, SessionTypeOK
  <2>3. seen' \in 0 .. MaxFrames /\ serial' <= seen'
    BY <1>1, <2>1, <2>2
  <2>4. SessionTypeOK'
    BY <1>1, <2>1, <2>3 DEF SessionInv, SessionTypeOK
  <2> QED
    BY <2>1, <2>3, <2>4 DEF SessionInv
<1> QED
  BY <1>2, <1>3, <1>4 DEF ProcessFrame

LEMMA SessionStep == SessionInv /\ [SessionNext]_sessionVars => SessionInv'
<1> SUFFICES ASSUME SessionInv, [SessionNext]_sessionVars PROVE SessionInv'
  OBVIOUS
<1>1. CASE \E p \in Packet : ProcessFrame(p)
  BY <1>1, ProcessStep
<1>2. CASE Refresh
  BY <1>2, RefreshStep
<1>3. CASE ClearSession
  BY <1>3, ClearSessionStep
<1>4. CASE Finish
  BY <1>4, FinishSessionStep
<1>5. CASE Elapse
  <2>1. /\ UNCHANGED <<image, jamx, packets, bin, crcFailed, complete, serial, binDirty>>
        /\ UNCHANGED <<dirty, ending, ended, binFile, jpgFile, seen, faults>>
        /\ lastSave' = "old"
    BY <1>5 DEF Elapse, session, savedFiles
  <2>2. SessionTypeOK'
    BY <2>1 DEF SessionInv, SessionTypeOK
  <2> QED
    BY <2>1, <2>2 DEF SessionInv
<1>6. CASE Ended \/ UNCHANGED sessionVars
  <2>1. /\ UNCHANGED <<image, jamx, packets, bin, crcFailed, complete, serial, binDirty>>
        /\ UNCHANGED <<dirty, ending, ended, binFile, jpgFile, seen, faults, lastSave>>
    BY <1>6 DEF Ended, sessionVars, session, savedFiles
  <2>2. SessionTypeOK'
    BY <2>1 DEF SessionInv, SessionTypeOK
  <2> QED
    BY <2>1, <2>2 DEF SessionInv
<1> QED
  BY <1>1, <1>2, <1>3, <1>4, <1>5, <1>6 DEF SessionNext

LEMMA SessionInvHolds == SessionSpec => []SessionInv
  BY SessionInitial, SessionStep, PTL DEF SessionSpec

(* A packet file that is not marked dirty is up to date, whatever writes    *)
(* failed before (savePacketBin and processFrame, ssdv_receiver.cpp).        *)
THEOREM PacketFileCurrent == SessionSpec => []BinFileCurrent
<1>1. SessionInv => BinFileCurrent
  BY DEF SessionInv, BinFileCurrent
<1> QED
  BY <1>1, SessionInvHolds, PTL

(* Only a packet that starts an image changes the serial.                  *)
LEMMA NewImageStarts ==
    ASSUME SessionInv, [SessionNext]_sessionVars, NewImage
    PROVE  \E p \in Packet : /\ ProcessFrame(p) /\ StartImage(p) /\ SessionChanged(p)
                             /\ Usable(p) /\ ~Ignored(p)
<1>1. ~UNCHANGED serial
  BY DEF NewImage
<1>2. PICK p \in Packet : ProcessFrame(p)
  BY <1>1 DEF SessionNext, sessionVars, session, Refresh, ClearSession, Finish, Elapse, Ended
<1> QED
  BY <1>1, <1>2 DEF ProcessFrame, AddPacket, session

(* An image ends only where another one begins: damaged data never starts   *)
(* one, in one image and format only a packet that comes back to the first  *)
(* one does, and if that packet was selected for an image that is still     *)
(* incomplete, only when the decoder had rejected it (processFrame and      *)
(* rebuildImage, ssdv_receiver.cpp).                                        *)
THEOREM ImagesAreJustified == SessionSpec => NewImageJustified
<1>1. SessionInv /\ [SessionNext]_sessionVars
        => [NewImage => OpenedByVerified /\ LatePacketJoins /\ RetransmissionIgnored]_sessionVars
  <2> SUFFICES ASSUME SessionInv, [SessionNext]_sessionVars, NewImage
               PROVE  OpenedByVerified /\ LatePacketJoins /\ RetransmissionIgnored
    OBVIOUS
  <2>1. PICK p \in Packet : /\ StartImage(p) /\ SessionChanged(p)
                            /\ Usable(p) /\ ~Ignored(p)
    BY NewImageStarts
  <2>2. /\ packets' = WithPacket(NoPackets, p) /\ image' = p.image /\ jamx' = Mode(p)
    BY <2>1 DEF StartImage
  <2>3. DOMAIN packets' = {p.id} /\ packets'[p.id] = p
    <3>1. NoPackets \in Packets /\ DOMAIN NoPackets = {}
      BY EmptyTable
    <3> QED
      BY <2>2, <3>1, TableWith, ZenonT(40)
  <2>4. Verified(p)
    BY <2>1, OnlyVerifiedOpens
  <2>5. OpenedByVerified
    BY <2>3, <2>4 DEF OpenedByVerified
  <2>6. LatePacketJoins
    <3> SUFFICES ASSUME image' = image, jamx' = jamx
                 PROVE  p.id = 0 \/ p.id = Min(DOMAIN packets)
      BY <2>3 DEF LatePacketJoins
    <3>1. ~FormatChanged(p) /\ image = p.image
      BY <2>2 DEF FormatChanged
    <3> QED
      BY <2>1, <3>1 DEF SessionChanged, ReplacedFirst, Regressed
  <2>7. RetransmissionIgnored
    <3> SUFFICES ASSUME ~complete, p.id \in DOMAIN bin, p = bin[p.id]
                 PROVE  Rejected(p.id)
      BY <2>3 DEF RetransmissionIgnored
    <3>1. p.id \in DOMAIN packets => p = packets[p.id]
      BY DEF SessionInv
    <3> QED
      BY <2>1, <3>1 DEF Rejected, Ignored, Duplicate, Has
  <2> QED
    BY <2>5, <2>6, <2>7
<1> QED
  BY <1>1, SessionInvHolds, PTL DEF SessionSpec, NewImageJustified

(* In an open image an unverified copy never replaces a verified packet     *)
(* (processFrame and rebuildImage, ssdv_receiver.cpp).                      *)
THEOREM VerifiedPacketsStay == SessionSpec => VerifiedStays
<1>1. SessionInv /\ [SessionNext]_sessionVars
        => [~NewImage =>
              \A n \in DOMAIN packets \cap DOMAIN packets' :
                  Verified(packets[n]) => Verified(packets'[n])]_sessionVars
  <2> SUFFICES ASSUME SessionInv, [SessionNext]_sessionVars, ~NewImage,
                      NEW n \in DOMAIN packets \cap DOMAIN packets',
                      Verified(packets[n])
               PROVE  Verified(packets'[n])
    OBVIOUS
  <2>1. CASE UNCHANGED packets
    BY <2>1
  <2>2. CASE Refresh \/ Finish
    <3>1. PICK o \in Outcome : packets' = Only(packets, o.kept)
      BY <2>2 DEF Refresh, Finish
    <3>2. o.kept \in SUBSET DOMAIN packets
      BY DEF Outcome
    <3>3. DOMAIN packets' = o.kept /\ \A i \in o.kept : packets'[i] = packets[i]
      BY <3>1, <3>2, TableOnly DEF SessionInv, SessionTypeOK
    <3> QED
      BY <3>3
  <2>3. CASE ClearSession
    BY <2>3, EmptyTable DEF ClearSession, ClearState
  <2>4. ASSUME NEW p \in Packet, ProcessFrame(p), ~UNCHANGED packets
        PROVE  Verified(packets'[n])
    <3>1. CASE StartImage(p)
      <4>1. serial' # serial
        BY <3>1 DEF StartImage, SessionInv, SessionTypeOK
      <4> QED
        BY <4>1 DEF NewImage
    <3>2. CASE AddPacket(p)
      <4>1. PICK t : t = WithPacket(packets, p)
        OBVIOUS
      <4>2. /\ packets' = t /\ t[p.id] = p
            /\ \A i \in DOMAIN packets : i # p.id => t[i] = packets[i]
        <5>1. packets \in Packets
          BY DEF SessionInv, SessionTypeOK
        <5>2. /\ t[p.id] = p
              /\ \A i \in DOMAIN packets : i # p.id => t[i] = packets[i]
          BY <4>1, <5>1, TableWith
        <5> QED
          BY <3>2, <4>1, <5>2 DEF AddPacket
      <4>3. CASE n = p.id
        <5>1. n \notin crcFailed
          BY DEF SessionInv
        <5>2. Has(p) /\ ~ExistingFailed(p)
          BY <4>3, <5>1 DEF Has, ExistingFailed
        <5>3. Verified(p)
          BY <3>2, <5>2 DEF AddPacket, KeepsExisting
        <5> QED
          BY <4>2, <4>3, <5>3
      <4>4. CASE n # p.id
        BY <4>2, <4>4
      <4> QED
        BY <4>3, <4>4
    <3> QED
      BY <2>4, <3>1, <3>2 DEF ProcessFrame, session
  <2> QED
    BY <2>1, <2>2, <2>3, <2>4 DEF SessionNext, Elapse, Ended, sessionVars, session
<1> QED
  BY <1>1, SessionInvHolds, PTL DEF SessionSpec, VerifiedStays

(* An image that is replaced is on disk as it was, unless something fails   *)
(* in the step that replaces it (processFrame, clearState and rebuildImage,  *)
(* ssdv_receiver.cpp).                                                      *)
THEOREM ReplacedImagesSaved == SessionSpec => ReplacedImageSaved
<1>1. SessionInv /\ [SessionNext]_sessionVars
        => [NewImage /\ packets # NoPackets /\ faults' = faults
              => binFile'[serial] = bin /\ jpgFile'[serial] = packets]_sessionVars
  <2> SUFFICES ASSUME SessionInv, [SessionNext]_sessionVars, NewImage,
                      packets # NoPackets, faults' = faults
               PROVE  binFile'[serial] = bin /\ jpgFile'[serial] = packets
    OBVIOUS
  <2>1. PICK o \in Outcome : Leave(o)
    BY NewImageStarts DEF StartImage
  <2>2. o = Success
    BY <2>1, FaultCount DEF Leave, SessionInv
  <2>3. /\ packets \in Packets /\ bin \in Packets /\ DOMAIN packets # {}
        /\ jpgFile \in [Serials -> Packets]
    BY EmptyTable DEF SessionInv, SessionTypeOK
  <2>4. bin # NoPackets /\ serial \in Serials
    BY <2>3, EmptyTable DEF SessionInv
  <2>5. binFile'[serial] = bin
    <3>1. binFile' = BinFileAfter(TRUE)
      BY <2>1, <2>2 DEF Leave, Success
    <3> QED
      BY <2>4, <3>1, BinFileFacts DEF SessionInv, SessionTypeOK
  <2>6. Only(packets, DOMAIN packets) = packets
    BY <2>3, TableOnly
  <2>7. Rebuild(o, "never", "no").jpg = [jpgFile EXCEPT ![serial] = packets]
    BY <2>2, <2>6 DEF Rebuild, Success, SaveNow
  <2>8. jpgFile'[serial] = packets
    BY <2>1, <2>3, <2>4, <2>7 DEF Leave
  <2> QED
    BY <2>5, <2>8
<1> QED
  BY <1>1, SessionInvHolds, PTL DEF SessionSpec, ReplacedImageSaved

-----------------------------------------------------------------------------

(***************************************************************************)
(* The frame monitor.                                                       *)
(***************************************************************************)

HandlerState ==
    {Idle} \cup [at : {"erased"}, payload : Payload, stamp : Nat]
           \cup [at : {"checked"}, id : Nat, payload : Payload, priority : Priorities]

ClockTyped == now \in 0 .. MaxTime /\ messages \in 0 .. MaxMessages

HandlersTyped == handler \in [Handlers -> HandlerState]

TableTyped ==
    /\ IsFiniteSet(DOMAIN pending) /\ DOMAIN pending \subseteq Keys
    /\ pending = [x \in DOMAIN pending |-> pending[x]]
    /\ \A k \in DOMAIN pending :
          pending[k] \in Candidate /\ pending[k].payload.key = k
    /\ DOMAIN offered = DOMAIN pending
    /\ \A k \in DOMAIN offered : offered[k] \subseteq Priorities

WorkerTyped ==
    /\ worker \in {"wait", "timed", "forward", "done"}
    /\ until \in Nat /\ notified \in BOOLEAN
    /\ ready \in Seq(Candidate)
    /\ life \in {"running", "stopping", "destroyed"}

LogsTyped ==
    /\ recent \in Seq([sent : Nat, payload : Payload])
    /\ published \in Seq([stamp : Nat, payload : Payload])
    /\ suppressed \in Seq([stamp : Nat, payload : Payload])

FatesTyped == forwarded \in Seq(Candidate) /\ cancelled \subseteq Nat

(* The state is well formed, and what waits is of the best branch that      *)
(* offered anything for its key.                                           *)
MonitorInv ==
    /\ ClockTyped /\ HandlersTyped /\ TableTyped
    /\ WorkerTyped /\ LogsTyped /\ FatesTyped
    /\ BestCandidateWaits

LEMMA MonitorTyped == MonitorInv => MonitorTypeOK
<1> SUFFICES ASSUME MonitorInv PROVE MonitorTypeOK
  OBVIOUS
<1>1. \A h \in Handlers :
         \/ handler[h] = Idle
         \/ handler[h] \in [at : {"erased"}, payload : Payload, stamp : Nat]
         \/ handler[h] \in [at : {"checked"}, id : Nat, payload : Payload,
                            priority : Priorities]
  BY DEF MonitorInv, HandlersTyped, HandlerState
<1>2. /\ DOMAIN pending \subseteq Keys
      /\ \A k \in DOMAIN pending :
            pending[k] \in Candidate /\ pending[k].payload.key = k
      /\ DOMAIN offered = DOMAIN pending
  BY DEF MonitorInv, TableTyped
<1> QED
  BY <1>1, <1>2
     DEF MonitorInv, MonitorTypeOK, ClockTyped, WorkerTyped, LogsTyped, FatesTyped

LEMMA EmptyFunction ==
    ASSUME NEW f, f = [x \in DOMAIN f |-> f[x]], DOMAIN f = {}
    PROVE  f = <<>>
  OBVIOUS

LEMMA HandlerKinds ==
    ASSUME NEW v \in HandlerState
    PROVE  /\ v.at = "erased" => v.payload \in Payload /\ v.stamp \in Nat
           /\ v.at = "checked" => /\ v.id \in Nat /\ v.payload \in Payload
                                  /\ v.priority \in Priorities
           /\ v = Idle => v.at # "erased" /\ v.at # "checked"
  BY DEF HandlerState, Idle

LEMMA MonitorInitial == MonitorInit => MonitorInv
<1> SUFFICES ASSUME MonitorInit PROVE MonitorInv
  OBVIOUS
<1>1. HandlersTyped
  BY DEF MonitorInit, HandlersTyped, HandlerState
<1>2. DOMAIN pending = {} /\ DOMAIN offered = {}
  BY DEF MonitorInit
<1>3. TableTyped
  BY <1>2, FS_EmptySet DEF TableTyped
<1>4. BestCandidateWaits
  BY <1>2 DEF BestCandidateWaits
<1>5. ClockTyped
  BY MonitorAssumption DEF MonitorInit, ClockTyped
<1>6. WorkerTyped
  <2>1. worker = "wait" /\ until \in Nat /\ notified = FALSE /\ life = "running"
    BY DEF MonitorInit
  <2>2. ready \in Seq(Candidate)
    BY DEF MonitorInit
  <2> QED
    BY <2>1, <2>2 DEF WorkerTyped
<1>7. LogsTyped
  BY DEF MonitorInit, LogsTyped
<1>8. FatesTyped
  BY DEF MonitorInit, FatesTyped
<1> QED
  BY <1>1, <1>3, <1>4, <1>5, <1>6, <1>7, <1>8 DEF MonitorInv

LEMMA MessagePosted ==
    ASSUME ClockTyped, NEW h \in Handlers, Posted(h)
    PROVE  messages' \in 0 .. MaxMessages /\ messages' = messages + 1 /\ messages' \in Nat
  BY MonitorAssumption DEF ClockTyped, Posted

LEMMA SuccessTyped ==
    ASSUME MonitorInv, NEW h \in Handlers, NEW p \in Payload, HandleSuccess(h, p)
    PROVE  MonitorInv'
<1>1. PICK v : v = [at |-> "erased", payload |-> p, stamp |-> now]
  OBVIOUS
<1>2. v \in HandlerState
  BY <1>1 DEF HandlerState, MonitorInv, ClockTyped
<1>3. HandlersTyped'
  BY <1>1, <1>2 DEF HandleSuccess, MonitorInv, HandlersTyped
<1>4. /\ pending' = [x \in DOMAIN pending' |-> pending'[x]]
      /\ DOMAIN pending' = DOMAIN pending \ {p.key} /\ DOMAIN offered' = DOMAIN pending'
      /\ \A k \in DOMAIN pending' : pending'[k] = pending[k] /\ offered'[k] = offered[k]
  BY DEF HandleSuccess, EraseCandidate, Without, CandidateKey
<1>5. IsFiniteSet(DOMAIN pending')
  BY <1>4, FS_Subset DEF MonitorInv, TableTyped
<1>6. TableTyped'
  BY <1>4, <1>5 DEF MonitorInv, TableTyped
<1>7. ClockTyped'
  BY MessagePosted DEF HandleSuccess, MonitorInv, ClockTyped
<1>8. notified' \in BOOLEAN
  BY Zenon DEF HandleSuccess, Notify
<1>9. WorkerTyped' /\ LogsTyped'
  BY <1>8 DEF HandleSuccess, MonitorInv, WorkerTyped, LogsTyped
<1>10. FatesTyped'
  <2>1. \A k \in DOMAIN pending : pending[k].id \in Nat
    BY DEF MonitorInv, TableTyped, Candidate
  <2>2. cancelled' \subseteq Nat
    BY <2>1 DEF HandleSuccess, MonitorInv, FatesTyped
  <2> QED
    BY <2>2 DEF HandleSuccess, MonitorInv, FatesTyped
<1>11. BestCandidateWaits'
  BY <1>4 DEF MonitorInv, BestCandidateWaits
<1> QED
  BY <1>3, <1>6, <1>7, <1>9, <1>10, <1>11 DEF MonitorInv

(* What a dispatch keeps of the frames that were sent: it forgets frames at *)
(* the front, all of them sent too long before the stamp, and what it keeps *)
(* begins with one that was not.                                           *)
LEMMA PruneFacts ==
    ASSUME NEW sent \in Seq([sent : Nat, payload : Payload]), NEW stamp \in Nat
    PROVE  \E c \in 0 .. Len(sent) :
             /\ Prune(sent, stamp) \in Seq([sent : Nat, payload : Payload])
             /\ Len(Prune(sent, stamp)) = Len(sent) - c
             /\ \A i \in 1 .. Len(sent) - c : Prune(sent, stamp)[i] = sent[c + i]
             /\ \A i \in 1 .. c : stamp - sent[i].sent > Window
             /\ c < Len(sent) => ~(stamp - sent[c + 1].sent > Window)
<1> DEFINE old(i) == stamp - sent[i].sent > Window
<1>1. PICK kept : kept = {i \in 1 .. Len(sent) : \A j \in 1 .. i : old(j)}
  OBVIOUS
<1>2. Prune(sent, stamp) = SubSeq(sent, Cardinality(kept) + 1, Len(sent))
  BY <1>1 DEF Prune
<1>3. PICK c : c = Cardinality(kept)
  OBVIOUS
<1>4. c \in 0 .. Len(sent) /\ kept = 1 .. c
  <2>1. Len(sent) \in Nat /\ kept \in SUBSET (1 .. Len(sent))
    BY <1>1
  <2>2. \A i \in kept : 1 .. i \subseteq kept
    <3> SUFFICES ASSUME NEW i \in kept, NEW j \in 1 .. i PROVE j \in kept
      OBVIOUS
    <3>1. j \in 1 .. Len(sent) /\ 1 .. j \subseteq 1 .. i
      BY <2>1
    <3> QED
      BY <1>1, <3>1
  <2> QED
    BY <1>3, <2>1, <2>2, InitialSegment
<1>5. \A i \in 1 .. c : old(i)
  BY <1>1, <1>4
<1>6. c < Len(sent) => ~old(c + 1)
  <2> SUFFICES ASSUME c < Len(sent) PROVE ~old(c + 1)
    OBVIOUS
  <2>1. c + 1 \in 1 .. Len(sent) /\ c + 1 \notin 1 .. c
    BY <1>4
  <2>2. ~\A j \in 1 .. c + 1 : old(j)
    <3> HIDE DEF old
    <3> QED
      BY <1>1, <1>4, <2>1
  <2>3. \A j \in 1 .. c + 1 : j \in 1 .. c \/ j = c + 1
    BY <1>4
  <2> HIDE DEF old
  <2> QED
    BY <1>5, <2>2, <2>3
<1>7. /\ Prune(sent, stamp) \in Seq([sent : Nat, payload : Payload])
      /\ Len(Prune(sent, stamp)) = Len(sent) - c
      /\ \A i \in 1 .. Len(sent) - c : Prune(sent, stamp)[i] = sent[c + i]
  <2>1. PICK R : R = [sent : Nat, payload : Payload]
    OBVIOUS
  <2>2. sent \in Seq(R)
    BY <2>1
  <2>3. Prune(sent, stamp) = SubSeq(sent, c + 1, Len(sent))
    BY <1>2, <1>3
  <2> QED
    BY <1>4, <2>1, <2>2, <2>3, SuffixFacts
<1> QED
  BY <1>4, <1>5, <1>6, <1>7

LEMMA DispatchTyped ==
    ASSUME MonitorInv, NEW h \in Handlers, Dispatch(h)
    PROVE  MonitorInv'
<1>1. PICK p, s : p = handler[h].payload /\ s = handler[h].stamp
  OBVIOUS
<1>2. p \in Payload /\ s \in Nat
  BY <1>1, HandlerKinds DEF Dispatch, MonitorInv, HandlersTyped
<1>3. PICK known : known = Prune(recent, s)
  OBVIOUS
<1>4. known \in Seq([sent : Nat, payload : Payload])
  BY <1>2, <1>3, PruneFacts DEF MonitorInv, LogsTyped
<1>5. HandlersTyped'
  BY DEF Dispatch, MonitorInv, HandlersTyped, HandlerState
<1>6. \/ /\ suppressed' = Append(suppressed, [stamp |-> s, payload |-> p])
         /\ recent' = known /\ published' = published
      \/ /\ recent' = Append(known, [sent |-> s, payload |-> p])
         /\ published' = Append(published, [stamp |-> s, payload |-> p])
         /\ suppressed' = suppressed
  BY <1>1, <1>3, Zenon DEF Dispatch
<1>7. LogsTyped'
  <2>1. /\ [stamp |-> s, payload |-> p] \in [stamp : Nat, payload : Payload]
        /\ [sent |-> s, payload |-> p] \in [sent : Nat, payload : Payload]
    BY <1>2
  <2>2. PICK R, Q : /\ R = [sent : Nat, payload : Payload]
                    /\ Q = [stamp : Nat, payload : Payload]
    OBVIOUS
  <2>3. known \in Seq(R) /\ published \in Seq(Q) /\ suppressed \in Seq(Q)
    BY <1>4, <2>2 DEF MonitorInv, LogsTyped
  <2>4. PICK a, b : /\ a = [sent |-> s, payload |-> p] /\ b = [stamp |-> s, payload |-> p]
                    /\ a \in R /\ b \in Q
    BY <2>1, <2>2
  <2>5. \/ /\ suppressed' = Append(suppressed, b)
           /\ recent' = known /\ published' = published
        \/ /\ recent' = Append(known, a)
           /\ published' = Append(published, b)
           /\ suppressed' = suppressed
    BY <1>6, <2>4
  <2>6. Append(suppressed, b) \in Seq(Q) /\ Append(known, a) \in Seq(R)
        /\ Append(published, b) \in Seq(Q)
    BY <2>3, <2>4, AppendProperties
  <2>7. recent' \in Seq(R) /\ published' \in Seq(Q) /\ suppressed' \in Seq(Q)
    BY <2>3, <2>5, <2>6
  <2> QED
    BY <2>2, <2>7 DEF LogsTyped
<1>8. UNCHANGED <<now, messages, pending, worker, until, notified, ready, life,
                  forwarded, cancelled, offered>>
  BY DEF Dispatch, waiting
<1> QED
  BY <1>5, <1>7, <1>8
     DEF MonitorInv, ClockTyped, TableTyped, WorkerTyped, FatesTyped, BestCandidateWaits

LEMMA CandidateTyped ==
    ASSUME MonitorInv, NEW h \in Handlers, NEW p \in Payload,
           NEW priority \in Priorities, HandleCandidate(h, p, priority)
    PROVE  MonitorInv'
<1>1. ClockTyped' /\ messages + 1 \in Nat
  BY MessagePosted DEF HandleCandidate, MonitorInv, ClockTyped
<1>2. PICK v : v = IF RecentlyPublished(p) THEN Idle
                   ELSE [at |-> "checked", id |-> messages + 1, payload |-> p,
                         priority |-> priority]
  OBVIOUS
<1>3. v \in HandlerState
  BY <1>1, <1>2 DEF HandlerState
<1>4. HandlersTyped'
  BY <1>2, <1>3 DEF HandleCandidate, MonitorInv, HandlersTyped
<1>5. UNCHANGED <<now, recent, pending, worker, until, notified, ready, life,
                  published, suppressed, forwarded, cancelled, offered>>
  BY DEF HandleCandidate, waiting, history
<1> QED
  BY <1>1, <1>4, <1>5
     DEF MonitorInv, TableTyped, WorkerTyped, LogsTyped, FatesTyped, BestCandidateWaits

(* The candidate that an insertion leaves in the table: the new one, with   *)
(* its own deadline or the one it inherits, or the one that waited.        *)
LEMMA InsertFacts ==
    ASSUME MonitorInv, NEW h \in Handlers, InsertCandidate(h)
    PROVE  LET c == handler[h]
               k == c.payload.key
           IN  /\ c.at = "checked" /\ c.id \in Nat /\ c.payload \in Payload
               /\ c.priority \in Priorities /\ k \in Keys
               /\ pending' = [x \in DOMAIN pending' |-> pending'[x]]
               /\ DOMAIN pending' = DOMAIN pending \cup {k}
               /\ \A x \in DOMAIN pending : x # k => pending'[x] = pending[x]
               /\ pending'[k] \in Candidate /\ pending'[k].payload.key = k
               /\ \/ pending'[k].id = c.id /\ pending'[k].payload = c.payload
                  \/ k \in DOMAIN pending /\ pending'[k] = pending[k]
               /\ DOMAIN offered' = DOMAIN pending \cup {k}
               /\ \A x \in DOMAIN pending : x # k => offered'[x] = offered[x]
               /\ offered'[k] \subseteq Priorities
               /\ \A priority \in offered'[k] : pending'[k].priority <= priority
<1>1. PICK c, k : c = handler[h] /\ k = c.payload.key
  OBVIOUS
<1>2. /\ c.at = "checked" /\ c.id \in Nat /\ c.payload \in Payload
      /\ c.priority \in Priorities
  BY <1>1, HandlerKinds DEF InsertCandidate, MonitorInv, HandlersTyped
<1>3. k \in Keys
  BY <1>1, <1>2 DEF Payload
<1>4. PICK new : new = [id |-> c.id, payload |-> c.payload, priority |-> c.priority,
                        deadline |-> now + Arbitration]
  OBVIOUS
<1>5. now + Arbitration \in Nat
  BY MonitorAssumption DEF MonitorInv, ClockTyped
<1>6. /\ new \in Candidate /\ new.payload = c.payload /\ new.id = c.id
      /\ new.priority = c.priority
  BY <1>2, <1>4, <1>5 DEF Candidate
<1>7. CASE k \in DOMAIN pending
  <2>1. PICK old : old = pending[k]
    OBVIOUS
  <2>2. PICK m : m = Merge(new, old)
    OBVIOUS
  <2>3. pending' = With(pending, k, m) /\ offered' = With(offered, k, offered[k] \cup {c.priority})
    BY <1>1, <1>4, <1>7, <2>1, <2>2 DEF InsertCandidate, CandidateKey
  <2>4. /\ old \in Candidate /\ old.payload.key = k
        /\ DOMAIN offered = DOMAIN pending /\ offered[k] \subseteq Priorities
        /\ \A priority \in offered[k] : old.priority <= priority
    BY <1>7, <2>1 DEF MonitorInv, TableTyped, BestCandidateWaits
  <2>5. old.priority \in Priorities /\ old.deadline \in Nat
    BY <2>4 DEF Candidate
  <2>6. CASE new.priority < old.priority
    <3>1. m = [new EXCEPT !.deadline = old.deadline]
      BY <2>2, <2>6 DEF Merge, Better
    <3>2. /\ m \in Candidate /\ m.id = c.id /\ m.payload = c.payload
          /\ m.priority = c.priority
      BY <1>6, <2>5, <3>1 DEF Candidate
    <3>3. \A priority \in offered[k] \cup {c.priority} : m.priority <= priority
      BY <1>2, <1>6, <2>4, <2>5, <2>6, <3>2 DEF Priorities
    <3> QED
      BY <1>1, <1>2, <1>3, <2>3, <2>4, <3>2, <3>3 DEF With
  <2>7. CASE ~(new.priority < old.priority)
    <3>1. m = old
      BY <2>2, <2>7 DEF Merge, Better
    <3>2. \A priority \in offered[k] \cup {c.priority} : m.priority <= priority
      BY <1>2, <1>6, <2>4, <2>5, <2>7, <3>1 DEF Priorities
    <3> QED
      BY <1>1, <1>2, <1>3, <1>7, <2>1, <2>3, <2>4, <3>1, <3>2 DEF With
  <2> QED
    BY <2>6, <2>7
<1>8. CASE k \notin DOMAIN pending
  <2>1. pending' = With(pending, k, new) /\ offered' = With(offered, k, {c.priority})
    BY <1>1, <1>4, <1>8 DEF InsertCandidate, CandidateKey
  <2>2. DOMAIN offered = DOMAIN pending
    BY DEF MonitorInv, TableTyped
  <2>3. \A priority \in {c.priority} : new.priority <= priority
    BY <1>2, <1>6 DEF Priorities
  <2> QED
    BY <1>1, <1>2, <1>3, <1>6, <1>8, <2>1, <2>2, <2>3 DEF With
<1> QED
  BY <1>7, <1>8

LEMMA InsertTyped ==
    ASSUME MonitorInv, NEW h \in Handlers, InsertCandidate(h)
    PROVE  MonitorInv'
<1>1. PICK c, k : c = handler[h] /\ k = c.payload.key
  OBVIOUS
<1>2. /\ k \in Keys
      /\ pending' = [x \in DOMAIN pending' |-> pending'[x]]
      /\ DOMAIN pending' = DOMAIN pending \cup {k}
      /\ \A x \in DOMAIN pending : x # k => pending'[x] = pending[x]
      /\ pending'[k] \in Candidate /\ pending'[k].payload.key = k
      /\ DOMAIN offered' = DOMAIN pending \cup {k}
      /\ \A x \in DOMAIN pending : x # k => offered'[x] = offered[x]
      /\ offered'[k] \subseteq Priorities
      /\ \A priority \in offered'[k] : pending'[k].priority <= priority
  BY <1>1, InsertFacts
<1>3. IsFiniteSet(DOMAIN pending')
  BY <1>2, FS_AddElement DEF MonitorInv, TableTyped
<1>4. TableTyped'
  BY <1>2, <1>3 DEF MonitorInv, TableTyped
<1>5. BestCandidateWaits'
  BY <1>2 DEF MonitorInv, TableTyped, BestCandidateWaits
<1>6. HandlersTyped'
  BY DEF InsertCandidate, MonitorInv, HandlersTyped, HandlerState
<1>7. notified' \in BOOLEAN
  BY Zenon DEF InsertCandidate, Notify
<1>8. UNCHANGED <<now, messages, recent, worker, until, ready, life,
                  published, suppressed, forwarded, cancelled>>
  BY DEF InsertCandidate
<1> QED
  BY <1>4, <1>5, <1>6, <1>7, <1>8
     DEF MonitorInv, ClockTyped, WorkerTyped, LogsTyped, FatesTyped

(* The worker waits until the earliest deadline in the table.              *)
LEMMA WakeTyped ==
    ASSUME MonitorInv, WorkerWake
    PROVE  MonitorInv'
<1>1. CASE life # "running"
  BY <1>1 DEF WorkerWake, MonitorInv, ClockTyped, HandlersTyped, TableTyped,
              WorkerTyped, LogsTyped, FatesTyped, BestCandidateWaits, history
<1>2. CASE life = "running"
  <2> DEFINE times == {pending[k].deadline : k \in DOMAIN pending}
  <2>1. times \subseteq Nat
    BY DEF MonitorInv, TableTyped, Candidate
  <2>2. times # {}
    <3>1. pending # <<>>
      BY <1>2 DEF WorkerWake, ShouldWake
    <3>2. pending = [x \in DOMAIN pending |-> pending[x]]
      BY DEF MonitorInv, TableTyped
    <3>3. DOMAIN pending # {}
      BY <3>1, <3>2, EmptyFunction
    <3> QED
      BY <3>3
  <2>3. PICK t \in times : \A u \in times : t <= u
    BY <2>1, <2>2, LeastNat
  <2>4. Earliest \in times
    <3>1. \A k \in DOMAIN pending : t <= pending[k].deadline
      BY <2>3
    <3> HIDE DEF times
    <3>2. t \in {pending[k].deadline : k \in DOMAIN pending}
      BY <2>3 DEF times
    <3> QED
      BY <3>1, <3>2 DEF Earliest, times
  <2>5. worker' = "timed" /\ until' \in Nat /\ notified' = FALSE
    BY <1>2, <2>1, <2>4 DEF WorkerWake
  <2>6. UNCHANGED <<now, messages, handler, recent, pending, ready, life, published,
                    suppressed, forwarded, cancelled, offered>>
    BY DEF WorkerWake, history
  <2> QED
    BY <2>5, <2>6 DEF MonitorInv, ClockTyped, HandlersTyped, TableTyped,
                      WorkerTyped, LogsTyped, FatesTyped, BestCandidateWaits
<1> QED
  BY <1>1, <1>2

(* The candidates that are due are those that are extracted.               *)
LEMMA ExtractFacts ==
    ASSUME MonitorInv, Extract, life = "running"
    PROVE  LET due == {k \in DOMAIN pending : Due(k)}
           IN  /\ ready' \in Seq(Candidate)
               /\ \A i \in 1 .. Len(ready') : \E k \in due : ready'[i] = pending[k]
               /\ pending' = [x \in DOMAIN pending' |-> pending'[x]]
               /\ DOMAIN pending' = DOMAIN pending \ due /\ DOMAIN offered' = DOMAIN pending'
               /\ \A k \in DOMAIN pending' : pending'[k] = pending[k]
                                            /\ offered'[k] = offered[k]
<1>1. PICK due : due = {k \in DOMAIN pending : Due(k)}
  OBVIOUS
<1>2. PICK drawn : drawn = {pending[k] : k \in due}
  OBVIOUS
<1>3. IsFiniteSet(due)
  BY <1>1, FS_Subset DEF MonitorInv, TableTyped
<1>4. IsFiniteSet(drawn)
  <2>1. [k \in due |-> pending[k]] \in Surjection(due, drawn)
    BY <1>2 DEF Surjection
  <2> QED
    BY <1>3, <2>1, FS_Surjection DEF ExistsSurjection
<1>5. ready' = SetToSeq(drawn)
  BY <1>1, <1>2 DEF Extract
<1>6. drawn \subseteq Candidate
  BY <1>1, <1>2 DEF MonitorInv, TableTyped
<1>7. ready' \in Seq(drawn) /\ \A i \in 1 .. Len(ready') : ready'[i] \in drawn
  BY <1>4, <1>5, SetToSeqFacts
<1>8. ready' \in Seq(Candidate)
  BY <1>6, <1>7
<1>9. \A i \in 1 .. Len(ready') : \E k \in due : ready'[i] = pending[k]
  BY <1>2, <1>7
<1>10. /\ pending' = [x \in DOMAIN pending' |-> pending'[x]]
       /\ DOMAIN pending' = DOMAIN pending \ due /\ DOMAIN offered' = DOMAIN pending'
       /\ \A k \in DOMAIN pending' : pending'[k] = pending[k] /\ offered'[k] = offered[k]
  BY <1>1 DEF Extract
<1> QED
  BY <1>1, <1>8, <1>9, <1>10

LEMMA ExtractTyped ==
    ASSUME MonitorInv, Extract
    PROVE  MonitorInv'
<1>1. UNCHANGED <<now, messages, handler, recent, until, notified, life,
                  published, suppressed, forwarded, cancelled>>
  BY DEF Extract
<1>2. worker' \in {"wait", "timed", "forward", "done"}
  BY DEF Extract
<1>3. CASE life # "running"
  <2>1. UNCHANGED <<pending, ready, offered>>
    BY <1>3 DEF Extract
  <2> QED
    BY <1>1, <1>2, <2>1 DEF MonitorInv, ClockTyped, HandlersTyped, TableTyped,
                            WorkerTyped, LogsTyped, FatesTyped, BestCandidateWaits
<1>4. CASE life = "running"
  <2>1. PICK due : /\ ready' \in Seq(Candidate)
                   /\ pending' = [x \in DOMAIN pending' |-> pending'[x]]
                   /\ DOMAIN pending' = DOMAIN pending \ due
                   /\ DOMAIN offered' = DOMAIN pending'
                   /\ \A k \in DOMAIN pending' : pending'[k] = pending[k]
                                                /\ offered'[k] = offered[k]
    BY <1>4, ExtractFacts
  <2>2. IsFiniteSet(DOMAIN pending')
    BY <2>1, FS_Subset DEF MonitorInv, TableTyped
  <2>3. TableTyped' /\ BestCandidateWaits'
    BY <2>1, <2>2 DEF MonitorInv, TableTyped, BestCandidateWaits
  <2> QED
    BY <1>1, <1>2, <2>1, <2>3 DEF MonitorInv, ClockTyped, HandlersTyped,
                                  WorkerTyped, LogsTyped, FatesTyped
<1> QED
  BY <1>3, <1>4

LEMMA ForwardTyped ==
    ASSUME MonitorInv, Forward
    PROVE  MonitorInv'
<1>1. UNCHANGED <<now, messages, handler, recent, pending, until, notified,
                  life, published, suppressed, cancelled, offered>>
  BY DEF Forward
<1>2. worker' \in {"wait", "timed", "forward", "done"}
  BY DEF Forward, MonitorInv, WorkerTyped
<1>3. ready' \in Seq(Candidate) /\ forwarded' \in Seq(Candidate)
  <2>1. CASE ready = <<>>
    BY <2>1 DEF Forward, MonitorInv, WorkerTyped, FatesTyped
  <2>2. CASE ready # <<>>
    <3>1. Head(ready) \in Candidate /\ Tail(ready) \in Seq(Candidate)
      BY <2>2, HeadTailProperties DEF MonitorInv, WorkerTyped
    <3>2. PICK C, c : C = Candidate /\ c = Head(ready)
      OBVIOUS
    <3>3. c \in C /\ forwarded \in Seq(C) /\ forwarded' = Append(forwarded, c)
      BY <2>2, <3>1, <3>2 DEF Forward, MonitorInv, FatesTyped
    <3>4. forwarded' \in Seq(C) /\ ready' = Tail(ready)
      BY <2>2, <3>3, AppendProperties DEF Forward
    <3> QED
      BY <3>1, <3>2, <3>4
  <2> QED
    BY <2>1, <2>2
<1> QED
  BY <1>1, <1>2, <1>3 DEF MonitorInv, ClockTyped, HandlersTyped, TableTyped,
                          WorkerTyped, LogsTyped, FatesTyped, BestCandidateWaits

LEMMA DestroyTyped ==
    ASSUME MonitorInv, Destroy
    PROVE  MonitorInv'
<1>1. UNCHANGED <<now, messages, handler, recent, worker, until, ready,
                  published, suppressed, forwarded, cancelled>>
  BY DEF Destroy
<1>2. DOMAIN pending' = {} /\ DOMAIN offered' = {}
  BY DEF Destroy
<1>3. notified' \in BOOLEAN /\ life' = "stopping"
  BY Zenon DEF Destroy, Notify
<1>4. TableTyped' /\ BestCandidateWaits'
  BY <1>2, FS_EmptySet DEF TableTyped, BestCandidateWaits
<1> QED
  BY <1>1, <1>3, <1>4
     DEF MonitorInv, ClockTyped, HandlersTyped, WorkerTyped, LogsTyped, FatesTyped

LEMMA ClockTyping ==
    ASSUME MonitorInv, Join \/ Tick \/ Destroyed
    PROVE  MonitorInv'
<1>1. UNCHANGED <<messages, handler, recent, pending, worker, until, notified, ready,
                  published, suppressed, forwarded, cancelled, offered>>
  BY DEF Join, Tick, Destroyed, monitorVars, waiting, history
<1>2. now' \in 0 .. MaxTime
  BY MonitorAssumption DEF Join, Tick, Destroyed, monitorVars, MonitorInv, ClockTyped
<1>3. life' \in {"running", "stopping", "destroyed"}
  BY DEF Join, Tick, Destroyed, monitorVars, MonitorInv, WorkerTyped
<1> QED
  BY <1>1, <1>2, <1>3 DEF MonitorInv, ClockTyped, HandlersTyped, TableTyped,
                          WorkerTyped, LogsTyped, FatesTyped, BestCandidateWaits

LEMMA MonitorStep == MonitorInv /\ [MonitorNext]_monitorVars => MonitorInv'
<1> SUFFICES ASSUME MonitorInv, [MonitorNext]_monitorVars PROVE MonitorInv'
  OBVIOUS
<1>1. CASE UNCHANGED monitorVars
  BY <1>1 DEF monitorVars, waiting, history, MonitorInv, ClockTyped, HandlersTyped,
              TableTyped, WorkerTyped, LogsTyped, FatesTyped, BestCandidateWaits
<1>2. CASE \E h \in Handlers, p \in Payload : HandleSuccess(h, p)
  BY <1>2, SuccessTyped
<1>3. CASE \E h \in Handlers : Dispatch(h)
  BY <1>3, DispatchTyped
<1>4. CASE \E h \in Handlers, p \in Payload, priority \in Priorities :
              HandleCandidate(h, p, priority)
  BY <1>4, CandidateTyped
<1>5. CASE \E h \in Handlers : InsertCandidate(h)
  BY <1>5, InsertTyped
<1>6. CASE Worker
  BY <1>6, WakeTyped, ExtractTyped, ForwardTyped DEF Worker
<1>7. CASE Destroy
  BY <1>7, DestroyTyped
<1>8. CASE Join \/ Tick \/ Destroyed
  BY <1>8, ClockTyping
<1> QED
  BY <1>1, <1>2, <1>3, <1>4, <1>5, <1>6, <1>7, <1>8 DEF MonitorNext

LEMMA MonitorInvariant == MonitorSpec => []MonitorInv
<1> QED
  BY MonitorInitial, MonitorStep, PTL DEF MonitorSpec

(* With any number of handler threads, the candidate that waits for a key is *)
(* of the best branch that offered one since the key was last free: a worse  *)
(* one never replaces it (handleLocalCandidate, frame_monitor.cpp).          *)
THEOREM BestWaits == MonitorSpec => []BestCandidateWaits
<1>1. MonitorInv => BestCandidateWaits
  BY DEF MonitorInv
<1> QED
  BY <1>1, MonitorInvariant, PTL

(* The candidates that have left the table for the fallback.               *)
Away == {ready[i].id : i \in 1 .. Len(ready)}
          \cup {forwarded[i].id : i \in 1 .. Len(forwarded)}

(* A message is in one place: on its way to the table, in it, taken from it *)
(* by the worker, or cancelled.                                            *)
OnTheWay ==
    /\ \A h \in Handlers : handler[h].at = "checked" =>
          handler[h].id <= messages /\ handler[h].id \notin Away \cup cancelled
    /\ \A g, h \in Handlers :
          g # h /\ handler[g].at = "checked" /\ handler[h].at = "checked"
            => handler[g].id # handler[h].id

InTable ==
    /\ \A k \in DOMAIN pending :
          pending[k].id <= messages /\ pending[k].id \notin Away \cup cancelled
    /\ \A k, l \in DOMAIN pending : k # l => pending[k].id # pending[l].id
    /\ \A h \in Handlers, k \in DOMAIN pending :
          handler[h].at = "checked" => handler[h].id # pending[k].id

CancelInv ==
    /\ OnTheWay /\ InTable
    /\ Away \cap cancelled = {}
    /\ \A n \in Away \cup cancelled : n \in Nat /\ n <= messages

LEMMA CancelInitial == MonitorInit => CancelInv
<1> SUFFICES ASSUME MonitorInit PROVE CancelInv
  OBVIOUS
<1>1. DOMAIN pending = {} /\ cancelled = {} /\ Len(ready) = 0 /\ Len(forwarded) = 0
  BY DEF MonitorInit
<1>2. Away = {}
  BY <1>1 DEF Away
<1>3. \A h \in Handlers : handler[h].at # "checked"
  BY DEF MonitorInit, Idle
<1> QED
  BY <1>1, <1>2, <1>3 DEF CancelInv, OnTheWay, InTable

LEMMA SuccessCancels ==
    ASSUME MonitorInv, CancelInv, NEW h \in Handlers, NEW p \in Payload,
           HandleSuccess(h, p)
    PROVE  CancelInv'
<1>1. Away' = Away
  BY DEF HandleSuccess, Away
<1>2. PICK gone : gone = {k \in DOMAIN pending : pending[k].payload.key = p.key}
  OBVIOUS
<1>3. cancelled' = cancelled \cup {pending[k].id : k \in gone}
  BY <1>2 DEF HandleSuccess
<1>4. DOMAIN pending' = DOMAIN pending \ gone
      /\ \A k \in DOMAIN pending' : pending'[k] = pending[k]
  BY <1>2 DEF HandleSuccess, EraseCandidate, Without, CandidateKey, MonitorInv, TableTyped
<1>5. /\ handler' = [handler EXCEPT ![h] =
                        [at |-> "erased", payload |-> p, stamp |-> now]]
      /\ handler \in [Handlers -> HandlerState]
  BY DEF HandleSuccess, MonitorInv, HandlersTyped
<1>6. \A g \in Handlers : handler'[g].at = "checked" => handler'[g] = handler[g]
  BY <1>5
<1>7. messages \in Nat /\ messages' = messages + 1
  BY DEF HandleSuccess, Posted, MonitorInv, ClockTyped
<1>8. /\ \A g \in Handlers : handler[g].at = "checked" => handler[g].id \in Nat
      /\ \A k \in DOMAIN pending : pending[k].id \in Nat
  BY HandlerKinds DEF MonitorInv, HandlersTyped, TableTyped, Candidate
<1>9. \A n \in cancelled' : n \in cancelled \/ \E k \in gone : n = pending[k].id
  BY <1>3
<1>10. gone \subseteq DOMAIN pending
  BY <1>2
<1>11. OnTheWay'
  <2>1. ASSUME NEW g \in Handlers, handler'[g].at = "checked"
        PROVE  handler'[g].id <= messages' /\ handler'[g].id \notin Away' \cup cancelled'
    <3>1. handler'[g] = handler[g]
      BY <1>6, <2>1
    <3>2. handler[g].id \in Nat /\ handler[g].id <= messages
          /\ handler[g].id \notin Away \cup cancelled
          /\ \A k \in DOMAIN pending : handler[g].id # pending[k].id
      BY <1>8, <2>1, <3>1 DEF CancelInv, OnTheWay, InTable
    <3>3. handler[g].id \notin cancelled'
      BY <1>9, <1>10, <3>2
    <3>4. handler[g].id <= messages'
      BY <1>7, <3>2
    <3> QED
      BY <1>1, <3>1, <3>2, <3>3, <3>4
  <2> QED
    BY <1>6, <2>1 DEF CancelInv, OnTheWay
<1>12. InTable'
  <2>1. ASSUME NEW k \in DOMAIN pending'
        PROVE  pending'[k].id <= messages' /\ pending'[k].id \notin Away' \cup cancelled'
    <3>1. pending'[k] = pending[k] /\ k \in DOMAIN pending /\ k \notin gone
      BY <1>4, <2>1
    <3>2. pending[k].id \in Nat /\ pending[k].id <= messages
          /\ pending[k].id \notin Away \cup cancelled
      BY <1>8, <3>1 DEF CancelInv, InTable
    <3>3. \A l \in gone : pending[k].id # pending[l].id
      BY <1>10, <3>1 DEF CancelInv, InTable
    <3>4. pending[k].id \notin cancelled'
      BY <1>9, <3>2, <3>3
    <3>5. pending[k].id <= messages'
      BY <1>7, <3>2
    <3> QED
      BY <1>1, <3>1, <3>2, <3>4, <3>5
  <2> QED
    BY <1>4, <1>6, <2>1 DEF CancelInv, InTable
<1>13. Away' \cap cancelled' = {}
  BY <1>1, <1>9, <1>10 DEF CancelInv, InTable
<1>14. \A n \in Away' \cup cancelled' : n \in Nat /\ n <= messages'
  <2>1. \A n \in Away' \cup cancelled' : n \in Nat /\ n <= messages
    BY <1>1, <1>8, <1>9, <1>10 DEF CancelInv, InTable
  <2> QED
    BY <1>7, <2>1
<1> QED
  BY <1>11, <1>12, <1>13, <1>14 DEF CancelInv

LEMMA CandidateCancels ==
    ASSUME MonitorInv, CancelInv, NEW h \in Handlers, NEW p \in Payload,
           NEW priority \in Priorities, HandleCandidate(h, p, priority)
    PROVE  CancelInv'
<1>1. Away' = Away /\ cancelled' = cancelled /\ pending' = pending
  BY DEF HandleCandidate, Away, waiting, history
<1>2. messages \in Nat /\ messages' = messages + 1
  BY DEF HandleCandidate, Posted, MonitorInv, ClockTyped
<1>3. PICK v : handler' = [handler EXCEPT ![h] = v]
               /\ (v.at = "checked" => v.id = messages + 1)
  <2>1. PICK v : v = IF RecentlyPublished(p) THEN Idle
                     ELSE [at |-> "checked", id |-> messages + 1, payload |-> p,
                           priority |-> priority]
    OBVIOUS
  <2>2. v.at = "checked" => v.id = messages + 1
    BY <2>1 DEF Idle
  <2> QED
    BY <2>1, <2>2 DEF HandleCandidate
<1>4. \A g \in Handlers :
        /\ g # h => handler'[g] = handler[g]
        /\ g = h /\ handler'[g].at = "checked" => handler'[g].id = messages + 1
  BY <1>3 DEF MonitorInv, HandlersTyped
<1>5. /\ \A g \in Handlers : handler[g].at = "checked" => handler[g].id \in Nat
      /\ \A k \in DOMAIN pending : pending[k].id \in Nat
  BY HandlerKinds DEF MonitorInv, HandlersTyped, TableTyped, Candidate
<1>6. \A n \in Nat : n <= messages => n # messages + 1 /\ n <= messages'
  BY <1>2
<1>7. messages + 1 \in Nat /\ messages + 1 <= messages'
  BY <1>2
<1>8. /\ \A n \in Away \cup cancelled : n # messages + 1 /\ n \in Nat /\ n <= messages'
      /\ \A k \in DOMAIN pending : pending[k].id # messages + 1 /\ pending[k].id <= messages'
      /\ \A g \in Handlers : handler[g].at = "checked" =>
            handler[g].id # messages + 1 /\ handler[g].id <= messages'
  BY <1>5, <1>6 DEF CancelInv, OnTheWay, InTable
<1>9. OnTheWay'
  BY <1>1, <1>4, <1>7, <1>8 DEF CancelInv, OnTheWay
<1>10. InTable'
  BY <1>1, <1>4, <1>8 DEF CancelInv, InTable
<1> QED
  BY <1>1, <1>8, <1>9, <1>10 DEF CancelInv

LEMMA InsertCancels ==
    ASSUME MonitorInv, CancelInv, NEW h \in Handlers, InsertCandidate(h)
    PROVE  CancelInv'
<1>1. Away' = Away /\ cancelled' = cancelled /\ messages' = messages
  BY DEF InsertCandidate, Away
<1>2. PICK c, k : c = handler[h] /\ k = c.payload.key
  OBVIOUS
<1>3. /\ c.at = "checked"
      /\ DOMAIN pending' = DOMAIN pending \cup {k}
      /\ \A x \in DOMAIN pending : x # k => pending'[x] = pending[x]
      /\ pending'[k].id = c.id \/ (k \in DOMAIN pending /\ pending'[k] = pending[k])
  BY <1>2, InsertFacts
<1>4. \A g \in Handlers :
        /\ g # h => handler'[g] = handler[g]
        /\ g = h => handler'[g].at # "checked"
  BY DEF InsertCandidate, MonitorInv, HandlersTyped, Idle
<1>5. OnTheWay'
  BY <1>1, <1>4 DEF CancelInv, OnTheWay
<1>6. /\ c.id <= messages /\ c.id \notin Away \cup cancelled
      /\ \A g \in Handlers : g # h /\ handler[g].at = "checked" => handler[g].id # c.id
      /\ \A x \in DOMAIN pending : c.id # pending[x].id
  BY <1>2, <1>3 DEF CancelInv, OnTheWay, InTable
<1>7. ASSUME NEW x \in DOMAIN pending'
      PROVE  \/ x \in DOMAIN pending /\ pending'[x] = pending[x]
             \/ x = k /\ pending'[x].id = c.id
  BY <1>3
<1>8. InTable'
  <2>1. \A x \in DOMAIN pending' :
          pending'[x].id <= messages /\ pending'[x].id \notin Away \cup cancelled
    BY <1>6, <1>7 DEF CancelInv, InTable
  <2>2. \A x, y \in DOMAIN pending' : x # y => pending'[x].id # pending'[y].id
    BY <1>6, <1>7 DEF CancelInv, InTable
  <2>3. \A g \in Handlers, x \in DOMAIN pending' :
          handler'[g].at = "checked" => handler'[g].id # pending'[x].id
    BY <1>4, <1>6, <1>7 DEF CancelInv, InTable
  <2> QED
    BY <1>1, <2>1, <2>2, <2>3 DEF InTable
<1> QED
  BY <1>1, <1>5, <1>8 DEF CancelInv

(* What is cancelled stays out of the way of a step that only removes from  *)
(* the table and takes for the fallback what was in it.                    *)
LEMMA LessInTable ==
    ASSUME CancelInv, UNCHANGED <<messages, handler, cancelled>>,
           NEW left, left = DOMAIN pending \ DOMAIN pending',
           DOMAIN pending' \subseteq DOMAIN pending,
           \A k \in DOMAIN pending' : pending'[k] = pending[k],
           \A n \in Away' : n \in Away \/ \E k \in left : n = pending[k].id,
           \A k \in DOMAIN pending : pending[k].id \in Nat
    PROVE  CancelInv'
<1>1. \A k \in left : k \in DOMAIN pending /\ k \notin DOMAIN pending'
  OBVIOUS
<1>2. \A n \in Away' : n \in Nat /\ n <= messages /\ n \notin cancelled
  BY <1>1 DEF CancelInv, InTable
<1>3. OnTheWay'
  <2>1. \A h \in Handlers : handler[h].at = "checked" => handler[h].id \notin Away'
    BY <1>1 DEF CancelInv, OnTheWay, InTable
  <2> QED
    BY <2>1 DEF CancelInv, OnTheWay
<1>4. InTable'
  <2>1. \A k \in DOMAIN pending' : pending[k].id \notin Away'
    BY <1>1 DEF CancelInv, InTable
  <2> QED
    BY <2>1 DEF CancelInv, InTable
<1> QED
  BY <1>2, <1>3, <1>4 DEF CancelInv

LEMMA ExtractCancels ==
    ASSUME MonitorInv, CancelInv, Extract
    PROVE  CancelInv'
<1>1. UNCHANGED <<messages, handler, cancelled, forwarded>>
  BY DEF Extract
<1>2. \A k \in DOMAIN pending : pending[k].id \in Nat
  BY DEF MonitorInv, TableTyped, Candidate
<1>3. CASE life # "running"
  <2>1. UNCHANGED <<pending, ready>>
    BY <1>3 DEF Extract
  <2>2. Away' = Away
    BY <1>1, <2>1 DEF Away
  <2> QED
    BY <1>1, <2>1, <2>2 DEF CancelInv, OnTheWay, InTable
<1>4. CASE life = "running"
  <2>1. PICK due : /\ due = {k \in DOMAIN pending : Due(k)}
                   /\ \A i \in 1 .. Len(ready') : \E k \in due : ready'[i] = pending[k]
                   /\ DOMAIN pending' = DOMAIN pending \ due
                   /\ \A k \in DOMAIN pending' : pending'[k] = pending[k]
    BY <1>4, ExtractFacts
  <2>2. due = DOMAIN pending \ DOMAIN pending'
    BY <2>1
  <2>3. \A n \in Away' : n \in Away \/ \E k \in due : n = pending[k].id
    BY <1>1, <2>1 DEF Away
  <2> QED
    BY <1>1, <1>2, <2>1, <2>2, <2>3, LessInTable
<1> QED
  BY <1>3, <1>4

LEMMA ForwardCancels ==
    ASSUME MonitorInv, CancelInv, Forward
    PROVE  CancelInv'
<1>1. UNCHANGED <<messages, handler, cancelled, pending>>
  BY DEF Forward
<1>2. Away' \subseteq Away
  <2>1. CASE ready = <<>>
    BY <2>1 DEF Forward, Away
  <2>2. CASE ready # <<>>
    <3>1. PICK C : C = Candidate /\ ready \in Seq(C) /\ forwarded \in Seq(C)
      BY DEF MonitorInv, WorkerTyped, FatesTyped
    <3>2. /\ Len(ready) >= 1 /\ ready' = Tail(ready) /\ Len(ready') = Len(ready) - 1
          /\ \A i \in 1 .. Len(ready') : ready'[i] = ready[i + 1]
      <4>1. ready' = Tail(ready)
        BY <2>2 DEF Forward
      <4>2. Len(Tail(ready)) = Len(ready) - 1
            /\ \A i \in 1 .. Len(Tail(ready)) : Tail(ready)[i] = ready[i + 1]
        BY <2>2, <3>1, HeadTailProperties
      <4>3. Len(ready) >= 1
        BY <2>2, <3>1
      <4> QED
        BY <4>1, <4>2, <4>3
    <3>3. PICK c : c = ready[1]
      OBVIOUS
    <3>4. /\ c \in C /\ forwarded' = Append(forwarded, c)
      BY <2>2, <3>1, <3>2, <3>3 DEF Forward
    <3>5. /\ Len(forwarded') = Len(forwarded) + 1
          /\ \A i \in 1 .. Len(forwarded') :
               forwarded'[i] = IF i <= Len(forwarded) THEN forwarded[i] ELSE c
      BY <3>1, <3>4, AppendProperties
    <3>6. \A i \in 1 .. Len(ready') : i + 1 \in 1 .. Len(ready)
      BY <3>1, <3>2
    <3>7. \A i \in 1 .. Len(forwarded') :
            (i \in 1 .. Len(forwarded) /\ forwarded'[i] = forwarded[i])
              \/ forwarded'[i] = c
      BY <3>1, <3>5
    <3>8. 1 \in 1 .. Len(ready)
      BY <3>1, <3>2
    <3>9. \A n \in Away' : \/ \E i \in 1 .. Len(ready') : n = ready'[i].id
                           \/ \E i \in 1 .. Len(forwarded') : n = forwarded'[i].id
      BY DEF Away
    <3>10. /\ \A i \in 1 .. Len(ready) : ready[i].id \in Away
           /\ \A i \in 1 .. Len(forwarded) : forwarded[i].id \in Away
      BY DEF Away
    <3>11. \A i \in 1 .. Len(ready') : ready'[i].id \in Away
      BY <3>2, <3>6, <3>10
    <3>12. \A i \in 1 .. Len(forwarded') : forwarded'[i].id \in Away
      BY <3>3, <3>7, <3>8, <3>10
    <3> QED
      BY <3>9, <3>11, <3>12
  <2> QED
    BY <2>1, <2>2
<1> QED
  BY <1>1, <1>2 DEF CancelInv, OnTheWay, InTable

LEMMA OthersCancel ==
    ASSUME MonitorInv, CancelInv, WorkerWake \/ Destroy \/ Join \/ Tick \/ UNCHANGED monitorVars
    PROVE  CancelInv'
<1>1. UNCHANGED <<messages, handler, cancelled, ready, forwarded>>
  BY DEF WorkerWake, Destroy, Join, Tick, monitorVars, waiting, history
<1>2. Away' = Away
  BY <1>1 DEF Away
<1>3. UNCHANGED pending \/ DOMAIN pending' = {}
  BY DEF WorkerWake, Destroy, Join, Tick, monitorVars, waiting, history
<1> QED
  BY <1>1, <1>2, <1>3 DEF CancelInv, OnTheWay, InTable

LEMMA DispatchCancels ==
    ASSUME MonitorInv, CancelInv, NEW h \in Handlers, Dispatch(h)
    PROVE  CancelInv'
<1>1. UNCHANGED <<messages, cancelled, ready, forwarded, pending>>
  BY DEF Dispatch, waiting
<1>2. Away' = Away
  BY <1>1 DEF Away
<1>3. \A g \in Handlers : handler'[g].at = "checked" => handler'[g] = handler[g]
  BY DEF Dispatch, MonitorInv, HandlersTyped, Idle
<1> QED
  BY <1>1, <1>2, <1>3 DEF CancelInv, OnTheWay, InTable

LEMMA CancelStep == MonitorInv /\ CancelInv /\ [MonitorNext]_monitorVars => CancelInv'
<1> SUFFICES ASSUME MonitorInv, CancelInv, [MonitorNext]_monitorVars PROVE CancelInv'
  OBVIOUS
<1>1. CASE \E h \in Handlers, p \in Payload : HandleSuccess(h, p)
  BY <1>1, SuccessCancels
<1>2. CASE \E h \in Handlers : Dispatch(h)
  BY <1>2, DispatchCancels
<1>3. CASE \E h \in Handlers, p \in Payload, priority \in Priorities :
              HandleCandidate(h, p, priority)
  BY <1>3, CandidateCancels
<1>4. CASE \E h \in Handlers : InsertCandidate(h)
  BY <1>4, InsertCancels
<1>5. CASE Worker
  BY <1>5, OthersCancel, ExtractCancels, ForwardCancels DEF Worker
<1>6. CASE Destroy \/ Join \/ Tick \/ Destroyed \/ UNCHANGED monitorVars
  BY <1>6, OthersCancel DEF Destroyed
<1> QED
  BY <1>1, <1>2, <1>3, <1>4, <1>5, <1>6 DEF MonitorNext

LEMMA CancelInvariant == MonitorSpec => []CancelInv
<1> QED
  BY MonitorInvariant, CancelInitial, CancelStep, PTL DEF MonitorSpec

(* With any number of handler threads, a candidate that waits in the table  *)
(* when a frame with its key succeeds never reaches the SSDV fallback       *)
(* (handle and candidateWorker, frame_monitor.cpp).                        *)
THEOREM CancelledStays == MonitorSpec => []CancelledNeverForwarded
<1>1. CancelInv => CancelledNeverForwarded
  BY DEF CancelInv, Away, CancelledNeverForwarded
<1> QED
  BY <1>1, CancelInvariant, PTL

(* GNU Radio runs the message handlers of a block on one thread.           *)
OneThread == \A g, h \in Handlers : g = h

(* With one handler thread, what has been published is known to whoever     *)
(* looks: no candidate with its bytes is on its way or waits.              *)
PublishedInv ==
    /\ \A h \in Handlers :
         /\ handler[h].at = "erased" => handler[h].payload.key \notin DOMAIN pending
         /\ handler[h].at = "checked" =>
              \A i \in 1 .. Len(recent) : recent[i].payload # handler[h].payload
    /\ PublishedNeverPending

LEMMA PublishedInitial == MonitorInit => PublishedInv
<1> SUFFICES ASSUME MonitorInit PROVE PublishedInv
  OBVIOUS
<1>1. DOMAIN pending = {}
  BY DEF MonitorInit
<1>2. \A h \in Handlers : handler[h] = Idle
  BY DEF MonitorInit
<1> QED
  BY <1>1, <1>2 DEF PublishedInv, PublishedNeverPending, Idle

(* What a dispatch of p, stamped s, remembers: the frames it remembered     *)
(* before but for some at the front, too old, and its own.                 *)
Remembered(p, s) ==
    \E c \in 0 .. Len(recent) :
      /\ Len(recent') >= Len(recent) - c
      /\ \A i \in 1 .. Len(recent) - c : recent'[i] = recent[c + i]
      /\ \A i \in 1 .. c : s - recent[i].sent > Window
      /\ c < Len(recent) => ~(s - recent[c + 1].sent > Window)
      /\ \/ /\ Len(recent') = Len(recent) - c
            /\ published' = published
            /\ Len(suppressed') = Len(suppressed) + 1
            /\ \A i \in 1 .. Len(suppressed) : suppressed'[i] = suppressed[i]
            /\ suppressed'[Len(suppressed')] = [stamp |-> s, payload |-> p]
            /\ \E i \in 1 .. Len(recent') : recent'[i].payload = p
         \/ /\ Len(recent') = Len(recent) - c + 1
            /\ recent'[Len(recent')] = [sent |-> s, payload |-> p]
            /\ suppressed' = suppressed
            /\ Len(published') = Len(published) + 1
            /\ \A i \in 1 .. Len(published) : published'[i] = published[i]
            /\ published'[Len(published')] = [stamp |-> s, payload |-> p]
            /\ \A i \in 1 .. Len(recent) - c : recent'[i].payload # p

LEMMA DispatchFacts ==
    ASSUME MonitorInv, NEW h \in Handlers, Dispatch(h)
    PROVE  LET p == handler[h].payload
               s == handler[h].stamp
           IN  /\ p \in Payload /\ s \in Nat
               /\ Remembered(p, s)
<1>1. PICK p, s : p = handler[h].payload /\ s = handler[h].stamp
  OBVIOUS
<1>2. p \in Payload /\ s \in Nat
  BY <1>1, HandlerKinds DEF Dispatch, MonitorInv, HandlersTyped
<1>3. PICK known : known = Prune(recent, s)
  OBVIOUS
<1>4. PICK R, Q : R = [sent : Nat, payload : Payload] /\ Q = [stamp : Nat, payload : Payload]
  OBVIOUS
<1>5. recent \in Seq(R) /\ published \in Seq(Q) /\ suppressed \in Seq(Q)
  BY <1>4 DEF MonitorInv, LogsTyped
<1>6. PICK c \in 0 .. Len(recent) :
        /\ known \in Seq([sent : Nat, payload : Payload])
        /\ Len(known) = Len(recent) - c
        /\ \A i \in 1 .. Len(recent) - c : known[i] = recent[c + i]
        /\ \A i \in 1 .. c : s - recent[i].sent > Window
        /\ c < Len(recent) => ~(s - recent[c + 1].sent > Window)
  <2>1. recent \in Seq([sent : Nat, payload : Payload])
    BY DEF MonitorInv, LogsTyped
  <2> QED
    BY <1>2, <1>3, <2>1, PruneFacts
<1>0. known \in Seq(R)
  BY <1>4, <1>6
<1>7. PICK a, b : /\ a = [sent |-> s, payload |-> p] /\ b = [stamp |-> s, payload |-> p]
                  /\ a \in R /\ b \in Q
  <2>1. /\ [stamp |-> s, payload |-> p] \in [stamp : Nat, payload : Payload]
        /\ [sent |-> s, payload |-> p] \in [sent : Nat, payload : Payload]
    BY <1>2
  <2> QED
    BY <1>4, <2>1
<1>8. \/ /\ suppressed' = Append(suppressed, b)
         /\ recent' = known /\ published' = published
         /\ IsDuplicate(known, p)
      \/ /\ recent' = Append(known, a)
         /\ published' = Append(published, b)
         /\ suppressed' = suppressed
         /\ ~IsDuplicate(known, p)
  BY <1>1, <1>3, <1>7, Zenon DEF Dispatch
<1>9. /\ Len(Append(suppressed, b)) = Len(suppressed) + 1
      /\ Append(suppressed, b)[Len(suppressed) + 1] = b
      /\ \A i \in 1 .. Len(suppressed) : Append(suppressed, b)[i] = suppressed[i]
  BY <1>5, <1>7, AppendProperties
<1>10. /\ Len(Append(published, b)) = Len(published) + 1
       /\ Append(published, b)[Len(published) + 1] = b
       /\ \A i \in 1 .. Len(published) : Append(published, b)[i] = published[i]
  BY <1>5, <1>7, AppendProperties
<1>11. /\ Len(Append(known, a)) = Len(known) + 1
       /\ Append(known, a)[Len(known) + 1] = a
       /\ \A i \in 1 .. Len(known) : Append(known, a)[i] = known[i]
  BY <1>0, <1>7, AppendProperties
<1>12. PICK m, n : m = Len(recent) - c /\ n = Len(recent)
  OBVIOUS
<1>13. m \in Nat /\ n \in Nat /\ Len(known) = m /\ n - c = m
  BY <1>5, <1>6, <1>12
<1>14. \A i \in 1 .. m : recent'[i] = known[i]
  BY <1>8, <1>11, <1>13
<1>15. \A i \in 1 .. m : recent'[i] = recent[c + i]
  BY <1>6, <1>12, <1>14
<1>16. ASSUME IsDuplicate(known, p) PROVE Remembered(p, s)
  <2>1. /\ Len(recent') = m /\ published' = published
        /\ Len(suppressed') = Len(suppressed) + 1
        /\ \A i \in 1 .. Len(suppressed) : suppressed'[i] = suppressed[i]
        /\ suppressed'[Len(suppressed')] = b
    BY <1>8, <1>9, <1>13, <1>16
  <2>2. \E i \in 1 .. Len(recent') : recent'[i].payload = p
    BY <1>13, <1>14, <1>16, <2>1 DEF IsDuplicate
  <2>3. /\ Len(recent') >= n - c /\ Len(recent') = n - c
        /\ \A i \in 1 .. n - c : recent'[i] = recent[c + i]
    BY <1>13, <1>15, <2>1
  <2> QED
    BY <1>6, <1>7, <1>12, <2>1, <2>2, <2>3 DEF Remembered
<1>17. ASSUME ~IsDuplicate(known, p) PROVE Remembered(p, s)
  <2>1. /\ Len(recent') = m + 1 /\ recent'[m + 1] = a /\ suppressed' = suppressed
        /\ Len(published') = Len(published) + 1
        /\ \A i \in 1 .. Len(published) : published'[i] = published[i]
        /\ published'[Len(published')] = b
    BY <1>8, <1>10, <1>11, <1>13, <1>17
  <2>2. \A i \in 1 .. m : recent'[i].payload # p
    BY <1>13, <1>14, <1>17 DEF IsDuplicate
  <2>3. /\ Len(recent') >= n - c /\ Len(recent') = n - c + 1
        /\ recent'[Len(recent')] = a
        /\ \A i \in 1 .. n - c : recent'[i] = recent[c + i]
        /\ \A i \in 1 .. n - c : recent'[i].payload # p
    BY <1>13, <1>15, <2>1, <2>2
  <2> QED
    BY <1>6, <1>7, <1>12, <2>1, <2>3 DEF Remembered
<1> QED
  BY <1>1, <1>2, <1>16, <1>17

LEMMA PublishedStep ==
    ASSUME OneThread, MonitorInv, PublishedInv, [MonitorNext]_monitorVars
    PROVE  PublishedInv'
<1>1. ASSUME NEW h \in Handlers, NEW p \in Payload, HandleSuccess(h, p)
      PROVE  PublishedInv'
  <2>1. /\ DOMAIN pending' = DOMAIN pending \ {p.key} /\ recent' = recent
        /\ \A k \in DOMAIN pending' : pending'[k] = pending[k]
    BY <1>1 DEF HandleSuccess, EraseCandidate, Without, CandidateKey
  <2>2. \A g \in Handlers : handler'[g].at = "erased" /\ handler'[g].payload = p
    BY <1>1 DEF HandleSuccess, MonitorInv, HandlersTyped, OneThread
  <2> QED
    BY <2>1, <2>2 DEF PublishedInv, PublishedNeverPending
<1>2. ASSUME NEW h \in Handlers, Dispatch(h)
      PROVE  PublishedInv'
  <2>1. \A g \in Handlers : handler'[g] = Idle
    BY <1>2 DEF Dispatch, MonitorInv, HandlersTyped, OneThread
  <2>2. PICK p : /\ p = handler[h].payload /\ p \in Payload
                 /\ p.key \notin DOMAIN pending /\ pending' = pending
    BY <1>2, DispatchFacts DEF Dispatch, PublishedInv
  <2>3. \A k \in DOMAIN pending : pending[k].payload # p
    BY <2>2 DEF MonitorInv, TableTyped
  <2>4. ASSUME NEW i \in 1 .. Len(recent')
        PROVE  \/ \E j \in 1 .. Len(recent) : recent'[i].payload = recent[j].payload
               \/ recent'[i].payload = p
    <3>1. PICK s : s = handler[h].stamp
      OBVIOUS
    <3>2. PICK c \in 0 .. Len(recent) :
            /\ \A j \in 1 .. Len(recent) - c : recent'[j] = recent[c + j]
            /\ \/ Len(recent') = Len(recent) - c
               \/ /\ Len(recent') = Len(recent) - c + 1
                  /\ recent'[Len(recent')] = [sent |-> s, payload |-> p]
      BY <1>2, <2>2, <3>1, DispatchFacts, ZenonT(40) DEF Remembered
    <3>3. Len(recent) \in Nat
      BY DEF MonitorInv, LogsTyped
    <3>4. CASE i \in 1 .. Len(recent) - c
      <4>1. c + i \in 1 .. Len(recent)
        BY <3>3, <3>4
      <4> QED
        BY <3>2, <3>4, <4>1
    <3>5. CASE i \notin 1 .. Len(recent) - c
      <4>1. i = Len(recent') /\ Len(recent') = Len(recent) - c + 1
        BY <3>2, <3>3, <3>5
      <4> QED
        BY <3>2, <3>3, <4>1
    <3> QED
      BY <3>4, <3>5
  <2>5. PublishedNeverPending'
    BY <2>2, <2>3, <2>4 DEF PublishedInv, PublishedNeverPending
  <2> QED
    BY <2>1, <2>5 DEF PublishedInv, Idle
<1>3. ASSUME NEW h \in Handlers, NEW p \in Payload, NEW priority \in Priorities,
             HandleCandidate(h, p, priority)
      PROVE  PublishedInv'
  <2>1. UNCHANGED <<recent, pending>>
    BY <1>3 DEF HandleCandidate
  <2>2. \A g \in Handlers : handler'[g] =
          IF RecentlyPublished(p) THEN Idle
          ELSE [at |-> "checked", id |-> messages + 1, payload |-> p,
                priority |-> priority]
    BY <1>3 DEF HandleCandidate, MonitorInv, HandlersTyped, OneThread
  <2>3. CASE RecentlyPublished(p)
    BY <2>1, <2>2, <2>3 DEF PublishedInv, PublishedNeverPending, Idle
  <2>4. CASE ~RecentlyPublished(p)
    <3>1. \A g \in Handlers : handler'[g].at = "checked" /\ handler'[g].payload = p
      BY <2>2, <2>4
    <3>2. \A i \in 1 .. Len(recent) : recent[i].payload # p
      BY <2>4 DEF RecentlyPublished
    <3> QED
      BY <2>1, <3>1, <3>2 DEF PublishedInv, PublishedNeverPending
  <2> QED
    BY <2>3, <2>4
<1>4. ASSUME NEW h \in Handlers, InsertCandidate(h)
      PROVE  PublishedInv'
  <2>1. \A g \in Handlers : handler'[g] = Idle
    BY <1>4 DEF InsertCandidate, MonitorInv, HandlersTyped, OneThread
  <2>2. PICK c, k : c = handler[h] /\ k = c.payload.key
    OBVIOUS
  <2>3. /\ c.at = "checked" /\ recent' = recent
        /\ DOMAIN pending' = DOMAIN pending \cup {k}
        /\ \A x \in DOMAIN pending : x # k => pending'[x] = pending[x]
        /\ \/ pending'[k].payload = c.payload
           \/ k \in DOMAIN pending /\ pending'[k] = pending[k]
    BY <1>4, <2>2, InsertFacts DEF InsertCandidate
  <2>4. \A i \in 1 .. Len(recent) : recent[i].payload # c.payload
    BY <2>2, <2>3 DEF PublishedInv
  <2>5. PublishedNeverPending'
    BY <2>3, <2>4 DEF PublishedInv, PublishedNeverPending
  <2> QED
    BY <2>1, <2>5 DEF PublishedInv, Idle
<1>5. ASSUME Extract
      PROVE  PublishedInv'
  <2>1. UNCHANGED <<recent, handler>>
    BY <1>5 DEF Extract
  <2>2. /\ DOMAIN pending' \subseteq DOMAIN pending
        /\ \A k \in DOMAIN pending' : pending'[k] = pending[k]
    <3>1. CASE life = "running"
      BY <1>5, <3>1, ExtractFacts
    <3>2. CASE life # "running"
      BY <1>5, <3>2 DEF Extract
    <3> QED
      BY <3>1, <3>2
  <2> QED
    BY <2>1, <2>2 DEF PublishedInv, PublishedNeverPending
<1>6. ASSUME WorkerWake \/ Forward \/ Join \/ Tick \/ Destroyed \/ UNCHANGED monitorVars
      PROVE  PublishedInv'
  <2>1. UNCHANGED <<recent, handler, pending>>
    BY <1>6 DEF WorkerWake, Forward, Join, Tick, Destroyed, monitorVars
  <2> QED
    BY <2>1 DEF PublishedInv, PublishedNeverPending
<1>7. ASSUME Destroy
      PROVE  PublishedInv'
  <2>1. UNCHANGED <<recent, handler>> /\ DOMAIN pending' = {}
    BY <1>7 DEF Destroy
  <2> QED
    BY <2>1 DEF PublishedInv, PublishedNeverPending
<1> QED
  BY <1>1, <1>2, <1>3, <1>4, <1>5, <1>6, <1>7 DEF MonitorNext, Worker

LEMMA PublishedInvariant ==
    ASSUME OneThread
    PROVE  MonitorSpec => []PublishedInv
<1>1. MonitorInv /\ PublishedInv /\ [MonitorNext]_monitorVars => PublishedInv'
  BY PublishedStep
<1> QED
  BY <1>1, MonitorInvariant, PublishedInitial, PTL DEF MonitorSpec

(* What a success beats, with one handler thread: the candidate that waits  *)
(* when a frame with its key succeeds is never forwarded, and a              *)
(* byte-identical copy of a frame that is remembered never waits. A failed   *)
(* copy with other bytes that comes later is not beaten (handle and          *)
(* handleLocalCandidate, frame_monitor.cpp).                                *)
THEOREM SuccessBeatsWhatWaits ==
    ASSUME OneThread
    PROVE  MonitorSpec => []SuccessWins
<1>1. CancelInv /\ PublishedInv => SuccessWins
  BY DEF CancelInv, Away, CancelledNeverForwarded, PublishedInv, SuccessWins
<1> QED
  BY <1>1, CancelInvariant, PublishedInvariant, PTL

(* With one handler thread the frames are stamped in the order in which     *)
(* they are dispatched.  What was published is remembered, or was published *)
(* more than the window before anything that comes.                        *)
StampsOrdered ==
    /\ \A h \in Handlers : handler[h].at = "erased" =>
          /\ handler[h].stamp <= now
          /\ \A i \in 1 .. Len(recent) : recent[i].sent <= handler[h].stamp
    /\ \A i \in 1 .. Len(recent) : recent[i].sent <= now
    /\ \A i, j \in 1 .. Len(recent) : i <= j => recent[i].sent <= recent[j].sent

RecentWasPublished ==
    \A i \in 1 .. Len(recent) : \E f \in 1 .. Len(published) :
        published[f].stamp = recent[i].sent /\ published[f].payload = recent[i].payload

PublishedIsRecent ==
    \A f \in 1 .. Len(published) :
        \/ \E i \in 1 .. Len(recent) : recent[i].payload = published[f].payload
                                    /\ recent[i].sent = published[f].stamp
        \/ /\ now - published[f].stamp > Window
           /\ \A h \in Handlers : handler[h].at = "erased" =>
                 handler[h].stamp - published[f].stamp > Window

SuppressedWas ==
    \A d \in 1 .. Len(suppressed) : \E f \in 1 .. Len(published) :
        /\ published[f].payload = suppressed[d].payload
        /\ suppressed[d].stamp - published[f].stamp <= Window

WindowInv ==
    /\ StampsOrdered /\ RecentWasPublished /\ PublishedIsRecent
    /\ NoDuplicateInWindow /\ SuppressedWas

LEMMA WindowInitial == MonitorInit => WindowInv
<1> SUFFICES ASSUME MonitorInit PROVE WindowInv
  OBVIOUS
<1>1. Len(recent) = 0 /\ Len(published) = 0 /\ Len(suppressed) = 0
  BY DEF MonitorInit
<1>2. \A h \in Handlers : handler[h].at # "erased"
  BY DEF MonitorInit, Idle
<1> QED
  BY <1>1, <1>2 DEF WindowInv, StampsOrdered, RecentWasPublished, PublishedIsRecent,
                    NoDuplicateInWindow, SuppressedWas

LEMMA LogFields ==
    ASSUME MonitorInv
    PROVE  /\ Len(recent) \in Nat /\ Len(published) \in Nat /\ Len(suppressed) \in Nat
           /\ \A i \in 1 .. Len(recent) : recent[i].sent \in Nat
           /\ \A i \in 1 .. Len(published) : published[i].stamp \in Nat
           /\ \A i \in 1 .. Len(suppressed) : suppressed[i].stamp \in Nat
<1>1. PICK R, Q : R = [sent : Nat, payload : Payload] /\ Q = [stamp : Nat, payload : Payload]
  OBVIOUS
<1>2. recent \in Seq(R) /\ published \in Seq(Q) /\ suppressed \in Seq(Q)
  BY <1>1 DEF MonitorInv, LogsTyped
<1>3. /\ \A i \in 1 .. Len(recent) : recent[i] \in R
      /\ \A i \in 1 .. Len(published) : published[i] \in Q
      /\ \A i \in 1 .. Len(suppressed) : suppressed[i] \in Q
  BY <1>2
<1>4. (\A r \in R : r.sent \in Nat) /\ (\A q \in Q : q.stamp \in Nat)
  BY <1>1
<1> QED
  BY <1>2, <1>3, <1>4

LEMMA SuccessKeepsWindow ==
    ASSUME OneThread, MonitorInv, WindowInv, NEW h \in Handlers, NEW p \in Payload,
           HandleSuccess(h, p)
    PROVE  WindowInv'
<1>1. UNCHANGED <<now, recent, published, suppressed>>
  BY DEF HandleSuccess
<1>2. \A g \in Handlers : handler'[g].at = "erased" /\ handler'[g].stamp = now
  BY DEF HandleSuccess, MonitorInv, HandlersTyped, OneThread
<1>3. now <= now
  BY DEF MonitorInv, ClockTyped
<1> QED
  BY <1>1, <1>2, <1>3 DEF WindowInv, StampsOrdered, RecentWasPublished,
                          PublishedIsRecent, NoDuplicateInWindow, SuppressedWas

LEMMA TickKeepsWindow ==
    ASSUME OneThread, MonitorInv, WindowInv, Tick
    PROVE  WindowInv'
<1>1. UNCHANGED <<handler, recent, published, suppressed>>
  BY DEF Tick, history
<1>2. now \in Nat /\ now' = now + 1
  BY DEF Tick, MonitorInv, ClockTyped
<1>3. Window \in Nat
  BY MonitorAssumption
<1>4. \A n \in Nat : (n <= now => n <= now') /\ (now - n > Window => now' - n > Window)
  BY <1>2, <1>3
<1>5. \A h \in Handlers : handler[h].at = "erased" => handler[h].stamp \in Nat
  BY HandlerKinds DEF MonitorInv, HandlersTyped
<1>6. StampsOrdered'
  BY <1>1, <1>4, <1>5, LogFields DEF WindowInv, StampsOrdered
<1>7. PublishedIsRecent'
  BY <1>1, <1>4, LogFields DEF WindowInv, PublishedIsRecent
<1> QED
  BY <1>1, <1>6, <1>7 DEF WindowInv, RecentWasPublished, NoDuplicateInWindow, SuppressedWas

(* The frames that a dispatch keeps are those that are not too old.        *)
LEMMA DispatchKeepsWindow ==
    ASSUME OneThread, MonitorInv, WindowInv, NEW h \in Handlers, Dispatch(h)
    PROVE  WindowInv'
<1>1. PICK p, s : p = handler[h].payload /\ s = handler[h].stamp
  OBVIOUS
<1>2. p \in Payload /\ s \in Nat /\ Remembered(p, s)
  BY <1>1, DispatchFacts
<1>3. PICK c \in 0 .. Len(recent) :
        /\ \A i \in 1 .. Len(recent) - c : recent'[i] = recent[c + i]
        /\ \A i \in 1 .. c : s - recent[i].sent > Window
        /\ c < Len(recent) => ~(s - recent[c + 1].sent > Window)
        /\ \/ /\ Len(recent') = Len(recent) - c
              /\ published' = published
              /\ Len(suppressed') = Len(suppressed) + 1
              /\ \A i \in 1 .. Len(suppressed) : suppressed'[i] = suppressed[i]
              /\ suppressed'[Len(suppressed')] = [stamp |-> s, payload |-> p]
              /\ \E i \in 1 .. Len(recent') : recent'[i].payload = p
           \/ /\ Len(recent') = Len(recent) - c + 1
              /\ recent'[Len(recent')] = [sent |-> s, payload |-> p]
              /\ suppressed' = suppressed
              /\ Len(published') = Len(published) + 1
              /\ \A i \in 1 .. Len(published) : published'[i] = published[i]
              /\ published'[Len(published')] = [stamp |-> s, payload |-> p]
              /\ \A i \in 1 .. Len(recent) - c : recent'[i].payload # p
  BY <1>2 DEF Remembered
<1>4. PICK n, m, np, ns : /\ n = Len(recent) /\ m = n - c
                          /\ np = Len(published) /\ ns = Len(suppressed)
  OBVIOUS
<1>5. /\ n \in Nat /\ c \in 0 .. n /\ m \in Nat /\ np \in Nat /\ ns \in Nat
      /\ n = c + m
  BY <1>4, LogFields
<1>6. /\ \A i \in 1 .. m : recent'[i] = recent[c + i]
      /\ \A i \in 1 .. c : s - recent[i].sent > Window
      /\ c < n => ~(s - recent[c + 1].sent > Window)
  BY <1>3, <1>4
\* The frame is suppressed, or published.
<1>7. \/ /\ Len(recent') = m /\ published' = published /\ Len(suppressed') = ns + 1
         /\ \A i \in 1 .. ns : suppressed'[i] = suppressed[i]
         /\ suppressed'[ns + 1].stamp = s /\ suppressed'[ns + 1].payload = p
         /\ \E i \in 1 .. m : recent'[i].payload = p
      \/ /\ Len(recent') = m + 1 /\ suppressed' = suppressed /\ Len(published') = np + 1
         /\ recent'[m + 1].sent = s /\ recent'[m + 1].payload = p
         /\ \A i \in 1 .. np : published'[i] = published[i]
         /\ published'[np + 1].stamp = s /\ published'[np + 1].payload = p
         /\ \A i \in 1 .. m : recent'[i].payload # p
  <2>1. PICK a, b : a = [sent |-> s, payload |-> p] /\ b = [stamp |-> s, payload |-> p]
    OBVIOUS
  <2>2. a.sent = s /\ a.payload = p /\ b.stamp = s /\ b.payload = p
    BY <2>1
  <2>3. \/ /\ Len(recent') = m /\ published' = published /\ Len(suppressed') = ns + 1
           /\ \A i \in 1 .. ns : suppressed'[i] = suppressed[i]
           /\ suppressed'[ns + 1] = b
           /\ \E i \in 1 .. m : recent'[i].payload = p
        \/ /\ Len(recent') = m + 1 /\ suppressed' = suppressed /\ Len(published') = np + 1
           /\ recent'[m + 1] = a
           /\ \A i \in 1 .. np : published'[i] = published[i]
           /\ published'[np + 1] = b
           /\ \A i \in 1 .. m : recent'[i].payload # p
    BY <1>3, <1>4, <2>1
  <2> QED
    BY <2>2, <2>3
<1>8. /\ now \in Nat /\ now' = now /\ s <= now /\ Window \in Nat
      /\ \A g \in Handlers : handler'[g].at # "erased"
  <2>1. now \in Nat /\ now' = now
    BY DEF Dispatch, MonitorInv, ClockTyped
  <2>2. \A g \in Handlers : handler'[g].at # "erased"
    BY DEF Dispatch, MonitorInv, HandlersTyped, OneThread, Idle
  <2>3. s <= now
    BY <1>1 DEF Dispatch, WindowInv, StampsOrdered
  <2> QED
    BY <2>1, <2>2, <2>3, MonitorAssumption
<1>9. /\ \A i \in 1 .. n : recent[i].sent <= s /\ recent[i].sent \in Nat
      /\ \A i, j \in 1 .. n : i <= j => recent[i].sent <= recent[j].sent
  BY <1>1, <1>4, LogFields DEF Dispatch, WindowInv, StampsOrdered
<1>10. /\ \A i \in 1 .. m : c + i \in 1 .. n
       /\ \A i \in 1 .. n : i \in 1 .. c \/ \E j \in 1 .. m : i = c + j
  <2>1. \A i \in 1 .. m : c + i \in 1 .. n
    BY <1>5
  <2>2. ASSUME NEW i \in 1 .. n, i \notin 1 .. c
        PROVE  i - c \in 1 .. m /\ i = c + (i - c)
    BY <1>5, <2>2
  <2> QED
    BY <2>1, <2>2
\* What is kept was sent within the window.
<1>11. \A i \in 1 .. m : s - recent'[i].sent <= Window
  <2> SUFFICES ASSUME NEW i \in 1 .. m PROVE s - recent'[i].sent <= Window
    OBVIOUS
  <2>1. c < n /\ c + 1 \in 1 .. n /\ c + i \in 1 .. n /\ c + 1 <= c + i
    BY <1>5
  <2>2. PICK a, b : a = recent[c + 1].sent /\ b = recent[c + i].sent
    OBVIOUS
  <2>3. a \in Nat /\ b \in Nat /\ a <= b
    BY <1>9, <2>1, <2>2
  <2>4. ~(s - a > Window)
    BY <1>6, <2>1, <2>2
  <2>5. s - b <= Window
    BY <1>2, <1>8, <2>3, <2>4
  <2> QED
    BY <1>6, <2>2, <2>5
<1>12. \A f \in 1 .. np : f \in 1 .. Len(published') /\ published'[f] = published[f]
  BY <1>4, <1>5, <1>7
\* What was published is kept, or too old.
<1>13. ASSUME NEW f \in 1 .. np
       PROVE  \/ \E i \in 1 .. m : recent'[i].payload = published[f].payload
                                  /\ recent'[i].sent = published[f].stamp
              \/ s - published[f].stamp > Window
  <2>1. CASE \E i \in 1 .. n : recent[i].payload = published[f].payload
                              /\ recent[i].sent = published[f].stamp
    <3>1. PICK i \in 1 .. n : recent[i].payload = published[f].payload
                             /\ recent[i].sent = published[f].stamp
      BY <2>1
    <3>2. CASE i \in 1 .. c
      <4>1. s - recent[i].sent > Window
        BY <1>6, <3>2
      <4> QED
        BY <3>1, <4>1
    <3>3. CASE \E j \in 1 .. m : i = c + j
      BY <1>6, <3>1, <3>3
    <3> QED
      BY <1>10, <3>2, <3>3
  <2>2. CASE ~\E i \in 1 .. n : recent[i].payload = published[f].payload
                               /\ recent[i].sent = published[f].stamp
    BY <1>1, <1>4, <2>2 DEF WindowInv, PublishedIsRecent, Dispatch
  <2> QED
    BY <2>1, <2>2
<1>14. StampsOrdered'
  <2>1. \A i \in 1 .. m : recent'[i].sent <= s /\ recent'[i].sent \in Nat
    BY <1>6, <1>9, <1>10
  <2>2. \A i \in 1 .. Len(recent') : i \in 1 .. m \/ (i = m + 1 /\ recent'[i].sent = s)
    <3>1. CASE Len(recent') = m
      BY <3>1
    <3>2. CASE Len(recent') = m + 1 /\ recent'[m + 1].sent = s
      BY <1>5, <3>2
    <3> QED
      BY <1>7, <3>1, <3>2
  <2>3. s <= s
    BY <1>2
  <2>4. \A i \in 1 .. Len(recent') : recent'[i].sent <= s /\ recent'[i].sent \in Nat
    BY <1>2, <2>1, <2>2, <2>3
  <2>5. \A x \in Nat : x <= s => x <= now
    BY <1>2, <1>8
  <2>6. ASSUME NEW i \in 1 .. Len(recent'), NEW j \in 1 .. Len(recent'), i <= j
        PROVE  recent'[i].sent <= recent'[j].sent
    <3>1. CASE j \in 1 .. m
      <4>1. i \in 1 .. m /\ c + i <= c + j
        BY <1>5, <2>6, <3>1
      <4> QED
        BY <1>6, <1>9, <1>10, <3>1, <4>1
    <3>2. CASE recent'[j].sent = s
      BY <2>4, <3>2
    <3> QED
      BY <2>2, <3>1, <3>2
  <2> QED
    BY <1>8, <2>4, <2>5, <2>6 DEF StampsOrdered
<1>15. ASSUME NEW i \in 1 .. m
       PROVE  \E f \in 1 .. Len(published') : /\ published'[f].stamp = recent'[i].sent
                                              /\ published'[f].payload = recent'[i].payload
  <2>1. c + i \in 1 .. n /\ recent'[i] = recent[c + i]
    BY <1>6, <1>10
  <2>2. PICK f \in 1 .. np :
          /\ published[f].stamp = recent[c + i].sent
          /\ published[f].payload = recent[c + i].payload
    BY <1>4, <2>1 DEF WindowInv, RecentWasPublished
  <2> QED
    BY <1>12, <2>1, <2>2
<1>16. RecentWasPublished'
  <2> SUFFICES ASSUME NEW i \in 1 .. Len(recent')
               PROVE  \E f \in 1 .. Len(published') :
                        /\ published'[f].stamp = recent'[i].sent
                        /\ published'[f].payload = recent'[i].payload
    BY DEF RecentWasPublished
  <2>1. CASE Len(recent') = m
    BY <1>15, <2>1
  <2>2. CASE /\ Len(recent') = m + 1 /\ Len(published') = np + 1
             /\ recent'[m + 1].sent = s /\ recent'[m + 1].payload = p
             /\ published'[np + 1].stamp = s /\ published'[np + 1].payload = p
    <3>1. i \in 1 .. m \/ i = m + 1
      BY <1>5, <2>2
    <3>2. np + 1 \in 1 .. Len(published')
      BY <1>5, <2>2
    <3> QED
      BY <1>15, <2>2, <3>1, <3>2
  <2> QED
    BY <1>7, <2>1, <2>2
<1>17. PublishedIsRecent'
  <2> SUFFICES ASSUME NEW f \in 1 .. Len(published')
               PROVE  \/ \E i \in 1 .. Len(recent') :
                            /\ recent'[i].payload = published'[f].payload
                            /\ recent'[i].sent = published'[f].stamp
                      \/ now' - published'[f].stamp > Window
    BY <1>8 DEF PublishedIsRecent
  <2>1. CASE f \in 1 .. np
    <3>1. published'[f] = published[f] /\ published[f].stamp \in Nat
      BY <1>4, <1>12, <2>1, LogFields
    <3>2. PICK t : t = published[f].stamp
      OBVIOUS
    <3>3. s - t > Window => now - t > Window
      BY <1>2, <1>8, <3>1, <3>2
    <3>4. \A i \in 1 .. m : i \in 1 .. Len(recent')
      BY <1>5, <1>7
    <3> QED
      BY <1>8, <1>13, <2>1, <3>1, <3>2, <3>3, <3>4
  <2>2. CASE f \notin 1 .. np
    <3>1. Len(published') # np
      BY <2>2
    <3>2. /\ Len(recent') = m + 1 /\ Len(published') = np + 1
          /\ recent'[m + 1].sent = s /\ recent'[m + 1].payload = p
          /\ published'[np + 1].stamp = s /\ published'[np + 1].payload = p
      BY <1>4, <1>7, <3>1
    <3>3. f = np + 1 /\ m + 1 \in 1 .. Len(recent')
      BY <1>5, <2>2, <3>2
    <3> QED
      BY <3>2, <3>3
  <2> QED
    BY <2>1, <2>2
<1>18. NoDuplicateInWindow'
  <2> SUFFICES ASSUME NEW i \in 1 .. Len(published'), NEW j \in 1 .. Len(published'),
                      i < j, published'[i].payload = published'[j].payload
               PROVE  published'[j].stamp - published'[i].stamp > Window
    BY DEF NoDuplicateInWindow
  <2>1. CASE published' = published
    BY <2>1 DEF WindowInv, NoDuplicateInWindow
  <2>2. CASE /\ Len(published') = np + 1
             /\ published'[np + 1].stamp = s /\ published'[np + 1].payload = p
             /\ \A x \in 1 .. m : recent'[x].payload # p
    <3>1. i \in 1 .. np /\ (j \in 1 .. np \/ j = np + 1)
      BY <1>5, <2>2
    <3>2. CASE j \in 1 .. np
      <4>1. published'[i] = published[i] /\ published'[j] = published[j]
        BY <1>12, <3>1, <3>2
      <4> QED
        BY <1>4, <3>1, <3>2, <4>1 DEF WindowInv, NoDuplicateInWindow
    <3>3. CASE j = np + 1
      <4>1. published'[i] = published[i]
        BY <1>12, <3>1
      <4>2. published[i].payload = p
        BY <2>2, <3>3, <4>1
      <4>3. s - published[i].stamp > Window
        BY <1>13, <2>2, <3>1, <4>2
      <4> QED
        BY <2>2, <3>3, <4>1, <4>3
    <3> QED
      BY <3>1, <3>2, <3>3
  <2> QED
    BY <1>7, <2>1, <2>2
<1>19. SuppressedWas'
  <2> SUFFICES ASSUME NEW d \in 1 .. Len(suppressed')
               PROVE  \E f \in 1 .. Len(published') :
                        /\ published'[f].payload = suppressed'[d].payload
                        /\ suppressed'[d].stamp - published'[f].stamp <= Window
    BY DEF SuppressedWas
  <2>1. CASE d \in 1 .. ns
    <3>1. suppressed'[d] = suppressed[d]
      BY <1>7, <2>1
    <3>2. PICK f \in 1 .. np :
            /\ published[f].payload = suppressed[d].payload
            /\ suppressed[d].stamp - published[f].stamp <= Window
      BY <1>4, <2>1 DEF WindowInv, SuppressedWas
    <3> QED
      BY <1>12, <3>1, <3>2
  <2>2. CASE d \notin 1 .. ns
    <3>1. Len(suppressed') # ns
      BY <2>2
    <3>2. /\ Len(suppressed') = ns + 1
          /\ suppressed'[ns + 1].stamp = s /\ suppressed'[ns + 1].payload = p
          /\ \E i \in 1 .. m : recent'[i].payload = p
      BY <1>4, <1>7, <3>1
    <3>3. d = ns + 1
      BY <1>5, <2>2, <3>2
    <3>4. PICK i \in 1 .. m : recent'[i].payload = p
      BY <3>2
    <3>5. PICK f \in 1 .. Len(published') : /\ published'[f].stamp = recent'[i].sent
                                           /\ published'[f].payload = recent'[i].payload
      BY <1>15
    <3>6. s - published'[f].stamp <= Window
      BY <1>11, <3>5
    <3> QED
      BY <3>2, <3>3, <3>4, <3>5, <3>6
  <2> QED
    BY <2>1, <2>2
<1> QED
  BY <1>14, <1>16, <1>17, <1>18, <1>19 DEF WindowInv

LEMMA WindowStep ==
    ASSUME OneThread, MonitorInv, WindowInv, [MonitorNext]_monitorVars
    PROVE  WindowInv'
<1>1. CASE \E h \in Handlers, p \in Payload : HandleSuccess(h, p)
  BY <1>1, SuccessKeepsWindow
<1>2. CASE \E h \in Handlers : Dispatch(h)
  BY <1>2, DispatchKeepsWindow
<1>3. CASE Tick
  BY <1>3, TickKeepsWindow
<1>4. ASSUME \/ \E h \in Handlers, p \in Payload, priority \in Priorities :
                   HandleCandidate(h, p, priority)
             \/ \E h \in Handlers : InsertCandidate(h)
             \/ Worker \/ Destroy \/ Join \/ Destroyed \/ UNCHANGED monitorVars
      PROVE  WindowInv'
  <2>1. UNCHANGED <<now, recent, published, suppressed>>
    BY <1>4 DEF HandleCandidate, InsertCandidate, Worker, WorkerWake, Extract, Forward,
                Destroy, Join, Destroyed, monitorVars, waiting, history
  <2>2. \A g \in Handlers : handler'[g].at = "erased" => handler'[g] = handler[g]
    <3>1. CASE \E h \in Handlers, p \in Payload, priority \in Priorities :
                  HandleCandidate(h, p, priority)
      <4>1. PICK h \in Handlers, p \in Payload, priority \in Priorities :
              HandleCandidate(h, p, priority)
        BY <3>1
      <4>2. PICK v : /\ v = IF RecentlyPublished(p) THEN Idle
                            ELSE [at |-> "checked", id |-> messages + 1, payload |-> p,
                                  priority |-> priority]
                     /\ handler' = [handler EXCEPT ![h] = v]
        BY <4>1 DEF HandleCandidate
      <4>3. v.at # "erased"
        BY <4>2 DEF Idle
      <4> QED
        BY <4>2, <4>3 DEF MonitorInv, HandlersTyped
    <3>2. CASE \E h \in Handlers : InsertCandidate(h)
      BY <3>2 DEF InsertCandidate, MonitorInv, HandlersTyped, Idle
    <3>3. CASE Worker \/ Destroy \/ Join \/ Destroyed \/ UNCHANGED monitorVars
      BY <3>3 DEF Worker, WorkerWake, Extract, Forward, Destroy, Join, Destroyed, monitorVars
    <3> QED
      BY <1>4, <3>1, <3>2, <3>3
  <2> QED
    BY <2>1, <2>2 DEF WindowInv, StampsOrdered, RecentWasPublished, PublishedIsRecent,
                      NoDuplicateInWindow, SuppressedWas
<1> QED
  BY <1>1, <1>2, <1>3, <1>4 DEF MonitorNext

(* With one handler thread, what is published is each frame once per        *)
(* duplicate window, and only a copy of a frame published within it is       *)
(* suppressed (handle, frame_monitor.cpp).                                  *)
THEOREM OncePerWindow ==
    ASSUME OneThread
    PROVE  MonitorSpec => []CopiesSuppressed
<1>1. MonitorInv /\ WindowInv /\ [MonitorNext]_monitorVars => WindowInv'
  BY WindowStep
<1>2. MonitorInv /\ WindowInv => CopiesSuppressed
  <2> SUFFICES ASSUME MonitorInv, WindowInv PROVE CopiesSuppressed
    OBVIOUS
  <2>1. ASSUME NEW d \in ToSet(suppressed)
        PROVE  \E f \in ToSet(published) :
                 f.payload = d.payload /\ d.stamp - f.stamp <= Window
    <3>1. DOMAIN suppressed = 1 .. Len(suppressed) /\ DOMAIN published = 1 .. Len(published)
      BY DEF MonitorInv, LogsTyped
    <3>2. PICK i \in 1 .. Len(suppressed) : d = suppressed[i]
      BY <2>1, <3>1 DEF ToSet
    <3>3. PICK j \in 1 .. Len(published) :
            /\ published[j].payload = suppressed[i].payload
            /\ suppressed[i].stamp - published[j].stamp <= Window
      BY DEF WindowInv, SuppressedWas
    <3>4. published[j] \in ToSet(published)
      BY <3>1 DEF ToSet
    <3> QED
      BY <3>2, <3>3, <3>4
  <2>2. SuppressedWasPublished
    BY <2>1 DEF SuppressedWasPublished
  <2> QED
    BY <2>2, MonitorTyped DEF WindowInv, CopiesSuppressed
<1> QED
  BY <1>1, <1>2, WindowInitial, MonitorInvariant, PTL DEF MonitorSpec

-----------------------------------------------------------------------------

(***************************************************************************)
(* The window of the images.                                                *)
(***************************************************************************)

ReceiverTyped ==
    /\ current \in Image \cup {Nothing} /\ started \in 0 .. MaxImages
    /\ generation \in 0 .. MaxClears
    /\ prepared \in Update \cup {NoUpdate}
    /\ posted \in Seq(Update) /\ Len(posted) <= MaxPosted

WindowTyped ==
    /\ gallery \in Seq(Image) /\ Len(gallery) <= MaxGallery
    /\ index \in 0 .. Len(gallery)
    /\ shown \in Image \cup {Nothing}

(* The window clears with the receiver, and each image is in the gallery    *)
(* once.                                                                   *)
GalleryInv ==
    /\ ReceiverTyped /\ WindowTyped /\ minimum = generation
    /\ ShownIsSelected
    /\ \A i, j \in 1 .. Len(gallery) : gallery[i] = gallery[j] => i = j

LEMMA GalleryInitial == GalleryInit => GalleryInv
<1> SUFFICES ASSUME GalleryInit PROVE GalleryInv
  OBVIOUS
<1>1. ReceiverTyped
  BY GalleryAssumption DEF GalleryInit, ReceiverTyped
<1>2. WindowTyped
  BY GalleryAssumption DEF GalleryInit, WindowTyped
<1> QED
  BY <1>1, <1>2 DEF GalleryInit, GalleryInv, ShownIsSelected

(* The gallery after an update of image u: u is in it once, at its end when *)
(* it is new, and the others are where they were, one place further to the  *)
(* front when the oldest had to leave.                                     *)
(* Lengths: n of the gallery, l with the image of the update, m of what is   *)
(* kept.                                                                   *)
GalleryWith(u, kept, n, l, m) ==
    /\ n \in Nat /\ kept \in Seq(Image) /\ m \in 1 .. MaxGallery
    /\ \A i, j \in 1 .. m : kept[i] = kept[j] => i = j
    /\ \/ l = n /\ m = n /\ kept = gallery /\ \E i \in 1 .. n : kept[i] = u
       \/ /\ l = n + 1 /\ kept[m] = u
          /\ m = n + 1 \/ (m = n /\ n = MaxGallery)
          /\ \A i \in 1 .. n : gallery[i] # u
          /\ \A i \in 1 .. m : i < m =>
                i + (l - m) \in 1 .. n /\ kept[i] = gallery[i + (l - m)]

LEMMA KeptFacts ==
    ASSUME GalleryInv, NEW u \in Image,
           NEW images, images = IF Known(u) THEN gallery ELSE Append(gallery, u),
           NEW kept, kept = Trimmed(images)
    PROVE  GalleryWith(u, kept, Len(gallery), Len(images), Len(kept))
<1>1. PICK n, l, m, d : n = Len(gallery) /\ l = Len(images) /\ m = Len(kept) /\ d = l - m
  OBVIOUS
<1>2. /\ gallery \in Seq(Image) /\ n \in Nat /\ n <= MaxGallery /\ MaxGallery \in Nat \ {0}
      /\ DOMAIN gallery = 1 .. n
      /\ \A i, j \in 1 .. n : gallery[i] = gallery[j] => i = j
  BY <1>1, GalleryAssumption DEF GalleryInv, WindowTyped
<1>3. ASSUME Known(u) PROVE GalleryWith(u, kept, n, l, m)
  <2>1. images = gallery /\ kept = gallery
    BY <1>2, <1>3 DEF Trimmed
  <2>2. PICK i \in 1 .. n : gallery[i] = u
    BY <1>2, <1>3 DEF Known, ToSet
  <2>3. n \in 1 .. MaxGallery /\ n - n = 0 /\ ~(n > MaxGallery)
    BY <1>2, <2>2
  <2> QED
    <3>1. m = n /\ l = n
      BY <1>1, <2>1
    <3>2. kept \in Seq(Image) /\ m \in 1 .. MaxGallery
          /\ \A x, y \in 1 .. m : kept[x] = kept[y] => x = y
      BY <1>2, <2>1, <2>3, <3>1
    <3> QED
      BY <1>2, <2>1, <2>2, <3>1, <3>2 DEF GalleryWith
<1>4. ASSUME ~Known(u) PROVE GalleryWith(u, kept, n, l, m)
  <2>1. images = Append(gallery, u)
    BY <1>4
  <2>2. /\ images \in Seq(Image) /\ Len(images) = n + 1 /\ images[n + 1] = u
        /\ \A i \in 1 .. n : images[i] = gallery[i]
    BY <1>2, <2>1, AppendFacts
  <2>3. \A i \in 1 .. n : gallery[i] # u
    BY <1>2, <1>4 DEF Known, ToSet
  <2>4. \A i, j \in 1 .. n + 1 : images[i] = images[j] => i = j
    <3>1. \A i \in 1 .. n + 1 : i \in 1 .. n \/ i = n + 1
      BY <1>2
    <3> QED
      BY <1>2, <2>2, <2>3, <3>1
  <2>5. CASE n + 1 <= MaxGallery
    <3>1. kept = images
      BY <1>2, <2>2, <2>5 DEF Trimmed
    <3>2. n + 1 \in 1 .. MaxGallery /\ (n + 1) - (n + 1) = 0 /\ ~(n + 1 > MaxGallery)
      BY <1>2, <2>5
    <3>3. \A i \in 1 .. n + 1 : i < n + 1 => i + 0 \in 1 .. n /\ i + 0 = i
      BY <1>2
    <3>4. l = n + 1 /\ m = n + 1 /\ d = 0
      BY <1>1, <2>2, <3>1, <3>2
    <3>5. kept \in Seq(Image) /\ kept[m] = u
      BY <2>2, <3>1, <3>4
    <3>6. \A i \in 1 .. m : i < m => i + d \in 1 .. n /\ kept[i] = gallery[i + d]
      BY <2>2, <3>1, <3>3, <3>4
    <3> QED
      BY <1>1, <1>2, <2>3, <2>4, <3>1, <3>2, <3>4, <3>5, <3>6 DEF GalleryWith
  <2>6. CASE ~(n + 1 <= MaxGallery)
    <3>1. n = MaxGallery /\ n + 1 > MaxGallery
      BY <1>2, <2>6
    <3>2. kept = Tail(images) /\ images # <<>>
      BY <1>2, <2>2, <3>1 DEF Trimmed
    <3>3. /\ kept \in Seq(Image) /\ Len(kept) = n
          /\ \A i \in 1 .. n : kept[i] = images[i + 1] /\ i + 1 \in 1 .. n + 1
      <4>1. (n + 1) - 1 = n /\ \A i \in 1 .. n : i + 1 \in 1 .. n + 1
        BY <1>2
      <4>2. /\ Tail(images) \in Seq(Image) /\ Len(Tail(images)) = Len(images) - 1
            /\ \A i \in 1 .. Len(images) - 1 : Tail(images)[i] = images[i + 1]
        BY <2>2, <3>2, TailFacts
      <4> QED
        BY <2>2, <3>2, <4>1, <4>2
    <3>4. \A i, j \in 1 .. n : kept[i] = kept[j] => i = j
      <4> SUFFICES ASSUME NEW i \in 1 .. n, NEW j \in 1 .. n, kept[i] = kept[j]
                   PROVE  i = j
        OBVIOUS
      <4>1. images[i + 1] = images[j + 1] /\ i + 1 \in 1 .. n + 1 /\ j + 1 \in 1 .. n + 1
        BY <3>3
      <4>2. i + 1 = j + 1
        BY <2>4, <4>1
      <4> QED
        BY <1>2, <4>2
    <3>5. n \in 1 .. MaxGallery /\ (n + 1) - n = 1 /\ n \in 1 .. n
      BY <1>2, <3>1
    <3>6. kept[n] = u
      BY <2>2, <3>3, <3>5
    <3>7. \A i \in 1 .. n : i < n => i + 1 \in 1 .. n /\ kept[i] = gallery[i + 1]
      <4> SUFFICES ASSUME NEW i \in 1 .. n, i < n
                   PROVE  i + 1 \in 1 .. n /\ kept[i] = gallery[i + 1]
        OBVIOUS
      <4>1. i + 1 \in 1 .. n
        BY <1>2
      <4> QED
        BY <2>2, <3>3, <4>1
    <3>8. l = n + 1 /\ m = n /\ d = 1
      BY <1>1, <2>2, <3>3, <3>5
    <3> QED
      <4>1. m \in 1 .. MaxGallery /\ \A x, y \in 1 .. m : kept[x] = kept[y] => x = y
        BY <3>4, <3>5, <3>8
      <4>2. \A i \in 1 .. m : i < m => i + (l - m) \in 1 .. n /\ kept[i] = gallery[i + (l - m)]
        BY <1>1, <3>7, <3>8
      <4>3. kept \in Seq(Image) /\ kept[m] = u /\ m = n /\ n = MaxGallery /\ l = n + 1
        BY <3>1, <3>3, <3>6, <3>8
      <4> QED
        BY <1>2, <2>3, <4>1, <4>2, <4>3 DEF GalleryWith
  <2> QED
    BY <2>5, <2>6
<1> QED
  BY <1>1, <1>3, <1>4

(* An update that is not of an older generation.                           *)
LEMMA UpdateShows ==
    ASSUME GalleryInv, UpdateImage, ~(Head(posted).generation < minimum)
    PROVE  /\ WindowTyped' /\ ShownIsSelected'
           /\ \A i, j \in 1 .. Len(gallery') : gallery'[i] = gallery'[j] => i = j
           /\ ShowsOnlyItself /\ NewestFollowed
<1>1. PICK u : u = Head(posted).image
  OBVIOUS
<1>2. u \in Image
  <2>1. Head(posted) \in Update
    BY TailFacts DEF UpdateImage, GalleryInv, ReceiverTyped
  <2> QED
    BY <1>1, <2>1 DEF Update
<1>3. PICK images, kept : /\ images = IF Known(u) THEN gallery ELSE Append(gallery, u)
                          /\ kept = Trimmed(images)
  OBVIOUS
<1>4. PICK n, m, l, d : n = Len(gallery) /\ m = Len(kept) /\ l = Len(images) /\ d = l - m
  OBVIOUS
<1>5. /\ n \in Nat /\ kept \in Seq(Image) /\ m \in 1 .. MaxGallery
      /\ \A i, j \in 1 .. m : kept[i] = kept[j] => i = j
      /\ \/ l = n /\ m = n /\ d = 0 /\ kept = gallery /\ \E i \in 1 .. n : kept[i] = u
         \/ /\ l = n + 1 /\ kept[m] = u
            /\ (d = 0 /\ m = n + 1) \/ (d = 1 /\ m = n /\ n = MaxGallery)
            /\ \A i \in 1 .. n : gallery[i] # u
            /\ \A i \in 1 .. m : i < m => i + d \in 1 .. n /\ kept[i] = gallery[i + d]
  <2>1. GalleryWith(u, kept, n, l, m)
    BY <1>2, <1>3, <1>4, KeptFacts
  <2>2. (l = n /\ m = n => d = 0) /\ (l = n + 1 /\ m = n + 1 => d = 0)
        /\ (l = n + 1 /\ m = n => d = 1)
    BY <1>4, <2>1 DEF GalleryWith
  <2> QED
    BY <1>4, <2>1, <2>2 DEF GalleryWith
<1>6. PICK new, selected : new = Position(kept, u) /\ selected = Selection(images)
  OBVIOUS
<1>7. new \in 1 .. m /\ kept[new] = u
  <2>1. DOMAIN kept = 1 .. m /\ m \in 1 .. m
    BY <1>4, <1>5
  <2>2. \E i \in DOMAIN kept : kept[i] = u
    BY <1>4, <1>5, <2>1
  <2> QED
    BY <1>6, <2>1, <2>2 DEF Position
<1>8. PICK i : i = IF Follows(new, selected, kept) THEN new ELSE selected
  OBVIOUS
<1>9. gallery' = kept /\ index' = i /\ shown' = kept[i]
  BY <1>1, <1>3, <1>6, <1>8 DEF UpdateImage, Show
<1>10. /\ index \in 0 .. n /\ MaxGallery \in Nat \ {0}
       /\ shown = IF index = 0 THEN Nothing ELSE gallery[index]
  BY <1>4, GalleryAssumption DEF GalleryInv, WindowTyped, ShownIsSelected
<1>11. selected = IF d = 1 /\ index > 1 THEN index - 1 ELSE index
  <2>1. d = 1 <=> l > MaxGallery
    BY <1>5, <1>10
  <2> QED
    BY <1>4, <1>6, <2>1 DEF Selection
<1>12. i = IF selected = 0 \/ selected = new \/ selected = m - 1 THEN new ELSE selected
  BY <1>4, <1>8 DEF Follows
<1>13. d = l - m /\ d \in {0, 1}
  BY <1>4, <1>5
\* The position on display, and where its image was.
<1>14. i \in 1 .. m
  BY <1>5, <1>7, <1>10, <1>11, <1>12, <1>13
<1>15. i = new \/ (i = selected /\ i # m - 1 /\ i # new /\ i # 0)
  BY <1>5, <1>7, <1>12
<1>16. WindowTyped'
  <2>1. kept[i] \in Image
    BY <1>4, <1>5, <1>14
  <2>2. Len(kept) <= MaxGallery
    BY <1>4, <1>5, <1>10
  <2>3. i \in 0 .. Len(kept)
    BY <1>4, <1>5, <1>14
  <2> QED
    BY <1>5, <1>9, <2>1, <2>2, <2>3 DEF WindowTyped
<1>17. ShownIsSelected'
  BY <1>9, <1>14 DEF ShownIsSelected
\* An image other than the one of the update.
<1>18. ASSUME i # new
       PROVE  \/ shown' = shown
              \/ shown = gallery[1] /\ d = 1 /\ index = 1
  <2>1. i = selected /\ i # m - 1 /\ i # 0
    BY <1>15, <1>18
  <2>2. CASE kept = gallery /\ d = 0
    BY <1>9, <1>10, <1>11, <2>1, <2>2
  <2>3. CASE /\ kept[m] = u
             /\ \A x \in 1 .. m : x < m => x + d \in 1 .. n /\ kept[x] = gallery[x + d]
    <3>1. i # m
      BY <1>5, <1>7, <1>14, <1>18, <2>3
    <3>2. i < m
      BY <1>5, <1>14, <3>1
    <3>3. kept[i] = gallery[i + d]
      BY <1>14, <2>3, <3>2
    <3>4. CASE d = 1 /\ index > 1
      <4>1. i + d = index /\ index # 0
        BY <1>10, <1>11, <2>1, <3>4
      <4> QED
        BY <1>9, <1>10, <3>3, <4>1
    <3>5. CASE d = 1 /\ ~(index > 1)
      <4>1. index = 1
        BY <1>10, <1>11, <2>1, <3>5
      <4> QED
        BY <1>10, <3>5, <4>1
    <3>6. CASE d = 0
      <4>1. i + d = index /\ index # 0
        BY <1>10, <1>11, <2>1, <3>6
      <4> QED
        BY <1>9, <1>10, <3>3, <4>1
    <3> QED
      BY <1>13, <3>4, <3>5, <3>6
  <2> QED
    BY <1>5, <2>2, <2>3
<1>19. ShowsOnlyItself
  <2>1. CASE i = new
    BY <1>1, <1>7, <1>9, <2>1 DEF ShowsOnlyItself
  <2>2. CASE i # new /\ shown' # shown
    <3>1. shown = gallery[1] /\ d = 1 /\ index = 1
      BY <1>18, <2>2
    <3>2. /\ kept[m] = u
          /\ \A x \in 1 .. n : gallery[x] # u
          /\ \A x \in 1 .. m : x < m => x + d \in 1 .. n /\ kept[x] = gallery[x + d]
      BY <1>5, <3>1
    <3>3. 1 \in 1 .. n /\ \A x, y \in 1 .. n : gallery[x] = gallery[y] => x = y
      BY <1>4, <1>5, <1>10, <3>1 DEF GalleryInv
    <3>4. ASSUME NEW x \in 1 .. m PROVE kept[x] # gallery[1]
      <4>1. CASE x = m
        BY <3>2, <3>3, <4>1
      <4>2. CASE x # m
        <5>1. x < m /\ x + 1 # 1
          BY <1>5, <4>2
        <5>2. x + 1 \in 1 .. n /\ kept[x] = gallery[x + 1]
          BY <3>1, <3>2, <5>1
        <5> QED
          BY <3>3, <5>1, <5>2
      <4> QED
        BY <4>1, <4>2
    <3>5. shown \notin ToSet(gallery')
      <4>1. DOMAIN kept = 1 .. m
        BY <1>4, <1>5
      <4> QED
        BY <1>9, <3>1, <3>4, <4>1 DEF ToSet
    <3> QED
      BY <3>1, <3>5 DEF ShowsOnlyItself
  <2> QED
    BY <2>1, <2>2 DEF ShowsOnlyItself
<1>20. NewestFollowed
  <2> SUFFICES ASSUME gallery # <<>>, shown = Newest PROVE shown' = Newest'
    BY DEF NewestFollowed
  <2>1. n \in 1 .. n
    BY <1>4, <1>5, EmptySeq DEF GalleryInv, WindowTyped
  <2>2. shown = gallery[n] /\ gallery[n] \in Image
    BY <1>4, <2>1 DEF Newest, GalleryInv, WindowTyped
  <2>3. index = n
    <3>1. gallery[n] # Nothing
      BY <2>2 DEF Image, Nothing
    <3>2. index # 0 /\ gallery[index] = gallery[n] /\ index \in 1 .. n
      BY <1>5, <1>10, <2>2, <3>1
    <3> QED
      BY <1>4, <2>1, <3>2 DEF GalleryInv
  <2>4. Newest' = kept[m]
    BY <1>4, <1>9 DEF Newest
  <2>5. CASE kept = gallery /\ d = 0
    <3>1. m = n /\ selected = n
      BY <1>4, <1>11, <2>3, <2>5
    <3>2. i = m
      BY <1>5, <1>12, <2>1, <3>1
    <3> QED
      BY <1>9, <2>4, <3>2
  <2>6. CASE l = n + 1 /\ kept[m] = u
    <3>1. new = m
      BY <1>5, <1>7, <2>6
    <3>2. m = n + 1 - d
      BY <1>5, <1>13, <2>6
    <3>3. i = m
      BY <1>5, <1>11, <1>12, <2>1, <2>3, <3>1, <3>2
    <3> QED
      BY <1>9, <2>4, <3>3
  <2> QED
    BY <1>5, <2>5, <2>6
<1> QED
  BY <1>4, <1>5, <1>9, <1>16, <1>17, <1>19, <1>20

LEMMA GalleryStep ==
    ASSUME GalleryInv, [GalleryNext]_galleryVars
    PROVE  /\ GalleryInv'
           /\ posted # <<>> /\ posted' = Tail(posted) => ShowsOnlyItself /\ NewestFollowed
<1>1. CASE ReceiverMakes
  <2>1. UNCHANGED <<generation, posted, window>>
    BY <1>1 DEF ReceiverMakes
  <2>2. started' \in 0 .. MaxImages /\ current' \in Image \cup {Nothing}
        /\ current' \in Image
    BY <1>1, GalleryAssumption DEF ReceiverMakes, GalleryInv, ReceiverTyped, Image, Nothing
  <2>3. prepared' \in Update
    BY <1>1, <2>2 DEF ReceiverMakes, GalleryInv, ReceiverTyped, Update
  <2>4. posted # <<>> => posted' # Tail(posted)
    <3>1. posted # <<>> => Len(Tail(posted)) # Len(posted)
      BY TailFacts DEF GalleryInv, ReceiverTyped
    <3> QED
      BY <2>1, <3>1
  <2>5. ReceiverTyped'
    BY <2>1, <2>2, <2>3 DEF GalleryInv, ReceiverTyped
  <2> QED
    BY <2>1, <2>4, <2>5 DEF GalleryInv, WindowTyped, ShownIsSelected, window
<1>2. CASE ReceiverPosts
  <2>1. UNCHANGED <<current, started, generation, window>>
    BY <1>2 DEF ReceiverPosts
  <2>2. /\ posted' = Append(posted, prepared) /\ prepared \in Update
        /\ posted \in Seq(Update) /\ Len(posted) < MaxPosted /\ prepared' = NoUpdate
    BY <1>2 DEF ReceiverPosts, GalleryInv, ReceiverTyped
  <2>3. posted' \in Seq(Update) /\ Len(posted') = Len(posted) + 1 /\ Len(posted) \in Nat
    BY <2>2, AppendFacts
  <2>4. posted # <<>> => posted' # Tail(posted)
    <3>1. posted # <<>> => Len(Tail(posted)) = Len(posted) - 1
      BY <2>2, TailFacts
    <3> QED
      BY <2>3, <3>1
  <2>5. Len(posted') <= MaxPosted
    BY <2>2, <2>3, GalleryAssumption
  <2>6. ReceiverTyped'
    BY <2>1, <2>2, <2>3, <2>5 DEF GalleryInv, ReceiverTyped
  <2> QED
    BY <2>1, <2>4, <2>6 DEF GalleryInv, WindowTyped, ShownIsSelected, window
<1>3. CASE UpdateImage
  <2>1. UNCHANGED <<current, started, generation, prepared, minimum>>
    BY <1>3 DEF UpdateImage, window
  <2>2. ReceiverTyped'
    <3>1. posted' \in Seq(Update) /\ Len(posted') = Len(posted) - 1 /\ Len(posted) \in Nat
      BY <1>3, TailFacts DEF UpdateImage, GalleryInv, ReceiverTyped
    <3>2. Len(posted') <= MaxPosted
      BY <3>1, GalleryAssumption DEF GalleryInv, ReceiverTyped
    <3> QED
      BY <2>1, <3>1, <3>2 DEF GalleryInv, ReceiverTyped
  <2>3. CASE Head(posted).generation < minimum
    <3>1. UNCHANGED window
      BY <1>3, <2>3 DEF UpdateImage
    <3> QED
      BY <2>1, <2>2, <3>1 DEF GalleryInv, WindowTyped, ShownIsSelected, window,
                              ShowsOnlyItself, NewestFollowed, Newest
  <2>4. CASE ~(Head(posted).generation < minimum)
    BY <1>3, <2>1, <2>2, <2>4, UpdateShows DEF GalleryInv
  <2> QED
    BY <2>3, <2>4
<1>4. ASSUME Browse \/ ClearDisplay \/ UNCHANGED galleryVars
      PROVE  posted # <<>> => posted' # Tail(posted)
  <2>1. posted' = posted
    BY <1>4 DEF Browse, ClearDisplay, galleryVars, receiver
  <2>2. posted # <<>> => Len(Tail(posted)) # Len(posted)
    BY TailFacts DEF GalleryInv, ReceiverTyped
  <2> QED
    BY <2>1, <2>2
<1>5. CASE Browse
  <2>1. UNCHANGED <<receiver, minimum>>
    BY <1>5 DEF Browse
  <2>2. PICK i \in 1 .. Len(gallery) : gallery' = gallery /\ index' = i /\ shown' = gallery[i]
    BY <1>5 DEF Browse, Show
  <2>3. WindowTyped' /\ ShownIsSelected'
    BY <2>2 DEF GalleryInv, WindowTyped, ShownIsSelected
  <2> QED
    BY <1>4, <1>5, <2>1, <2>2, <2>3 DEF GalleryInv, ReceiverTyped, receiver
<1>6. CASE ClearDisplay
  <2>1. UNCHANGED <<started, prepared, posted>>
    BY <1>6 DEF ClearDisplay
  <2>2. generation' \in 0 .. MaxClears /\ minimum' = generation' /\ current' = Nothing
    BY <1>6, GalleryAssumption DEF ClearDisplay, GalleryInv, ReceiverTyped
  <2>3. gallery' = <<>> /\ index' = 0 /\ shown' = Nothing
    BY <1>6 DEF ClearDisplay
  <2>4. WindowTyped' /\ ShownIsSelected' /\ Len(gallery') = 0
    BY <2>3, GalleryAssumption DEF WindowTyped, ShownIsSelected
  <2>5. ReceiverTyped'
    BY <2>1, <2>2 DEF GalleryInv, ReceiverTyped
  <2> QED
    BY <1>4, <1>6, <2>2, <2>4, <2>5 DEF GalleryInv
<1>7. CASE UNCHANGED galleryVars
  BY <1>4, <1>7 DEF galleryVars, receiver, window, GalleryInv, ReceiverTyped, WindowTyped,
                    ShownIsSelected
<1> QED
  BY <1>1, <1>2, <1>3, <1>5, <1>6, <1>7 DEF GalleryNext, Quiet

(* What the operator looks at: after every step the selected image is on    *)
(* display, and an update takes the display neither to a third image nor     *)
(* away from the newest one, whatever has to leave a full gallery           *)
(* (updateImage and showGalleryImage, ssdv_image_window.cpp).                *)
THEOREM ViewKept == GallerySpec => UpdateKeepsView
<1>1. GalleryInv /\ [GalleryNext]_galleryVars => GalleryInv'
  BY GalleryStep
<1>2. GallerySpec => []GalleryInv
  BY <1>1, GalleryInitial, PTL DEF GallerySpec
<1>3. GalleryInv /\ GalleryInv' /\ [GalleryNext]_galleryVars =>
        [/\ GalleryTypeOK' /\ ShownIsSelected'
         /\ posted # <<>> /\ posted' = Tail(posted)
              => ShowsOnlyItself /\ NewestFollowed]_galleryVars
  <2> SUFFICES ASSUME GalleryInv, GalleryInv', [GalleryNext]_galleryVars
               PROVE  /\ GalleryTypeOK' /\ ShownIsSelected'
                      /\ posted # <<>> /\ posted' = Tail(posted)
                           => ShowsOnlyItself /\ NewestFollowed
    OBVIOUS
  <2>1. GalleryTypeOK'
    BY DEF GalleryInv, GalleryTypeOK, ReceiverTyped, WindowTyped
  <2>2. ShownIsSelected'
    BY DEF GalleryInv
  <2> QED
    BY <2>1, <2>2, GalleryStep
<1> QED
  BY <1>1, <1>2, <1>3, PTL DEF GallerySpec, UpdateKeepsView

-----------------------------------------------------------------------------

(***************************************************************************)
(* The recorder.                                                            *)
(***************************************************************************)

Chunk == Seq(Frame) \ {<<>>}

Before(S, T) == \A x \in S, y \in T : x < y

Ascends(s) == \A i, j \in 1 .. Len(s) : i < j => s[i] < s[j]

Ordered(cs) ==
    /\ \A i \in 1 .. Len(cs) : Ascends(cs[i])
    /\ \A i, j \in 1 .. Len(cs) : i < j => Before(Range(cs[i]), Range(cs[j]))

ThreadsTyped ==
    /\ graph \in {"running", "notifying", "joining", "stopped"}
    /\ stopping \in BOOLEAN
    /\ writer \in {"check", "block", "asleep", "write", "done"}

QueueTyped == chunks \in Seq(Chunk) /\ queued \in 0 .. MaxQueued

DiskTyped ==
    /\ files \in Seq(File) /\ files # <<>>
    /\ open \in BOOLEAN /\ writeFailed \in BOOLEAN
    /\ segment \in 0 .. MaxSegment

TakenTyped == taken \in 0 .. MaxTaken /\ dropped \subseteq 1 .. taken

(* The frames are, in the order in which they were taken, in the files, in  *)
(* the chunk that is written and in the queue, each of them once.          *)
QueueOrdered == Ordered(chunks) /\ Frames(chunks) \subseteq 1 .. taken

ChunkOrdered ==
    /\ chunk \in Seq(Frame) /\ Ascends(chunk)
    /\ Range(chunk) \subseteq 1 .. taken
    /\ Before(Range(chunk), Frames(chunks))

FilesOrdered ==
    /\ WrittenInOrder
    /\ Written \subseteq 1 .. taken
    /\ Before(Written, Range(chunk)) /\ Before(Written, Frames(chunks))

(* What the counter of the queue and the ends of the two threads agree on.  *)
CountsRight == queued = Size(chunks)

Ends ==
    /\ stopping <=> graph # "running"
    /\ writer # "write" => chunk = <<>>
    /\ writer = "done" => stopping /\ chunks = <<>>
    /\ graph = "stopped" => writer = "done"

(* The length that the next header will state is that of the open file.    *)
OpenFile ==
    /\ open => ~files[Current].closed /\ segment = Len(files[Current].data)
    /\ ~open => files[Current].closed /\ (writeFailed \/ graph = "stopped")
    /\ graph = "stopped" => ~open

(* No frame is lost before a write fails.                                  *)
AllThere ==
    ~writeFailed =>
        /\ Written \cup Range(chunk) \cup Frames(chunks) \cup dropped = 1 .. taken
        /\ dropped \cap (Written \cup Range(chunk) \cup Frames(chunks)) = {}

LengthsRight ==
    \A i \in DOMAIN files :
        /\ Len(files[i].data) <= MaxSegment
        /\ i < Current => Len(files[i].data) = MaxSegment
        /\ files[i].closed /\ ~writeFailed => files[i].header = Len(files[i].data)

RecorderInv ==
    /\ ThreadsTyped /\ QueueTyped /\ DiskTyped /\ TakenTyped
    /\ QueueOrdered /\ ChunkOrdered /\ FilesOrdered
    /\ CountsRight /\ Ends /\ OpenFile /\ AllThere /\ LengthsRight

LEMMA SeqMonotone ==
    ASSUME NEW S, NEW T, S \subseteq T, NEW s \in Seq(S)
    PROVE  s \in Seq(T)
  OBVIOUS

LEMMA ChunksAreFrames ==
    ASSUME NEW cs \in Seq(Chunk)
    PROVE  cs \in Seq(Seq(Frame))
<1>1. Chunk \subseteq Seq(Frame)
  BY DEF Chunk
<1> QED
  BY <1>1, SeqMonotone

LEMMA RangeIs ==
    ASSUME NEW S, NEW s \in Seq(S)
    PROVE  /\ Range(s) \subseteq S
           /\ \A x : x \in Range(s) <=> \E i \in 1 .. Len(s) : x = s[i]
  BY DEF Range

LEMMA EmptyRange == Range(<<>>) = {} /\ Frames(<<>>) = {}
  BY DEF Range, Frames

LEMMA FramesIs ==
    ASSUME NEW cs \in Seq(Seq(Frame))
    PROVE  /\ Frames(cs) \subseteq Frame
           /\ \A x : x \in Frames(cs) <=> \E i \in 1 .. Len(cs) : x \in Range(cs[i])
           /\ IsFiniteSet(Frames(cs)) /\ Size(cs) \in Nat
<1>1. \A x : x \in Frames(cs) <=> \E i \in 1 .. Len(cs) : x \in Range(cs[i])
  <2>1. DOMAIN cs = 1 .. Len(cs)
    OBVIOUS
  <2> QED
    BY <2>1, Zenon DEF Frames
<1>2. \A i \in 1 .. Len(cs) : Range(cs[i]) \subseteq Frame
  BY RangeIs
<1>3. Frames(cs) \subseteq Frame
  BY <1>1, <1>2
<1>4. IsFiniteSet(Frame)
  BY RecorderAssumption, FS_Interval DEF Frame
<1>5. IsFiniteSet(Frames(cs))
  BY <1>3, <1>4, FS_Subset
<1> QED
  BY <1>1, <1>3, <1>5, FS_CardinalityType DEF Size

(* The frames of a chunk are as many as it is long.                        *)
LEMMA RangeCount ==
    ASSUME NEW s \in Seq(Frame), Ascends(s)
    PROVE  Cardinality(Range(s)) = Len(s) /\ IsFiniteSet(Range(s))
<1>1. PICK n : n = Len(s)
  OBVIOUS
<1>2. n \in Nat /\ s \in [1 .. n -> Range(s)] /\ \A i \in 1 .. n : s[i] \in Frame
  BY <1>1 DEF Range
<1>3. \A i, j \in 1 .. n : s[i] = s[j] => i = j
  <2> SUFFICES ASSUME NEW i \in 1 .. n, NEW j \in 1 .. n, s[i] = s[j] PROVE i = j
    OBVIOUS
  <2>1. s[i] \in Int /\ s[j] \in Int
    BY <1>2 DEF Frame
  <2>2. ~(i < j) /\ ~(j < i)
    BY <1>1, <2>1 DEF Ascends
  <2> QED
    BY <1>2, <2>2
<1>4. \A x \in Range(s) : \E i \in 1 .. n : s[i] = x
  BY <1>1, RangeIs
<1>5. s \in Injection(1 .. n, Range(s)) /\ s \in Surjection(1 .. n, Range(s))
  BY <1>2, <1>3, <1>4 DEF Injection, Surjection, IsInjective
<1>6. IsFiniteSet(1 .. n) /\ Cardinality(1 .. n) = n
  BY <1>2, FS_Interval
<1>7. IsFiniteSet(Range(s)) /\ Cardinality(Range(s)) = Cardinality(1 .. n)
  BY <1>5, <1>6, FS_Surjection
<1> QED
  BY <1>1, <1>6, <1>7

LEMMA DisjointCount ==
    ASSUME NEW S, NEW T, IsFiniteSet(S), IsFiniteSet(T), S \cap T = {}
    PROVE  Cardinality(S \cup T) = Cardinality(S) + Cardinality(T)
<1>1. Cardinality(S \cap T) = 0
  BY FS_EmptySet
<1>2. Cardinality(S) \in Nat /\ Cardinality(T) \in Nat
  BY FS_CardinalityType
<1>3. Cardinality(S \cup T) = Cardinality(S) + Cardinality(T) - Cardinality(S \cap T)
  BY FS_Union
<1>4. PICK a, b : a = Cardinality(S) /\ b = Cardinality(T)
  OBVIOUS
<1>5. a + b - 0 = a + b
  BY <1>2, <1>4
<1> QED
  BY <1>1, <1>3, <1>4, <1>5

LEMMA BeforeIsDisjoint ==
    ASSUME NEW S, NEW T, S \subseteq Int, Before(S, T)
    PROVE  S \cap T = {}
<1> SUFFICES ASSUME NEW x \in S \cap T PROVE FALSE
  OBVIOUS
<1>1. x \in Int /\ x < x
  BY DEF Before
<1> QED
  BY <1>1

(* Taking the first chunks off.                                            *)
LEMMA QueueSplit ==
    ASSUME NEW cs \in Seq(Chunk), NEW k \in 0 .. Len(cs), Ordered(cs)
    PROVE  LET gone == SubSeq(cs, 1, k)
               rest == AfterFirst(cs, k)
           IN  /\ gone \in Seq(Chunk) /\ rest \in Seq(Chunk) /\ Ordered(rest)
               /\ Frames(cs) = Frames(gone) \cup Frames(rest)
               /\ Before(Frames(gone), Frames(rest))
               /\ Frames(gone) \cap Frames(rest) = {}
               /\ Size(cs) = Size(gone) + Size(rest)
               /\ Size(gone) \in Nat /\ Size(rest) \in Nat
               /\ k = Len(cs) => Size(rest) = 0
<1>1. PICK gone, rest : gone = SubSeq(cs, 1, k) /\ rest = AfterFirst(cs, k)
  OBVIOUS
<1>2. /\ gone \in Seq(Chunk) /\ Len(gone) = k
      /\ \A i \in 1 .. k : gone[i] = cs[i]
  BY <1>1, PrefixFacts
<1>3. PICK n : n = Len(cs)
  OBVIOUS
<1>4. /\ rest \in Seq(Chunk) /\ Len(rest) = n - k /\ n \in Nat
      /\ \A i \in 1 .. n - k : rest[i] = cs[k + i]
  <2>1. rest = SubSeq(cs, k + 1, Len(cs))
    BY <1>1 DEF AfterFirst
  <2>2. Len(cs) \in Nat
    OBVIOUS
  <2>3. /\ SubSeq(cs, k + 1, Len(cs)) \in Seq(Chunk)
        /\ Len(SubSeq(cs, k + 1, Len(cs))) = Len(cs) - k
        /\ \A i \in 1 .. Len(cs) - k : SubSeq(cs, k + 1, Len(cs))[i] = cs[k + i]
    BY SuffixFacts
  <2> QED
    BY <1>3, <2>1, <2>2, <2>3
<1>5. cs \in Seq(Seq(Frame)) /\ gone \in Seq(Seq(Frame)) /\ rest \in Seq(Seq(Frame))
  BY <1>2, <1>4, ChunksAreFrames
<1>6. /\ \A i \in 1 .. k : i \in 1 .. n
      /\ \A i \in 1 .. n - k : k + i \in 1 .. n
      /\ \A i \in 1 .. k, j \in 1 .. n - k : i < k + j
      /\ \A i, j \in 1 .. n - k : i < j => k + i < k + j
      /\ \A i \in 1 .. n : i \in 1 .. k \/ \E j \in 1 .. n - k : i = k + j
  <2>1. \A i \in 1 .. n : i \notin 1 .. k => i - k \in 1 .. n - k /\ i = k + (i - k)
    BY <1>3, <1>4
  <2> QED
    BY <1>3, <1>4, <2>1
<1>7. Ordered(rest)
  BY <1>3, <1>4, <1>6 DEF Ordered
<1>8. Frames(cs) = Frames(gone) \cup Frames(rest)
  <2>1. \A x : x \in Frames(gone) <=> \E i \in 1 .. k : x \in Range(cs[i])
    BY <1>2, <1>5, FramesIs
  <2>2. \A x : x \in Frames(rest) <=> \E i \in 1 .. n - k : x \in Range(cs[k + i])
    BY <1>4, <1>5, FramesIs
  <2>3. \A x : x \in Frames(cs) <=> \E i \in 1 .. n : x \in Range(cs[i])
    BY <1>3, <1>5, FramesIs
  <2> QED
    BY <1>6, <2>1, <2>2, <2>3
<1>9. Before(Frames(gone), Frames(rest))
  <2> SUFFICES ASSUME NEW x \in Frames(gone), NEW y \in Frames(rest) PROVE x < y
    BY DEF Before
  <2>1. PICK i \in 1 .. k : x \in Range(cs[i])
    BY <1>2, <1>5, FramesIs
  <2>2. PICK j \in 1 .. n - k : y \in Range(cs[k + j])
    BY <1>4, <1>5, FramesIs
  <2>3. Before(Range(cs[i]), Range(cs[k + j]))
    BY <1>3, <1>6 DEF Ordered
  <2> QED
    BY <2>1, <2>2, <2>3 DEF Before
<1>10. Frames(gone) \subseteq Int /\ IsFiniteSet(Frames(gone)) /\ IsFiniteSet(Frames(rest))
       /\ Size(gone) \in Nat /\ Size(rest) \in Nat
  BY <1>5, FramesIs DEF Frame
<1>11. Frames(gone) \cap Frames(rest) = {}
  BY <1>9, <1>10, BeforeIsDisjoint
<1>12. Size(cs) = Size(gone) + Size(rest)
  BY <1>8, <1>10, <1>11, DisjointCount DEF Size
<1>13. k = Len(cs) => Size(rest) = 0
  <2> SUFFICES ASSUME k = n PROVE Size(rest) = 0
    BY <1>3
  <2>1. n - k = 0
    BY <1>4
  <2>2. 1 .. n - k = {}
    BY <2>1
  <2>3. Frames(rest) = {}
    BY <1>4, <1>5, <2>2, FramesIs
  <2> QED
    BY <2>3, FS_EmptySet DEF Size
<1> QED
  BY <1>1, <1>2, <1>4, <1>7, <1>8, <1>9, <1>10, <1>11, <1>12, <1>13

LEMMA QueueAppend ==
    ASSUME NEW cs \in Seq(Chunk), Ordered(cs), NEW new \in Chunk, Ascends(new),
           Before(Frames(cs), Range(new))
    PROVE  /\ Append(cs, new) \in Seq(Chunk) /\ Ordered(Append(cs, new))
           /\ Frames(Append(cs, new)) = Frames(cs) \cup Range(new)
           /\ Size(Append(cs, new)) = Size(cs) + Len(new)
<1>1. PICK n, ds : n = Len(cs) /\ ds = Append(cs, new)
  OBVIOUS
<1>2. /\ ds \in Seq(Chunk) /\ n \in Nat /\ Len(ds) = n + 1 /\ ds[n + 1] = new
      /\ \A i \in 1 .. n : ds[i] = cs[i]
  BY <1>1, AppendFacts
<1>3. cs \in Seq(Seq(Frame)) /\ ds \in Seq(Seq(Frame)) /\ new \in Seq(Frame)
  BY <1>2, ChunksAreFrames DEF Chunk
<1>4. \A i \in 1 .. n + 1 : i \in 1 .. n \/ i = n + 1
  BY <1>2
<1>5. /\ \A x : x \in Frames(cs) <=> \E i \in 1 .. n : x \in Range(cs[i])
      /\ \A x : x \in Frames(ds) <=> \E i \in 1 .. n + 1 : x \in Range(ds[i])
  BY <1>1, <1>2, <1>3, FramesIs
<1>6. Frames(ds) = Frames(cs) \cup Range(new)
  <2>1. n + 1 \in 1 .. n + 1 /\ \A i \in 1 .. n : i \in 1 .. n + 1
    BY <1>2
  <2> QED
    BY <1>2, <1>4, <1>5, <2>1
<1>7. Ordered(ds)
  <2>1. \A i \in 1 .. n + 1 : Ascends(ds[i])
    BY <1>1, <1>2, <1>4 DEF Ordered
  <2>2. ASSUME NEW i \in 1 .. n + 1, NEW j \in 1 .. n + 1, i < j
        PROVE  Before(Range(ds[i]), Range(ds[j]))
    <3>1. i \in 1 .. n
      BY <1>2, <2>2
    <3>2. CASE j \in 1 .. n
      BY <1>1, <1>2, <2>2, <3>1, <3>2 DEF Ordered
    <3>3. CASE j = n + 1
      BY <1>2, <1>5, <3>1, <3>3 DEF Before
    <3> QED
      BY <1>4, <3>2, <3>3
  <2> QED
    BY <1>2, <2>1, <2>2 DEF Ordered
<1>8. Frames(cs) \cap Range(new) = {}
  <2>1. Frames(cs) \subseteq Int
    BY <1>3, FramesIs DEF Frame
  <2> QED
    BY <2>1, BeforeIsDisjoint
<1>9. Size(ds) = Size(cs) + Len(new)
  <2>1. IsFiniteSet(Frames(cs))
    BY <1>3, FramesIs
  <2>2. IsFiniteSet(Range(new)) /\ Cardinality(Range(new)) = Len(new)
    BY <1>3, RangeCount
  <2> QED
    BY <1>6, <1>8, <2>1, <2>2, DisjointCount DEF Size
<1> QED
  BY <1>1, <1>2, <1>6, <1>7, <1>9

(* Writing the first frames of a chunk.                                    *)
LEMMA ChunkSplit ==
    ASSUME NEW s \in Seq(Frame), NEW w \in 0 .. Len(s), Ascends(s)
    PROVE  LET done == SubSeq(s, 1, w)
               rest == SubSeq(s, w + 1, Len(s))
           IN  /\ done \in Seq(Frame) /\ rest \in Seq(Frame)
               /\ Len(done) = w
               /\ \A i \in 1 .. w : done[i] = s[i]
               /\ Ascends(rest)
               /\ Range(s) = Range(done) \cup Range(rest)
               /\ Before(Range(done), Range(rest))
<1>1. PICK n, done, rest : n = Len(s) /\ done = SubSeq(s, 1, w) /\ rest = SubSeq(s, w + 1, n)
  OBVIOUS
<1>2. /\ done \in Seq(Frame) /\ Len(done) = w
      /\ \A i \in 1 .. w : done[i] = s[i]
  BY <1>1, PrefixFacts
<1>3. /\ rest \in Seq(Frame) /\ Len(rest) = n - w /\ n \in Nat
      /\ \A i \in 1 .. n - w : rest[i] = s[w + i]
  BY <1>1, SuffixFacts
<1>4. /\ \A i \in 1 .. w : i \in 1 .. n
      /\ \A i \in 1 .. n - w : w + i \in 1 .. n
      /\ \A i \in 1 .. w, j \in 1 .. n - w : i < w + j
      /\ \A i, j \in 1 .. n - w : i < j => w + i < w + j
      /\ \A i \in 1 .. n : i \in 1 .. w \/ \E j \in 1 .. n - w : i = w + j
  <2>1. \A i \in 1 .. n : i \notin 1 .. w => i - w \in 1 .. n - w /\ i = w + (i - w)
    BY <1>1, <1>3
  <2> QED
    BY <1>1, <1>3, <2>1
<1>5. Ascends(rest)
  BY <1>1, <1>3, <1>4 DEF Ascends
<1>6. /\ \A x : x \in Range(s) <=> \E i \in 1 .. n : x = s[i]
      /\ \A x : x \in Range(done) <=> \E i \in 1 .. w : x = s[i]
      /\ \A x : x \in Range(rest) <=> \E i \in 1 .. n - w : x = s[w + i]
  <2>1. \A x : x \in Range(s) <=> \E i \in 1 .. n : x = s[i]
    BY <1>1, RangeIs
  <2>2. \A x : x \in Range(done) <=> \E i \in 1 .. w : x = done[i]
    BY <1>2, RangeIs
  <2>3. \A x : x \in Range(rest) <=> \E i \in 1 .. n - w : x = rest[i]
    BY <1>3, RangeIs
  <2>4. \A x : (\E i \in 1 .. w : x = done[i]) <=> (\E i \in 1 .. w : x = s[i])
    BY <1>2
  <2>5. \A x : (\E i \in 1 .. n - w : x = rest[i]) <=> (\E i \in 1 .. n - w : x = s[w + i])
    BY <1>3
  <2>6. \A x : x \in Range(done) <=> \E i \in 1 .. w : x = s[i]
    <3> SUFFICES ASSUME NEW x PROVE x \in Range(done) <=> \E i \in 1 .. w : x = s[i]
      OBVIOUS
    <3> QED
      BY <2>2, <2>4
  <2>7. \A x : x \in Range(rest) <=> \E i \in 1 .. n - w : x = s[w + i]
    <3> SUFFICES ASSUME NEW x
                 PROVE  x \in Range(rest) <=> \E i \in 1 .. n - w : x = s[w + i]
      OBVIOUS
    <3> QED
      BY <2>3, <2>5
  <2> QED
    BY <2>1, <2>6, <2>7
<1>7. Range(s) = Range(done) \cup Range(rest)
  BY <1>4, <1>6
<1>8. Before(Range(done), Range(rest))
  <2> SUFFICES ASSUME NEW x \in Range(done), NEW y \in Range(rest) PROVE x < y
    BY DEF Before
  <2>1. PICK i \in 1 .. w : x = s[i]
    BY <1>6
  <2>2. PICK j \in 1 .. n - w : y = s[w + j]
    BY <1>6
  <2> QED
    BY <1>1, <1>4, <2>1, <2>2 DEF Ascends
<1> QED
  BY <1>1, <1>2, <1>3, <1>5, <1>7, <1>8

LEMMA RecorderInitial == RecorderInit => RecorderInv
<1> SUFFICES ASSUME RecorderInit PROVE RecorderInv
  OBVIOUS
<1>1. ThreadsTyped /\ Ends
  BY DEF RecorderInit, ThreadsTyped, Ends
<1>2. chunks = <<>> /\ chunk = <<>> /\ queued = 0 /\ taken = 0 /\ dropped = {}
  BY DEF RecorderInit
<1>3. Len(chunks) = 0 /\ Len(chunk) = 0 /\ chunks \in Seq(Chunk) /\ chunk \in Seq(Frame)
  BY <1>2
<1>4. Frames(chunks) = {} /\ Range(chunk) = {}
  BY <1>2, EmptyRange
<1>5. Size(chunks) = 0
  BY <1>4, FS_EmptySet DEF Size
<1>6. QueueTyped /\ TakenTyped /\ QueueOrdered /\ ChunkOrdered /\ CountsRight
  <2>1. QueueTyped
    BY <1>2, <1>3, RecorderAssumption DEF QueueTyped
  <2>2. TakenTyped
    BY <1>2, RecorderAssumption DEF TakenTyped
  <2>3. QueueOrdered
    BY <1>3, <1>4 DEF QueueOrdered, Ordered
  <2>4. ChunkOrdered
    BY <1>3, <1>4 DEF ChunkOrdered, Ascends, Before
  <2>5. CountsRight
    BY <1>2, <1>5 DEF CountsRight
  <2> QED
    BY <2>1, <2>2, <2>3, <2>4, <2>5
<1>7. PICK f : f = NewFile
  OBVIOUS
<1>8. f \in File /\ f.data = <<>> /\ f.header = 0 /\ f.closed = FALSE
  BY <1>7 DEF NewFile, File
<1>9. /\ files = <<f>> /\ files \in Seq(File) /\ Len(files) = 1 /\ files[1] = f
      /\ DOMAIN files = {1} /\ files # <<>>
  BY <1>7, <1>8 DEF RecorderInit
<1>10. Range(files[1].data) = {} /\ Len(files[1].data) = 0 /\ DOMAIN files[1].data = {}
  BY <1>8, <1>9, EmptyRange
<1>11. Written = {}
  BY <1>9, <1>10 DEF Written
<1>12. open = TRUE /\ segment = 0 /\ writeFailed = FALSE /\ graph = "running"
  BY DEF RecorderInit
<1>13. DiskTyped
  <2>1. open \in BOOLEAN /\ writeFailed \in BOOLEAN
    BY <1>12
  <2>2. 0 \in 0 .. MaxSegment
    BY RecorderAssumption
  <2>3. segment \in 0 .. MaxSegment
    BY <1>12, <2>2
  <2> QED
    BY <1>9, <2>1, <2>3 DEF DiskTyped
<1>14. FilesOrdered
  BY <1>9, <1>10, <1>11 DEF FilesOrdered, WrittenInOrder, Before
<1>15. OpenFile
  BY <1>8, <1>9, <1>10, <1>12 DEF OpenFile, Current
<1>16. AllThere
  BY <1>2, <1>4, <1>11 DEF AllThere
<1>17. LengthsRight
  BY <1>8, <1>9, <1>10, <1>12, RecorderAssumption DEF LengthsRight, Current
<1> QED
  BY <1>1, <1>6, <1>13, <1>14, <1>15, <1>16, <1>17 DEF RecorderInv

(* What a call of work() brings and what of it is kept.                    *)
LEMMA KeptIs ==
    ASSUME NEW burst \in Seq(Frame), Len(burst) # 0
    PROVE  \E c \in 0 .. Len(burst) :
              /\ Len(burst) - c \in 1 .. MaxQueued
              /\ Kept(burst) = SubSeq(burst, c + 1, Len(burst))
<1>1. PICK n, m : n = Len(burst) /\ m = MaxQueued
  OBVIOUS
<1>2. n \in Nat \ {0} /\ m \in Nat \ {0}
  BY <1>1, RecorderAssumption
<1>3. CASE n > m
  <2>1. n - m \in 0 .. n /\ n - (n - m) \in 1 .. m
    BY <1>2, <1>3
  <2>2. Kept(burst) = SubSeq(burst, (n - m) + 1, n)
    BY <1>1, <1>3 DEF Kept
  <2> QED
    BY <1>1, <2>1, <2>2
<1>4. CASE ~(n > m)
  <2>1. SubSeq(burst, 0 + 1, n) = burst
    <3>1. 0 \in 0 .. Len(burst) /\ n - 0 = n
      BY <1>1, <1>2
    <3>2. /\ SubSeq(burst, 0 + 1, Len(burst)) \in Seq(Frame)
          /\ Len(SubSeq(burst, 0 + 1, Len(burst))) = Len(burst) - 0
          /\ \A i \in 1 .. Len(burst) - 0 :
                SubSeq(burst, 0 + 1, Len(burst))[i] = burst[0 + i]
      BY <3>1, SuffixFacts
    <3>3. \A i \in 1 .. n : 0 + i = i
      BY <1>2
    <3> QED
      BY <1>1, <3>1, <3>2, <3>3
  <2>2. 0 \in 0 .. n /\ n - 0 \in 1 .. m
    BY <1>2, <1>4
  <2>3. Kept(burst) = burst
    BY <1>1, <1>4 DEF Kept
  <2> QED
    BY <1>1, <2>1, <2>2, <2>3
<1> QED
  BY <1>3, <1>4

LEMMA BurstFacts ==
    ASSUME NEW n \in Nat \ {0}, taken \in Nat, taken + n <= MaxTaken,
           NEW burst, burst = [i \in 1 .. n |-> taken + i]
    PROVE  /\ Kept(burst) \in Chunk /\ Len(Kept(burst)) \in 1 .. MaxQueued
           /\ Ascends(Kept(burst))
           /\ Range(Kept(burst)) \subseteq Range(burst)
           /\ \A x : x \in Range(burst) <=> x \in taken + 1 .. taken + n
<1>1. PICK t, b : t = taken /\ b = burst
  OBVIOUS
<1>2. /\ b \in Seq(Frame) /\ Len(b) = n
      /\ \A i \in 1 .. n : b[i] = t + i
  <2>1. MaxTaken \in Nat
    BY RecorderAssumption
  <2>2. \A i \in 1 .. n : t + i \in Frame
    BY <1>1, <2>1 DEF Frame
  <2> QED
    BY <1>1, <2>2
<1>3. \A x : x \in Range(b) <=> \E i \in 1 .. n : x = b[i]
  BY <1>2, RangeIs
<1>4. \A x : x \in Range(b) <=> x \in t + 1 .. t + n
  <2> SUFFICES ASSUME NEW x PROVE x \in Range(b) <=> x \in t + 1 .. t + n
    OBVIOUS
  <2>1. ASSUME x \in Range(b) PROVE x \in t + 1 .. t + n
    <3>1. PICK i \in 1 .. n : x = t + i
      BY <1>2, <1>3, <2>1
    <3> QED
      BY <1>1, <3>1
  <2>2. ASSUME x \in t + 1 .. t + n PROVE x \in Range(b)
    <3>1. x - t \in 1 .. n /\ x = t + (x - t)
      BY <1>1, <2>2
    <3> QED
      BY <1>2, <1>3, <3>1
  <2> QED
    BY <2>1, <2>2
<1>5. Len(b) # 0
  BY <1>2
<1>6. PICK c \in 0 .. Len(b) : /\ Len(b) - c \in 1 .. MaxQueued
                               /\ Kept(b) = SubSeq(b, c + 1, Len(b))
  BY <1>2, <1>5, KeptIs
<1>7. /\ SubSeq(b, c + 1, Len(b)) \in Seq(Frame)
      /\ Len(SubSeq(b, c + 1, Len(b))) = Len(b) - c
      /\ \A i \in 1 .. Len(b) - c : SubSeq(b, c + 1, Len(b))[i] = b[c + i]
  BY <1>2, SuffixFacts
<1>8. PICK new : new = Kept(b)
  OBVIOUS
<1>9. /\ new \in Seq(Frame) /\ Len(new) = n - c /\ n - c \in 1 .. MaxQueued
      /\ \A i \in 1 .. n - c : new[i] = b[c + i]
  BY <1>2, <1>6, <1>7, <1>8
<1>10. /\ \A i \in 1 .. n - c : c + i \in 1 .. n
       /\ \A i, j \in 1 .. n - c : i < j => t + (c + i) < t + (c + j)
  BY <1>1, <1>2, <1>6
<1>11. \A i \in 1 .. n - c : new[i] = t + (c + i)
  BY <1>2, <1>9, <1>10
<1>12. Ascends(new)
  BY <1>9, <1>10, <1>11, ZenonT(40) DEF Ascends
<1>13. Range(new) \subseteq Range(b)
  <2> SUFFICES ASSUME NEW x \in Range(new) PROVE x \in Range(b)
    OBVIOUS
  <2>1. PICK i \in 1 .. n - c : x = new[i]
    BY <1>9, RangeIs
  <2> QED
    BY <1>3, <1>9, <1>10, <2>1
<1>14. new # <<>>
  BY <1>9, RecorderAssumption
<1>15. new \in Chunk /\ Len(new) \in 1 .. MaxQueued
  BY <1>9, <1>14 DEF Chunk
<1> QED
  BY <1>1, <1>4, <1>8, <1>12, <1>13, <1>15

LEMMA RoomFacts ==
    ASSUME NEW m, QueueTyped
    PROVE  /\ Room(m) \in 0 .. Len(chunks)
           /\ \/ Room(m) = Len(chunks)
              \/ queued - Size(SubSeq(chunks, 1, Room(m))) + m <= MaxQueued
<1>1. PICK T : T = {k \in 0 .. Len(chunks) :
                      k = Len(chunks)
                        \/ queued - Size(SubSeq(chunks, 1, k)) + m <= MaxQueued}
  OBVIOUS
<1>2. Len(chunks) \in Nat
  BY DEF QueueTyped
<1>3. T \in SUBSET Nat /\ Len(chunks) \in T
  BY <1>1, <1>2
<1>4. \E x \in T : \A y \in T : x <= y
  BY <1>3, LeastNat
<1>5. Min(T) \in T
  BY <1>4 DEF Min
<1>6. Room(m) = Min(T)
  BY <1>1 DEF Room
<1> QED
  BY <1>1, <1>5, <1>6

(* The fields of the disk are untouched, and so is what they promise.      *)
LEMMA DiskUntouched ==
    ASSUME RecorderInv, UNCHANGED disk, graph' # graph => graph' # "stopped",
           graph = "stopped" => graph' = "stopped"
    PROVE  /\ DiskTyped' /\ Written' = Written /\ WrittenInOrder'
           /\ OpenFile' /\ LengthsRight'
<1>1. files' = files /\ open' = open /\ segment' = segment /\ writeFailed' = writeFailed
  BY DEF disk
<1>2. DiskTyped' /\ Written' = Written /\ WrittenInOrder'
  BY <1>1 DEF RecorderInv, DiskTyped, Written, FilesOrdered, WrittenInOrder
<1>3. OpenFile'
  BY <1>1 DEF RecorderInv, OpenFile, Current
<1>4. LengthsRight'
  BY <1>1 DEF RecorderInv, LengthsRight, Current
<1> QED
  BY <1>2, <1>3, <1>4

LEMMA WorkKeeps ==
    ASSUME RecorderInv, Work
    PROVE  RecorderInv'
<1>1. UNCHANGED <<graph, stopping, chunk, disk>> /\ graph = "running"
  BY DEF Work
<1>2. PICK n, burst, new :
        /\ n \in 1 .. MaxWork
        /\ burst = [i \in 1 .. n |-> taken + i] /\ new = Kept(burst)
        /\ taken + n <= MaxTaken /\ taken' = taken + n
        /\ chunks' = Append(AfterFirst(chunks, Room(Len(new))), new)
        /\ queued' = queued - Size(SubSeq(chunks, 1, Room(Len(new)))) + Len(new)
        /\ dropped' = dropped \cup (Range(burst) \ Range(new))
                        \cup Frames(SubSeq(chunks, 1, Room(Len(new))))
  BY DEF Work
<1>3. taken \in Nat /\ n \in Nat \ {0} /\ MaxTaken \in Nat /\ MaxQueued \in Nat
  BY <1>2, RecorderAssumption DEF RecorderInv, TakenTyped
<1>4. /\ new \in Chunk /\ Len(new) \in 1 .. MaxQueued /\ Ascends(new)
      /\ Range(new) \subseteq Range(burst)
      /\ \A x : x \in Range(burst) <=> x \in taken + 1 .. taken + n
  BY <1>2, <1>3, BurstFacts
<1>5. PICK k, gone, rest : /\ k = Room(Len(new)) /\ gone = SubSeq(chunks, 1, k)
                           /\ rest = AfterFirst(chunks, k)
  OBVIOUS
<1>6. /\ k \in 0 .. Len(chunks)
      /\ k = Len(chunks) \/ queued - Size(gone) + Len(new) <= MaxQueued
  BY <1>5, RoomFacts DEF RecorderInv
<1>7. /\ gone \in Seq(Chunk) /\ rest \in Seq(Chunk) /\ Ordered(rest)
      /\ Frames(chunks) = Frames(gone) \cup Frames(rest)
      /\ Frames(gone) \cap Frames(rest) = {}
      /\ Size(chunks) = Size(gone) + Size(rest)
      /\ Size(gone) \in Nat /\ Size(rest) \in Nat
      /\ k = Len(chunks) => Size(rest) = 0
  BY <1>5, <1>6, QueueSplit DEF RecorderInv, QueueTyped, QueueOrdered
<1>8. /\ chunks' = Append(rest, new)
      /\ queued' = queued - Size(gone) + Len(new)
      /\ dropped' = dropped \cup (Range(burst) \ Range(new)) \cup Frames(gone)
  BY <1>2, <1>5
<1>9. PICK W, C, Q, G, R, B, N, D :
        /\ W = Written /\ C = Range(chunk) /\ Q = Frames(chunks)
        /\ G = Frames(gone) /\ R = Frames(rest)
        /\ B = Range(burst) /\ N = Range(new) /\ D = dropped
  OBVIOUS
<1>10. /\ W \subseteq 1 .. taken /\ C \subseteq 1 .. taken /\ Q \subseteq 1 .. taken
       /\ D \subseteq 1 .. taken
       /\ Before(W, C) /\ Before(W, Q) /\ Before(C, Q)
  BY <1>9 DEF RecorderInv, FilesOrdered, ChunkOrdered, QueueOrdered, TakenTyped
<1>11. Q = G \cup R /\ G \cap R = {} /\ N \subseteq B
  BY <1>4, <1>7, <1>9
<1>12. Before(1 .. taken, B) /\ B \subseteq 1 .. taken' /\ 1 .. taken \subseteq 1 .. taken'
       /\ 1 .. taken' = 1 .. taken \cup B /\ 1 .. taken \cap B = {}
  <2>1. \A x : x \in B <=> x \in taken + 1 .. taken + n
    BY <1>4, <1>9
  <2>2. /\ \A x \in 1 .. taken, y \in taken + 1 .. taken + n : x < y
        /\ \A y \in taken + 1 .. taken + n : y \in 1 .. taken + n /\ y \notin 1 .. taken
        /\ \A x \in 1 .. taken : x \in 1 .. taken + n
        /\ \A x \in 1 .. taken + n : x \in 1 .. taken \/ x \in taken + 1 .. taken + n
    BY <1>3
  <2> QED
    BY <1>2, <2>1, <2>2 DEF Before
<1>13. W \cap Q = {} /\ C \cap Q = {}
  <2>1. W \subseteq Int /\ C \subseteq Int
    BY <1>10
  <2> QED
    BY <1>10, <2>1, BeforeIsDisjoint
<1>14. /\ chunks' \in Seq(Chunk) /\ Ordered(chunks') /\ Frames(chunks') = R \cup N
       /\ Size(chunks') = Size(rest) + Len(new)
  <2>1. Before(R, N)
    BY <1>10, <1>11, <1>12 DEF Before
  <2> QED
    BY <1>4, <1>7, <1>8, <1>9, <2>1, QueueAppend
<1>15. QueueTyped' /\ CountsRight'
  <2>1. PICK q, g, r, m : /\ q = queued /\ g = Size(gone) /\ r = Size(rest) /\ m = Len(new)
    OBVIOUS
  <2>2. q = g + r /\ g \in Nat /\ r \in Nat /\ m \in 1 .. MaxQueued /\ q \in 0 .. MaxQueued
    BY <1>4, <1>7, <2>1 DEF RecorderInv, CountsRight, QueueTyped
  <2>3. r = 0 \/ q - g + m <= MaxQueued
    BY <1>6, <1>7, <2>1
  <2>4. q - g + m = r + m /\ r + m \in 0 .. MaxQueued
    BY <1>3, <2>2, <2>3
  <2>5. queued' = r + m /\ Size(chunks') = r + m
    BY <1>8, <1>14, <2>1, <2>4
  <2> QED
    BY <1>14, <2>4, <2>5 DEF QueueTyped, CountsRight
<1>16. TakenTyped'
  <2>1. dropped' \subseteq 1 .. taken'
    BY <1>8, <1>9, <1>10, <1>11, <1>12
  <2>2. taken' \in 0 .. MaxTaken
    BY <1>2, <1>3
  <2> QED
    BY <2>1, <2>2 DEF TakenTyped
<1>17. QueueOrdered'
  BY <1>10, <1>11, <1>12, <1>14 DEF QueueOrdered
<1>18. chunk' = chunk /\ Range(chunk') = C
  BY <1>1, <1>9
<1>19. ChunkOrdered'
  <2>1. C \subseteq 1 .. taken' /\ Before(C, R \cup N)
    BY <1>10, <1>11, <1>12 DEF Before
  <2> QED
    BY <1>14, <1>18, <2>1 DEF RecorderInv, ChunkOrdered
<1>20. /\ DiskTyped' /\ Written' = W /\ WrittenInOrder' /\ OpenFile' /\ LengthsRight'
  BY <1>1, <1>9, DiskUntouched
<1>21. FilesOrdered'
  <2>1. W \subseteq 1 .. taken' /\ Before(W, R \cup N)
    BY <1>10, <1>11, <1>12 DEF Before
  <2> QED
    BY <1>10, <1>14, <1>18, <1>20, <2>1 DEF FilesOrdered
<1>22. AllThere'
  <2>1. writeFailed' = writeFailed
    BY <1>1 DEF disk
  <2> SUFFICES ASSUME ~writeFailed
               PROVE  /\ W \cup C \cup (R \cup N) \cup dropped' = 1 .. taken'
                      /\ dropped' \cap (W \cup C \cup (R \cup N)) = {}
    BY <1>14, <1>18, <1>20, <2>1 DEF AllThere
  <2>2. dropped' = D \cup (B \ N) \cup G
    BY <1>8, <1>9
  <2>3. /\ W \cup C \cup Q \cup D = 1 .. taken
        /\ D \cap (W \cup C \cup Q) = {}
    BY <1>9 DEF RecorderInv, AllThere
  <2>4. W \cup C \cup (R \cup N) \cup (D \cup (B \ N) \cup G) = 1 .. taken \cup B
    BY <1>11, <2>3
  <2>5. W \cap B = {} /\ C \cap B = {} /\ R \cap B = {} /\ D \cap B = {} /\ G \cap B = {}
    BY <1>10, <1>11, <1>12
  <2>6. (D \cup (B \ N) \cup G) \cap (W \cup C \cup (R \cup N)) = {}
    BY <1>11, <1>13, <2>3, <2>5
  <2> QED
    BY <1>12, <2>2, <2>4, <2>6
<1>23. ThreadsTyped' /\ Ends'
  <2>1. writer' = IF writer = "asleep" THEN "check" ELSE writer
    BY DEF Work, NotifyWriter
  <2>2. writer # "done"
    BY <1>1 DEF RecorderInv, Ends
  <2>3. ThreadsTyped'
    BY <1>1, <2>1 DEF RecorderInv, ThreadsTyped
  <2>4. Ends'
    BY <1>1, <2>1, <2>2 DEF RecorderInv, Ends
  <2> QED
    BY <2>3, <2>4
<1> QED
  BY <1>15, <1>16, <1>17, <1>19, <1>20, <1>21, <1>22, <1>23 DEF RecorderInv

LEMMA TakeKeeps ==
    ASSUME RecorderInv, WriterTakes
    PROVE  RecorderInv'
<1>1. /\ UNCHANGED <<graph, stopping, disk, taken, dropped>>
      /\ chunks # <<>> /\ writer = "check" /\ writer' = "write"
      /\ chunk' = Head(chunks) /\ chunks' = Tail(chunks)
      /\ queued' = queued - Len(Head(chunks))
  BY DEF WriterTakes
<1>2. PICK new, gone, rest : /\ new = Head(chunks) /\ gone = SubSeq(chunks, 1, 1)
                             /\ rest = AfterFirst(chunks, 1)
  OBVIOUS
<1>3. /\ Len(chunks) \in Nat \ {0} /\ new \in Chunk /\ new = chunks[1]
      /\ chunks \in Seq(Chunk)
  BY <1>1, <1>2, TailFacts DEF RecorderInv, QueueTyped
<1>4. rest = Tail(chunks)
  BY <1>1, <1>2, <1>3, TailIsSubSeq DEF AfterFirst
<1>5. 1 \in 0 .. Len(chunks) /\ 1 \in 1 .. Len(chunks)
  BY <1>3
<1>6. /\ rest \in Seq(Chunk) /\ Ordered(rest)
      /\ Frames(chunks) = Frames(gone) \cup Frames(rest)
      /\ Before(Frames(gone), Frames(rest))
      /\ Size(chunks) = Size(gone) + Size(rest)
      /\ Size(gone) \in Nat /\ Size(rest) \in Nat
  BY <1>2, <1>3, <1>5, QueueSplit DEF RecorderInv, QueueOrdered
<1>7. Ascends(new) /\ new \in Seq(Frame)
  BY <1>3, <1>5 DEF RecorderInv, QueueOrdered, Ordered, Chunk
<1>8. Frames(gone) = Range(new) /\ Size(gone) = Len(new)
  <2>1. gone \in Seq(Chunk) /\ Len(gone) = 1 /\ \A i \in 1 .. 1 : gone[i] = chunks[i]
    BY <1>2, <1>3, <1>5, PrefixFacts
  <2>2. gone \in Seq(Seq(Frame)) /\ gone[1] = new
    BY <1>3, <2>1, ChunksAreFrames
  <2>3. \A x : x \in Frames(gone) <=> \E i \in 1 .. 1 : x \in Range(gone[i])
    BY <2>1, <2>2, FramesIs
  <2>4. Frames(gone) = Range(new)
    <3> SUFFICES ASSUME NEW x PROVE x \in Frames(gone) <=> x \in Range(new)
      OBVIOUS
    <3>1. 1 \in 1 .. 1 /\ \A i \in 1 .. 1 : i = 1
      OBVIOUS
    <3>2. x \in Frames(gone) <=> \E i \in 1 .. 1 : x \in Range(gone[i])
      BY <2>3
    <3> QED
      BY <2>2, <3>1, <3>2
  <2> QED
    BY <1>7, <2>4, RangeCount DEF Size
<1>9. chunk' = new /\ chunks' = rest
  BY <1>1, <1>2, <1>4
<1>10. Range(chunk) = {}
  <2>1. chunk = <<>>
    BY <1>1 DEF RecorderInv, Ends
  <2> QED
    BY <2>1, EmptyRange
<1>11. QueueTyped' /\ CountsRight'
  <2>1. PICK q, m, r : q = queued /\ m = Len(new) /\ r = Size(rest)
    OBVIOUS
  <2>2. q = m + r /\ m \in Nat /\ r \in Nat /\ q \in 0 .. MaxQueued /\ queued' = q - m
    BY <1>1, <1>2, <1>6, <1>8, <2>1 DEF RecorderInv, CountsRight, QueueTyped
  <2>3. q - m = r /\ r \in 0 .. MaxQueued
    BY <2>2, RecorderAssumption
  <2> QED
    BY <1>6, <1>9, <2>1, <2>2, <2>3 DEF QueueTyped, CountsRight
<1>12. PICK W, Q, N, R : W = Written /\ Q = Frames(chunks) /\ N = Range(new) /\ R = Frames(rest)
  OBVIOUS
<1>13. /\ Q = N \cup R /\ Before(N, R) /\ Q \subseteq 1 .. taken /\ Before(W, Q)
       /\ W \subseteq 1 .. taken
  BY <1>6, <1>8, <1>12 DEF RecorderInv, QueueOrdered, FilesOrdered
<1>14. Range(chunk') = N /\ Frames(chunks') = R /\ taken' = taken /\ dropped' = dropped
  BY <1>1, <1>9, <1>12
<1>15. TakenTyped' /\ QueueOrdered' /\ ChunkOrdered'
  <2>1. TakenTyped'
    BY <1>14 DEF RecorderInv, TakenTyped
  <2>2. QueueOrdered'
    BY <1>6, <1>9, <1>13, <1>14 DEF QueueOrdered
  <2>3. ChunkOrdered'
    BY <1>7, <1>9, <1>13, <1>14 DEF ChunkOrdered
  <2> QED
    BY <2>1, <2>2, <2>3
<1>16. /\ DiskTyped' /\ Written' = W /\ WrittenInOrder' /\ OpenFile' /\ LengthsRight'
  BY <1>1, <1>12, DiskUntouched
<1>17. FilesOrdered'
  <2>1. Before(W, N) /\ Before(W, R)
    BY <1>13 DEF Before
  <2> QED
    BY <1>13, <1>14, <1>16, <2>1 DEF FilesOrdered
<1>18. AllThere'
  <2>1. writeFailed' = writeFailed
    BY <1>1 DEF disk
  <2>2. ~writeFailed => /\ W \cup {} \cup Q \cup dropped = 1 .. taken
                        /\ dropped \cap (W \cup {} \cup Q) = {}
    BY <1>10, <1>12 DEF RecorderInv, AllThere
  <2>3. ~writeFailed => /\ W \cup N \cup R \cup dropped = 1 .. taken
                        /\ dropped \cap (W \cup N \cup R) = {}
    BY <1>13, <2>2
  <2> QED
    BY <1>14, <1>16, <2>1, <2>3 DEF AllThere
<1>19. ThreadsTyped' /\ Ends'
  <2>1. ThreadsTyped'
    BY <1>1 DEF RecorderInv, ThreadsTyped
  <2>2. Ends'
    BY <1>1 DEF RecorderInv, Ends
  <2> QED
    BY <2>1, <2>2
<1> QED
  BY <1>11, <1>15, <1>16, <1>17, <1>18, <1>19 DEF RecorderInv

(* Steps that only move the threads.                                       *)
LEMMA ThreadsKeep ==
    ASSUME RecorderInv, UNCHANGED <<queue, disk, taken, dropped>>,
           chunk' = chunk \/ (chunk' = <<>> /\ writer = "write"
                                /\ (chunk = <<>> \/ writeFailed)),
           graph' # graph => graph' # "stopped", graph = "stopped" => graph' = "stopped",
           ThreadsTyped', Ends'
    PROVE  RecorderInv'
<1>1. chunks' = chunks /\ queued' = queued /\ taken' = taken /\ dropped' = dropped
      /\ writeFailed' = writeFailed
  BY DEF queue, disk
<1>2. /\ DiskTyped' /\ Written' = Written /\ WrittenInOrder' /\ OpenFile' /\ LengthsRight'
  BY DiskUntouched
<1>3. QueueTyped' /\ CountsRight' /\ TakenTyped' /\ QueueOrdered'
  BY <1>1 DEF RecorderInv, QueueTyped, CountsRight, TakenTyped, QueueOrdered
<1>4. CASE chunk' = chunk
  <2>1. ChunkOrdered'
    BY <1>1, <1>4 DEF RecorderInv, ChunkOrdered
  <2>2. FilesOrdered'
    BY <1>1, <1>2, <1>4 DEF RecorderInv, FilesOrdered
  <2>3. AllThere'
    BY <1>1, <1>2, <1>4 DEF RecorderInv, AllThere
  <2> QED
    BY <1>2, <1>3, <2>1, <2>2, <2>3 DEF RecorderInv
<1>5. CASE chunk' = <<>> /\ (chunk = <<>> \/ writeFailed)
  <2>1. Range(chunk') = {} /\ Len(chunk') = 0 /\ chunk' \in Seq(Frame)
    BY <1>5, EmptyRange
  <2>2. ChunkOrdered'
    BY <2>1 DEF ChunkOrdered, Ascends, Before
  <2>3. FilesOrdered'
    BY <1>1, <1>2, <2>1 DEF RecorderInv, FilesOrdered, Before
  <2>4. AllThere'
    <3>1. CASE chunk = <<>>
      BY <1>1, <1>2, <1>5, <3>1 DEF RecorderInv, AllThere
    <3>2. CASE writeFailed
      BY <1>1, <3>2 DEF AllThere
    <3> QED
      BY <1>5, <3>1, <3>2
  <2> QED
    BY <1>2, <1>3, <2>2, <2>3, <2>4 DEF RecorderInv
<1> QED
  BY <1>4, <1>5

(* What closing a file leaves.                                             *)
ClosedWith(fs, h) ==
    fs = [files EXCEPT ![Current].closed = TRUE, ![Current].header = h]

LEMMA CloseIs ==
    ASSUME files \in Seq(File), files # <<>>, NEW h \in Nat, NEW fs, ClosedWith(fs, h)
    PROVE  /\ fs \in Seq(File) /\ Len(fs) = Len(files) /\ Current \in 1 .. Len(files)
           /\ Current = Len(files)
           /\ \A i \in 1 .. Len(files) : fs[i].data = files[i].data
           /\ \A i \in 1 .. Len(files) : i # Current => fs[i] = files[i]
           /\ fs[Current].closed = TRUE /\ fs[Current].header = h
<1>1. PICK n, f, g : /\ n = Current /\ f = files[n]
                     /\ g = [f EXCEPT !.closed = TRUE, !.header = h]
  OBVIOUS
<1>2. /\ n = Len(files) /\ n \in Nat /\ n \in 1 .. Len(files)
      /\ files \in [1 .. n -> File]
  BY <1>1, EmptySeq DEF Current
<1>3. f \in File
  BY <1>1, <1>2
<1>4. g \in File /\ g.data = f.data /\ g.closed = TRUE /\ g.header = h
  BY <1>1, <1>3 DEF File
<1>5. fs = [files EXCEPT ![n] = g]
  BY <1>1, <1>2 DEF ClosedWith
<1>6. fs \in [1 .. n -> File] /\ fs[n] = g /\ \A i \in 1 .. n : i # n => fs[i] = files[i]
  BY <1>2, <1>4, <1>5
<1>7. fs \in Seq(File) /\ Len(fs) = n
  <2>1. n \in Nat /\ DOMAIN fs = 1 .. n
    BY <1>2, <1>6
  <2> QED
    BY <1>6, <2>1
<1> QED
  BY <1>1, <1>2, <1>4, <1>6, <1>7

(* Files that hold what they held, and perhaps an empty one more.          *)
LEMMA DataFixed ==
    ASSUME files \in Seq(File), files' \in Seq(File), NEW n, n = Len(files),
           \A i \in 1 .. n : files'[i].data = files[i].data,
           \/ Len(files') = n
           \/ Len(files') = n + 1 /\ files'[n + 1].data = <<>>,
           WrittenInOrder
    PROVE  Written' = Written /\ WrittenInOrder'
<1>1. PICK m : m = Len(files')
  OBVIOUS
<1>2. n \in Nat /\ m \in Nat /\ DOMAIN files = 1 .. n /\ DOMAIN files' = 1 .. m
  BY <1>1
<1>3. \A i \in 1 .. m : i \in 1 .. n \/ files'[i].data = <<>>
  BY <1>1, <1>2
<1>4. \A i \in 1 .. n : i \in 1 .. m
  BY <1>1, <1>2
<1>5. \A i \in 1 .. m : i \notin 1 .. n => /\ Range(files'[i].data) = {}
                                           /\ DOMAIN files'[i].data = {}
  BY <1>3, EmptyRange
<1>6. \A x : x \in Written <=> \E i \in 1 .. n : x \in Range(files[i].data)
  BY <1>2, Zenon DEF Written
<1>7. \A x : x \in Written' <=> \E i \in 1 .. m : x \in Range(files'[i].data)
  BY <1>2, Zenon DEF Written
<1>8. Written' = Written
  <2> SUFFICES ASSUME NEW x PROVE x \in Written' <=> x \in Written
    OBVIOUS
  <2> QED
    BY <1>4, <1>5, <1>6, <1>7
<1>9. WrittenInOrder'
  <2> SUFFICES ASSUME NEW i \in 1 .. m, NEW j \in 1 .. m,
                      NEW a \in DOMAIN files'[i].data, NEW b \in DOMAIN files'[j].data,
                      i < j \/ (i = j /\ a < b)
               PROVE  files'[i].data[a] < files'[j].data[b]
    BY <1>2 DEF WrittenInOrder
  <2>1. i \in 1 .. n /\ j \in 1 .. n
    BY <1>5
  <2> QED
    BY <1>2, <2>1 DEF WrittenInOrder
<1> QED
  BY <1>8, <1>9

(* Steps that open and close files.                                        *)
LEMMA FilesKeep ==
    ASSUME RecorderInv, UNCHANGED <<queue, chunk, taken, dropped>>,
           Written' = Written, WrittenInOrder', DiskTyped', OpenFile', LengthsRight',
           ThreadsTyped', Ends', writeFailed => writeFailed'
    PROVE  RecorderInv'
<1>1. /\ chunks' = chunks /\ queued' = queued /\ taken' = taken /\ dropped' = dropped
      /\ chunk' = chunk
  BY DEF queue
<1>2. QueueTyped' /\ CountsRight' /\ TakenTyped' /\ QueueOrdered'
  BY <1>1 DEF RecorderInv, QueueTyped, CountsRight, TakenTyped, QueueOrdered
<1>3. ChunkOrdered'
  BY <1>1 DEF RecorderInv, ChunkOrdered
<1>4. FilesOrdered'
  BY <1>1 DEF RecorderInv, FilesOrdered
<1>5. AllThere'
  BY <1>1 DEF RecorderInv, AllThere
<1> QED
  BY <1>2, <1>3, <1>4, <1>5 DEF RecorderInv

LEMMA StopClosesKeeps ==
    ASSUME RecorderInv, StopCloses
    PROVE  RecorderInv'
<1>1. /\ UNCHANGED <<stopping, queue, writer, chunk, segment, taken, dropped>>
      /\ graph = "joining" /\ writer = "done" /\ graph' = "stopped" /\ open' = FALSE
  BY DEF StopCloses
<1>2. ThreadsTyped' /\ Ends'
  <2>1. chunks' = chunks
    BY <1>1 DEF queue
  <2>2. ThreadsTyped'
    BY <1>1 DEF RecorderInv, ThreadsTyped
  <2>3. Ends'
    BY <1>1, <2>1 DEF RecorderInv, Ends
  <2> QED
    BY <2>2, <2>3
<1>3. /\ files \in Seq(File) /\ files # <<>> /\ segment \in 0 .. MaxSegment
      /\ segment \in Nat /\ writeFailed \in BOOLEAN
  BY DEF RecorderInv, DiskTyped
<1>4. CASE open
  <2>1. PICK ok \in FileResults : Close(ok) /\ writeFailed' = (writeFailed \/ ~ok)
    BY <1>4 DEF StopCloses
  <2>2. PICK n : n = Current
    OBVIOUS
  <2>3. /\ n = Len(files) /\ n \in 1 .. n /\ files[n] \in File
        /\ ~files[n].closed /\ segment = Len(files[n].data)
    BY <1>3, <1>4, <2>2, EmptySeq DEF RecorderInv, OpenFile, Current
  <2>4. PICK h \in IF ok THEN {segment} ELSE {segment, files[n].header} :
             ClosedWith(files', h)
    BY <2>1, <2>2 DEF Close, ClosedWith
  <2>5. h \in Nat /\ (ok => h = segment)
    BY <1>3, <2>3, <2>4 DEF File
  <2>6. /\ files' \in Seq(File) /\ Len(files') = n
        /\ \A i \in 1 .. n : files'[i].data = files[i].data
        /\ \A i \in 1 .. n : i # n => files'[i] = files[i]
        /\ files'[n].closed = TRUE /\ files'[n].header = h
    <3>1. /\ files' \in Seq(File) /\ Len(files') = Len(files) /\ Current \in 1 .. Len(files)
          /\ Current = Len(files)
          /\ \A i \in 1 .. Len(files) : files'[i].data = files[i].data
          /\ \A i \in 1 .. Len(files) : i # Current => files'[i] = files[i]
          /\ files'[Current].closed = TRUE /\ files'[Current].header = h
      BY <1>3, <2>4, <2>5, CloseIs
    <3> QED
      BY <2>3, <3>1
  <2>7. ok \in BOOLEAN
    BY <2>1 DEF FileResults
  <2>8. (writeFailed => writeFailed') /\ (~writeFailed' => ~writeFailed /\ ok)
        /\ writeFailed' \in BOOLEAN
    BY <1>3, <2>1, <2>7
  <2>9. files' # <<>> /\ Current' = n /\ DOMAIN files = 1 .. n /\ DOMAIN files' = 1 .. n
    BY <1>3, <2>3, <2>6 DEF Current
  <2>10. DiskTyped'
    BY <1>1, <1>3, <2>6, <2>8, <2>9 DEF DiskTyped
  <2>11. Written' = Written /\ WrittenInOrder'
    BY <1>3, <2>3, <2>6, DataFixed DEF RecorderInv, FilesOrdered
  <2>12. OpenFile'
    BY <1>1, <2>6, <2>9 DEF OpenFile
  <2>13. LengthsRight'
    <3> SUFFICES ASSUME NEW i \in 1 .. n
                 PROVE  /\ Len(files'[i].data) <= MaxSegment
                        /\ i < n => Len(files'[i].data) = MaxSegment
                        /\ files'[i].closed /\ ~writeFailed' =>
                              files'[i].header = Len(files'[i].data)
      BY <2>9 DEF LengthsRight
    <3>1. /\ Len(files[i].data) <= MaxSegment
          /\ i < n => Len(files[i].data) = MaxSegment
          /\ files[i].closed /\ ~writeFailed => files[i].header = Len(files[i].data)
      BY <2>2, <2>9 DEF RecorderInv, LengthsRight
    <3>2. CASE i = n
      BY <2>3, <2>5, <2>6, <2>8, <3>1, <3>2
    <3>3. CASE i # n
      BY <2>6, <2>8, <3>1, <3>3
    <3> QED
      BY <3>2, <3>3
  <2> QED
    BY <1>1, <1>2, <2>8, <2>10, <2>11, <2>12, <2>13, FilesKeep
<1>5. CASE ~open
  <2>1. files' = files /\ writeFailed' = writeFailed /\ segment' = segment
    BY <1>1, <1>5 DEF StopCloses
  <2>2. DiskTyped' /\ Written' = Written /\ WrittenInOrder'
    <3>1. open' \in BOOLEAN
      BY <1>1
    <3>2. DiskTyped'
      BY <2>1, <3>1 DEF RecorderInv, DiskTyped
    <3>3. Written' = Written /\ WrittenInOrder'
      BY <2>1 DEF RecorderInv, Written, FilesOrdered, WrittenInOrder
    <3> QED
      BY <3>2, <3>3
  <2>3. OpenFile'
    BY <1>1, <1>5, <2>1 DEF RecorderInv, OpenFile, Current
  <2>4. LengthsRight'
    BY <2>1 DEF RecorderInv, LengthsRight, Current
  <2> QED
    BY <1>1, <1>2, <2>1, <2>2, <2>3, <2>4, FilesKeep
<1> QED
  BY <1>4, <1>5

(* While a chunk is written and no write failed, there is an open file.    *)
LEMMA WriterHasFile ==
    ASSUME RecorderInv, writer = "write", ~writeFailed, NEW n, n = Len(files)
    PROVE  /\ files \in Seq(File) /\ files # <<>> /\ n \in Nat /\ n \in 1 .. n
           /\ DOMAIN files = 1 .. n /\ Current = n
           /\ files[n] \in File /\ open /\ graph # "stopped"
           /\ ~files[n].closed /\ segment = Len(files[n].data)
           /\ segment \in 0 .. MaxSegment /\ segment \in Nat
           /\ \A i \in 1 .. n :
                 /\ Len(files[i].data) <= MaxSegment
                 /\ i < n => Len(files[i].data) = MaxSegment
                 /\ files[i].closed => files[i].header = Len(files[i].data)
<1>1. /\ files \in Seq(File) /\ files # <<>> /\ segment \in 0 .. MaxSegment
      /\ open \in BOOLEAN
  BY DEF RecorderInv, DiskTyped
<1>2. n \in Nat /\ n \in 1 .. n /\ DOMAIN files = 1 .. n /\ Current = n /\ files[n] \in File
  BY <1>1, EmptySeq DEF Current
<1>3. open /\ graph # "stopped"
  BY DEF RecorderInv, Ends, OpenFile
<1>4. ~files[n].closed /\ segment = Len(files[n].data)
  BY <1>2, <1>3 DEF RecorderInv, OpenFile
<1>5. \A i \in 1 .. n :
        /\ Len(files[i].data) <= MaxSegment
        /\ i < n => Len(files[i].data) = MaxSegment
        /\ files[i].closed => files[i].header = Len(files[i].data)
  BY <1>2 DEF RecorderInv, LengthsRight
<1> QED
  BY <1>1, <1>2, <1>3, <1>4, <1>5

LEMMA NextSegmentKeeps ==
    ASSUME RecorderInv, NextSegment
    PROVE  RecorderInv'
<1>1. /\ UNCHANGED <<graph, stopping, queue, writer, chunk, taken, dropped>>
      /\ writer = "write" /\ ~writeFailed /\ segment = MaxSegment
  BY DEF NextSegment
<1>2. ThreadsTyped' /\ Ends'
  <2>1. chunks' = chunks
    BY <1>1 DEF queue
  <2>2. ThreadsTyped'
    BY <1>1 DEF RecorderInv, ThreadsTyped
  <2>3. Ends'
    BY <1>1, <2>1 DEF RecorderInv, Ends
  <2> QED
    BY <2>2, <2>3
<1>3. PICK n : n = Len(files)
  OBVIOUS
<1>4. /\ files \in Seq(File) /\ files # <<>> /\ n \in Nat /\ n \in 1 .. n
      /\ DOMAIN files = 1 .. n /\ Current = n
      /\ files[n] \in File /\ open /\ graph # "stopped"
      /\ ~files[n].closed /\ segment = Len(files[n].data)
      /\ segment \in 0 .. MaxSegment /\ segment \in Nat
      /\ \A i \in 1 .. n :
            /\ Len(files[i].data) <= MaxSegment
            /\ i < n => Len(files[i].data) = MaxSegment
            /\ files[i].closed => files[i].header = Len(files[i].data)
  BY <1>1, <1>3, WriterHasFile
<1>5. MaxSegment \in Nat /\ 0 \in 0 .. MaxSegment
  BY RecorderAssumption
<1>6. CASE /\ Close(FALSE) \/ Close(TRUE)
           /\ open' = FALSE /\ writeFailed' = TRUE
           /\ UNCHANGED segment \/ segment' = 0
  <2>1. PICK h \in {segment, files[n].header} :
           ClosedWith(files', h)
    BY <1>4, <1>6 DEF Close, ClosedWith
  <2>2. h \in Nat
    BY <1>4, <2>1 DEF File
  <2>3. /\ files' \in Seq(File) /\ Len(files') = n
        /\ \A i \in 1 .. n : files'[i].data = files[i].data
        /\ files'[n].closed = TRUE
    <3>1. /\ files' \in Seq(File) /\ Len(files') = Len(files) /\ Current \in 1 .. Len(files)
          /\ Current = Len(files)
          /\ \A i \in 1 .. Len(files) : files'[i].data = files[i].data
          /\ \A i \in 1 .. Len(files) : i # Current => files'[i] = files[i]
          /\ files'[Current].closed = TRUE /\ files'[Current].header = h
      BY <1>4, <2>1, <2>2, CloseIs
    <3> QED
      BY <1>3, <3>1
  <2>4. files' # <<>> /\ Current' = n /\ DOMAIN files' = 1 .. n
    BY <1>4, <2>3 DEF Current
  <2>5. segment' \in 0 .. MaxSegment
    BY <1>4, <1>5, <1>6
  <2>6. DiskTyped'
    BY <1>6, <2>3, <2>4, <2>5 DEF DiskTyped
  <2>7. Written' = Written /\ WrittenInOrder'
    BY <1>3, <1>4, <2>3, DataFixed DEF RecorderInv, FilesOrdered
  <2>8. OpenFile'
    BY <1>1, <1>4, <1>6, <2>3, <2>4 DEF OpenFile
  <2>9. LengthsRight'
    BY <1>4, <1>6, <2>3, <2>4 DEF LengthsRight
  <2> QED
    BY <1>1, <1>2, <1>6, <2>6, <2>7, <2>8, <2>9, FilesKeep
<1>7. CASE \E ok \in FileResults :
             /\ files' = Append([files EXCEPT ![Current].closed = TRUE,
                                              ![Current].header = segment],
                                NewFile)
             /\ open' = TRUE /\ writeFailed' = ~ok /\ segment' = 0
  <2>1. PICK fs, new : /\ ClosedWith(fs, segment) /\ new = NewFile
                       /\ fs = [files EXCEPT ![Current].closed = TRUE,
                                             ![Current].header = segment]
    BY DEF ClosedWith
  <2>2. /\ fs \in Seq(File) /\ Len(fs) = n
        /\ \A i \in 1 .. n : fs[i].data = files[i].data
        /\ \A i \in 1 .. n : i # n => fs[i] = files[i]
        /\ fs[n].closed = TRUE /\ fs[n].header = segment
    <3>0. ClosedWith(fs, segment)
      BY <2>1
    <3>2. segment \in Nat /\ files \in Seq(File) /\ files # <<>>
      BY <1>4
    <3>1. /\ fs \in Seq(File) /\ Len(fs) = Len(files) /\ Current \in 1 .. Len(files)
          /\ Current = Len(files)
          /\ \A i \in 1 .. Len(files) : fs[i].data = files[i].data
          /\ \A i \in 1 .. Len(files) : i # Current => fs[i] = files[i]
          /\ fs[Current].closed = TRUE /\ fs[Current].header = segment
      BY <3>0, <3>2, CloseIs
    <3> QED
      BY <1>3, <3>1
  <2>3. new \in File /\ new.data = <<>> /\ Len(new.data) = 0 /\ new.closed = FALSE
    BY <2>1 DEF NewFile, File
  <2>4. /\ files' = Append(fs, new) /\ open' = TRUE /\ segment' = 0
        /\ writeFailed' \in BOOLEAN
    BY <1>7, <2>1 DEF FileResults
  <2>5. /\ files' \in Seq(File) /\ Len(files') = n + 1 /\ files'[n + 1] = new
        /\ \A i \in 1 .. n : files'[i] = fs[i]
    BY <2>2, <2>3, <2>4, AppendFacts
  <2>6. /\ files' # <<>> /\ Current' = n + 1 /\ DOMAIN files' = 1 .. n + 1
        /\ \A i \in 1 .. n + 1 : i \in 1 .. n \/ i = n + 1
        /\ n + 1 \in 1 .. n + 1
    BY <1>4, <2>5 DEF Current
  <2>7. DiskTyped'
    BY <1>5, <2>4, <2>5, <2>6 DEF DiskTyped
  <2>8. Written' = Written /\ WrittenInOrder'
    <3>1. \A i \in 1 .. n : files'[i].data = files[i].data
      BY <2>2, <2>5
    <3>2. Len(files') = n + 1 /\ files'[n + 1].data = <<>>
      BY <2>3, <2>5
    <3> QED
      BY <1>3, <1>4, <2>5, <3>1, <3>2, DataFixed DEF RecorderInv, FilesOrdered
  <2>9. OpenFile'
    <3>1. graph' # "stopped"
      BY <1>1, <1>4
    <3> QED
      BY <2>3, <2>4, <2>5, <2>6, <3>1 DEF OpenFile
  <2>10. LengthsRight'
    <3> SUFFICES ASSUME NEW i \in 1 .. n + 1
                 PROVE  /\ Len(files'[i].data) <= MaxSegment
                        /\ i < n + 1 => Len(files'[i].data) = MaxSegment
                        /\ files'[i].closed => files'[i].header = Len(files'[i].data)
      BY <2>6 DEF LengthsRight
    <3>1. CASE i = n + 1
      BY <1>4, <1>5, <2>3, <2>5, <3>1
    <3>2. CASE i = n
      <4>1. /\ Len(files'[n].data) = MaxSegment
            /\ files'[n].header = MaxSegment
        BY <1>1, <1>4, <2>2, <2>5
      <4> QED
        BY <1>5, <3>2, <4>1
    <3>3. CASE i \in 1 .. n /\ i # n
      <4>1. files'[i] = files[i] /\ i < n
        BY <1>4, <2>2, <2>5, <3>3
      <4> QED
        BY <1>4, <3>3, <4>1
    <3> QED
      BY <2>6, <3>1, <3>2, <3>3
  <2> QED
    BY <1>1, <1>2, <2>7, <2>8, <2>9, <2>10, FilesKeep
<1> QED
  BY <1>6, <1>7 DEF NextSegment

(* e is s and then t, which have p and w elements.                         *)
Joins(e, s, t, p, w) ==
    /\ e \in Seq(Frame) /\ Len(e) = p + w
    /\ \A i \in 1 .. p : e[i] = s[i]
    /\ \A j \in 1 .. w : e[p + j] = t[j]
    /\ \A i \in 1 .. p + w : i \in 1 .. p \/ \E j \in 1 .. w : i = p + j
    /\ Range(e) = Range(s) \cup Range(t)

LEMMA ConcatFacts ==
    ASSUME NEW s \in Seq(Frame), NEW t \in Seq(Frame)
    PROVE  Joins(s \o t, s, t, Len(s), Len(t))
<1>1. PICK e, p, w : e = s \o t /\ p = Len(s) /\ w = Len(t)
  OBVIOUS
<1>2. p \in Nat /\ w \in Nat
  BY <1>1
<1>3. /\ e \in Seq(Frame) /\ Len(e) = p + w
      /\ \A i \in 1 .. p + w : e[i] = IF i <= p THEN s[i] ELSE t[i - p]
  BY <1>1, ConcatProperties
<1>4. /\ \A i \in 1 .. p : i \in 1 .. p + w /\ i <= p
      /\ \A j \in 1 .. w : p + j \in 1 .. p + w /\ ~(p + j <= p) /\ (p + j) - p = j
      /\ \A i \in 1 .. p + w : i \notin 1 .. p => i - p \in 1 .. w /\ i = p + (i - p)
  BY <1>2
<1>5. \A i \in 1 .. p : e[i] = s[i]
  BY <1>3, <1>4
<1>6. \A j \in 1 .. w : e[p + j] = t[j]
  <2> SUFFICES ASSUME NEW j \in 1 .. w PROVE e[p + j] = t[j]
    OBVIOUS
  <2>1. PICK i : i = p + j
    OBVIOUS
  <2>2. i \in 1 .. p + w /\ ~(i <= p) /\ i - p = j
    BY <1>4, <2>1
  <2>3. e[i] = t[i - p]
    BY <1>3, <2>2
  <2>4. e[i] = t[j]
    BY <2>2, <2>3
  <2> QED
    BY <1>2, <2>1, <2>4
<1>7. \A i \in 1 .. p + w : i \in 1 .. p \/ \E j \in 1 .. w : i = p + j
  <2> SUFFICES ASSUME NEW i \in 1 .. p + w, i \notin 1 .. p
               PROVE  \E j \in 1 .. w : i = p + j
    OBVIOUS
  <2>1. i - p \in 1 .. w /\ i = p + (i - p)
    BY <1>4
  <2> QED
    BY <2>1
<1>8. Range(e) = Range(s) \cup Range(t)
  <2> SUFFICES ASSUME NEW x PROVE x \in Range(e) <=> x \in Range(s) \/ x \in Range(t)
    OBVIOUS
  <2>1. /\ x \in Range(e) <=> \E i \in 1 .. p + w : x = e[i]
        /\ x \in Range(s) <=> \E i \in 1 .. p : x = s[i]
        /\ x \in Range(t) <=> \E i \in 1 .. w : x = t[i]
    <3>1. x \in Range(e) <=> \E i \in 1 .. Len(e) : x = e[i]
      BY <1>3, RangeIs
    <3>2. x \in Range(s) <=> \E i \in 1 .. Len(s) : x = s[i]
      BY RangeIs
    <3>3. x \in Range(t) <=> \E i \in 1 .. Len(t) : x = t[i]
      BY RangeIs
    <3>4. Len(e) = p + w /\ Len(s) = p /\ Len(t) = w
      BY <1>1, <1>3
    <3> QED
      BY <3>1, <3>2, <3>3, <3>4
  <2>2. ASSUME x \in Range(e) PROVE x \in Range(s) \/ x \in Range(t)
    <3>1. PICK i \in 1 .. p + w : x = e[i]
      BY <2>1, <2>2
    <3>2. CASE i \in 1 .. p
      BY <1>5, <2>1, <3>1, <3>2
    <3>3. CASE \E j \in 1 .. w : i = p + j
      BY <1>6, <2>1, <3>1, <3>3
    <3> QED
      BY <1>7, <3>2, <3>3
  <2>3. ASSUME x \in Range(s) PROVE x \in Range(e)
    BY <1>4, <1>5, <2>1, <2>3
  <2>4. ASSUME x \in Range(t) PROVE x \in Range(e)
    <3>1. PICK j \in 1 .. w : x = t[j]
      BY <2>1, <2>4
    <3>2. p + j \in 1 .. p + w /\ e[p + j] = x
      BY <1>4, <1>6, <3>1
    <3> QED
      BY <2>1, <3>2
  <2> QED
    BY <2>2, <2>3, <2>4
<1> QED
  BY <1>1, <1>3, <1>5, <1>6, <1>7, <1>8 DEF Joins

(* A write appends to the last file what follows all that is written.      *)
LEMMA WriteExtends ==
    ASSUME files \in Seq(File), files' \in Seq(File), NEW n \in Nat \ {0},
           Len(files) = n, Len(files') = n,
           \A i \in 1 .. n : i # n => files'[i] = files[i],
           NEW done \in Seq(Frame), Ascends(done), Before(Written, Range(done)),
           files'[n].data = files[n].data \o done, WrittenInOrder
    PROVE  Written' = Written \cup Range(done) /\ WrittenInOrder'
<1>1. /\ DOMAIN files = 1 .. n /\ DOMAIN files' = 1 .. n /\ n \in 1 .. n
      /\ \A i \in 1 .. n : files[i] \in File
  OBVIOUS
<1>2. PICK d, p, w : d = files[n].data /\ p = Len(d) /\ w = Len(done)
  OBVIOUS
<1>3. \A i \in 1 .. n : files[i].data \in Seq(Frame)
  BY <1>1 DEF File
<1>4. d \in Seq(Frame)
  BY <1>1, <1>2, <1>3
<1>5. PICK e : e = d \o done
  OBVIOUS
<1>6. /\ e \in Seq(Frame) /\ Len(e) = p + w /\ p \in Nat /\ w \in Nat
      /\ \A i \in 1 .. p : e[i] = d[i]
      /\ \A j \in 1 .. w : e[p + j] = done[j]
      /\ \A i \in 1 .. p + w : i \in 1 .. p \/ \E j \in 1 .. w : i = p + j
      /\ Range(e) = Range(d) \cup Range(done)
  <2>1. Joins(d \o done, d, done, Len(d), Len(done))
    BY <1>4, ConcatFacts
  <2>2. Joins(e, d, done, p, w)
    BY <1>2, <1>5, <2>1
  <2>3. p \in Nat /\ w \in Nat
    BY <1>2, <1>4
  <2> QED
    BY <2>2, <2>3 DEF Joins
<1>7. files'[n].data = e
  BY <1>2, <1>5
<1>8. /\ \A x : x \in Written <=> \E i \in 1 .. n : x \in Range(files[i].data)
      /\ \A x : x \in Written' <=> \E i \in 1 .. n : x \in Range(files'[i].data)
  BY <1>1, Zenon DEF Written
<1>9. Written' = Written \cup Range(done)
  <2> SUFFICES ASSUME NEW x PROVE x \in Written' <=> x \in Written \/ x \in Range(done)
    OBVIOUS
  <2>1. \A i \in 1 .. n : i # n => Range(files'[i].data) = Range(files[i].data)
    OBVIOUS
  <2>2. Range(files'[n].data) = Range(files[n].data) \cup Range(done)
    BY <1>2, <1>6, <1>7
  <2> QED
    BY <1>1, <1>8, <2>1, <2>2
<1>10. \A i \in 1 .. n : \A a \in DOMAIN files[i].data : files[i].data[a] \in Written
  <2> SUFFICES ASSUME NEW i \in 1 .. n, NEW a \in DOMAIN files[i].data
               PROVE  files[i].data[a] \in Written
    OBVIOUS
  <2>1. files[i].data[a] \in Range(files[i].data)
    BY DEF Range
  <2> QED
    BY <1>8, <2>1
<1>11. \A j \in 1 .. w : done[j] \in Range(done)
  BY <1>2, RangeIs
<1>12. DOMAIN e = 1 .. p + w /\ DOMAIN d = 1 .. p
  BY <1>2, <1>4, <1>6
<1>13. WrittenInOrder'
  <2> SUFFICES ASSUME NEW i \in 1 .. n, NEW j \in 1 .. n,
                      NEW a \in DOMAIN files'[i].data, NEW b \in DOMAIN files'[j].data,
                      i < j \/ (i = j /\ a < b)
               PROVE  files'[i].data[a] < files'[j].data[b]
    BY <1>1 DEF WrittenInOrder
  <2>1. CASE j # n
    <3>1. i # n
      BY <2>1
    <3> QED
      BY <1>1, <2>1, <3>1 DEF WrittenInOrder
  <2>2. CASE j = n /\ i # n
    <3>1. i < n /\ files'[i] = files[i] /\ b \in 1 .. p + w
      BY <1>7, <1>12, <2>2
    <3>2. files[i].data[a] \in Written
      BY <1>10, <3>1
    <3>3. CASE b \in 1 .. p
      <4>1. files[i].data[a] < files[n].data[b]
        BY <1>1, <1>2, <1>12, <3>1, <3>3 DEF WrittenInOrder
      <4> QED
        BY <1>2, <1>6, <1>7, <2>2, <3>1, <3>3, <4>1
    <3>4. CASE \E k \in 1 .. w : b = p + k
      <4>1. PICK k \in 1 .. w : b = p + k
        BY <3>4
      <4>2. e[b] = done[k] /\ done[k] \in Range(done)
        BY <1>6, <1>11, <4>1
      <4> QED
        BY <1>7, <2>2, <3>1, <3>2, <4>2 DEF Before
    <3> QED
      BY <1>6, <3>1, <3>3, <3>4
  <2>3. CASE j = n /\ i = n
    <3>1. a \in 1 .. p + w /\ b \in 1 .. p + w /\ a < b
      <4>1. files'[i].data = e /\ files'[j].data = e
        BY <1>7, <2>3
      <4>2. a \in 1 .. p + w /\ b \in 1 .. p + w
        BY <1>12, <4>1
      <4>3. ~(i < j)
        BY <2>3
      <4> QED
        BY <4>2, <4>3
    <3> SUFFICES e[a] < e[b]
      BY <1>7, <2>3
    <3>2. CASE b \in 1 .. p
      <4>1. a \in 1 .. p
        BY <1>6, <3>1, <3>2
      <4>2. files[n].data[a] < files[n].data[b]
        BY <1>1, <1>2, <1>12, <3>1, <3>2, <4>1 DEF WrittenInOrder
      <4> QED
        BY <1>2, <1>6, <3>2, <4>1, <4>2
    <3>3. CASE a \in 1 .. p /\ \E k \in 1 .. w : b = p + k
      <4>1. PICK k \in 1 .. w : b = p + k
        BY <3>3
      <4>2. e[b] = done[k] /\ done[k] \in Range(done)
        BY <1>6, <1>11, <4>1
      <4>3. e[a] \in Written
        BY <1>1, <1>2, <1>6, <1>10, <1>12, <3>3
      <4> QED
        BY <4>2, <4>3 DEF Before
    <3>4. CASE (\E k \in 1 .. w : a = p + k) /\ (\E k \in 1 .. w : b = p + k)
      <4>1. PICK k \in 1 .. w, l \in 1 .. w : a = p + k /\ b = p + l
        BY <3>4
      <4>2. k < l
        BY <1>6, <3>1, <4>1
      <4>3. done[k] < done[l]
        BY <1>2, <4>2 DEF Ascends
      <4> QED
        BY <1>6, <4>1, <4>3
    <3> QED
      BY <1>6, <3>1, <3>2, <3>3, <3>4
  <2> QED
    BY <2>1, <2>2, <2>3
<1> QED
  BY <1>9, <1>13

LEMMA WriteKeeps ==
    ASSUME RecorderInv, Write
    PROVE  RecorderInv'
<1>1. /\ UNCHANGED <<graph, stopping, queue, writer, open, taken, dropped>>
      /\ writer = "write" /\ ~writeFailed
  BY DEF Write
<1>2. PICK n, r, l, q : /\ n = Len(files) /\ r = MaxSegment - segment /\ l = Len(chunk)
                        /\ q = IF l < r THEN l ELSE r
  OBVIOUS
<1>3. /\ files \in Seq(File) /\ files # <<>> /\ n \in Nat /\ n \in 1 .. n
      /\ DOMAIN files = 1 .. n /\ Current = n
      /\ files[n] \in File /\ open /\ graph # "stopped"
      /\ ~files[n].closed /\ segment = Len(files[n].data)
      /\ segment \in 0 .. MaxSegment /\ segment \in Nat
      /\ \A i \in 1 .. n :
            /\ Len(files[i].data) <= MaxSegment
            /\ i < n => Len(files[i].data) = MaxSegment
            /\ files[i].closed => files[i].header = Len(files[i].data)
  BY <1>1, <1>2, WriterHasFile
<1>4. MaxSegment \in Nat /\ r \in Nat /\ l \in Nat /\ q \in 0 .. l /\ q <= r
      /\ chunk \in Seq(Frame) /\ Ascends(chunk)
  <2>1. chunk \in Seq(Frame) /\ Ascends(chunk)
    BY DEF RecorderInv, ChunkOrdered
  <2>2. MaxSegment \in Nat /\ r \in Nat /\ l \in Nat
    BY <1>2, <1>3, <2>1, RecorderAssumption
  <2> QED
    BY <1>2, <2>1, <2>2
<1>5. PICK w \in IF FilesFail THEN 0 .. q ELSE {q} :
         /\ files' = [files EXCEPT ![Current].data = @ \o SubSeq(chunk, 1, w)]
         /\ segment' = segment + w
         /\ writeFailed' = (w # q)
         /\ chunk' = SubSeq(chunk, w + 1, Len(chunk))
  BY <1>2 DEF Write
<1>6. w \in 0 .. l /\ w <= r /\ w \in Nat
  BY <1>4, <1>5
<1>7. segment' = segment + w /\ segment + w \in 0 .. MaxSegment
  <2>1. PICK s, m : s = segment /\ m = MaxSegment
    OBVIOUS
  <2>2. s \in 0 .. m /\ m \in Nat /\ w <= m - s
    BY <1>2, <1>3, <1>4, <1>6, <2>1
  <2>3. s + w \in 0 .. m
    BY <1>6, <2>2
  <2> QED
    BY <1>5, <2>1, <2>3
<1>8. PICK done, rest : done = SubSeq(chunk, 1, w) /\ rest = SubSeq(chunk, w + 1, Len(chunk))
  OBVIOUS
<1>9. /\ done \in Seq(Frame) /\ rest \in Seq(Frame)
      /\ Len(done) = w
      /\ \A i \in 1 .. w : done[i] = chunk[i]
      /\ Ascends(rest)
      /\ Range(chunk) = Range(done) \cup Range(rest)
      /\ Before(Range(done), Range(rest))
  BY <1>2, <1>4, <1>6, <1>8, ChunkSplit
<1>10. Ascends(done)
  <2>1. \A i \in 1 .. w : i \in 1 .. Len(chunk)
    BY <1>2, <1>4, <1>6
  <2> QED
    BY <1>4, <1>9, <2>1 DEF Ascends
<1>11. PICK f, g : f = files[n] /\ g = [f EXCEPT !.data = f.data \o done]
  OBVIOUS
<1>12. f.data \in Seq(Frame) /\ f \in File
  BY <1>3, <1>11 DEF File
<1>13. f.data \o done \in Seq(Frame) /\ Len(f.data \o done) = segment + w
  <2>1. Joins(f.data \o done, f.data, done, Len(f.data), Len(done))
    BY <1>9, <1>12, ConcatFacts
  <2> QED
    BY <1>3, <1>9, <1>11, <2>1 DEF Joins
<1>14. /\ g \in File /\ g.data = f.data \o done /\ Len(g.data) = segment + w
       /\ g.closed = f.closed /\ g.header = f.header
  <2>1. PICK e : e = f.data \o done
    OBVIOUS
  <2>2. g = [f EXCEPT !.data = e] /\ e \in Seq(Frame) /\ Len(e) = segment + w
    BY <1>11, <1>13, <2>1
  <2>3. g \in File /\ g.data = e /\ g.closed = f.closed /\ g.header = f.header
    BY <1>12, <2>2 DEF File
  <2> QED
    BY <2>1, <2>2, <2>3
<1>15. files' = [files EXCEPT ![n] = g]
  BY <1>3, <1>5, <1>8, <1>11
<1>16. /\ files' \in Seq(File) /\ Len(files') = n /\ files'[n] = g /\ files' # <<>>
       /\ DOMAIN files' = 1 .. n /\ Current' = n
       /\ \A i \in 1 .. n : i # n => files'[i] = files[i]
  <2>1. files \in [1 .. n -> File]
    BY <1>3
  <2>2. /\ files' \in [1 .. n -> File] /\ DOMAIN files' = 1 .. n /\ files'[n] = g
        /\ \A i \in 1 .. n : i # n => files'[i] = files[i]
    BY <1>3, <1>14, <1>15, <2>1
  <2>3. files' \in Seq(File) /\ Len(files') = n
    BY <1>3, <2>2
  <2> QED
    BY <1>3, <2>2, <2>3 DEF Current
<1>17. PICK W, D, R, Q : /\ W = Written /\ D = Range(done) /\ R = Range(rest)
                         /\ Q = Frames(chunks)
  OBVIOUS
<1>18. /\ Range(chunk) = D \cup R /\ Before(D, R) /\ W \subseteq 1 .. taken
       /\ D \cup R \subseteq 1 .. taken
       /\ Before(W, D \cup R) /\ Before(W, Q) /\ Before(D \cup R, Q)
  BY <1>9, <1>17 DEF RecorderInv, ChunkOrdered, FilesOrdered
<1>19. Written' = W \cup D /\ WrittenInOrder'
  <2>1. Before(Written, Range(done))
    BY <1>17, <1>18 DEF Before
  <2>2. files'[n].data = files[n].data \o done
    BY <1>11, <1>14, <1>16
  <2>3. n \in Nat \ {0} /\ Len(files) = n /\ WrittenInOrder
    BY <1>2, <1>3 DEF RecorderInv, FilesOrdered
  <2>4. Written' = Written \cup Range(done) /\ WrittenInOrder'
    BY <1>3, <1>9, <1>10, <1>16, <2>1, <2>2, <2>3, WriteExtends
  <2> QED
    BY <1>17, <2>4
<1>20. /\ chunk' = rest /\ Range(chunk') = R /\ chunks' = chunks /\ queued' = queued
       /\ taken' = taken /\ dropped' = dropped /\ Frames(chunks') = Q
  <2>1. chunk' = rest
    BY <1>5, <1>8
  <2>2. chunks' = chunks /\ queued' = queued /\ taken' = taken /\ dropped' = dropped
    BY <1>1 DEF queue
  <2> QED
    BY <1>17, <2>1, <2>2
<1>21. QueueTyped' /\ CountsRight' /\ TakenTyped' /\ QueueOrdered'
  BY <1>20 DEF RecorderInv, QueueTyped, CountsRight, TakenTyped, QueueOrdered
<1>22. ChunkOrdered'
  <2>1. R \subseteq 1 .. taken /\ Before(R, Q)
    BY <1>18 DEF Before
  <2> QED
    BY <1>9, <1>20, <2>1 DEF ChunkOrdered
<1>23. FilesOrdered'
  <2>1. W \cup D \subseteq 1 .. taken /\ Before(W \cup D, R) /\ Before(W \cup D, Q)
    BY <1>18 DEF Before
  <2> QED
    BY <1>19, <1>20, <2>1 DEF FilesOrdered
<1>24. AllThere'
  <2>1. /\ W \cup (D \cup R) \cup Q \cup dropped = 1 .. taken
        /\ dropped \cap (W \cup (D \cup R) \cup Q) = {}
    BY <1>1, <1>17, <1>18 DEF RecorderInv, AllThere
  <2>2. /\ (W \cup D) \cup R \cup Q \cup dropped = 1 .. taken
        /\ dropped \cap ((W \cup D) \cup R \cup Q) = {}
    BY <2>1
  <2> QED
    BY <1>19, <1>20, <2>2 DEF AllThere
<1>25. ThreadsTyped' /\ Ends'
  <2>1. ThreadsTyped'
    BY <1>1 DEF RecorderInv, ThreadsTyped
  <2>2. Ends'
    BY <1>1, <1>20 DEF RecorderInv, Ends
  <2> QED
    BY <2>1, <2>2
<1>26. DiskTyped'
  <2>1. writeFailed' \in BOOLEAN
    BY <1>5
  <2>2. open' \in BOOLEAN
    BY <1>1 DEF RecorderInv, DiskTyped
  <2> QED
    BY <1>7, <1>16, <2>1, <2>2 DEF DiskTyped
<1>27. OpenFile'
  <2>1. open' = open /\ graph' = graph
    BY <1>1
  <2> QED
    BY <1>3, <1>7, <1>11, <1>14, <1>16, <2>1 DEF OpenFile
<1>28. LengthsRight'
  <2> SUFFICES ASSUME NEW i \in 1 .. n
               PROVE  /\ Len(files'[i].data) <= MaxSegment
                      /\ i < n => Len(files'[i].data) = MaxSegment
                      /\ files'[i].closed => files'[i].header = Len(files'[i].data)
    BY <1>16 DEF LengthsRight
  <2>1. CASE i = n
    <3>1. PICK k : k = segment + w
      OBVIOUS
    <3>2. Len(files'[n].data) = k /\ k <= MaxSegment /\ ~files'[n].closed
      BY <1>3, <1>4, <1>7, <1>11, <1>14, <1>16, <3>1
    <3>3. ~(n < n)
      BY <1>3
    <3> QED
      BY <2>1, <3>2, <3>3
  <2>2. CASE i # n
    BY <1>3, <1>16, <2>2
  <2> QED
    BY <2>1, <2>2
<1> QED
  BY <1>19, <1>21, <1>22, <1>23, <1>24, <1>25, <1>26, <1>27, <1>28 DEF RecorderInv

LEMMA RecorderStep == RecorderInv /\ [RecorderNext]_recorderVars => RecorderInv'
<1> SUFFICES ASSUME RecorderInv, [RecorderNext]_recorderVars PROVE RecorderInv'
  OBVIOUS
<1>1. ASSUME UNCHANGED recorderVars PROVE RecorderInv'
  <2>1. /\ UNCHANGED <<queue, disk, taken, dropped>> /\ chunk' = chunk
        /\ graph' = graph /\ stopping' = stopping /\ writer' = writer /\ chunks' = chunks
    BY <1>1 DEF recorderVars, queue
  <2>2. ThreadsTyped' /\ Ends'
    BY <2>1 DEF RecorderInv, ThreadsTyped, Ends
  <2> QED
    BY <2>1, <2>2, ThreadsKeep
<1>2. CASE Work
  BY <1>2, WorkKeeps
<1>3. CASE Stop
  <2>1. /\ UNCHANGED <<queue, disk, taken, dropped>> /\ chunk' = chunk
        /\ writer' = writer /\ graph = "running" /\ graph' = "notifying" /\ stopping' = TRUE
        /\ chunks' = chunks
    BY <1>3 DEF Stop, queue
  <2>2. ThreadsTyped' /\ Ends'
    BY <2>1 DEF RecorderInv, ThreadsTyped, Ends
  <2> QED
    BY <2>1, <2>2, ThreadsKeep
<1>4. CASE StopNotifies
  <2>1. /\ UNCHANGED <<queue, disk, taken, dropped>> /\ chunk' = chunk
        /\ stopping' = stopping /\ graph = "notifying" /\ graph' = "joining"
        /\ writer' = IF writer = "asleep" THEN "check" ELSE writer
        /\ chunks' = chunks
    BY <1>4 DEF StopNotifies, NotifyWriter, queue
  <2>2. ThreadsTyped' /\ Ends'
    <3>1. ThreadsTyped'
      BY <2>1 DEF RecorderInv, ThreadsTyped
    <3>2. Ends'
      BY <2>1 DEF RecorderInv, Ends
    <3> QED
      BY <3>1, <3>2
  <2> QED
    BY <2>1, <2>2, ThreadsKeep
<1>5. CASE StopCloses
  BY <1>5, StopClosesKeeps
<1>6. CASE WriterTakes
  BY <1>6, TakeKeeps
<1>7. CASE WriterEnds
  <2>1. /\ UNCHANGED <<queue, disk, taken, dropped>> /\ chunk' = chunk
        /\ stopping' = stopping /\ graph' = graph /\ writer = "check" /\ writer' = "done"
        /\ stopping /\ chunks = <<>> /\ chunks' = chunks
    BY <1>7 DEF WriterEnds, queue
  <2>2. ThreadsTyped' /\ Ends'
    BY <2>1 DEF RecorderInv, ThreadsTyped, Ends
  <2> QED
    BY <2>1, <2>2, ThreadsKeep
<1>8. CASE WriterFindsNothing \/ WriterSleeps \/ WriterWakesUnasked
  <2>1. /\ UNCHANGED <<queue, disk, taken, dropped>> /\ chunk' = chunk
        /\ stopping' = stopping /\ graph' = graph /\ chunks' = chunks
        /\ writer \in {"check", "block", "asleep"}
        /\ writer' \in {"check", "block", "asleep"}
    BY <1>8 DEF WriterFindsNothing, WriterSleeps, WriterWakesUnasked, queue
  <2>2. ThreadsTyped' /\ Ends'
    BY <2>1 DEF RecorderInv, ThreadsTyped, Ends
  <2> QED
    BY <2>1, <2>2, ThreadsKeep
<1>9. CASE NextSegment
  BY <1>9, NextSegmentKeeps
<1>10. CASE Write
  BY <1>10, WriteKeeps
<1>11. CASE ChunkDone
  <2>1. /\ UNCHANGED <<queue, disk, taken, dropped>> /\ chunk' = <<>>
        /\ stopping' = stopping /\ graph' = graph /\ chunks' = chunks
        /\ writer = "write" /\ (chunk = <<>> \/ writeFailed) /\ writer' = "check"
    BY <1>11 DEF ChunkDone, queue
  <2>2. ThreadsTyped' /\ Ends'
    BY <2>1 DEF RecorderInv, ThreadsTyped, Ends
  <2> QED
    BY <2>1, <2>2, ThreadsKeep
<1>12. CASE Stopped
  BY <1>1, <1>12 DEF Stopped
<1> QED
  BY <1>1, <1>2, <1>3, <1>4, <1>5, <1>6, <1>7, <1>8, <1>9, <1>10, <1>11, <1>12
     DEF RecorderNext, Writer

LEMMA RecorderInvGives == RecorderInv => RecordingFaithful
<1> SUFFICES ASSUME RecorderInv PROVE RecordingFaithful
  OBVIOUS
<1>1. RecorderTypeOK
  <2>1. chunks \in Seq(Seq(Frame) \ {<<>>}) /\ queued \in 0 .. MaxQueued
    BY DEF RecorderInv, QueueTyped, Chunk
  <2>2. taken \in 0 .. MaxTaken /\ dropped \subseteq Frame
    <3>1. taken \in 0 .. MaxTaken /\ dropped \subseteq 1 .. taken /\ MaxTaken \in Nat
      BY RecorderAssumption DEF RecorderInv, TakenTyped
    <3>2. 1 .. taken \subseteq 1 .. MaxTaken
      BY <3>1
    <3> QED
      BY <3>1, <3>2 DEF Frame
  <2>3. chunk \in Seq(Frame)
    BY DEF RecorderInv, ChunkOrdered
  <2> QED
    BY <2>1, <2>2, <2>3 DEF RecorderTypeOK, RecorderInv, ThreadsTyped, DiskTyped
<1>2. WrittenInOrder
  BY DEF RecorderInv, FilesOrdered
<1>3. NothingLost
  <2>1. graph = "stopped" => chunk = <<>> /\ chunks = <<>>
    BY DEF RecorderInv, Ends
  <2> QED
    BY <2>1 DEF RecorderInv, AllThere, NothingLost
<1>4. SegmentsRight
  <2>1. graph = "stopped" => files[Current].closed
    BY DEF RecorderInv, OpenFile, DiskTyped
  <2> QED
    BY <2>1 DEF RecorderInv, LengthsRight, SegmentsRight
<1> QED
  BY <1>1, <1>2, <1>3, <1>4 DEF RecordingFaithful

(* The recording is faithful: what the files hold is in the order in which  *)
(* work() took it, over all segments; while no write failed, every frame   *)
(* that was taken is in a file, on its way or counted as dropped, and only *)
(* one of these; a closed segment states the length it has, and only the   *)
(* last one is not full.  For every limit of the queue and of a segment.   *)
THEOREM RecorderIsFaithful == RecorderSpec => []RecordingFaithful
<1>1. RecorderInit => RecorderInv
  BY RecorderInitial
<1>2. RecorderInv /\ [RecorderNext]_recorderVars => RecorderInv'
  BY RecorderStep
<1>3. RecorderInv => RecordingFaithful
  BY RecorderInvGives
<1> QED
  BY <1>1, <1>2, <1>3, PTL DEF RecorderSpec
=============================================================================
