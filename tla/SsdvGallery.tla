---------------------------- MODULE SsdvGallery ----------------------------
(***************************************************************************)
(* The window of the SSDV images: updates of the image that is received     *)
(* arrive through the event queue, while the operator browses and clears.   *)
(*                                                                          *)
(* Source: apps/dsp/ssdv_image_window.cpp, updateImage, showGalleryImage,   *)
(* clearDisplay and the buttons, on the GUI thread.  The receiver's worker  *)
(* (SsdvReceiver) posts the updates and is reduced here to what it posts:   *)
(* updates of its current image, of the generation of its last clear.       *)
(* Images are numbered in the order in which the receiver starts them.      *)
(***************************************************************************)
EXTENDS Integers, Sequences, SequencesExt

CONSTANTS
    MaxGallery, \* kMaxGalleryImages (32)
    MaxImages,  \* bound: images that the receiver starts
    MaxPosted,  \* bound: updates in the event queue
    MaxClears   \* bound: clears by the operator

ASSUME GalleryAssumption ==
    /\ MaxGallery \in Nat \ {0} /\ MaxImages \in Nat
    /\ MaxPosted \in Nat /\ MaxClears \in Nat

Image == 1 .. MaxImages
Nothing == 0

VARIABLES
    current,    \* the receiver's image, Nothing after a clear
    started,    \* images started
    generation, \* the receiver's generation, raised by clear()
    prepared,   \* the update that the worker has made and not posted yet
    posted,     \* updates on their way to the window
    minimum,    \* minimum_generation_
    gallery,    \* gallery_: images, oldest first
    index,      \* gallery_index_ + 1, 0 for none
    shown       \* the image on display

receiver    == <<current, started, generation, prepared, posted>>
window      == <<minimum, gallery, index, shown>>
galleryVars == <<receiver, window>>

Update == [image : Image, generation : 0 .. MaxClears]
NoUpdate == [image |-> Nothing, generation |-> 0]

GalleryTypeOK ==
    /\ current \in Image \cup {Nothing} /\ started \in 0 .. MaxImages
    /\ generation \in 0 .. MaxClears /\ minimum \in 0 .. MaxClears
    /\ prepared \in Update \cup {NoUpdate}
    /\ posted \in Seq(Update) /\ Len(posted) <= MaxPosted
    /\ gallery \in Seq(Image) /\ Len(gallery) <= MaxGallery
    /\ index \in 0 .. Len(gallery)
    /\ shown \in Image \cup {Nothing}

GalleryInit ==
    /\ current = Nothing /\ started = 0 /\ generation = 0
    /\ prepared = NoUpdate /\ posted = <<>>
    /\ minimum = 0 /\ gallery = <<>> /\ index = 0 /\ shown = Nothing

-----------------------------------------------------------------------------
\* The receiver starts an image or has more packets of it: it makes an update of
\* the generation that it works for.
ReceiverMakes ==
    /\ prepared = NoUpdate
    /\ \/ started < MaxImages /\ started' = started + 1 /\ current' = started + 1
       \/ current # Nothing /\ UNCHANGED <<started, current>>
    /\ prepared' = [image |-> current', generation |-> generation]
    /\ UNCHANGED <<generation, posted, window>>

\* It posts the update, whatever the operator did meanwhile.
ReceiverPosts ==
    /\ prepared # NoUpdate /\ Len(posted) < MaxPosted
    /\ posted' = Append(posted, prepared)
    /\ prepared' = NoUpdate
    /\ UNCHANGED <<current, started, generation, window>>

\* showGalleryImage.
Show(images, i) ==
    /\ gallery' = images
    /\ index' = i
    /\ shown' = images[i]

Known(i) == i \in ToSet(gallery)
Position(s, i) == CHOOSE n \in DOMAIN s : s[n] = i

\* Fault: an old image leaves the gallery, the selection keeps its position.
SelectionInPlace(images) == index

\* The position of the selection when the oldest image has left.
Selection(images) ==
    IF Len(images) > MaxGallery /\ index > 1 THEN index - 1 ELSE index

Trimmed(images) == IF Len(images) > MaxGallery THEN Tail(images) ELSE images

\* The window follows the newest image: nothing was shown, or it was, or the one
\* before it.
Follows(new, selected, images) ==
    selected = 0 \/ selected = new \/ selected = Len(images) - 1

\* updateImage.
UpdateImage ==
    /\ posted # <<>>
    /\ posted' = Tail(posted)
    /\ LET u == Head(posted)
           images == IF Known(u.image) THEN gallery ELSE Append(gallery, u.image)
           kept == Trimmed(images)
           new == Position(kept, u.image)
           selected == Selection(images)
       IN  IF u.generation < minimum THEN UNCHANGED window
           ELSE /\ Show(kept, IF Follows(new, selected, kept) THEN new ELSE selected)
                /\ UNCHANGED minimum
    /\ UNCHANGED <<current, started, generation, prepared>>

\* The buttons are enabled when there is an image to show.
Browse ==
    /\ \E i \in {index - 1, index + 1} :
         i \in 1 .. Len(gallery) /\ index # 0 /\ Show(gallery, i)
    /\ UNCHANGED <<receiver, minimum>>

\* The clear button: the receiver's clear, then clearDisplay.
ClearDisplay ==
    /\ generation < MaxClears
    /\ generation' = generation + 1 /\ current' = Nothing
    /\ minimum' = minimum + 1
    /\ gallery' = <<>> /\ index' = 0 /\ shown' = Nothing
    /\ UNCHANGED <<started, prepared, posted>>

\* Nothing more within the bounds.
Quiet ==
    /\ prepared = NoUpdate /\ posted = <<>> /\ started = MaxImages /\ generation = MaxClears
    /\ UNCHANGED galleryVars

GalleryNext == ReceiverMakes \/ ReceiverPosts \/ UpdateImage \/ Browse \/ ClearDisplay \/ Quiet

GallerySpec == GalleryInit /\ [][GalleryNext]_galleryVars

-----------------------------------------------------------------------------
(***************************************************************************)
(* Properties.                                                              *)
(***************************************************************************)

Newest == gallery[Len(gallery)]

\* What is on display is the selected image, whatever has left the gallery.
ShownIsSelected ==
    shown = IF index = 0 THEN Nothing ELSE gallery[index]

\* An update changes what is on display only to the image that it brings, or
\* because the image on display was the oldest and had to leave.
ShowsOnlyItself ==
    shown' # shown =>
        \/ shown' = Head(posted).image
        \/ shown = gallery[1] /\ shown \notin ToSet(gallery')

\* An operator who looks at the newest image keeps looking at the newest one.
NewestFollowed ==
    gallery # <<>> /\ shown = Newest => shown' = Newest'

\* The selected image is on display after every step; and updates that arrive
\* take the display neither to a third image nor away from the newest one, while
\* old images leave a full gallery.
UpdateKeepsView ==
    [][/\ GalleryTypeOK' /\ ShownIsSelected'
       /\ posted # <<>> /\ posted' = Tail(posted)
          => ShowsOnlyItself /\ NewestFollowed]_galleryVars
=============================================================================
