----------------------------- MODULE ImageShrink ------------------------------
(***************************************************************************)
(* process_image: an image read by the model is oriented, fitted into the  *)
(* largest box a provider takes, and scaled down round by round until its  *)
(* encoding is below the size limit.  Of the image only the dimensions and *)
(* the size of its encoding are kept; how small an encoding comes out is   *)
(* the encoder's choice.                                                   *)
(***************************************************************************)
EXTENDS Integers

CONSTANTS
    Width, Height,          \* dimensions of the images in the files
    Size,                   \* sizes of encodings, base64
    MaxWidth, MaxHeight,    \* the box
    MaxSize                 \* the first size that is too large

Positive == Nat \ {0}

ASSUME ImageAssumption ==
    /\ Width \subseteq Positive /\ Height \subseteq Positive
    /\ Size \subseteq Nat
    /\ MaxWidth \in Positive /\ MaxHeight \in Positive /\ MaxSize \in Positive

VARIABLES
    originalWidth, originalHeight,
    width, height,
    size,                   \* of the encoded data
    turned,                 \* the orientation was a quarter turn: "yes" or "no"
    resized,                \* was_resized: "yes" or "no"
    stage                   \* "orient", "fit", "check", "shrink", "done", "omitted"

original == <<originalWidth, originalHeight>>
image == <<original, turned, width, height, size, resized>>
imageVars == <<image, stage>>

-----------------------------------------------------------------------------
Ceiling(n, m) == IF n < m THEN n ELSE m
AtLeastOne(n) == IF n < 1 THEN 1 ELSE n

\* Python's round of n / d: to the even neighbour when it is a tie.
Round(n, d) ==
    LET q == n \div d
        r == n - q * d
    IN IF 2 * r < d \/ (2 * r = d /\ q % 2 = 0) THEN q ELSE q + 1

\* _fit_dimensions: the height for a width cut to the box, then the width for
\* a height cut to the box.
\* Mutant: the height keeps its size when the width is cut.
FitHeightUncut(w, h) == h

FitHeight(w, h) == IF w > MaxWidth THEN Round(h * MaxWidth, w) ELSE h

FitWidth(w, h) ==
    LET fitted == FitHeight(w, h)
        cut == Ceiling(w, MaxWidth)
    IN IF fitted > MaxHeight THEN Round(cut * MaxHeight, fitted) ELSE cut

\* Mutant: the height is not cut once more.
FittedWithoutHeight(w, h) ==
    <<AtLeastOne(Ceiling(w, MaxWidth)), AtLeastOne(FitHeight(w, h))>>

Fitted(w, h) ==
    <<AtLeastOne(FitWidth(w, h)), AtLeastOne(Ceiling(FitHeight(w, h), MaxHeight))>>

\* Three quarters, and never less than one.
Smaller(n) == IF n = 1 THEN 1 ELSE AtLeastOne((3 * n) \div 4)

NextDimensions(w, h) ==
    IF Smaller(w) = w /\ Smaller(h) = h THEN <<1, 1>> ELSE <<Smaller(w), Smaller(h)>>

-----------------------------------------------------------------------------
ImageInit ==
    /\ originalWidth \in Width
    /\ originalHeight \in Height
    /\ width = originalWidth
    /\ height = originalHeight
    /\ size \in Size
    /\ turned = "no"
    /\ resized = "no"
    /\ stage = "orient"

Exceeds == size >= MaxSize

Encode(w, h) ==
    /\ size' \in Size
    /\ width' = w
    /\ height' = h
    /\ UNCHANGED original

\* Not a JPEG, or without an orientation.
KeepOrientation ==
    /\ stage = "orient"
    /\ stage' = "fit"
    /\ UNCHANGED image

\* The transposition turns the image by a quarter, or not.
ApplyExifOrientation ==
    /\ stage = "orient"
    /\ \/ Encode(width, height) /\ UNCHANGED turned
       \/ Encode(height, width) /\ turned' = "yes"
    /\ stage' = "fit"
    /\ UNCHANGED resized

Resize(dimensions) ==
    /\ Encode(dimensions[1], dimensions[2])
    /\ resized' = "yes"
    /\ UNCHANGED turned

ResizeToFitDimensions ==
    /\ stage = "fit"
    /\ stage' = "check"
    /\ IF Fitted(width, height) = <<width, height>>
       THEN UNCHANGED image
       ELSE Resize(Fitted(width, height))

Finish ==
    /\ stage = "check"
    /\ ~Exceeds
    /\ stage' = "done"
    /\ UNCHANGED image

GiveUp ==
    /\ stage = "check"
    /\ Exceeds
    /\ width = 1 /\ height = 1
    /\ stage' = "omitted"
    /\ UNCHANGED image

GoAround ==
    /\ stage = "check"
    /\ Exceeds
    /\ ~(width = 1 /\ height = 1)
    /\ stage' = "shrink"
    /\ UNCHANGED image

\* Mutant: the new dimensions are not recorded.
ShrinkUnrecorded ==
    /\ stage = "shrink"
    /\ Resize(<<width, height>>)
    /\ stage' = "check"

\* _shrink_by_factor, which gives up when the dimensions would not change.
ShrinkByFactor ==
    /\ stage = "shrink"
    /\ IF NextDimensions(width, height) = <<width, height>>
       THEN /\ stage' = "omitted"
            /\ UNCHANGED image
       ELSE /\ stage' = "check"
            /\ Resize(NextDimensions(width, height))

\* Pillow cannot decode or encode the image, or refuses it as a bomb.
Fail ==
    /\ stage \in {"orient", "fit", "shrink"}
    /\ stage' = "omitted"
    /\ UNCHANGED image

ImageNext ==
    \/ KeepOrientation \/ ApplyExifOrientation \/ ResizeToFitDimensions
    \/ Finish \/ GiveUp \/ GoAround \/ ShrinkByFactor \/ Fail

\* The pipeline runs to its end in one call.
ImageSpec == ImageInit /\ [][ImageNext]_imageVars /\ WF_imageVars(ImageNext)

-----------------------------------------------------------------------------
ImageTypeOK ==
    /\ originalWidth \in Positive /\ originalHeight \in Positive
    /\ width \in Positive /\ height \in Positive
    /\ size \in Nat
    /\ turned \in {"yes", "no"}
    /\ resized \in {"yes", "no"}
    /\ stage \in {"orient", "fit", "check", "shrink", "done", "omitted"}

\* An image sent to a provider is in the box and below the size limit,
\* whatever its aspect, its orientation and the encoder's luck (the limits of
\* ImageProcessingOptions).
SentImagesFit ==
    stage = "done" => width \in 1..MaxWidth /\ height \in 1..MaxHeight /\ size < MaxSize

\* Every round makes the image smaller, so that the loop comes to the one
\* pixel it gives up at.
RoundsShrink ==
    [][ShrinkByFactor => /\ stage' = "check"
                         /\ width' <= width /\ height' <= height
                         /\ width' + height' < width + height]_imageVars

\* The rounds come to an end, even when no encoding ever fits.
ShrinkingEnds == <>(stage \in {"done", "omitted"})

\* What dimension_note tells the model: coordinates in the image it sees, times
\* the ratio of the widths, are coordinates of the original in both directions.
\* However many rounds the image was shrunk, it is at most three pixels too
\* small in one direction and one too large in the other.  (Of an image turned
\* by a quarter that is not so: its original dimensions are those from before
\* the turn.)
NoteMapsOntoTheOriginal ==
    stage = "done" /\ resized = "yes" /\ turned = "no" =>
        LET mapped == height * originalWidth
            wanted == originalHeight * width
        IN mapped - wanted \in -(3 * originalWidth + originalHeight)
                               .. 3 * originalHeight + originalWidth

=============================================================================
