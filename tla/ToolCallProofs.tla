--------------------------- MODULE ToolCallProofs ---------------------------
(***************************************************************************)
(* Calls of built-in tools.  An answer of bash is final, for any number of *)
(* processes, and shows the end of the output, however it was cut; for     *)
(* images and boxes of any dimensions, what is sent fits, and every round  *)
(* makes the image smaller; the pages of a file tile it, whatever its lines*)
(* and the limits; and an edited file keeps its style and is what all its  *)
(* edits give at once, whatever its characters.                            *)
(***************************************************************************)
EXTENDS ToolCall, SelectionProofs

-----------------------------------------------------------------------------
(* bash.                                                                   *)

\* Whoever is past waiting for the shell, and was not sent there by a
\* cancellation, knows its exit code.
ExitCodeIsKnown ==
    pc \in {"reading", "done"} /\ ~cancelled => reaped

\* The inductive invariant.  That nobody has the pipe is stable once the shell
\* is done with: a new holder needs a parent that is one.
BashInv ==
    /\ TypeOK
    /\ ExitCodeIsKnown
    /\ AnswersAreFinal

\* The invariant holds when the shell has been started.
LEMMA CommandStarts == Init => BashInv
  BY BashAssumption DEF Init, BashInv, TypeOK, ExitCodeIsKnown, AnswersAreFinal

\* A command's own steps reach no new holder and leave tile's state alone.
LEMMA CommandPreserves ==
    ASSUME BashInv, NEW p \in Process, Spawn(p) \/ Exit(p)
    PROVE  BashInv'
<1>1. CASE Spawn(p)
  <2>1. TypeOK'
    BY <1>1 DEF BashInv, TypeOK, Spawn, command
  <2>2. alive \intersect holders = {} => (alive \intersect holders)' = {}
    BY <1>1 DEF Spawn, command
  <2>3. QED
    BY <1>1, <2>1, <2>2 DEF BashInv, ExitCodeIsKnown, AnswersAreFinal, Spawn, command
<1>2. CASE Exit(p)
  BY <1>2 DEF BashInv, TypeOK, ExitCodeIsKnown, AnswersAreFinal, Exit, command
<1>3. QED
  BY <1>1, <1>2

\* The exit code becomes known.
LEMMA ReapPreserves == ASSUME BashInv, Reap PROVE BashInv'
  BY DEF BashInv, TypeOK, ExitCodeIsKnown, AnswersAreFinal, Reap, command

\* Signals end processes and start none.
LEMMA SignalsPreserve ==
    ASSUME BashInv, Timeout \/ Escalate
    PROVE  BashInv'
<1>1. /\ pc \in {"waiting", "terminating"} /\ pc' \in {"terminating", "killing"}
      /\ timedOut' \in BOOLEAN
      /\ signalled' \subseteq {"TERM", "KILL"}
      /\ alive' \subseteq alive
      /\ UNCHANGED <<cancelled, reaped, unborn, command>>
  BY DEF Timeout, Escalate, Signal, BashInv, TypeOK
<1>2. TypeOK'
  BY <1>1 DEF BashInv, TypeOK, command
<1>3. QED
  BY <1>1, <1>2 DEF BashInv, ExitCodeIsKnown, AnswersAreFinal

\* The steps of _wait_for_process.
LEMMA AwaitsPreserve ==
    ASSUME BashInv, Finished \/ Stopped \/ Return \/ Cancel
    PROVE  BashInv'
<1>1. /\ pc' \in {"reading", "done"}
      /\ cancelled' \in BOOLEAN
      /\ UNCHANGED <<timedOut, signalled, reaped, unborn, alive, command>>
  BY DEF Finished, Stopped, Return, Cancel, BashInv, TypeOK
<1>2. TypeOK'
  BY <1>1 DEF BashInv, TypeOK, command
<1>3. ExitCodeIsKnown'
  BY DEF Finished, Stopped, Return, Cancel, BashInv, ExitCodeIsKnown
<1>4. AnswersAreFinal'
  BY <1>1, <1>3 DEF Finished, Stopped, Return, Cancel, AnswersAreFinal, ExitCodeIsKnown, command
<1>5. QED
  BY <1>2, <1>3, <1>4 DEF BashInv

\* Every step keeps the invariant.
LEMMA CommandStepPreserves == BashInv /\ [Next]_vars => BashInv'
<1>1. SUFFICES ASSUME BashInv, [Next]_vars PROVE BashInv'
  OBVIOUS
<1>2. CASE UNCHANGED vars
  BY <1>1, <1>2 DEF BashInv, TypeOK, ExitCodeIsKnown, AnswersAreFinal, vars, command
<1>3. CASE Next
  BY <1>1, <1>3, CommandPreserves, ReapPreserves, SignalsPreserve, AwaitsPreserve DEF Next
<1>4. QED
  BY <1>1, <1>2, <1>3

\* Every reachable state of a bash call satisfies the invariant.
THEOREM BashInductive == Spec => []BashInv
  BY CommandStarts, CommandStepPreserves, PTL DEF Spec

\* Whatever a command's processes do, the call's state keeps its types.
THEOREM BashTypeCorrect == Spec => []TypeOK
<1>1. BashInv => TypeOK
  BY DEF BashInv
<1>2. QED
  BY <1>1, BashInductive, PTL

\* When the call is answered the exit code is the shell's, and no process of
\* the command can write any more of the output that was answered with.
THEOREM AnswersNeverChange == Spec => []AnswersAreFinal
<1>1. BashInv => AnswersAreFinal
  BY DEF BashInv
<1>2. QED
  BY <1>1, BashInductive, PTL

-----------------------------------------------------------------------------
(* read of an image.                                                       *)

\* Quotients as the solver needs them.
LEMMA Division ==
  ASSUME NEW n \in Nat, NEW d \in Positive
  PROVE  /\ n \div d \in Nat
         /\ (n \div d) * d <= n
         /\ n < (n \div d + 1) * d
  BY DEF Positive

\* Rounding gives a natural, and never passes a bound that the exact quotient
\* keeps.
LEMMA RoundIsBounded ==
  ASSUME NEW n \in Nat, NEW d \in Positive, NEW m \in Nat, n <= m * d
  PROVE  Round(n, d) \in Nat /\ Round(n, d) <= m
<1> DEFINE q == n \div d
           r == n - q * d
<1>1. q \in Nat /\ q * d \in Nat /\ q * d <= n /\ n < (q + 1) * d /\ r \in Nat
  BY Division DEF Positive
<1>2. q <= m
  <2>1. SUFFICES ASSUME q >= m + 1 PROVE FALSE
    BY <1>1
  <2>2. q * d >= (m + 1) * d
    BY <1>1, <2>1 DEF Positive
  <2> QED
    BY <1>1, <2>2 DEF Positive
<1>3. Round(n, d) \in {q, q + 1} /\ (q = m => Round(n, d) = q)
  <2>1. q = m => r = 0
    BY <1>1
  <2> QED
    BY <1>1, <2>1 DEF Round, Positive
<1> HIDE DEF q
<1> QED
  BY <1>1, <1>2, <1>3

\* The fitted dimensions are in the box.
LEMMA FittedFits ==
  ASSUME NEW w \in Positive, NEW h \in Positive
  PROVE  Fitted(w, h)[1] \in 1..MaxWidth /\ Fitted(w, h)[2] \in 1..MaxHeight
<1> USE ImageAssumption
<1> DEFINE fitted == FitHeight(w, h)
           cut == Ceiling(w, MaxWidth)
<1>1. cut \in Positive /\ cut <= MaxWidth
  BY DEF Ceiling, Positive
<1>2. fitted \in Nat
  <2>1. CASE w > MaxWidth
    <3>1. h * MaxWidth \in Nat /\ h * MaxWidth <= (h * MaxWidth) * w
      BY DEF Positive
    <3> QED
      BY <2>1, <3>1, RoundIsBounded DEF FitHeight, Positive
  <2> QED
    BY <2>1 DEF FitHeight, Positive
<1>3. FitWidth(w, h) \in Nat /\ FitWidth(w, h) <= MaxWidth
  <2>1. CASE fitted > MaxHeight
    <3>1. fitted \in Positive
      BY <1>2, <2>1 DEF Positive
    <3>2. cut * MaxHeight \in Nat /\ cut * MaxHeight <= cut * fitted
      BY <1>1, <1>2, <2>1 DEF Positive
    <3>3. Round(cut * MaxHeight, fitted) \in Nat /\ Round(cut * MaxHeight, fitted) <= cut
      BY <1>1, <3>1, <3>2, RoundIsBounded DEF Positive
    <3>4. FitWidth(w, h) = Round(cut * MaxHeight, fitted)
      BY <2>1 DEF FitWidth
    <3> QED
      BY <1>1, <3>3, <3>4 DEF Positive
  <2>2. CASE ~(fitted > MaxHeight)
    <3>1. FitWidth(w, h) = cut
      BY <2>2 DEF FitWidth
    <3> QED
      BY <1>1, <3>1 DEF Positive
  <2> QED
    BY <2>1, <2>2
<1> HIDE DEF fitted
<1> QED
  BY <1>2, <1>3 DEF Fitted, AtLeastOne, Ceiling, Positive, fitted

\* A round makes no dimension larger and one of them smaller.
LEMMA NextIsSmaller ==
  ASSUME NEW w \in Positive, NEW h \in Positive, ~(w = 1 /\ h = 1)
  PROVE  LET next == NextDimensions(w, h)
         IN /\ next[1] \in 1..w /\ next[2] \in 1..h
            /\ next[1] + next[2] < w + h
<1>1. /\ Smaller(w) \in 1..w /\ Smaller(h) \in 1..h
  BY DEF Smaller, AtLeastOne, Positive
<1> QED
  BY <1>1 DEF NextDimensions, Positive

-----------------------------------------------------------------------------
\* Past the fit the image is in the box, and below the limit once it is done.
InTheBox ==
    stage \in {"check", "shrink", "done"} => width \in 1..MaxWidth /\ height \in 1..MaxHeight

ImageInv ==
    /\ ImageTypeOK
    /\ InTheBox
    /\ stage = "shrink" => ~(width = 1 /\ height = 1)
    /\ stage = "done" => size < MaxSize

\* The invariant holds of the image as it is opened.
LEMMA ImageStarts == ImageInit => ImageInv
  BY ImageAssumption DEF ImageInit, ImageInv, ImageTypeOK, InTheBox, Positive

\* What a round does.
LEMMA RoundShrinks ==
  ASSUME ImageInv, ShrinkByFactor
  PROVE  /\ stage' = "check"
         /\ width' \in 1..width /\ height' \in 1..height
         /\ width' + height' < width + height
         /\ size' \in Nat /\ resized' = "yes"
         /\ UNCHANGED <<original, turned>>
<1> DEFINE next == NextDimensions(width, height)
<1>1. /\ next[1] \in 1..width /\ next[2] \in 1..height
      /\ next[1] + next[2] < width + height
  BY NextIsSmaller DEF ImageInv, ImageTypeOK, ShrinkByFactor
<1>2. next # <<width, height>>
  BY <1>1 DEF ImageInv, ImageTypeOK
<1>3. /\ stage' = "check"
      /\ width' = next[1] /\ height' = next[2]
      /\ size' \in Nat /\ resized' = "yes"
      /\ UNCHANGED <<original, turned>>
  BY <1>2, ImageAssumption DEF ShrinkByFactor, Resize, Encode
<1> HIDE DEF next
<1> QED
  BY <1>1, <1>3

\* Every step of the pipeline keeps it.
LEMMA StepKeepsImageInv == ImageInv /\ [ImageNext]_imageVars => ImageInv'
<1> SUFFICES ASSUME ImageInv, [ImageNext]_imageVars PROVE ImageInv'
  OBVIOUS
<1> USE ImageAssumption DEF ImageInv, ImageTypeOK
<1>1. CASE UNCHANGED imageVars
  BY <1>1 DEF imageVars, image, original, InTheBox
<1>2. CASE KeepOrientation
  BY <1>2 DEF KeepOrientation, image, original, InTheBox
<1>3. CASE ApplyExifOrientation
  BY <1>3 DEF ApplyExifOrientation, Encode, original, InTheBox
<1>4. CASE ResizeToFitDimensions
  <2>1. Fitted(width, height)[1] \in 1..MaxWidth /\ Fitted(width, height)[2] \in 1..MaxHeight
    BY FittedFits
  <2>2. /\ stage' = "check"
        /\ width' = Fitted(width, height)[1] /\ height' = Fitted(width, height)[2]
        /\ size' \in Nat /\ resized' \in {"yes", "no"}
        /\ UNCHANGED <<original, turned>>
    <3>1. CASE Fitted(width, height) = <<width, height>>
      BY <1>4, <3>1 DEF ResizeToFitDimensions, image, original
    <3>2. CASE Fitted(width, height) # <<width, height>>
      BY <1>4, <3>2 DEF ResizeToFitDimensions, Resize, Encode
    <3> QED
      BY <3>1, <3>2
  <2> QED
    BY <2>1, <2>2 DEF original, InTheBox, Positive
<1>5. CASE Finish
  BY <1>5 DEF Finish, Exceeds, image, original, InTheBox, Positive
<1>6. CASE GiveUp \/ GoAround \/ Fail
  BY <1>6 DEF GiveUp, GoAround, Fail, image, original, InTheBox
<1>7. CASE ShrinkByFactor
  <2>1. stage = "shrink"
    BY <1>7 DEF ShrinkByFactor
  <2>2. /\ stage' = "check" /\ size' \in Nat /\ resized' = "yes"
        /\ width' \in 1..width /\ height' \in 1..height
        /\ UNCHANGED <<original, turned>>
    BY <1>7, RoundShrinks
  <2> QED
    BY <2>1, <2>2 DEF original, InTheBox, Positive
<1> QED
  BY <1>1, <1>2, <1>3, <1>4, <1>5, <1>6, <1>7 DEF ImageNext

\* Whatever the image, the box and the encoder: what is sent is in the box
\* and below the size limit.
THEOREM SentImagesAlwaysFit == ImageSpec => []SentImagesFit
<1>1. ImageInv => SentImagesFit
  BY DEF ImageInv, InTheBox, SentImagesFit
<1> QED
  BY ImageStarts, StepKeepsImageInv, <1>1, PTL DEF ImageSpec

\* Every round of the loop makes the image smaller, and _shrink_by_factor
\* never gives up: together with the guard of the loop, why it ends.
THEOREM EveryRoundShrinks == ImageSpec => RoundsShrink
<1> DEFINE Shrinks == ShrinkByFactor => /\ stage' = "check"
                                        /\ width' <= width /\ height' <= height
                                        /\ width' + height' < width + height
<1>1. ImageInv => Shrinks
  <2> SUFFICES ASSUME ImageInv, ShrinkByFactor
               PROVE  /\ stage' = "check"
                      /\ width' <= width /\ height' <= height
                      /\ width' + height' < width + height
    OBVIOUS
  <2> QED
    BY RoundShrinks DEF ImageInv, ImageTypeOK, Positive
<1>2. ImageInv /\ [ImageNext]_imageVars => ImageInv' /\ [Shrinks]_imageVars
  BY StepKeepsImageInv, <1>1
<1> QED
  BY ImageStarts, <1>2, PTL DEF ImageSpec, RoundsShrink

-----------------------------------------------------------------------------
(* What dimension_note says of it.                                         *)

\* How far the image is from the original's proportions.
Skew == height * originalWidth - originalHeight * width

Mapped(skew, w, h) == skew \in Int /\ -(3 * w + h) <= skew /\ skew <= 3 * h + w

\* Before the fit the image has the original's dimensions, and it stays close to
\* its proportions after it.
NoteInv ==
    /\ ImageInv
    /\ turned = "no" =>
          /\ stage \in {"orient", "fit"} => width = originalWidth /\ height = originalHeight
          /\ Mapped(Skew, originalWidth, originalHeight)

\* Rounding misses the exact quotient by a half at most.
LEMMA RoundIsClose ==
  ASSUME NEW n \in Nat, NEW d \in Positive
  PROVE  /\ Round(n, d) \in Nat
         /\ -d <= 2 * (Round(n, d) * d - n) /\ 2 * (Round(n, d) * d - n) <= d
<1> DEFINE q == n \div d
           r == n - q * d
<1>1. q \in Nat /\ q * d \in Nat /\ r \in Nat /\ r < d
  BY Division DEF Positive
<1>2. (q + 1) * d = q * d + d
  BY <1>1 DEF Positive
<1>3. n = q * d + r
  BY <1>1
<1>4. CASE 2 * r < d \/ (2 * r = d /\ q % 2 = 0)
  <2>1. Round(n, d) = q
    BY <1>4 DEF Round
  <2> HIDE DEF q, r
  <2> QED
    BY <1>1, <1>3, <1>4, <2>1 DEF Positive
<1>5. CASE ~(2 * r < d \/ (2 * r = d /\ q % 2 = 0))
  <2>1. Round(n, d) = q + 1
    BY <1>5 DEF Round
  <2>2. 2 * r >= d
    BY <1>1, <1>5 DEF Positive
  <2> HIDE DEF q, r
  <2>3. 2 * ((q + 1) * d - n) = 2 * d - 2 * r
    BY <1>1, <1>2, <1>3 DEF Positive
  <2> QED
    BY <1>1, <2>1, <2>2, <2>3 DEF Positive
<1> QED
  BY <1>4, <1>5

\* A round takes the quarter of both dimensions, so that what it adds to the
\* skew is less than the quarter by which the skew shrinks.
LEMMA RoundsKeepTheNote ==
  ASSUME NEW w \in Positive, NEW h \in Positive, NEW ow \in Positive, NEW oh \in Positive,
         ~(w = 1 /\ h = 1), Mapped(h * ow - oh * w, ow, oh)
  PROVE  LET next == NextDimensions(w, h)
         IN  Mapped(next[2] * ow - oh * next[1], ow, oh)
<1> DEFINE a == 3 * w - 4 * Smaller(w)
           b == 3 * h - 4 * Smaller(h)
           x == Smaller(w)
           y == Smaller(h)
<1>1. x \in Positive /\ a \in -1..3
  BY DEF Smaller, AtLeastOne, Positive
<1>2. y \in Positive /\ b \in -1..3
  BY DEF Smaller, AtLeastOne, Positive
<1>3. NextDimensions(w, h) = <<x, y>>
  BY DEF NextDimensions, Smaller, AtLeastOne, Positive
<1>4. 4 * x = 3 * w - a /\ 4 * y = 3 * h - b
  BY <1>1, <1>2 DEF Positive
<1> HIDE DEF a, b, x, y
<1>5. 4 * (y * ow - oh * x) = 3 * (h * ow - oh * w) - b * ow + oh * a
  BY <1>1, <1>2, <1>4 DEF Positive
<1>6. -ow <= b * ow /\ b * ow <= 3 * ow /\ b * ow \in Int
  BY <1>2 DEF Positive
<1>7. -oh <= oh * a /\ oh * a <= 3 * oh /\ oh * a \in Int
  BY <1>1 DEF Positive
<1>8. y * ow - oh * x \in Int
  BY <1>1, <1>2 DEF Positive
<1>9. Mapped(y * ow - oh * x, ow, oh)
  <2> DEFINE s == y * ow - oh * x
             t == h * ow - oh * w
             u == b * ow
             v == oh * a
  <2>1. /\ s \in Int /\ t \in Int /\ u \in Int /\ v \in Int /\ ow \in Nat /\ oh \in Nat
        /\ 4 * s = 3 * t - u + v
        /\ -ow <= u /\ u <= 3 * ow /\ -oh <= v /\ v <= 3 * oh
        /\ -(3 * ow + oh) <= t /\ t <= 3 * oh + ow
    BY <1>5, <1>6, <1>7, <1>8 DEF Mapped, Positive
  <2> HIDE DEF s, t, u, v
  <2>2. -(3 * ow + oh) <= s /\ s <= 3 * oh + ow
    BY <2>1
  <2> QED
    BY <2>1, <2>2 DEF Mapped, s
<1> QED
  BY <1>3, <1>9

\* What is within a pixel of the proportions is close enough.
LEMMA CloseIsMapped ==
  ASSUME NEW w \in Positive, NEW h \in Positive, NEW z \in Int,
         \/ -(w + h) <= 2 * z /\ 2 * z <= w + h
         \/ -w <= 2 * (z - w) /\ z <= w
         \/ -h <= z /\ 2 * (z + h) <= w + h
  PROVE  Mapped(z, w, h)
  BY DEF Mapped, Positive

\* The fit costs less than a pixel.
LEMMA FitKeepsTheNote ==
  ASSUME NEW w \in Positive, NEW h \in Positive
  PROVE  LET fitted == Fitted(w, h)
         IN  Mapped(fitted[2] * w - h * fitted[1], w, h)
<1> USE ImageAssumption
<1> DEFINE f == FitHeight(w, h)
           cut == Ceiling(w, MaxWidth)
           e == f * w - h * cut
<1>1. cut \in Positive /\ cut <= MaxWidth
  BY DEF Ceiling, Positive
<1>2. f \in Nat /\ h * cut \in Nat /\ f * w \in Nat /\ -w <= 2 * e /\ 2 * e <= w
  <2>1. CASE w > MaxWidth
    <3>1. f = Round(h * MaxWidth, w) /\ cut = MaxWidth
      BY <2>1 DEF FitHeight, Ceiling, Positive
    <3>2. h * MaxWidth \in Nat
      BY DEF Positive
    <3>3. /\ Round(h * MaxWidth, w) \in Nat
          /\ -w <= 2 * (Round(h * MaxWidth, w) * w - h * MaxWidth)
          /\ 2 * (Round(h * MaxWidth, w) * w - h * MaxWidth) <= w
      BY <3>2, RoundIsClose
    <3> HIDE DEF f, cut
    <3>4. f \in Nat /\ f * w \in Nat
      BY <3>1, <3>3 DEF Positive
    <3> QED
      BY <3>1, <3>2, <3>3, <3>4
  <2>2. CASE ~(w > MaxWidth)
    <3>1. f = h /\ cut = w
      BY <2>2 DEF FitHeight, Ceiling, Positive
    <3> QED
      BY <3>1 DEF Positive
  <2> QED
    BY <2>1, <2>2
<1>3. CASE ~(f > MaxHeight)
  <2>1. FitWidth(w, h) = cut /\ Ceiling(f, MaxHeight) = f
    <3>1. f \in Nat
      BY <1>2
    <3>2. FitWidth(w, h) = cut
      BY <1>3 DEF FitWidth
    <3> HIDE DEF f
    <3>3. Ceiling(f, MaxHeight) = f
      BY <1>3, <3>1 DEF Ceiling, Positive
    <3> QED
      BY <3>2, <3>3
  <2>2. Fitted(w, h) = <<cut, AtLeastOne(f)>>
    BY <1>1, <2>1 DEF Fitted, AtLeastOne, Positive
  <2> HIDE DEF e, f, cut
  <2>3. e \in Int
    BY <1>2 DEF e
  <2>4. Mapped(AtLeastOne(f) * w - h * cut, w, h)
    <3> DEFINE z == AtLeastOne(f) * w - h * cut
    <3>1. CASE z = e
      <4>1. -(w + h) <= 2 * e /\ 2 * e <= w + h
        BY <1>2, <2>3 DEF Positive
      <4>2. Mapped(e, w, h)
        BY <2>3, <4>1, CloseIsMapped
      <4> QED
        BY <3>1, <4>2
    <3>2. CASE AtLeastOne(f) = 1 /\ f = 0
      <4>1. e = 0 - h * cut /\ z = w - h * cut
        BY <1>2, <3>2 DEF e, Positive
      <4>2. h * cut \in Nat
        BY <1>2
      <4> HIDE DEF z
      <4>3. z \in Int /\ -w <= 2 * (z - w) /\ z <= w
        BY <1>2, <2>3, <4>1, <4>2 DEF Positive
      <4> QED
        BY <4>3, CloseIsMapped DEF z
    <3>3. AtLeastOne(f) = f \/ (AtLeastOne(f) = 1 /\ f = 0)
      BY <1>2 DEF AtLeastOne
    <3> QED
      BY <3>1, <3>2, <3>3 DEF e
  <2> QED
    BY <2>2, <2>4
<1>4. CASE f > MaxHeight
  <2> DEFINE x == Round(cut * MaxHeight, f)
             d == x * f - cut * MaxHeight
             s == MaxHeight * w - h * x
  <2>1. f \in Positive /\ cut * MaxHeight \in Nat
    BY <1>1, <1>2, <1>4 DEF Positive
  <2>2. x \in Nat /\ -f <= 2 * d /\ 2 * d <= f
    BY <2>1, RoundIsClose
  <2>3. Fitted(w, h) = <<AtLeastOne(x), MaxHeight>>
    BY <1>2, <1>4 DEF Fitted, FitWidth, Ceiling, AtLeastOne, Positive
  <2> HIDE DEF f, cut, x
  <2>4. f * s = MaxHeight * e - h * d
    BY <1>1, <1>2, <2>1, <2>2 DEF Positive
  <2>5. s \in Int /\ d \in Int /\ e \in Int
    BY <1>1, <1>2, <2>1, <2>2 DEF Positive
  <2>6. -(w + h) <= 2 * s /\ 2 * s <= w + h
    <3> HIDE DEF s, d, e
    <3>1. -(f * w) <= 2 * (MaxHeight * e) /\ 2 * (MaxHeight * e) <= f * w
      <4>1. -(MaxHeight * w) <= 2 * (MaxHeight * e) /\ 2 * (MaxHeight * e) <= MaxHeight * w
        BY <1>2, <2>5 DEF Positive
      <4>2. MaxHeight * w <= f * w
        BY <1>2, <1>4 DEF Positive
      <4> QED
        BY <1>2, <2>1, <2>5, <4>1, <4>2 DEF Positive
    <3>2. -(f * h) <= 2 * (h * d) /\ 2 * (h * d) <= f * h
      BY <2>1, <2>2, <2>5 DEF Positive
    <3>3. -(f * (w + h)) <= f * (2 * s) /\ f * (2 * s) <= f * (w + h)
      BY <2>1, <2>4, <2>5, <3>1, <3>2 DEF Positive
    <3> QED
      BY <2>1, <2>5, <3>3 DEF Positive
  <2>7. Mapped(MaxHeight * w - h * AtLeastOne(x), w, h)
    <3>1. CASE x # 0
      <4>1. AtLeastOne(x) = x
        BY <2>2, <3>1 DEF AtLeastOne
      <4>2. Mapped(s, w, h)
        BY <2>5, <2>6, CloseIsMapped
      <4> QED
        BY <4>1, <4>2
    <3>2. CASE x = 0
      <4>1. /\ AtLeastOne(x) = 1 /\ s = MaxHeight * w /\ MaxHeight * w \in Nat
            /\ MaxHeight * w - h * 1 = MaxHeight * w - h
        BY <3>2 DEF AtLeastOne, Positive
      <4> DEFINE z == s - h
      <4>2. z \in Int /\ -h <= z /\ 2 * (z + h) <= w + h
        BY <2>5, <2>6, <4>1 DEF Positive
      <4> HIDE DEF z
      <4>3. Mapped(z, w, h)
        BY <4>2, CloseIsMapped
      <4> QED
        BY <4>1, <4>3 DEF z
    <3> QED
      BY <3>1, <3>2
  <2> QED
    BY <2>3, <2>7
<1> QED
  BY <1>3, <1>4

\* What a step does to the image that leaves its dimensions or its original
\* dimensions alone.
LEMMA SkewStays ==
  ASSUME NoteInv, ImageInv', UNCHANGED <<original, width, height>>,
         turned' = turned \/ turned' = "yes",
         stage' \in {"orient", "fit"} => stage \in {"orient", "fit"}
  PROVE  NoteInv'
<1>1. Skew' = Skew
  BY DEF Skew, original
<1> QED
  BY <1>1 DEF NoteInv, original

\* The image as it is opened has its own proportions.
LEMMA NoteStarts == ImageInit => NoteInv
<1> SUFFICES ASSUME ImageInit PROVE NoteInv
  OBVIOUS
<1>1. originalWidth \in Positive /\ originalHeight \in Positive
  BY ImageAssumption DEF ImageInit
<1>2. width = originalWidth /\ height = originalHeight
  BY DEF ImageInit
<1>3. Skew = 0
  BY <1>1, <1>2 DEF Skew, Positive
<1>4. Mapped(Skew, originalWidth, originalHeight)
  BY <1>1, <1>3 DEF Mapped, Positive
<1> QED
  BY <1>2, <1>4, ImageStarts DEF NoteInv

\* Every step of the pipeline keeps it close to them.
LEMMA StepKeepsNoteInv == NoteInv /\ [ImageNext]_imageVars => NoteInv'
<1> SUFFICES ASSUME NoteInv, [ImageNext]_imageVars PROVE NoteInv'
  OBVIOUS
<1>1. /\ ImageInv' /\ ImageInv
      /\ width \in Positive /\ height \in Positive
      /\ originalWidth \in Positive /\ originalHeight \in Positive
      /\ stage \in {"orient", "fit", "check", "shrink", "done", "omitted"}
  BY StepKeepsImageInv DEF NoteInv, ImageInv, ImageTypeOK
<1>2. CASE UNCHANGED imageVars
  BY <1>1, <1>2, SkewStays DEF imageVars, image
<1>3. CASE KeepOrientation
  BY <1>1, <1>3, SkewStays DEF KeepOrientation, image
<1>4. CASE ApplyExifOrientation
  <2>1. CASE Encode(width, height) /\ UNCHANGED turned
    BY <1>1, <1>4, <2>1, SkewStays DEF ApplyExifOrientation, Encode
  <2>2. CASE turned' = "yes"
    BY <1>1, <2>2 DEF NoteInv
  <2> QED
    BY <1>4, <2>1, <2>2 DEF ApplyExifOrientation
<1>5. CASE ResizeToFitDimensions
  <2>1. CASE Fitted(width, height) = <<width, height>>
    BY <1>1, <1>5, <2>1, SkewStays DEF ResizeToFitDimensions, image
  <2>2. CASE Fitted(width, height) # <<width, height>>
    <3> DEFINE fitted == Fitted(width, height)
    <3>1. /\ stage = "fit" /\ stage' = "check" /\ width' = fitted[1] /\ height' = fitted[2]
          /\ UNCHANGED <<originalWidth, originalHeight, turned>>
      BY <1>5, <2>2 DEF ResizeToFitDimensions, Resize, Encode, original
    <3>2. Mapped(fitted[2] * width - height * fitted[1], width, height)
      BY <1>1, FitKeepsTheNote
    <3> HIDE DEF fitted
    <3>3. turned = "no" => width = originalWidth /\ height = originalHeight
      BY <3>1 DEF NoteInv
    <3>4. turned = "no" => Mapped(Skew, originalWidth, originalHeight)'
      BY <3>1, <3>2, <3>3 DEF Skew
    <3> QED
      BY <1>1, <3>1, <3>4 DEF NoteInv
  <2> QED
    BY <2>1, <2>2
<1>6. CASE Finish \/ GiveUp \/ GoAround \/ Fail
  BY <1>1, <1>6, SkewStays DEF Finish, GiveUp, GoAround, Fail, image
<1>7. CASE ShrinkByFactor
  <2> DEFINE next == NextDimensions(width, height)
  <2>1. ~(width = 1 /\ height = 1)
    BY <1>7 DEF ShrinkByFactor, NoteInv, ImageInv
  <2>2. next[1] + next[2] < width + height /\ next[1] \in 1..width /\ next[2] \in 1..height
    BY <1>1, <2>1, NextIsSmaller
  <2>3. next # <<width, height>>
    BY <1>1, <2>2 DEF Positive
  <2>4. /\ stage' = "check" /\ width' = next[1] /\ height' = next[2]
        /\ UNCHANGED <<originalWidth, originalHeight, turned>>
    BY <1>7, <2>3 DEF ShrinkByFactor, Resize, Encode, original
  <2>5. turned = "no" => Mapped(Skew, originalWidth, originalHeight)
    BY DEF NoteInv
  <2>6. turned = "no" =>
            Mapped(next[2] * originalWidth - originalHeight * next[1], originalWidth, originalHeight)
    BY <1>1, <2>1, <2>5, RoundsKeepTheNote DEF Skew
  <2> HIDE DEF next
  <2>7. turned = "no" => Mapped(Skew, originalWidth, originalHeight)'
    BY <2>4, <2>6 DEF Skew
  <2> QED
    BY <1>1, <2>4, <2>7 DEF NoteInv
<1> QED
  BY <1>2, <1>3, <1>4, <1>5, <1>6, <1>7 DEF ImageNext

\* Of any image in any box, after any number of rounds: the scale that the note
\* gives maps coordinates onto the original, up to three pixels.
LEMMA NoteInvMaps == NoteInv => NoteMapsOntoTheOriginal
<1> SUFFICES ASSUME NoteInv, stage = "done", resized = "yes", turned = "no"
             PROVE  Skew \in -(3 * originalWidth + originalHeight)
                             .. 3 * originalHeight + originalWidth
  BY DEF NoteMapsOntoTheOriginal, Skew
<1>1. originalWidth \in Positive /\ originalHeight \in Positive
  BY DEF NoteInv, ImageInv, ImageTypeOK
<1>2. Mapped(Skew, originalWidth, originalHeight)
  BY DEF NoteInv
<1> QED
  BY <1>1, <1>2 DEF Mapped, Positive

-----------------------------------------------------------------------------
(* read of a text.                                                         *)

\* The operators of the instance are those of the modules it takes them from.
LEMMA SameOperators ==
  /\ \A S : Reading!Cardinality(S) = Cardinality(S)
  /\ \A s : Reading!FlattenSeq(s) = FlattenSeq(s)
<1>1. \A S : Reading!Cardinality(S) = Cardinality(S)
  BY DEF Reading!Cardinality, Cardinality
<1>2. \A s : Reading!FlattenSeq(s) = FlattenSeq(s)
  BY DEF Reading!FlattenSeq, FlattenSeq
<1> QED
  BY <1>1, <1>2

\* The places of a text are finitely many, and a text has no fewer of them than
\* one that is found in it.
LEMMA PlacesOfAPart ==
  ASSUME NEW X, NEW part \in Seq(X), NEW text \in Seq(X), NEW o \in Nat,
         FoundAt(part, text, o), NEW chars
  PROVE  /\ Cardinality(Reading!Places(chars, part)) \in Nat
         /\ Cardinality(Reading!Places(chars, text)) \in Nat
         /\ Cardinality(Reading!Places(chars, part)) <= Cardinality(Reading!Places(chars, text))
<1> DEFINE P == Reading!Places(chars, part)
           T == Reading!Places(chars, text)
           f == [i \in P |-> o + i]
<1>1. /\ Len(part) \in Nat /\ Len(text) \in Nat
      /\ P = {i \in 1..Len(part) : part[i] \in chars}
      /\ T = {i \in 1..Len(text) : text[i] \in chars}
  BY DEF Reading!Places
<1> HIDE DEF P, T
<1>2. IsFiniteSet(P) /\ IsFiniteSet(T)
  <2>1. IsFiniteSet(1..Len(part)) /\ IsFiniteSet(1..Len(text))
    BY <1>1, FS_Interval
  <2>2. P \subseteq 1..Len(part) /\ T \subseteq 1..Len(text)
    BY <1>1
  <2> QED
    BY <2>1, <2>2, FS_Subset
<1>3. \A i \in P : o + i \in T
  BY <1>1 DEF FoundAt
<1>4. f \in Injection(P, T)
  <2>1. f \in [P -> T]
    BY <1>3
  <2>2. \A a, b \in P : f[a] = f[b] => a = b
    BY <1>1
  <2> QED
    BY <2>1, <2>2, Fun_IsInj
<1>5. Cardinality(P) <= Cardinality(T)
  BY <1>2, <1>4, FS_Injection
<1> QED
  BY <1>2, <1>5, FS_CardinalityType DEF P, T

\* A text has no fewer bytes than one that is found in it.
LEMMA BytesOfAPart ==
  ASSUME NEW X, NEW part \in Seq(X), NEW text \in Seq(X), NEW o \in Nat,
         FoundAt(part, text, o)
  PROVE  /\ Reading!Bytes(part) \in Nat /\ Reading!Bytes(text) \in Nat
         /\ Reading!Bytes(part) <= Reading!Bytes(text)
<1> DEFINE Count(chars, s) == Cardinality(Reading!Places(chars, s))
           wide == {Reading!Wide, Reading!Replacement}
           wider == {Reading!Replacement}
<1>1. \A s : Reading!Bytes(s) = Len(s) + Count(wide, s) + Count(wider, s)
  BY SameOperators DEF Reading!Bytes
<1>2. \A chars : /\ Count(chars, part) \in Nat /\ Count(chars, text) \in Nat
                 /\ Count(chars, part) <= Count(chars, text)
  BY PlacesOfAPart
<1>3. Len(part) \in Nat /\ Len(text) \in Nat /\ Len(part) <= Len(text)
  BY DEF FoundAt
<1> HIDE DEF Count, wide, wider
<1> QED
  BY <1>1, <1>2, <1>3

\* One more element before the others.
LEMMA OneBefore ==
  ASSUME NEW Y, NEW one \in Seq(Y), Len(one) = 1, NEW rest \in Seq(Y)
  PROVE  /\ one \o rest \in Seq(Y) /\ Len(one \o rest) = Len(rest) + 1
         /\ \A j \in 1..Len(rest) : (one \o rest)[j + 1] = rest[j]
<1> DEFINE r == one \o rest
<1>1. /\ r \in Seq(Y) /\ Len(r) = Len(rest) + 1 /\ Len(rest) \in Nat
  <2>1. r \in Seq(Y)
    BY ConcatProperties
  <2>2. Len(r) = Len(one) + Len(rest)
    BY ConcatProperties
  <2> HIDE DEF r
  <2> QED
    BY <2>1, <2>2
<1>2. FoundAt(rest, r, 1)
  BY FoundInLonger
<1> HIDE DEF r
<1>3. ASSUME NEW j \in 1..Len(rest) PROVE r[j + 1] = rest[j]
  <2>1. j + 1 = 1 + j
    BY <1>1
  <2> QED
    BY <1>2, <2>1 DEF FoundAt
<1> QED
  BY <1>1, <1>3 DEF r

\* Joined lines have no fewer bytes than each of them.
LEMMA BytesOfALine ==
  ASSUME NEW X, NEW lines \in Seq(Seq(X)), NEW i \in 1..Len(lines)
  PROVE  /\ Reading!Bytes(lines[i]) \in Nat /\ Reading!Bytes(Reading!Join(lines)) \in Nat
         /\ Reading!Bytes(lines[i]) <= Reading!Bytes(Reading!Join(lines))
<1> DEFINE Y == X \cup {Reading!NewLine}
           ended == [k \in DOMAIN lines |-> <<Reading!NewLine>> \o lines[k]]
           text == FlattenSeq(ended)
           line == lines[i]
<1>1. Len(lines) \in Nat /\ DOMAIN lines = 1..Len(lines)
  OBVIOUS
<1>2. ASSUME NEW k \in 1..Len(lines)
      PROVE  /\ lines[k] \in Seq(Y) /\ <<Reading!NewLine>> \o lines[k] \in Seq(Y)
             /\ Len(<<Reading!NewLine>> \o lines[k]) = Len(lines[k]) + 1
             /\ \A j \in 1..Len(lines[k]) : (<<Reading!NewLine>> \o lines[k])[j + 1] = lines[k][j]
  <2>1. <<Reading!NewLine>> \in Seq(Y) /\ Len(<<Reading!NewLine>>) = 1 /\ lines[k] \in Seq(Y)
    <3>1. lines[k] \in Seq(X)
      BY <1>1
    <3> QED
      BY <3>1
  <2> HIDE DEF Y
  <2> QED
    BY <2>1, OneBefore
<1> HIDE DEF Y
<1>3. ended \in Seq(Seq(Y)) /\ Len(ended) = Len(lines)
  BY <1>1, <1>2
<1>4. ended[i] \in Seq(Y) /\ Len(ended[i]) = Len(line) + 1 /\ line \in Seq(Y) /\ Len(line) \in Nat
      /\ \A j \in 1..Len(line) : ended[i][j + 1] = line[j]
  BY <1>1, <1>2
<1> HIDE DEF ended
<1>5. text \in Seq(Y) /\ Len(text) \in Nat
  BY <1>3, FlattenType
<1>6. PICK o \in Nat : FoundAt(ended[i], text, o)
  BY <1>3, FlattenHolds
<1> HIDE DEF text, line
<1>7. text # <<>>
  BY <1>4, <1>5, <1>6 DEF FoundAt
<1>8. Tail(text) \in Seq(Y) /\ FoundAt(line, Tail(text), o)
  <2>1. /\ Tail(text) \in Seq(Y) /\ Len(Tail(text)) = Len(text) - 1
        /\ \A j \in 1..(Len(text) - 1) : Tail(text)[j] = text[j + 1]
    BY <1>5, <1>7, HeadTailProperties
  <2>2. o + Len(line) <= Len(text) - 1
    BY <1>4, <1>5, <1>6 DEF FoundAt
  <2>3. ASSUME NEW j \in 1..Len(line) PROVE Tail(text)[o + j] = line[j]
    <3>1. o + j \in 1..(Len(text) - 1) /\ j + 1 \in 1..(Len(line) + 1) /\ o + (j + 1) = (o + j) + 1
      BY <1>4, <1>5, <2>2
    <3>2. text[(o + j) + 1] = ended[i][j + 1]
      BY <1>4, <1>6, <3>1 DEF FoundAt
    <3> QED
      BY <1>4, <2>1, <3>1, <3>2
  <2> QED
    BY <1>5, <2>1, <2>2, <2>3 DEF FoundAt
<1>9. Reading!Join(lines) = Tail(text)
  <2>1. lines # <<>>
    BY <1>1
  <2> QED
    BY <2>1, SameOperators DEF Reading!Join, text, ended
<1> QED
  BY <1>4, <1>8, <1>9, BytesOfAPart DEF line

-----------------------------------------------------------------------------
(* Pages.                                                                  *)

\* The first lines.
LEMMA FirstLines ==
  ASSUME NEW X, NEW s \in Seq(X), NEW k \in 0..Len(s)
  PROVE  /\ SubSeq(s, 1, k) \in Seq(X) /\ Len(SubSeq(s, 1, k)) = k
         /\ \A i \in 1..k : SubSeq(s, 1, k)[i] = s[i]
<1>1. \A i \in 1..Len(s) : s[i] \in X
  OBVIOUS
<1> QED
  BY <1>1

\* The lines after the first ones.
LEMMA LastLines ==
  ASSUME NEW X, NEW s \in Seq(X), NEW k \in Nat
  PROVE  /\ SubSeq(s, k + 1, Len(s)) \in Seq(X)
         /\ Len(SubSeq(s, k + 1, Len(s))) = IF k <= Len(s) THEN Len(s) - k ELSE 0
         /\ \A i \in 1..(Len(s) - k) : SubSeq(s, k + 1, Len(s))[i] = s[k + i]
<1>1. \A i \in 1..Len(s) : s[i] \in X
  OBVIOUS
<1> QED
  BY <1>1

\* A set of numbers up to n that has n has a least one.
LEMMA LeastUpTo ==
  ASSUME NEW n \in Nat, NEW S, n \in S
  PROVE  \E k \in 0..n : k \in S /\ \A m \in 0..(k - 1) : m \notin S
<1> SUFFICES ASSUME \A k \in 0..n : k \in S => \E m \in 0..(k - 1) : m \in S PROVE FALSE
  OBVIOUS
<1> DEFINE T == {k \in 0..n : \A m \in 0..k : m \notin S}
<1>1. 0 \in T
  OBVIOUS
<1>2. ASSUME NEW k \in 0..n, k < n, k \in T PROVE k + 1 \in T
  <2>1. k + 1 \in 0..n /\ (k + 1) - 1 = k /\ \A m \in 0..(k + 1) : m \in 0..k \/ m = k + 1
    BY <1>2
  <2> QED
    BY <1>2, <2>1
<1> HIDE DEF T
<1>3. \A k \in 0..n : k \in T
  BY <1>1, <1>2, UpTo
<1>4. n \in 0..n
  OBVIOUS
<1> QED
  BY <1>3, <1>4 DEF T

\* Where the selection from the head ends: after the first number of lines at
\* which the loop stops, none of them too long.
LEMMA SelectsFirstLines ==
  ASSUME NEW X, NEW lines \in Seq(Seq(X)), NEW maxLines \in Nat, NEW maxBytes \in Nat
  PROVE  \E k \in 0..Len(lines) :
            /\ Reading!SelectOutputLines(lines, "head", maxLines, maxBytes) = SubSeq(lines, 1, k)
            /\ \A i \in 1..k : Reading!Bytes(lines[i]) <= maxBytes
<1> DEFINE Stops(n) == Reading!SelectionStops(lines, "head", maxLines, maxBytes, n)
           Ends(n) == Stops(n) /\ \A m \in 0..(n - 1) : ~Stops(m)
           k == CHOOSE n \in 0..Len(lines) : Ends(n)
<1>1. Len(lines) \in Nat /\ Stops(Len(lines))
  BY DEF Reading!SelectionStops
<1>2. \A n : Reading!EdgeLines(lines, "head", n) = SubSeq(lines, 1, n)
  BY DEF Reading!EdgeLines
<1>3. \E n \in 0..Len(lines) : Ends(n)
  <2> DEFINE S == {n \in 0..Len(lines) : Stops(n)}
  <2> HIDE DEF Stops
  <2>1. Len(lines) \in S
    BY <1>1
  <2>2. \A n \in 0..Len(lines) : \A m \in 0..(n - 1) : m \in 0..Len(lines)
    BY <1>1
  <2> HIDE DEF S
  <2>3. PICK n \in 0..Len(lines) : n \in S /\ \A m \in 0..(n - 1) : m \notin S
    BY <1>1, <2>1, LeastUpTo
  <2> QED
    BY <2>2, <2>3 DEF S
<1>4. k \in 0..Len(lines) /\ Ends(k)
  BY <1>3
<1>5. Reading!SelectOutputLines(lines, "head", maxLines, maxBytes) = SubSeq(lines, 1, k)
  BY <1>2 DEF Reading!SelectOutputLines
<1> HIDE DEF k
<1>6. ASSUME NEW i \in 1..k PROVE Reading!Bytes(lines[i]) <= maxBytes
  <2> DEFINE shown == SubSeq(lines, 1, k)
  <2>1. k - 1 \in 0..(k - 1) /\ (k - 1) + 1 = k
    BY <1>4, <1>6
  <2>2. ~(Reading!Bytes(Reading!Join(shown)) > maxBytes)
    BY <1>2, <1>4, <2>1 DEF Reading!SelectionStops
  <2>3. shown \in Seq(Seq(X)) /\ Len(shown) = k /\ shown[i] = lines[i]
    BY <1>4, FirstLines
  <2> HIDE DEF shown
  <2>4. /\ Reading!Bytes(shown[i]) \in Nat /\ Reading!Bytes(Reading!Join(shown)) \in Nat
        /\ Reading!Bytes(shown[i]) <= Reading!Bytes(Reading!Join(shown))
    BY <2>3, BytesOfALine
  <2> QED
    BY <2>2, <2>3, <2>4
<1> QED
  BY <1>4, <1>5, <1>6

\* What a page of some lines may be: a notice that the first is too long for
\* any, or the first of them, none too long, and all unless it is truncated.
IsPageOf(page, lines) ==
    /\ page.edgeLineExceedsLimit => Reading!Bytes(lines[1]) > PageBytes
    /\ ~page.edgeLineExceedsLimit =>
          \E k \in 0..Len(lines) :
             /\ page.lines = SubSeq(lines, 1, k)
             /\ \A i \in 1..k : Reading!Bytes(lines[i]) <= PageBytes
             /\ ~page.truncated => k = Len(lines)

LEMMA PageIsOfLines ==
  ASSUME NEW X, NEW lines \in Seq(Seq(X)), lines # <<>>, NEW maxLines \in Nat, PageBytes \in Nat
  PROVE  IsPageOf(Reading!TruncateLines(lines, "head", maxLines, PageBytes), lines)
<1> DEFINE page == Reading!TruncateLines(lines, "head", maxLines, PageBytes)
           fits == Reading!FitsLimits(lines, maxLines, PageBytes)
           exceeds == Reading!EdgeLineExceedsLimit(lines, "head", PageBytes)
           selected == Reading!SelectOutputLines(lines, "head", maxLines, PageBytes)
<1>0. Len(lines) \in Nat /\ 1 \in 1..Len(lines)
  OBVIOUS
<1>1. CASE fits
  <2>1. /\ page.lines = lines /\ page.truncated = FALSE /\ page.edgeLineExceedsLimit = FALSE
    BY <1>1 DEF Reading!TruncateLines, Reading!Result
  <2>2. SubSeq(lines, 1, Len(lines)) = lines
    <3> DEFINE q == SubSeq(lines, 1, Len(lines))
    <3>1. q \in Seq(Seq(X)) /\ Len(q) = Len(lines) /\ \A i \in 1..Len(q) : q[i] = lines[i]
      BY <1>0, FirstLines
    <3> HIDE DEF q
    <3>2. q = lines
      BY <3>1, SeqEqual
    <3> QED
      BY <3>2 DEF q
  <2>3. \A i \in 1..Len(lines) : Reading!Bytes(lines[i]) <= PageBytes
    <3> SUFFICES ASSUME NEW i \in 1..Len(lines) PROVE Reading!Bytes(lines[i]) <= PageBytes
      OBVIOUS
    <3>1. Reading!Bytes(Reading!Join(lines)) <= PageBytes
      BY <1>1 DEF Reading!FitsLimits
    <3>2. /\ Reading!Bytes(lines[i]) \in Nat /\ Reading!Bytes(Reading!Join(lines)) \in Nat
          /\ Reading!Bytes(lines[i]) <= Reading!Bytes(Reading!Join(lines))
      BY BytesOfALine
    <3> QED
      BY <3>1, <3>2
  <2> HIDE DEF page
  <2>4. Len(lines) \in 0..Len(lines)
    BY <1>0
  <2> QED
    BY <2>1, <2>2, <2>3, <2>4 DEF IsPageOf, page
<1>2. CASE ~fits /\ exceeds
  <2>1. page.edgeLineExceedsLimit = TRUE
    BY <1>2 DEF Reading!TruncateLines, Reading!Result
  <2>2. Reading!EdgeLines(lines, "head", 1) = SubSeq(lines, 1, 1)
    BY DEF Reading!EdgeLines
  <2>3. SubSeq(lines, 1, 1)[1] = lines[1]
    BY <1>0, FirstLines
  <2>4. Reading!Bytes(lines[1]) > PageBytes
    BY <1>2, <2>2, <2>3 DEF Reading!EdgeLineExceedsLimit
  <2> HIDE DEF page
  <2> QED
    BY <2>1, <2>4 DEF IsPageOf, page
<1>3. CASE ~fits /\ ~exceeds
  <2>1. page.lines = selected /\ page.truncated = TRUE /\ page.edgeLineExceedsLimit = FALSE
    BY <1>3 DEF Reading!TruncateLines, Reading!Result
  <2>2. PICK k \in 0..Len(lines) : /\ selected = SubSeq(lines, 1, k)
                                   /\ \A i \in 1..k : Reading!Bytes(lines[i]) <= PageBytes
    BY SelectsFirstLines
  <2> HIDE DEF page, selected
  <2> QED
    BY <2>1, <2>2 DEF IsPageOf, page
<1> QED
  BY <1>1, <1>2, <1>3

-----------------------------------------------------------------------------
(* The reader.                                                             *)

\* The lines that the reader is after, and what it gets of one.
Wanted == SubSeq(file, Reading!StartIndex(from) + 1, Len(file))

Shown(line) == IF Reading!Bytes(line) > PageBytes THEN Reading!TooLong ELSE line

\* The characters of what is read.
Glyph == Reading!Character \cup {"too long"}

\* The inductive invariant: the next offset is where the lines read so far end.
ReadInv ==
    /\ file \in Seq(Seq(Reading!Character))
    /\ from \in Nat /\ offset \in Nat
    /\ got \in Seq(Seq(Glyph))
    /\ Len(got) <= Len(Wanted)
    /\ \A i \in 1..Len(got) : got[i] = Shown(Wanted[i])
    /\ status = "reading" => Reading!StartIndex(offset) = Reading!StartIndex(from) + Len(got)
    /\ status # "reading" => Len(got) = Len(Wanted)
    /\ status = "beyond" <=> status # "reading" /\ Wanted = <<>>

\* The invariant holds before the first call.
LEMMA ReadStarts == Reading!Init => ReadInv
<1> SUFFICES ASSUME Reading!Init PROVE ReadInv
  OBVIOUS
<1>1. /\ file \in Seq(Seq(Reading!Character)) /\ from \in Nat /\ offset = from
      /\ got = <<>> /\ status = "reading"
  <2>1. file \in Seq(Seq(Reading!Character))
    BY ToolCallAssumption DEF Reading!Init, Reading!PagingAssumption
  <2> QED
    BY <2>1 DEF Reading!Init
<1>2. Reading!StartIndex(from) \in Nat
  BY <1>1 DEF Reading!StartIndex
<1>3. Wanted \in Seq(Seq(Reading!Character))
  BY <1>1, <1>2, LastLines DEF Wanted
<1>4. Len(Wanted) \in Nat
  BY <1>3
<1> QED
  BY <1>1, <1>2, <1>4 DEF ReadInv

\* Sequences over a set are sequences over a larger one.
LEMMA SeqsOfMore ==
  ASSUME NEW S, NEW T, S \subseteq T
  PROVE  Seq(S) \subseteq Seq(T)
<1> SUFFICES ASSUME NEW s \in Seq(S) PROVE s \in Seq(T)
  OBVIOUS
<1>1. Len(s) \in Nat /\ s = [i \in 1..Len(s) |-> s[i]] /\ \A i \in 1..Len(s) : s[i] \in T
  OBVIOUS
<1> QED
  BY <1>1

\* Where the reader is, as long as it is not done.
LEMMA ReaderIsAt ==
  ASSUME ReadInv, status = "reading"
  PROVE  LET at == Reading!StartIndex(offset)
             rest == Reading!SelectContent(offset)
         IN  /\ at \in Nat /\ Len(got) \in Nat /\ Len(file) \in Nat
             /\ Wanted \in Seq(Seq(Reading!Character)) /\ Len(Wanted) \in Nat
             /\ rest \in Seq(Seq(Reading!Character))
             /\ at >= Len(file) => Len(got) = Len(Wanted)
             /\ at < Len(file) => /\ Len(rest) = Len(file) - at /\ rest # <<>> /\ Wanted # <<>>
                                  /\ Len(Wanted) = Len(got) + Len(rest)
                                  /\ \A i \in 1..Len(rest) : rest[i] = Wanted[Len(got) + i]
<1> DEFINE at == Reading!StartIndex(offset)
           start == Reading!StartIndex(from)
           rest == Reading!SelectContent(offset)
<1>1. /\ at \in Nat /\ start \in Nat /\ at = start + Len(got)
      /\ Len(got) \in Nat /\ Len(file) \in Nat /\ file \in Seq(Seq(Reading!Character))
  BY DEF ReadInv, Reading!StartIndex
<1>2. /\ Wanted = SubSeq(file, start + 1, Len(file))
      /\ rest = SubSeq(file, at + 1, Len(file))
  BY DEF Wanted, Reading!SelectContent
<1> HIDE DEF at, start, rest
<1>3. /\ Wanted \in Seq(Seq(Reading!Character))
      /\ Len(Wanted) = IF start <= Len(file) THEN Len(file) - start ELSE 0
      /\ \A i \in 1..(Len(file) - start) : Wanted[i] = file[start + i]
  BY <1>1, <1>2, LastLines
<1>4. /\ rest \in Seq(Seq(Reading!Character))
      /\ Len(rest) = IF at <= Len(file) THEN Len(file) - at ELSE 0
      /\ \A i \in 1..(Len(file) - at) : rest[i] = file[at + i]
  BY <1>1, <1>2, LastLines
<1>5. at >= Len(file) => Len(got) = Len(Wanted)
  <2>1. Len(got) <= Len(Wanted)
    BY DEF ReadInv
  <2> QED
    BY <1>1, <1>3, <2>1
<1>6. ASSUME at < Len(file)
      PROVE  /\ Len(rest) = Len(file) - at /\ rest # <<>> /\ Wanted # <<>>
             /\ Len(Wanted) = Len(got) + Len(rest)
             /\ \A i \in 1..Len(rest) : rest[i] = Wanted[Len(got) + i]
  <2>0. /\ Len(Wanted) = IF start <= Len(file) THEN Len(file) - start ELSE 0
        /\ Len(rest) = IF at <= Len(file) THEN Len(file) - at ELSE 0
    BY <1>3, <1>4
  <2>1. /\ Len(rest) = Len(file) - at /\ Len(Wanted) = Len(got) + Len(rest)
        /\ Len(rest) > 0 /\ Len(Wanted) > 0
    BY <1>1, <1>6, <2>0
  <2>2. rest # <<>> /\ Wanted # <<>>
    BY <2>1
  <2>3. ASSUME NEW i \in 1..Len(rest) PROVE rest[i] = Wanted[Len(got) + i]
    <3>1. /\ i \in 1..(Len(file) - at) /\ Len(got) + i \in 1..(Len(file) - start)
          /\ start + (Len(got) + i) = at + i
      BY <1>1, <1>6, <2>1
    <3> QED
      BY <1>3, <1>4, <3>1
  <2> QED
    BY <2>1, <2>2, <2>3
<1> QED
  BY <1>1, <1>3, <1>4, <1>5, <1>6 DEF at, rest

\* More lines are read: those that follow, each as it is shown.
LEMMA MoreIsRead ==
  ASSUME ReadInv, status = "reading", Wanted # <<>>, UNCHANGED <<file, from>>, offset' \in Nat,
         NEW k \in Nat, NEW more \in Seq(Seq(Glyph)), Len(more) = k,
         got' = got \o more, Len(got) + k <= Len(Wanted),
         \A i \in 1..k : more[i] = Shown(Wanted[Len(got) + i]),
         \/ status' = "reading"
            /\ Reading!StartIndex(offset)' = Reading!StartIndex(from) + (Len(got) + k)
         \/ status' = "complete" /\ Len(got) + k = Len(Wanted)
  PROVE  ReadInv'
<1> DEFINE w == Wanted
           r == got \o more
<1>1. Wanted' = w /\ Reading!StartIndex(from)' = Reading!StartIndex(from)
  BY DEF Wanted, Reading!StartIndex
<1>2. /\ got \in Seq(Seq(Glyph)) /\ Len(got) \in Nat
      /\ \A i \in 1..Len(got) : got[i] = Shown(w[i])
  BY DEF ReadInv
<1>3. /\ r \in Seq(Seq(Glyph)) /\ Len(r) = Len(got) + k
      /\ \A i \in 1..(Len(got) + k) : r[i] = IF i <= Len(got) THEN got[i] ELSE more[i - Len(got)]
  BY <1>2, ConcatProperties
<1> HIDE DEF r
<1>4. ASSUME NEW i \in 1..(Len(got) + k) PROVE r[i] = Shown(w[i])
  <2>1. CASE i <= Len(got)
    <3>1. i \in 1..Len(got) /\ r[i] = got[i]
      BY <1>2, <1>3, <2>1
    <3> QED
      BY <1>2, <3>1
  <2>2. CASE i > Len(got)
    <3>1. i - Len(got) \in 1..k /\ Len(got) + (i - Len(got)) = i
      BY <1>2, <2>2
    <3> QED
      BY <1>2, <1>3, <2>2, <3>1
  <2> QED
    BY <1>2, <2>1, <2>2
<1>5. got' = r
  BY DEF r
<1> HIDE DEF w
<1>6. /\ (\A i \in 1..Len(got) : got[i] = Shown(Wanted[i]))'
      /\ got' \in Seq(Seq(Glyph)) /\ Len(got') = Len(got) + k
  <2>1. \A i \in 1..Len(r) : r[i] = Shown(w[i])
    BY <1>3, <1>4
  <2> QED
    BY <1>1, <1>3, <1>5, <2>1 DEF Shown
<1>7. /\ file' \in Seq(Seq(Reading!Character)) /\ from' \in Nat
      /\ Len(got') <= Len(Wanted') /\ Wanted' # <<>>
  BY <1>1, <1>6 DEF ReadInv, w
<1>8. status' = "reading" => Reading!StartIndex(offset)' = Reading!StartIndex(from)' + Len(got')
  BY <1>1, <1>6
<1>9. status' # "reading" => Len(got') = Len(Wanted')
  BY <1>1, <1>6 DEF w
<1>10. status' = "beyond" <=> status' # "reading" /\ Wanted' = <<>>
  BY <1>7
<1> QED
  BY <1>6, <1>7, <1>8, <1>9, <1>10 DEF ReadInv

\* Every step of the reader keeps it.
LEMMA StepKeepsReadInv == ReadInv /\ [Reading!Next]_readVars => ReadInv'
<1> SUFFICES ASSUME ReadInv, [Reading!Next]_readVars PROVE ReadInv'
  OBVIOUS
<1> DEFINE at == Reading!StartIndex(offset)
           rest == Reading!SelectContent(offset)
<1>0. \A lines \in Seq(Seq(Reading!Character)) : lines \in Seq(Seq(Glyph))
  <2>1. Reading!Character \subseteq Glyph
    BY DEF Glyph
  <2>2. Seq(Reading!Character) \subseteq Seq(Glyph)
    BY <2>1, SeqsOfMore
  <2> QED
    BY <2>2, SeqsOfMore
<1>1. CASE UNCHANGED readVars
  BY <1>1 DEF ReadInv, readVars, Wanted, Shown, Reading!StartIndex
<1>2. CASE Reading!ReadBeyond
  <2>1. /\ status = "reading" /\ at >= Len(file)
        /\ status' = IF got = <<>> THEN "beyond" ELSE "ended"
        /\ UNCHANGED <<file, from, offset, got>>
    BY <1>2 DEF Reading!ReadBeyond, Reading!BeyondTheEnd
  <2>2. Len(got) = Len(Wanted) /\ Wanted \in Seq(Seq(Reading!Character)) /\ got \in Seq(Seq(Glyph))
    BY <2>1, ReaderIsAt DEF ReadInv
  <2>3. got = <<>> <=> Wanted = <<>>
    BY <2>2
  <2>4. Wanted' = Wanted
    BY <2>1 DEF Wanted, Reading!StartIndex
  <2> QED
    BY <2>1, <2>2, <2>3, <2>4 DEF ReadInv, Shown, Reading!StartIndex
<1>3. ASSUME NEW limit \in Limit, Reading!ReadTooLong(limit) \/ Reading!ReadPage(limit) PROVE ReadInv'
  <2> DEFINE page == Reading!Page(offset, limit)
  <2>1. status = "reading" /\ ~Reading!BeyondTheEnd /\ UNCHANGED <<file, from>>
    BY <1>3 DEF Reading!ReadTooLong, Reading!ReadPage
  <2>2. at \in Nat /\ Len(file) \in Nat
    BY <2>1, ReaderIsAt
  <2>3. at < Len(file)
    BY <2>1, <2>2 DEF Reading!BeyondTheEnd
  <2>4. /\ Len(got) \in Nat /\ rest \in Seq(Seq(Reading!Character)) /\ Len(rest) \in Nat
        /\ rest # <<>> /\ Wanted # <<>> /\ Len(Wanted) = Len(got) + Len(rest)
        /\ \A i \in 1..Len(rest) : rest[i] = Wanted[Len(got) + i]
    BY <2>1, <2>3, ReaderIsAt
  <2>5. IsPageOf(page, rest)
    <3>0. limit \in Int /\ PageBytes \in Nat
      BY ToolCallAssumption DEF Reading!PagingAssumption
    <3>1. (IF limit > 1 THEN limit ELSE 1) \in Nat
      BY <3>0
    <3> QED
      BY <2>4, <3>0, <3>1, PageIsOfLines DEF Reading!Page
  <2>6. /\ at = Reading!StartIndex(from) + Len(got) /\ Reading!StartIndex(from) \in Nat
    BY <2>1 DEF ReadInv, Reading!StartIndex
  <2> HIDE DEF rest
  <2>7. CASE Reading!ReadTooLong(limit)
    <3>1. /\ page.edgeLineExceedsLimit
          /\ got' = Append(got, Reading!TooLong)
          /\ offset' = at + 2 /\ status' = status
      BY <2>7 DEF Reading!ReadTooLong
    <3> HIDE DEF page, at
    <3> DEFINE more == <<Reading!TooLong>>
    <3>2. more \in Seq(Seq(Glyph)) /\ Len(more) = 1 /\ more[1] = Reading!TooLong
      <4>1. "too long" \in Glyph
        BY DEF Glyph
      <4>2. Reading!TooLong \in Seq(Glyph)
        <5>1. \A x \in Glyph : <<x>> \in Seq(Glyph)
          OBVIOUS
        <5> QED
          BY <4>1, <5>1, Zenon DEF Reading!TooLong
      <4> QED
        BY <4>2
    <3>3. got' = got \o more
      BY <3>1 DEF ReadInv
    <3>4. 1 \in 1..Len(rest) /\ rest[1] = Wanted[Len(got) + 1]
      BY <2>4
    <3>5. Reading!TooLong = Shown(Wanted[Len(got) + 1])
      BY <2>5, <3>1, <3>4 DEF IsPageOf, Shown
    <3>6. offset' \in Nat /\ Reading!StartIndex(offset)' = at + 1
      BY <2>2, <3>1 DEF Reading!StartIndex
    <3>7. Reading!StartIndex(offset)' = Reading!StartIndex(from) + (Len(got) + 1)
      BY <2>4, <2>6, <3>6
    <3>8. Len(got) + 1 <= Len(Wanted)
      BY <2>4, <3>4
    <3> HIDE DEF more
    <3>9. \A i \in 1..1 : more[i] = Shown(Wanted[Len(got) + i])
      BY <3>2, <3>5
    <3>10. 1 \in Nat /\ status' = "reading"
      BY <2>1, <3>1
    <3> QED
      BY <2>1, <2>4, <3>2, <3>3, <3>6, <3>7, <3>8, <3>9, <3>10, MoreIsRead
  <2>8. CASE Reading!ReadPage(limit)
    <3>1. /\ ~page.edgeLineExceedsLimit
          /\ got' = got \o page.lines
          /\ page.truncated => offset' = (at + 1) + Len(page.lines) /\ status' = status
          /\ ~page.truncated => status' = "complete" /\ offset' = offset
      BY <2>8 DEF Reading!ReadPage, Reading!NextOffset
    <3> HIDE DEF page, at
    <3>2. PICK k \in 0..Len(rest) : /\ page.lines = SubSeq(rest, 1, k)
                                    /\ \A i \in 1..k : Reading!Bytes(rest[i]) <= PageBytes
                                    /\ ~page.truncated => k = Len(rest)
      BY <2>5, <3>1 DEF IsPageOf
    <3> DEFINE more == page.lines
    <3>3. /\ more \in Seq(Seq(Reading!Character)) /\ Len(more) = k
          /\ \A i \in 1..k : more[i] = rest[i]
      BY <2>4, <3>2, FirstLines
    <3> HIDE DEF more
    <3>4. more \in Seq(Seq(Glyph)) /\ k \in Nat
      BY <1>0, <2>4, <3>3
    <3>5. ASSUME NEW i \in 1..k PROVE more[i] = Shown(Wanted[Len(got) + i])
      <4>1. i \in 1..Len(rest) /\ ~(Reading!Bytes(rest[i]) > PageBytes)
        <5>1. i \in 1..Len(rest) /\ Reading!Bytes(rest[i]) <= PageBytes
          BY <2>4, <3>2
        <5>2. Reading!Bytes(rest[i]) \in Nat /\ PageBytes \in Nat
          BY <2>4, <5>1, BytesOfALine, ToolCallAssumption DEF Reading!PagingAssumption
        <5> QED
          BY <5>1, <5>2
      <4> QED
        BY <2>4, <3>3, <4>1 DEF Shown
    <3>6. Len(got) + k <= Len(Wanted) /\ (k = Len(rest) => Len(got) + k = Len(Wanted))
      <4>1. Len(Wanted) = Len(got) + Len(rest) /\ Len(got) \in Nat /\ Len(rest) \in Nat
        BY <2>4
      <4> QED
        BY <4>1
    <3>7. CASE page.truncated
      <4>1. offset' = (at + 1) + k /\ status' = "reading"
        BY <2>1, <3>1, <3>3, <3>7 DEF more
      <4>2. offset' \in Nat /\ Reading!StartIndex(offset)' = at + k
        BY <2>2, <3>4, <4>1 DEF Reading!StartIndex
      <4>3. Reading!StartIndex(offset)' = Reading!StartIndex(from) + (Len(got) + k)
        BY <2>4, <2>6, <3>4, <4>2
      <4>4. got' = got \o more
        BY <3>1 DEF more
      <4> QED
        BY <2>1, <2>4, <3>3, <3>4, <3>5, <3>6, <4>1, <4>2, <4>3, <4>4, MoreIsRead
    <3>8. CASE ~page.truncated
      <4>1. got' = got \o more /\ status' = "complete" /\ offset' = offset /\ k = Len(rest)
        BY <3>1, <3>2, <3>8 DEF more
      <4>2. offset' \in Nat /\ Len(got) + k = Len(Wanted)
        BY <3>6, <4>1 DEF ReadInv
      <4> QED
        BY <2>1, <2>4, <3>3, <3>4, <3>5, <3>6, <4>1, <4>2, MoreIsRead
    <3> QED
      BY <3>7, <3>8
  <2> QED
    BY <1>3, <2>7, <2>8
<1> QED
  BY <1>1, <1>2, <1>3 DEF Reading!Next

\* Of the invariant the property is a part.
LEMMA ReadInvTiles == ReadInv => Reading!PagesTileTheFile
  BY DEF ReadInv, Reading!PagesTileTheFile, Wanted, Shown

-----------------------------------------------------------------------------
(* edit: texts.                                                            *)

\* Again the operators of the instance.
LEMMA SameEditingOperators ==
  /\ \A S : Editing!Cardinality(S) = Cardinality(S)
  /\ \A s : Editing!FlattenSeq(s) = FlattenSeq(s)
  /\ \A s : Editing!ToSet(s) = ToSet(s)
<1>1. \A S : Editing!Cardinality(S) = Cardinality(S)
  BY DEF Editing!Cardinality, Cardinality
<1>2. \A s : Editing!FlattenSeq(s) = FlattenSeq(s)
  BY DEF Editing!FlattenSeq, FlattenSeq
<1>3. \A s : Editing!ToSet(s) = ToSet(s)
  BY DEF Editing!ToSet, ToSet
<1> QED
  BY <1>1, <1>2, <1>3

\* What the tool knows as CR, LF and the mark are different characters.
LEMMA Marks ==
  Editing!CR # Editing!LF /\ Editing!Bom # Editing!LF /\ Editing!Bom # Editing!CR
  BY DEF Editing!CR, Editing!LF, Editing!Bom

\* What each character becomes in LF.
LfPieces(text) ==
    [i \in DOMAIN text |->
        CASE text[i] # Editing!CR -> <<text[i]>>
          [] text[i] = Editing!CR /\ i < Len(text) /\ text[i + 1] = Editing!LF -> <<>>
          [] OTHER -> <<Editing!LF>>]

LEMMA LfPiecesType ==
  ASSUME NEW X, Editing!LF \in X, NEW text \in Seq(X)
  PROVE  /\ LfPieces(text) \in Seq(Seq(X \ {Editing!CR})) /\ Len(LfPieces(text)) = Len(text)
         /\ Editing!NormalizeToLf(text) = FlattenSeq(LfPieces(text))
<1> DEFINE Y == X \ {Editing!CR}
           pieces == LfPieces(text)
<1>1. Editing!LF \in Y /\ \A i \in DOMAIN text : text[i] # Editing!CR => text[i] \in Y
  BY Marks
<1> HIDE DEF Y
<1>2. ASSUME NEW i \in DOMAIN text PROVE pieces[i] \in Seq(Y)
  <2> USE DEF LfPieces
  <2>1. \A y \in Y : <<y>> \in Seq(Y)
    OBVIOUS
  <2>2. <<>> \in Seq(Y)
    OBVIOUS
  <2>3. CASE text[i] # Editing!CR
    BY <1>1, <2>1, <2>3
  <2>4. CASE text[i] = Editing!CR /\ i < Len(text) /\ text[i + 1] = Editing!LF
    BY <2>2, <2>4
  <2>5. CASE text[i] = Editing!CR /\ ~(i < Len(text) /\ text[i + 1] = Editing!LF)
    BY <1>1, <2>1, <2>5
  <2> QED
    BY <2>3, <2>4, <2>5
<1>3. pieces \in Seq(Seq(Y)) /\ Len(pieces) = Len(text)
  <2> DEFINE n == Len(text)
  <2>1. DOMAIN text = 1..n /\ n \in Nat
    OBVIOUS
  <2>2. pieces = [i \in 1..n |-> pieces[i]] /\ \A i \in 1..n : pieces[i] \in Seq(Y)
    BY <1>2, <2>1 DEF LfPieces
  <2> HIDE DEF pieces, n
  <2>3. pieces \in Seq(Seq(Y)) /\ Len(pieces) = n
    BY <2>1, <2>2
  <2> QED
    BY <2>3 DEF n
<1>4. Editing!NormalizeToLf(text) = FlattenSeq(pieces)
  BY SameEditingOperators DEF Editing!NormalizeToLf, LfPieces
<1> QED
  BY <1>3, <1>4 DEF pieces, Y

\* Texts in LF are over the other characters, and not empty when they were not.
LEMMA NormalizedType ==
  ASSUME NEW X, Editing!LF \in X, NEW text \in Seq(X)
  PROVE  /\ Editing!NormalizeToLf(text) \in Seq(X \ {Editing!CR})
         /\ text # <<>> => Editing!NormalizeToLf(text) # <<>>
<1> DEFINE pieces == LfPieces(text)
           Y == X \ {Editing!CR}
<1>1. /\ pieces \in Seq(Seq(Y)) /\ Len(pieces) = Len(text)
      /\ Editing!NormalizeToLf(text) = FlattenSeq(pieces)
  BY LfPiecesType
<1>2. ASSUME text # <<>> PROVE Len(pieces[Len(text)]) > 0
  <2>1. Len(text) \in DOMAIN text /\ ~(Len(text) < Len(text))
    BY <1>2
  <2>2. CASE text[Len(text)] # Editing!CR
    BY <2>1, <2>2 DEF LfPieces
  <2>3. CASE text[Len(text)] = Editing!CR
    BY <2>1, <2>3 DEF LfPieces
  <2> QED
    BY <2>2, <2>3
<1> HIDE DEF pieces, Y
<1>3. FlattenSeq(pieces) \in Seq(Y)
  BY <1>1, FlattenType
<1>4. ASSUME text # <<>> PROVE FlattenSeq(pieces) # <<>>
  <2>1. Len(text) \in 1..Len(pieces)
    BY <1>1, <1>4
  <2>2. PICK o \in Nat : FoundAt(pieces[Len(text)], FlattenSeq(pieces), o)
    BY <1>1, <2>1, FlattenHolds
  <2>3. o + Len(pieces[Len(text)]) <= Len(FlattenSeq(pieces))
    BY <2>2 DEF FoundAt
  <2>4. pieces[Len(text)] \in Seq(Y)
    BY <1>1, <2>1
  <2>5. Len(FlattenSeq(pieces)) > 0
    BY <1>2, <1>3, <1>4, <2>3, <2>4
  <2> QED
    BY <1>3, <2>5
<1> QED
  BY <1>1, <1>3, <1>4 DEF Y

\* What restoring makes of a character.
RestoredChar(c, ending) == IF c = Editing!LF THEN ending ELSE <<c>>

\* Restoring a text is restoring its characters one by one.
LEMMA RestoreExtends ==
  ASSUME NEW X, NEW ending \in Seq(X), NEW text \in Seq(X), NEW c \in X,
         NEW longer, Extends(longer, text, c)
  PROVE  /\ Editing!RestoreLineEndings(<<>>, ending) = <<>>
         /\ Editing!RestoreLineEndings(text, ending) \in Seq(X)
         /\ Joins(Editing!RestoreLineEndings(longer, ending),
                  Editing!RestoreLineEndings(text, ending), RestoredChar(c, ending))
<1> DEFINE g == [x \in X |-> RestoredChar(x, ending)]
<1>1. g \in [X -> Seq(X)] /\ g[c] = RestoredChar(c, ending)
  <2>1. \A x \in X : <<x>> \in Seq(X)
    OBVIOUS
  <2> QED
    BY <2>1 DEF RestoredChar
<1>2. ASSUME NEW t \in Seq(X) PROVE Editing!RestoreLineEndings(t, ending) = FlattenSeq(Each(g, t))
  <2>1. \A i \in DOMAIN t : t[i] \in X
    OBVIOUS
  <2>2. [i \in DOMAIN t |-> IF t[i] = Editing!LF THEN ending ELSE <<t[i]>>] = Each(g, t)
    BY <2>1 DEF RestoredChar, Each
  <2> QED
    BY <2>2, SameEditingOperators DEF Editing!RestoreLineEndings
<1>3. longer \in Seq(X) /\ <<>> \in Seq(X)
  BY AppendProperties DEF Extends
<1> HIDE DEF g
<1>4. /\ FlattenSeq(Each(g, <<>>)) = <<>>
      /\ FlattenSeq(Each(g, text)) \in Seq(X)
      /\ Joins(FlattenSeq(Each(g, longer)), FlattenSeq(Each(g, text)), g[c])
  BY <1>1, FlattenEach
<1> QED
  BY <1>1, <1>2, <1>3, <1>4

\* Every LF follows a CR, and every CR is followed by an LF.
PairsUp(text) ==
    \A i \in 1..Len(text) :
        /\ text[i] = Editing!LF => i > 1 /\ text[i - 1] = Editing!CR
        /\ text[i] = Editing!CR => i < Len(text) /\ text[i + 1] = Editing!LF

LEMMA PairsJoin ==
  ASSUME NEW X, NEW s \in Seq(X), NEW t \in Seq(X), NEW u, Joins(u, s, t), PairsUp(s), PairsUp(t)
  PROVE  u \in Seq(X) /\ PairsUp(u)
<1>1. /\ u \in Seq(X) /\ Len(u) = Len(s) + Len(t) /\ Len(s) \in Nat /\ Len(t) \in Nat
      /\ \A i \in 1..Len(s) : u[i] = s[i]
      /\ \A i \in 1..Len(t) : u[Len(s) + i] = t[i]
  BY ConcatProperties DEF Joins
<1>2. ASSUME NEW i \in 1..Len(s)
      PROVE  /\ u[i] = Editing!LF => i > 1 /\ u[i - 1] = Editing!CR
             /\ u[i] = Editing!CR => i < Len(u) /\ u[i + 1] = Editing!LF
  <2>1. /\ s[i] = Editing!LF => i > 1 /\ s[i - 1] = Editing!CR
        /\ s[i] = Editing!CR => i < Len(s) /\ s[i + 1] = Editing!LF
    BY DEF PairsUp
  <2>2. (i > 1 => i - 1 \in 1..Len(s)) /\ (i < Len(s) => i + 1 \in 1..Len(s))
    BY <1>1
  <2> QED
    BY <1>1, <2>1, <2>2
<1>3. ASSUME NEW j \in 1..Len(t)
      PROVE  LET i == Len(s) + j
             IN  /\ u[i] = Editing!LF => i > 1 /\ u[i - 1] = Editing!CR
                 /\ u[i] = Editing!CR => i < Len(u) /\ u[i + 1] = Editing!LF
  <2>1. /\ t[j] = Editing!LF => j > 1 /\ t[j - 1] = Editing!CR
        /\ t[j] = Editing!CR => j < Len(t) /\ t[j + 1] = Editing!LF
    BY DEF PairsUp
  <2>2. u[Len(s) + j] = t[j]
    BY <1>1
  <2>3. ASSUME t[j] = Editing!LF PROVE Len(s) + j > 1 /\ u[(Len(s) + j) - 1] = Editing!CR
    <3>1. j > 1 /\ j - 1 \in 1..Len(t) /\ Len(s) + (j - 1) = (Len(s) + j) - 1
      BY <1>1, <2>1, <2>3
    <3>2. u[Len(s) + (j - 1)] = t[j - 1]
      BY <1>1, <3>1
    <3>3. Len(s) + j > 1
      BY <1>1, <3>1
    <3> QED
      BY <2>1, <2>3, <3>1, <3>2, <3>3
  <2>4. ASSUME t[j] = Editing!CR PROVE Len(s) + j < Len(u) /\ u[(Len(s) + j) + 1] = Editing!LF
    <3>1. j < Len(t) /\ j + 1 \in 1..Len(t) /\ Len(s) + (j + 1) = (Len(s) + j) + 1
      BY <1>1, <2>1, <2>4
    <3>2. u[Len(s) + (j + 1)] = t[j + 1]
      BY <1>1, <3>1
    <3>3. Len(s) + j < Len(u)
      BY <1>1, <3>1
    <3> QED
      BY <2>1, <2>4, <3>1, <3>2, <3>3
  <2> QED
    BY <2>2, <2>3, <2>4
<1>4. ASSUME NEW i \in 1..Len(u)
      PROVE  /\ u[i] = Editing!LF => i > 1 /\ u[i - 1] = Editing!CR
             /\ u[i] = Editing!CR => i < Len(u) /\ u[i + 1] = Editing!LF
  <2>1. CASE i \in 1..Len(s)
    BY <1>2, <2>1
  <2>2. CASE i \notin 1..Len(s)
    <3>1. i - Len(s) \in 1..Len(t) /\ Len(s) + (i - Len(s)) = i
      BY <1>1, <2>2
    <3> QED
      BY <1>3, <3>1
  <2> QED
    BY <2>1, <2>2
<1> QED
  BY <1>1, <1>4 DEF PairsUp

\* A text in LF comes out in CRLF.
LEMMA RestoredPairs ==
  ASSUME NEW X, Editing!CR \notin X, NEW text \in Seq(X)
  PROVE  LET crlf == <<Editing!CR, Editing!LF>>
         IN  /\ Editing!RestoreLineEndings(text, crlf)
                    \in Seq(X \cup {Editing!CR, Editing!LF})
             /\ PairsUp(Editing!RestoreLineEndings(text, crlf))
<1> DEFINE Y == X \cup {Editing!CR, Editing!LF}
           crlf == <<Editing!CR, Editing!LF>>
           Restore(t) == Editing!RestoreLineEndings(t, crlf)
           S == {t \in Seq(X) : Restore(t) \in Seq(Y) /\ PairsUp(Restore(t))}
<1>1. crlf \in Seq(Y) /\ PairsUp(crlf)
  <2>1. crlf \in Seq(Y) /\ Len(crlf) = 2 /\ crlf[1] = Editing!CR /\ crlf[2] = Editing!LF
    OBVIOUS
  <2> HIDE DEF crlf
  <2>2. \A i \in 1..2 : i = 1 \/ i = 2
    OBVIOUS
  <2> QED
    BY <2>1, <2>2, Marks DEF PairsUp
<1>2. Seq(X) \subseteq Seq(Y)
  BY SeqsOfMore
<1>3. <<>> \in Seq(Y) /\ PairsUp(<<>>)
  BY DEF PairsUp
<1>4. ASSUME NEW x \in X PROVE RestoredChar(x, crlf) \in Seq(Y) /\ PairsUp(RestoredChar(x, crlf))
  <2>1. CASE x = Editing!LF
    BY <1>1, <2>1 DEF RestoredChar
  <2>2. CASE x # Editing!LF
    <3> DEFINE one == <<x>>
    <3>1. one \in Seq(Y) /\ Len(one) = 1 /\ one[1] = x /\ x # Editing!CR
      OBVIOUS
    <3>2. RestoredChar(x, crlf) = one
      BY <2>2 DEF RestoredChar
    <3> HIDE DEF one
    <3>3. \A i \in 1..1 : i = 1
      OBVIOUS
    <3> QED
      BY <2>2, <3>1, <3>2, <3>3 DEF PairsUp
  <2> QED
    BY <2>1, <2>2
<1> HIDE DEF crlf
<1>5. <<>> \in S
  <2>1. \A t : t \in Seq(X) => Extends(Append(t, Editing!LF), t, Editing!LF)
    BY DEF Extends
  <2>2. Editing!LF \in Y /\ <<>> \in Seq(X)
    OBVIOUS
  <2>3. Restore(<<>>) = <<>>
    BY <1>1, <1>3, <2>1, <2>2, RestoreExtends
  <2> QED
    BY <1>3, <2>2, <2>3
<1>6. ASSUME NEW t \in Seq(X), NEW x \in X, t \in S PROVE Append(t, x) \in S
  <2> DEFINE u == Append(t, x)
  <2>1. u \in Seq(X) /\ Extends(u, t, x) /\ t \in Seq(Y) /\ x \in Y
    BY <1>2, AppendProperties DEF Extends
  <2> HIDE DEF u, Y
  <2>2. Joins(Restore(u), Restore(t), RestoredChar(x, crlf))
    BY <1>1, <2>1, RestoreExtends
  <2>3. Restore(u) \in Seq(Y) /\ PairsUp(Restore(u))
    BY <1>4, <1>6, <2>2, PairsJoin
  <2> QED
    BY <2>1, <2>3 DEF u
<1> HIDE DEF S
<1>7. \A t \in Seq(X) : t \in S
  BY <1>5, <1>6, SequenceInduction
<1> QED
  BY <1>7 DEF S, crlf, Y

\* Where lines end.
EndsAt(text, i) ==
    text[i] = Editing!LF \/ (text[i] = Editing!CR /\ ~(i < Len(text) /\ text[i + 1] = Editing!LF))

LEMMA WhereLinesEnd ==
  ASSUME NEW X, NEW text \in Seq(X), NEW i \in 1..Len(text)
  PROVE  (text[i] \in {Editing!CR, Editing!LF}
          /\ ~Editing!OccursAt(text, <<Editing!CR, Editing!LF>>, i - 1)) <=> EndsAt(text, i)
<1> DEFINE crlf == <<Editing!CR, Editing!LF>>
           two == SubSeq(text, i, i + 1)
<1>1. Len(crlf) = 2 /\ crlf[1] = Editing!CR /\ crlf[2] = Editing!LF /\ Len(text) \in Nat
  OBVIOUS
<1>2. i + 1 <= Len(text) => Len(two) = 2 /\ two[1] = text[i] /\ two[2] = text[i + 1]
  OBVIOUS
<1>3. two = crlf /\ i + 1 <= Len(text) => text[i] = Editing!CR /\ text[i + 1] = Editing!LF
  BY <1>1, <1>2
<1>4. ASSUME i + 1 <= Len(text), text[i] = Editing!CR, text[i + 1] = Editing!LF PROVE two = crlf
  <2>1. two \in Seq(X) /\ crlf \in Seq(X \cup {Editing!CR, Editing!LF})
    BY <1>4
  <2> HIDE DEF two, crlf
  <2>2. Seq(X) \subseteq Seq(X \cup {Editing!CR, Editing!LF})
    BY SeqsOfMore
  <2>3. \A j \in 1..2 : j = 1 \/ j = 2
    OBVIOUS
  <2>4. \A j \in 1..Len(two) : two[j] = crlf[j]
    BY <1>1, <1>2, <1>4, <2>3
  <2> QED
    BY <1>1, <1>2, <1>4, <2>1, <2>2, <2>4, SeqEqual
<1>5. Editing!OccursAt(text, crlf, i - 1) <=> i + 1 <= Len(text) /\ two = crlf
  <2>1. (i - 1) + Len(crlf) = i + 1 /\ (i - 1) + 1 = i
    BY <1>1
  <2> HIDE DEF crlf
  <2> QED
    BY <2>1 DEF Editing!OccursAt
<1> HIDE DEF two, crlf
<1>6. i < Len(text) <=> i + 1 <= Len(text)
  BY <1>1
<1> QED
  BY <1>3, <1>4, <1>5, <1>6, Marks DEF EndsAt, crlf

\* The ending there.
EndingAt(text, i) ==
    IF text[i] = Editing!LF /\ i > 1 /\ text[i - 1] = Editing!CR
    THEN <<Editing!CR, Editing!LF>> ELSE <<text[i]>>

LEMMA LineEndingsAre ==
  ASSUME NEW X, NEW text \in Seq(X)
  PROVE  Editing!LineEndings(text) = {EndingAt(text, i) : i \in {j \in 1..Len(text) : EndsAt(text, j)}}
<1>1. DOMAIN text = 1..Len(text)
  OBVIOUS
<1>2. {j \in DOMAIN text : /\ text[j] \in {Editing!CR, Editing!LF}
                           /\ ~Editing!OccursAt(text, <<Editing!CR, Editing!LF>>, j - 1)}
      = {j \in 1..Len(text) : EndsAt(text, j)}
  BY <1>1, WhereLinesEnd
<1> QED
  BY <1>2 DEF Editing!LineEndings, EndingAt

\* Which ending it is.
LEMMA EndingIs ==
  ASSUME NEW X, NEW text \in Seq(X), NEW i \in 1..Len(text)
  PROVE  /\ EndingAt(text, i) = <<Editing!CR, Editing!LF>>
                <=> text[i] = Editing!LF /\ i > 1 /\ text[i - 1] = Editing!CR
         /\ EndingAt(text, i) = <<Editing!LF>>
                <=> text[i] = Editing!LF /\ ~(i > 1 /\ text[i - 1] = Editing!CR)
<1> DEFINE crlf == <<Editing!CR, Editing!LF>>
           lf == <<Editing!LF>>
           one == <<text[i]>>
<1>1. /\ Len(crlf) = 2 /\ Len(lf) = 1 /\ Len(one) = 1
      /\ (one = lf <=> text[i] = Editing!LF)
  OBVIOUS
<1> HIDE DEF crlf, lf, one
<1>2. crlf # lf /\ crlf # one
  <2>1. Len(crlf) # Len(lf) /\ Len(crlf) # Len(one)
    BY <1>1
  <2> QED
    BY <2>1
<1> QED
  BY <1>1, <1>2 DEF EndingAt, crlf, lf, one

\* Without a CR every line ends in LF, and with CR and LF in pairs in CRLF.
LEMMA OneKindOfEnding ==
  ASSUME NEW X, NEW text \in Seq(X)
  PROVE  /\ Editing!CR \notin X => Editing!LineEndings(text) \subseteq {<<Editing!LF>>}
         /\ PairsUp(text) => Editing!LineEndings(text) \subseteq {<<Editing!CR, Editing!LF>>}
<1>1. \A i \in 1..Len(text) : text[i] \in X
  OBVIOUS
<1>2. ASSUME Editing!CR \notin X, NEW i \in 1..Len(text), EndsAt(text, i)
      PROVE  EndingAt(text, i) = <<Editing!LF>>
  <2>1. text[i] = Editing!LF /\ (i > 1 => i - 1 \in 1..Len(text))
    BY <1>1, <1>2 DEF EndsAt
  <2>2. ~(i > 1 /\ text[i - 1] = Editing!CR)
    BY <1>1, <1>2, <2>1
  <2> QED
    BY <2>1, <2>2, EndingIs
<1>3. ASSUME PairsUp(text), NEW i \in 1..Len(text), EndsAt(text, i)
      PROVE  EndingAt(text, i) = <<Editing!CR, Editing!LF>>
  <2>1. text[i] = Editing!LF /\ i > 1 /\ text[i - 1] = Editing!CR
    BY <1>3 DEF EndsAt, PairsUp
  <2> QED
    BY <2>1, EndingIs
<1> QED
  BY <1>2, <1>3, LineEndingsAre

\* The mark in front of a text.
LEMMA StripsMark ==
  ASSUME NEW X, NEW text \in Seq(X)
  PROVE  \E d \in {0, 1} :
            /\ Editing!StripBom(text) \in Seq(X) /\ Len(text) = Len(Editing!StripBom(text)) + d
            /\ d = 1 => text[1] = Editing!Bom
            /\ \A i \in 1..Len(Editing!StripBom(text)) : Editing!StripBom(text)[i] = text[i + d]
<1>1. CASE Editing!HasBom(text)
  <2>1. text # <<>> /\ Head(text) = Editing!Bom
    BY <1>1 DEF Editing!HasBom
  <2>2. /\ Tail(text) \in Seq(X) /\ Len(Tail(text)) = Len(text) - 1 /\ text[1] = Head(text)
        /\ \A i \in 1..(Len(text) - 1) : Tail(text)[i] = text[i + 1]
    BY <2>1, HeadTailProperties
  <2>3. Len(text) = Len(Tail(text)) + 1
    BY <2>2
  <2>4. Editing!StripBom(text) = Tail(text)
    BY <1>1 DEF Editing!StripBom
  <2> QED
    BY <2>1, <2>2, <2>3, <2>4
<1>2. CASE ~Editing!HasBom(text)
  <2>1. Editing!StripBom(text) = text /\ Len(text) = Len(text) + 0
    BY <1>2 DEF Editing!StripBom
  <2>2. \A i \in 1..Len(text) : text[i] = text[i + 0]
    OBVIOUS
  <2>3. 0 # 1 /\ 0 \in {0, 1}
    OBVIOUS
  <2> WITNESS 0 \in {0, 1}
  <2> QED
    BY <2>1, <2>2, <2>3
<1> QED
  BY <1>1, <1>2

\* When all lines of a file end alike, that is the ending detected.
LEMMA DetectsUniform ==
  ASSUME NEW X, NEW text \in Seq(X), NEW ending \in {<<Editing!LF>>, <<Editing!CR, Editing!LF>>},
         Editing!LineEndings(text) = {ending}
  PROVE  Editing!DetectLineEnding(Editing!StripBom(text)) = ending
<1> DEFINE bare == Editing!StripBom(text)
           Follows(i) == bare[i] = Editing!LF /\ i > 1 /\ bare[i - 1] = Editing!CR
<1>1. PICK d \in {0, 1} :
          /\ bare \in Seq(X) /\ Len(text) = Len(bare) + d
          /\ d = 1 => text[1] = Editing!Bom
          /\ \A i \in 1..Len(bare) : bare[i] = text[i + d]
  BY StripsMark
<1> HIDE DEF bare
<1>2. Len(bare) \in Nat /\ DOMAIN bare = 1..Len(bare)
  BY <1>1
<1>3. \A i \in 1..Len(text) : EndsAt(text, i) => EndingAt(text, i) = ending
  BY LineEndingsAre
<1>4. \E i \in 1..Len(text) : EndingAt(text, i) = ending
  BY LineEndingsAre
<1>5. \A i \in 1..Len(bare) : i + d \in 1..Len(text) /\ (i > 1 => i - 1 \in 1..Len(bare) /\ (i - 1) + d = (i + d) - 1)
  BY <1>1, <1>2
<1>6. <<Editing!LF>> # <<Editing!CR, Editing!LF>>
  OBVIOUS
<1>7. CASE ending = <<Editing!LF>>
  <2>1. ASSUME NEW i \in 1..Len(bare), Follows(i) PROVE FALSE
    <3>1. text[i + d] = Editing!LF /\ i + d > 1 /\ text[(i + d) - 1] = Editing!CR
      BY <1>1, <1>2, <1>5, <2>1
    <3>2. EndsAt(text, i + d) /\ i + d \in 1..Len(text)
      BY <1>5, <3>1 DEF EndsAt
    <3>3. EndingAt(text, i + d) = <<Editing!LF>>
      BY <1>3, <1>7, <3>2
    <3> QED
      BY <3>1, <3>2, <3>3, EndingIs
  <2> QED
    BY <1>2, <1>7, <2>1 DEF Editing!DetectLineEnding, bare
<1>8. CASE ending = <<Editing!CR, Editing!LF>>
  <2> DEFINE S == {i \in 1..Len(bare) : bare[i] = Editing!LF}
  <2>1. PICK i \in 1..Len(text) : text[i] = Editing!LF /\ i > 1
    BY <1>4, <1>8, EndingIs
  <2>2. i - d \in 1..Len(bare) /\ (i - d) + d = i
    BY <1>1, <1>2, <2>1
  <2>3. i - d \in S /\ i - d \in Nat
    BY <1>1, <2>1, <2>2
  <2> HIDE DEF S
  <2>4. PICK k \in 0..(i - d) : k \in S /\ \A m \in 0..(k - 1) : m \notin S
    BY <2>3, LeastUpTo
  <2>5. k \in 1..Len(bare) /\ bare[k] = Editing!LF /\ \A j \in 1..(k - 1) : bare[j] # Editing!LF
    <3>1. k \in 1..Len(bare) /\ bare[k] = Editing!LF
      BY <2>4 DEF S
    <3>2. \A j \in 1..(k - 1) : j \in 0..(k - 1) /\ j \in 1..Len(bare)
      BY <1>2, <3>1
    <3> QED
      BY <2>4, <3>1, <3>2 DEF S
  <2>6. text[k + d] = Editing!LF /\ EndsAt(text, k + d) /\ k + d \in 1..Len(text)
    BY <1>1, <1>5, <2>5 DEF EndsAt
  <2>7. k + d > 1 /\ text[(k + d) - 1] = Editing!CR
    BY <1>3, <1>8, <2>6, EndingIs
  <2>8. k > 1 /\ bare[k - 1] = Editing!CR
    <3>1. k # 1
      <4>1. SUFFICES ASSUME k = 1 PROVE FALSE
        OBVIOUS
      <4>2. d = 1 /\ (k + d) - 1 = 1
        BY <2>7, <4>1
      <4> QED
        BY <1>1, <2>7, <4>2, Marks
    <3>2. k > 1
      BY <2>5, <3>1
    <3> QED
      BY <1>1, <1>5, <2>5, <2>7, <3>2
  <2> QED
    BY <1>2, <1>8, <2>5, <2>8 DEF Editing!DetectLineEnding, bare
<1> QED
  BY <1>7, <1>8

\* A restored text is over its characters and the ending's.
LEMMA RestoredType ==
  ASSUME NEW X, Editing!LF \in X, NEW ending \in Seq(X), NEW text \in Seq(X)
  PROVE  Editing!RestoreLineEndings(text, ending) \in Seq(X)
<1>1. Extends(Append(text, Editing!LF), text, Editing!LF)
  BY DEF Extends
<1> QED
  BY <1>1, RestoreExtends

\* With the mark or without, a text in LF is written with one kind of ending.
LEMMA WritesOneEnding ==
  ASSUME NEW X, {Editing!LF, Editing!Bom} \subseteq X, Editing!CR \notin X, NEW text \in Seq(X),
         NEW mark \in {<<>>, <<Editing!Bom>>},
         NEW ending \in {<<Editing!LF>>, <<Editing!CR, Editing!LF>>}
  PROVE  Editing!LineEndings(mark \o Editing!RestoreLineEndings(text, ending)) \subseteq {ending}
<1> DEFINE Y == X \cup {Editing!CR, Editing!LF}
           body == Editing!RestoreLineEndings(text, ending)
           all == mark \o body
<1>1. CASE ending = <<Editing!LF>>
  <2>1. mark \in Seq(X) /\ ending \in Seq(X)
    <3>1. <<>> \in Seq(X) /\ \A x \in X : <<x>> \in Seq(X)
      OBVIOUS
    <3> QED
      BY <1>1, <3>1
  <2>2. body \in Seq(X)
    BY <2>1, RestoredType
  <2> HIDE DEF body
  <2>3. all \in Seq(X)
    BY <2>1, <2>2, ConcatProperties
  <2> HIDE DEF all
  <2> QED
    BY <1>1, <2>3, OneKindOfEnding DEF all, body
<1>2. CASE ending = <<Editing!CR, Editing!LF>>
  <2>1. body \in Seq(Y) /\ PairsUp(body)
    BY <1>2, RestoredPairs
  <2>2. mark \in Seq(Y)
    <3>1. <<>> \in Seq(Y) /\ (\A y \in Y : <<y>> \in Seq(Y)) /\ Editing!Bom \in Y
      OBVIOUS
    <3> HIDE DEF Y
    <3> QED
      BY <3>1
  <2>3. PairsUp(mark)
    <3>1. mark = <<>> \/ (Len(mark) = 1 /\ mark[1] = Editing!Bom)
      OBVIOUS
    <3>2. Len(<<>>) = 0 /\ \A i \in 1..1 : i = 1
      OBVIOUS
    <3>3. CASE mark = <<>>
      BY <3>2, <3>3 DEF PairsUp
    <3>4. CASE Len(mark) = 1 /\ mark[1] = Editing!Bom
      BY <3>2, <3>4, Marks DEF PairsUp
    <3> QED
      BY <3>1, <3>3, <3>4
  <2>4. Joins(all, mark, body)
    BY DEF Joins
  <2> HIDE DEF body, all, Y
  <2>5. all \in Seq(Y) /\ PairsUp(all)
    BY <2>1, <2>2, <2>3, <2>4, PairsJoin
  <2> QED
    BY <1>2, <2>5, OneKindOfEnding DEF all, body
<1> QED
  BY <1>1, <1>2

\* What is written starts with the mark if it is put there, or else with a
\* character of the text.
LEMMA WritesMark ==
  ASSUME NEW X, Editing!LF \in X, NEW ending \in Seq(X), NEW text \in Seq(X)
  PROVE  LET body == Editing!RestoreLineEndings(text, ending)
         IN  /\ Editing!HasBom(<<Editing!Bom>> \o body)
             /\ Editing!Bom \notin X => ~Editing!HasBom(<<>> \o body)
<1> DEFINE body == Editing!RestoreLineEndings(text, ending)
           Y == X \cup {Editing!Bom}
           one == <<Editing!Bom>>
           all == one \o body
<1>1. body \in Seq(X)
  BY RestoredType
<1> HIDE DEF body
<1>2. Editing!HasBom(all)
  <2>1. one \in Seq(Y) /\ body \in Seq(Y) /\ Len(one) = 1 /\ one[1] = Editing!Bom
    <3>1. Seq(X) \subseteq Seq(Y)
      BY SeqsOfMore
    <3> QED
      BY <1>1, <3>1
  <2> HIDE DEF one, Y
  <2>2. all \in Seq(Y) /\ Len(all) = 1 + Len(body) /\ all[1] = Editing!Bom
    <3>1. 1 \in 1..Len(one)
      BY <2>1
    <3>2. all \in Seq(Y)
      BY <2>1, ConcatProperties
    <3>3. \A i \in 1..Len(one) : all[i] = one[i]
      BY <2>1, ConcatProperties
    <3>4. Len(all) = Len(one) + Len(body)
      BY <2>1, ConcatProperties
    <3> HIDE DEF all
    <3> QED
      BY <2>1, <3>1, <3>2, <3>3, <3>4
  <2> HIDE DEF all
  <2>3. all # <<>> /\ Head(all) = all[1]
    BY <1>1, <2>2
  <2> QED
    BY <2>2, <2>3 DEF Editing!HasBom
<1>3. ASSUME Editing!Bom \notin X PROVE ~Editing!HasBom(<<>> \o body)
  <2>1. <<>> \o body = body
    BY <1>1, ConcatEmptySeq
  <2>2. body # <<>> => Head(body) \in X
    BY <1>1
  <2> QED
    BY <1>3, <2>1, <2>2 DEF Editing!HasBom
<1> QED
  BY <1>2, <1>3 DEF body, all, one

-----------------------------------------------------------------------------
(* edit: splices.                                                          *)

\* The smaller of two numbers.
LEMMA LesserOfTwo ==
  ASSUME NEW a \in Nat, NEW b \in Nat
  PROVE  Editing!Min({a, b}) \in Nat /\ Editing!Min({a, b}) <= a /\ Editing!Min({a, b}) <= b
<1>1. \E x \in {a, b} : \A y \in {a, b} : x <= y
  OBVIOUS
<1>2. Editing!Min({a, b}) \in {a, b} /\ \A y \in {a, b} : Editing!Min({a, b}) <= y
  BY <1>1 DEF Editing!Min
<1> QED
  BY <1>2

\* A span in a text, and what is put in its place.
Fits(span, X) ==
    span.start \in Nat /\ span.end \in Nat /\ span.replacement \in Seq(X)

\* A splice is over the characters of the text and of what it puts in.
LEMMA SpliceType ==
  ASSUME NEW X, NEW text \in Seq(X), NEW span, Fits(span, X)
  PROVE  Editing!Splice(text, span) \in Seq(X)
<1> DEFINE m == Editing!Min({span.start, Len(text)})
           front == SubSeq(text, 1, m)
           back == SubSeq(text, span.end + 1, Len(text))
<1>1. m \in 0..Len(text)
  <2>1. Len(text) \in Nat /\ span.start \in Nat
    BY DEF Fits
  <2> QED
    BY <2>1, LesserOfTwo
<1> HIDE DEF m
<1>2. front \in Seq(X)
  BY <1>1, FirstLines
<1>3. back \in Seq(X)
  BY LastLines DEF Fits
<1>4. span.replacement \in Seq(X)
  BY DEF Fits
<1> HIDE DEF front, back
<1>5. front \o span.replacement \in Seq(X)
  BY <1>2, <1>4, ConcatProperties
<1>6. (front \o span.replacement) \o back \in Seq(X)
  <2> DEFINE f == front \o span.replacement
  <2>1. f \in Seq(X)
    BY <1>5
  <2> HIDE DEF f
  <2>2. f \o back \in Seq(X)
    BY <1>3, <2>1, ConcatProperties
  <2> QED
    BY <2>2 DEF f
<1> QED
  BY <1>6 DEF Editing!Splice, front, back, m

\* The function inside Spliced.
Splicing(text, ordered) ==
    CHOOSE spliced : spliced = [n \in 0..Len(ordered) |->
        IF n = 0 THEN text ELSE Editing!Splice(spliced[n - 1], ordered[n])]

\* What it is: the text after the first splices.
Splices(r, text, ordered, X) ==
    /\ r \in [0..Len(ordered) -> Seq(X)]
    /\ r[0] = text
    /\ \A n \in 1..Len(ordered) : r[n] = Editing!Splice(r[n - 1], ordered[n])

LEMMA SplicingIs ==
  ASSUME NEW X, NEW text \in Seq(X), NEW ordered, Len(ordered) \in Nat,
         \A n \in 1..Len(ordered) : Fits(ordered[n], X)
  PROVE  /\ Splices(Splicing(text, ordered), text, ordered, X)
         /\ Editing!Spliced(text, ordered) = Splicing(text, ordered)[Len(ordered)]
<1> DEFINE N == Len(ordered)
           V == Seq(X)
           step == [n \in 1..N |-> [v \in V |-> Editing!Splice(v, ordered[n])]]
           Body(f) == [n \in 0..N |-> IF n = 0 THEN text ELSE Editing!Splice(f[n - 1], ordered[n])]
<1>1. N \in Nat /\ text \in V
  OBVIOUS
<1>2. step \in [1..N -> [V -> V]]
  <2>1. \A n \in 1..N : \A v \in V : Editing!Splice(v, ordered[n]) \in V
    BY SpliceType
  <2> QED
    BY <2>1
<1> HIDE DEF N, V
<1>3. PICK f \in [0..N -> V] : f[0] = text /\ \A n \in 1..N : f[n] = step[n][f[n - 1]]
  <2> HIDE DEF step, Body
  <2>1. Recurses(N, V, text, step)
    BY <1>1, <1>2, RecursionFor
  <2> QED
    BY <2>1 DEF Recurses
<1>4. \A n \in 1..N : f[n] = Editing!Splice(f[n - 1], ordered[n])
  <2> SUFFICES ASSUME NEW n \in 1..N PROVE f[n] = Editing!Splice(f[n - 1], ordered[n])
    OBVIOUS
  <2>1. f[n - 1] \in V
    BY <1>1, <1>3
  <2>2. step[n][f[n - 1]] = Editing!Splice(f[n - 1], ordered[n])
    BY <2>1
  <2> QED
    BY <1>3, <2>2
<1>5. f = Body(f)
  <2>1. ASSUME NEW n \in 0..N PROVE f[n] = Body(f)[n]
    <3>1. CASE n = 0
      BY <1>3, <3>1
    <3>2. CASE n # 0
      <4>1. n \in 1..N
        BY <1>1, <3>2
      <4>2. Body(f)[n] = Editing!Splice(f[n - 1], ordered[n])
        BY <3>2
      <4> QED
        BY <1>4, <4>1, <4>2
    <3> QED
      BY <3>1, <3>2
  <2> QED
    BY <1>3, <2>1
<1> DEFINE r == Splicing(text, ordered)
<1>6. r = Body(r)
  BY <1>5 DEF Splicing, N
<1> HIDE DEF r
<1>7. /\ r = [n \in 0..N |-> r[n]] /\ r[0] = text
      /\ \A n \in 1..N : r[n] = Editing!Splice(r[n - 1], ordered[n])
  <2>1. r = [n \in 0..N |-> r[n]] /\ \A n \in 0..N : r[n] = Body(r)[n]
    BY <1>6
  <2>2. ASSUME NEW n \in 1..N PROVE r[n] = Editing!Splice(r[n - 1], ordered[n])
    <3>1. n \in 0..N /\ n # 0
      BY <1>1
    <3>2. Body(r)[n] = Editing!Splice(r[n - 1], ordered[n])
      BY <3>1
    <3> QED
      BY <2>1, <3>1, <3>2
  <2>3. r[0] = text
    <3>1. 0 \in 0..N
      BY <1>1
    <3> QED
      BY <2>1, <3>1
  <2> HIDE DEF Body
  <2> QED
    BY <2>1, <2>2, <2>3
<1>8. \A n \in 0..N : r[n] \in V
  <2> DEFINE S == {n \in 0..N : r[n] \in V}
  <2>1. 0 \in S
    BY <1>1, <1>7
  <2>2. ASSUME NEW n \in 0..N, n < N, n \in S PROVE n + 1 \in S
    <3>1. n + 1 \in 1..N /\ (n + 1) - 1 = n /\ n + 1 \in 0..N
      BY <1>1, <2>2
    <3>2. r[n + 1] = Editing!Splice(r[n], ordered[n + 1]) /\ r[n] \in Seq(X)
      BY <1>7, <2>2, <3>1 DEF V
    <3>3. Fits(ordered[n + 1], X)
      BY <3>1 DEF N
    <3> QED
      BY <3>1, <3>2, <3>3, SpliceType DEF V
  <2> HIDE DEF S
  <2>3. \A n \in 0..N : n \in S
    BY <1>1, <2>1, <2>2, UpTo
  <2> QED
    BY <2>3 DEF S
<1>9. Editing!Spliced(text, ordered) = r[N]
  BY DEF Editing!Spliced, Splicing, r, N
<1> QED
  BY <1>7, <1>8, <1>9 DEF r, N, V, Splices

\* The members of a set in an order.
LEMMA InOrderIs ==
  ASSUME NEW S, IsFiniteSet(S), NEW below, IsOrder(below, S)
  PROVE  LET q == Editing!InOrder(S, below)
         IN  /\ q \in Seq(S)
             /\ \A i, j \in 1..Len(q) : i < j => q[i] \in below[q[j]]
             /\ \A a \in S : \E k \in 1..Len(q) : q[k] = a
<1> DEFINE q == Editing!InOrder(S, below)
           h(k) == CHOOSE a \in S : Editing!Cardinality(below[a]) = k - 1
<1>1. /\ Cardinality(S) \in Nat
      /\ \A k \in 1..Cardinality(S) : \E a \in S : Cardinality(below[a]) = k - 1
  BY RanksExist
<1>2. q = [k \in 1..Editing!Cardinality(S) |-> h(k)]
  BY DEF Editing!InOrder
<1> HIDE DEF q
<1>3. \A a \in S : Editing!Cardinality(below[a]) = Cardinality(below[a])
  BY SameEditingOperators
<1>4. Editing!Cardinality(S) = Cardinality(S)
  BY SameEditingOperators
<1>5. ASSUME NEW k \in 1..Cardinality(S)
      PROVE  h(k) \in S /\ Cardinality(below[h(k)]) = k - 1
  <2>1. \E a \in S : Editing!Cardinality(below[a]) = k - 1
    BY <1>1, <1>3
  <2>2. h(k) \in S /\ Editing!Cardinality(below[h(k)]) = k - 1
    BY <2>1
  <2> HIDE DEF h
  <2> QED
    BY <1>3, <2>2
<1> HIDE DEF h
<1>6. q = [k \in 1..Cardinality(S) |-> h(k)]
  BY <1>2, <1>4
<1>7. \A k \in 1..Cardinality(S) : q[k] \in S /\ Cardinality(below[q[k]]) = k - 1
  BY <1>5, <1>6
<1>8. q \in Seq(S) /\ Len(q) = Cardinality(S)
  BY <1>1, <1>5, <1>6
<1>9. Ranks(q, below, S)
  BY <1>7, <1>8 DEF Ranks
<1> QED
  BY <1>8, <1>9, RankedIsSorted DEF q

\* Where lines start.
LineStarts(text) == {at \in 0..(Len(text) - 1) : at = 0 \/ text[at] = Editing!LF}

\* Their offsets in order.
LEMMA OffsetsAre ==
  ASSUME NEW X, NEW text \in Seq(X)
  PROVE  LET o == Editing!LineStartOffsets(text)
         IN  /\ o \in Seq(LineStarts(text))
             /\ \A i, j \in 1..Len(o) : i < j => o[i] < o[j]
             /\ \A a \in LineStarts(text) : \E k \in 1..Len(o) : o[k] = a
<1> DEFINE S == LineStarts(text)
           below == [a \in S |-> {b \in S : b < a}]
           q == Editing!LineStartOffsets(text)
<1>1. \A a \in S : a \in Nat
  BY DEF LineStarts
<1>2. IsFiniteSet(S)
  <2>1. IsFiniteSet(0..(Len(text) - 1)) /\ S \subseteq 0..(Len(text) - 1)
    BY FS_Interval DEF LineStarts
  <2> QED
    BY <2>1, FS_Subset
<1>3. q = Editing!InOrder(S, below)
  BY DEF Editing!LineStartOffsets, LineStarts
<1> HIDE DEF S, q
<1>4. IsOrder(below, S) /\ \A a, b \in S : a \in below[b] => a < b
  BY <1>1 DEF IsOrder
<1> HIDE DEF below
<1>5. /\ q \in Seq(S)
      /\ \A i, j \in 1..Len(q) : i < j => q[i] \in below[q[j]]
      /\ \A a \in S : \E k \in 1..Len(q) : q[k] = a
  BY <1>2, <1>3, <1>4, InOrderIs
<1>6. \A i \in 1..Len(q) : q[i] \in S
  BY <1>5
<1> QED
  BY <1>4, <1>5, <1>6 DEF S, q

\* Where the kth line ends.
LineEnd(text, k) ==
    LET o == Editing!LineStartOffsets(text)
    IN  IF k = Len(o) THEN Len(text) ELSE o[k + 1]

\* The lines of a text, said by places.
AreLines(text, o, lines) ==
    /\ Len(o) \in Nat /\ Len(lines) = Len(o)
    /\ \A k \in 1..Len(o) :
          /\ o[k] \in Nat /\ LineEnd(text, k) \in 1..Len(text) /\ o[k] < LineEnd(text, k)
          /\ LineEnd(text, k) = IF k = Len(o) THEN Len(text) ELSE o[k + 1]
          /\ Len(lines[k]) = LineEnd(text, k) - o[k]
          /\ \A j \in 1..Len(lines[k]) : lines[k][j] = text[o[k] + j]

LEMMA LinesAre ==
  ASSUME NEW X, NEW text \in Seq(X)
  PROVE  /\ AreLines(text, Editing!LineStartOffsets(text), Editing!TerminatedLines(text))
         /\ Editing!TerminatedLines(text) \in Seq(Seq(X))
         /\ text # <<>> => Len(Editing!LineStartOffsets(text)) > 0
<1> DEFINE o == Editing!LineStartOffsets(text)
           lines == Editing!TerminatedLines(text)
<1>1. /\ o \in Seq(LineStarts(text)) /\ Len(o) \in Nat
      /\ \A i, j \in 1..Len(o) : i < j => o[i] < o[j]
      /\ \A a \in LineStarts(text) : \E k \in 1..Len(o) : o[k] = a
  BY OffsetsAre
<1>2. DOMAIN o = 1..Len(o) /\ Len(text) \in Nat
  BY <1>1
<1>3. lines = [k \in 1..Len(o) |-> SubSeq(text, o[k] + 1, LineEnd(text, k))]
  BY <1>2 DEF Editing!TerminatedLines, LineEnd
<1>4. \A k : LineEnd(text, k) = IF k = Len(o) THEN Len(text) ELSE o[k + 1]
  BY DEF LineEnd
<1> HIDE DEF o, lines
<1>5. \A k \in 1..Len(o) : o[k] \in 0..(Len(text) - 1)
  BY <1>1 DEF LineStarts
<1>6. ASSUME NEW k \in 1..Len(o)
      PROVE  o[k] \in Nat /\ LineEnd(text, k) \in 1..Len(text) /\ o[k] < LineEnd(text, k)
  <2>1. CASE k = Len(o)
    BY <1>2, <1>4, <1>5, <2>1
  <2>2. CASE k # Len(o)
    <3>1. k + 1 \in 1..Len(o) /\ k < k + 1
      BY <1>1, <2>2
    <3>2. o[k] < o[k + 1] /\ o[k] \in 0..(Len(text) - 1) /\ o[k + 1] \in 0..(Len(text) - 1)
      BY <1>1, <1>5, <3>1
    <3>3. LineEnd(text, k) = o[k + 1]
      BY <1>4, <2>2
    <3> QED
      BY <1>2, <3>2, <3>3
  <2> QED
    BY <2>1, <2>2
<1>7. ASSUME NEW k \in 1..Len(o)
      PROVE  /\ lines[k] \in Seq(X)
             /\ Len(lines[k]) = LineEnd(text, k) - o[k]
             /\ \A j \in 1..Len(lines[k]) : lines[k][j] = text[o[k] + j]
  <2> DEFINE a == o[k]
             b == LineEnd(text, k)
             line == SubSeq(text, a + 1, b)
  <2>1. a \in Nat /\ b \in 1..Len(text) /\ a < b
    BY <1>6
  <2> HIDE DEF a, b
  <2>2. /\ line \in Seq(X) /\ Len(line) = b - a
        /\ \A j \in 1..(b - a) : line[j] = text[a + j]
    <3>1. \A i \in 1..Len(text) : text[i] \in X
      OBVIOUS
    <3> QED
      BY <2>1, <3>1
  <2>3. lines[k] = line
    BY <1>3 DEF a, b
  <2> QED
    BY <2>2, <2>3 DEF a, b
<1>8. lines \in Seq(Seq(X)) /\ Len(lines) = Len(o)
  BY <1>1, <1>3, <1>7
<1>9. AreLines(text, o, lines)
  BY <1>1, <1>4, <1>6, <1>7, <1>8 DEF AreLines
<1>10. ASSUME text # <<>> PROVE Len(o) > 0
  <2>1. 0 \in LineStarts(text)
    BY <1>2, <1>10 DEF LineStarts
  <2> QED
    BY <1>1, <2>1
<1> QED
  BY <1>8, <1>9, <1>10 DEF o, lines

-----------------------------------------------------------------------------
(* edit: matches.                                                          *)

\* The function inside FindTextStarts.
Scan(text, old) ==
    CHOOSE starts : starts = [n \in 0..Len(text) |->
        IF n = 0 THEN {}
        ELSE starts[n - 1] \cup {at \in {n - 1} :
                 /\ Editing!OccursAt(text, old, at)
                 /\ \A start \in starts[n - 1] : start + Len(old) <= at}]

\* What it finds are occurrences.
LEMMA StartsOccur ==
  ASSUME NEW X, NEW text \in Seq(X), NEW old
  PROVE  Editing!FindTextStarts(text, old)
            \subseteq {o \in 0..Len(text) : Editing!OccursAt(text, old, o)}
<1> DEFINE N == Len(text)
           T == {o \in 0..N : Editing!OccursAt(text, old, o)}
           V == SUBSET T
           Found(v, n) == {at \in {n - 1} :
                              /\ Editing!OccursAt(text, old, at)
                              /\ \A start \in v : start + Len(old) <= at}
           step == [n \in 1..N |-> [v \in V |-> v \cup Found(v, n)]]
           Body(f) == [n \in 0..N |-> IF n = 0 THEN {} ELSE f[n - 1] \cup Found(f[n - 1], n)]
<1>1. N \in Nat /\ {} \in V
  OBVIOUS
<1>2. ASSUME NEW v \in V, NEW n \in 1..N PROVE v \cup Found(v, n) \in V
  <2>1. n - 1 \in 0..N
    BY <1>1
  <2>2. Found(v, n) \subseteq T
    BY <2>1
  <2> QED
    BY <2>2
<1> HIDE DEF N, V, Found
<1>3. step \in [1..N -> [V -> V]]
  BY <1>2
<1>4. PICK f \in [0..N -> V] : f[0] = {} /\ \A n \in 1..N : f[n] = step[n][f[n - 1]]
  <2> HIDE DEF step, Body
  <2>1. Recurses(N, V, {}, step)
    BY <1>1, <1>3, RecursionFor
  <2> QED
    BY <2>1 DEF Recurses
<1>5. \A n \in 1..N : f[n] = f[n - 1] \cup Found(f[n - 1], n)
  <2> SUFFICES ASSUME NEW n \in 1..N PROVE f[n] = f[n - 1] \cup Found(f[n - 1], n)
    OBVIOUS
  <2>1. f[n - 1] \in V
    BY <1>1, <1>4
  <2>2. step[n][f[n - 1]] = f[n - 1] \cup Found(f[n - 1], n)
    BY <2>1
  <2> QED
    BY <1>4, <2>2
<1>6. f = Body(f)
  <2>1. ASSUME NEW n \in 0..N PROVE f[n] = Body(f)[n]
    <3>1. CASE n = 0
      BY <1>4, <3>1
    <3>2. CASE n # 0
      <4>1. n \in 1..N
        BY <1>1, <3>2
      <4>2. Body(f)[n] = f[n - 1] \cup Found(f[n - 1], n)
        BY <3>2
      <4> QED
        BY <1>5, <4>1, <4>2
    <3> QED
      BY <3>1, <3>2
  <2> QED
    BY <1>4, <2>1
<1> DEFINE r == Scan(text, old)
<1>7. r = Body(r)
  <2>1. r = CHOOSE g : g = Body(g)
    BY DEF Scan, N, Found
  <2> HIDE DEF Body, r
  <2> QED
    BY <1>6, <2>1
<1> HIDE DEF r
<1>8. \A n \in 0..N : r[n] = Body(r)[n]
  <2>1. \A g : g = Body(r) => \A n \in 0..N : g[n] = Body(r)[n]
    OBVIOUS
  <2> QED
    BY <1>7, <2>1
<1>9. \A n \in 0..N : r[n] \in V
  <2> DEFINE S == {n \in 0..N : r[n] \in V}
  <2>1. 0 \in S
    BY <1>1, <1>8
  <2>2. ASSUME NEW n \in 0..N, n < N, n \in S PROVE n + 1 \in S
    <3>1. n + 1 \in 1..N /\ (n + 1) - 1 = n /\ n + 1 \in 0..N /\ n + 1 # 0
      BY <1>1, <2>2
    <3>2. Body(r)[n + 1] = r[n] \cup Found(r[n], n + 1)
      BY <3>1
    <3>3. r[n + 1] = r[n] \cup Found(r[n], n + 1)
      BY <1>8, <3>1, <3>2
    <3> QED
      BY <1>2, <2>2, <3>1, <3>3
  <2> HIDE DEF S
  <2>3. \A n \in 0..N : n \in S
    BY <1>1, <2>1, <2>2, UpTo
  <2> QED
    BY <2>3 DEF S
<1>10. Editing!FindTextStarts(text, old) = r[N]
  BY DEF Editing!FindTextStarts, Scan, r, N
<1> QED
  BY <1>1, <1>9, <1>10 DEF V, N

\* A normalized line says as the line does whether it ends with a newline, and
\* a text that is not empty has a line.
LEMMA WindowHasLines ==
  ASSUME NEW X, NEW text \in Seq(X)
  PROVE  /\ Len(Editing!NormalizedLines(text)) = Len(Editing!LineStartOffsets(text))
         /\ Len(Editing!TerminatedLines(text)) = Len(Editing!LineStartOffsets(text))
         /\ Len(Editing!LineStartOffsets(text)) \in Nat
         /\ text # <<>> => Len(Editing!LineStartOffsets(text)) > 0
<1> DEFINE lines == Editing!TerminatedLines(text)
<1>1. /\ lines \in Seq(Seq(X)) /\ Len(lines) = Len(Editing!LineStartOffsets(text))
      /\ Len(Editing!LineStartOffsets(text)) \in Nat
      /\ text # <<>> => Len(Editing!LineStartOffsets(text)) > 0
  BY LinesAre DEF AreLines
<1> HIDE DEF lines
<1>2. DOMAIN lines = 1..Len(lines)
  BY <1>1
<1>3. Editing!NormalizedLines(text)
        = [k \in 1..Len(lines) |-> Editing!NormalizeForFuzzyMatch(lines[k])]
  BY <1>2 DEF Editing!NormalizedLines, lines
<1>4. Len(Editing!NormalizedLines(text)) = Len(lines)
  BY <1>1, <1>3
<1> QED
  BY <1>1, <1>4 DEF lines

\* The only one of finitely many numbers is the least.
LEMMA OnlyOne ==
  ASSUME NEW n \in Nat, NEW S, S \subseteq 0..n, Editing!Cardinality(S) = 1
  PROVE  Editing!Min(S) \in S
<1>1. IsFiniteSet(S)
  <2>1. IsFiniteSet(0..n)
    BY FS_Interval
  <2> QED
    BY <2>1, FS_Subset
<1>2. PICK x : S = {x}
  <2>1. Cardinality(S) = 1
    BY SameEditingOperators
  <2> QED
    BY <1>1, <2>1, FS_Singleton
<1>3. \E a \in S : \A b \in S : a <= b
  BY <1>2
<1> QED
  BY <1>3 DEF Editing!Min

\* A window starts and ends in the text.
LEMMA WindowIsInText ==
  ASSUME NEW X, NEW text \in Seq(X), NEW old \in Seq(X), old # <<>>,
         NEW start \in Editing!FindWindowStarts(text, old)
  PROVE  LET o == Editing!LineStartOffsets(text)
             lines == Editing!TerminatedLines(text)
             last == start + Len(Editing!TerminatedLines(old))
             span == Editing!WindowCharSpan(text, old, start)
         IN  /\ start + 1 \in 1..Len(o) /\ last \in 1..Len(o) /\ start + 1 <= last
             /\ span.start = o[start + 1]
             /\ span.end = LineEnd(text, last)
                    - IF ~Editing!EndsWithNewline(old) /\ Editing!EndsWithNewline(lines[last])
                      THEN 1 ELSE 0
             /\ span.start \in Nat /\ span.end \in 0..Len(text)
<1> DEFINE o == Editing!LineStartOffsets(text)
           lines == Editing!TerminatedLines(text)
           count == Len(Editing!TerminatedLines(old))
           last == start + count
           span == Editing!WindowCharSpan(text, old, start)
           keeps == ~Editing!EndsWithNewline(old) /\ Editing!EndsWithNewline(lines[last])
<1>1. /\ Len(Editing!NormalizedLines(text)) = Len(o) /\ Len(o) \in Nat
      /\ Len(Editing!NormalizedLines(old)) = count /\ count \in Nat /\ count > 0
  BY WindowHasLines
<1>2. start \in 0..(Len(o) - count)
  BY <1>1 DEF Editing!FindWindowStarts
<1>3. /\ \A k \in 1..Len(o) :
            /\ o[k] \in Nat /\ LineEnd(text, k) \in 1..Len(text) /\ o[k] < LineEnd(text, k)
            /\ Len(lines[k]) = LineEnd(text, k) - o[k]
  BY LinesAre DEF AreLines
<1>4. span = [start |-> o[start + 1], end |-> o[last] + Len(lines[last]) - IF keeps THEN 1 ELSE 0]
  BY DEF Editing!WindowCharSpan
<1> HIDE DEF o, lines, count, span, keeps
<1>5. start + 1 \in 1..Len(o) /\ last \in 1..Len(o) /\ start + 1 <= last
  BY <1>1, <1>2
<1> HIDE DEF last
<1>6. span.start = o[start + 1] /\ span.end = o[last] + Len(lines[last]) - IF keeps THEN 1 ELSE 0
  BY <1>4
<1>7. /\ o[last] \in Nat /\ LineEnd(text, last) \in 1..Len(text)
      /\ Len(lines[last]) = LineEnd(text, last) - o[last]
  BY <1>3, <1>5
<1>8. span.end = LineEnd(text, last) - IF keeps THEN 1 ELSE 0
  BY <1>6, <1>7
<1>9. span.start \in Nat /\ span.end \in 0..Len(text)
  <2>1. span.start \in Nat
    BY <1>3, <1>5, <1>6
  <2>2. LineEnd(text, last) \in Int /\ 1 <= LineEnd(text, last) /\ LineEnd(text, last) <= Len(text)
        /\ Len(text) \in Nat
    BY <1>7
  <2> QED
    BY <1>8, <2>1, <2>2
<1> QED
  BY <1>5, <1>6, <1>8, <1>9 DEF o, lines, count, span, keeps, last

-----------------------------------------------------------------------------
(* edit: spans in order.                                                   *)

\* Spans of different edits.
IsLocated(located) ==
    /\ Len(located) \in Nat /\ DOMAIN located = 1..Len(located)
    /\ \A i \in 1..Len(located) : located[i].edit = i /\ located[i].start \in Nat

\* They are finitely many, and each is its edit's.
LEMMA SpansAre ==
  ASSUME NEW located, IsLocated(located)
  PROVE  /\ IsFiniteSet(ToSet(located))
         /\ \A a \in ToSet(located) : /\ a.edit \in 1..Len(located) /\ a = located[a.edit]
                                      /\ a.start \in Nat
         /\ \A i \in 1..Len(located) : located[i] \in ToSet(located)
<1> DEFINE S == ToSet(located)
           f == [i \in 1..Len(located) |-> located[i]]
<1>1. S = {located[i] : i \in 1..Len(located)}
  BY DEF ToSet, IsLocated
<1>2. IsFiniteSet(S)
  <2>1. IsFiniteSet(1..Len(located))
    BY FS_Interval DEF IsLocated
  <2>2. f \in Surjection(1..Len(located), S)
    <3> HIDE DEF S
    <3>1. f \in [1..Len(located) -> S]
      BY <1>1
    <3>2. \A a \in S : \E i \in 1..Len(located) : f[i] = a
      BY <1>1
    <3> QED
      BY <3>1, <3>2, Fun_IsSurj
  <2> QED
    BY <2>1, <2>2, FS_Surjection
<1>3. ASSUME NEW a \in S
      PROVE  a.edit \in 1..Len(located) /\ a = located[a.edit] /\ a.start \in Nat
  <2>1. PICK i \in 1..Len(located) : a = located[i]
    BY <1>1
  <2> QED
    BY <2>1 DEF IsLocated
<1> QED
  BY <1>1, <1>2, <1>3

\* The order in which they are replaced.
Descends(q, located) ==
    /\ q \in Seq(ToSet(located))
    /\ \A i, j \in 1..Len(q) : i < j =>
          \/ q[i].start > q[j].start
          \/ q[i].start = q[j].start /\ q[i].edit < q[j].edit
    /\ \A a \in ToSet(located) : \E k \in 1..Len(q) : q[k] = a

LEMMA InReverseIs ==
  ASSUME NEW located, IsLocated(located)
  PROVE  Descends(Editing!InReverse(located), located)
<1> DEFINE S == ToSet(located)
           Before(a, b) == a.start > b.start \/ (a.start = b.start /\ a.edit < b.edit)
           below == [a \in S |-> {b \in S : Before(b, a)}]
           q == Editing!InReverse(located)
<1>1. /\ IsFiniteSet(S)
      /\ \A a \in S : a.edit \in Nat /\ a = located[a.edit] /\ a.start \in Nat
  BY SpansAre DEF IsLocated
<1>2. q = Editing!InOrder(S, below)
  <2>1. Editing!ToSet(located) = S
    BY SameEditingOperators
  <2> HIDE DEF S
  <2> QED
    BY <2>1 DEF Editing!InReverse
<1> HIDE DEF S, q
<1>3. IsOrder(below, S) /\ \A a, b \in S : a \in below[b] => Before(a, b)
  <2>1. \A a \in S : ~Before(a, a)
    BY <1>1
  <2>2. \A a, b, c \in S : Before(c, b) /\ Before(b, a) => Before(c, a)
    BY <1>1
  <2>3. \A a, b \in S : a # b => Before(a, b) \/ Before(b, a)
    <3> SUFFICES ASSUME NEW a \in S, NEW b \in S, a # b PROVE Before(a, b) \/ Before(b, a)
      OBVIOUS
    <3>1. a.edit # b.edit
      BY <1>1
    <3> QED
      BY <1>1, <3>1
  <2> HIDE DEF Before
  <2> QED
    BY <2>1, <2>2, <2>3 DEF IsOrder
<1> HIDE DEF Before, below
<1>4. /\ q \in Seq(S)
      /\ \A i, j \in 1..Len(q) : i < j => q[i] \in below[q[j]]
      /\ \A a \in S : \E k \in 1..Len(q) : q[k] = a
  BY <1>1, <1>2, <1>3, InOrderIs
<1>5. \A i \in 1..Len(q) : q[i] \in S
  BY <1>4
<1>6. \A i, j \in 1..Len(q) : i < j => Before(q[i], q[j])
  BY <1>3, <1>4, <1>5
<1> QED
  BY <1>4, <1>6 DEF S, q, Before, Descends

\* What a splice of all spans gives is over the characters of the text and of
\* the replacements.
LEMMA SplicesType ==
  ASSUME NEW X, NEW text \in Seq(X), NEW located, IsLocated(located),
         \A i \in 1..Len(located) : Fits(located[i], X)
  PROVE  Editing!SpliceTextSpans(text, located) \in Seq(X)
<1> DEFINE q == Editing!InReverse(located)
<1>1. q \in Seq(ToSet(located))
  BY InReverseIs DEF Descends
<1> HIDE DEF q
<1>2. \A a \in ToSet(located) : Fits(a, X)
  BY SpansAre
<1>3. Len(q) \in Nat /\ \A n \in 1..Len(q) : Fits(q[n], X)
  BY <1>1, <1>2
<1>4. /\ Splices(Splicing(text, q), text, q, X)
      /\ Editing!Spliced(text, q) = Splicing(text, q)[Len(q)]
  BY <1>3, SplicingIs
<1>5. Splicing(text, q)[Len(q)] \in Seq(X)
  <2>1. Len(q) \in 0..Len(q)
    BY <1>3
  <2> QED
    BY <1>4, <2>1 DEF Splices
<1> QED
  BY <1>4, <1>5 DEF Editing!SpliceTextSpans, q

\* What stands at an offset when all replacements are made at once.
PutIn(located, c) ==
    [i \in DOMAIN located |->
        IF located[i].start = c THEN located[i].replacement ELSE <<>>]

KeptAt(text, located, c) ==
    IF c + 1 <= Len(text) /\ \A i \in DOMAIN located :
                                 c \notin located[i].start..(located[i].end - 1)
    THEN <<text[c + 1]>> ELSE <<>>

Pieces(text, located) ==
    [k \in 1..(Len(text) + 1) |->
        FlattenSeq(PutIn(located, k - 1)) \o KeptAt(text, located, k - 1)]

\* Spans of the text, none of them empty, that do not overlap.
AreApart(located, text, X) ==
    /\ IsLocated(located)
    /\ \A i \in 1..Len(located) :
          Fits(located[i], X) /\ located[i].start < located[i].end /\ located[i].end <= Len(text)
    /\ \A i, j \in 1..Len(located) :
          i # j => located[i].end <= located[j].start \/ located[j].end <= located[i].start

\* A piece is the replacement of the span that starts there, or nothing within a
\* span, and the text's character outside of all.
EmptyBetween(p, a, b) == \A c \in a..(b - 1) : p[c + 1] = <<>>

Replaces(p, span) ==
    /\ p[span.start + 1] = span.replacement
    /\ EmptyBetween(p, span.start + 1, span.end)

ArePieces(p, text, located, X) ==
    /\ p \in Seq(Seq(X)) /\ Len(p) = Len(text) + 1
    /\ \A i \in 1..Len(located) : Replaces(p, located[i])
    /\ p[Len(text) + 1] = <<>>
    /\ \A c \in 0..(Len(text) - 1) :
          (\A i \in 1..Len(located) : c \notin located[i].start..(located[i].end - 1))
          => p[c + 1] = <<text[c + 1]>>

LEMMA PiecesAre ==
  ASSUME NEW X, NEW text \in Seq(X), NEW located, AreApart(located, text, X)
  PROVE  ArePieces(Pieces(text, located), text, located, X)
<1> DEFINE L == Len(text)
           N == Len(located)
           V == Seq(X)
           p == Pieces(text, located)
<1>1. /\ N \in Nat /\ DOMAIN located = 1..N /\ L \in Nat /\ <<>> \in V
      /\ \A i \in 1..N : /\ located[i].start \in Nat /\ located[i].end \in Nat
                         /\ located[i].replacement \in V
                         /\ located[i].start < located[i].end /\ located[i].end <= L
      /\ \A i, j \in 1..N :
            i # j => located[i].end <= located[j].start \/ located[j].end <= located[i].start
      /\ \A c \in 0..(L - 1) : <<text[c + 1]>> \in V
  BY DEF AreApart, IsLocated, Fits
<1>2. \A v \in V : v \o <<>> = v /\ <<>> \o v = v
  BY ConcatEmptySeq
<1>3. \A v, w \in V : v \o w \in V
  BY ConcatProperties
<1> HIDE DEF V, N, L
<1>4. ASSUME NEW c \in 0..L
      PROVE  /\ PutIn(located, c) \in Seq(Seq(X)) /\ Len(PutIn(located, c)) = N
             /\ \A i \in 1..N : PutIn(located, c)[i]
                                   = IF located[i].start = c THEN located[i].replacement ELSE <<>>
  <2>1. \A i \in 1..N : (IF located[i].start = c THEN located[i].replacement ELSE <<>>) \in V
    BY <1>1
  <2>2. PutIn(located, c) = [i \in 1..N |->
             IF located[i].start = c THEN located[i].replacement ELSE <<>>]
    BY <1>1 DEF PutIn
  <2> QED
    BY <1>1, <2>1, <2>2 DEF V
<1>5. ASSUME NEW c \in 0..L, NEW i \in 1..N, located[i].start = c
      PROVE  FlattenSeq(PutIn(located, c)) = located[i].replacement
  <2> DEFINE s == PutIn(located, c)
  <2>1. /\ s \in Seq(Seq(X)) /\ Len(s) = N /\ s[i] = located[i].replacement
        /\ \A j \in 1..N : s[j] = IF located[j].start = c THEN located[j].replacement ELSE <<>>
    BY <1>4, <1>5
  <2>2. ASSUME NEW j \in 1..N, j # i PROVE s[j] = <<>>
    <3>1. located[j].end <= located[i].start \/ located[i].end <= located[j].start
      BY <1>1, <2>2
    <3>2. located[j].start # c
      BY <1>1, <1>5, <3>1
    <3> QED
      BY <2>1, <3>2
  <2> HIDE DEF s
  <2>3. i \in 0..Len(s) /\ i # 0 /\ \A j \in 1..Len(s) : j # i => s[j] = <<>>
    BY <1>1, <2>1, <2>2
  <2> QED
    BY <2>1, <2>3, FlattenAlone DEF s
<1>6. ASSUME NEW c \in 0..L, \A i \in 1..N : located[i].start # c
      PROVE  FlattenSeq(PutIn(located, c)) = <<>>
  <2> DEFINE s == PutIn(located, c)
  <2>1. /\ s \in Seq(Seq(X)) /\ Len(s) = N /\ \A j \in 1..N : s[j] = <<>>
    BY <1>4, <1>6
  <2> HIDE DEF s
  <2>2. 0 \in 0..Len(s)
    BY <1>1, <2>1
  <2> QED
    BY <2>1, <2>2, FlattenAlone DEF s
<1>7. ASSUME NEW c \in 0..L PROVE FlattenSeq(PutIn(located, c)) \in V
  BY <1>4, <1>7, FlattenType DEF V
<1>8. ASSUME NEW c \in 0..L
      PROVE  /\ KeptAt(text, located, c) \in V
             /\ ((\E i \in 1..N : c \in located[i].start..(located[i].end - 1)) \/ c = L)
                  => KeptAt(text, located, c) = <<>>
             /\ (c \in 0..(L - 1) /\ \A i \in 1..N : c \notin located[i].start..(located[i].end - 1))
                  => KeptAt(text, located, c) = <<text[c + 1]>>
  <2>1. c + 1 <= Len(text) <=> c \in 0..(L - 1)
    BY <1>1 DEF L
  <2>2. KeptAt(text, located, c)
           = IF c \in 0..(L - 1) /\ \A i \in 1..N : c \notin located[i].start..(located[i].end - 1)
             THEN <<text[c + 1]>> ELSE <<>>
    BY <1>1, <2>1 DEF KeptAt
  <2>3. c = L => c \notin 0..(L - 1)
    BY <1>1
  <2> QED
    BY <1>1, <2>2, <2>3
<1>9. ASSUME NEW c \in 0..L
      PROVE  p[c + 1] = FlattenSeq(PutIn(located, c)) \o KeptAt(text, located, c)
  <2>1. c + 1 \in 1..(L + 1) /\ (c + 1) - 1 = c
    BY <1>1
  <2> QED
    BY <2>1 DEF Pieces, L
<1>10. p \in Seq(Seq(X)) /\ Len(p) = L + 1
  <2>1. \A k \in 1..(L + 1) : k - 1 \in 0..L /\ (k - 1) + 1 = k
    BY <1>1
  <2> DEFINE h(k) == FlattenSeq(PutIn(located, k - 1)) \o KeptAt(text, located, k - 1)
  <2>2. \A k \in 1..(L + 1) : h(k) \in V
    BY <1>3, <1>7, <1>8, <2>1
  <2>3. p = [k \in 1..(L + 1) |-> h(k)]
    BY DEF Pieces, L
  <2> HIDE DEF p, h
  <2>4. p \in Seq(V) /\ Len(p) = L + 1
    BY <1>1, <2>2, <2>3
  <2> QED
    BY <2>4 DEF V
<1> HIDE DEF p
<1>11. ASSUME NEW i \in 1..N PROVE p[located[i].start + 1] = located[i].replacement
  <2> DEFINE c == located[i].start
  <2>1. c \in 0..L /\ c \in located[i].start..(located[i].end - 1) /\ located[i].replacement \in V
    BY <1>1
  <2> QED
    BY <1>2, <1>5, <1>8, <1>9, <2>1
<1>12. ASSUME NEW i \in 1..N, NEW c \in (located[i].start + 1)..(located[i].end - 1)
       PROVE  p[c + 1] = <<>>
  <2>1. c \in 0..L /\ c \in located[i].start..(located[i].end - 1)
    BY <1>1
  <2>2. ASSUME NEW j \in 1..N PROVE located[j].start # c
    <3>1. i # j => located[i].end <= located[j].start \/ located[j].end <= located[i].start
      BY <1>1
    <3>2. /\ located[i].start \in Nat /\ located[i].end \in Nat /\ located[j].start \in Nat
          /\ located[j].end \in Nat /\ located[j].start < located[j].end
      BY <1>1
    <3>3. c \in Int /\ located[i].start < c /\ c < located[i].end
      BY <1>1
    <3>4. CASE i = j
      BY <3>2, <3>3, <3>4
    <3>5. CASE located[i].end <= located[j].start
      BY <3>2, <3>3, <3>5
    <3>6. CASE located[j].end <= located[i].start
      BY <3>2, <3>3, <3>6
    <3> QED
      BY <3>1, <3>4, <3>5, <3>6
  <2>3. FlattenSeq(PutIn(located, c)) = <<>> /\ KeptAt(text, located, c) = <<>>
    BY <1>6, <1>8, <2>1, <2>2
  <2> QED
    BY <1>1, <1>2, <1>9, <2>1, <2>3
<1>13. p[L + 1] = <<>>
  <2>1. L \in 0..L /\ \A j \in 1..N : located[j].start # L
    BY <1>1
  <2> QED
    BY <1>1, <1>2, <1>6, <1>8, <1>9, <2>1
<1>14. ASSUME NEW c \in 0..(L - 1), \A i \in 1..N : c \notin located[i].start..(located[i].end - 1)
       PROVE  p[c + 1] = <<text[c + 1]>>
  <2>1. c \in 0..L /\ <<text[c + 1]>> \in V
    BY <1>1
  <2>2. \A j \in 1..N : located[j].start # c
    BY <1>1, <1>14
  <2>3. KeptAt(text, located, c) = <<text[c + 1]>>
    BY <1>8, <1>14, <2>1
  <2> QED
    BY <1>2, <1>6, <1>9, <2>1, <2>2, <2>3
<1>15. \A i \in 1..N : Replaces(p, located[i])
  BY <1>11, <1>12 DEF Replaces, EmptyBetween
<1> QED
  BY <1>10, <1>13, <1>14, <1>15 DEF p, N, L, ArePieces

\* The text up to an offset, and what the pieces behind it make.
Ahead(text, onward, c) == SubSeq(text, 1, c) \o onward[c]

\* Where pieces are the characters of the text, it does not matter up to which
\* of them.
KeptBetween(pieces, text, a, b) == \A c \in a..(b - 1) : pieces[c + 1] = <<text[c + 1]>>

LEMMA AheadOfKept ==
  ASSUME NEW X, NEW text \in Seq(X), NEW pieces \in Seq(Seq(X)), Len(pieces) = Len(text) + 1,
         NEW onward, Onwards(onward, pieces, X), NEW a \in 0..Len(text), NEW b \in a..Len(text),
         KeptBetween(pieces, text, a, b)
  PROVE  Ahead(text, onward, a) = Ahead(text, onward, b)
<1> DEFINE L == Len(text)
           V == Seq(X)
           S == {d \in 0..(b - a) : Ahead(text, onward, a + d) = Ahead(text, onward, a)}
<1>1. L \in Nat /\ a \in Nat /\ b \in Nat /\ a <= b /\ b <= L /\ b - a \in Nat
  OBVIOUS
<1>2. ASSUME NEW c \in a..(b - 1) PROVE Ahead(text, onward, c + 1) = Ahead(text, onward, c)
  <2> DEFINE f == SubSeq(text, 1, c)
             x == text[c + 1]
             one == <<x>>
             r == onward[c + 1]
             fx == SubSeq(text, 1, c + 1)
             or == onward[c]
  <2>1. c \in 0..L /\ c < L /\ c + 1 \in 0..(L + 1) /\ c \in 0..((L + 1) - 1)
    BY <1>1
  <2>2. f \in V /\ x \in X /\ fx = Append(f, x)
    BY <2>1, PrefixStep
  <2>3. r \in V /\ Joins(or, pieces[c + 1], r)
    BY <2>1 DEF Onwards
  <2>4. pieces[c + 1] = one
    BY DEF KeptBetween
  <2> HIDE DEF f, x, r, fx, or
  <2>5. one \in V /\ Append(f, x) = f \o one
    <3>1. Append(f, x) = f \o <<x>>
      BY <2>2, AppendIsConcat
    <3> QED
      BY <2>2, <3>1
  <2>6. Joins(fx, f, one) /\ Joins(or, one, r)
    BY <2>2, <2>3, <2>4, <2>5 DEF Joins
  <2> HIDE DEF one, V
  <2>7. \A u : Joins(u, f, or) <=> Joins(u, fx, r)
    BY <2>2, <2>3, <2>5, <2>6, JoinsAssociate DEF V
  <2>8. Joins(f \o or, f, or)
    BY DEF Joins
  <2>9. f \o or = fx \o r
    BY <2>7, <2>8 DEF Joins
  <2> QED
    BY <2>9 DEF Ahead, f, or, fx, r
<1>3. 0 \in S
  <2>1. a + 0 = a /\ 0 \in 0..(b - a)
    BY <1>1
  <2> QED
    BY <2>1, Zenon
<1>4. ASSUME NEW d \in 0..(b - a), d < b - a, d \in S PROVE d + 1 \in S
  <2>1. a + d \in a..(b - 1) /\ (a + d) + 1 = a + (d + 1) /\ d + 1 \in 0..(b - a)
    BY <1>1, <1>4
  <2>2. Ahead(text, onward, (a + d) + 1) = Ahead(text, onward, a + d)
    BY <1>2, <2>1
  <2> QED
    BY <1>4, <2>1, <2>2, Zenon
<1> HIDE DEF S
<1>5. b - a \in S
  <2>1. \A d \in 0..(b - a) : d \in S
    BY <1>1, <1>3, <1>4, UpTo
  <2> QED
    BY <1>1, <2>1
<1>6. a + (b - a) = b
  BY <1>1
<1> QED
  BY <1>5, <1>6, Zenon DEF S

\* Where pieces are empty, they make nothing.
LEMMA OnwardOverEmpty ==
  ASSUME NEW X, NEW pieces \in Seq(Seq(X)), NEW onward, Onwards(onward, pieces, X),
         NEW a \in 0..Len(pieces), NEW b \in a..Len(pieces), EmptyBetween(pieces, a, b)
  PROVE  onward[a] = onward[b]
<1> DEFINE L == Len(pieces)
           S == {d \in 0..(b - a) : onward[a + d] = onward[a]}
<1>1. L \in Nat /\ a \in Nat /\ b \in Nat /\ a <= b /\ b <= L /\ b - a \in Nat
  OBVIOUS
<1>2. ASSUME NEW c \in a..(b - 1) PROVE onward[c + 1] = onward[c]
  <2>1. c \in 0..(L - 1) /\ c + 1 \in 0..L
    BY <1>1
  <2>2. onward[c + 1] \in Seq(X) /\ Joins(onward[c], pieces[c + 1], onward[c + 1])
    BY <2>1 DEF Onwards
  <2>3. <<>> \o onward[c + 1] = onward[c + 1]
    BY <2>2, ConcatEmptySeq
  <2> QED
    BY <2>2, <2>3 DEF Joins, EmptyBetween
<1>3. 0 \in S
  <2>1. a + 0 = a /\ 0 \in 0..(b - a)
    BY <1>1
  <2> QED
    BY <2>1, Zenon
<1>4. ASSUME NEW d \in 0..(b - a), d < b - a, d \in S PROVE d + 1 \in S
  <2>1. a + d \in a..(b - 1) /\ (a + d) + 1 = a + (d + 1) /\ d + 1 \in 0..(b - a)
    BY <1>1, <1>4
  <2>2. onward[(a + d) + 1] = onward[a + d]
    BY <1>2, <2>1
  <2> QED
    BY <1>4, <2>1, <2>2, Zenon
<1> HIDE DEF S
<1>5. b - a \in S
  <2>1. \A d \in 0..(b - a) : d \in S
    BY <1>1, <1>3, <1>4, UpTo
  <2> QED
    BY <1>1, <2>1
<1>6. a + (b - a) = b
  BY <1>1
<1> QED
  BY <1>5, <1>6, Zenon DEF S

\* A splice behind which all is done does one more.
LEMMA SpliceGoesOn ==
  ASSUME NEW X, NEW text \in Seq(X), NEW pieces \in Seq(Seq(X)), Len(pieces) = Len(text) + 1,
         NEW onward, Onwards(onward, pieces, X),
         NEW span, Fits(span, X), span.start < span.end, span.end <= Len(text),
         Replaces(pieces, span)
  PROVE  Editing!Splice(Ahead(text, onward, span.end), span) = Ahead(text, onward, span.start)
<1> DEFINE L == Len(text)
           V == Seq(X)
           a == span.start
           b == span.end
           new == span.replacement
           f == SubSeq(text, 1, a)
           g == SubSeq(text, 1, b)
           r == onward[b]
           u == g \o r
<1>1. L \in Nat /\ a \in Nat /\ b \in Nat /\ a < b /\ b <= L /\ new \in V
  BY DEF Fits
<1>2. onward[a] = new \o r /\ r \in V
  <2>1. a + 1 \in 0..Len(pieces) /\ b \in (a + 1)..Len(pieces) /\ a \in 0..(Len(pieces) - 1)
        /\ b \in 0..Len(pieces)
    BY <1>1
  <2>2. onward[a + 1] = onward[b]
    <3> DEFINE d == a + 1
    <3>1. EmptyBetween(pieces, d, b)
      BY DEF Replaces
    <3>2. d \in 0..Len(pieces) /\ b \in d..Len(pieces)
      BY <2>1
    <3> HIDE DEF a, b, d
    <3>3. onward[d] = onward[b]
      BY <3>1, <3>2, OnwardOverEmpty
    <3> QED
      BY <3>3 DEF d
  <2>3. Joins(onward[a], pieces[a + 1], onward[a + 1]) /\ onward[b] \in V
    BY <2>1 DEF Onwards
  <2> QED
    BY <2>2, <2>3 DEF Joins, Replaces
<1> HIDE DEF a, b, new, r, L
<1>3. /\ f \in V /\ Len(f) = a /\ \A i \in 1..a : f[i] = text[i]
      /\ g \in V /\ Len(g) = b /\ \A i \in 1..b : g[i] = text[i]
  <2>1. a \in 0..Len(text) /\ b \in 0..Len(text)
    BY <1>1 DEF L
  <2> QED
    BY <2>1, FirstLines
<1> HIDE DEF f, g
<1>4. /\ u \in V /\ Len(u) = b + Len(r) /\ Len(r) \in Nat
      /\ \A i \in 1..b : u[i] = g[i]
      /\ \A i \in 1..Len(r) : u[b + i] = r[i]
  <2>1. u \in V
    BY <1>2, <1>3, ConcatProperties
  <2>2. /\ Len(u) = Len(g) + Len(r)
        /\ \A i \in 1..(Len(g) + Len(r)) : u[i] = IF i <= Len(g) THEN g[i] ELSE r[i - Len(g)]
    BY <1>2, <1>3, ConcatProperties
  <2>5. Len(r) \in Nat
    BY <1>2
  <2> HIDE DEF u, V
  <2>3. \A i \in 1..b : i \in 1..(b + Len(r)) /\ i <= b
    BY <1>1, <2>5
  <2>4. \A i \in 1..Len(r) : b + i \in 1..(b + Len(r)) /\ ~(b + i <= b) /\ (b + i) - b = i
    BY <1>1, <2>5
  <2> QED
    BY <1>3, <2>1, <2>2, <2>3, <2>4, <2>5
<1> HIDE DEF u
<1>5. Editing!Min({a, Len(u)}) = a
  <2>1. a <= Len(u) /\ Len(u) \in Nat
    BY <1>1, <1>4
  <2>2. \E x \in {a, Len(u)} : \A y \in {a, Len(u)} : x <= y
    BY <1>1, <2>1
  <2>3. /\ Editing!Min({a, Len(u)}) \in {a, Len(u)}
        /\ \A y \in {a, Len(u)} : Editing!Min({a, Len(u)}) <= y
    BY <2>2 DEF Editing!Min
  <2> QED
    BY <1>1, <2>1, <2>3
<1>6. SubSeq(u, 1, a) = f
  <2> DEFINE s == SubSeq(u, 1, a)
  <2>1. a \in 0..Len(u)
    BY <1>1, <1>4
  <2>2. s \in V /\ Len(s) = a /\ \A i \in 1..a : s[i] = u[i]
    BY <1>4, <2>1, FirstLines
  <2> HIDE DEF s
  <2>3. \A i \in 1..a : i \in 1..b
    BY <1>1
  <2>4. \A i \in 1..Len(s) : s[i] = f[i]
    BY <1>3, <1>4, <2>2, <2>3
  <2>5. s = f
    BY <1>3, <2>2, <2>4, SeqEqual
  <2> QED
    BY <2>5 DEF s
<1>7. SubSeq(u, b + 1, Len(u)) = r
  <2> DEFINE s == SubSeq(u, b + 1, Len(u))
  <2>1. /\ s \in V /\ Len(s) = IF b <= Len(u) THEN Len(u) - b ELSE 0
        /\ \A i \in 1..(Len(u) - b) : s[i] = u[b + i]
    <3>1. b \in Nat /\ u \in Seq(X)
      BY <1>1, <1>4
    <3> QED
      BY <3>1, LastLines
  <2> HIDE DEF s
  <2>2. Len(s) = Len(r) /\ Len(u) - b = Len(r)
    BY <1>1, <1>4, <2>1
  <2>3. \A i \in 1..Len(s) : s[i] = r[i]
    BY <1>4, <2>1, <2>2
  <2>4. s = r
    BY <1>2, <2>1, <2>2, <2>3, SeqEqual
  <2> QED
    BY <2>4 DEF s
<1>8. Editing!Splice(u, span) = (f \o new) \o r
  <2> DEFINE m == Editing!Min({a, Len(u)})
  <2>1. Editing!Splice(u, span) = (SubSeq(u, 1, m) \o new) \o SubSeq(u, b + 1, Len(u))
    BY DEF Editing!Splice, a, b, new
  <2> HIDE DEF m
  <2>2. m = a
    BY <1>5 DEF m
  <2> QED
    BY <1>6, <1>7, <2>1, <2>2, Zenon
<1>9. (f \o new) \o r = f \o (new \o r)
  <2>1. f \in Seq(X) /\ new \in Seq(X) /\ r \in Seq(X)
    BY <1>1, <1>2, <1>3
  <2> DEFINE fn == f \o new
             nr == new \o r
  <2>2. Joins(fn, f, new) /\ Joins(nr, new, r) /\ Joins(fn \o r, fn, r)
    BY DEF Joins
  <2> HIDE DEF fn, nr
  <2>3. Joins(fn \o r, f, nr)
    BY <2>1, <2>2, JoinsAssociate
  <2> QED
    BY <2>3 DEF Joins, fn, nr
<1>10. Ahead(text, onward, b) = u /\ Ahead(text, onward, a) = f \o (new \o r)
  BY <1>2 DEF Ahead, u, f, g, r
<1> QED
  BY <1>8, <1>9, <1>10 DEF a, b

\* The order in which overlaps are looked for.
Ascends(q, located) ==
    /\ q \in Seq(ToSet(located))
    /\ \A i, j \in 1..Len(q) : i < j =>
          \/ q[i].start < q[j].start
          \/ q[i].start = q[j].start /\ q[i].edit < q[j].edit
    /\ \A a \in ToSet(located) : \E k \in 1..Len(q) : q[k] = a

LEMMA ByStartIs ==
  ASSUME NEW located, IsLocated(located)
  PROVE  Ascends(Editing!ByStart(located), located)
<1> DEFINE S == ToSet(located)
           Before(a, b) == a.start < b.start \/ (a.start = b.start /\ a.edit < b.edit)
           below == [a \in S |-> {b \in S : Before(b, a)}]
           q == Editing!ByStart(located)
<1>1. /\ IsFiniteSet(S)
      /\ \A a \in S : a.edit \in Nat /\ a = located[a.edit] /\ a.start \in Nat
  BY SpansAre DEF IsLocated
<1>2. q = Editing!InOrder(S, below)
  <2>1. Editing!ToSet(located) = S
    BY SameEditingOperators
  <2> HIDE DEF S
  <2> QED
    BY <2>1 DEF Editing!ByStart
<1> HIDE DEF S, q
<1>3. IsOrder(below, S) /\ \A a, b \in S : a \in below[b] => Before(a, b)
  <2>1. \A a \in S : ~Before(a, a)
    BY <1>1
  <2>2. \A a, b, c \in S : Before(c, b) /\ Before(b, a) => Before(c, a)
    BY <1>1
  <2>3. \A a, b \in S : a # b => Before(a, b) \/ Before(b, a)
    <3> SUFFICES ASSUME NEW a \in S, NEW b \in S, a # b PROVE Before(a, b) \/ Before(b, a)
      OBVIOUS
    <3>1. a.edit # b.edit
      BY <1>1
    <3> QED
      BY <1>1, <3>1
  <2> HIDE DEF Before
  <2> QED
    BY <2>1, <2>2, <2>3 DEF IsOrder
<1> HIDE DEF Before, below
<1>4. /\ q \in Seq(S)
      /\ \A i, j \in 1..Len(q) : i < j => q[i] \in below[q[j]]
      /\ \A a \in S : \E k \in 1..Len(q) : q[k] = a
  BY <1>1, <1>2, <1>3, InOrderIs
<1>5. \A i \in 1..Len(q) : q[i] \in S
  BY <1>4
<1>6. \A i, j \in 1..Len(q) : i < j => Before(q[i], q[j])
  BY <1>3, <1>4, <1>5
<1> QED
  BY <1>4, <1>6 DEF S, q, Before, Ascends

\* Spans none of which reaches into the next are pairwise apart.
LEMMA NoOverlapIsApart ==
  ASSUME NEW located, IsLocated(located), ~Editing!Overlap(located),
         \A i \in 1..Len(located) :
             located[i].end \in Nat /\ located[i].start < located[i].end
  PROVE  \A i, j \in 1..Len(located) :
            i # j => located[i].end <= located[j].start \/ located[j].end <= located[i].start
<1> DEFINE q == Editing!ByStart(located)
<1>0. Ascends(q, located)
  BY ByStartIs
<1>2. \A i \in 1..(Len(q) - 1) : ~(q[i].end > q[i + 1].start)
  BY DEF Editing!Overlap
<1>3. \A i \in 1..Len(located) :
          /\ located[i] \in ToSet(located) /\ located[i].edit = i
          /\ located[i].start \in Nat /\ located[i].end \in Nat /\ located[i].start < located[i].end
  BY SpansAre DEF IsLocated
<1>4. \A a \in ToSet(located) :
          a.edit \in 1..Len(located) /\ a = located[a.edit] /\ a.start \in Nat /\ a.end \in Nat
  BY <1>3, SpansAre
<1> HIDE DEF q
<1>1. /\ q \in Seq(ToSet(located))
      /\ \A i, j \in 1..Len(q) : i < j => q[i].start < q[j].start \/ q[i].start = q[j].start
      /\ \A a \in ToSet(located) : \E k \in 1..Len(q) : q[k] = a
  BY <1>0 DEF Ascends
<1>5. Len(q) \in Nat /\ \A k \in 1..Len(q) : q[k].start \in Nat /\ q[k].end \in Nat
  <2>1. \A k \in 1..Len(q) : q[k] \in ToSet(located)
    BY <1>1
  <2> QED
    BY <1>1, <1>4, <2>1
<1>6. ASSUME NEW i \in 1..Len(q), NEW j \in 1..Len(q), i < j PROVE q[i].end <= q[j].start
  <2>1. i \in 1..(Len(q) - 1) /\ i + 1 \in 1..Len(q)
    BY <1>5, <1>6
  <2>2. q[i].end <= q[i + 1].start
    BY <1>2, <1>5, <2>1
  <2>3. CASE i + 1 = j
    BY <2>2, <2>3
  <2>4. CASE i + 1 # j
    <3>1. i + 1 < j
      BY <1>5, <1>6, <2>4
    <3>2. q[i + 1].start < q[j].start \/ q[i + 1].start = q[j].start
      BY <1>1, <2>1, <3>1
    <3> QED
      BY <1>5, <2>1, <2>2, <3>2
  <2> QED
    BY <2>3, <2>4
<1>7. ASSUME NEW i \in 1..Len(located), NEW j \in 1..Len(located), i # j
      PROVE  located[i].end <= located[j].start \/ located[j].end <= located[i].start
  <2>1. PICK k \in 1..Len(q) : q[k] = located[i]
    BY <1>1, <1>3
  <2>2. PICK m \in 1..Len(q) : q[m] = located[j]
    BY <1>1, <1>3
  <2>3. k # m
    BY <1>3, <1>7, <2>1, <2>2
  <2>4. k < m \/ m < k
    BY <1>5, <2>3
  <2> QED
    BY <1>6, <2>1, <2>2, <2>4
<1> QED
  BY <1>7

\* From the back, each span ends where those spliced before it do not reach.
LEMMA ReverseIsApart ==
  ASSUME NEW X, NEW text \in Seq(X), NEW located, AreApart(located, text, X)
  PROVE  LET q == Editing!InReverse(located)
         IN  /\ Len(q) \in Nat
             /\ \A k \in 1..Len(q) : /\ q[k].edit \in 1..Len(located) /\ q[k] = located[q[k].edit]
                                     /\ Fits(q[k], X) /\ q[k].start < q[k].end
                                     /\ q[k].end <= Len(text)
             /\ \A j, m \in 1..Len(q) : j < m => q[m].end <= q[j].start
             /\ \A i \in 1..Len(located) : \E k \in 1..Len(q) : q[k] = located[i]
<1> DEFINE q == Editing!InReverse(located)
<1>0. IsLocated(located)
  BY DEF AreApart
<1>1. Descends(q, located)
  BY <1>0, InReverseIs
<1>2. /\ \A a \in ToSet(located) : a.edit \in 1..Len(located) /\ a = located[a.edit]
      /\ \A i \in 1..Len(located) : located[i] \in ToSet(located)
  BY <1>0, SpansAre
<1>3. /\ \A i \in 1..Len(located) :
            Fits(located[i], X) /\ located[i].start < located[i].end /\ located[i].end <= Len(text)
      /\ \A i, j \in 1..Len(located) :
            i # j => located[i].end <= located[j].start \/ located[j].end <= located[i].start
  BY DEF AreApart
<1> HIDE DEF q
<1>4. Len(q) \in Nat /\ \A k \in 1..Len(q) : q[k] \in ToSet(located)
  BY <1>1 DEF Descends
<1>5. ASSUME NEW k \in 1..Len(q)
      PROVE  /\ q[k].edit \in 1..Len(located) /\ q[k] = located[q[k].edit]
             /\ Fits(q[k], X) /\ q[k].start < q[k].end /\ q[k].end <= Len(text)
  <2> DEFINE e == q[k].edit
  <2>1. e \in 1..Len(located) /\ q[k] = located[e]
    BY <1>2, <1>4
  <2> HIDE DEF e
  <2>2. Fits(q[k], X) /\ q[k].start < q[k].end /\ q[k].end <= Len(text)
    BY <1>3, <2>1
  <2> QED
    BY <2>1, <2>2 DEF e
<1>6. ASSUME NEW j \in 1..Len(q), NEW m \in 1..Len(q), j < m PROVE q[m].end <= q[j].start
  <2> DEFINE a == q[m]
             b == q[j]
  <2>1. /\ a.start \in Nat /\ a.end \in Nat /\ a.start < a.end
        /\ b.start \in Nat /\ b.end \in Nat /\ b.start < b.end
    BY <1>5 DEF Fits
  <2>2. b.start > a.start \/ (b.start = a.start /\ b.edit < a.edit)
    BY <1>1, <1>6 DEF Descends
  <2>3. /\ a.edit \in 1..Len(located) /\ a = located[a.edit]
        /\ b.edit \in 1..Len(located) /\ b = located[b.edit]
    BY <1>5
  <2> HIDE DEF a, b
  <2>4. a.edit # b.edit
    BY <2>1, <2>2, <2>3
  <2>5. a.end <= b.start \/ b.end <= a.start
    BY <1>3, <2>3, <2>4
  <2>6. a.end <= b.start
    BY <2>1, <2>2, <2>5
  <2> QED
    BY <2>6 DEF a, b
<1>7. \A i \in 1..Len(located) : \E k \in 1..Len(q) : q[k] = located[i]
  BY <1>1, <1>2 DEF Descends
<1> QED
  BY <1>4, <1>5, <1>6, <1>7 DEF q

\* Splices from the back give what all replacements give when they are made at
\* once.
LEMMA SplicesAtOnce ==
  ASSUME NEW X, NEW text \in Seq(X), NEW located, AreApart(located, text, X)
  PROVE  Editing!SpliceTextSpans(text, located) = FlattenSeq(Pieces(text, located))
<1> DEFINE q == Editing!InReverse(located)
           n == Len(q)
           L == Len(text)
           p == Pieces(text, located)
           High(m) == IF m = 0 THEN L ELSE q[m].start
           Low(m) == IF m = n THEN 0 ELSE q[m + 1].end
           r == Splicing(text, q)
<1>1. /\ n \in Nat
      /\ \A k \in 1..n : /\ q[k].edit \in 1..Len(located) /\ q[k] = located[q[k].edit]
                         /\ Fits(q[k], X) /\ q[k].start < q[k].end /\ q[k].end <= L
      /\ \A j, m \in 1..n : j < m => q[m].end <= q[j].start
      /\ \A i \in 1..Len(located) : \E k \in 1..n : q[k] = located[i]
  BY ReverseIsApart
<1>2. ArePieces(p, text, located, X)
  BY PiecesAre
<1>3. Len(q) \in Nat /\ \A k \in 1..Len(q) : Fits(q[k], X)
  BY <1>1
<1> HIDE DEF q
<1>4. /\ Splices(r, text, q, X) /\ Editing!Spliced(text, q) = r[n]
  BY <1>3, SplicingIs
<1>5. L \in Nat /\ \A k \in 1..n : q[k].start \in Nat /\ q[k].end \in Nat
  BY <1>1 DEF Fits
<1> HIDE DEF p, r, n, L
<1>5a. p \in Seq(Seq(X)) /\ Len(p) = L + 1 /\ Len(p) = Len(text) + 1 /\ p[L + 1] = <<>>
  BY <1>2 DEF ArePieces, L
<1>6. PICK onward : Onwards(onward, p, X)
  BY <1>5a, OnwardsExist
<1>7. ASSUME NEW m \in 0..n PROVE Low(m) \in 0..L /\ High(m) \in Low(m)..L
  <2>1. m # 0 => m \in 1..n
    BY <1>1
  <2>2. m # n => m + 1 \in 1..n
    BY <1>1
  <2>3. m # 0 /\ m # n => q[m + 1].end <= q[m].start
    <3>1. m < m + 1
      BY <1>1
    <3> QED
      BY <1>1, <2>1, <2>2, <3>1
  <2>4. ASSUME m # 0 PROVE q[m].start \in 0..L
    <3>1. q[m].start < q[m].end /\ q[m].end <= L /\ q[m].start \in Nat /\ q[m].end \in Nat
      BY <1>1, <1>5, <2>1, <2>4
    <3> QED
      BY <1>5, <3>1
  <2>5. m # n => q[m + 1].end \in 0..L
    BY <1>1, <1>5, <2>2
  <2> QED
    BY <1>5, <2>3, <2>4, <2>5
<1>8. ASSUME NEW m \in 0..n, NEW c \in Low(m)..(High(m) - 1) PROVE p[c + 1] = <<text[c + 1]>>
  <2>1. c \in 0..(L - 1) /\ c \in Int /\ Low(m) <= c /\ c < High(m)
    BY <1>5, <1>7
  <2>2. ASSUME NEW k \in 1..n PROVE c \notin q[k].start..(q[k].end - 1)
    <3>0. q[k].start \in Nat /\ q[k].end \in Nat
      BY <1>5
    <3>1. CASE k <= m
      <4>1. m \in 1..n /\ High(m) = q[m].start
        BY <1>1, <3>1
      <4>2. q[m].start <= q[k].start
        <5>1. CASE k = m
          BY <3>0, <5>1
        <5>2. CASE k < m
          <6>1. q[m].end <= q[k].start /\ q[m].start < q[m].end
            BY <1>1, <4>1, <5>2
          <6> QED
            BY <1>5, <3>0, <4>1, <6>1
        <5> QED
          BY <1>1, <3>1, <5>1, <5>2
      <4> QED
        BY <1>5, <2>1, <3>0, <4>1, <4>2
    <3>2. CASE k > m
      <4>1. m + 1 \in 1..n /\ Low(m) = q[m + 1].end
        BY <1>1, <3>2
      <4>2. q[k].end <= q[m + 1].end
        <5>1. CASE k = m + 1
          BY <3>0, <5>1
        <5>2. CASE k > m + 1
          <6>1. q[k].end <= q[m + 1].start /\ q[m + 1].start < q[m + 1].end
            BY <1>1, <4>1, <5>2
          <6> QED
            BY <1>5, <3>0, <4>1, <6>1
        <5> QED
          BY <1>1, <3>2, <5>1, <5>2
      <4> QED
        BY <1>5, <2>1, <3>0, <4>1, <4>2
    <3> QED
      BY <1>1, <3>1, <3>2
  <2>3. ASSUME NEW i \in 1..Len(located)
        PROVE  c \notin located[i].start..(located[i].end - 1)
    <3>1. PICK k \in 1..n : q[k] = located[i]
      BY <1>1
    <3> QED
      BY <2>2, <3>1
  <2> QED
    BY <1>2, <2>1, <2>3 DEF ArePieces, L
<1>9. ASSUME NEW m \in 0..n PROVE Ahead(text, onward, High(m)) = Ahead(text, onward, Low(m))
  <2> DEFINE a == Low(m)
             b == High(m)
  <2>1. a \in 0..Len(text) /\ b \in a..Len(text)
    BY <1>7 DEF L
  <2>2. KeptBetween(p, text, a, b)
    BY <1>8 DEF KeptBetween
  <2> HIDE DEF a, b
  <2>3. Ahead(text, onward, a) = Ahead(text, onward, b)
    BY <1>6, <1>5a, <2>1, <2>2, AheadOfKept
  <2> QED
    BY <2>3 DEF a, b
<1>10. ASSUME NEW k \in 1..n
       PROVE  Editing!Splice(Ahead(text, onward, q[k].end), q[k]) = Ahead(text, onward, q[k].start)
  <2> DEFINE span == q[k]
             e == q[k].edit
  <2>1. e \in 1..Len(located) /\ span = located[e]
    BY <1>1
  <2>2. Fits(span, X) /\ span.start < span.end /\ span.end <= Len(text)
    BY <1>1 DEF L
  <2> HIDE DEF span, e
  <2>3. Replaces(p, span)
    BY <1>2, <2>1 DEF ArePieces
  <2>4. Editing!Splice(Ahead(text, onward, span.end), span) = Ahead(text, onward, span.start)
    BY <1>6, <1>5a, <2>2, <2>3, SpliceGoesOn
  <2> QED
    BY <2>4 DEF span
<1> DEFINE S == {m \in 0..n : r[m] = Ahead(text, onward, High(m))}
<1>11. 0 \in S
  <2>1. SubSeq(text, 1, L) = text
    BY SubSeqFull DEF L
  <2>2. onward[L] = <<>>
    <3>1. L \in 0..(Len(p) - 1) /\ L + 1 = Len(p)
      BY <1>5, <1>5a
    <3>2. Joins(onward[L], p[L + 1], onward[L + 1]) /\ onward[L + 1] = <<>>
      BY <1>6, <3>1 DEF Onwards
    <3>3. onward[L] = <<>> \o <<>>
      BY <1>5a, <3>2 DEF Joins
    <3> QED
      BY <3>3
  <2>3. text \o <<>> = text
    BY ConcatEmptySeq
  <2>4. Ahead(text, onward, L) = text
    BY <2>1, <2>2, <2>3 DEF Ahead
  <2>5. r[0] = text
    BY <1>4 DEF Splices
  <2> QED
    BY <1>1, <2>4, <2>5
<1>12. ASSUME NEW m \in 0..n, m < n, m \in S PROVE m + 1 \in S
  <2>1. m + 1 \in 1..n /\ (m + 1) - 1 = m /\ m + 1 \in 0..n /\ m + 1 # 0 /\ m # n
    BY <1>1, <1>12
  <2>2. r[m + 1] = Editing!Splice(r[m], q[m + 1])
    BY <1>4, <2>1 DEF Splices, n
  <2>3. r[m] = Ahead(text, onward, q[m + 1].end)
    BY <1>9, <1>12, <2>1
  <2>4. r[m + 1] = Ahead(text, onward, q[m + 1].start)
    BY <1>10, <2>1, <2>2, <2>3
  <2> QED
    BY <2>1, <2>4
<1> HIDE DEF S
<1>13. n \in S
  <2>1. \A m \in 0..n : m \in S
    BY <1>1, <1>11, <1>12, UpTo
  <2> QED
    BY <1>1, <2>1
<1>14. r[n] = onward[0]
  <2>1. r[n] = Ahead(text, onward, Low(n))
    BY <1>1, <1>9, <1>13 DEF S
  <2>2. SubSeq(text, 1, 0) = <<>>
    BY SubSeqEmpty
  <2>3. onward[0] \in Seq(X)
    BY <1>6 DEF Onwards
  <2>4. <<>> \o onward[0] = onward[0]
    BY <2>3, ConcatEmptySeq
  <2> QED
    BY <2>1, <2>2, <2>4 DEF Ahead
<1>15. FlattenSeq(p) = onward[0]
  BY <1>6, <1>5a, FlattenOnward
<1> QED
  BY <1>4, <1>14, <1>15 DEF Editing!SpliceTextSpans, p, q

\* A text that does not end in CR, with a character more or with CR and LF, is
\* in LF with one character more.
EndsOpen(text) == Len(text) > 0 /\ text[Len(text)] = Editing!CR

LEMMA NormalizeExtends ==
  ASSUME NEW X, Editing!LF \in X, NEW u \in Seq(X), ~EndsOpen(u), NEW w \in Seq(X),
         NEW v, Joins(v, u, w), NEW c \in X, c # Editing!CR,
         \/ Len(w) = 1 /\ w[1] = c
         \/ Len(w) = 2 /\ w[1] = Editing!CR /\ w[2] = Editing!LF /\ c = Editing!LF
  PROVE  /\ v \in Seq(X) /\ ~EndsOpen(v)
         /\ Extends(Editing!NormalizeToLf(v), Editing!NormalizeToLf(u), c)
<1> DEFINE n == Len(u)
           Y == X \ {Editing!CR}
           V == Seq(Y)
           p == LfPieces(u)
           q == LfPieces(v)
<1>1. /\ v \in Seq(X) /\ Len(v) = n + Len(w) /\ n \in Nat /\ Len(w) \in Nat
      /\ \A i \in 1..n : v[i] = u[i]
      /\ \A i \in 1..Len(w) : v[n + i] = w[i]
  BY ConcatProperties DEF Joins
<1>2. /\ p \in Seq(V) /\ Len(p) = n /\ Editing!NormalizeToLf(u) = FlattenSeq(p)
      /\ q \in Seq(V) /\ Len(q) = Len(v) /\ Editing!NormalizeToLf(v) = FlattenSeq(q)
  BY <1>1, LfPiecesType
<1>3. DOMAIN u = 1..n /\ DOMAIN v = 1..Len(v)
  BY <1>1
<1>4. ASSUME NEW i \in 1..n PROVE q[i] = p[i]
  <2>1. i \in DOMAIN u /\ i \in DOMAIN v /\ v[i] = u[i]
    BY <1>1, <1>3
  <2>2. CASE u[i] # Editing!CR
    BY <2>1, <2>2 DEF LfPieces
  <2>3. CASE u[i] = Editing!CR
    <3>1. i < n /\ i < Len(v) /\ i + 1 \in 1..n
      BY <1>1, <2>3 DEF EndsOpen
    <3>2. v[i + 1] = u[i + 1] /\ i < Len(u)
      BY <1>1, <3>1
    <3>3. CASE u[i + 1] = Editing!LF
      BY <2>1, <2>3, <3>1, <3>2, <3>3 DEF LfPieces
    <3>4. CASE u[i + 1] # Editing!LF
      BY <2>1, <2>3, <3>1, <3>2, <3>4 DEF LfPieces
    <3> QED
      BY <3>3, <3>4
  <2> QED
    BY <2>2, <2>3
<1> HIDE DEF n
<1>5. c \in Y /\ <<c>> \in V /\ <<>> \in V
  OBVIOUS
<1>6. FlattenSeq(p) \in Seq(Y)
  BY <1>2, FlattenType
<1>7. FlattenSeq(p) \o <<c>> = Append(FlattenSeq(p), c)
  BY <1>5, <1>6, AppendIsConcat
<1>8. CASE Len(w) = 1 /\ w[1] = c
  <2>1. Len(v) = n + 1 /\ v[n + 1] = c /\ n + 1 \in DOMAIN v /\ n + 1 \in 1..Len(v)
    BY <1>1, <1>3, <1>8
  <2>2. q[n + 1] = <<c>>
    BY <2>1 DEF LfPieces
  <2> DEFINE one == <<c>>
             a == Append(p, one)
  <2>3. q = a
    <3> HIDE DEF p, q, V, one
    <3>1. one \in V /\ q[n + 1] = one
      BY <1>5, <2>2 DEF one
    <3>2. a \in Seq(V) /\ Len(a) = n + 1 /\ a[n + 1] = one /\ \A i \in 1..n : a[i] = p[i]
      BY <1>2, <3>1, AppendProperties
    <3> HIDE DEF a
    <3>3. \A i \in 1..(n + 1) : i \in 1..n \/ i = n + 1
      BY <1>1
    <3>4. \A i \in 1..Len(q) : q[i] = a[i]
      BY <1>2, <1>4, <2>1, <3>1, <3>2, <3>3
    <3> QED
      BY <1>2, <2>1, <3>2, <3>4, SeqEqual
  <2>4. FlattenSeq(a) = FlattenSeq(p) \o <<c>>
    BY <1>2, <1>5, FlattenAppend
  <2>5. ~EndsOpen(v)
    BY <2>1 DEF EndsOpen
  <2> QED
    BY <1>1, <1>2, <1>7, <2>3, <2>4, <2>5 DEF Extends
<1>9. CASE Len(w) = 2 /\ w[1] = Editing!CR /\ w[2] = Editing!LF /\ c = Editing!LF
  <2>1. /\ Len(v) = n + 2 /\ v[n + 1] = Editing!CR /\ v[n + 2] = Editing!LF
        /\ n + 1 \in DOMAIN v /\ n + 2 \in DOMAIN v
    BY <1>1, <1>3, <1>9
  <2>2. q[n + 1] = <<>>
    <3>1. n + 1 < Len(v) /\ v[(n + 1) + 1] = Editing!LF
      BY <1>1, <2>1
    <3> QED
      BY <2>1, <3>1 DEF LfPieces
  <2>3. q[n + 2] = <<c>>
    BY <1>9, <2>1 DEF LfPieces
  <2> DEFINE one == <<c>>
             b == Append(p, <<>>)
             a == Append(b, one)
  <2>4. b \in Seq(V) /\ one \in V
    BY <1>2, <1>5, AppendProperties
  <2>5. q = a
    <3> HIDE DEF p, q, V, one
    <3>1. Len(b) = n + 1 /\ b[n + 1] = <<>> /\ \A i \in 1..n : b[i] = p[i]
      BY <1>2, <1>5, AppendProperties
    <3> HIDE DEF b
    <3>2. /\ a \in Seq(V) /\ Len(a) = (n + 1) + 1 /\ a[(n + 1) + 1] = one
          /\ \A i \in 1..(n + 1) : a[i] = b[i]
      BY <2>4, <3>1, AppendProperties
    <3> HIDE DEF a
    <3>3. (n + 1) + 1 = n + 2 /\ n + 1 \in 1..(n + 1) /\ q[n + 2] = one
      BY <1>1, <2>3 DEF one
    <3>4. \A i \in 1..(n + 2) : (i \in 1..n /\ i \in 1..(n + 1)) \/ i = n + 1 \/ i = n + 2
      BY <1>1
    <3>5. Len(q) = n + 2
      BY <1>2, <2>1
    <3>6. \A i \in 1..(n + 2) : q[i] = a[i]
      BY <1>4, <2>2, <3>1, <3>2, <3>3, <3>4
    <3> QED
      BY <1>2, <3>2, <3>3, <3>5, <3>6, SeqEqual
  <2>6. FlattenSeq(b) = FlattenSeq(p) \o <<>>
    BY <1>2, <1>5, FlattenAppend
  <2>7. FlattenSeq(p) \o <<>> = FlattenSeq(p)
    BY <1>6, ConcatEmptySeq
  <2>8. FlattenSeq(a) = FlattenSeq(b) \o one
    <3> HIDE DEF b, one
    <3> QED
      BY <2>4, FlattenAppend
  <2>9. ~EndsOpen(v)
    BY <2>1, Marks DEF EndsOpen
  <2> QED
    BY <1>1, <1>2, <1>7, <2>5, <2>6, <2>7, <2>8, <2>9 DEF Extends
<1> QED
  BY <1>8, <1>9

\* Loading again what was written gives the text back.
LEMMA NormalizeRestores ==
  ASSUME NEW X, Editing!LF \in X, Editing!CR \notin X, NEW text \in Seq(X),
         NEW ending \in {<<Editing!LF>>, <<Editing!CR, Editing!LF>>}
  PROVE  Editing!NormalizeToLf(Editing!RestoreLineEndings(text, ending)) = text
<1> DEFINE Y == X \cup {Editing!CR}
           Restore(t) == Editing!RestoreLineEndings(t, ending)
           S == {t \in Seq(X) : Restore(t) \in Seq(Y) /\ ~EndsOpen(Restore(t))
                                /\ Editing!NormalizeToLf(Restore(t)) = t}
<1>1. /\ ending \in Seq(Y)
      /\ \/ Len(ending) = 1 /\ ending[1] = Editing!LF
         \/ Len(ending) = 2 /\ ending[1] = Editing!CR /\ ending[2] = Editing!LF
  <2>1. /\ <<Editing!LF>> \in Seq(Y) /\ Len(<<Editing!LF>>) = 1 /\ <<Editing!LF>>[1] = Editing!LF
    OBVIOUS
  <2> DEFINE crlf == <<Editing!CR, Editing!LF>>
  <2>2. crlf \in Seq(Y) /\ Len(crlf) = 2 /\ crlf[1] = Editing!CR /\ crlf[2] = Editing!LF
    OBVIOUS
  <2> HIDE DEF crlf
  <2>3. CASE ending = <<Editing!LF>>
    BY <2>1, <2>3
  <2>4. CASE ending = crlf
    BY <2>2, <2>4
  <2> QED
    BY <2>3, <2>4 DEF crlf
<1>2. Seq(X) \subseteq Seq(Y)
  BY SeqsOfMore
<1>3. Editing!LF \in Y /\ <<>> \in Seq(X) /\ <<>> \in Seq(Y)
  OBVIOUS
<1>4. <<>> \in S
  <2>1. Extends(Append(<<>>, Editing!LF), <<>>, Editing!LF)
    BY DEF Extends
  <2>2. Restore(<<>>) = <<>>
    BY <1>1, <1>3, <2>1, RestoreExtends
  <2>3. Editing!NormalizeToLf(<<>>) = <<>>
    <3>1. LfPieces(<<>>) = <<>>
      BY DEF LfPieces
    <3> QED
      BY <1>3, <3>1, LfPiecesType, FlattenEmpty
  <2>4. ~EndsOpen(<<>>)
    BY DEF EndsOpen
  <2> QED
    BY <1>3, <2>2, <2>3, <2>4
<1>5. ASSUME NEW t \in Seq(X), NEW x \in X, t \in S PROVE Append(t, x) \in S
  <2> DEFINE s == Append(t, x)
             u == Restore(t)
             v == Restore(s)
             w == RestoredChar(x, ending)
  <2>1. s \in Seq(X) /\ Extends(s, t, x) /\ t \in Seq(Y) /\ x \in Y /\ x # Editing!CR
    BY <1>2, AppendProperties DEF Extends
  <2>2. w \in Seq(Y) /\ (\/ Len(w) = 1 /\ w[1] = x
                         \/ Len(w) = 2 /\ w[1] = Editing!CR /\ w[2] = Editing!LF /\ x = Editing!LF)
    <3>1. CASE x = Editing!LF
      BY <1>1, <3>1 DEF RestoredChar
    <3>2. CASE x # Editing!LF
      <4>1. w = <<x>>
        BY <3>2 DEF RestoredChar
      <4>2. <<x>> \in Seq(Y) /\ Len(<<x>>) = 1 /\ <<x>>[1] = x
        BY <2>1
      <4> QED
        BY <4>1, <4>2
    <3> QED
      BY <3>1, <3>2
  <2> HIDE DEF s, w, Y
  <2>3. Joins(v, u, w)
    BY <1>1, <2>1, RestoreExtends DEF w
  <2>4. u \in Seq(Y) /\ ~EndsOpen(u) /\ Editing!NormalizeToLf(u) = t
    BY <1>5
  <2> HIDE DEF u, v
  <2>5. /\ v \in Seq(Y) /\ ~EndsOpen(v)
        /\ Extends(Editing!NormalizeToLf(v), Editing!NormalizeToLf(u), x)
    BY <1>3, <2>1, <2>2, <2>3, <2>4, NormalizeExtends
  <2>6. Editing!NormalizeToLf(v) = s
    BY <2>1, <2>4, <2>5 DEF Extends
  <2> QED
    BY <2>1, <2>5, <2>6 DEF s, v
<1> HIDE DEF S
<1>6. \A t \in Seq(X) : t \in S
  BY <1>4, <1>5, SequenceInduction
<1> QED
  BY <1>6 DEF S

-----------------------------------------------------------------------------
(* edit: what a fuzzy match disregards.                                    *)

\* The greatest of some numbers.
LEMMA GreatestUpTo ==
  ASSUME NEW n \in Nat, NEW S, S \subseteq 1..n, S # {}
  PROVE  Editing!Max(S) \in S /\ \A y \in S : y <= Editing!Max(S)
<1> DEFINE T == {n - x : x \in S}
<1>1. PICK a \in S : TRUE
  OBVIOUS
<1>2. n - a \in T /\ n - a \in Nat
  OBVIOUS
<1>3. \A y \in S : n - y \in T /\ y \in 1..n
  OBVIOUS
<1>4. \A t \in T : \E x \in S : t = n - x
  OBVIOUS
<1> HIDE DEF T
<1>5. PICK k \in 0..(n - a) : k \in T /\ \A m \in 0..(k - 1) : m \notin T
  BY <1>2, LeastUpTo
<1>6. PICK x \in S : k = n - x
  BY <1>4, <1>5
<1>7. ASSUME NEW y \in S PROVE x >= y
  <2>1. n - y \in T /\ n - y \in Nat /\ y \in Int /\ x \in Int
    BY <1>3
  <2>2. n - y \notin 0..(k - 1)
    BY <1>5, <2>1
  <2> QED
    BY <1>5, <1>6, <2>1, <2>2
<1>8. \E z \in S : \A y \in S : z >= y
  BY <1>7
<1>9. Editing!Max(S) \in S /\ \A y \in S : Editing!Max(S) >= y
  BY <1>8 DEF Editing!Max
<1> QED
  BY <1>3, <1>9

\* A line up to its last character that is not white, typography folded.
Ink(line) == {i \in DOMAIN line : line[i] \notin {Editing!Space, Editing!LF}}
InkEnd(line) == IF Ink(line) = {} THEN 0 ELSE Editing!Max(Ink(line))
FoldedChar(c) == IF c = Editing!SmartQuote THEN Editing!Quote ELSE c
Inked(line) == [i \in 1..InkEnd(line) |-> FoldedChar(line[i])]

\* It does not end in LF.
LEMMA InkedIs ==
  ASSUME NEW X, NEW line \in Seq(X)
  PROVE  /\ InkEnd(line) \in 0..Len(line)
         /\ \A i \in 1..Len(line) : i > InkEnd(line) => line[i] \in {Editing!Space, Editing!LF}
         /\ Inked(line) \in Seq(X \cup {Editing!Quote}) /\ Len(Inked(line)) = InkEnd(line)
         /\ InkEnd(line) > 0 => Inked(line)[InkEnd(line)] # Editing!LF
<1> DEFINE n == Len(line)
           e == InkEnd(line)
           S == Ink(line)
<1>1. n \in Nat /\ DOMAIN line = 1..n /\ S \subseteq 1..n /\ \A i \in 1..n : line[i] \in X
  BY DEF Ink
<1>2. \A i \in 1..n : i \notin S => line[i] \in {Editing!Space, Editing!LF}
  BY DEF Ink
<1>3. \A i \in S : line[i] # Editing!LF
  BY DEF Ink
<1>4. e = IF S = {} THEN 0 ELSE Editing!Max(S)
  BY DEF InkEnd
<1> HIDE DEF S, e, n
<1>5. e \in 0..n /\ (\A y \in S : y <= e) /\ (e > 0 => e \in S)
  <2>1. CASE S = {}
    BY <1>1, <1>4, <2>1
  <2>2. CASE S # {}
    <3>1. Editing!Max(S) \in S /\ \A y \in S : y <= Editing!Max(S)
      BY <1>1, <2>2, GreatestUpTo
    <3> QED
      BY <1>1, <1>4, <2>2, <3>1
  <2> QED
    BY <2>1, <2>2
<1>6. \A i \in 1..n : i > e => line[i] \in {Editing!Space, Editing!LF}
  <2> SUFFICES ASSUME NEW i \in 1..n, i > e PROVE i \notin S
    BY <1>2
  <2> QED
    BY <1>1, <1>5
<1>7. \A i \in 1..e : FoldedChar(line[i]) \in X \cup {Editing!Quote}
  BY <1>1, <1>5 DEF FoldedChar
<1>8. Inked(line) = [i \in 1..e |-> FoldedChar(line[i])]
  BY DEF Inked, e
<1>9. Inked(line) \in Seq(X \cup {Editing!Quote}) /\ Len(Inked(line)) = e
  BY <1>1, <1>5, <1>7, <1>8
<1>10. ASSUME e > 0 PROVE Inked(line)[e] # Editing!LF
  <2>1. e \in 1..e /\ line[e] # Editing!LF
    BY <1>1, <1>3, <1>5, <1>10
  <2>2. Inked(line)[e] = FoldedChar(line[e])
    BY <1>8, <2>1
  <2>3. Editing!Quote # Editing!LF
    BY DEF Editing!Quote, Editing!LF
  <2> QED
    BY <2>1, <2>2, <2>3 DEF FoldedChar
<1> QED
  BY <1>5, <1>6, <1>9, <1>10 DEF e, n

\* A normalized line is that, with a newline if the line has one.
LEMMA NormalizedLineIs ==
  ASSUME NEW X, NEW line \in Seq(X)
  PROVE  Joins(Editing!NormalizeForFuzzyMatch(line), Inked(line),
               IF line[Len(line)] = Editing!LF THEN <<Editing!LF>> ELSE <<>>)
<1> DEFINE e == InkEnd(line)
           head == SubSeq(line, 1, e)
           folded == [i \in DOMAIN head |->
                         IF head[i] = Editing!SmartQuote THEN Editing!Quote ELSE head[i]]
<1>1. e \in 0..Len(line)
  BY InkedIs
<1>2. Editing!NormalizeForFuzzyMatch(line)
         = folded \o IF line[Len(line)] = Editing!LF THEN <<Editing!LF>> ELSE <<>>
  BY DEF Editing!NormalizeForFuzzyMatch, Editing!EndsWithNewline, Editing!Last, InkEnd, Ink
<1>3. folded = Inked(line)
  <2>1. head \in Seq(X) /\ Len(head) = e /\ \A i \in 1..e : head[i] = line[i]
    BY <1>1, FirstLines
  <2> HIDE DEF head
  <2>2. DOMAIN head = 1..e
    BY <2>1
  <2> HIDE DEF e
  <2> QED
    BY <2>1, <2>2 DEF Inked, FoldedChar, e
<1> HIDE DEF folded
<1> QED
  BY <1>2, <1>3 DEF Joins

\* It ends with a newline exactly if the line does.
LEMMA NormalizedLineEnds ==
  ASSUME NEW X, NEW line \in Seq(X)
  PROVE  LET new == Editing!NormalizeForFuzzyMatch(line)
             Y == X \cup {Editing!Quote, Editing!LF}
         IN  /\ new \in Seq(Y) /\ Inked(line) \in Seq(Y)
             /\ line[Len(line)] = Editing!LF => Extends(new, Inked(line), Editing!LF)
             /\ line[Len(line)] # Editing!LF => new = Inked(line)
             /\ Len(Inked(line)) > 0 => Inked(line)[Len(Inked(line))] # Editing!LF
<1> DEFINE new == Editing!NormalizeForFuzzyMatch(line)
           Y == X \cup {Editing!Quote, Editing!LF}
           ink == Inked(line)
           lf == <<Editing!LF>>
<1>1. ink \in Seq(X \cup {Editing!Quote}) /\ (Len(ink) > 0 => ink[Len(ink)] # Editing!LF)
  <2>1. /\ Inked(line) \in Seq(X \cup {Editing!Quote}) /\ Len(Inked(line)) = InkEnd(line)
        /\ InkEnd(line) > 0 => Inked(line)[InkEnd(line)] # Editing!LF
    BY InkedIs
  <2> QED
    BY <2>1
<1>2. Joins(new, ink, IF line[Len(line)] = Editing!LF THEN lf ELSE <<>>)
  BY NormalizedLineIs
<1>3. ink \in Seq(Y)
  <2>1. Seq(X \cup {Editing!Quote}) \subseteq Seq((X \cup {Editing!Quote}) \cup {Editing!LF})
    BY SeqsOfMore
  <2>2. (X \cup {Editing!Quote}) \cup {Editing!LF} = Y
    OBVIOUS
  <2> HIDE DEF ink, Y
  <2> QED
    BY <1>1, <2>1, <2>2
<1>4. Editing!LF \in Y
  OBVIOUS
<1> HIDE DEF new, ink, Y
<1>5. ink \o lf = Append(ink, Editing!LF) /\ Append(ink, Editing!LF) \in Seq(Y)
  BY <1>3, <1>4, AppendIsConcat, AppendProperties
<1>6. ink \o <<>> = ink
  BY <1>3, ConcatEmptySeq
<1>7. CASE line[Len(line)] = Editing!LF
  <2>1. Joins(new, ink, lf)
    BY <1>2, <1>7
  <2> HIDE DEF lf
  <2> QED
    BY <1>1, <1>3, <1>5, <1>7, <2>1 DEF Joins, Extends, new, ink, Y
<1>8. CASE line[Len(line)] # Editing!LF
  <2>1. Joins(new, ink, <<>>)
    BY <1>2, <1>8
  <2> QED
    BY <1>1, <1>3, <1>6, <1>8, <2>1 DEF Joins, new, ink, Y
<1> QED
  BY <1>7, <1>8

\* A newline at the end makes no difference to the rest.
LEMMA InkedWithout ==
  ASSUME NEW X, NEW line \in Seq(X), NEW rest \in Seq(X), Len(line) = Len(rest) + 1,
         \A i \in 1..Len(rest) : rest[i] = line[i], line[Len(line)] = Editing!LF
  PROVE  Inked(rest) = Inked(line)
<1>1. Ink(rest) = Ink(line)
  <2>1. /\ DOMAIN rest = 1..Len(rest) /\ DOMAIN line = 1..(Len(rest) + 1) /\ Len(rest) \in Nat
    OBVIOUS
  <2>2. \A i \in 1..(Len(rest) + 1) : i \in 1..Len(rest) \/ i = Len(line)
    BY <2>1
  <2>3. \A i \in 1..Len(rest) : i \in 1..(Len(rest) + 1)
    BY <2>1
  <2> QED
    BY <2>1, <2>2, <2>3 DEF Ink
<1>2. InkEnd(rest) = InkEnd(line)
  BY <1>1 DEF InkEnd
<1>3. InkEnd(rest) \in 0..Len(rest)
  BY InkedIs
<1>4. \A i \in 1..InkEnd(rest) : rest[i] = line[i]
  BY <1>3
<1> QED
  BY <1>2, <1>4 DEF Inked

\* A text's offsets are the increasing enumeration of its line starts.
LEMMA OffsetsIncrease ==
  ASSUME NEW X, NEW text \in Seq(X)
  PROVE  /\ Editing!LineStartOffsets(text) \in Seq(Nat)
         /\ Increases(Editing!LineStartOffsets(text), LineStarts(text))
<1> DEFINE o == Editing!LineStartOffsets(text)
           S == LineStarts(text)
<1>1. /\ o \in Seq(S)
      /\ \A i, j \in 1..Len(o) : i < j => o[i] < o[j]
      /\ \A a \in S : \E k \in 1..Len(o) : o[k] = a
  BY OffsetsAre
<1>2. S \subseteq Nat
  BY DEF LineStarts
<1> HIDE DEF o, S
<1>3. Len(o) \in Nat /\ \A k \in 1..Len(o) : o[k] \in S
  BY <1>1
<1>4. \A k \in 1..Len(o) : o[k] \in Nat
  BY <1>2, <1>3
<1>5. o \in Seq(Nat)
  BY <1>1, <1>2, SeqsOfMore
<1>6. Increases(o, S)
  BY <1>1, <1>3, <1>4 DEF Increases
<1> QED
  BY <1>5, <1>6 DEF o, S

\* Line starts of a text one after another: all that stand before a place.
AreStarts(text, at, stop) ==
    /\ Len(at) \in Nat /\ Len(at) > 0
    /\ \A k \in 1..Len(at) : at[k] \in Nat /\ at[1] <= at[k] /\ at[k] < stop
                             /\ at[k] \in LineStarts(text)
    /\ \A i, j \in 1..Len(at) : i < j => at[i] < at[j]
    /\ \A a \in LineStarts(text) : at[1] <= a /\ a < stop => \E k \in 1..Len(at) : at[k] = a

\* A part of a text from a place on, and numbers counted from there.
IsPart(part, text, f, stop) == /\ Len(part) = stop - f
                               /\ \A j \in 1..Len(part) : part[j] = text[f + j]
Shifted(e, at, f) == Len(e) = Len(at) /\ \A k \in 1..Len(at) : e[k] = at[k] - f
IsRun(at, o, base, m) == Len(at) = m /\ \A k \in 1..m : at[k] = o[base + k]

\* They are the line starts of the part of the text they lie in.
LEMMA PartStarts ==
  ASSUME NEW X, NEW text \in Seq(X), NEW f \in Nat, NEW at, at[1] = f, NEW stop \in Nat,
         AreStarts(text, at, stop), stop <= Len(text), NEW part \in Seq(X),
         IsPart(part, text, f, stop), NEW e, Shifted(e, at, f)
  PROVE  Increases(e, LineStarts(part))
<1> DEFINE m == Len(at)
<1>1. /\ m \in Nat /\ m > 0 /\ Len(e) = m /\ at[1] = f
      /\ \A k \in 1..m : at[k] \in Nat /\ f <= at[k] /\ at[k] < stop /\ at[k] \in LineStarts(text)
      /\ \A i, j \in 1..m : i < j => at[i] < at[j]
      /\ \A a \in LineStarts(text) : f <= a /\ a < stop => \E k \in 1..m : at[k] = a
      /\ \A k \in 1..m : e[k] = at[k] - f
  BY DEF AreStarts, Shifted
<1> HIDE DEF m
<1>2. f < stop /\ f \in LineStarts(text) /\ Len(text) \in Nat
  <2>1. 1 \in 1..m
    BY <1>1
  <2> QED
    BY <1>1, <2>1
<1>0. Len(part) = stop - f /\ \A j \in 1..Len(part) : part[j] = text[f + j]
  BY DEF IsPart
<1>3. LineStarts(part) = {a \in 0..((stop - f) - 1) : a = 0 \/ text[f + a] = Editing!LF}
  <2>1. \A a \in 0..((stop - f) - 1) : a = 0 \/ a \in 1..Len(part)
    BY <1>0, <1>2
  <2> QED
    BY <1>0, <2>1 DEF LineStarts
<1>4. ASSUME NEW k \in 1..m PROVE e[k] \in LineStarts(part) /\ e[k] \in Nat
  <2>1. /\ at[k] \in Nat /\ f <= at[k] /\ at[k] < stop /\ at[k] \in LineStarts(text)
        /\ e[k] = at[k] - f
    BY <1>1
  <2>2. e[k] \in 0..((stop - f) - 1) /\ f + e[k] = at[k] /\ (e[k] # 0 => at[k] # 0)
    BY <2>1
  <2>3. at[k] = 0 \/ text[at[k]] = Editing!LF
    BY <2>1 DEF LineStarts
  <2> QED
    BY <1>3, <2>2, <2>3
<1>5. ASSUME NEW i \in 1..m, NEW j \in 1..m, i < j PROVE e[i] < e[j]
  <2>1. at[i] < at[j] /\ at[i] \in Nat /\ at[j] \in Nat /\ e[i] = at[i] - f /\ e[j] = at[j] - f
    BY <1>1, <1>5
  <2> QED
    BY <2>1
<1>6. ASSUME NEW a \in LineStarts(part) PROVE \E k \in 1..m : e[k] = a
  <2>1. a \in 0..((stop - f) - 1) /\ (a = 0 \/ text[f + a] = Editing!LF)
    BY <1>3
  <2>2. f + a \in 0..(Len(text) - 1) /\ f <= f + a /\ f + a < stop
    BY <1>2, <2>1
  <2>3. f + a \in LineStarts(text)
    <3>1. CASE a = 0
      BY <1>2, <3>1
    <3>2. CASE a # 0
      BY <2>1, <2>2, <3>2 DEF LineStarts
    <3> QED
      BY <3>1, <3>2
  <2>4. PICK k \in 1..m : at[k] = f + a
    BY <1>1, <2>2, <2>3
  <2>5. e[k] = (f + a) - f
    BY <1>1, <2>4
  <2> QED
    BY <2>1, <2>5
<1> QED
  BY <1>1, <1>4, <1>5, <1>6 DEF Increases

\* A run of a text's line starts, up to a place in the line of the last.
LEMMA RunOfStarts ==
  ASSUME NEW text, NEW o, Increases(o, LineStarts(text)), NEW base \in Nat, NEW m \in Nat,
         m > 0, base + m <= Len(o), NEW stop \in Nat, o[base + m] < stop,
         base + m < Len(o) => stop <= o[(base + m) + 1],
         NEW at, IsRun(at, o, base, m)
  PROVE  AreStarts(text, at, stop)
<1>1. /\ Len(o) \in Nat /\ \A k \in 1..Len(o) : o[k] \in LineStarts(text) /\ o[k] \in Nat
      /\ \A i, j \in 1..Len(o) : i < j => o[i] < o[j]
      /\ \A a \in LineStarts(text) : \E k \in 1..Len(o) : o[k] = a
  BY DEF Increases
<1>2. ASSUME NEW k \in 1..m PROVE base + k \in 1..Len(o)
  BY <1>1
<1>3. ASSUME NEW k \in 1..m PROVE at[k] = o[base + k] /\ at[k] \in Nat /\ at[k] \in LineStarts(text)
  BY <1>1, <1>2 DEF IsRun
<1>4. ASSUME NEW i \in 1..m, NEW j \in 1..m, i < j PROVE at[i] < at[j]
  <2>1. base + i < base + j
    BY <1>4
  <2> QED
    BY <1>1, <1>2, <1>3, <2>1
<1>5. 1 \in 1..m /\ m \in 1..m
  OBVIOUS
<1>6. at[m] < stop
  BY <1>3, <1>5
<1>7. ASSUME NEW k \in 1..m PROVE at[1] <= at[k] /\ at[k] < stop
  <2>1. at[1] \in Nat /\ at[k] \in Nat /\ at[m] \in Nat
    BY <1>3, <1>5
  <2>2. k = 1 \/ 1 < k
    OBVIOUS
  <2>3. k = m \/ k < m
    OBVIOUS
  <2>4. at[1] <= at[k]
    BY <1>4, <1>5, <2>1, <2>2
  <2>5. at[k] < stop
    <3>1. CASE k = m
      BY <1>6, <3>1
    <3>2. CASE k < m
      <4>1. at[k] < at[m]
        BY <1>4, <1>5, <3>2
      <4> QED
        BY <1>6, <2>1, <4>1
    <3> QED
      BY <2>3, <3>1, <3>2
  <2> QED
    BY <2>4, <2>5
<1>8. ASSUME NEW a \in LineStarts(text), at[1] <= a, a < stop PROVE \E k \in 1..m : at[k] = a
  <2>1. PICK j \in 1..Len(o) : o[j] = a
    BY <1>1
  <2>2. base + 1 <= j
    <3>1. SUFFICES ASSUME j < base + 1 PROVE FALSE
      OBVIOUS
    <3>2. o[j] < o[base + 1]
      BY <1>1, <1>2, <1>5, <3>1
    <3>3. at[1] = o[base + 1] /\ at[1] \in Nat /\ o[j] \in Nat
      BY <1>1, <1>3, <1>5
    <3> QED
      BY <1>8, <2>1, <3>2, <3>3
  <2>3. j <= base + m
    <3> DEFINE next == (base + m) + 1
    <3>1. SUFFICES ASSUME j > base + m PROVE FALSE
      OBVIOUS
    <3>2. base + m < Len(o) /\ next \in 1..Len(o) /\ next <= j
      BY <1>1, <3>1
    <3>3. stop <= o[next] /\ o[next] \in Nat /\ o[j] \in Nat
      BY <1>1, <3>2
    <3> HIDE DEF next
    <3>4. next = j \/ next < j
      BY <3>2
    <3>5. o[next] <= o[j]
      BY <1>1, <3>2, <3>3, <3>4
    <3> QED
      BY <1>8, <2>1, <3>3, <3>5
  <2>4. j - base \in 1..m /\ base + (j - base) = j
    BY <2>2, <2>3
  <2>5. at[j - base] = a
    BY <1>3, <2>1, <2>4
  <2> QED
    BY <2>4, <2>5
<1> QED
  BY <1>3, <1>4, <1>7, <1>8 DEF AreStarts, IsRun

\* The lines of what begins with one line of a text and ends in a later one:
\* those of the text, the last up to the end of the part.
ArePartLines(lines, all, o, base, m, stop) ==
    /\ Len(lines) = m
    /\ \A k \in 1..(m - 1) : lines[k] = all[base + k]
    /\ Len(lines[m]) = stop - o[base + m]
    /\ \A j \in 1..Len(lines[m]) : lines[m][j] = all[base + m][j]

LEMMA PartLines ==
  ASSUME NEW X, NEW text \in Seq(X), NEW o, o = Editing!LineStartOffsets(text),
         NEW base \in Nat, NEW m \in Nat, m > 0, base + m <= Len(o), NEW stop \in Nat,
         o[base + m] < stop, stop <= LineEnd(text, base + m),
         NEW part \in Seq(X), IsPart(part, text, o[base + 1], stop)
  PROVE  /\ Editing!TerminatedLines(part) \in Seq(Seq(X))
         /\ ArePartLines(Editing!TerminatedLines(part), Editing!TerminatedLines(text),
                         o, base, m, stop)
<1> DEFINE all == Editing!TerminatedLines(text)
           f == o[base + 1]
           h(k) == o[base + k]
           g(k) == h(k) - f
           at == [k \in 1..m |-> h(k)]
           e == [k \in 1..m |-> g(k)]
           lines == Editing!TerminatedLines(part)
           p == Editing!LineStartOffsets(part)
           ends(k) == IF k = m THEN stop ELSE at[k + 1]
<1>1. Increases(o, LineStarts(text)) /\ AreLines(text, o, all) /\ all \in Seq(Seq(X))
  BY OffsetsIncrease, LinesAre
<1>2. /\ Len(o) \in Nat /\ Len(all) = Len(o)
      /\ \A k \in 1..Len(o) : /\ o[k] \in Nat /\ LineEnd(text, k) \in 1..Len(text)
                              /\ LineEnd(text, k) = IF k = Len(o) THEN Len(text) ELSE o[k + 1]
                              /\ Len(all[k]) = LineEnd(text, k) - o[k]
                              /\ \A j \in 1..Len(all[k]) : all[k][j] = text[o[k] + j]
  BY <1>1 DEF AreLines
<1>0. Len(o) \in Nat
  BY <1>2
<1>3. ASSUME NEW k \in 1..m PROVE base + k \in 1..Len(o)
  BY <1>0
<1>4. \A k \in 1..m : h(k) \in Nat
  BY <1>2, <1>3
<1>5. f \in Nat
  <2>1. 1 \in 1..m
    OBVIOUS
  <2> QED
    BY <1>4, <2>1
<1> HIDE DEF all, f
<1>6. /\ at \in Seq(Nat) /\ Len(at) = m
      /\ \A k \in 1..m : at[k] = o[base + k] /\ at[k] \in Nat /\ at[k] = h(k)
  <2>1. \A k \in 1..m : h(k) = o[base + k]
    OBVIOUS
  <2> HIDE DEF h
  <2> QED
    BY <1>4, <2>1
<1>7. stop <= Len(text) /\ (base + m < Len(o) => stop <= o[(base + m) + 1])
  <2> DEFINE last == base + m
  <2>1. last \in 1..Len(o) /\ last \in Nat
    BY <1>2
  <2>2. stop <= LineEnd(text, last)
    OBVIOUS
  <2> HIDE DEF last
  <2>3. /\ LineEnd(text, last) \in 1..Len(text)
        /\ LineEnd(text, last) = IF last = Len(o) THEN Len(text) ELSE o[last + 1]
    BY <1>2, <2>1
  <2>4. stop <= Len(text)
    BY <2>2, <2>3
  <2>5. last < Len(o) => stop <= o[last + 1]
    BY <1>2, <2>1, <2>2, <2>3
  <2> QED
    BY <2>4, <2>5 DEF last
<1> HIDE DEF at
<1>8. AreStarts(text, at, stop)
  <2>1. IsRun(at, o, base, m)
    BY <1>6 DEF IsRun
  <2> QED
    BY <1>1, <1>7, <2>1, RunOfStarts
<1>9. at[1] = f /\ (\A k \in 1..m : at[k] < stop) /\ \A i, j \in 1..m : i < j => at[i] < at[j]
  <2>1. 1 \in 1..m
    OBVIOUS
  <2> QED
    BY <1>6, <1>8, <2>1 DEF AreStarts, f
<1>10. ASSUME NEW k \in 1..m PROVE at[k] - f \in Nat
  <2>1. at[1] <= at[k] /\ at[k] \in Nat
    BY <1>6, <1>8 DEF AreStarts
  <2> QED
    BY <1>5, <1>9, <2>1
<1>11. e \in Seq(Nat) /\ Len(e) = m /\ \A k \in 1..m : e[k] = at[k] - f
  <2>1. \A k \in 1..m : g(k) = at[k] - f /\ g(k) \in Nat
    BY <1>6, <1>10
  <2> HIDE DEF g
  <2> QED
    BY <2>1
<1> HIDE DEF e, p, lines, g, h
<1>12. Increases(e, LineStarts(part))
  <2>1. IsPart(part, text, f, stop)
    BY DEF f
  <2>2. Shifted(e, at, f)
    BY <1>6, <1>11 DEF Shifted
  <2>3. at[1] = f
    BY <1>9
  <2> QED
    BY <1>5, <1>7, <1>8, <2>1, <2>2, <2>3, PartStarts
<1>13. p = e
  <2>1. p \in Seq(Nat) /\ Increases(p, LineStarts(part))
    BY OffsetsIncrease DEF p
  <2> QED
    BY <1>11, <1>12, <2>1, OneIncreasing
<1>14. AreLines(part, e, lines) /\ lines \in Seq(Seq(X))
  BY <1>13, LinesAre DEF p, lines
<1>15. /\ Len(lines) = m
       /\ \A k \in 1..m : /\ LineEnd(part, k) = IF k = m THEN Len(part) ELSE e[k + 1]
                          /\ Len(lines[k]) = LineEnd(part, k) - e[k]
                          /\ \A j \in 1..Len(lines[k]) : lines[k][j] = part[e[k] + j]
  BY <1>11, <1>14 DEF AreLines
<1>16. Len(part) = stop - f /\ \A j \in 1..(stop - f) : part[j] = text[f + j]
  BY DEF f, IsPart
<1>17. ASSUME NEW k \in 1..m
       PROVE  /\ ends(k) \in Nat /\ ends(k) <= stop /\ LineEnd(part, k) = ends(k) - f
  <2>1. CASE k = m
    BY <1>15, <1>16, <2>1
  <2>2. CASE k # m
    <3>1. k + 1 \in 1..m
      BY <2>2
    <3>2. at[k + 1] \in Nat /\ at[k + 1] < stop /\ e[k + 1] = at[k + 1] - f
      BY <1>6, <1>9, <1>11, <3>1
    <3>3. LineEnd(part, k) = e[k + 1]
      BY <1>15, <2>2
    <3> QED
      BY <2>2, <3>2, <3>3
  <2> QED
    BY <2>1, <2>2
<1> HIDE DEF ends
<1>18. ASSUME NEW k \in 1..m
       PROVE  /\ Len(lines[k]) = ends(k) - at[k]
              /\ \A j \in 1..Len(lines[k]) : lines[k][j] = text[at[k] + j]
  <2> DEFINE b == at[k]
             u == ends(k)
  <2>1. b \in Nat /\ u \in Nat /\ u <= stop /\ b - f \in Nat /\ e[k] = b - f /\ LineEnd(part, k) = u - f
    BY <1>6, <1>10, <1>11, <1>17
  <2>2. /\ Len(lines[k]) = LineEnd(part, k) - e[k]
        /\ \A j \in 1..Len(lines[k]) : lines[k][j] = part[e[k] + j]
    BY <1>15
  <2> HIDE DEF b, u
  <2>3. Len(lines[k]) = u - b
    BY <1>5, <2>1, <2>2
  <2>4. ASSUME NEW j \in 1..Len(lines[k]) PROVE lines[k][j] = text[b + j]
    <3>1. (b - f) + j \in 1..(stop - f) /\ f + ((b - f) + j) = b + j
      BY <1>5, <2>1, <2>3
    <3>2. lines[k][j] = part[(b - f) + j]
      BY <2>1, <2>2
    <3> QED
      BY <1>16, <3>1, <3>2
  <2> QED
    BY <2>3, <2>4 DEF b, u
<1>19. ASSUME NEW k \in 1..m
       PROVE  /\ all[base + k] \in Seq(X) /\ lines[k] \in Seq(X)
              /\ Len(all[base + k]) = LineEnd(text, base + k) - at[k]
              /\ \A j \in 1..Len(all[base + k]) : all[base + k][j] = text[at[k] + j]
  <2> DEFINE a == base + k
  <2>1. a \in 1..Len(o) /\ o[a] = at[k]
    BY <1>3, <1>6
  <2> HIDE DEF a
  <2>2. all[a] \in Seq(X)
    BY <1>1, <1>2, <2>1
  <2>3. lines[k] \in Seq(X)
    BY <1>14, <1>15
  <2>4. Len(all[a]) = LineEnd(text, a) - at[k] /\ \A j \in 1..Len(all[a]) : all[a][j] = text[at[k] + j]
    <3>1. Len(all[a]) = LineEnd(text, a) - o[a] /\ \A j \in 1..Len(all[a]) : all[a][j] = text[o[a] + j]
      BY <1>2, <2>1
    <3> QED
      BY <2>1, <3>1
  <2>5. /\ all[a] \in Seq(X) /\ lines[k] \in Seq(X)
        /\ Len(all[a]) = LineEnd(text, a) - at[k]
        /\ \A j \in 1..Len(all[a]) : all[a][j] = text[at[k] + j]
    BY <2>2, <2>3, <2>4
  <2> USE DEF a
  <2> QED
    BY <2>5
<1>20. ASSUME NEW k \in 1..(m - 1) PROVE lines[k] = all[base + k]
  <2> DEFINE a == base + k
  <2>1. k \in 1..m /\ k # m /\ k + 1 \in 1..m /\ a \in 1..Len(o) /\ a # Len(o) /\ base + (k + 1) = a + 1
    BY <1>2
  <2>2. LineEnd(text, a) = o[a + 1]
    BY <1>2, <2>1
  <2>3. o[a + 1] = at[k + 1]
    BY <1>6, <2>1
  <2>4. ends(k) = at[k + 1]
    BY <2>1 DEF ends
  <2> DEFINE one == lines[k]
             other == all[a]
  <2>5. /\ one \in Seq(X) /\ other \in Seq(X) /\ Len(other) = LineEnd(text, a) - at[k]
        /\ \A j \in 1..Len(other) : other[j] = text[at[k] + j]
    BY <1>19, <2>1
  <2>6. /\ Len(one) = ends(k) - at[k]
        /\ \A j \in 1..Len(one) : one[j] = text[at[k] + j]
    BY <1>18, <2>1
  <2> HIDE DEF a
  <2>7. Len(one) = Len(other)
    BY <2>2, <2>3, <2>4, <2>5, <2>6
  <2>9. \A j \in 1..Len(one) : one[j] = other[j]
    BY <2>5, <2>6, <2>7
  <2> HIDE DEF one, other
  <2>8. one = other
    BY <2>5, <2>7, <2>9, SeqEqual
  <2> QED
    BY <2>8 DEF one, other, a
<1>21. Len(lines[m]) = stop - o[base + m]
  <2>1. m \in 1..m /\ ends(m) = stop
    BY DEF ends
  <2> QED
    BY <1>6, <1>18, <2>1
<1>22. \A j \in 1..Len(lines[m]) : lines[m][j] = all[base + m][j]
  <2>1. m \in 1..m
    OBVIOUS
  <2>2. Len(all[base + m]) = LineEnd(text, base + m) - at[m] /\ at[m] = o[base + m]
    BY <1>6, <1>19, <2>1
  <2>3. LineEnd(text, base + m) \in Int /\ stop <= LineEnd(text, base + m)
    BY <1>2, <1>3, <2>1
  <2>4. at[m] \in Nat
    BY <1>6, <2>1
  <2>5. Len(lines[m]) <= Len(all[base + m]) /\ Len(lines[m]) \in Int /\ Len(all[base + m]) \in Int
    <3> DEFINE u == LineEnd(text, base + m)
               b == o[base + m]
    <3>1. Len(lines[m]) = stop - b /\ Len(all[base + m]) = u - b /\ b \in Nat /\ u \in Int /\ stop <= u
      BY <1>21, <2>2, <2>3, <2>4
    <3> HIDE DEF u, b
    <3> QED
      BY <3>1
  <2>6. \A j \in 1..Len(lines[m]) : j \in 1..Len(all[base + m])
    BY <2>5
  <2> QED
    BY <1>18, <1>19, <2>1, <2>6
<1>23. ArePartLines(lines, all, o, base, m, stop)
  BY <1>15, <1>20, <1>21, <1>22 DEF ArePartLines
<1> QED
  BY <1>14, <1>23 DEF lines, all

\* What FindWindowStarts asks of the last line.
LEMMA EndsInLf ==
  ASSUME NEW Y, Editing!LF \in Y, NEW t \in Seq(Y)
  PROVE  Editing!IsSuffix(<<Editing!LF>>, t) <=> Len(t) > 0 /\ t[Len(t)] = Editing!LF
<1> DEFINE lf == Editing!LF
           n == Len(t)
           h(i) == t[(n - i) + 1]
           r == [i \in 1..n |-> h(i)]
           one == [i \in 1..1 |-> lf]
           a == SubSeq(one, 1, 1)
           b == SubSeq(r, 1, 1)
<1>1. n \in Nat /\ \A i \in 1..n : h(i) \in Y
  <2>1. \A i \in 1..n : t[i] \in Y
    OBVIOUS
  <2>2. \A i \in 1..n : (n - i) + 1 \in 1..n
    OBVIOUS
  <2> QED
    BY <2>1, <2>2
<1>2. Editing!IsSuffix(<<lf>>, t) <=> 1 <= n /\ a = b
  <2>1. Editing!Reverse(t) = r
    BY DEF Editing!Reverse
  <2>2. Editing!Reverse(<<lf>>) = one
    BY DEF Editing!Reverse
  <2>3. Len(one) = 1 /\ Len(r) = n
    BY <1>1
  <2> HIDE DEF one, r, lf
  <2> QED
    BY <2>1, <2>2, <2>3 DEF Editing!IsSuffix, Editing!IsPrefix
<1>3. n > 0 => h(1) = t[n]
  BY <1>1
<1> HIDE DEF h, n
<1>4. r \in Seq(Y) /\ Len(r) = n /\ \A i \in 1..n : r[i] = h(i)
  BY <1>1
<1>5. one \in Seq(Y) /\ Len(one) = 1 /\ one[1] = lf
  OBVIOUS
<1> HIDE DEF r, one, lf
<1>6. CASE n = 0
  BY <1>1, <1>2, <1>6 DEF n, lf
<1>7. CASE n > 0
  <2>1. a \in Seq(Y) /\ Len(a) = 1 /\ a[1] = lf
    <3>1. 1 \in 0..Len(one) /\ 1 \in 1..1
      BY <1>5
    <3> QED
      BY <1>5, <3>1, FirstLines
  <2>2. b \in Seq(Y) /\ Len(b) = 1 /\ b[1] = t[n]
    <3>1. 1 \in 0..Len(r) /\ 1 \in 1..n /\ 1 \in 1..1
      BY <1>1, <1>4, <1>7
    <3>2. b \in Seq(Y) /\ Len(b) = 1 /\ b[1] = r[1]
      BY <1>4, <3>1, FirstLines
    <3> QED
      BY <1>3, <1>4, <1>7, <3>1, <3>2
  <2> HIDE DEF a, b
  <2>3. a = b <=> lf = t[n]
    <3>1. ASSUME lf = t[n] PROVE a = b
      <4>1. \A j \in 1..Len(a) : a[j] = b[j]
        BY <2>1, <2>2, <3>1
      <4> QED
        BY <2>1, <2>2, <4>1, SeqEqual
    <3> QED
      BY <2>1, <2>2, <3>1
  <2> QED
    BY <1>1, <1>2, <1>7, <2>3 DEF n, lf
<1> QED
  BY <1>1, <1>6, <1>7

\* A line's newline is its last character, and only the last line may lack one.
LEMMA LinesEnd ==
  ASSUME NEW X, NEW text \in Seq(X), NEW o, o = Editing!LineStartOffsets(text),
         NEW all, all = Editing!TerminatedLines(text), NEW k \in 1..Len(o)
  PROVE  /\ all[k] \in Seq(X) /\ Len(all[k]) > 0 /\ Len(all[k]) = LineEnd(text, k) - o[k]
         /\ \A j \in 1..(Len(all[k]) - 1) : all[k][j] # Editing!LF
<1>1. Increases(o, LineStarts(text)) /\ AreLines(text, o, all) /\ all \in Seq(Seq(X))
  BY OffsetsIncrease, LinesAre
<1> DEFINE a == o[k]
           b == LineEnd(text, k)
           line == all[k]
<1>2. /\ Len(o) \in Nat /\ Len(all) = Len(o) /\ a \in Nat /\ b \in 1..Len(text) /\ a < b
      /\ b = (IF k = Len(o) THEN Len(text) ELSE o[k + 1])
      /\ Len(line) = b - a /\ \A j \in 1..Len(line) : line[j] = text[a + j]
  BY <1>1 DEF AreLines
<1>3. /\ \A i, j \in 1..Len(o) : i < j => o[i] < o[j]
      /\ \A i \in 1..Len(o) : o[i] \in Nat
      /\ \A c \in LineStarts(text) : \E i \in 1..Len(o) : o[i] = c
  BY <1>1 DEF Increases
<1>4. line \in Seq(X)
  BY <1>1, <1>2
<1>5. \A i \in 1..Len(o) : o[i] <= a \/ b <= o[i]
  <2> SUFFICES ASSUME NEW i \in 1..Len(o), ~(o[i] <= a), ~(b <= o[i]) PROVE FALSE
    OBVIOUS
  <2>1. ~(i < k) /\ i # k
    BY <1>2, <1>3
  <2>2. k < i /\ k # Len(o) /\ k + 1 \in 1..Len(o)
    BY <1>2, <2>1
  <2>3. b = o[k + 1]
    BY <1>2, <2>2
  <2>4. k + 1 = i \/ k + 1 < i
    BY <2>2
  <2> QED
    BY <1>2, <1>3, <2>2, <2>3, <2>4
<1> HIDE DEF a, b, line
<1>6. ASSUME NEW j \in 1..(Len(line) - 1), line[j] = Editing!LF PROVE FALSE
  <2>0. a \in Nat /\ b \in Nat /\ b <= Len(text) /\ Len(text) \in Nat /\ Len(line) = b - a
    BY <1>2
  <2>1. j \in 1..Len(line) /\ a + j \in 0..(Len(text) - 1) /\ a < a + j /\ a + j < b
    BY <2>0
  <2>2. a + j \in LineStarts(text)
    BY <1>2, <1>6, <2>1 DEF LineStarts
  <2>3. PICK i \in 1..Len(o) : o[i] = a + j
    BY <1>3, <2>2
  <2>4. o[i] <= a \/ b <= o[i]
    BY <1>5
  <2> QED
    BY <2>0, <2>1, <2>3, <2>4
<1> QED
  BY <1>2, <1>4, <1>6 DEF a, b, line

\* The last lines of a window and of an old text.
LEMMA LastLinesAgree ==
  ASSUME NEW X, NEW mine \in Seq(X), NEW yours \in Seq(X), Len(mine) > 0, Len(yours) > 0,
         Editing!LastWindowLineMatches(Editing!NormalizeForFuzzyMatch(mine),
                                       Editing!NormalizeForFuzzyMatch(yours))
  PROVE  LET keeps == yours[Len(yours)] # Editing!LF /\ mine[Len(mine)] = Editing!LF
             new == Editing!NormalizeForFuzzyMatch(yours)
         IN  /\ keeps => Inked(mine) = new
             /\ ~keeps => Editing!NormalizeForFuzzyMatch(mine) = new
<1> DEFINE Y == X \cup {Editing!Quote, Editing!LF}
           lf == Editing!LF
           a == Editing!NormalizeForFuzzyMatch(mine)
           b == Editing!NormalizeForFuzzyMatch(yours)
           s == Inked(mine)
           t == Inked(yours)
           x == mine[Len(mine)]
           y == yours[Len(yours)]
<1>1. /\ a \in Seq(Y) /\ s \in Seq(Y) /\ (x = lf => Extends(a, s, lf)) /\ (x # lf => a = s)
      /\ Len(s) > 0 => s[Len(s)] # lf
  BY NormalizedLineEnds
<1>2. /\ b \in Seq(Y) /\ t \in Seq(Y) /\ (y = lf => Extends(b, t, lf)) /\ (y # lf => b = t)
      /\ Len(t) > 0 => t[Len(t)] # lf
  BY NormalizedLineEnds
<1>3. lf \in Y
  OBVIOUS
<1>4. a = b \/ (~Editing!IsSuffix(<<lf>>, b) /\ a = Append(b, lf))
  BY DEF Editing!LastWindowLineMatches
<1>5. Editing!IsSuffix(<<lf>>, b) <=> Len(b) > 0 /\ b[Len(b)] = lf
  <2> HIDE DEF b, Y
  <2> QED
    BY <1>2, <1>3, EndsInLf
<1> HIDE DEF a, b, s, t, x, y, lf, Y
<1>6. ASSUME NEW u \in Seq(Y), NEW v \in Seq(Y), Extends(v, u, lf)
      PROVE  /\ Len(v) > 0 /\ v[Len(v)] = lf /\ Len(v) = Len(u) + 1
             /\ \A j \in 1..Len(u) : v[j] = u[j]
  BY <1>3, <1>6 DEF Extends
<1>7. CASE y # lf /\ x = lf
  <2>1. Extends(a, s, lf) /\ b = t
    BY <1>1, <1>2, <1>7
  <2>2. a # b
    BY <1>1, <1>2, <1>6, <2>1
  <2>3. Extends(a, b, lf)
    BY <1>4, <2>2 DEF Extends
  <2>4. Len(s) = Len(b) /\ \A j \in 1..Len(s) : s[j] = b[j]
    <3>1. Len(a) = Len(s) + 1 /\ \A j \in 1..Len(s) : a[j] = s[j]
      BY <1>1, <1>6, <2>1
    <3>2. Len(a) = Len(b) + 1 /\ \A j \in 1..Len(b) : a[j] = b[j]
      BY <1>1, <1>2, <1>6, <2>3
    <3>3. Len(s) \in Nat /\ Len(b) \in Nat
      BY <1>1, <1>2
    <3> QED
      BY <3>1, <3>2, <3>3
  <2>5. s = b
    BY <1>1, <1>2, <2>4, SeqEqual
  <2> QED
    BY <1>7, <2>5 DEF s, b, x, y, lf
<1>8. CASE ~(y # lf /\ x = lf)
  <2>1. a = b
    <3>1. CASE y = lf
      BY <1>2, <1>4, <1>5, <1>6, <3>1
    <3>2. CASE x # lf
      <4>1. a = s
        BY <1>1, <3>2
      <4>2. ASSUME Extends(a, b, lf) PROVE FALSE
        BY <1>1, <1>2, <1>6, <4>1, <4>2
      <4> QED
        BY <1>4, <4>2 DEF Extends
    <3> QED
      BY <1>8, <3>1, <3>2
  <2> QED
    BY <1>8, <2>1 DEF a, b, x, y, lf
<1> QED
  BY <1>7, <1>8

\* The old text's last line ends as the old text does.
LEMMA TextEnds ==
  ASSUME NEW X, NEW old \in Seq(X), old # <<>>
  PROVE  LET lines == Editing!TerminatedLines(old)
             line == lines[Len(lines)]
         IN  /\ Len(lines) \in Nat /\ Len(lines) > 0 /\ line \in Seq(X) /\ Len(line) > 0
             /\ Editing!EndsWithNewline(old) <=> line[Len(line)] = Editing!LF
<1> DEFINE o == Editing!LineStartOffsets(old)
           lines == Editing!TerminatedLines(old)
           n == Len(lines)
           line == lines[n]
<1>1. AreLines(old, o, lines) /\ lines \in Seq(Seq(X)) /\ Len(o) > 0
  BY LinesAre
<1> HIDE DEF o, lines
<1>2. n = Len(o) /\ n \in Nat /\ n > 0 /\ n \in 1..n
  BY <1>1 DEF AreLines
<1>3. /\ o[n] \in Nat /\ LineEnd(old, n) \in 1..Len(old) /\ o[n] < LineEnd(old, n)
      /\ LineEnd(old, n) = Len(old) /\ Len(line) = LineEnd(old, n) - o[n]
      /\ \A j \in 1..Len(line) : line[j] = old[o[n] + j]
  BY <1>1, <1>2 DEF AreLines
<1>4. line \in Seq(X)
  BY <1>1, <1>2
<1> HIDE DEF n, line
<1>5. Len(line) \in 1..Len(line) /\ o[n] + Len(line) = Len(old) /\ Len(line) > 0
  BY <1>3
<1>6. line[Len(line)] = old[Len(old)]
  BY <1>3, <1>5
<1>7. Editing!EndsWithNewline(old) <=> old[Len(old)] = Editing!LF
  BY DEF Editing!EndsWithNewline, Editing!Last
<1> QED
  BY <1>2, <1>4, <1>5, <1>6, <1>7 DEF line, n, lines

\* Normalized lines, line by line.
AreNormalized(new, lines, Y) ==
    /\ new \in Seq(Seq(Y)) /\ Len(new) = Len(lines)
    /\ \A k \in 1..Len(lines) : new[k] = Editing!NormalizeForFuzzyMatch(lines[k])

LEMMA NormalizedLinesAre ==
  ASSUME NEW X, NEW text \in Seq(X)
  PROVE  AreNormalized(Editing!NormalizedLines(text), Editing!TerminatedLines(text),
                       X \cup {Editing!Quote, Editing!LF})
<1> DEFINE lines == Editing!TerminatedLines(text)
           Y == X \cup {Editing!Quote, Editing!LF}
           h(k) == Editing!NormalizeForFuzzyMatch(lines[k])
           new == [k \in 1..Len(lines) |-> h(k)]
<1>1. lines \in Seq(Seq(X))
  BY LinesAre
<1> HIDE DEF lines, Y
<1>2. Len(lines) \in Nat /\ DOMAIN lines = 1..Len(lines) /\ \A k \in 1..Len(lines) : lines[k] \in Seq(X)
  BY <1>1
<1>3. \A k \in 1..Len(lines) : h(k) \in Seq(Y)
  BY <1>2, NormalizedLineEnds DEF Y
<1>4. Editing!NormalizedLines(text) = new
  BY <1>2 DEF Editing!NormalizedLines, lines
<1>5. \A k \in 1..Len(lines) : h(k) = Editing!NormalizeForFuzzyMatch(lines[k])
  OBVIOUS
<1> HIDE DEF h
<1>6. new \in Seq(Seq(Y)) /\ Len(new) = Len(lines) /\ \A k \in 1..Len(lines) : new[k] = h(k)
  BY <1>2, <1>3
<1> HIDE DEF new
<1>7. AreNormalized(new, lines, Y)
  BY <1>5, <1>6 DEF AreNormalized
<1> QED
  BY <1>4, <1>7 DEF lines, Y

\* A part of a text.
LEMMA PartIs ==
  ASSUME NEW X, NEW text \in Seq(X), NEW a \in Nat, NEW b \in 0..Len(text), a <= b
  PROVE  SubSeq(text, a + 1, b) \in Seq(X) /\ IsPart(SubSeq(text, a + 1, b), text, a, b)
<1>1. \A i \in 1..Len(text) : text[i] \in X
  OBVIOUS
<1>2. /\ SubSeq(text, a + 1, b) \in Seq(X) /\ Len(SubSeq(text, a + 1, b)) = b - a
      /\ \A j \in 1..(b - a) : SubSeq(text, a + 1, b)[j] = text[a + j]
  BY <1>1
<1> QED
  BY <1>2 DEF IsPart

\* Normalized lines that agree one by one say the same.
LEMMA SameFolds ==
  ASSUME NEW Y, NEW a \in Seq(Seq(Y)), NEW b \in Seq(Seq(Y)),
         \/ Len(a) = Len(b)
         \/ Len(b) = Len(a) + 1 /\ b[Len(b)] = <<>>,
         \A k \in 1..Len(a) : a[k] = b[k]
  PROVE  FlattenSeq(a) = FlattenSeq(b)
<1>1. CASE Len(a) = Len(b)
  <2>1. a = b
    BY <1>1, SeqEqual
  <2> QED
    BY <2>1
<1>2. CASE Len(b) = Len(a) + 1 /\ b[Len(b)] = <<>>
  <2> DEFINE none == <<>>
             c == Append(a, none)
  <2>1. none \in Seq(Y)
    OBVIOUS
  <2>2. b[Len(b)] = none
    BY <1>2
  <2>3. FlattenSeq(a) \o none = FlattenSeq(a)
    <3>1. FlattenSeq(a) \in Seq(Y)
      BY FlattenType
    <3> QED
      BY <3>1, ConcatEmptySeq
  <2> HIDE DEF none
  <2>4. c \in Seq(Seq(Y)) /\ Len(c) = Len(a) + 1 /\ (\A k \in 1..Len(a) : c[k] = a[k]) /\ c[Len(a) + 1] = none
    BY <2>1
  <2>5. FlattenSeq(c) = FlattenSeq(a) \o none
    BY <2>1, FlattenAppend
  <2> HIDE DEF c
  <2>6. \A k \in 1..Len(b) : k \in 1..Len(a) \/ k = Len(a) + 1
    BY <1>2
  <2>7. \A k \in 1..Len(b) : b[k] = c[k]
    BY <1>2, <2>2, <2>4, <2>6
  <2>8. b = c
    BY <1>2, <2>4, <2>7, SeqEqual
  <2> QED
    BY <2>3, <2>5, <2>8
<1> QED
  BY <1>1, <1>2

\* The lines of a window say the old text, the last one perhaps but for its
\* newline.
LEMMA WindowAgrees ==
  ASSUME NEW X, NEW text \in Seq(X), NEW old \in Seq(X), old # <<>>,
         NEW start \in Editing!FindWindowStarts(text, old),
         NEW all, all = Editing!TerminatedLines(text),
         NEW new, new = Editing!NormalizedLines(old),
         NEW count, count = Len(Editing!TerminatedLines(old))
  PROVE  /\ start \in Nat /\ count \in Nat /\ count > 0 /\ Len(new) = count
         /\ start + count <= Len(all) /\ Len(all) \in Nat
         /\ \A k \in 1..(count - 1) : Editing!NormalizeForFuzzyMatch(all[start + k]) = new[k]
         /\ IF ~Editing!EndsWithNewline(old) /\ Editing!EndsWithNewline(all[start + count])
            THEN Inked(all[start + count]) = new[count]
            ELSE Editing!NormalizeForFuzzyMatch(all[start + count]) = new[count]
<1> DEFINE theirs == Editing!TerminatedLines(old)
           folded == Editing!NormalizedLines(text)
           Y == X \cup {Editing!Quote, Editing!LF}
           Norm(line) == Editing!NormalizeForFuzzyMatch(line)
           a == start + count
           mine == all[a]
           yours == theirs[count]
<1>1. AreNormalized(folded, all, Y) /\ AreNormalized(new, theirs, Y)
  BY NormalizedLinesAre
<1>2. /\ count \in Nat /\ count > 0 /\ yours \in Seq(X) /\ Len(yours) > 0
      /\ Editing!EndsWithNewline(old) <=> yours[Len(yours)] = Editing!LF
  BY TextEnds
<1>3. all \in Seq(Seq(X)) /\ Len(all) \in Nat
  BY LinesAre
<1>4. /\ start \in 0..(Len(folded) - Len(new))
      /\ Editing!WindowMatchesAt(folded, new, start)
  BY DEF Editing!FindWindowStarts
<1>5. /\ \A k \in 1..(Len(new) - 1) : folded[start + k] = new[k]
      /\ Editing!LastWindowLineMatches(folded[start + Len(new)], new[Len(new)])
  BY <1>4 DEF Editing!WindowMatchesAt, Editing!Last
<1>6. Len(new) = count /\ Len(folded) = Len(all)
  BY <1>1 DEF AreNormalized
<1>7. start \in Nat /\ a \in 1..Len(all)
  BY <1>2, <1>3, <1>4, <1>6
<1>8. \A k \in 1..(count - 1) : Norm(all[start + k]) = new[k]
  <2> SUFFICES ASSUME NEW k \in 1..(count - 1) PROVE Norm(all[start + k]) = new[k]
    OBVIOUS
  <2> DEFINE c == start + k
  <2>1. c \in 1..Len(all)
    BY <1>2, <1>3, <1>7
  <2>2. folded[c] = new[k]
    BY <1>5, <1>6
  <2> HIDE DEF c
  <2>3. folded[c] = Norm(all[c])
    BY <1>1, <2>1 DEF AreNormalized
  <2>4. Norm(all[c]) = new[k]
    BY <2>2, <2>3
  <2> QED
    BY <2>4 DEF c
<1>9. folded[a] = Norm(mine) /\ new[count] = Norm(yours)
  <2>1. count \in 1..Len(theirs)
    BY <1>2
  <2> HIDE DEF a
  <2> QED
    BY <1>1, <1>7, <2>1 DEF AreNormalized
<1>10. Editing!LastWindowLineMatches(Norm(mine), Norm(yours))
  <2>1. Editing!LastWindowLineMatches(folded[a], new[count])
    BY <1>5, <1>6
  <2> HIDE DEF a, yours, mine
  <2> QED
    BY <1>9, <2>1
<1>11. mine \in Seq(X) /\ Len(mine) > 0
  <2>1. a \in 1..Len(Editing!LineStartOffsets(text))
    <3>1. Len(all) = Len(Editing!LineStartOffsets(text))
      BY WindowHasLines
    <3> QED
      BY <1>7, <3>1
  <2> HIDE DEF a
  <2> QED
    BY <2>1, LinesEnd
<1>12. Editing!EndsWithNewline(mine) <=> mine[Len(mine)] = Editing!LF
  BY DEF Editing!EndsWithNewline, Editing!Last
<1> HIDE DEF mine, yours, Norm
<1>13. IF yours[Len(yours)] # Editing!LF /\ mine[Len(mine)] = Editing!LF
       THEN Inked(mine) = Norm(yours) ELSE Norm(mine) = Norm(yours)
  BY <1>2, <1>10, <1>11, LastLinesAgree DEF Norm
<1>14. IF ~Editing!EndsWithNewline(old) /\ Editing!EndsWithNewline(mine)
       THEN Inked(mine) = new[count] ELSE Norm(mine) = new[count]
  BY <1>2, <1>9, <1>12, <1>13
<1> QED
  BY <1>2, <1>3, <1>6, <1>7, <1>8, <1>14 DEF mine, Norm

\* What a window covers is the old text but for what is disregarded.
LEMMA FoldedCovers ==
  ASSUME NEW X, NEW text \in Seq(X), NEW old \in Seq(X), old # <<>>,
         NEW start \in Editing!FindWindowStarts(text, old),
         NEW f, f = Editing!WindowCharSpan(text, old, start).start,
         NEW stop, stop = Editing!WindowCharSpan(text, old, start).end, f < stop
  PROVE  Editing!Folded(SubSeq(text, f + 1, stop)) = Editing!Folded(old)
<1> DEFINE o == Editing!LineStartOffsets(text)
           all == Editing!TerminatedLines(text)
           count == Len(Editing!TerminatedLines(old))
           new == Editing!NormalizedLines(old)
           a == start + count
           mine == all[a]
           keeps == ~Editing!EndsWithNewline(old) /\ Editing!EndsWithNewline(mine)
           part == SubSeq(text, f + 1, stop)
           lines == Editing!TerminatedLines(part)
           said == Editing!NormalizedLines(part)
           Y == X \cup {Editing!Quote, Editing!LF}
           Norm(line) == Editing!NormalizeForFuzzyMatch(line)
<1>1. /\ start + 1 \in 1..Len(o) /\ a \in 1..Len(o) /\ start + 1 <= a
      /\ f = o[start + 1] /\ f \in Nat /\ stop \in 0..Len(text)
      /\ stop = LineEnd(text, a) - IF keeps THEN 1 ELSE 0
  BY WindowIsInText
<1>2. /\ start \in Nat /\ count \in Nat /\ count > 0 /\ Len(new) = count
      /\ \A k \in 1..(count - 1) : Norm(all[start + k]) = new[k]
      /\ IF keeps THEN Inked(mine) = new[count] ELSE Norm(mine) = new[count]
  BY WindowAgrees
<1>3. AreLines(text, o, all) /\ all \in Seq(Seq(X)) /\ Len(all) = Len(o) /\ Len(o) \in Nat
  <2>1. AreLines(text, o, all) /\ all \in Seq(Seq(X))
    BY LinesAre
  <2> HIDE DEF o, all
  <2> QED
    BY <2>1 DEF AreLines
<1>4. /\ o[a] \in Nat /\ LineEnd(text, a) \in Nat /\ o[a] < LineEnd(text, a)
      /\ Len(mine) = LineEnd(text, a) - o[a]
  <2> HIDE DEF a, o, all
  <2>1. /\ o[a] \in Nat /\ LineEnd(text, a) \in 1..Len(text) /\ o[a] < LineEnd(text, a)
        /\ Len(mine) = LineEnd(text, a) - o[a]
    BY <1>1, <1>3 DEF AreLines
  <2> QED
    BY <2>1
<1>5. /\ mine \in Seq(X) /\ Len(mine) > 0
      /\ \A j \in 1..(Len(mine) - 1) : mine[j] # Editing!LF
      /\ keeps => mine[Len(mine)] = Editing!LF
  <2>1. keeps => mine[Len(mine)] = Editing!LF
    BY DEF Editing!EndsWithNewline, Editing!Last
  <2> HIDE DEF a, keeps
  <2> QED
    BY <1>1, <2>1, LinesEnd
<1>6. part \in Seq(X) /\ IsPart(part, text, f, stop)
  BY <1>1, PartIs
<1>7. new \in Seq(Seq(Y)) /\ said \in Seq(Seq(Y)) /\ AreNormalized(said, lines, Y)
  <2>1. new \in Seq(Seq(Y))
    BY NormalizedLinesAre DEF AreNormalized
  <2>2. AreNormalized(said, lines, Y)
    <3> HIDE DEF part
    <3> QED
      BY <1>6, NormalizedLinesAre
  <2> QED
    BY <2>1, <2>2 DEF AreNormalized
<1>8. Editing!Folded(part) = FlattenSeq(said) /\ Editing!Folded(old) = FlattenSeq(new)
  BY SameEditingOperators DEF Editing!Folded
<1> HIDE DEF count, new, keeps, part, lines, said, Y, Norm
<1>9. ASSUME NEW m \in Nat, m > 0, start + m <= Len(o), o[start + m] < stop,
             stop <= LineEnd(text, start + m)
      PROVE  lines \in Seq(Seq(X)) /\ ArePartLines(lines, all, o, start, m, stop)
  <2>1. stop \in Nat
    BY <1>1
  <2>2. IsPart(part, text, o[start + 1], stop)
    BY <1>1, <1>6
  <2>3. start \in Nat
    BY <1>2
  <2> QED
    BY <1>6, <1>9, <2>1, <2>2, <2>3, PartLines DEF lines
<1> HIDE DEF o, all, a, mine
<1>10. ASSUME NEW m \in Nat, m > 0, Len(lines) = m, m = count \/ (count = m + 1 /\ new[count] = <<>>),
              \A k \in 1..m : Norm(lines[k]) = new[k]
       PROVE  Editing!Folded(part) = Editing!Folded(old)
  <2>1. Len(said) = m /\ \A k \in 1..m : said[k] = new[k]
    BY <1>7, <1>10 DEF AreNormalized, Norm
  <2>2. Len(said) = Len(new) \/ (Len(new) = Len(said) + 1 /\ new[Len(new)] = <<>>)
    BY <1>2, <1>10, <2>1
  <2>3. \A k \in 1..Len(said) : said[k] = new[k]
    BY <2>1
  <2>4. FlattenSeq(said) = FlattenSeq(new)
    BY <1>7, <2>2, <2>3, SameFolds
  <2> QED
    BY <1>8, <2>4
<1>11. CASE stop > o[a]
  <2>1. start + count <= Len(o) /\ start + count = a /\ stop <= LineEnd(text, a)
    BY <1>1, <1>4 DEF a
  <2>2. /\ lines \in Seq(Seq(X)) /\ Len(lines) = count
        /\ \A k \in 1..(count - 1) : lines[k] = all[start + k]
        /\ Len(lines[count]) = stop - o[a]
        /\ \A j \in 1..Len(lines[count]) : lines[count][j] = mine[j]
    <3>1. lines \in Seq(Seq(X)) /\ ArePartLines(lines, all, o, start, count, stop)
      BY <1>2, <1>9, <1>11, <2>1
    <3> QED
      BY <2>1, <3>1 DEF ArePartLines, mine
  <2> DEFINE line == lines[count]
  <2>3. line \in Seq(X) /\ Len(line) \in Nat /\ Len(line) > 0
    <3>1. line \in Seq(X) /\ Len(line) \in Nat
      BY <1>2, <2>2
    <3>2. Len(line) = stop - o[a] /\ stop \in Nat /\ o[a] \in Nat
      BY <1>1, <1>4, <2>2
    <3> HIDE DEF line
    <3> QED
      BY <1>11, <3>1, <3>2
  <2> HIDE DEF line
  <2>4. Norm(line) = new[count]
    <3>1. CASE keeps
      <4>1. Len(mine) = Len(line) + 1 /\ \A i \in 1..Len(line) : line[i] = mine[i]
        <5>1. Len(line) = stop - o[a] /\ \A i \in 1..Len(line) : line[i] = mine[i]
          BY <2>2 DEF line
        <5>2. stop = LineEnd(text, a) - 1 /\ Len(mine) = LineEnd(text, a) - o[a]
          BY <1>1, <1>4, <3>1
        <5> QED
          BY <1>4, <5>1, <5>2
      <4>2. Inked(line) = Inked(mine)
        BY <1>5, <2>3, <3>1, <4>1, InkedWithout
      <4>3. line[Len(line)] # Editing!LF
        <5>1. Len(line) \in 1..(Len(mine) - 1) /\ Len(line) \in 1..Len(line)
          BY <2>3, <4>1
        <5> QED
          BY <1>5, <4>1, <5>1
      <4>4. Norm(line) = Inked(line)
        BY <2>3, <4>3, NormalizedLineEnds DEF Norm
      <4> QED
        BY <1>2, <3>1, <4>2, <4>4
    <3>2. CASE ~keeps
      <4>1. Len(line) = Len(mine) /\ \A i \in 1..Len(line) : line[i] = mine[i]
        BY <1>1, <1>4, <2>2, <3>2 DEF line
      <4>2. line = mine
        BY <1>5, <2>3, <4>1, SeqEqual
      <4> QED
        BY <1>2, <3>2, <4>2
    <3> QED
      BY <3>1, <3>2
  <2>5. ASSUME NEW k \in 1..count PROVE Norm(lines[k]) = new[k]
    <3>1. CASE k = count
      BY <2>4, <3>1 DEF line
    <3>2. CASE k # count
      <4>1. k \in 1..(count - 1)
        BY <1>2, <3>2
      <4> QED
        BY <1>2, <2>2, <4>1
    <3> QED
      BY <3>1, <3>2
  <2> QED
    BY <1>2, <1>10, <2>2, <2>5 DEF part
<1>12. CASE ~(stop > o[a])
  <2> DEFINE m == count - 1
             b == start + m
  <2>1. keeps /\ stop = o[a] /\ Len(mine) = 1
    BY <1>1, <1>4, <1>12
  <2>2. m \in Nat /\ m > 0 /\ b \in Nat /\ b + 1 = a
    <3>1. count # 1
      BY <1>1, <1>4, <2>1 DEF a
    <3> QED
      BY <1>2, <3>1 DEF a
  <2>3. b \in 1..Len(o) /\ b # Len(o) /\ b < a
    BY <1>1, <1>2, <1>3, <2>2
  <2>4. new[count] = <<>>
    <3>1. mine[1] = Editing!LF
      BY <1>5, <2>1
    <3>2. Inked(mine) = new[count]
      BY <1>2, <2>1
    <3>3. InkEnd(mine) \in 0..1 /\ Inked(mine) \in Seq(X \cup {Editing!Quote}) /\ Len(Inked(mine)) = InkEnd(mine)
      BY <1>5, <2>1, InkedIs
    <3>4. Ink(mine) = {}
      <4>1. DOMAIN mine = 1..1
        BY <1>5, <2>1
      <4> QED
        BY <3>1, <4>1 DEF Ink
    <3>5. InkEnd(mine) = 0
      BY <3>4 DEF InkEnd
    <3> QED
      BY <3>2, <3>3, <3>5
  <2>5. o[b] < stop /\ stop = LineEnd(text, b)
    <3>1. /\ LineEnd(text, b) = (IF b = Len(o) THEN Len(text) ELSE o[b + 1])
          /\ o[b] < LineEnd(text, b)
      <4> HIDE DEF b
      <4> QED
        BY <1>3, <2>3 DEF AreLines
    <3> QED
      BY <2>1, <2>2, <2>3, <3>1
  <2>6. stop \in Nat /\ start + m <= Len(o)
    BY <1>1, <1>3, <2>3
  <2>7. /\ lines \in Seq(Seq(X)) /\ Len(lines) = m
        /\ \A k \in 1..(m - 1) : lines[k] = all[start + k]
        /\ Len(lines[m]) = stop - o[b]
        /\ \A j \in 1..Len(lines[m]) : lines[m][j] = all[b][j]
    <3>1. lines \in Seq(Seq(X)) /\ ArePartLines(lines, all, o, start, m, stop)
      <4> HIDE DEF m
      <4> QED
        BY <1>9, <2>2, <2>5, <2>6
    <3> HIDE DEF m
    <3> QED
      BY <3>1 DEF ArePartLines
  <2> DEFINE line == lines[m]
             other == all[b]
  <2>8. line = other
    <3>1. line \in Seq(X) /\ other \in Seq(X)
      BY <1>3, <2>2, <2>3, <2>7
    <3>2. Len(other) = LineEnd(text, b) - o[b]
      <4> HIDE DEF b
      <4> QED
        BY <1>3, <2>3 DEF AreLines
    <3>3. Len(line) = Len(other) /\ \A j \in 1..Len(line) : line[j] = other[j]
      BY <2>5, <2>7, <3>2
    <3> HIDE DEF line, other
    <3> QED
      BY <3>1, <3>3, SeqEqual
  <2>9. ASSUME NEW k \in 1..m PROVE Norm(lines[k]) = new[k]
    <3>1. Norm(all[start + k]) = new[k]
      BY <1>2
    <3>2. lines[k] = all[start + k]
      <4>1. CASE k = m
        BY <2>8, <4>1
      <4>2. CASE k # m
        <5>1. k \in 1..(m - 1)
          BY <2>2, <4>2
        <5> QED
          BY <2>7, <5>1
      <4> QED
        BY <4>1, <4>2
    <3> QED
      BY <3>1, <3>2
  <2>10. count = m + 1
    BY <1>2
  <2> HIDE DEF m
  <2> QED
    BY <1>10, <2>2, <2>4, <2>7, <2>9, <2>10 DEF part
<1> QED
  BY <1>11, <1>12

-----------------------------------------------------------------------------
(* edit: the call.                                                         *)

\* The characters of texts in LF.
LfCharacter == EditedCharacter \ {Editing!CR}

\* Where an edit's old text was found, exactly or by lines.
Matches(span, i) ==
    \/ \E start \in Editing!FindTextStarts(Editing!Content, Editing!OldText(i)) :
          span = Editing!MatchedSpan(i,
                    Editing!ExactSpan(Editing!Content, Editing!OldText(i), start))
    \/ \E start \in Editing!FindWindowStarts(Editing!Content, Editing!OldText(i)) :
          span = Editing!MatchedSpan(i,
                    Editing!WindowCharSpan(Editing!Content, Editing!OldText(i), start))

\* Every edit has its span, and no two of them overlap.
SpansMatch ==
    /\ Len(spans) = Len(edits) /\ DOMAIN spans = 1..Len(edits)
    /\ \A i \in 1..Len(edits) : Matches(spans[i], i)
    /\ ~Editing!Overlap(spans)

\* What is written of a result.
Restored ==
    (IF Editing!HasBom(before) THEN <<Editing!Bom>> ELSE <<>>)
    \o Editing!RestoreLineEndings(result, Editing!DetectLineEnding(Editing!StripBom(before)))

\* The inductive invariant: what is known of the spans, of the result and of
\* the file, from when on.
EditInv ==
    /\ before \in Seq(EditedCharacter)
    /\ edits \in Seq([old : Seq(EditedCharacter) \ {<<>>}, new : Seq(EditedCharacter)])
    /\ editStage \in {"exact", "fuzzy", "splice", "open", "write", "done", "torn", "rejected"}
    /\ editStage \in {"splice", "open", "write", "done"} => SpansMatch
    /\ editStage \in {"open", "write", "done"} =>
          result = Editing!SpliceTextSpans(Editing!Content, spans)
    /\ editStage \notin {"write", "done", "torn"} => edited = before
    /\ editStage = "done" => edited = Restored

LEMMA EditStarts == Editing!Init => EditInv
<1> SUFFICES ASSUME Editing!Init PROVE EditInv
  OBVIOUS
<1>1. before \in EditedFile /\ edits \in Request /\ edited = before /\ editStage = "exact"
  BY DEF Editing!Init
<1>2. /\ before \in Seq(EditedCharacter)
      /\ edits \in Seq([old : Seq(EditedCharacter) \ {<<>>}, new : Seq(EditedCharacter)])
  BY <1>1, ToolCallAssumption DEF Editing!EditingAssumption
<1> QED
  BY <1>1, <1>2 DEF EditInv

\* The texts of a call.
LEMMA EditTexts ==
  ASSUME EditInv
  PROVE  /\ Editing!LF \in LfCharacter /\ Editing!CR \notin LfCharacter
         /\ Editing!Content \in Seq(LfCharacter)
         /\ Len(edits) \in Nat /\ DOMAIN edits = 1..Len(edits)
         /\ \A i \in 1..Len(edits) :
               /\ Editing!OldText(i) \in Seq(LfCharacter) /\ Editing!OldText(i) # <<>>
               /\ Editing!NormalizeToLf(edits[i].new) \in Seq(LfCharacter)
<1>1. Editing!LF \in EditedCharacter /\ Editing!LF \in LfCharacter
  BY ToolCallAssumption, Marks DEF Editing!EditingAssumption, LfCharacter
<1>2. Editing!Content \in Seq(LfCharacter)
  <2>1. Editing!StripBom(before) \in Seq(EditedCharacter)
    <3>1. before \in Seq(EditedCharacter)
      BY DEF EditInv
    <3> QED
      BY <3>1, StripsMark
  <2> QED
    BY <1>1, <2>1, NormalizedType DEF Editing!Content, LfCharacter
<1>3. Len(edits) \in Nat /\ DOMAIN edits = 1..Len(edits)
  BY DEF EditInv
<1>4. ASSUME NEW i \in 1..Len(edits)
      PROVE  /\ Editing!OldText(i) \in Seq(LfCharacter) /\ Editing!OldText(i) # <<>>
             /\ Editing!NormalizeToLf(edits[i].new) \in Seq(LfCharacter)
  <2>1. edits[i] \in [old : Seq(EditedCharacter) \ {<<>>}, new : Seq(EditedCharacter)]
    <3> DEFINE R == [old : Seq(EditedCharacter) \ {<<>>}, new : Seq(EditedCharacter)]
    <3>1. edits \in Seq(R)
      BY DEF EditInv
    <3> HIDE DEF R
    <3>2. edits[i] \in R
      BY <1>3, <3>1
    <3> QED
      BY <3>2 DEF R
  <2>2. edits[i].old \in Seq(EditedCharacter) /\ edits[i].old # <<>>
        /\ edits[i].new \in Seq(EditedCharacter)
    BY <2>1
  <2> QED
    BY <1>1, <2>2, NormalizedType DEF Editing!OldText, LfCharacter
<1> QED
  BY <1>1, <1>2, <1>3, <1>4 DEF LfCharacter

\* A span is where its text was found, and what it puts there.
LEMMA MatchFits ==
  ASSUME EditInv, NEW i \in 1..Len(edits), NEW span, Matches(span, i)
  PROVE  /\ span.edit = i /\ span.replacement = Editing!NormalizeToLf(edits[i].new)
         /\ span.start \in Nat /\ span.end \in Nat
<1> DEFINE old == Editing!OldText(i)
           text == Editing!Content
<1>1. text \in Seq(LfCharacter) /\ old \in Seq(LfCharacter) /\ old # <<>>
  BY EditTexts
<1>2. ASSUME NEW start, span = Editing!MatchedSpan(i, start)
      PROVE  /\ span.edit = i /\ span.replacement = Editing!NormalizeToLf(edits[i].new)
             /\ span.start = start.start /\ span.end = start.end
  BY <1>2 DEF Editing!MatchedSpan
<1> HIDE DEF old, text
<1>3. ASSUME NEW start \in Editing!FindTextStarts(text, old),
             span = Editing!MatchedSpan(i, Editing!ExactSpan(text, old, start))
      PROVE  span.start \in Nat /\ span.end \in Nat
  <2>1. start \in 0..Len(text)
    BY <1>1, StartsOccur
  <2>2. span.start = start /\ span.end = start + Len(old)
    BY <1>2, <1>3 DEF Editing!ExactSpan
  <2> QED
    BY <1>1, <2>1, <2>2
<1>4. ASSUME NEW start \in Editing!FindWindowStarts(text, old),
             span = Editing!MatchedSpan(i, Editing!WindowCharSpan(text, old, start))
      PROVE  span.start \in Nat /\ span.end \in Nat
  <2> DEFINE window == Editing!WindowCharSpan(text, old, start)
  <2>1. window.start \in Nat /\ window.end \in 0..Len(text)
    BY <1>1, WindowIsInText
  <2>2. span.start = window.start /\ span.end = window.end
    BY <1>2, <1>4
  <2> HIDE DEF window
  <2> QED
    BY <2>1, <2>2
<1> QED
  BY <1>2, <1>3, <1>4 DEF Matches, old, text

\* What the search for matches finds.
LEMMA MatchedOnce ==
  ASSUME NEW n \in Nat, NEW starts, DOMAIN starts = 1..n,
         NEW bound \in Nat, \A i \in 1..n : starts[i] \subseteq 0..bound,
         Editing!Verdict(starts) = "matched"
  PROVE  \A i \in 1..n : Editing!Min(starts[i]) \in starts[i]
<1>1. \A i \in 1..n : Editing!Cardinality(starts[i]) = 1
  <2> DEFINE bad == {i \in DOMAIN starts : Editing!Cardinality(starts[i]) # 1}
  <2>1. Editing!Verdict(starts) = IF bad = {} THEN "matched"
             ELSE IF starts[Editing!Min(bad)] = {} THEN "not found" ELSE "duplicate"
    BY DEF Editing!Verdict
  <2> HIDE DEF bad
  <2>2. bad = {}
    BY <2>1
  <2> QED
    BY <2>2 DEF bad
<1> QED
  BY <1>1, OnlyOne

\* A step that finds the spans.
LEMMA LocatesSpans ==
  ASSUME EditInv, editStage \in {"exact", "fuzzy"},
         NEW starts, DOMAIN starts = 1..Len(edits),
         NEW bound \in Nat, \A i \in 1..Len(edits) : starts[i] \subseteq 0..bound,
         NEW located, DOMAIN located = 1..Len(edits), Len(located) = Len(edits),
         \A i \in 1..Len(edits) : Editing!Min(starts[i]) \in starts[i] => Matches(located[i], i),
         NEW otherwise \in {"fuzzy", "rejected"},
         Editing!Locate(starts, located, otherwise),
         UNCHANGED <<before, edited, edits, result>>
  PROVE  EditInv'
<1>1. edited = before
  BY DEF EditInv
<1>2. CASE editStage' \in {"fuzzy", "rejected"}
  BY <1>1, <1>2 DEF EditInv
<1>3. CASE editStage' \notin {"fuzzy", "rejected"}
  <2>1. /\ Editing!Verdict(starts) = "matched" /\ spans' = located
        /\ editStage' = "splice" /\ ~Editing!Overlap(located)
    BY <1>3 DEF Editing!Locate
  <2>2. \A i \in 1..Len(edits) : Matches(located[i], i)
    BY <2>1, EditTexts, MatchedOnce
  <2>3. SpansMatch'
    BY <2>1, <2>2 DEF SpansMatch, Matches, Editing!Content, Editing!OldText, Editing!MatchedSpan
  <2> QED
    BY <1>1, <2>1, <2>3 DEF EditInv
<1> QED
  BY <1>2, <1>3

LEMMA StepKeepsEditInv == EditInv /\ [Editing!Next]_editVars => EditInv'
<1> SUFFICES ASSUME EditInv, [Editing!Next]_editVars PROVE EditInv'
  OBVIOUS
<1> DEFINE text == Editing!Content
<1>0. /\ text \in Seq(LfCharacter) /\ Len(text) \in Nat
      /\ Len(edits) \in Nat /\ DOMAIN edits = 1..Len(edits)
      /\ \A i \in 1..Len(edits) : Editing!OldText(i) \in Seq(LfCharacter) /\ Editing!OldText(i) # <<>>
  BY EditTexts
<1>1. CASE UNCHANGED editVars
  BY <1>1 DEF editVars, EditInv, SpansMatch, Matches, Restored, Editing!Content, Editing!OldText,
              Editing!MatchedSpan
<1>2. CASE Editing!MatchExactSpans
  <2> DEFINE starts == [i \in DOMAIN edits |-> Editing!FindTextStarts(text, Editing!OldText(i))]
             located == [i \in DOMAIN edits |->
                Editing!MatchedSpan(i,
                    Editing!ExactSpan(text, Editing!OldText(i), Editing!Min(starts[i])))]
  <2>1. /\ editStage = "exact" /\ Editing!Locate(starts, located, "fuzzy")
        /\ UNCHANGED <<before, edited, edits, result>>
    BY <1>2 DEF Editing!MatchExactSpans
  <2>2. DOMAIN starts = 1..Len(edits) /\ DOMAIN located = 1..Len(edits) /\ Len(located) = Len(edits)
    BY <1>0
  <2>3. \A i \in 1..Len(edits) : starts[i] = Editing!FindTextStarts(text, Editing!OldText(i))
    BY <1>0
  <2>4. \A i \in 1..Len(edits) : starts[i] \subseteq 0..Len(text)
    BY <1>0, <2>3, StartsOccur
  <2>5. \A i \in 1..Len(edits) : Editing!Min(starts[i]) \in starts[i] => Matches(located[i], i)
    BY <1>0, <2>3 DEF Matches
  <2> HIDE DEF starts, located
  <2> QED
    BY <1>0, <2>1, <2>2, <2>4, <2>5, LocatesSpans
<1>3. CASE Editing!MatchFuzzySpans
  <2> DEFINE starts == [i \in DOMAIN edits |-> Editing!FindWindowStarts(text, Editing!OldText(i))]
             located == [i \in DOMAIN edits |->
                Editing!MatchedSpan(i,
                    Editing!WindowCharSpan(text, Editing!OldText(i), Editing!Min(starts[i])))]
  <2>1. /\ editStage = "fuzzy" /\ Editing!Locate(starts, located, "rejected")
        /\ UNCHANGED <<before, edited, edits, result>>
    BY <1>3 DEF Editing!MatchFuzzySpans
  <2>2. DOMAIN starts = 1..Len(edits) /\ DOMAIN located = 1..Len(edits) /\ Len(located) = Len(edits)
    BY <1>0
  <2>3. \A i \in 1..Len(edits) : starts[i] = Editing!FindWindowStarts(text, Editing!OldText(i))
    BY <1>0
  <2>4. PICK bound \in Nat : \A i \in 1..Len(edits) : starts[i] \subseteq 0..bound
    <3> DEFINE m == Len(Editing!NormalizedLines(text))
    <3>1. m \in Nat
      BY <1>0, WindowHasLines
    <3>2. ASSUME NEW i \in 1..Len(edits) PROVE starts[i] \subseteq 0..m
      <4> DEFINE w == Len(Editing!NormalizedLines(Editing!OldText(i)))
      <4>1. w \in Nat
        BY <1>0, WindowHasLines
      <4>2. starts[i] \subseteq 0..(m - w)
        BY <2>3 DEF Editing!FindWindowStarts
      <4> HIDE DEF m, w
      <4> QED
        BY <3>1, <4>1, <4>2
    <3> HIDE DEF m
    <3> QED
      BY <3>1, <3>2
  <2>5. \A i \in 1..Len(edits) : Editing!Min(starts[i]) \in starts[i] => Matches(located[i], i)
    BY <1>0, <2>3 DEF Matches
  <2> HIDE DEF starts, located
  <2> QED
    BY <1>0, <2>1, <2>2, <2>4, <2>5, LocatesSpans
<1>4. CASE Editing!BuildApplication
  <2>1. /\ editStage = "splice" /\ editStage' \in {"rejected", "open"}
        /\ result' = Editing!SpliceTextSpans(text, spans)
        /\ UNCHANGED <<before, edited, edits, spans>>
    BY <1>4 DEF Editing!BuildApplication
  <2> QED
    BY <2>1 DEF EditInv, SpansMatch, Matches, Editing!Content, Editing!OldText, Editing!MatchedSpan
<1>5. CASE Editing!OpenForWriting
  BY <1>5 DEF Editing!OpenForWriting, EditInv, SpansMatch, Matches, Editing!Content,
              Editing!OldText, Editing!MatchedSpan
<1>6. CASE Editing!WriteLoadedFile
  BY <1>6 DEF Editing!WriteLoadedFile, EditInv, SpansMatch, Matches, Restored, Editing!Content,
              Editing!OldText, Editing!MatchedSpan
<1>7. CASE Editing!FailToWrite
  BY <1>7 DEF Editing!FailToWrite, EditInv, SpansMatch, Matches, Editing!Content,
              Editing!OldText, Editing!MatchedSpan
<1> QED
  BY <1>1, <1>2, <1>3, <1>4, <1>5, <1>6, <1>7 DEF Editing!Next

\* The result is over the characters of the text and of the new texts.
LEMMA ResultType ==
  ASSUME EditInv, SpansMatch, NEW X, Editing!Content \in Seq(X),
         \A i \in 1..Len(edits) : Editing!NormalizeToLf(edits[i].new) \in Seq(X)
  PROVE  Editing!SpliceTextSpans(Editing!Content, spans) \in Seq(X)
<1>1. Len(spans) = Len(edits) /\ DOMAIN spans = 1..Len(edits) /\ Len(edits) \in Nat
  BY EditTexts DEF SpansMatch
<1>2. \A i \in 1..Len(edits) : spans[i].edit = i /\ spans[i].start \in Nat /\ Fits(spans[i], X)
  BY MatchFits DEF SpansMatch, Fits
<1>3. IsLocated(spans)
  BY <1>1, <1>2 DEF IsLocated
<1> QED
  BY <1>1, <1>2, <1>3, SplicesType

\* Neither mark comes from anywhere but the file's start, the rest of the file
\* or the new texts.
LEMMA MarksComeFrom ==
  ASSUME EditInv, ~Editing!HasOtherMark
  PROVE  /\ Editing!Content \in Seq(LfCharacter \ {Editing!Bom})
         /\ \A i \in 1..Len(edits) :
               Editing!NormalizeToLf(edits[i].new) \in Seq(LfCharacter \ {Editing!Bom})
<1> DEFINE X == EditedCharacter \ {Editing!Bom}
<1>1. Editing!LF \in X /\ X \ {Editing!CR} = LfCharacter \ {Editing!Bom}
  BY ToolCallAssumption, Marks DEF Editing!EditingAssumption, LfCharacter
<1>2. ASSUME NEW s \in Seq(EditedCharacter), Editing!Bom \notin ToSet(s)
      PROVE  Editing!NormalizeToLf(s) \in Seq(LfCharacter \ {Editing!Bom})
  <2>1. \A i \in 1..Len(s) : s[i] \in X
    BY <1>2 DEF ToSet
  <2>2. s = [i \in 1..Len(s) |-> s[i]] /\ Len(s) \in Nat
    OBVIOUS
  <2> HIDE DEF X
  <2>3. s \in Seq(X)
    BY <2>1, <2>2
  <2>4. Editing!NormalizeToLf(s) \in Seq(X \ {Editing!CR})
    BY <1>1, <2>3, NormalizedType
  <2> QED
    BY <1>1, <2>4
<1>3. Editing!StripBom(before) \in Seq(EditedCharacter)
  <2>1. before \in Seq(EditedCharacter)
    BY DEF EditInv
  <2> QED
    BY <2>1, StripsMark
<1>4. Editing!Bom \notin ToSet(Editing!StripBom(before))
  BY SameEditingOperators DEF Editing!HasOtherMark
<1>5. ASSUME NEW i \in 1..Len(edits)
      PROVE  Editing!NormalizeToLf(edits[i].new) \in Seq(LfCharacter \ {Editing!Bom})
  <2> DEFINE R == [old : Seq(EditedCharacter) \ {<<>>}, new : Seq(EditedCharacter)]
  <2>1. edits \in Seq(R)
    BY DEF EditInv
  <2> HIDE DEF R
  <2>2. edits[i] \in R /\ i \in DOMAIN edits
    BY <2>1
  <2>3. edits[i].new \in Seq(EditedCharacter)
    BY <2>2 DEF R
  <2>4. Editing!Bom \notin ToSet(edits[i].new)
    BY <2>2, SameEditingOperators DEF Editing!HasOtherMark
  <2> QED
    BY <1>2, <2>3, <2>4
<1> QED
  BY <1>2, <1>3, <1>4, <1>5 DEF Editing!Content

\* What is written keeps the style of the file, given the invariant.
LEMMA EditInvKeepsStyle == EditInv => Editing!FilesKeepTheirStyle
<1> SUFFICES ASSUME EditInv PROVE Editing!FilesKeepTheirStyle
  OBVIOUS
<1> DEFINE mark == IF Editing!HasBom(before) THEN <<Editing!Bom>> ELSE <<>>
           ending == Editing!DetectLineEnding(Editing!StripBom(before))
<1>1. /\ before \in Seq(EditedCharacter)
      /\ {Editing!LF, Editing!CR, Editing!Bom} \subseteq EditedCharacter
      /\ Editing!LF \in LfCharacter /\ Editing!CR \notin LfCharacter /\ Editing!Bom \in LfCharacter
  BY ToolCallAssumption, EditTexts, Marks DEF EditInv, Editing!EditingAssumption, LfCharacter
<1>2. mark \in {<<>>, <<Editing!Bom>>}
  OBVIOUS
<1>3. ending \in {<<Editing!LF>>, <<Editing!CR, Editing!LF>>}
  BY DEF Editing!DetectLineEnding
<1>4. ASSUME Editing!Written
      PROVE  /\ SpansMatch /\ result = Editing!SpliceTextSpans(Editing!Content, spans)
             /\ result \in Seq(LfCharacter)
             /\ edited = mark \o Editing!RestoreLineEndings(result, ending)
  <2>1. /\ SpansMatch /\ result = Editing!SpliceTextSpans(Editing!Content, spans)
        /\ edited = mark \o Editing!RestoreLineEndings(result, ending)
    BY <1>4 DEF Editing!Written, EditInv, Restored
  <2>2. result \in Seq(LfCharacter)
    BY <2>1, EditTexts, ResultType
  <2> QED
    BY <2>1, <2>2
<1> HIDE DEF mark, ending
<1>5. ASSUME Editing!Written, NEW e \in {<<Editing!LF>>, <<Editing!CR, Editing!LF>>},
             Editing!LineEndings(before) = {e}
      PROVE  Editing!LineEndings(edited) \subseteq {e}
  <2>1. ending = e
    BY <1>1, <1>5, DetectsUniform DEF ending
  <2> QED
    BY <1>1, <1>2, <1>4, <1>5, <2>1, WritesOneEnding
<1>6. ASSUME Editing!Written PROVE /\ Editing!HasBom(before) => Editing!HasBom(edited)
                                   /\ Editing!HasBom(edited) => Editing!HasBom(before) \/ Editing!HasOtherMark
  <2> DEFINE X == EditedCharacter
             Y == X \ {Editing!Bom}
             body == Editing!RestoreLineEndings(result, ending)
  <2>0. /\ Editing!LF \in X /\ Editing!LF \in Y /\ Editing!CR \in Y /\ LfCharacter \subseteq X
        /\ LfCharacter \ {Editing!Bom} \subseteq Y
    BY <1>1, Marks DEF LfCharacter
  <2>1. ending \in Seq(X) /\ ending \in Seq(Y)
    <3>1. \A S : Editing!LF \in S /\ Editing!CR \in S =>
              <<Editing!LF>> \in Seq(S) /\ <<Editing!CR, Editing!LF>> \in Seq(S)
      OBVIOUS
    <3>2. Editing!CR \in X
      BY <1>1
    <3> HIDE DEF X, Y
    <3> QED
      BY <1>3, <2>0, <3>1, <3>2
  <2>2. result \in Seq(X)
    BY <1>4, <1>6, <2>0, SeqsOfMore
  <2>3. ASSUME Editing!HasBom(before) PROVE Editing!HasBom(edited)
    <3>1. edited = <<Editing!Bom>> \o body
      BY <1>4, <1>6, <2>3 DEF mark
    <3> QED
      BY <2>0, <2>1, <2>2, <3>1, WritesMark
  <2>4. ASSUME ~Editing!HasBom(before), ~Editing!HasOtherMark PROVE ~Editing!HasBom(edited)
    <3>1. edited = <<>> \o body
      BY <1>4, <1>6, <2>4 DEF mark
    <3>2. result \in Seq(LfCharacter \ {Editing!Bom})
      BY <1>4, <1>6, <2>4, MarksComeFrom, ResultType
    <3>3. result \in Seq(Y)
      BY <2>0, <3>2, SeqsOfMore
    <3> QED
      BY <2>0, <2>1, <3>1, <3>3, WritesMark
  <2> QED
    BY <2>3, <2>4
<1>7. editStage = "rejected" => edited = before
  BY DEF EditInv
<1> QED
  BY <1>5, <1>6, <1>7 DEF Editing!FilesKeepTheirStyle

\* Spans that match, none of them empty, are apart in the text.
LEMMA MatchesAreApart ==
  ASSUME EditInv, SpansMatch, \A i \in DOMAIN spans : spans[i].start < spans[i].end
  PROVE  AreApart(spans, Editing!Content, LfCharacter)
<1> DEFINE text == Editing!Content
<1>1. /\ Len(spans) = Len(edits) /\ DOMAIN spans = 1..Len(edits) /\ Len(edits) \in Nat
      /\ ~Editing!Overlap(spans)
  BY EditTexts DEF SpansMatch
<1>2. text \in Seq(LfCharacter) /\ Len(text) \in Nat
  BY EditTexts
<1>3. ASSUME NEW i \in 1..Len(edits)
      PROVE  /\ spans[i].edit = i /\ Fits(spans[i], LfCharacter)
             /\ spans[i].start < spans[i].end
             /\ spans[i].end <= Len(text)
  <2> DEFINE old == Editing!OldText(i)
             span == spans[i]
  <2>1. Matches(span, i)
    BY DEF SpansMatch
  <2>2. /\ span.edit = i /\ span.replacement = Editing!NormalizeToLf(edits[i].new)
        /\ span.start \in Nat /\ span.end \in Nat
    BY <2>1, MatchFits
  <2>3. old \in Seq(LfCharacter) /\ old # <<>> /\ Editing!NormalizeToLf(edits[i].new) \in Seq(LfCharacter)
    BY EditTexts
  <2>4. span.start < span.end
    BY <1>1
  <2> HIDE DEF old, span, text
  <2>5. ASSUME NEW start \in Editing!FindTextStarts(text, old),
               span = Editing!MatchedSpan(i, Editing!ExactSpan(text, old, start))
        PROVE  span.end <= Len(text)
    <3>1. Editing!OccursAt(text, old, start)
      BY <1>2, StartsOccur
    <3>2. span.end = start + Len(old)
      BY <2>5 DEF Editing!MatchedSpan, Editing!ExactSpan
    <3> QED
      BY <3>1, <3>2 DEF Editing!OccursAt
  <2>6. ASSUME NEW start \in Editing!FindWindowStarts(text, old),
               span = Editing!MatchedSpan(i, Editing!WindowCharSpan(text, old, start))
        PROVE  span.end <= Len(text)
    <3> DEFINE window == Editing!WindowCharSpan(text, old, start)
    <3>1. window.end \in 0..Len(text)
      BY <1>2, <2>3, WindowIsInText
    <3>2. span.end = window.end
      BY <2>6 DEF Editing!MatchedSpan
    <3> HIDE DEF window
    <3> QED
      BY <1>2, <3>1, <3>2
  <2>7. span.end <= Len(text)
    BY <2>1, <2>5, <2>6 DEF Matches, text, old
  <2> QED
    BY <2>2, <2>3, <2>4, <2>7 DEF Fits, span
<1> HIDE DEF text
<1>4. IsLocated(spans)
  BY <1>1, <1>3 DEF IsLocated, Fits
<1>5. \A i, j \in 1..Len(spans) :
         i # j => spans[i].end <= spans[j].start \/ spans[j].end <= spans[i].start
  <2>1. \A i \in 1..Len(spans) : spans[i].end \in Nat /\ spans[i].start < spans[i].end
    BY <1>1, <1>3 DEF Fits
  <2> QED
    BY <1>1, <1>4, <2>1, NoOverlapIsApart
<1>6. AreApart(spans, text, LfCharacter)
  BY <1>1, <1>3, <1>4, <1>5 DEF AreApart
<1> QED
  BY <1>6 DEF text

\* The text a span covers is its edit's old text.
LEMMA MatchesCover ==
  ASSUME EditInv, SpansMatch, NEW i \in 1..Len(edits), spans[i].start < spans[i].end
  PROVE  Editing!Folded(Editing!Covered(spans[i])) = Editing!Folded(Editing!OldText(i))
<1> DEFINE old == Editing!OldText(i)
           span == spans[i]
           text == Editing!Content
<1>1. Matches(span, i)
  BY DEF SpansMatch
<1>2. old \in Seq(LfCharacter) /\ old # <<>> /\ text \in Seq(LfCharacter)
  BY EditTexts
<1>3. Editing!Covered(span) = SubSeq(text, span.start + 1, span.end)
  BY DEF Editing!Covered
<1>4. span.start < span.end
  OBVIOUS
<1> HIDE DEF old, span, text
<1>5. ASSUME NEW start \in Editing!FindTextStarts(text, old),
             span = Editing!MatchedSpan(i, Editing!ExactSpan(text, old, start))
      PROVE  Editing!Folded(Editing!Covered(span)) = Editing!Folded(old)
  <2>1. Editing!OccursAt(text, old, start)
    BY <1>2, StartsOccur
  <2>2. span.start = start /\ span.end = start + Len(old)
    BY <1>5 DEF Editing!MatchedSpan, Editing!ExactSpan
  <2>3. SubSeq(text, start + 1, start + Len(old)) = old
    BY <2>1 DEF Editing!OccursAt
  <2>4. Editing!Covered(span) = old
    BY <1>3, <2>2, <2>3
  <2> QED
    BY <2>4
<1>6. ASSUME NEW start \in Editing!FindWindowStarts(text, old),
             span = Editing!MatchedSpan(i, Editing!WindowCharSpan(text, old, start))
      PROVE  Editing!Folded(Editing!Covered(span)) = Editing!Folded(old)
  <2> DEFINE f == span.start
             stop == span.end
  <2>1. /\ f = Editing!WindowCharSpan(text, old, start).start
        /\ stop = Editing!WindowCharSpan(text, old, start).end
    BY <1>6 DEF Editing!MatchedSpan
  <2>2. f < stop
    BY <1>4
  <2>3. Editing!Covered(span) = SubSeq(text, f + 1, stop)
    BY <1>3
  <2> HIDE DEF f, stop
  <2>4. Editing!Folded(SubSeq(text, f + 1, stop)) = Editing!Folded(old)
    BY <1>2, <2>1, <2>2, FoldedCovers
  <2> QED
    BY <2>3, <2>4
<1>7. Editing!Folded(Editing!Covered(span)) = Editing!Folded(old)
  BY <1>1, <1>5, <1>6 DEF Matches, text, old
<1> QED
  BY <1>7 DEF span, old

\* The pieces are what AtOnce joins.
LEMMA PiecesAreAtOnce ==
  ASSUME EditInv
  PROVE  Editing!AtOnce = FlattenSeq(Pieces(Editing!Content, spans))
<1> DEFINE text == Editing!Content
           keeps(k) == k <= Len(text) /\ \A i \in DOMAIN spans :
                                            k - 1 \notin spans[i].start..(spans[i].end - 1)
           puts(k) == FlattenSeq(PutIn(spans, k - 1))
           stays(k) == IF keeps(k) THEN <<text[k]>> ELSE <<>>
           all == [k \in 1..(Len(text) + 1) |-> puts(k) \o stays(k)]
<1>1. Editing!AtOnce = FlattenSeq(all)
  BY SameEditingOperators DEF Editing!AtOnce, PutIn
<1>2. ASSUME NEW k \in 1..(Len(text) + 1) PROVE KeptAt(text, spans, k - 1) = stays(k)
  <2>1. (k - 1) + 1 = k
    BY EditTexts
  <2> QED
    BY <2>1 DEF KeptAt
<1> HIDE DEF puts, stays, text
<1>3. \A k \in 1..(Len(text) + 1) : FlattenSeq(PutIn(spans, k - 1)) = puts(k)
  BY DEF puts
<1>4. Pieces(text, spans) = all
  BY <1>2, <1>3 DEF Pieces
<1> QED
  BY <1>1, <1>4 DEF text

\* Without the mark it was given a text is as it was.
LEMMA MarkComesOff ==
  ASSUME NEW X, Editing!LF \in X, Editing!Bom \in X, NEW ending \in Seq(X), NEW text \in Seq(X),
         NEW body, body = Editing!RestoreLineEndings(text, ending)
  PROVE  /\ Editing!StripBom(<<Editing!Bom>> \o body) = body
         /\ <<>> \o body = body
<1> DEFINE mark == <<Editing!Bom>>
           whole == mark \o body
<1>1. body \in Seq(X)
  BY RestoredType
<1>2. Editing!HasBom(whole)
  BY WritesMark
<1>3. Editing!StripBom(whole) = Tail(whole)
  BY <1>2 DEF Editing!StripBom
<1>4. mark \in Seq(X) /\ Len(mark) = 1
  OBVIOUS
<1> HIDE DEF mark
<1>5. /\ whole \in Seq(X) /\ Len(whole) = Len(body) + 1
      /\ \A j \in 1..Len(body) : whole[j + 1] = body[j]
  BY <1>1, <1>4, OneBefore
<1> HIDE DEF whole
<1>6. whole # <<>> /\ Len(body) \in Nat
  BY <1>1, <1>5
<1>7. Tail(whole) \in Seq(X) /\ Len(Tail(whole)) = Len(body) /\ \A j \in 1..Len(body) : Tail(whole)[j] = whole[j + 1]
  BY <1>5, <1>6
<1>8. Tail(whole) = body
  BY <1>1, <1>5, <1>7, SeqEqual
<1> QED
  BY <1>1, <1>3, <1>8, ConcatEmptySeq DEF whole, mark

\* What is written is what all replacements made at once give, given the
\* invariant.
LEMMA EditInvReplacesAtOnce == EditInv => Editing!EditsAreSimultaneous
<1> SUFFICES ASSUME EditInv, Editing!Written,
                    \A i \in DOMAIN spans : spans[i].start < spans[i].end
             PROVE  /\ \A i \in DOMAIN spans :
                          Editing!Folded(Editing!Covered(spans[i])) = Editing!Folded(Editing!OldText(i))
                    /\ Editing!NormalizeToLf(IF Editing!HasBom(before) THEN Editing!StripBom(edited) ELSE edited)
                          = Editing!AtOnce
  BY DEF Editing!EditsAreSimultaneous
<1> DEFINE text == Editing!Content
           ending == Editing!DetectLineEnding(Editing!StripBom(before))
           body == Editing!RestoreLineEndings(result, ending)
           left == IF Editing!HasBom(before) THEN Editing!StripBom(edited) ELSE edited
<1>1. /\ SpansMatch /\ result = Editing!SpliceTextSpans(text, spans)
      /\ edited = (IF Editing!HasBom(before) THEN <<Editing!Bom>> ELSE <<>>) \o body
  BY DEF Editing!Written, EditInv, Restored
<1>2. DOMAIN spans = 1..Len(edits)
  BY <1>1 DEF SpansMatch
<1>3. \A i \in DOMAIN spans :
         Editing!Folded(Editing!Covered(spans[i])) = Editing!Folded(Editing!OldText(i))
  BY <1>1, <1>2, MatchesCover
<1>4. result = Editing!AtOnce
  <2>1. AreApart(spans, text, LfCharacter)
    BY <1>1, MatchesAreApart
  <2>2. text \in Seq(LfCharacter)
    BY EditTexts
  <2>3. Editing!SpliceTextSpans(text, spans) = FlattenSeq(Pieces(text, spans))
    BY <2>1, <2>2, SplicesAtOnce
  <2> QED
    BY <1>1, <2>3, PiecesAreAtOnce
<1>5. result \in Seq(LfCharacter) /\ Editing!LF \in LfCharacter /\ Editing!CR \notin LfCharacter
  BY <1>1, EditTexts, ResultType
<1>6. ending \in {<<Editing!LF>>, <<Editing!CR, Editing!LF>>}
  BY DEF Editing!DetectLineEnding
<1>7. left = body
  <2> DEFINE X == EditedCharacter
  <2>1. {Editing!LF, Editing!CR, Editing!Bom} \subseteq X
    BY ToolCallAssumption DEF Editing!EditingAssumption
  <2>2. LfCharacter \subseteq X
    BY DEF LfCharacter
  <2>3. ending \in Seq(X)
    <3>1. \A S : Editing!LF \in S /\ Editing!CR \in S =>
              <<Editing!LF>> \in Seq(S) /\ <<Editing!CR, Editing!LF>> \in Seq(S)
      OBVIOUS
    <3> HIDE DEF X, ending
    <3> QED
      BY <1>6, <2>1, <3>1
  <2>4. result \in Seq(X)
    BY <1>5, <2>2, SeqsOfMore
  <2>5. Editing!StripBom(<<Editing!Bom>> \o body) = body /\ <<>> \o body = body
    BY <2>1, <2>3, <2>4, MarkComesOff
  <2> HIDE DEF body
  <2> QED
    BY <1>1, <2>5
<1>8. Editing!NormalizeToLf(body) = result
  BY <1>5, <1>6, NormalizeRestores
<1>9. Editing!NormalizeToLf(left) = Editing!AtOnce
  BY <1>4, <1>7, <1>8
<1> QED
  BY <1>3, <1>9

-----------------------------------------------------------------------------
(* bash: the output as text.                                               *)

\* The operators of the instance are those of the modules it takes them from,
\* and of the instance for read.
LEMMA SameOutputOperators ==
  /\ \A S : BashOutput!Cardinality(S) = Cardinality(S)
  /\ \A s : BashOutput!FlattenSeq(s) = FlattenSeq(s)
  /\ \A chars, s : BashOutput!Places(chars, s) = Reading!Places(chars, s)
  /\ \A s : BashOutput!Bytes(s) = Reading!Bytes(s)
<1>1. \A S : BashOutput!Cardinality(S) = Cardinality(S)
  BY DEF BashOutput!Cardinality, Cardinality
<1>2. \A s : BashOutput!FlattenSeq(s) = FlattenSeq(s)
  BY DEF BashOutput!FlattenSeq, FlattenSeq
<1>3. \A chars, s : BashOutput!Places(chars, s) = Reading!Places(chars, s)
  BY DEF BashOutput!Places, Reading!Places
<1>4. BashOutput!Wide = Reading!Wide /\ BashOutput!Replacement = Reading!Replacement
  BY DEF BashOutput!Wide, Reading!Wide, BashOutput!Replacement, Reading!Replacement
<1>5. \A s : BashOutput!Bytes(s) = Reading!Bytes(s)
  BY <1>1, <1>3, <1>4, SameOperators DEF BashOutput!Bytes, Reading!Bytes
<1> QED
  BY <1>1, <1>2, <1>3, <1>5

LEMMA SameJoin == \A lines : BashOutput!Join(lines) = Reading!Join(lines)
<1>1. BashOutput!NewLine = Reading!NewLine
  BY DEF BashOutput!NewLine, Reading!NewLine
<1> QED
  BY <1>1, SameOperators, SameOutputOperators DEF BashOutput!Join, Reading!Join

\* Two texts one after the other have the places of both.
LEMMA PlacesJoin ==
  ASSUME NEW X, NEW a \in Seq(X), NEW b \in Seq(X), NEW chars
  PROVE  /\ Cardinality(Reading!Places(chars, a)) \in Nat
         /\ Cardinality(Reading!Places(chars, b)) \in Nat
         /\ Cardinality(Reading!Places(chars, a \o b))
                = Cardinality(Reading!Places(chars, a)) + Cardinality(Reading!Places(chars, b))
<1> DEFINE ab == a \o b
           A == Reading!Places(chars, a)
           B == Reading!Places(chars, b)
           C == Reading!Places(chars, ab)
           moved == {i \in 1..Len(ab) : i > Len(a) /\ ab[i] \in chars}
           f == [i \in B |-> Len(a) + i]
<1>1. /\ Len(a) \in Nat /\ Len(b) \in Nat /\ Len(ab) = Len(a) + Len(b)
      /\ \A i \in 1..Len(a) : ab[i] = a[i]
      /\ \A i \in 1..Len(b) : ab[Len(a) + i] = b[i]
  BY ConcatProperties
<1>2. ab \in Seq(X)
  BY ConcatProperties
<1> HIDE DEF ab
<1>3. /\ A = {i \in 1..Len(a) : a[i] \in chars}
      /\ B = {i \in 1..Len(b) : b[i] \in chars}
      /\ C = {i \in 1..Len(ab) : ab[i] \in chars}
  BY <1>2 DEF Reading!Places
<1> HIDE DEF A, B, C
<1>4. C = A \cup moved /\ A \cap moved = {}
  BY <1>1, <1>3
<1>5. IsFiniteSet(A) /\ IsFiniteSet(B) /\ IsFiniteSet(moved)
  <2>1. IsFiniteSet(1..Len(a)) /\ IsFiniteSet(1..Len(b)) /\ IsFiniteSet(1..Len(ab))
    <3>1. 1 \in Int /\ Len(a) \in Int /\ Len(b) \in Int /\ Len(ab) \in Int
      BY <1>1
    <3> QED
      BY <3>1, FS_Interval
  <2>2. A \subseteq 1..Len(a) /\ B \subseteq 1..Len(b) /\ moved \subseteq 1..Len(ab)
    BY <1>3
  <2> QED
    BY <2>1, <2>2, FS_Subset
<1>6. Cardinality(B) = Cardinality(moved)
  <2>1. \A i \in B : i \in Nat /\ Len(a) + i \in moved
    BY <1>1, <1>3
  <2>2. \A m \in moved : m - Len(a) \in B /\ Len(a) + (m - Len(a)) = m
    <3> SUFFICES ASSUME NEW m \in moved PROVE m - Len(a) \in B /\ Len(a) + (m - Len(a)) = m
      OBVIOUS
    <3>1. m - Len(a) \in 1..Len(b) /\ Len(a) + (m - Len(a)) = m /\ ab[m] \in chars
      BY <1>1
    <3>2. ab[Len(a) + (m - Len(a))] = b[m - Len(a)]
      BY <1>1, <3>1
    <3> QED
      BY <1>3, <3>1, <3>2
  <2> HIDE DEF moved
  <2>3. f \in [B -> moved]
    BY <2>1
  <2>4. \A i, j \in B : f[i] = f[j] => i = j
    BY <1>1, <2>1
  <2>5. \A m \in moved : \E i \in B : f[i] = m
    BY <2>2
  <2> HIDE DEF f
  <2>6. f \in Injection(B, moved) /\ f \in Surjection(B, moved)
    BY <2>3, <2>4, <2>5, Fun_IsInj, Fun_IsSurj
  <2> QED
    BY <1>5, <2>6, FS_Injection
<1> HIDE DEF moved
<1>7. /\ Cardinality(A \cup moved)
            = Cardinality(A) + Cardinality(moved) - Cardinality(A \cap moved)
      /\ Cardinality(A) \in Nat /\ Cardinality(B) \in Nat
  BY <1>5, FS_Union, FS_CardinalityType
<1>8. Cardinality({}) = 0
  BY FS_EmptySet
<1>9. Cardinality(C) = Cardinality(A) + Cardinality(B)
  <2>1. Cardinality(C) = Cardinality(A \cup moved) /\ Cardinality(A \cap moved) = 0
    BY <1>4, <1>8
  <2>2. Cardinality(C) = Cardinality(A) + Cardinality(B) - 0
    BY <1>6, <1>7, <2>1
  <2> QED
    BY <1>7, <2>2
<1> QED
  BY <1>7, <1>9 DEF A, B, C, ab

\* And the bytes of both.
LEMMA BytesJoin ==
  ASSUME NEW X, NEW a \in Seq(X), NEW b \in Seq(X), NEW ab, Joins(ab, a, b)
  PROVE  /\ Reading!Bytes(a) \in Nat /\ Reading!Bytes(b) \in Nat
         /\ Reading!Bytes(ab) = Reading!Bytes(a) + Reading!Bytes(b)
<1> DEFINE Count(chars, s) == Cardinality(Reading!Places(chars, s))
           wide == {Reading!Wide, Reading!Replacement}
           wider == {Reading!Replacement}
<1>1. \A s : Reading!Bytes(s) = Len(s) + Count(wide, s) + Count(wider, s)
  BY SameOperators DEF Reading!Bytes
<1>2. \A chars : /\ Count(chars, a) \in Nat /\ Count(chars, b) \in Nat
                 /\ Count(chars, ab) = Count(chars, a) + Count(chars, b)
  BY PlacesJoin DEF Joins
<1>3. Len(a) \in Nat /\ Len(b) \in Nat /\ Len(ab) = Len(a) + Len(b)
  BY ConcatProperties DEF Joins
<1>4. /\ Count(wide, a) \in Nat /\ Count(wide, b) \in Nat
      /\ Count(wide, ab) = Count(wide, a) + Count(wide, b)
  BY <1>2
<1>5. /\ Count(wider, a) \in Nat /\ Count(wider, b) \in Nat
      /\ Count(wider, ab) = Count(wider, a) + Count(wider, b)
  BY <1>2
<1>6. /\ Reading!Bytes(a) = Len(a) + Count(wide, a) + Count(wider, a)
      /\ Reading!Bytes(b) = Len(b) + Count(wide, b) + Count(wider, b)
      /\ Reading!Bytes(ab) = Len(ab) + Count(wide, ab) + Count(wider, ab)
  BY <1>1
<1> HIDE DEF Count, wide, wider
<1> QED
  BY <1>3, <1>4, <1>5, <1>6

\* A character takes three bytes or less, and no character takes none.
LEMMA BytesOfOne ==
  ASSUME NEW X, NEW one \in Seq(X), Len(one) <= 1
  PROVE  Reading!Bytes(one) \in 0..3 /\ (one = <<>> => Reading!Bytes(one) = 0)
<1> DEFINE Count(chars) == Cardinality(Reading!Places(chars, one))
           wide == {Reading!Wide, Reading!Replacement}
           wider == {Reading!Replacement}
<1>1. Reading!Bytes(one) = Len(one) + Count(wide) + Count(wider)
  BY SameOperators DEF Reading!Bytes
<1>2. ASSUME NEW chars
      PROVE  Count(chars) \in Nat /\ Count(chars) <= 1 /\ (Len(one) = 0 => Count(chars) = 0)
  <2> DEFINE P == Reading!Places(chars, one)
  <2>1. P = {i \in 1..Len(one) : one[i] \in chars} /\ (Len(one) = 0 \/ Len(one) = 1)
    <3>1. Len(one) \in Nat
      OBVIOUS
    <3>2. Len(one) = 0 \/ Len(one) = 1
      BY <3>1
    <3>3. P = {i \in 1..Len(one) : one[i] \in chars}
      BY DEF Reading!Places
    <3> QED
      BY <3>2, <3>3
  <2> HIDE DEF P
  <2>2. P = {} \/ (Len(one) = 1 /\ P = {1})
    BY <2>1
  <2>3. Cardinality({}) = 0 /\ Cardinality({1}) = 1
    BY FS_EmptySet, FS_Singleton
  <2>4. Cardinality(P) \in Nat /\ Cardinality(P) <= 1 /\ (Len(one) = 0 => Cardinality(P) = 0)
    <3>1. CASE P = {}
      BY <2>3, <3>1
    <3>2. CASE Len(one) = 1 /\ P = {1}
      BY <2>3, <3>2
    <3> QED
      BY <2>2, <3>1, <3>2
  <2> QED
    BY <2>4 DEF P
<1>3. Len(one) \in Nat /\ Len(one) <= 1 /\ (one = <<>> => Len(one) = 0)
  OBVIOUS
<1>4. /\ Count(wide) \in Nat /\ Count(wide) <= 1 /\ (Len(one) = 0 => Count(wide) = 0)
      /\ Count(wider) \in Nat /\ Count(wider) <= 1 /\ (Len(one) = 0 => Count(wider) = 0)
  BY <1>2
<1> HIDE DEF Count, wide, wider
<1> QED
  BY <1>1, <1>3, <1>4

\* What the decoder makes of a byte, when a first byte of two came before it or
\* not, and of a chunk.
OfByte(afterLead, byte) ==
    LET cut == IF afterLead THEN <<BashOutput!Replacement>> ELSE <<>>
    IN  CASE byte = BashOutput!Lead -> cut
          [] byte = BashOutput!Continuation ->
                IF afterLead THEN <<BashOutput!Wide>> ELSE <<BashOutput!Replacement>>
          [] OTHER -> Append(cut, byte)

AfterLead(held, chunk, i) == IF i = 1 THEN held ELSE chunk[i - 1] = BashOutput!Lead

OfChunk(held, chunk) == [i \in DOMAIN chunk |-> OfByte(AfterLead(held, chunk, i), chunk[i])]

LEMMA DecodeIs ==
  ASSUME NEW held \in BOOLEAN, NEW chunk \in Seq(BashOutput!RawByte)
  PROVE  LET decoded == BashOutput!Decode(held, chunk)
         IN  /\ OfChunk(held, chunk) \in Seq(Seq(BashOutput!Character))
             /\ Len(OfChunk(held, chunk)) = Len(chunk)
             /\ decoded.text = FlattenSeq(OfChunk(held, chunk))
             /\ decoded.pending = IF chunk = <<>> THEN held
                                  ELSE chunk[Len(chunk)] = BashOutput!Lead
             /\ decoded.pending \in BOOLEAN /\ decoded.text \in Seq(BashOutput!Character)
<1> DEFINE C == BashOutput!Character
           pieces == OfChunk(held, chunk)
<1>1. ASSUME NEW after, NEW byte \in BashOutput!RawByte PROVE OfByte(after, byte) \in Seq(C)
  <2> DEFINE cut == IF after THEN <<BashOutput!Replacement>> ELSE <<>>
  <2>1. BashOutput!Replacement \in C /\ BashOutput!Wide \in C
        /\ BashOutput!Letter \in C /\ BashOutput!NewLine \in C
    BY DEF BashOutput!Character
  <2> HIDE DEF C
  <2>2. cut \in Seq(C) /\ <<BashOutput!Replacement>> \in Seq(C) /\ <<BashOutput!Wide>> \in Seq(C)
    BY <2>1
  <2>3. byte \in C \/ byte = BashOutput!Lead \/ byte = BashOutput!Continuation
    BY <2>1 DEF BashOutput!RawByte
  <2>4. byte \in C => Append(cut, byte) \in Seq(C)
    BY <2>2, AppendProperties
  <2> HIDE DEF cut
  <2>5. OfByte(after, byte) \in {cut, <<BashOutput!Replacement>>, <<BashOutput!Wide>>}
        \/ (byte \in C /\ OfByte(after, byte) = Append(cut, byte))
    BY <2>3 DEF OfByte, cut
  <2> QED
    BY <2>2, <2>4, <2>5
<1>2. DOMAIN chunk = 1..Len(chunk) /\ Len(chunk) \in Nat
      /\ \A i \in 1..Len(chunk) : chunk[i] \in BashOutput!RawByte
  OBVIOUS
<1>3. pieces \in Seq(Seq(C)) /\ Len(pieces) = Len(chunk)
  <2>1. \A i \in 1..Len(chunk) : OfByte(AfterLead(held, chunk, i), chunk[i]) \in Seq(C)
    BY <1>1, <1>2
  <2> HIDE DEF C
  <2> QED
    BY <1>2, <2>1 DEF OfChunk
<1>4. BashOutput!Decode(held, chunk).text = FlattenSeq(pieces)
  BY SameOutputOperators DEF BashOutput!Decode, OfChunk, OfByte, AfterLead
<1>5. BashOutput!Decode(held, chunk).pending
          = IF chunk = <<>> THEN held ELSE chunk[Len(chunk)] = BashOutput!Lead
  BY DEF BashOutput!Decode, BashOutput!Last
<1> HIDE DEF pieces, C
<1>6. FlattenSeq(pieces) \in Seq(C)
  BY <1>3, FlattenType
<1> QED
  BY <1>3, <1>4, <1>5, <1>6 DEF pieces, C

\* The decoder gives the same text for two chunks as for both at once: what is
\* held of a character that the cut splits makes up for the cut.
DecodesOn(held, a, b) ==
    LET first == BashOutput!Decode(held, a)
        second == BashOutput!Decode(first.pending, b)
        both == BashOutput!Decode(held, a \o b)
    IN  /\ a \o b \in Seq(BashOutput!RawByte)
        /\ Joins(both.text, first.text, second.text)
        /\ both.pending = second.pending

LEMMA DecodeJoins ==
  ASSUME NEW held \in BOOLEAN,
         NEW a \in Seq(BashOutput!RawByte), NEW b \in Seq(BashOutput!RawByte)
  PROVE  DecodesOn(held, a, b)
<1> DEFINE C == BashOutput!Character
           ab == a \o b
           h == BashOutput!Decode(held, a).pending
           p == OfChunk(held, a)
           q == OfChunk(h, b)
           r == OfChunk(held, ab)
<1>1. /\ Len(a) \in Nat /\ Len(b) \in Nat /\ Len(ab) = Len(a) + Len(b)
      /\ \A i \in 1..Len(a) : ab[i] = a[i]
      /\ \A i \in 1..Len(b) : ab[Len(a) + i] = b[i]
  BY ConcatProperties
<1>2. ab \in Seq(BashOutput!RawByte)
  BY ConcatProperties
<1> HIDE DEF ab
<1>3. /\ p \in Seq(Seq(C)) /\ Len(p) = Len(a)
      /\ BashOutput!Decode(held, a).text = FlattenSeq(p) /\ h \in BOOLEAN
      /\ h = IF a = <<>> THEN held ELSE a[Len(a)] = BashOutput!Lead
  BY DecodeIs
<1> HIDE DEF h
<1>4. /\ q \in Seq(Seq(C)) /\ Len(q) = Len(b)
      /\ BashOutput!Decode(h, b).text = FlattenSeq(q)
      /\ BashOutput!Decode(h, b).pending = IF b = <<>> THEN h ELSE b[Len(b)] = BashOutput!Lead
  BY <1>3, DecodeIs
<1>5. /\ r \in Seq(Seq(C)) /\ Len(r) = Len(ab)
      /\ BashOutput!Decode(held, ab).text = FlattenSeq(r)
      /\ BashOutput!Decode(held, ab).pending
            = IF ab = <<>> THEN held ELSE ab[Len(ab)] = BashOutput!Lead
  BY <1>2, DecodeIs
<1>6. BashOutput!Decode(held, ab).pending = BashOutput!Decode(h, b).pending
  <2>1. CASE b = <<>>
    <3>1. ab = a
      BY <2>1, ConcatEmptySeq DEF ab
    <3> QED
      BY <1>3, <1>4, <1>5, <2>1, <3>1
  <2>2. CASE b # <<>>
    <3>1. Len(b) \in 1..Len(b) /\ ab # <<>>
      BY <1>1, <1>2, <2>2
    <3>2. ab[Len(ab)] = b[Len(b)]
      BY <1>1, <3>1
    <3> QED
      BY <1>4, <1>5, <2>2, <3>1, <3>2
  <2> QED
    BY <2>1, <2>2
<1>7. Joins(r, p, q)
  <2>1. ASSUME NEW i \in 1..Len(a) PROVE r[i] = p[i]
    <3>1. i \in DOMAIN a /\ i \in DOMAIN ab /\ i # 1 => i - 1 \in 1..Len(a)
      BY <1>1, <1>2
    <3>2. ab[i] = a[i] /\ AfterLead(held, ab, i) = AfterLead(held, a, i)
      BY <1>1, <3>1 DEF AfterLead
    <3>3. i \in DOMAIN a /\ i \in DOMAIN ab
      BY <1>1, <1>2
    <3> QED
      BY <3>2, <3>3 DEF OfChunk
  <2>2. ASSUME NEW i \in 1..Len(b) PROVE r[Len(a) + i] = q[i]
    <3> DEFINE j == Len(a) + i
    <3>1. i \in DOMAIN b /\ j \in DOMAIN ab /\ j \in Nat
      BY <1>1, <1>2
    <3>2. ab[j] = b[i]
      BY <1>1
    <3>3. AfterLead(held, ab, j) = AfterLead(h, b, i)
      <4>1. CASE i # 1
        <5>1. i - 1 \in 1..Len(b) /\ j - 1 = Len(a) + (i - 1) /\ j # 1
          BY <1>1, <4>1
        <5>2. ab[j - 1] = b[i - 1]
          BY <1>1, <5>1
        <5> QED
          BY <4>1, <5>1, <5>2 DEF AfterLead
      <4>2. CASE i = 1 /\ a = <<>>
        <5>1. j = 1
          BY <4>2
        <5> QED
          BY <1>3, <4>2, <5>1 DEF AfterLead
      <4>3. CASE i = 1 /\ a # <<>>
        <5>1. j # 1 /\ j - 1 = Len(a) /\ Len(a) \in 1..Len(a)
          BY <1>1, <4>3
        <5>2. ab[j - 1] = a[Len(a)]
          BY <1>1, <5>1
        <5> QED
          BY <1>3, <4>3, <5>1, <5>2 DEF AfterLead
      <4> QED
        BY <4>1, <4>2, <4>3
    <3> HIDE DEF j
    <3>4. r[j] = q[i]
      BY <3>1, <3>2, <3>3 DEF OfChunk
    <3> QED
      BY <3>4 DEF j
  <2> DEFINE pq == p \o q
  <2> HIDE DEF p, q, C
  <2>0. Joins(pq, p, q)
    BY DEF Joins
  <2> HIDE DEF pq
  <2>3. /\ pq \in Seq(Seq(C)) /\ Len(pq) = Len(p) + Len(q)
        /\ \A i \in 1..Len(p) : pq[i] = p[i]
        /\ \A i \in 1..Len(q) : pq[Len(p) + i] = q[i]
    <3>1. p \in Seq(Seq(C)) /\ q \in Seq(Seq(C))
      BY <1>3, <1>4
    <3> QED
      BY <2>0, <3>1, JoinsProperties
  <2> HIDE DEF r
  <2>4. ASSUME NEW k \in 1..Len(r) PROVE r[k] = pq[k]
    <3>1. CASE k <= Len(a)
      BY <1>1, <1>3, <1>5, <2>1, <2>3, <3>1
    <3>2. CASE k > Len(a)
      <4>1. k - Len(a) \in 1..Len(b) /\ Len(a) + (k - Len(a)) = k
        BY <1>1, <1>5, <3>2
      <4>2. r[Len(a) + (k - Len(a))] = q[k - Len(a)]
        BY <2>2, <4>1
      <4>3. pq[Len(a) + (k - Len(a))] = q[k - Len(a)]
        BY <1>3, <1>4, <2>3, <4>1
      <4> QED
        BY <4>1, <4>2, <4>3
    <3> QED
      BY <1>1, <1>5, <3>1, <3>2
  <2>5. r = pq
    BY <1>1, <1>3, <1>4, <1>5, <2>3, <2>4, SeqEqual
  <2> QED
    BY <2>5 DEF Joins, pq
<1> HIDE DEF p, q, r, C
<1>8. Joins(FlattenSeq(r), FlattenSeq(p), FlattenSeq(q))
  BY <1>3, <1>4, <1>7, FlattenConcat
<1> QED
  BY <1>2, <1>3, <1>4, <1>5, <1>6, <1>8 DEF h, ab, DecodesOn

-----------------------------------------------------------------------------
(* bash: the lines of the output.                                          *)

\* Where lines break: at newlines and at both ends.
Breaks(text) ==
    {0, Len(text) + 1} \cup {i \in 1..Len(text) : text[i] = BashOutput!NewLine}

\* The break with n breaks before it, and all breaks in order.
Break(text, n) ==
    CHOOSE b \in Breaks(text) : BashOutput!Cardinality({c \in Breaks(text) : c < b}) = n

LineBreaks(text) == [k \in 1..Cardinality(Breaks(text)) |-> Break(text, k - 1)]

NewLines(text) == Cardinality(Reading!Places({BashOutput!NewLine}, text))

LEMMA BreaksIncrease ==
  ASSUME NEW X, NEW text \in Seq(X)
  PROVE  /\ LineBreaks(text) \in Seq(Nat)
         /\ Increases(LineBreaks(text), Breaks(text))
         /\ NewLines(text) \in Nat /\ Len(LineBreaks(text)) = NewLines(text) + 2
<1> DEFINE S == Breaks(text)
           P == {i \in 1..Len(text) : text[i] = BashOutput!NewLine}
           E == {0, Len(text) + 1}
           below == [a \in S |-> {b \in S : b < a}]
           q == LineBreaks(text)
<1>0. Len(text) \in Nat /\ S = E \cup P /\ E \cap P = {} /\ P \subseteq 1..Len(text)
  BY DEF Breaks
<1>1. \A a \in S : a \in Nat
  BY <1>0
<1>2. IsFiniteSet(S) /\ Cardinality(S) = Cardinality(P) + 2 /\ Cardinality(P) \in Nat
  <2>1. IsFiniteSet(1..Len(text)) /\ IsFiniteSet(E) /\ Cardinality(E) = 2
    <3>1. IsFiniteSet(1..Len(text))
      BY <1>0, FS_Interval
    <3> DEFINE one == {0}
               end == Len(text) + 1
    <3>2. IsFiniteSet(one) /\ Cardinality(one) = 1
      BY FS_Singleton
    <3>3. E = one \cup {end} /\ end \notin one
      BY <1>0
    <3> HIDE DEF E, one, end
    <3>4. IsFiniteSet(one \cup {end}) /\ Cardinality(one \cup {end}) = 1 + 1
      BY <3>2, <3>3, FS_AddElement
    <3> QED
      BY <3>1, <3>3, <3>4
  <2>2. IsFiniteSet(P)
    BY <1>0, <2>1, FS_Subset
  <2>4. Cardinality(E \cup P) = Cardinality(E) + Cardinality(P) - Cardinality(E \cap P)
        /\ IsFiniteSet(E \cup P) /\ Cardinality(P) \in Nat
    BY <2>1, <2>2, FS_Union, FS_CardinalityType
  <2>5. Cardinality(E \cap P) = 0
    BY <1>0, FS_EmptySet
  <2> HIDE DEF E, P, S
  <2>6. Cardinality(S) = Cardinality(E \cup P)
    BY <1>0
  <2> QED
    BY <1>0, <2>1, <2>4, <2>5, <2>6
<1>3. NewLines(text) = Cardinality(P)
  BY DEF NewLines, Reading!Places
<1> HIDE DEF S, P, E
<1>4. IsOrder(below, S) /\ \A a, b \in S : a \in below[b] => a < b
  BY <1>1 DEF IsOrder
<1>5. \A k \in 1..Cardinality(S) : \E a \in S : Cardinality(below[a]) = k - 1
  <2> HIDE DEF below
  <2> QED
    BY <1>2, <1>4, RanksExist
<1>6. ASSUME NEW k \in 1..Cardinality(S)
      PROVE  Break(text, k - 1) \in S /\ Cardinality(below[Break(text, k - 1)]) = k - 1
  <2>1. \A a \in S : BashOutput!Cardinality({c \in S : c < a}) = Cardinality(below[a])
    BY SameOutputOperators
  <2>2. \E a \in S : BashOutput!Cardinality({c \in S : c < a}) = k - 1
    BY <1>5, <2>1
  <2>3. Break(text, k - 1) = CHOOSE b \in S : BashOutput!Cardinality({c \in S : c < b}) = k - 1
    BY DEF Break, S
  <2> HIDE DEF below
  <2>4. Break(text, k - 1) \in S
        /\ BashOutput!Cardinality({c \in S : c < Break(text, k - 1)}) = k - 1
    BY <2>2, <2>3
  <2> QED
    BY <2>1, <2>4
<1> HIDE DEF below
<1>7. q = [k \in 1..Cardinality(S) |-> Break(text, k - 1)]
  BY DEF LineBreaks, S
<1> HIDE DEF q
<1>8. \A k \in 1..Cardinality(S) : q[k] \in S /\ Cardinality(below[q[k]]) = k - 1
  BY <1>6, <1>7
<1>9. q \in Seq(S) /\ Len(q) = Cardinality(S) /\ Len(q) \in Nat
  BY <1>2, <1>6, <1>7
<1>10. Ranks(q, below, S)
  BY <1>8, <1>9 DEF Ranks
<1>11. /\ \A i, j \in 1..Len(q) : i < j => q[i] \in below[q[j]]
       /\ \A a \in S : \E k \in 1..Len(q) : q[k] = a
  BY <1>2, <1>4, <1>10, RankedIsSorted
<1>12. \A k \in 1..Len(q) : q[k] \in S /\ q[k] \in Nat
  BY <1>1, <1>8, <1>9
<1>13. \A i, j \in 1..Len(q) : i < j => q[i] < q[j]
  BY <1>4, <1>11, <1>12
<1>14. q \in Seq(Nat)
  <2>1. S \subseteq Nat
    BY <1>1
  <2> QED
    BY <1>9, <2>1, SeqsOfMore
<1> QED
  BY <1>2, <1>3, <1>9, <1>11, <1>12, <1>13, <1>14 DEF Increases, S, q

\* Breaks of a text and its lines, which lie between them.
AreBreaks(br, text) ==
    /\ Len(br) \in Nat /\ Len(br) >= 2
    /\ \A k \in 1..Len(br) : br[k] \in 0..(Len(text) + 1)
    /\ \A k \in 2..Len(br) : br[k - 1] < br[k]
    /\ \A k \in 2..(Len(br) - 1) : br[k] \in 1..Len(text) /\ text[br[k]] = BashOutput!NewLine
    /\ br[1] = 0 /\ br[Len(br)] = Len(text) + 1

AreBetween(lines, br, text) ==
    /\ Len(lines) = Len(br) - 1
    /\ \A k \in 1..(Len(br) - 1) : lines[k] = SubSeq(text, br[k] + 1, br[k + 1] - 1)

LEMMA LinesAreBetween ==
  ASSUME NEW X, NEW text \in Seq(X)
  PROVE  /\ AreBreaks(LineBreaks(text), text)
         /\ AreBetween(BashOutput!Lines(text), LineBreaks(text), text)
         /\ BashOutput!Lines(text) \in Seq(Seq(X))
<1> DEFINE br == LineBreaks(text)
           N == Len(br)
           lines == BashOutput!Lines(text)
           S == Breaks(text)
<1>1. /\ N \in Nat /\ N >= 2 /\ Increases(br, S)
  BY BreaksIncrease
<1>2. Cardinality(S) = N
  <2>1. Cardinality(S) \in Nat
    <3>1. IsFiniteSet(S)
      <4>1. S \subseteq 0..(Len(text) + 1) /\ 0 \in Int /\ Len(text) + 1 \in Int
        BY DEF Breaks
      <4> QED
        BY <4>1, FS_Interval, FS_Subset
    <3> QED
      BY <3>1, FS_CardinalityType
  <2> QED
    BY <2>1 DEF LineBreaks
<1>3. lines = [k \in 1..(N - 1) |-> SubSeq(text, Break(text, k - 1) + 1, Break(text, k) - 1)]
  <2>1. lines = [k \in 1..(BashOutput!Cardinality(S) - 1) |->
                    SubSeq(text, Break(text, k - 1) + 1, Break(text, k) - 1)]
    BY DEF BashOutput!Lines, Breaks, Break
  <2> QED
    BY <1>2, <2>1, SameOutputOperators
<1>4. \A k \in 1..N : br[k] = Break(text, k - 1)
  BY <1>2 DEF LineBreaks
<1> HIDE DEF br, lines
<1>5. /\ \A k \in 1..N : br[k] \in S /\ br[k] \in Nat
      /\ \A i, j \in 1..N : i < j => br[i] < br[j]
      /\ \A a \in S : \E k \in 1..N : br[k] = a
  BY <1>1 DEF Increases
<1>6. Len(text) \in Nat /\ 1 \in 1..N /\ N \in 1..N
  BY <1>1
<1>7. S = {0, Len(text) + 1} \cup {i \in 1..Len(text) : text[i] = BashOutput!NewLine}
  BY DEF Breaks
<1> HIDE DEF S, N
<1>8. \A k \in 1..N : br[k] \in 0..(Len(text) + 1)
  BY <1>5, <1>6, <1>7
<1>9. br[1] = 0
  <2>1. PICK k \in 1..N : br[k] = 0
    BY <1>5, <1>7
  <2>2. SUFFICES ASSUME k # 1 PROVE FALSE
    BY <2>1
  <2>3. br[1] < br[k] /\ br[1] \in Nat
    BY <1>1, <1>5, <1>6, <2>2
  <2> QED
    BY <2>1, <2>3
<1>10. br[N] = Len(text) + 1
  <2>1. PICK k \in 1..N : br[k] = Len(text) + 1
    BY <1>5, <1>7
  <2>2. SUFFICES ASSUME k # N PROVE FALSE
    BY <2>1
  <2>3. br[k] < br[N] /\ br[N] \in 0..(Len(text) + 1)
    BY <1>1, <1>5, <1>6, <1>8, <2>2
  <2> QED
    BY <1>6, <2>1, <2>3
<1>11. ASSUME NEW k \in 2..N PROVE br[k - 1] < br[k]
  <2>1. k - 1 \in 1..N /\ k \in 1..N /\ k - 1 < k
    BY <1>1
  <2> QED
    BY <1>5, <2>1
<1>12. ASSUME NEW k \in 2..(N - 1)
       PROVE  br[k] \in 1..Len(text) /\ text[br[k]] = BashOutput!NewLine
  <2>1. k \in 1..N /\ 1 < k /\ k < N
    BY <1>1
  <2>2. br[1] < br[k] /\ br[k] < br[N] /\ br[k] \in S /\ br[k] \in Nat
    BY <1>5, <1>6, <2>1
  <2>3. br[k] # 0 /\ br[k] # Len(text) + 1
    BY <1>6, <1>9, <1>10, <2>2
  <2> QED
    BY <1>7, <2>2, <2>3
<1>13. AreBreaks(br, text)
  BY <1>1, <1>8, <1>9, <1>10, <1>11, <1>12 DEF AreBreaks, N
<1>14. AreBetween(lines, br, text)
  <2>1. Len(lines) = N - 1
    BY <1>1, <1>3
  <2>2. ASSUME NEW k \in 1..(N - 1) PROVE lines[k] = SubSeq(text, br[k] + 1, br[k + 1] - 1)
    <3>1. k \in 1..N /\ k + 1 \in 1..N /\ (k + 1) - 1 = k
      BY <1>1
    <3>2. br[k] = Break(text, k - 1) /\ br[k + 1] = Break(text, k)
      BY <1>4, <3>1
    <3> QED
      BY <1>3, <3>2
  <2> QED
    BY <2>1, <2>2 DEF AreBetween, N
<1>15. lines \in Seq(Seq(X))
  <2>1. ASSUME NEW k \in 1..(N - 1)
        PROVE  SubSeq(text, br[k] + 1, br[k + 1] - 1) \in Seq(X)
    <3>1. k \in 1..N /\ k + 1 \in 1..N
      BY <1>1
    <3>2. br[k] + 1 \in 1..(Len(text) + 2) /\ br[k + 1] - 1 \in Int /\ br[k + 1] - 1 <= Len(text)
      BY <1>6, <1>8, <3>1
    <3>3. \A i \in 1..Len(text) : text[i] \in X
      OBVIOUS
    <3> QED
      BY <1>6, <3>2, <3>3
  <2>2. \A k \in 1..(N - 1) : lines[k] \in Seq(X)
    BY <1>14, <2>1 DEF AreBetween, N
  <2> DEFINE h(k) == SubSeq(text, Break(text, k - 1) + 1, Break(text, k) - 1)
  <2>3. lines = [k \in 1..(N - 1) |-> h(k)]
    BY <1>3
  <2> HIDE DEF h
  <2>4. N - 1 \in Nat /\ lines = [k \in 1..(N - 1) |-> lines[k]]
    BY <1>1, <2>3
  <2> QED
    BY <2>2, <2>4
<1> QED
  BY <1>13, <1>14, <1>15 DEF br, lines

\* Parts of a text that meet make the part from the first to the last place.
LEMMA PartsJoin ==
  ASSUME NEW X, NEW text, NEW a \in Seq(X), NEW b \in Seq(X), NEW u \in Seq(X),
         NEW f \in Nat, NEW m \in Nat, NEW stop \in Nat, f <= m, m <= stop,
         IsPart(a, text, f, m), IsPart(b, text, m, stop), IsPart(u, text, f, stop)
  PROVE  Joins(u, a, b)
<1> DEFINE v == a \o b
<1>1. Joins(v, a, b)
  BY DEF Joins
<1> HIDE DEF v
<1>2. /\ v \in Seq(X) /\ Len(v) = Len(a) + Len(b)
      /\ \A i \in 1..Len(a) : v[i] = a[i]
      /\ \A i \in 1..Len(b) : v[Len(a) + i] = b[i]
  BY <1>1, JoinsProperties
<1>3. /\ Len(a) = m - f /\ \A j \in 1..Len(a) : a[j] = text[f + j]
      /\ Len(b) = stop - m /\ \A j \in 1..Len(b) : b[j] = text[m + j]
      /\ Len(u) = stop - f /\ \A j \in 1..Len(u) : u[j] = text[f + j]
  BY DEF IsPart
<1>4. ASSUME NEW k \in 1..Len(u) PROVE u[k] = v[k]
  <2>1. CASE k <= Len(a)
    BY <1>2, <1>3, <2>1
  <2>2. CASE k > Len(a)
    <3> DEFINE j == k - Len(a)
    <3>0. Len(a) = m - f /\ Len(b) = stop - m /\ k \in 1..(stop - f)
      BY <1>3
    <3>1. j \in 1..Len(b) /\ Len(a) + j = k /\ m + j = f + k
      BY <2>2, <3>0
    <3> HIDE DEF j
    <3>2. v[Len(a) + j] = b[j] /\ b[j] = text[m + j]
      BY <1>2, <1>3, <3>1
    <3> QED
      BY <1>3, <3>1, <3>2
  <2> QED
    BY <1>3, <2>1, <2>2
<1>5. Len(u) = Len(v)
  BY <1>2, <1>3
<1>6. u = v
  BY <1>2, <1>4, <1>5, SeqEqual
<1> QED
  BY <1>1, <1>6

\* A part of a part.
AgreeFrom(part, a, b, text, f) ==
    SubSeq(part, a + 1, b) = SubSeq(text, (f + a) + 1, f + b)

LEMMA PartOfPart ==
  ASSUME NEW X, NEW text \in Seq(X), NEW f \in Nat, NEW stop \in Nat, stop <= Len(text),
         NEW part \in Seq(X), IsPart(part, text, f, stop),
         NEW a \in Nat, NEW b \in Nat, a <= b, b <= Len(part)
  PROVE  AgreeFrom(part, a, b, text, f)
<1> DEFINE s == SubSeq(part, a + 1, b)
           t == SubSeq(text, (f + a) + 1, f + b)
<1>1. Len(part) = stop - f /\ \A j \in 1..Len(part) : part[j] = text[f + j]
  BY DEF IsPart
<1>2. f + a \in Nat /\ f + b \in 0..Len(text) /\ f + a <= f + b /\ b \in 0..Len(part)
  BY <1>1
<1>3. /\ s \in Seq(X) /\ Len(s) = b - a
      /\ \A j \in 1..Len(s) : s[j] = part[a + j]
  BY <1>2, PartIs DEF IsPart
<1>4. /\ t \in Seq(X) /\ Len(t) = (f + b) - (f + a)
      /\ \A j \in 1..Len(t) : t[j] = text[(f + a) + j]
  <2> DEFINE g == f + a
             e == f + b
  <2>1. g \in Nat /\ e \in 0..Len(text) /\ g <= e
    BY <1>2
  <2> HIDE DEF g, e
  <2>2. SubSeq(text, g + 1, e) \in Seq(X) /\ IsPart(SubSeq(text, g + 1, e), text, g, e)
    BY <2>1, PartIs
  <2> QED
    BY <2>2 DEF g, e, IsPart
<1> HIDE DEF s, t
<1>5. ASSUME NEW j \in 1..Len(s) PROVE s[j] = t[j]
  <2>1. j \in 1..Len(t) /\ a + j \in 1..Len(part) /\ f + (a + j) = (f + a) + j
    BY <1>2, <1>3, <1>4
  <2> QED
    BY <1>1, <1>3, <1>4, <2>1
<1>6. Len(s) = Len(t)
  BY <1>2, <1>3, <1>4
<1>7. s = t
  BY <1>3, <1>4, <1>5, <1>6, SeqEqual
<1> QED
  BY <1>7 DEF s, t, AgreeFrom

\* A text is its lines joined.
LEMMA LinesJoin ==
  ASSUME NEW X, NEW text \in Seq(X)
  PROVE  BashOutput!Join(BashOutput!Lines(text)) = text
<1> DEFINE Y == X \cup {BashOutput!NewLine}
           one == <<BashOutput!NewLine>>
           longer == one \o text
           br == LineBreaks(text)
           lines == BashOutput!Lines(text)
           N == Len(lines)
           end == Len(longer)
           ended == [i \in DOMAIN lines |-> one \o lines[i]]
           onward == [c \in 0..N |-> SubSeq(longer, br[c + 1] + 1, end)]
<1>0. Joins(longer, one, text) /\ X \subseteq Y /\ one \in Seq(Y) /\ Len(one) = 1
      /\ one[1] = BashOutput!NewLine
  BY DEF Joins
<1> HIDE DEF Y, one, longer
<1>1. text \in Seq(Y) /\ Len(text) \in Nat
  BY <1>0, SeqsOfMore
<1>2. /\ longer \in Seq(Y) /\ end = Len(text) + 1 /\ end \in Nat
      /\ longer[1] = BashOutput!NewLine
      /\ \A i \in 1..Len(text) : longer[1 + i] = text[i]
  <2>1. /\ longer \in Seq(Y) /\ Len(longer) = Len(one) + Len(text)
        /\ \A i \in 1..Len(one) : longer[i] = one[i]
        /\ \A i \in 1..Len(text) : longer[Len(one) + i] = text[i]
    <3>1. one \in Seq(Y) /\ text \in Seq(Y) /\ Joins(longer, one, text)
      BY <1>0, <1>1
    <3>2. ASSUME NEW s \in Seq(Y)
          PROVE  Joins(longer, one, s) =>
                    /\ longer \in Seq(Y) /\ Len(longer) = Len(one) + Len(s)
                    /\ \A i \in 1..Len(one) : longer[i] = one[i]
                    /\ \A i \in 1..Len(s) : longer[Len(one) + i] = s[i]
      BY <3>1, JoinsProperties
    <3> QED
      BY <3>1, <3>2, Zenon
  <2> QED
    BY <1>0, <1>1, <2>1
<1> HIDE DEF end
<1>3. AreBreaks(br, text) /\ AreBetween(lines, br, text) /\ lines \in Seq(Seq(Y))
  BY <1>1, LinesAreBetween
<1> HIDE DEF br, lines
<1>4. /\ Len(br) = N + 1 /\ N \in Nat /\ N >= 1
      /\ \A k \in 1..(N + 1) : br[k] \in 0..end
      /\ \A k \in 1..N : br[k] < br[k + 1]
      /\ \A k \in 1..N : br[k] = 0 \/ (br[k] \in 1..Len(text) /\ text[br[k]] = BashOutput!NewLine)
      /\ br[1] = 0 /\ br[N + 1] = end
      /\ \A k \in 1..N : lines[k] = SubSeq(text, br[k] + 1, br[k + 1] - 1) /\ lines[k] \in Seq(Y)
  <2>1. Len(br) = N + 1 /\ N \in Nat /\ N >= 1
    BY <1>3 DEF AreBreaks, AreBetween
  <2>2. ASSUME NEW k \in 1..N PROVE br[k] < br[k + 1]
    <3>1. k + 1 \in 2..Len(br) /\ (k + 1) - 1 = k
      BY <2>1
    <3>2. br[(k + 1) - 1] < br[k + 1]
      BY <1>3, <3>1 DEF AreBreaks
    <3> QED
      BY <3>1, <3>2
  <2>3. ASSUME NEW k \in 1..N
        PROVE  br[k] = 0 \/ (br[k] \in 1..Len(text) /\ text[br[k]] = BashOutput!NewLine)
    <3>1. k = 1 \/ k \in 2..(Len(br) - 1)
      BY <2>1
    <3> QED
      BY <1>3, <3>1 DEF AreBreaks
  <2>4. \A k \in 1..(N + 1) : br[k] \in 0..end
    BY <1>2, <1>3, <2>1 DEF AreBreaks
  <2>5. br[1] = 0 /\ br[N + 1] = end
    BY <1>2, <1>3, <2>1 DEF AreBreaks
  <2>6. \A k \in 1..N : lines[k] = SubSeq(text, br[k] + 1, br[k + 1] - 1) /\ lines[k] \in Seq(Y)
    BY <1>3, <2>1 DEF AreBetween
  <2> QED
    BY <2>1, <2>2, <2>3, <2>4, <2>5, <2>6
<1>5. DOMAIN lines = 1..N
  BY <1>3
<1> HIDE DEF N
<1>6. ASSUME NEW k \in 1..N
      PROVE  one \o lines[k] \in Seq(Y) /\ IsPart(one \o lines[k], longer, br[k], br[k + 1])
  <2> DEFINE p == one \o lines[k]
             b == br[k]
             e == br[k + 1]
             line == lines[k]
  <2>1. k + 1 \in 1..(N + 1) /\ k \in 1..(N + 1)
    BY <1>4
  <2>2. b \in Nat /\ e \in Nat /\ b < e /\ e <= end /\ line \in Seq(Y)
        /\ line = SubSeq(text, b + 1, e - 1)
        /\ (b = 0 \/ (b \in 1..Len(text) /\ text[b] = BashOutput!NewLine))
    <3>1. b \in 0..end /\ e \in 0..end /\ b < e
      BY <1>4, <2>1
    <3>2. b \in Nat /\ e \in Nat /\ e <= end
      BY <1>2, <3>1
    <3>3. line \in Seq(Y) /\ line = SubSeq(text, b + 1, e - 1)
      BY <1>4
    <3>4. b = 0 \/ (b \in 1..Len(text) /\ text[b] = BashOutput!NewLine)
      BY <1>4
    <3> QED
      BY <3>1, <3>2, <3>3, <3>4
  <2>3. Joins(p, one, line)
    BY DEF Joins
  <2> HIDE DEF p, b, e, line
  <2>4. /\ p \in Seq(Y) /\ Len(p) = Len(one) + Len(line)
        /\ \A i \in 1..Len(one) : p[i] = one[i]
        /\ \A i \in 1..Len(line) : p[Len(one) + i] = line[i]
    <3>1. one \in Seq(Y) /\ line \in Seq(Y)
      BY <1>0, <2>2
    <3> QED
      BY <2>3, <3>1, JoinsProperties
  <2>5. Len(line) = (e - 1) - b /\ \A i \in 1..Len(line) : line[i] = text[b + i]
    <3> DEFINE stop == e - 1
    <3>1. stop \in 0..Len(text) /\ b <= stop
      BY <1>1, <1>2, <2>2
    <3> HIDE DEF stop
    <3>2. IsPart(SubSeq(text, b + 1, stop), text, b, stop)
      BY <2>2, <3>1, PartIs
    <3> QED
      BY <2>2, <3>2 DEF stop, IsPart
  <2>6. Len(p) = e - b
    BY <1>0, <2>2, <2>4, <2>5
  <2>7. ASSUME NEW j \in 1..Len(p) PROVE p[j] = longer[b + j]
    <3>1. CASE j = 1
      <4>1. p[1] = BashOutput!NewLine
        BY <1>0, <2>4
      <4>2. longer[b + 1] = BashOutput!NewLine
        <5>1. CASE b = 0
          BY <1>2, <5>1
        <5>2. CASE b \in 1..Len(text) /\ text[b] = BashOutput!NewLine
          <6>1. longer[1 + b] = text[b] /\ 1 + b = b + 1
            BY <1>2, <5>2
          <6> QED
            BY <5>2, <6>1
        <5> QED
          BY <2>2, <5>1, <5>2
      <4> QED
        BY <3>1, <4>1, <4>2
    <3>2. CASE j # 1
      <4> DEFINE i == j - 1
      <4>1. i \in 1..Len(line) /\ j = Len(one) + i /\ b + i \in 1..Len(text) /\ b + j = 1 + (b + i)
        BY <1>0, <1>1, <1>2, <2>2, <2>5, <2>6, <3>2
      <4> HIDE DEF i
      <4>2. p[Len(one) + i] = text[b + i]
        BY <2>4, <2>5, <4>1
      <4>3. longer[1 + (b + i)] = text[b + i]
        BY <1>2, <4>1
      <4> QED
        BY <4>1, <4>2, <4>3
    <3> QED
      BY <3>1, <3>2
  <2> QED
    BY <2>4, <2>6, <2>7 DEF IsPart, p, b, e, line
<1>7. ended \in Seq(Seq(Y)) /\ Len(ended) = N /\ \A k \in 1..N : ended[k] = one \o lines[k]
  <2> DEFINE h(k) == one \o lines[k]
  <2>1. ended = [k \in 1..N |-> h(k)]
    BY <1>5
  <2>2. \A k \in 1..N : h(k) \in Seq(Y)
    BY <1>6
  <2> HIDE DEF h, ended
  <2>3. ended \in Seq(Seq(Y)) /\ Len(ended) = N /\ \A k \in 1..N : ended[k] = h(k)
    BY <1>4, <2>1, <2>2
  <2> QED
    BY <2>3 DEF h
<1>8. ASSUME NEW c \in 0..N
      PROVE  /\ SubSeq(longer, br[c + 1] + 1, end) \in Seq(Y)
             /\ IsPart(SubSeq(longer, br[c + 1] + 1, end), longer, br[c + 1], end)
  <2> DEFINE b == br[c + 1]
  <2>1. b \in Nat /\ b <= end /\ end \in 0..Len(longer)
    <3>1. c + 1 \in 1..(N + 1)
      BY <1>4
    <3> QED
      BY <1>2, <1>4, <3>1 DEF end
  <2> HIDE DEF b
  <2>2. SubSeq(longer, b + 1, end) \in Seq(Y) /\ IsPart(SubSeq(longer, b + 1, end), longer, b, end)
    BY <1>2, <2>1, PartIs
  <2> QED
    BY <2>2 DEF b
<1>9. /\ onward \in [0..N -> Seq(Y)]
      /\ \A c \in 0..N : onward[c] \in Seq(Y) /\ IsPart(onward[c], longer, br[c + 1], end)
  BY <1>8
<1> HIDE DEF ended, onward
<1>10. onward[N] = <<>>
  <2>1. N \in 0..N
    BY <1>4
  <2>2. onward[N] \in Seq(Y) /\ IsPart(onward[N], longer, end, end)
    BY <1>4, <1>9, <2>1
  <2>3. Len(onward[N]) = 0
    BY <1>2, <2>2 DEF IsPart
  <2> QED
    BY <2>2, <2>3
<1>11. ASSUME NEW c \in 0..(N - 1) PROVE Joins(onward[c], ended[c + 1], onward[c + 1])
  <2> DEFINE k == c + 1
             b == br[k]
             e == br[k + 1]
  <2>1. k \in 1..N /\ c \in 0..N /\ k \in 0..N /\ k + 1 \in 1..(N + 1) /\ k \in 1..(N + 1)
    BY <1>4
  <2>2. onward[c] \in Seq(Y) /\ IsPart(onward[c], longer, b, end)
    BY <1>9, <2>1
  <2> HIDE DEF k
  <2>3. onward[k] \in Seq(Y) /\ IsPart(onward[k], longer, e, end)
    BY <1>9, <2>1
  <2>4. ended[k] \in Seq(Y) /\ IsPart(ended[k], longer, b, e)
    BY <1>6, <1>7, <2>1
  <2>5. b \in Nat /\ e \in Nat /\ b <= e /\ e <= end
    BY <1>2, <1>4, <2>1
  <2> HIDE DEF b, e
  <2>6. Joins(onward[c], ended[k], onward[k])
    BY <1>2, <2>2, <2>3, <2>4, <2>5, PartsJoin
  <2> QED
    BY <2>6 DEF k
<1>12. Onwards(onward, ended, Y)
  BY <1>7, <1>9, <1>10, <1>11 DEF Onwards
<1>13. FlattenSeq(ended) = longer
  <2>1. FlattenSeq(ended) = onward[0]
    BY <1>7, <1>12, FlattenOnward
  <2>2. onward[0] \in Seq(Y) /\ IsPart(onward[0], longer, 0, end)
    <3>1. 0 \in 0..N /\ 0 + 1 = 1
      BY <1>4
    <3> QED
      BY <1>4, <1>9, <3>1
  <2>3. Len(onward[0]) = Len(longer) /\ \A j \in 1..Len(longer) : onward[0][j] = longer[j]
    BY <1>2, <2>2 DEF IsPart, end
  <2> QED
    BY <1>2, <2>1, <2>2, <2>3, SeqEqual
<1>14. BashOutput!Join(lines) = Tail(longer)
  <2>1. lines # <<>>
    BY <1>4, <1>5
  <2>2. BashOutput!Join(lines) = Tail(BashOutput!FlattenSeq(ended))
    BY <2>1 DEF BashOutput!Join, ended, one
  <2> QED
    BY <1>13, <2>2, SameOutputOperators
<1>15. Tail(longer) = text
  <2>1. longer # <<>>
    BY <1>1, <1>2 DEF end
  <2>2. /\ Tail(longer) \in Seq(Y) /\ Len(Tail(longer)) = Len(longer) - 1
        /\ \A j \in 1..(Len(longer) - 1) : Tail(longer)[j] = longer[j + 1]
    BY <1>2, <2>1, HeadTailProperties
  <2>3. Len(Tail(longer)) = Len(text)
    BY <1>1, <1>2, <2>2 DEF end
  <2>4. ASSUME NEW j \in 1..Len(text) PROVE Tail(longer)[j] = text[j]
    <3>1. j \in 1..(Len(longer) - 1) /\ j + 1 = 1 + j
      BY <1>1, <1>2 DEF end
    <3> QED
      BY <1>2, <2>2, <3>1
  <2> QED
    BY <1>1, <2>2, <2>3, <2>4, SeqEqual
<1> QED
  BY <1>14, <1>15 DEF lines

\* What follows a break: its lines are the lines of the text from there on.
LEMMA LinesOfTheRest ==
  ASSUME NEW X, NEW text \in Seq(X), NEW br, br = LineBreaks(text),
         NEW j \in 1..(Len(br) - 1), NEW rest \in Seq(X), IsPart(rest, text, br[j], Len(text)),
         NEW lines, lines = BashOutput!Lines(text)
  PROVE  BashOutput!Lines(rest) = SubSeq(lines, j, Len(lines))
<1> DEFINE B == Len(br)
           M == (B - j) + 1
           d == br[j]
           end == Len(text)
           e == [k \in 1..M |-> br[(j - 1) + k] - d]
           all == BashOutput!Lines(rest)
           part == SubSeq(lines, j, Len(lines))
<1>1. AreBreaks(br, text) /\ AreBetween(lines, br, text) /\ lines \in Seq(Seq(X))
      /\ Increases(br, Breaks(text))
  BY LinesAreBetween, BreaksIncrease
<1>2. /\ B \in Nat /\ B >= 2 /\ end \in Nat
      /\ \A k \in 1..B : br[k] \in 0..(end + 1) /\ br[k] \in Breaks(text)
      /\ br[B] = end + 1 /\ Len(lines) = B - 1
      /\ \A i, k \in 1..B : i < k => br[i] < br[k]
      /\ \A a \in Breaks(text) : \E k \in 1..B : br[k] = a
      /\ \A k \in 1..(B - 1) : lines[k] = SubSeq(text, br[k] + 1, br[k + 1] - 1)
  <2>1. /\ B \in Nat /\ B >= 2 /\ end \in Nat
        /\ \A k \in 1..B : br[k] \in 0..(end + 1)
        /\ br[B] = end + 1
    BY <1>1 DEF AreBreaks
  <2>2. /\ \A k \in 1..B : br[k] \in Breaks(text)
        /\ \A i, k \in 1..B : i < k => br[i] < br[k]
        /\ \A a \in Breaks(text) : \E k \in 1..B : br[k] = a
    BY <1>1 DEF Increases
  <2>3. /\ Len(lines) = B - 1
        /\ \A k \in 1..(B - 1) : lines[k] = SubSeq(text, br[k] + 1, br[k + 1] - 1)
    BY <1>1 DEF AreBetween
  <2> QED
    BY <2>1, <2>2, <2>3
<1> HIDE DEF end
<1>3. /\ j \in 1..B /\ j < B /\ M \in Nat /\ M >= 2 /\ B = (j - 1) + M /\ B \in 1..B
      /\ \A k \in 1..M : (j - 1) + k \in 1..B
      /\ \A k \in 1..B : j <= k => k - (j - 1) \in 1..M /\ (j - 1) + (k - (j - 1)) = k
  <2>1. B \in Nat /\ B >= 2 /\ j \in 1..(B - 1)
    BY <1>2
  <2> HIDE DEF B
  <2> QED
    BY <2>1
<1> HIDE DEF B, M
<1>4. d \in 0..end /\ d \in Nat
  <2>1. br[j] < br[B] /\ br[j] \in 0..(end + 1) /\ br[B] = end + 1
    BY <1>2, <1>3
  <2> QED
    BY <1>2, <2>1
<1> HIDE DEF d
<1>5. IsPart(rest, text, d, end)
  BY DEF d, end
<1>6. /\ Len(rest) = end - d /\ Len(rest) \in Nat
      /\ \A i \in 1..Len(rest) : rest[i] = text[d + i]
  <2>1. Len(rest) = end - d /\ \A i \in 1..Len(rest) : rest[i] = text[d + i]
    BY <1>5 DEF IsPart
  <2>2. Len(rest) \in Nat
    BY <1>5
  <2> QED
    BY <2>1, <2>2
<1>7. ASSUME NEW k \in 1..M
      PROVE  /\ br[(j - 1) + k] \in Nat /\ d <= br[(j - 1) + k] /\ br[(j - 1) + k] <= end + 1
             /\ (k # 1 => d < br[(j - 1) + k]) /\ (k = 1 => br[(j - 1) + k] = d)
             /\ (k # M => br[(j - 1) + k] < end + 1) /\ (k = M => br[(j - 1) + k] = end + 1)
             /\ br[(j - 1) + k] \in Breaks(text)
             /\ e[k] = br[(j - 1) + k] - d
  <2> DEFINE i == (j - 1) + k
  <2>1. i \in 1..B /\ (k # 1 => j < i) /\ (k = 1 => i = j) /\ (k # M => i < B) /\ (k = M => i = B)
    BY <1>3
  <2>2. e[k] = br[i] - d
    OBVIOUS
  <2> HIDE DEF i, e
  <2>3. br[i] \in 0..(end + 1) /\ br[i] \in Breaks(text)
    BY <1>2, <2>1
  <2>4. (j < i => d < br[i]) /\ (i = j => br[i] = d)
    BY <1>2, <1>3, <2>1 DEF d
  <2>5. (i < B => br[i] < end + 1) /\ (i = B => br[i] = end + 1)
    <3>1. i < B => br[i] < br[B]
      BY <1>2, <1>3, <2>1
    <3>2. br[B] = end + 1
      BY <1>2
    <3> QED
      BY <3>1, <3>2
  <2>6. br[i] \in Nat /\ br[i] <= end + 1 /\ d <= br[i]
    BY <1>2, <1>4, <2>1, <2>3, <2>4
  <2> QED
    BY <2>1, <2>2, <2>3, <2>4, <2>5, <2>6 DEF i
<1>8. Len(e) = M /\ e \in Seq(Nat)
  <2> DEFINE h(k) == br[(j - 1) + k] - d
  <2>1. \A k \in 1..M : h(k) \in Nat
    BY <1>4, <1>7
  <2>2. e = [k \in 1..M |-> h(k)]
    OBVIOUS
  <2> HIDE DEF h, e
  <2> QED
    BY <1>3, <2>1, <2>2
<1> HIDE DEF e
<1>9. Increases(e, Breaks(rest))
  <2>0. Breaks(rest) = {0, (end - d) + 1}
            \cup {i \in 1..(end - d) : text[d + i] = BashOutput!NewLine}
    BY <1>6 DEF Breaks
  <2>1. ASSUME NEW k \in 1..M PROVE e[k] \in Breaks(rest) /\ e[k] \in Nat
    <3> DEFINE b == br[(j - 1) + k]
    <3>1. /\ b \in Nat /\ d <= b /\ b <= end + 1 /\ b \in Breaks(text) /\ e[k] = b - d
      BY <1>7
    <3> HIDE DEF b
    <3>2. b = d \/ b = end + 1 \/ (b - d \in 1..(end - d) /\ b # 0 /\ b # Len(text) + 1)
      BY <1>2, <1>4, <3>1 DEF end
    <3>3. d + (b - d) = b /\ (b = d => b - d = 0) /\ (b = end + 1 => b - d = (end - d) + 1)
          /\ b - d \in Nat
      BY <1>2, <1>4, <3>1
    <3>4. b # 0 /\ b # Len(text) + 1 => text[b] = BashOutput!NewLine
      BY <3>1 DEF Breaks
    <3> QED
      BY <2>0, <3>1, <3>2, <3>3, <3>4
  <2>2. ASSUME NEW i \in 1..M, NEW k \in 1..M, i < k PROVE e[i] < e[k]
    <3> DEFINE a == br[(j - 1) + i]
               b == br[(j - 1) + k]
    <3>1. (j - 1) + i < (j - 1) + k /\ (j - 1) + i \in 1..B /\ (j - 1) + k \in 1..B
      BY <1>3, <2>2
    <3>2. a < b
      BY <1>2, <3>1
    <3>3. a \in Nat /\ b \in Nat /\ e[i] = a - d /\ e[k] = b - d
      BY <1>7
    <3> HIDE DEF a, b
    <3> QED
      BY <1>4, <3>2, <3>3
  <2>3. ASSUME NEW a \in Breaks(rest) PROVE \E k \in 1..M : e[k] = a
    <3>1. a = 0 \/ a = (end - d) + 1
          \/ (a \in 1..(end - d) /\ text[d + a] = BashOutput!NewLine)
      BY <2>0
    <3>2. CASE a = 0
      <4>1. 1 \in 1..M
        BY <1>3
      <4>2. e[1] = d - d
        BY <1>7, <4>1
      <4> QED
        BY <1>4, <3>2, <4>1, <4>2
    <3>3. CASE a # 0
      <4>1. a \in Nat /\ d + a \in Breaks(text) /\ d < d + a
        <5>1. CASE a = (end - d) + 1
          <6>1. d + a = Len(text) + 1 /\ a \in Nat /\ d < d + a
            BY <1>2, <1>4, <5>1 DEF end
          <6> QED
            BY <6>1 DEF Breaks
        <5>2. CASE a \in 1..(end - d) /\ text[d + a] = BashOutput!NewLine
          <6>1. d + a \in 1..Len(text) /\ a \in Nat /\ d < d + a
            BY <1>2, <1>4, <5>2 DEF end
          <6> QED
            BY <5>2, <6>1 DEF Breaks
        <5> QED
          BY <3>1, <3>3, <5>1, <5>2
      <4>2. PICK m \in 1..B : br[m] = d + a
        BY <1>2, <4>1
      <4>3. j <= m
        <5>1. SUFFICES ASSUME m < j PROVE FALSE
          BY <1>3
        <5>2. br[m] < br[j]
          BY <1>2, <1>3, <5>1
        <5> QED
          BY <1>4, <4>1, <4>2, <5>2 DEF d
      <4> DEFINE k == m - (j - 1)
      <4>4. k \in 1..M /\ (j - 1) + k = m
        BY <1>3, <4>3
      <4> HIDE DEF k
      <4>5. e[k] = (d + a) - d
        BY <1>7, <4>2, <4>4
      <4> QED
        BY <1>4, <4>1, <4>4, <4>5
    <3> QED
      BY <3>2, <3>3
  <2> QED
    BY <1>3, <1>8, <2>1, <2>2, <2>3 DEF Increases
<1>10. LineBreaks(rest) = e
  <2> DEFINE o == LineBreaks(rest)
  <2>1. o \in Seq(Nat) /\ Increases(o, Breaks(rest))
    BY <1>5, BreaksIncrease
  <2> HIDE DEF o
  <2>2. o = e
    BY <1>8, <1>9, <2>1, OneIncreasing
  <2> QED
    BY <2>2 DEF o
<1>11. all \in Seq(Seq(X)) /\ AreBetween(all, e, rest)
  BY <1>5, <1>10, LinesAreBetween
<1> HIDE DEF all
<1>12. Len(all) = M - 1 /\ \A k \in 1..(M - 1) : all[k] = SubSeq(rest, e[k] + 1, e[k + 1] - 1)
  BY <1>8, <1>11 DEF AreBetween
<1>13. /\ part \in Seq(Seq(X)) /\ Len(part) = M - 1
       /\ \A k \in 1..(M - 1) : part[k] = lines[(j - 1) + k]
  <2>1. j - 1 \in Nat /\ (j - 1) + 1 = j /\ j - 1 <= Len(lines) /\ Len(lines) - (j - 1) = M - 1
    BY <1>2, <1>3
  <2> DEFINE i == j - 1
  <2>2. part = SubSeq(lines, i + 1, Len(lines))
    BY <2>1
  <2> HIDE DEF i, part
  <2>3. /\ part \in Seq(Seq(X))
        /\ Len(part) = IF i <= Len(lines) THEN Len(lines) - i ELSE 0
        /\ \A k \in 1..(Len(lines) - i) : part[k] = lines[i + k]
    BY <1>1, <2>1, <2>2, LastLines DEF i
  <2> QED
    BY <2>1, <2>3 DEF i
<1> HIDE DEF part
<1>14. ASSUME NEW k \in 1..(M - 1) PROVE all[k] = part[k]
  <2> DEFINE i == (j - 1) + k
             b == br[i]
             c == br[i + 1]
             f == e[k]
             g == e[k + 1] - 1
  <2>1. k \in 1..M /\ k + 1 \in 1..M /\ (j - 1) + (k + 1) = i + 1 /\ i \in 1..(B - 1)
        /\ i + 1 \in 1..B /\ i \in 1..B /\ i < i + 1
    BY <1>3
  <2>2. b \in Nat /\ f = b - d /\ d <= b
    BY <1>7, <2>1
  <2>3. br[(j - 1) + (k + 1)] \in Nat /\ br[(j - 1) + (k + 1)] <= end + 1
        /\ e[k + 1] = br[(j - 1) + (k + 1)] - d
    BY <1>7, <2>1
  <2>4. c \in Nat /\ c <= end + 1 /\ e[k + 1] = c - d
    BY <2>1, <2>3
  <2>5. b < c
    BY <1>2, <2>1
  <2>6. all[k] = SubSeq(rest, f + 1, g)
    BY <1>12
  <2>7. part[k] = SubSeq(text, b + 1, c - 1)
    BY <1>2, <1>13, <2>1
  <2>8. f \in Nat /\ g \in Nat /\ f <= g /\ g <= Len(rest) /\ d + f = b /\ d + g = c - 1
    <3>1. g = (c - d) - 1 /\ Len(rest) = end - d /\ end \in Nat
      BY <1>2, <1>6, <2>4
    <3>2. f = b - d /\ b \in Nat /\ d \in Nat /\ d <= b /\ c \in Nat /\ c <= end + 1 /\ b < c
      BY <1>4, <2>2, <2>4, <2>5
    <3>3. ASSUME NEW x \in Nat, NEW y \in Nat, NEW o \in Nat, NEW n \in Nat,
                 o <= x, x < y, y <= n + 1
          PROVE  /\ x - o \in Nat /\ (y - o) - 1 \in Nat /\ x - o <= (y - o) - 1
                 /\ (y - o) - 1 <= n - o /\ o + (x - o) = x /\ o + ((y - o) - 1) = y - 1
      BY <3>3
    <3> HIDE DEF f, g, b, c, i
    <3>4. /\ b - d \in Nat /\ (c - d) - 1 \in Nat /\ b - d <= (c - d) - 1
          /\ (c - d) - 1 <= end - d /\ d + (b - d) = b /\ d + ((c - d) - 1) = c - 1
      BY <3>1, <3>2, <3>3
    <3>5. f = b - d /\ g = (c - d) - 1 /\ Len(rest) = end - d
      BY <3>1, <3>2
    <3> QED
      BY <3>4, <3>5, Zenon
  <2> HIDE DEF f, g, b, c, i
  <2>9. SubSeq(rest, f + 1, g) = SubSeq(text, (d + f) + 1, d + g)
    <3>1. end \in Nat /\ end <= Len(text)
      BY <1>2 DEF end
    <3>2. IsPart(rest, text, d, end) /\ d \in Nat
      BY <1>4, <1>5
    <3>3. AgreeFrom(rest, f, g, text, d)
      BY <2>8, <3>1, <3>2, PartOfPart
    <3> QED
      BY <3>3 DEF AgreeFrom
  <2> QED
    BY <2>6, <2>7, <2>8, <2>9
<1>15. all = part
  BY <1>11, <1>12, <1>13, <1>14, SeqEqual
<1> QED
  BY <1>15 DEF all, part

-----------------------------------------------------------------------------
(* bash: what truncation leaves.                                           *)

\* A text from a place on has no fewer bytes than from a later one.
RestOf(text, c) == SubSeq(text, c + 1, Len(text))

LEMMA RestsShrink ==
  ASSUME NEW X, NEW text \in Seq(X), NEW c \in Nat, NEW d \in Nat, c <= d, d <= Len(text)
  PROVE  /\ RestOf(text, d) \in Seq(X)
         /\ Reading!Bytes(RestOf(text, c)) \in Nat /\ Reading!Bytes(RestOf(text, d)) \in Nat
         /\ Reading!Bytes(RestOf(text, d)) <= Reading!Bytes(RestOf(text, c))
<1> DEFINE r == RestOf(text, c)
           s == RestOf(text, d)
           end == Len(text)
<1>1. end \in 0..Len(text) /\ c <= end /\ d <= end /\ end \in Nat
  OBVIOUS
<1>2. r \in Seq(X) /\ IsPart(r, text, c, end)
  BY <1>1, PartIs DEF RestOf
<1>3. s \in Seq(X) /\ IsPart(s, text, d, end)
  BY <1>1, PartIs DEF RestOf
<1> HIDE DEF r, s, end
<1>4. /\ Len(r) = end - c /\ \A j \in 1..Len(r) : r[j] = text[c + j]
      /\ Len(s) = end - d /\ \A j \in 1..Len(s) : s[j] = text[d + j]
  BY <1>2, <1>3 DEF IsPart
<1>5. FoundAt(s, r, d - c)
  <2>1. (d - c) + Len(s) <= Len(r)
    BY <1>1, <1>4
  <2>2. ASSUME NEW j \in 1..Len(s) PROVE r[(d - c) + j] = s[j]
    <3>1. (d - c) + j \in 1..Len(r) /\ c + ((d - c) + j) = d + j
      BY <1>1, <1>4
    <3> QED
      BY <1>4, <3>1
  <2> QED
    BY <2>1, <2>2 DEF FoundAt
<1>6. d - c \in Nat
  OBVIOUS
<1>7. /\ Reading!Bytes(s) \in Nat /\ Reading!Bytes(r) \in Nat
      /\ Reading!Bytes(s) <= Reading!Bytes(r)
  BY <1>2, <1>3, <1>5, <1>6, BytesOfAPart
<1> QED
  BY <1>3, <1>7 DEF r, s

\* The last n lines, and what they take.
LastOf(lines, n) == BashOutput!EdgeLines(lines, "tail", n)
Weight(lines, n) == BashOutput!Bytes(BashOutput!Join(LastOf(lines, n)))

\* The last lines of a text, joined, are the text from the break before them.
LEMMA LastLinesJoined ==
  ASSUME NEW X, NEW text \in Seq(X), NEW br, br = LineBreaks(text),
         NEW lines, lines = BashOutput!Lines(text), NEW n \in 1..Len(lines)
  PROVE  /\ (Len(lines) - n) + 1 \in 1..(Len(br) - 1) /\ Len(br) = Len(lines) + 1
         /\ br[(Len(lines) - n) + 1] \in 0..Len(text)
         /\ BashOutput!Lines(RestOf(text, br[(Len(lines) - n) + 1])) = LastOf(lines, n)
         /\ BashOutput!Join(LastOf(lines, n)) = RestOf(text, br[(Len(lines) - n) + 1])
<1> DEFINE N == Len(lines)
           j == (N - n) + 1
           c == br[j]
           end == Len(text)
           rest == RestOf(text, c)
<1>1. AreBreaks(br, text) /\ AreBetween(lines, br, text)
  BY LinesAreBetween
<1>2. Increases(br, Breaks(text))
  BY BreaksIncrease
<1>3. Len(br) \in Nat /\ Len(br) >= 2 /\ N = Len(br) - 1 /\ end \in Nat
  BY <1>1 DEF AreBreaks, AreBetween
<1>4. j \in 1..(Len(br) - 1) /\ j \in 1..Len(br) /\ Len(br) \in 1..Len(br) /\ j < Len(br)
  BY <1>3
<1>5. LastOf(lines, n) = SubSeq(lines, j, Len(lines))
  BY DEF LastOf, BashOutput!EdgeLines
<1> HIDE DEF j
<1>6. br[j] \in 0..(end + 1) /\ br[Len(br)] = end + 1 /\ br[j] < br[Len(br)]
  <2>1. br[j] \in 0..(end + 1) /\ br[Len(br)] = end + 1
    BY <1>1, <1>4 DEF AreBreaks
  <2>2. br[j] < br[Len(br)]
    BY <1>2, <1>4 DEF Increases
  <2> QED
    BY <2>1, <2>2
<1>7. c \in 0..end /\ c \in Nat /\ c <= end /\ end \in 0..Len(text)
  BY <1>3, <1>6
<1> HIDE DEF c
<1>8. rest \in Seq(X) /\ IsPart(rest, text, c, end)
  BY <1>7, PartIs DEF RestOf
<1> HIDE DEF rest
<1>9. BashOutput!Lines(rest) = SubSeq(lines, j, Len(lines))
  BY <1>4, <1>8, LinesOfTheRest DEF c
<1>10. BashOutput!Join(BashOutput!Lines(rest)) = rest
  BY <1>8, LinesJoin
<1>11. Len(br) = N + 1
  BY <1>3
<1> QED
  BY <1>4, <1>5, <1>7, <1>9, <1>10, <1>11 DEF j, c, rest

\* More of the last lines take no less; all of them take what the text takes.
LEMMA WeightsIncrease ==
  ASSUME NEW X, NEW text \in Seq(X), NEW lines, lines = BashOutput!Lines(text)
  PROVE  /\ Len(lines) \in Nat /\ Len(lines) >= 1
         /\ Weight(lines, 0) = 0
         /\ \A n \in 0..Len(lines) : Weight(lines, n) \in Nat
         /\ \A m, n \in 0..Len(lines) : m <= n => Weight(lines, m) <= Weight(lines, n)
         /\ Weight(lines, Len(lines)) = BashOutput!Bytes(text)
<1> DEFINE br == LineBreaks(text)
           N == Len(lines)
           At(n) == br[(N - n) + 1]
<1>1. AreBreaks(br, text) /\ AreBetween(lines, br, text) /\ Increases(br, Breaks(text))
      /\ lines \in Seq(Seq(X))
  BY LinesAreBetween, BreaksIncrease
<1>2. N \in Nat /\ N >= 1 /\ Len(br) = N + 1 /\ br[1] = 0
  BY <1>1 DEF AreBreaks, AreBetween
<1>3. Weight(lines, 0) = 0
  <2>1. LastOf(lines, 0) = <<>>
    <3>1. LastOf(lines, 0) = SubSeq(lines, N + 1, N)
      BY <1>2 DEF LastOf, BashOutput!EdgeLines
    <3>2. SubSeq(lines, N + 1, N) = <<>>
      BY <1>1, <1>2
    <3> QED
      BY <3>1, <3>2
  <2>2. BashOutput!Join(<<>>) = <<>>
    BY DEF BashOutput!Join
  <2>3. <<>> \in Seq(X) /\ Len(<<>>) <= 1
    OBVIOUS
  <2>4. Reading!Bytes(<<>>) = 0
    BY <2>3, BytesOfOne
  <2> QED
    BY <2>1, <2>2, <2>4, SameOutputOperators DEF Weight
<1> HIDE DEF br
<1>4. ASSUME NEW n \in 1..N
      PROVE  /\ At(n) \in 0..Len(text) /\ (N - n) + 1 \in 1..Len(br)
             /\ Weight(lines, n) = Reading!Bytes(RestOf(text, At(n)))
  <2>1. /\ (N - n) + 1 \in 1..(Len(br) - 1) /\ At(n) \in 0..Len(text)
        /\ BashOutput!Join(LastOf(lines, n)) = RestOf(text, At(n))
    BY LastLinesJoined DEF br
  <2>2. (N - n) + 1 \in 1..Len(br)
    BY <1>2, <2>1
  <2> QED
    BY <2>1, <2>2, SameOutputOperators DEF Weight
<1> HIDE DEF N
<1>5. ASSUME NEW m \in 1..N, NEW n \in 1..N, m <= n
      PROVE  /\ Weight(lines, m) \in Nat /\ Weight(lines, n) \in Nat
             /\ Weight(lines, m) <= Weight(lines, n)
  <2> DEFINE c == At(n)
             d == At(m)
  <2>1. c \in 0..Len(text) /\ d \in 0..Len(text) /\ Len(text) \in Nat
    BY <1>4
  <2>2. c <= d
    <3> DEFINE i == (N - n) + 1
               k == (N - m) + 1
    <3>1. i \in 1..Len(br) /\ k \in 1..Len(br) /\ i <= k
      BY <1>2, <1>4, <1>5
    <3> HIDE DEF i, k
    <3>2. i < k => br[i] < br[k]
      BY <1>1, <3>1 DEF Increases
    <3>3. br[i] \in Nat /\ br[k] \in Nat
      BY <2>1 DEF i, k
    <3>4. br[i] <= br[k]
      BY <3>1, <3>2, <3>3
    <3> QED
      BY <3>4 DEF i, k
  <2>3. /\ Weight(lines, n) = Reading!Bytes(RestOf(text, c))
        /\ Weight(lines, m) = Reading!Bytes(RestOf(text, d))
    BY <1>4
  <2> HIDE DEF c, d
  <2>4. /\ Reading!Bytes(RestOf(text, c)) \in Nat /\ Reading!Bytes(RestOf(text, d)) \in Nat
        /\ Reading!Bytes(RestOf(text, d)) <= Reading!Bytes(RestOf(text, c))
    <3>1. c \in Nat /\ d \in Nat /\ d <= Len(text)
      BY <2>1
    <3> QED
      BY <2>2, <3>1, RestsShrink
  <2> QED
    BY <2>3, <2>4
<1>6. ASSUME NEW n \in 0..N PROVE Weight(lines, n) \in Nat
  <2>1. n = 0 \/ n \in 1..N
    BY <1>2
  <2> QED
    BY <1>3, <1>5, <2>1
<1>7. ASSUME NEW m \in 0..N, NEW n \in 0..N, m <= n
      PROVE  Weight(lines, m) <= Weight(lines, n)
  <2>1. m = 0 \/ (m \in 1..N /\ n \in 1..N)
    BY <1>2, <1>7
  <2>2. m = 0 => Weight(lines, m) <= Weight(lines, n)
    BY <1>3, <1>6
  <2> QED
    BY <1>5, <1>7, <2>1, <2>2
<1>8. Weight(lines, N) = BashOutput!Bytes(text)
  <2>1. LastOf(lines, N) = lines
    <3>1. (N - N) + 1 = 1
      BY <1>2
    <3>2. LastOf(lines, N) = SubSeq(lines, 1, Len(lines))
      BY <3>1 DEF LastOf, BashOutput!EdgeLines, N
    <3> QED
      BY <1>1, <3>2
  <2>2. BashOutput!Join(lines) = text
    BY LinesJoin
  <2> QED
    BY <2>1, <2>2 DEF Weight
<1> QED
  BY <1>2, <1>3, <1>6, <1>7, <1>8 DEF N

\* A number of last lines that meets both limits, and beyond which the next line
\* exceeds one of them.
IsFilled(lines, t, maxLines, maxBytes) ==
    /\ t \in 0..Len(lines) /\ t <= maxLines /\ Weight(lines, t) <= maxBytes
    /\ t = Len(lines) \/ t >= maxLines \/ Weight(lines, t + 1) > maxBytes

\* Truncation to the tail keeps such a number of lines.
IsTailOf(truncation, lines, t, maxLines, maxBytes) ==
    /\ truncation.lines = LastOf(lines, t)
    /\ truncation.truncated <=> ~(Len(lines) <= maxLines /\ Weight(lines, Len(lines)) <= maxBytes)

LEMMA TruncatesToTail ==
  ASSUME NEW X, NEW lines \in Seq(Seq(X)), Len(lines) >= 1,
         NEW maxLines \in Nat \ {0}, NEW maxBytes \in Nat,
         Weight(lines, 0) = 0, \A n \in 0..Len(lines) : Weight(lines, n) \in Nat
  PROVE  \E t \in 0..Len(lines) :
            /\ IsFilled(lines, t, maxLines, maxBytes)
            /\ IsTailOf(BashOutput!TruncateLines(lines, "tail", maxLines, maxBytes),
                        lines, t, maxLines, maxBytes)
<1> DEFINE N == Len(lines)
           fits == BashOutput!FitsLimits(lines, maxLines, maxBytes)
           long == BashOutput!EdgeLineExceedsLimit(lines, "tail", maxBytes)
           kept0 == BashOutput!SelectOutputLines(lines, "tail", maxLines, maxBytes)
           cut == BashOutput!TruncateLines(lines, "tail", maxLines, maxBytes)
           W(n) == Weight(lines, n)
<1>1. N \in Nat /\ N >= 1 /\ 0 \in 0..N /\ N \in 0..N /\ 1 \in 0..N
  OBVIOUS
<1>2. LastOf(lines, N) = lines
  <2>1. (N - N) + 1 = 1
    BY <1>1
  <2>2. LastOf(lines, N) = SubSeq(lines, 1, Len(lines))
    BY <2>1 DEF LastOf, BashOutput!EdgeLines
  <2> QED
    BY <2>2
<1>3. LastOf(lines, 0) = <<>>
  <2>1. LastOf(lines, 0) = SubSeq(lines, N + 1, N)
    BY <1>1 DEF LastOf, BashOutput!EdgeLines
  <2>2. SubSeq(lines, N + 1, N) = <<>>
    BY <1>1
  <2> QED
    BY <2>1, <2>2
<1>4. fits <=> N <= maxLines /\ W(N) <= maxBytes
  BY <1>2 DEF BashOutput!FitsLimits, Weight
<1>5. /\ fits => cut.lines = lines /\ cut.truncated = FALSE
      /\ ~fits /\ long => cut.lines = <<>> /\ cut.truncated = TRUE
      /\ ~fits /\ ~long => cut.lines = kept0 /\ cut.truncated = TRUE
  BY DEF BashOutput!TruncateLines, BashOutput!Result
<1>6. long => W(1) > maxBytes
  <2> DEFINE edge == LastOf(lines, 1)
  <2>1. edge \in Seq(Seq(X)) /\ Len(edge) = 1
    <3>1. N - 1 \in Nat /\ N - 1 <= N /\ N - (N - 1) = 1
      BY <1>1
    <3> DEFINE k == N - 1
    <3>2. edge = SubSeq(lines, k + 1, Len(lines))
      BY DEF LastOf, BashOutput!EdgeLines
    <3> HIDE DEF k, edge
    <3>3. /\ SubSeq(lines, k + 1, Len(lines)) \in Seq(Seq(X))
          /\ Len(SubSeq(lines, k + 1, Len(lines))) = IF k <= Len(lines) THEN Len(lines) - k ELSE 0
      BY <3>1, LastLines DEF k
    <3> QED
      BY <3>1, <3>2, <3>3 DEF k
  <2>2. long <=> BashOutput!Bytes(edge[1]) > maxBytes
    BY DEF BashOutput!EdgeLineExceedsLimit, LastOf
  <2>3. W(1) = Reading!Bytes(Reading!Join(edge))
    BY SameOutputOperators, SameJoin DEF Weight
  <2> HIDE DEF edge
  <2>4. /\ Reading!Bytes(edge[1]) \in Nat /\ Reading!Bytes(Reading!Join(edge)) \in Nat
        /\ Reading!Bytes(edge[1]) <= Reading!Bytes(Reading!Join(edge))
    <3>1. 1 \in 1..Len(edge)
      BY <2>1
    <3> QED
      BY <2>1, <3>1, BytesOfALine
  <2>5. BashOutput!Bytes(edge[1]) = Reading!Bytes(edge[1])
    BY SameOutputOperators
  <2> HIDE DEF long, W
  <2> QED
    BY <2>2, <2>3, <2>4, <2>5
<1> DEFINE Stops(n) == BashOutput!SelectionStops(lines, "tail", maxLines, maxBytes, n)
           Ends(n) == Stops(n) /\ \A m \in 0..(n - 1) : ~Stops(m)
           k == CHOOSE n \in 0..N : Ends(n)
<1>7. \A n : Stops(n) <=> n = N \/ n >= maxLines \/ W(n + 1) > maxBytes
  BY DEF BashOutput!SelectionStops, Weight, LastOf
<1>8. \E n \in 0..N : Ends(n)
  <2> DEFINE S == {n \in 0..N : Stops(n)}
  <2>0. Stops(N)
    BY <1>7
  <2> HIDE DEF Stops
  <2>1. N \in S
    BY <1>1, <2>0
  <2>2. \A n \in 0..N : \A m \in 0..(n - 1) : m \in 0..N
    BY <1>1
  <2> HIDE DEF S
  <2>3. PICK n \in 0..N : n \in S /\ \A m \in 0..(n - 1) : m \notin S
    BY <1>1, <2>1, LeastUpTo
  <2> QED
    BY <2>2, <2>3 DEF S
<1>9. k \in 0..N /\ Ends(k)
  BY <1>8
<1>10. kept0 = LastOf(lines, k)
  BY DEF BashOutput!SelectOutputLines, LastOf
<1>11. IsFilled(lines, k, maxLines, maxBytes)
  <2>1. k = N \/ k >= maxLines \/ W(k + 1) > maxBytes
    BY <1>7, <1>9
  <2>2. \A m \in 0..(k - 1) : ~(m >= maxLines) /\ ~(W(m + 1) > maxBytes)
    BY <1>7, <1>9
  <2> HIDE DEF k, W, Stops
  <2>3. k <= maxLines /\ W(k) <= maxBytes
    <3>1. CASE k = 0
      BY <3>1 DEF W
    <3>2. CASE k # 0
      <4>1. k - 1 \in 0..(k - 1) /\ (k - 1) + 1 = k
        BY <1>9, <3>2
      <4>2. ~(k - 1 >= maxLines) /\ ~(W(k) > maxBytes)
        BY <2>2, <4>1
      <4>3. W(k) \in Nat
        BY <1>9 DEF W
      <4> QED
        BY <1>9, <4>2, <4>3
    <3> QED
      BY <3>1, <3>2
  <2> QED
    BY <1>9, <2>1, <2>3 DEF IsFilled, W
<1> HIDE DEF k, kept0, cut, fits, long
<1>12. CASE fits
  <2>1. IsFilled(lines, N, maxLines, maxBytes)
    BY <1>1, <1>4, <1>12 DEF IsFilled
  <2>2. IsTailOf(cut, lines, N, maxLines, maxBytes)
    BY <1>2, <1>4, <1>5, <1>12 DEF IsTailOf
  <2> QED
    BY <1>1, <2>1, <2>2 DEF cut
<1>13. CASE ~fits /\ long
  <2>1. IsFilled(lines, 0, maxLines, maxBytes)
    <3>1. W(0 + 1) > maxBytes
      BY <1>6, <1>13
    <3> QED
      BY <1>1, <3>1 DEF IsFilled
  <2>2. IsTailOf(cut, lines, 0, maxLines, maxBytes)
    BY <1>3, <1>4, <1>5, <1>13 DEF IsTailOf
  <2> QED
    BY <1>1, <2>1, <2>2 DEF cut
<1>14. CASE ~fits /\ ~long
  <2>1. IsTailOf(cut, lines, k, maxLines, maxBytes)
    BY <1>4, <1>5, <1>10, <1>14 DEF IsTailOf
  <2> QED
    BY <1>9, <1>11, <2>1 DEF cut
<1> QED
  BY <1>12, <1>13, <1>14

-----------------------------------------------------------------------------
(* bash: the rolling tail.                                                 *)

\* What the accumulator keeps of a text: its rest from a place on, which has
\* more than the limit unless it is the whole; whether that place is a line's
\* beginning; and the totals.
Keeps(text, rest, atBoundary, bytes, lines) ==
    /\ bytes = BashOutput!Bytes(text)
    /\ lines = IF text = <<>> THEN 0 ELSE NewLines(text) + 1
    /\ \E d \in 0..Len(text) :
          /\ rest = RestOf(text, d)
          /\ atBoundary <=> (d = 0 \/ text[d] = BashOutput!NewLine)
          /\ d > 0 => BashOutput!Bytes(rest) > MaxBytes

\* Trimming stops at the first place at which the limit of the buffer is met.
LEMMA TrimsToFit ==
  ASSUME NEW X, NEW buffer \in Seq(X), MaxBytes \in Nat, MaxBytes >= 4,
         NEW n, n = BashOutput!TrimStart(buffer)
  PROVE  /\ n \in 0..Len(buffer)
         /\ n # 0 => Reading!Bytes(RestOf(buffer, n)) > MaxBytes
<1> DEFINE limit == BashOutput!MaxRolling
           Meets(m) == Reading!Bytes(RestOf(buffer, m)) <= limit
           First(m) == /\ Reading!Bytes(RestOf(buffer, m)) <= limit
                       /\ \A k \in 0..(m - 1) : Reading!Bytes(RestOf(buffer, k)) > limit
           S == {m \in 0..Len(buffer) : Meets(m)}
<1>1. limit \in Nat /\ limit = 2 * MaxBytes
  BY DEF BashOutput!MaxRolling
<1> HIDE DEF limit
<1>2. Len(buffer) \in Nat /\ Len(buffer) \in S
  <2>1. RestOf(buffer, Len(buffer)) = <<>>
    <3>1. SubSeq(buffer, Len(buffer) + 1, Len(buffer)) = <<>>
      OBVIOUS
    <3> QED
      BY <3>1 DEF RestOf
  <2>2. <<>> \in Seq(X) /\ Len(<<>>) <= 1
    OBVIOUS
  <2>3. Reading!Bytes(<<>>) = 0
    BY <2>2, BytesOfOne
  <2>4. Meets(Len(buffer))
    BY <1>1, <2>1, <2>3
  <2>5. Len(buffer) \in Nat
    OBVIOUS
  <2> HIDE DEF Meets
  <2> QED
    BY <2>4, <2>5
<1>3. ASSUME NEW m \in 0..Len(buffer) PROVE Reading!Bytes(RestOf(buffer, m)) \in Nat
  BY RestsShrink
<1>4. \E m \in 0..Len(buffer) : First(m)
  <2> HIDE DEF S
  <2>1. PICK m \in 0..Len(buffer) : m \in S /\ \A k \in 0..(m - 1) : k \notin S
    BY <1>2, LeastUpTo
  <2>2. Meets(m)
    BY <2>1 DEF S
  <2>3. ASSUME NEW k \in 0..(m - 1) PROVE Reading!Bytes(RestOf(buffer, k)) > limit
    <3>1. k \in 0..Len(buffer) /\ ~Meets(k)
      BY <1>2, <2>1 DEF S
    <3> QED
      BY <1>1, <1>3, <3>1
  <2> QED
    BY <2>2, <2>3
<1>5. n = CHOOSE m \in 0..Len(buffer) : First(m)
  <2>1. \A m : BashOutput!Bytes(SubSeq(buffer, m + 1, Len(buffer))) = Reading!Bytes(RestOf(buffer, m))
    BY SameOutputOperators DEF RestOf
  <2> QED
    BY <2>1 DEF BashOutput!TrimStart, limit
<1>6. n \in 0..Len(buffer) /\ First(n)
  BY <1>4, <1>5
<1>7. ASSUME n # 0 PROVE Reading!Bytes(RestOf(buffer, n)) > MaxBytes
  <2> DEFINE k == n - 1
             r == RestOf(buffer, k)
             one == SubSeq(buffer, k + 1, n)
             s == RestOf(buffer, n)
             end == Len(buffer)
  <2>1. k \in 0..(n - 1) /\ k \in Nat /\ k <= n /\ n \in 0..end /\ n <= end /\ n - k = 1
        /\ end \in 0..end /\ n \in Nat /\ k <= end /\ end \in Nat
    BY <1>2, <1>6, <1>7
  <2>2. Reading!Bytes(r) > limit
    BY <1>6, <2>1
  <2> HIDE DEF k
  <2>3. r \in Seq(X) /\ IsPart(r, buffer, k, end)
    BY <2>1, PartIs DEF RestOf
  <2>4. one \in Seq(X) /\ IsPart(one, buffer, k, n)
    BY <2>1, PartIs
  <2>5. s \in Seq(X) /\ IsPart(s, buffer, n, end)
    BY <2>1, PartIs DEF RestOf
  <2> HIDE DEF r, one, s, end
  <2>6. Joins(r, one, s)
    BY <2>1, <2>3, <2>4, <2>5, PartsJoin
  <2>7. /\ Reading!Bytes(one) \in Nat /\ Reading!Bytes(s) \in Nat
        /\ Reading!Bytes(r) = Reading!Bytes(one) + Reading!Bytes(s)
    BY <2>4, <2>5, <2>6, BytesJoin
  <2>8. Reading!Bytes(one) \in 0..3
    <3>1. Len(one) <= 1
      BY <2>1, <2>4 DEF IsPart
    <3> QED
      BY <2>4, <3>1, BytesOfOne
  <2>9. Reading!Bytes(s) > MaxBytes
    BY <1>1, <2>2, <2>7, <2>8
  <2> QED
    BY <2>9 DEF s
<1> QED
  BY <1>6, <1>7

\* A decoded text is taken in.
LEMMA AppendingKeeps ==
  ASSUME MaxBytes \in Nat, MaxBytes >= 4, NEW X, NEW all \in Seq(X),
         Keeps(all, tail, boundary, totalBytes, totalLines),
         NEW text \in Seq(X), BashOutput!AppendDecodedText(text),
         NEW longer, Joins(longer, all, text)
  PROVE  Keeps(longer, tail', boundary', totalBytes', totalLines')
<1> DEFINE NL == BashOutput!NewLine
<1>1. CASE text = <<>>
  <2>1. longer = all
    BY <1>1, ConcatEmptySeq DEF Joins
  <2>2. /\ tail' = tail /\ boundary' = boundary
        /\ totalBytes' = totalBytes /\ totalLines' = totalLines
    BY <1>1 DEF BashOutput!AppendDecodedText
  <2> QED
    BY <2>1, <2>2
<1>2. CASE text # <<>>
  <2> DEFINE buffer == tail \o text
             n == BashOutput!TrimStart(buffer)
             end == Len(longer)
  <2>1. /\ totalBytes' = totalBytes + BashOutput!Bytes(text)
        /\ totalLines' = BashOutput!CountLines(totalLines, text)
        /\ tail' = RestOf(buffer, n)
        /\ boundary' = BashOutput!StartsAtLineBoundary(buffer, n, boundary)
    BY <1>2 DEF BashOutput!AppendDecodedText, RestOf
  <2>2. /\ totalBytes = BashOutput!Bytes(all)
        /\ totalLines = IF all = <<>> THEN 0 ELSE NewLines(all) + 1
    BY DEF Keeps
  <2>3. PICK d \in 0..Len(all) :
            /\ tail = RestOf(all, d)
            /\ boundary <=> (d = 0 \/ all[d] = NL)
            /\ d > 0 => BashOutput!Bytes(tail) > MaxBytes
    BY DEF Keeps
  <2>4. /\ longer \in Seq(X) /\ end = Len(all) + Len(text)
        /\ Len(all) \in Nat /\ Len(text) \in Nat /\ Len(text) # 0 /\ end \in Nat
        /\ \A i \in 1..Len(all) : longer[i] = all[i]
        /\ \A i \in 1..Len(text) : longer[Len(all) + i] = text[i]
    <3>1. /\ longer \in Seq(X) /\ Len(longer) = Len(all) + Len(text)
          /\ \A i \in 1..Len(all) : longer[i] = all[i]
          /\ \A i \in 1..Len(text) : longer[Len(all) + i] = text[i]
      BY JoinsProperties
    <3> QED
      BY <1>2, <3>1
  <2>5. d \in Nat /\ d <= Len(all) /\ d <= end
    BY <2>3, <2>4
  <2> HIDE DEF end
  <2>6. tail \in Seq(X) /\ IsPart(tail, all, d, Len(all))
    <3> DEFINE stop == Len(all)
    <3>1. stop \in 0..Len(all) /\ d <= stop
      BY <2>4, <2>5
    <3>2. tail = SubSeq(all, d + 1, stop)
      BY <2>3 DEF RestOf
    <3> HIDE DEF stop
    <3>3. tail \in Seq(X) /\ IsPart(tail, all, d, stop)
      BY <2>5, <3>1, <3>2, PartIs
    <3> QED
      BY <3>3 DEF stop
  <2>7. Joins(buffer, tail, text)
    BY DEF Joins
  <2> HIDE DEF buffer
  <2>8. /\ buffer \in Seq(X) /\ Len(buffer) = Len(tail) + Len(text)
        /\ \A i \in 1..Len(tail) : buffer[i] = tail[i]
        /\ \A i \in 1..Len(text) : buffer[Len(tail) + i] = text[i]
    BY <2>6, <2>7, JoinsProperties
  <2>9. IsPart(buffer, longer, d, end)
    <3>1. Len(tail) = Len(all) - d /\ \A i \in 1..Len(tail) : tail[i] = all[d + i]
      BY <2>6 DEF IsPart
    <3>2. Len(buffer) = end - d
      BY <2>4, <2>5, <2>8, <3>1
    <3>3. ASSUME NEW i \in 1..Len(buffer) PROVE buffer[i] = longer[d + i]
      <4>1. CASE i <= Len(tail)
        <5>1. i \in 1..Len(tail) /\ d + i \in 1..Len(all)
          BY <2>4, <2>5, <3>1, <4>1
        <5> QED
          BY <2>4, <2>8, <3>1, <5>1
      <4>2. CASE i > Len(tail)
        <5> DEFINE k == i - Len(tail)
        <5>1. k \in 1..Len(text) /\ Len(tail) + k = i /\ Len(all) + k = d + i
          BY <2>4, <2>5, <2>8, <3>1, <4>2
        <5> HIDE DEF k
        <5>2. buffer[Len(tail) + k] = text[k] /\ longer[Len(all) + k] = text[k]
          BY <2>4, <2>8, <5>1
        <5> QED
          BY <5>1, <5>2
      <4> QED
        BY <2>4, <2>5, <3>1, <4>1, <4>2
    <3> QED
      BY <3>2, <3>3 DEF IsPart
  <2>10. /\ n \in 0..Len(buffer)
         /\ n # 0 => Reading!Bytes(RestOf(buffer, n)) > MaxBytes
    BY <2>8, TrimsToFit
  <2> HIDE DEF n
  <2>11. /\ Len(buffer) = end - d /\ Len(buffer) \in Nat
         /\ \A i \in 1..Len(buffer) : buffer[i] = longer[d + i]
    BY <2>4, <2>5, <2>9 DEF IsPart
  <2>12. d + n \in 0..end /\ d + n \in Nat /\ n \in Nat
    BY <2>4, <2>5, <2>10, <2>11
  <2>13. tail' = RestOf(longer, d + n)
    <3>1. AgreeFrom(buffer, n, Len(buffer), longer, d)
      <4>1. n <= Len(buffer) /\ Len(buffer) <= Len(buffer) /\ end \in Nat /\ end <= Len(longer)
        BY <2>4, <2>10, <2>11 DEF end
      <4> QED
        BY <2>4, <2>5, <2>8, <2>9, <2>11, <2>12, <4>1, PartOfPart
    <3>2. d + Len(buffer) = end
      BY <2>4, <2>5, <2>11
    <3> QED
      BY <2>1, <3>1, <3>2 DEF AgreeFrom, RestOf, end
  <2>14. boundary' <=> (d + n = 0 \/ longer[d + n] = NL)
    <3>1. boundary' = IF n = 0 THEN boundary ELSE buffer[n] = NL
      BY <2>1 DEF BashOutput!StartsAtLineBoundary
    <3>2. CASE n = 0
      <4>1. d + n = d /\ (d # 0 => longer[d] = all[d])
        BY <2>4, <2>5, <3>2
      <4> QED
        BY <2>3, <3>1, <3>2, <4>1
    <3>3. CASE n # 0
      <4>1. d + n # 0 /\ buffer[n] = longer[d + n]
        BY <2>5, <2>10, <2>11, <2>12, <3>3
      <4> QED
        BY <3>1, <3>3, <4>1
    <3> QED
      BY <3>2, <3>3
  <2>15. d + n > 0 => BashOutput!Bytes(tail') > MaxBytes
    <3>0. BashOutput!Bytes(tail') = Reading!Bytes(RestOf(buffer, n))
          /\ BashOutput!Bytes(tail) = Reading!Bytes(tail)
      BY <2>1, SameOutputOperators
    <3>1. CASE n = 0
      <4>1. /\ Reading!Bytes(tail) \in Nat /\ Reading!Bytes(text) \in Nat
            /\ Reading!Bytes(buffer) = Reading!Bytes(tail) + Reading!Bytes(text)
        BY <2>6, <2>7, BytesJoin
      <4>2. RestOf(buffer, 0) = buffer
        BY <2>8 DEF RestOf
      <4> QED
        BY <2>3, <2>5, <3>0, <3>1, <4>1, <4>2
    <3>2. CASE n # 0
      BY <2>10, <3>0, <3>2
    <3> QED
      BY <3>1, <3>2
  <2>16. totalBytes' = BashOutput!Bytes(longer)
    <3>1. Reading!Bytes(longer) = Reading!Bytes(all) + Reading!Bytes(text)
      BY BytesJoin
    <3> QED
      BY <2>1, <2>2, <3>1, SameOutputOperators
  <2>17. totalLines' = IF longer = <<>> THEN 0 ELSE NewLines(longer) + 1
    <3>1. totalLines' = (IF totalLines = 0 THEN 1 ELSE totalLines) + NewLines(text)
      BY <2>1, SameOutputOperators DEF BashOutput!CountLines, NewLines
    <3>2. /\ NewLines(all) \in Nat /\ NewLines(text) \in Nat
          /\ NewLines(longer) = NewLines(all) + NewLines(text)
      BY PlacesJoin DEF Joins, NewLines
    <3>3. longer # <<>>
      BY <2>4 DEF end
    <3>4. CASE all = <<>>
      <4>1. longer = text
        BY <3>4, ConcatEmptySeq DEF Joins
      <4> QED
        BY <2>2, <3>1, <3>2, <3>3, <3>4, <4>1
    <3>5. CASE all # <<>>
      BY <2>2, <3>1, <3>2, <3>3, <3>5
    <3> QED
      BY <3>4, <3>5
  <2> HIDE DEF NL
  <2>18. \E e \in 0..Len(longer) :
            /\ tail' = RestOf(longer, e)
            /\ boundary' <=> (e = 0 \/ longer[e] = NL)
            /\ e > 0 => BashOutput!Bytes(tail') > MaxBytes
    BY <2>12, <2>13, <2>14, <2>15 DEF end
  <2> QED
    BY <2>16, <2>17, <2>18 DEF Keeps, NL
<1> QED
  BY <1>1, <1>2

\* The decoder stands where the raw output ends, and what is kept is kept of the
\* whole output.
OutputInv ==
    /\ raw \in Seq(BashOutput!RawByte) /\ finished \in BOOLEAN
    /\ pending = IF finished THEN FALSE ELSE BashOutput!Decode(FALSE, raw).pending
    /\ Keeps(BashOutput!Output, tail, boundary, totalBytes, totalLines)

LEMMA OutputType ==
  ASSUME raw \in Seq(BashOutput!RawByte)
  PROVE  /\ BashOutput!Decode(FALSE, raw).text \in Seq(BashOutput!Character)
         /\ BashOutput!Decode(FALSE, raw).pending \in BOOLEAN
         /\ BashOutput!Flush(BashOutput!Decode(FALSE, raw).pending) \in Seq(BashOutput!Character)
         /\ BashOutput!Output \in Seq(BashOutput!Character)
         /\ ~finished => BashOutput!Output = BashOutput!Decode(FALSE, raw).text
<1> DEFINE C == BashOutput!Character
           text == BashOutput!Decode(FALSE, raw).text
           held == BashOutput!Decode(FALSE, raw).pending
           last == IF finished THEN BashOutput!Flush(held) ELSE <<>>
<1>1. text \in Seq(C) /\ held \in BOOLEAN
  BY DecodeIs
<1>2. BashOutput!Output = text \o last
  BY DEF BashOutput!Output
<1>3. BashOutput!Replacement \in C
  BY DEF BashOutput!Character
<1> HIDE DEF C, text, held
<1>4. BashOutput!Flush(held) \in Seq(C) /\ <<>> \in Seq(C)
  BY <1>3 DEF BashOutput!Flush
<1>5. last \in Seq(C) /\ (~finished => last = <<>>)
  BY <1>4
<1> HIDE DEF last
<1>6. text \o last \in Seq(C)
  BY <1>1, <1>5, ConcatProperties
<1>7. ~finished => text \o last = text
  BY <1>1, <1>5, ConcatEmptySeq
<1> QED
  BY <1>1, <1>2, <1>4, <1>6, <1>7 DEF C, text, held

LEMMA OutputStarts == BashOutput!Init => OutputInv
<1> SUFFICES ASSUME BashOutput!Init PROVE OutputInv
  OBVIOUS
<1>1. /\ raw = <<>> /\ pending = FALSE /\ tail = <<>> /\ boundary = TRUE
      /\ totalBytes = 0 /\ totalLines = 0 /\ finished = FALSE
  BY DEF BashOutput!Init
<1>2. raw \in Seq(BashOutput!RawByte)
  BY <1>1
<1> DEFINE decoded == BashOutput!Decode(FALSE, raw)
           pieces == OfChunk(FALSE, raw)
<1>3. /\ pieces \in Seq(Seq(BashOutput!Character)) /\ Len(pieces) = Len(raw)
      /\ decoded.text = FlattenSeq(pieces)
      /\ decoded.pending = IF raw = <<>> THEN FALSE ELSE raw[Len(raw)] = BashOutput!Lead
  BY <1>2, DecodeIs
<1>4. decoded.pending = FALSE /\ decoded.text = <<>>
  <2> HIDE DEF pieces
  <2>1. pieces = <<>>
    BY <1>1, <1>3
  <2> QED
    BY <1>1, <1>3, <2>1, FlattenEmpty
<1>5. BashOutput!Output = <<>>
  BY <1>1, <1>2, <1>4, OutputType
<1>6. BashOutput!Bytes(<<>>) = 0
  <2>1. <<>> \in Seq(Nat) /\ Len(<<>>) <= 1
    OBVIOUS
  <2> QED
    BY <2>1, BytesOfOne, SameOutputOperators
<1>7. RestOf(<<>>, 0) = <<>> /\ 0 \in 0..Len(<<>>)
  BY DEF RestOf
<1>8. Keeps(<<>>, tail, boundary, totalBytes, totalLines)
  BY <1>1, <1>6, <1>7 DEF Keeps
<1> QED
  BY <1>1, <1>2, <1>4, <1>5, <1>8 DEF OutputInv

LEMMA StepKeepsOutputInv == OutputInv /\ [BashOutput!Next]_outputVars => OutputInv'
<1> SUFFICES ASSUME OutputInv, [BashOutput!Next]_outputVars PROVE OutputInv'
  OBVIOUS
<1> DEFINE C == BashOutput!Character
           all == BashOutput!Output
<1>1. /\ raw \in Seq(BashOutput!RawByte) /\ finished \in BOOLEAN
      /\ pending = IF finished THEN FALSE ELSE BashOutput!Decode(FALSE, raw).pending
      /\ Keeps(all, tail, boundary, totalBytes, totalLines)
  BY DEF OutputInv
<1>2. /\ BashOutput!Decode(FALSE, raw).text \in Seq(C)
      /\ BashOutput!Decode(FALSE, raw).pending \in BOOLEAN
      /\ BashOutput!Flush(BashOutput!Decode(FALSE, raw).pending) \in Seq(C)
      /\ all \in Seq(C) /\ (~finished => all = BashOutput!Decode(FALSE, raw).text)
  BY <1>1, OutputType
<1>3. MaxBytes \in Nat /\ MaxBytes >= 4
  BY ToolCallAssumption DEF BashOutput!TailAssumption
<1> HIDE DEF C
<1>4. ASSUME NEW chunk \in BashOutput!Chunks, BashOutput!Accumulate(chunk) PROVE OutputInv'
  <2> DEFINE first == BashOutput!Decode(FALSE, raw)
             second == BashOutput!Decode(pending, chunk)
             both == BashOutput!Decode(FALSE, raw \o chunk)
  <2>1. /\ ~finished /\ raw' = raw \o chunk /\ pending' = second.pending
        /\ BashOutput!AppendDecodedText(second.text) /\ finished' = finished
    BY <1>4 DEF BashOutput!Accumulate
  <2>2. chunk \in Seq(BashOutput!RawByte)
    <3>1. PICK n \in 1..MaxChunk : chunk \in [1..n -> BashOutput!RawByte]
      BY DEF BashOutput!Chunks
    <3>2. n \in Nat
      BY <3>1
    <3> QED
      BY <3>1, <3>2
  <2>3. pending = first.pending /\ pending \in BOOLEAN
    BY <1>1, <1>2, <2>1
  <2>4. /\ raw \o chunk \in Seq(BashOutput!RawByte)
        /\ Joins(both.text, first.text, second.text)
        /\ both.pending = second.pending
    <3>1. DecodesOn(FALSE, raw, chunk)
      BY <1>1, <2>2, DecodeJoins
    <3> QED
      BY <2>3, <3>1 DEF DecodesOn
  <2>5. second.text \in Seq(C)
    BY <2>2, <2>3, DecodeIs DEF C
  <2>6. BashOutput!Output' = both.text
    <3>1. raw' \in Seq(BashOutput!RawByte) /\ ~finished'
      BY <2>1, <2>4
    <3>2. BashOutput!Output' = BashOutput!Decode(FALSE, raw').text \o <<>>
      BY <3>1 DEF BashOutput!Output
    <3>3. BashOutput!Decode(FALSE, raw').text = both.text
      BY <2>1
    <3>4. both.text \in Seq(C)
      BY <2>4, DecodeIs DEF C
    <3> HIDE DEF both
    <3>5. both.text \o <<>> = both.text
      BY <3>4, ConcatEmptySeq
    <3> QED
      BY <3>2, <3>3, <3>5
  <2>7. all = first.text
    BY <1>2, <2>1
  <2> DEFINE text == second.text
             longer == both.text
  <2>8. Joins(longer, all, text) /\ text \in Seq(C) /\ BashOutput!AppendDecodedText(text)
    BY <2>1, <2>4, <2>5, <2>7
  <2> HIDE DEF all, text, longer
  <2>9. Keeps(longer, tail', boundary', totalBytes', totalLines')
    BY <1>1, <1>2, <1>3, <2>8, AppendingKeeps
  <2>10. pending' = BashOutput!Decode(FALSE, raw').pending
    BY <2>1, <2>4
  <2>11. raw' \in Seq(BashOutput!RawByte) /\ finished' \in BOOLEAN /\ ~finished'
    BY <1>1, <2>1, <2>4
  <2>12. Keeps(BashOutput!Output', tail', boundary', totalBytes', totalLines')
    BY <2>6, <2>9 DEF longer
  <2> QED
    BY <2>10, <2>11, <2>12 DEF OutputInv
<1>5. ASSUME BashOutput!Finish PROVE OutputInv'
  <2> DEFINE first == BashOutput!Decode(FALSE, raw)
             text == BashOutput!Flush(pending)
             longer == first.text \o BashOutput!Flush(first.pending)
  <2>1. /\ ~finished /\ raw' = raw /\ pending' = FALSE /\ finished' = TRUE
        /\ BashOutput!AppendDecodedText(text)
    BY <1>5 DEF BashOutput!Finish
  <2>2. pending = first.pending /\ all = first.text
    BY <1>1, <1>2, <2>1
  <2>3. Joins(longer, all, text) /\ text \in Seq(C)
    BY <1>2, <2>2 DEF Joins
  <2>4. BashOutput!Output' = longer
    BY <2>1 DEF BashOutput!Output
  <2> HIDE DEF all, text, longer
  <2>5. Keeps(longer, tail', boundary', totalBytes', totalLines')
    BY <1>1, <1>2, <1>3, <2>1, <2>3, AppendingKeeps
  <2>6. Keeps(BashOutput!Output', tail', boundary', totalBytes', totalLines')
    BY <2>4, <2>5
  <2> QED
    BY <1>1, <2>1, <2>6 DEF OutputInv
<1>6. ASSUME UNCHANGED outputVars PROVE OutputInv'
  <2>1. /\ raw' = raw /\ pending' = pending /\ tail' = tail /\ boundary' = boundary
        /\ totalBytes' = totalBytes /\ totalLines' = totalLines /\ finished' = finished
    BY <1>6 DEF outputVars
  <2>2. BashOutput!Output' = all
    BY <2>1 DEF BashOutput!Output
  <2> HIDE DEF all
  <2> QED
    BY <1>1, <2>1, <2>2 DEF OutputInv
<1> QED
  BY <1>4, <1>5, <1>6 DEF BashOutput!Next

-----------------------------------------------------------------------------
(* bash: what a snapshot shows.                                            *)

\* Of the last lines the last ones are those of all.
LEMMA LastOfLast ==
  ASSUME NEW Y, NEW s \in Seq(Y), NEW k \in 0..Len(s), NEW n \in 0..k
  PROVE  /\ LastOf(s, k) \in Seq(Y) /\ Len(LastOf(s, k)) = k
         /\ LastOf(LastOf(s, k), n) = LastOf(s, n)
<1> DEFINE N == Len(s)
           f == N - k
           a == k - n
           u == LastOf(s, k)
<1>1. /\ N \in Nat /\ N \in 0..N /\ k \in Nat /\ n \in Nat /\ f \in Nat /\ f <= N /\ N - f = k
      /\ a \in Nat /\ a <= k /\ k <= k /\ f + a = N - n /\ f + k = N
  OBVIOUS
<1>2. \A v, m : LastOf(v, m) = SubSeq(v, (Len(v) - m) + 1, Len(v))
  BY DEF LastOf, BashOutput!EdgeLines
<1> HIDE DEF N, f, a, u
<1>3. u = SubSeq(s, f + 1, N)
  BY <1>2 DEF u, f, N
<1>4. u \in Seq(Y) /\ IsPart(u, s, f, N)
  BY <1>1, <1>3, PartIs DEF N
<1>5. Len(u) = k
  BY <1>1, <1>4 DEF IsPart
<1>6. AgreeFrom(u, a, k, s, f)
  <2>1. N <= Len(s) /\ k <= Len(u)
    BY <1>1, <1>5 DEF N
  <2> QED
    BY <1>1, <1>4, <2>1, PartOfPart
<1>7. LastOf(u, n) = SubSeq(u, a + 1, k) /\ LastOf(s, n) = SubSeq(s, (N - n) + 1, N)
  BY <1>2, <1>5 DEF a, N
<1> QED
  BY <1>1, <1>4, <1>5, <1>6, <1>7 DEF AgreeFrom, u

\* The number of last lines that is filled is the greatest that fits.
LEMMA FillsWhatFits ==
  ASSUME MaxLines \in Nat, MaxBytes \in Nat, NEW X, BashOutput!Output \in Seq(X),
         NEW t, IsFilled(BashOutput!Lines(BashOutput!Output), t, MaxLines, MaxBytes)
  PROVE  BashOutput!LinesThatFit = t
<1> DEFINE lines == BashOutput!Lines(BashOutput!Output)
           N == Len(lines)
           W(n) == Weight(lines, n)
           Greatest(n) == /\ n <= MaxLines /\ W(n) <= MaxBytes
                          /\ \A m \in 0..N : m <= MaxLines /\ W(m) <= MaxBytes => m <= n
<1>1. /\ N \in Nat /\ \A n \in 0..N : W(n) \in Nat
      /\ \A m, n \in 0..N : m <= n => W(m) <= W(n)
  BY WeightsIncrease
<1>2. BashOutput!LinesThatFit = CHOOSE n \in 0..N : Greatest(n)
  BY DEF BashOutput!LinesThatFit, Weight, LastOf
<1>3. /\ t \in 0..N /\ t <= MaxLines /\ W(t) <= MaxBytes
      /\ t = N \/ t >= MaxLines \/ W(t + 1) > MaxBytes
  BY DEF IsFilled
<1> HIDE DEF N, W
<1>4. ASSUME NEW m \in 0..N, m <= MaxLines, W(m) <= MaxBytes PROVE m <= t
  <2> SUFFICES ASSUME m > t PROVE FALSE
    BY <1>1, <1>3
  <2>1. t # N /\ ~(t >= MaxLines) /\ t + 1 \in 0..N /\ t + 1 <= m
    BY <1>1, <1>3, <1>4
  <2>2. W(t + 1) > MaxBytes /\ W(t + 1) <= W(m) /\ W(t + 1) \in Nat /\ W(m) \in Nat
    BY <1>1, <1>3, <2>1
  <2> QED
    BY <1>4, <2>2
<1>5. Greatest(t)
  BY <1>3, <1>4
<1>6. ASSUME NEW n \in 0..N, Greatest(n) PROVE n = t
  BY <1>1, <1>3, <1>4, <1>6
<1> HIDE DEF Greatest
<1> QED
  BY <1>2, <1>3, <1>5, <1>6

\* Of two texts' lines, part shows as much as all.
ShowsAsMuch(part, all) ==
    /\ Len(part) <= Len(all)
    /\ \A t : IsFilled(part, t, MaxLines, MaxBytes) =>
                 IsFilled(all, t, MaxLines, MaxBytes) /\ LastOf(part, t) = LastOf(all, t)

\* Breaks before a place, and what follows it has more than the limit.
BreaksBefore(text, c, d) == \A b \in Breaks(text) : b < c => b < d
Enough(text, d) == d > 0 => Reading!Bytes(RestOf(text, d)) > MaxBytes

\* What a text has from a break on shows as much as the text, when what follows
\* the break before it has more than the limit.
LEMMA BreakShowsAsMuch ==
  ASSUME MaxLines \in Nat, MaxBytes \in Nat, NEW X, NEW text \in Seq(X),
         NEW d \in 0..Len(text), Enough(text, d),
         NEW c \in 0..Len(text), c \in Breaks(text), BreaksBefore(text, c, d)
  PROVE  ShowsAsMuch(BashOutput!Lines(RestOf(text, c)), BashOutput!Lines(text))
<1> DEFINE br == LineBreaks(text)
           all == BashOutput!Lines(text)
           N == Len(all)
           S == Breaks(text)
           part == BashOutput!Lines(RestOf(text, c))
<1>1. /\ AreBreaks(br, text) /\ AreBetween(all, br, text) /\ all \in Seq(Seq(X))
      /\ Increases(br, S)
  BY LinesAreBetween, BreaksIncrease
<1>2. ASSUME NEW n \in 1..N
      PROVE  /\ br[(N - n) + 1] \in 0..Len(text)
             /\ BashOutput!Lines(RestOf(text, br[(N - n) + 1])) = LastOf(all, n)
             /\ BashOutput!Join(LastOf(all, n)) = RestOf(text, br[(N - n) + 1])
  BY LastLinesJoined
<1>3. Weight(all, 0) = 0 /\ \A n \in 0..N : Weight(all, n) \in Nat
  BY WeightsIncrease
<1> HIDE DEF all, br
<1>4. /\ Len(br) = N + 1 /\ N \in Nat /\ N >= 1
      /\ \A k \in 1..(N + 1) : br[k] \in S
      /\ \A a \in S : \E k \in 1..(N + 1) : br[k] = a
      /\ \A k \in 1..N : br[k] < br[k + 1]
      /\ br[N + 1] = Len(text) + 1
  <2>1. Len(br) = N + 1 /\ N \in Nat /\ N >= 1
    BY <1>1 DEF AreBreaks, AreBetween
  <2>2. ASSUME NEW k \in 1..N PROVE br[k] < br[k + 1]
    <3>1. k + 1 \in 2..Len(br) /\ (k + 1) - 1 = k
      BY <2>1
    <3> QED
      BY <1>1, <3>1 DEF AreBreaks
  <2>3. /\ \A k \in 1..Len(br) : br[k] \in S
        /\ \A a \in S : \E k \in 1..Len(br) : br[k] = a
    BY <1>1 DEF Increases
  <2>4. br[Len(br)] = Len(text) + 1
    BY <1>1 DEF AreBreaks
  <2> QED
    BY <2>1, <2>2, <2>3, <2>4
<1> HIDE DEF N, S
<1>5. PICK j \in 1..(N + 1) : br[j] = c
  BY <1>4 DEF S
<1>6. j \in 1..N
  <2>1. j # N + 1
    BY <1>4, <1>5
  <2> QED
    BY <1>4, <2>1
<1> DEFINE k == (N - j) + 1
<1>7. k \in 1..N /\ (N - k) + 1 = j /\ k \in 0..N /\ k \in Nat
  BY <1>4, <1>6
<1> HIDE DEF k
<1>8. part = LastOf(all, k)
  BY <1>2, <1>5, <1>7
<1>9. Len(part) = k
  BY <1>1, <1>7, <1>8, LastOfLast DEF N
<1>10. ASSUME NEW n \in 0..k PROVE LastOf(part, n) = LastOf(all, n) /\ Weight(part, n) = Weight(all, n)
  <2>1. LastOf(part, n) = LastOf(all, n)
    BY <1>1, <1>7, <1>8, LastOfLast DEF N
  <2> QED
    BY <2>1 DEF Weight
<1>11. ASSUME k < N PROVE Weight(all, k + 1) > MaxBytes
  <2> DEFINE i == j - 1
             b == br[i]
  <2>1. /\ i \in 1..N /\ i + 1 = j /\ i \in 1..(N + 1)
        /\ k + 1 \in 1..N /\ (N - (k + 1)) + 1 = i
    BY <1>4, <1>6, <1>7, <1>11
  <2> HIDE DEF i
  <2>2. b \in S /\ b < c
    BY <1>4, <1>5, <2>1
  <2>3. b < d
    BY <2>2 DEF BreaksBefore, S
  <2>4. b \in 0..Len(text) /\ BashOutput!Join(LastOf(all, k + 1)) = RestOf(text, b)
    BY <1>2, <2>1
  <2> HIDE DEF b
  <2>5. b \in Nat /\ d \in Nat /\ b <= d /\ d <= Len(text) /\ d > 0
    BY <2>3, <2>4
  <2>6. /\ Reading!Bytes(RestOf(text, b)) \in Nat /\ Reading!Bytes(RestOf(text, d)) \in Nat
        /\ Reading!Bytes(RestOf(text, d)) <= Reading!Bytes(RestOf(text, b))
    BY <2>5, RestsShrink
  <2>7. Reading!Bytes(RestOf(text, d)) > MaxBytes
    BY <2>5 DEF Enough
  <2>8. Weight(all, k + 1) = Reading!Bytes(RestOf(text, b))
    BY <2>4, SameOutputOperators DEF Weight
  <2> QED
    BY <2>6, <2>7, <2>8
<1> HIDE DEF part
<1>12. ASSUME NEW t, IsFilled(part, t, MaxLines, MaxBytes)
       PROVE  IsFilled(all, t, MaxLines, MaxBytes) /\ LastOf(part, t) = LastOf(all, t)
  <2>1. /\ t \in 0..k /\ t <= MaxLines /\ Weight(part, t) <= MaxBytes
        /\ t = k \/ t >= MaxLines \/ Weight(part, t + 1) > MaxBytes
    BY <1>9, <1>12 DEF IsFilled
  <2>2. LastOf(part, t) = LastOf(all, t) /\ Weight(part, t) = Weight(all, t)
    BY <1>10, <2>1
  <2>3. t \in 0..N
    BY <1>4, <1>7, <2>1
  <2>4. t = N \/ t >= MaxLines \/ Weight(all, t + 1) > MaxBytes
    <3>1. CASE t = k
      BY <1>4, <1>7, <1>11, <3>1
    <3>2. CASE t # k
      <4>1. t + 1 \in 0..k
        BY <1>7, <2>1, <3>2
      <4> QED
        BY <1>10, <2>1, <3>2, <4>1
    <3> QED
      BY <3>1, <3>2
  <2> QED
    BY <2>1, <2>2, <2>3, <2>4 DEF IsFilled, N
<1>13. Len(part) <= N
  BY <1>4, <1>7, <1>9
<1> QED
  BY <1>12, <1>13 DEF ShowsAsMuch, part, all, N

\* So does a rest without a line's end and above the limit: nothing is shown.
LEMMA LineShowsAsMuch ==
  ASSUME MaxLines \in Nat, MaxBytes \in Nat, NEW X, NEW text \in Seq(X),
         NEW d \in 0..Len(text), d > 0, Enough(text, d),
         BreaksBefore(text, Len(text) + 1, d)
  PROVE  ShowsAsMuch(BashOutput!Lines(RestOf(text, d)), BashOutput!Lines(text))
<1> DEFINE br == LineBreaks(text)
           all == BashOutput!Lines(text)
           N == Len(all)
           rest == RestOf(text, d)
           part == BashOutput!Lines(rest)
<1>1. /\ AreBreaks(br, text) /\ AreBetween(all, br, text) /\ all \in Seq(Seq(X))
      /\ Increases(br, Breaks(text))
  BY LinesAreBetween, BreaksIncrease
<1>2. 1 \in 1..N => /\ br[(N - 1) + 1] \in 0..Len(text)
                    /\ BashOutput!Join(LastOf(all, 1)) = RestOf(text, br[(N - 1) + 1])
  BY LastLinesJoined
<1>3. Weight(all, 0) = 0 /\ \A n \in 0..N : Weight(all, n) \in Nat
  BY WeightsIncrease
<1>4. d \in Nat /\ d <= Len(text) /\ Len(text) \in Nat /\ Len(text) \in 0..Len(text)
  OBVIOUS
<1>5. rest \in Seq(X) /\ IsPart(rest, text, d, Len(text))
  BY <1>4, PartIs DEF RestOf
<1> HIDE DEF rest
<1>6. part \in Seq(Seq(X)) /\ Len(part) = NewLines(rest) + 1 /\ NewLines(rest) \in Nat
  <2>1. part \in Seq(Seq(X)) /\ AreBetween(part, LineBreaks(rest), rest)
    BY <1>5, LinesAreBetween
  <2>2. NewLines(rest) \in Nat /\ Len(LineBreaks(rest)) = NewLines(rest) + 2
    BY <1>5, BreaksIncrease
  <2> QED
    BY <2>1, <2>2 DEF AreBetween
<1>7. NewLines(rest) = 0
  <2>1. ASSUME NEW i \in 1..Len(rest) PROVE rest[i] # BashOutput!NewLine
    <3>1. rest[i] = text[d + i] /\ d + i \in 1..Len(text) /\ ~(d + i < d) /\ d + i < Len(text) + 1
      BY <1>4, <1>5 DEF IsPart
    <3> QED
      BY <3>1 DEF BreaksBefore, Breaks
  <2>2. Reading!Places({BashOutput!NewLine}, rest) = {}
    <3>1. DOMAIN rest = 1..Len(rest)
      BY <1>5
    <3> QED
      BY <2>1, <3>1 DEF Reading!Places
  <2> QED
    BY <2>2, FS_EmptySet DEF NewLines
<1>8. Len(part) = 1
  BY <1>6, <1>7
<1>9. Weight(part, 1) > MaxBytes /\ Weight(part, 1) \in Nat
  <2>1. /\ Weight(part, Len(part)) = BashOutput!Bytes(rest)
        /\ \A n \in 0..Len(part) : Weight(part, n) \in Nat
    BY <1>5, WeightsIncrease
  <2> QED
    BY <1>8, <2>1, SameOutputOperators DEF Enough, rest
<1> HIDE DEF all, br
<1>10. /\ N \in Nat /\ N >= 1 /\ br[N] < Len(text) + 1 /\ br[N] \in Breaks(text)
  <2>1. Len(br) = N + 1 /\ N \in Nat /\ N >= 1
    BY <1>1 DEF AreBreaks, AreBetween
  <2>2. N + 1 \in 2..Len(br) /\ (N + 1) - 1 = N /\ N \in 1..Len(br)
    BY <2>1
  <2>3. br[N] < br[N + 1] /\ br[N + 1] = Len(text) + 1
    BY <1>1, <2>1, <2>2 DEF AreBreaks
  <2>4. br[N] \in Breaks(text)
    BY <1>1, <2>2 DEF Increases
  <2> QED
    BY <2>1, <2>3, <2>4
<1> DEFINE b == br[N]
<1>11. Weight(all, 1) > MaxBytes
  <2>1. b < d
    BY <1>10 DEF BreaksBefore
  <2>2. 1 \in 1..N /\ (N - 1) + 1 = N
    BY <1>10
  <2>3. b \in 0..Len(text) /\ BashOutput!Join(LastOf(all, 1)) = RestOf(text, b)
    BY <1>2, <2>2
  <2> HIDE DEF b
  <2>4. b \in Nat /\ b <= d
    BY <1>4, <2>1, <2>3
  <2>5. /\ Reading!Bytes(RestOf(text, b)) \in Nat /\ Reading!Bytes(RestOf(text, d)) \in Nat
        /\ Reading!Bytes(RestOf(text, d)) <= Reading!Bytes(RestOf(text, b))
    BY <1>4, <2>4, RestsShrink
  <2>6. Weight(all, 1) = Reading!Bytes(RestOf(text, b))
    BY <2>3, SameOutputOperators DEF Weight
  <2>7. Reading!Bytes(RestOf(text, d)) > MaxBytes
    BY DEF Enough
  <2> QED
    BY <2>5, <2>6, <2>7
<1> HIDE DEF part, N
<1>12. ASSUME NEW t, IsFilled(part, t, MaxLines, MaxBytes)
       PROVE  IsFilled(all, t, MaxLines, MaxBytes) /\ LastOf(part, t) = LastOf(all, t)
  <2>1. t \in 0..1 /\ Weight(part, t) <= MaxBytes
    BY <1>8, <1>12 DEF IsFilled
  <2>2. t = 0
    <3>1. t # 1
      BY <1>9, <2>1
    <3> QED
      BY <2>1, <3>1
  <2>3. \A v \in Seq(Seq(X)) : LastOf(v, 0) = <<>>
    BY DEF LastOf, BashOutput!EdgeLines
  <2>4. 0 \in 0..Len(all) /\ 0 <= MaxLines /\ Weight(all, 0) <= MaxBytes /\ 0 + 1 = 1
    BY <1>3, <1>10 DEF N
  <2>5. IsFilled(all, 0, MaxLines, MaxBytes)
    BY <1>11, <2>4 DEF IsFilled
  <2> QED
    BY <1>1, <1>6, <2>2, <2>3, <2>5
<1> QED
  BY <1>8, <1>10, <1>12 DEF ShowsAsMuch, part, all, N, rest

\* What a snapshot has to say of a text's lines, t of which are filled: the last
\* t of them, and whether that leaves any out.
Tells(snapshot, lines, t) ==
    /\ snapshot.lines = LastOf(lines, t)
    /\ snapshot.truncated <=> t < Len(lines)

LEMMA SnapshotTells ==
  ASSUME MaxLines \in Nat \ {0}, MaxBytes \in Nat, NEW X, NEW text \in Seq(X),
         NEW shown \in Seq(X), BashOutput!SnapshotText = shown,
         ShowsAsMuch(BashOutput!Lines(shown), BashOutput!Lines(text)),
         totalLines = Len(BashOutput!Lines(text)), totalBytes = BashOutput!Bytes(text)
  PROVE  \E t \in 0..Len(BashOutput!Lines(text)) :
            /\ IsFilled(BashOutput!Lines(text), t, MaxLines, MaxBytes)
            /\ Tells(BashOutput!Snapshot, BashOutput!Lines(text), t)
<1> DEFINE all == BashOutput!Lines(text)
           part == BashOutput!Lines(shown)
           N == Len(all)
           W(n) == Weight(all, n)
           cut == BashOutput!TruncateLines(part, "tail", MaxLines, MaxBytes)
           snapshot == BashOutput!Snapshot
<1>1. /\ N \in Nat /\ N >= 1 /\ \A n \in 0..N : W(n) \in Nat
      /\ \A m, n \in 0..N : m <= n => W(m) <= W(n)
      /\ W(N) = BashOutput!Bytes(text)
  BY WeightsIncrease
<1>2. /\ part \in Seq(Seq(X)) /\ Len(part) \in Nat /\ Len(part) >= 1
      /\ Weight(part, 0) = 0 /\ \A n \in 0..Len(part) : Weight(part, n) \in Nat
  BY LinesAreBetween, WeightsIncrease
<1>3. snapshot = [cut EXCEPT !.truncated = @ \/ totalLines > MaxLines \/ totalBytes > MaxBytes]
  BY DEF BashOutput!Snapshot, BashOutput!WithTotalMetadata
<1>4. Len(part) <= N
  BY DEF ShowsAsMuch
<1>5. cut = [lines |-> cut.lines, truncated |-> cut.truncated,
             edgeLineExceedsLimit |-> cut.edgeLineExceedsLimit]
  BY DEF BashOutput!TruncateLines, BashOutput!Result
<1> HIDE DEF part, cut
<1>6. PICK t \in 0..Len(part) : /\ IsFilled(part, t, MaxLines, MaxBytes)
                                /\ IsTailOf(cut, part, t, MaxLines, MaxBytes)
  BY <1>2, TruncatesToTail DEF cut
<1>7. IsFilled(all, t, MaxLines, MaxBytes) /\ LastOf(part, t) = LastOf(all, t)
  BY <1>6 DEF ShowsAsMuch, part
<1> HIDE DEF all
<1>8. /\ cut.lines = LastOf(all, t)
      /\ cut.truncated <=> ~(Len(part) <= MaxLines /\ Weight(part, Len(part)) <= MaxBytes)
  BY <1>6, <1>7 DEF IsTailOf
<1>9. /\ snapshot.lines = cut.lines
      /\ snapshot.truncated = (cut.truncated \/ totalLines > MaxLines \/ totalBytes > MaxBytes)
  BY <1>3, <1>5
<1>10. /\ t \in 0..N /\ t <= MaxLines /\ W(t) <= MaxBytes
       /\ t = N \/ t >= MaxLines \/ W(t + 1) > MaxBytes
  BY <1>7 DEF IsFilled
<1>11. /\ t \in 0..Len(part) /\ Weight(part, t) <= MaxBytes
  BY <1>6 DEF IsFilled
<1>12. totalLines = N /\ totalBytes = W(N)
  BY <1>1 DEF all
<1> HIDE DEF snapshot, N, W
<1>13. snapshot.truncated <=> t < N
  <2>1. CASE t = N
    <3>1. Len(part) = N /\ ~(t < N)
      BY <1>1, <1>2, <1>4, <1>11, <2>1
    <3>2. ~cut.truncated
      BY <1>8, <1>10, <1>11, <2>1, <3>1
    <3>3. ~(N > MaxLines)
      BY <1>1, <1>10, <2>1
    <3>4. ~(W(N) > MaxBytes)
      <4>1. W(N) \in Nat /\ W(N) <= MaxBytes
        BY <1>1, <1>10, <2>1
      <4> QED
        BY <4>1
    <3> QED
      BY <1>9, <1>12, <3>1, <3>2, <3>3, <3>4, Zenon
  <2>2. CASE t # N
    <3>1. t < N /\ t + 1 \in 0..N /\ N \in 0..N /\ t + 1 <= N
      BY <1>1, <1>10, <2>2
    <3>2. CASE t >= MaxLines
      <4>1. N > MaxLines
        BY <1>1, <1>10, <3>1, <3>2
      <4> QED
        BY <1>9, <1>12, <3>1, <4>1, Zenon
    <3>3. CASE W(t + 1) > MaxBytes
      <4>1. W(t + 1) \in Nat /\ W(N) \in Nat /\ W(t + 1) <= W(N)
        BY <1>1, <3>1
      <4>2. W(N) > MaxBytes
        BY <3>3, <4>1
      <4> QED
        BY <1>9, <1>12, <3>1, <4>2, Zenon
    <3> QED
      BY <1>10, <2>2, <3>2, <3>3
  <2> QED
    BY <2>1, <2>2
<1>14. Tells(snapshot, all, t)
  BY <1>8, <1>9, <1>13 DEF Tells, N
<1> QED
  BY <1>7, <1>10, <1>14 DEF N, all, snapshot

\* What a snapshot is made of shows as much as the whole output.
LEMMA SnapshotTextShowsAsMuch ==
  ASSUME MaxLines \in Nat, MaxBytes \in Nat, NEW X, NEW text \in Seq(X),
         Keeps(text, tail, boundary, totalBytes, totalLines)
  PROVE  /\ BashOutput!SnapshotText \in Seq(X)
         /\ ShowsAsMuch(BashOutput!Lines(BashOutput!SnapshotText), BashOutput!Lines(text))
<1> DEFINE NL == BashOutput!NewLine
           I == {i \in 1..Len(tail) : tail[i] = NL}
           end == Len(text)
<1>1. PICK d \in 0..Len(text) :
          /\ tail = RestOf(text, d)
          /\ boundary <=> (d = 0 \/ text[d] = NL)
          /\ d > 0 => BashOutput!Bytes(tail) > MaxBytes
  BY DEF Keeps
<1>2. d \in Nat /\ end \in Nat /\ d <= end /\ end \in 0..end /\ end <= end
  BY <1>1
<1>3. Enough(text, d)
  BY <1>1, SameOutputOperators DEF Enough
<1>4. tail \in Seq(X) /\ IsPart(tail, text, d, end)
  <2>1. tail = SubSeq(text, d + 1, end)
    BY <1>1 DEF RestOf
  <2>2. SubSeq(text, d + 1, end) \in Seq(X) /\ IsPart(SubSeq(text, d + 1, end), text, d, end)
    BY <1>2, PartIs
  <2> QED
    BY <2>1, <2>2
<1>5. Len(tail) = end - d /\ Len(tail) \in Nat /\ \A i \in 1..Len(tail) : tail[i] = text[d + i]
  BY <1>2, <1>4 DEF IsPart
<1>6. \A b : b \in Breaks(text) <=> \/ b = 0 \/ b = end + 1
                                    \/ b \in 1..end /\ text[b] = NL
  BY DEF Breaks
<1> DEFINE newline == IF I # {} THEN CHOOSE x \in I : \A y \in I : x <= y ELSE 0
<1>7. BashOutput!SnapshotText = IF boundary \/ newline = 0 THEN tail
                                ELSE SubSeq(tail, newline + 1, Len(tail))
  BY DEF BashOutput!SelectInSeq, BashOutput!SnapshotText, BashOutput!Min
<1> HIDE DEF NL, end
<1>8. I # {} => newline \in I /\ \A y \in I : newline <= y
  <2>1. SUFFICES ASSUME NEW n \in I PROVE newline \in I /\ \A y \in I : newline <= y
    OBVIOUS
  <2>2. n \in Nat /\ \A y \in I : y \in Nat
    BY <1>5
  <2> HIDE DEF I
  <2>3. PICK x \in 0..n : x \in I /\ \A m \in 0..(x - 1) : m \notin I
    BY <2>2, LeastUpTo
  <2>4. \A y \in I : x <= y
    BY <2>2, <2>3
  <2> QED
    BY <2>3, <2>4
<1>9. I = {} => newline = 0
  OBVIOUS
<1> HIDE DEF newline
<1>10. CASE boundary
  <2>1. BashOutput!SnapshotText = RestOf(text, d)
    BY <1>1, <1>7, <1>10
  <2>2. d \in Breaks(text)
    BY <1>1, <1>2, <1>6, <1>10
  <2>3. BreaksBefore(text, d, d)
    BY DEF BreaksBefore
  <2>4. ShowsAsMuch(BashOutput!Lines(RestOf(text, d)), BashOutput!Lines(text))
    BY <1>3, <2>2, <2>3, BreakShowsAsMuch
  <2> QED
    BY <1>1, <1>4, <2>1, <2>4
<1>11. CASE ~boundary /\ I = {}
  <2>1. BashOutput!SnapshotText = RestOf(text, d)
    BY <1>1, <1>7, <1>9, <1>11
  <2>2. d > 0 /\ d \notin Breaks(text)
    BY <1>1, <1>2, <1>6, <1>11
  <2>3. ASSUME NEW b \in Breaks(text), b < end + 1 PROVE b < d
    <3>1. SUFFICES ASSUME ~(b < d) PROVE FALSE
      OBVIOUS
    <3>2. b \in 1..end /\ text[b] = NL /\ b > d
      BY <1>2, <1>6, <2>2, <2>3, <3>1
    <3> DEFINE i == b - d
    <3>3. i \in 1..Len(tail) /\ d + i = b
      BY <1>2, <1>5, <3>2
    <3> HIDE DEF i
    <3>4. tail[i] = NL
      BY <1>5, <3>2, <3>3
    <3> QED
      BY <1>11, <3>3, <3>4
  <2>4. BreaksBefore(text, Len(text) + 1, d)
    BY <2>3 DEF BreaksBefore, end
  <2>5. ShowsAsMuch(BashOutput!Lines(RestOf(text, d)), BashOutput!Lines(text))
    BY <1>3, <2>2, <2>4, LineShowsAsMuch
  <2> QED
    BY <1>1, <1>4, <2>1, <2>5
<1>12. CASE ~boundary /\ I # {}
  <2> DEFINE m == newline
             c == d + m
  <2>1. /\ m \in 1..Len(tail) /\ tail[m] = NL /\ m # 0 /\ m \in Nat
        /\ \A i \in 1..Len(tail) : tail[i] = NL => m <= i
    BY <1>5, <1>8, <1>12
  <2>2. BashOutput!SnapshotText = SubSeq(tail, m + 1, Len(tail))
    BY <1>7, <1>12, <2>1
  <2> HIDE DEF m
  <2>3. d # 0 /\ d \notin Breaks(text)
    BY <1>1, <1>2, <1>6, <1>12
  <2>4. c \in 1..end /\ text[c] = NL /\ c \in 0..end
    BY <1>2, <1>5, <2>1
  <2>5. c \in Breaks(text)
    BY <1>6, <2>4
  <2>6. AgreeFrom(tail, m, Len(tail), text, d)
    <3>1. m <= Len(tail) /\ Len(tail) <= Len(tail) /\ end <= Len(text)
      BY <1>2, <2>1 DEF end
    <3> QED
      BY <1>2, <1>4, <1>5, <2>1, <3>1, PartOfPart
  <2>7. BashOutput!SnapshotText = RestOf(text, c)
    <3>1. d + Len(tail) = end
      BY <1>2, <1>5
    <3> QED
      BY <2>2, <2>6, <3>1 DEF AgreeFrom, RestOf, end
  <2>8. ASSUME NEW b \in Breaks(text), b < c PROVE b < d
    <3>1. SUFFICES ASSUME ~(b < d) PROVE FALSE
      OBVIOUS
    <3>2. b \in 1..end /\ text[b] = NL /\ b > d
      BY <1>2, <1>6, <2>3, <2>4, <2>8, <3>1
    <3> DEFINE i == b - d
    <3>3. i \in 1..Len(tail) /\ d + i = b /\ ~(m <= i)
      BY <1>2, <1>5, <2>1, <2>8, <3>2
    <3> HIDE DEF i
    <3>4. tail[i] = NL
      BY <1>5, <3>2, <3>3
    <3> QED
      BY <2>1, <3>3, <3>4
  <2> HIDE DEF c
  <2>9. BreaksBefore(text, c, d)
    BY <2>8 DEF BreaksBefore
  <2>10. ShowsAsMuch(BashOutput!Lines(RestOf(text, c)), BashOutput!Lines(text))
    BY <1>3, <2>4, <2>5, <2>9, BreakShowsAsMuch DEF end
  <2>11. RestOf(text, c) \in Seq(X)
    BY <2>4, PartIs DEF RestOf, end
  <2> QED
    BY <2>7, <2>10, <2>11
<1> QED
  BY <1>10, <1>11, <1>12

LEMMA OutputInvShowsTheTail == OutputInv => BashOutput!SnapshotIsTheTail
<1> DEFINE text == BashOutput!Output
           all == BashOutput!Lines(text)
           N == Len(all)
           C == BashOutput!Character
           snapshot == BashOutput!Snapshot
           notice == BashOutput!NoticeLines(snapshot)
           shown == SubSeq(all, notice[1], notice[2])
<1> SUFFICES ASSUME OutputInv, text # <<>>
             PROVE  /\ snapshot.lines = shown
                    /\ Len(shown) = BashOutput!LinesThatFit
                    /\ snapshot.truncated <=> BashOutput!LinesThatFit < N
  BY DEF BashOutput!SnapshotIsTheTail
<1>1. MaxLines \in Nat \ {0} /\ MaxBytes \in Nat
  BY ToolCallAssumption DEF BashOutput!TailAssumption
<1>2. text \in Seq(C) /\ Keeps(text, tail, boundary, totalBytes, totalLines)
  BY OutputType DEF OutputInv
<1> HIDE DEF C, text
<1>3. /\ BashOutput!SnapshotText \in Seq(C)
      /\ ShowsAsMuch(BashOutput!Lines(BashOutput!SnapshotText), all)
  BY <1>1, <1>2, SnapshotTextShowsAsMuch
<1>4. totalLines = N /\ totalBytes = BashOutput!Bytes(text)
  <2>1. totalBytes = BashOutput!Bytes(text) /\ totalLines = NewLines(text) + 1
    BY <1>2 DEF Keeps
  <2>2. AreBetween(all, LineBreaks(text), text)
    BY <1>2, LinesAreBetween
  <2>3. Len(LineBreaks(text)) = NewLines(text) + 2 /\ NewLines(text) \in Nat
    BY <1>2, BreaksIncrease
  <2> QED
    BY <2>1, <2>2, <2>3 DEF AreBetween
<1>5. PICK t \in 0..N : IsFilled(all, t, MaxLines, MaxBytes) /\ Tells(snapshot, all, t)
  <2> DEFINE part == BashOutput!SnapshotText
  <2>1. part \in Seq(C) /\ BashOutput!SnapshotText = part
        /\ ShowsAsMuch(BashOutput!Lines(part), all)
    BY <1>3
  <2> HIDE DEF part
  <2> QED
    BY <1>1, <1>2, <1>4, <2>1, SnapshotTells
<1>6. BashOutput!LinesThatFit = t
  BY <1>1, <1>2, <1>5, FillsWhatFits DEF text
<1>7. all \in Seq(Seq(C)) /\ N \in Nat
  BY <1>2, LinesAreBetween
<1>8. snapshot.lines = LastOf(all, t) /\ (snapshot.truncated <=> t < N)
  BY <1>5 DEF Tells
<1> HIDE DEF all, snapshot
<1>9. Len(LastOf(all, t)) = t
  <2>1. N \in 0..Len(all) /\ t \in 0..Len(all) /\ t \in 0..t
    BY <1>5, <1>7
  <2> QED
    BY <1>7, <2>1, LastOfLast
<1>10. notice = <<N - t + 1, N>>
  BY <1>4, <1>8, <1>9 DEF BashOutput!NoticeLines
<1>11. shown = LastOf(all, t)
  BY <1>10 DEF LastOf, BashOutput!EdgeLines
<1> HIDE DEF shown
<1> QED
  BY <1>6, <1>8, <1>9, <1>11 DEF N

-----------------------------------------------------------------------------
(* The calls.                                                              *)

\* A step of a call is a step of the command, of what keeps its output, of the
\* image's processing, of the reader and of the edit, or leaves them alone.
LEMMA CallsAreTheirTools ==
  [CallNext]_callVars =>
      /\ [Next]_vars /\ [BashOutput!Next]_outputVars
      /\ [ImageNext]_imageVars /\ [Reading!Next]_readVars /\ [Editing!Next]_editVars
  BY DEF CallNext, callVars, OfBash, OfBashOutput, OfRead, OfReadImage, OfEdit, OfSearch

\* When a call of bash is answered the exit code is the shell's, and no process
\* of the command can write any more of the output that was answered with.
THEOREM CallAnswersAreFinal == CallSpec => []AnswersAreFinal
<1>1. CallInit => BashInv
  BY CommandStarts DEF CallInit
<1>2. BashInv /\ [CallNext]_callVars => BashInv'
  BY CommandStepPreserves, CallsAreTheirTools
<1>3. BashInv => AnswersAreFinal
  BY DEF BashInv
<1> QED
  BY <1>1, <1>2, <1>3, PTL DEF CallSpec

\* However the output of a command was cut into chunks, and whatever the limits:
\* a snapshot shows the last lines of the whole output, as many as fit, says
\* which they are, and reports a truncation exactly when it leaves something out.
THEOREM SnapshotsShowTheTail == CallSpec => []SnapshotIsTheTail
<1>1. CallInit => OutputInv
  BY OutputStarts DEF CallInit
<1>2. OutputInv /\ [CallNext]_callVars => OutputInv'
  BY StepKeepsOutputInv, CallsAreTheirTools
<1>3. OutputInv => SnapshotIsTheTail
  BY OutputInvShowsTheTail DEF SnapshotIsTheTail
<1> QED
  BY <1>1, <1>2, <1>3, PTL DEF CallSpec

\* What a call of read sends of an image is in the box and below the limit.
THEOREM CallsSendFittingImages == CallSpec => []SentImagesFit
<1>1. CallInit => ImageInv
  BY ImageStarts DEF CallInit
<1>2. ImageInv /\ [CallNext]_callVars => ImageInv'
  BY StepKeepsImageInv, CallsAreTheirTools
<1>3. ImageInv => SentImagesFit
  BY DEF ImageInv, InTheBox, SentImagesFit
<1> QED
  BY <1>1, <1>2, <1>3, PTL DEF CallSpec

\* The scale that read's note gives for an image it shrunk maps coordinates
\* onto the original, up to three pixels after any number of rounds.
THEOREM NotesMapOntoTheOriginal == CallSpec => []NoteMapsOntoTheOriginal
<1>1. CallInit => NoteInv
  BY NoteStarts DEF CallInit
<1>2. NoteInv /\ [CallNext]_callVars => NoteInv'
  BY StepKeepsNoteInv, CallsAreTheirTools
<1>3. NoteInv => NoteMapsOntoTheOriginal
  BY NoteInvMaps
<1> QED
  BY <1>1, <1>2, <1>3, PTL DEF CallSpec

\* Whatever the file, the limits and their notices: the pages read so far are
\* the lines of the file from the first offset on, each once and in order, and
\* none left out but those too long for a page.
THEOREM PagesAlwaysTile == CallSpec => []PagesTileTheFile
<1>1. CallInit => ReadInv
  BY ReadStarts DEF CallInit
<1>2. ReadInv /\ [CallNext]_callVars => ReadInv'
  BY StepKeepsReadInv, CallsAreTheirTools
<1>3. ReadInv => PagesTileTheFile
  BY ReadInvTiles DEF PagesTileTheFile
<1> QED
  BY <1>1, <1>2, <1>3, PTL DEF CallSpec

\* Whatever the file and the edits: a file whose lines all end alike is written
\* with that ending, and with its byte-order mark but none it did not have; a
\* rejected call has not touched the file.
THEOREM EditsKeepStyle == CallSpec => []FilesKeepTheirStyle
<1>1. CallInit => EditInv
  BY EditStarts DEF CallInit
<1>2. EditInv /\ [CallNext]_callVars => EditInv'
  BY StepKeepsEditInv, CallsAreTheirTools
<1>3. EditInv => FilesKeepTheirStyle
  BY EditInvKeepsStyle DEF FilesKeepTheirStyle
<1> QED
  BY <1>1, <1>2, <1>3, PTL DEF CallSpec

\* Whatever the file and the edits: when a call of edit has written, and none of
\* its spans is empty, each span covers its edit's old text but for white space
\* at the ends of lines and typography, and the file is what all replacements
\* made at once give.
THEOREM EditsReplaceAtOnce == CallSpec => []EditsAreSimultaneous
<1>1. CallInit => EditInv
  BY EditStarts DEF CallInit
<1>2. EditInv /\ [CallNext]_callVars => EditInv'
  BY StepKeepsEditInv, CallsAreTheirTools
<1>3. EditInv => EditsAreSimultaneous
  BY EditInvReplacesAtOnce DEF EditsAreSimultaneous
<1> QED
  BY <1>1, <1>2, <1>3, PTL DEF CallSpec
=============================================================================
