---------------------------- MODULE Projection ----------------------------
(***************************************************************************)
(* prepareVirtualDisplay() of jni/screenrecord.cpp: the place the picture  *)
(* of the display takes in the frames of the video.  Sizes are pairs       *)
(* <<width, height>>.                                                      *)
(***************************************************************************)
EXTENDS Integers

\* Larger displays and videos are out of reach of every encoder, and their
\* computation in single precision is less exact.
Dimension == 1 .. 65536
Size == Dimension \X Dimension
Rect == [x : Int, y : Int, w : Nat, h : Nat]

\* What two roundings to 24 bits, that of displayAspect and that of its
\* product or quotient, may add to n or take from it
RoundingError(n) == n \div 8388607

\* (uint32_t) of a product or quotient with displayAspect that is n / d: just
\* below a whole number it may be rounded up to it, and at one below it
Truncated(n, d) ==
  {q \in (n \div d) - 1 .. (n \div d) + 1 :
     q >= 0 /\ q * d <= n + RoundingError(n) /\ n <= (q + 1) * d + RoundingError(n)}

\* Mutant: gRotate does not swap width and height
DrawnAsIs(video, gRotate) == video

\* the frame as it is drawn: a rotated video is drawn before its rotation
Drawn(video, gRotate) == IF gRotate THEN <<video[2], video[1]>> ELSE video

\* limited by narrow width, or by short height
Content(source, video) ==
  LET heights == Truncated(video[1] * source[2], source[1])
      widths == Truncated(video[2] * source[1], source[2])
  IN  {<<video[1], h>> : h \in {k \in heights : video[2] > k}}
        \cup {<<w, video[2]>> : w \in {k \in widths : \E h \in heights : video[2] <= h}}

\* displayRect, one for each way the float computations may go
DisplayRects(source, video) ==
  {[x |-> (video[1] - out[1]) \div 2, y |-> (video[2] - out[2]) \div 2,
    w |-> out[1], h |-> out[2]] : out \in Content(source, video)}

\* The picture is inside the frame (a negative offset would wrap around in
\* uint32_t), and in its middle to half a pixel.
Inside(rect, video) ==
  /\ 0 <= rect.x /\ video[1] - (2 * rect.x + rect.w) \in 0 .. 1
  /\ 0 <= rect.y /\ video[2] - (2 * rect.y + rect.h) \in 0 .. 1

\* The rounded length is that of n / d, but for the pixel truncated and a
\* hundredth of one.
Nearly(length, n, d) ==
  /\ 100 * (length * d - n) <= d
  /\ 100 * (n - (length + 1) * d) <= d

\* It is as wide or as high as the frame, and the other dimension keeps the
\* aspect of the display.
Undistorted(rect, source, video) ==
  \/ rect.w = video[1] /\ Nearly(rect.h, video[1] * source[2], source[1])
  \/ rect.h = video[2] /\ Nearly(rect.w, video[2] * source[1], source[2])

Fits(rect, source, video) == Inside(rect, video) /\ Undistorted(rect, source, video)

\* what a turn by 90 degrees makes of a size and of a place in the frame
Turned(size) == <<size[2], size[1]>>
TurnedRect(rect) == [x |-> rect.y, y |-> rect.x, w |-> rect.h, h |-> rect.w]
===========================================================================
