------------------------- MODULE Projection_proofs -------------------------
(***************************************************************************)
(* The picture of the display fits the frames of the video, for displays   *)
(* and videos of every size up to 65536 by 65536.                          *)
(***************************************************************************)
EXTENDS Projection, TLAPS

\* What a length, and a size, is.
LEMMA Lengths ==
  ASSUME NEW x \in Dimension
  PROVE  x \in Nat \ {0} /\ x \in Nat /\ x <= 65536 /\ 65536 - x \in Nat
BY SMTT(30) DEF Dimension

LEMMA Sizes ==
  ASSUME NEW size \in Size
  PROVE  size[1] \in Dimension /\ size[2] \in Dimension
BY DEF Size

\* Integer division truncates.
LEMMA Division ==
  ASSUME NEW n \in Nat, NEW d \in Nat \ {0}
  PROVE  /\ n \div d \in Nat
         /\ d * (n \div d) <= n /\ n < d * ((n \div d) + 1)
         /\ n = d * (n \div d) + (n % d) /\ n % d \in 0 .. d - 1
<1>1. n \div d \in Int
  OBVIOUS
<1>2. n = d * (n \div d) + (n % d)
  OBVIOUS
<1>3. n % d \in 0 .. d - 1
  OBVIOUS
<1>4. d * (n \div d) <= n
  BY <1>2, <1>3
<1>5. n \div d >= 0
  OBVIOUS
<1>6. n < d * ((n \div d) + 1)
  BY <1>2, <1>3
<1> QED
  BY <1>1, <1>2, <1>3, <1>4, <1>5, <1>6

\* A smaller product has the smaller factor.
LEMMA Cancel ==
  ASSUME NEW a \in Int, NEW b \in Int, NEW d \in Nat \ {0}, d * a < d * b
  PROVE  a < b
OBVIOUS

\* What the float computation of n / d can be off by.
LEMMA TruncatedBounds ==
  ASSUME NEW n \in Nat, NEW d \in Nat \ {0}, NEW q \in Truncated(n, d)
  PROVE  q \in Nat /\ d * q <= n + RoundingError(n) /\ n <= d * (q + 1) + RoundingError(n)
<1>1. n \div d \in Nat /\ RoundingError(n) \in Nat
  BY Division DEF RoundingError
<1>2. q \in Int /\ q >= 0 /\ q * d <= n + RoundingError(n) /\ n <= (q + 1) * d + RoundingError(n)
  BY <1>1 DEF Truncated
<1>3. q \in Nat /\ q * d = d * q /\ (q + 1) * d = d * (q + 1)
  BY <1>2
<1> QED
  BY <1>2, <1>3

\* The rounding of lengths that fit in 65536 pixels of size d, but for one
\* pixel, is less than a hundredth of a pixel.
LEMMA SmallError ==
  ASSUME NEW n \in Nat, NEW d \in Nat, NEW e \in Nat, n <= 65536 * d + e, 50 * e <= d
  PROVE  RoundingError(n) \in Nat /\ 100 * RoundingError(n) <= d
<1>1. RoundingError(n) \in Nat /\ 8388607 * RoundingError(n) <= n
  BY Division DEF RoundingError
<1> QED
  BY <1>1

\* Half of what is left over puts the picture in the middle.
LEMMA Middle ==
  ASSUME NEW a \in Nat, NEW b \in Nat, b <= a
  PROVE  (a - b) \div 2 \in Nat /\ a - (2 * ((a - b) \div 2) + b) \in 0 .. 1
OBVIOUS

\* A length within one pixel and the rounding error of n / d is nearly that.
LEMMA NearlyRounded ==
  ASSUME NEW n \in Nat, NEW d \in Nat \ {0}, NEW q \in Truncated(n, d), 100 * RoundingError(n) <= d
  PROVE  Nearly(q, n, d)
<1>1. q \in Nat /\ d * q <= n + RoundingError(n) /\ n <= d * (q + 1) + RoundingError(n)
  BY TruncatedBounds
<1>2. RoundingError(n) \in Nat /\ d * q = q * d /\ d * (q + 1) = (q + 1) * d
  BY <1>1, Division DEF RoundingError
<1>3. /\ q * d \in Int /\ (q + 1) * d \in Int
      /\ q * d - n <= RoundingError(n) /\ n - (q + 1) * d <= RoundingError(n)
  BY <1>1, <1>2
<1> HIDE DEF RoundingError
<1> DEFINE x == q * d
           y == (q + 1) * d
           e == RoundingError(n)
<1>4. x \in Int /\ y \in Int /\ e \in Nat /\ x - n <= e /\ n - y <= e /\ 100 * e <= d
  BY <1>2, <1>3
<1> HIDE DEF x, y, e
<1>5. 100 * (x - n) <= d /\ 100 * (n - y) <= d
  BY <1>4
<1> QED
  BY <1>5 DEF Nearly, x, y

\* The height of the picture under a limited width: it is the exact one but
\* for the rounding, which is small because the picture is not high.
LEMMA HeightBounds ==
  ASSUME NEW sw \in Dimension, NEW sh \in Dimension, NEW vw \in Dimension, NEW vh \in Dimension,
         NEW h \in Truncated(vw * sh, sw), vh > h
  PROVE  h \in Nat /\ Nearly(h, vw * sh, sw)
<1> DEFINE n == vw * sh
<1>1. n \in Nat /\ sw \in Nat \ {0} /\ vh \in Nat /\ vh <= 65536
  <2>1. vw \in Nat /\ sh \in Nat
    BY Lengths
  <2>2. sw \in Nat \ {0} /\ vh \in Nat /\ vh <= 65536
    BY Lengths
  <2> QED
    BY <2>1, <2>2
<1> HIDE DEF n
<1>2. h \in Nat /\ n <= sw * (h + 1) + RoundingError(n)
  BY <1>1, TruncatedBounds DEF n
<1>3. sw * (h + 1) <= 65536 * sw
  <2>1. h + 1 \in Nat /\ 65536 - (h + 1) \in Nat
    BY <1>1, <1>2
  <2>2. sw * (65536 - (h + 1)) >= 0
    BY <1>1, <2>1
  <2>3. sw * (65536 - (h + 1)) = 65536 * sw - sw * (h + 1)
    BY <1>1, <1>2
  <2> QED
    BY <1>1, <1>2, <2>2, <2>3
<1>4. RoundingError(n) \in Nat /\ 8388607 * RoundingError(n) <= n
  BY <1>1, Division DEF RoundingError
<1>5. sw * (h + 1) \in Nat
  BY <1>1, <1>2
<1>6. 100 * RoundingError(n) <= sw
  BY <1>1, <1>2, <1>3, <1>4, <1>5
<1> QED
  BY <1>1, <1>2, <1>6, NearlyRounded DEF n

\* The width of the picture under a limited height: it is not more than that
\* of the frame, because the frame is not higher than its height would be.
LEMMA WidthBounds ==
  ASSUME NEW sw \in Dimension, NEW sh \in Dimension, NEW vw \in Dimension, NEW vh \in Dimension,
         NEW h \in Truncated(vw * sh, sw), vh <= h,
         NEW w \in Truncated(vh * sw, sh)
  PROVE  w \in Nat /\ w <= vw /\ Nearly(w, vh * sw, sh)
<1> DEFINE m == vw * sh
           n == vh * sw
<1>1. /\ m \in Nat /\ n \in Nat /\ m <= 65536 * sh
      /\ sw \in Nat \ {0} /\ sh \in Nat \ {0} /\ vw \in Nat /\ vh \in Nat
  <2>1. /\ sw \in Nat \ {0} /\ sh \in Nat \ {0} /\ vw \in Nat /\ vh \in Nat
        /\ 65536 - vw \in Nat
    BY Lengths
  <2>2. (65536 - vw) * sh >= 0 /\ (65536 - vw) * sh = 65536 * sh - vw * sh
    BY <2>1
  <2> QED
    BY <2>1, <2>2
<1>2. h \in Nat /\ sw * h <= m + RoundingError(m)
  BY <1>1, TruncatedBounds
<1>3. w \in Nat /\ sh * w <= n + RoundingError(n)
  BY <1>1, TruncatedBounds
<1>4. n <= sw * h
  <2>1. h - vh \in Nat
    BY <1>1, <1>2
  <2>2. sw * (h - vh) >= 0 /\ sw * (h - vh) = sw * h - vh * sw
    BY <1>1, <1>2, <2>1
  <2> QED
    BY <1>1, <1>2, <2>2
<1>5. sw * h \in Nat /\ sh * w \in Nat /\ sh * vw = m
  BY <1>1, <1>2, <1>3
<1>10. Nearly(w, n, sh) <=> Nearly(w, vh * sw, sh)
  OBVIOUS
<1> HIDE DEF m, n
<1>6. RoundingError(m) \in Nat /\ 100 * RoundingError(m) <= sh
  BY <1>1, SmallError
<1>7. RoundingError(n) \in Nat /\ 100 * RoundingError(n) <= sh
  <2>1. n <= 65536 * sh + RoundingError(m) /\ 50 * RoundingError(m) <= sh
    BY <1>1, <1>2, <1>4, <1>5, <1>6
  <2> QED
    BY <1>1, <1>6, <2>1, SmallError
<1>8. w <= vw
  <2>1. sh * w < sh * vw + sh
    BY <1>1, <1>2, <1>3, <1>4, <1>5, <1>6, <1>7
  <2>2. sh * w < sh * (vw + 1)
    BY <1>1, <2>1
  <2>3. w < vw + 1
    BY <1>1, <1>3, <2>2, Cancel
  <2> QED
    BY <1>1, <1>3, <2>3
<1>9. Nearly(w, n, sh)
  BY <1>1, <1>7, NearlyRounded DEF n
<1> QED
  BY <1>3, <1>8, <1>9, <1>10

\* Whichever dimension limits the picture, it is not larger than the frame
\* and keeps the aspect of the display.
LEMMA ContentBounds ==
  ASSUME NEW source \in Size, NEW video \in Size, NEW out \in Content(source, video)
  PROVE  /\ out[1] \in Nat /\ out[1] <= video[1]
         /\ out[2] \in Nat /\ out[2] <= video[2]
         /\ \/ out[1] = video[1] /\ Nearly(out[2], video[1] * source[2], source[1])
            \/ out[2] = video[2] /\ Nearly(out[1], video[2] * source[1], source[2])
<1> DEFINE sw == source[1]
           sh == source[2]
           vw == video[1]
           vh == video[2]
<1>1. sw \in Dimension /\ sh \in Dimension /\ vw \in Dimension /\ vh \in Dimension
  BY Sizes
<1>2. vw \in Nat /\ vh \in Nat
  BY <1>1, Lengths
<1>3. ASSUME NEW h \in Truncated(vw * sh, sw), vh > h, out = <<vw, h>>
      PROVE  /\ out[1] = vw /\ out[2] \in Nat /\ out[2] <= vh
             /\ Nearly(out[2], vw * sh, sw)
  <2>1. h \in Nat /\ Nearly(h, vw * sh, sw)
    BY <1>1, <1>3, HeightBounds
  <2> QED
    BY <1>2, <1>3, <2>1
<1>4. ASSUME NEW w \in Truncated(vh * sw, sh), NEW h \in Truncated(vw * sh, sw),
             vh <= h, out = <<w, vh>>
      PROVE  /\ out[2] = vh /\ out[1] \in Nat /\ out[1] <= vw
             /\ Nearly(out[1], vh * sw, sh)
  <2>1. w \in Nat /\ w <= vw /\ Nearly(w, vh * sw, sh)
    BY <1>1, <1>4, WidthBounds
  <2> QED
    BY <1>4, <2>1
<1>5. \/ \E h \in Truncated(vw * sh, sw) : vh > h /\ out = <<vw, h>>
      \/ \E w \in Truncated(vh * sw, sh), h \in Truncated(vw * sh, sw) : vh <= h /\ out = <<w, vh>>
  BY DEF Content
<1> QED
  BY <1>2, <1>3, <1>4, <1>5

\* prepareVirtualDisplay() shows the whole display: for every size of the
\* display and of the video up to 65536 by 65536, and whichever way the two
\* float computations are rounded, up to a whole number included, the picture
\* is inside the frame, in its middle, and undistorted.
THEOREM PictureFits ==
  ASSUME NEW source \in Size, NEW video \in Size, NEW rect \in DisplayRects(source, video)
  PROVE  rect \in Rect /\ Fits(rect, source, video)
<1>1. PICK out \in Content(source, video) :
        rect = [x |-> (video[1] - out[1]) \div 2, y |-> (video[2] - out[2]) \div 2,
                w |-> out[1], h |-> out[2]]
  BY DEF DisplayRects
<1>2. video[1] \in Nat /\ video[2] \in Nat /\ source[1] \in Nat /\ source[2] \in Nat
  BY Sizes, Lengths
<1>3. /\ out[1] \in Nat /\ out[1] <= video[1]
      /\ out[2] \in Nat /\ out[2] <= video[2]
  BY ContentBounds
<1>4. rect \in Rect
  <2>1. rect.x \in Int /\ rect.y \in Int
    BY <1>1, <1>2, <1>3, Middle
  <2> QED
    BY <1>1, <1>3, <2>1 DEF Rect
<1>5. Inside(rect, video)
  <2>1. /\ (video[1] - out[1]) \div 2 \in Nat
        /\ video[1] - (2 * ((video[1] - out[1]) \div 2) + out[1]) \in 0 .. 1
    BY <1>2, <1>3, Middle
  <2>2. /\ (video[2] - out[2]) \div 2 \in Nat
        /\ video[2] - (2 * ((video[2] - out[2]) \div 2) + out[2]) \in 0 .. 1
    BY <1>2, <1>3, Middle
  <2>3. /\ rect.x = (video[1] - out[1]) \div 2 /\ rect.w = out[1]
        /\ rect.y = (video[2] - out[2]) \div 2 /\ rect.h = out[2]
    BY <1>1
  <2> QED
    BY <2>1, <2>2, <2>3 DEF Inside
<1>6. Undistorted(rect, source, video)
  BY <1>1, ContentBounds DEF Undistorted
<1> QED
  BY <1>4, <1>5, <1>6 DEF Fits

\* The frame and the picture in it are turned together.
LEMMA TurnedFits ==
  ASSUME NEW source \in Size, NEW video \in Size,
         NEW rect \in DisplayRects(source, Turned(video))
  PROVE  Fits(TurnedRect(rect), Turned(source), video)
<1>1. Turned(video) \in Size
  BY DEF Turned, Size
<1>2. rect \in Rect /\ Fits(rect, source, Turned(video))
  BY <1>1, PictureFits
<1>3. /\ TurnedRect(rect).x = rect.y /\ TurnedRect(rect).y = rect.x
      /\ TurnedRect(rect).w = rect.h /\ TurnedRect(rect).h = rect.w
  BY DEF TurnedRect
<1>4. Inside(TurnedRect(rect), video)
  BY <1>2, <1>3 DEF Fits, Inside, Turned
<1>5. Undistorted(TurnedRect(rect), Turned(source), video)
  BY <1>2, <1>3 DEF Fits, Undistorted, Turned
<1> QED
  BY <1>4, <1>5 DEF Fits
===========================================================================
