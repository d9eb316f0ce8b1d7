----------------------------- MODULE PenStageProofs -----------------------------
(***************************************************************************)
(* Proofs about PenStage: for every shape of stage, picture and desktop,   *)
(* the picture is where visibleScreenRect expects it, and what is touched  *)
(* on it is hit on the screen.  A place is rounded twice on its way, to    *)
(* the grain of the normalized coordinates and to a pixel; the first does  *)
(* no harm if the grain is finer than the pixels are many (FineFor; the    *)
(* grain of float64 is 2^-53).                                             *)
(***************************************************************************)
EXTENDS PenStageProps, InkInjectorProofs

-----------------------------------------------------------------------------
(* Rounding.                                                               *)

\* The integer that is at most half away from a fraction is what it rounds to.
LEMMA RoundIs ==
  ASSUME NEW d \in Nat \ {0}, NEW a \in Nat, NEW q \in Int,
         2 * (d * q) <= 2 * a + d, 2 * a < 2 * (d * q) + d
  PROVE  Round(a, d) = q
<1> DEFINE r == Round(a, d)
<1>1. r \in Int /\ 2 * (d * r) <= 2 * a + d /\ 2 * a < 2 * (d * r) + d
  BY RoundDistance
<1> HIDE DEF r
<1>2. d * r \in Int /\ d * q \in Int
  BY <1>1
<1>3. d * r < d * q + d /\ d * q < d * r + d
  BY <1>1, <1>2
<1>4. r <= q /\ q <= r
  BY <1>1, <1>3, FactorAtMost
<1>5. r = q
  BY <1>1, <1>4
<1> QED
  BY <1>5 DEF r

LEMMA RoundExact ==
  ASSUME NEW d \in Nat \ {0}, NEW n \in Nat
  PROVE  Round(n * d, d) = n
<1>1. n * d \in Nat /\ d * n = n * d
  OBVIOUS
<1> QED
  BY <1>1, RoundIs

\* What is negative does not round to something positive.
LEMMA RoundBelow ==
  ASSUME NEW d \in Nat \ {0}, NEW a \in Int, a <= 0
  PROVE  Round(a, d) \in Int /\ Round(a, d) <= 0
<1>1. CASE a = 0
  <2>1. Round(a, d) = 0
    BY <1>1, RoundIs
  <2> QED
    BY <2>1
<1>2. CASE a < 0
  <2> DEFINE q == (d - 2 * a) \div (2 * d)
  <2>1. Round(a, d) = -q
    BY <1>2 DEF Round
  <2>2. q \in Int /\ d - 2 * a < (2 * d) * q + 2 * d
    <3>1. d - 2 * a \in Int /\ 2 * d \in Nat \ {0}
      OBVIOUS
    <3> QED
      BY <3>1, Division, Zenon
  <2> HIDE DEF q
  <2>3. 0 <= q
    <3>1. (2 * d) * 0 < (2 * d) * q + 2 * d
      BY <1>2, <2>2
    <3> QED
      BY <2>2, <3>1, FactorAtMost
  <2> QED
    BY <2>1, <2>2, <2>3
<1> QED
  BY <1>1, <1>2

\* What is n times d at least rounds to n at least.
LEMMA RoundAbove ==
  ASSUME NEW d \in Nat \ {0}, NEW n \in Nat, NEW a \in Nat, n * d <= a
  PROVE  Round(a, d) \in Int /\ n <= Round(a, d)
<1> DEFINE r == Round(a, d)
<1>1. r \in Int /\ 2 * a < 2 * (d * r) + d
  BY RoundDistance
<1> HIDE DEF r
<1>2. d * n = n * d /\ d * n \in Nat /\ d * r \in Int
  BY <1>1
<1>3. d * n < d * r + d
  BY <1>1, <1>2
<1>4. n <= r
  BY <1>1, <1>3, FactorAtMost
<1> QED
  BY <1>1, <1>4 DEF r

-----------------------------------------------------------------------------
(* The picture on the stage.                                               *)

\* A side that the picture takes only in part, and one that it takes whole.
LEMMA SpanShort ==
  ASSUME NEW side \in Nat \ {0}, NEW across \in Nat \ {0},
         NEW width \in Nat \ {0}, NEW height \in Nat \ {0}, side * height > across * width
  PROVE  LET span == Span(side, across, width, height)
         IN  /\ span.offset = side * height - across * width
             /\ span.extent = 2 * (across * width) /\ span.unit = 2 * height
<1>1. 2 * across * width = 2 * (across * width)
  OBVIOUS
<1> QED
  BY <1>1 DEF Span

LEMMA SpanWhole ==
  ASSUME NEW side, NEW across, NEW width, NEW height, ~(side * height > across * width)
  PROVE  LET span == Span(side, across, width, height)
         IN  span.offset = 0 /\ span.extent = side /\ span.unit = 1
  BY DEF Span

\* The part of a side that visibleScreenRect computes is where the browser draws
\* the picture: in the middle, as large as fits, without a change of shape.
THEOREM PictureWhereDrawn ==
  ASSUME NEW side \in Nat \ {0}, NEW across \in Nat \ {0},
         NEW width \in Nat \ {0}, NEW height \in Nat \ {0}
  PROVE  LET span == Span(side, across, width, height)
         IN  /\ Drawn(span, side, across, width, height)
             /\ span.offset \in Nat /\ span.extent \in Nat \ {0} /\ span.unit \in Nat \ {0}
<1> DEFINE span == Span(side, across, width, height)
           a == side * height
           b == across * width
<1>1. a \in Nat \ {0} /\ b \in Nat \ {0}
  OBVIOUS
<1>2. CASE a > b
  <2>1. span.offset = a - b /\ span.extent = 2 * b /\ span.unit = 2 * height
    BY <1>2, SpanShort
  <2>2. side * (2 * height) = 2 * a
    OBVIOUS
  <2>3. (2 * b) * height = b * (2 * height)
    BY <1>1
  <2> HIDE DEF span, a
  <2>4. 2 * span.offset + span.extent = side * span.unit
    BY <1>1, <2>1, <2>2
  <2>5. span.extent * height = b * span.unit
    BY <2>1, <2>3
  <2> HIDE DEF b
  <2>6. span.offset \in Nat /\ span.extent \in Nat \ {0} /\ span.unit \in Nat \ {0}
    BY <1>1, <1>2, <2>1
  <2>7. b * span.unit \in Nat
    BY <1>1, <2>6
  <2> QED
    BY <2>4, <2>5, <2>6, <2>7 DEF Drawn, span, b
<1>3. CASE ~(a > b)
  <2>1. span.offset = 0 /\ span.extent = side /\ span.unit = 1
    BY <1>3, SpanWhole
  <2> HIDE DEF span
  <2>2. span.extent * height = a /\ b * span.unit = b /\ a <= b
    BY <1>1, <1>3, <2>1
  <2>3. 2 * span.offset + span.extent = side * span.unit
    BY <2>1
  <2>4. span.offset \in Nat /\ span.extent \in Nat \ {0} /\ span.unit \in Nat \ {0}
    BY <2>1
  <2> QED
    BY <2>1, <2>2, <2>3, <2>4 DEF Drawn, span, a, b
<1> QED
  BY <1>2, <1>3

-----------------------------------------------------------------------------
(* A place on an axis of the stage.                                        *)

\* A part of an axis that the picture can take.
IsSpan(span) == span.offset \in Nat /\ span.extent \in Nat \ {0} /\ span.unit \in Nat \ {0}

\* Where a place is on the picture, in units of the span.
At(place, span) == place * span.unit - span.offset

\* The grain is fine enough for so many pixels.
FineFor(size) == size * (size + 1) <= Den

LEMMA BeforePicture ==
  ASSUME NEW place \in Int, NEW span, IsSpan(span), At(place, span) <= 0
  PROVE  normalizedScreenPoint(place, span) = 0
<1> DEFINE at == At(place, span)
<1>1. at \in Int /\ at <= 0
  BY DEF At, IsSpan
<1>2. normalizedScreenPoint(place, span) = clampInt(Round(Den * at, span.extent), 0, Den)
  BY DEF normalizedScreenPoint, At
<1> HIDE DEF at
<1>3. Den * at \in Int /\ Den * at <= 0
  BY <1>1, DenAssumption
<1>4. Round(Den * at, span.extent) \in Int /\ Round(Den * at, span.extent) <= 0
  BY <1>3, RoundBelow DEF IsSpan
<1> QED
  BY <1>2, <1>4, DenAssumption DEF clampInt

LEMMA BehindPicture ==
  ASSUME NEW place \in Int, NEW span, IsSpan(span), At(place, span) >= span.extent
  PROVE  normalizedScreenPoint(place, span) = Den
<1> DEFINE at == At(place, span)
<1>1. at \in Nat /\ span.extent <= at /\ span.extent \in Nat \ {0}
  BY DEF At, IsSpan
<1>2. normalizedScreenPoint(place, span) = clampInt(Round(Den * at, span.extent), 0, Den)
  BY DEF normalizedScreenPoint, At
<1> HIDE DEF at
<1>3. Den * at \in Nat /\ Den * span.extent <= Den * at
  BY <1>1, DenAssumption
<1>4. Round(Den * at, span.extent) \in Int /\ Den <= Round(Den * at, span.extent)
  BY <1>1, <1>3, DenAssumption, RoundAbove
<1> QED
  BY <1>2, <1>4, DenAssumption DEF clampInt

\* The place as a multiple of the grain, at most half a grain away.
LEMMA OnPicture ==
  ASSUME NEW place \in Int, NEW span, IsSpan(span),
         0 <= At(place, span), At(place, span) <= span.extent
  PROVE  LET v == normalizedScreenPoint(place, span)
         IN  /\ v \in 0 .. Den
             /\ 2 * (span.extent * v) <= 2 * (Den * At(place, span)) + span.extent
             /\ 2 * (Den * At(place, span)) < 2 * (span.extent * v) + span.extent
<1> DEFINE at == At(place, span)
           extent == span.extent
           v == Round(Den * at, extent)
<1>1. at \in Nat /\ at <= extent /\ extent \in Nat \ {0}
  BY DEF At, IsSpan
<1>2. normalizedScreenPoint(place, span) = clampInt(v, 0, Den)
  BY DEF normalizedScreenPoint, At
<1> HIDE DEF at, extent, v
<1>3. Den * at \in Nat /\ Den * at = at * Den
  BY <1>1, DenAssumption
<1>4. v \in Int /\ 2 * (extent * v) <= 2 * (Den * at) + extent /\ 2 * (Den * at) < 2 * (extent * v) + extent
  BY <1>1, <1>3, RoundDistance, Zenon DEF v
<1>5. v \in 0 .. Den
  <2>1. Round(at * Den, extent) \in 0 .. Den
    BY <1>1, DenAssumption, RoundBounds
  <2> QED
    BY <1>3, <2>1 DEF v
<1>6. clampInt(v, 0, Den) = v
  BY <1>5, DenAssumption DEF clampInt
<1> QED
  BY <1>2, <1>4, <1>5, <1>6 DEF at, extent

\* The ends of the stage lie in the bars, or at the edge of the picture: that a
\* place outside is taken for the end of the stage makes no difference.
LEMMA ClampedPlace ==
  ASSUME NEW place \in Int, NEW side \in Nat \ {0}, NEW span, IsSpan(span),
         2 * span.offset + span.extent = side * span.unit
  PROVE  /\ clampInt(place, 0, side) \in Int
         /\ normalizedScreenPoint(clampInt(place, 0, side), span) = normalizedScreenPoint(place, span)
<1> USE DEF IsSpan
<1>1. CASE place < 0
  <2>1. clampInt(place, 0, side) = 0
    BY <1>1 DEF clampInt
  <2>2. At(0, span) <= 0
    BY DEF At
  <2>3. At(place, span) <= 0
    <3>1. place * span.unit <= 0 /\ place * span.unit \in Int
      BY <1>1
    <3> QED
      BY <3>1 DEF At
  <2> QED
    BY <2>1, <2>2, <2>3, BeforePicture
<1>2. CASE place > side
  <2>1. clampInt(place, 0, side) = side
    BY <1>2 DEF clampInt
  <2>2. At(side, span) >= span.extent
    BY DEF At
  <2>3. At(place, span) >= span.extent
    <3>1. side * span.unit <= place * span.unit /\ place * span.unit \in Int /\ side * span.unit \in Int
      BY <1>2
    <3> QED
      BY <3>1 DEF At
  <2> QED
    BY <2>1, <2>2, <2>3, BehindPicture
<1>3. CASE 0 <= place /\ place <= side
  BY <1>3 DEF clampInt
<1> QED
  BY <1>1, <1>2, <1>3

-----------------------------------------------------------------------------
(* The pixel that is hit.                                                  *)

LEMMA Factored ==
  ASSUME NEW d \in Nat \ {0}, NEW x \in Int, NEW y \in Int
  PROVE  /\ d * x <= d * y => x <= y
         /\ d * x < d * y => x < y
  OBVIOUS

LEMMA EdgePixels ==
  ASSUME NEW first \in Int, NEW size \in Nat \ {0}
  PROVE  Pixel(first, size, 0) - first = 0 /\ Pixel(first, size, Den) - first = size - 1
<1>1. Round(0 * (size - 1), Den) = 0
  <2>1. 0 * (size - 1) = 0 * Den
    BY DenAssumption
  <2> QED
    BY <2>1, RoundExact, DenAssumption
<1>2. Round(Den * (size - 1), Den) = size - 1
  <2>1. Den * (size - 1) = (size - 1) * Den /\ size - 1 \in Nat
    BY DenAssumption
  <2> QED
    BY <2>1, RoundExact, DenAssumption
<1> QED
  BY <1>1, <1>2 DEF Pixel

\* With n units of the grain, e units of a span and w pixels, a place that is
\* rounded to v and v to pixel k is less than a pixel away from the middle of k.
LEMMA TwoRoundings ==
  ASSUME NEW n \in Nat \ {0}, NEW e \in Nat \ {0}, NEW w \in Nat \ {0}, w * (w + 1) <= n,
         NEW at \in 0 .. e, NEW v \in 0 .. n, NEW k \in 0 .. w - 1,
         2 * (e * v) <= 2 * (n * at) + e, 2 * (n * at) < 2 * (e * v) + e,
         2 * (n * k) <= 2 * (v * (w - 1)) + n, 2 * (v * (w - 1)) < 2 * (n * k) + n
  PROVE  /\ (2 * k - 1) * e <= 2 * at * w
         /\ 2 * at * w <= (2 * k + 3) * e
<1> DEFINE x == n * at
           y == e * v
           p == v * (w - 1)
           q == n * k
<1>1. /\ x \in Nat /\ y \in Nat /\ p \in Nat /\ q \in Nat
      /\ 2 * y <= 2 * x + e /\ 2 * x < 2 * y + e /\ 2 * q <= 2 * p + n /\ 2 * p < 2 * q + n
  OBVIOUS
<1>2. n * (2 * at * w) = (2 * x) * w
  OBVIOUS
<1>3. (2 * y) * w = e * (2 * p + 2 * v)
  OBVIOUS
<1>4. /\ n * ((2 * k - 1) * e) = e * (2 * q - n)
      /\ n * ((2 * k + 3) * e) = e * (2 * q + 3 * n)
  OBVIOUS
<1>5. (w - 1) * w <= n
  OBVIOUS
<1>6. (2 * k - 1) * e \in Int /\ (2 * k + 3) * e \in Int /\ 2 * at * w \in Int
  OBVIOUS
<1>7. (2 * k - 1) * e <= 2 * at * w
  <2>1. CASE k = 0
    <3>1. (2 * k - 1) * e = -e
      BY <2>1
    <3>2. 0 <= 2 * at * w
      OBVIOUS
    <3> QED
      BY <3>1, <3>2
  <2>2. CASE k >= 1
    <3>1. n <= q /\ w - 1 \in Nat \ {0}
      BY <2>2
    <3>2. (w - 1) * (2 * v) = 2 * p
      OBVIOUS
    <3>3. (w - 1) * w <= (w - 1) * (2 * v)
      <4> HIDE DEF p, q
      <4> QED
        BY <1>1, <1>5, <3>1, <3>2
    <3>4. w <= 2 * v
      BY <3>1, <3>3, Factored
    <3>5. (2 * y - e) * w <= (2 * x) * w
      <4> HIDE DEF x, y
      <4> QED
        BY <1>1
    <3>6. (2 * y - e) * w = e * (2 * p + 2 * v - w)
      BY <1>1, <1>3
    <3>7. e * (2 * q - n) <= e * (2 * p + 2 * v - w)
      <4> HIDE DEF x, y, p, q
      <4>1. 2 * q - n <= 2 * p + 2 * v - w
        BY <1>1, <3>4
      <4> QED
        BY <1>1, <4>1
    <3>8. n * ((2 * k - 1) * e) <= n * (2 * at * w)
      <4> HIDE DEF x, y, p, q
      <4> QED
        BY <1>1, <1>2, <1>4, <3>5, <3>6, <3>7
    <3> QED
      BY <1>6, <3>8, Factored
  <2> QED
    BY <2>1, <2>2
<1>8. 2 * at * w <= (2 * k + 3) * e
  <2>1. CASE k = w - 1
    <3>1. (2 * k + 3) * e = (2 * w) * e + e
      BY <2>1
    <3>2. 2 * at * w = (2 * w) * at /\ (2 * w) * at <= (2 * w) * e /\ (2 * w) * at \in Int
      OBVIOUS
    <3> QED
      BY <3>1, <3>2
  <2>2. CASE k < w - 1
    <3>1. w - 1 \in Nat \ {0}
      BY <2>2
    <3>2. q <= n * (w - 1) - n
      <4>1. n * (w - 1) - n = n * (w - 2)
        OBVIOUS
      <4>2. k <= w - 2
        BY <2>2
      <4> QED
        BY <4>1, <4>2
    <3>3. (w - 1) * (2 * (n - v)) = 2 * (n * (w - 1)) - 2 * p /\ n * (w - 1) \in Nat
      BY <3>1
    <3>4. (w - 1) * w < (w - 1) * (2 * (n - v))
      <4> DEFINE m == n * (w - 1)
      <4> HIDE DEF p, q, m
      <4> QED
        BY <1>1, <1>5, <3>1, <3>2, <3>3 DEF m
    <3>5. w < 2 * (n - v)
      BY <3>1, <3>4, Factored
    <3>6. (2 * x) * w <= (2 * y + e) * w
      <4> HIDE DEF x, y
      <4> QED
        BY <1>1
    <3>7. (2 * y + e) * w = e * (2 * p + 2 * v + w)
      BY <1>1, <1>3
    <3>8. e * (2 * p + 2 * v + w) <= e * (2 * q + 3 * n)
      <4> HIDE DEF x, y, p, q
      <4>1. 2 * p + 2 * v + w <= 2 * q + 3 * n
        BY <1>1, <3>5
      <4> QED
        BY <1>1, <4>1
    <3>9. n * (2 * at * w) <= n * ((2 * k + 3) * e)
      <4> HIDE DEF x, y, p, q
      <4> QED
        BY <1>1, <1>2, <1>4, <3>6, <3>7, <3>8
    <3> QED
      BY <1>6, <3>9, Factored
  <2> QED
    BY <2>1, <2>2
<1> QED
  BY <1>7, <1>8

\* The middle of pixel j stays pixel j when it is rounded to v first.
LEMMA CentreKept ==
  ASSUME NEW n \in Nat \ {0}, NEW e \in Nat \ {0}, NEW w \in Nat \ {0}, w * (w + 1) <= n,
         NEW at \in 0 .. e, NEW v \in 0 .. n, NEW j \in 0 .. w - 1,
         2 * (e * v) <= 2 * (n * at) + e, 2 * (n * at) < 2 * (e * v) + e,
         2 * at * w = (2 * j + 1) * e
  PROVE  2 * (n * j) <= 2 * (v * (w - 1)) + n /\ 2 * (v * (w - 1)) < 2 * (n * j) + n
<1> DEFINE x == n * at
           y == e * v
           p == v * (w - 1)
           q == n * j
           m == n * w
<1>1. /\ x \in Nat /\ y \in Nat /\ p \in Nat /\ q \in Nat /\ m \in Nat
      /\ 2 * y <= 2 * x + e /\ 2 * x < 2 * y + e
  OBVIOUS
<1>2. (2 * x) * w = e * (2 * q + n)
  <2>1. (2 * x) * w = n * (2 * at * w) /\ n * ((2 * j + 1) * e) = e * (2 * q + n)
    OBVIOUS
  <2> QED
    BY <2>1
<1>3. (2 * y) * w = e * (2 * p + 2 * v)
  OBVIOUS
<1>4. 2 * p + 2 * v = w * (2 * v) /\ w * (2 * (n - v)) = 2 * m - w * (2 * v)
  OBVIOUS
<1>5. w * w + w <= n /\ w * w \in Nat /\ q + n <= m
  <2>1. j + 1 <= w /\ q + n = n * (j + 1)
    OBVIOUS
  <2> QED
    BY <2>1
<1> HIDE DEF x, y, p, q, m
<1>6. e * (2 * p + 2 * v - w) <= e * (2 * q + n) /\ e * (2 * q + n) < e * (2 * p + 2 * v + w)
  <2>1. (2 * y - e) * w <= (2 * x) * w /\ (2 * x) * w < (2 * y + e) * w
    BY <1>1
  <2>2. /\ (2 * y - e) * w = e * (2 * p + 2 * v - w)
        /\ (2 * y + e) * w = e * (2 * p + 2 * v + w)
    BY <1>1, <1>3
  <2> QED
    BY <1>2, <2>1, <2>2
<1>7. 2 * p + 2 * v - w <= 2 * q + n /\ 2 * q + n < 2 * p + 2 * v + w
  BY <1>1, <1>6, Factored
<1>8. w * w <= w * (2 * (n - v)) /\ w * w < w * (2 * v)
  BY <1>1, <1>4, <1>5, <1>7
<1>9. w <= 2 * (n - v) /\ w < 2 * v
  BY <1>8, Factored
<1>10. 2 * q <= 2 * p + n /\ 2 * p < 2 * q + n
  BY <1>1, <1>7, <1>9
<1> QED
  BY <1>10 DEF p, q

\* On one axis, what is touched is hit: a place in a bar hits the edge next to it,
\* the middle of a pixel that pixel, any other place one at most half a pixel away.
THEOREM AxisHits ==
  ASSUME NEW place \in Int, NEW span, IsSpan(span),
         NEW first \in Int, NEW size \in Nat \ {0}, FineFor(size)
  PROVE  Hits(place, span, Pixel(first, size, normalizedScreenPoint(place, span)) - first, size)
<1> DEFINE at == At(place, span)
           extent == span.extent
           v == normalizedScreenPoint(place, span)
           k == Round(v * (size - 1), Den)
           pixel == Pixel(first, size, v) - first
<1>1. at \in Int /\ extent \in Nat \ {0}
  BY DEF At, IsSpan
<1>2. CASE at < 0
  <2>1. v = 0
    BY <1>1, <1>2, BeforePicture
  <2>2. pixel = 0
    BY <2>1, EdgePixels
  <2> QED
    BY <1>2, <2>2 DEF Hits, At
<1>3. CASE at > extent
  <2>1. v = Den
    BY <1>1, <1>3, BehindPicture
  <2>2. pixel = size - 1
    BY <2>1, EdgePixels
  <2>3. ~(at < 0)
    BY <1>1, <1>3
  <2> QED
    BY <1>3, <2>2, <2>3 DEF Hits, At
<1>4. CASE 0 <= at /\ at <= extent
  <2>1. /\ v \in 0 .. Den /\ at \in 0 .. extent
        /\ 2 * (extent * v) <= 2 * (Den * at) + extent /\ 2 * (Den * at) < 2 * (extent * v) + extent
    BY <1>1, <1>4, OnPicture
  <2> HIDE DEF at, extent, v
  <2>2. Den \in Nat \ {0} /\ size - 1 \in Nat /\ v \in Nat /\ v * (size - 1) \in Nat
    BY <2>1, DenAssumption
  <2>3. k \in 0 .. size - 1
    <3>1. v <= Den
      BY <2>1, DenAssumption
    <3> QED
      BY <2>2, <3>1, RoundBounds, Zenon
  <2>4. 2 * (Den * k) <= 2 * (v * (size - 1)) + Den /\ 2 * (v * (size - 1)) < 2 * (Den * k) + Den
    BY <2>2, RoundDistance, Zenon
  <2>5. pixel = k
    <3>1. Pixel(first, size, v) = first + k
      BY DEF Pixel
    <3> HIDE DEF k
    <3> QED
      BY <2>3, <3>1
  <2> HIDE DEF k, pixel
  <2>6. (2 * pixel - 1) * extent <= 2 * at * size /\ 2 * at * size <= (2 * pixel + 3) * extent
    BY <1>1, <2>1, <2>2, <2>3, <2>4, <2>5, TwoRoundings DEF FineFor
  <2>7. ASSUME NEW j \in 0 .. size - 1, 2 * at * size = (2 * j + 1) * extent
        PROVE  pixel = j
    <3>1. 2 * (Den * j) <= 2 * (v * (size - 1)) + Den /\ 2 * (v * (size - 1)) < 2 * (Den * j) + Den
      BY <1>1, <2>1, <2>2, <2>7, CentreKept DEF FineFor
    <3>2. j \in Int
      OBVIOUS
    <3>3. k = j
      BY <2>2, <3>1, <3>2, RoundIs DEF k
    <3> QED
      BY <2>5, <3>3
  <2> QED
    BY <1>1, <1>4, <2>6, <2>7 DEF Hits, at, extent, pixel, v, At
<1> QED
  BY <1>1, <1>2, <1>3, <1>4

-----------------------------------------------------------------------------
(* From the touch to the packet.                                           *)

IsTouch(touch) ==
  /\ touch.stageWidth \in Nat \ {0} /\ touch.stageHeight \in Nat \ {0}
  /\ touch.naturalWidth \in Nat /\ touch.naturalHeight \in Nat
  /\ touch.x \in Int /\ touch.y \in Int

\* An event with a touch is what sendPenEvent makes of it.
MadeOnStage(e) ==
  "touch" \in DOMAIN e =>
    IsTouch(e.touch) /\ \E type \in EventTypes : e = sendPenEvent(type, e.touch)

FromInputs == call = Idle \/ call \in Inputs

LEMMA SentFields ==
  ASSUME NEW type, NEW touch
  PROVE  LET e == sendPenEvent(type, touch)
             rect == visibleScreenRect(touch)
         IN  /\ e.touch = touch
             /\ e.x = normalizedScreenPoint(clampInt(touch.x, 0, touch.stageWidth), rect.x)
             /\ e.y = normalizedScreenPoint(clampInt(touch.y, 0, touch.stageHeight), rect.y)
  BY DEF sendPenEvent, pointFromPointerEvent

LEMMA RectOfTouch ==
  ASSUME NEW touch, IsTouch(touch)
  PROVE  LET rect == visibleScreenRect(touch)
             width == OrElse(touch.naturalWidth, touch.stageWidth)
             height == OrElse(touch.naturalHeight, touch.stageHeight)
         IN  /\ width \in Nat \ {0} /\ height \in Nat \ {0}
             /\ rect.x = Span(touch.stageWidth, touch.stageHeight, width, height)
             /\ rect.y = Span(touch.stageHeight, touch.stageWidth, height, width)
<1>1. AtLeastOne(touch.stageWidth) = touch.stageWidth /\ AtLeastOne(touch.stageHeight) = touch.stageHeight
  BY DEF AtLeastOne, IsTouch
<1> QED
  BY <1>1 DEF visibleScreenRect, OrElse, IsTouch

\* One axis of the packet that is made of a touch.
LEMMA TouchedAxis ==
  ASSUME NEW place \in Int, NEW side \in Nat \ {0}, NEW across \in Nat \ {0},
         NEW width \in Nat \ {0}, NEW height \in Nat \ {0},
         NEW span, span = Span(side, across, width, height),
         NEW first \in Int, NEW size \in Nat \ {0}, FineFor(size),
         NEW v, v = normalizedScreenPoint(clampInt(place, 0, side), span)
  PROVE  /\ Drawn(span, side, across, width, height)
         /\ Hits(place, span, Pixel(first, size, v) - first, size)
<1>1. Drawn(span, side, across, width, height) /\ IsSpan(span)
  BY PictureWhereDrawn DEF IsSpan
<1>2. 2 * span.offset + span.extent = side * span.unit
  BY <1>1 DEF Drawn
<1>3. v = normalizedScreenPoint(place, span)
  BY <1>1, <1>2, ClampedPlace
<1> QED
  BY <1>1, <1>3, AxisHits

\* What the user touches on the picture is what is hit on the screen, for every
\* stage, picture and desktop, if the grain is fine enough for the desktop.
THEOREM TouchedIsHit ==
  ASSUME \A e \in Inputs : MadeOnStage(e),
         \A d \in Displays : FineFor(d.width) /\ FineFor(d.height)
  PROVE  Spec => TouchesHit
<1> DEFINE Hit(touch) ==
             LET rect == visibleScreenRect(touch)
                 width == OrElse(touch.naturalWidth, touch.stageWidth)
                 height == OrElse(touch.naturalHeight, touch.stageHeight)
             IN  /\ Drawn(rect.x, touch.stageWidth, touch.stageHeight, width, height)
                 /\ Drawn(rect.y, touch.stageHeight, touch.stageWidth, height, width)
                 /\ Hits(touch.x, rect.x, packet'.x - screen'.left, screen'.width)
                 /\ Hits(touch.y, rect.y, packet'.y - screen'.top, screen'.height)
<1>0. Spec => []FromInputs
  <2>1. Init => FromInputs
    BY DEF Init, FromInputs
  <2>2. FromInputs /\ [Next]_vars => FromInputs'
    BY DEF FromInputs, Next, vars, Begin, Refuse, Finish, Return
  <2> QED
    BY <2>1, <2>2, PTL DEF Spec
<1>1. ASSUME IInv, FromInputs, Next, packet' # packet, "touch" \in DOMAIN call
      PROVE  Hit(call.touch)
  <2>1. call # Idle
    BY <1>1 DEF Idle
  <2>2. PICK across, down \in Nat \ {0} :
          /\ \E d \in Displays : across = d.width
          /\ \E d \in Displays : down = d.height
          /\ DeviceAccepts(across, down)
    <3>1. Finish
      BY <1>1, <2>1 DEF Next, Begin, Refuse, Return, IInv, OneAtATime
    <3>2. packet' # NoPacket
      BY <1>1, <3>1 DEF Finish, IInv, OneAtATime
    <3> QED
      BY <1>1, <3>1, <3>2, Accepting
  <2>3. /\ call \in Inputs /\ origin.left \in Int /\ origin.top \in Int
        /\ FineFor(across) /\ FineFor(down)
    BY <1>1, <2>1, <2>2 DEF IInv, TypeOK, FromInputs
  <2> DEFINE touch == call.touch
             rect == visibleScreenRect(touch)
             width == OrElse(touch.naturalWidth, touch.stageWidth)
             height == OrElse(touch.naturalHeight, touch.stageHeight)
  <2>4. IsTouch(touch) /\ \E type \in EventTypes : call = sendPenEvent(type, touch)
    BY <1>1, <2>3 DEF MadeOnStage
  <2>5. /\ call.x = normalizedScreenPoint(clampInt(touch.x, 0, touch.stageWidth), rect.x)
        /\ call.y = normalizedScreenPoint(clampInt(touch.y, 0, touch.stageHeight), rect.y)
    BY <2>4, SentFields
  <2>6. /\ width \in Nat \ {0} /\ height \in Nat \ {0}
        /\ rect.x = Span(touch.stageWidth, touch.stageHeight, width, height)
        /\ rect.y = Span(touch.stageHeight, touch.stageWidth, height, width)
    BY <2>4, RectOfTouch
  <2>7. /\ packet'.x = Pixel(origin.left, across, call.x)
        /\ packet'.y = Pixel(origin.top, down, call.y)
        /\ screen'.left = origin.left /\ screen'.top = origin.top
        /\ screen'.width = across /\ screen'.height = down
    BY <2>2, PacketFields DEF DeviceAccepts
  <2> HIDE DEF rect, width, height
  <2>8. /\ touch.stageWidth \in Nat \ {0} /\ touch.stageHeight \in Nat \ {0}
        /\ touch.x \in Int /\ touch.y \in Int
    BY <2>4 DEF IsTouch
  <2> DEFINE spanX == rect.x
             spanY == rect.y
             stageWidth == touch.stageWidth
             stageHeight == touch.stageHeight
             atX == touch.x
             atY == touch.y
  <2>9. /\ Drawn(spanX, stageWidth, stageHeight, width, height)
        /\ Hits(atX, spanX, Pixel(origin.left, across, call.x) - origin.left, across)
    <3>1. /\ atX \in Int /\ stageWidth \in Nat \ {0} /\ stageHeight \in Nat \ {0}
          /\ spanX = Span(stageWidth, stageHeight, width, height)
          /\ call.x = normalizedScreenPoint(clampInt(atX, 0, stageWidth), spanX)
      BY <2>5, <2>6, <2>8
    <3> HIDE DEF atX, stageWidth, stageHeight, spanX
    <3> QED
      BY <2>2, <2>3, <2>6, <3>1, TouchedAxis
  <2>10. /\ Drawn(spanY, stageHeight, stageWidth, height, width)
         /\ Hits(atY, spanY, Pixel(origin.top, down, call.y) - origin.top, down)
    <3>1. /\ atY \in Int /\ stageWidth \in Nat \ {0} /\ stageHeight \in Nat \ {0}
          /\ spanY = Span(stageHeight, stageWidth, height, width)
          /\ call.y = normalizedScreenPoint(clampInt(atY, 0, stageHeight), spanY)
      BY <2>5, <2>6, <2>8
    <3> HIDE DEF atY, stageWidth, stageHeight, spanY
    <3> QED
      BY <2>2, <2>3, <2>6, <3>1, TouchedAxis
  <2> HIDE DEF rect
  <2> QED
    BY <2>5, <2>7, <2>9, <2>10 DEF rect, width, height
<1>2. IInv /\ FromInputs /\ [Next]_vars => [packet' # packet /\ "touch" \in DOMAIN call => Hit(call.touch)]_vars
  <2> HIDE DEF Hit
  <2> QED
    BY <1>1 DEF vars
<1> QED
  BY <1>0, <1>2, Invariance, PTL DEF Spec, TouchesHit

=============================================================================
