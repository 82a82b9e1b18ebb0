---------------------------- MODULE RenderProofs ----------------------------
(***************************************************************************)
(* The renderer on every screen mode, for every length of an animation     *)
(* step and of a pass of the loop: no pixel is written out of bounds, the  *)
(* leader skips no bubble unless the loop was busy for a whole step, and   *)
(* only whole frames are seen, above and below one cut.                    *)
(***************************************************************************)
EXTENDS Render, TLAPS

(* Arithmetic.                                                             *)

LEMMA DivMod ==
  ASSUME NEW x \in Int, NEW d \in Nat \ {0}
  PROVE  /\ x \div d \in Int /\ x % d \in 0 .. d - 1
         /\ x = (x \div d) * d + (x % d)
OBVIOUS

LEMMA DivUnique ==
  ASSUME NEW q \in Int, NEW d \in Nat \ {0}, NEW r \in 0 .. d - 1
  PROVE  (q * d + r) \div d = q /\ (q * d + r) % d = r
OBVIOUS

LEMMA MulMono ==
  ASSUME NEW a \in Int, NEW b \in Int, NEW d \in Nat, a <= b
  PROVE  a * d <= b * d
OBVIOUS

LEMMA MaxMin ==
  ASSUME NEW a \in Int, NEW b \in Int
  PROVE  /\ Max({a, b}) = IF a >= b THEN a ELSE b
         /\ Min({a, b}) = IF a <= b THEN a ELSE b
BY DEF Max, Min

-----------------------------------------------------------------------------
(* The screen's geometry.                                                  *)

\* The mark fits the screen vertically, whatever its height; the rows that run
\* copies are within the buffer.
LEMMA Geometry ==
  ASSUME NEW m \in Infos
  PROVE  /\ m.width \in Nat \ {0} /\ m.height \in Nat \ {0}
         /\ m.stride \in Nat \ {0} /\ m.width <= m.stride /\ m.pixels \in Nat
         /\ m.height * m.stride <= m.pixels
         /\ Radius(m) \in Nat /\ CenterY(m) \in Nat /\ \A i \in 0 .. 2 : Center(m, i) \in Int
         /\ Band0(m) = CenterY(m) - Radius(m) /\ Band1(m) = CenterY(m) + Radius(m)
         /\ Band0(m) \in 0 .. m.height - 1 /\ Band1(m) \in 0 .. m.height - 1
         /\ Band0(m) <= Band1(m)
         /\ Start(m) = Band0(m) * m.stride /\ End(m) = (Band1(m) + 1) * m.stride
         /\ Start(m) \in Nat /\ End(m) \in Nat /\ Start(m) < End(m) /\ End(m) <= m.pixels
<1> DEFINE h == m.height
           R == Radius(m)
           cy == CenterY(m)
<1>1. /\ m.width \in Nat \ {0} /\ h \in Nat \ {0} /\ m.stride \in Nat /\ m.width <= m.stride
      /\ m.pixels \in Nat /\ h * m.stride <= m.pixels
  BY RenderAssumption
<1>2. m.stride # 0
  BY <1>1
<1>3. R = h \div 12 /\ cy = h \div 2
  BY DEF Radius, CenterY
<1> HIDE DEF h, R, cy
<1>4. R \in Nat /\ cy \in Nat /\ cy - R \in 0 .. h - 1 /\ cy + R \in 0 .. h - 1
  BY <1>1, <1>3
<1>5. \A i \in 0 .. 2 : Center(m, i) \in Int
  <2>1. Gap(m) \in Int
    BY <1>4 DEF Gap, R
  <2> QED BY <1>1, <2>1 DEF Center
<1>6. Band0(m) = cy - R
  <2>1. cy - R \in Int /\ cy - R >= 0
    BY <1>1, <1>4
  <2> QED BY <2>1, MaxMin DEF Band0, cy, R
<1>7. Band1(m) = cy + R
  <2>1. cy + R \in Int /\ h - 1 \in Int /\ cy + R <= h - 1
    BY <1>1, <1>4
  <2> QED BY <2>1, MaxMin DEF Band1, cy, R, h
<1>8. Band0(m) <= Band1(m) /\ Band0(m) \in 0 .. h - 1 /\ Band1(m) \in 0 .. h - 1
  BY <1>1, <1>4, <1>6, <1>7
<1>9. (Band1(m) + 1) * m.stride <= m.pixels
  <2>1. Band1(m) + 1 \in Int /\ Band1(m) + 1 <= h
    BY <1>1, <1>8
  <2>2. (Band1(m) + 1) * m.stride <= h * m.stride
    BY <1>1, <2>1, MulMono
  <2>3. (Band1(m) + 1) * m.stride \in Int /\ h * m.stride \in Int
    BY <1>1, <2>1
  <2> QED BY <1>1, <2>2, <2>3
<1>10. Band0(m) * m.stride \in Nat /\ (Band1(m) + 1) * m.stride \in Nat
       /\ Band0(m) * m.stride < (Band1(m) + 1) * m.stride
  <2> DEFINE s == m.stride
             b == Band0(m)
             e == Band1(m)
  <2>1. s \in Nat /\ s # 0 /\ b \in Int /\ e \in Int /\ 0 <= b /\ b + 1 <= e + 1
    BY <1>1, <1>2, <1>8
  <2> HIDE DEF s, b, e
  <2>2. 0 * s <= b * s /\ (b + 1) * s <= (e + 1) * s
    BY <2>1, MulMono
  <2>3. 0 * s = 0 /\ (b + 1) * s = b * s + s /\ b * s \in Int /\ (e + 1) * s \in Int
    BY <2>1
  <2>4. b * s \in Nat /\ (e + 1) * s \in Nat /\ b * s < (e + 1) * s
    BY <2>1, <2>2, <2>3
  <2> QED BY <2>4 DEF s, b, e
<1>11. Start(m) = Band0(m) * m.stride /\ End(m) = (Band1(m) + 1) * m.stride
  BY DEF Start, End
<1> QED BY <1>1, <1>2, <1>4, <1>5, <1>6, <1>7, <1>8, <1>9, <1>10, <1>11 DEF h, R, cy

\* Offset o is a visible pixel of bubble i.
Inside(m, i, o) ==
  o % m.stride < m.width /\ o \div m.stride < m.height /\ Disc(m, i, o % m.stride, o \div m.stride)

LEMMA InCircle ==
  ASSUME NEW a \in Int, NEW b \in Int, NEW r \in Nat, a * a + b * b <= r * r
  PROVE  -r <= a /\ a <= r /\ -r <= b /\ b <= r
OBVIOUS

\* A pixel is its row and its column.
LEMMA Offsets ==
  ASSUME NEW m \in Infos, NEW x \in 0 .. m.width - 1, NEW y \in 0 .. m.height - 1
  PROVE  /\ y * m.stride + x \in 0 .. m.pixels - 1
         /\ (y * m.stride + x) % m.stride = x
         /\ (y * m.stride + x) \div m.stride = y
<1> DEFINE s == m.stride
           w == m.width
           h == m.height
           n == m.pixels
<1>1. s \in Nat \ {0} /\ w \in Nat /\ h \in Nat /\ n \in Nat /\ w <= s /\ h * s <= n
  BY Geometry
<1>2. x \in 0 .. w - 1 /\ y \in 0 .. h - 1
  OBVIOUS
<1> HIDE DEF s, w, h, n
<1>3. x \in 0 .. s - 1 /\ y \in Int
  BY <1>1, <1>2
<1>4. (y * s + x) % s = x /\ (y * s + x) \div s = y
  BY <1>1, <1>3, DivUnique
<1>5. (y + 1) * s <= h * s /\ 0 * s <= y * s
  BY <1>1, <1>2, MulMono
<1>6. (y + 1) * s = y * s + s /\ 0 * s = 0 /\ y * s \in Int /\ h * s \in Int
  BY <1>1, <1>2
<1>7. y * s + x \in 0 .. n - 1
  BY <1>1, <1>3, <1>5, <1>6
<1> QED BY <1>4, <1>7 DEF s, n

\* fill_circle writes exactly the visible pixels of the disc, none outside the
\* buffer, and all of them in the band of rows that run copies.
LEMMA CircleIs ==
  ASSUME NEW m \in Infos, NEW i \in 0 .. 2
  PROVE  /\ CircleOffsets(m, i) \subseteq 0 .. m.pixels - 1
         /\ \A o \in 0 .. m.pixels - 1 : o \in CircleOffsets(m, i) <=> Inside(m, i, o)
         /\ \A o \in 0 .. m.pixels - 1 : Inside(m, i, o) => o \div m.stride \in Band0(m) .. Band1(m)
<1> DEFINE c == Center(m, i)
           ys == Max({CenterY(m) - Radius(m), 0}) .. Min({CenterY(m) + Radius(m), m.height - 1})
           xs == Max({c - Radius(m), 0}) .. Min({c + Radius(m), m.width - 1})
<1>1. /\ c \in Int /\ CenterY(m) \in Nat /\ Radius(m) \in Nat /\ m.height \in Nat \ {0}
      /\ m.width \in Nat \ {0} /\ m.stride \in Nat \ {0}
      /\ Band0(m) = CenterY(m) - Radius(m) /\ Band1(m) = CenterY(m) + Radius(m)
      /\ m.pixels \in Nat
  BY Geometry
<1>2. ys = CenterY(m) - Radius(m) .. CenterY(m) + Radius(m) /\ ys \subseteq 0 .. m.height - 1
  <2>1. ys = Band0(m) .. Band1(m)
    BY DEF Band0, Band1
  <2>2. Band0(m) .. Band1(m) \subseteq 0 .. m.height - 1
    <3>1. Band0(m) \in 0 .. m.height - 1 /\ Band1(m) \in 0 .. m.height - 1
      BY Geometry
    <3> HIDE DEF Band0, Band1
    <3> QED BY <3>1, <1>1
  <2> HIDE DEF ys
  <2> QED BY <1>1, <2>1, <2>2
<1>3. ASSUME NEW x \in Int
      PROVE  x \in xs <=> c - Radius(m) <= x /\ 0 <= x /\ x <= c + Radius(m) /\ x <= m.width - 1
  <2>1. Max({c - Radius(m), 0}) = IF c - Radius(m) >= 0 THEN c - Radius(m) ELSE 0
    BY <1>1, MaxMin
  <2>2. Min({c + Radius(m), m.width - 1})
          = IF c + Radius(m) <= m.width - 1 THEN c + Radius(m) ELSE m.width - 1
    <3>1. c + Radius(m) \in Int /\ m.width - 1 \in Int
      BY <1>1
    <3> QED BY <3>1, MaxMin
  <2> HIDE DEF c
  <2> QED BY <1>1, <2>1, <2>2
<1>4. CircleOffsets(m, i) = {p[2] * m.stride + p[1] :
                            p \in {q \in xs \X ys : Disc(m, i, q[1], q[2])}}
  BY DEF CircleOffsets, Disc
<1>5. ASSUME NEW o
      PROVE  o \in CircleOffsets(m, i) <=>
               \E x \in xs, y \in ys : /\ Disc(m, i, x, y)
                                      /\ o = y * m.stride + x
  <2> HIDE DEF xs, ys
  <2>1. ASSUME o \in CircleOffsets(m, i)
        PROVE  \E x \in xs, y \in ys : Disc(m, i, x, y) /\ o = y * m.stride + x
    <3>1. PICK p \in xs \X ys : /\ Disc(m, i, p[1], p[2])
                                /\ o = p[2] * m.stride + p[1]
      BY <1>4, <2>1, Zenon
    <3>2. p[1] \in xs /\ p[2] \in ys
      OBVIOUS
    <3> QED BY <3>1, <3>2, Zenon
  <2>2. ASSUME NEW x \in xs, NEW y \in ys, Disc(m, i, x, y),
               o = y * m.stride + x
        PROVE  o \in CircleOffsets(m, i)
    <3> DEFINE p == <<x, y>>
    <3>1. p \in xs \X ys /\ p[1] = x /\ p[2] = y
      OBVIOUS
    <3> HIDE DEF p
    <3>2. p \in {q \in xs \X ys : Disc(m, i, q[1], q[2])}
      BY <2>2, <3>1, Zenon
    <3>3. o = p[2] * m.stride + p[1]
      BY <2>2, <3>1, Zenon
    <3> QED BY <1>4, <3>2, <3>3, Zenon
  <2> QED BY <2>1, <2>2, Zenon
<1>6. \A x \in xs : x \in 0 .. m.width - 1
  <2>1. xs \subseteq Int
    <3> HIDE DEF c
    <3> QED BY <1>1, MaxMin
  <2> HIDE DEF xs
  <2> QED BY <2>1, <1>1, <1>3
<1>7. ASSUME NEW o \in CircleOffsets(m, i) PROVE o \in 0 .. m.pixels - 1 /\ Inside(m, i, o)
  <2>1. PICK x \in xs, y \in ys : Disc(m, i, x, y) /\ o = y * m.stride + x
    BY <1>5, <1>7, Zenon
  <2>2. x \in 0 .. m.width - 1 /\ y \in 0 .. m.height - 1
    <3> HIDE DEF xs, ys
    <3> QED BY <2>1, <1>2, <1>6
  <2>3. o \in 0 .. m.pixels - 1 /\ o % m.stride = x /\ o \div m.stride = y
    BY <2>1, <2>2, Offsets
  <2>4. x < m.width /\ y < m.height
    BY <2>2, <1>1
  <2> QED BY <2>1, <2>3, <2>4 DEF Inside
<1>8. ASSUME NEW o \in 0 .. m.pixels - 1, Inside(m, i, o)
      PROVE  o \in CircleOffsets(m, i) /\ o \div m.stride \in Band0(m) .. Band1(m)
  <2> DEFINE x == o % m.stride
             y == o \div m.stride
  <2>1. /\ x \in 0 .. m.stride - 1 /\ y \in Int /\ o = y * m.stride + x
        /\ x < m.width
    <3>1. o \in Int
      BY <1>1
    <3>2. x < m.width
      BY <1>8, Zenon DEF Inside
    <3> QED BY <1>1, <3>1, <3>2, DivMod
  <2>2. Disc(m, i, x, y)
    BY <1>8 DEF Inside
  <2> HIDE DEF x, y
  <2>3. /\ x - c \in Int /\ y - CenterY(m) \in Int
        /\ (x - c) * (x - c) + (y - CenterY(m)) * (y - CenterY(m)) <= Radius(m) * Radius(m)
    BY <1>1, <2>1, <2>2 DEF Disc
  <2>4. /\ -Radius(m) <= x - c /\ x - c <= Radius(m)
        /\ -Radius(m) <= y - CenterY(m) /\ y - CenterY(m) <= Radius(m)
    BY <2>3, <1>1, InCircle
  <2> HIDE DEF c
  <2>5. x \in xs
    <3>1. x \in Int /\ c - Radius(m) <= x /\ 0 <= x /\ x <= c + Radius(m) /\ x <= m.width - 1
      BY <2>1, <2>4, <1>1
    <3> HIDE DEF xs
    <3> QED BY <1>3, <3>1
  <2>6. y \in CenterY(m) - Radius(m) .. CenterY(m) + Radius(m)
    BY <2>1, <2>4, <1>1
  <2> HIDE DEF xs, ys
  <2> QED BY <1>1, <1>2, <1>5, <2>1, <2>2, <2>5, <2>6 DEF y
<1> QED BY <1>7, <1>8

-----------------------------------------------------------------------------
(* The picture.                                                            *)

\* The colour the brand gives bubble i when bubble l leads.
Colour(l, i) ==
  [c \in 1 .. 3 |-> (BUILD_ACID[c] * Opacity((i - l) % 3)
                      + HARDCORE_BLACK[c] * (255 - Opacity((i - l) % 3))) \div 255]

\* What blend means: a and b mixed in the proportion p to 255 - p.
Blended(a, b, p) == (a * p + b * (255 - p)) \div 255

Byte(n) == n \in Int /\ 0 <= n /\ n <= 255

\* The u16 and u8 arithmetic of blend never wraps, whatever its arguments.
LEMMA MixExact ==
  ASSUME NEW a, NEW b, NEW p, Byte(a), Byte(b), Byte(p)
  PROVE  Mix(a, b, p) = Blended(a, b, p)
<1> DEFINE v == a * p + b * (255 - p)
<1>1. a \in Int /\ b \in Int /\ p \in Int /\ 0 <= a /\ a <= 255 /\ 0 <= b /\ b <= 255
      /\ 0 <= p /\ p <= 255
  BY DEF Byte
<1>2. v \in Int /\ 0 <= v /\ v <= 65025
  <2> DEFINE q == 255 - p
             ap == a * p
             bq == b * q
  <2>1. q \in Nat /\ p \in Nat
    BY <1>1
  <2>2. 0 * p <= ap /\ ap <= 255 * p
    BY <1>1, <2>1, MulMono
  <2>3. 0 * q <= bq /\ bq <= 255 * q
    <3> HIDE DEF q
    <3> QED BY <1>1, <2>1, MulMono
  <2>4. ap \in Int /\ bq \in Int /\ v = ap + bq
    BY <1>1
  <2> HIDE DEF ap, bq, v
  <2> QED BY <1>1, <2>1, <2>2, <2>3, <2>4
<1> HIDE DEF v
<1>3. v % 65536 = v
  BY <1>2
<1>4. v \div 255 \in Int /\ 0 <= v \div 255 /\ v \div 255 <= 255
  BY <1>2
<1>5. ASSUME NEW n \in Int, 0 <= n, n <= 255 PROVE n % 256 = n
  BY <1>5
<1>6. Mix(a, b, p) = ((v % 65536) \div 255) % 256
  BY DEF Mix, v
<1>7. Mix(a, b, p) = v \div 255
  <2> DEFINE n == v \div 255
  <2>1. n % 256 = n
    BY <1>4, <1>5
  <2>2. Mix(a, b, p) = n % 256
    BY <1>3, <1>6
  <2> QED BY <2>1, <2>2
<1> QED BY <1>7 DEF v, Blended

\* draw's index into STAGGER stays in range, and every bubble gets the opacity of
\* its place behind the leader.
LEMMA BlendExact ==
  ASSUME NEW l \in 0 .. 2, NEW i \in 0 .. 2
  PROVE  blend(BUILD_ACID, HARDCORE_BLACK, STAGGER[1 + ((3 + i - l) % 3)]) = Colour(l, i)
<1> DEFINE k == (i - l) % 3
<1>1. k \in {0, 1, 2} /\ (3 + i - l) % 3 = k
  OBVIOUS
<1> HIDE DEF k
<1>2. STAGGER[1 + k] = Opacity(k) /\ Byte(Opacity(k))
  BY <1>1 DEF STAGGER, Opacity, Byte
<1>3. /\ BUILD_ACID[1] = 214 /\ BUILD_ACID[2] = 255 /\ BUILD_ACID[3] = 63
      /\ HARDCORE_BLACK[1] = 14 /\ HARDCORE_BLACK[2] = 14 /\ HARDCORE_BLACK[3] = 16
  BY DEF BUILD_ACID, HARDCORE_BLACK
<1>4. ASSUME NEW c \in 1 .. 3, NEW p, Byte(p)
      PROVE  Mix(BUILD_ACID[c], HARDCORE_BLACK[c], p) = Blended(BUILD_ACID[c], HARDCORE_BLACK[c], p)
  <2>1. c = 1 \/ c = 2 \/ c = 3
    OBVIOUS
  <2>2. Byte(BUILD_ACID[c]) /\ Byte(HARDCORE_BLACK[c])
    BY <1>3, <2>1 DEF Byte
  <2> QED BY <1>4, <2>2, MixExact, Zenon
<1>5. Colour(l, i) = [c \in 1 .. 3 |-> Blended(BUILD_ACID[c], HARDCORE_BLACK[c], Opacity(k))]
  BY DEF Colour, k, Blended
<1>6. blend(BUILD_ACID, HARDCORE_BLACK, STAGGER[1 + ((3 + i - l) % 3)])
        = [c \in 1 .. 3 |-> Mix(BUILD_ACID[c], HARDCORE_BLACK[c], Opacity(k))]
  BY <1>1, <1>2, Zenon DEF blend
<1> QED BY <1>2, <1>4, <1>5, <1>6

\* The picture at an offset: the topmost bubble that covers it, or black.
LEMMA ImageIs ==
  ASSUME NEW m \in Infos, NEW l \in 0 .. 2, NEW o \in 0 .. m.pixels - 1
  PROVE  /\ (\A i \in 0 .. 2 : ~Inside(m, i, o)) =>
              Image(m, l)[o] = write_pixel(m.format, HARDCORE_BLACK)
         /\ \A i \in 0 .. 2 : Inside(m, i, o) /\ (\A j \in 0 .. 2 : i < j => ~Inside(m, j, o)) =>
              Image(m, l)[o] = write_pixel(m.format, Colour(l, i))
<1> DEFINE x == o % m.stride
           y == o \div m.stride
           covering == {i \in 0 .. 2 : Disc(m, i, x, y)}
<1>1. x \in Int /\ y \in Int /\ m.width \in Int /\ m.height \in Int
  <2>1. o \in Int /\ m.stride \in Nat \ {0} /\ m.width \in Nat /\ m.height \in Nat
    BY Geometry
  <2>2. x \in 0 .. m.stride - 1 /\ y \in Int
    BY <2>1, DivMod
  <2> HIDE DEF x, y
  <2> QED BY <2>1, <2>2
<1>2. Image(m, l)[o] = write_pixel(m.format, PixelOf(m, l, x, y))
  BY DEF Image
<1>3. PixelOf(m, l, x, y) = IF x >= m.width \/ y >= m.height \/ covering = {}
                            THEN HARDCORE_BLACK ELSE Colour(l, Max(covering))
  BY DEF PixelOf, Colour
<1>4. \A i \in 0 .. 2 : Inside(m, i, o) <=> x < m.width /\ y < m.height /\ i \in covering
  BY DEF Inside
<1> HIDE DEF x, y
<1>5. ASSUME \A i \in 0 .. 2 : ~Inside(m, i, o)
      PROVE  Image(m, l)[o] = write_pixel(m.format, HARDCORE_BLACK)
  <2>1. x >= m.width \/ y >= m.height \/ covering = {}
    BY <1>1, <1>4, <1>5
  <2> QED BY <1>2, <1>3, <2>1, Zenon
<1>6. ASSUME NEW i \in 0 .. 2, Inside(m, i, o), \A j \in 0 .. 2 : i < j => ~Inside(m, j, o)
      PROVE  Image(m, l)[o] = write_pixel(m.format, Colour(l, i))
  <2>1. x < m.width /\ y < m.height /\ i \in covering
    BY <1>4, <1>6
  <2>2. \A j \in covering : j \in Int /\ i >= j
    BY <1>4, <1>6, <2>1
  <2>3. ~(x >= m.width) /\ ~(y >= m.height) /\ covering # {}
    BY <1>1, <2>1
  <2> HIDE DEF covering
  <2>4. Max(covering) = i
    <3>1. \A j \in covering : (\A k \in covering : j >= k) => j = i
      BY <2>1, <2>2
    <3>2. \E j \in covering : \A k \in covering : j >= k
      BY <2>1, <2>2
    <3> QED BY <3>1, <3>2, Zenon DEF Max
  <2> QED BY <1>2, <1>3, <2>3, <2>4, Zenon
<1> QED BY <1>5, <1>6

\* Outside the band that run copies every picture is black.
LEMMA OutsideBand ==
  ASSUME NEW m \in Infos, NEW l \in -1 .. 2, NEW o \in 0 .. m.pixels - 1,
         l = -1 \/ o \div m.stride \notin Band0(m) .. Band1(m)
  PROVE  Image(m, l)[o] = write_pixel(m.format, HARDCORE_BLACK)
<1>1. CASE l = -1
  BY <1>1 DEF Image
<1>2. CASE l \in 0 .. 2 /\ o \div m.stride \notin Band0(m) .. Band1(m)
  <2>1. \A i \in 0 .. 2 : ~Inside(m, i, o)
    BY <1>2, CircleIs
  <2> QED BY <1>2, <2>1, ImageIs
<1> QED BY <1>1, <1>2

\* The offsets of the band are those from Start up to End.
LEMMA OutsideCopy ==
  ASSUME NEW m \in Infos, NEW l \in -1 .. 2, NEW k \in -1 .. 2, NEW o \in 0 .. m.pixels - 1,
         o < Start(m) \/ o >= End(m)
  PROVE  Image(m, l)[o] = Image(m, k)[o]
<1> DEFINE s == m.stride
           y == o \div s
           x == o % s
           b == Band0(m)
           e == Band1(m)
<1>1. /\ s \in Nat \ {0} /\ b \in Int /\ e \in Int /\ o \in Int
      /\ Start(m) = b * s /\ End(m) = (e + 1) * s
  BY Geometry
<1>2. y \in Int /\ x \in 0 .. s - 1 /\ o = y * s + x
  BY <1>1, DivMod
<1>3. y \notin b .. e
  <2> HIDE DEF s, y, x, b, e
  <2> SUFFICES ASSUME b <= y, y <= e PROVE FALSE
    BY <1>1, <1>2
  <2>1. b * s <= y * s /\ (y + 1) * s <= (e + 1) * s
    <3>1. y + 1 <= e + 1 /\ y + 1 \in Int /\ e + 1 \in Int
      BY <1>1, <1>2
    <3> QED BY <1>1, <1>2, <3>1, MulMono
  <2>2. (y + 1) * s = y * s + s /\ b * s \in Int /\ y * s \in Int /\ (e + 1) * s \in Int
    BY <1>1, <1>2
  <2> QED BY <1>1, <1>2, <2>1, <2>2
<1> QED BY <1>3, OutsideBand

-----------------------------------------------------------------------------
(* Drawing.                                                                *)

\* v is what the canvas holds at offset o once the first n bubbles have been drawn
\* with leader l over the picture with leader s.
Painted(m, n, s, l, o, v) ==
  /\ (\A i \in 0 .. n - 1 : ~Inside(m, i, o)) => v = Image(m, s)[o]
  /\ \A i \in 0 .. n - 1 :
       Inside(m, i, o) /\ (\A j \in 0 .. n - 1 : i < j => ~Inside(m, j, o)) =>
         v = write_pixel(m.format, Colour(l, i))

LEMMA PaintStart ==
  ASSUME NEW m \in Infos, NEW s, NEW l, NEW o
  PROVE  Painted(m, 0, s, l, o, Image(m, s)[o])
BY DEF Painted

LEMMA PaintStep ==
  ASSUME NEW m \in Infos, NEW n \in 0 .. 2, NEW s, NEW l, NEW o, NEW v, NEW w,
         Painted(m, n, s, l, o, v),
         w = IF Inside(m, n, o) THEN write_pixel(m.format, Colour(l, n)) ELSE v
  PROVE  Painted(m, n + 1, s, l, o, w)
<1>1. \A i \in 0 .. (n + 1) - 1 : i \in 0 .. n - 1 \/ i = n
  OBVIOUS
<1>2. n \in 0 .. (n + 1) - 1 /\ \A i \in 0 .. n - 1 : i \in 0 .. (n + 1) - 1 /\ i < n
  OBVIOUS
<1>3. CASE Inside(m, n, o)
  <2>1. w = write_pixel(m.format, Colour(l, n))
    BY <1>3
  <2> QED BY <1>1, <1>2, <1>3, <2>1, Zenon DEF Painted
<1>4. CASE ~Inside(m, n, o)
  <2>1. w = v
    BY <1>4
  <2> QED BY <1>1, <1>2, <1>4, <2>1, Zenon DEF Painted
<1> QED BY <1>3, <1>4

\* The canvas is never cleared between frames; the three bubbles repaint all that
\* the frame before had painted.
LEMMA PaintDone ==
  ASSUME NEW m \in Infos, NEW s \in -1 .. 2, NEW l \in 0 .. 2, NEW o \in 0 .. m.pixels - 1,
         NEW v, Painted(m, 3, s, l, o, v)
  PROVE  v = Image(m, l)[o]
<1>1. CASE \A i \in 0 .. 2 : ~Inside(m, i, o)
  <2>1. v = Image(m, s)[o]
    BY <1>1 DEF Painted
  <2>2. Image(m, l)[o] = write_pixel(m.format, HARDCORE_BLACK)
    BY <1>1, ImageIs
  <2>3. Image(m, s)[o] = write_pixel(m.format, HARDCORE_BLACK)
    <3>1. s = -1 \/ s \in 0 .. 2
      OBVIOUS
    <3> QED BY <3>1, <1>1, ImageIs, OutsideBand
  <2> QED BY <2>1, <2>2, <2>3
<1>2. CASE \E i \in 0 .. 2 : Inside(m, i, o)
  <2>1. PICK i \in 0 .. 2 : Inside(m, i, o) /\ \A j \in 0 .. 2 : i < j => ~Inside(m, j, o)
    BY <1>2
  <2>2. v = write_pixel(m.format, Colour(l, i))
    BY <2>1 DEF Painted
  <2> QED BY <2>1, <2>2, ImageIs
<1> QED BY <1>1, <1>2

-----------------------------------------------------------------------------
(* Frames.                                                                 *)

NF == TickCycle \div FrameTicks

Succ(q) == IF q + 1 = NF THEN 0 ELSE q + 1

\* TICKS wraps after whole turns of the mark.
LEMMA Cycle ==
  /\ FrameTicks \in Nat \ {0} /\ PassTicks \in Nat
  /\ NF \in Nat /\ NF > 3 /\ NF % 3 = 0 /\ TickCycle = NF * FrameTicks
<1> DEFINE T == TickCycle
           F == FrameTicks
           D == 3 * F
           k == T \div D
<1>1. F \in Nat \ {0} /\ PassTicks \in Nat /\ T \in Nat /\ T % D = 0 /\ T > D
  BY RenderAssumption
<1>2. D \in Nat \ {0} /\ D = 3 * F
  BY <1>1
<1> HIDE DEF D
<1>3. k \in Int /\ T = k * D
  <2>1. k \in Int /\ T = k * D + (T % D)
    <3>1. T \in Int /\ D \in Nat \ {0}
      BY <1>1, <1>2
    <3> QED BY <3>1, DivMod
  <2>2. k * D \in Int
    BY <1>2, <2>1
  <2> HIDE DEF k
  <2> QED BY <1>1, <2>1, <2>2
<1> HIDE DEF k
<1>4. k > 1
  <2> SUFFICES ASSUME k <= 1 PROVE FALSE
    BY <1>3
  <2>1. k * D <= 1 * D
    BY <1>2, <1>3, MulMono
  <2> QED BY <1>1, <1>2, <1>3, <2>1
<1> DEFINE n == 3 * k
<1>5. n \in Nat /\ n > 3 /\ n % 3 = 0
  BY <1>3, <1>4
<1>6. T = n * F
  BY <1>1, <1>2, <1>3
<1> HIDE DEF n
<1>7. T \div F = n
  <2>1. n \in Int /\ 0 \in 0 .. F - 1 /\ T = n * F + 0
    BY <1>1, <1>5, <1>6
  <2> QED BY <1>1, <2>1, DivUnique
<1> QED BY <1>1, <1>5, <1>6, <1>7 DEF NF

\* The frame after the last one of the cycle has the next leader too.
LEMMA SuccLeads ==
  ASSUME NEW q \in 0 .. NF - 1
  PROVE  Succ(q) \in 0 .. NF - 1 /\ Succ(q) % 3 = ((q % 3) + 1) % 3
BY Cycle DEF Succ

-----------------------------------------------------------------------------
(* The inductive invariant.                                                *)

Echoing == {"loop", "locked", "spin", "test"}

Idle == Echoing \cup {"hlt", "asleep"}

Working == Idle \cup {"draw", "present"}

RType ==
  /\ info \in Infos
  /\ pc \in {"boot", "new", "out_of_memory"} \cup Working
  /\ TICKS \in 0 .. TickCycle - 1 /\ last_frame \in -1 .. NF - 1
  /\ lead \in 0 .. 2 /\ bubble \in 0 .. 3 /\ offset \in 0 .. info.pixels
  /\ busy \in 0 .. PassTicks /\ delay \in 0 .. PassTicks /\ shown \in -1 .. 2
  /\ pc = "draw" => bubble \in 0 .. 2
  /\ pc = "present" => Start(info) <= offset /\ offset < End(info)

\* How many ticks can have come since the counter was read: those of busy and,
\* once awake again, one more.
Since == IF pc \in Echoing THEN busy + 1 ELSE busy

\* A counter value t, at most a ticks after it was read in frame q: still in that
\* frame, or no further than the next.
Phase(t, q, a) ==
  \E r \in 0 .. FrameTicks - 1 : \/ t = q * FrameTicks + r
                                 \/ t = Succ(q) * FrameTicks + r /\ r < a

Walks ==
  /\ pc \in {"boot", "new", "out_of_memory"} => last_frame = -1 /\ shown = -1
  /\ pc \in {"draw", "present"} =>
       /\ last_frame >= 0 /\ lead = last_frame % 3
       /\ shown = -1 \/ Late \/ lead = (shown + 1) % 3
  /\ pc \in {"hlt", "asleep"} => last_frame >= 0
  /\ pc \in Idle => shown = IF last_frame = -1 THEN -1 ELSE last_frame % 3
  /\ last_frame >= 0 /\ Since <= FrameTicks => Phase(TICKS, last_frame, Since)

CanvasHolds(o) ==
  /\ pc \in Idle => canvas[o] = Image(info, shown)[o]
  /\ pc = "present" => canvas[o] = Image(info, lead)[o]
  /\ pc = "draw" => Painted(info, bubble, shown, lead, o, canvas[o])

Canvas ==
  pc \in Working => /\ DOMAIN canvas = 0 .. info.pixels - 1
                    /\ \A o \in 0 .. info.pixels - 1 : CanvasHolds(o)

Screen == DOMAIN fb = 0 .. info.pixels - 1 /\ ScreenShowsWholeFrames

RInv == RType /\ Walks /\ Canvas /\ Screen

\* A counter that has just been read is in the frame it gave.
LEMMA PhaseRead ==
  ASSUME NEW t \in 0 .. TickCycle - 1
  PROVE  t \div FrameTicks \in 0 .. NF - 1 /\ Phase(t, t \div FrameTicks, 0)
<1> DEFINE F == FrameTicks
           q == t \div F
           r == t % F
<1>1. F \in Nat \ {0} /\ NF \in Nat /\ TickCycle = NF * F /\ t \in Int /\ TickCycle \in Int
  BY Cycle
<1>2. q \in Int /\ r \in 0 .. F - 1 /\ t = q * F + r
  BY <1>1, DivMod
<1> HIDE DEF F, q, r
<1>3. q * F \in Int /\ NF * F \in Int
  BY <1>1, <1>2
<1>4. ~(NF <= q)
  <2> SUFFICES ASSUME NF <= q PROVE FALSE
    OBVIOUS
  <2>1. NF * F <= q * F
    BY <1>1, <1>2, MulMono
  <2> QED BY <1>1, <1>2, <1>3, <2>1
<1>5. ~(q <= -1)
  <2> SUFFICES ASSUME q <= -1 PROVE FALSE
    OBVIOUS
  <2>1. q * F <= (-1) * F
    BY <1>1, <1>2, MulMono
  <2>2. (-1) * F = -F
    BY <1>1
  <2> QED BY <1>1, <1>2, <1>3, <2>1, <2>2
<1>6. q \in 0 .. NF - 1
  BY <1>1, <1>2, <1>4, <1>5
<1>7. Phase(t, q, 0)
  <2>1. 0 <= r
    BY <1>1, <1>2
  <2> QED BY <1>2, <2>1, Zenon DEF Phase, F
<1> QED BY <1>6, <1>7 DEF q, F

\* A tick leaves the counter in its frame or takes it to the next; a frame's worth
\* of ticks does not get it beyond.
LEMMA PhaseTick ==
  ASSUME NEW t \in 0 .. TickCycle - 1, NEW q \in 0 .. NF - 1, NEW a \in 0 .. FrameTicks - 1,
         Phase(t, q, a)
  PROVE  Phase((t + 1) % TickCycle, q, a + 1)
<1> DEFINE F == FrameTicks
           T == TickCycle
           u == (t + 1) % T
<1>1. /\ F \in Nat \ {0} /\ NF \in Nat /\ NF > 3 /\ T = NF * F /\ t \in Int /\ T \in Int
      /\ a \in Int /\ 0 <= a /\ a <= F - 1 /\ q \in Int /\ 0 <= q /\ q <= NF - 1
      /\ 0 <= t /\ t <= T - 1
  BY Cycle
<1>2. Succ(q) \in 0 .. NF - 1
  BY SuccLeads
<1>3. PICK r \in 0 .. F - 1 : \/ t = q * F + r
                              \/ t = Succ(q) * F + r /\ r < a
  BY DEF Phase
<1> HIDE DEF F
<1>4. t + 1 = T \/ u = t + 1
  BY <1>1
<1>5. t + 1 = T => u = 0
  BY <1>1
<1> HIDE DEF u, T
<1>6. q * F \in Int /\ NF * F \in Int /\ Succ(q) * F \in Int /\ Succ(q) \in Int
  BY <1>1, <1>2
<1>7. (q + 1) * F = q * F + F /\ (Succ(q) + 1) * F = Succ(q) * F + F /\ 0 * F = 0
  BY <1>1, <1>6
<1>8. (q + 1) * F <= NF * F /\ (Succ(q) + 1) * F <= NF * F
  <2>1. q + 1 <= NF /\ Succ(q) + 1 <= NF /\ q + 1 \in Int /\ Succ(q) + 1 \in Int
    BY <1>1, <1>2
  <2> QED BY <1>1, <2>1, MulMono
<1>9. CASE t = q * F + r /\ r < F - 1
  <2>1. u = q * F + (r + 1) /\ r + 1 \in 0 .. F - 1
    BY <1>1, <1>4, <1>6, <1>7, <1>8, <1>9
  <2> QED BY <2>1, Zenon DEF Phase, F, u, T
<1>10. CASE t = q * F + r /\ r = F - 1
  <2>1. t + 1 = (q + 1) * F
    BY <1>1, <1>6, <1>7, <1>10
  <2>2. u = Succ(q) * F
    <3>1. CASE q + 1 = NF
      <4>1. t + 1 = T
        BY <2>1, <3>1, <1>1
      <4>2. Succ(q) = 0
        BY <3>1 DEF Succ
      <4> QED BY <4>1, <4>2, <1>5, <1>7
    <3>2. CASE q + 1 # NF
      <4>1. Succ(q) = q + 1
        BY <3>2 DEF Succ
      <4>2. (q + 2) * F <= NF * F /\ (q + 2) * F = (q + 1) * F + F
        <5>1. q + 2 <= NF /\ q + 2 \in Int
          BY <1>1, <3>2
        <5>2. (q + 2) * F <= NF * F
          BY <1>1, <5>1, MulMono
        <5>3. (q + 2) * F = (q + 1) * F + F
          BY <1>1
        <5> QED BY <5>2, <5>3
      <4>3. t + 1 # T
        BY <1>1, <1>6, <2>1, <4>1, <4>2
      <4> QED BY <1>4, <2>1, <4>1, <4>3
    <3> QED BY <3>1, <3>2
  <2>3. u = Succ(q) * F + 0 /\ 0 < a + 1 /\ 0 \in 0 .. F - 1
    BY <1>1, <1>6, <2>2
  <2> QED BY <2>3, Zenon DEF Phase, F, u, T
<1>11. CASE t = Succ(q) * F + r /\ r < a
  <2>1. u = Succ(q) * F + (r + 1) /\ r + 1 < a + 1 /\ r + 1 \in 0 .. F - 1
    BY <1>1, <1>4, <1>6, <1>7, <1>8, <1>11
  <2> QED BY <2>1, Zenon DEF Phase, F, u, T
<1>12. r < F - 1 \/ r = F - 1
  BY <1>1
<1> QED BY <1>3, <1>9, <1>10, <1>11, <1>12

\* Allowing for one tick more changes nothing.
LEMMA PhaseMore ==
  ASSUME NEW t, NEW q, NEW a \in Nat, Phase(t, q, a)
  PROVE  Phase(t, q, a + 1)
<1>1. PICK r \in 0 .. FrameTicks - 1 : \/ t = q * FrameTicks + r
                                       \/ t = Succ(q) * FrameTicks + r /\ r < a
  BY DEF Phase
<1>2. r < a => r < a + 1
  BY Cycle
<1> QED BY <1>1, <1>2, Zenon DEF Phase

\* When the loop finds in time that the frame has changed, it has changed by one.
LEMMA PhaseNext ==
  ASSUME NEW t \in 0 .. TickCycle - 1, NEW q \in 0 .. NF - 1, NEW a, Phase(t, q, a)
  PROVE  t \div FrameTicks \in {q, Succ(q)}
<1>1. FrameTicks \in Nat \ {0} /\ q \in Int /\ Succ(q) \in Int
  BY Cycle, SuccLeads
<1>2. PICK r \in 0 .. FrameTicks - 1 : t = q * FrameTicks + r \/ t = Succ(q) * FrameTicks + r
  BY DEF Phase
<1>3. (q * FrameTicks + r) \div FrameTicks = q
  BY <1>1, DivUnique
<1>4. (Succ(q) * FrameTicks + r) \div FrameTicks = Succ(q)
  BY <1>1, DivUnique
<1> QED BY <1>2, <1>3, <1>4, Zenon

LEMMA InitRInv == Init => RInv
<1> SUFFICES ASSUME Init PROVE RInv
  OBVIOUS
<1>1. info \in Infos /\ pc = "boot" /\ TICKS \in 0 .. TickCycle - 1 /\ last_frame = -1
      /\ lead = 0 /\ bubble = 0 /\ offset = 0 /\ busy = 0 /\ delay = 0 /\ shown = -1
      /\ DOMAIN fb = 0 .. info.pixels - 1
  BY DEF Init
<1>2. info.pixels \in Nat /\ PassTicks \in Nat /\ NF \in Nat \ {0}
  BY <1>1, Geometry, Cycle
<1>3. RType
  BY <1>1, <1>2 DEF RType
<1>4. Walks
  BY <1>1 DEF Walks, Idle, Echoing
<1> QED BY <1>1, <1>3, <1>4 DEF RInv, Canvas, Working, Idle, Echoing, Screen,
                               ScreenShowsWholeFrames

\* Neither index of the renderer leaves its buffer.
LEMMA InBounds ==
  ASSUME RInv
  PROVE  /\ pc = "draw" => CircleOffsets(info, bubble) \subseteq DOMAIN canvas
         /\ End(info) <= info.pixels
<1>1. info \in Infos
  BY DEF RInv, RType
<1>2. ASSUME pc = "draw" PROVE CircleOffsets(info, bubble) \subseteq DOMAIN canvas
  <2>1. bubble \in 0 .. 2 /\ DOMAIN canvas = 0 .. info.pixels - 1
    BY <1>2 DEF RInv, RType, Canvas, Working
  <2> QED BY <1>1, <2>1, CircleIs
<1> QED BY <1>1, <1>2, Geometry

\* The steps that only move kernel_main about between two tests.
Quiet ==
  /\ UNCHANGED <<info, fb, canvas, TICKS, last_frame, lead, bubble, offset, busy, delay, shown>>
  /\ pc \in Idle /\ pc' \in Idle
  /\ pc \in Echoing => pc' \in Echoing

LEMMA QuietSteps == LockBuf \/ ReadSome \/ ReadNone \/ KeyInterrupt \/ Halt => Quiet
BY DEF LockBuf, ReadSome, ReadNone, KeyInterrupt, Halt, Quiet, Idle, Echoing, history

\* The steps of Next, the quiet ones taken together.
LEMMA StepCases ==
  ASSUME [Next]_vars
  PROVE  \/ ClearScreen \/ NewCanvas \/ ReadFrame \/ DrawBubble \/ PresentPixel \/ Tick
         \/ Quiet \/ UNCHANGED vars
BY QuietSteps, Zenon DEF Next, Run, Finished

LEMMA NextRType == RInv /\ [Next]_vars => RType'
<1> SUFFICES ASSUME RInv, [Next]_vars PROVE RType'
  OBVIOUS
<1> USE DEF Working, Idle, Echoing, history
<1>1. RType
  BY DEF RInv
<1>2. /\ Start(info) \in Nat /\ End(info) \in Nat /\ Start(info) < End(info)
      /\ End(info) <= info.pixels /\ info.pixels \in Nat
      /\ FrameTicks \in Nat \ {0} /\ PassTicks \in Nat /\ NF \in Nat /\ NF > 3
      /\ TickCycle = NF * FrameTicks
  BY <1>1, Geometry, Cycle DEF RType
<1>3. CASE ClearScreen
  BY <1>1, <1>3 DEF ClearScreen, RType
<1>4. CASE NewCanvas
  BY <1>1, <1>2, <1>4 DEF NewCanvas, RType
<1>5. CASE ReadFrame
  <2> DEFINE frame == TICKS \div FrameTicks
  <2>1. frame \in 0 .. NF - 1
    BY <1>1, PhaseRead DEF RType
  <2>2. frame % 3 \in 0 .. 2
    BY <2>1, <1>2
  <2> HIDE DEF frame
  <2>3. /\ busy' = 0 /\ info' = info /\ TICKS' = TICKS /\ offset' = offset /\ shown' = shown
        /\ \/ /\ last_frame' = frame /\ lead' = frame % 3 /\ bubble' = 0 /\ pc' = "draw"
              /\ delay' = busy
           \/ /\ pc' = "hlt" /\ last_frame' = last_frame /\ lead' = lead /\ bubble' = bubble
              /\ delay' = delay
    BY <1>5 DEF ReadFrame, NextLead, frame
  <2> QED BY <1>1, <1>2, <2>1, <2>2, <2>3 DEF RType
<1>6. CASE DrawBubble
  <2>1. /\ pc = "draw" /\ bubble' = bubble + 1 /\ pc' = IF bubble = 2 THEN "present" ELSE "draw"
        /\ offset' = Start(info)
        /\ UNCHANGED <<info, TICKS, last_frame, lead, busy, delay, shown>>
    BY <1>6, InBounds DEF DrawBubble
  <2> QED BY <1>1, <1>2, <2>1 DEF RType
<1>7. CASE PresentPixel
  <2>1. /\ pc = "present" /\ offset' = offset + 1
        /\ pc' = IF offset + 1 = End(info) THEN "hlt" ELSE "present"
        /\ shown' = IF offset + 1 = End(info) THEN lead ELSE shown
        /\ UNCHANGED <<info, TICKS, last_frame, lead, bubble, busy, delay>>
    BY <1>7, InBounds DEF PresentPixel
  <2> QED BY <1>1, <1>2, <2>1 DEF RType
<1>8. CASE Quiet
  BY <1>1, <1>8 DEF Quiet, RType
<1>9. CASE Tick
  <2>1. TICKS' \in 0 .. TickCycle - 1
    <3>1. TickCycle \in Nat \ {0} /\ TICKS + 1 \in Int
      BY <1>1, <1>2, RenderAssumption DEF RType
    <3>2. (TICKS + 1) % TickCycle \in 0 .. TickCycle - 1
      BY <3>1, DivMod
    <3> QED BY <1>9, <3>2 DEF Tick
  <2>2. /\ \/ pc \in {"loop", "locked", "test", "draw", "present", "hlt"} /\ busy < PassTicks
              /\ busy' = busy + 1 /\ pc' = pc
           \/ pc = "asleep" /\ pc' = "loop" /\ busy' = busy
        /\ UNCHANGED <<info, last_frame, lead, bubble, offset, delay, shown>>
    BY <1>9 DEF Tick
  <2> QED BY <1>1, <1>2, <2>1, <2>2 DEF RType
<1>10. CASE UNCHANGED vars
  BY <1>1, <1>10 DEF RType, vars
<1> QED BY <1>3, <1>4, <1>5, <1>6, <1>7, <1>8, <1>9, <1>10, StepCases

LEMMA NextWalks == RInv /\ [Next]_vars => Walks'
<1> SUFFICES ASSUME RInv, [Next]_vars PROVE Walks'
  OBVIOUS
<1> USE DEF Idle, Echoing, history
<1>1. RType /\ Walks
  BY DEF RInv
<1>0. FrameTicks \in Nat \ {0} /\ busy \in Nat /\ delay \in Nat
  BY <1>1, Cycle DEF RType
<1>2. CASE ClearScreen
  BY <1>1, <1>2 DEF ClearScreen, Walks
<1>3. CASE NewCanvas
  BY <1>1, <1>3 DEF NewCanvas, Walks
<1>4. CASE ReadFrame
  <2> DEFINE frame == TICKS \div FrameTicks
  <2>1. pc = "test" /\ busy' = 0 /\ TICKS' = TICKS /\ shown' = shown
    BY <1>4 DEF ReadFrame
  <2>2. frame \in 0 .. NF - 1 /\ Phase(TICKS, frame, 0)
    BY <1>1, PhaseRead DEF RType
  <2>3. CASE frame # last_frame
    <3>1. last_frame' = frame /\ lead' = frame % 3 /\ pc' = "draw" /\ delay' = busy
      BY <1>4, <2>3 DEF ReadFrame, NextLead
    <3> HIDE DEF frame
    <3>2. frame >= 0
      BY <2>2, Cycle
    <3>3. shown = -1 \/ busy >= FrameTicks \/ frame % 3 = (shown + 1) % 3
      <4>1. CASE last_frame = -1
        BY <1>1, <2>1, <4>1 DEF Walks
      <4>2. CASE last_frame # -1 /\ ~(busy >= FrameTicks)
        <5>1. last_frame \in 0 .. NF - 1 /\ last_frame >= 0
          BY <1>1, <4>2, Cycle DEF RType
        <5>2. frame = Succ(last_frame)
          <6>1. Since = busy + 1 /\ Since <= FrameTicks
            BY <1>0, <2>1, <4>2 DEF Since
          <6>2. Phase(TICKS, last_frame, Since)
            BY <1>1, <5>1, <6>1, Zenon DEF Walks
          <6> QED BY <1>1, <2>3, <5>1, <6>2, PhaseNext DEF RType, frame
        <5>3. shown = last_frame % 3
          BY <1>1, <2>1, <4>2 DEF Walks
        <5> QED BY <5>1, <5>2, <5>3, SuccLeads
      <4> QED BY <4>1, <4>2
    <3>4. Since' = 0 /\ Phase(TICKS', last_frame', Since')
      <4>1. Since' = 0
        BY <2>1, <3>1 DEF Since
      <4> QED BY <2>1, <2>2, <3>1, <4>1
    <3>5. last_frame' >= 0 /\ lead' = last_frame' % 3
      BY <3>1, <3>2
    <3>6. shown' = -1 \/ Late' \/ lead' = (shown' + 1) % 3
      BY <2>1, <3>1, <3>3 DEF Late
    <3> HIDE DEF Since, Phase, Late
    <3> QED BY <3>1, <3>4, <3>5, <3>6 DEF Walks
  <2>4. CASE frame = last_frame
    <3>1. last_frame' = last_frame /\ lead' = lead /\ pc' = "hlt"
      BY <1>4, <2>4 DEF ReadFrame
    <3> HIDE DEF frame
    <3>2. last_frame >= 0 /\ last_frame # -1
      BY <2>2, <2>4, Cycle
    <3>3. shown = last_frame % 3
      BY <1>1, <2>1, <3>2 DEF Walks
    <3>4. Phase(TICKS', last_frame', Since')
      <4>1. Since' = 0
        BY <2>1, <3>1 DEF Since
      <4> QED BY <2>1, <2>2, <2>4, <3>1, <4>1
    <3>5. shown' = IF last_frame' = -1 THEN -1 ELSE last_frame' % 3
      BY <2>1, <3>1, <3>2, <3>3
    <3>6. last_frame' >= 0
      BY <3>1, <3>2
    <3> HIDE DEF Since, Phase, Late
    <3> QED BY <3>1, <3>4, <3>5, <3>6 DEF Walks
  <2> QED BY <2>3, <2>4
<1>5. CASE DrawBubble
  <2>1. /\ pc = "draw" /\ pc' \in {"present", "draw"}
        /\ TICKS' = TICKS /\ last_frame' = last_frame /\ lead' = lead /\ shown' = shown
        /\ busy' = busy /\ delay' = delay
    BY <1>5, InBounds DEF DrawBubble
  <2>2. Since' = Since /\ (Late' <=> Late)
    BY <2>1 DEF Since, Late
  <2> HIDE DEF Since, Phase, Late
  <2> QED BY <1>1, <2>1, <2>2 DEF Walks
<1>6. CASE PresentPixel
  <2>1. /\ pc = "present"
        /\ TICKS' = TICKS /\ last_frame' = last_frame /\ lead' = lead
        /\ busy' = busy /\ delay' = delay
        /\ \/ pc' = "hlt" /\ shown' = lead
           \/ pc' = "present" /\ shown' = shown
    BY <1>6, InBounds DEF PresentPixel
  <2>2. last_frame >= 0 /\ lead = last_frame % 3 /\ last_frame # -1
    BY <1>1, <2>1 DEF Walks
  <2>3. Since' = Since /\ (Late' <=> Late)
    BY <2>1 DEF Since, Late
  <2> HIDE DEF Since, Phase, Late
  <2> QED BY <1>1, <2>1, <2>2, <2>3 DEF Walks
<1>7. CASE Quiet
  <2>1. /\ pc \in Idle /\ pc' \in Idle /\ (pc \in Echoing => pc' \in Echoing)
        /\ TICKS' = TICKS /\ last_frame' = last_frame /\ shown' = shown /\ busy' = busy
    BY <1>7, Zenon DEF Quiet
  <2>2. Since' = Since \/ Since' = Since + 1
    BY <1>0, <2>1 DEF Since
  <2>3. Since \in Nat
    BY <1>0 DEF Since
  <2>4. last_frame' >= 0 /\ Since' <= FrameTicks => Phase(TICKS', last_frame', Since')
    <3> SUFFICES ASSUME last_frame >= 0, Since' <= FrameTicks
                 PROVE  Phase(TICKS, last_frame, Since')
      BY <2>1, Zenon
    <3>1. Since <= FrameTicks
      BY <1>0, <2>2, <2>3
    <3>2. Phase(TICKS, last_frame, Since)
      BY <1>1, <3>1, Zenon DEF Walks
    <3>3. Phase(TICKS, last_frame, Since + 1)
      BY <2>3, <3>2, PhaseMore
    <3> QED BY <2>2, <3>2, <3>3, Zenon
  <2>5. pc' \in {"hlt", "asleep"} => pc \in {"hlt", "asleep"}
    BY <2>1
  <2>6. /\ last_frame' >= 0 <=> last_frame >= 0
        /\ pc' \notin {"boot", "new", "out_of_memory", "draw", "present"}
    BY <2>1
  <2> HIDE DEF Since, Phase, Late
  <2> QED BY <1>1, <2>1, <2>4, <2>5, <2>6 DEF Walks
<1>8. CASE Tick
  <2>1. /\ \/ pc \in {"loop", "locked", "test", "draw", "present", "hlt"}
              /\ busy' = busy + 1 /\ pc' = pc
           \/ pc = "asleep" /\ pc' = "loop" /\ busy' = busy
        /\ TICKS' = (TICKS + 1) % TickCycle
        /\ last_frame' = last_frame /\ lead' = lead /\ shown' = shown /\ delay' = delay
    BY <1>8 DEF Tick
  <2>2. Since \in Nat /\ Since' = Since + 1
    BY <1>0, <2>1 DEF Since
  <2>3. last_frame >= 0 /\ Since' <= FrameTicks => Phase(TICKS', last_frame', Since')
    <3> SUFFICES ASSUME last_frame >= 0, Since' <= FrameTicks
                 PROVE Phase((TICKS + 1) % TickCycle, last_frame, Since + 1)
      BY <2>1, <2>2, Zenon
    <3>1. Since \in 0 .. FrameTicks - 1 /\ Since <= FrameTicks
      BY <1>0, <2>2
    <3>2. last_frame \in 0 .. NF - 1
      BY <1>1, Cycle DEF RType
    <3>3. Phase(TICKS, last_frame, Since)
      BY <1>1, <3>1, Zenon DEF Walks
    <3>4. TICKS \in 0 .. TickCycle - 1
      BY <1>1 DEF RType
    <3> HIDE DEF Since, Phase
    <3> QED BY <3>1, <3>2, <3>3, <3>4, PhaseTick
  <2>4. last_frame' >= 0 /\ Since' <= FrameTicks => Phase(TICKS', last_frame', Since')
    BY <2>1, <2>3, Zenon
  <2>5. /\ pc' \in {"loop", "locked", "test", "draw", "present", "hlt"}
        /\ pc' \in {"draw", "present"} => pc = pc'
        /\ pc' \in Idle => pc \in Idle
        /\ pc' = "hlt" => pc = "hlt"
    BY <2>1
  <2>6. Late' <=> Late
    BY <2>1 DEF Late
  <2> HIDE DEF Since, Phase, Late
  <2> QED BY <1>1, <2>1, <2>4, <2>5, <2>6 DEF Walks
<1>9. CASE UNCHANGED vars
  <2>1. UNCHANGED <<pc, TICKS, last_frame, lead, shown, busy, delay>>
    BY <1>9 DEF vars
  <2> QED BY <1>1, <2>1 DEF Walks, Since, Late
<1> QED BY <1>2, <1>3, <1>4, <1>5, <1>6, <1>7, <1>8, <1>9, StepCases

LEMMA NextCanvas == RInv /\ [Next]_vars => Canvas'
<1> SUFFICES ASSUME RInv, [Next]_vars PROVE Canvas'
  OBVIOUS
<1> USE DEF Idle, Echoing, history
<1>1. RType /\ Walks /\ Canvas
  BY DEF RInv
<1>2. CASE ClearScreen
  BY <1>2 DEF ClearScreen, Canvas, Working
<1>3. CASE NewCanvas
  <2>1. info \in Infos /\ info' = info /\ shown' = -1 /\ pc' \in {"loop", "out_of_memory"}
    BY <1>1, <1>3 DEF NewCanvas, RType, Walks
  <2>2. CASE pc' = "loop"
    <3>1. canvas' = Filled(info, HARDCORE_BLACK)
      BY <1>3, <2>2 DEF NewCanvas
    <3>2. DOMAIN canvas' = 0 .. info.pixels - 1
      BY <3>1 DEF Filled
    <3>3. ASSUME NEW o \in 0 .. info.pixels - 1 PROVE canvas'[o] = Image(info, -1)[o]
      <4>1. canvas'[o] = write_pixel(info.format, HARDCORE_BLACK)
        BY <3>1 DEF Filled
      <4> QED BY <2>1, <4>1, OutsideBand
    <3> QED BY <2>1, <2>2, <3>2, <3>3, Zenon DEF Canvas, CanvasHolds
  <2>3. CASE pc' = "out_of_memory"
    BY <2>3 DEF Canvas, Working
  <2> QED BY <2>1, <2>2, <2>3
<1>4. CASE ReadFrame
  <2>1. /\ pc = "test" /\ info' = info /\ canvas' = canvas /\ shown' = shown
        /\ pc' = "hlt" \/ (pc' = "draw" /\ bubble' = 0)
    BY <1>4 DEF ReadFrame
  <2>2. info \in Infos /\ DOMAIN canvas = 0 .. info.pixels - 1
    BY <1>1, <2>1 DEF RType, Canvas, Working
  <2>3. ASSUME NEW o \in 0 .. info.pixels - 1 PROVE CanvasHolds(o)'
    <3>1. canvas[o] = Image(info, shown)[o]
      BY <1>1, <2>1 DEF Canvas, CanvasHolds, Working
    <3>2. Painted(info, 0, shown, lead', o, canvas[o])
      BY <2>2, <3>1, PaintStart
    <3> QED BY <2>1, <3>1, <3>2 DEF CanvasHolds
  <2> QED BY <2>1, <2>2, <2>3, Zenon DEF Canvas
<1>5. CASE DrawBubble
  <2> DEFINE at == CircleOffsets(info, bubble)
             rgb == blend(BUILD_ACID, HARDCORE_BLACK, STAGGER[1 + ((3 + bubble - lead) % 3)])
  <2>1. pc = "draw" /\ at \subseteq DOMAIN canvas
    BY <1>5, InBounds DEF DrawBubble
  <2>2. /\ canvas' = [o \in DOMAIN canvas |->
                        IF o \in at THEN write_pixel(info.format, rgb) ELSE canvas[o]]
        /\ bubble' = bubble + 1 /\ pc' = IF bubble = 2 THEN "present" ELSE "draw"
        /\ info' = info /\ lead' = lead /\ shown' = shown
    BY <1>5, <2>1 DEF DrawBubble
  <2>3. /\ info \in Infos /\ bubble \in 0 .. 2 /\ lead \in 0 .. 2 /\ shown \in -1 .. 2
        /\ DOMAIN canvas = 0 .. info.pixels - 1
    BY <1>1, <2>1 DEF RType, Canvas, Working
  <2>4. rgb = Colour(lead, bubble)
    BY <2>3, BlendExact
  <2> HIDE DEF rgb
  <2>5. ASSUME NEW o \in 0 .. info.pixels - 1
        PROVE  Painted(info, bubble + 1, shown, lead, o, canvas'[o])
    <3>1. Painted(info, bubble, shown, lead, o, canvas[o])
      BY <1>1, <2>1 DEF Canvas, CanvasHolds, Working
    <3>2. o \in at <=> Inside(info, bubble, o)
      BY <2>3, CircleIs
    <3> HIDE DEF at
    <3>3. canvas'[o] = IF Inside(info, bubble, o)
                       THEN write_pixel(info.format, Colour(lead, bubble)) ELSE canvas[o]
      BY <2>2, <2>3, <2>4, <3>2
    <3> QED BY <2>3, <3>1, <3>3, PaintStep
  <2>6. ASSUME NEW o \in 0 .. info.pixels - 1 PROVE CanvasHolds(o)'
    <3>1. CASE bubble = 2
      <4>1. Painted(info, 3, shown, lead, o, canvas'[o])
        BY <2>5, <3>1
      <4>2. canvas'[o] = Image(info, lead)[o]
        BY <2>3, <4>1, PaintDone
      <4>3. pc' = "present"
        BY <2>2, <3>1
      <4> QED BY <2>2, <4>2, <4>3 DEF CanvasHolds
    <3>2. CASE bubble # 2
      <4>1. pc' = "draw"
        BY <2>2, <3>2
      <4> QED BY <2>2, <2>5, <4>1 DEF CanvasHolds
    <3> QED BY <3>1, <3>2
  <2>7. DOMAIN canvas' = 0 .. info.pixels - 1
    BY <2>2, <2>3
  <2> QED BY <2>2, <2>6, <2>7, Zenon DEF Canvas
<1>6. CASE PresentPixel
  <2>1. /\ pc = "present" /\ info' = info /\ canvas' = canvas /\ lead' = lead
        /\ (pc' = "hlt" /\ shown' = lead) \/ pc' = "present"
    BY <1>6, InBounds DEF PresentPixel
  <2>2. DOMAIN canvas = 0 .. info.pixels - 1
    BY <1>1, <2>1 DEF Canvas, Working
  <2>3. ASSUME NEW o \in 0 .. info.pixels - 1 PROVE CanvasHolds(o)'
    <3>1. canvas[o] = Image(info, lead)[o]
      BY <1>1, <2>1 DEF Canvas, CanvasHolds, Working
    <3> QED BY <2>1, <3>1 DEF CanvasHolds
  <2> QED BY <2>1, <2>2, <2>3, Zenon DEF Canvas
<1>7. CASE Quiet \/ Tick \/ UNCHANGED vars
  <2>1. /\ UNCHANGED <<info, canvas, lead, bubble, shown>>
        /\ pc' = pc \/ (pc \in Idle /\ pc' \in Idle)
    BY <1>7 DEF Quiet, Tick, vars
  <2>2. pc' \in Working => pc \in Working
    BY <2>1 DEF Working
  <2>3. ASSUME NEW o, CanvasHolds(o) PROVE CanvasHolds(o)'
    BY <2>1, <2>3 DEF CanvasHolds
  <2> QED BY <1>1, <2>1, <2>2, <2>3, Zenon DEF Canvas
<1> QED BY <1>2, <1>3, <1>4, <1>5, <1>6, <1>7, StepCases

LEMMA NextScreen == RInv /\ [Next]_vars => Screen'
<1> SUFFICES ASSUME RInv, [Next]_vars PROVE Screen'
  OBVIOUS
<1>1. RType /\ Walks /\ Canvas /\ Screen /\ info \in Infos /\ shown \in -1 .. 2 /\ lead \in 0 .. 2
  BY DEF RInv, RType
<1>2. CASE ClearScreen
  <2>1. info' = info /\ shown' = -1 /\ pc' = "new" /\ fb' = Filled(info, HARDCORE_BLACK)
    BY <1>1, <1>2 DEF ClearScreen, Walks, history
  <2>2. DOMAIN fb' = 0 .. info.pixels - 1
    BY <2>1 DEF Filled
  <2>3. ASSUME NEW o \in 0 .. info.pixels - 1 PROVE fb'[o] = Image(info, -1)[o]
    <3>1. fb'[o] = write_pixel(info.format, HARDCORE_BLACK)
      BY <2>1 DEF Filled
    <3> QED BY <1>1, <3>1, OutsideBand
  <2> QED BY <2>1, <2>2, <2>3 DEF Screen, ScreenShowsWholeFrames
<1>3. CASE NewCanvas \/ ReadFrame \/ Quiet \/ Tick \/ UNCHANGED vars
  <2>1. /\ info' = info /\ fb' = fb /\ shown' = shown /\ (pc = "boot" => pc' = "boot")
        /\ \/ pc # "present" /\ pc' # "present"
           \/ pc' = pc /\ offset' = offset /\ lead' = lead
    BY <1>3 DEF NewCanvas, ReadFrame, Quiet, Idle, Echoing, Tick, vars, history
  <2> QED BY <1>1, <2>1 DEF Screen, ScreenShowsWholeFrames
<1>4. CASE DrawBubble
  <2>1. /\ pc = "draw" /\ pc' \in {"draw", "present"} /\ offset' = Start(info)
        /\ info' = info /\ fb' = fb /\ shown' = shown /\ lead' = lead
    BY <1>4, InBounds DEF DrawBubble, history
  <2>2. DOMAIN fb = 0 .. info.pixels - 1
    BY <1>1 DEF Screen
  <2>3. ASSUME NEW o \in 0 .. info.pixels - 1
        PROVE  /\ fb[o] = Image(info, shown)[o]
               /\ o < Start(info) => fb[o] = Image(info, lead)[o]
    <3>1. fb[o] = Image(info, shown)[o]
      BY <1>1, <2>1, <2>2 DEF Screen, ScreenShowsWholeFrames
    <3>2. lead \in -1 .. 2
      BY <1>1
    <3>3. o < Start(info) => Image(info, shown)[o] = Image(info, lead)[o]
      BY <1>1, <3>2, OutsideCopy
    <3> QED BY <3>1, <3>3
  <2> QED BY <2>1, <2>2, <2>3 DEF Screen, ScreenShowsWholeFrames
<1>5. CASE PresentPixel
  <2>1. /\ pc = "present" /\ info' = info /\ lead' = lead
        /\ fb' = [fb EXCEPT ![offset] = canvas[offset]]
        /\ offset' = offset + 1
        /\ \/ offset + 1 = End(info) /\ pc' = "hlt" /\ shown' = lead
           \/ offset + 1 # End(info) /\ pc' = "present" /\ shown' = shown
    BY <1>5, InBounds DEF PresentPixel
  <2>2. DOMAIN fb = 0 .. info.pixels - 1 /\ DOMAIN fb' = 0 .. info.pixels - 1
    BY <1>1, <2>1 DEF Screen
  <2>3. ASSUME NEW o \in 0 .. info.pixels - 1
        PROVE  /\ o < offset + 1 => fb'[o] = Image(info, lead)[o]
               /\ ~(o < offset + 1) =>
                     /\ fb'[o] = Image(info, shown)[o]
                     /\ offset + 1 = End(info) => fb'[o] = Image(info, lead)[o]
    <3>1. o \in Int /\ offset \in Int /\ End(info) \in Int
      BY <1>1, <2>1, Geometry DEF RType
    <3>2. canvas[o] = Image(info, lead)[o]
      BY <1>1, <2>1 DEF Canvas, CanvasHolds, Working
    <3>3. fb[o] = IF o < offset THEN Image(info, lead)[o] ELSE Image(info, shown)[o]
      BY <1>1, <2>1, <2>2 DEF Screen, ScreenShowsWholeFrames
    <3>4. fb'[o] = IF o = offset THEN canvas[o] ELSE fb[o]
      BY <2>1, <2>2
    <3>5. lead \in -1 .. 2
      BY <1>1
    <3>6. o >= End(info) => Image(info, shown)[o] = Image(info, lead)[o]
      BY <1>1, <3>5, OutsideCopy
    <3>7. /\ o < offset + 1 <=> o < offset \/ o = offset
          /\ ~(o < offset + 1) => ~(o < offset) /\ o # offset
          /\ ~(o < offset + 1) /\ offset + 1 = End(info) => o >= End(info)
          /\ o < offset => o # offset
      BY <3>1
    <3> HIDE DEF Image
    <3> QED BY <3>2, <3>3, <3>4, <3>6, <3>7
  <2> QED BY <2>1, <2>2, <2>3 DEF Screen, ScreenShowsWholeFrames
<1> QED BY <1>2, <1>3, <1>4, <1>5, StepCases

LEMMA RenderInvariant == Spec => []RInv
<1>1. RInv /\ [Next]_vars => RInv'
  BY NextRType, NextWalks, NextCanvas, NextScreen DEF RInv
<1> QED BY InitRInv, <1>1, PTL DEF Spec

-----------------------------------------------------------------------------
(* Results.                                                                *)

\* On every screen, draw and present_rows stay within their buffers (the renderer
\* never panics on an index), however many ticks pass between two reads of TICKS,
\* and every variable keeps its type.
THEOREM RenderTypes == Spec => []TypeOK
<1>1. RInv => TypeOK
  BY DEF RInv, RType, TypeOK, Working, Idle, Echoing, NF
<1> QED BY RenderInvariant, <1>1, PTL

\* Whatever the mode, the frame rate and the moments at which the display scans
\* the framebuffer, it shows the picture the brand describes for one leader, or
\* for two successive ones above and below one cut: the three bubbles repaint all
\* that the last frame painted, and the band run copies holds all of it.
THEOREM ScreenWhole == Spec => []ScreenShowsWholeFrames
BY RenderInvariant, PTL DEF RInv, Screen

\* The leader on the screen walks by one bubble at a time, also when TICKS wraps,
\* and skips one only when the loop was busy for a whole step of the animation,
\* however long a pass takes and whatever interrupts it: Render implements
\* Animation.
THEOREM LeaderWalksOn == Spec => LeaderWalks
<1>1. Init => Leader!Init
  BY DEF Init, Leader!Init
<1>2. RInv /\ [Next]_vars => [Leader!Appear \/ Leader!Walk \/ Leader!Skip]_shown
  <2> SUFFICES ASSUME RInv, [Next]_vars, shown' # shown
               PROVE  Leader!Appear \/ Leader!Walk \/ Leader!Skip
    OBVIOUS
  <2>1. pc = "present" /\ shown' = lead
    BY InBounds, StepCases DEF ClearScreen, NewCanvas, ReadFrame, DrawBubble, PresentPixel, Quiet,
                               Tick, vars, history
  <2>2. lead \in 0 .. 2 /\ shown \in -1 .. 2
        /\ (shown = -1 \/ Late \/ lead = (shown + 1) % 3)
    BY <2>1 DEF RInv, RType, Walks
  <2>3. shown = -1 \/ shown >= 0
    BY <2>2
  <2> QED BY <2>1, <2>2, <2>3 DEF Leader!Appear, Leader!Walk, Leader!Skip
<1> QED BY RenderInvariant, <1>1, <1>2, PTL DEF Spec, LeaderWalks, Leader!Spec
=============================================================================
