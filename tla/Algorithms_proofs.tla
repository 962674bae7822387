------------------------- MODULE Algorithms_proofs -------------------------
(***************************************************************************)
(* Theorems about the pure algorithms: what MCAlgorithms checks on samples *)
(* of their inputs holds for every input.                                  *)
(***************************************************************************)
EXTENDS MCAlgorithms, FiniteSetTheorems, SequenceTheorems, WellFoundedInduction, TLAPS

-----------------------------------------------------------------------------
(* Numbers.                                                                 *)

\* A set of natural numbers that is not empty has a least element.
LEMMA LeastNat ==
  ASSUME NEW T, T \subseteq Nat, T # {}
  PROVE  \E m \in T : \A k \in T : m <= k
<1> DEFINE Less == OpToRel(<, Nat)
<1>1. IsWellFoundedOn(Less, Nat)
  BY NatLessThanWellFounded
<1> HIDE DEF Less
<1>2. \E m \in T : \A k \in T : <<k, m>> \notin Less
  BY <1>1, WFMin
<1>3. \A i, j \in Nat : i < j => <<i, j>> \in Less
  BY DEF Less, OpToRel
<1>4. PICK m \in T : \A k \in T : <<k, m>> \notin Less
  BY <1>2
<1>5. ASSUME NEW k \in T PROVE m <= k
  <2>1. m \in Nat /\ k \in Nat /\ ~(k < m)
    BY <1>3, <1>4
  <2>2. QED
    BY <2>1
<1>6. QED
  BY <1>5

-----------------------------------------------------------------------------
(* The arithmetic of one pixel.                                             *)

\* The range of a chroma coefficient.
Entry(x) == x \in Int /\ 0 <= x /\ x <= 2200

\* color_coefficients, evaluated: the constant kept for BT.601 is what the rule
\* gives, luma is the same in every matrix and chroma fits 12 bits.
LEMMA CoefficientsKnown ==
  /\ M!Coefficients("bt601", "full") = M!BT601_FULL_COEFFICIENTS
  /\ \A matrix \in M!Matrices :
       /\ \E c2, c3, c4, c5 : /\ Entry(c2) /\ Entry(c3) /\ Entry(c4) /\ Entry(c5)
                              /\ M!Coefficients(matrix, "full") = <<1024, c2, c3, c4, c5, 0>>
       /\ \E c2, c3, c4, c5 : /\ Entry(c2) /\ Entry(c3) /\ Entry(c4) /\ Entry(c5)
                              /\ M!Coefficients(matrix, "limited") = <<1192, c2, c3, c4, c5, 16>>
<1>1. /\ M!Coefficients("bt601", "full") = <<1024, 1436, 352, 731, 1815, 0>>
      /\ M!Coefficients("bt601", "limited") = <<1192, 1634, 401, 832, 2066, 16>>
  BY DEF M!Coefficients, M!Weights, M!Nearest, M!NearestScaled, M!ChromaScale, M!Unknown
<1>2. /\ M!Coefficients("bt709", "full") = <<1024, 1613, 192, 479, 1900, 0>>
      /\ M!Coefficients("bt709", "limited") = <<1192, 1836, 218, 546, 2163, 16>>
  BY DEF M!Coefficients, M!Weights, M!Nearest, M!NearestScaled, M!ChromaScale, M!Unknown
<1>3. /\ M!Coefficients("bt2020", "full") = <<1024, 1510, 169, 585, 1927, 0>>
      /\ M!Coefficients("bt2020", "limited") = <<1192, 1719, 192, 666, 2193, 16>>
  BY DEF M!Coefficients, M!Weights, M!Nearest, M!NearestScaled, M!ChromaScale, M!Unknown
<1>4. /\ M!Coefficients("smpte240m", "full") = <<1024, 1614, 232, 488, 1870, 0>>
      /\ M!Coefficients("smpte240m", "limited") = <<1192, 1837, 264, 556, 2129, 16>>
  BY DEF M!Coefficients, M!Weights, M!Nearest, M!NearestScaled, M!ChromaScale, M!Unknown
<1>5. ASSUME NEW matrix \in M!Matrices
      PROVE  \E c2, c3, c4, c5 : /\ Entry(c2) /\ Entry(c3) /\ Entry(c4) /\ Entry(c5)
                                /\ M!Coefficients(matrix, "full") = <<1024, c2, c3, c4, c5, 0>>
  <2>1. CASE matrix = "bt601"
    <3> WITNESS 1436, 352, 731, 1815
    <3> QED BY <1>1, <2>1 DEF Entry
  <2>2. CASE matrix = "bt709"
    <3> WITNESS 1613, 192, 479, 1900
    <3> QED BY <1>2, <2>2 DEF Entry
  <2>3. CASE matrix = "bt2020"
    <3> WITNESS 1510, 169, 585, 1927
    <3> QED BY <1>3, <2>3 DEF Entry
  <2>4. CASE matrix = "smpte240m"
    <3> WITNESS 1614, 232, 488, 1870
    <3> QED BY <1>4, <2>4 DEF Entry
  <2>5. QED
    BY <2>1, <2>2, <2>3, <2>4 DEF M!Matrices
<1>6. ASSUME NEW matrix \in M!Matrices
      PROVE  \E c2, c3, c4, c5 : /\ Entry(c2) /\ Entry(c3) /\ Entry(c4) /\ Entry(c5)
                                /\ M!Coefficients(matrix, "limited") = <<1192, c2, c3, c4, c5, 16>>
  <2>1. CASE matrix = "bt601"
    <3> WITNESS 1634, 401, 832, 2066
    <3> QED BY <1>1, <2>1 DEF Entry
  <2>2. CASE matrix = "bt709"
    <3> WITNESS 1836, 218, 546, 2163
    <3> QED BY <1>2, <2>2 DEF Entry
  <2>3. CASE matrix = "bt2020"
    <3> WITNESS 1719, 192, 666, 2193
    <3> QED BY <1>3, <2>3 DEF Entry
  <2>4. CASE matrix = "smpte240m"
    <3> WITNESS 1837, 264, 556, 2129
    <3> QED BY <1>4, <2>4 DEF Entry
  <2>5. QED
    BY <2>1, <2>2, <2>3, <2>4 DEF M!Matrices
<1>7. QED
  BY <1>1, <1>5, <1>6 DEF M!BT601_FULL_COEFFICIENTS

\* A word that fits is kept.
LEMMA WordKept ==
  ASSUME NEW x \in Int, -32768 <= x, x <= 32767
  PROVE  M!Word16(x) = x
BY DEF M!Word16

\* A sum of ten fractional bits, rounded, fits a word.
LEMMA RoundedFits ==
  ASSUME NEW x \in Int, -1100000 <= x, x <= 1100000
  PROVE  M!Word16((x + 512) \div 1024) = (x + 512) \div 1024
<1>1. (x + 512) \div 1024 \in Int /\ -32768 <= (x + 512) \div 1024 /\ (x + 512) \div 1024 <= 32767
  OBVIOUS
<1>2. QED
  BY <1>1, WordKept

\* A coefficient times a chroma difference.
LEMMA ProductSmall ==
  ASSUME NEW a \in Int, 0 <= a, a <= 2200, NEW b \in Int, -128 <= b, b <= 127
  PROVE  a * b \in Int /\ -281600 <= a * b /\ a * b <= 281600
OBVIOUS

\* A function on the three channels is a triple.
LEMMA ThreeChannels ==
  ASSUME NEW f, f = [i \in 1..3 |-> f[i]], NEW r, NEW g, NEW b, f[1] = r, f[2] = g, f[3] = b
  PROVE  f = <<r, g, b>>
OBVIOUS

\* The kernels with ten fractional bits: no product leaves its lane and no sum
\* the word it is narrowed to.
LEMMA TenBitsAgree ==
  ASSUME NEW c1 \in Int, c1 \in {1024, 1192}, NEW c6 \in Int, c6 \in {0, 16},
         NEW c2 \in Int, 0 <= c2, c2 <= 2200, NEW c3 \in Int, 0 <= c3, c3 <= 2200,
         NEW c4 \in Int, 0 <= c4, c4 <= 2200, NEW c5 \in Int, 0 <= c5, c5 <= 2200,
         NEW y \in Int, 0 <= y, y <= 255, NEW u \in Int, 0 <= u, u <= 255, NEW v \in Int, 0 <= v, v <= 255
  PROVE  LET c == <<c1, c2, c3, c4, c5, c6>>
         IN  /\ M!Neon10(c, y, u, v) = M!Scalar10(c, y, u, v)
             /\ M!NeonPrepared10(c, y, u, v) = M!Scalar10(c, y, u, v)
             /\ M!Avx(c, 1024, 512, 512, y, u, v) = M!Scalar10(c, y, u, v)
<1> DEFINE c == <<c1, c2, c3, c4, c5, c6>>
           luma == (y - c6) * c1
           r == luma + c2 * (v - 128)
           g == luma - c3 * (u - 128) - c4 * (v - 128)
           b == luma + c5 * (u - 128)
           rgb == <<M!Clamp((r + 512) \div 1024), M!Clamp((g + 512) \div 1024), M!Clamp((b + 512) \div 1024)>>
<1>1. /\ M!Word16(c1) = c1 /\ M!Word16(c2) = c2 /\ M!Word16(c3) = c3
      /\ M!Word16(c4) = c4 /\ M!Word16(c5) = c5 /\ M!Word16(c6) = c6 /\ M!Word16(y - c6) = y - c6
  BY WordKept
<1>2. /\ M!Word16((r + 512) \div 1024) = (r + 512) \div 1024
      /\ M!Word16((g + 512) \div 1024) = (g + 512) \div 1024
      /\ M!Word16((b + 512) \div 1024) = (b + 512) \div 1024
  <2>1. /\ r \in Int /\ -1100000 <= r /\ r <= 1100000
        /\ g \in Int /\ -1100000 <= g /\ g <= 1100000
        /\ b \in Int /\ -1100000 <= b /\ b <= 1100000
    BY ProductSmall
  <2> HIDE DEF r, g, b
  <2>2. QED
    BY <2>1, RoundedFits
<1>3. M!Scalar10(c, y, u, v) = rgb
  BY DEF M!Scalar10
<1>4. M!Neon10(c, y, u, v) = rgb
  <2>1. M!Neon10(c, y, u, v) = [i \in 1..3 |-> M!Neon10(c, y, u, v)[i]]
    BY DEF M!Neon10
  <2>2. M!Neon10(c, y, u, v)[1] = rgb[1]
    BY <1>1, <1>2 DEF M!Neon10
  <2>3. M!Neon10(c, y, u, v)[2] = rgb[2]
    BY <1>1, <1>2 DEF M!Neon10
  <2>4. M!Neon10(c, y, u, v)[3] = rgb[3]
    BY <1>1, <1>2 DEF M!Neon10
  <2> HIDE DEF c
  <2>5. QED
    BY <2>1, <2>2, <2>3, <2>4, ThreeChannels
<1>5. M!NeonPrepared10(c, y, u, v) = rgb
  <2>1. /\ M!NeonPrepared10(c, y, u, v) = [i \in 1..3 |-> M!NeonPrepared10(c, y, u, v)[i]]
    BY DEF M!NeonPrepared10
  <2>2. M!NeonPrepared10(c, y, u, v)[1] = rgb[1]
    BY <1>1, <1>2 DEF M!NeonPrepared10
  <2>3. M!NeonPrepared10(c, y, u, v)[2] = rgb[2]
    BY <1>1, <1>2 DEF M!NeonPrepared10
  <2>4. M!NeonPrepared10(c, y, u, v)[3] = rgb[3]
    BY <1>1, <1>2 DEF M!NeonPrepared10
  <2> HIDE DEF c
  <2>5. QED
    BY <2>1, <2>2, <2>3, <2>4, ThreeChannels
<1>6. M!Avx(c, 1024, 512, 512, y, u, v) = rgb
  <2>1. /\ M!Avx(c, 1024, 512, 512, y, u, v) = [i \in 1..3 |-> M!Avx(c, 1024, 512, 512, y, u, v)[i]]
        /\ M!Avx(c, 1024, 512, 512, y, u, v)[1] = rgb[1]
        /\ M!Avx(c, 1024, 512, 512, y, u, v)[2] = rgb[2]
        /\ M!Avx(c, 1024, 512, 512, y, u, v)[3] = rgb[3]
    BY DEF M!Avx
  <2> HIDE DEF c
  <2>2. QED
    BY <2>1, ThreeChannels
<1>7. QED
  BY <1>3, <1>4, <1>5, <1>6

\* The conversions with eight fractional bits, and the one for machines without
\* vector units.
LEMMA EightBitsAgree ==
  ASSUME NEW y \in Int, 0 <= y, y <= 255, NEW u \in Int, 0 <= u, u <= 255, NEW v \in Int, 0 <= v, v <= 255
  PROVE  /\ M!Portable10(y, u, v) = M!Scalar10(M!BT601_FULL_COEFFICIENTS, y, u, v)
         /\ M!Neon8(y, u, v) = M!Scalar8(y, u, v)
         /\ M!AvxLegacy(y, u, v) = M!Scalar8(y, u, v)
<1>1. M!Portable10(y, u, v) = M!Scalar10(M!BT601_FULL_COEFFICIENTS, y, u, v)
  BY DEF M!Portable10, M!Scalar10, M!BT601_FULL_COEFFICIENTS
<1>2. M!Neon8(y, u, v) = M!Scalar8(y, u, v)
  BY DEF M!Neon8, M!Scalar8, M!Clamp, M!Word16
<1>3. M!AvxLegacy(y, u, v) = M!Scalar8(y, u, v)
  <2>1. M!AvxLegacy(y, u, v) = [i \in 1..3 |-> M!AvxLegacy(y, u, v)[i]]
    BY DEF M!AvxLegacy, M!Avx
  <2>2. /\ M!AvxLegacy(y, u, v)[1] = M!Clamp((y * 256 + 359 * (v - 128)) \div 256)
        /\ M!AvxLegacy(y, u, v)[2] = M!Clamp((y * 256 - (88 * (u - 128) + 183 * (v - 128)) + 255) \div 256)
        /\ M!AvxLegacy(y, u, v)[3] = M!Clamp((y * 256 + 454 * (u - 128)) \div 256)
    BY DEF M!AvxLegacy, M!Avx
  <2>3. /\ (y * 256 + 359 * (v - 128)) \div 256 = y + (359 * (v - 128)) \div 256
        /\ (y * 256 - (88 * (u - 128) + 183 * (v - 128)) + 255) \div 256
             = y - (88 * (u - 128) + 183 * (v - 128)) \div 256
        /\ (y * 256 + 454 * (u - 128)) \div 256 = y + (454 * (u - 128)) \div 256
    OBVIOUS
  <2>4. QED
    BY <2>1, <2>2, <2>3, ThreeChannels DEF M!Scalar8
<1>4. QED
  BY <1>1, <1>2, <1>3

\* Grey stays grey.
LEMMA GreyStays ==
  ASSUME NEW y \in Int, 0 <= y, y <= 255
  PROVE  M!GreyAxis(y)
<1>1. ASSUME NEW matrix \in M!Matrices
      PROVE  M!Scalar10(M!Coefficients(matrix, "full"), y, 128, 128) = <<y, y, y>>
  <2>1. PICK c2, c3, c4, c5 : /\ Entry(c2) /\ Entry(c3) /\ Entry(c4) /\ Entry(c5)
                             /\ M!Coefficients(matrix, "full") = <<1024, c2, c3, c4, c5, 0>>
    BY CoefficientsKnown
  <2>2. QED
    BY <2>1 DEF Entry, M!Scalar10, M!Clamp
<1>2. ASSUME NEW matrix \in M!Matrices
      PROVE  LET limited == M!Scalar10(M!Coefficients(matrix, "limited"), y, 128, 128)
                 exact == M!Clamp(M!Nearest(255 * (y - 16), 219))
             IN  /\ limited[1] = limited[2] /\ limited[2] = limited[3]
                 /\ limited[1] = exact \/ (limited[1] = exact - 1 /\ 16 < y /\ y < 235)
  <2> DEFINE limited == M!Clamp(((y - 16) * 1192 + 512) \div 1024)
             exact == M!Clamp((255 * (y - 16) + 109) \div 219)
  <2>1. PICK c2, c3, c4, c5 : /\ Entry(c2) /\ Entry(c3) /\ Entry(c4) /\ Entry(c5)
                             /\ M!Coefficients(matrix, "limited") = <<1192, c2, c3, c4, c5, 16>>
    BY CoefficientsKnown
  <2>2. M!Scalar10(M!Coefficients(matrix, "limited"), y, 128, 128) = <<limited, limited, limited>>
    BY <2>1 DEF Entry, M!Scalar10
  <2>3. limited = exact \/ (limited = exact - 1 /\ 16 < y /\ y < 235)
    BY DEF M!Clamp
  <2>4. 219 \div 2 = 109
    OBVIOUS
  <2>5. QED
    BY <2>2, <2>3, <2>4 DEF M!Nearest
<1>3. QED
  BY <1>1, <1>2, CoefficientsKnown DEF M!GreyAxis

\* A byte.
Byte(x) == x \in Int /\ 0 <= x /\ x <= 255

\* Every kernel of every instruction set gives every pixel the same colour.
LEMMA EveryColour ==
  ASSUME NEW y, NEW u, NEW v, Byte(y), Byte(u), Byte(v)
  PROVE  M!MachinesAgree(y, u, v) /\ M!GreyAxis(y)
<1>1. ASSUME NEW matrix \in M!Matrices, NEW range \in {"full", "limited"}
      PROVE  LET c == M!Coefficients(matrix, range)
             IN  /\ M!Neon10(c, y, u, v) = M!Scalar10(c, y, u, v)
                 /\ M!NeonPrepared10(c, y, u, v) = M!Scalar10(c, y, u, v)
                 /\ M!Avx(c, 1024, 512, 512, y, u, v) = M!Scalar10(c, y, u, v)
  <2>1. CASE range = "full"
    <3>1. PICK c2, c3, c4, c5 : /\ Entry(c2) /\ Entry(c3) /\ Entry(c4) /\ Entry(c5)
                               /\ M!Coefficients(matrix, range) = <<1024, c2, c3, c4, c5, 0>>
      BY <2>1, CoefficientsKnown
    <3> DEFINE c == <<1024, c2, c3, c4, c5, 0>>
    <3>2. /\ c2 \in Int /\ 0 <= c2 /\ c2 <= 2200 /\ c3 \in Int /\ 0 <= c3 /\ c3 <= 2200
          /\ c4 \in Int /\ 0 <= c4 /\ c4 <= 2200 /\ c5 \in Int /\ 0 <= c5 /\ c5 <= 2200
          /\ y \in Int /\ 0 <= y /\ y <= 255 /\ u \in Int /\ 0 <= u /\ u <= 255
          /\ v \in Int /\ 0 <= v /\ v <= 255
      BY <3>1 DEF Entry, Byte
    <3>3. /\ M!Neon10(c, y, u, v) = M!Scalar10(c, y, u, v)
          /\ M!NeonPrepared10(c, y, u, v) = M!Scalar10(c, y, u, v)
          /\ M!Avx(c, 1024, 512, 512, y, u, v) = M!Scalar10(c, y, u, v)
      BY <3>2, TenBitsAgree
    <3>4. QED
      BY <3>1, <3>3
  <2>2. CASE range = "limited"
    <3>1. PICK c2, c3, c4, c5 : /\ Entry(c2) /\ Entry(c3) /\ Entry(c4) /\ Entry(c5)
                               /\ M!Coefficients(matrix, range) = <<1192, c2, c3, c4, c5, 16>>
      BY <2>2, CoefficientsKnown
    <3> DEFINE c == <<1192, c2, c3, c4, c5, 16>>
    <3>2. /\ c2 \in Int /\ 0 <= c2 /\ c2 <= 2200 /\ c3 \in Int /\ 0 <= c3 /\ c3 <= 2200
          /\ c4 \in Int /\ 0 <= c4 /\ c4 <= 2200 /\ c5 \in Int /\ 0 <= c5 /\ c5 <= 2200
          /\ y \in Int /\ 0 <= y /\ y <= 255 /\ u \in Int /\ 0 <= u /\ u <= 255
          /\ v \in Int /\ 0 <= v /\ v <= 255
      BY <3>1 DEF Entry, Byte
    <3>3. /\ M!Neon10(c, y, u, v) = M!Scalar10(c, y, u, v)
          /\ M!NeonPrepared10(c, y, u, v) = M!Scalar10(c, y, u, v)
          /\ M!Avx(c, 1024, 512, 512, y, u, v) = M!Scalar10(c, y, u, v)
      BY <3>2, TenBitsAgree
    <3>4. QED
      BY <3>1, <3>3
  <2>3. QED
    BY <2>1, <2>2
<1>2. QED
  BY <1>1, EightBitsAgree, GreyStays DEF Byte, M!MachinesAgree

-----------------------------------------------------------------------------
(* Native frames.                                                           *)

\* Factors that are not smaller make a product that is not smaller.
LEMMA ProductGrows ==
  ASSUME NEW a \in Nat, NEW b \in Nat, NEW c \in Nat, NEW d \in Nat, a <= b, c <= d
  PROVE  a * c <= b * d
<1>1. a * c <= b * c /\ b * c <= b * d
  OBVIOUS
<1>2. a * c \in Nat /\ b * c \in Nat /\ b * d \in Nat
  OBVIOUS
<1>3. QED
  BY <1>1, <1>2

\* The scaling of the decoder: of the eighths that are enough the fewest make
\* the smallest image.
LEMMA JpegKeeps ==
  ASSUME NEW w \in Nat, NEW h \in Nat, NEW tw \in Nat, NEW th \in Nat
  PROVE  F!JpegKeepsDetail(w, h, tw, th)
<1> DEFINE Eighths == {1, 2, 3, 4, 8}
           enough == {n \in Eighths : F!JpegScaled(w, n) >= tw /\ F!JpegScaled(h, n) >= th}
           Size(n) == F!JpegScaled(w, n) * F!JpegScaled(h, n)
           chosen == CHOOSE n \in enough : \A m \in enough : Size(n) <= Size(m)
           scaling == F!JpegScaling(w, h, tw, th, FALSE)
<1>1. F!JpegScaled(w, 8) = w /\ F!JpegScaled(h, 8) = h
  BY DEF F!JpegScaled
<1>0. SUFFICES /\ tw <= w => F!JpegScaled(w, scaling) >= tw
               /\ th <= h => F!JpegScaled(h, scaling) >= th
               /\ scaling <= 8
  BY DEF F!JpegKeepsDetail
<1>2. CASE tw >= w \/ th >= h
  <2>1. scaling = 8
    BY <1>2 DEF F!JpegScaling
  <2>2. QED
    <3> HIDE DEF scaling
    <3> QED BY <1>1, <2>1
<1>3. CASE tw < w /\ th < h
  <2>1. scaling = chosen
    BY <1>3 DEF F!JpegScaling
  <2>2. 8 \in enough
    BY <1>1, <1>3
  <2>3. \E n \in enough : \A m \in enough : n <= m
    BY <2>2
  <2>4. PICK n \in enough : \A m \in enough : n <= m
    BY <2>3
  <2>5. ASSUME NEW m \in enough PROVE Size(n) <= Size(m)
    <3>1. n \in Nat /\ m \in Nat /\ n <= m
      BY <2>4
    <3>2. w * n <= w * m /\ h * n <= h * m /\ w * n \in Nat /\ w * m \in Nat /\ h * n \in Nat /\ h * m \in Nat
      BY <3>1
    <3>3. /\ F!JpegScaled(w, n) <= F!JpegScaled(w, m) /\ F!JpegScaled(h, n) <= F!JpegScaled(h, m)
          /\ F!JpegScaled(w, n) \in Nat /\ F!JpegScaled(w, m) \in Nat
          /\ F!JpegScaled(h, n) \in Nat /\ F!JpegScaled(h, m) \in Nat
      BY <3>2 DEF F!JpegScaled
    <3>4. QED
      BY <3>3, ProductGrows
  <2> HIDE DEF enough, Size
  <2>6. chosen \in enough
    BY <2>5
  <2>7. QED
    <3> HIDE DEF scaling, chosen
    <3>1. chosen <= 8 /\ F!JpegScaled(w, chosen) >= tw /\ F!JpegScaled(h, chosen) >= th
      BY <2>6 DEF enough
    <3>2. QED
      BY <2>1, <3>1
<1> HIDE DEF scaling
<1>4. QED
  BY <1>2, <1>3

\* What is counted in bytes and pixels of a view of chroma samples.
ChromaView(s) ==
    s.start \in Nat /\ s.length \in Nat /\ s.row_stride \in Nat /\ s.pixel_stride \in Nat

\* Two views become one plane only where they are its samples.
LEMMA InterleavedFound ==
  ASSUME NEW w \in Nat, NEW h \in Nat, NEW u, NEW v, ChromaView(u), ChromaView(v)
  PROVE  F!InterleavedExactly(w, h, u, v)
<1> DEFINE both == F!InterleavedChroma(w, h, u, v)
           base == IF u.start + 1 = v.start THEN u ELSE v
           other == IF u.start + 1 = v.start THEN v ELSE u
           cw == (w + 1) \div 2
           ch == (h + 1) \div 2
           s == base.row_stride
<1> SUFFICES ASSUME both # F!Error, NEW cx \in 0..(cw - 1), NEW cy \in 0..(ch - 1)
             PROVE  LET pair == both.start + cy * both.row_stride + 2 * cx
                        at(view) == view.start + cy * view.row_stride + cx * view.pixel_stride
                    IN  /\ <<at(u), at(v)>> = IF both.format = "Nv12" THEN <<pair, pair + 1>> ELSE <<pair + 1, pair>>
                        /\ pair + 1 < both.start + both.length
  BY DEF F!InterleavedExactly, F!CeilHalf
<1>1. /\ u.pixel_stride = 2 /\ v.pixel_stride = 2 /\ u.row_stride = v.row_stride
      /\ base.start + 1 = other.start
      /\ other.start + other.length <= base.start + base.length
      /\ s >= 2 * cw /\ base.length >= (ch - 1) * s + 2 * cw
      /\ both = [start |-> base.start, length |-> base.length, row_stride |-> s,
                 format |-> IF base = u THEN "Nv12" ELSE "Nv21"]
  BY DEF F!InterleavedChroma, F!CeilHalf, F!Error
<1>2. cw \in Nat /\ ch \in Nat /\ s \in Nat /\ cx \in Nat /\ cy \in Nat /\ cx <= cw - 1 /\ cy <= ch - 1
  BY DEF ChromaView
<1>3. cy * s <= (ch - 1) * s /\ cy * s \in Nat /\ (ch - 1) * s \in Nat
  <2>1. ch - 1 \in Nat
    BY <1>2
  <2> HIDE DEF ch, s, cw
  <2>2. QED
    BY <1>2, <2>1, ProductGrows
<1>4. both.start + cy * both.row_stride + 2 * cx + 1 < both.start + both.length
  <2>1. both.start = base.start /\ both.length = base.length /\ both.row_stride = s
    BY <1>1
  <2>2. base.start \in Nat /\ base.length \in Nat
    BY DEF ChromaView
  <2> HIDE DEF both, base, cw, ch, s
  <2>3. QED
    BY <1>1, <1>2, <1>3, <2>1, <2>2
<1>5. /\ u.start + cy * u.row_stride + cx * u.pixel_stride
           = base.start + cy * s + 2 * cx + (IF base = u THEN 0 ELSE 1)
      /\ v.start + cy * v.row_stride + cx * v.pixel_stride
           = base.start + cy * s + 2 * cx + (IF base = u THEN 1 ELSE 0)
  BY <1>1, <1>2, <1>3 DEF ChromaView
<1>6. QED
  <2>1. CASE base = u
    BY <1>1, <1>4, <1>5, <2>1
  <2>2. CASE base # u
    BY <1>1, <1>4, <1>5, <2>2
  <2>3. QED
    BY <2>1, <2>2

\* A row begins no later than the last.
LEMMA RowBegins ==
  ASSUME NEW s \in Nat, NEW y \in Nat, NEW h \in Nat, y <= h - 1
  PROVE  y * s \in Nat /\ (h - 1) * s \in Nat /\ y * s <= (h - 1) * s
<1>1. h - 1 \in Nat
  OBVIOUS
<1>2. QED
  BY <1>1, ProductGrows

\* Each byte of a pixel is as far into the row as the farthest at most.
LEMMA OffsetOf ==
  ASSUME NEW row, NEW m \in Int, NEW a \in Nat, a <= m, NEW b \in Nat, b <= m, NEW d \in Nat, d <= m,
         NEW f, f = <<row + a, row + b, row + d>>, NEW c \in 1..3
  PROVE  \E k \in Nat : k <= m /\ f[c] = row + k
<1>1. CASE c = 1
  BY <1>1
<1>2. CASE c = 2
  BY <1>2
<1>3. CASE c = 3
  BY <1>3
<1>4. QED
  BY <1>1, <1>2, <1>3

\* A plane a V4L2 buffer was mapped to.
V4l2Plane == [at : Nat, n : Nat, row_stride : Nat]

Mapped(planes) == planes \in Seq(V4l2Plane)

\* The pixels of an image.
LEMMA ImagePixel ==
  ASSUME NEW w \in Nat, NEW h \in Nat, NEW p \in (0..(w - 1)) \X (0..(h - 1))
  PROVE  /\ p[1] \in Nat /\ p[1] <= w - 1
         /\ p[2] \in Nat /\ p[2] <= h - 1
OBVIOUS

\* Packed formats and one byte a pixel.
LEMMA PackedInside ==
  ASSUME NEW planes, Mapped(planes), NEW w \in Nat, NEW h \in Nat,
         NEW format \in {"YUYV", "UYVY", "RGB", "Gray"}
  PROVE  F!V4l2Exactly(format, planes, w, h)
<1> DEFINE image == F!V4l2Convert(format, planes, w, h)
           P == planes[1]
<1> SUFFICES ASSUME image # F!Error, NEW p \in DOMAIN image, NEW c \in 1..3
             PROVE  \E i \in DOMAIN planes :
                      /\ image[p][c] - planes[i].at \in 0..(planes[i].n - 1)
                      /\ (c = 1 /\ format # "UYVY") => image[p][1] = planes[1].at + p[2] * planes[1].row_stride
                              + p[1] * (CASE format = "RGB" -> 3 [] format = "YUYV" -> 2 [] OTHER -> 1)
  BY DEF F!V4l2Exactly
<1>1. /\ w > 0 /\ h > 0 /\ Len(planes) = 1
      /\ 1 \in DOMAIN planes /\ P \in V4l2Plane
  <2>1. ASSUME w = 0 \/ h = 0 \/ Len(planes) # 1 PROVE image = F!Error
    <3>1. (w = 0 \/ h = 0) \/ ~(Len(planes) = 1 \/ (format = "NV12" /\ Len(planes) = 2))
      BY <2>1
    <3>2. QED
      BY <3>1, Zenon DEF F!V4l2Convert
  <2> HIDE DEF image
  <2>2. w > 0 /\ h > 0 /\ Len(planes) = 1
    BY <2>1
  <2>3. DOMAIN planes = 1..Len(planes) /\ planes \in [1..Len(planes) -> V4l2Plane]
    BY LenProperties DEF Mapped
  <2>4. QED
    BY <2>2, <2>3
<1>2. P.at \in Nat /\ P.n \in Nat /\ P.row_stride \in Nat
  BY <1>1 DEF V4l2Plane
<1> DEFINE x == p[1]
           y == p[2]
           r == y * P.row_stride
           l == (h - 1) * P.row_stride
           row == P.at + r
           bytes == CASE format = "RGB" -> 3 * w [] format = "Gray" -> w [] OTHER -> 2 * w
<1>3. /\ P.n >= l + bytes
      /\ p \in (0..(w - 1)) \X (0..(h - 1))
      /\ format = "RGB" => image[p] = <<row + 3 * x, row + 3 * x + 1, row + 3 * x + 2>>
      /\ format = "Gray" => image[p] = <<row + x, row + x, row + x>>
      /\ format = "YUYV" => image[p] = <<row + 2 * x, row + 4 * (x \div 2) + 1, row + 4 * (x \div 2) + 3>>
      /\ format = "UYVY" => image[p] = <<row + 2 * x + 1, row + 4 * (x \div 2), row + 4 * (x \div 2) + 2>>
      /\ format \in {"YUYV", "UYVY"} => w % 2 = 0
  <2>1. CASE format = "RGB"
    BY <1>1, <2>1 DEF F!V4l2Convert, F!CheckRows, F!ChromaHolds, F!Image, F!RgbTriple
  <2>2. CASE format = "Gray"
    BY <1>1, <2>2 DEF F!V4l2Convert, F!CheckRows, F!ChromaHolds, F!Image, F!RgbTriple
  <2>3. CASE format = "YUYV"
    BY <1>1, <2>3 DEF F!V4l2Convert, F!CheckRows, F!ChromaHolds, F!Image, F!PackedImage, F!PackedHolds,
                      F!PackedTriple
  <2>4. CASE format = "UYVY"
    BY <1>1, <2>4 DEF F!V4l2Convert, F!CheckRows, F!ChromaHolds, F!Image, F!PackedImage, F!PackedHolds,
                      F!PackedTriple
  <2>5. QED
    BY <2>1, <2>2, <2>3, <2>4
<1>4. x \in Nat /\ x <= w - 1 /\ y \in Nat /\ y <= h - 1
  BY <1>3, ImagePixel
<1>5. r \in Nat /\ l \in Nat /\ r <= l
  BY <1>2, <1>4, RowBegins
<1>6. row \in Nat /\ row - P.at <= l
  BY <1>2, <1>5
<1> HIDE DEF image, P, x, y, r, l, row
<1>7. \E k \in Nat : k <= bytes - 1 /\ image[p][c] = row + k
  <2>1. CASE format = "RGB"
    <3>1. image[p] = <<row + 3 * x, row + (3 * x + 1), row + (3 * x + 2)>>
      BY <1>3, <1>4, <1>6, <2>1
    <3>2. 3 * x \in Nat /\ 3 * x + 1 \in Nat /\ 3 * x + 2 \in Nat /\ 3 * x + 2 <= 3 * w - 1 /\ 3 * w \in Nat
      BY <1>4
    <3>3. \E k \in Nat : k <= 3 * w - 1 /\ image[p][c] = row + k
      BY <3>1, <3>2, OffsetOf
    <3>4. QED
      BY <2>1, <3>3
  <2>2. CASE format = "Gray"
    <3>1. image[p] = <<row + x, row + x, row + x>>
      BY <1>3, <2>2
    <3>2. \E k \in Nat : k <= w - 1 /\ image[p][c] = row + k
      BY <1>4, <3>1, OffsetOf
    <3>3. QED
      BY <2>2, <3>2
  <2>3. CASE format = "YUYV"
    <3>1. /\ image[p] = <<row + 2 * x, row + (4 * (x \div 2) + 1), row + (4 * (x \div 2) + 3)>>
          /\ w % 2 = 0
      <4>1. /\ image[p] = <<row + 2 * x, row + 4 * (x \div 2) + 1, row + 4 * (x \div 2) + 3>>
            /\ w % 2 = 0
        BY <1>3, <2>3
      <4>2. /\ row + 4 * (x \div 2) + 1 = row + (4 * (x \div 2) + 1)
            /\ row + 4 * (x \div 2) + 3 = row + (4 * (x \div 2) + 3)
        BY <1>4, <1>6
      <4>3. QED
        BY <4>1, <4>2
    <3>2. /\ 2 * x \in Nat /\ 4 * (x \div 2) + 1 \in Nat /\ 4 * (x \div 2) + 3 \in Nat
          /\ 2 * w - 1 \in Int
          /\ 2 * x <= 2 * w - 1 /\ 4 * (x \div 2) + 1 <= 2 * w - 1 /\ 4 * (x \div 2) + 3 <= 2 * w - 1
      BY <1>4, <3>1
    <3>3. \E k \in Nat : k <= 2 * w - 1 /\ image[p][c] = row + k
      BY <3>1, <3>2, OffsetOf
    <3>4. QED
      BY <2>3, <3>3
  <2>4. CASE format = "UYVY"
    <3>1. /\ image[p] = <<row + (2 * x + 1), row + 4 * (x \div 2), row + (4 * (x \div 2) + 2)>>
          /\ w % 2 = 0
      <4>1. /\ image[p] = <<row + 2 * x + 1, row + 4 * (x \div 2), row + 4 * (x \div 2) + 2>>
            /\ w % 2 = 0
        BY <1>3, <2>4
      <4>2. /\ row + 2 * x + 1 = row + (2 * x + 1)
            /\ row + 4 * (x \div 2) + 2 = row + (4 * (x \div 2) + 2)
        BY <1>4, <1>6
      <4>3. QED
        BY <4>1, <4>2
    <3>2. /\ 2 * x + 1 \in Nat /\ 4 * (x \div 2) \in Nat /\ 4 * (x \div 2) + 2 \in Nat
          /\ 2 * w - 1 \in Int
          /\ 2 * x + 1 <= 2 * w - 1 /\ 4 * (x \div 2) <= 2 * w - 1 /\ 4 * (x \div 2) + 2 <= 2 * w - 1
      BY <1>4, <3>1
    <3>3. \E k \in Nat : k <= 2 * w - 1 /\ image[p][c] = row + k
      BY <3>1, <3>2, OffsetOf
    <3>4. QED
      BY <2>4, <3>3
  <2>5. QED
    BY <2>1, <2>2, <2>3, <2>4
<1>8. image[p][c] - P.at \in 0..(P.n - 1)
  <2>1. bytes \in Nat /\ P.n >= l + bytes
    BY <1>3
  <2>2. PICK k \in Nat : k <= bytes - 1 /\ image[p][c] = row + k
    BY <1>7
  <2>3. row >= P.at
    BY <1>5, <1>2 DEF row
  <2> HIDE DEF bytes
  <2>4. QED
    BY <1>2, <1>5, <1>6, <2>1, <2>2, <2>3
<1>9. (c = 1 /\ format # "UYVY") =>
        image[p][1] = P.at + y * P.row_stride + x * (CASE format = "RGB" -> 3 [] format = "YUYV" -> 2 [] OTHER -> 1)
  BY <1>2, <1>3, <1>4 DEF row, r
<1>10. QED
  BY <1>1, <1>8, <1>9 DEF P, x, y

\* NV12: the chroma plane is the second, or the part of the first after its rows.
LEMMA Nv12Inside ==
  ASSUME NEW planes, Mapped(planes), NEW w \in Nat, NEW h \in Nat
  PROVE  F!V4l2Exactly("NV12", planes, w, h)
<1> DEFINE image == F!V4l2Convert("NV12", planes, w, h)
           P == planes[1]
           second == F!SecondPlane(planes, w, h)
           last == IF Len(planes) = 2 THEN 2 ELSE 1
           skipped == IF Len(planes) = 2 THEN 0 ELSE h * P.row_stride
<1> SUFFICES ASSUME image # F!Error, NEW p \in DOMAIN image, NEW c \in 1..3
             PROVE  \E i \in DOMAIN planes :
                      /\ image[p][c] - planes[i].at \in 0..(planes[i].n - 1)
                      /\ c = 1 => image[p][1] = planes[1].at + p[2] * planes[1].row_stride + p[1]
                      /\ (Len(planes) = 1 /\ c > 1) => image[p][c] - planes[1].at >= h * planes[1].row_stride
  <2>1. \A a : a * (CASE "NV12" = "RGB" -> 3 [] "NV12" = "YUYV" -> 2 [] OTHER -> 1) = a * 1
    OBVIOUS
  <2>2. ASSUME NEW p \in DOMAIN image, image # F!Error PROVE p[1] * 1 = p[1]
    <3>1. p \in (0..(w - 1)) \X (0..(h - 1))
      BY <2>2 DEF F!V4l2Convert, F!SemiPlanarImage, F!Image
    <3>2. QED
      BY <3>1
  <2>3. QED
    BY <2>1, <2>2 DEF F!V4l2Exactly
<1>1. /\ w > 0 /\ h > 0 /\ Len(planes) \in {1, 2}
      /\ 1 \in DOMAIN planes /\ last \in DOMAIN planes
      /\ P \in V4l2Plane /\ planes[last] \in V4l2Plane
  <2>1. ASSUME w = 0 \/ h = 0 \/ (Len(planes) # 1 /\ Len(planes) # 2) PROVE image = F!Error
    <3>1. (w = 0 \/ h = 0) \/ ~(Len(planes) = 1 \/ ("NV12" = "NV12" /\ Len(planes) = 2))
      BY <2>1
    <3>2. QED
      BY <3>1, Zenon DEF F!V4l2Convert
  <2> HIDE DEF image
  <2>2. w > 0 /\ h > 0 /\ Len(planes) \in {1, 2}
    BY <2>1
  <2>3. DOMAIN planes = 1..Len(planes) /\ planes \in [1..Len(planes) -> V4l2Plane]
    BY LenProperties DEF Mapped
  <2>4. QED
    BY <2>2, <2>3
<1>2. /\ P \in V4l2Plane /\ planes[last] \in V4l2Plane
      /\ P.at \in Nat /\ P.n \in Nat /\ P.row_stride \in Nat
      /\ planes[last].at \in Nat /\ planes[last].n \in Nat
  <2> HIDE DEF P, last
  <2>1. QED
    BY <1>1 DEF V4l2Plane
<1>3. skipped \in Nat
  BY <1>2
<1>4. /\ second # F!Error
      /\ F!ViewHolds(F!Unstrided(P), w, h) /\ F!ChromaHolds(second, 2 * F!CeilHalf(w), F!CeilHalf(h))
      /\ image = F!Image(w, h, LAMBDA i, j : F!SemiTriple(P, second, FALSE, i, j, i \div 2, j \div 2))
  BY <1>1 DEF F!V4l2Convert, F!SemiPlanarImage
<1>5. /\ second.at = planes[last].at + skipped
      /\ second.n = planes[last].n - skipped /\ second.n \in Nat
      /\ second.row_stride \in Nat
  <2>1. CASE Len(planes) = 2
    BY <1>2, <2>1 DEF F!SecondPlane, V4l2Plane
  <2>2. CASE Len(planes) = 1
    <3> DEFINE luma == P.row_stride * h
    <3>1. luma = skipped /\ luma \in Nat /\ last = 1
      BY <1>2, <2>2
    <3>2. /\ ~(luma > P.n)
          /\ second = [P EXCEPT !.at = @ + luma, !.n = @ - luma]
      <4>1. second = IF luma > P.n THEN F!Error ELSE [P EXCEPT !.at = @ + luma, !.n = @ - luma]
        BY <2>2 DEF F!SecondPlane
      <4> HIDE DEF luma, second
      <4>2. QED
        BY <1>4, <4>1
    <3> HIDE DEF skipped, second, luma, P
    <3>3. /\ second.at = P.at + luma /\ second.n = P.n - luma /\ second.row_stride = P.row_stride
      BY <1>2, <3>2 DEF V4l2Plane
    <3>4. P = planes[last]
      BY <3>1 DEF P
    <3>5. QED
      BY <1>2, <3>1, <3>2, <3>3, <3>4
  <2>3. QED
    BY <1>1, <2>1, <2>2
<1> DEFINE x == p[1]
           y == p[2]
           s == second.row_stride
           cw == (w + 1) \div 2
           ch == (h + 1) \div 2
           r == y * P.row_stride
           l == (h - 1) * P.row_stride
           cr == (y \div 2) * s
           cl == (ch - 1) * s
<1>6. /\ p \in (0..(w - 1)) \X (0..(h - 1))
      /\ image[p] = <<P.at + r + x, second.at + cr + 2 * (x \div 2), second.at + cr + 2 * (x \div 2) + 1>>
  <2> HIDE DEF second, P
  <2>1. QED
    BY <1>4 DEF F!Image, F!SemiTriple
<1>7. x \in Nat /\ x <= w - 1 /\ y \in Nat /\ y <= h - 1
  BY <1>6, ImagePixel
<1>8. P.n >= l + w
  <2>1. P.n >= l + (w - 1) * 1 + 1
    <3> HIDE DEF P
    <3>1. QED
      BY <1>4 DEF F!ViewHolds, F!Unstrided
  <2>2. (w - 1) * 1 = w - 1 /\ l \in Int
    BY <1>2
  <2> HIDE DEF l
  <2>3. QED
    BY <1>2, <2>1, <2>2
<1>9. second.n >= cl + 2 * cw
  <2> HIDE DEF second
  <2>1. QED
    BY <1>4 DEF F!ChromaHolds, F!CeilHalf
<1>10. /\ x \div 2 \in Nat /\ x \div 2 <= cw - 1
       /\ y \div 2 \in Nat /\ y \div 2 <= ch - 1 /\ ch \in Nat /\ cw \in Nat
  BY <1>7
<1> HIDE DEF image, P, second, skipped, last, x, y, s, cw, ch
<1>11. r \in Nat /\ l \in Nat /\ r <= l
  BY <1>2, <1>7, RowBegins
<1>12. cr \in Nat /\ cl \in Nat /\ cr <= cl
  BY <1>5, <1>10, RowBegins DEF s
<1> HIDE DEF r, l, cr, cl
<1>13. CASE c = 1
  <2>1. image[p][1] - P.at \in 0..(P.n - 1) /\ image[p][1] = P.at + r + x
    BY <1>2, <1>6, <1>7, <1>8, <1>11
  <2>2. QED
    BY <1>1, <1>13, <2>1 DEF P, x, y, r
<1>14. CASE c \in {2, 3}
  <2> DEFINE k == 2 * (x \div 2)
  <2>1. k \in Nat /\ k + 1 <= 2 * cw - 1
    BY <1>10
  <2>2. image[p][c] = second.at + cr + k \/ image[p][c] = second.at + cr + k + 1
    BY <1>6, <1>14
  <2> HIDE DEF k
  <2>3. second.at \in Nat
    BY <1>2, <1>3, <1>5
  <2>4. image[p][c] - second.at >= 0 /\ image[p][c] - second.at <= second.n - 1 /\ image[p][c] \in Int
    BY <1>5, <1>9, <1>10, <1>12, <2>1, <2>2, <2>3
  <2>5. image[p][c] - planes[last].at \in 0..(planes[last].n - 1)
    BY <1>2, <1>3, <1>5, <2>3, <2>4
  <2>6. ASSUME Len(planes) = 1 PROVE image[p][c] - P.at >= h * P.row_stride
    <3>1. second.at = P.at + h * P.row_stride /\ h * P.row_stride \in Nat
      BY <1>2, <1>5, <2>6 DEF skipped, last, P
    <3> DEFINE luma == h * P.row_stride
    <3> HIDE DEF luma
    <3>2. second.at = P.at + luma /\ luma \in Nat
      BY <3>1 DEF luma
    <3>3. image[p][c] - P.at >= luma
      BY <1>2, <2>3, <2>4, <3>2
    <3>4. QED
      BY <3>3 DEF luma
  <2>7. QED
    BY <1>1, <1>14, <2>5, <2>6 DEF P
<1>15. QED
  BY <1>13, <1>14

\* The converter of V4L2 reads the planes it was given, whatever their sizes.
LEMMA V4l2Inside ==
  ASSUME NEW format, NEW planes, Mapped(planes), NEW w \in Nat, NEW h \in Nat
  PROVE  F!V4l2Exactly(format, planes, w, h)
<1>1. CASE format \notin {"YUYV", "UYVY", "RGB", "Gray", "NV12"}
  <2>1. F!V4l2Convert(format, planes, w, h) = F!Error
    BY <1>1 DEF F!V4l2Convert
  <2>2. QED
    BY <2>1 DEF F!V4l2Exactly
<1>2. QED
  BY <1>1, PackedInside, Nv12Inside

\* Two neighbours of a sequence.
LEMMA TwoOf ==
  ASSUME NEW S, NEW s \in Seq(S), NEW i \in Int, 1 <= i, i + 1 <= Len(s)
  PROVE  SubSeq(s, i, i + 1) = <<s[i], s[i + 1]>>
<1>1. s \in [1..Len(s) -> S] /\ Len(s) \in Nat
  BY LenProperties
<1>2. \A k \in i..(i + 1) : s[k] \in S
  BY <1>1
<1> DEFINE t == SubSeq(s, i, i + 1)
<1>3. t \in Seq(S) /\ Len(t) = 2 /\ t[1] = s[i] /\ t[2] = s[i + 1]
  <2>1. /\ t \in Seq(S) /\ Len(t) = (IF i <= i + 1 THEN i + 1 - i + 1 ELSE 0)
        /\ \A k \in 1..(i + 1 - i + 1) : t[k] = s[i + k - 1]
    BY <1>2, SubSeqProperties
  <2> HIDE DEF t
  <2>2. i <= i + 1 /\ i + 1 - i + 1 = 2 /\ i + 1 - 1 = i /\ i + 2 - 1 = i + 1
    OBVIOUS
  <2>3. QED
    BY <2>1, <2>2
<1> HIDE DEF t
<1>4. t \in [1..2 -> S] /\ DOMAIN t = 1..2
  BY <1>3, LenProperties
<1>5. t = <<s[i], s[i + 1]>>
  BY <1>3, <1>4
<1>6. QED
  BY <1>5 DEF t

\* The last end marker is the end of the frame.
LEMMA MjpegEnds ==
  ASSUME NEW S, NEW data \in Seq(S)
  PROVE  F!MjpegTrimmed(data)
<1> DEFINE ends == {i \in 1..(Len(data) - 1) : SubSeq(data, i, i + 1) = F!Eoi}
           m == F!Max(ends)
           frame == F!CompleteFrame(data)
<1> SUFFICES ASSUME frame # F!Error
             PROVE  /\ SubSeq(frame, 1, 2) = F!Soi /\ SubSeq(frame, Len(frame) - 1, Len(frame)) = F!Eoi
                    /\ SubSeq(data, 1, Len(frame)) = frame
                    /\ \A i \in Len(frame)..(Len(data) - 1) : SubSeq(data, i, i + 1) # F!Eoi
  BY DEF F!MjpegTrimmed
<1>2. data \in [1..Len(data) -> S] /\ Len(data) \in Nat
  BY LenProperties
<1>1. Len(data) >= 4 /\ SubSeq(data, 1, 2) = F!Soi /\ ends # {} /\ frame = SubSeq(data, 1, m + 1)
  <2>1. frame = IF Len(data) < 4 \/ SubSeq(data, 1, 2) # F!Soi \/ ends = {} THEN F!Error
                ELSE SubSeq(data, 1, m + 1)
    BY DEF F!CompleteFrame
  <2> HIDE DEF frame, ends, m
  <2>2. /\ ~(Len(data) < 4) /\ SubSeq(data, 1, 2) = F!Soi /\ ends # {}
        /\ frame = SubSeq(data, 1, m + 1)
    BY <2>1, Zenon
  <2>3. Len(data) >= 4
    BY <1>2, <2>2
  <2>4. QED
    BY <2>2, <2>3
<1>3. m \in ends /\ \A e \in ends : e <= m
  <2> DEFINE T == {Len(data) - e : e \in ends}
  <2>1. T \subseteq Nat /\ T # {} /\ ends \subseteq Nat
    <3>1. \A e \in ends : e \in Nat /\ Len(data) - e \in Nat
      BY <1>2
    <3> HIDE DEF ends
    <3>2. QED
      BY <1>1, <3>1
  <2>2. PICK least \in T : \A k \in T : least <= k
    BY <2>1, LeastNat
  <2>3. PICK last \in ends : least = Len(data) - last
    BY <2>2
  <2>4. \A e \in ends : e <= last
    <3> SUFFICES ASSUME NEW e \in ends PROVE e <= last
      OBVIOUS
    <3>1. Len(data) - e \in T
      OBVIOUS
    <3> HIDE DEF T
    <3>2. least <= Len(data) - e
      BY <2>2, <3>1
    <3>3. e \in Nat /\ last \in Nat
      BY <2>1
    <3> HIDE DEF ends
    <3>4. QED
      BY <1>2, <2>3, <3>2, <3>3
  <2>5. \A e \in ends : last >= e
    BY <2>1, <2>4
  <2> HIDE DEF ends
  <2>6. m \in ends /\ \A e \in ends : m >= e
    BY <2>5 DEF F!Max
  <2>7. QED
    BY <2>1, <2>6
<1>4. m \in Nat /\ 1 <= m /\ m + 1 <= Len(data) /\ SubSeq(data, m, m + 1) = F!Eoi
  <2> HIDE DEF m
  <2>1. QED
    BY <1>2, <1>3
<1> HIDE DEF m, frame
<1>5. /\ frame \in Seq(S) /\ Len(frame) = m + 1
      /\ \A i \in 1..(m + 1) : frame[i] = data[i]
  <2>1. \A k \in 1..(m + 1) : data[k] \in S
    BY <1>2, <1>4
  <2>2. /\ frame \in Seq(S) /\ Len(frame) = (IF 1 <= m + 1 THEN m + 1 - 1 + 1 ELSE 0)
        /\ \A i \in 1..(m + 1 - 1 + 1) : frame[i] = data[1 + i - 1]
    BY <1>1, <1>4, <2>1, SubSeqProperties
  <2>3. QED
    BY <1>4, <2>2
<1>6. /\ SubSeq(frame, 1, 1 + 1) = <<frame[1], frame[1 + 1]>>
      /\ SubSeq(data, 1, 1 + 1) = <<data[1], data[1 + 1]>>
      /\ SubSeq(frame, m, m + 1) = <<frame[m], frame[m + 1]>>
      /\ SubSeq(data, m, m + 1) = <<data[m], data[m + 1]>>
  BY <1>4, <1>5, TwoOf
<1>7. SubSeq(frame, 1, 2) = F!Soi
  <2>1. frame[1] = data[1] /\ frame[2] = data[2] /\ 1 + 1 = 2
    BY <1>4, <1>5
  <2>2. QED
    BY <1>1, <1>6, <2>1, Zenon
<1>8. SubSeq(frame, Len(frame) - 1, Len(frame)) = F!Eoi
  <2>1. frame[m] = data[m] /\ frame[m + 1] = data[m + 1] /\ Len(frame) - 1 = m /\ Len(frame) = m + 1
    BY <1>4, <1>5
  <2>2. QED
    BY <1>4, <1>6, <2>1, Zenon
<1>9. SubSeq(data, 1, Len(frame)) = frame
  BY <1>1, <1>5
<1>10. ASSUME NEW i \in Len(frame)..(Len(data) - 1), SubSeq(data, i, i + 1) = F!Eoi
       PROVE  FALSE
  <2>1. i \in 1..(Len(data) - 1) /\ ~(i <= m)
    BY <1>2, <1>4, <1>5
  <2>2. i \in ends
    BY <1>10, <2>1
  <2>3. QED
    BY <1>3, <2>1, <2>2
<1>11. QED
  BY <1>7, <1>8, <1>9, <1>10

-----------------------------------------------------------------------------
(* Rows of pixels.                                                          *)

\* The columns from a on before b.
Columns(a, b) == {x \in Nat : a <= x /\ x < b}

\* The pixels of a row s in those columns.
Line(s, a, b) == {s[x] : x \in Columns(a, b)}

\* The rows of full and of half size, by column.
Full(layout) == [x \in Nat |-> K!Sample(layout, x)]

Half(layout) == [x \in Nat |-> K!HalfSample(layout, x)]

\* The registers y, u and v hold the pixels of the eight columns from `at` on.
Fits(s, at, y, u, v) == \A i \in Nat : i < 8 => <<at + i, y[i], u[i], v[i]>> = s[at + i]

\* Such registers make that part of the row.
LEMMA EightColumns ==
  ASSUME NEW s, NEW at \in Nat, NEW y, NEW u, NEW v, Fits(s, at, y, u, v)
  PROVE  K!Eight(at, y, u, v) = Line(s, at, at + 8)
<1>1. ASSUME NEW p \in K!Eight(at, y, u, v) PROVE p \in Line(s, at, at + 8)
  <2>1. PICK i \in 0..7 : p = <<at + i, y[i], u[i], v[i]>>
    BY <1>1 DEF K!Eight, K!Lanes
  <2>2. i \in Nat /\ i < 8 /\ at + i \in Columns(at, at + 8)
    BY DEF Columns
  <2>3. p = s[at + i]
    BY <2>1, <2>2 DEF Fits
  <2>4. QED
    BY <2>2, <2>3 DEF Line
<1>2. ASSUME NEW p \in Line(s, at, at + 8) PROVE p \in K!Eight(at, y, u, v)
  <2>1. PICK x \in Columns(at, at + 8) : p = s[x]
    BY <1>2 DEF Line
  <2> DEFINE i == x - at
  <2>2. i \in Nat /\ i < 8 /\ i \in 0..7 /\ at + i = x
    BY <2>1 DEF Columns
  <2> HIDE DEF i
  <2>3. p = <<at + i, y[i], u[i], v[i]>>
    BY <2>1, <2>2 DEF Fits
  <2>4. QED
    BY <2>2, <2>3 DEF K!Eight, K!Lanes
<1>3. QED
  BY <1>1, <1>2

\* Two parts of a row that meet are one.
LEMMA LinesJoin ==
  ASSUME NEW s, NEW a \in Nat, NEW b \in Nat, NEW c \in Nat, a <= b, b <= c
  PROVE  Line(s, a, b) \cup Line(s, b, c) = Line(s, a, c)
<1>1. Columns(a, b) \cup Columns(b, c) = Columns(a, c)
  BY DEF Columns
<1>2. QED
  BY <1>1 DEF Line

\* What n groups make.
Together(group, n) == UNION {group[g] : g \in 0..(n - 1)}

\* Groups of a fixed number of columns are the row up to the last group.
LEMMA GroupsJoin ==
  ASSUME NEW s, NEW n \in Nat, NEW step \in {4, 8, 16}, NEW group,
         \A g \in Nat : g < n => group[g] = Line(s, step * g, step * g + step)
  PROVE  Together(group, n) = Line(s, 0, n * step)
<1>1. ASSUME NEW g \in 0..(n - 1), NEW p \in group[g] PROVE p \in Line(s, 0, n * step)
  <2>1. PICK x \in Columns(step * g, step * g + step) : p = s[x]
    BY <1>1 DEF Line
  <2>2. x \in Columns(0, n * step)
    <3>1. CASE step = 4
      BY <3>1 DEF Columns
    <3>2. CASE step = 8
      BY <3>2 DEF Columns
    <3>3. CASE step = 16
      BY <3>3 DEF Columns
    <3>4. QED
      BY <3>1, <3>2, <3>3
  <2>3. QED
    BY <2>1, <2>2 DEF Line
<1>2. ASSUME NEW p \in Line(s, 0, n * step)
      PROVE  \E g \in 0..(n - 1) : p \in group[g]
  <2>1. PICK x \in Columns(0, n * step) : p = s[x]
    BY <1>2 DEF Line
  <2> DEFINE g == x \div step
  <2>2. g \in 0..(n - 1) /\ x \in Columns(step * g, step * g + step)
    <3>1. CASE step = 4
      BY <2>1, <3>1 DEF Columns
    <3>2. CASE step = 8
      BY <2>1, <3>2 DEF Columns
    <3>3. CASE step = 16
      BY <2>1, <3>3 DEF Columns
    <3>4. QED
      BY <3>1, <3>2, <3>3
  <2> HIDE DEF g
  <2>3. g \in Nat /\ g < n
    BY <2>2
  <2>4. p \in group[g]
    BY <2>1, <2>2, <2>3 DEF Line
  <2>5. QED
    BY <2>2, <2>4
<1>3. QED
  BY <1>1, <1>2 DEF Together

\* What two conversions make.
Both(A, B) == A \cup B

\* Two conversions of eight lanes each make sixteen columns.
LEMMA SixteenColumns ==
  ASSUME NEW s, NEW a \in Nat, NEW b \in Nat, b = a + 8, NEW y, NEW u, NEW v, NEW y2, NEW u2, NEW v2,
         Fits(s, a, y, u, v), Fits(s, b, y2, u2, v2)
  PROVE  Both(K!Eight(a, y, u, v), K!Eight(b, y2, u2, v2)) = Line(s, a, a + 16)
<1>1. K!Eight(a, y, u, v) = Line(s, a, b)
  BY EightColumns
<1>2. K!Eight(b, y2, u2, v2) = Line(s, b, a + 16)
  BY EightColumns, b + 8 = a + 16
<1>3. QED
  BY <1>1, <1>2, LinesJoin, a + 16 \in Nat, a <= b, b <= a + 16 DEF Both

\* The least of numbers is one of them.
LEMMA LeastOf ==
  ASSUME NEW a \in Nat, NEW b \in Nat, NEW c \in Nat
  PROVE  K!Min({a, b, c}) \in Nat /\ K!Min({a, b, c}) <= a /\ K!Min({a, b, c}) <= b /\ K!Min({a, b, c}) <= c
<1> DEFINE S == {a, b, c}
<1>1. \E x \in S : \A y \in S : x <= y
  OBVIOUS
<1>2. K!Min(S) \in S /\ \A y \in S : K!Min(S) <= y
  BY <1>1 DEF K!Min
<1> HIDE DEF S
<1>3. S = {a, b, c}
  BY DEF S
<1>4. QED
  BY <1>2, <1>3

\* The pixels of an interval are a line.
LEMMA TailLine ==
  ASSUME NEW layout, NEW a \in Nat, NEW b \in Nat
  PROVE  {K!Sample(layout, x) : x \in a..(b - 1)} = Line(Full(layout), a, b)
<1>1. \A x \in Columns(a, b) : Full(layout)[x] = K!Sample(layout, x)
  BY DEF Full, Columns
<1>2. Columns(a, b) = a..(b - 1)
  BY DEF Columns
<1>3. QED
  BY <1>1, <1>2 DEF Line

\* Groups of p bytes that a buffer of a bytes has room for.
Room(a, p) == a \div p

\* As many groups as two buffers have room for, and as three.
Fit2(a, p, b, q) == K!Groups({<<a, p>>, <<b, q>>})

Fit3(a, p, b, q, c, r) == K!Groups({<<a, p>>, <<b, q>>, <<c, r>>})

\* No more than three buffers have room for.
LEMMA GroupsFit ==
  ASSUME NEW a \in Nat, NEW p \in Nat, p > 0, NEW b \in Nat, NEW q \in Nat, q > 0,
         NEW c \in Nat, NEW r \in Nat, r > 0
  PROVE  LET n == Fit3(a, p, b, q, c, r)
         IN  n \in Nat /\ n <= Room(a, p) /\ n <= Room(b, q) /\ n <= Room(c, r)
<1>1. {l[1] \div l[2] : l \in {<<a, p>>, <<b, q>>, <<c, r>>}} = {a \div p, b \div q, c \div r}
  OBVIOUS
<1>2. a \div p \in Nat /\ b \div q \in Nat /\ c \div r \in Nat
  OBVIOUS
<1>3. QED
  BY <1>1, <1>2, LeastOf DEF K!Groups, Room, Fit3

\* Nor than two have.
LEMMA GroupsFitTwo ==
  ASSUME NEW a \in Nat, NEW p \in Nat, p > 0, NEW b \in Nat, NEW q \in Nat, q > 0
  PROVE  LET n == Fit2(a, p, b, q)
         IN  n \in Nat /\ n <= Room(a, p) /\ n <= Room(b, q)
<1>1. {l[1] \div l[2] : l \in {<<a, p>>, <<b, q>>}} = {a \div p, b \div q, b \div q}
  OBVIOUS
<1>2. a \div p \in Nat /\ b \div q \in Nat
  OBVIOUS
<1>3. QED
  BY <1>1, <1>2, LeastOf DEF K!Groups, Room, Fit2

\* So many steps are an even number of columns of the row.
LEMMA StepsFit ==
  ASSUME NEW n \in Nat, NEW step \in {4, 8, 16}, NEW w \in Nat, n <= w \div step
  PROVE  n * step \in Nat /\ (n * step) % 2 = 0 /\ n * step <= w
<1>1. CASE step = 4
  BY <1>1
<1>2. CASE step = 8
  BY <1>2
<1>3. CASE step = 16
  BY <1>3
<1>4. QED
  BY <1>1, <1>2, <1>3

\* A kernel that makes the pixels of the row s, of w columns, up to its stop.
Makes(kernel, s, w) ==
    /\ kernel.stop \in Nat /\ kernel.stop % 2 = 0 /\ kernel.stop <= w
    /\ kernel.pixels = Line(s, 0, kernel.stop)

\* Groups that are each their own `step` columns of the row s.
Whole(s, step, group) == \A g \in Nat : group[g] = Line(s, step * g, step * g + step)

\* A kernel of such groups, no more than the row has room for, makes the row.
LEMMA KernelMakes ==
  ASSUME NEW s, NEW n \in Nat, NEW step \in {4, 8, 16}, NEW group, NEW w \in Nat, NEW kernel,
         n <= w \div step, kernel = [pixels |-> Together(group, n), stop |-> n * step], Whole(s, step, group)
  PROVE  Makes(kernel, s, w)
<1>1. kernel.stop = n * step /\ kernel.pixels = Together(group, n)
  OBVIOUS
<1>2. n * step \in Nat /\ (n * step) % 2 = 0 /\ n * step <= w
  BY StepsFit
<1>3. Together(group, n) = Line(s, 0, n * step)
  BY GroupsJoin DEF Whole
<1>4. QED
  BY <1>1, <1>2, <1>3 DEF Makes

\* Sixteen pixels of two bytes are four channels of eight groups of four bytes:
\* both lumas interleaved, either chroma with itself.
LEMMA PackedLanes ==
  ASSUME NEW g \in Nat, NEW i \in Nat, i < 8, NEW c \in Nat
  PROVE  /\ K!Zip1(K!Vld(4, 32 * g, c), K!Vld(4, 32 * g, c + 2))[i] = 2 * (16 * g + i) + c
         /\ K!Zip2(K!Vld(4, 32 * g, c), K!Vld(4, 32 * g, c + 2))[i] = 2 * (16 * g + 8 + i) + c
         /\ K!Zip1(K!Vld(4, 32 * g, c), K!Vld(4, 32 * g, c))[i] = 4 * ((16 * g + i) \div 2) + c
         /\ K!Zip2(K!Vld(4, 32 * g, c), K!Vld(4, 32 * g, c))[i] = 4 * ((16 * g + 8 + i) \div 2) + c
BY DEF K!Zip1, K!Zip2, K!Lanes, K!Vld

\* Chroma samples doubled are those of the columns.
LEMMA ChromaLanes ==
  ASSUME NEW g \in Nat, NEW i \in Nat, i < 8, NEW c \in Nat
  PROVE  /\ K!Zip1(K!Vld(1, 8 * g, 0), K!Vld(1, 8 * g, 0))[i] = (16 * g + i) \div 2
         /\ K!Zip2(K!Vld(1, 8 * g, 0), K!Vld(1, 8 * g, 0))[i] = (16 * g + 8 + i) \div 2
         /\ K!Zip1(K!Vld(2, 16 * g, c), K!Vld(2, 16 * g, c))[i] = 2 * ((16 * g + i) \div 2) + c
         /\ K!Zip2(K!Vld(2, 16 * g, c), K!Vld(2, 16 * g, c))[i] = 2 * ((16 * g + 8 + i) \div 2) + c
BY DEF K!Zip1, K!Zip2, K!Lanes, K!Vld

\* Adjacent luma samples.
LEMMA LumaLanes ==
  ASSUME NEW at \in Nat, NEW i \in Nat, i < 8
  PROVE  K!Vld(1, at, 0)[i] = at + i
BY DEF K!Lanes, K!Vld

\* The bytes of a pixel of each layout.
LEMMA PackedSample ==
  ASSUME NEW x \in Nat
  PROVE  /\ Full("yuyv")[x] = <<x, 2 * x, 4 * (x \div 2) + 1, 4 * (x \div 2) + 3>>
         /\ Full("uyvy")[x] = <<x, 2 * x + 1, 4 * (x \div 2), 4 * (x \div 2) + 2>>
         /\ Full("nv12")[x] = <<x, x, 2 * (x \div 2), 2 * (x \div 2) + 1>>
         /\ Full("nv21")[x] = <<x, x, 2 * (x \div 2) + 1, 2 * (x \div 2)>>
         /\ Full("planar")[x] = <<x, x, x \div 2, x \div 2>>
BY DEF Full, K!Sample, K!Packed, K!Semi

\* Where a packed layout keeps luma and chroma.
Luma(layout) == IF layout = "uyvy" THEN 1 ELSE 0

Blue(layout) == IF layout = "uyvy" THEN 0 ELSE 1

Red(layout) == IF layout = "uyvy" THEN 2 ELSE 3

\* The bytes of a pixel of the packed layouts.
LEMMA PackedOffsets ==
  ASSUME NEW layout \in K!Packed
  PROVE  /\ Luma(layout) \in Nat /\ Blue(layout) \in Nat /\ Red(layout) \in Nat
         /\ \A x \in Nat : Full(layout)[x] = <<x, 2 * x + Luma(layout), 4 * (x \div 2) + Blue(layout), 4 * (x \div 2) + Red(layout)>>
<1>1. CASE layout = "yuyv"
  <2>1. Luma(layout) = 0 /\ Blue(layout) = 1 /\ Red(layout) = 3
    BY <1>1 DEF Luma, Blue, Red
  <2>2. ASSUME NEW x \in Nat
        PROVE  Full(layout)[x] = <<x, 2 * x + 0, 4 * (x \div 2) + 1, 4 * (x \div 2) + 3>>
    <3>1. 2 * x + 0 = 2 * x /\ 4 * (x \div 2) + 0 = 4 * (x \div 2)
      OBVIOUS
    <3>2. QED
      BY <1>1, <3>1, PackedSample
  <2>3. Luma(layout) \in Nat /\ Blue(layout) \in Nat /\ Red(layout) \in Nat
    BY <2>1
  <2>4. QED
    BY <2>1, <2>2, <2>3
<1>2. CASE layout = "uyvy"
  <2>1. Luma(layout) = 1 /\ Blue(layout) = 0 /\ Red(layout) = 2
    BY <1>2 DEF Luma, Blue, Red
  <2>2. ASSUME NEW x \in Nat
        PROVE  Full(layout)[x] = <<x, 2 * x + 1, 4 * (x \div 2) + 0, 4 * (x \div 2) + 2>>
    <3>1. 2 * x + 0 = 2 * x /\ 4 * (x \div 2) + 0 = 4 * (x \div 2)
      OBVIOUS
    <3>2. QED
      BY <1>2, <3>1, PackedSample
  <2>3. Luma(layout) \in Nat /\ Blue(layout) \in Nat /\ Red(layout) \in Nat
    BY <2>1
  <2>4. QED
    BY <2>1, <2>2, <2>3
<1>3. QED
  BY <1>1, <1>2 DEF K!Packed

\* Where a semi-planar layout keeps its chroma.
First(layout) == IF layout = "nv21" THEN 1 ELSE 0

Second(layout) == IF layout = "nv21" THEN 0 ELSE 1

\* The bytes of a pixel of the semi-planar layouts.
LEMMA SemiOffsets ==
  ASSUME NEW layout \in K!Semi
  PROVE  /\ First(layout) \in Nat /\ Second(layout) \in Nat /\ Second(layout) = 1 - First(layout)
         /\ \A x \in Nat : Full(layout)[x] = <<x, x, 2 * (x \div 2) + First(layout), 2 * (x \div 2) + Second(layout)>>
<1>1. CASE layout = "nv12"
  <2>1. First(layout) = 0 /\ Second(layout) = 1
    BY <1>1 DEF First, Second
  <2>2. ASSUME NEW x \in Nat
        PROVE  Full(layout)[x] = <<x, x, 2 * (x \div 2) + 0, 2 * (x \div 2) + 1>>
    <3>1. 2 * (x \div 2) + 0 = 2 * (x \div 2)
      OBVIOUS
    <3>2. QED
      BY <1>1, <3>1, PackedSample
  <2>3. First(layout) \in Nat /\ Second(layout) \in Nat /\ Second(layout) = 1 - First(layout)
    BY <2>1
  <2>4. QED
    BY <2>1, <2>2, <2>3
<1>2. CASE layout = "nv21"
  <2>1. First(layout) = 1 /\ Second(layout) = 0
    BY <1>2 DEF First, Second
  <2>2. ASSUME NEW x \in Nat
        PROVE  Full(layout)[x] = <<x, x, 2 * (x \div 2) + 1, 2 * (x \div 2) + 0>>
    <3>1. 2 * (x \div 2) + 0 = 2 * (x \div 2)
      OBVIOUS
    <3>2. QED
      BY <1>2, <3>1, PackedSample
  <2>3. First(layout) \in Nat /\ Second(layout) \in Nat /\ Second(layout) = 1 - First(layout)
    BY <2>1
  <2>4. QED
    BY <2>1, <2>2, <2>3
<1>3. QED
  BY <1>1, <1>2 DEF K!Semi

\* Eight even pixels a group, every second or fourth byte.
LEMMA EvenLanes ==
  ASSUME NEW g \in Nat, NEW i \in Nat, i < 8, NEW c \in Nat
  PROVE  /\ K!Vld(4, 32 * g, c)[i] = 4 * (8 * g + i) + c
         /\ K!Vld(2, 16 * g, c)[i] = 2 * (8 * g + i) + c
         /\ K!Vld(2, 16 * g, 0)[i] = 2 * (8 * g + i)
         /\ K!Vld(1, 8 * g, 0)[i] = 8 * g + i
BY DEF K!Lanes, K!Vld

\* Sixteen pixels of two bytes a group (NEON).
LEMMA NeonPackedMakes ==
  ASSUME NEW w \in Nat, NEW layout \in K!Packed
  PROVE  Makes(K!NeonPacked(layout, w), Full(layout), w)
<1> DEFINE body(g) == K!NeonPackedGroup(layout, g)
           group == [g \in Nat |-> body(g)]
           n == Fit2(2 * w, 32, 3 * w, 48)
<1>1. n \in Nat /\ n <= w \div 16
  <2> DEFINE a == 2 * w
             b == 3 * w
  <2>1. a \in Nat /\ b \in Nat
    OBVIOUS
  <2>2. a \div 32 = w \div 16
    OBVIOUS
  <2> HIDE DEF a, b
  <2>3. Fit2(a, 32, b, 48) \in Nat /\ Fit2(a, 32, b, 48) <= Room(a, 32)
    BY <2>1, GroupsFitTwo
  <2>4. Fit2(a, 32, b, 48) \in Nat /\ Fit2(a, 32, b, 48) <= w \div 16
    BY <2>2, <2>3 DEF Room
  <2>5. QED
    BY <2>4 DEF a, b
<1>2. K!NeonPacked(layout, w) = [pixels |-> Together(group, n), stop |-> n * 16]
  <2> HIDE DEF body, n
  <2>1. \A g \in 0..(n - 1) : group[g] = body(g)
    BY <1>1
  <2> HIDE DEF group
  <2>2. {body(g) : g \in 0..(n - 1)} = {group[g] : g \in 0..(n - 1)}
    BY <2>1
  <2>3. QED
    BY <2>2 DEF K!NeonPacked, K!Kernel, Together, Fit2, n, body
<1>3. ASSUME NEW g \in Nat PROVE body(g) = Line(Full(layout), 16 * g, 16 * g + 16)
  <2> DEFINE p(c) == K!Vld(4, 32 * g, c)
             l == Luma(layout)
             b == Blue(layout)
             r == Red(layout)
  <2>1. body(g) = Both(K!Eight(16 * g, K!Zip1(p(l), p(l + 2)), K!Zip1(p(b), p(b)), K!Zip1(p(r), p(r))),
                      K!Eight(16 * g + 8, K!Zip2(p(l), p(l + 2)), K!Zip2(p(b), p(b)), K!Zip2(p(r), p(r))))
    BY DEF Both, K!NeonPackedGroup, K!Packed, Luma, Blue, Red
  <2>2. l \in Nat /\ b \in Nat /\ r \in Nat
    BY PackedOffsets
  <2> HIDE DEF body, l, b, r
  <2>3. Fits(Full(layout), 16 * g, K!Zip1(p(l), p(l + 2)), K!Zip1(p(b), p(b)), K!Zip1(p(r), p(r)))
    <3> SUFFICES ASSUME NEW i \in Nat, i < 8
                 PROVE  <<16 * g + i, K!Zip1(p(l), p(l + 2))[i], K!Zip1(p(b), p(b))[i], K!Zip1(p(r), p(r))[i]>> = Full(layout)[16 * g + i]
      BY DEF Fits
    <3>1. Full(layout)[16 * g + i] = <<16 * g + i, 2 * (16 * g + i) + l, 4 * ((16 * g + i) \div 2) + b, 4 * ((16 * g + i) \div 2) + r>>
      <4>1. 16 * g + i \in Nat
        OBVIOUS
      <4>2. QED
        BY <4>1, PackedOffsets DEF l, b, r
    <3>2. K!Zip1(p(l), p(l + 2))[i] = 2 * (16 * g + i) + l
      BY <2>2, PackedLanes
    <3>3. K!Zip1(p(b), p(b))[i] = 4 * ((16 * g + i) \div 2) + b
      BY <2>2, PackedLanes
    <3>4. K!Zip1(p(r), p(r))[i] = 4 * ((16 * g + i) \div 2) + r
      BY <2>2, PackedLanes
    <3>5. QED
      BY <3>1, <3>2, <3>3, <3>4
  <2>4. Fits(Full(layout), 16 * g + 8, K!Zip2(p(l), p(l + 2)), K!Zip2(p(b), p(b)), K!Zip2(p(r), p(r)))
    <3> SUFFICES ASSUME NEW i \in Nat, i < 8
                 PROVE  <<16 * g + 8 + i, K!Zip2(p(l), p(l + 2))[i], K!Zip2(p(b), p(b))[i], K!Zip2(p(r), p(r))[i]>> = Full(layout)[16 * g + 8 + i]
      BY DEF Fits
    <3>1. Full(layout)[16 * g + 8 + i] = <<16 * g + 8 + i, 2 * (16 * g + 8 + i) + l, 4 * ((16 * g + 8 + i) \div 2) + b, 4 * ((16 * g + 8 + i) \div 2) + r>>
      <4>1. 16 * g + 8 + i \in Nat
        OBVIOUS
      <4>2. QED
        BY <4>1, PackedOffsets DEF l, b, r
    <3>2. K!Zip2(p(l), p(l + 2))[i] = 2 * (16 * g + 8 + i) + l
      BY <2>2, PackedLanes
    <3>3. K!Zip2(p(b), p(b))[i] = 4 * ((16 * g + 8 + i) \div 2) + b
      BY <2>2, PackedLanes
    <3>4. K!Zip2(p(r), p(r))[i] = 4 * ((16 * g + 8 + i) \div 2) + r
      BY <2>2, PackedLanes
    <3>5. QED
      BY <3>1, <3>2, <3>3, <3>4
  <2>5. QED
    BY <2>1, <2>3, <2>4, 16 * g \in Nat, 16 * g + 8 \in Nat, SixteenColumns
<1>4. Whole(Full(layout), 16, group)
  <2> HIDE DEF body
  <2>1. QED
    BY <1>3 DEF Whole
<1> HIDE DEF group, n
<1>5. QED
  BY <1>1, <1>2, <1>4, KernelMakes

\* Eight chroma samples of sixteen pixels a group (NEON).
LEMMA NeonPlanarMakes ==
  ASSUME NEW w \in Nat
  PROVE  Makes(K!NeonPlanar(w), Full("planar"), w)
<1> DEFINE c(g) == K!Vld(1, 8 * g, 0)
           body(g) == K!Eight(16 * g, K!Vld(1, 16 * g, 0), K!Zip1(c(g), c(g)), K!Zip1(c(g), c(g)))
                      \cup K!Eight(16 * g + 8, K!Vld(1, 16 * g + 8, 0), K!Zip2(c(g), c(g)), K!Zip2(c(g), c(g)))
           group == [g \in Nat |-> body(g)]
           n == Fit3(w, 16, (w + 1) \div 2, 8, 3 * w, 48)
<1>1. n \in Nat /\ n <= w \div 16
  <2> DEFINE b == (w + 1) \div 2
             rgb == 3 * w
  <2>1. b \in Nat /\ rgb \in Nat
    OBVIOUS
  <2> HIDE DEF b, rgb
  <2>2. Fit3(w, 16, b, 8, rgb, 48) \in Nat /\ Fit3(w, 16, b, 8, rgb, 48) <= Room(w, 16)
    BY <2>1, GroupsFit
  <2>3. Fit3(w, 16, b, 8, rgb, 48) \in Nat /\ Fit3(w, 16, b, 8, rgb, 48) <= w \div 16
    BY <2>2 DEF Room
  <2>4. QED
    BY <2>3 DEF b, rgb
<1>2. K!NeonPlanar(w) = [pixels |-> Together(group, n), stop |-> n * 16]
  <2> HIDE DEF body, n
  <2>1. \A g \in 0..(n - 1) : group[g] = body(g)
    BY <1>1
  <2> HIDE DEF group
  <2>2. {body(g) : g \in 0..(n - 1)} = {group[g] : g \in 0..(n - 1)}
    BY <2>1
  <2>3. QED
    BY <2>2 DEF K!NeonPlanar, K!Kernel, Together, Fit3, n, body
<1>3. ASSUME NEW g \in Nat PROVE body(g) = Line(Full("planar"), 16 * g, 16 * g + 16)
  <2>1. Fits(Full("planar"), 16 * g, K!Vld(1, 16 * g, 0), K!Zip1(c(g), c(g)), K!Zip1(c(g), c(g)))
    <3> SUFFICES ASSUME NEW i \in Nat, i < 8
                 PROVE  <<16 * g + i, K!Vld(1, 16 * g, 0)[i], K!Zip1(c(g), c(g))[i], K!Zip1(c(g), c(g))[i]>> = Full("planar")[16 * g + i]
      BY DEF Fits
    <3>1. Full("planar")[16 * g + i] = <<16 * g + i, (16 * g + i), (16 * g + i) \div 2, (16 * g + i) \div 2>>
      <4>1. 16 * g + i \in Nat
        OBVIOUS
      <4>2. QED
        BY <4>1, PackedSample
    <3>2. K!Vld(1, 16 * g, 0)[i] = (16 * g + i)
      BY LumaLanes, 16 * g \in Nat
    <3>3. K!Zip1(c(g), c(g))[i] = (16 * g + i) \div 2
      BY ChromaLanes
    <3>4. QED
      BY <3>1, <3>2, <3>3
  <2>2. Fits(Full("planar"), 16 * g + 8, K!Vld(1, 16 * g + 8, 0), K!Zip2(c(g), c(g)), K!Zip2(c(g), c(g)))
    <3> SUFFICES ASSUME NEW i \in Nat, i < 8
                 PROVE  <<16 * g + 8 + i, K!Vld(1, 16 * g + 8, 0)[i], K!Zip2(c(g), c(g))[i], K!Zip2(c(g), c(g))[i]>> = Full("planar")[16 * g + 8 + i]
      BY DEF Fits
    <3>1. Full("planar")[16 * g + 8 + i] = <<16 * g + 8 + i, (16 * g + 8 + i), (16 * g + 8 + i) \div 2, (16 * g + 8 + i) \div 2>>
      <4>1. 16 * g + 8 + i \in Nat
        OBVIOUS
      <4>2. QED
        BY <4>1, PackedSample
    <3>2. K!Vld(1, 16 * g + 8, 0)[i] = (16 * g + 8 + i)
      BY LumaLanes, 16 * g + 8 \in Nat
    <3>3. K!Zip2(c(g), c(g))[i] = (16 * g + 8 + i) \div 2
      BY ChromaLanes
    <3>4. QED
      BY <3>1, <3>2, <3>3
  <2>3. body(g) = Both(K!Eight(16 * g, K!Vld(1, 16 * g, 0), K!Zip1(c(g), c(g)), K!Zip1(c(g), c(g))),
                      K!Eight(16 * g + 8, K!Vld(1, 16 * g + 8, 0), K!Zip2(c(g), c(g)), K!Zip2(c(g), c(g))))
    BY DEF Both
  <2> HIDE DEF c, body
  <2>4. QED
    BY <2>3, <2>1, <2>2, 16 * g \in Nat, 16 * g + 8 \in Nat, SixteenColumns
<1>4. Whole(Full("planar"), 16, group)
  <2> HIDE DEF body
  <2>1. QED
    BY <1>3 DEF Whole
<1> HIDE DEF group, n
<1>5. QED
  BY <1>1, <1>2, <1>4, KernelMakes

\* The same of unpacked chroma (AVX2).
LEMMA AvxPlanarMakes ==
  ASSUME NEW w \in Nat
  PROVE  Makes(K!AvxPlanar(w), Full("planar"), w)
<1> DEFINE c(g, from) == [i \in K!Lanes |-> 8 * g + (from + i) \div 2]
           part(g, from) == K!Eight(16 * g + from, K!Vld(1, 16 * g + from, 0), c(g, from), c(g, from))
           body(g) == UNION {part(g, from) : from \in {0, 8}}
           group == [g \in Nat |-> body(g)]
           n == Fit3(w, 16, (w + 1) \div 2, 8, 3 * w, 48)
<1>1. n \in Nat /\ n <= w \div 16
  <2> DEFINE b == (w + 1) \div 2
             rgb == 3 * w
  <2>1. b \in Nat /\ rgb \in Nat
    OBVIOUS
  <2> HIDE DEF b, rgb
  <2>2. Fit3(w, 16, b, 8, rgb, 48) \in Nat /\ Fit3(w, 16, b, 8, rgb, 48) <= Room(w, 16)
    BY <2>1, GroupsFit
  <2>3. Fit3(w, 16, b, 8, rgb, 48) \in Nat /\ Fit3(w, 16, b, 8, rgb, 48) <= w \div 16
    BY <2>2 DEF Room
  <2>4. QED
    BY <2>3 DEF b, rgb
<1>2. K!AvxPlanar(w) = [pixels |-> Together(group, n), stop |-> n * 16]
  <2> HIDE DEF body, n
  <2>1. \A g \in 0..(n - 1) : group[g] = body(g)
    BY <1>1
  <2> HIDE DEF group
  <2>2. {body(g) : g \in 0..(n - 1)} = {group[g] : g \in 0..(n - 1)}
    BY <2>1
  <2>3. QED
    BY <2>2 DEF K!AvxPlanar, K!Kernel, Together, Fit3, n, body
<1>3. ASSUME NEW g \in Nat PROVE body(g) = Line(Full("planar"), 16 * g, 16 * g + 16)
  <2>1. Fits(Full("planar"), 16 * g, K!Vld(1, 16 * g, 0), c(g, 0), c(g, 0))
    <3> SUFFICES ASSUME NEW i \in Nat, i < 8
                 PROVE  <<16 * g + i, K!Vld(1, 16 * g, 0)[i], c(g, 0)[i], c(g, 0)[i]>> = Full("planar")[16 * g + i]
      BY DEF Fits
    <3>1. Full("planar")[16 * g + i] = <<16 * g + i, (16 * g + i), (16 * g + i) \div 2, (16 * g + i) \div 2>>
      <4>1. 16 * g + i \in Nat
        OBVIOUS
      <4>2. QED
        BY <4>1, PackedSample
    <3>2. K!Vld(1, 16 * g, 0)[i] = (16 * g + i)
      BY LumaLanes, 16 * g \in Nat
    <3>3. c(g, 0)[i] = (16 * g + i) \div 2
      BY DEF K!Lanes
    <3>4. QED
      BY <3>1, <3>2, <3>3
  <2>2. Fits(Full("planar"), 16 * g + 8, K!Vld(1, 16 * g + 8, 0), c(g, 8), c(g, 8))
    <3> SUFFICES ASSUME NEW i \in Nat, i < 8
                 PROVE  <<16 * g + 8 + i, K!Vld(1, 16 * g + 8, 0)[i], c(g, 8)[i], c(g, 8)[i]>> = Full("planar")[16 * g + 8 + i]
      BY DEF Fits
    <3>1. Full("planar")[16 * g + 8 + i] = <<16 * g + 8 + i, (16 * g + 8 + i), (16 * g + 8 + i) \div 2, (16 * g + 8 + i) \div 2>>
      <4>1. 16 * g + 8 + i \in Nat
        OBVIOUS
      <4>2. QED
        BY <4>1, PackedSample
    <3>2. K!Vld(1, 16 * g + 8, 0)[i] = (16 * g + 8 + i)
      BY LumaLanes, 16 * g + 8 \in Nat
    <3>3. c(g, 8)[i] = (16 * g + 8 + i) \div 2
      BY DEF K!Lanes
    <3>4. QED
      BY <3>1, <3>2, <3>3
  <2>3. part(g, 0) = K!Eight(16 * g, K!Vld(1, 16 * g, 0), c(g, 0), c(g, 0))
    BY 16 * g + 0 = 16 * g
  <2>6. part(g, 8) = K!Eight(16 * g + 8, K!Vld(1, 16 * g + 8, 0), c(g, 8), c(g, 8))
    OBVIOUS
  <2> HIDE DEF c, part
  <2>4. Both(part(g, 0), part(g, 8)) = Line(Full("planar"), 16 * g, 16 * g + 16)
    BY <2>1, <2>6, <2>2, <2>3, 16 * g \in Nat, 16 * g + 8 \in Nat, SixteenColumns
  <2>5. QED
    BY <2>4 DEF Both
<1>4. Whole(Full("planar"), 16, group)
  <2> HIDE DEF body
  <2>1. QED
    BY <1>3 DEF Whole
<1> HIDE DEF group, n
<1>5. QED
  BY <1>1, <1>2, <1>4, KernelMakes

\* Four gathered chroma samples of eight pixels a group (NEON).
LEMMA NeonPlanarStridedMakes ==
  ASSUME NEW w \in Nat
  PROVE  Makes(K!NeonPlanarStrided(w), Full("planar"), w)
<1> DEFINE c(g) == [i \in K!Lanes |-> IF i < 4 THEN 4 * g + i ELSE 0]
           body(g) == K!Eight(8 * g, K!Vld(1, 8 * g, 0), K!Zip1(c(g), c(g)), K!Zip1(c(g), c(g)))
           group == [g \in Nat |-> body(g)]
           n == Fit2(w, 8, 3 * w, 24)
<1>1. n \in Nat /\ n <= w \div 8
  <2> DEFINE b == 3 * w
  <2>1. b \in Nat
    OBVIOUS
  <2> HIDE DEF b
  <2>2. Fit2(w, 8, b, 24) \in Nat /\ Fit2(w, 8, b, 24) <= Room(w, 8)
    BY <2>1, GroupsFitTwo
  <2>3. Fit2(w, 8, b, 24) \in Nat /\ Fit2(w, 8, b, 24) <= w \div 8
    BY <2>2 DEF Room
  <2>4. QED
    BY <2>3 DEF b
<1>2. K!NeonPlanarStrided(w) = [pixels |-> Together(group, n), stop |-> n * 8]
  <2> HIDE DEF body, n
  <2>1. \A g \in 0..(n - 1) : group[g] = body(g)
    BY <1>1
  <2> HIDE DEF group
  <2>2. {body(g) : g \in 0..(n - 1)} = {group[g] : g \in 0..(n - 1)}
    BY <2>1
  <2>3. QED
    BY <2>2 DEF K!NeonPlanarStrided, K!Kernel, Together, Fit2, n, body
<1>3. ASSUME NEW g \in Nat PROVE body(g) = Line(Full("planar"), 8 * g, 8 * g + 8)
  <2>1. Fits(Full("planar"), 8 * g, K!Vld(1, 8 * g, 0), K!Zip1(c(g), c(g)), K!Zip1(c(g), c(g)))
    <3> SUFFICES ASSUME NEW i \in Nat, i < 8
                 PROVE  <<8 * g + i, K!Vld(1, 8 * g, 0)[i], K!Zip1(c(g), c(g))[i], K!Zip1(c(g), c(g))[i]>> = Full("planar")[8 * g + i]
      BY DEF Fits
    <3>1. Full("planar")[8 * g + i] = <<8 * g + i, (8 * g + i), (8 * g + i) \div 2, (8 * g + i) \div 2>>
      <4>1. 8 * g + i \in Nat
        OBVIOUS
      <4>2. QED
        BY <4>1, PackedSample
    <3>2. K!Vld(1, 8 * g, 0)[i] = (8 * g + i)
      BY LumaLanes, 8 * g \in Nat
    <3>3. K!Zip1(c(g), c(g))[i] = (8 * g + i) \div 2
      BY DEF K!Zip1, K!Lanes
    <3>4. QED
      BY <3>1, <3>2, <3>3
  <2>2. QED
    BY <2>1, EightColumns, 8 * g \in Nat
<1>4. Whole(Full("planar"), 8, group)
  <2> HIDE DEF body
  <2>1. QED
    BY <1>3 DEF Whole
<1> HIDE DEF group, n
<1>5. QED
  BY <1>1, <1>2, <1>4, KernelMakes

\* Eight pairs of chroma samples of sixteen pixels a group (NEON).
LEMMA NeonSemiMakes ==
  ASSUME NEW w \in Nat, NEW layout \in K!Semi
  PROVE  Makes(K!NeonSemi(layout, w), Full(layout), w)
<1> DEFINE u(g) == K!Vld(2, 16 * g, First(layout))
           v(g) == K!Vld(2, 16 * g, Second(layout))
           body(g) == K!Eight(16 * g, K!Vld(1, 16 * g, 0), K!Zip1(u(g), u(g)), K!Zip1(v(g), v(g)))
                      \cup K!Eight(16 * g + 8, K!Vld(1, 16 * g + 8, 0), K!Zip2(u(g), u(g)), K!Zip2(v(g), v(g)))
           group == [g \in Nat |-> body(g)]
           n == Fit3(w, 16, K!ChromaLength(layout, w), 16, 3 * w, 48)
<1>1. n \in Nat /\ n <= w \div 16
  <2> DEFINE b == K!ChromaLength(layout, w)
             rgb == 3 * w
  <2>1. b \in Nat
    BY DEF K!ChromaLength, K!Packed, K!Semi
  <2>2. rgb \in Nat
    OBVIOUS
  <2> HIDE DEF b, rgb
  <2>3. Fit3(w, 16, b, 16, rgb, 48) \in Nat /\ Fit3(w, 16, b, 16, rgb, 48) <= Room(w, 16)
    BY <2>1, <2>2, GroupsFit
  <2>4. Fit3(w, 16, b, 16, rgb, 48) \in Nat /\ Fit3(w, 16, b, 16, rgb, 48) <= w \div 16
    BY <2>3 DEF Room
  <2>5. QED
    BY <2>4 DEF b, rgb
<1>2. K!NeonSemi(layout, w) = [pixels |-> Together(group, n), stop |-> n * 16]
  <2> HIDE DEF body, n
  <2>1. \A g \in 0..(n - 1) : group[g] = body(g)
    BY <1>1
  <2> HIDE DEF group
  <2>2. {body(g) : g \in 0..(n - 1)} = {group[g] : g \in 0..(n - 1)}
    BY <2>1
  <2>3. QED
    BY <2>2 DEF K!NeonSemi, K!Kernel, First, Second, Together, Fit3, n, body
<1>3. ASSUME NEW g \in Nat PROVE body(g) = Line(Full(layout), 16 * g, 16 * g + 16)
  <2>1. First(layout) \in Nat /\ Second(layout) \in Nat
    BY SemiOffsets
  <2>2. Fits(Full(layout), 16 * g, K!Vld(1, 16 * g, 0), K!Zip1(u(g), u(g)), K!Zip1(v(g), v(g)))
    <3> SUFFICES ASSUME NEW i \in Nat, i < 8
                 PROVE  <<16 * g + i, K!Vld(1, 16 * g, 0)[i], K!Zip1(u(g), u(g))[i], K!Zip1(v(g), v(g))[i]>> = Full(layout)[16 * g + i]
      BY DEF Fits
    <3>1. Full(layout)[16 * g + i] = <<16 * g + i, (16 * g + i), 2 * ((16 * g + i) \div 2) + First(layout), 2 * ((16 * g + i) \div 2) + Second(layout)>>
      <4>1. 16 * g + i \in Nat
        OBVIOUS
      <4>2. QED
        BY <4>1, SemiOffsets
    <3>2. K!Vld(1, 16 * g, 0)[i] = (16 * g + i)
      BY LumaLanes, 16 * g \in Nat
    <3>3. K!Zip1(u(g), u(g))[i] = 2 * ((16 * g + i) \div 2) + First(layout)
      BY <2>1, ChromaLanes
    <3>4. K!Zip1(v(g), v(g))[i] = 2 * ((16 * g + i) \div 2) + Second(layout)
      BY <2>1, ChromaLanes
    <3>5. QED
      BY <3>1, <3>2, <3>3, <3>4
  <2>3. Fits(Full(layout), 16 * g + 8, K!Vld(1, 16 * g + 8, 0), K!Zip2(u(g), u(g)), K!Zip2(v(g), v(g)))
    <3> SUFFICES ASSUME NEW i \in Nat, i < 8
                 PROVE  <<16 * g + 8 + i, K!Vld(1, 16 * g + 8, 0)[i], K!Zip2(u(g), u(g))[i], K!Zip2(v(g), v(g))[i]>> = Full(layout)[16 * g + 8 + i]
      BY DEF Fits
    <3>1. Full(layout)[16 * g + 8 + i] = <<16 * g + 8 + i, (16 * g + 8 + i), 2 * ((16 * g + 8 + i) \div 2) + First(layout), 2 * ((16 * g + 8 + i) \div 2) + Second(layout)>>
      <4>1. 16 * g + 8 + i \in Nat
        OBVIOUS
      <4>2. QED
        BY <4>1, SemiOffsets
    <3>2. K!Vld(1, 16 * g + 8, 0)[i] = (16 * g + 8 + i)
      BY LumaLanes, 16 * g + 8 \in Nat
    <3>3. K!Zip2(u(g), u(g))[i] = 2 * ((16 * g + 8 + i) \div 2) + First(layout)
      BY <2>1, ChromaLanes
    <3>4. K!Zip2(v(g), v(g))[i] = 2 * ((16 * g + 8 + i) \div 2) + Second(layout)
      BY <2>1, ChromaLanes
    <3>5. QED
      BY <3>1, <3>2, <3>3, <3>4
  <2>4. body(g) = Both(K!Eight(16 * g, K!Vld(1, 16 * g, 0), K!Zip1(u(g), u(g)), K!Zip1(v(g), v(g))),
                      K!Eight(16 * g + 8, K!Vld(1, 16 * g + 8, 0), K!Zip2(u(g), u(g)), K!Zip2(v(g), v(g))))
    BY DEF Both
  <2> HIDE DEF u, v, body
  <2>5. QED
    BY <2>4, <2>2, <2>3, 16 * g \in Nat, 16 * g + 8 \in Nat, SixteenColumns
<1>4. Whole(Full(layout), 16, group)
  <2> HIDE DEF body
  <2>1. QED
    BY <1>3 DEF Whole
<1> HIDE DEF group, n
<1>5. QED
  BY <1>1, <1>2, <1>4, KernelMakes

\* The same of unpacked chroma (AVX2).
LEMMA AvxSemiMakes ==
  ASSUME NEW w \in Nat, NEW layout \in K!Semi
  PROVE  Makes(K!AvxSemi(layout, w), Full(layout), w)
<1> DEFINE c(g, from, d) == [i \in K!Lanes |-> 16 * g + 2 * ((from + i) \div 2) + d]
           part(g, from) == K!Eight(16 * g + from, K!Vld(1, 16 * g + from, 0),
                                c(g, from, First(layout)), c(g, from, 1 - First(layout)))
           body(g) == UNION {part(g, from) : from \in {0, 8}}
           group == [g \in Nat |-> body(g)]
           n == Fit3(w, 16, K!ChromaLength(layout, w), 16, 3 * w, 48)
<1>1. n \in Nat /\ n <= w \div 16
  <2> DEFINE b == K!ChromaLength(layout, w)
             rgb == 3 * w
  <2>1. b \in Nat
    BY DEF K!ChromaLength, K!Packed, K!Semi
  <2>2. rgb \in Nat
    OBVIOUS
  <2> HIDE DEF b, rgb
  <2>3. Fit3(w, 16, b, 16, rgb, 48) \in Nat /\ Fit3(w, 16, b, 16, rgb, 48) <= Room(w, 16)
    BY <2>1, <2>2, GroupsFit
  <2>4. Fit3(w, 16, b, 16, rgb, 48) \in Nat /\ Fit3(w, 16, b, 16, rgb, 48) <= w \div 16
    BY <2>3 DEF Room
  <2>5. QED
    BY <2>4 DEF b, rgb
<1>2. K!AvxSemi(layout, w) = [pixels |-> Together(group, n), stop |-> n * 16]
  <2> HIDE DEF body, n
  <2>1. \A g \in 0..(n - 1) : group[g] = body(g)
    BY <1>1
  <2> HIDE DEF group
  <2>2. {body(g) : g \in 0..(n - 1)} = {group[g] : g \in 0..(n - 1)}
    BY <2>1
  <2>3. QED
    BY <2>2 DEF K!AvxSemi, K!Kernel, First, Together, Fit3, n, body
<1>3. ASSUME NEW g \in Nat PROVE body(g) = Line(Full(layout), 16 * g, 16 * g + 16)
  <2>1. First(layout) \in Nat /\ Second(layout) \in Nat
    BY SemiOffsets
  <2>2. part(g, 0) = K!Eight(16 * g, K!Vld(1, 16 * g, 0), c(g, 0, First(layout)), c(g, 0, Second(layout)))
    BY SemiOffsets, 16 * g + 0 = 16 * g
  <2>3. part(g, 8) = K!Eight(16 * g + 8, K!Vld(1, 16 * g + 8, 0), c(g, 8, First(layout)), c(g, 8, Second(layout)))
    BY SemiOffsets
  <2>4. Fits(Full(layout), 16 * g, K!Vld(1, 16 * g, 0), c(g, 0, First(layout)), c(g, 0, Second(layout)))
    <3> SUFFICES ASSUME NEW i \in Nat, i < 8
                 PROVE  <<16 * g + i, K!Vld(1, 16 * g, 0)[i], c(g, 0, First(layout))[i], c(g, 0, Second(layout))[i]>> = Full(layout)[16 * g + i]
      BY DEF Fits
    <3>1. Full(layout)[16 * g + i] = <<16 * g + i, (16 * g + i), 2 * ((16 * g + i) \div 2) + First(layout), 2 * ((16 * g + i) \div 2) + Second(layout)>>
      <4>1. 16 * g + i \in Nat
        OBVIOUS
      <4>2. QED
        BY <4>1, SemiOffsets
    <3>2. K!Vld(1, 16 * g, 0)[i] = (16 * g + i)
      BY LumaLanes, 16 * g \in Nat
    <3>3. c(g, 0, First(layout))[i] = 2 * ((16 * g + i) \div 2) + First(layout)
      BY <2>1 DEF K!Lanes
    <3>4. c(g, 0, Second(layout))[i] = 2 * ((16 * g + i) \div 2) + Second(layout)
      BY <2>1 DEF K!Lanes
    <3>5. QED
      BY <3>1, <3>2, <3>3, <3>4
  <2>5. Fits(Full(layout), 16 * g + 8, K!Vld(1, 16 * g + 8, 0), c(g, 8, First(layout)), c(g, 8, Second(layout)))
    <3> SUFFICES ASSUME NEW i \in Nat, i < 8
                 PROVE  <<16 * g + 8 + i, K!Vld(1, 16 * g + 8, 0)[i], c(g, 8, First(layout))[i], c(g, 8, Second(layout))[i]>> = Full(layout)[16 * g + 8 + i]
      BY DEF Fits
    <3>1. Full(layout)[16 * g + 8 + i] = <<16 * g + 8 + i, (16 * g + 8 + i), 2 * ((16 * g + 8 + i) \div 2) + First(layout), 2 * ((16 * g + 8 + i) \div 2) + Second(layout)>>
      <4>1. 16 * g + 8 + i \in Nat
        OBVIOUS
      <4>2. QED
        BY <4>1, SemiOffsets
    <3>2. K!Vld(1, 16 * g + 8, 0)[i] = (16 * g + 8 + i)
      BY LumaLanes, 16 * g + 8 \in Nat
    <3>3. c(g, 8, First(layout))[i] = 2 * ((16 * g + 8 + i) \div 2) + First(layout)
      BY <2>1 DEF K!Lanes
    <3>4. c(g, 8, Second(layout))[i] = 2 * ((16 * g + 8 + i) \div 2) + Second(layout)
      BY <2>1 DEF K!Lanes
    <3>5. QED
      BY <3>1, <3>2, <3>3, <3>4
  <2>6. Both(part(g, 0), part(g, 8)) = Line(Full(layout), 16 * g, 16 * g + 16)
    <3> HIDE DEF part, c
    <3>1. QED
      BY <2>2, <2>3, <2>4, <2>5, 16 * g \in Nat, 16 * g + 8 \in Nat, SixteenColumns
  <2>7. QED
    <3> HIDE DEF part
    <3>1. QED
      BY <2>6 DEF Both
<1>4. Whole(Full(layout), 16, group)
  <2> HIDE DEF body
  <2>1. QED
    BY <1>3 DEF Whole
<1> HIDE DEF group, n
<1>5. QED
  BY <1>1, <1>2, <1>4, KernelMakes

\* Thirty-two bytes cut in halves, masked; then what is left, pair by pair (AVX2).
LEMMA AvxPackedMakes ==
  ASSUME NEW w \in Nat, w % 2 = 0, NEW layout \in K!Packed
  PROVE  Makes(K!AvxPacked(layout, w), Full(layout), w)
<1> DEFINE pairs == K!Groups({<<2 * w, 4>>, <<3 * w, 6>>})
           m == K!AvxPackedMasks(layout)
           y(g, second) == K!Halves(32 * g, LAMBDA i : m.y[i], second)
           u(g, second) == K!Halves(32 * g, LAMBDA i : m.u[i], second)
           v(g, second) == K!Halves(32 * g, LAMBDA i : m.v[i], second)
           part(g, second) == K!Eight(16 * g + (IF second THEN 8 ELSE 0), y(g, second), u(g, second), v(g, second))
           body(g) == UNION {part(g, second) : second \in BOOLEAN}
           group == [g \in Nat |-> body(g)]
           n == pairs \div 8
<1>1. pairs = w \div 2
  <2>1. (2 * w) \div 4 = w \div 2 /\ (3 * w) \div 6 = w \div 2 /\ w \div 2 \in Nat
    OBVIOUS
  <2>2. {l[1] \div l[2] : l \in {<<2 * w, 4>>, <<3 * w, 6>>}} = {w \div 2}
    <3>1. {l[1] \div l[2] : l \in {<<2 * w, 4>>, <<3 * w, 6>>}} = {(2 * w) \div 4, (3 * w) \div 6}
      OBVIOUS
    <3>2. QED
      BY <2>1, <3>1
  <2>3. K!Min({w \div 2}) = w \div 2
    BY <2>1 DEF K!Min
  <2>4. QED
    BY <2>2, <2>3 DEF K!Groups
<1> HIDE DEF pairs
<1>2. n \in Nat /\ 16 * n <= w /\ 2 * pairs = w /\ (16 * n) % 2 = 0
  BY <1>1
<1>3. K!AvxPacked(layout, w) = [pixels |-> Together(group, n)
                                           \cup {K!Sample(layout, x) : x \in (16 * n)..(2 * pairs - 1)},
                                stop |-> w]
  <2> HIDE DEF body, n
  <2>1. \A g \in 0..(n - 1) : group[g] = body(g)
    BY <1>2
  <2> HIDE DEF group
  <2>2. {body(g) : g \in 0..(n - 1)} = {group[g] : g \in 0..(n - 1)}
    BY <2>1
  <2>3. QED
    BY <2>2 DEF K!AvxPacked, Together, pairs, n, body
<1>4. ASSUME NEW g \in Nat PROVE body(g) = Line(Full(layout), 16 * g, 16 * g + 16)
  <2>1. ASSUME NEW i \in Nat, i < 8
        PROVE  /\ m.y[i] = 2 * i + Luma(layout)
               /\ m.u[i] = 4 * (i \div 2) + Blue(layout)
               /\ m.v[i] = 4 * (i \div 2) + Red(layout)
    BY <2>1 DEF K!AvxPackedMasks, K!Lanes, Luma, Blue, Red
  <2> HIDE DEF m
  <2> DEFINE l == Luma(layout)
             b == Blue(layout)
             r == Red(layout)
             y0 == y(g, FALSE)
             u0 == u(g, FALSE)
             v0 == v(g, FALSE)
             y1 == y(g, TRUE)
             u1 == u(g, TRUE)
             v1 == v(g, TRUE)
  <2>2. l \in Nat /\ b \in Nat /\ r \in Nat
    BY PackedOffsets
  <2> HIDE DEF l, b, r
  <2>3. Fits(Full(layout), 16 * g, y0, u0, v0)
    <3> SUFFICES ASSUME NEW i \in Nat, i < 8
                 PROVE  <<16 * g + i, y0[i], u0[i], v0[i]>> = Full(layout)[16 * g + i]
      BY DEF Fits
    <3>1. Full(layout)[16 * g + i] = <<16 * g + i, 2 * (16 * g + i) + l, 4 * ((16 * g + i) \div 2) + b, 4 * ((16 * g + i) \div 2) + r>>
      <4>1. 16 * g + i \in Nat
        OBVIOUS
      <4>2. QED
        BY <4>1, PackedOffsets DEF l, b, r
    <3>2. y0[i] = 2 * (16 * g + i) + l
      <4>1. y0[i] = 32 * g + 0 + m.y[i]
        BY DEF K!Halves, K!Lanes
      <4>2. m.y[i] = 2 * i + l
        BY <2>1 DEF l
      <4> HIDE DEF y0, m
      <4>3. 32 * g + 0 + (2 * i + l) = 2 * (16 * g + i) + l
        BY <2>2
      <4>4. QED
        BY <4>1, <4>2, <4>3
    <3>3. u0[i] = 4 * ((16 * g + i) \div 2) + b
      <4>1. u0[i] = 32 * g + 0 + m.u[i]
        BY DEF K!Halves, K!Lanes
      <4>2. m.u[i] = 4 * (i \div 2) + b
        BY <2>1 DEF b
      <4> HIDE DEF u0, m
      <4>3. 32 * g + 0 + (4 * (i \div 2) + b) = 4 * ((16 * g + i) \div 2) + b
        BY <2>2
      <4>4. QED
        BY <4>1, <4>2, <4>3
    <3>4. v0[i] = 4 * ((16 * g + i) \div 2) + r
      <4>1. v0[i] = 32 * g + 0 + m.v[i]
        BY DEF K!Halves, K!Lanes
      <4>2. m.v[i] = 4 * (i \div 2) + r
        BY <2>1 DEF r
      <4> HIDE DEF v0, m
      <4>3. 32 * g + 0 + (4 * (i \div 2) + r) = 4 * ((16 * g + i) \div 2) + r
        BY <2>2
      <4>4. QED
        BY <4>1, <4>2, <4>3
    <3>5. QED
      BY <3>1, <3>2, <3>3, <3>4
  <2>4. Fits(Full(layout), 16 * g + 8, y1, u1, v1)
    <3> SUFFICES ASSUME NEW i \in Nat, i < 8
                 PROVE  <<16 * g + 8 + i, y1[i], u1[i], v1[i]>> = Full(layout)[16 * g + 8 + i]
      BY DEF Fits
    <3>1. Full(layout)[16 * g + 8 + i] = <<16 * g + 8 + i, 2 * (16 * g + 8 + i) + l, 4 * ((16 * g + 8 + i) \div 2) + b, 4 * ((16 * g + 8 + i) \div 2) + r>>
      <4>1. 16 * g + 8 + i \in Nat
        OBVIOUS
      <4>2. QED
        BY <4>1, PackedOffsets DEF l, b, r
    <3>2. y1[i] = 2 * (16 * g + 8 + i) + l
      <4>1. y1[i] = 32 * g + 16 + m.y[i]
        BY DEF K!Halves, K!Lanes
      <4>2. m.y[i] = 2 * i + l
        BY <2>1 DEF l
      <4> HIDE DEF y1, m
      <4>3. 32 * g + 16 + (2 * i + l) = 2 * (16 * g + 8 + i) + l
        BY <2>2
      <4>4. QED
        BY <4>1, <4>2, <4>3
    <3>3. u1[i] = 4 * ((16 * g + 8 + i) \div 2) + b
      <4>1. u1[i] = 32 * g + 16 + m.u[i]
        BY DEF K!Halves, K!Lanes
      <4>2. m.u[i] = 4 * (i \div 2) + b
        BY <2>1 DEF b
      <4> HIDE DEF u1, m
      <4>3. 32 * g + 16 + (4 * (i \div 2) + b) = 4 * ((16 * g + 8 + i) \div 2) + b
        BY <2>2
      <4>4. QED
        BY <4>1, <4>2, <4>3
    <3>4. v1[i] = 4 * ((16 * g + 8 + i) \div 2) + r
      <4>1. v1[i] = 32 * g + 16 + m.v[i]
        BY DEF K!Halves, K!Lanes
      <4>2. m.v[i] = 4 * (i \div 2) + r
        BY <2>1 DEF r
      <4> HIDE DEF v1, m
      <4>3. 32 * g + 16 + (4 * (i \div 2) + r) = 4 * ((16 * g + 8 + i) \div 2) + r
        BY <2>2
      <4>4. QED
        BY <4>1, <4>2, <4>3
    <3>5. QED
      BY <3>1, <3>2, <3>3, <3>4
  <2>5. part(g, FALSE) = K!Eight(16 * g, y0, u0, v0)
    BY 16 * g + 0 = 16 * g
  <2>6. part(g, TRUE) = K!Eight(16 * g + 8, y1, u1, v1)
    OBVIOUS
  <2>7. body(g) = Both(part(g, FALSE), part(g, TRUE))
    <3> HIDE DEF part
    <3>1. QED
      BY DEF Both
  <2> HIDE DEF body, part, y0, u0, v0, y1, u1, v1
  <2>8. Both(K!Eight(16 * g, y0, u0, v0), K!Eight(16 * g + 8, y1, u1, v1)) = Line(Full(layout), 16 * g, 16 * g + 16)
    BY <2>3, <2>4, 16 * g \in Nat, 16 * g + 8 \in Nat, SixteenColumns
  <2>9. QED
    BY <2>5, <2>6, <2>7, <2>8
<1>5. Whole(Full(layout), 16, group)
  <2> HIDE DEF body
  <2>1. QED
    BY <1>4 DEF Whole
<1> HIDE DEF group, n
<1>6. Together(group, n) = Line(Full(layout), 0, n * 16)
  BY <1>2, <1>5, GroupsJoin DEF Whole
<1>7. {K!Sample(layout, x) : x \in (16 * n)..(2 * pairs - 1)} = Line(Full(layout), n * 16, w)
  BY <1>2, TailLine, n * 16 = 16 * n, n * 16 \in Nat
<1>8. QED
  <2>1. n * 16 \in Nat /\ n * 16 <= w /\ 0 \in Nat /\ 0 <= n * 16
    BY <1>2
  <2>2. Line(Full(layout), 0, n * 16) \cup Line(Full(layout), n * 16, w) = Line(Full(layout), 0, w)
    BY <2>1, LinesJoin
  <2>3. QED
    BY <1>3, <1>6, <1>7, <2>2 DEF Makes

\* No kernel makes no part of a row.
LEMMA NoKernelMakes ==
  ASSUME NEW s, NEW w \in Nat
  PROVE  Makes(K!NoKernel, s, w)
BY DEF Makes, K!NoKernel, Line, Columns

\* Column x with the chroma of column c.
Shared(layout, c, x) == [K!Sample(layout, x) EXCEPT ![3] = K!Sample(layout, c)[3], ![4] = K!Sample(layout, c)[4]]

\* The columns of a pair have the chroma of the first.
LEMMA PairShares ==
  ASSUME NEW layout \in K!Layouts, NEW c \in Nat, c % 2 = 0, NEW x \in {c, c + 1}
  PROVE  Shared(layout, c, x) = K!Sample(layout, x)
<1>1. x \in Nat /\ x \div 2 = c \div 2
  OBVIOUS
<1>2. \E a, b, u, v : /\ K!Sample(layout, x) = <<a, b, u, v>>
                      /\ K!Sample(layout, c)[3] = u /\ K!Sample(layout, c)[4] = v
  <2>1. CASE layout = "yuyv"
    BY <1>1, <2>1 DEF K!Sample
  <2>2. CASE layout = "uyvy"
    BY <1>1, <2>2 DEF K!Sample
  <2>3. CASE layout = "nv12"
    BY <1>1, <2>3 DEF K!Sample
  <2>4. CASE layout = "nv21"
    BY <1>1, <2>4 DEF K!Sample
  <2>5. CASE layout = "planar"
    BY <1>1, <2>5 DEF K!Sample
  <2>6. QED
    BY <2>1, <2>2, <2>3, <2>4, <2>5 DEF K!Layouts, K!Packed, K!Semi
<1>3. PICK a, b, u, v : /\ K!Sample(layout, x) = <<a, b, u, v>>
                        /\ K!Sample(layout, c)[3] = u /\ K!Sample(layout, c)[4] = v
  BY <1>2
<1>4. [<<a, b, u, v>> EXCEPT ![3] = u, ![4] = v] = <<a, b, u, v>>
  OBVIOUS
<1>5. QED
  BY <1>3, <1>4 DEF Shared

\* The scalar tail makes the row from an even column on.
LEMMA TailMakes ==
  ASSUME NEW layout \in K!Layouts, NEW w \in Nat, NEW stop \in Nat, stop % 2 = 0, stop <= w
  PROVE  K!RowTail(layout, stop, w) = Line(Full(layout), stop, w)
<1> DEFINE px(c, x) == Shared(layout, c, x)
           Firsts == {stop + 2 * k : k \in 0..w} \cap 0..(w - 1)
           pair(c) == {px(c, x) : x \in {c, c + 1} \cap 0..(w - 1)}
<1>1. ASSUME NEW c \in Firsts, NEW x \in {c, c + 1} \cap 0..(w - 1)
      PROVE  x \in Columns(stop, w) /\ px(c, x) = Full(layout)[x]
  <2>1. c \in Nat /\ c % 2 = 0 /\ stop <= c
    OBVIOUS
  <2>2. x \in Columns(stop, w) /\ x \in Nat
    BY <2>1 DEF Columns
  <2>3. px(c, x) = K!Sample(layout, x)
    <3>1. x \in {c, c + 1}
      OBVIOUS
    <3> HIDE DEF Firsts
    <3>2. QED
      BY <2>1, <3>1, PairShares
  <2> HIDE DEF px
  <2>4. QED
    BY <2>2, <2>3 DEF Full
<1>2. ASSUME NEW x \in Columns(stop, w)
      PROVE  \E c \in Firsts : x \in {c, c + 1} \cap 0..(w - 1)
  <2> DEFINE k == (x - stop) \div 2
             c == stop + 2 * k
  <2>1. x \in Nat /\ stop <= x /\ x < w
    BY DEF Columns
  <2>2. k \in 0..w /\ (x = c \/ x = c + 1) /\ c \in 0..(w - 1)
    BY <2>1
  <2>3. c \in Firsts /\ x \in {c, c + 1} \cap 0..(w - 1)
    BY <2>1, <2>2
  <2>4. QED
    BY <2>3
<1> HIDE DEF px, Firsts
<1>3. ASSUME NEW p \in UNION {pair(c) : c \in Firsts} PROVE p \in Line(Full(layout), stop, w)
  <2>1. PICK c \in Firsts : p \in pair(c)
    OBVIOUS
  <2>2. PICK x \in {c, c + 1} \cap 0..(w - 1) : p = px(c, x)
    BY <2>1
  <2>3. QED
    BY <1>1, <2>2 DEF Line
<1>4. ASSUME NEW p \in Line(Full(layout), stop, w) PROVE p \in UNION {pair(c) : c \in Firsts}
  <2>1. PICK x \in Columns(stop, w) : p = Full(layout)[x]
    BY DEF Line
  <2>2. PICK c \in Firsts : x \in {c, c + 1} \cap 0..(w - 1)
    BY <1>2
  <2>3. px(c, x) \in pair(c) /\ p = px(c, x)
    BY <1>1, <2>1, <2>2
  <2>4. QED
    BY <2>2, <2>3
<1>5. QED
  BY <1>3, <1>4 DEF K!RowTail, Shared, px, Firsts

\* So a row is whole whatever part of it the kernel makes.
LEMMA RowWhole ==
  ASSUME NEW layout \in K!Layouts, NEW w \in Nat, NEW kernel, Makes(kernel, Full(layout), w)
  PROVE  K!Row(kernel, layout, w) = K!SampleRow(layout, w)
<1>1. /\ kernel.stop \in Nat /\ kernel.stop % 2 = 0 /\ kernel.stop <= w
      /\ kernel.pixels = Line(Full(layout), 0, kernel.stop)
  BY DEF Makes
<1>2. K!RowTail(layout, kernel.stop, w) = Line(Full(layout), kernel.stop, w)
  BY <1>1, TailMakes
<1>3. Line(Full(layout), 0, kernel.stop) \cup Line(Full(layout), kernel.stop, w) = Line(Full(layout), 0, w)
  BY <1>1, LinesJoin, 0 \in Nat, 0 <= kernel.stop
<1>4. K!SampleRow(layout, w) = Line(Full(layout), 0, w)
  BY TailLine, 0 \in Nat DEF K!SampleRow
<1>5. QED
  BY <1>1, <1>2, <1>3, <1>4 DEF K!Row

\* Rows in pairs, and a last one alone, are the rows of the frame.
LEMMA FramePaired ==
  ASSUME NEW layout \in K!Layouts, NEW w \in Nat, NEW h \in Nat, NEW kernel, Makes(kernel, Full(layout), w)
  PROVE  K!PairedFrame(K!TwoRows(kernel), kernel, layout, w, h) = K!SampleFrame(layout, w, h)
<1> DEFINE row == K!SampleRow(layout, w)
           F2 == UNION {K!OnRow(2 * k + r, row) : k \in 0..(h \div 2 - 1), r \in {0, 1}}
           last == IF h % 2 = 1 THEN K!OnRow(h - 1, row) ELSE {}
           all == UNION {K!OnRow(y, row) : y \in 0..(h - 1)}
<1>1. K!PairedFrame(K!TwoRows(kernel), kernel, layout, w, h) = F2 \cup last
  <2>1. K!Row(kernel, layout, w) = row
    BY RowWhole
  <2>2. K!TwoRows(kernel).one = kernel /\ K!TwoRows(kernel).rows = {0, 1}
    BY DEF K!TwoRows
  <2> HIDE DEF row
  <2>3. QED
    BY <2>1, <2>2 DEF K!PairedFrame
<1>2. K!SampleFrame(layout, w, h) = all
  BY DEF K!SampleFrame
<1> HIDE DEF row
<1>3. ASSUME NEW p \in F2 \cup last PROVE p \in all
  <2>1. CASE p \in F2
    <3>1. PICK k \in 0..(h \div 2 - 1), r \in {0, 1} : p \in K!OnRow(2 * k + r, row)
      BY <2>1
    <3>2. 2 * k + r \in 0..(h - 1)
      OBVIOUS
    <3>3. QED
      BY <3>1, <3>2
  <2>2. CASE p \in last
    <3>1. h - 1 \in 0..(h - 1) /\ p \in K!OnRow(h - 1, row)
      BY <2>2
    <3>2. QED
      BY <3>1
  <2>3. QED
    BY <1>3, <2>1, <2>2
<1>4. ASSUME NEW p \in all PROVE p \in F2 \cup last
  <2>1. PICK y \in 0..(h - 1) : p \in K!OnRow(y, row)
    OBVIOUS
  <2>2. CASE y \div 2 < h \div 2
    <3> DEFINE k == y \div 2
               r == y % 2
    <3>1. k \in 0..(h \div 2 - 1) /\ r \in {0, 1} /\ y = 2 * k + r
      BY <2>2
    <3> HIDE DEF k, r
    <3>2. p \in F2
      BY <2>1, <3>1
    <3>3. QED
      BY <3>2
  <2>3. CASE ~(y \div 2 < h \div 2)
    <3>1. h % 2 = 1 /\ y = h - 1
      BY <2>3
    <3>2. QED
      BY <2>1, <3>1
  <2>4. QED
    BY <2>2, <2>3
<1> HIDE DEF F2, last, all
<1>5. QED
  BY <1>1, <1>2, <1>3, <1>4

-----------------------------------------------------------------------------
(* Rows of half size.                                                       *)

\* Of the bytes of an even pixel.
LEMMA HalfOffsets ==
  ASSUME NEW x \in Nat
  PROVE  /\ \A layout \in K!Packed : Half(layout)[x] = <<x, 4 * x + Luma(layout), 4 * x + Blue(layout), 4 * x + Red(layout)>>
         /\ \A layout \in K!Semi : Half(layout)[x] = <<x, 2 * x, 2 * x + First(layout), 2 * x + Second(layout)>>
         /\ Half("planar")[x] = <<x, 2 * x, x, x>>
<1>1. 2 * x \in Nat /\ (2 * x) \div 2 = x /\ 2 * (2 * x) = 4 * x /\ 4 * x + 0 = 4 * x /\ 2 * x + 0 = 2 * x
  OBVIOUS
<1>2. ASSUME NEW layout, NEW a, NEW b, NEW c, K!Sample(layout, 2 * x) = <<2 * x, a, b, c>>
      PROVE  Half(layout)[x] = <<x, a, b, c>>
  <2>1. [<<2 * x, a, b, c>> EXCEPT ![1] = x] = <<x, a, b, c>>
    OBVIOUS
  <2>2. QED
    BY <1>2, <2>1 DEF Half, K!HalfSample
<1>3. ASSUME NEW layout \in K!Packed
      PROVE  Half(layout)[x] = <<x, 4 * x + Luma(layout), 4 * x + Blue(layout), 4 * x + Red(layout)>>
  <2>1. Full(layout)[2 * x] = <<2 * x, 4 * x + Luma(layout), 4 * x + Blue(layout), 4 * x + Red(layout)>>
    BY <1>1, PackedOffsets
  <2>2. Full(layout)[2 * x] = K!Sample(layout, 2 * x)
    BY <1>1 DEF Full
  <2>3. QED
    BY <1>2, <2>1, <2>2
<1>4. ASSUME NEW layout \in K!Semi
      PROVE  Half(layout)[x] = <<x, 2 * x, 2 * x + First(layout), 2 * x + Second(layout)>>
  <2>1. Full(layout)[2 * x] = <<2 * x, 2 * x, 2 * x + First(layout), 2 * x + Second(layout)>>
    BY <1>1, SemiOffsets
  <2>2. Full(layout)[2 * x] = K!Sample(layout, 2 * x)
    BY <1>1 DEF Full
  <2>3. QED
    BY <1>2, <2>1, <2>2
<1>5. Half("planar")[x] = <<x, 2 * x, x, x>>
  <2>1. Full("planar")[2 * x] = <<2 * x, 2 * x, x, x>>
    BY <1>1, PackedSample
  <2>2. Full("planar")[2 * x] = K!Sample("planar", 2 * x)
    BY <1>1 DEF Full
  <2>3. QED
    BY <1>2, <2>1, <2>2
<1>6. QED
  BY <1>3, <1>4, <1>5

\* Eight even pixels of two bytes a group (NEON).
LEMMA NeonPackedHalfMakes ==
  ASSUME NEW w \in Nat, NEW layout \in K!Packed
  PROVE  Makes(K!NeonPackedHalf(layout, w), Half(layout), w \div 2)
<1> DEFINE p(g, c) == K!Vld(4, 32 * g, c)
           body(g) == IF layout = "uyvy" THEN K!Eight(8 * g, p(g, 1), p(g, 0), p(g, 2))
                                         ELSE K!Eight(8 * g, p(g, 0), p(g, 1), p(g, 3))
           group == [g \in Nat |-> body(g)]
           n == Fit2(2 * w, 32, 3 * (w \div 2), 24)
<1>1. n \in Nat /\ n <= (w \div 2) \div 8
  <2> DEFINE a == 2 * w
             b == 3 * (w \div 2)
  <2>1. a \in Nat /\ b \in Nat
    OBVIOUS
  <2>2. b \div 24 = (w \div 2) \div 8
    OBVIOUS
  <2> HIDE DEF a, b
  <2>3. Fit2(a, 32, b, 24) \in Nat /\ Fit2(a, 32, b, 24) <= Room(b, 24)
    BY <2>1, GroupsFitTwo
  <2>4. Fit2(a, 32, b, 24) \in Nat /\ Fit2(a, 32, b, 24) <= (w \div 2) \div 8
    BY <2>2, <2>3 DEF Room
  <2>5. QED
    BY <2>4 DEF a, b
<1>2. K!NeonPackedHalf(layout, w) = [pixels |-> Together(group, n), stop |-> n * 8]
  <2> HIDE DEF body, n
  <2>1. \A g \in 0..(n - 1) : group[g] = body(g)
    BY <1>1
  <2> HIDE DEF group
  <2>2. {body(g) : g \in 0..(n - 1)} = {group[g] : g \in 0..(n - 1)}
    BY <2>1
  <2>3. QED
    BY <2>2 DEF K!NeonPackedHalf, K!Kernel, Together, Fit2, n, body
<1>3. ASSUME NEW g \in Nat PROVE body(g) = Line(Half(layout), 8 * g, 8 * g + 8)
  <2> DEFINE l == Luma(layout)
             b == Blue(layout)
             r == Red(layout)
  <2>1. l \in Nat /\ b \in Nat /\ r \in Nat
    BY PackedOffsets
  <2>2. body(g) = K!Eight(8 * g, p(g, l), p(g, b), p(g, r))
    BY DEF Luma, Blue, Red
  <2> HIDE DEF l, b, r, body
  <2>3. Fits(Half(layout), 8 * g, p(g, l), p(g, b), p(g, r))
    <3> SUFFICES ASSUME NEW i \in Nat, i < 8
                 PROVE  <<8 * g + i, p(g, l)[i], p(g, b)[i], p(g, r)[i]>> = Half(layout)[8 * g + i]
      BY DEF Fits
    <3>1. Half(layout)[8 * g + i] = <<8 * g + i, 4 * (8 * g + i) + l, 4 * (8 * g + i) + b, 4 * (8 * g + i) + r>>
      <4>1. 8 * g + i \in Nat
        OBVIOUS
      <4>2. QED
        BY <4>1, HalfOffsets DEF l, b, r
    <3>2. p(g, l)[i] = 4 * (8 * g + i) + l
      BY <2>1, EvenLanes
    <3>3. p(g, b)[i] = 4 * (8 * g + i) + b
      BY <2>1, EvenLanes
    <3>4. p(g, r)[i] = 4 * (8 * g + i) + r
      BY <2>1, EvenLanes
    <3>5. QED
      BY <3>1, <3>2, <3>3, <3>4
  <2>4. QED
    BY <2>2, <2>3, EightColumns, 8 * g \in Nat
<1>4. Whole(Half(layout), 8, group)
  <2> HIDE DEF body
  <2>1. QED
    BY <1>3 DEF Whole
<1> HIDE DEF group, n
<1>5. QED
  BY <1>1, <1>2, <1>4, KernelMakes, w \div 2 \in Nat

\* The same of shuffled quarters (AVX2).
LEMMA AvxPackedHalfMakes ==
  ASSUME NEW w \in Nat, NEW layout \in K!Packed
  PROVE  Makes(K!AvxPackedHalf(layout, w), Half(layout), w \div 2)
<1> DEFINE p(g, c) == K!Quarters(32 * g, LAMBDA i : 4 * i + c)
           body(g) == IF layout = "uyvy" THEN K!Eight(8 * g, p(g, 1), p(g, 0), p(g, 2))
                                         ELSE K!Eight(8 * g, p(g, 0), p(g, 1), p(g, 3))
           group == [g \in Nat |-> body(g)]
           n == Fit2(2 * w, 32, 3 * (w \div 2), 24)
<1>1. n \in Nat /\ n <= (w \div 2) \div 8
  <2> DEFINE a == 2 * w
             b == 3 * (w \div 2)
  <2>1. a \in Nat /\ b \in Nat
    OBVIOUS
  <2>2. b \div 24 = (w \div 2) \div 8
    OBVIOUS
  <2> HIDE DEF a, b
  <2>3. Fit2(a, 32, b, 24) \in Nat /\ Fit2(a, 32, b, 24) <= Room(b, 24)
    BY <2>1, GroupsFitTwo
  <2>4. Fit2(a, 32, b, 24) \in Nat /\ Fit2(a, 32, b, 24) <= (w \div 2) \div 8
    BY <2>2, <2>3 DEF Room
  <2>5. QED
    BY <2>4 DEF a, b
<1>2. K!AvxPackedHalf(layout, w) = [pixels |-> Together(group, n), stop |-> n * 8]
  <2> HIDE DEF body, n
  <2>1. \A g \in 0..(n - 1) : group[g] = body(g)
    BY <1>1
  <2> HIDE DEF group
  <2>2. {body(g) : g \in 0..(n - 1)} = {group[g] : g \in 0..(n - 1)}
    BY <2>1
  <2>3. QED
    BY <2>2 DEF K!AvxPackedHalf, K!Kernel, Together, Fit2, n, body
<1>3. ASSUME NEW g \in Nat PROVE body(g) = Line(Half(layout), 8 * g, 8 * g + 8)
  <2> DEFINE l == Luma(layout)
             b == Blue(layout)
             r == Red(layout)
  <2>1. l \in Nat /\ b \in Nat /\ r \in Nat
    BY PackedOffsets
  <2>2. body(g) = K!Eight(8 * g, p(g, l), p(g, b), p(g, r))
    <3> HIDE DEF p
    <3>1. QED
      BY DEF Luma, Blue, Red
  <2> HIDE DEF l, b, r, body
  <2>3. ASSUME NEW c \in Nat, NEW i \in Nat, i < 8
        PROVE  p(g, c)[i] = 4 * (8 * g + i) + c
    <3>1. p(g, c)[i] = 32 * g + (IF i < 4 THEN 4 * i + c ELSE 16 + (4 * (i - 4) + c))
      BY <2>3 DEF K!Quarters, K!Lanes
    <3> HIDE DEF p
    <3>2. QED
      BY <3>1
  <2> HIDE DEF p
  <2>4. Fits(Half(layout), 8 * g, p(g, l), p(g, b), p(g, r))
    <3> SUFFICES ASSUME NEW i \in Nat, i < 8
                 PROVE  <<8 * g + i, p(g, l)[i], p(g, b)[i], p(g, r)[i]>> = Half(layout)[8 * g + i]
      BY DEF Fits
    <3>1. Half(layout)[8 * g + i] = <<8 * g + i, 4 * (8 * g + i) + l, 4 * (8 * g + i) + b, 4 * (8 * g + i) + r>>
      <4>1. 8 * g + i \in Nat
        OBVIOUS
      <4>2. QED
        BY <4>1, HalfOffsets DEF l, b, r
    <3>2. p(g, l)[i] = 4 * (8 * g + i) + l
      BY <2>1, <2>3
    <3>3. p(g, b)[i] = 4 * (8 * g + i) + b
      BY <2>1, <2>3
    <3>4. p(g, r)[i] = 4 * (8 * g + i) + r
      BY <2>1, <2>3
    <3>5. QED
      BY <3>1, <3>2, <3>3, <3>4
  <2>5. QED
    BY <2>2, <2>4, EightColumns, 8 * g \in Nat
<1>4. Whole(Half(layout), 8, group)
  <2> HIDE DEF body
  <2>1. QED
    BY <1>3 DEF Whole
<1> HIDE DEF group, n
<1>5. QED
  BY <1>1, <1>2, <1>4, KernelMakes, w \div 2 \in Nat

\* Even luma samples and adjacent chroma samples (NEON).
LEMMA NeonPlanarHalfMakes ==
  ASSUME NEW w \in Nat
  PROVE  Makes(K!NeonPlanarHalf(w), Half("planar"), w \div 2)
<1> DEFINE y(g) == K!Vld(2, 16 * g, 0)
           c(g) == K!Vld(1, 8 * g, 0)
           body(g) == K!Eight(8 * g, y(g), c(g), c(g))
           group == [g \in Nat |-> body(g)]
           n == Fit3(w, 16, w \div 2, 8, 3 * (w \div 2), 24)
<1>1. n \in Nat /\ n <= (w \div 2) \div 8
  <2> DEFINE b == w \div 2
             rgb == 3 * (w \div 2)
  <2>1. b \in Nat /\ rgb \in Nat
    OBVIOUS
  <2> HIDE DEF b, rgb
  <2>2. Fit3(w, 16, b, 8, rgb, 24) \in Nat /\ Fit3(w, 16, b, 8, rgb, 24) <= Room(b, 8)
    BY <2>1, GroupsFit
  <2>3. Fit3(w, 16, b, 8, rgb, 24) \in Nat /\ Fit3(w, 16, b, 8, rgb, 24) <= (w \div 2) \div 8
    BY <2>2 DEF Room, b
  <2>4. QED
    BY <2>3 DEF b, rgb
<1>2. K!NeonPlanarHalf(w) = [pixels |-> Together(group, n), stop |-> n * 8]
  <2> HIDE DEF body, n
  <2>1. \A g \in 0..(n - 1) : group[g] = body(g)
    BY <1>1
  <2> HIDE DEF group
  <2>2. {body(g) : g \in 0..(n - 1)} = {group[g] : g \in 0..(n - 1)}
    BY <2>1
  <2>3. QED
    BY <2>2 DEF K!NeonPlanarHalf, K!Kernel, Together, Fit3, n, body
<1>3. ASSUME NEW g \in Nat PROVE body(g) = Line(Half("planar"), 8 * g, 8 * g + 8)
  <2>1. Fits(Half("planar"), 8 * g, y(g), c(g), c(g))
    <3> SUFFICES ASSUME NEW i \in Nat, i < 8
                 PROVE  <<8 * g + i, y(g)[i], c(g)[i], c(g)[i]>> = Half("planar")[8 * g + i]
      BY DEF Fits
    <3>1. Half("planar")[8 * g + i] = <<8 * g + i, 2 * (8 * g + i), (8 * g + i), (8 * g + i)>>
      <4>1. 8 * g + i \in Nat
        OBVIOUS
      <4>2. QED
        BY <4>1, HalfOffsets
    <3>2. y(g)[i] = 2 * (8 * g + i)
      BY EvenLanes
    <3>3. c(g)[i] = (8 * g + i)
      BY EvenLanes
    <3>4. QED
      BY <3>1, <3>2, <3>3
  <2> HIDE DEF y, c
  <2>2. QED
    BY <2>1, EightColumns, 8 * g \in Nat
<1>4. Whole(Half("planar"), 8, group)
  <2> HIDE DEF body
  <2>1. QED
    BY <1>3 DEF Whole
<1> HIDE DEF group, n
<1>5. QED
  BY <1>1, <1>2, <1>4, KernelMakes, w \div 2 \in Nat

\* Even luma samples and adjacent chroma samples (AVX2).
LEMMA AvxPlanarHalfMakes ==
  ASSUME NEW w \in Nat
  PROVE  Makes(K!AvxPlanarHalf(w), Half("planar"), w \div 2)
<1> DEFINE y(g) == K!Vld(2, 16 * g, 0)
           c(g) == K!Vld(1, 8 * g, 0)
           body(g) == K!Eight(8 * g, y(g), c(g), c(g))
           group == [g \in Nat |-> body(g)]
           n == Fit3(w, 16, w \div 2, 8, 3 * (w \div 2), 24)
<1>1. n \in Nat /\ n <= (w \div 2) \div 8
  <2> DEFINE b == w \div 2
             rgb == 3 * (w \div 2)
  <2>1. b \in Nat /\ rgb \in Nat
    OBVIOUS
  <2> HIDE DEF b, rgb
  <2>2. Fit3(w, 16, b, 8, rgb, 24) \in Nat /\ Fit3(w, 16, b, 8, rgb, 24) <= Room(b, 8)
    BY <2>1, GroupsFit
  <2>3. Fit3(w, 16, b, 8, rgb, 24) \in Nat /\ Fit3(w, 16, b, 8, rgb, 24) <= (w \div 2) \div 8
    BY <2>2 DEF Room, b
  <2>4. QED
    BY <2>3 DEF b, rgb
<1>2. K!AvxPlanarHalf(w) = [pixels |-> Together(group, n), stop |-> n * 8]
  <2> HIDE DEF body, n
  <2>1. \A g \in 0..(n - 1) : group[g] = body(g)
    BY <1>1
  <2> HIDE DEF group
  <2>2. {body(g) : g \in 0..(n - 1)} = {group[g] : g \in 0..(n - 1)}
    BY <2>1
  <2>3. QED
    BY <2>2 DEF K!AvxPlanarHalf, K!Kernel, Together, Fit3, n, body
<1>3. ASSUME NEW g \in Nat PROVE body(g) = Line(Half("planar"), 8 * g, 8 * g + 8)
  <2>1. Fits(Half("planar"), 8 * g, y(g), c(g), c(g))
    <3> SUFFICES ASSUME NEW i \in Nat, i < 8
                 PROVE  <<8 * g + i, y(g)[i], c(g)[i], c(g)[i]>> = Half("planar")[8 * g + i]
      BY DEF Fits
    <3>1. Half("planar")[8 * g + i] = <<8 * g + i, 2 * (8 * g + i), (8 * g + i), (8 * g + i)>>
      <4>1. 8 * g + i \in Nat
        OBVIOUS
      <4>2. QED
        BY <4>1, HalfOffsets
    <3>2. y(g)[i] = 2 * (8 * g + i)
      BY EvenLanes
    <3>3. c(g)[i] = (8 * g + i)
      BY EvenLanes
    <3>4. QED
      BY <3>1, <3>2, <3>3
  <2> HIDE DEF y, c
  <2>2. QED
    BY <2>1, EightColumns, 8 * g \in Nat
<1>4. Whole(Half("planar"), 8, group)
  <2> HIDE DEF body
  <2>1. QED
    BY <1>3 DEF Whole
<1> HIDE DEF group, n
<1>5. QED
  BY <1>1, <1>2, <1>4, KernelMakes, w \div 2 \in Nat

\* Even luma samples and pairs of chroma samples (NEON).
LEMMA NeonSemiHalfMakes ==
  ASSUME NEW w \in Nat, NEW layout \in K!Semi
  PROVE  Makes(K!NeonSemiHalf(layout, w), Half(layout), w \div 2)
<1> DEFINE p(g, c) == K!Vld(2, 16 * g, c)
           body(g) == K!Eight(8 * g, p(g, 0), p(g, First(layout)), p(g, Second(layout)))
           group == [g \in Nat |-> body(g)]
           n == Fit3(w, 16, w, 16, 3 * (w \div 2), 24)
<1>1. n \in Nat /\ n <= (w \div 2) \div 8
  <2> DEFINE rgb == 3 * (w \div 2)
  <2>1. rgb \in Nat
    OBVIOUS
  <2>2. rgb \div 24 = (w \div 2) \div 8
    OBVIOUS
  <2> HIDE DEF rgb
  <2>3. Fit3(w, 16, w, 16, rgb, 24) \in Nat /\ Fit3(w, 16, w, 16, rgb, 24) <= Room(rgb, 24)
    BY <2>1, GroupsFit
  <2>4. Fit3(w, 16, w, 16, rgb, 24) \in Nat /\ Fit3(w, 16, w, 16, rgb, 24) <= (w \div 2) \div 8
    BY <2>2, <2>3 DEF Room
  <2>5. QED
    BY <2>4 DEF rgb
<1>2. K!NeonSemiHalf(layout, w) = [pixels |-> Together(group, n), stop |-> n * 8]
  <2> HIDE DEF body, n
  <2>1. \A g \in 0..(n - 1) : group[g] = body(g)
    BY <1>1
  <2> HIDE DEF group
  <2>2. {body(g) : g \in 0..(n - 1)} = {group[g] : g \in 0..(n - 1)}
    BY <2>1
  <2>3. QED
    BY <2>2 DEF K!NeonSemiHalf, K!Kernel, First, Second, Together, Fit3, n, body
<1>3. ASSUME NEW g \in Nat PROVE body(g) = Line(Half(layout), 8 * g, 8 * g + 8)
  <2> DEFINE a == First(layout)
             b == Second(layout)
  <2>1. a \in Nat /\ b \in Nat
    BY SemiOffsets
  <2>2. body(g) = K!Eight(8 * g, p(g, 0), p(g, a), p(g, b))
    OBVIOUS
  <2> HIDE DEF a, b, body
  <2>3. Fits(Half(layout), 8 * g, p(g, 0), p(g, a), p(g, b))
    <3> SUFFICES ASSUME NEW i \in Nat, i < 8
                 PROVE  <<8 * g + i, p(g, 0)[i], p(g, a)[i], p(g, b)[i]>> = Half(layout)[8 * g + i]
      BY DEF Fits
    <3>1. Half(layout)[8 * g + i] = <<8 * g + i, 2 * (8 * g + i), 2 * (8 * g + i) + a, 2 * (8 * g + i) + b>>
      <4>1. 8 * g + i \in Nat
        OBVIOUS
      <4>2. QED
        BY <4>1, HalfOffsets DEF a, b
    <3>2. p(g, 0)[i] = 2 * (8 * g + i)
      BY EvenLanes
    <3>3. p(g, a)[i] = 2 * (8 * g + i) + a
      BY <2>1, EvenLanes
    <3>4. p(g, b)[i] = 2 * (8 * g + i) + b
      BY <2>1, EvenLanes
    <3>5. QED
      BY <3>1, <3>2, <3>3, <3>4
  <2> HIDE DEF p
  <2>4. QED
    BY <2>2, <2>3, EightColumns, 8 * g \in Nat
<1>4. Whole(Half(layout), 8, group)
  <2> HIDE DEF body
  <2>1. QED
    BY <1>3 DEF Whole
<1> HIDE DEF group, n
<1>5. QED
  BY <1>1, <1>2, <1>4, KernelMakes, w \div 2 \in Nat

\* Sixteen of them in two halves (AVX2).
LEMMA AvxSemiHalfMakes ==
  ASSUME NEW w \in Nat, NEW layout \in K!Semi
  PROVE  Makes(K!AvxSemiHalf(layout, w), Half(layout), w \div 2)
<1> DEFINE p(g, second, c) == K!Halves(32 * g, LAMBDA i : 2 * i + c, second)
           part(g, second) == K!Eight(16 * g + (IF second THEN 8 ELSE 0),
                                  p(g, second, 0), p(g, second, First(layout)), p(g, second, 1 - First(layout)))
           body(g) == UNION {part(g, second) : second \in BOOLEAN}
           group == [g \in Nat |-> body(g)]
           n == Fit3(w, 32, w, 32, 3 * (w \div 2), 48)
<1>1. n \in Nat /\ n <= (w \div 2) \div 16
  <2> DEFINE rgb == 3 * (w \div 2)
  <2>1. rgb \in Nat
    OBVIOUS
  <2>2. rgb \div 48 = (w \div 2) \div 16
    OBVIOUS
  <2> HIDE DEF rgb
  <2>3. Fit3(w, 32, w, 32, rgb, 48) \in Nat /\ Fit3(w, 32, w, 32, rgb, 48) <= Room(rgb, 48)
    BY <2>1, GroupsFit
  <2>4. Fit3(w, 32, w, 32, rgb, 48) \in Nat /\ Fit3(w, 32, w, 32, rgb, 48) <= (w \div 2) \div 16
    BY <2>2, <2>3 DEF Room
  <2>5. QED
    BY <2>4 DEF rgb
<1>2. K!AvxSemiHalf(layout, w) = [pixels |-> Together(group, n), stop |-> n * 16]
  <2> HIDE DEF body, n
  <2>1. \A g \in 0..(n - 1) : group[g] = body(g)
    BY <1>1
  <2> HIDE DEF group
  <2>2. {body(g) : g \in 0..(n - 1)} = {group[g] : g \in 0..(n - 1)}
    BY <2>1
  <2>3. QED
    BY <2>2 DEF K!AvxSemiHalf, K!Kernel, First, Together, Fit3, n, body
<1>3. ASSUME NEW g \in Nat PROVE body(g) = Line(Half(layout), 16 * g, 16 * g + 16)
  <2> DEFINE a == First(layout)
             b == Second(layout)
  <2>1. a \in Nat /\ b \in Nat
    BY SemiOffsets
  <2> DEFINE y0 == p(g, FALSE, 0)
             u0 == p(g, FALSE, a)
             v0 == p(g, FALSE, b)
             y1 == p(g, TRUE, 0)
             u1 == p(g, TRUE, a)
             v1 == p(g, TRUE, b)
  <2>2. part(g, FALSE) = K!Eight(16 * g, y0, u0, v0)
    <3> HIDE DEF p
    <3>1. QED
      BY SemiOffsets, 16 * g + 0 = 16 * g
  <2>3. part(g, TRUE) = K!Eight(16 * g + 8, y1, u1, v1)
    <3> HIDE DEF p
    <3>1. QED
      BY SemiOffsets
  <2>4. body(g) = Both(part(g, FALSE), part(g, TRUE))
    <3> HIDE DEF part
    <3>1. QED
      BY DEF Both
  <2> HIDE DEF a, b, body, part
  <2>5. Fits(Half(layout), 16 * g, y0, u0, v0)
    <3> SUFFICES ASSUME NEW i \in Nat, i < 8
                 PROVE  <<16 * g + i, y0[i], u0[i], v0[i]>> = Half(layout)[16 * g + i]
      BY DEF Fits
    <3>1. Half(layout)[16 * g + i] = <<16 * g + i, 2 * (16 * g + i), 2 * (16 * g + i) + a, 2 * (16 * g + i) + b>>
      <4>1. 16 * g + i \in Nat
        OBVIOUS
      <4>2. QED
        BY <4>1, HalfOffsets DEF a, b
    <3>2. y0[i] = 2 * (16 * g + i)
      <4>1. y0[i] = 32 * g + 0 + (2 * i + 0)
        BY DEF K!Halves, K!Lanes
      <4> HIDE DEF y0
      <4>2. 32 * g + 0 + (2 * i + 0) = 2 * (16 * g + i)
        BY <2>1
      <4>3. QED
        BY <4>1, <4>2
    <3>3. u0[i] = 2 * (16 * g + i) + a
      <4>1. u0[i] = 32 * g + 0 + (2 * i + a)
        BY DEF K!Halves, K!Lanes
      <4> HIDE DEF u0
      <4>2. 32 * g + 0 + (2 * i + a) = 2 * (16 * g + i) + a
        BY <2>1
      <4>3. QED
        BY <4>1, <4>2
    <3>4. v0[i] = 2 * (16 * g + i) + b
      <4>1. v0[i] = 32 * g + 0 + (2 * i + b)
        BY DEF K!Halves, K!Lanes
      <4> HIDE DEF v0
      <4>2. 32 * g + 0 + (2 * i + b) = 2 * (16 * g + i) + b
        BY <2>1
      <4>3. QED
        BY <4>1, <4>2
    <3>5. QED
      BY <3>1, <3>2, <3>3, <3>4
  <2>6. Fits(Half(layout), 16 * g + 8, y1, u1, v1)
    <3> SUFFICES ASSUME NEW i \in Nat, i < 8
                 PROVE  <<16 * g + 8 + i, y1[i], u1[i], v1[i]>> = Half(layout)[16 * g + 8 + i]
      BY DEF Fits
    <3>1. Half(layout)[16 * g + 8 + i] = <<16 * g + 8 + i, 2 * (16 * g + 8 + i), 2 * (16 * g + 8 + i) + a, 2 * (16 * g + 8 + i) + b>>
      <4>1. 16 * g + 8 + i \in Nat
        OBVIOUS
      <4>2. QED
        BY <4>1, HalfOffsets DEF a, b
    <3>2. y1[i] = 2 * (16 * g + 8 + i)
      <4>1. y1[i] = 32 * g + 16 + (2 * i + 0)
        BY DEF K!Halves, K!Lanes
      <4> HIDE DEF y1
      <4>2. 32 * g + 16 + (2 * i + 0) = 2 * (16 * g + 8 + i)
        BY <2>1
      <4>3. QED
        BY <4>1, <4>2
    <3>3. u1[i] = 2 * (16 * g + 8 + i) + a
      <4>1. u1[i] = 32 * g + 16 + (2 * i + a)
        BY DEF K!Halves, K!Lanes
      <4> HIDE DEF u1
      <4>2. 32 * g + 16 + (2 * i + a) = 2 * (16 * g + 8 + i) + a
        BY <2>1
      <4>3. QED
        BY <4>1, <4>2
    <3>4. v1[i] = 2 * (16 * g + 8 + i) + b
      <4>1. v1[i] = 32 * g + 16 + (2 * i + b)
        BY DEF K!Halves, K!Lanes
      <4> HIDE DEF v1
      <4>2. 32 * g + 16 + (2 * i + b) = 2 * (16 * g + 8 + i) + b
        BY <2>1
      <4>3. QED
        BY <4>1, <4>2
    <3>5. QED
      BY <3>1, <3>2, <3>3, <3>4
  <2> HIDE DEF y0, u0, v0, y1, u1, v1
  <2>7. Both(K!Eight(16 * g, y0, u0, v0), K!Eight(16 * g + 8, y1, u1, v1)) = Line(Half(layout), 16 * g, 16 * g + 16)
    BY <2>5, <2>6, 16 * g \in Nat, 16 * g + 8 \in Nat, SixteenColumns
  <2>8. QED
    BY <2>2, <2>3, <2>4, <2>7
<1>4. Whole(Half(layout), 16, group)
  <2> HIDE DEF body
  <2>1. QED
    BY <1>3 DEF Whole
<1> HIDE DEF group, n
<1>5. QED
  BY <1>1, <1>2, <1>4, KernelMakes, w \div 2 \in Nat

\* A row of half size is whole whatever part of it the kernel makes.
LEMMA HalfWhole ==
  ASSUME NEW layout \in K!Layouts, NEW w \in Nat, NEW kernel, Makes(kernel, Half(layout), w \div 2)
  PROVE  K!HalfRow(kernel, layout, w) = {K!HalfSample(layout, x) : x \in 0..(w \div 2 - 1)}
<1>1. /\ kernel.stop \in Nat /\ kernel.stop <= w \div 2 /\ w \div 2 \in Nat
      /\ kernel.pixels = Line(Half(layout), 0, kernel.stop)
  BY DEF Makes
<1>2. ASSUME NEW a \in Nat, NEW b \in Nat
      PROVE  {K!HalfSample(layout, x) : x \in a..(b - 1)} = Line(Half(layout), a, b)
  <2>1. \A x \in Columns(a, b) : Half(layout)[x] = K!HalfSample(layout, x)
    BY DEF Half, Columns
  <2>2. Columns(a, b) = a..(b - 1)
    BY DEF Columns
  <2>3. QED
    BY <2>1, <2>2 DEF Line
<1>3. Line(Half(layout), 0, kernel.stop) \cup Line(Half(layout), kernel.stop, w \div 2) = Line(Half(layout), 0, w \div 2)
  BY <1>1, LinesJoin, 0 \in Nat, 0 <= kernel.stop
<1>4. QED
  BY <1>1, <1>2, <1>3 DEF K!HalfRow

-----------------------------------------------------------------------------
(* 32-bit pixels.                                                           *)

\* The pixels of a row of 32 bits.
Wide(order) == [x \in Nat |-> K!Channels(order, x)]

\* Sixteen bytes are four columns.
LEMMA FourColumns ==
  ASSUME NEW order \in K!Orders, NEW at \in Nat
  PROVE  K!Four8888(order, at, 4 * at) = Line(Wide(order), at, at + 4)
<1>1. order[1] \in Nat /\ order[2] \in Nat /\ order[3] \in Nat
  BY DEF K!Orders
<1> DEFINE px(p) == <<at + p, 4 * at + 4 * p + order[1], 4 * at + 4 * p + order[2], 4 * at + 4 * p + order[3]>>
<1>2. ASSUME NEW p \in Nat PROVE px(p) = Wide(order)[at + p]
  <2>1. at + p \in Nat /\ 4 * at + 4 * p = 4 * (at + p)
    OBVIOUS
  <2>2. QED
    BY <2>1 DEF Wide, K!Channels
<1>3. K!Four8888(order, at, 4 * at) = {px(p) : p \in 0..3}
  BY DEF K!Four8888
<1> HIDE DEF px
<1>4. ASSUME NEW q \in {px(p) : p \in 0..3} PROVE q \in Line(Wide(order), at, at + 4)
  <2>1. PICK p \in 0..3 : q = px(p)
    OBVIOUS
  <2>2. p \in Nat /\ at + p \in Columns(at, at + 4)
    BY DEF Columns
  <2>3. QED
    BY <1>2, <2>1, <2>2 DEF Line
<1>5. ASSUME NEW q \in Line(Wide(order), at, at + 4) PROVE q \in {px(p) : p \in 0..3}
  <2>1. PICK x \in Columns(at, at + 4) : q = Wide(order)[x]
    BY DEF Line
  <2> DEFINE p == x - at
  <2>2. p \in Nat /\ p \in 0..3 /\ at + p = x
    BY <2>1 DEF Columns
  <2> HIDE DEF p
  <2>3. q = px(p)
    BY <1>2, <2>1, <2>2
  <2>4. QED
    BY <2>2, <2>3
<1>6. QED
  BY <1>3, <1>4, <1>5

\* Four loads a group (NEON).
LEMMA Neon8888Makes ==
  ASSUME NEW w \in Nat, NEW order \in K!Orders
  PROVE  Makes(K!NeonPacked8888(order, w), Wide(order), w)
<1> DEFINE part(g, k) == K!Four8888(order, 16 * g + 4 * k, 64 * g + 16 * k)
           body(g) == UNION {part(g, k) : k \in 0..3}
           group == [g \in Nat |-> body(g)]
           n == Fit2(4 * w, 64, 3 * w, 48)
<1>1. n \in Nat /\ n <= w \div 16
  <2> DEFINE a == 4 * w
             b == 3 * w
  <2>1. a \in Nat /\ b \in Nat
    OBVIOUS
  <2>2. a \div 64 = w \div 16
    OBVIOUS
  <2> HIDE DEF a, b
  <2>3. Fit2(a, 64, b, 48) \in Nat /\ Fit2(a, 64, b, 48) <= Room(a, 64)
    BY <2>1, GroupsFitTwo
  <2>4. Fit2(a, 64, b, 48) \in Nat /\ Fit2(a, 64, b, 48) <= w \div 16
    BY <2>2, <2>3 DEF Room
  <2>5. QED
    BY <2>4 DEF a, b
<1>2. K!NeonPacked8888(order, w) = [pixels |-> Together(group, n), stop |-> n * 16]
  <2> HIDE DEF body, n
  <2>1. \A g \in 0..(n - 1) : group[g] = body(g)
    BY <1>1
  <2> HIDE DEF group
  <2>2. {body(g) : g \in 0..(n - 1)} = {group[g] : g \in 0..(n - 1)}
    BY <2>1
  <2>3. QED
    BY <2>2 DEF K!NeonPacked8888, K!Kernel, Together, Fit2, n, body
<1>3. ASSUME NEW g \in Nat PROVE body(g) = Line(Wide(order), 16 * g, 16 * g + 16)
  <2>1. ASSUME NEW k \in 0..3 PROVE part(g, k) = Line(Wide(order), 16 * g + 4 * k, 16 * g + 4 * k + 4)
    <3>1. 16 * g + 4 * k \in Nat /\ 64 * g + 16 * k = 4 * (16 * g + 4 * k)
      OBVIOUS
    <3>2. QED
      BY <3>1, FourColumns
  <2>2. body(g) = part(g, 0) \cup part(g, 1) \cup part(g, 2) \cup part(g, 3)
    <3> HIDE DEF part
    <3>1. QED
      BY 0..3 = {0, 1, 2, 3}
  <2> HIDE DEF body, part
  <2>3. part(g, 0) = Line(Wide(order), 16 * g, 16 * g + 4)
    BY <2>1, 16 * g + 4 * 0 = 16 * g, 16 * g + 4 * 0 + 4 = 16 * g + 4, 0 \in 0..3
  <2>4. part(g, 1) = Line(Wide(order), 16 * g + 4, 16 * g + 8)
    BY <2>1, 16 * g + 4 * 1 = 16 * g + 4, 16 * g + 4 * 1 + 4 = 16 * g + 8, 1 \in 0..3
  <2>5. part(g, 2) = Line(Wide(order), 16 * g + 8, 16 * g + 12)
    BY <2>1, 16 * g + 4 * 2 = 16 * g + 8, 16 * g + 4 * 2 + 4 = 16 * g + 12, 2 \in 0..3
  <2>6. part(g, 3) = Line(Wide(order), 16 * g + 12, 16 * g + 16)
    BY <2>1, 16 * g + 4 * 3 = 16 * g + 12, 16 * g + 4 * 3 + 4 = 16 * g + 16, 3 \in 0..3
  <2>7. part(g, 0) \cup part(g, 1) = Line(Wide(order), 16 * g, 16 * g + 8)
    <3>1. 16 * g \in Nat /\ 16 * g + 4 \in Nat /\ 16 * g + 8 \in Nat /\ 16 * g <= 16 * g + 4 /\ 16 * g + 4 <= 16 * g + 8
      OBVIOUS
    <3>2. Line(Wide(order), 16 * g, 16 * g + 4) \cup Line(Wide(order), 16 * g + 4, 16 * g + 8) = Line(Wide(order), 16 * g, 16 * g + 8)
      BY <3>1, LinesJoin
    <3>3. QED
      BY <3>2, <2>4, <2>3
  <2>8. part(g, 0) \cup part(g, 1) \cup part(g, 2) = Line(Wide(order), 16 * g, 16 * g + 12)
    <3>1. 16 * g \in Nat /\ 16 * g + 8 \in Nat /\ 16 * g + 12 \in Nat /\ 16 * g <= 16 * g + 8 /\ 16 * g + 8 <= 16 * g + 12
      OBVIOUS
    <3>2. Line(Wide(order), 16 * g, 16 * g + 8) \cup Line(Wide(order), 16 * g + 8, 16 * g + 12) = Line(Wide(order), 16 * g, 16 * g + 12)
      BY <3>1, LinesJoin
    <3>3. QED
      BY <3>2, <2>5, <2>7
  <2>9. part(g, 0) \cup part(g, 1) \cup part(g, 2) \cup part(g, 3) = Line(Wide(order), 16 * g, 16 * g + 16)
    <3>1. 16 * g \in Nat /\ 16 * g + 12 \in Nat /\ 16 * g + 16 \in Nat /\ 16 * g <= 16 * g + 12 /\ 16 * g + 12 <= 16 * g + 16
      OBVIOUS
    <3>2. Line(Wide(order), 16 * g, 16 * g + 12) \cup Line(Wide(order), 16 * g + 12, 16 * g + 16) = Line(Wide(order), 16 * g, 16 * g + 16)
      BY <3>1, LinesJoin
    <3>3. QED
      BY <3>2, <2>6, <2>8
  <2>10. QED
    BY <2>2, <2>9
<1>4. Whole(Wide(order), 16, group)
  <2> HIDE DEF body
  <2>1. QED
    BY <1>3 DEF Whole
<1> HIDE DEF group, n
<1>5. QED
  BY <1>1, <1>2, <1>4, KernelMakes

\* One load a group (SSSE3).
LEMMA Ssse38888Makes ==
  ASSUME NEW w \in Nat, NEW order \in K!Orders
  PROVE  Makes(K!Ssse3Packed8888(order, w), Wide(order), w)
<1> DEFINE body(g) == K!Four8888(order, 4 * g, 16 * g)
           group == [g \in Nat |-> body(g)]
           n == Fit2(4 * w, 16, 3 * w, 12)
<1>1. n \in Nat /\ n <= w \div 4
  <2> DEFINE a == 4 * w
             b == 3 * w
  <2>1. a \in Nat /\ b \in Nat
    OBVIOUS
  <2>2. a \div 16 = w \div 4
    OBVIOUS
  <2> HIDE DEF a, b
  <2>3. Fit2(a, 16, b, 12) \in Nat /\ Fit2(a, 16, b, 12) <= Room(a, 16)
    BY <2>1, GroupsFitTwo
  <2>4. Fit2(a, 16, b, 12) \in Nat /\ Fit2(a, 16, b, 12) <= w \div 4
    BY <2>2, <2>3 DEF Room
  <2>5. QED
    BY <2>4 DEF a, b
<1>2. K!Ssse3Packed8888(order, w) = [pixels |-> Together(group, n), stop |-> n * 4]
  <2> HIDE DEF body, n
  <2>1. \A g \in 0..(n - 1) : group[g] = body(g)
    BY <1>1
  <2> HIDE DEF group
  <2>2. {body(g) : g \in 0..(n - 1)} = {group[g] : g \in 0..(n - 1)}
    BY <2>1
  <2>3. QED
    BY <2>2 DEF K!Ssse3Packed8888, K!Kernel, Together, Fit2, n, body
<1>3. ASSUME NEW g \in Nat PROVE body(g) = Line(Wide(order), 4 * g, 4 * g + 4)
  <2>1. 4 * g \in Nat /\ 16 * g = 4 * (4 * g)
    OBVIOUS
  <2>2. QED
    BY <2>1, FourColumns
<1>4. Whole(Wide(order), 4, group)
  <2> HIDE DEF body
  <2>1. QED
    BY <1>3 DEF Whole
<1> HIDE DEF group, n
<1>5. QED
  BY <1>1, <1>2, <1>4, KernelMakes

\* A load of two halves a group (AVX2).
LEMMA Avx8888Makes ==
  ASSUME NEW w \in Nat, NEW order \in K!Orders
  PROVE  Makes(K!AvxPacked8888(order, w), Wide(order), w)
<1> DEFINE body(g) == K!Four8888(order, 8 * g, 32 * g) \cup K!Four8888(order, 8 * g + 4, 32 * g + 16)
           group == [g \in Nat |-> body(g)]
           n == Fit2(4 * w, 32, 3 * w, 24)
<1>1. n \in Nat /\ n <= w \div 8
  <2> DEFINE a == 4 * w
             b == 3 * w
  <2>1. a \in Nat /\ b \in Nat
    OBVIOUS
  <2>2. a \div 32 = w \div 8
    OBVIOUS
  <2> HIDE DEF a, b
  <2>3. Fit2(a, 32, b, 24) \in Nat /\ Fit2(a, 32, b, 24) <= Room(a, 32)
    BY <2>1, GroupsFitTwo
  <2>4. Fit2(a, 32, b, 24) \in Nat /\ Fit2(a, 32, b, 24) <= w \div 8
    BY <2>2, <2>3 DEF Room
  <2>5. QED
    BY <2>4 DEF a, b
<1>2. K!AvxPacked8888(order, w) = [pixels |-> Together(group, n), stop |-> n * 8]
  <2> HIDE DEF body, n
  <2>1. \A g \in 0..(n - 1) : group[g] = body(g)
    BY <1>1
  <2> HIDE DEF group
  <2>2. {body(g) : g \in 0..(n - 1)} = {group[g] : g \in 0..(n - 1)}
    BY <2>1
  <2>3. QED
    BY <2>2 DEF K!AvxPacked8888, K!Kernel, Together, Fit2, n, body
<1>3. ASSUME NEW g \in Nat PROVE body(g) = Line(Wide(order), 8 * g, 8 * g + 8)
  <2>1. /\ 8 * g \in Nat /\ 8 * g + 4 \in Nat /\ 8 * g + 8 \in Nat /\ 8 * g <= 8 * g + 4 /\ 8 * g + 4 <= 8 * g + 8
        /\ 32 * g = 4 * (8 * g) /\ 32 * g + 16 = 4 * (8 * g + 4) /\ 8 * g + 4 + 4 = 8 * g + 8
    OBVIOUS
  <2>2. K!Four8888(order, 8 * g, 32 * g) = Line(Wide(order), 8 * g, 8 * g + 4)
    BY <2>1, FourColumns
  <2>3. K!Four8888(order, 8 * g + 4, 32 * g + 16) = Line(Wide(order), 8 * g + 4, 8 * g + 8)
    BY <2>1, FourColumns
  <2>4. Line(Wide(order), 8 * g, 8 * g + 4) \cup Line(Wide(order), 8 * g + 4, 8 * g + 8) = Line(Wide(order), 8 * g, 8 * g + 8)
    BY <2>1, LinesJoin
  <2>5. QED
    BY <2>2, <2>3, <2>4
<1>4. Whole(Wide(order), 8, group)
  <2> HIDE DEF body
  <2>1. QED
    BY <1>3 DEF Whole
<1> HIDE DEF group, n
<1>5. QED
  BY <1>1, <1>2, <1>4, KernelMakes

\* A row of 32-bit pixels is whole on every machine.
LEMMA WideWhole ==
  ASSUME NEW w \in Nat, NEW machine, NEW order \in K!Orders
  PROVE  K!Packed8888Row(machine, order, w) = {K!Channels(order, x) : x \in 0..(w - 1)}
<1> DEFINE kernel == CASE machine = "neon" -> K!NeonPacked8888(order, w)
                       [] machine = "avx2" -> K!AvxPacked8888(order, w)
                       [] machine = "ssse3" -> K!Ssse3Packed8888(order, w)
                       [] OTHER -> K!NoKernel
<1>1. Makes(kernel, Wide(order), w)
  BY Neon8888Makes, Ssse38888Makes, Avx8888Makes, NoKernelMakes
<1>2. K!Packed8888Row(machine, order, w) = kernel.pixels \cup {K!Channels(order, x) : x \in kernel.stop..(w - 1)}
  BY DEF K!Packed8888Row
<1> HIDE DEF kernel
<1>3. kernel.stop \in Nat /\ kernel.stop <= w /\ kernel.pixels = Line(Wide(order), 0, kernel.stop)
  BY <1>1 DEF Makes
<1>4. ASSUME NEW a \in Nat, NEW b \in Nat
      PROVE  {K!Channels(order, x) : x \in a..(b - 1)} = Line(Wide(order), a, b)
  <2>1. \A x \in Columns(a, b) : Wide(order)[x] = K!Channels(order, x)
    BY DEF Wide, Columns
  <2>2. Columns(a, b) = a..(b - 1)
    BY DEF Columns
  <2>3. QED
    BY <2>1, <2>2 DEF Line
<1>5. Line(Wide(order), 0, kernel.stop) \cup Line(Wide(order), kernel.stop, w) = Line(Wide(order), 0, w)
  BY <1>3, LinesJoin, 0 \in Nat, 0 <= kernel.stop
<1>6. QED
  BY <1>2, <1>3, <1>4, <1>5

-----------------------------------------------------------------------------
(* All of it.                                                               *)

\* A pixel is read inside the rows of its planes.
LEMMA ReadInside ==
  ASSUME NEW layout \in K!Layouts, NEW w \in Nat, layout \in K!Packed => w % 2 = 0, NEW p \in K!SampleRow(layout, w)
  PROVE  p[2] < K!LumaLength(layout, w) /\ p[3] < K!ChromaLength(layout, w) /\ p[4] < K!ChromaLength(layout, w)
<1>1. PICK x \in 0..(w - 1) : p = K!Sample(layout, x)
  BY DEF K!SampleRow
<1>2. x \in Nat /\ x < w /\ (w % 2 = 0 => x \div 2 < w \div 2 /\ w = 2 * (w \div 2)) /\ x \div 2 < (w + 1) \div 2
  OBVIOUS
<1>3. CASE layout \in K!Packed
  <2>1. K!LumaLength(layout, w) = 2 * w /\ K!ChromaLength(layout, w) = 2 * w
    BY <1>3 DEF K!LumaLength, K!ChromaLength, K!Packed, K!Semi
  <2>2. \E a, b, c \in Nat : p = <<x, 2 * x + a, 4 * (x \div 2) + b, 4 * (x \div 2) + c>> /\ a <= 1 /\ b <= 3 /\ c <= 3
    <3>1. p = <<x, 2 * x + Luma(layout), 4 * (x \div 2) + Blue(layout), 4 * (x \div 2) + Red(layout)>>
      BY <1>1, <1>2, <1>3, PackedOffsets DEF Full
    <3>2. /\ Luma(layout) \in Nat /\ Blue(layout) \in Nat /\ Red(layout) \in Nat
          /\ Luma(layout) <= 1 /\ Blue(layout) <= 3 /\ Red(layout) <= 3
      BY DEF Luma, Blue, Red
    <3>3. QED
      BY <3>1, <3>2
  <2>3. PICK a, b, c \in Nat : p = <<x, 2 * x + a, 4 * (x \div 2) + b, 4 * (x \div 2) + c>> /\ a <= 1 /\ b <= 3 /\ c <= 3
    BY <2>2
  <2>4. p[2] = 2 * x + a /\ p[3] = 4 * (x \div 2) + b /\ p[4] = 4 * (x \div 2) + c
    BY <2>3
  <2>5. 2 * x + a < 2 * w /\ 4 * (x \div 2) + b < 2 * w /\ 4 * (x \div 2) + c < 2 * w
    BY <1>2, <1>3, <2>3
  <2>6. QED
    BY <2>1, <2>4, <2>5
<1>4. CASE layout \in K!Semi
  <2>1. K!LumaLength(layout, w) = w /\ K!ChromaLength(layout, w) = 2 * ((w + 1) \div 2)
    BY <1>4 DEF K!LumaLength, K!ChromaLength, K!Packed, K!Semi
  <2>2. p = <<x, x, 2 * (x \div 2) + First(layout), 2 * (x \div 2) + Second(layout)>>
    BY <1>1, <1>2, <1>4, SemiOffsets DEF Full
  <2>3. First(layout) \in {0, 1} /\ Second(layout) \in {0, 1}
    BY DEF First, Second
  <2>4. p[2] = x /\ p[3] = 2 * (x \div 2) + First(layout) /\ p[4] = 2 * (x \div 2) + Second(layout)
    BY <2>2
  <2>5. \A b \in {0, 1} : 2 * (x \div 2) + b < 2 * ((w + 1) \div 2)
    BY <1>2
  <2>6. QED
    BY <1>2, <2>1, <2>3, <2>4, <2>5
<1>5. CASE layout = "planar"
  <2>1. K!LumaLength(layout, w) = w /\ K!ChromaLength(layout, w) = (w + 1) \div 2
    BY <1>5 DEF K!LumaLength, K!ChromaLength, K!Packed, K!Semi
  <2>2. p[2] = x /\ p[3] = x \div 2 /\ p[4] = x \div 2
    BY <1>1, <1>5 DEF K!Sample
  <2>3. QED
    BY <1>2, <2>1, <2>2
<1>6. QED
  BY <1>3, <1>4, <1>5 DEF K!Layouts

\* Rows and frames of full size.
LEMMA FullSize ==
  ASSUME NEW w \in Nat, NEW h \in Nat
  PROVE  K!RowsExact(w, h)
<1>1. ASSUME w % 2 = 0, NEW machine \in K!Machines, NEW layout \in K!Packed
      PROVE  K!PackedRow(machine, layout, w) = K!SampleRow(layout, w)
  <2> DEFINE kernel == CASE machine = "neon" -> K!NeonPacked(layout, w)
                         [] machine = "avx2" -> K!AvxPacked(layout, w)
                         [] OTHER -> K!NoKernel
  <2>1. Makes(kernel, Full(layout), w)
    BY <1>1, NeonPackedMakes, AvxPackedMakes, NoKernelMakes
  <2>2. layout \in K!Layouts
    BY DEF K!Layouts
  <2>3. K!PackedRow(machine, layout, w) = K!Row(kernel, layout, w)
    BY DEF K!PackedRow
  <2> HIDE DEF kernel
  <2>4. QED
    BY <2>1, <2>2, <2>3, RowWhole
<1>2. "planar" \in K!Layouts
  BY DEF K!Layouts
<1>3. K!NeonPlanarFrame(w, h) = K!SampleFrame("planar", w, h)
  BY <1>2, NeonPlanarMakes, FramePaired DEF K!NeonPlanarFrame, K!NeonPlanarTwoRows
<1>4. K!AvxPlanarFrame(w, h) = K!SampleFrame("planar", w, h)
  BY <1>2, AvxPlanarMakes, FramePaired DEF K!AvxPlanarFrame, K!AvxPlanarTwoRows
<1>5. ASSUME NEW machine \in K!Machines
      PROVE  K!StridedFrame(machine, w, h) = K!SampleFrame("planar", w, h)
  <2> DEFINE kernel == IF machine = "neon" THEN K!NeonPlanarStrided(w) ELSE K!NoKernel
  <2>1. Makes(kernel, Full("planar"), w)
    BY NeonPlanarStridedMakes, NoKernelMakes
  <2> HIDE DEF kernel
  <2>2. K!Row(kernel, "planar", w) = K!SampleRow("planar", w)
    BY <1>2, <2>1, RowWhole
  <2>3. QED
    BY <2>2 DEF K!StridedFrame, K!SampleFrame, kernel
<1>6. ASSUME NEW layout \in K!Semi
      PROVE  /\ K!NeonSemiFrame(layout, w, h) = K!SampleFrame(layout, w, h)
             /\ K!AvxSemiFrame(layout, w, h) = K!SampleFrame(layout, w, h)
             /\ K!SemiFrame(layout, w, h) = K!SampleFrame(layout, w, h)
  <2>1. layout \in K!Layouts
    BY DEF K!Layouts
  <2>2. K!NeonSemiFrame(layout, w, h) = K!SampleFrame(layout, w, h)
    BY <2>1, NeonSemiMakes, FramePaired DEF K!NeonSemiFrame, K!NeonSemiTwoRows
  <2>3. K!AvxSemiFrame(layout, w, h) = K!SampleFrame(layout, w, h)
    BY <2>1, AvxSemiMakes, FramePaired DEF K!AvxSemiFrame, K!AvxSemiTwoRows
  <2>4. K!Row(K!NoKernel, layout, w) = K!SampleRow(layout, w)
    BY <2>1, NoKernelMakes, RowWhole
  <2>5. QED
    BY <2>2, <2>3, <2>4 DEF K!SemiFrame, K!SampleFrame
<1>7. QED
  BY <1>1, <1>3, <1>4, <1>5, <1>6, ReadInside DEF K!RowsExact

\* Rows of half size.
LEMMA HalfSize ==
  ASSUME NEW w \in Nat
  PROVE  K!HalfRowsExact(w)
<1> SUFFICES ASSUME NEW machine \in K!Machines, NEW layout \in K!Layouts
             PROVE  K!HalfSizeRow(machine, layout, w) = {K!HalfSample(layout, x) : x \in 0..(w \div 2 - 1)}
  BY DEF K!HalfRowsExact
<1>1. w \div 2 \in Nat
  OBVIOUS
<1>2. CASE layout \in K!Packed
  <2> DEFINE kernel == CASE machine = "neon" -> K!NeonPackedHalf(layout, w)
                         [] machine = "avx2" -> K!AvxPackedHalf(layout, w)
                         [] OTHER -> K!NoKernel
  <2>1. Makes(kernel, Half(layout), w \div 2)
    BY <1>1, <1>2, NeonPackedHalfMakes, AvxPackedHalfMakes, NoKernelMakes
  <2>2. K!HalfSizeRow(machine, layout, w) = K!HalfRow(kernel, layout, w)
    BY <1>2 DEF K!HalfSizeRow, K!PackedHalfRow, K!Packed, K!Semi
  <2> HIDE DEF kernel
  <2>3. QED
    BY <2>1, <2>2, HalfWhole
<1>3. CASE layout \in K!Semi
  <2> DEFINE kernel == CASE machine = "neon" -> K!NeonSemiHalf(layout, w)
                         [] machine = "avx2" -> K!AvxSemiHalf(layout, w)
                         [] OTHER -> K!NoKernel
  <2>1. Makes(kernel, Half(layout), w \div 2)
    BY <1>1, <1>3, NeonSemiHalfMakes, AvxSemiHalfMakes, NoKernelMakes
  <2>2. K!HalfSizeRow(machine, layout, w) = K!HalfRow(kernel, layout, w)
    BY <1>3 DEF K!HalfSizeRow, K!SemiHalfRow, K!Packed, K!Semi
  <2> HIDE DEF kernel
  <2>3. QED
    BY <2>1, <2>2, HalfWhole
<1>4. CASE layout = "planar"
  <2> DEFINE kernel == CASE machine = "neon" -> K!NeonPlanarHalf(w)
                         [] machine = "avx2" -> K!AvxPlanarHalf(w)
                         [] OTHER -> K!NoKernel
  <2>1. Makes(kernel, Half(layout), w \div 2)
    BY <1>1, <1>4, NeonPlanarHalfMakes, AvxPlanarHalfMakes, NoKernelMakes
  <2>2. K!HalfSizeRow(machine, layout, w) = K!HalfRow(kernel, layout, w)
    BY <1>4 DEF K!HalfSizeRow, K!PlanarHalfRow, K!Packed, K!Semi
  <2> HIDE DEF kernel
  <2>3. QED
    BY <2>1, <2>2, HalfWhole
<1>5. QED
  BY <1>2, <1>3, <1>4 DEF K!Layouts

\* The conversions of ColorConverter and the packing of 32-bit pixels.
LEMMA PackedSize ==
  ASSUME NEW w \in Nat
  PROVE  K!PackedExact(w)
<1>1. ASSUME w % 2 = 0, NEW machine \in K!Machines, NEW layout \in K!Packed
      PROVE  K!LegacyRow(machine, layout, w) = K!SampleRow(layout, w)
  <2>1. layout \in K!Layouts
    BY DEF K!Layouts
  <2>2. K!SampleRow(layout, w) = Line(Full(layout), 0, w)
    BY TailLine, 0 \in Nat DEF K!SampleRow
  <2>3. CASE machine = "neon"
    BY <2>1, <2>3, NeonPackedMakes, RowWhole DEF K!LegacyRow
  <2>4. CASE machine = "avx2"
    <3>1. Makes(K!AvxPacked(layout, w), Full(layout), w) /\ K!AvxPacked(layout, w).stop = w
      BY <1>1, AvxPackedMakes DEF K!AvxPacked
    <3>2. QED
      BY <2>2, <2>4, <3>1 DEF K!LegacyRow, Makes
  <2>5. CASE machine = "portable"
    <3> DEFINE m == 8 * ((2 * w) \div 16)
    <3>1. m \in Nat /\ m <= w /\ 2 * (w \div 2) = w
      BY <1>1
    <3>2. K!LegacyRow(machine, layout, w) = {K!Sample(layout, x) : x \in 0..(m - 1)}
                                            \cup {K!Sample(layout, x) : x \in m..(2 * (w \div 2) - 1)}
      BY <2>5 DEF K!LegacyRow
    <3> HIDE DEF m
    <3>3. K!LegacyRow(machine, layout, w) = Line(Full(layout), 0, m) \cup Line(Full(layout), m, w)
      BY <3>1, <3>2, TailLine, 0 \in Nat
    <3>4. Line(Full(layout), 0, m) \cup Line(Full(layout), m, w) = Line(Full(layout), 0, w)
      BY <3>1, LinesJoin, 0 \in Nat, 0 <= m
    <3>5. QED
      BY <2>2, <3>3, <3>4
  <2>6. QED
    BY <2>3, <2>4, <2>5 DEF K!Machines
<1>2. QED
  BY <1>1, WideWhole DEF K!PackedExact

-----------------------------------------------------------------------------
(* The frame rate limiter.                                                  *)

\* A set that holds 0 and with each number the next one holds all of them.
LEMMA CountingUp ==
  ASSUME NEW T, 0 \in T, \A n \in Nat : n \in T => n + 1 \in T
  PROVE  \A n \in Nat : n \in T
<1> DEFINE Out == Nat \ T
<1>1. SUFFICES ASSUME Out # {} PROVE FALSE
  OBVIOUS
<1>2. PICK m \in Out : \A k \in Out : m <= k
  BY <1>1, LeastNat
<1>3. m # 0 /\ m - 1 \in Nat /\ m - 1 \notin Out
  BY <1>2
<1>4. QED
  BY <1>2, <1>3

\* Additions end at the clock's maximum.
LEMMA Saturates ==
  ASSUME NEW a \in Nat, NEW b \in Nat, NEW cap \in Nat
  PROVE  R!SaturatingAdd(a, b, cap) = IF a + b <= cap THEN a + b ELSE cap
<1> DEFINE least == IF a + b <= cap THEN a + b ELSE cap
           s == {a + b, cap}
<1>1. least \in s /\ \A y \in s : least <= y
  OBVIOUS
<1>2. \A x \in s : (\A y \in s : x <= y) => x = least
  OBVIOUS
<1>3. R!SaturatingAdd(a, b, cap) = CHOOSE x \in s : \A y \in s : x <= y
  BY DEF R!SaturatingAdd, R!Min
<1> HIDE DEF least, s
<1>4. (CHOOSE x \in s : \A y \in s : x <= y) = least
  BY <1>1, <1>2
<1>5. QED
  BY <1>3, <1>4 DEF least

\* The limiter between two frames: the next one is due within the clock.
Limiter(cap) == [next : {-1} \cup 0..cap, last : 0..cap, taken : BOOLEAN]

\* An interval after t, if the clock goes that far.
Later(t, interval, cap) == IF t + interval <= cap THEN t + interval ELSE cap

\* What accept does, case by case: m is the limiter after a frame of time ts.
Passes(l, m, ts, interval) ==
  (interval = 0 \/ ts = 0) /\ m.taken /\ m.next = l.next /\ m.last = l.last

Begins(l, m, ts, interval, cap) ==
  /\ interval > 0 /\ ts > 0 /\ m.last = ts
  /\ l.next = -1 \/ ts < l.last
  /\ m.taken /\ m.next = Later(ts, interval, cap)

Drops(l, m, ts, interval) ==
  /\ interval > 0 /\ ts > 0 /\ m.last = ts
  /\ l.next # -1 /\ l.last <= ts /\ ts + interval \div 20 < l.next
  /\ ~m.taken /\ m.next = l.next

Takes(l, m, ts, interval, cap) ==
  /\ interval > 0 /\ ts > 0 /\ m.last = ts
  /\ l.next # -1 /\ l.last <= ts /\ l.next <= ts + interval \div 20
  /\ m.taken
  /\ \/ l.next + interval < ts /\ m.next = Later(ts, interval, cap)
     \/ ts <= l.next + interval /\ m.next = Later(l.next, interval, cap)

Moves(l, m, ts, interval, cap) ==
  \/ Passes(l, m, ts, interval) \/ Begins(l, m, ts, interval, cap)
  \/ Drops(l, m, ts, interval) \/ Takes(l, m, ts, interval, cap)

\* These are all the cases.
LEMMA AcceptMoves ==
  ASSUME NEW cap \in Nat, NEW interval \in Nat, NEW ts \in 0..cap, NEW l \in Limiter(cap)
  PROVE  /\ R!Accept(l, ts, interval, cap) \in Limiter(cap)
         /\ Moves(l, R!Accept(l, ts, interval, cap), ts, interval, cap)
<1> DEFINE m == R!Accept(l, ts, interval, cap)
           due == IF ts < l.last THEN -1 ELSE l.next
           tol == interval \div 20
<1>0. /\ l.next \in {-1} \cup 0..cap /\ l.last \in 0..cap /\ l.taken \in BOOLEAN
      /\ l = [next |-> l.next, last |-> l.last, taken |-> l.taken]
  BY DEF Limiter
<1>1. tol \in Nat /\ due \in {-1} \cup 0..cap /\ ts \in Nat
  BY <1>0
<1>2. CASE interval = 0 \/ ts = 0
  <2>1. m = [l EXCEPT !.taken = TRUE]
    BY <1>2 DEF R!Accept
  <2>2. m.next = l.next /\ m.last = l.last /\ m.taken /\ m \in Limiter(cap)
    BY <1>0, <2>1 DEF Limiter
  <2>3. QED
    BY <1>2, <2>2 DEF Moves, Passes
<1>3. CASE interval > 0 /\ ts > 0
  <2> DEFINE early == due # -1 /\ R!SaturatingAdd(ts, tol, cap) < due
  <2>1. m = [next |-> IF early THEN due ELSE R!Next(due, ts, interval, cap), last |-> ts, taken |-> ~early]
    BY <1>3 DEF R!Accept, R!Resets, R!NotDue
  <2>2. early <=> due # -1 /\ ts + tol < due
    <3>1. R!SaturatingAdd(ts, tol, cap) = IF ts + tol <= cap THEN ts + tol ELSE cap
      BY <1>1, Saturates
    <3>2. QED
      BY <1>1, <3>1
  <2>3. R!SaturatingAdd(ts, interval, cap) = Later(ts, interval, cap)
    BY <1>1, Saturates DEF Later
  <2>4. due # -1 => R!SaturatingAdd(due, interval, cap) = Later(due, interval, cap)
    BY <1>1, Saturates DEF Later
  <2>5. /\ due = -1 => R!Next(due, ts, interval, cap) = Later(ts, interval, cap)
        /\ due # -1 /\ ts > due + interval => R!Next(due, ts, interval, cap) = Later(ts, interval, cap)
        /\ due # -1 /\ ts <= due + interval => R!Next(due, ts, interval, cap) = Later(due, interval, cap)
    <3>1. due # -1 => (ts > Later(due, interval, cap) <=> ts > due + interval)
      BY <1>1 DEF Later
    <3>2. R!Next(due, ts, interval, cap) =
            IF due = -1 \/ ts > R!SaturatingAdd(due, interval, cap)
            THEN R!SaturatingAdd(ts, interval, cap) ELSE R!SaturatingAdd(due, interval, cap)
      BY DEF R!Next, R!NotDue
    <3> HIDE DEF due
    <3>3. QED
      BY <1>1, <2>3, <2>4, <3>1, <3>2
  <2>6. Later(ts, interval, cap) \in 0..cap /\ (due # -1 => Later(due, interval, cap) \in 0..cap)
    BY <1>1 DEF Later
  <2> HIDE DEF early, m
  <2>7. m.last = ts /\ (m.taken <=> ~early) /\ (early => m.next = due)
        /\ (~early => m.next = R!Next(due, ts, interval, cap))
    BY <2>1 DEF early
  <2>8. m \in Limiter(cap)
    <3>1. (IF early THEN due ELSE R!Next(due, ts, interval, cap)) \in {-1} \cup 0..cap
      <4> HIDE DEF due
      <4>1. QED
        BY <1>1, <2>5, <2>6
    <3>2. early \in BOOLEAN
      BY DEF early
    <3>3. QED
      BY <2>1, <3>1, <3>2 DEF Limiter
  <2>9. CASE due = -1
    <3>1. ~early /\ (l.next = -1 \/ ts < l.last)
      BY <2>2, <2>9
    <3>2. m.taken /\ m.next = Later(ts, interval, cap)
      BY <2>5, <2>7, <2>9, <3>1
    <3>3. Begins(l, m, ts, interval, cap)
      BY <1>3, <2>7, <3>1, <3>2 DEF Begins
    <3>4. QED
      BY <2>8, <3>3 DEF Moves, m
  <2>10. CASE due # -1
    <3>1. l.next = due /\ l.next # -1 /\ l.last <= ts
      BY <1>0, <2>10
    <3> HIDE DEF due
    <3>2. CASE early
      <4>1. Drops(l, m, ts, interval)
        BY <1>3, <2>2, <2>7, <3>1, <3>2 DEF Drops
      <4>2. QED
        BY <2>8, <4>1 DEF Moves, m
    <3>3. CASE ~early
      <4>1. l.next <= ts + tol
        BY <1>1, <2>2, <2>10, <3>1, <3>3
      <4>2. \/ l.next + interval < ts /\ m.next = Later(ts, interval, cap)
            \/ ts <= l.next + interval /\ m.next = Later(l.next, interval, cap)
        BY <1>1, <2>5, <2>7, <2>10, <3>1, <3>3
      <4>3. Takes(l, m, ts, interval, cap)
        BY <1>3, <2>7, <3>1, <3>3, <4>1, <4>2 DEF Takes
      <4>4. QED
        BY <2>8, <4>3 DEF Moves, m
    <3>4. QED
      BY <3>2, <3>3
  <2>11. QED
    BY <2>9, <2>10
<1>4. QED
  BY <1>1, <1>2, <1>3

\* l[k] is the limiter after k frames.
Limits(l, times, interval, cap) ==
  /\ l[0].next = -1
  /\ \A k \in 0..Len(times) : l[k] \in Limiter(cap)
  /\ \A k \in 1..Len(times) : Moves(l[k - 1], l[k], times[k], interval, cap)

\* The recursive function of the limiters has these values.
LEMMA LimitersLimit ==
  ASSUME NEW cap \in Nat, NEW interval \in Nat, NEW times \in Seq(0..cap)
  PROVE  /\ Limits(R!Limiters(times, interval, cap), times, interval, cap)
         /\ R!Taken(times, interval, cap)
              = [k \in 1..Len(times) |-> R!Limiters(times, interval, cap)[k].taken]
<1> DEFINE Acc(l, k) == R!Accept(l, times[k], interval, cap)
           Runs(t, m) == t[0] = R!Fresh /\ \A n \in 1..m : t[n] = Acc(t[n - 1], n)
           Has(m) == m <= Len(times) => \E t \in [0..m -> Limiter(cap)] : Runs(t, m)
           Done == {m \in Nat : Has(m)}
<1>0. Len(times) \in Nat /\ \A n \in 1..Len(times) : times[n] \in 0..cap
  BY ElementOfSeq, LenProperties
<1>1. R!Fresh \in Limiter(cap) /\ R!Fresh.next = -1
  BY DEF R!Fresh, R!NotDue, Limiter
<1>2. \A n \in 1..Len(times), l \in Limiter(cap) : Acc(l, n) \in Limiter(cap)
  BY <1>0, AcceptMoves
<1>3. \A n \in 1..Len(times), l \in Limiter(cap) : Moves(l, Acc(l, n), times[n], interval, cap)
  BY <1>0, AcceptMoves
<1> HIDE DEF Acc
<1>4. Has(0)
  <2>1. [i \in 0..0 |-> R!Fresh] \in [0..0 -> Limiter(cap)] /\ Runs([i \in 0..0 |-> R!Fresh], 0)
    BY <1>1
  <2>2. QED
    BY <2>1
<1>5. ASSUME NEW m \in Nat, Has(m)
      PROVE  Has(m + 1)
  <2>1. SUFFICES ASSUME m + 1 <= Len(times)
                 PROVE  \E t \in [0..(m + 1) -> Limiter(cap)] : Runs(t, m + 1)
    OBVIOUS
  <2>2. PICK t \in [0..m -> Limiter(cap)] : Runs(t, m)
    <3>1. m <= Len(times)
      BY <1>0, <2>1
    <3> HIDE DEF Runs
    <3>2. QED
      BY <1>5, <3>1
  <2> DEFINE u == [i \in 0..(m + 1) |-> IF i <= m THEN t[i] ELSE Acc(t[m], m + 1)]
  <2>3. Acc(t[m], m + 1) \in Limiter(cap)
    <3>1. m + 1 \in 1..Len(times) /\ t[m] \in Limiter(cap)
      BY <1>0, <2>1
    <3>2. QED
      BY <1>2, <3>1
  <2>4. u \in [0..(m + 1) -> Limiter(cap)]
    BY <2>3
  <2>5. Runs(u, m + 1)
    <3>1. u[0] = R!Fresh
      BY <2>2
    <3>2. ASSUME NEW n \in 1..(m + 1) PROVE u[n] = Acc(u[n - 1], n)
      <4>1. CASE n = m + 1
        BY <4>1
      <4>2. CASE n # m + 1
        <5>1. n \in 1..m /\ n - 1 \in 0..m
          BY <4>2
        <5>2. t[n] = Acc(t[n - 1], n)
          BY <2>2, <5>1
        <5>3. QED
          BY <5>1, <5>2
      <4>3. QED
        BY <4>1, <4>2
    <3>3. QED
      BY <3>1, <3>2
  <2>6. QED
    BY <2>4, <2>5
<1>6. Has(Len(times))
  <2> HIDE DEF Has
  <2>1. 0 \in Done /\ \A m \in Nat : m \in Done => m + 1 \in Done
    BY <1>4, <1>5
  <2> HIDE DEF Done
  <2>2. Len(times) \in Done
    BY <1>0, <2>1, CountingUp
  <2>3. QED
    BY <2>2 DEF Done
<1>7. PICK t \in [0..Len(times) -> Limiter(cap)] : Runs(t, Len(times))
  BY <1>0, <1>6
<1>8. t = [k \in 0..Len(times) |-> IF k = 0 THEN R!Fresh ELSE Acc(t[k - 1], k)]
  BY <1>0, <1>7
<1> DEFINE after == R!Limiters(times, interval, cap)
<1>9. after = [k \in 0..Len(times) |-> IF k = 0 THEN R!Fresh ELSE Acc(after[k - 1], k)]
  BY <1>8 DEF R!Limiters, Acc
<1>10. R!Taken(times, interval, cap) = [k \in 1..Len(times) |-> after[k].taken]
  BY LenProperties DEF R!Taken
<1> HIDE DEF after
<1>11. after[0] = R!Fresh /\ \A k \in 1..Len(times) : after[k] = Acc(after[k - 1], k)
  <2>1. after[0] = R!Fresh
    <3>1. 0 \in 0..Len(times)
      BY <1>0
    <3>2. QED
      BY <1>9, <3>1, Zenon
  <2>2. ASSUME NEW k \in 1..Len(times) PROVE after[k] = Acc(after[k - 1], k)
    <3>1. k \in 0..Len(times) /\ k # 0
      BY <1>0
    <3>2. QED
      BY <1>9, <3>1, Zenon
  <2>3. QED
    BY <2>1, <2>2
<1>12. \A k \in 0..Len(times) : after[k] \in Limiter(cap)
  <2> DEFINE Good == {m \in Nat : m <= Len(times) => after[m] \in Limiter(cap)}
  <2>1. 0 \in Good
    BY <1>1, <1>11
  <2>2. ASSUME NEW m \in Nat, m \in Good PROVE m + 1 \in Good
    <3>1. SUFFICES ASSUME m + 1 <= Len(times) PROVE after[m + 1] \in Limiter(cap)
      OBVIOUS
    <3>2. m + 1 \in 1..Len(times) /\ (m + 1) - 1 = m /\ m <= Len(times)
      BY <1>0, <3>1
    <3>3. after[m] \in Limiter(cap) /\ after[m + 1] = Acc(after[m], m + 1)
      BY <1>11, <2>2, <3>2
    <3>4. QED
      BY <1>2, <3>2, <3>3
  <2> HIDE DEF Good
  <2>3. \A m \in Nat : m \in Good
    BY <2>1, <2>2, CountingUp
  <2>4. QED
    BY <1>0, <2>3 DEF Good
<1>13. ASSUME NEW k \in 1..Len(times) PROVE Moves(after[k - 1], after[k], times[k], interval, cap)
  <2>1. k - 1 \in 0..Len(times)
    BY <1>0
  <2>2. QED
    BY <1>3, <1>11, <1>12, <2>1
<1>14. QED
  BY <1>1, <1>10, <1>11, <1>12, <1>13 DEF Limits, after

\* Between two frames a limiter that counts has taken one not long ago: the next
\* is due at most an interval and the tolerance after it, and the clock has not
\* gone back since.
Basis(l, times, interval, k, j) ==
  /\ l[j].taken /\ times[j] > 0 /\ times[j] <= l[k].last
  /\ l[k].next <= times[j] + interval + interval \div 20
  /\ \A a \in j..k : times[a] <= l[k].last
  /\ \A a, b \in j..k : a < b => times[b] = 0 \/ times[a] <= times[b]

\* While the limiter waits there is such a frame.
LEMMA BasisKept ==
  ASSUME NEW cap \in Nat, NEW interval \in Nat, interval > 0, NEW times \in Seq(0..cap),
         NEW l, Limits(l, times, interval, cap), NEW k \in 0..Len(times), l[k].next # -1
  PROVE  \E j \in 1..k : Basis(l, times, interval, k, j)
<1> DEFINE Based(m) == l[m].next # -1 => \E j \in 1..m : Basis(l, times, interval, m, j)
           Good == {m \in Nat : m <= Len(times) => Based(m)}
<1>0. /\ Len(times) \in Nat /\ interval \div 20 \in Nat
      /\ \A n \in 1..Len(times) : times[n] \in 0..cap
  BY ElementOfSeq, LenProperties
<1>1. 0 \in Good
  BY DEF Limits
<1>2. ASSUME NEW m \in Nat, m \in Good PROVE m + 1 \in Good
  <2>1. SUFFICES ASSUME m + 1 <= Len(times), l[m + 1].next # -1
                 PROVE  \E j \in 1..(m + 1) : Basis(l, times, interval, m + 1, j)
    OBVIOUS
  <2> DEFINE n == m + 1
             ts == times[n]
  <2>2. n \in Nat /\ n \in 1..Len(times) /\ n - 1 = m /\ m \in 0..Len(times) /\ m <= Len(times)
        /\ n \in 0..Len(times)
    BY <1>0, <2>1
  <2>3. ts \in Nat /\ ts <= cap
    BY <1>0, <2>2
  <2>4. /\ l[m].next \in {-1} \cup 0..cap /\ l[m].last \in Nat
        /\ l[n].next \in {-1} \cup 0..cap /\ l[n].last \in Nat
    BY <2>2 DEF Limits, Limiter
  <2>5. Moves(l[m], l[n], ts, interval, cap)
    BY <2>2 DEF Limits
  <2>6. \A j \in 1..m : times[j] \in Nat
    BY <1>0, <2>2
  <2>7. Based(m)
    BY <1>2, <2>2
  <2> HIDE DEF ts, n
  <2>8. ASSUME l[n].taken, ts > 0, l[n].last = ts, l[n].next <= ts + interval + interval \div 20
        PROVE  \E j \in 1..n : Basis(l, times, interval, n, j)
    <3>1. Basis(l, times, interval, n, n)
      BY <2>2, <2>3, <2>8 DEF Basis, ts
    <3>2. QED
      BY <2>2, <3>1
  <2>9. ASSUME l[m].next # -1, l[n].next = l[m].next, l[m].last <= l[n].last,
               ts = 0 \/ l[n].last = ts
        PROVE  \E j \in 1..n : Basis(l, times, interval, n, j)
    <3>1. PICK j \in 1..m : Basis(l, times, interval, m, j)
      BY <2>7, <2>9
    <3>2. j \in 1..n /\ \A a \in j..n : a = n \/ a \in j..m
      BY <2>2 DEF n
    <3>3. \A a \in j..n : times[a] <= l[n].last /\ times[a] \in Nat
      <4>1. ts <= l[n].last
        BY <2>3, <2>4, <2>9
      <4>2. ASSUME NEW a \in j..m PROVE times[a] <= l[n].last /\ times[a] \in Nat
        <5>1. times[a] <= l[m].last /\ times[a] \in Nat
          <6>1. a \in 1..m
            BY <3>1
          <6>2. QED
            BY <2>6, <3>1, <6>1 DEF Basis
        <5>2. QED
          BY <2>4, <2>9, <5>1
      <4>3. QED
        BY <2>3, <3>2, <4>1, <4>2 DEF ts
    <3>4. ASSUME NEW a \in j..n, NEW b \in j..n, a < b
          PROVE  times[b] = 0 \/ times[a] <= times[b]
      <4>1. CASE b = n
        BY <2>9, <3>3, <4>1 DEF ts
      <4>2. CASE b # n
        <5>1. a \in j..m /\ b \in j..m
          BY <2>2, <3>2, <3>4, <4>2
        <5>2. QED
          BY <3>1, <3>4, <5>1 DEF Basis
      <4>3. QED
        BY <4>1, <4>2
    <3>5. times[j] \in Nat /\ times[j] <= l[n].last
      BY <2>6, <3>2, <3>3, <2>2
    <3>6. Basis(l, times, interval, n, j)
      BY <2>9, <3>1, <3>3, <3>4, <3>5 DEF Basis
    <3>7. QED
      BY <3>2, <3>6
  <2>10. CASE Passes(l[m], l[n], ts, interval)
    <3>1. ts = 0 /\ l[n].next = l[m].next /\ l[n].last = l[m].last
      BY <2>10 DEF Passes
    <3>2. QED
      BY <2>1, <2>4, <2>9, <3>1 DEF n
  <2>11. CASE Begins(l[m], l[n], ts, interval, cap)
    <3>1. l[n].taken /\ ts > 0 /\ l[n].last = ts /\ l[n].next <= ts + interval + interval \div 20
      BY <1>0, <2>3, <2>11 DEF Begins, Later
    <3>2. QED
      BY <2>8, <3>1 DEF n
  <2>12. CASE Drops(l[m], l[n], ts, interval)
    <3>1. l[m].next # -1 /\ l[n].next = l[m].next /\ l[m].last <= l[n].last /\ l[n].last = ts
      BY <2>12 DEF Drops
    <3>2. QED
      BY <2>9, <3>1 DEF n
  <2>13. CASE Takes(l[m], l[n], ts, interval, cap)
    <3>1. l[n].taken /\ ts > 0 /\ l[n].last = ts
      BY <2>13 DEF Takes
    <3> DEFINE tol == interval \div 20
               due == l[m].next
    <3>2. due <= ts + tol /\ due \in Nat /\ tol \in Nat
      BY <1>0, <2>4, <2>13 DEF Takes
    <3>3. \/ l[n].next = Later(ts, interval, cap)
          \/ l[n].next = Later(due, interval, cap)
      BY <2>13 DEF Takes
    <3> HIDE DEF due, tol
    <3>4. Later(ts, interval, cap) <= ts + interval + tol /\ Later(due, interval, cap) <= ts + interval + tol
      BY <2>3, <3>2 DEF Later
    <3>5. l[n].next <= ts + interval + tol
      BY <3>3, <3>4
    <3>6. QED
      BY <2>8, <3>1, <3>5 DEF n, tol
  <2>14. QED
    BY <2>5, <2>10, <2>11, <2>12, <2>13 DEF Moves, n
<1>3. k \in Nat /\ k <= Len(times)
  BY <1>0
<1> HIDE DEF Good
<1>4. \A m \in Nat : m \in Good
  BY <1>1, <1>2, CountingUp
<1>5. QED
  BY <1>3, <1>4 DEF Good

\* No frame is left out without one taken less than an interval before it.
LEMMA NoneStarved ==
  ASSUME NEW cap \in Nat, NEW interval \in Nat, NEW times \in Seq(0..cap)
  PROVE  R!NeverStarved(times, interval, cap)
<1> DEFINE l == R!Limiters(times, interval, cap)
           taken == R!Taken(times, interval, cap)
<1>1. Limits(l, times, interval, cap)
  BY LimitersLimit
<1>2. \A k \in 1..Len(times) : taken[k] = l[k].taken
  BY LimitersLimit
<1>3. /\ Len(times) \in Nat /\ interval \div 20 \in Nat
      /\ \A n \in 1..Len(times) : times[n] \in 0..cap
  BY ElementOfSeq, LenProperties
<1> HIDE DEF l, taken
<1>4. ASSUME NEW i \in 1..Len(times), ~taken[i]
      PROVE  \E j \in 1..(i - 1) :
                /\ taken[j] /\ times[j] > 0 /\ times[i] - times[j] \in 0..(interval - 1)
                /\ \A a, b \in j..i : a < b => times[b] = 0 \/ times[a] <= times[b]
  <2> DEFINE m == i - 1
             ts == times[i]
  <2>1. m \in 0..Len(times) /\ ts \in Nat /\ m \in Nat
    BY <1>3
  <2>2. Moves(l[m], l[i], ts, interval, cap)
    BY <1>1 DEF Limits
  <2>3. ~l[i].taken
    BY <1>2, <1>4
  <2>4. Drops(l[m], l[i], ts, interval)
    BY <2>2, <2>3 DEF Moves, Passes, Begins, Takes
  <2>5. /\ interval > 0 /\ l[m].next # -1 /\ l[m].last <= ts
        /\ ts + interval \div 20 < l[m].next
    BY <2>4 DEF Drops
  <2>6. PICK j \in 1..m : Basis(l, times, interval, m, j)
    BY <1>1, <2>1, <2>5, BasisKept
  <2>7. l[m].next \in {-1} \cup 0..cap /\ l[m].last \in Nat
    BY <1>1, <2>1 DEF Limits, Limiter
  <2>8. j \in 1..Len(times) /\ times[j] \in Nat /\ \A a \in j..m : times[a] \in Nat
    BY <1>3, <2>1
  <2>9. taken[j] /\ times[j] > 0
    BY <1>2, <2>6, <2>8 DEF Basis
  <2>10. ts - times[j] \in 0..(interval - 1)
    <3> DEFINE tol == interval \div 20
               t == times[j]
               due == l[m].next
               last == l[m].last
    <3>1. t <= last /\ due <= t + interval + tol
      BY <2>6 DEF Basis
    <3>2. t \in Nat /\ last \in Nat /\ due \in Int /\ tol \in Nat /\ ts \in Nat
      BY <1>3, <2>1, <2>7, <2>8
    <3>3. last <= ts /\ ts + tol < due
      BY <2>5
    <3> HIDE DEF ts, t, due, last, tol
    <3>4. ts - t \in 0..(interval - 1)
      BY <3>1, <3>2, <3>3
    <3>5. QED
      BY <3>4 DEF t
  <2>11. ASSUME NEW a \in j..i, NEW b \in j..i, a < b
         PROVE  times[b] = 0 \/ times[a] <= times[b]
    <3>1. a \in j..m
      BY <2>11
    <3>2. CASE b = i
      <4>1. times[a] <= l[m].last /\ times[a] \in Nat
        BY <2>6, <2>8, <3>1 DEF Basis
      <4>2. l[m].last <= times[i] /\ l[m].last \in Nat /\ times[i] \in Nat
        BY <2>1, <2>5, <2>7
      <4>3. times[a] \in Int /\ times[i] \in Int /\ l[m].last \in Int
        BY <4>1, <4>2
      <4> DEFINE x == times[a]
                 y == l[m].last
                 z == times[i]
      <4>4. x \in Int /\ y \in Int /\ z \in Int /\ x <= y /\ y <= z
        BY <4>1, <4>2, <4>3
      <4> HIDE DEF x, y, z
      <4>5. x <= z
        BY <4>4
      <4>6. times[a] <= times[i]
        BY <4>5 DEF x, z
      <4>7. QED
        BY <3>2, <4>6
    <3>3. CASE b # i
      <4>1. b \in j..m
        BY <3>3
      <4>2. QED
        BY <2>6, <2>11, <3>1, <4>1 DEF Basis
    <3>4. QED
      BY <3>2, <3>3
  <2>12. QED
    BY <2>9, <2>10, <2>11
<1>5. DOMAIN times = 1..Len(times)
  BY LenProperties
<1>6. QED
  BY <1>4, <1>5 DEF R!NeverStarved, taken

\* Frames near their nominal times are due when they come: the next one is due no
\* later than its own nominal time after a frame that was taken.
LEMMA NominalTaken ==
  ASSUME NEW cap \in Nat, NEW interval \in Nat, NEW times \in Seq(0..cap)
  PROVE  R!NominalKept(times, interval, cap)
<1> DEFINE l == R!Limiters(times, interval, cap)
           taken == R!Taken(times, interval, cap)
           tol == interval \div 20
           span(k) == k * interval
           len == Len(times)
<1>1. Limits(l, times, interval, cap) /\ \A k \in 1..len : taken[k] = l[k].taken
  BY LimitersLimit
<1>2. /\ len \in Nat /\ tol \in Nat /\ DOMAIN times = 1..len
      /\ \A n \in 1..len : times[n] \in 0..cap
  BY ElementOfSeq, LenProperties
<1>3. \A k \in Nat : span(k) \in Int /\ span(k + 1) = span(k) + interval
  OBVIOUS
<1> HIDE DEF l, taken, span
<1>4. ASSUME NEW j \in 1..len PROVE times[j] \in Nat /\ span(j) \in Int
  <2>1. times[j] \in 0..cap
    BY <1>2
  <2>2. j \in Nat
    BY <1>2
  <2>3. span(j) \in Int
    BY <1>3, <2>2
  <2>4. QED
    BY <2>1, <2>3
<1>5. SUFFICES ASSUME \A i, j \in 1..len : (times[i] - span(i)) - (times[j] - span(j)) <= tol
               PROVE  \A i \in 1..len : taken[i]
  BY <1>2 DEF R!NominalKept, taken, span
<1> HIDE DEF tol, len
<1> DEFINE Due(m) == l[m].next # -1 =>
                       \E j \in 1..m : l[m].next <= (times[j] - span(j)) + span(m + 1)
           Good == {m \in Nat : m <= len => Due(m) /\ \A i \in 1..m : taken[i]}
<1>6. 0 \in Good
  BY <1>1 DEF Limits
<1>7. ASSUME NEW m \in Nat, m \in Good PROVE m + 1 \in Good
  <2> DEFINE n == m + 1
             ts == times[n]
             d == l[m].next
             e == l[n].next
  <2>1. SUFFICES ASSUME n <= len PROVE Due(n) /\ taken[n]
    <3>1. \A i \in 1..n : i = n \/ i \in 1..m
      OBVIOUS
    <3>2. m <= len \/ ~(n <= len)
      BY <1>2
    <3> HIDE DEF Due, n
    <3>3. QED
      BY <1>7, <3>1, <3>2 DEF n
  <2>2. n \in 1..len /\ m \in 0..len /\ n \in 0..len /\ n - 1 = m /\ n \in Nat /\ m <= len
    BY <1>2, <2>1
  <2>3. ts \in Nat /\ ts <= cap
    BY <1>2, <2>2
  <2>4. d \in Int /\ e \in Int
    BY <1>1, <2>2 DEF Limits, Limiter, len
  <2>5. Moves(l[m], l[n], ts, interval, cap) /\ taken[n] = l[n].taken
    BY <1>1, <2>2 DEF Limits, len
  <2>6. Due(m)
    BY <1>7, <2>2
  <2>7. span(n) \in Int /\ span(n + 1) = span(n) + interval /\ span(n) = span(m + 1)
    BY <1>3, <2>2
  <2>8. d # -1 => d <= ts + tol /\ \E j \in 1..m : d <= (times[j] - span(j)) + span(n)
    <3>1. SUFFICES ASSUME d # -1 PROVE d <= ts + tol /\ \E j \in 1..m : d <= (times[j] - span(j)) + span(n)
      OBVIOUS
    <3>2. PICK j \in 1..m : d <= (times[j] - span(j)) + span(n)
      BY <2>6, <2>7, <3>1
    <3>3. j \in 1..len /\ j \in Nat
      BY <2>2, <1>2
    <3>4. times[j] \in Nat /\ span(j) \in Int
      BY <1>4, <3>3
    <3>5. (times[j] - span(j)) - (ts - span(n)) <= tol
      BY <1>5, <2>2, <3>3
    <3> DEFINE a == times[j]
    <3> HIDE DEF a, ts, d, n
    <3> DEFINE p == span(j)
               q == span(n)
    <3>6. /\ a \in Nat /\ p \in Int /\ q \in Int /\ tol \in Nat /\ ts \in Nat /\ d \in Int
          /\ d <= (a - p) + q /\ (a - p) - (ts - q) <= tol
      BY <1>2, <2>3, <2>4, <2>7, <3>2, <3>4, <3>5 DEF a
    <3> HIDE DEF p, q
    <3>7. d <= ts + tol
      BY <3>6
    <3>8. QED
      BY <3>2, <3>7
  <2> HIDE DEF ts, n
  <2>9. ASSUME e <= ts + interval PROVE Due(n)
    <3>1. e <= (times[n] - span(n)) + span(n + 1)
      BY <2>3, <2>4, <2>7, <2>9 DEF ts
    <3>2. QED
      BY <2>2, <3>1
  <2>10. ASSUME d # -1, e <= d + interval PROVE Due(n)
    <3>1. PICK j \in 1..m : d <= (times[j] - span(j)) + span(n)
      BY <2>8, <2>10
    <3>2. j \in 1..len /\ j \in 1..n /\ j \in Nat
      BY <2>2, <1>2 DEF n
    <3>3. times[j] \in Nat /\ span(j) \in Int
      BY <1>4, <3>2
    <3> DEFINE a == times[j] - span(j)
    <3>4. a \in Int /\ d <= a + span(n)
      BY <3>1, <3>3
    <3> HIDE DEF a, d, e
    <3>5. e <= a + span(n + 1)
      BY <2>4, <2>7, <2>10, <3>4
    <3>6. QED
      BY <3>2, <3>5 DEF a, e
  <2>11. CASE Passes(l[m], l[n], ts, interval)
    <3>1. taken[n] /\ e = d
      BY <2>5, <2>11 DEF Passes
    <3>2. CASE d = -1
      BY <3>1, <3>2
    <3>3. CASE d # -1
      <4>1. e <= d + interval
        BY <2>4, <3>1
      <4>2. QED
        BY <2>10, <3>1, <3>3, <4>1
    <3>4. QED
      BY <3>2, <3>3
  <2>12. CASE Begins(l[m], l[n], ts, interval, cap)
    <3>1. taken[n] /\ e = Later(ts, interval, cap)
      BY <2>5, <2>12 DEF Begins
    <3>2. e <= ts + interval
      BY <2>3, <3>1 DEF Later
    <3>3. QED
      BY <2>9, <3>1, <3>2
  <2>13. CASE Drops(l[m], l[n], ts, interval)
    <3>1. d # -1 /\ ts + tol < d
      BY <2>13 DEF Drops, tol
    <3>2. QED
      BY <1>2, <2>3, <2>4, <2>8, <3>1
  <2>14. CASE Takes(l[m], l[n], ts, interval, cap)
    <3>1. taken[n] /\ d # -1
      BY <2>5, <2>14 DEF Takes
    <3>2. e = Later(ts, interval, cap) \/ e = Later(d, interval, cap)
      BY <2>14 DEF Takes
    <3>3. e <= ts + interval \/ e <= d + interval
      BY <2>3, <2>4, <3>2 DEF Later
    <3>4. QED
      BY <2>9, <2>10, <3>1, <3>3
  <2>15. QED
    BY <2>5, <2>11, <2>12, <2>13, <2>14 DEF Moves
<1> HIDE DEF Good
<1>8. \A m \in Nat : m \in Good
  BY <1>6, <1>7, CountingUp
<1>9. len \in Good
  BY <1>2, <1>8
<1>10. QED
  BY <1>2, <1>9 DEF Good

\* The number of frames taken from i to j.
Count(taken, i, j) == Cardinality({k \in i..j : taken[k]})

\* The limiter's Cardinality is the library's.
LEMMA SameCount == \A S : R!Cardinality(S) = Cardinality(S)
BY DEF R!Cardinality, Cardinality

\* One more frame is one more taken, or none.
LEMMA CountNext ==
  ASSUME NEW taken, NEW i \in Nat, NEW j \in Nat
  PROVE  /\ Count(taken, i, j) \in Nat
         /\ i = j => Count(taken, i, j) = IF taken[j] THEN 1 ELSE 0
         /\ i <= j => Count(taken, i, j + 1) = Count(taken, i, j) + (IF taken[j + 1] THEN 1 ELSE 0)
<1> DEFINE S(n) == {k \in i..n : taken[k]}
<1>1. \A n \in Nat : IsFiniteSet(S(n)) /\ Cardinality(S(n)) \in Nat
  <2> TAKE n \in Nat
  <2>1. IsFiniteSet(i..n)
    BY FS_Interval
  <2>2. IsFiniteSet(S(n))
    BY <2>1, FS_Subset, S(n) \subseteq i..n
  <2>3. QED
    BY <2>2, FS_CardinalityType
<1>2. ASSUME i = j PROVE Cardinality(S(j)) = IF taken[j] THEN 1 ELSE 0
  <2>1. CASE taken[j]
    <3>1. S(j) = {j}
      BY <1>2, <2>1
    <3>2. Cardinality({j}) = 1
      BY FS_Singleton
    <3>3. QED
      BY <2>1, <3>1, <3>2
  <2>2. CASE ~taken[j]
    <3>1. S(j) = {}
      BY <1>2, <2>2
    <3>2. QED
      BY <2>2, <3>1, FS_EmptySet
  <2>3. QED
    BY <2>1, <2>2
<1>3. ASSUME i <= j PROVE Cardinality(S(j + 1)) = Cardinality(S(j)) + (IF taken[j + 1] THEN 1 ELSE 0)
  <2>1. j + 1 \notin S(j) /\ j + 1 \in Nat
    OBVIOUS
  <2>2. CASE taken[j + 1]
    <3>1. S(j + 1) = S(j) \cup {j + 1}
      BY <1>3, <2>2
    <3>2. IsFiniteSet(S(j))
      BY <1>1
    <3> HIDE DEF S
    <3>3. Cardinality(S(j) \cup {j + 1}) = Cardinality(S(j)) + 1
      BY <2>1, <3>2, FS_AddElement
    <3>4. QED
      BY <2>2, <3>1, <3>3
  <2>3. CASE ~taken[j + 1]
    <3>1. S(j + 1) = S(j)
      BY <1>3, <2>3
    <3>2. Cardinality(S(j)) \in Nat
      BY <1>1
    <3> HIDE DEF S
    <3>3. QED
      BY <2>3, <3>1, <3>2
  <2>4. QED
    BY <2>2, <2>3
<1>4. QED
  BY <1>1, <1>2, <1>3 DEF Count

\* On a clock that only goes on and is far from its end the limiter always waits
\* for a frame that is not before the last one.
LEMMA SteadyWaits ==
  ASSUME NEW cap \in Nat, NEW interval \in Nat, NEW times \in Seq(0..cap), NEW l,
         Limits(l, times, interval, cap), R!Steady(times, interval, cap)
  PROVE  /\ \A k \in 1..Len(times) :
              times[k] <= l[k].next /\ l[k].next # -1 /\ l[k].last = times[k]
         /\ \A i, j \in 1..Len(times) : i <= j => times[i] <= times[j]
<1> DEFINE len == Len(times)
           Waits(m) == times[m] <= l[m].next /\ l[m].next # -1 /\ l[m].last = times[m]
           Ready == {m \in Nat : m \in 1..len => Waits(m)}
<1>1. /\ len \in Nat /\ DOMAIN times = 1..len
      /\ \A n \in 1..len : times[n] \in 0..cap
  BY ElementOfSeq, LenProperties
<1>2. /\ interval > 0
      /\ \A k \in 1..len : times[k] > 0 /\ times[k] + interval < cap
      /\ \A k \in 2..len : times[k] >= times[k - 1]
  BY <1>1 DEF R!Steady
<1>3. \A k \in 0..len : l[k].next \in {-1} \cup 0..cap /\ l[k].last \in 0..cap
  BY DEF Limits, Limiter
<1>4. l[0].next = -1 /\ \A k \in 1..len : Moves(l[k - 1], l[k], times[k], interval, cap)
  BY DEF Limits
<1> HIDE DEF len
<1>5. ASSUME NEW m \in Nat, m + 1 \in 1..len, m = 0 \/ Waits(m)
      PROVE  Waits(m + 1)
  <2> DEFINE n == m + 1
             ts == times[n]
             d == l[m].next
             e == l[n].next
  <2>1. n \in 1..len /\ n - 1 = m /\ m \in 0..len /\ n \in 0..len
    BY <1>1, <1>5
  <2>2. ts \in Nat /\ ts > 0 /\ ts + interval < cap
    BY <1>1, <1>2, <2>1
  <2>3. Moves(l[m], l[n], ts, interval, cap)
    BY <1>4, <2>1
  <2>4. d \in {-1} \cup 0..cap /\ e \in Int
    BY <1>3, <2>1
  <2>5. interval \div 20 \in Nat
    OBVIOUS
  <2> HIDE DEF ts, n
  <2>6. CASE Passes(l[m], l[n], ts, interval)
    BY <1>2, <2>2, <2>6 DEF Passes
  <2>7. CASE Begins(l[m], l[n], ts, interval, cap)
    <3>1. e = Later(ts, interval, cap) /\ l[n].last = ts
      BY <2>7 DEF Begins
    <3>2. e >= ts /\ e # -1
      BY <2>2, <3>1 DEF Later
    <3>3. QED
      BY <3>1, <3>2 DEF n, ts
  <2>8. CASE Drops(l[m], l[n], ts, interval)
    <3>1. e = d /\ l[n].last = ts /\ d # -1 /\ ts + interval \div 20 < d
      BY <2>8 DEF Drops
    <3>2. e >= ts /\ e # -1
      BY <2>2, <2>4, <2>5, <3>1
    <3>3. QED
      BY <3>1, <3>2 DEF n, ts
  <2>9. CASE Takes(l[m], l[n], ts, interval, cap)
    <3>1. l[n].last = ts /\ d # -1
      BY <2>9 DEF Takes
    <3>2. e = Later(ts, interval, cap) \/ (ts <= d + interval /\ e = Later(d, interval, cap))
      BY <2>9 DEF Takes
    <3>3. e >= ts /\ e # -1
      BY <2>2, <2>4, <3>1, <3>2 DEF Later
    <3>4. QED
      BY <3>1, <3>3 DEF n, ts
  <2>10. QED
    BY <2>3, <2>6, <2>7, <2>8, <2>9 DEF Moves, n
<1>6. \A m \in Nat : m \in Ready
  <2> HIDE DEF Waits
  <2>1. 0 \in Ready
    OBVIOUS
  <2>2. ASSUME NEW m \in Nat, m \in Ready PROVE m + 1 \in Ready
    <3>1. SUFFICES ASSUME m + 1 \in 1..len PROVE Waits(m + 1)
      OBVIOUS
    <3>2. m = 0 \/ m \in 1..len
      BY <1>1, <3>1
    <3>3. QED
      BY <1>5, <2>2, <3>1, <3>2
  <2> HIDE DEF Ready
  <2>3. QED
    BY <2>1, <2>2, CountingUp
<1>7. \A k \in 1..len : Waits(k)
  BY <1>1, <1>6
<1>8. ASSUME NEW i \in 1..len, NEW j \in 1..len, i <= j PROVE times[i] <= times[j]
  <2> DEFINE Grown == {m \in Nat : i + m <= len => times[i] <= times[i + m]}
  <2>1. i \in Nat /\ times[i] \in Nat
    BY <1>1
  <2>2. 0 \in Grown
    BY <2>1
  <2>3. ASSUME NEW m \in Nat, m \in Grown PROVE m + 1 \in Grown
    <3>1. SUFFICES ASSUME i + (m + 1) <= len PROVE times[i] <= times[i + (m + 1)]
      OBVIOUS
    <3> DEFINE a == i + m
               b == i + (m + 1)
    <3>2. a \in 1..len /\ b \in 2..len /\ b - 1 = a /\ b \in 1..len
      BY <1>1, <2>1, <3>1
    <3>3. times[i] <= times[a]
      BY <1>1, <2>3, <3>2
    <3> HIDE DEF a, b
    <3>4. times[b] >= times[a] /\ times[a] \in Nat /\ times[b] \in Nat
      <4>1. times[b] >= times[b - 1]
        BY <1>2, <3>2
      <4>2. times[a] \in 0..cap /\ times[b] \in 0..cap
        BY <1>1, <3>2
      <4>3. QED
        BY <3>2, <4>1, <4>2
    <3>5. times[i] <= times[b]
      BY <2>1, <3>3, <3>4
    <3>6. QED
      BY <3>5 DEF b
  <2> HIDE DEF Grown
  <2>4. \A m \in Nat : m \in Grown
    BY <2>2, <2>3, CountingUp
  <2>5. j - i \in Nat /\ i + (j - i) = j /\ j <= len
    BY <1>1, <1>8
  <2>6. j - i \in Grown
    BY <2>4, <2>5
  <2>7. QED
    BY <2>5, <2>6 DEF Grown
<1>9. QED
  BY <1>7, <1>8 DEF len

\* A whole number of intervals in a span is at most the quotient.
LEMMA WholeIntervals ==
  ASSUME NEW d \in Nat, NEW n \in Int, NEW interval \in Nat, interval > 0, n * interval <= d
  PROVE  n <= d \div interval
<1> DEFINE q == d \div interval
           r == d % interval
<1>1. q \in Nat /\ r \in Nat /\ r < interval /\ d = interval * q + r
  OBVIOUS
<1> HIDE DEF q, r
<1>2. SUFFICES ASSUME n >= q + 1 PROVE FALSE
  BY <1>1 DEF q
<1>3. n * interval >= (q + 1) * interval
  <2>1. (n - (q + 1)) * interval >= 0
    BY <1>1, <1>2
  <2>2. (n - (q + 1)) * interval = n * interval - (q + 1) * interval
    BY <1>1
  <2>3. n * interval \in Int /\ (q + 1) * interval \in Int
    BY <1>1
  <2>4. QED
    BY <2>1, <2>2, <2>3
<1>4. (q + 1) * interval = interval * q + interval
  BY <1>1
<1>5. n * interval \in Int /\ interval * q \in Int
  BY <1>1
<1>6. QED
  BY <1>1, <1>3, <1>4, <1>5

\* Frames from i to j: after c of them were taken the next one is due c - 1
\* intervals after the first, or never, and the last one came not much earlier
\* than it was due.
LEMMA NotFaster ==
  ASSUME NEW cap \in Nat, NEW interval \in Nat, NEW times \in Seq(0..cap), NEW l,
         Limits(l, times, interval, cap), R!Steady(times, interval, cap),
         NEW taken, \A k \in 1..Len(times) : taken[k] = l[k].taken,
         NEW i \in 1..Len(times), NEW j \in 1..Len(times), i <= j
  PROVE  Count(taken, i, j) <= (times[j] - times[i] + interval \div 20) \div interval + 2
<1> DEFINE len == Len(times)
           tol == interval \div 20
           span(c) == c * interval
           c(j_1) == Count(taken, i, j_1)
           Paced(m) == \/ c(m) = 0
                       \/ /\ l[m].next >= times[i] + span(c(m) - 1) \/ l[m].next = cap
                          /\ times[m] + tol >= times[i] + span(c(m) - 2)
           Good == {m \in Nat : i + m <= len => Paced(i + m)}
<1>1. /\ len \in Nat /\ i \in Nat /\ j \in Nat
      /\ \A n \in 1..len : times[n] \in 0..cap
      /\ interval > 0 /\ tol \in Nat /\ tol <= interval
      /\ \A n \in 1..len : times[n] > 0 /\ times[n] + interval < cap
  <2>1. len \in Nat /\ DOMAIN times = 1..len /\ \A n \in 1..len : times[n] \in 0..cap
    BY ElementOfSeq, LenProperties
  <2>2. interval > 0
    BY DEF R!Steady
  <2>3. \A n \in 1..len : times[n] > 0 /\ times[n] + interval < cap
    BY <2>1 DEF R!Steady
  <2>4. tol \in Nat /\ tol <= interval
    BY <2>2
  <2>5. QED
    BY <2>1, <2>2, <2>3, <2>4
<1>2. \A n \in Int : span(n) \in Int /\ span(n + 1) = span(n) + interval
  OBVIOUS
<1>3. span(0) = 0 /\ span(-1) = -interval
  OBVIOUS
<1>4. /\ \A k \in 1..len : times[k] <= l[k].next /\ l[k].next # -1 /\ l[k].last = times[k]
      /\ \A a, b \in 1..len : a <= b => times[a] <= times[b]
  BY SteadyWaits
<1>5. \A k \in 1..len : Moves(l[k - 1], l[k], times[k], interval, cap) /\ l[k].next \in Int
  BY DEF Limits, Limiter
<1>6. \A k \in 1..len : k >= i => /\ c(k) \in Nat
                                  /\ c(k + 1) = c(k) + (IF taken[k + 1] THEN 1 ELSE 0)
  <2> TAKE k \in 1..len
  <2>1. k \in Nat
    BY <1>1
  <2>2. QED
    BY <1>1, <2>1, CountNext
<1>7. c(i) = IF taken[i] THEN 1 ELSE 0
  BY <1>1, CountNext
<1>8. \A k \in 1..len : taken[k] = l[k].taken
  OBVIOUS
<1> HIDE DEF len, tol, span, c
<1>t. \A n \in 1..len : times[n] \in Nat /\ times[n] + interval < cap
  <2> TAKE n \in 1..len
  <2>1. times[n] \in 0..cap /\ times[n] + interval < cap
    BY <1>1
  <2>2. QED
    BY <2>1
<1>i. i \in 1..len /\ j \in 1..len
  BY DEF len
<1>9. 0 \in Good
  <2>1. i + 0 = i /\ times[i] \in Nat /\ l[i].next >= times[i]
    <3>1. times[i] <= l[i].next
      BY <1>4, <1>i
    <3>2. times[i] \in Nat /\ l[i].next \in Int /\ i \in Nat
      BY <1>1, <1>5, <1>i, <1>t
    <3>3. QED
      BY <3>1, <3>2
  <2>2. times[i] + tol >= times[i] + span(-1)
    BY <1>1, <1>3, <2>1
  <2>3. CASE c(i) = 1
    <3>1. c(i) - 1 = 0 /\ c(i) - 2 = -1
      BY <2>3
    <3>2. Paced(i)
      BY <1>3, <2>1, <2>2, <3>1
    <3>3. QED
      BY <2>1, <3>2
  <2>4. QED
    BY <1>7, <2>1, <2>3
<1>10. ASSUME NEW m \in Nat, m \in Good PROVE m + 1 \in Good
  <2> DEFINE a == i + m
             n == i + (m + 1)
             ts == times[n]
             d == l[a].next
             e == l[n].next
             t == times[a]
             first == times[i]
             had == c(a)
  <2>1. SUFFICES ASSUME n <= len PROVE Paced(n)
    OBVIOUS
  <2>2. a \in 1..len /\ n \in 1..len /\ n - 1 = a /\ a + 1 = n /\ a >= i /\ a <= n /\ n >= i /\ a <= len
    BY <1>1, <2>1
  <2>3. Paced(a)
    BY <1>10, <2>2
  <2> HIDE DEF a, n
  <2>4. ts \in Nat /\ t \in Nat /\ first \in Nat /\ t <= ts /\ first <= ts /\ ts + interval < cap
    <3>1. ts \in Nat /\ t \in Nat /\ first \in Nat /\ ts + interval < cap
      BY <1>i, <1>t, <2>2
    <3>2. t <= ts
      BY <1>4, <2>2
    <3>3. i <= n
      BY <1>1, <2>2
    <3>4. first <= ts
      BY <1>4, <1>i, <2>2, <3>3
    <3>5. QED
      BY <3>1, <3>2, <3>4
  <2>5. d \in Int /\ e \in Int /\ d # -1 /\ l[a].last = t /\ e >= ts
    <3>1. d \in Int /\ e \in Int
      BY <1>5, <2>2
    <3>2. d # -1 /\ l[a].last = t /\ ts <= e
      BY <1>4, <2>2
    <3>3. QED
      BY <2>4, <3>1, <3>2
  <2>6. Moves(l[a], l[n], ts, interval, cap) /\ taken[n] = l[n].taken
    BY <1>5, <1>8, <2>2
  <2>7. had \in Nat /\ c(n) = had + (IF taken[n] THEN 1 ELSE 0)
    BY <1>6, <2>2
  <2>8. had = 0 \/ ((d >= first + span(had - 1) \/ d = cap) /\ t + tol >= first + span(had - 2))
    BY <2>3
  <2>9. /\ span(had) \in Int /\ span(had - 1) \in Int /\ span(had - 2) \in Int
        /\ span(had) = span(had - 1) + interval
    <3>1. had - 1 \in Int /\ had - 2 \in Int /\ (had - 1) + 1 = had /\ had \in Int
      BY <2>7
    <3>2. QED
      BY <1>2, <3>1
  <2>10. CASE ~taken[n]
    <3>1. Drops(l[a], l[n], ts, interval)
      BY <2>6, <2>10 DEF Moves, Passes, Begins, Takes
    <3>2. e = d /\ c(n) = had
      BY <2>7, <2>10, <3>1 DEF Drops
    <3>3. t + tol >= first + span(had - 2) => ts + tol >= first + span(had - 2)
      <4> DEFINE s == span(had - 2)
      <4>1. s \in Int /\ tol \in Nat
        BY <1>1, <2>9
      <4> HIDE DEF s, t, ts, first
      <4>2. QED
        BY <2>4, <4>1 DEF s
    <3>4. had = 0 \/ ((e >= first + span(had - 1) \/ e = cap) /\ ts + tol >= first + span(had - 2))
      BY <2>8, <3>2, <3>3
    <3>5. QED
      BY <3>2, <3>4
  <2>11. CASE taken[n]
    <3>1. Takes(l[a], l[n], ts, interval, cap)
      <4>1. ~Passes(l[a], l[n], ts, interval)
        BY <1>1, <2>2 DEF Passes
      <4>2. ~Begins(l[a], l[n], ts, interval, cap)
        <5>1. ~(ts < t)
          <6> HIDE DEF ts, t
          <6>1. QED
            BY <2>4
        <5>2. l[a].next # -1 /\ l[a].last = t
          BY <2>5
        <5>3. QED
          BY <5>1, <5>2, Zenon DEF Begins
      <4>3. QED
        BY <2>6, <2>11, <4>1, <4>2 DEF Moves, Drops
    <3>2. /\ d <= ts + tol
          /\ \/ d + interval < ts /\ e = Later(ts, interval, cap)
             \/ ts <= d + interval /\ e = Later(d, interval, cap)
      BY <3>1 DEF Takes, tol
    <3>3. c(n) = had + 1 /\ c(n) - 1 = had /\ c(n) - 2 = had - 1
      BY <2>7, <2>11
    <3>4. had = 0 \/ d >= first + span(had - 1)
      <4>1. tol \in Nat /\ tol <= interval
        BY <1>1
      <4>2. d <= ts + tol
        BY <3>2
      <4>3. had = 0 \/ d >= first + span(had - 1) \/ d = cap
        BY <2>8
      <4> HIDE DEF ts, d
      <4>4. d < cap
        BY <2>4, <2>5, <4>1, <4>2
      <4>5. QED
        BY <4>3, <4>4
    <3> HIDE DEF ts, t, d, e, first, had
    <3>5. e >= first + span(had) \/ e = cap
      <4>1. CASE had = 0
        BY <1>3, <2>4, <2>5, <4>1
      <4>2. CASE had # 0
        <5> DEFINE p == span(had - 1)
        <5>1. p \in Int /\ span(had) = p + interval /\ d >= first + p /\ d \in Int
          BY <2>5, <2>9, <3>4, <4>2
        <5> HIDE DEF p
        <5>2. d + interval >= first + span(had) /\ first + span(had) \in Int
          BY <2>4, <5>1
        <5>3. e = cap \/ e = d + interval \/ (e = ts + interval /\ d + interval < ts)
          BY <3>2 DEF Later
        <5>4. QED
          BY <2>4, <2>5, <5>2, <5>3
      <4>3. QED
        BY <4>1, <4>2
    <3>6. ts + tol >= first + span(had - 1)
      <4>1. CASE had = 0
        <5>1. span(had - 1) = -interval
          BY <1>3, <4>1
        <5>2. QED
          BY <1>1, <2>4, <5>1
      <4>2. CASE had # 0
        BY <1>1, <2>4, <2>5, <2>9, <3>2, <3>4, <4>2
      <4>3. QED
        BY <4>1, <4>2
    <3>7. QED
      BY <3>3, <3>5, <3>6 DEF ts, e, first, had
  <2>12. QED
    BY <2>10, <2>11 DEF n
<1> HIDE DEF Good
<1>11. \A m \in Nat : m \in Good
  BY <1>9, <1>10, CountingUp
<1>12. j - i \in Nat /\ i + (j - i) = j /\ j <= len
  BY <1>1 DEF len
<1>13. Paced(j)
  BY <1>11, <1>12 DEF Good
<1> DEFINE d == times[j] - times[i] + tol
<1>14. times[j] \in Nat /\ times[i] \in Nat /\ d \in Nat
  <2>1. times[j] \in Nat /\ times[i] \in Nat /\ times[i] <= times[j]
    BY <1>1, <1>4 DEF len
  <2>2. QED
    BY <1>1, <2>1
<1>15. c(j) \in Nat /\ span(c(j) - 2) <= d
  <2>1. c(j) \in Nat
    BY <1>1, CountNext DEF c
  <2>2. span(-2) <= 0
    BY <1>1 DEF span
  <2>3. CASE c(j) = 0
    <3>1. c(j) - 2 = -2
      BY <2>3
    <3>2. span(c(j) - 2) <= 0 /\ d >= 0 /\ span(c(j) - 2) \in Int
      BY <1>2, <1>14, <2>2, <3>1
    <3> HIDE DEF d
    <3>3. QED
      BY <1>14, <2>1, <3>2
  <2>4. CASE c(j) # 0
    <3>1. times[j] + tol >= times[i] + span(c(j) - 2)
      BY <1>13, <2>4
    <3>2. c(j) - 2 \in Int
      BY <2>1
    <3>3. span(c(j) - 2) \in Int
      BY <1>2, <3>2
    <3> DEFINE s == span(c(j) - 2)
               a == times[i]
               b == times[j]
    <3>4. tol \in Nat /\ s \in Int /\ a \in Nat /\ b \in Nat
      BY <1>1, <1>14, <3>3
    <3>5. b + tol >= a + s => s <= (b - a) + tol
      <4> HIDE DEF s, a, b
      <4>1. QED
        BY <3>4
    <3>6. QED
      BY <2>1, <3>1, <3>5
  <2>5. QED
    BY <2>3, <2>4
<1>16. c(j) - 2 <= d \div interval /\ d \div interval \in Nat
  <2> HIDE DEF d
  <2>1. c(j) - 2 \in Int /\ (c(j) - 2) * interval <= d
    BY <1>15 DEF span
  <2>2. d \div interval \in Nat
    <3>1. interval > 0 /\ d \in Nat
      BY <1>1, <1>14
    <3>2. QED
      BY <3>1
  <2>3. QED
    BY <1>1, <1>14, <2>1, <2>2, WholeIntervals
<1>17. c(j) <= d \div interval + 2
  <2> HIDE DEF d
  <2>1. QED
    BY <1>15, <1>16
<1>18. QED
  BY <1>17 DEF c, tol

\* Frames that come at least as fast as the rate: the next one is due no later
\* than an interval for each one taken after the first came.
LEMMA NotSlower ==
  ASSUME NEW cap \in Nat, NEW interval \in Nat, NEW times \in Seq(0..cap), NEW l,
         Limits(l, times, interval, cap), R!Steady(times, interval, cap),
         NEW taken, \A k \in 1..Len(times) : taken[k] = l[k].taken,
         Len(times) > 0, \A k \in 2..Len(times) : times[k] - times[k - 1] <= interval
  PROVE  Count(taken, 1, Len(times)) * interval >= times[Len(times)] - times[1]
<1> DEFINE len == Len(times)
           span(n) == n * interval
           c(k) == Count(taken, 1, k)
           Near(m) == l[m].next <= times[1] + span(c(m))
           Good == {m \in Nat : m \in 1..len => Near(m)}
<1>1. /\ len \in Nat /\ len > 0 /\ interval > 0
      /\ \A n \in 1..len : times[n] \in 0..cap /\ times[n] > 0
  <2>1. len \in Nat /\ DOMAIN times = 1..len /\ \A n \in 1..len : times[n] \in 0..cap
    BY ElementOfSeq, LenProperties
  <2>2. interval > 0 /\ \A n \in 1..len : times[n] > 0
    BY <2>1 DEF R!Steady
  <2>3. QED
    BY <2>1, <2>2
<1>2. \A n \in Nat : span(n) \in Int /\ span(n + 1) = span(n) + interval
  OBVIOUS
<1>3. \A k \in 1..len : times[k] <= l[k].next /\ l[k].next # -1 /\ l[k].last = times[k]
  BY SteadyWaits
<1>4. \A k \in 1..len : Moves(l[k - 1], l[k], times[k], interval, cap) /\ l[k].next \in Int
  BY DEF Limits, Limiter
<1>5. l[0].next = -1
  BY DEF Limits
<1>6. \A k \in 1..len : c(k) \in Nat /\ c(k + 1) = c(k) + (IF taken[k + 1] THEN 1 ELSE 0)
  <2> TAKE k \in 1..len
  <2>1. k \in Nat /\ 1 \in Nat /\ 1 <= k
    BY <1>1
  <2>2. QED
    BY <2>1, CountNext
<1>7. c(1) = IF taken[1] THEN 1 ELSE 0
  BY CountNext
<1>8. \A k \in 1..len : taken[k] = l[k].taken
  OBVIOUS
<1>9. \A k \in 2..len : times[k] - times[k - 1] <= interval
  OBVIOUS
<1>10. span(1) = interval
  OBVIOUS
<1> HIDE DEF len, span, c
<1>11. \A n \in 1..len : times[n] \in Nat
  <2> TAKE n \in 1..len
  <2>1. times[n] \in 0..cap
    BY <1>1
  <2>2. QED
    BY <2>1
<1>12. 1 \in 1..len /\ len \in 1..len
  BY <1>1
<1>13. Near(1)
  <2> DEFINE t == times[1]
  <2>1. t \in Nat /\ t > 0
    BY <1>1, <1>11, <1>12
  <2>2. Moves(l[0], l[1], t, interval, cap)
    <3>1. 1 - 1 = 0
      OBVIOUS
    <3>2. QED
      BY <1>4, <1>12, <3>1
  <2> HIDE DEF t
  <2>3. Begins(l[0], l[1], t, interval, cap)
    BY <1>1, <1>5, <2>1, <2>2 DEF Moves, Passes, Drops, Takes
  <2>4. l[1].taken /\ l[1].next = Later(t, interval, cap)
    BY <2>3 DEF Begins
  <2>5. c(1) = 1
    BY <1>7, <1>8, <1>12, <2>4
  <2>6. Later(t, interval, cap) <= t + interval
    BY <2>1 DEF Later
  <2>7. QED
    BY <1>10, <2>4, <2>5, <2>6 DEF t
<1>14. ASSUME NEW m \in Nat, m \in Good PROVE m + 1 \in Good
  <2> DEFINE n == m + 1
             ts == times[n]
             d == l[m].next
             e == l[n].next
             t == times[m]
             first == times[1]
             had == c(m)
             s == span(had)
  <2>1. SUFFICES ASSUME n \in 1..len PROVE Near(n)
    OBVIOUS
  <2>2. CASE m = 0
    BY <1>13, <2>2
  <2>3. CASE m # 0
    <3>1. m \in 1..len /\ n - 1 = m /\ n \in 2..len
      BY <1>1, <2>1, <2>3
    <3>2. Near(m)
      BY <1>14, <3>1
    <3> HIDE DEF n
    <3>3. ts \in Nat /\ t \in Nat /\ first \in Nat
      BY <1>11, <1>12, <2>1, <3>1
    <3>4. ts - t <= interval
      BY <1>9, <3>1
    <3>5. d \in Int /\ e \in Int
      BY <1>4, <2>1, <3>1
    <3>6. t <= d /\ d # -1 /\ l[m].last = t /\ ts <= e
      BY <1>3, <2>1, <3>1
    <3>7. Moves(l[m], l[n], ts, interval, cap) /\ taken[n] = l[n].taken
      BY <1>4, <1>8, <2>1, <3>1
    <3>8. had \in Nat /\ c(n) = had + (IF taken[n] THEN 1 ELSE 0)
      <4>1. m + 1 = n
        BY DEF n
      <4>2. QED
        BY <1>6, <3>1, <4>1
    <3>9. s \in Int /\ span(had + 1) = s + interval /\ d <= first + s
      BY <1>2, <3>2, <3>8
    <3>10. ts > 0
      BY <1>1, <2>1
    <3>11. CASE ~taken[n]
      <4>1. Drops(l[m], l[n], ts, interval)
        BY <3>7, <3>11 DEF Moves, Passes, Begins, Takes
      <4>2. e = d /\ c(n) = had
        BY <3>8, <3>11, <4>1 DEF Drops
      <4>3. QED
        BY <3>2, <4>2 DEF n
    <3>12. CASE taken[n]
      <4>1. ts <= d + interval
        <5> HIDE DEF ts, t, d
        <5>1. QED
          BY <3>3, <3>4, <3>5, <3>6
      <4>2. e = Later(d, interval, cap) \/ (e = Later(ts, interval, cap) /\ d + interval < ts)
        <5>1. CASE Takes(l[m], l[n], ts, interval, cap)
          BY <5>1 DEF Takes
        <5>2. ~Passes(l[m], l[n], ts, interval)
          BY <1>1, <3>10 DEF Passes
        <5>3. CASE Begins(l[m], l[n], ts, interval, cap)
          <6>1. ts < t
            BY <3>6, <5>3 DEF Begins
          <6>2. e = Later(ts, interval, cap)
            BY <5>3 DEF Begins
          <6>3. t <= ts
            BY <3>1, <3>3, SteadyWaits, <2>1 DEF len
          <6>4. QED
            BY <3>3, <6>1, <6>3
        <5>4. QED
          BY <3>7, <3>12, <5>1, <5>2, <5>3 DEF Moves, Drops
      <4>3. c(n) = had + 1
        BY <3>8, <3>12
      <4> HIDE DEF ts, t, d, e, first, s
      <4>4. e = Later(d, interval, cap)
        BY <3>3, <3>5, <4>1, <4>2
      <4>5. e <= first + (s + interval)
        BY <3>3, <3>5, <3>9, <4>4 DEF Later
      <4>6. e <= first + span(c(n))
        BY <3>9, <4>3, <4>5
      <4>7. QED
        BY <4>6 DEF e, first, n
    <3>13. QED
      BY <3>11, <3>12
  <2>4. QED
    BY <2>2, <2>3
<1>15. 0 \in Good
  OBVIOUS
<1> HIDE DEF Good
<1>16. \A m \in Nat : m \in Good
  BY <1>14, <1>15, CountingUp
<1>17. Near(len)
  BY <1>1, <1>12, <1>16 DEF Good
<1> DEFINE a == times[len]
           b == times[1]
           d == l[len].next
           s == span(c(len))
<1>18. a \in Nat /\ b \in Nat /\ d \in Int /\ a <= d /\ d <= b + s
  BY <1>3, <1>4, <1>11, <1>12, <1>17
<1>19. s \in Int
  BY <1>2, <1>6, <1>12
<1> HIDE DEF a, b, d, s
<1>20. s >= a - b
  BY <1>18, <1>19
<1>21. QED
  BY <1>20 DEF a, b, s, span, c, len

\* A limited stream is neither faster nor slower than its rate.
LEMMA RateOfAll ==
  ASSUME NEW cap \in Nat, NEW interval \in Nat, NEW times \in Seq(0..cap), Len(times) > 0
  PROVE  R!RateHeld(times, interval, cap)
<1> DEFINE l == R!Limiters(times, interval, cap)
           taken == R!Taken(times, interval, cap)
<1>1. Limits(l, times, interval, cap) /\ \A k \in 1..Len(times) : taken[k] = l[k].taken
  BY LimitersLimit
<1>2. DOMAIN times = 1..Len(times) /\ Len(times) \in Nat
  BY LenProperties
<1> HIDE DEF l, taken
<1>3. SUFFICES ASSUME R!Steady(times, interval, cap)
      PROVE  /\ \A i, j \in 1..Len(times) : i < j =>
                   Count(taken, i, j) <= (times[j] - times[i] + interval \div 20) \div interval + 2
             /\ (\A k \in 2..Len(times) : times[k] - times[k - 1] <= interval)
                   => Count(taken, 1, Len(times)) * interval >= times[Len(times)] - times[1]
  BY <1>2, SameCount DEF R!RateHeld, R!Last, Count, taken
<1>4. ASSUME NEW i \in 1..Len(times), NEW j \in 1..Len(times), i < j
      PROVE  Count(taken, i, j) <= (times[j] - times[i] + interval \div 20) \div interval + 2
  <2>1. i <= j
    BY <1>2, <1>4
  <2>2. QED
    BY <1>1, <1>3, <2>1, NotFaster
<1>5. QED
  BY <1>1, <1>3, <1>4, NotSlower

-----------------------------------------------------------------------------
(* Conversion of a frame to an image of any size.                           *)

\* What a quotient is.
LEMMA QuotientIs ==
  ASSUME NEW n \in Nat, NEW d \in Nat, d > 0, NEW q \in Nat, q * d <= n, n < q * d + d
  PROVE  n \div d = q
<1>1. PICK k \in Nat, e \in Nat : k = n \div d /\ e < d /\ n = d * k + e
  <2> DEFINE k == n \div d
             e == n % d
  <2>1. k \in Nat /\ e \in Nat /\ e < d /\ n = d * k + e
    OBVIOUS
  <2>2. QED
    BY <2>1
<1>2. q <= k
  <2>1. q <= n \div d
    BY WholeIntervals
  <2>2. QED
    BY <1>1, <2>1
<1>3. k <= q
  <2>1. SUFFICES ASSUME k >= q + 1 PROVE FALSE
    BY <1>1
  <2>2. (q + 1) * d <= k * d
    BY <2>1, <1>1, ProductGrows
  <2>3. (q + 1) * d = q * d + d /\ k * d = d * k /\ q * d \in Nat /\ d * k \in Nat
    BY <1>1
  <2>4. QED
    BY <1>1, <2>2, <2>3
<1>4. QED
  BY <1>1, <1>2, <1>3

\* A quotient is below what the number is below times the divisor.
LEMMA QuotientBelow ==
  ASSUME NEW i \in Nat, NEW w \in Nat, NEW d \in Nat, w > 0, i < d
  PROVE  (i * w) \div d \in Nat /\ (i * w) \div d <= w - 1
<1>1. i * w \in Nat
  OBVIOUS
<1>2. PICK k \in Nat, e \in Nat : k = (i * w) \div d /\ e < d /\ i * w = d * k + e
  <2> DEFINE n == i * w
             k == n \div d
             e == n % d
  <2>1. n \in Nat
    BY <1>1
  <2> HIDE DEF n
  <2>2. k \in Nat /\ e \in Nat /\ e < d /\ n = d * k + e
    BY <2>1
  <2>3. QED
    BY <2>2 DEF n
<1>3. SUFFICES ASSUME k >= w PROVE FALSE
  BY <1>2
<1>4. (i + 1) * w <= d * k
  BY <1>2, <1>3, ProductGrows
<1>5. (i + 1) * w = i * w + w /\ d * k \in Nat
  BY <1>2
<1>6. QED
  BY <1>1, <1>2, <1>4, <1>5

FramePlane == [offset : Nat, length : Nat, row_stride : Nat, pixel_stride : Nat]

\* A frame that passed validate and a request for at least a pixel.
Convertible(l, length, r) ==
  /\ l.width \in Nat /\ l.height \in Nat /\ l.bottom_up \in BOOLEAN
  /\ l.format \in F!PixelFormats \ F!Encoded
  /\ l.planes \in Seq(FramePlane)
  /\ F!ValidLayout(l, length)
  /\ r.width \in Nat /\ r.width > 0 /\ r.height \in Nat /\ r.height > 0

\* Each of `rows` rows of `columns` pixels of `bytes` bytes is in the plane.
HasRoom(plane, columns, rows, bytes) ==
  /\ plane \in FramePlane /\ columns \in Nat /\ columns > 0 /\ rows \in Nat /\ rows > 0
  /\ plane.pixel_stride >= bytes
  /\ plane.row_stride >= (columns - 1) * plane.pixel_stride + bytes
  /\ plane.length >= (rows - 1) * plane.row_stride + (columns - 1) * plane.pixel_stride + bytes

\* What validate makes sure of, format by format.
RoomOf(l) ==
  /\ l.width > 0 /\ l.height > 0
  /\ l.format \in F!PackedYuv =>
        HasRoom(l.planes[1], l.width, l.height, 2) /\ l.width % 2 = 0 /\ l.planes[1].pixel_stride = 2
  /\ l.format \in F!SemiPlanar =>
        /\ HasRoom(l.planes[1], l.width, l.height, 1)
        /\ HasRoom(l.planes[2], F!CeilHalf(l.width), F!CeilHalf(l.height), 2)
  /\ l.format = "Yuv420p" =>
        /\ HasRoom(l.planes[1], l.width, l.height, 1)
        /\ HasRoom(l.planes[2], F!CeilHalf(l.width), F!CeilHalf(l.height), 1)
        /\ HasRoom(l.planes[3], F!CeilHalf(l.width), F!CeilHalf(l.height), 1)
  /\ l.format \in F!Rgb24 => HasRoom(l.planes[1], l.width, l.height, 3)
  /\ l.format \in F!Rgb32 => HasRoom(l.planes[1], l.width, l.height, 4)
  /\ l.format = "Gray8" => HasRoom(l.planes[1], l.width, l.height, 1)
  /\ DOMAIN l.planes =
        (IF l.format \in F!SemiPlanar THEN 1..2 ELSE IF l.format = "Yuv420p" THEN 1..3 ELSE 1..1)

\* Half a number, rounded up, is half of it or a little more.
LEMMA HalfUp ==
  ASSUME NEW n \in Nat
  PROVE  /\ F!CeilHalf(n) \in Nat /\ n <= 2 * F!CeilHalf(n) /\ 2 * F!CeilHalf(n) <= n + 1
         /\ n > 0 => F!CeilHalf(n) > 0
BY DEF F!CeilHalf

\* Halves of the columns are the columns of the halves.
LEMMA HalfBelow ==
  ASSUME NEW n \in Nat, NEW x \in Nat, x <= n - 1
  PROVE  x \div 2 \in Nat /\ x \div 2 <= F!CeilHalf(n) - 1
<1>1. x \div 2 <= (n + 1) \div 2 - 1
  OBVIOUS
<1>2. QED
  BY <1>1 DEF F!CeilHalf

\* An even number and the next have the same half.
LEMMA SameHalf ==
  ASSUME NEW s \in Nat, s % 2 = 0, NEW k \in Nat, k <= 1
  PROVE  (s + k) \div 2 = s \div 2
OBVIOUS

\* What validate compares for a plane.
LEMMA PlaneRoom ==
  ASSUME NEW plane \in FramePlane, NEW columns \in Nat, columns > 0, NEW rows \in Nat, rows > 0,
         NEW bytes \in Nat, F!PlaneHolds(<<columns, rows, bytes>>, plane)
  PROVE  HasRoom(plane, columns, rows, bytes)
<1> DEFINE spec == <<columns, rows, bytes>>
<1>1. spec[1] = columns /\ spec[2] = rows /\ spec[3] = bytes
  OBVIOUS
<1>2. F!RowBytes(spec, plane) = (columns - 1) * plane.pixel_stride + bytes
  BY <1>1 DEF F!RowBytes
<1> HIDE DEF spec
<1>3. /\ plane.pixel_stride >= bytes /\ plane.row_stride >= F!RowBytes(spec, plane)
      /\ plane.length >= (rows - 1) * plane.row_stride + F!RowBytes(spec, plane)
  BY <1>1 DEF F!PlaneHolds, spec
<1>4. /\ (rows - 1) * plane.row_stride \in Nat /\ (columns - 1) * plane.pixel_stride \in Nat
  BY DEF FramePlane
<1>5. QED
  BY <1>2, <1>3, <1>4 DEF HasRoom

\* A layout that passed validate has room for its pixels.
LEMMA LayoutRoom ==
  ASSUME NEW l, NEW length, NEW r, Convertible(l, length, r)
  PROVE  RoomOf(l)
<1> DEFINE w == l.width
           h == l.height
           specs == F!PlaneSpecs(l.format, w, h)
<1>0. w \in Nat /\ h \in Nat /\ l.planes \in Seq(FramePlane)
  BY DEF Convertible
<1>1. /\ w > 0 /\ h > 0
      /\ l.format \in F!PackedYuv => w % 2 = 0
      /\ Len(l.planes) = Len(specs)
      /\ \A i \in DOMAIN specs :
            /\ F!PlaneHolds(specs[i], l.planes[i])
            /\ l.format \in F!PackedYuv => l.planes[i].pixel_stride = 2
  BY DEF Convertible, F!ValidLayout
<1>2. DOMAIN l.planes = 1..Len(specs) /\ \A i \in 1..Len(specs) : l.planes[i] \in FramePlane
  BY <1>0, <1>1, ElementOfSeq, LenProperties
<1>3. /\ F!CeilHalf(w) \in Nat /\ F!CeilHalf(w) > 0 /\ F!CeilHalf(h) \in Nat /\ F!CeilHalf(h) > 0
  BY <1>0, <1>1, HalfUp
<1>4. ASSUME NEW k \in {1, 2, 3, 4}, specs = <<<<w, h, k>>>>
      PROVE  /\ DOMAIN l.planes = 1..1 /\ HasRoom(l.planes[1], w, h, k)
             /\ l.format \in F!PackedYuv => l.planes[1].pixel_stride = 2
  <2>1. Len(specs) = 1 /\ DOMAIN specs = 1..1 /\ specs[1] = <<w, h, k>>
    BY <1>4
  <2>2. F!PlaneHolds(<<w, h, k>>, l.planes[1]) /\ l.planes[1] \in FramePlane
    BY <2>1, <1>1, <1>2
  <2>3. QED
    BY <2>1, <2>2, <1>0, <1>1, <1>2, PlaneRoom
<1>5. CASE l.format \in F!PackedYuv
  <2>1. specs = <<<<w, h, 2>>>>
    BY <1>5 DEF F!PlaneSpecs, F!PackedYuv, F!Encoded, F!SemiPlanar, F!Rgb24, F!Rgb32
  <2>2. QED
    BY <2>1, <1>1, <1>4, <1>5 DEF RoomOf, F!PackedYuv, F!SemiPlanar, F!Rgb24, F!Rgb32
<1>6. CASE l.format \in F!SemiPlanar
  <2>1. specs = <<<<w, h, 1>>, <<F!CeilHalf(w), F!CeilHalf(h), 2>>>>
    BY <1>6 DEF F!PlaneSpecs, F!Encoded, F!SemiPlanar, F!PackedYuv, F!Rgb24, F!Rgb32
  <2>2. /\ Len(specs) = 2 /\ DOMAIN specs = 1..2 /\ specs[1] = <<w, h, 1>>
        /\ specs[2] = <<F!CeilHalf(w), F!CeilHalf(h), 2>>
    BY <2>1
  <2>3. /\ F!PlaneHolds(<<w, h, 1>>, l.planes[1]) /\ l.planes[1] \in FramePlane
        /\ F!PlaneHolds(<<F!CeilHalf(w), F!CeilHalf(h), 2>>, l.planes[2]) /\ l.planes[2] \in FramePlane
    BY <2>2, <1>1, <1>2
  <2>4. HasRoom(l.planes[1], w, h, 1) /\ HasRoom(l.planes[2], F!CeilHalf(w), F!CeilHalf(h), 2)
    BY <2>3, <1>0, <1>1, <1>3, PlaneRoom
  <2>5. QED
    BY <2>2, <2>4, <1>1, <1>2, <1>6 DEF RoomOf, F!PackedYuv, F!SemiPlanar, F!Rgb24, F!Rgb32
<1>7. CASE l.format = "Yuv420p"
  <2>1. specs = <<<<w, h, 1>>, <<F!CeilHalf(w), F!CeilHalf(h), 1>>, <<F!CeilHalf(w), F!CeilHalf(h), 1>>>>
    BY <1>7 DEF F!PlaneSpecs, F!Encoded, F!SemiPlanar, F!PackedYuv, F!Rgb24, F!Rgb32
  <2>2. /\ Len(specs) = 3 /\ DOMAIN specs = 1..3 /\ specs[1] = <<w, h, 1>>
        /\ specs[2] = <<F!CeilHalf(w), F!CeilHalf(h), 1>>
        /\ specs[3] = <<F!CeilHalf(w), F!CeilHalf(h), 1>>
    BY <2>1
  <2>3. /\ F!PlaneHolds(<<w, h, 1>>, l.planes[1]) /\ l.planes[1] \in FramePlane
        /\ F!PlaneHolds(<<F!CeilHalf(w), F!CeilHalf(h), 1>>, l.planes[2]) /\ l.planes[2] \in FramePlane
        /\ F!PlaneHolds(<<F!CeilHalf(w), F!CeilHalf(h), 1>>, l.planes[3]) /\ l.planes[3] \in FramePlane
    BY <2>2, <1>1, <1>2
  <2>4. /\ HasRoom(l.planes[1], w, h, 1)
        /\ HasRoom(l.planes[2], F!CeilHalf(w), F!CeilHalf(h), 1)
        /\ HasRoom(l.planes[3], F!CeilHalf(w), F!CeilHalf(h), 1)
    BY <2>3, <1>0, <1>1, <1>3, PlaneRoom
  <2>5. QED
    BY <2>2, <2>4, <1>1, <1>2, <1>7 DEF RoomOf, F!PackedYuv, F!SemiPlanar, F!Rgb24, F!Rgb32
<1>8. CASE l.format \in F!Rgb24 \cup F!Rgb32 \cup {"Gray8"}
  <2> DEFINE k == IF l.format \in F!Rgb24 THEN 3 ELSE IF l.format \in F!Rgb32 THEN 4 ELSE 1
  <2>1. specs = <<<<w, h, k>>>>
    BY <1>8 DEF F!PlaneSpecs, F!Encoded, F!SemiPlanar, F!PackedYuv, F!Rgb24, F!Rgb32
  <2>2. k \in {1, 2, 3, 4}
    OBVIOUS
  <2>3. DOMAIN l.planes = 1..1 /\ HasRoom(l.planes[1], w, h, k)
    BY <1>4, <2>1, <2>2
  <2>4. QED
    BY <2>3, <1>1, <1>8 DEF RoomOf, F!PackedYuv, F!SemiPlanar, F!Rgb24, F!Rgb32
<1>9. QED
  BY <1>5, <1>6, <1>7, <1>8
     DEF Convertible, F!PixelFormats, F!Yuv, F!PackedYuv, F!SemiPlanar, F!Rgb24, F!Rgb32, F!Encoded

\* Where a row and a pixel of a plane begin.
RowAt(plane, y) == plane.offset + y * plane.row_stride

PixelAt(plane, x, y) == RowAt(plane, y) + x * plane.pixel_stride

\* A byte of the frame that some plane of the layout owns.
Owned(l, byte) == \E i \in DOMAIN l.planes : byte - l.planes[i].offset \in 0..(l.planes[i].length - 1)

\* A row of a plane with room lies in it ...
LEMMA RowOwned ==
  ASSUME NEW l, NEW i \in DOMAIN l.planes, NEW columns, NEW rows, NEW bytes \in Nat,
         HasRoom(l.planes[i], columns, rows, bytes),
         NEW y \in Nat, y <= rows - 1,
         NEW k \in Nat, k < (columns - 1) * l.planes[i].pixel_stride + bytes
  PROVE  Owned(l, RowAt(l.planes[i], y) + k)
<1> DEFINE P == l.planes[i]
           before == y * P.row_stride
           all == (rows - 1) * P.row_stride
           row == (columns - 1) * P.pixel_stride
<1>1. /\ P.offset \in Nat /\ P.length \in Nat /\ P.row_stride \in Nat /\ P.pixel_stride \in Nat
      /\ columns - 1 \in Nat /\ rows \in Nat
  BY DEF HasRoom, FramePlane
<1>2. before \in Nat /\ all \in Nat /\ before <= all
  BY <1>1, RowBegins
<1>3. row \in Nat
  BY <1>1
<1>4. P.length >= all + row + bytes /\ k < row + bytes
  BY DEF HasRoom
<1>5. RowAt(P, y) = P.offset + before
  BY DEF RowAt
<1> HIDE DEF before, all, row, P
<1>6. (RowAt(P, y) + k) - P.offset \in 0..(P.length - 1)
  BY <1>1, <1>2, <1>3, <1>4, <1>5
<1>7. QED
  BY <1>6 DEF Owned, P

\* ... and so do the bytes of a pixel.
LEMMA PixelOwned ==
  ASSUME NEW l, NEW i \in DOMAIN l.planes, NEW columns, NEW rows, NEW bytes \in Nat,
         HasRoom(l.planes[i], columns, rows, bytes),
         NEW x \in Nat, x <= columns - 1, NEW y \in Nat, y <= rows - 1,
         NEW k \in Nat, k < bytes
  PROVE  Owned(l, PixelAt(l.planes[i], x, y) + k)
<1> DEFINE P == l.planes[i]
           before == x * P.pixel_stride
           row == (columns - 1) * P.pixel_stride
           at == RowAt(P, y)
<1>1. P.offset \in Nat /\ P.row_stride \in Nat /\ P.pixel_stride \in Nat /\ columns \in Nat
  BY DEF HasRoom, FramePlane
<1>2. before \in Nat /\ row \in Nat /\ before <= row
  BY <1>1, RowBegins
<1>3. at \in Nat
  <2>1. y * P.row_stride \in Nat
    BY <1>1
  <2>2. QED
    BY <1>1, <2>1 DEF RowAt
<1>4. PixelAt(P, x, y) = at + before
  BY DEF PixelAt
<1>5. Owned(l, at + (before + k))
  <2>1. before + k \in Nat /\ before + k < row + bytes
    BY <1>2
  <2>2. QED
    BY <2>1, RowOwned
<1> HIDE DEF before, row, at, P
<1>6. at + (before + k) = PixelAt(P, x, y) + k
  BY <1>2, <1>3, <1>4
<1>7. QED
  BY <1>5, <1>6 DEF P

\* The source pixel at x and y, as it is read pixel by pixel.
SourcePixel(l, x, y) ==
  IF l.format \in F!Yuv THEN F!ScalarTriple(l, x, y)
  ELSE F!RgbTriple(l.format, F!At(F!View(l.planes[1], 0), x, y))

\* Where they begin are numbers.
LEMMA PlaneNumbers ==
  ASSUME NEW P \in FramePlane, NEW x \in Nat, NEW y \in Nat
  PROVE  /\ P.offset \in Nat /\ P.row_stride \in Nat /\ P.pixel_stride \in Nat /\ P.length \in Nat
         /\ y * P.row_stride \in Nat /\ x * P.pixel_stride \in Nat
         /\ RowAt(P, y) \in Nat /\ PixelAt(P, x, y) \in Nat
<1>1. P.offset \in Nat /\ P.row_stride \in Nat /\ P.pixel_stride \in Nat /\ P.length \in Nat
  BY DEF FramePlane
<1>2. y * P.row_stride \in Nat /\ x * P.pixel_stride \in Nat
  BY <1>1
<1>3. QED
  BY <1>1, <1>2 DEF RowAt, PixelAt

\* What a view from the plane's beginning sees at x and y.
LEMMA ViewAt ==
  ASSUME NEW P \in FramePlane, NEW x \in Nat, NEW y \in Nat, NEW shift \in Nat
  PROVE  F!At(F!View(P, shift), x, y) = PixelAt(P, x, y) + shift
<1> DEFINE v == F!View(P, shift)
<1>1. v.at = P.offset + shift /\ v.row_stride = P.row_stride /\ v.pixel_stride = P.pixel_stride
  BY DEF F!View
<1>2. F!At(v, x, y) = (P.offset + shift) + y * P.row_stride + x * P.pixel_stride
  BY <1>1 DEF F!At
<1>3. P.offset \in Nat /\ y * P.row_stride \in Nat /\ x * P.pixel_stride \in Nat
  BY PlaneNumbers
<1>4. QED
  BY <1>2, <1>3 DEF RowAt, PixelAt

\* The pixels of a view of the whole plane are those of the plane.
LEMMA ViewFrom ==
  ASSUME NEW P \in FramePlane, NEW x \in Nat, NEW y \in Nat
  PROVE  F!At(F!View(P, 0), x, y) = PixelAt(P, x, y)
<1>1. F!At(F!View(P, 0), x, y) = PixelAt(P, x, y) + 0
  BY ViewAt
<1>2. PixelAt(P, x, y) \in Nat
  BY PlaneNumbers
<1>3. QED
  BY <1>1, <1>2

\* There is a first plane, and planes are planes.
LEMMA FirstPlane ==
  ASSUME NEW l, RoomOf(l), l.planes \in Seq(FramePlane)
  PROVE  /\ 1 \in DOMAIN l.planes /\ \A i \in DOMAIN l.planes : l.planes[i] \in FramePlane
         /\ l.format \in F!SemiPlanar \cup {"Yuv420p"} => 2 \in DOMAIN l.planes
         /\ l.format = "Yuv420p" => 3 \in DOMAIN l.planes
<1>1. \A i \in DOMAIN l.planes : l.planes[i] \in FramePlane
  BY ElementOfSeq, LenProperties
<1>2. QED
  BY <1>1 DEF RoomOf, F!SemiPlanar

\* The bytes of a source pixel, format by format.
LEMMA SourceBytes ==
  ASSUME NEW l, RoomOf(l), l.planes \in Seq(FramePlane), NEW x \in Nat, NEW y \in Nat
  PROVE  LET at == PixelAt(l.planes[1], x, y)
             row == RowAt(l.planes[1], y) + 4 * (x \div 2)
             chroma(i) == PixelAt(l.planes[i], x \div 2, y \div 2)
         IN  /\ l.format = "Yuyv" => SourcePixel(l, x, y) = <<at, row + 1, row + 3>>
             /\ l.format = "Uyvy" => SourcePixel(l, x, y) = <<at + 1, row, row + 2>>
             /\ l.format = "Nv12" => SourcePixel(l, x, y) = <<at, chroma(2), chroma(2) + 1>>
             /\ l.format = "Nv21" => SourcePixel(l, x, y) = <<at, chroma(2) + 1, chroma(2)>>
             /\ l.format = "Yuv420p" => SourcePixel(l, x, y) = <<at, chroma(2), chroma(3)>>
             /\ l.format \notin F!Yuv => SourcePixel(l, x, y) = F!RgbTriple(l.format, at)
<1>1. x \div 2 \in Nat /\ y \div 2 \in Nat
  OBVIOUS
<1>2. F!At(F!View(l.planes[1], 0), x, y) = PixelAt(l.planes[1], x, y)
  <2>1. l.planes[1] \in FramePlane
    BY FirstPlane
  <2>2. QED
    BY <2>1, ViewFrom
<1>3. ASSUME NEW i \in DOMAIN l.planes
      PROVE  F!At(F!View(l.planes[i], 0), x \div 2, y \div 2) = PixelAt(l.planes[i], x \div 2, y \div 2)
  <2>1. l.planes[i] \in FramePlane
    BY FirstPlane
  <2>2. QED
    BY <1>1, <2>1, ViewFrom
<1>4. l.format \notin F!Yuv => SourcePixel(l, x, y) = F!RgbTriple(l.format, PixelAt(l.planes[1], x, y))
  BY <1>2 DEF SourcePixel
<1>5. l.format \in F!Yuv => SourcePixel(l, x, y) = F!ScalarTriple(l, x, y)
  BY DEF SourcePixel
<1>6. CASE l.format \in {"Yuyv", "Uyvy"}
  BY <1>2, <1>5, <1>6 DEF F!ScalarTriple, F!Yuv, F!PackedYuv, RowAt
<1>7. CASE l.format \in {"Nv12", "Nv21"}
  <2>1. 2 \in DOMAIN l.planes
    BY <1>7, FirstPlane DEF F!SemiPlanar
  <2>2. QED
    BY <2>1, <1>2, <1>3, <1>5, <1>7 DEF F!ScalarTriple, F!Yuv, F!SemiPlanar
<1>8. CASE l.format = "Yuv420p"
  <2>1. 2 \in DOMAIN l.planes /\ 3 \in DOMAIN l.planes
    BY <1>8, FirstPlane
  <2>2. QED
    BY <2>1, <1>2, <1>3, <1>5, <1>8 DEF F!ScalarTriple, F!Yuv
<1>9. CASE l.format \notin {"Yuyv", "Uyvy", "Nv12", "Nv21", "Yuv420p"}
  BY <1>4, <1>9
<1>10. QED
  BY <1>6, <1>7, <1>8, <1>9

\* All of a triple.
LEMMA TripleOwned ==
  ASSUME NEW l, NEW a, NEW b, NEW d, Owned(l, a), Owned(l, b), Owned(l, d),
         NEW f, f = <<a, b, d>>, NEW c \in 1..3
  PROVE  Owned(l, f[c])
<1>1. CASE c = 1
  BY <1>1
<1>2. CASE c = 2
  BY <1>2
<1>3. CASE c = 3
  BY <1>3
<1>4. QED
  BY <1>1, <1>2, <1>3

\* The bytes of a pixel are in its plane.
LEMMA PixelBytes ==
  ASSUME NEW l, NEW i \in DOMAIN l.planes, NEW columns, NEW rows, NEW bytes \in Nat,
         HasRoom(l.planes[i], columns, rows, bytes),
         NEW x \in Nat, x <= columns - 1, NEW y \in Nat, y <= rows - 1
  PROVE  /\ bytes > 0 => Owned(l, PixelAt(l.planes[i], x, y))
         /\ \A k \in 0..(bytes - 1) : Owned(l, PixelAt(l.planes[i], x, y) + k)
<1>1. l.planes[i] \in FramePlane
  BY DEF HasRoom
<1>2. PixelAt(l.planes[i], x, y) \in Nat
  BY <1>1, PlaneNumbers
<1>3. ASSUME NEW k \in 0..(bytes - 1) PROVE Owned(l, PixelAt(l.planes[i], x, y) + k)
  <2>1. k \in Nat /\ k < bytes
    OBVIOUS
  <2>2. QED
    BY <2>1, PixelOwned
<1>4. bytes > 0 => Owned(l, PixelAt(l.planes[i], x, y))
  <2>1. SUFFICES ASSUME bytes > 0 PROVE Owned(l, PixelAt(l.planes[i], x, y))
    OBVIOUS
  <2>2. Owned(l, PixelAt(l.planes[i], x, y) + 0)
    BY <1>3, <2>1
  <2>3. PixelAt(l.planes[i], x, y) + 0 = PixelAt(l.planes[i], x, y)
    BY <1>2
  <2>4. QED
    BY <2>2, <2>3
<1>5. QED
  BY <1>3, <1>4

\* Whichever pixel of the source is read, its bytes are the layout's.
LEMMA SourceOwned ==
  ASSUME NEW l, RoomOf(l), l.planes \in Seq(FramePlane), l.width \in Nat, l.height \in Nat,
         l.format \in F!PixelFormats \ F!Encoded,
         NEW x \in Nat, x <= l.width - 1, NEW y \in Nat, y <= l.height - 1, NEW c \in 1..3
  PROVE  Owned(l, SourcePixel(l, x, y)[c])
<1> DEFINE at == PixelAt(l.planes[1], x, y)
           row == RowAt(l.planes[1], y)
           pair == 4 * (x \div 2)
           U == PixelAt(l.planes[2], x \div 2, y \div 2)
           V == PixelAt(l.planes[3], x \div 2, y \div 2)
           pixel == SourcePixel(l, x, y)
<1>1. /\ l.format = "Yuyv" => pixel = <<at, (row + pair) + 1, (row + pair) + 3>>
      /\ l.format = "Uyvy" => pixel = <<at + 1, row + pair, (row + pair) + 2>>
      /\ l.format = "Nv12" => pixel = <<at, U, U + 1>>
      /\ l.format = "Nv21" => pixel = <<at, U + 1, U>>
      /\ l.format = "Yuv420p" => pixel = <<at, U, V>>
      /\ l.format \notin F!Yuv => pixel = F!RgbTriple(l.format, at)
  BY SourceBytes
<1>2. x \div 2 \in Nat /\ y \div 2 \in Nat /\ 2 * (x \div 2) <= x /\ 2 * (y \div 2) <= y
  OBVIOUS
<1>3. /\ 1 \in DOMAIN l.planes /\ \A i \in DOMAIN l.planes : l.planes[i] \in FramePlane
  BY FirstPlane
<1>4. row \in Nat /\ at \in Nat
  BY <1>3, PlaneNumbers
<1>5. ASSUME NEW bytes \in Nat, HasRoom(l.planes[1], l.width, l.height, bytes)
      PROVE  (bytes > 0 => Owned(l, at)) /\ \A k \in 0..(bytes - 1) : Owned(l, at + k)
  BY <1>3, <1>5, PixelBytes
<1>6. ASSUME NEW i \in DOMAIN l.planes, NEW bytes \in Nat,
             HasRoom(l.planes[i], F!CeilHalf(l.width), F!CeilHalf(l.height), bytes)
      PROVE  /\ bytes > 0 => Owned(l, PixelAt(l.planes[i], x \div 2, y \div 2))
             /\ \A k \in 0..(bytes - 1) : Owned(l, PixelAt(l.planes[i], x \div 2, y \div 2) + k)
  <2>1. x \div 2 <= F!CeilHalf(l.width) - 1
    BY HalfBelow
  <2>2. y \div 2 <= F!CeilHalf(l.height) - 1
    BY HalfBelow
  <2>3. QED
    BY <1>2, <1>6, <2>1, <2>2, PixelBytes
<1> HIDE DEF at, U, V, pixel
<1>7. CASE l.format \in F!PackedYuv
  <2> DEFINE P == l.planes[1]
  <2>1. HasRoom(P, l.width, l.height, 2) /\ l.width % 2 = 0 /\ P.pixel_stride = 2
    BY <1>7 DEF RoomOf
  <2>2. Owned(l, at) /\ Owned(l, at + 1)
    BY <2>1, <1>5
  <2>3. pair \in Nat /\ pair + 3 < 2 * l.width
    BY <2>1, <1>2
  <2>4. \A k \in Nat : k < 2 * l.width => Owned(l, row + k)
    <3>1. (l.width - 1) * P.pixel_stride + 2 = 2 * l.width
      BY <2>1
    <3>2. QED
      BY <1>3, <2>1, <3>1, RowOwned
  <2> HIDE DEF pair, row, P
  <2>5. Owned(l, row + pair) /\ Owned(l, row + (pair + 1)) /\ Owned(l, row + (pair + 2))
        /\ Owned(l, row + (pair + 3))
    BY <2>3, <2>4
  <2>6. row + (pair + 1) = (row + pair) + 1 /\ row + (pair + 2) = (row + pair) + 2
        /\ row + (pair + 3) = (row + pair) + 3
    BY <1>4, <2>3
  <2>7. CASE l.format = "Yuyv"
    <3>1. pixel = <<at, (row + pair) + 1, (row + pair) + 3>>
      BY <1>1, <2>7 DEF pair, row
    <3>2. QED
      BY <2>2, <2>5, <2>6, <3>1, TripleOwned DEF pixel
  <2>8. CASE l.format = "Uyvy"
    <3>1. pixel = <<at + 1, row + pair, (row + pair) + 2>>
      BY <1>1, <2>8 DEF pair, row
    <3>2. QED
      BY <2>2, <2>5, <2>6, <3>1, TripleOwned DEF pixel
  <2>9. QED
    BY <1>7, <2>7, <2>8 DEF F!PackedYuv
<1>8. CASE l.format \in F!SemiPlanar
  <2>1. /\ HasRoom(l.planes[1], l.width, l.height, 1) /\ 2 \in DOMAIN l.planes
        /\ HasRoom(l.planes[2], F!CeilHalf(l.width), F!CeilHalf(l.height), 2)
    BY <1>8, FirstPlane DEF RoomOf
  <2>2. Owned(l, at)
    BY <2>1, <1>5
  <2>3. Owned(l, U) /\ Owned(l, U + 1)
    BY <2>1, <1>6 DEF U
  <2>4. pixel = <<at, U, U + 1>> \/ pixel = <<at, U + 1, U>>
    BY <1>1, <1>8 DEF F!SemiPlanar
  <2>5. QED
    BY <2>2, <2>3, <2>4, TripleOwned DEF pixel
<1>9. CASE l.format = "Yuv420p"
  <2>1. /\ HasRoom(l.planes[1], l.width, l.height, 1) /\ 2 \in DOMAIN l.planes /\ 3 \in DOMAIN l.planes
        /\ HasRoom(l.planes[2], F!CeilHalf(l.width), F!CeilHalf(l.height), 1)
        /\ HasRoom(l.planes[3], F!CeilHalf(l.width), F!CeilHalf(l.height), 1)
    BY <1>9, FirstPlane DEF RoomOf
  <2>2. Owned(l, at)
    BY <2>1, <1>5
  <2>3. Owned(l, U) /\ Owned(l, V)
    BY <2>1, <1>6 DEF U, V
  <2>4. pixel = <<at, U, V>>
    BY <1>1, <1>9
  <2>5. QED
    BY <2>2, <2>3, <2>4, TripleOwned DEF pixel
<1>10. CASE l.format \in F!Rgb24 \cup F!Rgb32 \cup {"Gray8"}
  <2> DEFINE k == IF l.format \in F!Rgb24 THEN 3 ELSE IF l.format \in F!Rgb32 THEN 4 ELSE 1
  <2>1. k \in Nat /\ k > 0 /\ HasRoom(l.planes[1], l.width, l.height, k)
    BY <1>10 DEF RoomOf, F!Rgb24, F!Rgb32
  <2>2. Owned(l, at) /\ \A n \in 0..(k - 1) : Owned(l, at + n)
    BY <2>1, <1>5
  <2>3. pixel = F!RgbTriple(l.format, at)
    BY <1>1, <1>10 DEF F!Yuv, F!PackedYuv, F!SemiPlanar, F!Rgb24, F!Rgb32
  <2>4. CASE l.format \in F!Rgb24
    <3>1. pixel = <<at, at + 1, at + 2>> \/ pixel = <<at + 2, at + 1, at>>
      BY <2>3, <2>4 DEF F!RgbTriple, F!Rgb24
    <3>2. Owned(l, at + 1) /\ Owned(l, at + 2)
      BY <2>2, <2>4
    <3>3. QED
      BY <2>2, <3>1, <3>2, TripleOwned DEF pixel
  <2>5. CASE l.format \in F!Rgb32
    <3>1. \/ pixel = <<at, at + 1, at + 2>> \/ pixel = <<at + 2, at + 1, at>>
          \/ pixel = <<at + 1, at + 2, at + 3>>
      BY <2>3, <2>5 DEF F!RgbTriple, F!Rgb32
    <3>2. Owned(l, at + 1) /\ Owned(l, at + 2) /\ Owned(l, at + 3)
      <4>1. k = 4
        BY <2>5 DEF F!Rgb24, F!Rgb32
      <4>2. QED
        BY <2>2, <4>1
    <3>3. QED
      BY <2>2, <3>1, <3>2, TripleOwned DEF pixel
  <2>6. CASE l.format = "Gray8"
    <3>1. pixel = <<at, at, at>>
      BY <2>3, <2>6 DEF F!RgbTriple
    <3>2. QED
      BY <2>2, <3>1, TripleOwned DEF pixel
  <2>7. QED
    BY <1>10, <2>4, <2>5, <2>6
<1>11. QED
  BY <1>7, <1>8, <1>9, <1>10 DEF F!PixelFormats, F!Yuv, F!PackedYuv, F!SemiPlanar, F!Rgb24, F!Rgb32, F!Encoded

Pixels(w, h) == (0..(w - 1)) \X (0..(h - 1))

MapX(l, r, i) == (i * l.width) \div r.width

MapY(l, r, j) ==
  IF l.bottom_up THEN l.height - ((j * l.height) \div r.height) - 1 ELSE (j * l.height) \div r.height

MapOf(l, r) == F!NearestMap(l.width, l.height, r.width, r.height, l.bottom_up)

\* The image a request is answered with.
Nearest(l, r) ==
  [p \in Pixels(r.width, r.height) |-> SourcePixel(l, MapX(l, r, p[1]), MapY(l, r, p[2]))]

\* The coordinates of a pixel of an image.
LEMMA PixelOf ==
  ASSUME NEW w \in Nat, NEW h \in Nat, NEW p \in Pixels(w, h)
  PROVE  /\ p[1] \in 0..(w - 1) /\ p[1] \in Nat /\ p[1] <= w - 1
         /\ p[2] \in 0..(h - 1) /\ p[2] \in Nat /\ p[2] <= h - 1
         /\ p = <<p[1], p[2]>>
BY DEF Pixels

\* The map of a request and the pixels it leads to.
LEMMA MapIs ==
  ASSUME NEW l, NEW length, NEW r, Convertible(l, length, r)
  PROVE  /\ DOMAIN MapOf(l, r).y = 0..(r.height - 1)
         /\ \A i \in 0..(r.width - 1) :
               /\ MapOf(l, r).x[i] = MapX(l, r, i)
               /\ MapX(l, r, i) \in Nat /\ MapX(l, r, i) <= l.width - 1
         /\ \A j \in 0..(r.height - 1) :
               /\ MapOf(l, r).y[j] = MapY(l, r, j)
               /\ MapY(l, r, j) \in Nat /\ MapY(l, r, j) <= l.height - 1
<1>1. /\ l.width \in Nat /\ l.width > 0 /\ l.height \in Nat /\ l.height > 0
      /\ r.width \in Nat /\ r.width > 0 /\ r.height \in Nat /\ r.height > 0
  BY DEF Convertible, F!ValidLayout
<1>2. /\ DOMAIN MapOf(l, r).y = 0..(r.height - 1)
      /\ \A i \in 0..(r.width - 1) : MapOf(l, r).x[i] = MapX(l, r, i)
      /\ \A j \in 0..(r.height - 1) : MapOf(l, r).y[j] = MapY(l, r, j)
  BY DEF MapOf, F!NearestMap, MapX, MapY
<1>3. ASSUME NEW i \in 0..(r.width - 1)
      PROVE  MapX(l, r, i) \in Nat /\ MapX(l, r, i) <= l.width - 1
  <2>1. i \in Nat /\ i < r.width
    BY <1>1
  <2>2. QED
    BY <1>1, <2>1, QuotientBelow DEF MapX
<1>4. ASSUME NEW j \in 0..(r.height - 1)
      PROVE  MapY(l, r, j) \in Nat /\ MapY(l, r, j) <= l.height - 1
  <2> DEFINE row == (j * l.height) \div r.height
  <2>1. j \in Nat /\ j < r.height
    BY <1>1
  <2>2. row \in Nat /\ row <= l.height - 1
    BY <1>1, <2>1, QuotientBelow
  <2>3. MapY(l, r, j) = IF l.bottom_up THEN l.height - row - 1 ELSE row
    BY DEF MapY
  <2> HIDE DEF row
  <2>4. QED
    BY <1>1, <2>2, <2>3
<1>5. QED
  BY <1>2, <1>3, <1>4

\* The reference is the image of the nearest pixels, and its bytes are the layout's.
LEMMA ReferenceIs ==
  ASSUME NEW l, NEW length, NEW r, Convertible(l, length, r)
  PROVE  /\ F!Reference(l, r) = Nearest(l, r)
         /\ \A p \in DOMAIN Nearest(l, r), c \in 1..3 : Owned(l, Nearest(l, r)[p][c])
<1> DEFINE map == MapOf(l, r)
           S == Pixels(r.width, r.height)
<1>1. /\ r.width \in Nat /\ r.height \in Nat
      /\ l.width \in Nat /\ l.height \in Nat /\ l.planes \in Seq(FramePlane)
      /\ l.format \in F!PixelFormats \ F!Encoded
  BY DEF Convertible
<1>2. F!Reference(l, r) = [p \in S |-> SourcePixel(l, map.x[p[1]], map.y[p[2]])]
  BY DEF F!Reference, F!Image, MapOf, Pixels, SourcePixel
<1>3. ASSUME NEW p \in S
      PROVE  /\ map.x[p[1]] = MapX(l, r, p[1]) /\ map.y[p[2]] = MapY(l, r, p[2])
             /\ \A c \in 1..3 : Owned(l, SourcePixel(l, MapX(l, r, p[1]), MapY(l, r, p[2]))[c])
  <2>1. p[1] \in 0..(r.width - 1) /\ p[2] \in 0..(r.height - 1)
    BY <1>1, PixelOf
  <2>2. /\ map.x[p[1]] = MapX(l, r, p[1]) /\ map.y[p[2]] = MapY(l, r, p[2])
        /\ MapX(l, r, p[1]) \in Nat /\ MapX(l, r, p[1]) <= l.width - 1
        /\ MapY(l, r, p[2]) \in Nat /\ MapY(l, r, p[2]) <= l.height - 1
    BY <2>1, MapIs
  <2>3. QED
    BY <1>1, <2>2, LayoutRoom, SourceOwned
<1> HIDE DEF map, S
<1>4. [p \in S |-> SourcePixel(l, map.x[p[1]], map.y[p[2]])]
         = [p \in S |-> SourcePixel(l, MapX(l, r, p[1]), MapY(l, r, p[2]))]
  BY <1>3
<1>5. QED
  BY <1>2, <1>3, <1>4 DEF Nearest, S

\* Half of the pixels, in both directions.
LEMMA HalfMaps ==
  ASSUME NEW l, NEW length, NEW r, Convertible(l, length, r), F!ExactHalf(l, r)
  PROVE  /\ r.width = l.width \div 2 /\ r.height = l.height \div 2
         /\ l.width % 2 = 0 /\ l.height % 2 = 0
         /\ \A i \in 0..(r.width - 1) : MapX(l, r, i) = 2 * i
         /\ \A j \in 0..(r.height - 1) : MapY(l, r, j) = 2 * j
<1>1. /\ r.width = l.width \div 2 /\ r.height = l.height \div 2
      /\ l.width % 2 = 0 /\ l.height % 2 = 0 /\ ~l.bottom_up
  BY DEF F!ExactHalf
<1>2. /\ l.width \in Nat /\ l.height \in Nat
      /\ r.width \in Nat /\ r.width > 0 /\ r.height \in Nat /\ r.height > 0
  BY DEF Convertible
<1>3. l.width = 2 * r.width /\ l.height = 2 * r.height
  BY <1>1, <1>2
<1>4. ASSUME NEW i \in Nat, NEW n \in Nat, n > 0 PROVE (i * (2 * n)) \div n = 2 * i
  <2>1. /\ i * (2 * n) = (2 * i) * n /\ i * (2 * n) \in Nat /\ (2 * i) \in Nat
    OBVIOUS
  <2>2. QED
    BY <1>4, <2>1, QuotientIs
<1>5. QED
  BY <1>1, <1>2, <1>3, <1>4 DEF MapX, MapY

\* At the size of the frame a pixel is its own.
LEMMA SameMaps ==
  ASSUME NEW l, NEW length, NEW r, Convertible(l, length, r), F!SameSize(l, r)
  PROVE  /\ r.width = l.width /\ r.height = l.height
         /\ \A i \in 0..(r.width - 1) : MapX(l, r, i) = i
         /\ \A j \in 0..(r.height - 1) : MapY(l, r, j) = j
<1>1. r.width = l.width /\ r.height = l.height /\ ~l.bottom_up
  BY DEF F!SameSize
<1>2. /\ r.width \in Nat /\ r.width > 0 /\ r.height \in Nat /\ r.height > 0
  BY DEF Convertible
<1>3. ASSUME NEW i \in Nat, NEW n \in Nat, n > 0 PROVE (i * n) \div n = i
  <2>1. i * n \in Nat
    OBVIOUS
  <2>2. QED
    BY <1>3, <2>1, QuotientIs
<1>4. QED
  BY <1>1, <1>2, <1>3 DEF MapX, MapY

\* What a plane has room for, a view of it holds.
LEMMA ViewsHold ==
  ASSUME NEW P, NEW columns, NEW rows, NEW bytes \in Nat, bytes > 0, HasRoom(P, columns, rows, bytes)
  PROVE  /\ \A shift \in 0..(bytes - 1) : F!ViewHolds(F!View(P, shift), columns, rows)
         /\ P.pixel_stride = 1 => F!ViewHolds(F!Unstrided(F!View(P, 0)), columns, rows)
         /\ \A k \in Nat : k <= (columns - 1) * P.pixel_stride + bytes =>
                F!ChromaHolds(F!View(P, 0), k, rows)
<1> DEFINE row == (columns - 1) * P.pixel_stride
           before == (rows - 1) * P.row_stride
<1>1. /\ P.offset \in Nat /\ P.length \in Nat /\ P.row_stride \in Nat /\ P.pixel_stride \in Nat
      /\ columns \in Nat /\ columns > 0 /\ rows \in Nat /\ rows > 0
      /\ columns - 1 \in Nat /\ rows - 1 \in Nat
  BY DEF HasRoom, FramePlane
<1>2. P.pixel_stride >= bytes /\ P.row_stride >= row + bytes /\ P.length >= before + row + bytes
  BY DEF HasRoom
<1>3. row \in Nat /\ before \in Nat
  BY <1>1
<1>4. ASSUME NEW shift \in 0..(bytes - 1) PROVE F!ViewHolds(F!View(P, shift), columns, rows)
  <2> DEFINE v == F!View(P, shift)
  <2>1. v.n = P.length - shift /\ v.row_stride = P.row_stride /\ v.pixel_stride = P.pixel_stride
    BY DEF F!View
  <2> HIDE DEF v
  <2>2. F!ViewHolds(v, columns, rows) <=>
            /\ columns > 0 /\ rows > 0 /\ P.pixel_stride > 0
            /\ P.row_stride >= row + 1 /\ P.length - shift >= before + row + 1
    BY <2>1 DEF F!ViewHolds
  <2> HIDE DEF row, before
  <2>3. QED
    BY <1>1, <1>2, <1>3, <2>2 DEF v
<1>5. ASSUME P.pixel_stride = 1 PROVE F!ViewHolds(F!Unstrided(F!View(P, 0)), columns, rows)
  <2> DEFINE v == F!Unstrided(F!View(P, 0))
  <2>1. v.n = P.length - 0 /\ v.row_stride = P.row_stride /\ v.pixel_stride = 1
    BY DEF F!View, F!Unstrided
  <2> HIDE DEF v
  <2>2. F!ViewHolds(v, columns, rows) <=>
            /\ columns > 0 /\ rows > 0 /\ 1 > 0
            /\ P.row_stride >= (columns - 1) * 1 + 1 /\ P.length - 0 >= before + (columns - 1) * 1 + 1
    BY <2>1 DEF F!ViewHolds
  <2>3. row = columns - 1
    BY <1>1, <1>5
  <2> HIDE DEF row, before
  <2>4. QED
    BY <1>1, <1>2, <1>3, <2>2, <2>3 DEF v
<1>6. ASSUME NEW k \in Nat, k <= row + bytes PROVE F!ChromaHolds(F!View(P, 0), k, rows)
  <2> DEFINE v == F!View(P, 0)
  <2>1. v.n = P.length - 0 /\ v.row_stride = P.row_stride
    BY DEF F!View
  <2> HIDE DEF v
  <2>2. F!ChromaHolds(v, k, rows) <=> P.row_stride >= k /\ P.length - 0 >= before + k
    BY <2>1 DEF F!ChromaHolds
  <2> HIDE DEF row, before
  <2>3. QED
    BY <1>1, <1>2, <1>3, <1>6, <2>2 DEF v
<1>7. QED
  BY <1>4, <1>5, <1>6

\* A row later than another.
LEMMA RowLater ==
  ASSUME NEW P \in FramePlane, NEW s \in Nat, NEW k \in Nat
  PROVE  /\ RowAt(P, s) \in Nat /\ k * P.row_stride \in Nat /\ P.row_stride \in Nat
         /\ RowAt(P, s) + k * P.row_stride = RowAt(P, s + k)
         /\ RowAt(P, 0) = P.offset
<1>1. P.offset \in Nat /\ P.row_stride \in Nat
  BY DEF FramePlane
<1>2. s * P.row_stride \in Nat /\ k * P.row_stride \in Nat /\ 0 * P.row_stride = 0
      /\ (s + k) * P.row_stride = s * P.row_stride + k * P.row_stride
  BY <1>1
<1>3. QED
  BY <1>1, <1>2 DEF RowAt

\* A view of a plane from its row s on.
From(view, P, s) ==
  view.at = RowAt(P, s) /\ view.row_stride = P.row_stride /\ view.pixel_stride = P.pixel_stride

\* What a lemma asks of its arguments, under a name.
IsSum(c, a, b) == c = a + b

IsFormat(flag, format, name) == flag = (format = name)

\* A view from row s on has row k where the plane has row s + k ...
LEMMA FromRow ==
  ASSUME NEW P \in FramePlane, NEW v, NEW s \in Nat, From(v, P, s), NEW k \in Nat, NEW y, IsSum(y, s, k)
  PROVE  v.at + k * v.row_stride = RowAt(P, y)
<1>1. v.at = RowAt(P, s) /\ v.row_stride = P.row_stride
  BY DEF From
<1>2. QED
  BY <1>1, RowLater DEF IsSum

\* ... and its pixels where the plane has them.
LEMMA FromAt ==
  ASSUME NEW P \in FramePlane, NEW v, NEW s \in Nat, From(v, P, s), NEW x \in Nat, NEW k \in Nat,
         NEW y, IsSum(y, s, k)
  PROVE  F!At(v, x, k) = PixelAt(P, x, y)
<1>1. v.pixel_stride = P.pixel_stride
  BY DEF From
<1>2. v.at + k * v.row_stride = RowAt(P, y)
  BY FromRow
<1>3. QED
  BY <1>1, <1>2 DEF F!At, PixelAt

\* The whole plane is the view from row 0 on.
LEMMA FromStart ==
  ASSUME NEW P \in FramePlane
  PROVE  From(F!View(P, 0), P, 0)
<1>1. P.offset \in Nat /\ P.offset + 0 = P.offset
  BY DEF FramePlane
<1>2. QED
  BY <1>1, RowLater DEF From, F!View

\* A pair of packed samples is read as the pixel by pixel conversion does it.
LEMMA PackedIs ==
  ASSUME NEW l, RoomOf(l), l.planes \in Seq(FramePlane), l.format \in F!PackedYuv,
         NEW uyvy, IsFormat(uyvy, l.format, "Uyvy"),
         NEW v, NEW s \in Nat, From(v, l.planes[1], s), NEW x \in Nat, NEW k \in Nat,
         NEW y \in Nat, IsSum(y, s, k)
  PROVE  F!PackedTriple(v, uyvy, x, k) = SourcePixel(l, x, y)
<1> DEFINE P == l.planes[1]
           row == RowAt(P, y)
           pair == 4 * (x \div 2)
<1>1. P \in FramePlane /\ P.pixel_stride = 2
  BY FirstPlane DEF RoomOf
<1>2. v.at + k * v.row_stride = row
  BY <1>1, FromRow
<1>3. row \in Nat /\ PixelAt(P, x, y) = row + x * 2
  BY <1>1, PlaneNumbers DEF PixelAt
<1>4. /\ l.format = "Yuyv" => SourcePixel(l, x, y) = <<PixelAt(P, x, y), (row + pair) + 1, (row + pair) + 3>>
      /\ l.format = "Uyvy" => SourcePixel(l, x, y) = <<PixelAt(P, x, y) + 1, row + pair, (row + pair) + 2>>
  BY SourceBytes
<1>5. F!PackedTriple(v, uyvy, x, k)
        = IF l.format = "Uyvy" THEN <<row + 2 * x + 1, row + pair, (row + pair) + 2>>
          ELSE <<row + 2 * x, (row + pair) + 1, (row + pair) + 3>>
  BY <1>2 DEF IsFormat, F!PackedTriple
<1>6. x * 2 = 2 * x
  OBVIOUS
<1> HIDE DEF row, pair, P
<1>7. QED
  BY <1>3, <1>4, <1>5, <1>6 DEF F!PackedYuv

\* So are pairs of chroma samples ...
LEMMA SemiIs ==
  ASSUME NEW l, RoomOf(l), l.planes \in Seq(FramePlane), l.format \in F!SemiPlanar, F!Contiguous(l),
         NEW vu, IsFormat(vu, l.format, "Nv21"),
         NEW a, NEW b, NEW s \in Nat, NEW cs \in Nat, NEW x \in Nat, NEW k \in Nat, NEW ck \in Nat,
         From(a, l.planes[1], s), From(b, l.planes[2], cs),
         NEW y \in Nat, IsSum(y, s, k), IsSum(y \div 2, cs, ck)
  PROVE  F!SemiTriple(a, b, vu, x, k, x \div 2, ck) = SourcePixel(l, x, y)
<1> DEFINE P == l.planes[1]
           Q == l.planes[2]
           cx == x \div 2
           cy == y \div 2
           U == PixelAt(Q, cx, cy)
           at == PixelAt(P, x, y)
<1>1. P \in FramePlane /\ Q \in FramePlane
  BY FirstPlane DEF F!SemiPlanar
<1>2. P.pixel_stride = 1 /\ Q.pixel_stride = 2
  BY DEF F!Contiguous, F!SemiPlanar
<1>3. cy \in Nat /\ cx \in Nat /\ IsSum(cy, cs, ck)
  OBVIOUS
<1>4. /\ l.format = "Nv12" => SourcePixel(l, x, y) = <<at, U, U + 1>>
      /\ l.format = "Nv21" => SourcePixel(l, x, y) = <<at, U + 1, U>>
  <2>1. l.format = "Nv12" => SourcePixel(l, x, y) = <<at, U, U + 1>>
    BY SourceBytes
  <2>2. l.format = "Nv21" => SourcePixel(l, x, y) = <<at, U + 1, U>>
    BY SourceBytes
  <2>3. QED
    BY <2>1, <2>2
<1> HIDE DEF cy
<1>5. a.at + k * a.row_stride = RowAt(P, y)
  BY <1>1, FromRow
<1>6. b.at + ck * b.row_stride = RowAt(Q, cy)
  BY <1>1, <1>3, FromRow
<1>7. at = RowAt(P, y) + x /\ U = RowAt(Q, cy) + 2 * cx
  <2>1. x * 1 = x /\ cx * 2 = 2 * cx
    BY <1>3
  <2>2. QED
    BY <1>2, <2>1 DEF PixelAt
<1>8. F!SemiTriple(a, b, vu, x, k, cx, ck)
        = <<at, IF l.format = "Nv21" THEN U + 1 ELSE U, IF l.format = "Nv21" THEN U ELSE U + 1>>
  BY <1>5, <1>6, <1>7 DEF IsFormat, F!SemiTriple
<1> HIDE DEF at, U, P, Q
<1>9. QED
  BY <1>4, <1>8 DEF F!SemiPlanar

\* The bytes of a pixel of three views.
PlanarTriple(a, b, c, x, k, cx, ck) == <<F!At(a, x, k), F!At(b, cx, ck), F!At(c, cx, ck)>>

\* ... and samples of three planes.
LEMMA PlanarIs ==
  ASSUME NEW l, RoomOf(l), l.planes \in Seq(FramePlane), l.format = "Yuv420p",
         NEW a, NEW b, NEW c, NEW s \in Nat, NEW cs \in Nat, NEW x \in Nat, NEW k \in Nat, NEW ck \in Nat,
         From(a, l.planes[1], s), From(b, l.planes[2], cs), From(c, l.planes[3], cs),
         NEW y \in Nat, IsSum(y, s, k), IsSum(y \div 2, cs, ck)
  PROVE  PlanarTriple(a, b, c, x, k, x \div 2, ck) = SourcePixel(l, x, y)
<1> DEFINE cx == x \div 2
           cy == y \div 2
<1>1. l.planes[1] \in FramePlane /\ l.planes[2] \in FramePlane /\ l.planes[3] \in FramePlane
  BY FirstPlane
<1>2. cy \in Nat /\ cx \in Nat /\ IsSum(cy, cs, ck)
  OBVIOUS
<1>3. SourcePixel(l, x, y)
         = <<PixelAt(l.planes[1], x, y), PixelAt(l.planes[2], cx, cy), PixelAt(l.planes[3], cx, cy)>>
  BY SourceBytes
<1> HIDE DEF cx, cy
<1>4. F!At(a, x, k) = PixelAt(l.planes[1], x, y)
  <2> DEFINE P == l.planes[1]
  <2>1. P \in FramePlane /\ From(a, P, s) /\ IsSum(y, s, k)
    BY <1>1
  <2> HIDE DEF P
  <2>2. F!At(a, x, k) = PixelAt(P, x, y)
    BY <2>1, FromAt
  <2>3. QED
    BY <2>2 DEF P
<1>5. F!At(b, cx, ck) = PixelAt(l.planes[2], cx, cy)
  BY <1>1, <1>2, FromAt
<1>6. F!At(c, cx, ck) = PixelAt(l.planes[3], cx, cy)
  BY <1>1, <1>2, FromAt
<1>7. QED
  BY <1>3, <1>4, <1>5, <1>6 DEF cx, PlanarTriple

\* Views of the planes of a layout from their first rows, and what they hold.
LEMMA LayoutViews ==
  ASSUME NEW l, RoomOf(l), l.planes \in Seq(FramePlane), l.width \in Nat, l.height \in Nat
  PROVE  /\ \A i \in DOMAIN l.planes : From(F!View(l.planes[i], 0), l.planes[i], 0)
         /\ l.format \in F!PackedYuv => F!PackedHolds(F!View(l.planes[1], 0), l.width, l.height)
         /\ (l.format \in F!SemiPlanar /\ F!Contiguous(l)) =>
               /\ F!ViewHolds(F!Unstrided(F!View(l.planes[1], 0)), l.width, l.height)
               /\ F!ChromaHolds(F!View(l.planes[2], 0), 2 * F!CeilHalf(l.width), F!CeilHalf(l.height))
         /\ l.format = "Yuv420p" =>
               /\ F!ViewHolds(F!View(l.planes[1], 0), l.width, l.height)
               /\ F!ViewHolds(F!View(l.planes[2], 0), F!CeilHalf(l.width), F!CeilHalf(l.height))
               /\ F!ViewHolds(F!View(l.planes[3], 0), F!CeilHalf(l.width), F!CeilHalf(l.height))
<1>1. \A i \in DOMAIN l.planes : l.planes[i] \in FramePlane
  BY FirstPlane
<1>2. \A i \in DOMAIN l.planes : From(F!View(l.planes[i], 0), l.planes[i], 0)
  BY <1>1, FromStart
<1>3. ASSUME l.format \in F!PackedYuv PROVE F!PackedHolds(F!View(l.planes[1], 0), l.width, l.height)
  <2>1. /\ HasRoom(l.planes[1], l.width, l.height, 2) /\ l.width % 2 = 0 /\ l.planes[1].pixel_stride = 2
        /\ l.width > 0 /\ l.height > 0
    BY <1>3 DEF RoomOf
  <2>2. /\ 2 * l.width \in Nat
        /\ 2 * l.width <= (l.width - 1) * l.planes[1].pixel_stride + 2
    BY <2>1
  <2>3. F!ChromaHolds(F!View(l.planes[1], 0), 2 * l.width, l.height)
    BY <2>1, <2>2, ViewsHold
  <2>4. QED
    BY <2>1, <2>3 DEF F!PackedHolds
<1>4. ASSUME l.format \in F!SemiPlanar, F!Contiguous(l)
      PROVE  /\ F!ViewHolds(F!Unstrided(F!View(l.planes[1], 0)), l.width, l.height)
             /\ F!ChromaHolds(F!View(l.planes[2], 0), 2 * F!CeilHalf(l.width), F!CeilHalf(l.height))
  <2>1. /\ HasRoom(l.planes[1], l.width, l.height, 1)
        /\ HasRoom(l.planes[2], F!CeilHalf(l.width), F!CeilHalf(l.height), 2)
    BY <1>4 DEF RoomOf
  <2>2. l.planes[1].pixel_stride = 1 /\ l.planes[2].pixel_stride = 2
    BY <1>4 DEF F!Contiguous, F!SemiPlanar
  <2>3. /\ 2 * F!CeilHalf(l.width) \in Nat
        /\ 2 * F!CeilHalf(l.width) <= (F!CeilHalf(l.width) - 1) * l.planes[2].pixel_stride + 2
    <3>1. F!CeilHalf(l.width) \in Nat
      BY HalfUp
    <3>2. QED
      BY <2>2, <3>1
  <2>4. F!ViewHolds(F!Unstrided(F!View(l.planes[1], 0)), l.width, l.height)
    BY <2>1, <2>2, ViewsHold
  <2>5. F!ChromaHolds(F!View(l.planes[2], 0), 2 * F!CeilHalf(l.width), F!CeilHalf(l.height))
    BY <2>1, <2>3, ViewsHold
  <2>6. QED
    BY <2>4, <2>5
<1>5. ASSUME l.format = "Yuv420p"
      PROVE  /\ F!ViewHolds(F!View(l.planes[1], 0), l.width, l.height)
             /\ F!ViewHolds(F!View(l.planes[2], 0), F!CeilHalf(l.width), F!CeilHalf(l.height))
             /\ F!ViewHolds(F!View(l.planes[3], 0), F!CeilHalf(l.width), F!CeilHalf(l.height))
  <2>1. 0 \in 0..(1 - 1)
    OBVIOUS
  <2>2. /\ HasRoom(l.planes[1], l.width, l.height, 1)
        /\ HasRoom(l.planes[2], F!CeilHalf(l.width), F!CeilHalf(l.height), 1)
        /\ HasRoom(l.planes[3], F!CeilHalf(l.width), F!CeilHalf(l.height), 1)
    BY <1>5 DEF RoomOf
  <2>3. QED
    BY <2>1, <2>2, ViewsHold
<1>6. QED
  BY <1>2, <1>3, <1>4, <1>5

\* The way to exactly half of the size.
LEMMA HalfPath ==
  ASSUME NEW l, NEW length, NEW r, Convertible(l, length, r), F!DirectHalf(l, r)
  PROVE  F!ConvertHalf(l) = Nearest(l, r)
<1> DEFINE S == Pixels(r.width, r.height)
           A == F!View(l.planes[1], 0)
           B == F!View(l.planes[2], 0)
           D3 == F!View(l.planes[3], 0)
           source(p) == SourcePixel(l, MapX(l, r, p[1]), MapY(l, r, p[2]))
<1>1. /\ l.width \in Nat /\ l.height \in Nat /\ l.planes \in Seq(FramePlane) /\ r.width \in Nat /\ r.height \in Nat
      /\ r.width > 0 /\ r.height > 0
  BY DEF Convertible
<1>2. RoomOf(l) /\ F!ExactHalf(l, r)
  BY LayoutRoom DEF F!DirectHalf
<1>3. /\ r.width = l.width \div 2 /\ r.height = l.height \div 2
      /\ l.width % 2 = 0 /\ l.height % 2 = 0
      /\ \A i \in 0..(r.width - 1) : MapX(l, r, i) = 2 * i
      /\ \A j \in 0..(r.height - 1) : MapY(l, r, j) = 2 * j
  BY <1>2, HalfMaps
<1>4. /\ F!EvenSize(l.width, l.height)
      /\ F!CeilHalf(l.width) = l.width \div 2 /\ F!CeilHalf(l.height) = l.height \div 2
      /\ 2 * F!CeilHalf(l.width) = l.width
  <2>1. l.width > 0 /\ l.height > 0
    BY <1>2 DEF RoomOf
  <2>2. \A n \in Nat : n % 2 = 0 => (n + 1) \div 2 = n \div 2 /\ 2 * ((n + 1) \div 2) = n
    OBVIOUS
  <2>3. QED
    BY <1>1, <1>3, <2>1, <2>2 DEF F!EvenSize, F!CeilHalf
<1>5. ASSUME NEW p \in S
      PROVE  /\ p[1] \in Nat /\ p[2] \in Nat /\ 2 * p[1] \in Nat /\ 2 * p[2] \in Nat
             /\ (2 * p[1]) \div 2 = p[1] /\ (2 * p[2]) \div 2 = p[2]
             /\ IsSum(2 * p[2], 0, 2 * p[2]) /\ IsSum((2 * p[2]) \div 2, 0, p[2])
             /\ source(p) = SourcePixel(l, 2 * p[1], 2 * p[2])
  <2>1. /\ p[1] \in 0..(r.width - 1) /\ p[2] \in 0..(r.height - 1)
        /\ p[1] \in Nat /\ p[2] \in Nat
    BY <1>1, PixelOf
  <2>2. MapX(l, r, p[1]) = 2 * p[1] /\ MapY(l, r, p[2]) = 2 * p[2]
    BY <1>3, <2>1
  <2>3. QED
    BY <2>1, <2>2 DEF IsSum
<1>6. Nearest(l, r) = [p \in S |-> source(p)]
  BY DEF Nearest
<1> HIDE DEF S, A, B, D3, source
<1>7. CASE l.format \in F!SemiPlanar
  <2> DEFINE vu == l.format = "Nv21"
             pixel(p) == F!SemiTriple(A, B, vu, 2 * p[1], 2 * p[2], p[1], p[2])
  <2>0. IsFormat(vu, l.format, "Nv21")
    BY DEF IsFormat
  <2>1. F!Contiguous(l) /\ 1 \in DOMAIN l.planes /\ 2 \in DOMAIN l.planes
    BY <1>1, <1>2, <1>7, FirstPlane DEF F!DirectHalf, F!SemiPlanar, F!PackedYuv
  <2>2. /\ F!ViewHolds(F!Unstrided(A), l.width, l.height)
        /\ F!ChromaHolds(B, l.width, l.height \div 2)
        /\ From(A, l.planes[1], 0) /\ From(B, l.planes[2], 0)
    BY <1>1, <1>2, <1>4, <1>7, <2>1, LayoutViews DEF A, B
  <2>3. F!ConvertHalf(l) = F!SemiPlanarHalf(A, B, vu, l.width, l.height)
    BY <1>7 DEF F!ConvertHalf, F!SemiPlanar, F!PackedYuv, A, B
  <2>4. F!ConvertHalf(l) = [p \in S |-> pixel(p)]
    BY <1>3, <1>4, <2>2, <2>3 DEF F!SemiPlanarHalf, F!Image, S, Pixels
  <2> HIDE DEF vu
  <2>5. ASSUME NEW p \in S PROVE pixel(p) = source(p)
    <3> DEFINE x == 2 * p[1]
               y == 2 * p[2]
    <3>1. /\ p[2] \in Nat /\ x \in Nat /\ y \in Nat /\ x \div 2 = p[1] /\ 0 \in Nat
          /\ IsSum(y, 0, y) /\ IsSum(y \div 2, 0, p[2]) /\ source(p) = SourcePixel(l, x, y)
      BY <1>5
    <3> HIDE DEF x, y
    <3>2. F!SemiTriple(A, B, vu, x, y, x \div 2, p[2]) = SourcePixel(l, x, y)
      BY <1>1, <1>2, <1>7, <2>0, <2>1, <2>2, <3>1, SemiIs
    <3>3. F!SemiTriple(A, B, vu, x, y, p[1], p[2]) = source(p)
      BY <3>1, <3>2
    <3>4. QED
      BY <3>3 DEF x, y
  <2> HIDE DEF pixel
  <2>6. QED
    BY <1>6, <2>4, <2>5
<1>8. CASE l.format \in F!PackedYuv
  <2> DEFINE uyvy == l.format = "Uyvy"
             pixel(p) == F!PackedTriple(A, uyvy, 2 * p[1], 2 * p[2])
  <2>0. IsFormat(uyvy, l.format, "Uyvy")
    BY DEF IsFormat
  <2>1. F!PackedHolds(A, l.width, l.height) /\ From(A, l.planes[1], 0)
    BY <1>1, <1>2, <1>8, FirstPlane, LayoutViews DEF A
  <2>2. F!ConvertHalf(l) = F!PackedHalf(A, uyvy, l.width, l.height)
    BY <1>8 DEF F!ConvertHalf, F!SemiPlanar, F!PackedYuv, A
  <2>3. F!ConvertHalf(l) = [p \in S |-> pixel(p)]
    BY <1>3, <1>4, <2>1, <2>2 DEF F!PackedHalf, F!Image, S, Pixels
  <2> HIDE DEF uyvy
  <2>4. ASSUME NEW p \in S PROVE pixel(p) = source(p)
    <3> DEFINE x == 2 * p[1]
               y == 2 * p[2]
    <3>1. /\ x \in Nat /\ y \in Nat /\ 0 \in Nat
          /\ IsSum(y, 0, y) /\ source(p) = SourcePixel(l, x, y)
      BY <1>5
    <3> HIDE DEF x, y
    <3>2. F!PackedTriple(A, uyvy, x, y) = SourcePixel(l, x, y)
      BY <1>1, <1>2, <1>8, <2>0, <2>1, <3>1, PackedIs
    <3>3. QED
      BY <3>1, <3>2 DEF x, y
  <2> HIDE DEF pixel
  <2>5. QED
    BY <1>6, <2>3, <2>4
<1>9. CASE l.format = "Yuv420p"
  <2> DEFINE pixel(p) == PlanarTriple(A, B, D3, 2 * p[1], 2 * p[2], p[1], p[2])
  <2>1. 1 \in DOMAIN l.planes /\ 2 \in DOMAIN l.planes /\ 3 \in DOMAIN l.planes
    BY <1>1, <1>2, <1>9, FirstPlane
  <2>2. /\ F!ViewHolds(A, l.width, l.height) /\ F!ViewHolds(B, l.width \div 2, l.height \div 2)
        /\ F!ViewHolds(D3, l.width \div 2, l.height \div 2)
        /\ From(A, l.planes[1], 0) /\ From(B, l.planes[2], 0) /\ From(D3, l.planes[3], 0)
    BY <1>1, <1>2, <1>4, <1>9, <2>1, LayoutViews DEF A, B, D3
  <2>3. F!Contiguous(l)
    BY <1>9 DEF F!DirectHalf, F!PackedYuv
  <2>4. \A v \in {A, B, D3} : v.pixel_stride = 1
    <3>1. \A i \in 1..3 : l.planes[i].pixel_stride = 1
      BY <1>9, <2>3 DEF F!Contiguous, F!SemiPlanar
    <3>2. QED
      BY <2>2, <3>1 DEF From
  <2>5. F!ConvertHalf(l) = F!PlanarHalf(A, B, D3, l.width, l.height)
    BY <1>9 DEF F!ConvertHalf, F!SemiPlanar, F!PackedYuv, A, B, D3
  <2>6. F!ConvertHalf(l) = [p \in S |-> pixel(p)]
    BY <1>3, <1>4, <2>2, <2>4, <2>5 DEF F!PlanarHalf, F!Image, PlanarTriple, S, Pixels
  <2>7. ASSUME NEW p \in S PROVE pixel(p) = source(p)
    <3> DEFINE x == 2 * p[1]
               y == 2 * p[2]
    <3>1. /\ p[2] \in Nat /\ x \in Nat /\ y \in Nat /\ x \div 2 = p[1] /\ 0 \in Nat
          /\ IsSum(y, 0, y) /\ IsSum(y \div 2, 0, p[2]) /\ source(p) = SourcePixel(l, x, y)
      BY <1>5
    <3> HIDE DEF x, y
    <3>2. PlanarTriple(A, B, D3, x, y, x \div 2, p[2]) = SourcePixel(l, x, y)
      BY <1>1, <1>2, <1>9, <2>2, <3>1, PlanarIs
    <3>3. PlanarTriple(A, B, D3, x, y, p[1], p[2]) = source(p)
      BY <3>1, <3>2
    <3>4. QED
      BY <3>3 DEF x, y
  <2> HIDE DEF pixel
  <2>8. QED
    BY <1>6, <2>6, <2>7
<1>10. QED
  BY <1>7, <1>8, <1>9 DEF F!DirectHalf, F!Contiguous

\* The way to the whole of the size.
LEMMA FullPath ==
  ASSUME NEW l, NEW length, NEW r, Convertible(l, length, r), F!SameSize(l, r), F!HasFullSize(l)
  PROVE  F!ConvertFullSize(l) = Nearest(l, r)
<1> DEFINE S == Pixels(r.width, r.height)
           A == F!View(l.planes[1], 0)
           B == F!View(l.planes[2], 0)
           D3 == F!View(l.planes[3], 0)
           w == l.width
           h == l.height
           source(p) == SourcePixel(l, MapX(l, r, p[1]), MapY(l, r, p[2]))
<1>1. w \in Nat /\ h \in Nat /\ l.planes \in Seq(FramePlane) /\ w > 0 /\ h > 0
  BY DEF Convertible, F!ValidLayout
<1>2. RoomOf(l) /\ 1 \in DOMAIN l.planes
  BY <1>1, LayoutRoom, FirstPlane
<1>3. /\ r.width = w /\ r.height = h
      /\ \A i \in 0..(w - 1) : MapX(l, r, i) = i
      /\ \A j \in 0..(h - 1) : MapY(l, r, j) = j
  BY SameMaps
<1>4. S = (0..(w - 1)) \X (0..(h - 1))
  BY <1>3 DEF Pixels
<1>5. ASSUME NEW p \in S
      PROVE  /\ p[1] \in Nat /\ p[2] \in Nat /\ p[1] \div 2 \in Nat /\ p[2] \div 2 \in Nat
             /\ IsSum(p[2], 0, p[2]) /\ IsSum(p[2] \div 2, 0, p[2] \div 2)
             /\ source(p) = SourcePixel(l, p[1], p[2])
             /\ p[1] <= w - 1 /\ p[2] <= h - 1
  <2>1. /\ p[1] \in 0..(w - 1) /\ p[2] \in 0..(h - 1) /\ p[1] \in Nat /\ p[2] \in Nat
    BY <1>1, <1>3, PixelOf
  <2>2. MapX(l, r, p[1]) = p[1] /\ MapY(l, r, p[2]) = p[2]
    BY <1>3, <2>1
  <2>3. QED
    BY <2>1, <2>2 DEF IsSum
<1>6. Nearest(l, r) = [p \in S |-> source(p)]
  BY DEF Nearest
<1>7. \A i \in DOMAIN l.planes : From(F!View(l.planes[i], 0), l.planes[i], 0)
  BY <1>1, <1>2, LayoutViews
<1>8. From(A, l.planes[1], 0)
  BY <1>2, <1>7
<1>9. ASSUME l.format \in F!PackedYuv PROVE F!ConvertFullSize(l) = [p \in S |-> source(p)]
  <2> DEFINE uyvy == l.format = "Uyvy"
             pixel(p) == F!PackedTriple(A, uyvy, p[1], p[2])
  <2>1. IsFormat(uyvy, l.format, "Uyvy")
    BY DEF IsFormat
  <2>2. F!PackedHolds(A, w, h)
    BY <1>1, <1>2, <1>9, LayoutViews
  <2> HIDE DEF A, w, h, S, source
  <2>3. F!ConvertFullSize(l) = F!PackedImage(A, uyvy, w, h)
    BY <1>9 DEF F!ConvertFullSize, F!PackedYuv, F!Rgb32, A, w, h
  <2>4. F!ConvertFullSize(l) = [p \in S |-> pixel(p)]
    BY <1>4, <2>2, <2>3 DEF F!PackedImage, F!Image
  <2> HIDE DEF uyvy
  <2>5. ASSUME NEW p \in S PROVE pixel(p) = source(p)
    <3>1. p[1] \in Nat /\ p[2] \in Nat /\ 0 \in Nat /\ IsSum(p[2], 0, p[2])
          /\ source(p) = SourcePixel(l, p[1], p[2])
      BY <1>5
    <3>2. F!PackedTriple(A, uyvy, p[1], p[2]) = SourcePixel(l, p[1], p[2])
      BY <1>1, <1>2, <1>8, <1>9, <2>1, <3>1, PackedIs
    <3>3. QED
      BY <3>1, <3>2
  <2> HIDE DEF pixel
  <2>6. QED
    BY <2>4, <2>5
<1>10. ASSUME l.format = "Yuv420p" PROVE F!ConvertFullSize(l) = [p \in S |-> source(p)]
  <2> DEFINE pixel(p) == PlanarTriple(A, B, D3, p[1], p[2], p[1] \div 2, p[2] \div 2)
  <2>1. /\ F!ViewHolds(A, w, h) /\ F!ViewHolds(B, F!CeilHalf(w), F!CeilHalf(h))
        /\ F!ViewHolds(D3, F!CeilHalf(w), F!CeilHalf(h))
    BY <1>1, <1>2, <1>10, LayoutViews
  <2>2. 2 \in DOMAIN l.planes /\ 3 \in DOMAIN l.planes
    BY <1>1, <1>2, <1>10, FirstPlane
  <2>3. From(B, l.planes[2], 0) /\ From(D3, l.planes[3], 0)
    BY <1>7, <2>2
  <2> HIDE DEF A, B, D3, w, h, S, source
  <2>4. F!ConvertFullSize(l) = F!Planar(A, B, D3, w, h)
    BY <1>10 DEF F!ConvertFullSize, F!PackedYuv, F!Rgb32, A, B, D3, w, h
  <2>5. F!ConvertFullSize(l) = [p \in S |-> pixel(p)]
    BY <1>4, <2>1, <2>4 DEF F!Planar, F!Image, PlanarTriple
  <2>6. ASSUME NEW p \in S PROVE pixel(p) = source(p)
    <3> DEFINE x == p[1]
               y == p[2]
               cy == y \div 2
    <3>1. x \in Nat /\ y \in Nat /\ cy \in Nat /\ 0 \in Nat /\ IsSum(y, 0, y) /\ IsSum(y \div 2, 0, cy)
          /\ source(p) = SourcePixel(l, x, y)
      BY <1>5
    <3> HIDE DEF cy
    <3>2. PlanarTriple(A, B, D3, x, y, x \div 2, cy) = SourcePixel(l, x, y)
      BY <1>1, <1>2, <1>8, <1>10, <2>3, <3>1, PlanarIs
    <3>3. QED
      BY <3>1, <3>2 DEF cy
  <2> HIDE DEF pixel
  <2>7. QED
    BY <2>5, <2>6
<1>11. ASSUME l.format \in F!SemiPlanar, F!Contiguous(l) PROVE F!ConvertFullSize(l) = [p \in S |-> source(p)]
  <2> DEFINE odd == IF l.format = "Nv21" THEN 1 ELSE 0
             vu == odd = 1
             pixel(p) == F!SemiTriple(A, B, vu, p[1], p[2], p[1] \div 2, p[2] \div 2)
  <2>1. IsFormat(vu, l.format, "Nv21")
    BY DEF IsFormat
  <2>2. /\ F!ViewHolds(F!Unstrided(A), w, h)
        /\ F!ChromaHolds(B, 2 * F!CeilHalf(w), F!CeilHalf(h))
    BY <1>1, <1>2, <1>11, LayoutViews
  <2>3. 2 \in DOMAIN l.planes
    BY <1>1, <1>2, <1>11, FirstPlane
  <2>4. From(B, l.planes[2], 0)
    BY <1>7, <2>3
  <2> HIDE DEF A, B, w, h, S, source
  <2>5. F!ConvertFullSize(l) = F!SemiPlanarImage(A, B, vu, w, h)
    BY <1>11 DEF F!ConvertFullSize, F!SemiPlanar, F!PackedYuv, F!Rgb32, A, B, w, h
  <2> HIDE DEF vu
  <2>6. F!ConvertFullSize(l) = [p \in S |-> pixel(p)]
    BY <1>4, <2>2, <2>5 DEF F!SemiPlanarImage, F!Image
  <2>7. ASSUME NEW p \in S PROVE pixel(p) = source(p)
    <3> DEFINE x == p[1]
               y == p[2]
               cy == y \div 2
    <3>1. x \in Nat /\ y \in Nat /\ cy \in Nat /\ 0 \in Nat /\ IsSum(y, 0, y) /\ IsSum(y \div 2, 0, cy)
          /\ source(p) = SourcePixel(l, x, y)
      BY <1>5
    <3> HIDE DEF cy
    <3>2. F!SemiTriple(A, B, vu, x, y, x \div 2, cy) = SourcePixel(l, x, y)
      BY <1>1, <1>2, <1>8, <1>11, <2>1, <2>4, <3>1, SemiIs
    <3>3. QED
      BY <3>1, <3>2 DEF cy
  <2> HIDE DEF pixel
  <2>8. QED
    BY <2>6, <2>7
<1>12. ASSUME l.format \in F!SemiPlanar, ~F!Contiguous(l) PROVE F!ConvertFullSize(l) = [p \in S |-> source(p)]
  <2> DEFINE Q == l.planes[2]
             odd == IF l.format = "Nv21" THEN 1 ELSE 0
             U == F!View(Q, odd)
             V == F!View(Q, 1 - odd)
             pixel(p) == PlanarTriple(A, U, V, p[1], p[2], p[1] \div 2, p[2] \div 2)
  <2>1. /\ HasRoom(l.planes[1], w, h, 1) /\ HasRoom(Q, F!CeilHalf(w), F!CeilHalf(h), 2)
        /\ l.planes[1] \in FramePlane /\ Q \in FramePlane
    BY <1>2, <1>12 DEF RoomOf, HasRoom
  <2>2. /\ F!ViewHolds(A, w, h) /\ F!ViewHolds(U, F!CeilHalf(w), F!CeilHalf(h))
        /\ F!ViewHolds(V, F!CeilHalf(w), F!CeilHalf(h))
    <3>1. 0 \in 0..(1 - 1) /\ odd \in 0..(2 - 1) /\ 1 - odd \in 0..(2 - 1)
      OBVIOUS
    <3>2. F!ViewHolds(A, w, h)
      BY <2>1, <3>1, ViewsHold
    <3> HIDE DEF odd, Q
    <3>3. \A k \in 0..(2 - 1) : F!ViewHolds(F!View(Q, k), F!CeilHalf(w), F!CeilHalf(h))
      BY <2>1, ViewsHold
    <3>4. QED
      BY <3>1, <3>2, <3>3
  <2> HIDE DEF A, w, h, S, source
  <2>3. F!ConvertFullSize(l) = F!Planar(A, U, V, w, h)
    BY <1>12 DEF F!ConvertFullSize, F!SemiPlanar, F!PackedYuv, F!Rgb32, A, w, h
  <2>4. F!ConvertFullSize(l) = [p \in S |-> pixel(p)]
    BY <1>4, <2>2, <2>3 DEF F!Planar, F!Image, PlanarTriple
  <2>5. ASSUME NEW p \in S PROVE pixel(p) = source(p)
    <3> DEFINE x == p[1]
               y == p[2]
               cx == x \div 2
               cy == y \div 2
               at == PixelAt(l.planes[1], x, y)
               chroma == PixelAt(Q, cx, cy)
    <3>1. x \in Nat /\ y \in Nat /\ cx \in Nat /\ cy \in Nat
          /\ source(p) = SourcePixel(l, x, y)
      BY <1>5
    <3>2. /\ l.format = "Nv12" => SourcePixel(l, x, y) = <<at, chroma, chroma + 1>>
          /\ l.format = "Nv21" => SourcePixel(l, x, y) = <<at, chroma + 1, chroma>>
      BY <1>1, <1>2, <3>1, SourceBytes
    <3> HIDE DEF x, y, cx, cy, Q, odd
    <3>3. F!At(A, x, y) = at
      BY <2>1, <3>1, ViewFrom DEF A
    <3>4. \A k \in Nat : F!At(F!View(Q, k), cx, cy) = chroma + k
      BY <2>1, <3>1, ViewAt
    <3>5. chroma \in Nat
      BY <2>1, <3>1, PlaneNumbers
    <3>6. odd \in Nat /\ 1 - odd \in Nat /\ (l.format = "Nv21" => odd = 1) /\ (l.format = "Nv12" => odd = 0)
      BY DEF odd
    <3>7. F!At(U, cx, cy) = chroma + odd /\ F!At(V, cx, cy) = chroma + (1 - odd)
      BY <3>4, <3>6
    <3> HIDE DEF at, chroma, U, V
    <3>8. PlanarTriple(A, U, V, x, y, cx, cy) = SourcePixel(l, x, y)
      BY <1>12, <3>2, <3>3, <3>5, <3>6, <3>7 DEF PlanarTriple, F!SemiPlanar
    <3>9. QED
      BY <3>1, <3>8 DEF x, y, cx, cy
  <2> HIDE DEF pixel
  <2>6. QED
    BY <2>4, <2>5
<1>13. ASSUME l.format = "Rgb8" PROVE F!ConvertFullSize(l) = [p \in S |-> source(p)]
  <2> DEFINE pixel(p) == F!RgbTriple("Rgb8", F!At(A, p[1], p[2]))
  <2>1. F!ConvertFullSize(l) = F!Image(w, h, LAMBDA i, j : F!RgbTriple("Rgb8", F!At(A, i, j)))
    BY <1>13 DEF F!ConvertFullSize, F!SemiPlanar, F!PackedYuv, F!Rgb32
  <2> HIDE DEF A, w, h, S, source
  <2>2. F!ConvertFullSize(l) = [p \in S |-> pixel(p)]
    BY <1>4, <2>1 DEF F!Image
  <2>3. ASSUME NEW p \in S PROVE pixel(p) = source(p)
    <3>1. SourcePixel(l, p[1], p[2]) = F!RgbTriple("Rgb8", F!At(A, p[1], p[2]))
      BY <1>13 DEF SourcePixel, F!Yuv, F!PackedYuv, F!SemiPlanar, A
    <3>2. QED
      BY <1>5, <3>1
  <2> HIDE DEF pixel
  <2>4. QED
    BY <2>2, <2>3
<1>14. ASSUME l.format \in F!Rgb32, l.planes[1].pixel_stride = 4
       PROVE  F!ConvertFullSize(l) = [p \in S |-> source(p)]
  <2> DEFINE pixel(p) == F!RgbTriple(l.format, A.at + p[2] * A.row_stride + 4 * p[1])
  <2>1. HasRoom(l.planes[1], w, h, 4) /\ l.planes[1] \in FramePlane
    BY <1>2, <1>14 DEF RoomOf, HasRoom
  <2>2. 4 * w \in Nat /\ 4 * w <= (w - 1) * l.planes[1].pixel_stride + 4
    BY <1>1, <1>14
  <2>3. F!ChromaHolds(A, 4 * w, h)
    BY <2>1, <2>2, ViewsHold
  <2> HIDE DEF A, w, h, S, source
  <2>4. F!ConvertFullSize(l) = F!Packed8888(l.format, A, w, h)
    BY <1>14 DEF F!ConvertFullSize, F!SemiPlanar, F!PackedYuv, F!Rgb32, A, w, h
  <2>5. F!ConvertFullSize(l) = [p \in S |-> pixel(p)]
    BY <1>1, <1>4, <2>3, <2>4 DEF F!Packed8888, F!Image
  <2>6. ASSUME NEW p \in S PROVE pixel(p) = source(p)
    <3> DEFINE x == p[1]
               y == p[2]
    <3>1. x \in Nat /\ y \in Nat /\ source(p) = SourcePixel(l, x, y)
      BY <1>5
    <3>2. A.pixel_stride = 4
      BY <1>8, <1>14 DEF From
    <3>3. x * 4 = 4 * x
      BY <3>1
    <3>4. F!At(A, x, y) = A.at + y * A.row_stride + 4 * x
      BY <3>2, <3>3 DEF F!At
    <3>5. SourcePixel(l, x, y) = F!RgbTriple(l.format, F!At(A, x, y))
      BY <1>14 DEF SourcePixel, F!Yuv, F!PackedYuv, F!SemiPlanar, F!Rgb32, A
    <3>6. QED
      BY <3>1, <3>4, <3>5
  <2> HIDE DEF pixel
  <2>7. QED
    BY <2>5, <2>6
<1>15. QED
  BY <1>6, <1>9, <1>10, <1>11, <1>12, <1>13, <1>14 DEF F!HasFullSize, F!Yuv

\* The pixels of a row that a map leads to.
Resized(row, dw, map) == [i \in 0..(dw - 1) |-> row[map[i]]]

\* A map of a row of sw pixels to dw: nearest sampling.
IsNearestMap(map, sw, dw) == \A i \in 0..(dw - 1) : map[i] = (i * sw) \div dw

\* Copying groups of two of three or three of four pixels is nearest sampling.
LEMMA ResizeIs ==
  ASSUME NEW row, NEW sw \in Nat, sw > 0, NEW dw \in Nat, dw > 0, NEW map, IsNearestMap(map, sw, dw)
  PROVE  F!ResizeRow(row, sw, dw, map) = Resized(row, dw, map)
<1>0. \A i \in 0..(dw - 1) : map[i] = (i * sw) \div dw
  BY DEF IsNearestMap
<1>1. ASSUME sw % 3 = 0, dw * 3 = sw * 2, NEW i \in 0..(dw - 1)
      PROVE  3 * (i \div 2) + (i % 2) = map[i]
  <2>1. PICK k \in Nat : sw = 3 * k /\ dw = 2 * k /\ k > 0
    <3>1. sw = 3 * (sw \div 3) /\ sw \div 3 \in Nat
      BY <1>1
    <3>2. QED
      BY <1>1, <3>1
  <2>2. PICK a \in Nat, b \in 0..1 : a = i \div 2 /\ b = i % 2 /\ i = 2 * a + b
    BY <1>1
  <2>3. (i * sw) \div dw = 3 * a + b
    <3> DEFINE q == 3 * a + b
               n == i * sw
    <3>1. n = 6 * (a * k) + 3 * (b * k) /\ q * dw = 6 * (a * k) + 2 * (b * k)
          /\ a * k \in Nat /\ b * k \in Nat /\ b * k <= k
      BY <2>1, <2>2
    <3>2. n \in Nat /\ q \in Nat
      BY <2>2, <3>1
    <3>3. q * dw <= n /\ n < q * dw + dw
      BY <2>1, <3>1
    <3> HIDE DEF n, q
    <3>4. QED
      BY <2>1, <3>2, <3>3, QuotientIs DEF n, q
  <2>4. QED
    BY <1>0, <2>2, <2>3
<1>2. ASSUME sw % 4 = 0, dw * 4 = sw * 3, NEW i \in 0..(dw - 1)
      PROVE  4 * (i \div 3) + (i % 3) = map[i]
  <2>1. PICK k \in Nat : sw = 4 * k /\ dw = 3 * k /\ k > 0
    <3>1. sw = 4 * (sw \div 4) /\ sw \div 4 \in Nat
      BY <1>2
    <3>2. QED
      BY <1>2, <3>1
  <2>2. PICK a \in Nat, b \in 0..2 : a = i \div 3 /\ b = i % 3 /\ i = 3 * a + b
    BY <1>2
  <2>3. (i * sw) \div dw = 4 * a + b
    <3> DEFINE q == 4 * a + b
               n == i * sw
    <3>1. n = 12 * (a * k) + 4 * (b * k) /\ q * dw = 12 * (a * k) + 3 * (b * k)
          /\ a * k \in Nat /\ b * k \in Nat /\ b * k <= 2 * k
      BY <2>1, <2>2
    <3>2. n \in Nat /\ q \in Nat
      BY <2>2, <3>1
    <3>3. q * dw <= n /\ n < q * dw + dw
      BY <2>1, <3>1
    <3> HIDE DEF n, q
    <3>4. QED
      BY <2>1, <3>2, <3>3, QuotientIs DEF n, q
  <2>4. QED
    BY <1>0, <2>2, <2>3
<1>3. QED
  BY <1>1, <1>2 DEF F!ResizeRow, Resized

\* A slice of the rows of a plane.
Slice(P, y, n) == [F!View(P, y * P.row_stride) EXCEPT !.n = n]

\* A slice is a view from its first row on, as long as it was cut.
LEMMA SliceFrom ==
  ASSUME NEW P \in FramePlane, NEW y \in Nat, NEW n
  PROVE  From(Slice(P, y, n), P, y) /\ Slice(P, y, n).n = n
BY DEF From, F!View, RowAt, Slice

\* What a slice of some rows holds.
LEMMA SliceHolds ==
  ASSUME NEW P, NEW columns, NEW all, NEW bytes \in Nat, bytes > 0, HasRoom(P, columns, all, bytes),
         NEW y, NEW v, From(v, P, y), NEW rows \in Nat, rows > 0
  PROVE  /\ (P.pixel_stride = 1 /\ v.n = (rows - 1) * P.row_stride + columns) =>
                F!ViewHolds(v, columns, rows) /\ F!ViewHolds(F!Unstrided(v), columns, rows)
         /\ \A k \in Nat : (k <= (columns - 1) * P.pixel_stride + bytes
                            /\ v.n = (rows - 1) * P.row_stride + k) => F!ChromaHolds(v, k, rows)
<1> DEFINE row == (columns - 1) * P.pixel_stride
           before == (rows - 1) * P.row_stride
<1>1. /\ P.row_stride \in Nat /\ P.pixel_stride \in Nat /\ columns \in Nat /\ columns > 0
      /\ P.row_stride >= row + bytes
  BY DEF HasRoom, FramePlane
<1>2. row \in Nat /\ before \in Nat
  BY <1>1
<1>3. v.row_stride = P.row_stride /\ v.pixel_stride = P.pixel_stride
  BY DEF From
<1>4. ASSUME P.pixel_stride = 1, v.n = before + columns
      PROVE  F!ViewHolds(v, columns, rows) /\ F!ViewHolds(F!Unstrided(v), columns, rows)
  <2> DEFINE u == F!Unstrided(v)
  <2>1. u.n = v.n /\ u.row_stride = P.row_stride /\ u.pixel_stride = 1
    BY <1>3 DEF F!Unstrided
  <2>2. row = columns - 1 /\ (columns - 1) * 1 = columns - 1
    BY <1>1, <1>4
  <2> HIDE DEF u
  <2>3. F!ViewHolds(u, columns, rows) <=>
           /\ columns > 0 /\ rows > 0 /\ 1 > 0
           /\ P.row_stride >= (columns - 1) * 1 + 1 /\ v.n >= before + (columns - 1) * 1 + 1
    BY <2>1 DEF F!ViewHolds
  <2>4. F!ViewHolds(v, columns, rows) <=>
           /\ columns > 0 /\ rows > 0 /\ P.pixel_stride > 0
           /\ P.row_stride >= row + 1 /\ v.n >= before + row + 1
    BY <1>3 DEF F!ViewHolds
  <2> HIDE DEF row, before
  <2>5. QED
    BY <1>1, <1>2, <1>4, <2>2, <2>3, <2>4 DEF u
<1>5. ASSUME NEW k \in Nat, k <= row + bytes, v.n = before + k PROVE F!ChromaHolds(v, k, rows)
  <2>1. F!ChromaHolds(v, k, rows) <=> P.row_stride >= k /\ v.n >= before + k
    BY <1>3 DEF F!ChromaHolds
  <2> HIDE DEF row, before
  <2>2. QED
    BY <1>1, <1>2, <1>5, <2>1
<1>6. QED
  BY <1>4, <1>5

\* The pixels of one or two rows from sy on.
RowImage(l, sy, rows) == [p \in Pixels(l.width, rows) |-> SourcePixel(l, p[1], sy + p[2])]

\* One or two rows of the source converted as an image of their own are those
\* rows of it.
LEMMA RowsConvert ==
  ASSUME NEW l, RoomOf(l), l.planes \in Seq(FramePlane), l.width \in Nat, l.height \in Nat,
         l.format \in F!Yuv, F!SupportsRows(l),
         NEW sy \in Nat, NEW rows \in 1..2,
         rows = 2 => sy % 2 = 0 /\ l.format \notin F!PackedYuv
  PROVE  F!ConvertRows(l, sy, rows) = RowImage(l, sy, rows)
<1> DEFINE w == l.width
           S == Pixels(w, rows)
           P == l.planes[1]
           cy == sy \div 2
           before == (rows - 1) * P.row_stride
           A == Slice(P, sy, before + w)
           C2 == F!CeilHalf(w)
           source(p) == SourcePixel(l, p[1], sy + p[2])
<1>1. w \in Nat /\ w > 0 /\ rows \in Nat /\ rows > 0 /\ cy \in Nat
  BY DEF RoomOf
<1>2. 1 \in DOMAIN l.planes /\ \A i \in DOMAIN l.planes : l.planes[i] \in FramePlane
  BY FirstPlane
<1>3. C2 \in Nat /\ C2 > 0
  BY <1>1, HalfUp
<1>4. ASSUME NEW p \in S
      PROVE  /\ p[1] \in Nat /\ p[2] \in Nat /\ sy + p[2] \in Nat /\ IsSum(sy + p[2], sy, p[2])
             /\ l.format \notin F!PackedYuv =>
                   p[2] \div 2 \in Nat /\ p[2] \div 2 = 0 /\ IsSum((sy + p[2]) \div 2, cy, p[2] \div 2)
  <2>1. p[1] \in Nat /\ p[2] \in Nat /\ p[2] <= rows - 1
    BY <1>1, PixelOf
  <2>2. p[2] \div 2 = 0
    BY <2>1
  <2>3. l.format \notin F!PackedYuv => (sy + p[2]) \div 2 = cy
    <3>1. CASE rows = 1
      <4>1. sy + p[2] = sy
        BY <2>1, <3>1
      <4>2. QED
        BY <4>1
    <3>2. CASE rows = 2 /\ l.format \notin F!PackedYuv
      <4>1. p[2] <= 1 /\ sy % 2 = 0
        BY <2>1, <3>2
      <4>2. QED
        BY <2>1, <4>1, SameHalf
    <3>3. QED
      BY <3>1, <3>2
  <2>4. QED
    BY <1>1, <2>1, <2>2, <2>3 DEF IsSum
<1>5. F!CeilHalf(rows) = 1
  BY DEF F!CeilHalf
<1>6. S = (0..(w - 1)) \X (0..(rows - 1))
  BY DEF Pixels
<1>7. ASSUME l.format \in F!PackedYuv PROVE F!ConvertRows(l, sy, rows) = [p \in S |-> source(p)]
  <2> DEFINE V == Slice(P, sy, before + 2 * w)
             uyvy == l.format = "Uyvy"
             pixel(p) == F!PackedTriple(V, uyvy, p[1], p[2])
  <2>1. HasRoom(P, w, l.height, 2) /\ w % 2 = 0 /\ P.pixel_stride = 2
    BY <1>7 DEF RoomOf
  <2>2. From(V, P, sy) /\ V.n = before + 2 * w
    BY <1>2, SliceFrom
  <2>3. 2 * w \in Nat /\ 2 * w <= (w - 1) * P.pixel_stride + 2
    BY <1>1, <2>1
  <2>4. F!ConvertRows(l, sy, rows) = F!PackedImage(V, uyvy, w, rows)
    BY <1>7 DEF F!ConvertRows, F!PackedYuv, F!SemiPlanar, Slice
  <2> HIDE DEF V, w, S, source, before
  <2>5. F!ChromaHolds(V, 2 * w, rows)
    <3>1. \A k \in Nat : (k <= (w - 1) * P.pixel_stride + 2
                           /\ V.n = (rows - 1) * P.row_stride + k) => F!ChromaHolds(V, k, rows)
      <4>1. rows \in Nat /\ rows > 0 /\ HasRoom(P, w, l.height, 2) /\ From(V, P, sy)
        BY <1>1, <2>1, <2>2
      <4> HIDE DEF P
      <4>2. QED
        BY <4>1, SliceHolds
    <3> DEFINE k == 2 * w
    <3>2. k \in Nat /\ k <= (w - 1) * P.pixel_stride + 2 /\ V.n = (rows - 1) * P.row_stride + k
      BY <2>2, <2>3 DEF before
    <3> HIDE DEF k
    <3>3. F!ChromaHolds(V, k, rows)
      BY <3>1, <3>2
    <3>4. QED
      BY <3>3 DEF k
  <2>6. F!PackedHolds(V, w, rows)
    BY <1>1, <2>1, <2>5 DEF F!PackedHolds
  <2>7. IsFormat(uyvy, l.format, "Uyvy")
    BY DEF IsFormat
  <2>8. F!ConvertRows(l, sy, rows) = [p \in S |-> pixel(p)]
    BY <1>6, <2>4, <2>6 DEF F!PackedImage, F!Image
  <2> HIDE DEF uyvy
  <2>9. ASSUME NEW p \in S PROVE pixel(p) = source(p)
    <3> DEFINE y == sy + p[2]
    <3>1. p[1] \in Nat /\ p[2] \in Nat /\ y \in Nat /\ IsSum(y, sy, p[2])
      BY <1>4
    <3> HIDE DEF y
    <3>2. F!PackedTriple(V, uyvy, p[1], p[2]) = SourcePixel(l, p[1], y)
      BY <1>7, <2>2, <2>7, <3>1, PackedIs
    <3>3. QED
      BY <3>2 DEF source, y
  <2> HIDE DEF pixel
  <2>10. QED
    BY <2>8, <2>9
<1>8. ASSUME l.format \in F!SemiPlanar PROVE F!ConvertRows(l, sy, rows) = [p \in S |-> source(p)]
  <2> DEFINE Q == l.planes[2]
             B == Slice(Q, cy, 2 * C2)
             vu == l.format = "Nv21"
             pixel(p) == F!SemiTriple(A, B, vu, p[1], p[2], p[1] \div 2, p[2] \div 2)
  <2>1. F!Contiguous(l)
    BY <1>8 DEF F!SupportsRows, F!PackedYuv, F!SemiPlanar
  <2>2. /\ HasRoom(P, w, l.height, 1) /\ HasRoom(Q, C2, F!CeilHalf(l.height), 2)
        /\ P.pixel_stride = 1 /\ Q.pixel_stride = 2 /\ Q \in FramePlane
    BY <1>8, <2>1 DEF RoomOf, HasRoom, F!Contiguous, F!SemiPlanar
  <2>3. From(A, P, sy) /\ A.n = before + w
    BY <1>2, SliceFrom
  <2>4. From(B, Q, cy) /\ B.n = 2 * C2
    BY <1>1, <2>2, SliceFrom
  <2>5. F!ConvertRows(l, sy, rows) = F!SemiPlanarImage(A, B, vu, w, rows)
    BY <1>8 DEF F!ConvertRows, F!PackedYuv, F!SemiPlanar, Slice
  <2> HIDE DEF A, B, C2, w, S, source, before, cy
  <2>6. F!ViewHolds(F!Unstrided(A), w, rows)
    BY <1>1, <2>2, <2>3, SliceHolds DEF before
  <2>7. F!ChromaHolds(B, 2 * C2, 1)
    <3>1. 2 * C2 \in Nat /\ 2 * C2 <= (C2 - 1) * Q.pixel_stride + 2
      BY <1>3, <2>2
    <3>2. B.n = (1 - 1) * Q.row_stride + 2 * C2
      <4>1. Q.row_stride \in Nat
        BY <2>2 DEF FramePlane
      <4>2. (1 - 1) * Q.row_stride = 0
        BY <4>1
      <4>3. QED
        BY <2>4, <3>1, <4>2
    <3>3. QED
      BY <2>2, <2>4, <3>1, <3>2, SliceHolds
  <2>8. IsFormat(vu, l.format, "Nv21")
    BY DEF IsFormat
  <2> HIDE DEF vu
  <2>9. F!ConvertRows(l, sy, rows) = [p \in S |-> pixel(p)]
    BY <1>5, <1>6, <2>5, <2>6, <2>7 DEF F!SemiPlanarImage, F!Image, C2
  <2>10. ASSUME NEW p \in S PROVE pixel(p) = source(p)
    <3> DEFINE y == sy + p[2]
               ck == p[2] \div 2
    <3>1. p[1] \in Nat /\ p[2] \in Nat /\ y \in Nat /\ IsSum(y, sy, p[2])
          /\ ck \in Nat /\ IsSum(y \div 2, cy, ck)
      BY <1>4, <1>8 DEF F!SemiPlanar, F!PackedYuv
    <3> HIDE DEF y, ck
    <3>2. F!SemiTriple(A, B, vu, p[1], p[2], p[1] \div 2, ck) = SourcePixel(l, p[1], y)
      BY <1>1, <1>8, <2>1, <2>3, <2>4, <2>8, <3>1, SemiIs
    <3>3. QED
      BY <3>2 DEF source, y, ck
  <2> HIDE DEF pixel
  <2>11. QED
    BY <2>9, <2>10
<1>9. ASSUME l.format = "Yuv420p" PROVE F!ConvertRows(l, sy, rows) = [p \in S |-> source(p)]
  <2> DEFINE B == Slice(l.planes[2], cy, C2)
             D3 == Slice(l.planes[3], cy, C2)
             pixel(p) == PlanarTriple(A, B, D3, p[1], p[2], p[1] \div 2, p[2] \div 2)
  <2>1. F!Contiguous(l)
    BY <1>9 DEF F!SupportsRows, F!PackedYuv
  <2>2. /\ HasRoom(P, w, l.height, 1)
        /\ P.pixel_stride = 1
        /\ \A i \in 2..3 : /\ HasRoom(l.planes[i], C2, F!CeilHalf(l.height), 1)
                           /\ l.planes[i].pixel_stride = 1 /\ l.planes[i] \in FramePlane
    BY <1>9, <2>1 DEF RoomOf, HasRoom, F!Contiguous, F!SemiPlanar
  <2>3. From(A, P, sy) /\ A.n = before + w
    BY <1>2, SliceFrom
  <2>4. \A i \in 2..3 : From(Slice(l.planes[i], cy, C2), l.planes[i], cy) /\ Slice(l.planes[i], cy, C2).n = C2
    BY <1>1, <2>2, SliceFrom
  <2>5. F!ConvertRows(l, sy, rows) = F!Planar(A, B, D3, w, rows)
    BY <1>9 DEF F!ConvertRows, F!PackedYuv, F!SemiPlanar, Slice
  <2> HIDE DEF A, C2, w, S, source, before, cy
  <2>6. F!ViewHolds(A, w, rows)
    BY <1>1, <2>2, <2>3, SliceHolds DEF before
  <2>7. ASSUME NEW i \in 2..3 PROVE F!ViewHolds(Slice(l.planes[i], cy, C2), C2, 1)
    <3>1. l.planes[i].row_stride \in Nat
      BY <2>2 DEF FramePlane
    <3>2. (1 - 1) * l.planes[i].row_stride = 0
      BY <3>1
    <3>3. Slice(l.planes[i], cy, C2).n = (1 - 1) * l.planes[i].row_stride + C2
      BY <1>3, <2>4, <3>2
    <3>4. QED
      BY <2>2, <2>4, <3>3, SliceHolds
  <2>8. F!ViewHolds(B, C2, 1) /\ F!ViewHolds(D3, C2, 1) /\ From(B, l.planes[2], cy) /\ From(D3, l.planes[3], cy)
    BY <2>4, <2>7
  <2> HIDE DEF B, D3
  <2>9. F!ConvertRows(l, sy, rows) = [p \in S |-> pixel(p)]
    BY <1>5, <1>6, <2>5, <2>6, <2>8 DEF F!Planar, F!Image, C2, PlanarTriple
  <2>10. ASSUME NEW p \in S PROVE pixel(p) = source(p)
    <3> DEFINE y == sy + p[2]
               ck == p[2] \div 2
    <3>1. p[1] \in Nat /\ p[2] \in Nat /\ y \in Nat /\ IsSum(y, sy, p[2])
          /\ ck \in Nat /\ IsSum(y \div 2, cy, ck)
      BY <1>4, <1>9 DEF F!PackedYuv
    <3> HIDE DEF y, ck
    <3>2. PlanarTriple(A, B, D3, p[1], p[2], p[1] \div 2, ck) = SourcePixel(l, p[1], y)
      BY <1>1, <1>9, <2>3, <2>8, <3>1, PlanarIs
    <3>3. QED
      BY <3>2 DEF source, y, ck
  <2> HIDE DEF pixel
  <2>11. QED
    BY <2>9, <2>10
<1>10. F!ConvertRows(l, sy, rows) = [p \in S |-> source(p)]
  BY <1>7, <1>8, <1>9 DEF F!Yuv
<1>11. QED
  BY <1>10 DEF RowImage

\* Whether a destination row begins a conversion is settled row by row.
LEMMA BeginsByRow ==
  ASSUME NEW l, NEW height \in Nat, NEW map
  PROVE  /\ F!Begins(l, height, map)[0]
         /\ \A j \in 1..height :
               ~F!Begins(l, height, map)[j] => F!Begins(l, height, map)[j - 1] /\ F!Paired(l, map, j - 1)
<1> DEFINE Rule(t, j) == j = 0 \/ ~(t[j - 1] /\ F!Paired(l, map, j - 1))
           Ruled(t, m) == \A j \in 0..m : t[j] = Rule(t, j)
           Has(m) == \E t \in [0..m -> BOOLEAN] : Ruled(t, m)
           Done == {m \in Nat : Has(m)}
<1>1. Has(0)
  <2> DEFINE t == [j \in 0..0 |-> TRUE]
  <2>1. t \in [0..0 -> BOOLEAN]
    OBVIOUS
  <2>2. t[0] = TRUE
    OBVIOUS
  <2> HIDE DEF t
  <2>3. ASSUME NEW j \in 0..0 PROVE t[j] = Rule(t, j)
    <3>1. j = 0
      OBVIOUS
    <3>2. Rule(t, j) = TRUE
      BY <3>1
    <3>3. QED
      BY <2>2, <3>1, <3>2
  <2>4. QED
    BY <2>1, <2>3
<1>2. ASSUME NEW m \in Nat, Has(m) PROVE Has(m + 1)
  <2>1. PICK t \in [0..m -> BOOLEAN] : Ruled(t, m)
    BY <1>2
  <2> DEFINE u == [j \in 0..(m + 1) |-> IF j = m + 1 THEN ~(t[m] /\ F!Paired(l, map, m)) ELSE t[j]]
  <2>2. u \in [0..(m + 1) -> BOOLEAN]
    <3>1. ASSUME NEW j \in 0..(m + 1), j # m + 1 PROVE j \in 0..m
      BY <3>1
    <3>2. QED
      BY <3>1
  <2>3. u[m + 1] = ~(t[m] /\ F!Paired(l, map, m)) /\ \A j \in 0..m : u[j] = t[j]
    OBVIOUS
  <2> HIDE DEF u
  <2>4. ASSUME NEW j \in 0..(m + 1) PROVE u[j] = Rule(u, j)
    <3>1. CASE j = m + 1
      <4>1. j # 0 /\ j - 1 = m /\ m \in 0..m
        BY <3>1
      <4>2. u[m] = t[m]
        BY <2>3, <4>1
      <4>3. QED
        BY <2>3, <3>1, <4>1, <4>2
    <3>2. CASE j # m + 1 /\ j # 0
      <4>1. j \in 0..m /\ j - 1 \in 0..m
        BY <3>2
      <4>2. t[j] = Rule(t, j) /\ u[j] = t[j] /\ u[j - 1] = t[j - 1]
        BY <2>1, <2>3, <4>1
      <4>3. QED
        BY <4>2
    <3>3. CASE j = 0
      <4>1. 0 \in 0..m
        OBVIOUS
      <4>2. t[0] = Rule(t, 0) /\ u[0] = t[0]
        BY <2>1, <2>3, <4>1
      <4>3. QED
        BY <3>3, <4>2
    <3>4. QED
      BY <3>1, <3>2, <3>3
  <2>5. QED
    BY <2>2, <2>4
<1>3. Has(height)
  <2> HIDE DEF Has
  <2>1. 0 \in Done /\ \A m \in Nat : m \in Done => m + 1 \in Done
    BY <1>1, <1>2
  <2> HIDE DEF Done
  <2>2. height \in Done
    BY <2>1, CountingUp
  <2>3. QED
    BY <2>2 DEF Done
<1>4. PICK t \in [0..height -> BOOLEAN] : Ruled(t, height)
  BY <1>3
<1>5. t = [j \in 0..height |-> Rule(t, j)]
  BY <1>4
<1> DEFINE b == F!Begins(l, height, map)
<1>6. b = [j \in 0..height |-> Rule(b, j)]
  BY <1>5 DEF F!Begins
<1> HIDE DEF b
<1>7. ASSUME NEW j \in 0..height PROVE b[j] = Rule(b, j)
  BY <1>6, Zenon
<1>8. b[0]
  <2>1. 0 \in 0..height
    OBVIOUS
  <2>2. QED
    BY <1>7, <2>1
<1>9. ASSUME NEW j \in 1..height, ~b[j] PROVE b[j - 1] /\ F!Paired(l, map, j - 1)
  <2>1. j \in 0..height /\ j # 0
    OBVIOUS
  <2>2. QED
    BY <1>7, <1>9, <2>1
<1>10. QED
  BY <1>8, <1>9 DEF b

\* An image of at least a pixel is not an error.
LEMMA NoImage ==
  ASSUME NEW w \in Nat, w > 0, NEW h \in Nat, h > 0, NEW f, DOMAIN f = Pixels(w, h)
  PROVE  f # F!Error
<1>1. <<0, 0>> \in DOMAIN f
  BY DEF Pixels
<1>2. DOMAIN F!Error = {}
  BY DEF F!Error
<1>3. QED
  BY <1>1, <1>2

\* The way row by row, with chroma shared by two rows where they are a pair.
LEMMA RowsPath ==
  ASSUME NEW l, NEW length, NEW r, Convertible(l, length, r), l.format \in F!Yuv, F!SupportsRows(l)
  PROVE  F!ScaleRows(l, r, MapOf(l, r)) = Nearest(l, r)
<1> DEFINE map == MapOf(l, r)
           w == l.width
           S == Pixels(r.width, r.height)
           b == F!Begins(l, r.height, map)
           Source(j) == IF b[j]
                        THEN [of |-> F!ConvertRows(l, map.y[j], IF F!Paired(l, map, j) THEN 2 ELSE 1), row |-> 0]
                        ELSE [of |-> F!ConvertRows(l, map.y[j - 1], 2), row |-> 1]
           rows == [j \in 0..(r.height - 1) |-> Source(j)]
           line(j) == [x \in 0..(w - 1) |-> rows[j].of[<<x, rows[j].row>>]]
           resized == [j \in DOMAIN rows |-> F!ResizeRow(line(j), w, r.width, map.x)]
           source(p) == SourcePixel(l, MapX(l, r, p[1]), MapY(l, r, p[2]))
<1>1. /\ w \in Nat /\ w > 0 /\ l.height \in Nat /\ l.planes \in Seq(FramePlane)
      /\ r.width \in Nat /\ r.width > 0 /\ r.height \in Nat /\ r.height > 0
  BY DEF Convertible, F!ValidLayout
<1>2. RoomOf(l)
  BY LayoutRoom
<1>3. F!ScaleRows(l, r, map)
        = IF \E j \in DOMAIN rows : rows[j].of = F!Error THEN F!Error
          ELSE [p \in S |-> resized[p[2]][p[1]]]
  BY DEF F!ScaleRows, F!Image, Pixels
<1>4. /\ DOMAIN map.y = 0..(r.height - 1)
      /\ \A i \in 0..(r.width - 1) :
            map.x[i] = MapX(l, r, i) /\ map.x[i] \in Nat /\ map.x[i] <= w - 1 /\ map.x[i] = (i * w) \div r.width
      /\ \A j \in 0..(r.height - 1) :
            map.y[j] = MapY(l, r, j) /\ map.y[j] \in Nat /\ map.y[j] <= l.height - 1
  BY MapIs DEF MapX
<1>4a. IsNearestMap(map.x, w, r.width)
  BY <1>4 DEF IsNearestMap
<1>5. b[0] /\ \A j \in 1..r.height : ~b[j] => b[j - 1] /\ F!Paired(l, map, j - 1)
  BY <1>1, BeginsByRow
<1>6. Nearest(l, r) = [p \in S |-> source(p)]
  BY DEF Nearest
<1> HIDE DEF map, b, w, S, source
<1>7. ASSUME NEW sy \in Nat, NEW n \in 1..2, n = 2 => sy % 2 = 0 /\ l.format \notin F!PackedYuv
      PROVE  /\ F!ConvertRows(l, sy, n) # F!Error
             /\ \A x \in 0..(w - 1), k \in 0..(n - 1) :
                   F!ConvertRows(l, sy, n)[<<x, k>>] = SourcePixel(l, x, sy + k)
  <2> DEFINE image == F!ConvertRows(l, sy, n)
  <2>0. image = RowImage(l, sy, n)
    BY <1>1, <1>2, <1>7, RowsConvert DEF w
  <2> HIDE DEF image
  <2>1. image = [p \in Pixels(w, n) |-> SourcePixel(l, p[1], sy + p[2])]
    BY <2>0 DEF RowImage, w
  <2>2. DOMAIN image = Pixels(w, n) /\ n \in Nat /\ n > 0
    BY <2>1
  <2>3. image # F!Error
    BY <1>1, <2>2, NoImage
  <2>4. ASSUME NEW x \in 0..(w - 1), NEW k \in 0..(n - 1)
        PROVE  image[<<x, k>>] = SourcePixel(l, x, sy + k)
    <3>1. <<x, k>> \in Pixels(w, n)
      BY DEF Pixels
    <3>2. QED
      BY <2>1, <3>1
  <2>5. QED
    BY <2>3, <2>4 DEF image
<1>8. ASSUME NEW j \in 0..(r.height - 1)
      PROVE  /\ Source(j).of # F!Error
             /\ \A x \in 0..(w - 1) : Source(j).of[<<x, Source(j).row>>] = SourcePixel(l, x, map.y[j])
  <2> DEFINE sy == map.y[j]
  <2>1. sy \in Nat /\ sy + 0 = sy
    BY <1>4
  <2>2. CASE b[j] /\ ~F!Paired(l, map, j)
    <3>1. Source(j).of = F!ConvertRows(l, sy, 1) /\ Source(j).row = 0
      BY <2>2
    <3>2. 1 \in 1..2 /\ 0 \in 0..(1 - 1)
      OBVIOUS
    <3> HIDE DEF sy, Source
    <3>3. F!ConvertRows(l, sy, 1) # F!Error
          /\ \A x \in 0..(w - 1) : F!ConvertRows(l, sy, 1)[<<x, 0>>] = SourcePixel(l, x, sy + 0)
      BY <1>7, <2>1, <3>2
    <3>4. QED
      BY <2>1, <3>1, <3>3 DEF sy
  <2>3. CASE b[j] /\ F!Paired(l, map, j)
    <3>1. Source(j).of = F!ConvertRows(l, sy, 2) /\ Source(j).row = 0
      BY <2>3
    <3>2. 2 \in 1..2 /\ 0 \in 0..(2 - 1) /\ sy % 2 = 0 /\ l.format \notin F!PackedYuv
      BY <2>3 DEF F!Paired
    <3> HIDE DEF sy, Source
    <3>3. F!ConvertRows(l, sy, 2) # F!Error
          /\ \A x \in 0..(w - 1) : F!ConvertRows(l, sy, 2)[<<x, 0>>] = SourcePixel(l, x, sy + 0)
      BY <1>7, <2>1, <3>2
    <3>4. QED
      BY <2>1, <3>1, <3>3 DEF sy
  <2>4. CASE ~b[j]
    <3> DEFINE i == j - 1
               ty == map.y[i]
    <3>1. j # 0 /\ j \in 1..r.height /\ i \in 0..(r.height - 1) /\ i + 1 = j
      BY <1>1, <1>5, <2>4
    <3>2. b[i] /\ F!Paired(l, map, i)
      BY <1>5, <2>4, <3>1
    <3>3. Source(j).of = F!ConvertRows(l, ty, 2) /\ Source(j).row = 1
      BY <2>4
    <3>4. 2 \in 1..2 /\ 1 \in 0..(2 - 1) /\ ty % 2 = 0 /\ l.format \notin F!PackedYuv /\ sy = ty + 1 /\ ty \in Nat
      BY <1>4, <3>1, <3>2 DEF F!Paired
    <3> HIDE DEF ty, sy, Source
    <3>5. F!ConvertRows(l, ty, 2) # F!Error
          /\ \A x \in 0..(w - 1) : F!ConvertRows(l, ty, 2)[<<x, 1>>] = SourcePixel(l, x, ty + 1)
      BY <1>7, <3>4
    <3>6. QED
      BY <3>3, <3>4, <3>5 DEF sy
  <2>5. QED
    BY <2>2, <2>3, <2>4
<1> HIDE DEF Source
<1>9. DOMAIN rows = 0..(r.height - 1) /\ \A j \in 0..(r.height - 1) : rows[j] = Source(j)
  OBVIOUS
<1> HIDE DEF rows
<1>10. \A j \in DOMAIN rows : rows[j].of # F!Error
  BY <1>8, <1>9
<1>11. ASSUME NEW p \in S PROVE resized[p[2]][p[1]] = source(p)
  <2> DEFINE i == p[1]
             j == p[2]
  <2>1. i \in 0..(r.width - 1) /\ j \in 0..(r.height - 1)
    BY <1>1, PixelOf DEF S
  <2>2. resized[j] = F!ResizeRow(line(j), w, r.width, map.x)
    BY <1>9, <2>1
  <2>3. \A x \in 0..(w - 1) : line(j)[x] = SourcePixel(l, x, map.y[j])
    BY <1>8, <1>9, <2>1
  <2> HIDE DEF line, resized, i, j
  <2>4. F!ResizeRow(line(j), w, r.width, map.x) = Resized(line(j), r.width, map.x)
    BY <1>1, <1>4a, ResizeIs
  <2>5. resized[j][i] = line(j)[map.x[i]]
    BY <2>1, <2>2, <2>4 DEF Resized
  <2>6. map.x[i] \in 0..(w - 1) /\ map.x[i] = MapX(l, r, i) /\ map.y[j] = MapY(l, r, j)
    BY <1>1, <1>4, <2>1
  <2>7. resized[j][i] = SourcePixel(l, MapX(l, r, i), MapY(l, r, j))
    BY <2>3, <2>5, <2>6
  <2>8. QED
    BY <2>7 DEF source, i, j
<1> HIDE DEF resized
<1>12. [p \in S |-> resized[p[2]][p[1]]] = [p \in S |-> source(p)]
  BY <1>11
<1>13. QED
  BY <1>3, <1>6, <1>10, <1>12 DEF map

\* The pixel-by-pixel way of the formats without chroma.
LEMMA RgbRowsPath ==
  ASSUME NEW l, NEW length, NEW r, Convertible(l, length, r), l.format \notin F!Yuv
  PROVE  F!ScaleNearest(l, r, MapOf(l, r)) = Nearest(l, r)
<1> DEFINE map == MapOf(l, r)
           S == Pixels(r.width, r.height)
           w == l.width
           plane == F!View(l.planes[1], 0)
           line(j) == [x \in 0..(w - 1) |-> F!RgbTriple("Rgb8", plane.at + map.y[j] * plane.row_stride + 3 * x)]
           resized == [j \in 0..(r.height - 1) |-> F!ResizeRow(line(j), w, r.width, map.x)]
           direct(p) == F!RgbTriple(l.format, F!At(plane, map.x[p[1]], map.y[p[2]]))
           source(p) == SourcePixel(l, MapX(l, r, p[1]), MapY(l, r, p[2]))
<1>1. /\ w \in Nat /\ w > 0 /\ l.height \in Nat
      /\ r.width \in Nat /\ r.width > 0 /\ r.height \in Nat /\ r.height > 0
  BY DEF Convertible, F!ValidLayout
<1>2. F!ScaleNearest(l, r, map)
        = IF l.format = "Rgb8" /\ plane.pixel_stride = 3 THEN [p \in S |-> resized[p[2]][p[1]]]
          ELSE [p \in S |-> direct(p)]
  BY DEF F!ScaleNearest, F!Image, Pixels
<1>3. /\ \A i \in 0..(r.width - 1) :
            map.x[i] = MapX(l, r, i) /\ map.x[i] \in Nat /\ map.x[i] <= w - 1 /\ map.x[i] = (i * w) \div r.width
      /\ \A j \in 0..(r.height - 1) : map.y[j] = MapY(l, r, j)
  BY MapIs DEF MapX
<1>4. IsNearestMap(map.x, w, r.width)
  BY <1>3 DEF IsNearestMap
<1>5. Nearest(l, r) = [p \in S |-> source(p)]
  BY DEF Nearest
<1> HIDE DEF map, S
<1>6. ASSUME NEW p \in S
      PROVE  /\ p[1] \in 0..(r.width - 1) /\ p[2] \in 0..(r.height - 1)
             /\ map.x[p[1]] = MapX(l, r, p[1]) /\ map.y[p[2]] = MapY(l, r, p[2])
  <2>1. p[1] \in 0..(r.width - 1) /\ p[2] \in 0..(r.height - 1)
    BY <1>1, PixelOf DEF S
  <2>2. QED
    BY <1>3, <2>1
<1>7. ASSUME NEW p \in S PROVE direct(p) = source(p)
  BY <1>6 DEF SourcePixel
<1>8. ASSUME l.format = "Rgb8", plane.pixel_stride = 3, NEW p \in S
      PROVE  resized[p[2]][p[1]] = direct(p)
  <2> DEFINE i == p[1]
             j == p[2]
             x == map.x[i]
  <2>1. i \in 0..(r.width - 1) /\ j \in 0..(r.height - 1)
    BY <1>6
  <2>2. resized[j] = F!ResizeRow(line(j), w, r.width, map.x)
    BY <2>1
  <2>3. x \in 0..(w - 1) /\ x \in Nat
    BY <1>1, <1>3, <2>1
  <2>4. line(j)[x] = F!RgbTriple("Rgb8", plane.at + map.y[j] * plane.row_stride + 3 * x)
    BY <2>3
  <2>5. direct(p) = F!RgbTriple("Rgb8", plane.at + map.y[j] * plane.row_stride + x * 3)
    BY <1>8 DEF F!At
  <2>6. 3 * x = x * 3
    BY <2>3
  <2> HIDE DEF line, resized, x
  <2>7. F!ResizeRow(line(j), w, r.width, map.x) = Resized(line(j), r.width, map.x)
    BY <1>1, <1>4, ResizeIs
  <2>8. resized[j][i] = line(j)[x]
    BY <2>1, <2>2, <2>7 DEF Resized, x
  <2>9. QED
    BY <2>4, <2>5, <2>6, <2>8
<1>9. [p \in S |-> direct(p)] = [p \in S |-> source(p)]
  <2> HIDE DEF direct, source
  <2>1. QED
    BY <1>7
<1>10. (l.format = "Rgb8" /\ plane.pixel_stride = 3) => [p \in S |-> resized[p[2]][p[1]]] = [p \in S |-> source(p)]
  <2> HIDE DEF direct, source, resized, plane
  <2>1. QED
    BY <1>7, <1>8
<1>11. QED
  BY <1>2, <1>5, <1>9, <1>10 DEF map

\* The pixel-by-pixel way of the formats with chroma.
LEMMA ScalarPath ==
  ASSUME NEW l, NEW length, NEW r, Convertible(l, length, r), l.format \in F!Yuv
  PROVE  F!ScaleScalar(l, r, MapOf(l, r)) = Nearest(l, r)
<1> DEFINE map == MapOf(l, r)
           S == Pixels(r.width, r.height)
           pixel(p) == F!ScalarTriple(l, map.x[p[1]], map.y[p[2]])
           source(p) == SourcePixel(l, MapX(l, r, p[1]), MapY(l, r, p[2]))
<1>1. r.width \in Nat /\ r.height \in Nat
  BY DEF Convertible
<1>2. F!ScaleScalar(l, r, map) = [p \in S |-> pixel(p)]
  BY DEF F!ScaleScalar, F!Image, Pixels
<1>3. Nearest(l, r) = [p \in S |-> source(p)]
  BY DEF Nearest
<1>4. ASSUME NEW p \in S PROVE pixel(p) = source(p)
  <2>1. p[1] \in 0..(r.width - 1) /\ p[2] \in 0..(r.height - 1)
    BY <1>1, PixelOf
  <2>2. map.x[p[1]] = MapX(l, r, p[1]) /\ map.y[p[2]] = MapY(l, r, p[2])
    BY <2>1, MapIs
  <2>3. QED
    BY <2>2 DEF SourcePixel
<1> HIDE DEF pixel, source, S
<1>5. [p \in S |-> pixel(p)] = [p \in S |-> source(p)]
  BY <1>4
<1>6. QED
  BY <1>2, <1>3, <1>5 DEF map

\* What a conversion does: the way it takes, and that every way leads to the
\* nearest pixels.
LEMMA WaysAgree ==
  ASSUME NEW l, NEW length, NEW r, Convertible(l, length, r)
  PROVE  /\ F!Convert(l, length, r, TRUE).image = Nearest(l, r)
         /\ F!Convert(l, length, r, TRUE).path
              = IF F!DirectHalf(l, r) THEN "half"
                ELSE IF F!SameSize(l, r) /\ F!HasFullSize(l) THEN "full-size"
                ELSE IF l.format \in F!Yuv /\ F!SupportsRows(l) /\ 4 * r.width >= l.width THEN "rows"
                ELSE "mapped"
<1> DEFINE done == F!Convert(l, length, r, TRUE)
           map == MapOf(l, r)
<1>1. F!ValidLayout(l, length) /\ l.format \notin F!Encoded
  BY DEF Convertible
<1>2. F!OutputLength(r) # 0
  <2>1. /\ r.width \in Nat /\ r.width >= 1 /\ r.height \in Nat /\ r.height >= 1
    BY DEF Convertible
  <2>2. 1 * 1 <= r.width * r.height /\ r.width * r.height \in Nat
    BY <2>1, ProductGrows
  <2>3. F!OutputLength(r) = 3 * (r.width * r.height)
    BY <2>1 DEF F!OutputLength
  <2>4. QED
    BY <2>2, <2>3
<1> DEFINE half == F!DirectHalf(l, r)
           full == F!SameSize(l, r) /\ F!HasFullSize(l)
           rows == l.format \in F!Yuv /\ F!SupportsRows(l) /\ 4 * r.width >= l.width
<1>3. /\ half => done = [path |-> "half", image |-> F!ConvertHalf(l)]
      /\ ~half /\ full => done = [path |-> "full-size", image |-> F!ConvertFullSize(l)]
      /\ ~half /\ ~full /\ rows => done = [path |-> "rows", image |-> F!ScaleRows(l, r, map)]
      /\ ~half /\ ~full /\ ~rows /\ l.format \in F!Yuv => done = [path |-> "mapped", image |-> F!ScaleScalar(l, r, map)]
      /\ ~half /\ ~full /\ ~rows /\ l.format \notin F!Yuv => done = [path |-> "mapped", image |-> F!ScaleNearest(l, r, map)]
  <2>1. half => done = [path |-> "half", image |-> F!ConvertHalf(l)]
    BY <1>1, <1>2 DEF F!Convert
  <2>2. ~half /\ full => done = [path |-> "full-size", image |-> F!ConvertFullSize(l)]
    BY <1>1, <1>2 DEF F!Convert
  <2>3. ~half /\ ~full /\ rows => done = [path |-> "rows", image |-> F!ScaleRows(l, r, map)]
    BY <1>1, <1>2 DEF F!Convert, MapOf
  <2>4. ~half /\ ~full /\ ~rows /\ l.format \in F!Yuv => done = [path |-> "mapped", image |-> F!ScaleScalar(l, r, map)]
    BY <1>1, <1>2 DEF F!Convert, MapOf
  <2>5. ~half /\ ~full /\ ~rows /\ l.format \notin F!Yuv => done = [path |-> "mapped", image |-> F!ScaleNearest(l, r, map)]
    BY <1>1, <1>2 DEF F!Convert, MapOf
  <2>6. QED
    BY <2>1, <2>2, <2>3, <2>4, <2>5
<1> HIDE DEF done, map
<1>4. F!DirectHalf(l, r) => F!ConvertHalf(l) = Nearest(l, r)
  BY HalfPath
<1>5. F!SameSize(l, r) /\ F!HasFullSize(l) => F!ConvertFullSize(l) = Nearest(l, r)
  BY FullPath
<1>6. l.format \in F!Yuv /\ F!SupportsRows(l) => F!ScaleRows(l, r, map) = Nearest(l, r)
  BY RowsPath DEF map
<1>7. l.format \in F!Yuv => F!ScaleScalar(l, r, map) = Nearest(l, r)
  BY ScalarPath DEF map
<1>8. l.format \notin F!Yuv => F!ScaleNearest(l, r, map) = Nearest(l, r)
  BY RgbRowsPath DEF map
<1>9. /\ full => F!SameSize(l, r) /\ F!HasFullSize(l)
      /\ rows => l.format \in F!Yuv /\ F!SupportsRows(l)
      /\ half => F!DirectHalf(l, r)
  OBVIOUS
<1>10. done.image = Nearest(l, r) /\ done.path = IF half THEN "half" ELSE IF full THEN "full-size" ELSE IF rows THEN "rows" ELSE "mapped"
  <2> HIDE DEF half, full, rows
  <2>1. CASE half
    BY <1>3, <1>4, <1>9, <2>1
  <2>2. CASE ~half /\ full
    BY <1>3, <1>5, <1>9, <2>2
  <2>3. CASE ~half /\ ~full /\ rows
    BY <1>3, <1>6, <1>9, <2>3
  <2>4. CASE ~half /\ ~full /\ ~rows
    BY <1>3, <1>7, <1>8, <2>4
  <2>5. QED
    BY <2>1, <2>2, <2>3, <2>4
<1>11. QED
  BY <1>10 DEF done

\* What the diagnostics say of a request.
LEMMA LabelIs ==
  ASSUME NEW l, NEW r, l.format \notin F!Encoded
  PROVE  F!SelectedPath(l, r)[1]
           = IF F!DirectHalf(l, r) THEN "half"
             ELSE IF F!SameSize(l, r) THEN "full-size"
             ELSE IF /\ l.format = "Rgb8" /\ l.planes[1].pixel_stride = 3
                     /\ F!ExactRatio(l, r, 2, 3) \/ F!ExactRatio(l, r, 3, 4) THEN "rgb-rows"
             ELSE IF l.format \in F!Yuv /\ F!SupportsRows(l) /\ 4 * r.width >= l.width THEN "rows"
             ELSE "mapped"
BY DEF F!SelectedPath

\* Every format has one to three planes of at least a pixel.
LEMMA FrameSpecs ==
  ASSUME NEW f \in F!PixelFormats \ F!Encoded, NEW w \in Nat, w > 0, NEW h \in Nat, h > 0
  PROVE  \E n \in 1..3 :
            /\ Len(F!PlaneSpecs(f, w, h)) = n /\ DOMAIN F!PlaneSpecs(f, w, h) = 1..n
            /\ \A i \in 1..n, k \in 1..3 : F!PlaneSpecs(f, w, h)[i][k] \in Nat /\ F!PlaneSpecs(f, w, h)[i][k] > 0
<1> DEFINE specs == F!PlaneSpecs(f, w, h)
           cw == F!CeilHalf(w)
           ch == F!CeilHalf(h)
<1>1. cw \in Nat /\ cw > 0 /\ ch \in Nat /\ ch > 0
  BY HalfUp
<1>2. CASE f \in F!SemiPlanar
  <2>1. specs = <<<<w, h, 1>>, <<cw, ch, 2>>>>
    BY <1>2 DEF F!PlaneSpecs, F!Encoded, F!SemiPlanar, F!PackedYuv, F!Rgb24, F!Rgb32
  <2> HIDE DEF specs, cw, ch
  <2>2. Len(specs) = 2 /\ DOMAIN specs = 1..2 /\ specs[1] = <<w, h, 1>> /\ specs[2] = <<cw, ch, 2>>
    BY <2>1
  <2>3. \A i \in 1..2, k \in 1..3 : specs[i][k] \in Nat /\ specs[i][k] > 0
    BY <1>1, <2>2
  <2>4. QED
    BY <2>2, <2>3 DEF specs
<1>3. CASE f = "Yuv420p"
  <2>1. specs = <<<<w, h, 1>>, <<cw, ch, 1>>, <<cw, ch, 1>>>>
    BY <1>3 DEF F!PlaneSpecs, F!Encoded, F!SemiPlanar, F!PackedYuv, F!Rgb24, F!Rgb32
  <2> HIDE DEF specs, cw, ch
  <2>2. /\ Len(specs) = 3 /\ DOMAIN specs = 1..3
        /\ specs[1] = <<w, h, 1>> /\ specs[2] = <<cw, ch, 1>> /\ specs[3] = <<cw, ch, 1>>
    BY <2>1
  <2>3. \A i \in 1..3, k \in 1..3 : specs[i][k] \in Nat /\ specs[i][k] > 0
    BY <1>1, <2>2
  <2>4. QED
    BY <2>2, <2>3 DEF specs
<1>4. CASE f \notin F!SemiPlanar /\ f # "Yuv420p"
  <2>1. PICK b \in 1..4 : specs = <<<<w, h, b>>>>
    BY <1>4 DEF F!PlaneSpecs, F!Encoded, F!SemiPlanar, F!PackedYuv, F!Rgb24, F!Rgb32
  <2> HIDE DEF specs
  <2>2. Len(specs) = 1 /\ DOMAIN specs = 1..1 /\ specs[1] = <<w, h, b>>
    BY <2>1
  <2>3. \A i \in 1..1, k \in 1..3 : specs[i][k] \in Nat /\ specs[i][k] > 0
    BY <2>2
  <2>4. QED
    BY <2>2, <2>3 DEF specs
<1>5. QED
  BY <1>2, <1>3, <1>4

\* A frame of the run that passes validate can be converted.
LEMMA FrameConverts ==
  ASSUME NEW f \in F!PixelFormats \ F!Encoded, NEW w \in Nat, w > 0, NEW h \in Nat, h > 0,
         NEW up \in BOOLEAN, NEW shape, NEW r, r.width \in Nat, r.width > 0, r.height \in Nat, r.height > 0,
         F!ValidLayout(LayoutOf(f, w, h, up, shape).layout, LayoutOf(f, w, h, up, shape).length)
  PROVE  Convertible(LayoutOf(f, w, h, up, shape).layout, LayoutOf(f, w, h, up, shape).length, r)
<1> DEFINE specs == F!PlaneSpecs(f, w, h)
           frame == LayoutOf(f, w, h, up, shape)
           pixel(i) == specs[i][3] + (IF shape = "wide" THEN 1 ELSE 0)
           row(i) == (specs[i][1] - 1) * pixel(i) + specs[i][3] + (IF shape \in {"padded", "cut"} THEN 3 ELSE 0)
           bytes(i) == (specs[i][2] - 1) * row(i) + (specs[i][1] - 1) * pixel(i) + specs[i][3]
                       - (IF shape = "cut" THEN 1 ELSE 0)
           start(i) == 1 + (IF i > 1 THEN bytes(1) ELSE 0) + (IF i > 2 THEN bytes(2) ELSE 0)
           plane(i) == [offset |-> start(i), length |-> bytes(i), row_stride |-> row(i), pixel_stride |-> pixel(i)]
<1>1. PICK n \in 1..3 :
         /\ Len(specs) = n /\ DOMAIN specs = 1..n
         /\ \A i \in 1..n, k \in 1..3 : specs[i][k] \in Nat /\ specs[i][k] > 0
  BY FrameSpecs
<1>2. frame.layout = [width |-> w, height |-> h, format |-> f, bottom_up |-> up,
                      planes |-> [i \in DOMAIN specs |-> plane(i)]]
  BY DEF LayoutOf
<1> HIDE DEF specs, frame
<1>3. ASSUME NEW i \in 1..n PROVE pixel(i) \in Nat /\ row(i) \in Nat /\ bytes(i) \in Nat
  <2>1. /\ specs[i][1] \in Nat /\ specs[i][1] > 0 /\ specs[i][2] \in Nat /\ specs[i][2] > 0
        /\ specs[i][3] \in Nat /\ specs[i][3] > 0
    BY <1>1
  <2> DEFINE a == specs[i][1] - 1
             b == specs[i][2] - 1
             c == specs[i][3]
  <2>2. a \in Nat /\ b \in Nat /\ c \in Nat /\ c > 0
    BY <2>1
  <2> HIDE DEF a, b, c
  <2>3. pixel(i) = c + (IF shape = "wide" THEN 1 ELSE 0)
    BY DEF c
  <2>4. pixel(i) \in Nat
    BY <2>2, <2>3
  <2> HIDE DEF pixel
  <2>5. a * pixel(i) \in Nat
    BY <2>2, <2>4
  <2>6. row(i) = a * pixel(i) + c + (IF shape \in {"padded", "cut"} THEN 3 ELSE 0)
    BY DEF a, c
  <2>7. row(i) \in Nat
    BY <2>2, <2>5, <2>6
  <2> HIDE DEF row
  <2>8. b * row(i) \in Nat
    BY <2>2, <2>7
  <2>9. bytes(i) = b * row(i) + a * pixel(i) + c - (IF shape = "cut" THEN 1 ELSE 0)
    BY DEF a, b, c
  <2>10. bytes(i) \in Nat
    BY <2>2, <2>5, <2>8, <2>9
  <2>11. QED
    BY <2>4, <2>7, <2>10
<1> HIDE DEF pixel, row, bytes
<1>4. ASSUME NEW i \in 1..n PROVE plane(i) \in FramePlane
  <2>1. start(i) \in Nat
    <3>1. i > 1 => 1 \in 1..n
      BY <1>1
    <3>2. i > 2 => 2 \in 1..n
      BY <1>1
    <3>3. /\ i > 1 => bytes(1) \in Nat
          /\ i > 2 => bytes(2) \in Nat
      BY <1>3, <3>1, <3>2
    <3>4. QED
      BY <3>3
  <2> HIDE DEF start
  <2>2. QED
    BY <1>3, <2>1 DEF FramePlane
<1> HIDE DEF plane
<1>5. [i \in 1..n |-> plane(i)] \in Seq(FramePlane)
  BY <1>4, SeqDef
<1>6. frame.layout.planes \in Seq(FramePlane)
  BY <1>1, <1>2, <1>5
<1>7. frame.layout.width = w /\ frame.layout.height = h /\ frame.layout.format = f /\ frame.layout.bottom_up = up
  BY <1>2
<1>8. QED
  BY <1>6, <1>7 DEF Convertible, frame

-----------------------------------------------------------------------------
(* The runs' inputs.                                                        *)

\* The name of an input says what it is.
LEMMA Kinds ==
  ASSUME Init
  PROVE  /\ input.of = "rows" => input \in Rows
         /\ input.of = "colours" => input \in Colours
         /\ input.of = "frame" => input \in Frames
         /\ input.of = "jpeg" => input \in Jpegs
         /\ input.of = "chroma" => input \in Chromas
         /\ input.of = "v4l2" => input \in V4l2Frames
         /\ input.of = "mjpeg" => input \in Mjpegs
         /\ input.of = "rate" => input \in Streams
<1>1. /\ input \in Rows => input.of = "rows"
      /\ input \in Colours => input.of = "colours"
      /\ input \in Negotiations => input.of = "negotiation"
      /\ input \in Builds => input.of = "build"
      /\ input \in Stored => input.of = "stored"
      /\ input \in Selections => input.of = "selection"
      /\ input \in Fallbacks => input.of = "fallback"
  BY DEF Rows, Colours, Negotiations, Builds, Stored, Selections, Fallbacks
<1>2. /\ input \in Frames => input.of = "frame"
      /\ input \in Jpegs => input.of = "jpeg"
      /\ input \in Chromas => input.of = "chroma"
      /\ input \in V4l2Frames => input.of = "v4l2"
      /\ input \in Mjpegs => input.of = "mjpeg"
      /\ input \in Streams => input.of = "rate"
  BY DEF Frames, Jpegs, Chromas, V4l2Frames, Mjpegs, Streams
<1>3. input \in Identities => input.of = "identity"
  BY DEF Identities
<1>4. input \in Cameras => input.of = "controls"
  BY DEF Cameras
<1>5. QED
  BY <1>1, <1>2, <1>3, <1>4 DEF Init

-----------------------------------------------------------------------------
(* Theorems.                                                                *)

\* A frame does not change its colours with the CPU, its width or the row it is
\* converted in, for all 2^24 pixels of every colour space.
THEOREM ColoursExact == \A y, u, v \in 0..255 : M!MachinesAgree(y, u, v) /\ M!GreyAxis(y)
BY EveryColour DEF Byte

\* So it is for the pixels of the run.
THEOREM ColoursHold == Spec => []ColoursAgree
<1>1. Init => ColoursAgree
  BY Kinds, EveryColour DEF Colours, Bytes, Byte, ColoursAgree
<1>2. ColoursAgree /\ [Next]_input => ColoursAgree'
  BY DEF Next, ColoursAgree
<1>3. QED
  BY <1>1, <1>2, PTL DEF Spec

\* A row of any width, and a frame of any height, is converted whole: with every
\* instruction set the vector groups, the scalar tail and the pairing of rows
\* give each pixel once, from its own bytes, and read nothing past the planes.
THEOREM KernelsSound ==
  \A w, h \in Nat : K!RowsExact(w, h) /\ K!HalfRowsExact(w) /\ K!PackedExact(w)
BY FullSize, HalfSize, PackedSize

\* So it is for the rows of the run.
THEOREM KernelsHold == Spec => []KernelsExact
<1>1. Init => KernelsExact
  <2> SUFFICES ASSUME Init, input.of = "rows" PROVE KernelsExact
    BY DEF KernelsExact
  <2>1. input.width \in Nat /\ input.channels \in Nat
    BY Kinds DEF Rows
  <2>2. QED
    BY <2>1, KernelsSound DEF KernelsExact
<1>2. KernelsExact /\ [Next]_input => KernelsExact'
  BY DEF Next, KernelsExact
<1>3. QED
  BY <1>1, <1>2, PTL DEF Spec

\* Of native frames: the JPEG decoder keeps the detail asked for at every size,
\* chroma views that overlap become the plane they are, V4L2 frames are read
\* inside their planes whatever their strides, and what is decoded of an MJPEG
\* frame ends with its last end marker, whatever the bytes.
THEOREM FramesSound ==
  /\ \A w, h, tw, th \in Nat : F!JpegKeepsDetail(w, h, tw, th)
  /\ \A w, h \in Nat, u, v \in [start : Nat, length : Nat, row_stride : Nat, pixel_stride : Nat] :
        F!InterleavedExactly(w, h, u, v)
  /\ \A w, h \in Nat, planes \in Seq([at : Nat, n : Nat, row_stride : Nat]), format \in F!V4l2Formats :
        F!V4l2Exactly(format, planes, w, h)
  /\ \A S : \A data \in Seq(S) : F!MjpegTrimmed(data)
BY JpegKeeps, InterleavedFound, V4l2Inside, MjpegEnds DEF ChromaView, V4l2Plane, Mapped

\* So it is for the frames of the run.
THEOREM FramesHold == Spec => []FramesExact
<1>1. Init => FramesExact
  <2> SUFFICES ASSUME Init PROVE FramesExact
    OBVIOUS
  <2>1. ASSUME input.of = "jpeg"
        PROVE  F!JpegKeepsDetail(input.width, input.height, input.to_width, input.to_height)
    <3>1. input \in Jpegs
      BY <2>1, Kinds
    <3>2. /\ input.width \in Nat /\ input.height \in Nat
          /\ input.to_width \in Nat /\ input.to_height \in Nat
      BY <3>1 DEF Jpegs
    <3>3. QED
      BY <3>2, JpegKeeps
  <2>2. ASSUME input.of = "chroma"
        PROVE  F!InterleavedExactly(input.width, input.height, input.u, input.v)
    BY <2>2, Kinds, InterleavedFound DEF Chromas, ChromaViews, ChromaView
  <2>3. ASSUME input.of = "v4l2"
        PROVE  F!V4l2Exactly(input.format, input.planes, input.width, input.height)
    <3>1. /\ input.width \in Nat /\ input.height \in Nat
          /\ input.planes \in {<<a>> : a \in V4l2Planes(0)} \cup V4l2Planes(0) \X V4l2Planes(40)
      BY <2>3, Kinds DEF V4l2Frames
    <3>2. V4l2Planes(0) \subseteq V4l2Plane /\ V4l2Planes(40) \subseteq V4l2Plane
      BY DEF V4l2Planes, V4l2Plane
    <3>3. Mapped(input.planes)
      <4>1. CASE \E a \in V4l2Planes(0) : input.planes = <<a>>
        BY <3>2, <4>1 DEF Mapped
      <4>2. CASE input.planes \in V4l2Planes(0) \X V4l2Planes(40)
        <5>1. PICK a \in V4l2Planes(0), b \in V4l2Planes(40) : input.planes = <<a, b>>
          BY <4>2
        <5>2. QED
          BY <3>2, <5>1 DEF Mapped
      <4>3. QED
        BY <3>1, <4>1, <4>2
    <3>4. QED
      BY <3>1, <3>3, V4l2Inside
  <2>4. ASSUME input.of = "mjpeg"
        PROVE  F!MjpegTrimmed(input.data)
    <3>1. PICK n \in 0..6 : input.data \in [1..n -> {"ff", "d8", "d9", "00"}]
      BY <2>4, Kinds DEF Mjpegs
    <3>2. input.data \in Seq({"ff", "d8", "d9", "00"})
      BY <3>1
    <3>3. QED
      BY <3>2, MjpegEnds
  <2>5. QED
    BY <2>1, <2>2, <2>3, <2>4 DEF FramesExact
<1>2. FramesExact /\ [Next]_input => FramesExact'
  BY DEF Next, FramesExact
<1>3. QED
  BY <1>1, <1>2, PTL DEF Spec

\* Whatever the frames' time stamps are, and the interval and the clock's end: no
\* gap, reset or saturated clock starves a stream, a stream of the nominal rate is
\* passed whole, and on a steady clock the rate is held from both sides.
THEOREM RateSound ==
  \A cap, interval \in Nat : \A times \in Seq(0..cap) :
     /\ R!NeverStarved(times, interval, cap) /\ R!NominalKept(times, interval, cap)
     /\ Len(times) > 0 => R!RateHeld(times, interval, cap)
BY NoneStarved, NominalTaken, RateOfAll

\* So it is for the streams of the run.
THEOREM RateHolds == Spec => []RateKept
<1>1. Init => RateKept
  <2> SUFFICES ASSUME Init, input.of = "rate" PROVE RateKept
    BY DEF RateKept
  <2>1. input \in Streams
    BY Kinds
  <2>2. input.max \in Nat /\ input.times \in Seq(0..input.max)
    BY <2>1 DEF Streams
  <2>3. Len(input.times) > 0
    <3> DEFINE Steps == {-30, 0, 1, 10, 19, 20, 21, 45}
               Uneven == {Stamps(start, d) : start \in {20, 21}, d \in [1..4 -> Steps]}
               Even == {Stamps(start, [k \in 1..8 |-> d]) : start \in {1, 20}, d \in 1..22}
    <3>1. input.times \in Uneven \cup Even
      BY <2>1 DEF Streams
    <3>2. \A d \in [1..4 -> Steps] : Len(d) = 4
      BY SeqDef, LenProperties
    <3>3. \A d \in 1..22 : Len([k \in 1..8 |-> d]) = 8
      <4> TAKE d \in 1..22
      <4>1. [k \in 1..8 |-> d] \in Seq(1..22)
        BY SeqDef
      <4>2. QED
        BY <4>1, LenProperties
    <3>4. \E start, d : input.times = Stamps(start, d) /\ Len(d) \in Nat
      <4>1. CASE input.times \in Uneven
        BY <3>2, <4>1
      <4>2. CASE input.times \in Even
        BY <3>3, <4>2
      <4>3. QED
        BY <3>1, <4>1, <4>2
    <3>5. PICK start, d : input.times = Stamps(start, d) /\ Len(d) \in Nat
      BY <3>4
    <3>6. DOMAIN input.times = 1..(Len(d) + 1)
      BY <3>5 DEF Stamps
    <3>7. QED
      BY <2>2, <3>5, <3>6, LenProperties
  <2>4. QED
    BY <2>2, <2>3, RateSound DEF RateKept
<1>2. RateKept /\ [Next]_input => RateKept'
  BY DEF Next, RateKept
<1>3. QED
  BY <1>1, <1>2, PTL DEF Spec

\* Every conversion of a frame that passed validate, whatever its format, size
\* and strides and whatever size is asked for: the nearest pixels, from bytes
\* of its planes.  The diagnostics name the way taken but for the requests that
\* F!Drifts lists, and for each of these another one.
THEOREM ConversionSound ==
  \A l, length, r : Convertible(l, length, r) => F!ConvertsExactly(l, length, r)
<1> SUFFICES ASSUME NEW l, NEW length, NEW r, Convertible(l, length, r)
             PROVE  F!ConvertsExactly(l, length, r)
  OBVIOUS
<1> DEFINE done == F!Convert(l, length, r, TRUE)
           label == F!SelectedPath(l, r)[1]
           half == F!DirectHalf(l, r)
           rows == l.format \in F!Yuv /\ F!SupportsRows(l) /\ 4 * r.width >= l.width
           packed == /\ l.format = "Rgb8" /\ l.planes[1].pixel_stride = 3
                     /\ F!ExactRatio(l, r, 2, 3) \/ F!ExactRatio(l, r, 3, 4)
<1>1. done.image = Nearest(l, r)
  BY WaysAgree
<1>2. done.path = IF half THEN "half"
                  ELSE IF F!SameSize(l, r) /\ F!HasFullSize(l) THEN "full-size"
                  ELSE IF rows THEN "rows" ELSE "mapped"
  BY WaysAgree
<1>3. label = IF half THEN "half" ELSE IF F!SameSize(l, r) THEN "full-size"
              ELSE IF packed THEN "rgb-rows" ELSE IF rows THEN "rows" ELSE "mapped"
  <2>1. l.format \notin F!Encoded
    BY DEF Convertible
  <2>2. QED
    BY <2>1, LabelIs
<1>4. rows => F!HasFullSize(l)
  BY DEF F!HasFullSize
<1>5. packed => ~rows
  BY DEF F!Yuv, F!PackedYuv, F!SemiPlanar
<1>6. done.image = F!Reference(l, r)
  BY <1>1, ReferenceIs
<1>7. \A p \in DOMAIN done.image, c \in 1..3 : Owned(l, done.image[p][c])
  BY <1>1, ReferenceIs
<1> HIDE DEF done, label, half, rows, packed
<1>8. label # done.path <=> ~half /\ IF F!SameSize(l, r) THEN ~F!HasFullSize(l) ELSE packed
  <2>1. CASE half
    BY <1>2, <1>3, <2>1
  <2>2. CASE ~half /\ F!SameSize(l, r)
    BY <1>2, <1>3, <1>4, <2>2
  <2>3. CASE ~half /\ ~F!SameSize(l, r)
    BY <1>2, <1>3, <1>5, <2>3
  <2>4. QED
    BY <2>1, <2>2, <2>3
<1>9. label # done.path <=> F!Drifts(l, r)
  BY <1>8 DEF F!Drifts, half, packed
<1>10. QED
  BY <1>6, <1>7, <1>9 DEF F!ConvertsExactly, Owned, done, label

\* So it is for the frames of the run, of every shape.
THEOREM ConvertsHold == Spec => []ConvertsExactly
<1>1. Init => ConvertsExactly
  <2> SUFFICES ASSUME Init, input.of = "frame" PROVE ConvertsExactly
    BY DEF ConvertsExactly
  <2> DEFINE l == LayoutOf(input.format, input.width, input.height, input.bottom_up, input.shape).layout
             n == LayoutOf(input.format, input.width, input.height, input.bottom_up, input.shape).length
             r == [width |-> input.to_width, height |-> input.to_height]
  <2>1. input \in Frames
    BY Kinds
  <2>2. /\ input.format \in F!PixelFormats \ F!Encoded
        /\ input.width \in Nat /\ input.width > 0 /\ input.height \in Nat /\ input.height > 0
        /\ input.bottom_up \in BOOLEAN
        /\ r.width \in Nat /\ r.width > 0 /\ r.height \in Nat /\ r.height > 0
    BY <2>1 DEF Frames
  <2>3. F!ConvertsExactly(l, n, r)
    <3> HIDE DEF r
    <3>1. CASE F!ValidLayout(l, n)
      <4>1. Convertible(l, n, r)
        BY <2>2, <3>1, FrameConverts
      <4> HIDE DEF l, n
      <4>2. QED
        BY <4>1, ConversionSound
    <3>2. CASE ~F!ValidLayout(l, n)
      <4> HIDE DEF l, n
      <4>1. QED
        BY <3>2 DEF F!ConvertsExactly
    <3>3. QED
      BY <3>1, <3>2
  <2>4. QED
    BY <2>3 DEF ConvertsExactly
<1>2. ConvertsExactly /\ [Next]_input => ConvertsExactly'
  BY DEF Next, ConvertsExactly
<1>3. QED
  BY <1>1, <1>2, PTL DEF Spec
============================================================================
