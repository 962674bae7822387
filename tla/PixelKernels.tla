---------------------------- MODULE PixelKernels ----------------------------
(***************************************************************************)
(* Which bytes make which pixel: the row kernels of the colour conversion  *)
(* (src/src/utils/color_convert.rs), one per instruction set and layout,   *)
(* with the scalar tails that finish a row and the pairing of rows.        *)
(*                                                                         *)
(* A vector register is a function from lanes to the offsets of the bytes  *)
(* it holds, so a shuffle or a zip is what it does to offsets.  A pixel is *)
(* <<x, y, u, v>>: its column and the offsets, in the row of each plane,   *)
(* of the bytes it is computed from.  What is computed from the bytes is   *)
(* the subject of ColorMath.                                               *)
(***************************************************************************)
EXTENDS Naturals, Sequences, FiniteSetsExt

Lanes == 0..7

\* The eight pixels a conversion of eight lanes stores from column `at` on.
Eight(at, y, u, v) == {<<at + i, y[i], u[i], v[i]>> : i \in Lanes}

\* As many whole groups as every buffer has room for.
Groups(lengths) == Min({l[1] \div l[2] : l \in lengths})

\* What a kernel does with n groups, and the column where it stops.
Kernel(n, step, pixels(_)) ==
    [pixels |-> UNION {pixels(g) : g \in 0..(n - 1)}, stop |-> n * step]

NoKernel == [pixels |-> {}, stop |-> 0]

-----------------------------------------------------------------------------
(* The layouts: lengths of a row of w pixels and the offsets of a pixel.    *)

Packed == {"yuyv", "uyvy"}

Semi == {"nv12", "nv21"}

\* Bytes of the luma (or packed) row and of a chroma row.
LumaLength(layout, w) == IF layout \in Packed THEN 2 * w ELSE w

ChromaLength(layout, w) ==
    CASE layout \in Packed -> 2 * w
      [] layout \in Semi -> 2 * ((w + 1) \div 2)
      [] OTHER -> (w + 1) \div 2

\* The reference: pixel x shares its chroma with its neighbour x + 1 or x - 1.
Sample(layout, x) ==
    CASE layout = "yuyv" -> <<x, 2 * x, 4 * (x \div 2) + 1, 4 * (x \div 2) + 3>>
      [] layout = "uyvy" -> <<x, 2 * x + 1, 4 * (x \div 2), 4 * (x \div 2) + 2>>
      [] layout = "nv12" -> <<x, x, 2 * (x \div 2), 2 * (x \div 2) + 1>>
      [] layout = "nv21" -> <<x, x, 2 * (x \div 2) + 1, 2 * (x \div 2)>>
      [] layout = "planar" -> <<x, x, x \div 2, x \div 2>>

\* Half size: column x takes the even pixel 2x, whose chroma is its own.
HalfSample(layout, x) == [Sample(layout, 2 * x) EXCEPT ![1] = x]

-----------------------------------------------------------------------------
(* NEON.                                                                    *)

\* vldN_u8: channel c of eight interleaved elements of n bytes.
Vld(n, base, c) == [i \in Lanes |-> base + n * i + c]

Zip1(a, b) == [i \in Lanes |-> IF i % 2 = 0 THEN a[i \div 2] ELSE b[i \div 2]]

Zip2(a, b) == [i \in Lanes |-> IF i % 2 = 0 THEN a[4 + i \div 2] ELSE b[4 + i \div 2]]

NeonPackedGroup(layout, g) ==
    LET p(c) == Vld(4, 32 * g, c)
        y0 == IF layout = "uyvy" THEN p(1) ELSE p(0)
        u == IF layout = "uyvy" THEN p(0) ELSE p(1)
        y1 == IF layout = "uyvy" THEN p(3) ELSE p(2)
        v == IF layout = "uyvy" THEN p(2) ELSE p(3)
    IN  Eight(16 * g, Zip1(y0, y1), Zip1(u, u), Zip1(v, v))
        \cup Eight(16 * g + 8, Zip2(y0, y1), Zip2(u, u), Zip2(v, v))

NeonPacked(layout, w) ==
    Kernel(Groups({<<2 * w, 32>>, <<3 * w, 48>>}), 16, LAMBDA g : NeonPackedGroup(layout, g))

NeonPackedHalf(layout, w) ==
    Kernel(Groups({<<2 * w, 32>>, <<3 * (w \div 2), 24>>}), 8, LAMBDA g :
        LET p(c) == Vld(4, 32 * g, c)
        IN  IF layout = "uyvy" THEN Eight(8 * g, p(1), p(0), p(2)) ELSE Eight(8 * g, p(0), p(1), p(3)))

\* Four chroma samples a group, gathered with any pixel stride (counted here
\* in samples); lanes 4 to 7 of the created vectors are zero and not used.
NeonPlanarStrided(w) ==
    Kernel(Groups({<<w, 8>>, <<3 * w, 24>>}), 8, LAMBDA g :
        LET c == [i \in Lanes |-> IF i < 4 THEN 4 * g + i ELSE 0]
        IN  Eight(8 * g, Vld(1, 8 * g, 0), Zip1(c, c), Zip1(c, c)))

\* Two stores of eight pixels share the eight chroma samples of a group.
NeonPlanar(w) ==
    Kernel(Groups({<<w, 16>>, <<(w + 1) \div 2, 8>>, <<3 * w, 48>>}), 16, LAMBDA g :
        LET c == Vld(1, 8 * g, 0)
        IN  Eight(16 * g, Vld(1, 16 * g, 0), Zip1(c, c), Zip1(c, c))
            \cup Eight(16 * g + 8, Vld(1, 16 * g + 8, 0), Zip2(c, c), Zip2(c, c)))

NeonSemi(layout, w) ==
    Kernel(Groups({<<w, 16>>, <<ChromaLength(layout, w), 16>>, <<3 * w, 48>>}), 16, LAMBDA g :
        LET u == Vld(2, 16 * g, IF layout = "nv21" THEN 1 ELSE 0)
            v == Vld(2, 16 * g, IF layout = "nv21" THEN 0 ELSE 1)
        IN  Eight(16 * g, Vld(1, 16 * g, 0), Zip1(u, u), Zip1(v, v))
            \cup Eight(16 * g + 8, Vld(1, 16 * g + 8, 0), Zip2(u, u), Zip2(v, v)))

NeonSemiHalf(layout, w) ==
    Kernel(Groups({<<w, 16>>, <<w, 16>>, <<3 * (w \div 2), 24>>}), 8, LAMBDA g :
        Eight(8 * g, Vld(2, 16 * g, 0),
              Vld(2, 16 * g, IF layout = "nv21" THEN 1 ELSE 0),
              Vld(2, 16 * g, IF layout = "nv21" THEN 0 ELSE 1)))

NeonPlanarHalf(w) ==
    Kernel(Groups({<<w, 16>>, <<w \div 2, 8>>, <<3 * (w \div 2), 24>>}), 8, LAMBDA g :
        Eight(8 * g, Vld(2, 16 * g, 0), Vld(1, 8 * g, 0), Vld(1, 8 * g, 0)))

-----------------------------------------------------------------------------
(* x86.  A mask gives, per lane, the byte of a 128-bit half to take.        *)

\* combine_shuffled_halves: eight lanes of each half of 32 loaded bytes;
\* the upper eight lanes reach the second conversion by a shift of eight.
Halves(base, mask(_), second) ==
    [i \in Lanes |-> base + (IF second THEN 16 ELSE 0) + mask(i)]

\* combine_shuffled_quarters: four lanes of each half.
Quarters(base, mask(_)) ==
    [i \in Lanes |-> base + (IF i < 4 THEN mask(i) ELSE 16 + mask(i - 4))]

AvxPackedMasks(layout) ==
    [y |-> [i \in Lanes |-> 2 * i + (IF layout = "uyvy" THEN 1 ELSE 0)],
     u |-> [i \in Lanes |-> 4 * (i \div 2) + (IF layout = "uyvy" THEN 0 ELSE 1)],
     v |-> [i \in Lanes |-> 4 * (i \div 2) + (IF layout = "uyvy" THEN 2 ELSE 3)]]

\* Groups of eight pairs, then the remaining pairs one by one: the whole row.
AvxPacked(layout, w) ==
    LET pairs == Groups({<<2 * w, 4>>, <<3 * w, 6>>})
        m == AvxPackedMasks(layout)
        group(g) == UNION {Eight(16 * g + (IF second THEN 8 ELSE 0),
                                 Halves(32 * g, LAMBDA i : m.y[i], second),
                                 Halves(32 * g, LAMBDA i : m.u[i], second),
                                 Halves(32 * g, LAMBDA i : m.v[i], second)) : second \in BOOLEAN}
    IN  [pixels |-> (UNION {group(g) : g \in 0..(pairs \div 8 - 1)})
                    \cup {Sample(layout, x) : x \in (16 * (pairs \div 8))..(2 * pairs - 1)},
         stop |-> w]

AvxPackedHalf(layout, w) ==
    Kernel(Groups({<<2 * w, 32>>, <<3 * (w \div 2), 24>>}), 8, LAMBDA g :
        LET at(c) == Quarters(32 * g, LAMBDA i : 4 * i + c)
        IN  IF layout = "uyvy" THEN Eight(8 * g, at(1), at(0), at(2)) ELSE Eight(8 * g, at(0), at(1), at(3)))

\* _mm_unpacklo_epi8(c, c) of the eight chroma bytes of a group.
AvxPlanar(w) ==
    Kernel(Groups({<<w, 16>>, <<(w + 1) \div 2, 8>>, <<3 * w, 48>>}), 16, LAMBDA g :
        LET chroma(from) == [i \in Lanes |-> 8 * g + (from + i) \div 2]
        IN  UNION {Eight(16 * g + from, Vld(1, 16 * g + from, 0), chroma(from), chroma(from)) : from \in {0, 8}})

AvxPlanarHalf(w) ==
    Kernel(Groups({<<w, 16>>, <<w \div 2, 8>>, <<3 * (w \div 2), 24>>}), 8, LAMBDA g :
        Eight(8 * g, Vld(2, 16 * g, 0), Vld(1, 8 * g, 0), Vld(1, 8 * g, 0)))

AvxSemi(layout, w) ==
    Kernel(Groups({<<w, 16>>, <<ChromaLength(layout, w), 16>>, <<3 * w, 48>>}), 16, LAMBDA g :
        LET chroma(from, c) == [i \in Lanes |-> 16 * g + 2 * ((from + i) \div 2) + c]
            u == IF layout = "nv21" THEN 1 ELSE 0
        IN  UNION {Eight(16 * g + from, Vld(1, 16 * g + from, 0), chroma(from, u), chroma(from, 1 - u))
                   : from \in {0, 8}})

\* Broken: groups are counted by the luma row alone, with half its length.
AvxSemiHalfFrom16(layout, w) ==
    Kernel(Groups({<<w, 16>>, <<3 * (w \div 2), 24>>}), 16, LAMBDA g :
        LET at(second, c) == Halves(32 * g, LAMBDA i : 2 * i + c, second)
            u == IF layout = "nv21" THEN 1 ELSE 0
        IN  UNION {Eight(16 * g + (IF second THEN 8 ELSE 0), at(second, 0), at(second, u), at(second, 1 - u))
                   : second \in BOOLEAN})

AvxSemiHalf(layout, w) ==
    Kernel(Groups({<<w, 32>>, <<w, 32>>, <<3 * (w \div 2), 48>>}), 16, LAMBDA g :
        LET at(second, c) == Halves(32 * g, LAMBDA i : 2 * i + c, second)
            u == IF layout = "nv21" THEN 1 ELSE 0
        IN  UNION {Eight(16 * g + (IF second THEN 8 ELSE 0), at(second, 0), at(second, u), at(second, 1 - u))
                   : second \in BOOLEAN})

-----------------------------------------------------------------------------
(* Rows: the kernel the build and the machine select, and its scalar tail.  *)

Machines == {"neon", "avx2", "portable"}

\* Columns in pairs from the kernel's stop on, both with the pair's chroma.
RowTail(layout, stop, w) ==
    UNION {{[Sample(layout, x) EXCEPT ![3] = Sample(layout, c)[3], ![4] = Sample(layout, c)[4]]
            : x \in {c, c + 1} \cap 0..(w - 1)}
           : c \in {stop + 2 * k : k \in 0..w} \cap 0..(w - 1)}

Row(kernel, layout, w) == kernel.pixels \cup RowTail(layout, kernel.stop, w)

\* yuv422_to_rgb_with_coefficients_into.
PackedRow(machine, layout, w) ==
    Row(CASE machine = "neon" -> NeonPacked(layout, w)
          [] machine = "avx2" -> AvxPacked(layout, w)
          [] OTHER -> NoKernel, layout, w)

HalfRow(kernel, layout, w) ==
    kernel.pixels \cup {HalfSample(layout, x) : x \in kernel.stop..(w \div 2 - 1)}

\* yuv422_to_rgb_half_with_coefficients_into.
PackedHalfRow(machine, layout, w) ==
    HalfRow(CASE machine = "neon" -> NeonPackedHalf(layout, w)
              [] machine = "avx2" -> AvxPackedHalf(layout, w)
              [] OTHER -> NoKernel, layout, w)

\* yuv420_to_rgb_half_with_coefficients_into.
PlanarHalfRow(machine, w) ==
    HalfRow(CASE machine = "neon" -> NeonPlanarHalf(w)
              [] machine = "avx2" -> AvxPlanarHalf(w)
              [] OTHER -> NoKernel, "planar", w)

\* yuv420sp_to_rgb_half_with_coefficients_into.
SemiHalfRow(machine, layout, w) ==
    HalfRow(CASE machine = "neon" -> NeonSemiHalf(layout, w)
              [] machine = "avx2" -> AvxSemiHalf(layout, w)
              [] OTHER -> NoKernel, layout, w)

\* The packed conversions of ColorConverter, in pairs of whole pixels: batches
\* of eight pixels and a tail (simd_generic), or pair by pair (scalar).
LegacyRow(machine, layout, w) ==
    LET batches == (2 * w) \div 16
    IN  CASE machine = "neon" -> Row(NeonPacked(layout, w), layout, w)
          [] machine = "avx2" -> AvxPacked(layout, w).pixels
          [] OTHER -> {Sample(layout, x) : x \in 0..(8 * batches - 1)}
                      \cup {Sample(layout, x) : x \in (8 * batches)..(2 * (w \div 2) - 1)}

-----------------------------------------------------------------------------
(* Packed 8888: <<x, r, g, b>> with the offsets R, G and B of the order.    *)

Orders == {<<0, 1, 2>>, <<2, 1, 0>>, <<1, 2, 3>>}   \* RGBA, BGRA, ARGB

Channels(order, x) == <<x, 4 * x + order[1], 4 * x + order[2], 4 * x + order[3]>>

\* Four pixels of 16 bytes at `base`, through a shuffle or a deinterleaving load.
Four8888(order, at, base) == {<<at + p, base + 4 * p + order[1], base + 4 * p + order[2], base + 4 * p + order[3]>> : p \in 0..3}

NeonPacked8888(order, w) ==
    Kernel(Groups({<<4 * w, 64>>, <<3 * w, 48>>}), 16,
           LAMBDA g : UNION {Four8888(order, 16 * g + 4 * k, 64 * g + 16 * k) : k \in 0..3})

Ssse3Packed8888(order, w) ==
    Kernel(Groups({<<4 * w, 16>>, <<3 * w, 12>>}), 4, LAMBDA g : Four8888(order, 4 * g, 16 * g))

\* The mask works in each half of 32 bytes, whose results are stored apart.
AvxPacked8888(order, w) ==
    Kernel(Groups({<<4 * w, 32>>, <<3 * w, 24>>}), 8,
           LAMBDA g : Four8888(order, 8 * g, 32 * g) \cup Four8888(order, 8 * g + 4, 32 * g + 16))

\* Broken: the pixels after the last group are those of a whole group.
Packed8888RowUntailed(machine, order, w) ==
    NeonPacked8888(order, w).pixels

Packed8888Row(machine, order, w) ==
    LET kernel == CASE machine = "neon" -> NeonPacked8888(order, w)
                    [] machine = "avx2" -> AvxPacked8888(order, w)
                    [] machine = "ssse3" -> Ssse3Packed8888(order, w)
                    [] OTHER -> NoKernel
    IN  kernel.pixels \cup {Channels(order, x) : x \in kernel.stop..(w - 1)}

-----------------------------------------------------------------------------
(* Frames of 4:2:0: a pixel is preceded by its row and its chroma row.      *)

OnRow(row, pixels) == {<<row, row \div 2>> \o p : p \in pixels}

\* A kernel for two rows makes the chroma of a group once: every group is
\* that of the kernel for one row, for both rows, and so is the stop.
TwoRows(kernel) == [rows |-> {0, 1}, one |-> kernel]

NeonPlanarTwoRows(w) == TwoRows(NeonPlanar(w))

AvxPlanarTwoRows(w) == TwoRows(AvxPlanar(w))

NeonSemiTwoRows(layout, w) == TwoRows(NeonSemi(layout, w))

AvxSemiTwoRows(layout, w) == TwoRows(AvxSemi(layout, w))

\* Broken: a last row without a partner is left to the next pair.
PairedFrameEven(two, one, layout, w, h) ==
    UNION {OnRow(2 * k + r, Row(two.one, layout, w)) : k \in 0..(h \div 2 - 1), r \in two.rows}

\* Rows in pairs with the kernel for two, each pair with its tail; a last
\* row alone with the kernel for one.
PairedFrame(two, one, layout, w, h) ==
    (UNION {OnRow(2 * k + r, Row(two.one, layout, w)) : k \in 0..(h \div 2 - 1), r \in two.rows})
    \cup (IF h % 2 = 1 THEN OnRow(h - 1, Row(one, layout, w)) ELSE {})

\* yuv420_to_rgb_with_coefficients_into: adjacent samples on NEON and AVX2.
NeonPlanarFrame(w, h) == PairedFrame(NeonPlanarTwoRows(w), NeonPlanar(w), "planar", w, h)

AvxPlanarFrame(w, h) == PairedFrame(AvxPlanarTwoRows(w), AvxPlanar(w), "planar", w, h)

\* Row by row otherwise: only NEON has a kernel when chroma has a pixel stride.
StridedFrame(machine, w, h) ==
    UNION {OnRow(row, Row(IF machine = "neon" THEN NeonPlanarStrided(w) ELSE NoKernel, "planar", w))
           : row \in 0..(h - 1)}

\* yuv420sp_to_rgb_with_coefficients_into.
AvxSemiFrame(layout, w, h) ==
    PairedFrame(AvxSemiTwoRows(layout, w), AvxSemi(layout, w), layout, w, h)

NeonSemiFrame(layout, w, h) ==
    PairedFrame(NeonSemiTwoRows(layout, w), NeonSemi(layout, w), layout, w, h)

SemiFrame(layout, w, h) == UNION {OnRow(row, Row(NoKernel, layout, w)) : row \in 0..(h - 1)}

-----------------------------------------------------------------------------
(* Properties, on every machine.                                            *)

HalfSizeRow(machine, layout, w) ==
    CASE layout \in Packed -> PackedHalfRow(machine, layout, w)
      [] layout \in Semi -> SemiHalfRow(machine, layout, w)
      [] OTHER -> PlanarHalfRow(machine, w)

Layouts == Packed \cup Semi \cup {"planar"}

SampleRow(layout, w) == {Sample(layout, x) : x \in 0..(w - 1)}

SampleFrame(layout, w, h) == UNION {OnRow(row, SampleRow(layout, w)) : row \in 0..(h - 1)}

\* Whatever the machine, a converted row or frame is the reference's: vector
\* groups, tail and pairs of rows leave no pixel out, write none twice with
\* different bytes and none past the row, and read nothing outside the rows of
\* the planes.
RowsExact(w, h) ==
    /\ w % 2 = 0 => \A machine \in Machines, layout \in Packed :
          PackedRow(machine, layout, w) = SampleRow(layout, w)
    /\ NeonPlanarFrame(w, h) = SampleFrame("planar", w, h)
    /\ AvxPlanarFrame(w, h) = SampleFrame("planar", w, h)
    /\ \A machine \in Machines : StridedFrame(machine, w, h) = SampleFrame("planar", w, h)
    /\ \A layout \in Semi :
          /\ NeonSemiFrame(layout, w, h) = SampleFrame(layout, w, h)
          /\ AvxSemiFrame(layout, w, h) = SampleFrame(layout, w, h)
          /\ SemiFrame(layout, w, h) = SampleFrame(layout, w, h)
    /\ \A layout \in Layouts : (layout \in Packed => w % 2 = 0) =>
          \A p \in SampleRow(layout, w) :
              p[2] < LumaLength(layout, w) /\ p[3] < ChromaLength(layout, w) /\ p[4] < ChromaLength(layout, w)

\* The same for the rows of half size, which exist for even widths only.
HalfRowsExact(w) ==
    w % 2 = 0 =>
        \A machine \in Machines, layout \in Layouts :
            HalfSizeRow(machine, layout, w) = {HalfSample(layout, x) : x \in 0..(w \div 2 - 1)}

\* The conversions of ColorConverter and the packing of 8888 pixels.
PackedExact(w) ==
    /\ w % 2 = 0 => \A machine \in Machines, layout \in Packed :
          LegacyRow(machine, layout, w) = SampleRow(layout, w)
    /\ \A machine \in Machines \cup {"ssse3"}, order \in Orders :
          Packed8888Row(machine, order, w) = {Channels(order, x) : x \in 0..(w - 1)}
============================================================================
