--------------------------- MODULE FrameConversion ---------------------------
(***************************************************************************)
(* From the bytes of a captured frame to an RGB image of any size          *)
(* (src/src/conversion.rs, with FrameLayout of src/src/format.rs and the   *)
(* converter of src/src/backends/v4l2/convert.rs).                         *)
(*                                                                         *)
(* A pixel is the triple of the offsets, in the frame, of the bytes it is  *)
(* computed from; the row kernels and the arithmetic are the subjects of   *)
(* PixelKernels and ColorMath.  A size that does not fit a usize is an     *)
(* error in the code and here too long for any frame.                      *)
(***************************************************************************)
EXTENDS Naturals, Sequences, FiniteSetsExt

\* What fails gives nothing: an empty function.
Error == <<>>

CeilHalf(n) == (n + 1) \div 2

-----------------------------------------------------------------------------
(* FrameLayout.                                                             *)

PackedYuv == {"Yuyv", "Uyvy"}

SemiPlanar == {"Nv12", "Nv21"}

Yuv == PackedYuv \cup SemiPlanar \cup {"Yuv420p"}

Rgb24 == {"Rgb8", "Bgr8"}

Rgb32 == {"Bgra8", "Rgba8", "Argb8"}

Encoded == {"Mjpeg", "H264"}

PixelFormats == Yuv \cup Rgb24 \cup Rgb32 \cup Encoded \cup {"Gray8"}

\* <<columns, rows, channels>> of each plane.
PlaneSpecs(format, w, h) ==
    CASE format \in Encoded -> <<<<1, 1, 1>>>>
      [] format \in SemiPlanar -> <<<<w, h, 1>>, <<CeilHalf(w), CeilHalf(h), 2>>>>
      [] format = "Yuv420p" -> <<<<w, h, 1>>, <<CeilHalf(w), CeilHalf(h), 1>>, <<CeilHalf(w), CeilHalf(h), 1>>>>
      [] format \in Rgb24 -> <<<<w, h, 3>>>>
      [] format \in Rgb32 -> <<<<w, h, 4>>>>
      [] format \in PackedYuv -> <<<<w, h, 2>>>>
      [] OTHER -> <<<<w, h, 1>>>>

RowBytes(spec, plane) == (spec[1] - 1) * plane.pixel_stride + spec[3]

\* Broken: a plane may end before the last row does.
PlaneHoldsShort(spec, plane) ==
    /\ plane.pixel_stride >= spec[3]
    /\ plane.row_stride >= RowBytes(spec, plane)
    /\ plane.length >= (spec[2] - 1) * plane.row_stride

PlaneHolds(spec, plane) ==
    /\ plane.pixel_stride >= spec[3]
    /\ plane.row_stride >= RowBytes(spec, plane)
    /\ plane.length >= (spec[2] - 1) * plane.row_stride + RowBytes(spec, plane)

\* FrameLayout::validate for a frame of `length` bytes.
ValidLayout(layout, length) ==
    LET specs == PlaneSpecs(layout.format, layout.width, layout.height)
    IN  /\ layout.width > 0 /\ layout.height > 0
        /\ layout.format \in PackedYuv => layout.width % 2 = 0
        /\ Len(layout.planes) = Len(specs)
        /\ \A i \in DOMAIN specs :
            LET plane == layout.planes[i]
            IN  /\ plane.length > 0 /\ plane.offset + plane.length <= length
                /\ layout.format \notin Encoded => PlaneHolds(specs[i], plane)
                /\ layout.format \in PackedYuv => plane.pixel_stride = 2

\* interleaved_chroma_layout: two views of chroma samples with a byte between
\* them are one plane of pairs if the lower view holds all of it.
InterleavedChroma(w, h, u, v) ==
    LET base == IF u.start + 1 = v.start THEN u ELSE v
        other == IF u.start + 1 = v.start THEN v ELSE u
        row == 2 * CeilHalf(w)
    IN  IF /\ w > 0 /\ h > 0
           /\ u.pixel_stride = 2 /\ v.pixel_stride = 2
           /\ u.row_stride = v.row_stride
           /\ base.start + 1 = other.start
           /\ other.start + other.length <= base.start + base.length
           /\ base.row_stride >= row
           /\ base.length >= (CeilHalf(h) - 1) * base.row_stride + row
        THEN [start |-> base.start, length |-> base.length, row_stride |-> base.row_stride,
              format |-> IF base = u THEN "Nv12" ELSE "Nv21"]
        ELSE Error

-----------------------------------------------------------------------------
(* The conversions of a whole frame, with the checks each makes of what it  *)
(* is given.  A view is a plane from its offset `at` on, n bytes long.      *)

Image(w, h, pixel(_, _)) == [p \in (0..(w - 1)) \X (0..(h - 1)) |-> pixel(p[1], p[2])]

View(plane, shift) ==
    [at |-> plane.offset + shift, n |-> plane.length - shift,
     row_stride |-> plane.row_stride, pixel_stride |-> plane.pixel_stride]

At(view, x, y) == view.at + y * view.row_stride + x * view.pixel_stride

Unstrided(view) ==
    [at |-> view.at, n |-> view.n, row_stride |-> view.row_stride, pixel_stride |-> 1]

\* YuvPlane::validate.
ViewHolds(view, w, h) ==
    /\ w > 0 /\ h > 0 /\ view.pixel_stride > 0
    /\ view.row_stride >= (w - 1) * view.pixel_stride + 1
    /\ view.n >= (h - 1) * view.row_stride + (w - 1) * view.pixel_stride + 1

\* yuv420_to_rgb_with_coefficients_into.
Planar(y, u, v, w, h) ==
    IF /\ ViewHolds(y, w, h)
       /\ ViewHolds(u, CeilHalf(w), CeilHalf(h)) /\ ViewHolds(v, CeilHalf(w), CeilHalf(h))
    THEN Image(w, h, LAMBDA i, j : <<At(y, i, j), At(u, i \div 2, j \div 2), At(v, i \div 2, j \div 2)>>)
    ELSE Error

ChromaHolds(uv, row, rows) == uv.row_stride >= row /\ uv.n >= (rows - 1) * uv.row_stride + row

SemiTriple(y, uv, vu, lx, ly, cx, cy) ==
    LET c == uv.at + cy * uv.row_stride + 2 * cx
    IN  <<y.at + ly * y.row_stride + lx, IF vu THEN c + 1 ELSE c, IF vu THEN c ELSE c + 1>>

\* yuv420sp_to_rgb_with_coefficients_into.
SemiPlanarImage(y, uv, vu, w, h) ==
    IF ViewHolds(Unstrided(y), w, h) /\ ChromaHolds(uv, 2 * CeilHalf(w), CeilHalf(h))
    THEN Image(w, h, LAMBDA i, j : SemiTriple(y, uv, vu, i, j, i \div 2, j \div 2))
    ELSE Error

PackedHolds(view, w, h) ==
    w > 0 /\ h > 0 /\ w % 2 = 0 /\ ChromaHolds(view, 2 * w, h)

PackedTriple(view, uyvy, x, y) ==
    LET row == view.at + y * view.row_stride
        pair == row + 4 * (x \div 2)
    IN  IF uyvy THEN <<row + 2 * x + 1, pair, pair + 2>> ELSE <<row + 2 * x, pair + 1, pair + 3>>

\* yuv422_to_rgb_with_coefficients_into.
PackedImage(view, uyvy, w, h) ==
    IF PackedHolds(view, w, h) THEN Image(w, h, LAMBDA i, j : PackedTriple(view, uyvy, i, j)) ELSE Error

EvenSize(w, h) == w > 0 /\ h > 0 /\ w % 2 = 0 /\ h % 2 = 0

\* yuv420sp_to_rgb_half_with_coefficients_into.
SemiPlanarHalf(y, uv, vu, w, h) ==
    IF EvenSize(w, h) /\ ViewHolds(Unstrided(y), w, h) /\ ChromaHolds(uv, w, h \div 2)
    THEN Image(w \div 2, h \div 2, LAMBDA i, j : SemiTriple(y, uv, vu, 2 * i, 2 * j, i, j))
    ELSE Error

\* yuv420_to_rgb_half_with_coefficients_into.
PlanarHalf(y, u, v, w, h) ==
    IF /\ EvenSize(w, h) /\ ViewHolds(y, w, h)
       /\ ViewHolds(u, w \div 2, h \div 2) /\ ViewHolds(v, w \div 2, h \div 2)
       /\ \A p \in {y, u, v} : p.pixel_stride = 1
    THEN Image(w \div 2, h \div 2, LAMBDA i, j : <<At(y, 2 * i, 2 * j), At(u, i, j), At(v, i, j)>>)
    ELSE Error

\* yuv422_to_rgb_half_with_coefficients_into.
PackedHalf(view, uyvy, w, h) ==
    IF EvenSize(w, h) /\ PackedHolds(view, w, h)
    THEN Image(w \div 2, h \div 2, LAMBDA i, j : PackedTriple(view, uyvy, 2 * i, 2 * j))
    ELSE Error

RgbTriple(format, at) ==
    CASE format \in {"Rgb8", "Rgba8"} -> <<at, at + 1, at + 2>>
      [] format \in {"Bgr8", "Bgra8"} -> <<at + 2, at + 1, at>>
      [] format = "Argb8" -> <<at + 1, at + 2, at + 3>>
      [] format = "Gray8" -> <<at, at, at>>

\* packed_8888_to_rgb_into.
Packed8888(format, view, w, h) ==
    IF w > 0 /\ h > 0 /\ ChromaHolds(view, 4 * w, h)
    THEN Image(w, h, LAMBDA i, j : RgbTriple(format, view.at + j * view.row_stride + 4 * i))
    ELSE Error

-----------------------------------------------------------------------------
(* RgbConverter::convert_layout_into: the ways to a request's size.         *)

\* ConversionRequest::output_len, which has to be the size of the output.
OutputLength(r) == 3 * r.width * r.height

Contiguous(layout) ==
    CASE layout.format \in SemiPlanar ->
            layout.planes[1].pixel_stride = 1 /\ layout.planes[2].pixel_stride = 2
      [] layout.format = "Yuv420p" -> \A i \in 1..3 : layout.planes[i].pixel_stride = 1
      [] OTHER -> FALSE

\* is_exact_half.
ExactHalf(layout, r) ==
    /\ ~layout.bottom_up
    /\ layout.width % 2 = 0 /\ layout.height % 2 = 0
    /\ <<r.width, r.height>> = <<layout.width \div 2, layout.height \div 2>>

\* is_exact_two_thirds and is_exact_three_quarters.
ExactRatio(layout, r, n, d) == r.width * d = layout.width * n /\ r.height * d = layout.height * n

\* direct_half_path.
DirectHalf(layout, r) ==
    /\ ExactHalf(layout, r)
    /\ \/ Contiguous(layout)
       \/ layout.format \in PackedYuv /\ layout.planes[1].pixel_stride = 2

\* supports_yuv_row_conversion.
SupportsRows(layout) == layout.format \in PackedYuv \/ Contiguous(layout)

SameSize(layout, r) == r.width = layout.width /\ r.height = layout.height /\ ~layout.bottom_up

\* selected_conversion_path: what diagnostics say.
SelectedPath(layout, r) ==
    LET packedRgb == layout.format = "Rgb8" /\ layout.planes[1].pixel_stride = 3
        yuvRows == layout.format \in Yuv /\ SupportsRows(layout) /\ 4 * r.width >= layout.width
        ratio == IF ExactRatio(layout, r, 2, 3) THEN "2x3"
                 ELSE IF ExactRatio(layout, r, 3, 4) THEN "3x4" ELSE "any"
    IN  IF layout.format \in Encoded THEN <<layout.format>>
        ELSE IF DirectHalf(layout, r) THEN <<"half">>
        ELSE IF SameSize(layout, r) THEN <<"full-size">>
        ELSE IF packedRgb /\ ratio # "any" THEN <<"rgb-rows", ratio>>
        ELSE IF yuvRows THEN <<"rows", ratio>>
        ELSE <<"mapped">>

\* NearestMap::update.
NearestMap(sw, sh, dw, dh, bottomUp) ==
    [x |-> [i \in 0..(dw - 1) |-> (i * sw) \div dw],
     y |-> [j \in 0..(dh - 1) |-> LET row == (j * sh) \div dh IN IF bottomUp THEN sh - row - 1 ELSE row]]

\* Broken: three pixels of four are the last ones.
ResizeRowLast(row, sw, dw, map) ==
    [i \in 0..(dw - 1) |->
        IF sw % 4 = 0 /\ dw * 4 = sw * 3 THEN row[4 * (i \div 3) + (i % 3) + 1] ELSE row[map[i]]]

\* resize_rgb_row_nearest: a row of sw pixels to dw; whole groups are copied
\* when two of three or three of four pixels stay.
ResizeRow(row, sw, dw, map) ==
    [i \in 0..(dw - 1) |->
        IF sw % 3 = 0 /\ dw * 3 = sw * 2 THEN row[3 * (i \div 2) + (i % 2)]
        ELSE IF sw % 4 = 0 /\ dw * 4 = sw * 3 THEN row[4 * (i \div 3) + (i % 3)]
        ELSE row[map[i]]]

\* convert_yuv_rows: one or two source rows as a small image of their own.
ConvertRows(layout, sy, rows) ==
    LET w == layout.width
        slice(i, y, bytes) == [View(layout.planes[i], y * layout.planes[i].row_stride) EXCEPT !.n = bytes]
        luma == slice(1, sy, (rows - 1) * layout.planes[1].row_stride + w)
        chroma(i) == slice(i, sy \div 2, CeilHalf(w))
    IN  CASE layout.format \in PackedYuv ->
                PackedImage(slice(1, sy, (rows - 1) * layout.planes[1].row_stride + 2 * w),
                            layout.format = "Uyvy", w, rows)
          [] layout.format \in SemiPlanar ->
                SemiPlanarImage(luma, slice(2, sy \div 2, 2 * CeilHalf(w)), layout.format = "Nv21", w, rows)
          [] OTHER -> Planar(luma, chroma(2), chroma(3), w, rows)

\* Broken: an odd row begins a pair with the next one.
PairedAtAnyRow(layout, map, j) ==
    layout.format \notin PackedYuv /\ j + 1 \in DOMAIN map.y /\ map.y[j + 1] = map.y[j] + 1

\* Rows that share their chroma are converted together.
Paired(layout, map, j) ==
    /\ layout.format \notin PackedYuv
    /\ map.y[j] % 2 = 0
    /\ j + 1 \in DOMAIN map.y /\ map.y[j + 1] = map.y[j] + 1

\* Which destination rows start a conversion, from the top on.
Begins(layout, height, map) ==
    LET begins[j \in 0..height] == j = 0 \/ ~(begins[j - 1] /\ Paired(layout, map, j - 1))
    IN  begins

\* scale_yuv_nearest: destination rows two at a time when they are a pair.
ScaleRows(layout, r, map) ==
    LET begins == Begins(layout, r.height, map)
        source(j) == IF begins[j]
                     THEN [of |-> ConvertRows(layout, map.y[j], IF Paired(layout, map, j) THEN 2 ELSE 1), row |-> 0]
                     ELSE [of |-> ConvertRows(layout, map.y[j - 1], 2), row |-> 1]
        rows == [j \in 0..(r.height - 1) |-> source(j)]
        line(j) == [x \in 0..(layout.width - 1) |-> rows[j].of[<<x, rows[j].row>>]]
    IN  IF \E j \in DOMAIN rows : rows[j].of = Error THEN Error
        ELSE LET resized == [j \in DOMAIN rows |-> ResizeRow(line(j), layout.width, r.width, map.x)]
             IN  Image(r.width, r.height, LAMBDA i, j : resized[j][i])

\* The bytes of a source pixel as scale_yuv_scalar reads them, pixel by pixel.
ScalarTriple(layout, x, y) ==
    LET luma == At(View(layout.planes[1], 0), x, y)
        row == layout.planes[1].offset + y * layout.planes[1].row_stride
        chroma(i) == At(View(layout.planes[i], 0), x \div 2, y \div 2)
    IN  CASE layout.format = "Yuyv" -> <<luma, row + 4 * (x \div 2) + 1, row + 4 * (x \div 2) + 3>>
          [] layout.format = "Uyvy" -> <<luma + 1, row + 4 * (x \div 2), row + 4 * (x \div 2) + 2>>
          [] layout.format = "Nv12" -> <<luma, chroma(2), chroma(2) + 1>>
          [] layout.format = "Nv21" -> <<luma, chroma(2) + 1, chroma(2)>>
          [] OTHER -> <<luma, chroma(2), chroma(3)>>

ScaleScalar(layout, r, map) ==
    Image(r.width, r.height, LAMBDA i, j : ScalarTriple(layout, map.x[i], map.y[j]))

\* scale_nearest, for the formats without chroma.
ScaleNearest(layout, r, map) ==
    LET plane == View(layout.planes[1], 0)
        line(j) == [x \in 0..(layout.width - 1) |-> RgbTriple("Rgb8", plane.at + map.y[j] * plane.row_stride + 3 * x)]
        resized == [j \in 0..(r.height - 1) |-> ResizeRow(line(j), layout.width, r.width, map.x)]
    IN  IF layout.format = "Rgb8" /\ plane.pixel_stride = 3
        THEN Image(r.width, r.height, LAMBDA i, j : resized[j][i])
        ELSE Image(r.width, r.height, LAMBDA i, j : RgbTriple(layout.format, At(plane, map.x[i], map.y[j])))

ConvertHalf(layout) ==
    LET p(i) == View(layout.planes[i], 0)
        w == layout.width
        h == layout.height
    IN  CASE layout.format \in SemiPlanar -> SemiPlanarHalf(p(1), p(2), layout.format = "Nv21", w, h)
          [] layout.format \in PackedYuv -> PackedHalf(p(1), layout.format = "Uyvy", w, h)
          [] OTHER -> PlanarHalf(p(1), p(2), p(3), w, h)

HasFullSize(layout) ==
    \/ layout.format \in Yuv
    \/ layout.format = "Rgb8" /\ layout.planes[1].pixel_stride = 3
    \/ layout.format \in Rgb32 /\ layout.planes[1].pixel_stride = 4

ConvertFullSize(layout) ==
    LET p(i, shift) == View(layout.planes[i], shift)
        vu == IF layout.format = "Nv21" THEN 1 ELSE 0
        w == layout.width
        h == layout.height
    IN  CASE layout.format = "Rgb8" -> Image(w, h, LAMBDA i, j : RgbTriple("Rgb8", At(p(1, 0), i, j)))
          [] layout.format \in Rgb32 -> Packed8888(layout.format, p(1, 0), w, h)
          [] layout.format \in PackedYuv -> PackedImage(p(1, 0), layout.format = "Uyvy", w, h)
          [] layout.format = "Yuv420p" -> Planar(p(1, 0), p(2, 0), p(3, 0), w, h)
          [] OTHER -> IF Contiguous(layout) THEN SemiPlanarImage(p(1, 0), p(2, 0), vu = 1, w, h)
                      ELSE Planar(p(1, 0), p(2, vu), p(2, 1 - vu), w, h)

\* jpeg_scaling, in eighths: at most the whole, and nothing between a half
\* and the whole; the smallest that is not smaller than the target.
JpegScaled(size, eighths) == (size * eighths + 7) \div 8

\* Broken: the height of the target is not looked at.
JpegScalingByWidth(w, h, tw, th, lossless) ==
    LET enough == {n \in {1, 2, 3, 4, 8} : JpegScaled(w, n) >= tw}
    IN  IF lossless \/ tw >= w \/ th >= h THEN 8 ELSE Min(enough)

JpegScaling(w, h, tw, th, lossless) ==
    LET enough == {n \in {1, 2, 3, 4, 8} : JpegScaled(w, n) >= tw /\ JpegScaled(h, n) >= th}
    IN  IF lossless \/ tw >= w \/ th >= h THEN 8
        ELSE CHOOSE n \in enough :
                \A m \in enough : JpegScaled(w, n) * JpegScaled(h, n) <= JpegScaled(w, m) * JpegScaled(h, m)

\* What is done: [path, image].  Colours that are not known are an error for
\* the formats that need them.
Convert(layout, length, r, colourKnown) ==
    LET map == NearestMap(layout.width, layout.height, r.width, r.height, layout.bottom_up)
        yuv == layout.format \in Yuv
        is(path, image) == [path |-> path, image |-> image]
    IN  IF ~ValidLayout(layout, length) \/ OutputLength(r) = 0 THEN is("refused", Error)
        ELSE IF layout.format \in Encoded THEN is(layout.format, Error)
        ELSE IF yuv /\ ~colourKnown THEN is("refused", Error)
        ELSE IF DirectHalf(layout, r) THEN is("half", ConvertHalf(layout))
        ELSE IF SameSize(layout, r) /\ HasFullSize(layout) THEN is("full-size", ConvertFullSize(layout))
        ELSE IF yuv /\ SupportsRows(layout) /\ 4 * r.width >= layout.width
             THEN is("rows", ScaleRows(layout, r, map))
        ELSE IF yuv THEN is("mapped", ScaleScalar(layout, r, map))
        ELSE is("mapped", ScaleNearest(layout, r, map))

-----------------------------------------------------------------------------
(* The converter of the V4L2 backend, for planes [at, n, row_stride].       *)

V4l2Formats == {"MJPEG", "YUYV", "UYVY", "NV12", "RGB", "Gray"}

\* check_rows.
CheckRows(plane, row, rows) == row > 0 /\ rows > 0 /\ ChromaHolds(plane, row, rows)

\* Broken: one plane is taken to hold the chroma from its w * h-th byte on.
SecondPlaneTight(planes, w, h) ==
    IF Len(planes) = 2 THEN planes[2]
    ELSE [planes[1] EXCEPT !.at = @ + w * h, !.n = @ - w * h]

\* The chroma plane of NV12: the second, or what follows h rows of the first.
SecondPlane(planes, w, h) ==
    IF Len(planes) = 2 THEN planes[2]
    ELSE LET luma == planes[1].row_stride * h
         IN  IF luma > planes[1].n THEN Error
             ELSE [planes[1] EXCEPT !.at = @ + luma, !.n = @ - luma]

\* Converter::convert.
V4l2Convert(format, planes, w, h) ==
    LET packed(row, image) == IF CheckRows(planes[1], row, h) THEN image ELSE Error
        second == SecondPlane(planes, w, h)
    IN  IF (w = 0 \/ h = 0) \/ ~(Len(planes) = 1 \/ (format = "NV12" /\ Len(planes) = 2)) THEN Error
        ELSE CASE format = "NV12" ->
                    IF second # Error /\ CheckRows(planes[1], w, h) /\ CheckRows(second, w, CeilHalf(h))
                    THEN SemiPlanarImage(planes[1], second, FALSE, w, h) ELSE Error
               [] format \in {"YUYV", "UYVY"} ->
                    packed(2 * w, PackedImage(planes[1], format = "UYVY", w, h))
               [] format = "RGB" ->
                    packed(3 * w, Image(w, h, LAMBDA i, j :
                        RgbTriple("Rgb8", planes[1].at + j * planes[1].row_stride + 3 * i)))
               [] format = "Gray" ->
                    packed(w, Image(w, h, LAMBDA i, j :
                        RgbTriple("Gray8", planes[1].at + j * planes[1].row_stride + i)))
               [] OTHER -> Error

-----------------------------------------------------------------------------
(* mjpeg.rs: a frame is a sequence of bytes of which only the two of each   *)
(* marker matter.                                                           *)

Soi == <<"ff", "d8">>

Eoi == <<"ff", "d9">>

\* complete_frame, called of a published frame before it is decoded: up to the
\* last end marker.  The frame itself keeps the transport's padding.
CompleteFrame(data) ==
    LET ends == {i \in 1..(Len(data) - 1) : SubSeq(data, i, i + 1) = Eoi}
    IN  IF Len(data) < 4 \/ SubSeq(data, 1, 2) # Soi \/ ends = {} THEN Error
        ELSE SubSeq(data, 1, Max(ends) + 1)

-----------------------------------------------------------------------------
(* Properties.                                                              *)

Reference(layout, r) ==
    LET map == NearestMap(layout.width, layout.height, r.width, r.height, layout.bottom_up)
    IN  Image(r.width, r.height, LAMBDA i, j :
            IF layout.format \in Yuv THEN ScalarTriple(layout, map.x[i], map.y[j])
            ELSE RgbTriple(layout.format, At(View(layout.planes[1], 0), map.x[i], map.y[j])))

\* The requests of which the diagnostics name a way that is not taken: a
\* layout at its own size with no conversion of its own for that, and RGB
\* shrunk to two thirds or three quarters, are both converted pixel by pixel.
Drifts(layout, r) ==
    /\ ~DirectHalf(layout, r)
    /\ IF SameSize(layout, r) THEN ~HasFullSize(layout)
       ELSE /\ layout.format = "Rgb8" /\ layout.planes[1].pixel_stride = 3
            /\ ExactRatio(layout, r, 2, 3) \/ ExactRatio(layout, r, 3, 4)

\* Whatever way a request is answered, fast or slow, the image is the same:
\* the nearest source pixels of the layout.  A layout that passed validate
\* converts at every size, without a byte read outside its planes.  The name
\* that selected_conversion_path gives the way, which is to be unable to
\* drift from what is done, does drift, for the requests of Drifts.
ConvertsExactly(layout, length, r) ==
    LET done == Convert(layout, length, r, TRUE)
    IN  (ValidLayout(layout, length) /\ layout.format \notin Encoded) =>
            /\ done.image = Reference(layout, r)
            /\ \A p \in DOMAIN done.image : \A c \in 1..3 :
                \E i \in DOMAIN layout.planes :
                    done.image[p][c] - layout.planes[i].offset \in 0..(layout.planes[i].length - 1)
            /\ SelectedPath(layout, r)[1] # done.path <=> Drifts(layout, r)

\* A JPEG is never decoded to less than the request, nor to more than it is.
JpegKeepsDetail(w, h, tw, th) ==
    LET n == JpegScaling(w, h, tw, th, FALSE)
    IN  /\ tw <= w => JpegScaled(w, n) >= tw
        /\ th <= h => JpegScaled(h, n) >= th
        /\ n <= 8

\* Chroma views that overlap as pairs are the same samples as one plane.
InterleavedExactly(w, h, u, v) ==
    LET both == InterleavedChroma(w, h, u, v)
    IN  both # Error => \A cx \in 0..(CeilHalf(w) - 1), cy \in 0..(CeilHalf(h) - 1) :
            LET pair == both.start + cy * both.row_stride + 2 * cx
                at(view) == view.start + cy * view.row_stride + cx * view.pixel_stride
            IN  /\ <<at(u), at(v)>> = IF both.format = "Nv12" THEN <<pair, pair + 1>> ELSE <<pair + 1, pair>>
                /\ pair + 1 < both.start + both.length

\* V4L2 planes convert inside their bytes or not at all; padding between rows
\* and planes is skipped.
V4l2Exactly(format, planes, w, h) ==
    LET image == V4l2Convert(format, planes, w, h)
    IN  image # Error => \A p \in DOMAIN image : \A c \in 1..3 : \E i \in DOMAIN planes :
            /\ image[p][c] - planes[i].at \in 0..(planes[i].n - 1)
            /\ (c = 1 /\ format # "UYVY") => image[p][1] = planes[1].at + p[2] * planes[1].row_stride
                    + p[1] * (CASE format = "RGB" -> 3 [] format = "YUYV" -> 2 [] OTHER -> 1)
            /\ (format = "NV12" /\ Len(planes) = 1 /\ c > 1) =>
                    image[p][c] - planes[1].at >= h * planes[1].row_stride

\* What the decoder is given of a frame begins and ends with the markers, and
\* nothing is kept from it but what follows the last end marker.
MjpegTrimmed(data) ==
    LET frame == CompleteFrame(data)
    IN  frame # Error =>
            /\ SubSeq(frame, 1, 2) = Soi /\ SubSeq(frame, Len(frame) - 1, Len(frame)) = Eoi
            /\ SubSeq(data, 1, Len(frame)) = frame
            /\ \A i \in Len(frame)..(Len(data) - 1) : SubSeq(data, i, i + 1) # Eoi
=============================================================================
