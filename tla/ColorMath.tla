----------------------------- MODULE ColorMath -----------------------------
(***************************************************************************)
(* The arithmetic of one pixel (src/src/utils/color_convert.rs): the       *)
(* fixed-point coefficients of a colour space and the conversions of the   *)
(* scalar, NEON and AVX2 code, in the integer widths each of them uses.    *)
(* Shifts to the right are divisions that round down.                      *)
(***************************************************************************)
EXTENDS Integers

\* The low 16 bits of x as a signed word: what a narrowing keeps.
Word16(x) == ((x + 32768) % 65536) - 32768

Clamp(x) == IF x < 0 THEN 0 ELSE IF x > 255 THEN 255 ELSE x

Nearest(n, d) == (n + d \div 2) \div d

\* a * s[1] / (k * s[2]) to the nearest, in two divisions to stay small.
NearestScaled(a, k, s) ==
    (2 * s[1] * (a \div k) + (2 * s[1] * (a % k)) \div k + s[2]) \div (2 * s[2])

-----------------------------------------------------------------------------
(* color_coefficients.                                                      *)

Matrices == {"bt601", "bt709", "bt2020", "smpte240m"}

\* The weights of red and blue in the luma, in units of 1/10000.
Weights == [bt601 |-> <<2990, 1140>>, bt709 |-> <<2126, 722>>,
            bt2020 |-> <<2627, 593>>, smpte240m |-> <<2120, 870>>]

Unknown == "unknown"

\* 2048 / 10000, times 255 / 224 in the limited range, in lowest terms.
ChromaScale(limited) == IF limited THEN <<204, 875>> ELSE <<128, 625>>

\* <<cy, cr, gu, gv, cb, offset>> scaled by 1024, or Unknown, an error that
\* asks for an override.
Coefficients(matrix, range) ==
    IF matrix = Unknown \/ range = Unknown THEN Unknown
    ELSE LET kr == Weights[matrix][1]
             kb == Weights[matrix][2]
             kg == 10000 - kr - kb
             limited == range = "limited"
             s == ChromaScale(limited)
         IN  <<IF limited THEN Nearest(87040, 73) ELSE 1024,
               Nearest((10000 - kr) * s[1], s[2]),
               NearestScaled((10000 - kb) * kb, kg, s),
               NearestScaled((10000 - kr) * kr, kg, s),
               Nearest((10000 - kb) * s[1], s[2]),
               IF limited THEN 16 ELSE 0>>

BT601_FULL_COEFFICIENTS == <<1024, 1436, 352, 731, 1815, 0>>

-----------------------------------------------------------------------------
(* With ten fractional bits: yuv_pixel and its vector forms.                *)

\* yuv_pixel.
Scalar10(c, y, u, v) ==
    LET luma == (y - c[6]) * c[1]
    IN  <<Clamp((luma + c[2] * (v - 128) + 512) \div 1024),
          Clamp((luma - c[3] * (u - 128) - c[4] * (v - 128) + 512) \div 1024),
          Clamp((luma + c[5] * (u - 128) + 512) \div 1024)>>

\* rgb8_with_coefficients: words are multiplied into i32 lanes, rounded, and
\* narrowed to words before they saturate to bytes.
Neon10(c, y, u, v) ==
    LET w == [i \in 1..6 |-> Word16(c[i])]
        luma == Word16(y - w[6]) * w[1]
        narrow(x) == Clamp(Word16((x + 512) \div 1024))
    IN  <<narrow(luma + (v - 128) * w[2]),
          narrow((luma - (u - 128) * w[3]) - (v - 128) * w[4]),
          narrow(luma + (u - 128) * w[5])>>

\* rgb8_two_luma_with_coefficients: the chroma products are made once, the
\* green ones summed and negated, for two rows.
NeonPrepared10(c, y, u, v) ==
    LET w == [i \in 1..6 |-> Word16(c[i])]
        chroma == <<(v - 128) * w[2], -((u - 128) * w[3] + (v - 128) * w[4]), (u - 128) * w[5]>>
        luma == Word16(y - w[6]) * w[1]
    IN  [i \in 1..3 |-> Clamp(Word16((luma + chroma[i] + 512) \div 1024))]

\* prepare_chroma and convert_eight_with_chroma, in i32 lanes: `shift` is a
\* power of two, red and blue round by `rounding`, green by `greenRounding`.
Avx(c, shift, rounding, greenRounding, y, u, v) ==
    LET chroma == <<(v - 128) * c[2] + rounding,
                    0 - (u - 128) * c[3] - (v - 128) * c[4] + greenRounding,
                    (u - 128) * c[5] + rounding>>
        luma == (y - c[6]) * c[1]
    IN  [i \in 1..3 |-> Clamp((luma + chroma[i]) \div shift)]

\* yuv420sp_bt601_full_to_rgb_into, where no vector unit is found.
Portable10(y, u, v) ==
    LET c == BT601_FULL_COEFFICIENTS
        chroma == <<c[2] * (v - 128) + 512, -c[3] * (u - 128) - c[4] * (v - 128) + 512, c[5] * (u - 128) + 512>>
    IN  [i \in 1..3 |-> Clamp((y * c[1] + chroma[i]) \div 1024)]

-----------------------------------------------------------------------------
(* With eight fractional bits: the packed conversions of ColorConverter.    *)

\* yuyv_to_rgb_scalar_into and the batches of simd_generic.
Scalar8(y, u, v) ==
    <<Clamp(y + (359 * (v - 128)) \div 256),
      Clamp(y - (88 * (u - 128) + 183 * (v - 128)) \div 256),
      Clamp(y + (454 * (u - 128)) \div 256)>>

\* rgb8 of the NEON module: products in i32 lanes, since 454 * -128 and the
\* green sum do not fit a word; they are shifted before they are narrowed.
Neon8(y, u, v) ==
    LET narrow(x) == Word16(x \div 256)
        r == narrow((v - 128) * 359)
        g == narrow((u - 128) * 88 + (v - 128) * 183)
        b == narrow((u - 128) * 454)
    IN  <<Clamp(Word16(y + r)), Clamp(Word16(y - g)), Clamp(Word16(y + b))>>

\* Broken: green rounds down like red and blue.
AvxLegacyRoundsDown(y, u, v) == Avx(<<256, 359, 88, 183, 454, 0>>, 256, 0, 0, y, u, v)

\* packed422_avx2::<_, 8, 0, 255>: green is subtracted after its shift in the
\* scalar code, so here, where it is negated before, it rounds up.
AvxLegacy(y, u, v) == Avx(<<256, 359, 88, 183, 454, 0>>, 256, 0, 255, y, u, v)

-----------------------------------------------------------------------------
(* Properties.                                                              *)

\* The same pixel on every machine and from every branch: a frame does not
\* change its colours with the CPU, its width or the row it is converted in.
MachinesAgree(y, u, v) ==
    /\ \A matrix \in Matrices, range \in {"full", "limited"} :
        LET c == Coefficients(matrix, range)
        IN  /\ Neon10(c, y, u, v) = Scalar10(c, y, u, v)
            /\ NeonPrepared10(c, y, u, v) = Scalar10(c, y, u, v)
            /\ Avx(c, 1024, 512, 512, y, u, v) = Scalar10(c, y, u, v)
    /\ Portable10(y, u, v) = Scalar10(BT601_FULL_COEFFICIENTS, y, u, v)
    /\ Neon8(y, u, v) = Scalar8(y, u, v)
    /\ AvxLegacy(y, u, v) = Scalar8(y, u, v)

\* Grey stays grey, black and white reach the ends of the range in every
\* colour space, and the constant kept for BT.601 is what the rule gives.  In
\* between ten fractional bits are as good as the exact scale, or one darker.
GreyAxis(y) ==
    /\ Coefficients("bt601", "full") = BT601_FULL_COEFFICIENTS
    /\ \A matrix \in Matrices :
        LET full == Scalar10(Coefficients(matrix, "full"), y, 128, 128)
            limited == Scalar10(Coefficients(matrix, "limited"), y, 128, 128)
            exact == Clamp(Nearest(255 * (y - 16), 219))
        IN  /\ full = <<y, y, y>>
            /\ limited[1] = limited[2] /\ limited[2] = limited[3]
            /\ limited[1] = exact \/ (limited[1] = exact - 1 /\ 16 < y /\ y < 235)
============================================================================
