--------------------------- MODULE StripTransform ---------------------------
(***************************************************************************)
(* The pictures of a strip without its bits: the colour planes of a block, *)
(* three levels of Haar and the quantiser of chimera/vino/video/haar, and  *)
(* the way back of the repository's own decoders of captures, tools/codec's*)
(* colour_decode.py and ella_decode.py, with the steps of the              *)
(* configuration the stream opened with.  StripCodec has the bits.         *)
(***************************************************************************)
EXTENDS DecoderConfig, FiniteSetsExt

DIM == 8
PIXELS == 64
COEFFS == 64

-----------------------------------------------------------------------------
(* The transform.                                                          *)

\* (Y, Cb, Cr) of a pixel; the shift of a negative sum rounds down.
Colour(r, g, b) ==
    [y  |-> 64 * g + 64 * (((r - g) + (b - g)) \div 4),
     cb |-> 64 * (r - g),
     cr |-> 64 * (b - g)]

\* The planes of a block of pixels.
PlanesOf(rgb) ==
    LET Pixel(p) == Colour(rgb[p][1], rgb[p][2], rgb[p][3])
    IN  [cr |-> [p \in 0 .. PIXELS - 1 |-> Pixel(p).cr],
         cb |-> [p \in 0 .. PIXELS - 1 |-> Pixel(p).cb],
         y  |-> [p \in 0 .. PIXELS - 1 |-> Pixel(p).y]]

\* One separable step over the n x n block src: rows, then columns.
Haar2d(src, n) ==
    LET h == n \div 2
        lo(r, i) == src[r * n + 2 * i] + src[r * n + 2 * i + 1]
        hi(r, i) == src[r * n + 2 * i] - src[r * n + 2 * i + 1]
        Band == 0 .. h * h - 1
        Top(k) == 2 * (k \div h)
    IN  [ll |-> [k \in Band |-> lo(Top(k), k % h) + lo(Top(k) + 1, k % h)],
         lh |-> [k \in Band |-> lo(Top(k), k % h) - lo(Top(k) + 1, k % h)],
         hl |-> [k \in Band |-> hi(Top(k), k % h) + hi(Top(k) + 1, k % h)],
         hh |-> [k \in Band |-> hi(Top(k), k % h) - hi(Top(k) + 1, k % h)]]

\* Mutant: the level-one bands are sent in raster order.
RasterScan == [i \in 1 .. 16 |-> i - 1]

SCAN4_MORTON == <<0, 2, 8, 10, 1, 3, 9, 11, 4, 6, 12, 14, 5, 7, 13, 15>>

\* The coefficients in the order they are sent, from the three levels.
Layout(one, two, three) ==
    LET Raw(i) ==
            CASE i < 4  -> <<three.ll, three.hl, three.lh, three.hh>>[i + 1][0]
              [] i \in 4 .. 15 -> <<two.hl, two.lh, two.hh>>[i \div 4][i % 4]
              [] i > 15 -> <<one.hl, one.lh, one.hh>>[i \div 16]
                                [SCAN4_MORTON[(i % 16) + 1]]
    IN  [i \in 0 .. COEFFS - 1 |-> Raw(i) \div 64]

ThirdLevel(one, two) == Layout(one, two, Haar2d(two.ll, 2))

SecondLevel(one) == ThirdLevel(one, Haar2d(one.ll, 4))

Transform(block) == SecondLevel(Haar2d(block, 8))

-----------------------------------------------------------------------------
(* The quantiser.                                                          *)

Clamp(v, lo, hi) == IF v < lo THEN lo ELSE IF v > hi THEN hi ELSE v

StepBias(i) ==
    CASE i \in 0 .. 2   -> [step |-> 16, bias |-> 8]
      [] i = 3          -> [step |-> 32, bias |-> 16]
      [] i \in 4 .. 11  -> [step |-> 4, bias |-> 2]
      [] i \in 12 .. 15 -> [step |-> 8, bias |-> 4]
      [] i \in 16 .. 47 -> [step |-> 2, bias |-> 0]
      [] i \in 48 .. 63 -> [step |-> 4, bias |-> 2]

Quantize(c, i) ==
    LET s == StepBias(i)
        towardsZero == IF c < 0 THEN -((-c) \div s.step) ELSE c \div s.step
    IN  Clamp(IF s.bias = 0 THEN towardsZero ELSE (c + s.bias) \div s.step,
              -2048, 2047)

ChromaAcStep(i) ==
    IF i \in {1, 2} \cup 4 .. 11 THEN 16 ELSE IF i >= 48 THEN 64 ELSE 32

QuantizeChromaAc(c, i) ==
    (c + ChromaAcStep(i) \div 2) \div ChromaAcStep(i)

DcStep(plane) == IF plane = "y" THEN 16 ELSE 64

QuantizeDcRound(plane, v) == (v + DcStep(plane) \div 2) \div DcStep(plane)

\* The last significant position among 1 .. COEFFS - 1, 0 when there is none.
LastOf(q) == Max({0} \cup {i \in 1 .. COEFFS - 1 : q[i] # 0})

QuantizedPlane(plane, t) ==
    [i \in 0 .. COEFFS - 1 |->
        IF i = 0 THEN QuantizeDcRound(plane, t[0])
        ELSE IF plane = "y" THEN Quantize(t[i], i)
        ELSE QuantizeChromaAc(t[i], i)]

WithLasts(qcr, qcb, qy) ==
    [cr |-> qcr, cb |-> qcb, y |-> qy,
     lcr |-> LastOf(qcr), lcb |-> LastOf(qcb), ly |-> LastOf(qy)]

ColourBlock(p) ==
    WithLasts(QuantizedPlane("cr", Transform(p.cr)),
              QuantizedPlane("cb", Transform(p.cb)),
              QuantizedPlane("y", Transform(p.y)))

-----------------------------------------------------------------------------
(* The way back.                                                           *)

\* What the dock was told: a step for each coefficient.
DockSteps ==
    [plane \in {"cr", "cb", "y"} |->
        [i \in 0 .. COEFFS - 1 |-> StepOf(BuildConfig("Wide", FALSE), plane, i)]]

\* dequant, of one plane.
Dequantized(plane, q) == [i \in 0 .. COEFFS - 1 |-> q[i] * DockSteps[plane][i]]

\* One level back: columns, then rows; each halves what the forward doubled.
Ihaar2d(b, n) ==
    LET h == n \div 2
        Up(low, high, odd) == (IF odd = 0 THEN low + high ELSE low - high) \div 2
        L(r, c) == Up(b.ll[(r \div 2) * h + c], b.lh[(r \div 2) * h + c], r % 2)
        H(r, c) == Up(b.hl[(r \div 2) * h + c], b.hh[(r \div 2) * h + c], r % 2)
    IN  [p \in 0 .. n * n - 1 |->
            LET r == p \div n
                c == p % n
            IN  Up(L(r, c \div 2), H(r, c \div 2), c % 2)]

UNSCAN == [k \in 0 .. 15 |-> CHOOSE p \in 0 .. 15 : SCAN4_MORTON[p + 1] = k]

Itransform(t) ==
    LET Band(from, n) == [k \in 0 .. n - 1 |-> 64 * t[from + k]]
        Unscanned(from) == [k \in 0 .. 15 |-> 64 * t[from + UNSCAN[k]]]
        two == Ihaar2d([ll |-> Band(0, 1), hl |-> Band(1, 1),
                        lh |-> Band(2, 1), hh |-> Band(3, 1)], 2)
        one == Ihaar2d([ll |-> two, hl |-> Band(4, 4),
                        lh |-> Band(8, 4), hh |-> Band(12, 4)], 4)
    IN  Ihaar2d([ll |-> one, hl |-> Unscanned(16),
                 lh |-> Unscanned(32), hh |-> Unscanned(48)], 8)

\* The pixel of a place in three planes.
Uncoloured(p, at) ==
    LET cb == p.cb[at] \div 64
        cr == p.cr[at] \div 64
        g  == (p.y[at] \div 64) - ((cb + cr) \div 4)
    IN  <<g + cb, g, g + cr>>

BlockRgb(b) ==
    LET back == [cr |-> Itransform(Dequantized("cr", b.cr)),
                 cb |-> Itransform(Dequantized("cb", b.cb)),
                 y  |-> Itransform(Dequantized("y", b.y))]
    IN  [at \in 0 .. PIXELS - 1 |-> Uncoloured(back, at)]

-----------------------------------------------------------------------------
\* Half the steps of the coefficients that meet in one pixel, each over the
\* pixels of its square, come to 3 for luma and 19 for a chroma difference;
\* half of a chroma error reaches green.
NEAR_GREEN == 13
NEAR_RED_BLUE == 32

NearPixel(given, rgb) ==
    \A c \in 1 .. 3 :
        LET most == IF c = 2 THEN NEAR_GREEN ELSE NEAR_RED_BLUE
        IN  rgb[c] - given[c] \in -most .. most
=============================================================================
