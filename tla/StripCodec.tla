----------------------------- MODULE StripCodec -----------------------------
(***************************************************************************)
(* One strip through the codec of chimera/vino/video/haar: blocks of       *)
(* StripTransform and the unary code in the two dialects the docks read.   *)
(* The dock's part is that of the repository's own decoders of captures,   *)
(* tools/codec's colour_decode.py (Wide) and ella_decode.py (Narrow), on   *)
(* the very bits the encoder wrote, with the ceilings of the configuration *)
(* the stream opened with.                                                 *)
(*                                                                         *)
(* A bit string is a sequence over {0, 1}; the byte packing of Bits is     *)
(* kept only in the lengths of the three regions.                          *)
(***************************************************************************)
EXTENDS StripTransform, SequencesExt

CONSTANTS
    STRIP_ROW_BLOCKS, \* blocks in one coded half (8 in the code)
    Lasts,            \* patterns a block of raw planes is drawn from
    Fillers           \* patterns of the blocks after the first

STRIP_BLOCKS == 2 * STRIP_ROW_BLOCKS

ASSUME CodecAssumption ==
    /\ STRIP_ROW_BLOCKS \in Nat \ {0}
    /\ Lasts \subseteq 0 .. COEFFS - 1
    /\ Fillers \subseteq 0 .. COEFFS - 1

CodeTables == {"Wide", "Narrow"}

VARIABLES
    planes,          \* the planes of the blocks gathered so far
    blocks,          \* the same blocks, transformed and quantised
    strip            \* the coded strip, once there is one

stripVars == <<planes, blocks, strip>>

\* The geometry of the dock's family.
depth == IF TenBit THEN "Ten" ELSE "Eight"
coding == Dock.tables

-----------------------------------------------------------------------------
(* The code.                                                               *)

SOLID_DC_CMAX == 10
AC_CMAX == 9
CHROMA_AC_CMAX == 10

DcCmax(d) == IF d = "Ten" THEN SOLID_DC_CMAX + 2 ELSE SOLID_DC_CMAX

\* Mutant: the ceiling of the eight-bit table at either depth.
AcCmaxOfEight(d) == AC_CMAX

AcCmax(d) == IF d = "Ten" THEN AC_CMAX + 2 ELSE AC_CMAX

ChromaAcCmax(d) == IF d = "Ten" THEN CHROMA_AC_CMAX + 2 ELSE CHROMA_AC_CMAX

BitOf(v, i) == (v \div 2^i) % 2

FloorLog2(n) == CHOOSE k \in 0 .. 30 : 2^k <= n /\ n < 2^(k + 1)

MagCategory(v) ==
    LET mag == IF v < 0 THEN -v ELSE v
    IN  IF mag = 0 THEN 0 ELSE FloorLog2(mag) + 1

\* count ones, a zero unless the category is the table's last, count payload
\* bits: grouped behind the terminator, or one behind each one.
Unary(count, terminate, payload) ==
    LET zero == IF terminate THEN <<0>> ELSE <<>>
    IN  IF coding = "Wide"
        THEN [i \in 1 .. count |-> 1] \o zero
               \o [i \in 1 .. count |-> BitOf(payload, count - i)]
        ELSE [i \in 1 .. 2 * count |->
                IF i % 2 = 1 THEN 1 ELSE BitOf(payload, (i \div 2) - 1)] \o zero

Esc(v, cmax) ==
    IF v = 0 THEN <<0>>
    ELSE LET c   == Min({MagCategory(v), cmax})
             mag == IF v < 0 THEN -v ELSE v
             off == Min({mag, 2^c - 1}) - 2^(c - 1)
         IN  Unary(c, c < cmax, 2 * off + (IF v > 0 THEN 1 ELSE 0))

SyncUnitAfter(last, skip) ==
    LET k == FloorLog2(COEFFS - last)
    IN  [i \in 1 .. 2 - skip |-> 0]
          \o IF last = 0 THEN Unary(6, TRUE, 0)
             ELSE Unary(k, TRUE, COEFFS - 2^k - last)

ChromaBase(last) ==
    LET c == FloorLog2(last + 1)
    IN  Unary(c, TRUE, last - (2^c - 1))

ColourSyncUnit(b) ==
    CASE b.lcr = 0 /\ b.lcb = 0 -> SyncUnitAfter(b.ly, 0)
      [] b.lcr # 0 /\ b.lcb = 0 -> ChromaBase(b.lcr) \o SyncUnitAfter(b.ly, 1)
      [] b.lcr = 0 /\ b.lcb # 0 ->
            <<0>> \o ChromaBase(b.lcb) \o SyncUnitAfter(b.ly, 2)
      [] b.lcr # 0 /\ b.lcb # 0 ->
            ChromaBase(b.lcr) \o ChromaBase(b.lcb) \o SyncUnitAfter(b.ly, 2)

PlaneAc(q, last, cmax) == FlattenSeq([i \in 1 .. last |-> Esc(q[i], cmax)])

ColourBlockAc(b) ==
    PlaneAc(b.cr, b.lcr, ChromaAcCmax(depth))
      \o PlaneAc(b.cb, b.lcb, ChromaAcCmax(depth))
      \o PlaneAc(b.y, b.ly, AcCmax(depth))

\* Each block's DCs are coded as the difference from the block before.
DcDiffs(k) ==
    LET Diff(plane) ==
            blocks[k][plane][0] - (IF k = 1 THEN 0 ELSE blocks[k - 1][plane][0])
    IN  Esc(Diff("cr"), DcCmax(depth)) \o Esc(Diff("cb"), DcCmax(depth))
          \o Esc(Diff("y"), DcCmax(depth))

RoundEven(n) == n + (n % 2)

\* Bits::finish: the bytes a region takes.
Bytes(bits) == (Len(bits) + 7) \div 8

\* The places of the regions behind the header of 16 bytes.
Regions(main, row0, row1) ==
    LET w18 == 16 + RoundEven(Bytes(main)) + 2
        w1c == w18 + RoundEven(Bytes(row0))
    IN  [main |-> main, row0 |-> row0, row1 |-> row1,
         w18 |-> w18, w1c |-> w1c, len |-> w1c + RoundEven(Bytes(row1))]

ColourStrip ==
    LET Row(from) == FlattenSeq([k \in 1 .. STRIP_ROW_BLOCKS |->
                                    ColourBlockAc(blocks[from + k])])
    IN  Regions(FlattenSeq([k \in 1 .. STRIP_BLOCKS |-> ColourSyncUnit(blocks[k])])
                  \o FlattenSeq([k \in 1 .. STRIP_BLOCKS |-> DcDiffs(k)]),
                Row(0), Row(STRIP_ROW_BLOCKS))

-----------------------------------------------------------------------------
(* The decoders.  Every Read... takes the bits and the first unread place, *)
(* and returns what it read and the next place.                            *)

\* What the dock was told: a ceiling for each table.
DockCeilings ==
    [t \in CodeTables, ten \in BOOLEAN |-> Ceilings(t, BuildConfig(t, ten))]

ReaderCmax == DockCeilings[coding, depth = "Ten"]

\* Behind the last bit of a region there is padding.
ReadBit(bits, at) == IF at \in DOMAIN bits THEN bits[at] ELSE 0

\* The ones at the front of the category, at most cmax of them.
Ones(bits, at, cmax) ==
    LET stride == IF coding = "Wide" THEN 1 ELSE 2
    IN  CHOOSE n \in 0 .. cmax :
            /\ \A i \in 0 .. n - 1 : ReadBit(bits, at + i * stride) = 1
            /\ n < cmax => ReadBit(bits, at + n * stride) = 0

\* The number in n bits, the first at start and the others step apart.
RECURSIVE ReadNumber(_, _, _, _)
ReadNumber(bits, start, step, n) ==
    IF n = 0 THEN 0
    ELSE 2 * ReadNumber(bits, start, step, n - 1)
           + ReadBit(bits, start + step * (n - 1))

\* A category of n ones: its payload follows as a group, first bit highest,
\* or stands behind the ones, first bit lowest.
Categorized(bits, at, n, zero) ==
    [category |-> n,
     payload  |-> IF coding = "Wide"
                  THEN ReadNumber(bits, at + n + zero, 1, n)
                  ELSE ReadNumber(bits, at + 2 * n - 1, -2, n),
     at       |-> at + 2 * n + zero]

ReadUnary(bits, at, cmax) ==
    LET n == Ones(bits, at, cmax)
    IN  Categorized(bits, at, n, IF n < cmax THEN 1 ELSE 0)

EscOf(u) ==
    LET mag == 2^(u.category - 1) + u.payload \div 2
    IN  [value |-> IF u.category = 0 THEN 0
                   ELSE IF u.payload % 2 = 1 THEN mag ELSE -mag,
         at    |-> u.at]

\* Escapes one after the other until there are n; so is what is read so far.
RECURSIVE ReadEscs(_, _, _, _)
ReadEscs(bits, so, n, cmax) ==
    LET Then(e) == [values |-> Append(so.values, e.value), at |-> e.at]
    IN  IF Len(so.values) = n THEN so
        ELSE ReadEscs(bits, Then(EscOf(ReadUnary(bits, so.at, cmax))), n, cmax)

ReadPlane(bits, at, n, cmax) == ReadEscs(bits, [values |-> <<>>, at |-> at], n, cmax)

\* No category of the significance tree leaves its terminator out.
TREE_CMAX == 7

\* A chroma field: one zero when the plane is flat, else its last position.
ReadChromaLast(bits, at) ==
    LET u == ReadUnary(bits, at, TREE_CMAX)
    IN  [last |-> IF u.category = 0 THEN 0 ELSE 2^u.category - 1 + u.payload,
         at   |-> u.at]

\* One block's significance tree: Cr, then Cb, then luma.
SyncAfterCb(cr, cb, y) ==
    [lcr |-> cr.last, lcb |-> cb.last,
     ly  |-> COEFFS - 2^y.category - y.payload, at |-> y.at]

SyncAfterCr(bits, cr, cb) == SyncAfterCb(cr, cb, ReadUnary(bits, cb.at, TREE_CMAX))

SyncFrom(bits, cr) == SyncAfterCr(bits, cr, ReadChromaLast(bits, cr.at))

ReadSync(bits, at) == SyncFrom(bits, ReadChromaLast(bits, at))

NextAt(so) == IF so = <<>> THEN 1 ELSE Last(so).at

RECURSIVE ReadSyncs(_, _)
ReadSyncs(bits, so) ==
    IF Len(so) = STRIP_BLOCKS THEN so
    ELSE ReadSyncs(bits, Append(so, ReadSync(bits, NextAt(so))))

\* The coefficients of one block, plane after plane.
BlockAfterCb(cr, cb, y) ==
    [cr |-> cr.values, cb |-> cb.values, y |-> y.values, at |-> y.at]

BlockAfterCr(bits, sync, cr, cb) ==
    BlockAfterCb(cr, cb, ReadPlane(bits, cb.at, sync.ly, ReaderCmax.luma))

BlockFrom(bits, sync, cr) ==
    BlockAfterCr(bits, sync, cr, ReadPlane(bits, cr.at, sync.lcb, ReaderCmax.chroma))

ReadBlock(bits, at, sync) ==
    BlockFrom(bits, sync, ReadPlane(bits, at, sync.lcr, ReaderCmax.chroma))

\* One half's blocks, from that half's region.
RECURSIVE ReadRow(_, _, _)
ReadRow(bits, syncs, so) ==
    IF Len(so) = STRIP_ROW_BLOCKS THEN so
    ELSE ReadRow(bits, syncs, Append(so, ReadBlock(bits, NextAt(so), syncs[Len(so) + 1])))

\* The DC of one plane in block k: the differences so far.
RunningSum(diffs, plane, k) ==
    MapThenSumSet(LAMBDA j : diffs[3 * (j - 1) + plane], 1 .. k)

Spread(dc, acs) ==
    [i \in 0 .. COEFFS - 1 |->
        IF i = 0 THEN dc ELSE IF i <= Len(acs) THEN acs[i] ELSE 0]

Assembled(syncs, diffs, rows) ==
    [k \in 1 .. STRIP_BLOCKS |->
        [cr |-> Spread(RunningSum(diffs, 1, k), rows[k].cr),
         cb |-> Spread(RunningSum(diffs, 2, k), rows[k].cb),
         y  |-> Spread(RunningSum(diffs, 3, k), rows[k].y),
         lcr |-> syncs[k].lcr, lcb |-> syncs[k].lcb, ly |-> syncs[k].ly]]

DecodeStrip(s, syncs) ==
    LET half == STRIP_ROW_BLOCKS
    IN  Assembled(syncs,
                  ReadPlane(s.main, NextAt(syncs), 3 * STRIP_BLOCKS, ReaderCmax.dc).values,
                  ReadRow(s.row0, SubSeq(syncs, 1, half), <<>>)
                    \o ReadRow(s.row1, SubSeq(syncs, half + 1, STRIP_BLOCKS), <<>>))

DockReads(s) == DecodeStrip(s, ReadSyncs(s.main, <<>>))

-----------------------------------------------------------------------------
(* The reference: coefficient i is the inner product of the block with one *)
(* Haar function, which is +1 and -1 on a square of the block and 0 off    *)
(* it.  Level-one squares come in Morton order.                            *)

Square(i) ==
    LET j == i % 16
    IN  CASE i < 4 -> [side |-> 8, row |-> 0, col |-> 0, detail |-> i]
          [] i \in 4 .. 15 -> [side |-> 4, row |-> BitOf(i, 1), col |-> BitOf(i, 0),
                               detail |-> i \div 4]
          [] i > 15 -> [side |-> 2, row |-> 2 * BitOf(j, 1) + BitOf(j, 3),
                        col |-> 2 * BitOf(j, 0) + BitOf(j, 2),
                        detail |-> i \div 16]

\* detail is 0 for the mean, 1 across, 2 down and 3 both.
HaarFunction(i) ==
    LET q == Square(i)
        Half(v) == IF v % q.side < q.side \div 2 THEN 1 ELSE -1
    IN  [p \in {p \in 0 .. PIXELS - 1 : /\ (p % DIM) \div q.side = q.col
                                        /\ (p \div DIM) \div q.side = q.row} |->
            (IF q.detail \in {1, 3} THEN Half(p % DIM) ELSE 1)
              * (IF q.detail \in {2, 3} THEN Half(p \div DIM) ELSE 1)]

Haar == [i \in 0 .. COEFFS - 1 |-> HaarFunction(i)]

HaarSign(i, p) == IF p \in DOMAIN Haar[i] THEN Haar[i][p] ELSE 0

Coefficient(samples, i) ==
    MapThenSumSet(LAMBDA p : Haar[i][p] * samples[p], DOMAIN Haar[i]) \div 64

-----------------------------------------------------------------------------
(* Inputs.  A channel is black, or full where a Haar function has the      *)
(* channel's sign: the pixels that drive one coefficient to its extreme.   *)

Signs == {<<1, 1, 1>>, <<-1, -1, -1>>, <<1, -1, 1>>, <<-1, 1, -1>>,
          <<1, 0, 0>>, <<0, -1, 1>>}

\* Of the blocks after the first: far from the first in luma, or in chroma.
FillerSigns == {<<-1, -1, -1>>, <<-1, 1, -1>>}

\* rgb_reader: an eight-bit sample at the depth of the link.
Widen(v) == IF depth = "Ten" THEN 4 * v + (v \div 64) ELSE v

RgbPlanes(i, s) ==
    LET Channel(p, c) == Widen(IF s[c] * HaarSign(i, p) > 0 THEN 255 ELSE 0)
    IN  PlanesOf([p \in 0 .. PIXELS - 1 |-> [c \in 1 .. 3 |-> Channel(p, c)]])

\* The amplitude of a block given as planes, in samples.
PLANE_AMPLITUDE == 100

\* colour_strip_from_planes: the three planes independently of each other.
RawPlanes(i, j, k) ==
    LET Wave(n) == [p \in 0 .. PIXELS - 1 |->
                        IF n = 0 THEN 0 ELSE 64 * PLANE_AMPLITUDE * HaarSign(n, p)]
    IN  [cr |-> Wave(i), cb |-> Wave(j),
         y  |-> [p \in 0 .. PIXELS - 1 |-> 64 * PLANE_AMPLITUDE + Wave(k)[p]]]

-----------------------------------------------------------------------------
NoStrip == [len |-> 0]

StripInit ==
    /\ planes = <<>> /\ blocks = <<>>
    /\ strip = NoStrip

Gather(p) ==
    /\ Len(blocks) < STRIP_BLOCKS
    /\ planes' = Append(planes, p)
    /\ blocks' = Append(blocks, ColourBlock(p))
    /\ UNCHANGED strip

\* colour_strip_blocks: the next block of the strip, from its pixels.
GatherPixels ==
    \/ /\ blocks = <<>>
       /\ \E i \in 0 .. COEFFS - 1, s \in Signs : Gather(RgbPlanes(i, s))
    \/ /\ blocks # <<>>
       /\ \E i \in Fillers, s \in FillerSigns : Gather(RgbPlanes(i, s))

\* colour_strip_from_planes: the next block, from planes.
GatherPlanes ==
    /\ blocks = <<>>
    /\ \E i, j, k \in Lasts : Gather(RawPlanes(i, j, k))

CodeStrip ==
    /\ Len(blocks) = STRIP_BLOCKS
    /\ strip = NoStrip
    /\ strip' = ColourStrip
    /\ UNCHANGED <<planes, blocks>>

StripNext == GatherPixels \/ GatherPlanes \/ CodeStrip

StripSpec ==
    /\ family \in Families /\ StripInit
    /\ [][StripNext /\ UNCHANGED family]_<<family, stripVars>>

-----------------------------------------------------------------------------
(* The dock reads back exactly the coefficients colour_block quantised,    *)
(* in the dialect and at the depth of each family: no picture, not even    *)
(* one that drives a coefficient or a DC difference to its extreme, has a  *)
(* value above the ceiling esc saturates at, and a reader with the         *)
(* ceilings build_config stated ends each field where the coder did.       *)
DockReadsTheStrip == strip # NoStrip => DockReads(strip) = blocks

(* Every coefficient of a block just quantised is within a step of the     *)
(* inner product of the block with its Haar function, and within half a    *)
(* step where the code rounds: transform's butterflies, its layout and     *)
(* Morton scan, and quantize with its clamp to twelve bits lose nothing    *)
(* else.  So the pixels the decoder makes of them, with the steps it was   *)
(* told, are the ones given to within the steps.  (A block is quantised by *)
(* itself, and the blocks after the first are among those that come        *)
(* first.)                                                                 *)
PictureComesBack ==
    Len(blocks) = 1 =>
        /\ \A plane \in {"cr", "cb", "y"}, i \in 0 .. COEFFS - 1 :
            LET step == IF i = 0 THEN DcStep(plane)
                        ELSE IF plane = "y" THEN StepBias(i).step ELSE ChromaAcStep(i)
                err  == Coefficient(planes[1][plane], i) - step * blocks[1][plane][i]
            IN  IF plane = "y" /\ i \in 16 .. 47 THEN -step < err /\ err < step
                ELSE -step <= 2 * err /\ 2 * err < step
        /\ LET shown == BlockRgb(blocks[1])
           IN  \A at \in 0 .. PIXELS - 1 :
                   NearPixel(Uncoloured(planes[1], at), shown[at])
=============================================================================
