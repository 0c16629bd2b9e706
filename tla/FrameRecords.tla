---------------------------- MODULE FrameRecords ----------------------------
(***************************************************************************)
(* From strips to the records of a frame: chimera/vino/video/mod.rs and    *)
(* video/haar/records.rs.  A frame's strips come from the debt OwedRects   *)
(* scanned (HeadScanout::encode), from a client's clip                     *)
(* (colour_frame_ep08_damage), or are the whole black surface that opens a *)
(* stream (black_frame_ep08).  They are put in the dock's producer order,  *)
(* packed into records under the stride cap, and closed with the record    *)
(* that names a ring slot; on Navarro a map of size classes goes with      *)
(* them, which the kernel's driver sends and chimera does not.  A strip is *)
(* its place and its length; StripCodec has its bits.                      *)
(***************************************************************************)
EXTENDS OwedRects, SequencesExt

CONSTANTS
    Bases, Others, \* lengths a frame's strips have, and one strip apart
    OddOnes,       \* the strips that may be that one
    MAX_FRAMES     \* frames sent before the model stops

ASSUME FrameAssumption ==
    /\ Bases \subseteq 16 .. 65535 /\ Others \subseteq 16 .. 65535
    /\ OddOnes \subseteq 0 .. TilesX * TilesY - 1
    /\ MAX_FRAMES \in Nat

VARIABLES
    geometry,    \* the dock
    coords,      \* the strips selected for the next frame
    strips,      \* the frame's strips, raster ordered
    frame,       \* its records, in allocation chunks; or why there are none
    remembered,  \* navarro_strip_params: the size class of every strip
    onscreen,    \* the length of the strip last sent to each place
    seq,         \* frames presented
    closing      \* the record that closed the last of them

frameVars == <<geometry, coords, strips, frame, remembered, onscreen, seq, closing>>
allVars == <<scanVars, frameVars>>

Docks == {"Ridge", "Navarro", "Ella"}

\* PROFILE_*.geometry(): what the packing depends on.
Geometry(d) ==
    [interlaced |-> d # "Ridge",
     parity     |-> d = "Ridge",
     wide       |-> d = "Navarro"]  \* strips of 128 x 8, not 64 x 16

-----------------------------------------------------------------------------
(* The order strips are sent in.                                           *)

ELLA_ROWS_1080P ==
    <<0, 3, 5, 7, 9, 11, 13, 16, 18, 21, 23, 25, 27, 29, 31, 33, 35, 37, 39, 41,
      43, 44, 46, 48, 50, 51, 53, 55, 56, 58, 60, 61, 63, 65, 66, 1, 2, 4, 6, 8,
      10, 12, 14, 15, 17, 19, 20, 22, 24, 26, 28, 30, 32, 34, 36, 38, 40, 42, 45,
      47, 49, 52, 54, 57, 59, 62, 64, 67>>

\* A run of the bands a, a + 2, ... b: most of the producers' tables.
Every2(a, b) == [k \in 1 .. ((b - a) \div 2) + 1 |-> a + 2 * (k - 1)]

NAVARRO_PROLOGUE_ROWS ==
    Every2(0, 28) \o Every2(29, 53) \o <<54>> \o Every2(57, 59) \o Every2(60, 100)
      \o Every2(1, 27) \o Every2(30, 52) \o <<55, 56, 58>> \o Every2(61, 101)
      \o <<102, 103>> \o Every2(110, 178) \o <<100>>
      \o [k \in 1 .. 5 |-> 103 + k] \o Every2(109, 179)

NAVARRO_ORDINARY_ROWS ==
    <<1>> \o Every2(2, 26) \o Every2(29, 63) \o Every2(64, 72) \o Every2(73, 99)
      \o <<0>> \o Every2(3, 27) \o Every2(28, 62) \o Every2(65, 71)
      \o Every2(74, 102) \o <<99, 101, 102>> \o Every2(103, 117)
      \o Every2(118, 122) \o Every2(125, 141) \o Every2(144, 178) \o <<101>>
      \o Every2(104, 116) \o Every2(119, 123) \o Every2(124, 142)
      \o Every2(143, 179)

\* The strips of run r (from 0) of a producer's table, as x0 and x1.
RunSpan(variant, r) ==
    CASE variant = "ordinary" /\ r \in {50, 101}  -> <<0, 8>>
      [] variant = "ordinary" /\ r \in {102, 104} -> <<8, 20>>
      [] variant = "ordinary" /\ r = 103          -> <<0, 4>>
      [] variant = "ordinary" /\ r = 143          -> <<4, 20>>
      [] variant = "prologue" /\ r = 51           -> <<0, 4>>
      [] variant = "prologue" /\ r = 139          -> <<4, 20>>
      [] OTHER                                    -> <<0, 20>>

\* The runs one after the other, each without the strips outside its span.
NavarroOrder(variant) ==
    LET rows == IF variant = "ordinary" THEN NAVARRO_ORDINARY_ROWS
                                        ELSE NAVARRO_PROLOGUE_ROWS
        places == [k \in 1 .. 20 * Len(rows) |->
                    [run |-> (k - 1) \div 20, x |-> (k - 1) % 20]]
        Within(p) == LET span == RunSpan(variant, p.run)
                     IN  span[1] <= p.x /\ p.x < span[2]
        taken == SelectSeq(places, Within)
    IN  [k \in DOMAIN taken |-> rows[taken[k].run + 1] * 20 + taken[k].x + 1]

\* Where a band stands in the table; bands past its end come last.
EllaRank ==
    [band \in 0 .. 255 |->
        IF \E k \in DOMAIN ELLA_ROWS_1080P : ELLA_ROWS_1080P[k] = band
        THEN CHOOSE k \in DOMAIN ELLA_ROWS_1080P : ELLA_ROWS_1080P[k] = band
        ELSE 256]

EllaBefore(a, b) ==
    \/ EllaRank[a.y % 256] < EllaRank[b.y % 256]
    \/ EllaRank[a.y % 256] = EllaRank[b.y % 256] /\ a.x < b.x

Interlaced(list) ==
    SelectSeq(list, LAMBDA s : s.y % 2 = 0) \o SelectSeq(list, LAMBDA s : s.y % 2 = 1)

\* variant is "none", or the carrier ("prologue", "ordinary") being sent.
SendingOrder(g, variant, list) ==
    CASE g.interlaced /\ g.wide /\ Len(list) = 3600 /\ variant # "none" ->
            LET order == NavarroOrder(variant)
            IN  [k \in 1 .. Len(order) |-> list[order[k]]]
      [] g.interlaced /\ ~g.wide -> SortSeq(list, EllaBefore)
      [] g.interlaced /\ g.wide /\ (Len(list) # 3600 \/ variant = "none") ->
            Interlaced(list)
      [] ~g.interlaced -> list

-----------------------------------------------------------------------------
(* Packing.                                                                *)

STRIDE_CAP == 4080
CHUNK == 16384

Aligned(n) == ((n + 15) \div 16) * 16

\* Mutant: the prologue is cut once more than the vendor's.
ProducerBoundariesEvery1024(variant) ==
    CASE variant = "prologue" -> {1024, 2048, 2764, 3072}
      [] variant = "ordinary" -> {2032, 2048, 2804}
      [] variant = "none"     -> {}

ProducerBoundaries(variant) ==
    CASE variant = "prologue" -> {1024, 2048, 2764}
      [] variant = "ordinary" -> {2032, 2048, 2804}
      [] variant = "none"     -> {}

\* Mutant: the length word in front of the strip is not counted.
OverCapWithoutLength(size, s) == Aligned(size + s.len) > STRIDE_CAP

OverCap(size, s) == Aligned(size + 2 + s.len) > STRIDE_CAP

\* The record that starts at list[from], as its last strip and its bytes;
\* at is the strip being looked at, size the bytes so far.
RECURSIVE Fill(_, _, _, _, _, _)
Fill(g, variant, list, from, at, size) ==
    IF \/ at > Len(list)
       \/ g.parity /\ list[at].y # list[from].y
       \/ g.interlaced /\ at > from /\ at - 1 \in ProducerBoundaries(variant)
       \/ OverCap(size, list[at])
    THEN [last |-> at - 1, size |-> size]
    ELSE Fill(g, variant, list, from, at + 1, size + 2 + list[at].len)

\* record_header, of an image record: the stride less four is its size.
ImageRecord(g, list, from, fill) ==
    [strips |-> SubSeq(list, from, fill.last),
     stride |-> Aligned(fill.size),
     aux    |-> Aligned(fill.size) - fill.size,
     parity |-> IF g.parity THEN list[from].y % 2 ELSE 0]

StrideSum(records) ==
    FoldFunction(LAMBDA r, sum : r.stride + sum, 0, records)

\* Records from so.i on, into the chunk so.chunk until the next would take it
\* past CHUNK.  A strip too long for a record of its own is EOVERFLOW.
RECURSIVE FillChunk(_, _, _, _)
FillChunk(g, variant, list, so) ==
    IF so.i > Len(list) THEN so
    ELSE LET fill == Fill(g, variant, list, so.i, so.i, 16)
             r    == ImageRecord(g, list, so.i, fill)
         IN  IF fill.last < so.i THEN [so EXCEPT !.ok = FALSE]
             ELSE IF so.chunk # <<>> /\ StrideSum(so.chunk) + r.stride > CHUNK THEN so
             ELSE FillChunk(g, variant, list,
                            [so EXCEPT !.i = fill.last + 1, !.chunk = Append(@, r)])

\* All the chunks, after so.chunks; an error leaves no frame.
RECURSIVE Pack(_, _, _, _)
Pack(g, variant, list, so) ==
    IF so.i > Len(list) THEN [ok |-> TRUE, chunks |-> so.chunks]
    ELSE LET c == FillChunk(g, variant, list, [ok |-> TRUE, i |-> so.i, chunk |-> <<>>])
         IN  IF ~c.ok THEN [ok |-> FALSE, chunks |-> <<>>]
             ELSE Pack(g, variant, list,
                       [i |-> c.i, chunks |-> Append(so.chunks, c.chunk)])

\* frame_records_with_boundary.
FrameRecordsOf(d, variant, list) ==
    LET g == Geometry(d)
    IN  Pack(g, variant, SendingOrder(g, variant, list), [i |-> 1, chunks |-> <<>>])

-----------------------------------------------------------------------------
(* What is read back off the records.                                      *)

\* framed_strip_extents, of each chunk: a length under 16 is padding.
FramedStripExtents(chunks) ==
    LET Walk(r) ==
            LET stops == {k \in DOMAIN r.strips : r.strips[k].len < 16}
            IN  IF stops = {} THEN r.strips
                ELSE SubSeq(r.strips, 1, Min(stops) - 1)
        InChunk(c) == FlattenSeq([k \in DOMAIN c |-> Walk(c[k])])
    IN  FlattenSeq([k \in DOMAIN chunks |-> InChunk(chunks[k])])

\* record_stats: records and bytes, as their strides say.
RecordCount(chunks) == FoldFunction(LAMBDA c, sum : Len(c) + sum, 0, chunks)

FrameBytes(chunks) == FoldFunction(LAMBDA c, sum : StrideSum(c) + sum, 0, chunks)

StripSizeClass(len) == len \div 512

\* Mutant: the map is rebuilt from the strips of this frame alone.
StripParamsAfresh(map, extents) ==
    [s \in Strips |->
        IF \E k \in DOMAIN extents : <<extents[k].x, extents[k].y>> = s
        THEN StripSizeClass((CHOOSE e \in ToSet(extents) : <<e.x, e.y>> = s).len)
        ELSE 0]

\* navarro_strip_params: the map carried over, with this frame's strips.
StripParams(map, extents) ==
    [s \in Strips |->
        IF \E k \in DOMAIN extents : <<extents[k].x, extents[k].y>> = s
        THEN StripSizeClass((CHOOSE e \in ToSet(extents) : <<e.x, e.y>> = s).len)
        ELSE map[s]]

PARAM_BANDS_PER_TLV == 8
PARAM_TLVS_PER_RECORD == 15

\* The map's records: each a sequence of sub-records of at most eight bands,
\* fifteen in the first record and the rest in the second.
ParamRecords(bands) ==
    LET tlvs == (bands + PARAM_BANDS_PER_TLV - 1) \div PARAM_BANDS_PER_TLV
        Tlv(k) == [band  |-> PARAM_BANDS_PER_TLV * (k - 1),
                   count |-> Min({PARAM_BANDS_PER_TLV,
                                  bands - PARAM_BANDS_PER_TLV * (k - 1)})]
        all == [k \in 1 .. tlvs |-> Tlv(k)]
        first == Min({tlvs, PARAM_TLVS_PER_RECORD})
    IN  SelectSeq(<<SubSeq(all, 1, first), SubSeq(all, first + 1, tlvs)>>,
                  LAMBDA r : r # <<>>)

-----------------------------------------------------------------------------
(* The records around a frame.                                             *)

RingPhase(n) == (n % 3) * 2

ELLA_RING_SLOTS == 3

\* Mutant: the ring is one slot longer than the dock's.
ClosingOnALongRing(d, n) ==
    [filled |-> RingPhase(n), next |-> ((n + 1) % 4) * 2, number |-> (n + 1) % 256]

\* frame_trailer, ella_frame_close, navarro_frame_trailer: the slot frame n
\* filled, the one the next will fill (Navarro leaves that to the opener of
\* the frame itself), and the frame's number in a byte.
Closing(d, n) ==
    CASE d = "Ridge"   -> [filled |-> RingPhase(n), next |-> (RingPhase(n) + 2) % 6,
                           number |-> (n + 1) % 256]
      [] d = "Ella"    -> [filled |-> n % ELLA_RING_SLOTS,
                           next   |-> (n + 1) % ELLA_RING_SLOTS,
                           number |-> (n + 1) % 256]
      [] d = "Navarro" -> [filled |-> RingPhase(n), number |-> (n + 1) % 256]

\* navarro_frame_opener: the slot frame n will fill and the one it follows.
Opening(n) == [fills |-> RingPhase(n), follows |-> (RingPhase(n) + 4) % 6]

-----------------------------------------------------------------------------
(* The frames.                                                             *)

\* A picture: all its strips one length, but for one of them.
Pictures == {[base |-> b, odd |-> o, len |-> l] :
                b \in Bases, o \in OddOnes, l \in Others}

LenIn(picture, s) ==
    IF s[1] + TilesX * s[2] = picture.odd THEN picture.len ELSE picture.base

\* The selected strips in raster order, as the encoders list them.
RasterStrips(picture) ==
    LET At(k) == <<k % TilesX, k \div TilesX>>
        places == SelectSeq([k \in 1 .. TilesX * TilesY |-> At(k - 1)],
                            LAMBDA s : s \in coords)
    IN  [k \in DOMAIN places |->
            [x |-> places[k][1], y |-> places[k][2],
             len |-> LenIn(picture, places[k])]]

\* black_frame_ep08: every strip of the surface, all zero coefficients.
BLACK_STRIP == 54

BlackSurface(across, bands) ==
    [k \in 1 .. across * bands |->
        [x |-> (k - 1) % across, y |-> (k - 1) \div across, len |-> BLACK_STRIP]]

NoFrame == [ok |-> TRUE, chunks |-> <<>>]

FrameInit ==
    /\ ScanInit
    /\ geometry \in Docks
    /\ coords = {} /\ strips = <<>> /\ frame = NoFrame
    /\ remembered = [s \in Strips |-> 0]
    /\ onscreen = [s \in Strips |-> BLACK_STRIP]
    /\ seq = 0
    /\ closing = Closing(geometry, 2)  \* as ella_stream_open: slot 0 follows the last

Scan == ScanNext /\ UNCHANGED frameVars

Select(selected) ==
    /\ seq < MAX_FRAMES /\ coords = {}
    /\ coords' = selected
    /\ strips' = <<>> /\ frame' = NoFrame
    /\ UNCHANGED <<geometry, remembered, onscreen, seq, closing>>

\* HeadScanout::encode, the strips of the plan owed_rects came to: none for
\* Plan::Idle, all of them when it answered None.
SelectDebt ==
    /\ \/ result = "rects" /\ Select(DamageStripCoords(rects))
       \/ result = "none" /\ Select(Strips)
    /\ owed' = {} /\ rects' = {} /\ tx' = 0 /\ ty' = 0
    /\ result' = "done"

\* colour_frame_ep08_damage with one clip.
SelectClip ==
    /\ result = "done"
    /\ \E selected \in {DamageStripCoords({clip}) : clip \in Rects} :
        /\ selected # {}
        /\ Select(selected)
    /\ UNCHANGED scanVars

\* Encode the selected strips and put the frame on the wire, or fail.
Present(picture) ==
    LET list == RasterStrips(picture)
        f    == FrameRecordsOf(geometry, "none", list)
        extents == FramedStripExtents(f.chunks)
    IN  /\ coords # {}
        /\ coords' = {}
        /\ strips' = list
        /\ frame' = f
        /\ UNCHANGED <<scanVars, geometry>>
        /\ \/ /\ ~f.ok
              /\ UNCHANGED <<remembered, onscreen, seq, closing>>
           \/ /\ f.ok
              /\ remembered' = IF geometry = "Navarro" THEN StripParams(remembered, extents)
                                                      ELSE remembered
              /\ onscreen' = [s \in Strips |->
                    IF s \in coords THEN LenIn(picture, s) ELSE onscreen[s]]
              /\ closing' = Closing(geometry, seq)
              /\ seq' = seq + 1

\* The black carrier of a whole surface, as a stream opens.  Its grid is the
\* dock's and not the model's, so no other frame follows it here.
PresentCarrier ==
    /\ result = "scanning" /\ owed = {} /\ tx = 0 /\ ty = 0
    /\ \E variant \in {"prologue", "ordinary"} :
        LET list == CASE geometry = "Ridge"   -> BlackSurface(40, 90)
                      [] geometry = "Navarro" -> BlackSurface(20, 180)
                      [] geometry = "Ella"    -> BlackSurface(30, 68)
        IN  /\ strips' = list
            /\ frame' = FrameRecordsOf(geometry, variant, list)
            /\ result' = variant
    /\ UNCHANGED <<owed, tx, ty, rects, geometry, coords, remembered, onscreen, seq, closing>>

FrameNext ==
    \/ Scan
    \/ SelectDebt
    \/ SelectClip
    \/ \E picture \in Pictures : Present(picture)
    \/ PresentCarrier

FrameSpec == FrameInit /\ [][FrameNext]_allVars

-----------------------------------------------------------------------------
(* A frame that is sent carries every selected strip exactly once, in the  *)
(* x order within its band the wire format requires, whatever producer     *)
(* order, split rows and flushes went between; every record is aligned,    *)
(* within the stride cap, with its padding counted in aux, and of a single *)
(* band where the dock reads the band's parity from the record.  A frame   *)
(* is refused only when one of its strips cannot have a record at all.     *)
DockReadsTheFrame ==
    LET sent == FramedStripExtents(frame.chunks)
    IN  IF ~frame.ok
        THEN \E k \in DOMAIN strips : 18 + strips[k].len > STRIDE_CAP
        ELSE /\ Len(sent) = Len(strips)
             /\ ToSet(sent) = ToSet(strips)
             /\ \A k \in 2 .. Len(sent) : sent[k - 1].y = sent[k].y =>
                    sent[k - 1].x < sent[k].x
             /\ \A c \in ToSet(frame.chunks) : \A k \in DOMAIN c :
                    LET r == c[k]
                        Of(len) == {n \in DOMAIN r.strips : r.strips[n].len = len}
                        bytes == 16 + MapThenSumSet(
                                    LAMBDA len : (2 + len) * Cardinality(Of(len)),
                                    {r.strips[n].len : n \in DOMAIN r.strips})
                    IN  /\ r.strips # <<>>
                        /\ r.stride <= STRIDE_CAP /\ r.stride % 16 = 0
                        /\ r.aux < 16 /\ r.stride = bytes + r.aux
                        /\ Geometry(geometry).parity =>
                             \A n \in DOMAIN r.strips : /\ r.strips[n].y = r.strips[1].y
                                                        /\ r.strips[n].y % 2 = r.parity

(* The size class the Navarro map announces for a place is that of the     *)
(* strip last sent there, also when later frames left the place alone and  *)
(* when a frame was refused in between.                                    *)
MapDescribesTheSurface ==
    geometry = "Navarro" =>
        \A s \in Strips : remembered[s] = StripSizeClass(onscreen[s])

(* Each frame fills the slot the dock was told to expect: the one the      *)
(* frame before named as next, or on Navarro the one its own opener names  *)
(* as following the slot filled last.  A refused frame takes no slot.      *)
SlotsFollowOneAnother ==
    [][seq' # seq =>
        IF geometry = "Navarro"
        THEN /\ Opening(seq).fills = closing'.filled
             /\ Opening(seq).follows = closing.filled
        ELSE closing'.filled = closing.next]_allVars

(* The black carriers have the shape captured from the vendor's driver: on *)
(* Navarro 52 image records, 53 in the ordinary one, with a map of 120 and *)
(* 60 bands; 203040 bytes of image on Ridge.                               *)
CarriersMatchTheCapture ==
    result \in {"prologue", "ordinary"} =>
        CASE geometry = "Navarro" ->
                /\ RecordCount(frame.chunks) = IF result = "prologue" THEN 52 ELSE 53
                /\ LET map == ParamRecords(180)
                   IN  /\ Len(map) = 2
                       /\ Last(map[1]).band + Last(map[1]).count = 120
                       /\ Last(map[2]).band + Last(map[2]).count = 180
          [] geometry = "Ridge" -> FrameBytes(frame.chunks) = 203040
          [] geometry = "Ella"  -> frame.ok
=============================================================================
