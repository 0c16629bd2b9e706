--------------------------- MODULE DecoderConfig ----------------------------
(***************************************************************************)
(* What a dock is told of the pictures it will be sent, before the first:  *)
(* the decoder configuration a stream opens with (vino/video_arm.rs), and  *)
(* the facts of each family's profile it is built from (vino/profile.rs).  *)
(*                                                                         *)
(* A code table is the first half of its record, counted from 0; the other *)
(* half repeats it.  What the dock makes of a table is external.           *)
(***************************************************************************)
EXTENDS Integers, Sequences

VARIABLE family     \* of the dock, as its identity descriptor says

\* tables          the dialect of the code tables, and of the encoder
\* hdr_capable     it is driven at ten bits per channel
\* endpoints       the video endpoint of each connector
\* dock_wide       a mode set reconfigures every connector
\* strip_blocks_x  blocks across in a strip of sixteen
\* dock_buffers    pictures in the ring of a connector
LINK_ELLA ==
    [tables |-> "Narrow", hdr_capable |-> FALSE, endpoints |-> <<2, 2>>,
     dock_wide |-> FALSE, strip_blocks_x |-> 8, dock_buffers |-> 3]

LINK_RIDGE ==
    [tables |-> "Wide", hdr_capable |-> FALSE, endpoints |-> <<8, 11>>,
     dock_wide |-> FALSE, strip_blocks_x |-> 8, dock_buffers |-> 2]

LINK_NAVARRO ==
    [tables |-> "Wide", hdr_capable |-> TRUE, endpoints |-> <<8, 10, 8, 10>>,
     dock_wide |-> TRUE, strip_blocks_x |-> 16, dock_buffers |-> 3]

Links == [Ella |-> LINK_ELLA, Ridge |-> LINK_RIDGE, Navarro |-> LINK_NAVARRO]

Families == DOMAIN Links

Dock == Links[family]

\* Session::open: the link is driven as deep as the dock can carry.
TenBit == Dock.hdr_capable

-----------------------------------------------------------------------------
\* The three tables that code the planes: luma AC, chroma AC and DC.  The
\* other two are the same whatever is coded.
CODE_TABLES ==
    LET ten == <<0, 6, 0, 28, 0, 120, 0, 496, 0, 2016, 0, 8128, 0, 32640, 0, 130816, 0, 523776,
                 1048576, 0, 0, 0, 0, 0>>
    IN  <<<<0, 6, 0, 28, 0, 120, 0, 496, 0, 2016, 0, 8128, 0, 32640, 0, 130816, 262144, 0, 0, 0,
            0, 0, 0, 0>>, ten, ten>>

NARROW_CODE_TABLES ==
    LET ten == <<1, 0, 2, 0, 4, 0, 8, 0, 16, 0, 32, 0, 64, 0, 128, 0, 256, 0, 512, 1024>>
    IN  <<<<1, 0, 2, 0, 4, 0, 8, 0, 16, 0, 32, 0, 64, 0, 128, 0, 256, 512>>, ten, ten>>

\* code_table: an entry for each natural and a terminator behind the last.
CodeTable(naturals) ==
    [i \in 1 .. 24 |->
        CASE i % 2 = 0 /\ i \div 2 <= naturals -> 2^(i \div 2) * (2^(i \div 2 + 1) - 1)
          [] i = 2 * naturals + 1 -> 2^(2 * naturals + 2)
          [] OTHER -> 0]

\* Mutant: the chroma table of a deep link is left as it is.
ShallowChroma == <<10, 9, 11>>

DEEP_NATURALS == <<10, 11, 11>>

\* The step of each plane for a run of coefficients, as <<cr, cb, y>>.
QUANT_TABLE ==
    <<10, 1, 1, 0,
      64, 64, 16,  16, 16, 16,  16, 16, 16,  32, 32, 32,  1, 1, 1,
      16, 16, 4,   16, 16, 4,   32, 32, 8,   1, 1, 1,
      32, 32, 2,   32, 32, 2,   64, 64, 4,   0>>

\* build_config, without its header and tail.
BuildConfig(tables, ten_bit) ==
    [codes |-> [k \in 1 .. 3 |->
                   IF tables = "Narrow" THEN NARROW_CODE_TABLES[k]
                   ELSE IF ten_bit THEN CodeTable(DEEP_NATURALS[k])
                   ELSE CODE_TABLES[k]],
     quant |-> QUANT_TABLE]

\* mode_header: what is scanned out and in which format; the code says it twice.
ModeHeader(width, height, ten_bit) ==
    [format |-> IF ten_bit THEN 3 ELSE 2, width |-> width, height |-> height]

-----------------------------------------------------------------------------
(* The dock (external).                                                    *)

\* A table ends in 2 to the power of its ceiling, twice over in a wide one.
Ceiling(tables, codes) ==
    LET end == CHOOSE i \in DOMAIN codes :
                   codes[i] # 0 /\ \A j \in DOMAIN codes : j > i => codes[j] = 0
    IN  CHOOSE c \in 0 .. 15 : codes[end] = IF tables = "Wide" THEN 2^(2 * c) ELSE 2^c

Ceilings(tables, config) ==
    [luma   |-> Ceiling(tables, config.codes[1]),
     chroma |-> Ceiling(tables, config.codes[2]),
     dc     |-> Ceiling(tables, config.codes[3])]

\* Where the steps of coefficient i stand: DC and the three of the third
\* level, the bands of the second level and those of the first.
StepsAt(i) ==
    CASE i < 4 -> 4 + 3 * i
      [] i \in 4 .. 15 -> 19 + 3 * (i \div 4 - 1)
      [] i > 15 -> 31 + 3 * (i \div 16 - 1)

StepOf(config, plane, i) ==
    config.quant[StepsAt(i) + CASE plane = "cr" -> 1 [] plane = "cb" -> 2 [] plane = "y" -> 3]
=============================================================================
