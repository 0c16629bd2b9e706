----------------------------- MODULE DockModes ------------------------------
(***************************************************************************)
(* The modes of a dock's connectors as it is told them: set_mode_profile   *)
(* of chimera's api.rs, the set-mode message of vino/cp/mode.rs, the       *)
(* allocation of vino/profile.rs and the mode header its stream opens      *)
(* with, for the connectors a session drives side by side.                 *)
(*                                                                         *)
(* The flags word at offset 42 is the set of its bits, the word at offset  *)
(* 66 a pair.  An error ends the session (ControlSession) and is left out  *)
(* here, as are the brackets and frames around a mode set.                 *)
(***************************************************************************)
EXTENDS DecoderConfig

CONSTANT Connectors     \* the connectors with monitors, counted from 1

ASSUME ModesAssumption == Connectors \subseteq Nat \ {0}

VARIABLES
    mode_active,     \* per connector: SessionState.mode_active
    asked,           \* per connector: the <<width, height, rate>> last asked for
    told,            \* per connector: the last set-mode sent
    opened           \* per connector: the mode header its stream opened with

modeVars == <<mode_active, asked, told, opened>>

Driven == Connectors \cap DOMAIN Dock.endpoints

CeilDiv(a, b) == (a + b - 1) \div b

-----------------------------------------------------------------------------
(* The modes there are.                                                    *)

DisplayMode(clock, h, v, vsync_inv) ==
    [clock |-> clock,
     hdisplay |-> h[1], hsync_start |-> h[2], hsync_end |-> h[3], htotal |-> h[4],
     vdisplay |-> v[1], vsync_start |-> v[2], vsync_end |-> v[3], vtotal |-> v[4],
     flags |-> IF vsync_inv THEN {"vinv"} ELSE {}]

Cta720 == <<<<1280, 1390, 1430, 1650>>, <<720, 725, 730, 750>>>>
Cta1080 == <<<<1920, 2008, 2052, 2200>>, <<1080, 1084, 1089, 1125>>>>

\* set_mode_profile's modes, as <<width, height, rate>>; any other is refused.
Profiles ==
    {<<1280, 720, 60>>, <<1920, 1080, 60>>, <<1920, 1080, 120>>,
     <<2560, 1440, 60>>, <<2560, 1440, 120>>, <<3840, 2160, 60>>}

TimingOf(r) ==
    CASE r[1] = 1280 -> DisplayMode(74250, Cta720[1], Cta720[2], FALSE)
      [] r[1] = 1920 -> DisplayMode(IF r[3] = 60 THEN 148500 ELSE 297000,
                                    Cta1080[1], Cta1080[2], FALSE)
      [] r[1] = 2560 -> DisplayMode(IF r[3] = 60 THEN 241500 ELSE 497750,
                                    <<2560, 2608, 2640, 2720>>,
                                    <<1440, 1443, 1448, IF r[3] = 60 THEN 1481 ELSE 1525>>, TRUE)
      [] r[1] = 3840 -> DisplayMode(533120, <<3840, 3888, 3920, 4000>>,
                                    <<2160, 2163, 2168, 2222>>, TRUE)

Timings == [r \in Profiles |-> TimingOf(r)]

\* kshim's drm_mode_vrefresh rounds up.
Vrefresh(m) == CeilDiv(m.clock * 1000, m.htotal * m.vtotal)

\* kshim's cea_vic: the CTA code of the three timings that have one.
CeaVic(m) ==
    CASE m.clock = 74250 /\ m.hdisplay = 1280 -> 4
      [] m.clock = 148500 /\ m.hdisplay = 1920 -> 16
      [] m.clock = 297000 /\ m.hdisplay = 1920 -> 63
      [] OTHER -> 0

-----------------------------------------------------------------------------
(* The message.                                                            *)

STRIDE_ALIGN == 128

\* render_stride, in 16 bits.
RenderStride(hactive) == ((CeilDiv(hactive, STRIDE_ALIGN) + 1) * STRIDE_ALIGN) % 2^16

SyncFlags(m) == {"base"} \cup m.flags

VIC_ASPECT_16_9 ==
    {3, 4, 5, 7, 9, 11, 13, 15, 16, 18, 19, 20, 22, 24, 26, 28} \cup 30 .. 34
      \cup {36} \cup 38 .. 41 \cup {43} \cup 45 .. 47 \cup {49, 51, 53, 55, 57, 59}

VicWord(vic) ==
    [aspect |-> IF vic \notin 1 .. 59 THEN "none" ELSE IF vic \in VIC_ASPECT_16_9 THEN "16:9" ELSE "4:3",
     vic |-> vic]

\* Mutant: 1080p120 takes the words of 1080p60, whose timing it has but for the clock.
WordsOfTheTiming(m) ==
    CASE m.hdisplay = 1920 -> [sync |-> {"base"}, vic |-> [aspect |-> "16:9", vic |-> 16]]
      [] OTHER -> [sync |-> SyncFlags(m), vic |-> VicWord(CeaVic(m))]

\* mode_profile: the words of the four captured modes, or those derived.
ModeProfile(m) ==
    CASE m.clock = 148500 /\ m.hdisplay = 1920 ->
            [sync |-> {"base"}, vic |-> [aspect |-> "16:9", vic |-> 16]]
      [] m.clock = 297000 /\ m.hdisplay = 1920 ->
            [sync |-> {"base"}, vic |-> [aspect |-> "none", vic |-> 63]]
      [] m.clock \in {241500, 497750} /\ m.hdisplay = 2560 ->
            [sync |-> {"base", "vinv"}, vic |-> [aspect |-> "none", vic |-> 0]]
      [] OTHER -> [sync |-> SyncFlags(m), vic |-> VicWord(CeaVic(m))]

BytesPerPixel(ten_bit) == IF ten_bit THEN 4 ELSE 3

AtMost(limit, n) == IF n > limit THEN limit ELSE n

\* Bytes of a connector's partition on a DL-3x00.
PARTITION == 48 * 2^20

MEASURED_ROWS(h, v) == IF <<h, v>> = <<2560, 1440>> THEN 26331 ELSE 24576

\* Mutant: the rows measured at 24 bits are stated at 30.
WordsOfAnyDepth(h, v, ten_bit) ==
    CASE family = "Ridge" -> [stride |-> 16384, rows |-> 24576]
      [] family = "Ella" ->
            [stride |-> RenderStride(h), rows |-> PARTITION \div (RenderStride(h) * 3)]
      [] family = "Navarro" -> [stride |-> RenderStride(h), rows |-> MEASURED_ROWS(h, v)]

\* Allocation::words of the three families: fixed, derived from the bytes of a
\* connector's partition, measured at 24 bits per pixel.
Words(h, v, ten_bit) ==
    CASE family = "Ridge" -> [stride |-> 16384, rows |-> 24576]
      [] family = "Ella" ->
            [stride |-> RenderStride(h),
             rows   |-> AtMost(2^16 - 1, PARTITION \div (RenderStride(h) * BytesPerPixel(ten_bit)))]
      [] family = "Navarro" ->
            [stride |-> RenderStride(h),
             rows   |-> (MEASURED_ROWS(h, v) * 3) \div BytesPerPixel(ten_bit)]

\* timing_from_drm_mode and set_mode.  The modes are all in order, so no
\* difference saturates.
SetMode(m, ten_bit, dual_nivo) ==
    [hactive |-> m.hdisplay, hblank |-> m.htotal - m.hdisplay,
     hfront |-> m.hsync_start - m.hdisplay, hwidth |-> m.hsync_end - m.hsync_start,
     vactive |-> m.vdisplay, vblank |-> m.vtotal - m.vdisplay,
     vfront |-> m.vsync_start - m.vdisplay, vwidth |-> m.vsync_end - m.vsync_start,
     flags |-> ModeProfile(m).sync \cup (IF ten_bit THEN {"st2084"} ELSE {})
                                   \cup (IF dual_nivo THEN {"dual"} ELSE {}),
     refresh |-> Vrefresh(m), vic_word |-> ModeProfile(m).vic,
     alloc |-> Words(m.hdisplay, m.vdisplay, ten_bit),
     format |-> IF ten_bit THEN "NM30" ELSE "NM24",
     depth |-> IF ten_bit THEN 30 ELSE 24,
     clock |-> m.clock \div 10]

\* stream_mode_header: the surface the codec tiles, in whole strips.
StreamModeHeader(r) ==
    LET pad(value, unit) == CeilDiv(value, unit) * unit
    IN  ModeHeader(pad(r[1], 8 * Dock.strip_blocks_x), pad(r[2], 8 * (16 \div Dock.strip_blocks_x)),
                   TenBit)

-----------------------------------------------------------------------------
ModesInit ==
    /\ mode_active = [c \in Driven |-> FALSE]
    /\ asked = [c \in Driven |-> <<0, 0, 0>>]
    /\ told = [c \in Driven |-> [flags |-> {}]]
    /\ opened = [c \in Driven |-> ModeHeader(0, 0, FALSE)]

\* program_mode of every connector requests names, with the others as active is.
Program(requests, active) ==
    LET Now(c) == c \in DOMAIN requests
    IN  /\ \A c \in DOMAIN requests : requests[c] \in DOMAIN Timings
        /\ asked' = [c \in Driven |-> IF Now(c) THEN requests[c] ELSE asked[c]]
        /\ told' = [c \in Driven |->
                       IF Now(c) THEN SetMode(Timings[requests[c]], TenBit, FALSE)
                       ELSE told[c]]
        /\ opened' = [c \in Driven |-> IF Now(c) THEN StreamModeHeader(requests[c]) ELSE opened[c]]
        /\ mode_active' = [c \in Driven |-> Now(c) \/ active[c]]

\* activate_mode: one connector, not beside another on a dock that
\* reconfigures itself whole.
ActivateMode(c, r) ==
    /\ ~(Dock.dock_wide /\ \E d \in Driven \ {c} : mode_active[d])
    /\ Program([d \in {c} |-> r], mode_active)

\* activate_modes: whatever is lit comes down, and all of the set is programmed.
ActivateModes(requests) == Program(requests, [c \in Driven |-> FALSE])

\* deactivate_mode: markers, no mode.
DeactivateMode(c) ==
    /\ mode_active[c]
    /\ mode_active' = [mode_active EXCEPT ![c] = FALSE]
    /\ UNCHANGED <<asked, told, opened>>

ModesNext ==
    \/ \E c \in Driven :
          DeactivateMode(c) \/ \E r \in DOMAIN Timings : ActivateMode(c, r)
    \/ \E on \in SUBSET Driven : \E requests \in [on -> DOMAIN Timings] :
          on # {} /\ ActivateModes(requests)

ModesSpec ==
    /\ family \in Families /\ ModesInit
    /\ [][ModesNext /\ UNCHANGED family]_<<family, modeVars>>

-----------------------------------------------------------------------------
\* Every lit connector runs what was asked for: the totals, the clock and the
\* rate of its set-mode give the rate asked for, the captured words are those
\* its timing derives, and the buffer format, the colour depth, the transfer
\* curve, the format of the decoder's header and the ceilings of its tables
\* all state one depth.  The header covers the picture by less than a strip.
ModeIsAsAsked ==
    \A c \in Driven : mode_active[c] =>
        LET t == told[c]
            r == asked[c]
            pixels == (t.hactive + t.hblank) * (t.vactive + t.vblank)
            deep == t.format = "NM30"
        IN  /\ <<t.hactive, t.vactive, t.refresh>> = r
            /\ (t.clock * 10000 + pixels \div 2) \div pixels = r[3]
            /\ t.hfront + t.hwidth < t.hblank /\ t.vfront + t.vwidth < t.vblank
            /\ "vinv" \in t.flags <=> "vinv" \in Timings[r].flags
            /\ t.vic_word = VicWord(CeaVic(Timings[r]))
            /\ (t.depth = 30) = deep /\ ("st2084" \in t.flags) = deep
            /\ (opened[c].format = 3) = deep
            /\ Ceilings(Dock.tables, BuildConfig(Dock.tables, deep)).dc = (IF deep THEN 12 ELSE 10)
            /\ opened[c].width - r[1] \in 0 .. 8 * Dock.strip_blocks_x - 1
            /\ opened[c].height - r[2] \in 0 .. 8 * (16 \div Dock.strip_blocks_x) - 1

\* Capabilities.max_connector_clock_khz: what the dock is known to carry.
MaxClock == CASE family = "Ella" -> 148500 [] family = "Ridge" -> 655350 [] family = "Navarro" -> 699500

\* The dock has somewhere to put every picture of a lit connector's ring, if
\* the mode is one it is known to carry: the stride it is told holds a row of
\* the tiled surface, the rows hold the surface as many times as the ring has
\* buffers, and at either depth the whole is no more than the partition it was
\* measured or derived from at 24 bits.
RingIsAllocated ==
    \A c \in Driven : mode_active[c] /\ 10 * told[c].clock <= MaxClock =>
        LET a == told[c].alloc
            partition == IF family = "Ella" THEN PARTITION
                         ELSE IF family = "Ridge" THEN 16384 * 24576 * 3
                         ELSE RenderStride(asked[c][1]) * MEASURED_ROWS(asked[c][1], asked[c][2]) * 3
        IN  /\ a.stride >= opened[c].width
            /\ a.rows >= Dock.dock_buffers * opened[c].height
            /\ a.stride * a.rows * (IF told[c].format = "NM30" THEN 4 ELSE 3) <= partition

\* On a dock with several connectors to a video endpoint, two that are lit on
\* one endpoint have both been told that they share it.
SharersAreTold ==
    family = "Navarro" =>
        \A c, d \in Driven :
            c # d /\ Dock.endpoints[c] = Dock.endpoints[d] /\ mode_active[c] /\ mode_active[d]
                => "dual" \in told[c].flags /\ "dual" \in told[d].flags
=============================================================================
