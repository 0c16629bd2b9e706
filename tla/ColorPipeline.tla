--------------------------- MODULE ColorPipeline ----------------------------
(***************************************************************************)
(* The colour transform of a Revdi card (module/color.rs): what            *)
(* atomic_flush builds from the CTM and GAMMA_LUT of every commit, and     *)
(* what GRABPIX makes of a pixel with it.                                  *)
(*                                                                         *)
(* The code's channels have 256 levels, its fixed point 2^16 units and its *)
(* coefficients 2^32: here N levels, N * N units, and Fine times as many   *)
(* for a coefficient, so that the step between two levels is N + 1 as 257  *)
(* is.  Channels are 1, 2, 3 for red, green, blue; a matrix is a function  *)
(* of row and column.                                                      *)
(***************************************************************************)
EXTENDS Integers, Sequences

CONSTANTS
    N,          \* levels of a channel, LUT_LEN
    Fine,       \* units of a programmed coefficient in one of Q
    COEF_MAX,   \* the largest coefficient that fits, i32::MAX
    Matrices,   \* the CTM blobs a compositor may program
    Ramps,      \* the GAMMA_LUT blobs: sequences of entries, each of three
    Absent      \* a property without a blob; no pipeline

VARIABLES
    ctm, lut,     \* the properties of the last commit
    color,        \* EvdiDrmData.color: the pipeline built from them
    on            \* the CRTC is on: there is something to grab

colorVars == <<ctm, lut, color, on>>

Channels == 1 .. 3
Levels == 0 .. N - 1
Q == N * N
MAX == Q - 1
Step == N + 1

\* A matrix, a ramp per channel, and the two forms of a pipeline.
Matrix == [Channels \X Channels -> Int]
Gamma == [Channels -> [Levels -> Int]]
Pipelines ==
    [kind : {"fused"}, table : Gamma]
      \cup [kind : {"mixed"}, ctm : Matrix, gamma : Gamma \cup {Absent}]

ASSUME ColorAssumption ==
    /\ N \in Nat /\ N >= 2 /\ N % 2 = 0
    /\ Fine \in Nat \ {0} /\ COEF_MAX \in Nat
    /\ Matrices \subseteq Matrix /\ Ramps \subseteq Seq([Channels -> Int])
    /\ Absent \notin Matrix \cup Gamma \cup Pipelines \cup Ramps

InRange(v, lo, hi) == IF v < lo THEN lo ELSE IF v > hi THEN hi ELSE v

\* A level as fixed point: 0 is 0 and the last is MAX exactly.
Expand(v) == v * Step

\* Mutant: rounding by the number of levels.
NarrowByLevels(v) == InRange((InRange(v, 0, MAX) + N \div 2) \div N, 0, N - 1)

\* ... and back, rounded.
Narrow(v) == InRange((InRange(v, 0, MAX) + N \div 2) \div Step, 0, N - 1)

\* A ramp at a fixed-point input, interpolated between its neighbours.
Sample(table, v) ==
    LET at == InRange(v, 0, MAX)
        idx == at \div Step
        frac == at % Step
        Entry(i) == table[InRange(i, 0, N - 1)]
    IN  (Entry(idx) * (Step - frac) + Entry(idx + 1) * frac + N \div 2) \div Step

\* read_lut: a blob that is too short goes on as the identity.
ReadLut(blob) ==
    [c \in Channels |-> [i \in Levels |-> IF i < Len(blob) THEN blob[i + 1][c] ELSE Expand(i)]]

\* to_q16: shifted, and saturated to what fits.
ToQ16(v) == InRange(v \div Fine, -COEF_MAX - 1, COEF_MAX)

\* A product back to fixed point, to the nearest.
Scaled(acc) == InRange((acc + Q \div 2) \div Q, 0, MAX)

\* Collapse a diagonal and a ramp, either of them absent, into a table of
\* levels per channel.
Fuse(diag, gamma) ==
    [kind |-> "fused",
     table |-> [c \in Channels |-> [i \in Levels |->
                  LET gained == IF diag = Absent THEN Expand(i)
                                ELSE Scaled(diag[c, c] * Expand(i))
                  IN  Narrow(IF gamma = Absent THEN gained ELSE Sample(gamma[c], gained))]]]

Mixed(matrix, gamma) == [kind |-> "mixed", ctm |-> matrix, gamma |-> gamma]

Mixes(m) == \E r, c \in Channels : r # c /\ m[r, c] # 0
Identity(m) == \A r \in Channels : m[r, r] = Q

\* build: a matrix that mixes channels is kept; the identity counts as none,
\* and with no ramp either there is no pipeline; the rest is fused.
Build(blob, ramp) ==
    LET gamma == IF ramp = Absent THEN Absent ELSE ReadLut(ramp)
        m == IF blob = Absent THEN Absent ELSE [rc \in DOMAIN blob |-> ToQ16(blob[rc])]
    IN  IF m # Absent /\ Mixes(m) THEN Mixed(m, gamma)
        ELSE IF m = Absent \/ Identity(m)
        THEN IF gamma = Absent THEN Absent ELSE Fuse(Absent, gamma)
        ELSE Fuse(m, gamma)

\* apply, for one channel of a pixel.
Apply(p, px, c) ==
    IF p.kind = "fused" THEN p.table[c][px[c]]
    ELSE LET out == Scaled(p.ctm[c, 1] * Expand(px[1]) + p.ctm[c, 2] * Expand(px[2])
                             + p.ctm[c, 3] * Expand(px[3]))
         IN  Narrow(IF p.gamma = Absent THEN out ELSE Sample(p.gamma[c], out))

\* What GRABPIX copies for a pixel.
Grabbed(px, c) == IF color = Absent THEN px[c] ELSE Apply(color, px, c)

-----------------------------------------------------------------------------
ColorInit == ctm = Absent /\ lut = Absent /\ color = Absent /\ on = FALSE

\* atomic_flush builds the transform of every commit, of a CRTC that was on or
\* that the commit turns on.
ColorFlush(m, l) ==
    /\ ctm' = m /\ lut' = l
    /\ color' = Build(m, l)
    /\ on' = TRUE

\* atomic_disable forgets the transform; the properties stay with the CRTC.
ColorDisable ==
    /\ on
    /\ on' = FALSE
    /\ color' = Absent
    /\ UNCHANGED <<ctm, lut>>

ColorNext ==
    \/ \E m \in Matrices \cup {Absent}, l \in Ramps \cup {Absent} : ColorFlush(m, l)
    \/ ColorDisable

ColorSpec == ColorInit /\ [][ColorNext]_colorVars

-----------------------------------------------------------------------------
Pixel == [Channels -> Levels]

\* The programmed matrix in fixed point, the identity when there is none.
Programmed ==
    [rc \in Channels \X Channels |->
       IF ctm = Absent THEN IF rc[1] = rc[2] THEN Q ELSE 0 ELSE ToQ16(ctm[rc])]

\* Which shortcut build takes does not show: a grabbed pixel is what the
\* general path makes of the programmed matrix and ramp.
PathsAgree ==
    LET general == Mixed(Programmed, IF lut = Absent THEN Absent ELSE ReadLut(lut))
    IN  \A px \in Pixel, c \in Channels : Grabbed(px, c) = Apply(general, px, c)

\* A channel is a nearest level to the exact product of the matrix and the
\* pixel, cut to the range: the two roundings add up to one.
NearestLevel ==
    \A px \in Pixel, c \in Channels :
        LET exact == InRange(Programmed[c, 1] * px[1] + Programmed[c, 2] * px[2]
                               + Programmed[c, 3] * px[3], 0, (N - 1) * Q)
        IN  2 * Q * Grabbed(px, c) \in 2 * exact - Q .. 2 * exact + Q

\* While the CRTC is on, every pixel a client grabs has the colours programmed
\* by the last commit, whichever form build gave them, and without a ramp they
\* are as close as levels can be (build, fuse, apply, atomic_flush).
ColoursAreAsProgrammed == on => PathsAgree /\ (lut = Absent => NearestLevel)
=============================================================================
