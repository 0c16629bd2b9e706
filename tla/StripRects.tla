----------------------------- MODULE StripRects -----------------------------
(***************************************************************************)
(* The geometry the scanout ledger is built on: a surface is a grid of     *)
(* strips, and a set of strips is described to the codec by rectangles.    *)
(* Coordinates are in strips, so strip_w and strip_h are both 1 here.      *)
(* This module holds the declarative definitions only; OwedRects is the    *)
(* loop of scanout.rs that has to agree with them.                         *)
(***************************************************************************)
EXTENDS Integers, FiniteSets

CONSTANTS
    TilesX, TilesY,   \* the surface, in strips
    MacroX, MacroY,   \* one codec macro-tile, in strips (4 x 4 on every dock)
    MAX_RECTS         \* most rectangles a frame may be described with

ASSUME GridAssumption ==
    /\ TilesX \in Nat \ {0} /\ TilesY \in Nat \ {0}
    /\ MacroX \in Nat \ {0} /\ MacroY \in Nat \ {0}
    /\ MAX_RECTS \in Nat

Strips == (0 .. TilesX - 1) \X (0 .. TilesY - 1)

\* Half-open rectangles, as the tuples (x0, y0, x1, y1) of scanout.rs.
Rects == [x0 : 0 .. TilesX, y0 : 0 .. TilesY, x1 : 0 .. TilesX, y1 : 0 .. TilesY]

RectStrips(r) == (r.x0 .. r.x1 - 1) \X (r.y0 .. r.y1 - 1)

\* A maximal run of owing strips [a, b) within band y.
IsRun(owed, y, a, b) ==
    /\ a < b
    /\ \A x \in a .. b - 1 : <<x, y>> \in owed
    /\ <<a - 1, y>> \notin owed
    /\ <<b, y>> \notin owed

\* The rectangles a set of strips is described by: identical runs in
\* consecutive bands, stacked as far as they go in both directions.
MaximalRects(owed) ==
    {r \in Rects :
        /\ r.y0 < r.y1
        /\ \A y \in r.y0 .. r.y1 - 1 : IsRun(owed, y, r.x0, r.x1)
        /\ ~IsRun(owed, r.y0 - 1, r.x0, r.x1)
        /\ ~IsRun(owed, r.y1, r.x0, r.x1)}

\* The change is too scattered to describe: owed_rects answers None.
Scattered(owed) == Cardinality(MaximalRects(owed)) > MAX_RECTS

MacroOf(s) == <<s[1] \div MacroX, s[2] \div MacroY>>

\* damage_strip_coords: every strip of a macro-tile that a clip overlaps.
DamageStripCoords(clips) ==
    {s \in Strips :
        LET mx == MacroOf(s)[1] * MacroX
            my == MacroOf(s)[2] * MacroY
        IN  \E c \in clips : /\ mx < c.x1 /\ c.x0 < mx + MacroX
                             /\ my < c.y1 /\ c.y0 < my + MacroY}

\* What those clips come to when they describe exactly `owed`.
MacroClosure(owed) ==
    {s \in Strips : s \in owed \/ \E o \in owed : MacroOf(o) = MacroOf(s)}
=============================================================================
