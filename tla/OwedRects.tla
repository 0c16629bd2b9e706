----------------------------- MODULE OwedRects ------------------------------
(***************************************************************************)
(* owed_rects() of chimera/src/scanout.rs: the raster scan that turns the  *)
(* strips still owing a transmission into damage rectangles, growing a     *)
(* rectangle downwards instead of adding one when the band below repeats   *)
(* its span, and giving up at MAX_RECTS.                                   *)
(***************************************************************************)
EXTENDS StripRects

VARIABLES
    owed,    \* the strips whose debt is not zero; the input
    tx, ty,  \* the scan position
    rects,   \* the rectangles so far
    result   \* "scanning", then "rects" (Some) or "none" (None)

scanVars == <<owed, tx, ty, rects, result>>

ScanInit ==
    /\ owed \in SUBSET Strips
    /\ tx = 0 /\ ty = 0
    /\ rects = {}
    /\ result = "scanning"

\* The end of the run of owing strips that starts at the scan position.
RunEnd ==
    CHOOSE b \in tx + 1 .. TilesX :
        /\ \A x \in tx .. b - 1 : <<x, ty>> \in owed
        /\ <<b, ty>> \notin owed

\* Mutant: a rectangle is grown though the run below it is longer.
PriorsLeftEdge(b) == {r \in rects : r.x0 = tx /\ r.y1 = ty}

\* The rectangles that end where a run at the scan position would begin.
Priors(b) == {r \in rects : r.x0 = tx /\ r.x1 = b /\ r.y1 = ty}

Full == Cardinality(rects) = MAX_RECTS

Grown(prior) == [prior EXCEPT !.y1 = ty + 1]

SkipStrip ==
    /\ result = "scanning" /\ ty < TilesY /\ tx < TilesX
    /\ <<tx, ty>> \notin owed
    /\ tx' = tx + 1
    /\ UNCHANGED <<owed, ty, rects, result>>

GrowRect ==
    /\ result = "scanning" /\ ty < TilesY /\ tx < TilesX
    /\ <<tx, ty>> \in owed
    /\ \E prior \in Priors(RunEnd) :
        rects' = (rects \ {prior}) \cup {Grown(prior)}
    /\ tx' = RunEnd
    /\ UNCHANGED <<owed, ty, result>>

PushRect ==
    /\ result = "scanning" /\ ty < TilesY /\ tx < TilesX
    /\ <<tx, ty>> \in owed
    /\ Priors(RunEnd) = {}
    /\ IF Full
         THEN /\ result' = "none"
              /\ UNCHANGED <<owed, tx, ty, rects>>
         ELSE /\ rects' = rects \cup
                    {[x0 |-> tx, y0 |-> ty, x1 |-> RunEnd, y1 |-> ty + 1]}
              /\ tx' = RunEnd
              /\ UNCHANGED <<owed, ty, result>>

NextBand ==
    /\ result = "scanning" /\ ty < TilesY /\ tx = TilesX
    /\ tx' = 0 /\ ty' = ty + 1
    /\ UNCHANGED <<owed, rects, result>>

Finish ==
    /\ result = "scanning" /\ ty = TilesY
    /\ result' = "rects"
    /\ UNCHANGED <<owed, tx, ty, rects>>

ScanNext == SkipStrip \/ GrowRect \/ PushRect \/ NextBand \/ Finish

ScanSpec == ScanInit /\ [][ScanNext]_scanVars

-----------------------------------------------------------------------------
(* The rectangles handed to the codec are exactly the maximal stacks of    *)
(* owing runs, so the clips damage_strip_coords tests select every strip   *)
(* that owes a transmission and nothing outside its macro-tiles.  The scan *)
(* gives up, and the caller pays for a keyframe, exactly when there are    *)
(* more than MAX_RECTS of them: growing never makes room again, so testing *)
(* at each push is enough.                                                 *)
ClipsDescribeTheDebt ==
    /\ result = "rects" =>
        /\ rects = MaximalRects(owed)
        /\ DamageStripCoords(rects) = MacroClosure(owed)
    /\ result \in {"rects", "none"} => (result = "none" <=> Scattered(owed))
=============================================================================
