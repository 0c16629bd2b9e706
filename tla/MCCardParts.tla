---------------------------- MODULE MCCardParts -----------------------------
(***************************************************************************)
(* The parts of a Revdi card that share no state with one another: the     *)
(* vblank timer, the damage list, the colour transform and the pointer.    *)
(* They are checked side by side, one moving while the others stay where   *)
(* they begin.                                                             *)
(***************************************************************************)
EXTENDS Vblank, DamageList, ColorPipeline, PointerPath

\* The framebuffer's own size, smaller, wider, and without a column.
MCBuffers == {<<3, 2>>, <<2, 1>>, <<4, 1>>, <<0, 2>>}

One == Q * Fine
Diagonal(r, g, b) ==
    [rc \in Channels \X Channels |-> IF rc[1] # rc[2] THEN 0 ELSE <<r, g, b>>[rc[1]]]

\* Gains of one, less, below zero and past the largest coefficient, and with
\* them matrices that mix red and blue, one by less than a unit.
MCMatrices ==
    {Diagonal(r, g, b) : r \in {One, One \div 2, 0 - One \div 2, 8 * One},
                         g \in {One, One \div 3}, b \in {One, Fine + 1}}
      \cup {[Diagonal(One, g, One) EXCEPT ![1, 3] = x, ![3, 1] = y] :
              g \in {One, One \div 3}, x \in {Fine - 1, One, 0 - One \div 3}, y \in {0, One \div 5}}

\* An empty blob, a short one, and one that keeps, inverts and halves.
MCRamps ==
    {<<>>, [i \in 1 .. 3 |-> <<Expand(i), Expand(i - 1), MAX>>],
     [i \in 1 .. N |-> <<Expand(i - 1), MAX - Expand(i - 1), (Expand(i - 1) + 1) \div 2>>]}

VARIABLE part      \* the part that moves

allVars == <<vars, damageVars, colorVars, pointerVars, part>>

VblankMoves == part = "vblank" /\ Next /\ UNCHANGED <<damageVars, colorVars, pointerVars, part>>
DamageMoves == part = "damage" /\ DamageNext /\ UNCHANGED <<vars, colorVars, pointerVars, part>>
ColorMoves == part = "color" /\ ColorNext /\ UNCHANGED <<vars, damageVars, pointerVars, part>>
PointerMoves == part = "pointer" /\ PointerNext /\ UNCHANGED <<vars, damageVars, colorVars, part>>

PartsInit ==
    /\ Init /\ DamageInit /\ ColorInit /\ PointerInit
    /\ part \in {"vblank", "damage", "color", "pointer"}

PartsNext == VblankMoves \/ DamageMoves \/ ColorMoves \/ PointerMoves

PartsSpec == PartsInit /\ [][PartsNext]_allVars /\ Fairness
=============================================================================
