---------------------------- MODULE MCDockLink -----------------------------
(***************************************************************************)
(* A dock's link: the modes of its connectors, or a strip on its way to    *)
(* it.  Neither depends on where the other is, so one moves and the other  *)
(* stays where it begins.                                                  *)
(***************************************************************************)
EXTENDS StripCodec, DockModes

LinkInit == family \in Families /\ StripInit /\ ModesInit

Strips == ModesInit /\ StripNext /\ UNCHANGED modeVars
Modes == StripInit /\ ModesNext /\ UNCHANGED stripVars

LinkNext == (Strips \/ Modes) /\ UNCHANGED family

LinkSpec == LinkInit /\ [][LinkNext]_<<family, stripVars, modeVars>>
=============================================================================
