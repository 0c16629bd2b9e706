--------------------------- MODULE MCCardClients ----------------------------
(***************************************************************************)
(* CardClients with one process at work at a time: the heads of one have   *)
(* cards, or the threads of the other are in the library, beside whatever  *)
(* the kernel and the other writers of the registry do.                    *)
(***************************************************************************)
EXTENDS CardClients, TLC

OneProcess ==
    \/ \A o \in Openers : opc[o] = "idle"
    \/ \A h \in Heads : first[h] = -1 /\ polls[h] = 0

MCNext == ClientsNext /\ OneProcess'

MCSpec == ClientsInit /\ [][MCNext]_<<registryVars, processVars>>

OpenerSymmetry == Permutations(Openers)
=============================================================================
