---------------------------- MODULE DockProfiles ----------------------------
(***************************************************************************)
(* The dock families a session drives and the facts of each profile that   *)
(* decide what a session sends (vino/profile.rs).  Timings, sizes and      *)
(* codec parameters are left out.                                          *)
(*                                                                         *)
(*   ctrl_pipe    video shares the control endpoint                        *)
(*   arm_burst    the first frame opens the stream, frames carry no report *)
(*   dock_wide    a mode set reconfigures every connector                  *)
(*   clear        the pipe is torn down before a timing is programmed      *)
(*   held         a blank is two markers, no black frames                  *)
(*   pre_sink     the sink is taken down before the timing                 *)
(*   post_sink    the sink states of the bracket after it, TRUE for up     *)
(*   carriers     stated number of flat frames, or Window for a deadline   *)
(*   presentations of a keyframe                                           *)
(*   hw_cursor    the dock composites a pointer                            *)
(*   wide_init    it takes dock-wide records before the connectors'        *)
(*   early_commit its video engine starts before the connectors' records   *)
(*   lockstep     each authentication step is answered by a push waited for*)
(*   edid_ready   it reports when it has read a monitor's EDID             *)
(*   shared_edid  one EDID handler serves all its connectors               *)
(***************************************************************************)
EXTENDS Naturals

Window == 0     \* no stated count: the carrier is bounded by its deadline

PROFILE_ELLA ==
  [ctrl_pipe |-> TRUE, arm_burst |-> FALSE, dock_wide |-> FALSE, clear |-> FALSE,
   held |-> TRUE, pre_sink |-> FALSE, post_sink |-> <<FALSE, TRUE>>,
   carriers |-> 1, presentations |-> 3, hw_cursor |-> FALSE,
   wide_init |-> TRUE, early_commit |-> FALSE, lockstep |-> FALSE,
   edid_ready |-> FALSE, shared_edid |-> FALSE]

PROFILE_RIDGE ==
  [ctrl_pipe |-> FALSE, arm_burst |-> TRUE, dock_wide |-> FALSE, clear |-> FALSE,
   held |-> FALSE, pre_sink |-> TRUE, post_sink |-> <<TRUE, TRUE>>,
   carriers |-> Window, presentations |-> 2, hw_cursor |-> TRUE,
   wide_init |-> FALSE, early_commit |-> FALSE, lockstep |-> FALSE,
   edid_ready |-> TRUE, shared_edid |-> TRUE]

PROFILE_NAVARRO ==
  [ctrl_pipe |-> FALSE, arm_burst |-> FALSE, dock_wide |-> TRUE, clear |-> TRUE,
   held |-> TRUE, pre_sink |-> TRUE, post_sink |-> <<FALSE, FALSE>>,
   carriers |-> 5, presentations |-> 3, hw_cursor |-> TRUE,
   wide_init |-> TRUE, early_commit |-> TRUE, lockstep |-> TRUE,
   edid_ready |-> TRUE, shared_edid |-> FALSE]

Profiles == {PROFILE_ELLA, PROFILE_RIDGE, PROFILE_NAVARRO}
=============================================================================
