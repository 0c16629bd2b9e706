---------------------------- MODULE PointerPath -----------------------------
(***************************************************************************)
(* The pointer of one output on its way from the cursor plane to the dock: *)
(* update_cursor (module/kms.rs) sends CURSOR_SET and CURSOR_MOVE,         *)
(* librevdi copies the bitmap out (library/src/lib.rs), and the daemon     *)
(* hands it to the session (chimera/src/daemon.rs, session.rs).            *)
(*                                                                         *)
(* A bitmap is a model value; the handle that carries it is left out.      *)
(* One coordinate is modelled.  DRM's clipping of the plane and the event  *)
(* channel are external; the client stays connected.                       *)
(***************************************************************************)
EXTENDS Integers, Sequences

CONSTANTS
    Images,          \* cursor framebuffers
    NoImage,         \* the plane has none
    Width,           \* pixels of the screen
    Size,            \* pixels of a cursor
    EventCap,        \* events the file may have pending
    MaxCommits,      \* bound: commits of the cursor plane
    MaxSwitches      \* bound: times the output goes dark or is given a mode

ASSUME PointerAssumption ==
    /\ NoImage \notin Images
    /\ Width \in Nat /\ Size \in Nat \ {0}
    /\ EventCap \in Nat /\ MaxCommits \in Nat /\ MaxSwitches \in Nat

VARIABLES
    plane,           \* the plane's state: [image, at]
    watched,         \* EvdiDrmData.cursor_events
    upc,             \* update_cursor: idle, set, move, off
    sent,            \* external: events pending on the client's file
    inbox,           \* EventState.events: what the daemon has yet to handle
    lit,             \* Output.active
    shot,            \* cursor_shot: [image, at, visible]
    drawn,           \* dock: the pointer, [image, at, visible]
    behind,          \* history: what the dock was not told, of image and place
    commits, switches

pointerVars == <<plane, watched, upc, sent, inbox, lit, shot, drawn,
                 behind, commits, switches>>

NoShot == [image |-> NoImage, at |-> 0, visible |-> FALSE]

PointerInit ==
    /\ plane = [image |-> NoImage, at |-> 0]
    /\ watched = TRUE /\ upc = "idle"
    /\ sent = <<>> /\ inbox = <<>>
    /\ lit = FALSE /\ shot = NoShot /\ drawn = NoShot
    /\ behind = {} /\ commits = 0 /\ switches = 0

Larger(a, b) == IF a > b THEN a ELSE b

\* EventChannel::send; the callers ignore that it may have no room.
Fits == Len(sent) < EventCap
SendCursor(e) == sent' = IF Fits THEN Append(sent, e) ELSE sent

\* The plane helper's clipping: where what is left of the bitmap starts on the
\* screen, and where in the bitmap.
VisibleDestination(at) == Larger(at, 0)
VisibleSource(at) == VisibleDestination(at) - at
OnScreen(at) == at + Size > 0 /\ at < Width

\* Where the bitmap's corner is, on the screen or off it.
UnclippedOrigin(at) == VisibleDestination(at) - VisibleSource(at)

-----------------------------------------------------------------------------
\* update_cursor: silent unless asked for; no framebuffer hides the pointer,
\* and only another framebuffer than before is a new shape.
UpdateCursor(image, at) ==
    /\ upc = "idle" /\ commits < MaxCommits
    /\ commits' = commits + 1
    /\ plane' = [image |-> image, at |-> at]
    /\ upc' = CASE ~watched -> "idle"
                [] watched /\ image = NoImage -> "off"
                [] watched /\ image # NoImage -> IF image = plane.image THEN "move" ELSE "set"
    /\ behind' = IF watched THEN behind ELSE {"image", "place"}
    /\ UNCHANGED <<watched, sent, inbox, lit, shot, drawn, switches>>

\* notify_cursor_disabled.
NotifyDisabled ==
    /\ upc = "off"
    /\ SendCursor([type |-> "hide"])
    /\ behind' = IF Fits THEN behind \ {"place"} ELSE behind \cup {"place"}
    /\ upc' = "idle"
    /\ UNCHANGED <<plane, watched, inbox, lit, shot, drawn, commits,
                   switches>>

\* notify_cursor_set: the event that names the bitmap.
NotifySet ==
    /\ upc = "set"
    /\ SendCursor([type |-> "set", image |-> plane.image])
    /\ behind' = IF Fits THEN behind \ {"image"} ELSE behind \cup {"image"}
    /\ upc' = "move"
    /\ UNCHANGED <<plane, watched, inbox, lit, shot, drawn, commits, switches>>

\* The end of update_cursor: the unclipped origin, if any of it is visible.
NotifyMove ==
    /\ upc = "move"
    /\ upc' = "idle"
    /\ IF OnScreen(plane.at)
       THEN /\ SendCursor([type |-> "move", at |-> UnclippedOrigin(plane.at)])
            /\ behind' = IF Fits THEN behind \ {"place"} ELSE behind \cup {"place"}
       ELSE UNCHANGED <<sent, behind>>
    /\ UNCHANGED <<plane, watched, inbox, lit, shot, drawn, commits,
                   switches>>

-----------------------------------------------------------------------------
\* dispatch_event: a bitmap that cannot be had turns cursor events off and
\* hides the pointer.
DispatchEvent ==
    /\ sent # <<>>
    /\ sent' = Tail(sent)
    /\ LET e == Head(sent) IN
         IF e.type = "set"
         THEN \E mapped \in BOOLEAN :
                /\ inbox' = Append(inbox, IF mapped THEN e ELSE [type |-> "hide"])
                /\ watched' = (watched /\ mapped)
                /\ behind' = IF mapped THEN behind ELSE {"image", "place"}
         ELSE inbox' = Append(inbox, e) /\ UNCHANGED <<watched, behind>>
    /\ UNCHANGED <<plane, upc, lit, shot, drawn, commits, switches>>

\* set_cursor, with the bitmap repacked by cursor_bgra: the shot keeps its place.
SetImage(image) ==
    /\ drawn' = [drawn EXCEPT !.image = image]
    /\ shot' = IF shot = NoShot THEN [image |-> image, at |-> 0, visible |-> TRUE]
               ELSE [shot EXCEPT !.image = image]

\* move_cursor: the wire has no negative places.
MoveTo(at) ==
    /\ drawn' = [drawn EXCEPT !.at = Larger(at, 0), !.visible = TRUE]
    /\ shot' = IF shot = NoShot THEN shot
               ELSE [shot EXCEPT !.at = Larger(at, 0), !.visible = TRUE]

\* hide_cursor: the visible flag is cleared; the shot keeps its place.
Hide ==
    /\ drawn' = [drawn EXCEPT !.at = 0, !.visible = FALSE]
    /\ shot' = IF shot = NoShot THEN shot ELSE [shot EXCEPT !.visible = FALSE]

\* handle_event, on a dock with a cursor of its own: a move is for a lit output.
HandleEvent ==
    /\ inbox # <<>>
    /\ inbox' = Tail(inbox)
    /\ LET e == Head(inbox) IN
         \/ e.type = "set" /\ SetImage(e.image) /\ UNCHANGED behind
         \/ e.type = "hide" /\ Hide /\ UNCHANGED behind
         \/ e.type = "move" /\ lit /\ MoveTo(e.at) /\ UNCHANGED behind
         \/ e.type = "move" /\ ~lit /\ behind' = behind \cup {"place"} /\ UNCHANGED <<shot, drawn>>
    /\ UNCHANGED <<plane, watched, upc, sent, lit, commits, switches>>

\* Mutant: a mode set leaves the pointer to the compositor.
ModeSetForgets ==
    /\ switches < MaxSwitches
    /\ switches' = switches + 1
    /\ lit' = TRUE
    /\ drawn' = NoShot
    /\ UNCHANGED <<plane, watched, upc, sent, inbox, shot, behind,
                   commits>>

\* activate_mode, of a dark output or a lit one, leaves the dock's pointer
\* undefined, and rearm_cursor puts back the shot.
RearmCursor ==
    /\ switches < MaxSwitches
    /\ switches' = switches + 1
    /\ lit' = TRUE
    /\ drawn' = IF shot = NoShot THEN NoShot
                ELSE [shot EXCEPT !.at = IF shot.visible THEN shot.at ELSE 0]
    /\ UNCHANGED <<plane, watched, upc, sent, inbox, shot, behind,
                   commits>>

\* deactivate_mode closes the stream.
DeactivateMode ==
    /\ lit /\ switches < MaxSwitches
    /\ switches' = switches + 1
    /\ lit' = FALSE
    /\ UNCHANGED <<plane, watched, upc, sent, inbox, shot, drawn, behind,
                   commits>>

PointerNext ==
    \/ \E image \in Images \cup {NoImage}, at \in (0 - Size) .. Width : UpdateCursor(image, at)
    \/ NotifyDisabled \/ NotifySet \/ NotifyMove
    \/ DispatchEvent \/ HandleEvent
    \/ RearmCursor \/ DeactivateMode

PointerSpec == PointerInit /\ [][PointerNext]_pointerVars

-----------------------------------------------------------------------------
\* Nothing is on its way.
Settled == upc = "idle" /\ sent = <<>> /\ inbox = <<>>

\* Once everything sent has been handled, a lit dock that missed nothing shows
\* the plane's pointer: the last bitmap, and its corner where the compositor
\* put it, to the left edge at most; and none when the plane has none.
PointerIsThePlanes ==
    Settled /\ lit /\ behind = {} =>
      /\ plane.image = NoImage => ~drawn.visible
      /\ plane.image # NoImage /\ OnScreen(plane.at) =>
           drawn = [image |-> plane.image, at |-> Larger(plane.at, 0), visible |-> TRUE]
=============================================================================
