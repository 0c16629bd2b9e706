----------------------------- MODULE RevdiCard ------------------------------
(***************************************************************************)
(* A Revdi card between the compositor and its client.                     *)
(*                                                                         *)
(* The kms thread runs the commit callbacks of module/kms.rs: each lock it *)
(* takes and each event it sends is a step of its own.  The client is one  *)
(* thread inside library/src/safe.rs: it connects, polls events, asks for  *)
(* an update and grabs, and its ioctls (module/ioctl.rs) interleave with   *)
(* the commits.  The event channel is external: a bounded queue to the     *)
(* connected file that drops what does not fit.                            *)
(*                                                                         *)
(* Pixels are versions: a region of a framebuffer holds the number of the  *)
(* flip that last changed it, and 0 is the zero-filled buffer the client   *)
(* registers.                                                              *)
(***************************************************************************)
EXTENDS Integers, Sequences, FiniteSets

CONSTANTS
    Regions,      \* parts of the screen a damage rectangle may name
    Modes,        \* the modes the compositor may select
    NoMode,       \* no mode, no framebuffer, no buffer
    MaxFlips,     \* bound: flips of the primary plane
    MaxEnables,   \* bound: times the CRTC is enabled
    MaxClients,   \* bound: files opened on the card, one after the other
    MaxCursors,   \* bound: cursor shapes committed
    QueueCap      \* events a file may have pending

ASSUME CardAssumption ==
    /\ NoMode \notin Modes
    /\ MaxFlips \in Nat /\ MaxEnables \in Nat /\ MaxClients \in Nat /\ MaxCursors \in Nat
    /\ QueueCap \in Nat

VARIABLES
    \* EvdiDrmData
    scanout,         \* the prepared framebuffer: [mode, px], or NoMode
    announced_mode,
    frame_dirty, damage,
    edid,            \* the client whose EDID the connector shows, or 0
    cursor_events,
    receiver,        \* the connected file, or 0
    queue,           \* external: events pending on that file
    lost,            \* history: an UPDATE_READY did not fit since the last request
    \* the kms thread
    kpc, kmode, kregions, khandle,
    flips, enables, cursors,
    \* the client
    file,            \* the client's file number; 0 when none is open
    clients,
    cpc, creplay,
    buffer,          \* the registered buffer: [mode, px], or NoMode
    ready,           \* ready_buffer
    power, mode,     \* what the events have told it
    snapshot, taken  \* grabpix in progress

kmsVars == <<kpc, kmode, kregions, khandle, flips, enables, cursors>>
cardVars == <<scanout, announced_mode, frame_dirty, damage, edid, cursor_events>>
channelVars == <<receiver, queue, lost>>
knownVars == <<buffer, ready, power, mode>>
grabVars == <<snapshot, taken>>
clientVars == <<file, clients, cpc, creplay, knownVars, grabVars>>
vars == <<cardVars, channelVars, kmsVars, clientVars>>

Init ==
    /\ scanout = NoMode /\ announced_mode = NoMode
    /\ frame_dirty = FALSE /\ damage = {}
    /\ edid = 0 /\ cursor_events = FALSE
    /\ receiver = 0 /\ queue = <<>> /\ lost = FALSE
    /\ kpc = "idle" /\ kmode = NoMode /\ kregions = {} /\ khandle = 0
    /\ flips = 0 /\ enables = 0 /\ cursors = 0
    /\ file = 0 /\ clients = 0 /\ cpc = "closed" /\ creplay = NoMode
    /\ buffer = NoMode /\ ready = FALSE /\ power = "unknown" /\ mode = NoMode
    /\ snapshot = NoMode /\ taken = {}

-----------------------------------------------------------------------------
\* EventChannel::send: to the connected file, if it has room.  The callers
\* ignore the error.
Send(e) ==
    /\ queue' = IF receiver # 0 /\ Len(queue) < QueueCap THEN Append(queue, e) ELSE queue
    /\ lost' = (lost \/ (e.type = "update" /\ receiver # 0 /\ Len(queue) >= QueueCap))
    /\ UNCHANGED receiver

Blank(m) == [mode |-> m, px |-> [r \in Regions |-> 0]]

-----------------------------------------------------------------------------
\* atomic_enable: the mode is recorded, then DPMS_ON and MODE_CHANGED go out.
AtomicEnable(m) ==
    /\ kpc = "idle" /\ announced_mode = NoMode /\ enables < MaxEnables
    /\ announced_mode' = m
    /\ kmode' = m
    /\ enables' = enables + 1
    /\ kpc' = "en_dpms"
    /\ UNCHANGED <<scanout, frame_dirty, damage, edid, cursor_events, channelVars,
                   kregions, khandle, flips, cursors, clientVars>>

EnableSendsDpms ==
    /\ kpc = "en_dpms"
    /\ Send([type |-> "dpms_on"])
    /\ kpc' = "en_mode"
    /\ UNCHANGED <<cardVars, kmode, kregions, khandle, flips, enables, cursors, clientVars>>

EnableSendsMode ==
    /\ kpc = "en_mode"
    /\ Send([type |-> "mode", mode |-> kmode])
    /\ kpc' = "idle"
    /\ UNCHANGED <<cardVars, kmode, kregions, khandle, flips, enables, cursors, clientVars>>

\* atomic_disable: no scanout, no announced mode, then DPMS_OFF.
AtomicDisable ==
    /\ kpc = "idle" /\ announced_mode # NoMode
    /\ scanout' = NoMode
    /\ kpc' = "dis_announce"
    /\ UNCHANGED <<announced_mode, frame_dirty, damage, edid, cursor_events, channelVars,
                   kmode, kregions, khandle, flips, enables, cursors, clientVars>>

DisableForgetsMode ==
    /\ kpc = "dis_announce"
    /\ announced_mode' = NoMode
    /\ kpc' = "dis_dpms"
    /\ UNCHANGED <<scanout, frame_dirty, damage, edid, cursor_events, channelVars,
                   kmode, kregions, khandle, flips, enables, cursors, clientVars>>

DisableSendsDpms ==
    /\ kpc = "dis_dpms"
    /\ Send([type |-> "dpms_off"])
    /\ kpc' = "idle"
    /\ UNCHANGED <<cardVars, kmode, kregions, khandle, flips, enables, cursors, clientVars>>

\* atomic_update of the primary plane: the framebuffer is prepared, then its
\* damage is added under the painter lock, then UPDATE_READY goes out.  The
\* first framebuffer after an enable is damaged as a whole.
Flip(rs) ==
    /\ kpc = "idle" /\ announced_mode # NoMode /\ flips < MaxFlips
    /\ scanout = NoMode => rs = Regions
    /\ flips' = flips + 1
    /\ scanout' = [mode |-> announced_mode,
                   px   |-> [r \in Regions |-> IF r \in rs THEN flips + 1 ELSE scanout.px[r]]]
    /\ kregions' = rs
    /\ kpc' = "flip_damage"
    /\ UNCHANGED <<announced_mode, frame_dirty, damage, edid, cursor_events, channelVars,
                   kmode, khandle, enables, cursors, clientVars>>

\* The plane may also be switched off: nothing to grab, and nothing is said.
PlaneOff ==
    /\ kpc = "idle" /\ scanout # NoMode
    /\ scanout' = NoMode
    /\ UNCHANGED <<announced_mode, frame_dirty, damage, edid, cursor_events, channelVars,
                   kmsVars, clientVars>>

FlipRecordsDamage ==
    /\ kpc = "flip_damage"
    /\ damage' = damage \cup kregions
    /\ frame_dirty' = TRUE
    /\ kpc' = "flip_notify"
    /\ UNCHANGED <<scanout, announced_mode, edid, cursor_events, channelVars,
                   kmode, kregions, khandle, flips, enables, cursors, clientVars>>

FlipNotifies ==
    /\ kpc = "flip_notify"
    /\ Send([type |-> "update"])
    /\ kregions' = {}
    /\ kpc' = "idle"
    /\ UNCHANGED <<cardVars, kmode, khandle, flips, enables, cursors, clientVars>>

\* update_cursor with a new bitmap: a handle is minted in the connected file,
\* and the event that names it is sent to the file connected by then.
CursorMint ==
    /\ kpc = "idle" /\ cursor_events /\ receiver # 0 /\ cursors < MaxCursors
    /\ khandle' = receiver
    /\ cursors' = cursors + 1
    /\ kpc' = "cur_send"
    /\ UNCHANGED <<cardVars, channelVars, kmode, kregions, flips, enables, clientVars>>

CursorSend ==
    /\ kpc = "cur_send"
    /\ Send([type |-> "cursor", handle |-> khandle])
    /\ khandle' = 0
    /\ kpc' = "idle"
    /\ UNCHANGED <<cardVars, kmode, kregions, flips, enables, cursors, clientVars>>

-----------------------------------------------------------------------------
\* Device::open on a free card: a file of its own, no buffer, no mode.  The
\* daemon turns cursor events on before it connects.
Open ==
    /\ cpc = "closed" /\ clients < MaxClients
    /\ clients' = clients + 1 /\ file' = clients + 1
    /\ cursor_events' = TRUE
    /\ cpc' = "opened"
    /\ UNCHANGED <<scanout, announced_mode, frame_dirty, damage, edid, channelVars, kmsVars,
                   creplay, knownVars, grabVars>>

\* DRM_IOCTL_EVDI_CONNECT: the file becomes the receiver, its EDID is
\* published, and replay_state reads the announced mode, drops the lock and
\* sends DPMS_ON and MODE_CHANGED.
Connect ==
    /\ cpc = "opened"
    /\ receiver' = file /\ queue' = <<>> /\ lost' = FALSE
    /\ cpc' = "c_edid"
    /\ UNCHANGED <<cardVars, kmsVars, file, clients, creplay, knownVars, grabVars>>

ConnectPublishes ==
    /\ cpc = "c_edid"
    /\ edid' = file
    /\ cpc' = "c_replay"
    /\ UNCHANGED <<scanout, announced_mode, frame_dirty, damage, cursor_events, channelVars,
                   kmsVars, file, clients, creplay, knownVars, grabVars>>

ReplayReads ==
    /\ cpc = "c_replay"
    /\ creplay' = announced_mode
    /\ cpc' = IF announced_mode = NoMode THEN "idle" ELSE "c_dpms"
    /\ UNCHANGED <<cardVars, channelVars, kmsVars, file, clients, knownVars, grabVars>>

ReplaySendsDpms ==
    /\ cpc = "c_dpms"
    /\ Send([type |-> "dpms_on"])
    /\ cpc' = "c_mode"
    /\ UNCHANGED <<cardVars, kmsVars, file, clients, creplay, knownVars, grabVars>>

ReplaySendsMode ==
    /\ cpc = "c_mode"
    /\ Send([type |-> "mode", mode |-> creplay])
    /\ cpc' = "idle"
    /\ UNCHANGED <<cardVars, kmsVars, file, clients, creplay, knownVars, grabVars>>

\* The client forgets everything with its process.
ClientGone ==
    /\ receiver' = 0 /\ queue' = <<>> /\ lost' = FALSE
    /\ file' = 0 /\ cpc' = "closed" /\ creplay' = NoMode
    /\ buffer' = NoMode /\ ready' = FALSE /\ power' = "unknown" /\ mode' = NoMode
    /\ snapshot' = NoMode /\ taken' = {}
    /\ UNCHANGED <<scanout, announced_mode, frame_dirty, damage, cursor_events, kmsVars, clients>>

\* Device::drop disconnects, which clears the EDID, and closes the file; a
\* client that dies only has its file closed.
DropDevice ==
    /\ cpc = "idle"
    /\ ClientGone
    /\ edid' = 0

ClientDies ==
    /\ cpc \notin {"closed", "opened", "c_edid", "c_replay", "c_dpms", "c_mode"}
    /\ ClientGone
    /\ UNCHANGED edid

-----------------------------------------------------------------------------
\* evdi_handle_events over one read of the queue: the last DPMS and the last
\* mode stand, and any UPDATE_READY sets ready_buffer.
Of(t) == SelectSeq(queue, LAMBDA e : e.type \in t)
LastOf(t) == Of(t)[Len(Of(t))]
UpdatePending == \E i \in DOMAIN queue : queue[i].type = "update"

\* poll_events: read what is pending; a mode other than the registered one
\* brings a new zero-filled buffer.
PollEvents(discard) ==
    /\ queue' = <<>> /\ UNCHANGED receiver
    /\ ready' = (~discard /\ (ready \/ UpdatePending))
    /\ power' = IF Of({"dpms_on", "dpms_off"}) = <<>> THEN power
                ELSE IF LastOf({"dpms_on", "dpms_off"}).type = "dpms_on" THEN "on" ELSE "off"
    /\ mode' = IF Of({"mode"}) = <<>> THEN mode ELSE LastOf({"mode"}).mode
    /\ buffer' = IF mode' = mode THEN buffer ELSE Blank(mode')

\* Device::events: drains the queue; UPDATE_READY stays in ready_buffer.
DeviceEvents ==
    /\ cpc = "idle" /\ queue # <<>>
    /\ PollEvents(FALSE)
    /\ UNCHANGED <<lost, cardVars, kmsVars, file, clients, cpc, creplay, grabVars>>

\* next_frame up to REQUEST_UPDATE: poll, no buffer means no frame, and a
\* ready_buffer from earlier is discarded.
NextFrame ==
    /\ cpc = "idle"
    /\ \E discard \in BOOLEAN :
         /\ PollEvents(discard)
         /\ discard = (buffer' # NoMode)
    /\ cpc' = IF buffer' = NoMode THEN "idle" ELSE "request"
    /\ lost' = FALSE
    /\ UNCHANGED <<cardVars, kmsVars, file, clients, creplay, grabVars>>

\* Mutant: a request that does not look for a frame already waiting.
RequestAlwaysWaits ==
    /\ cpc = "request"
    /\ cpc' = "wait"
    /\ UNCHANGED <<cardVars, channelVars, kmsVars, file, clients, creplay, knownVars, grabVars>>

\* DRM_IOCTL_EVDI_REQUEST_UPDATE: 1 means a frame is waiting, grab it now.
RequestUpdate ==
    /\ cpc = "request"
    /\ cpc' = IF frame_dirty THEN "grab" ELSE "wait"
    /\ UNCHANGED <<cardVars, channelVars, kmsVars, file, clients, creplay, knownVars, grabVars>>

\* The wait of next_frame: poll until UPDATE_READY has come or time is up.
Wait ==
    /\ cpc = "wait" /\ queue # <<>>
    /\ \E discard \in BOOLEAN :
         /\ PollEvents(discard)
         /\ discard = UpdatePending
         /\ cpc' = IF discard THEN "grab" ELSE "wait"
    /\ UNCHANGED <<lost, cardVars, kmsVars, file, clients, creplay, grabVars>>

WaitTimesOut ==
    /\ cpc = "wait"
    /\ cpc' = "idle"
    /\ UNCHANGED <<cardVars, channelVars, kmsVars, file, clients, creplay, knownVars, grabVars>>

\* DRM_IOCTL_EVDI_GRABPIX: an owned handle to the prepared scanout; none means
\* zero rectangles and nothing else happens.
GrabSnapshot ==
    /\ cpc = "grab"
    /\ snapshot' = scanout
    /\ cpc' = IF scanout = NoMode THEN "idle" ELSE "take"
    /\ UNCHANGED <<cardVars, channelVars, kmsVars, file, clients, creplay, knownVars, taken>>

\* ... then the damage under the painter lock; none recorded is a full frame.
GrabTakesDamage ==
    /\ cpc = "take"
    /\ taken' = IF damage = {} THEN Regions ELSE damage
    /\ damage' = {} /\ frame_dirty' = FALSE
    /\ cpc' = "copy"
    /\ UNCHANGED <<scanout, announced_mode, edid, cursor_events, channelVars, kmsVars,
                   file, clients, creplay, knownVars, snapshot>>

\* Mutant: the damage is forgotten once it is copied.
GrabCopiesAndClears ==
    /\ cpc = "copy"
    /\ buffer' = [buffer EXCEPT !.px =
                    [r \in Regions |-> IF r \in taken THEN snapshot.px[r] ELSE @[r]]]
    /\ snapshot' = NoMode /\ taken' = {}
    /\ damage' = {} /\ frame_dirty' = FALSE
    /\ cpc' = "idle"
    /\ UNCHANGED <<scanout, announced_mode, edid, cursor_events, channelVars, kmsVars,
                   file, clients, creplay, ready, power, mode>>

\* ... then the copy of those rectangles out of the snapshot.
GrabCopies ==
    /\ cpc = "copy"
    /\ buffer' = [buffer EXCEPT !.px =
                    [r \in Regions |-> IF r \in taken THEN snapshot.px[r] ELSE @[r]]]
    /\ snapshot' = NoMode /\ taken' = {}
    /\ cpc' = "idle"
    /\ UNCHANGED <<cardVars, channelVars, kmsVars, file, clients, creplay, ready, power, mode>>

-----------------------------------------------------------------------------
Kms ==
    \/ \E m \in Modes : AtomicEnable(m)
    \/ AtomicDisable
    \/ PlaneOff
    \/ \E rs \in SUBSET Regions \ {{}} : Flip(rs)
    \/ CursorMint

KmsFinishes ==
    \/ EnableSendsDpms \/ EnableSendsMode
    \/ DisableForgetsMode \/ DisableSendsDpms
    \/ FlipRecordsDamage \/ FlipNotifies
    \/ CursorSend

ClientStep ==
    \/ Connect \/ ConnectPublishes \/ ReplayReads \/ ReplaySendsDpms \/ ReplaySendsMode
    \/ NextFrame \/ RequestUpdate \/ Wait \/ WaitTimesOut
    \/ GrabSnapshot \/ GrabTakesDamage \/ GrabCopies

Next ==
    \/ Kms \/ KmsFinishes
    \/ Open \/ DropDevice \/ ClientDies
    \/ DeviceEvents
    \/ ClientStep

\* A commit runs to its end, and a connected client keeps calling next_frame,
\* whose wait ends at the latest when its timeout does.
Fairness == WF_vars(KmsFinishes) /\ WF_vars(ClientStep)

Spec == Init /\ [][Next]_vars /\ Fairness

-----------------------------------------------------------------------------
\* Nobody is in the middle of anything and everything sent has been read.
Quiet ==
    /\ kpc = "idle" /\ cpc \in {"idle", "wait"}
    /\ receiver = file /\ queue = <<>>

\* A client that waits for a frame while one is waiting for it has its
\* UPDATE_READY: pending, about to be sent by the flip that recorded it, or
\* dropped for want of room.
NoLostWakeup ==
    cpc = "wait" /\ frame_dirty /\ ~lost => kpc = "flip_notify" \/ UpdatePending

\* The card keeps the promise that the list of rectangles keeps, with the
\* regions of the screen for its pixels, whatever the commits and the client's
\* ioctls interleave: a grab takes every region a flip recorded since the last,
\* and the whole screen when there is none.
Promise == INSTANCE DamagePromise
    WITH Screen <- Regions, owed <- damage, held <- cpc = "copy",
         room <- IF cpc = "copy" THEN Regions ELSE {}, told <- taken
CardKeepsThePromise == Promise!PromiseSpec

\* A flipped frame is grabbed for as long as there is a client with a buffer
\* and a framebuffer to grab, even when its UPDATE_READY was dropped.
Lit == buffer # NoMode /\ scanout # NoMode
FlippedFrameIsGrabbed == (frame_dirty /\ Lit) ~> (~frame_dirty \/ ~Lit)

\* A client waiting with nothing left to grab holds the frame on the screen:
\* the per-grab rectangles it accumulated add up to the framebuffer.
ClientHasTheFrame ==
    Quiet /\ cpc = "wait" /\ ~frame_dirty /\ Lit /\ mode = announced_mode => buffer = scanout
=============================================================================
