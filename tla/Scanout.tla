------------------------------- MODULE Scanout -------------------------------
(***************************************************************************)
(* One head's scanout: the content shadow and retransmit ledger of         *)
(* chimera/src/scanout.rs, driven by present_rgb() of session.rs, against  *)
(* the ring of framebuffers inside the dock.                               *)
(*                                                                         *)
(* The dock shows the buffers of its ring in turn and one presentation     *)
(* updates exactly one of them, so a change has to be sent until every     *)
(* buffer has it.  The ledger counts what each strip still owes.  The      *)
(* questions are whether a strip whose debt is paid is current in every    *)
(* buffer, through failures half way along a frame, and whether a desktop  *)
(* that goes still is ever left half delivered.                            *)
(*                                                                         *)
(* A strip's pixels and its content hash are one value here: scanout.rs    *)
(* rests on two different strips never hashing alike.                      *)
(***************************************************************************)
EXTENDS StripRects

CONSTANTS
    Contents,               \* what a strip of the desktop may show
    Sizes,                  \* the padded surface sizes of the modes in use
    NoSize,                 \* w_pad and h_pad of a ledger never used
    NoHash,                 \* a hash or a body never written
    Unknown, Black,         \* dock content that is no desktop's
    RingSlots,              \* slots the frame trailer walks: 3 in records.rs
    KeyframePresentations,  \* frame_delivery.keyframe_presentations
    DeltaPresentations,     \* frame_delivery.delta_presentations
    DamageFrames,           \* frame_delivery.damage_frames
    CarrierCounts,          \* carrier frames a mode set may get out
    BlankHoldsBracket,      \* blank_bracket is MarkersHeld
    SeqMod                  \* frame_seq is a u32: 2^32 in the program

ASSUME DeliveryAssumption ==
    /\ RingSlots \in Nat \ {0}
    /\ KeyframePresentations \in Nat \ {0}
    /\ DeltaPresentations \in Nat \ {0}
    /\ DamageFrames \in Nat \ {0}
    /\ CarrierCounts \subseteq Nat
    /\ BlankHoldsBracket \in BOOLEAN
    /\ SeqMod \in Nat \ {0}

ASSUME ContentAssumption ==
    /\ NoHash \notin Contents
    /\ Unknown \notin Contents
    /\ Black \notin Contents
    /\ NoSize \notin Sizes

\* What a profile has to say for the ledger to be right about the ring.
DeliveryCoversRing ==
    /\ KeyframePresentations >= RingSlots
    /\ DamageFrames >= RingSlots
    /\ SeqMod % RingSlots = 0

Slots == 0 .. RingSlots - 1
Surface == [Strips -> Contents]
Hashes == [Strips -> Contents \cup {NoHash}]

VARIABLES
    surface, size,           \* what the compositor shows now
    \* Output of daemon.rs
    active, last_surface, last_size,
    \* HeadScanout of scanout.rs
    ledgerSize, hashes, debt, keyframe_owed, pending, bodies, body_hashes,
    \* present_rgb in progress: its plan ("None" between calls), the strips the
    \* frame carries and what each shows, and the presentations submitted
    plan, records, repeat,
    frame_seq,               \* ControlSession::frame_seq of this head
    dock                     \* external: dock[slot][strip]

ledgerVars == <<ledgerSize, hashes, debt, keyframe_owed, pending, bodies, body_hashes>>
outputVars == <<active, last_surface, last_size>>
callVars == <<plan, records, repeat>>
vars == <<surface, size, outputVars, ledgerVars, callVars, frame_seq, dock>>

\* The state of a head: every variable holds a value the code can put there.
TypeOK ==
    /\ surface \in Surface /\ size \in Sizes
    /\ active \in BOOLEAN
    /\ last_surface \in Surface /\ last_size \in Sizes \cup {NoSize}
    /\ ledgerSize \in Sizes \cup {NoSize}
    /\ hashes \in Hashes
    /\ debt \in [Strips -> 0 .. DamageFrames]
    /\ keyframe_owed \in BOOLEAN
    /\ pending \in Hashes
    /\ bodies \in Hashes /\ body_hashes \in Hashes
    /\ plan \in {"None", "Keyframe", "Damage"}
    /\ records \in Hashes
    /\ repeat \in 0 .. KeyframePresentations + DeltaPresentations
    /\ frame_seq \in 0 .. SeqMod - 1
    /\ dock \in [Slots -> [Strips -> Contents \cup {Unknown, Black}]]

-----------------------------------------------------------------------------
Blank == [s \in Strips |-> NoHash]
NoDebt == [s \in Strips |-> 0]
Filled(c) == [s \in Strips |-> c]

Owed(d) == {s \in Strips : d[s] > 0}

\* Mutant: the debt is forgotten when deciding whether to repaint.
OwesKeyframeOnly == keyframe_owed

\* owes_retransmission()
OwesRetransmission == keyframe_owed \/ Owed(debt) # {}

Presentations == IF plan = "Keyframe" THEN KeyframePresentations
                                      ELSE DeltaPresentations

\* The slot a frame's trailer names; sequences are u32 and wrap.
RingPhase(seq) == (seq % SeqMod) % RingSlots

Init ==
    /\ surface \in Surface /\ size \in Sizes
    /\ active = FALSE
    /\ last_surface = surface /\ last_size = NoSize
    /\ ledgerSize = NoSize
    /\ hashes = Blank /\ pending = Blank
    /\ debt = NoDebt
    /\ keyframe_owed = TRUE
    /\ bodies = Blank /\ body_hashes = Blank
    /\ plan = "None" /\ records = Blank /\ repeat = 0
    /\ frame_seq = 0
    /\ dock = [b \in Slots |-> Filled(Unknown)]

-----------------------------------------------------------------------------
\* The compositor changes one strip of the desktop, at any moment.
Draw(s, c) ==
    /\ c # surface[s]
    /\ surface' = [surface EXCEPT ![s] = c]
    /\ UNCHANGED <<size, outputVars, ledgerVars, callVars, frame_seq, dock>>

\* program_mode() for a mode of size w: the carrier leaves what the slots show
\* undefined, the picture takes the sequence after it, and a keyframe is owed.
ProgramMode(w, carriers) ==
    /\ plan = "None"
    /\ size' = w
    /\ active' = TRUE
    /\ frame_seq' = (carriers + 1) % SeqMod
    /\ dock' = [b \in Slots |-> Filled(Unknown)]
    /\ keyframe_owed' = TRUE
    /\ UNCHANGED <<surface, last_surface, last_size, ledgerSize, hashes, debt,
                   pending, bodies, body_hashes, callVars>>

\* deactivate_mode(): either the bracket is held and nothing is presented, or
\* black frames go out with no trailer, which leaves the ring where it is.
Deactivate(b) ==
    /\ active /\ plan = "None"
    /\ active' = FALSE
    /\ keyframe_owed' = TRUE
    /\ dock' = IF BlankHoldsBracket THEN dock
                                    ELSE [dock EXCEPT ![b] = Filled(Black)]
    /\ UNCHANGED <<surface, size, last_surface, last_size, ledgerSize, hashes,
                   debt, pending, bodies, body_hashes, callVars, frame_seq>>

\* run(): any error ends the session, and a new one starts from nothing.
Reengage ==
    /\ plan = "None"
    /\ active' = FALSE
    /\ last_surface' = surface /\ last_size' = NoSize
    /\ ledgerSize' = NoSize
    /\ hashes' = Blank /\ pending' = Blank
    /\ debt' = NoDebt
    /\ keyframe_owed' = TRUE
    /\ bodies' = Blank /\ body_hashes' = Blank
    /\ frame_seq' = 0
    /\ dock' = [b \in Slots |-> Filled(Unknown)]
    /\ UNCHANGED <<surface, size, callVars>>

-----------------------------------------------------------------------------
\* The ledger plan() works on: one kept for another size says nothing about
\* the surface the dock is holding, so it is started over.
SizedLedger(w) ==
    IF ledgerSize = w
      THEN [hashes |-> hashes, debt |-> debt, keyframe_owed |-> keyframe_owed,
            bodies |-> bodies, body_hashes |-> body_hashes]
      ELSE [hashes |-> Blank, debt |-> NoDebt, keyframe_owed |-> TRUE,
            bodies |-> Blank, body_hashes |-> Blank]

\* Mutant: the debt is one transmission short.
ChargeOneShort(led, frame) ==
    [s \in Strips |-> IF led.hashes[s] # frame[s] THEN DamageFrames - 1 ELSE led.debt[s]]

\* A strip whose content moved owes the full count, whatever it owed before.
Charge(led, frame) ==
    [s \in Strips |-> IF led.hashes[s] # frame[s] THEN DamageFrames ELSE led.debt[s]]

\* Mutant: a cached body is served without looking at its hash.
EncodeStale(led, frame, s) ==
    IF led.bodies[s] # NoHash THEN led.bodies[s] ELSE frame[s]

\* A cached body is served only while its hash is still the strip's content.
Encode(led, frame, s) ==
    IF led.bodies[s] # NoHash /\ led.body_hashes[s] = frame[s]
      THEN led.bodies[s]
      ELSE frame[s]

\* plan() and encode(), the part of present_rgb() ahead of the submissions.
Plan(frame, w) ==
    LET led     == SizedLedger(w)
        charged == IF led.keyframe_owed THEN led.debt ELSE Charge(led, frame)
        whole   == led.keyframe_owed \/ Scattered(Owed(charged))
        chosen  == IF whole THEN Strips ELSE MacroClosure(Owed(charged))
    IN  /\ active /\ plan = "None"
        /\ ledgerSize' = w
        /\ hashes' = led.hashes
        /\ debt' = charged
        /\ keyframe_owed' = led.keyframe_owed
        /\ pending' = frame
        /\ plan' = IF whole THEN "Keyframe" ELSE IF chosen = {} THEN "None" ELSE "Damage"
        /\ records' = [s \in Strips |-> IF s \in chosen THEN Encode(led, frame, s) ELSE NoHash]
        /\ bodies' = [s \in Strips |-> IF s \in chosen THEN Encode(led, frame, s) ELSE led.bodies[s]]
        /\ body_hashes' = [s \in Strips |-> IF s \in chosen THEN frame[s] ELSE led.body_hashes[s]]
        /\ last_surface' = frame /\ last_size' = w
        /\ UNCHANGED <<surface, size, active, repeat, frame_seq, dock>>

\* The daemon presents a frame it grabbed, or the last surface again while the
\* ledger still owes something.
PresentGrabbed ==
    /\ surface # last_surface \/ size # last_size
    /\ Plan(surface, size)
PresentLast ==
    /\ OwesRetransmission /\ last_size # NoSize
    /\ Plan(last_surface, last_size)

\* submit_video() of one presentation, into the slot its trailer names.
Submit ==
    /\ plan # "None" /\ repeat < Presentations
    /\ dock' = [dock EXCEPT ![RingPhase(frame_seq + repeat)] =
                   [s \in Strips |-> IF records[s] # NoHash THEN records[s] ELSE @[s]]]
    /\ repeat' = repeat + 1
    /\ UNCHANGED <<surface, size, outputVars, ledgerVars, plan, records, frame_seq>>

\* What one delta leaves owing: d.saturating_sub(1).
Paid(d) == IF d = 0 THEN 0 ELSE d - 1

\* Mutant: the sequence is not advanced behind a frame.
SeqStays(n) == frame_seq

\* The sequence after n presentations.
SeqAfter(n) == (frame_seq + n) % SeqMod

\* presented(), once every presentation is out.
Presented ==
    /\ plan # "None" /\ repeat = Presentations
    /\ frame_seq' = SeqAfter(Presentations)
    /\ debt' = [s \in Strips |-> IF plan = "Keyframe" THEN 0 ELSE Paid(debt[s])]
    /\ keyframe_owed' = (keyframe_owed /\ plan # "Keyframe")
    /\ hashes' = pending
    /\ pending' = Blank
    /\ plan' = "None" /\ records' = Blank /\ repeat' = 0
    /\ UNCHANGED <<surface, size, outputVars, ledgerSize, bodies, body_hashes, dock>>

\* A submission fails, its frame having landed or not: present_rgb() returns
\* early and leaves the ledger as plan() left it.
SubmitFails ==
    /\ plan # "None" /\ repeat < Presentations
    /\ \/ UNCHANGED dock
       \/ dock' = [dock EXCEPT ![RingPhase(frame_seq + repeat)] =
                      [s \in Strips |-> IF records[s] # NoHash THEN records[s] ELSE @[s]]]
    /\ plan' = "None" /\ records' = Blank /\ repeat' = 0
    /\ UNCHANGED <<surface, size, outputVars, ledgerVars, frame_seq>>

-----------------------------------------------------------------------------
Daemon == PresentGrabbed \/ PresentLast \/ Submit \/ Presented

Next ==
    \/ \E s \in Strips, c \in Contents : Draw(s, c)
    \/ \E w \in Sizes, n \in CarrierCounts : ProgramMode(w, n)
    \/ \E b \in Slots : Deactivate(b)
    \/ Reengage
    \/ Daemon
    \/ SubmitFails

\* The daemon's loop never blocks for good: a poll of every output, then round.
Spec == Init /\ [][Next]_vars /\ WF_vars(Daemon)
-----------------------------------------------------------------------------
\* Once nothing is owed, every slot of the ring shows the surface the daemon
\* handed over last: what owes_retransmission() answering false has to mean.
RingSettled ==
    active /\ plan = "None" /\ ~OwesRetransmission =>
        \A b \in Slots : dock[b] = last_surface

\* A strip already paid for in some slots never loses what they show: slots
\* further ahead than the debt hold the published content, at every instant,
\* a frame half way out and a failed one included (presented()'s "published
\* only now" is what this rests on).
LedgerHonest ==
    ~keyframe_owed =>
        \A s \in Strips, k \in Slots :
            k >= debt[s] => dock[RingPhase(frame_seq + k)][s] = hashes[s]

\* A frame shows each strip it carries as the surface it was planned for has
\* it: no cached body is paired with newer pixels.
BodiesAreCurrent ==
    \A s \in Strips : records[s] # NoHash => records[s] = last_surface[s]

\* A desktop that goes still on a lit head is delivered to every slot, with no
\* new frame from the compositor to carry it.
StillDesktopIsDelivered ==
    <>[][Daemon]_vars => <>[](active => \A b \in Slots : dock[b] = surface)
=============================================================================
