------------------------------- MODULE Vblank -------------------------------
(***************************************************************************)
(* The synthetic vblank of a Revdi card (module/kms.rs): one high          *)
(* resolution timer that the CRTC callbacks start and stop without ever    *)
(* waiting for its callback, and which completes the page flips.           *)
(*                                                                         *)
(* DRM's vblank reference counting and the hrtimer are external: the first *)
(* reference calls enable_vblank, the last one gone calls disable_vblank,  *)
(* vblank_off disables and completes what is pending, and a timer queued   *)
(* again during its callback stays queued whatever the callback returns.   *)
(***************************************************************************)
EXTENDS Integers

CONSTANT MaxEnables        \* bound: times the CRTC is enabled

ASSUME VblankAssumption == MaxEnables \in Nat

VARIABLES
    active,      \* the CRTC is on: vblank references can be taken
    pinned,      \* EvdiCrtc.vblank_pinned
    pending,     \* a flip event is armed (it holds a vblank reference)
    enabled,     \* VblankTimer.enabled
    published,   \* VblankTimer.crtc is Some
    started,     \* EvdiDrmData.vblank is Some: the handle exists
    queued,      \* external: the hrtimer is enqueued
    cb,          \* where its callback is: out, in, deliver, forward, dying
    epc,         \* enable_vblank between its store and its (re)start
    spc,         \* shutdown: up, taken, down
    enables

vars == <<active, pinned, pending, enabled, published, started, queued, cb, epc, spc, enables>>

\* Every variable holds what the code can put there, and a reference is pinned
\* only while the CRTC is on.
TypeOK ==
    /\ active \in BOOLEAN /\ pinned \in BOOLEAN /\ pending \in BOOLEAN
    /\ enabled \in BOOLEAN /\ published \in BOOLEAN /\ started \in BOOLEAN /\ queued \in BOOLEAN
    /\ cb \in {"out", "in", "deliver", "forward", "dying"}
    /\ pinned => active
    /\ epc \in BOOLEAN /\ spc \in {"up", "taken", "down"} /\ enables \in 0 .. MaxEnables

Init ==
    /\ active = FALSE /\ pinned = FALSE /\ pending = FALSE
    /\ enabled = FALSE /\ published = FALSE /\ started = FALSE /\ queued = FALSE
    /\ cb = "out" /\ epc = FALSE /\ spc = "up" /\ enables = 0

Referenced == pinned \/ pending

\* enable_vblank up to the timer: publish the CRTC, set the flag.  DRM calls
\* it for the first reference, and holds its lock until it returns.
EnableVblank ==
    /\ published' = TRUE
    /\ enabled' = TRUE
    /\ epc' = TRUE

\* Mutant: a timer that has a handle is taken to be running.
StartOnlyOnce ==
    /\ epc
    /\ queued' = (queued \/ ~started)
    /\ started' = TRUE
    /\ epc' = FALSE
    /\ UNCHANGED <<active, pinned, pending, enabled, published, cb, spc, enables>>

\* ... and start the timer, or restart the one there is.
StartTimer ==
    /\ epc
    /\ queued' = TRUE
    /\ started' = TRUE
    /\ epc' = FALSE
    /\ UNCHANGED <<active, pinned, pending, enabled, published, cb, spc, enables>>

\* atomic_enable: vblank_on, then a reference is pinned for as long as the
\* CRTC is on.
AtomicEnable ==
    /\ ~epc /\ ~active /\ enables < MaxEnables
    /\ enables' = enables + 1
    /\ active' = TRUE /\ pinned' = TRUE
    /\ IF ~pinned THEN EnableVblank ELSE UNCHANGED <<published, enabled, epc>>
    /\ UNCHANGED <<pending, started, queued, cb, spc>>

\* atomic_disable: unpin, then vblank_off, which disables the vblank and sends
\* what was pending (external).
AtomicDisable ==
    /\ ~epc /\ active
    /\ active' = FALSE /\ pinned' = FALSE /\ pending' = FALSE
    /\ enabled' = FALSE
    /\ UNCHANGED <<published, started, queued, cb, epc, spc, enables>>

\* atomic_flush with an event: armed on a reference of its own, or sent at
\* once where the vblank cannot be had.
AtomicFlush ==
    /\ ~epc /\ active /\ ~pending
    /\ pending' = TRUE
    /\ IF ~Referenced THEN EnableVblank ELSE UNCHANGED <<published, enabled, epc>>
    /\ UNCHANGED <<active, pinned, started, queued, cb, spc, enables>>

-----------------------------------------------------------------------------
\* The timer expires and its callback begins.
TimerFires ==
    /\ queued /\ cb = "out"
    /\ queued' = FALSE
    /\ cb' = "in"
    /\ UNCHANGED <<active, pinned, pending, enabled, published, started, epc, spc, enables>>

\* VblankTimer::run: disabled means the timer dies.
RunChecks ==
    /\ cb = "in"
    /\ cb' = IF enabled THEN "deliver" ELSE "dying"
    /\ UNCHANGED <<active, pinned, pending, enabled, published, started, queued, epc, spc, enables>>

\* handle_vblank: the armed flip is complete, and the last reference gone
\* disables the vblank.  DRM's lock keeps this out of enable_vblank.
RunDelivers ==
    /\ cb = "deliver" /\ ~epc
    /\ pending' = (pending /\ ~(published /\ enabled))
    /\ enabled' = (enabled /\ (pinned \/ pending'))
    /\ cb' = "forward"
    /\ UNCHANGED <<active, pinned, published, started, queued, epc, spc, enables>>

\* Restart or NoRestart.
RunReturns ==
    /\ cb \in {"forward", "dying"}
    /\ queued' = (queued \/ cb = "forward")
    /\ cb' = "out"
    /\ UNCHANGED <<active, pinned, pending, enabled, published, started, epc, spc, enables>>

-----------------------------------------------------------------------------
\* EvdiDrmData::shutdown: the handle is taken out ...
ShutdownTakes ==
    /\ spc = "up"
    /\ started' = FALSE
    /\ enabled' = (enabled /\ ~started)
    /\ spc' = IF started THEN "taken" ELSE "down"
    /\ UNCHANGED <<active, pinned, pending, published, queued, cb, epc, enables>>

\* ... and dropped, which cancels the timer once its callback is out, and the
\* published CRTC and its pin go.
ShutdownCancels ==
    /\ spc = "taken" /\ cb = "out"
    /\ queued' = FALSE
    /\ published' = FALSE
    /\ pinned' = (pinned /\ ~published)
    /\ enabled' = (enabled /\ (pinned' \/ pending))
    /\ spc' = "down"
    /\ UNCHANGED <<active, pending, started, cb, epc, enables>>

TimerStep == TimerFires \/ RunChecks \/ RunDelivers \/ RunReturns

Next ==
    \/ AtomicEnable \/ AtomicDisable \/ AtomicFlush \/ StartTimer
    \/ TimerStep
    \/ ShutdownTakes \/ ShutdownCancels

\* The timer runs, enable_vblank returns, and unregistering the card, which
\* follows shutdown, disables the CRTC.
Fairness ==
    /\ WF_vars(TimerStep) /\ WF_vars(StartTimer) /\ WF_vars(ShutdownCancels)
    /\ WF_vars(spc = "down" /\ AtomicDisable)

Spec == Init /\ [][Next]_vars /\ Fairness

-----------------------------------------------------------------------------
\* While vblanks are wanted the timer is alive: queued, or in a callback that
\* will queue it.  A callback that saw them off while they are being turned on
\* again does not kill it.
TimerAlive ==
    spc = "up" /\ enabled /\ ~epc => queued \/ cb \in {"in", "deliver", "forward"}

\* An armed page flip completes, through vblanks switched off and on again and
\* through the card's removal.
FlipsComplete == pending ~> ~pending
=============================================================================
