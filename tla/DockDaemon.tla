----------------------------- MODULE DockDaemon -----------------------------
(***************************************************************************)
(* The service loop of chimera (chimera/src/daemon.rs) with the mode half  *)
(* of the session (chimera/src/session.rs): compositor events and frames   *)
(* of several heads, monitors that come and go, and a dock whose           *)
(* connectors may only be programmed together.                             *)
(*                                                                         *)
(* The daemon is sequential: at and stage say where its loop is.  The      *)
(* compositor, the monitors and the probe's answers interleave with it.    *)
(* What a programmed head shows is Scanout's business; here a frame is the *)
(* mode it was drawn for.                                                  *)
(***************************************************************************)
EXTENDS Integers, Sequences

CONSTANTS
    MAX_CONNECTORS,        \* length of the output and session arrays
    Connectors,            \* DockProfile: connectors the dock has
    DockKinds,             \* DockProfile::dock_wide_modeset, of the docks considered
    ReportsPresence,       \* DockProfile::reports_presence
    DiscoverByEdid,        \* not DockProfile::shared_edid_handler
    PRESENCE_SILENT_LIMIT,
    Modes, NoMode,
    MaxChanges,            \* bound: compositor enables and disables
    MaxPlugs,              \* bound: monitors plugged or unplugged
    MaxFailures,           \* bound: sessions lost to the transport
    MaxSilences,           \* bound: probes that get no answer
    MaxEvents              \* bound: all of these together

ASSUME DaemonAssumption ==
    /\ MAX_CONNECTORS \in Nat /\ Connectors \in 1 .. MAX_CONNECTORS
    /\ DockKinds \subseteq BOOLEAN /\ ReportsPresence \in BOOLEAN /\ DiscoverByEdid \in BOOLEAN
    /\ NoMode \notin Modes
    /\ PRESENCE_SILENT_LIMIT \in Nat /\ MaxChanges \in Nat /\ MaxPlugs \in Nat
    /\ MaxFailures \in Nat /\ MaxSilences \in Nat /\ MaxEvents \in Nat

Heads == 0 .. MAX_CONNECTORS - 1
ModeOrNone == Modes \cup {NoMode}

VARIABLES
    lit,           \* compositor: the mode of each head's CRTC, or NoMode
    queue,         \* per head: events pending on the card
    inbox,         \* per head: EventState.events, read and not yet taken
    cardmode,      \* per head: Device::mode, the registered buffer's mode
    monitor,       \* per head: a monitor is plugged in
    output,        \* per head: Output, or NoOutput
    dock_wide,     \* the profile of the dock in use
    mode_active, programmed,   \* ControlSession
    at, stage,     \* the daemon's loop: the head served, and the step
    todo,          \* events taken from the card and not yet handled
    presented,     \* the last frame submitted: [head, mode, timing]
    probed,        \* history: the heads probed so far
    changes, plugs, failures, silences

compositorVars == <<dock_wide, lit, monitor, changes, plugs>>
cardVars == <<queue, inbox, cardmode>>
sessionVars == <<mode_active, programmed>>
loopVars == <<at, stage, todo>>
historyVars == <<presented, probed>>
vars == <<compositorVars, cardVars, output, sessionVars, loopVars, historyVars, failures, silences>>

NoOutput == [present |-> FALSE]
NewOutput == [present |-> TRUE, mode |-> NoMode, active |-> FALSE, deferred |-> NoMode,
              debounce |-> 0, silent |-> 0, grace |-> TRUE]
Events == [type : {"on", "off"}] \cup [type : {"mode"}, mode : Modes]
NoFrame == [head |-> 0, mode |-> NoMode, timing |-> NoMode]

Budget == changes + plugs + failures + silences < MaxEvents

NoHeads(v) == [h \in Heads |-> v]

Init ==
    /\ dock_wide \in DockKinds
    /\ lit = NoHeads(NoMode) /\ monitor \in {f \in [Heads -> BOOLEAN] : \A h \in Heads : f[h] => h < Connectors}
    /\ queue = NoHeads(<<>>) /\ inbox = NoHeads(<<>>) /\ cardmode = NoHeads(NoMode)
    /\ output = NoHeads(NoOutput)
    /\ mode_active = NoHeads(FALSE) /\ programmed = NoHeads(NoMode)
    /\ at = 0 /\ stage = "engage" /\ todo = <<>>
    /\ presented = NoFrame /\ probed = {}
    /\ changes = 0 /\ plugs = 0 /\ failures = 0 /\ silences = 0

-----------------------------------------------------------------------------
\* The card sends the events of an enable or of a disable (RevdiCard).
Emit(h, es) == queue' = [queue EXCEPT ![h] = @ \o es]

CompositorEnables(h, m) ==
    /\ output[h].present /\ lit[h] = NoMode /\ changes < MaxChanges /\ Budget
    /\ lit' = [lit EXCEPT ![h] = m]
    /\ changes' = changes + 1
    /\ Emit(h, <<[type |-> "on"], [type |-> "mode", mode |-> m]>>)
    /\ UNCHANGED <<dock_wide, monitor, plugs, inbox, cardmode, output, sessionVars, loopVars, historyVars,
                   failures, silences>>

CompositorDisables(h) ==
    /\ lit[h] # NoMode /\ changes < MaxChanges /\ Budget
    /\ lit' = [lit EXCEPT ![h] = NoMode]
    /\ changes' = changes + 1
    /\ Emit(h, <<[type |-> "off"]>>)
    /\ UNCHANGED <<dock_wide, monitor, plugs, inbox, cardmode, output, sessionVars, loopVars, historyVars,
                   failures, silences>>

PlugMonitor(h) ==
    /\ h < Connectors /\ plugs < MaxPlugs /\ Budget
    /\ monitor' = [monitor EXCEPT ![h] = ~@]
    /\ plugs' = plugs + 1
    /\ UNCHANGED <<dock_wide, lit, changes, cardVars, output, sessionVars, loopVars, historyVars, failures, silences>>

\* A dropped card: the connector reads disconnected and the compositor lets go
\* of it.
DropCards(hs) ==
    /\ lit' = [h \in Heads |-> IF h \in hs THEN NoMode ELSE lit[h]]
    /\ queue' = [h \in Heads |-> IF h \in hs THEN <<>> ELSE queue[h]]
    /\ inbox' = [h \in Heads |-> IF h \in hs THEN <<>> ELSE inbox[h]]
    /\ cardmode' = [h \in Heads |-> IF h \in hs THEN NoMode ELSE cardmode[h]]
    /\ UNCHANGED <<dock_wide, monitor, changes, plugs>>

\* run: a transport failure anywhere drops the session and every output, and
\* the service engages again.
SessionFails ==
    /\ stage # "engage" /\ failures < MaxFailures /\ Budget
    /\ failures' = failures + 1
    /\ DropCards(Heads)
    /\ output' = NoHeads(NoOutput)
    /\ mode_active' = NoHeads(FALSE) /\ programmed' = NoHeads(NoMode)
    /\ at' = 0 /\ stage' = "engage" /\ todo' = <<>>
    /\ presented' = NoFrame
    /\ UNCHANGED <<probed, silences>>

\* engage and the discovery over the dock's own connectors: an EDID makes an
\* output, and one that cannot be fetched or a card that cannot be had makes
\* none.  Where one handler serves every connector the probe comes first.
Engage ==
    /\ stage = "engage"
    /\ \E found \in SUBSET {h \in Heads : h < Connectors /\ monitor[h]} :
         output' = [h \in Heads |-> IF h \in found THEN NewOutput ELSE NoOutput]
    /\ probed' = IF DiscoverByEdid \/ ~ReportsPresence THEN probed
                 ELSE probed \cup 0 .. Connectors - 1
    /\ stage' = "poll"
    /\ UNCHANGED <<compositorVars, cardVars, sessionVars, at, todo, presented, failures, silences>>

-----------------------------------------------------------------------------
\* poll_events: what is pending is read, and its last mode registered.
ModesIn(es) == SelectSeq(es, LAMBDA e : e.type = "mode")
Poll(h) ==
    /\ queue' = [queue EXCEPT ![h] = <<>>]
    /\ cardmode' = [cardmode EXCEPT ![h] =
                      IF ModesIn(queue[h]) = <<>> THEN @
                      ELSE ModesIn(queue[h])[Len(ModesIn(queue[h]))].mode]

\* The next step of the loop over the outputs.
NextHead ==
    IF at + 1 = MAX_CONNECTORS THEN at' = 0 /\ stage' = "batch" ELSE at' = at + 1 /\ stage' = "poll"

\* card.events: read, and take everything read so far.
TakeEvents ==
    /\ stage = "poll"
    /\ IF output[at].present
       THEN /\ Poll(at)
            /\ todo' = inbox[at] \o queue[at]
            /\ inbox' = [inbox EXCEPT ![at] = <<>>]
            /\ stage' = "handle" /\ UNCHANGED at
       ELSE NextHead /\ UNCHANGED <<cardVars, todo>>
    /\ UNCHANGED <<compositorVars, output, sessionVars, historyVars, failures, silences>>

\* program_mode: the head is lit with this timing.
ProgramMode(h, m) ==
    /\ mode_active' = [mode_active EXCEPT ![h] = TRUE]
    /\ programmed' = [programmed EXCEPT ![h] = m]

\* activate_mode's guard: a dock that reconfigures whole declines a head
\* beside a lit one.
Declines(h) == dock_wide /\ \E other \in Heads \ {h} : mode_active[other]

ActivateMode(h, m) == IF Declines(h) THEN UNCHANGED sessionVars ELSE ProgramMode(h, m)

\* handle_event, one case per match arm.
ModeEvent(m) ==
    /\ m # output[at].mode
    /\ ActivateMode(at, m)
    /\ output' = IF Declines(at) THEN [output EXCEPT ![at].deferred = m]
                 ELSE [output EXCEPT ![at].mode = m, ![at].active = TRUE]

PowerOnEvent ==
    /\ ~output[at].active /\ output[at].mode # NoMode
    /\ ActivateMode(at, output[at].mode)
    /\ output' = [output EXCEPT ![at].active = ~Declines(at)]

\* Mutant: blanking forgets that the head is no longer active.
PowerOffKeepsActive ==
    /\ output[at].active
    /\ mode_active' = [mode_active EXCEPT ![at] = FALSE]
    /\ UNCHANGED <<programmed, output>>

PowerOffEvent ==
    /\ output[at].active
    /\ mode_active' = [mode_active EXCEPT ![at] = FALSE]
    /\ output' = [output EXCEPT ![at].active = FALSE]
    /\ UNCHANGED programmed

IgnoredEvent(e) ==
    /\ \/ e.type = "mode" /\ e.mode = output[at].mode
       \/ e.type = "on" /\ (output[at].active \/ output[at].mode = NoMode)
       \/ e.type = "off" /\ ~output[at].active
    /\ UNCHANGED <<sessionVars, output>>

HandleEvent ==
    /\ stage = "handle" /\ todo # <<>>
    /\ LET e == Head(todo) IN
         \/ e.type = "mode" /\ ModeEvent(e.mode)
         \/ e.type = "on" /\ PowerOnEvent
         \/ e.type = "off" /\ PowerOffEvent
         \/ IgnoredEvent(e)
    /\ todo' = Tail(todo)
    /\ UNCHANGED <<compositorVars, cardVars, at, stage, historyVars, failures, silences>>

EventsDone ==
    /\ stage = "handle" /\ todo = <<>>
    /\ IF output[at].active THEN stage' = "frame" /\ UNCHANGED at ELSE NextHead
    /\ UNCHANGED <<compositorVars, cardVars, output, sessionVars, todo, historyVars, failures, silences>>

\* next_frame finds nothing within frame_wait; what it read stays for later.
NoNewFrame ==
    /\ stage = "frame"
    /\ Poll(at)
    /\ inbox' = [inbox EXCEPT ![at] = @ \o queue[at]]
    /\ NextHead
    /\ UNCHANGED <<compositorVars, output, sessionVars, todo, historyVars, failures, silences>>

\* Mutant: the frame's mode is not compared with the programmed one.
GrabbedFrameAsIs ==
    /\ stage = "frame"
    /\ Poll(at)
    /\ inbox' = [inbox EXCEPT ![at] = @ \o queue[at]]
    /\ cardmode'[at] # NoMode
    /\ UNCHANGED <<sessionVars, output>>
    /\ presented' = [head |-> at, mode |-> cardmode'[at], timing |-> programmed'[at]]
    /\ NextHead
    /\ UNCHANGED <<compositorVars, todo, probed, failures, silences>>

\* A frame is grabbed: a mode not yet programmed is programmed first, or
\* deferred, and the frame is presented.
GrabbedFrame ==
    /\ stage = "frame"
    /\ Poll(at)
    /\ inbox' = [inbox EXCEPT ![at] = @ \o queue[at]]
    /\ cardmode'[at] # NoMode
    /\ IF cardmode'[at] = output[at].mode
       THEN UNCHANGED <<sessionVars, output>>
       ELSE /\ ActivateMode(at, cardmode'[at])
            /\ output' = IF Declines(at) THEN [output EXCEPT ![at].deferred = cardmode'[at]]
                         ELSE [output EXCEPT ![at].mode = cardmode'[at]]
    /\ presented' = [head |-> at, mode |-> cardmode'[at], timing |-> programmed'[at]]
    /\ NextHead
    /\ UNCHANGED <<compositorVars, todo, probed, failures, silences>>

-----------------------------------------------------------------------------
Wanted(h) == IF ~output[h].present THEN NoMode
             ELSE IF output[h].deferred # NoMode THEN output[h].deferred ELSE output[h].mode

\* activate_modes: a deferred mode takes every lit head down and programs every
\* output that has a mode.
Batch ==
    /\ stage = "batch"
    /\ IF \E h \in Heads : output[h].present /\ output[h].deferred # NoMode
       THEN /\ mode_active' = [h \in Heads |-> Wanted(h) # NoMode]
            /\ programmed' = [h \in Heads |-> IF Wanted(h) # NoMode THEN Wanted(h) ELSE programmed[h]]
            /\ output' = [h \in Heads |->
                            IF Wanted(h) = NoMode THEN output[h]
                            ELSE [output[h] EXCEPT !.mode = Wanted(h), !.active = TRUE,
                                                   !.deferred = NoMode]]
       ELSE UNCHANGED <<sessionVars, output>>
    /\ \/ stage' = "poll"
       \/ ReportsPresence /\ stage' = "topology"
    /\ UNCHANGED <<compositorVars, cardVars, at, todo, historyVars, failures, silences>>

\* What a probe may answer: a blanked stream can look like removal.
Answers(h) ==
    (IF monitor[h] THEN {"yes"} ELSE {"no"})
      \cup (IF silences < MaxSilences /\ Budget THEN {"silent"} ELSE {})
      \cup (IF programmed[h] # NoMode /\ ~mode_active[h] THEN {"no"} ELSE {})

\* Mutant: a blanked output is probed like any other.
ProbesNobodySpared(h) == FALSE

\* A deliberate DPMS-off is not probed.
Spared(h) == output[h].present /\ output[h].mode # NoMode /\ ~output[h].active

\* The second answer in a row that is not yes.
RemovalDue(o) == o.debounce + 1 >= 2

NextProbe ==
    IF at + 1 = MAX_CONNECTORS THEN at' = 0 /\ stage' = "poll" ELSE at' = at + 1 /\ UNCHANGED stage

\* refresh_topology, one head: an empty slot is filled on yes; a filled one is
\* emptied at the second answer that is not yes, where silence counts from the
\* limit on and not within the grace period.
ProbeHead(answer) ==
    LET o == output[at]
        silent == IF answer = "silent" THEN o.silent + 1 ELSE 0
        heard == answer # "silent" \/ silent >= PRESENCE_SILENT_LIMIT
    IN
    /\ stage = "topology" /\ ~Spared(at)
    /\ probed' = probed \cup {at}
    /\ silences' = IF answer = "silent" THEN silences + 1 ELSE silences
    /\ IF ~o.present
       THEN /\ \/ UNCHANGED output
               \/ answer = "yes" /\ output' = [output EXCEPT ![at] = NewOutput]
            /\ UNCHANGED <<cardVars, compositorVars>>
       ELSE IF heard /\ answer # "yes" /\ ~o.grace /\ RemovalDue(o)
       THEN /\ output' = [output EXCEPT ![at] = NoOutput]
            /\ DropCards({at})
       ELSE /\ output' = [output EXCEPT
                            ![at].silent = silent,
                            ![at].debounce = IF ~heard THEN @
                                             ELSE IF answer = "yes" \/ o.grace THEN 0 ELSE @ + 1]
            /\ UNCHANGED <<cardVars, compositorVars>>
    /\ NextProbe
    /\ UNCHANGED <<sessionVars, todo, presented, failures>>

SkipProbe ==
    /\ stage = "topology" /\ Spared(at)
    /\ NextProbe
    /\ UNCHANGED <<compositorVars, cardVars, output, sessionVars, todo, historyVars, failures, silences>>

GraceEnds(h) ==
    /\ output[h].present /\ output[h].grace
    /\ output' = [output EXCEPT ![h].grace = FALSE]
    /\ UNCHANGED <<compositorVars, cardVars, sessionVars, loopVars, historyVars, failures, silences>>

Daemon ==
    \/ Engage
    \/ TakeEvents \/ HandleEvent \/ EventsDone
    \/ NoNewFrame \/ GrabbedFrame
    \/ Batch
    \/ \E answer \in {"yes", "no", "silent"} : answer \in Answers(at) /\ ProbeHead(answer)
    \/ SkipProbe

Next ==
    \/ Daemon
    \/ SessionFails
    \/ \E h \in Heads : \/ \E m \in Modes : CompositorEnables(h, m)
                        \/ CompositorDisables(h)
                        \/ PlugMonitor(h)
                        \/ GraceEnds(h)

\* The service loop never blocks for good: every wait in it has a timeout.
Fairness == WF_vars(Daemon) /\ \A h \in Heads : WF_vars(GraceEnds(h))

Spec == Init /\ [][Next]_vars /\ Fairness

-----------------------------------------------------------------------------
Driven(h, m) == mode_active[h] /\ programmed[h] = m

\* On a dock whose heads are programmed one by one, a head the compositor
\* goes on wanting is driven in that mode from some moment on, and one it goes
\* on not wanting is dark, as long as no output was taken away: removing one
\* leaves its stream open.
WantIsFollowed ==
    \A h \in Heads :
      /\ \A m \in Modes : <>[](~dock_wide /\ lit[h] = m) => <>[]Driven(h, m)
      /\ <>[](/\ ~dock_wide /\ plugs = 0 /\ silences = 0
              /\ lit[h] = NoMode /\ output[h].present)
           => <>[]~mode_active[h]

\* A grabbed frame is presented on the timing it was drawn for, where a mode
\* cannot be declined.
FramesMatchTiming == ~dock_wide => presented.mode = presented.timing

\* The daemon's books and the session's agree: an output it calls active is
\* lit in the output's mode.
ActiveIsLit ==
    \A h \in Heads : output[h].present /\ output[h].active => Driven(h, output[h].mode)

\* A dock programmed whole takes down the stream of a connector that has lost
\* its output, and nothing tells the next output on it that it is closed.
ClosedUnawares(h) == dock_wide /\ output[h].mode = NoMode /\ programmed[h] # NoMode

\* The output goes with a plugged monitor: it was silent, or its stream closed.
KeepsPlugged(h) ==
    output[h].present /\ ~output'[h].present /\ failures' = failures /\ monitor[h]
      => silences # silences' \/ ClosedUnawares(h)

\* A monitor that is plugged in loses its output to nothing but silence: a
\* blanked stream's answers do not take it away, unless the batch blanked it
\* while there was no output to know of it (refresh_topology, activate_modes).
PluggedIsKept == [][\A h \in Heads : KeepsPlugged(h)]_vars

=============================================================================
