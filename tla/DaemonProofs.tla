---------------------------- MODULE DaemonProofs ----------------------------
(***************************************************************************)
(* The daemon's books are the session's, where a mode cannot be declined a *)
(* frame is shown on the timing it was drawn for, and a plugged monitor    *)
(* keeps its output: for any number of heads, whatever the compositor, the *)
(* monitors and the probes do (DockDaemon.tla).                            *)
(***************************************************************************)
EXTENDS DockDaemon, TLAPS

\* The provers every leaf that names none is given, and their seconds.
USE ZenonT(10), SMTT(30)

\* What is read from a card are events.
Reads ==
    /\ queue \in [Heads -> Seq(Events)] /\ inbox \in [Heads -> Seq(Events)] /\ todo \in Seq(Events)

\* The books are arrays over the heads, and an output has its fields.
Fields == {"present", "mode", "active", "deferred", "debounce", "silent", "grace"}

OutputShape(o) ==
    /\ o.present \in BOOLEAN
    /\ o.present => DOMAIN o = Fields /\ o.active \in BOOLEAN

Books ==
    /\ DOMAIN output = Heads /\ mode_active \in [Heads -> BOOLEAN] /\ DOMAIN programmed = Heads
    /\ \A h \in Heads : OutputShape(output[h])

\* An output called active has a mode, and only such an output is asked for a
\* frame.
ActiveHasMode == \A h \in Heads : output[h].present /\ output[h].active => output[h].mode # NoMode

LoopPlace ==
    /\ at \in Heads
    /\ stage = "handle" => output[at].present
    /\ stage = "frame" => output[at].present /\ output[at].active

DaemonInv == Reads /\ Books /\ ActiveHasMode /\ LoopPlace /\ ActiveIsLit /\ FramesMatchTiming

-----------------------------------------------------------------------------
\* A head a step gives no other output, and the session no other timing, is
\* as consistent as it was.
Consistent(o, lighted, timing) ==
    /\ OutputShape(o)
    /\ o.present /\ o.active => o.mode # NoMode /\ lighted /\ timing = o.mode

AllConsistent ==
    /\ DOMAIN output = Heads /\ mode_active \in [Heads -> BOOLEAN] /\ DOMAIN programmed = Heads
    /\ \A h \in Heads : Consistent(output[h], mode_active[h], programmed[h])

\* The three statements about the books, head by head.
LEMMA HeadByHead == AllConsistent <=> Books /\ ActiveHasMode /\ ActiveIsLit
  BY DEF AllConsistent, Consistent, Books, ActiveHasMode, ActiveIsLit, Driven

\* A new output is not active, and neither is an absent one.
LEMMA InactiveIsConsistent ==
  ASSUME NEW lighted, NEW timing
  PROVE  Consistent(NoOutput, lighted, timing) /\ Consistent(NewOutput, lighted, timing)
  BY DEF Consistent, OutputShape, NoOutput, NewOutput, Fields

\* Init: nothing is lit, and there is no output.
LEMMA InitHolds == Init => DaemonInv
<1> SUFFICES ASSUME Init PROVE DaemonInv
  OBVIOUS
<1>1. 0 \in Heads
  BY DaemonAssumption DEF Heads
<1>2. Reads
  BY DEF Init, NoHeads, Reads
<1>3. AllConsistent
  BY InactiveIsConsistent DEF Init, NoHeads, AllConsistent
<1>4. LoopPlace /\ FramesMatchTiming
  BY <1>1 DEF Init, LoopPlace, FramesMatchTiming, NoFrame
<1> QED
  BY <1>2, <1>3, <1>4, HeadByHead DEF DaemonInv

\* NextHead and NextProbe stay among the heads, and leave the event and frame
\* steps.
LEMMA NextHeadStays ==
  ASSUME at \in Heads, NextHead
  PROVE  at' \in Heads /\ stage' \in {"batch", "poll"}
  BY DaemonAssumption DEF NextHead, Heads

LEMMA NextProbeStays ==
  ASSUME at \in Heads, stage = "topology", NextProbe
  PROVE  at' \in Heads /\ stage' \in {"topology", "poll"}
  BY DaemonAssumption DEF NextProbe, Heads

-----------------------------------------------------------------------------
\* Every step reads events only: they come from the card, are moved and
\* dropped.
LEMMA ReadsKept ==
  ASSUME Reads, at \in Heads, Next
  PROVE  Reads'
<1> USE DEF Reads
<1>1. ASSUME NEW h \in Heads, NEW es \in Seq(Events), Emit(h, es), UNCHANGED <<inbox, todo>>
      PROVE  Reads'
  BY <1>1 DEF Emit
<1>2. CASE \E h \in Heads, m \in Modes : CompositorEnables(h, m)
  <2>1. PICK h \in Heads, m \in Modes : CompositorEnables(h, m)
    BY <1>2
  <2>2. <<[type |-> "on"], [type |-> "mode", mode |-> m]>> \in Seq(Events)
    BY DEF Events
  <2> QED
    BY <1>1, <2>1, <2>2 DEF CompositorEnables, loopVars
<1>3. CASE \E h \in Heads : CompositorDisables(h)
  <2>1. <<[type |-> "off"]>> \in Seq(Events)
    BY DEF Events
  <2> QED
    BY <1>1, <1>3, <2>1 DEF CompositorDisables, loopVars
<1>4. ASSUME NEW hs, DropCards(hs), todo' \in Seq(Events)
      PROVE  Reads'
  BY <1>4 DEF DropCards
<1>5. CASE SessionFails
  BY <1>4, <1>5 DEF SessionFails
<1>6. CASE \E answer \in {"yes", "no", "silent"} : answer \in Answers(at) /\ ProbeHead(answer)
  <2>1. todo' = todo /\ (UNCHANGED cardVars \/ DropCards({at}))
    BY <1>6 DEF ProbeHead
  <2> QED
    BY <1>4, <2>1 DEF cardVars
<1>7. CASE TakeEvents
  <2>1. inbox[at] \o queue[at] \in Seq(Events)
    OBVIOUS
  <2>2. CASE output[at].present
    <3>1. /\ queue' = [queue EXCEPT ![at] = <<>>]
          /\ inbox' = [inbox EXCEPT ![at] = <<>>]
          /\ todo' = inbox[at] \o queue[at]
      BY <1>7, <2>2 DEF TakeEvents, Poll
    <3> QED
      BY <2>1, <3>1
  <2>3. CASE ~output[at].present
    BY <1>7, <2>3 DEF TakeEvents, cardVars
  <2> QED
    BY <2>2, <2>3
<1>8. CASE HandleEvent
  BY <1>8 DEF HandleEvent, cardVars
<1>9. CASE NoNewFrame \/ GrabbedFrame
  <2>1. inbox[at] \o queue[at] \in Seq(Events)
    OBVIOUS
  <2>2. /\ queue' = [queue EXCEPT ![at] = <<>>]
        /\ inbox' = [inbox EXCEPT ![at] = inbox[at] \o queue[at]]
        /\ todo' = todo
    BY <1>9 DEF NoNewFrame, GrabbedFrame, Poll
  <2> QED
    BY <2>1, <2>2
<1>10. CASE Engage \/ EventsDone \/ Batch \/ SkipProbe
  BY <1>10 DEF Engage, EventsDone, Batch, SkipProbe, cardVars
<1>11. CASE \E h \in Heads : PlugMonitor(h) \/ GraceEnds(h)
  BY <1>11 DEF PlugMonitor, GraceEnds, cardVars, loopVars
<1> QED
  BY <1>2, <1>3, <1>5, <1>6, <1>7, <1>8, <1>9, <1>10, <1>11 DEF Next, Daemon

-----------------------------------------------------------------------------
\* The head whose books an event or a frame changes, and the session with them.
LEMMA AtConsistent ==
  ASSUME AllConsistent, at \in Heads, DOMAIN output' = Heads,
         mode_active' \in [Heads -> BOOLEAN], DOMAIN programmed' = Heads,
         Consistent(output'[at], mode_active'[at], programmed'[at]),
         \A h \in Heads \ {at} : /\ output'[h] = output[h] /\ mode_active'[h] = mode_active[h]
                                 /\ programmed'[h] = programmed[h]
  PROVE  AllConsistent'
  BY DEF AllConsistent

\* ActivateMode and the books kept after it: programmed and active, or declined
\* and neither touched.
LEMMA ModeProgrammed ==
  ASSUME AllConsistent, at \in Heads, output[at].present, NEW m, m # NoMode,
         ProgramMode(at, m), NEW active \in BOOLEAN,
         output' = [output EXCEPT ![at].mode = m, ![at].active = active]
  PROVE  AllConsistent'
<1>1. DOMAIN output[at] = Fields /\ output[at].present \in BOOLEAN
  BY DEF AllConsistent, Consistent, OutputShape
<1>2. output'[at] = [output[at] EXCEPT !.mode = m, !.active = active] /\ DOMAIN output' = Heads
  BY DEF AllConsistent
<1>3. /\ DOMAIN output'[at] = Fields /\ output'[at].present = output[at].present
      /\ output'[at].mode = m /\ output'[at].active = active
  BY <1>1, <1>2 DEF Fields
<1>4. mode_active'[at] = TRUE /\ programmed'[at] = m
  BY DEF ProgramMode, AllConsistent
<1>5. Consistent(output'[at], mode_active'[at], programmed'[at])
  BY <1>1, <1>3, <1>4 DEF Consistent, OutputShape
<1>6. mode_active' \in [Heads -> BOOLEAN] /\ DOMAIN programmed' = Heads
  BY DEF ProgramMode, AllConsistent
<1>7. \A h \in Heads \ {at} : /\ output'[h] = output[h] /\ mode_active'[h] = mode_active[h]
                              /\ programmed'[h] = programmed[h]
  BY DEF ProgramMode, AllConsistent
<1> QED
  BY <1>2, <1>5, <1>6, <1>7, AtConsistent

\* A field that is neither the mode nor the activity changes.
LEMMA OtherField ==
  ASSUME AllConsistent, NEW h \in Heads, output[h].present, UNCHANGED sessionVars,
         NEW o, DOMAIN o = Fields, o.present = output[h].present,
         o.active = output[h].active, o.mode = output[h].mode,
         output' = [output EXCEPT ![h] = o]
  PROVE  AllConsistent'
  BY DEF AllConsistent, Consistent, OutputShape, sessionVars

\* handle_event, arm by arm.
LEMMA HandleKeeps ==
  ASSUME DaemonInv, HandleEvent
  PROVE  AllConsistent' /\ output'[at].present
<1> DEFINE e == Head(todo)
<1>1. AllConsistent /\ at \in Heads /\ output[at].present /\ e \in Events
  BY HeadByHead DEF DaemonInv, LoopPlace, HandleEvent, Reads
<1>2. DOMAIN output[at] = Fields /\ output[at].present \in BOOLEAN /\ output[at].active \in BOOLEAN
  BY <1>1 DEF AllConsistent, Consistent, OutputShape
<1>3. DOMAIN output = Heads
  BY <1>1 DEF AllConsistent
<1>4. CASE e.type = "mode" /\ ModeEvent(e.mode)
  <2>1. e.mode \in Modes
    BY <1>1, <1>4 DEF Events
  <2>2. e.mode # NoMode
    BY <2>1, DaemonAssumption
  <2>3. CASE Declines(at)
    <3>1. UNCHANGED sessionVars /\ output' = [output EXCEPT ![at].deferred = e.mode]
      BY <1>4, <2>3 DEF ModeEvent, ActivateMode
    <3> DEFINE o == [output[at] EXCEPT !.deferred = e.mode]
    <3>2. /\ DOMAIN o = Fields /\ o.present = output[at].present /\ o.active = output[at].active
          /\ o.mode = output[at].mode
      BY <1>2 DEF Fields
    <3>3. output' = [output EXCEPT ![at] = o] /\ output'[at] = o
      BY <1>1, <1>3, <3>1
    <3> HIDE DEF o
    <3> QED
      BY <1>1, <3>1, <3>2, <3>3, OtherField
  <2>4. CASE ~Declines(at)
    <3>1. /\ ProgramMode(at, e.mode)
          /\ output' = [output EXCEPT ![at].mode = e.mode, ![at].active = TRUE]
      BY <1>4, <2>4 DEF ModeEvent, ActivateMode
    <3>2. output'[at].present
      BY <1>1, <1>2, <1>3, <3>1 DEF Fields
    <3> QED
      BY <1>1, <2>2, <3>1, <3>2, ModeProgrammed
  <2> QED
    BY <2>3, <2>4
<1>5. CASE PowerOnEvent
  <2>1. ~output[at].active /\ output[at].mode # NoMode
    BY <1>5 DEF PowerOnEvent
  <2>2. CASE Declines(at)
    <3>1. UNCHANGED sessionVars /\ output' = [output EXCEPT ![at].active = FALSE]
      BY <1>5, <2>2 DEF PowerOnEvent, ActivateMode
    <3> DEFINE o == [output[at] EXCEPT !.active = FALSE]
    <3>2. /\ DOMAIN o = Fields /\ o.present = output[at].present /\ o.active = output[at].active
          /\ o.mode = output[at].mode
      BY <1>2, <2>1 DEF Fields
    <3>3. output' = [output EXCEPT ![at] = o] /\ output'[at] = o
      BY <1>1, <1>3, <3>1
    <3> HIDE DEF o
    <3> QED
      BY <1>1, <3>1, <3>2, <3>3, OtherField
  <2>3. CASE ~Declines(at)
    <3>1. ProgramMode(at, output[at].mode) /\ output' = [output EXCEPT ![at].active = TRUE]
      BY <1>5, <2>3 DEF PowerOnEvent, ActivateMode
    <3>2. [output[at] EXCEPT !.active = TRUE] = [output[at] EXCEPT !.mode = output[at].mode, !.active = TRUE]
      BY <1>2 DEF Fields
    <3>3. output' = [output EXCEPT ![at].mode = output[at].mode, ![at].active = TRUE]
      BY <1>1, <1>3, <3>1, <3>2
    <3>4. output'[at].present
      BY <1>1, <1>2, <1>3, <3>1 DEF Fields
    <3> QED
      BY <1>1, <2>1, <3>1, <3>3, <3>4, ModeProgrammed
  <2> QED
    BY <2>2, <2>3
<1>6. CASE PowerOffEvent
  <2>1. /\ mode_active' = [mode_active EXCEPT ![at] = FALSE] /\ programmed' = programmed
        /\ output' = [output EXCEPT ![at].active = FALSE]
    BY <1>6 DEF PowerOffEvent
  <2>2. /\ DOMAIN output'[at] = Fields /\ output'[at].present = output[at].present
        /\ output'[at].active = FALSE
    BY <1>1, <1>2, <1>3, <2>1 DEF Fields
  <2>3. Consistent(output'[at], mode_active'[at], programmed'[at])
    BY <1>2, <2>2 DEF Consistent, OutputShape
  <2>4. /\ DOMAIN output' = Heads /\ mode_active' \in [Heads -> BOOLEAN] /\ DOMAIN programmed' = Heads
        /\ \A h \in Heads \ {at} : /\ output'[h] = output[h] /\ mode_active'[h] = mode_active[h]
                                   /\ programmed'[h] = programmed[h]
    BY <1>1, <2>1 DEF AllConsistent
  <2> QED
    BY <1>1, <2>2, <2>3, <2>4, AtConsistent
<1>7. CASE IgnoredEvent(e)
  BY <1>1, <1>7 DEF IgnoredEvent, AllConsistent, sessionVars
<1> QED
  BY <1>4, <1>5, <1>6, <1>7 DEF HandleEvent

\* A frame: its mode is the programmed one, or is programmed, or the dock
\* declines.
LEMMA FrameKeeps ==
  ASSUME DaemonInv, GrabbedFrame
  PROVE  AllConsistent' /\ FramesMatchTiming'
<1> DEFINE m == cardmode'[at]
<1>1. AllConsistent /\ at \in Heads /\ output[at].present /\ output[at].active
  BY HeadByHead DEF DaemonInv, LoopPlace, GrabbedFrame
<1>2. DOMAIN output[at] = Fields /\ output[at].present \in BOOLEAN /\ output[at].active \in BOOLEAN
  BY <1>1 DEF AllConsistent, Consistent, OutputShape
<1>3. DOMAIN output = Heads /\ DOMAIN programmed = Heads
  BY <1>1 DEF AllConsistent
<1>4. m # NoMode /\ dock_wide' = dock_wide
  BY DEF GrabbedFrame, compositorVars
<1>5. presented'.mode = m /\ presented'.timing = programmed'[at]
  BY DEF GrabbedFrame
<1>6. CASE m = output[at].mode
  <2>1. UNCHANGED <<sessionVars, output>>
    BY <1>6 DEF GrabbedFrame
  <2>2. programmed[at] = output[at].mode
    BY <1>1 DEF AllConsistent, Consistent
  <2> QED
    BY <1>1, <1>5, <1>6, <2>1, <2>2 DEF AllConsistent, sessionVars, FramesMatchTiming
<1>7. CASE m # output[at].mode /\ Declines(at)
  <2>1. UNCHANGED sessionVars /\ output' = [output EXCEPT ![at].deferred = m]
    BY <1>7 DEF GrabbedFrame, ActivateMode
  <2> DEFINE o == [output[at] EXCEPT !.deferred = m]
  <2>2. /\ DOMAIN o = Fields /\ o.present = output[at].present /\ o.active = output[at].active
        /\ o.mode = output[at].mode
    BY <1>2 DEF Fields
  <2>3. output' = [output EXCEPT ![at] = o]
    BY <1>1, <1>3, <2>1
  <2>4. FramesMatchTiming'
    BY <1>4, <1>7 DEF Declines, FramesMatchTiming
  <2> HIDE DEF o
  <2> QED
    BY <1>1, <2>1, <2>2, <2>3, <2>4, OtherField
<1>8. CASE m # output[at].mode /\ ~Declines(at)
  <2>1. ProgramMode(at, m) /\ output' = [output EXCEPT ![at].mode = m]
    BY <1>8 DEF GrabbedFrame, ActivateMode
  <2>2. [output[at] EXCEPT !.mode = m] = [output[at] EXCEPT !.mode = m, !.active = output[at].active]
    BY <1>2 DEF Fields
  <2>3. output' = [output EXCEPT ![at].mode = m, ![at].active = output[at].active]
    BY <1>1, <1>3, <2>1, <2>2
  <2>4. AllConsistent'
    BY <1>1, <1>2, <1>4, <2>1, <2>3, ModeProgrammed
  <2>5. programmed'[at] = m
    BY <1>1, <1>3, <2>1 DEF ProgramMode
  <2> QED
    BY <1>5, <2>4, <2>5 DEF FramesMatchTiming
<1> QED
  BY <1>6, <1>7, <1>8

\* The batch programs every output that wants a mode; one that wants none has
\* none, and was not active.
LEMMA BatchKeeps ==
  ASSUME AllConsistent, Batch
  PROVE  AllConsistent'
<1>1. CASE UNCHANGED <<sessionVars, output>>
  BY <1>1 DEF AllConsistent, sessionVars
<1>2. CASE ~UNCHANGED <<sessionVars, output>>
  <2>1. /\ mode_active' = [h \in Heads |-> Wanted(h) # NoMode]
        /\ programmed' = [h \in Heads |-> IF Wanted(h) # NoMode THEN Wanted(h) ELSE programmed[h]]
        /\ output' = [h \in Heads |->
                        IF Wanted(h) = NoMode THEN output[h]
                        ELSE [output[h] EXCEPT !.mode = Wanted(h), !.active = TRUE,
                                               !.deferred = NoMode]]
    BY <1>2 DEF Batch
  <2>2. ASSUME NEW h \in Heads
        PROVE  Consistent(output'[h], mode_active'[h], programmed'[h])
    <3>1. Consistent(output[h], mode_active[h], programmed[h])
      BY DEF AllConsistent
    <3>2. CASE Wanted(h) = NoMode
      <4>1. output'[h] = output[h]
        BY <2>1, <3>2
      <4>2. ~(output[h].present /\ output[h].active)
        BY <3>1, <3>2 DEF Wanted, Consistent
      <4> QED
        BY <3>1, <4>1, <4>2 DEF Consistent
    <3>3. CASE Wanted(h) # NoMode
      <4>1. output[h].present /\ DOMAIN output[h] = Fields /\ output[h].present \in BOOLEAN
        BY <3>1, <3>3 DEF Wanted, Consistent, OutputShape
      <4>2. output'[h] = [output[h] EXCEPT !.mode = Wanted(h), !.active = TRUE, !.deferred = NoMode]
        BY <2>1, <3>3
      <4>3. /\ DOMAIN output'[h] = Fields /\ output'[h].present = output[h].present
            /\ output'[h].active = TRUE /\ output'[h].mode = Wanted(h)
        BY <4>1, <4>2 DEF Fields
      <4>4. mode_active'[h] = TRUE /\ programmed'[h] = Wanted(h)
        BY <2>1, <3>3
      <4> QED
        BY <3>3, <4>1, <4>3, <4>4 DEF Consistent, OutputShape
    <3> QED
      BY <3>2, <3>3
  <2>3. DOMAIN output' = Heads /\ mode_active' \in [Heads -> BOOLEAN] /\ DOMAIN programmed' = Heads
    BY <2>1
  <2> QED
    BY <2>2, <2>3 DEF AllConsistent
<1> QED
  BY <1>1, <1>2

\* refresh_topology fills a slot with an output that is not active, empties
\* one, or counts.
LEMMA ProbeKeeps ==
  ASSUME AllConsistent, at \in Heads, NEW answer, ProbeHead(answer)
  PROVE  AllConsistent'
<1>1. UNCHANGED sessionVars /\ DOMAIN output = Heads
  BY DEF ProbeHead, AllConsistent
<1>2. ASSUME NEW o \in {NoOutput, NewOutput}, output' = [output EXCEPT ![at] = o]
      PROVE  AllConsistent'
  <2>1. Consistent(o, mode_active[at], programmed[at])
    BY <1>2, InactiveIsConsistent
  <2> QED
    BY <1>1, <1>2, <2>1 DEF AllConsistent, sessionVars
<1>3. CASE ~output[at].present
  <2>1. UNCHANGED output \/ output' = [output EXCEPT ![at] = NewOutput]
    BY <1>3 DEF ProbeHead
  <2> QED
    BY <1>1, <1>2, <2>1 DEF AllConsistent, sessionVars
<1>4. CASE output[at].present /\ output' = [output EXCEPT ![at] = NoOutput]
  BY <1>2, <1>4
<1>5. CASE output[at].present /\ output' # [output EXCEPT ![at] = NoOutput]
  <2>1. PICK silent, debounce :
          output' = [output EXCEPT ![at].silent = silent, ![at].debounce = debounce]
    BY <1>5 DEF ProbeHead
  <2>2. DOMAIN output[at] = Fields
    BY <1>5 DEF AllConsistent, Consistent, OutputShape
  <2> DEFINE o == [output[at] EXCEPT !.silent = silent, !.debounce = debounce]
  <2>3. /\ DOMAIN o = Fields /\ o.present = output[at].present /\ o.active = output[at].active
        /\ o.mode = output[at].mode
    BY <2>2 DEF Fields
  <2>4. output' = [output EXCEPT ![at] = o]
    BY <1>1, <2>1
  <2> HIDE DEF o
  <2> QED
    BY <1>1, <1>5, <2>3, <2>4, OtherField
<1> QED
  BY <1>3, <1>4, <1>5

\* The grace period of an output ends, and nothing else about it changes.
LEMMA GraceKeeps ==
  ASSUME AllConsistent, NEW h \in Heads, GraceEnds(h)
  PROVE  AllConsistent' /\ \A g \in Heads : /\ output'[g].present = output[g].present
                                            /\ output[g].present => output'[g].active = output[g].active
<1>1. output[h].present /\ UNCHANGED sessionVars /\ output' = [output EXCEPT ![h].grace = FALSE]
  BY DEF GraceEnds
<1>2. DOMAIN output[h] = Fields /\ DOMAIN output = Heads
  BY <1>1 DEF AllConsistent, Consistent, OutputShape
<1> DEFINE o == [output[h] EXCEPT !.grace = FALSE]
<1>3. /\ DOMAIN o = Fields /\ o.present = output[h].present /\ o.active = output[h].active
      /\ o.mode = output[h].mode
  BY <1>2 DEF Fields
<1>4. output' = [output EXCEPT ![h] = o]
  BY <1>1, <1>2
<1> HIDE DEF o
<1>5. AllConsistent'
  BY <1>1, <1>3, <1>4, OtherField
<1> QED
  BY <1>2, <1>3, <1>4, <1>5

-----------------------------------------------------------------------------
\* Every step keeps the invariant.
LEMMA StepHolds == DaemonInv /\ [Next]_vars => DaemonInv'
<1> SUFFICES ASSUME DaemonInv, [Next]_vars PROVE DaemonInv'
  OBVIOUS
<1>1. AllConsistent /\ at \in Heads /\ Reads /\ LoopPlace /\ FramesMatchTiming
  BY HeadByHead DEF DaemonInv, LoopPlace
<1>2. ASSUME AllConsistent', LoopPlace', FramesMatchTiming', Next
      PROVE  DaemonInv'
  <2>1. Reads'
    BY <1>1, <1>2, ReadsKept
  <2>2. (Books /\ ActiveHasMode /\ ActiveIsLit)'
    BY <1>2, HeadByHead, PTL
  <2> QED
    BY <1>2, <2>1, <2>2 DEF DaemonInv
<1>3. ASSUME Next, UNCHANGED <<output, sessionVars, presented, dock_wide>>, LoopPlace'
      PROVE  DaemonInv'
  <2>1. AllConsistent'
    BY <1>1, <1>3 DEF AllConsistent, sessionVars
  <2>2. FramesMatchTiming'
    BY <1>1, <1>3 DEF FramesMatchTiming
  <2> QED
    BY <1>2, <1>3, <2>1, <2>2
<1>4. CASE UNCHANGED vars
  <2>1. Reads' /\ LoopPlace' /\ FramesMatchTiming'
    BY <1>1, <1>4 DEF vars, compositorVars, cardVars, loopVars, historyVars, Reads, LoopPlace, FramesMatchTiming
  <2>2. Books' /\ ActiveHasMode' /\ ActiveIsLit'
    BY <1>4 DEF vars, sessionVars, DaemonInv, Books, ActiveHasMode, ActiveIsLit, Driven
  <2> QED
    BY <2>1, <2>2 DEF DaemonInv
<1>5. CASE \E h \in Heads : (\E m \in Modes : CompositorEnables(h, m)) \/ CompositorDisables(h) \/ PlugMonitor(h)
  <2>1. UNCHANGED <<output, sessionVars, presented, dock_wide, loopVars>>
    BY <1>5 DEF CompositorEnables, CompositorDisables, PlugMonitor, historyVars
  <2>2. LoopPlace'
    BY <1>1, <2>1 DEF LoopPlace, loopVars
  <2> QED
    BY <1>3, <1>5, <2>1, <2>2 DEF Next
<1>6. CASE \E h \in Heads : GraceEnds(h)
  <2>1. PICK h \in Heads : GraceEnds(h)
    BY <1>6
  <2>2. UNCHANGED <<presented, dock_wide, loopVars>>
    BY <2>1 DEF GraceEnds, historyVars, compositorVars
  <2>3. LoopPlace' /\ FramesMatchTiming'
    BY <1>1, <2>1, <2>2, GraceKeeps DEF LoopPlace, loopVars, FramesMatchTiming
  <2> QED
    BY <1>1, <1>2, <1>6, <2>1, <2>3, GraceKeeps DEF Next
<1>7. CASE SessionFails
  <2>1. AllConsistent'
    BY <1>7, InactiveIsConsistent DEF SessionFails, NoHeads, AllConsistent
  <2>2. 0 \in Heads
    BY DaemonAssumption DEF Heads
  <2>3. LoopPlace' /\ FramesMatchTiming'
    BY <1>7, <2>2 DEF SessionFails, LoopPlace, FramesMatchTiming, NoFrame
  <2> QED
    BY <1>2, <1>7, <2>1, <2>3 DEF Next
<1>8. CASE Engage
  <2>1. AllConsistent'
    BY <1>1, <1>8, InactiveIsConsistent DEF Engage, AllConsistent, sessionVars
  <2>2. LoopPlace' /\ FramesMatchTiming'
    BY <1>1, <1>8 DEF Engage, LoopPlace, FramesMatchTiming, compositorVars
  <2> QED
    BY <1>2, <1>8, <2>1, <2>2 DEF Next, Daemon
<1>9. CASE TakeEvents
  <2>1. UNCHANGED <<output, sessionVars, presented, dock_wide>>
    BY <1>9 DEF TakeEvents, historyVars, compositorVars
  <2>2. LoopPlace'
    BY <1>1, <1>9, <2>1, NextHeadStays DEF TakeEvents, LoopPlace
  <2> QED
    BY <1>3, <1>9, <2>1, <2>2 DEF Next, Daemon
<1>10. CASE HandleEvent
  <2>1. UNCHANGED <<presented, dock_wide, at, stage>> /\ stage = "handle"
    BY <1>10 DEF HandleEvent, historyVars, compositorVars
  <2>2. LoopPlace' /\ FramesMatchTiming'
    BY <1>1, <1>10, <2>1, HandleKeeps DEF LoopPlace, FramesMatchTiming
  <2> QED
    BY <1>2, <1>10, <2>2, HandleKeeps DEF Next, Daemon
<1>11. CASE EventsDone
  <2>1. UNCHANGED <<output, sessionVars, presented, dock_wide>>
    BY <1>11 DEF EventsDone, historyVars, compositorVars
  <2>2. LoopPlace'
    BY <1>1, <1>11, <2>1, NextHeadStays DEF EventsDone, LoopPlace
  <2> QED
    BY <1>3, <1>11, <2>1, <2>2 DEF Next, Daemon
<1>12. CASE NoNewFrame
  <2>1. UNCHANGED <<output, sessionVars, presented, dock_wide>>
    BY <1>12 DEF NoNewFrame, historyVars, compositorVars
  <2>2. LoopPlace'
    BY <1>1, <1>12, NextHeadStays DEF NoNewFrame, LoopPlace
  <2> QED
    BY <1>3, <1>12, <2>1, <2>2 DEF Next, Daemon
<1>13. CASE GrabbedFrame
  <2>1. LoopPlace'
    BY <1>1, <1>13, NextHeadStays DEF GrabbedFrame, LoopPlace
  <2> QED
    BY <1>2, <1>13, <2>1, FrameKeeps DEF Next, Daemon
<1>14. CASE Batch
  <2>1. LoopPlace' /\ FramesMatchTiming'
    BY <1>1, <1>14 DEF Batch, LoopPlace, FramesMatchTiming, compositorVars, historyVars
  <2> QED
    BY <1>1, <1>2, <1>14, <2>1, BatchKeeps DEF Next, Daemon
<1>15. CASE \E answer \in {"yes", "no", "silent"} : answer \in Answers(at) /\ ProbeHead(answer)
  <2>1. stage = "topology" /\ NextProbe /\ UNCHANGED <<presented, dock_wide>>
    BY <1>15 DEF ProbeHead, compositorVars, DropCards
  <2>2. LoopPlace' /\ FramesMatchTiming'
    BY <1>1, <2>1, NextProbeStays DEF LoopPlace, FramesMatchTiming
  <2> QED
    BY <1>1, <1>2, <1>15, <2>2, ProbeKeeps DEF Next, Daemon
<1>16. CASE SkipProbe
  <2>1. stage = "topology" /\ NextProbe /\ UNCHANGED <<output, sessionVars, presented, dock_wide>>
    BY <1>16 DEF SkipProbe, compositorVars, historyVars
  <2>2. LoopPlace'
    BY <1>1, <2>1, NextProbeStays DEF LoopPlace
  <2> QED
    BY <1>3, <1>16, <2>1, <2>2 DEF Next, Daemon
<1> QED
  BY <1>4, <1>5, <1>6, <1>7, <1>8, <1>9, <1>10, <1>11, <1>12, <1>13, <1>14, <1>15, <1>16 DEF Next, Daemon

\* Always: an output the daemon calls active is lit in the output's mode by the
\* session (ActiveIsLit).
THEOREM ActiveIsAlwaysLit == Spec => []ActiveIsLit
<1>1. DaemonInv => ActiveIsLit
  BY DEF DaemonInv
<1> QED
  BY <1>1, InitHolds, StepHolds, PTL DEF Spec

\* Always: on a dock whose heads are programmed one by one, a frame is
\* presented on the timing it was drawn for (FramesMatchTiming).
THEOREM FramesAlwaysMatchTiming == Spec => []FramesMatchTiming
<1>1. DaemonInv => FramesMatchTiming
  BY DEF DaemonInv
<1> QED
  BY <1>1, InitHolds, StepHolds, PTL DEF Spec

-----------------------------------------------------------------------------
\* On a dock programmed head by head no mode waits, and a stream that was taken
\* down is one whose output has a mode: PowerOff is all that takes one down.
Known(o, lighted, timing) ==
    /\ o.present => o.deferred = NoMode
    /\ ~o.present \/ o.mode = NoMode => timing = NoMode \/ lighted

StreamsKnown == ~dock_wide => \A h \in Heads : Known(output[h], mode_active[h], programmed[h])

Counting == failures \in Nat /\ silences \in Nat
NoneWhileEngaging == stage = "engage" => \A h \in Heads : ~output[h].present

StreamInv == Counting /\ NoneWhileEngaging /\ StreamsKnown

LEMMA StreamInit == Init => StreamInv
  BY DEF Init, StreamInv, Counting, NoneWhileEngaging, StreamsKnown, Known, NoHeads, NoOutput

\* One head's books change.
LEMMA AtKnown ==
  ASSUME DaemonInv, StreamInv, ~dock_wide, DOMAIN output' = Heads,
         Known(output'[at], mode_active'[at], programmed'[at]),
         \A h \in Heads \ {at} : /\ output'[h] = output[h] /\ mode_active'[h] = mode_active[h]
                                 /\ programmed'[h] = programmed[h]
  PROVE  \A h \in Heads : Known(output'[h], mode_active'[h], programmed'[h])
<1>1. \A h \in Heads \ {at} : Known(output'[h], mode_active'[h], programmed'[h])
  BY DEF StreamInv, StreamsKnown
<1> QED
  BY <1>1

\* A mode is programmed, where none is declined.
LEMMA ProgrammedIsKnown ==
  ASSUME DaemonInv, StreamInv, ~dock_wide, output[at].present, NEW m, m # NoMode,
         ProgramMode(at, m), NEW active,
         output' = [output EXCEPT ![at].mode = m, ![at].active = active]
  PROVE  \A h \in Heads : Known(output'[h], mode_active'[h], programmed'[h])
<1>1. at \in Heads /\ DOMAIN output = Heads /\ DOMAIN output[at] = Fields
  BY DEF DaemonInv, LoopPlace, Books, OutputShape
<1>2. output'[at] = [output[at] EXCEPT !.mode = m, !.active = active] /\ DOMAIN output' = Heads
  BY <1>1
<1>3. /\ output'[at].present = output[at].present /\ output'[at].mode = m
      /\ output'[at].deferred = output[at].deferred
  BY <1>1, <1>2 DEF Fields
<1>4. output[at].deferred = NoMode
  BY <1>1 DEF StreamInv, StreamsKnown, Known
<1>5. Known(output'[at], mode_active'[at], programmed'[at])
  BY <1>3, <1>4 DEF Known
<1>6. \A h \in Heads \ {at} : /\ output'[h] = output[h] /\ mode_active'[h] = mode_active[h]
                              /\ programmed'[h] = programmed[h]
  BY <1>1 DEF ProgramMode, DaemonInv, Books
<1> QED
  BY <1>2, <1>5, <1>6, AtKnown

\* Fields neither of the mode nor of what waits.
LEMMA OtherFieldKnown ==
  ASSUME DaemonInv, StreamInv, ~dock_wide, NEW h \in Heads, UNCHANGED sessionVars,
         NEW o, o.present = output[h].present, o.deferred = output[h].deferred, o.mode = output[h].mode,
         output' = [output EXCEPT ![h] = o]
  PROVE  \A g \in Heads : Known(output'[g], mode_active'[g], programmed'[g])
<1>1. output'[h] = o /\ \A g \in Heads \ {h} : output'[g] = output[g]
  BY DEF DaemonInv, Books
<1>2. \A g \in Heads : Known(output[g], mode_active[g], programmed[g])
  BY DEF StreamInv, StreamsKnown
<1> QED
  BY <1>1, <1>2 DEF Known, sessionVars

LEMMA HandleKnown ==
  ASSUME DaemonInv, StreamInv, ~dock_wide, HandleEvent
  PROVE  \A h \in Heads : Known(output'[h], mode_active'[h], programmed'[h])
<1> DEFINE e == Head(todo)
<1>1. at \in Heads /\ output[at].present /\ e \in Events
  BY DEF DaemonInv, LoopPlace, HandleEvent, Reads
<1>2. DOMAIN output = Heads /\ DOMAIN output[at] = Fields /\ output[at].active \in BOOLEAN
  BY <1>1 DEF DaemonInv, Books, OutputShape
<1>3. ~Declines(at)
  BY DEF Declines
<1>4. CASE e.type = "mode" /\ ModeEvent(e.mode)
  <2>1. e.mode # NoMode
    BY <1>1, <1>4, DaemonAssumption DEF Events
  <2>2. /\ ProgramMode(at, e.mode)
        /\ output' = [output EXCEPT ![at].mode = e.mode, ![at].active = TRUE]
    BY <1>3, <1>4 DEF ModeEvent, ActivateMode
  <2> QED
    BY <1>1, <2>1, <2>2, ProgrammedIsKnown
<1>5. CASE PowerOnEvent
  <2>1. output[at].mode # NoMode /\ ProgramMode(at, output[at].mode)
    BY <1>3, <1>5 DEF PowerOnEvent, ActivateMode
  <2>2. output' = [output EXCEPT ![at].active = TRUE]
    BY <1>3, <1>5 DEF PowerOnEvent
  <2>3. [output[at] EXCEPT !.active = TRUE] = [output[at] EXCEPT !.mode = output[at].mode, !.active = TRUE]
    BY <1>2 DEF Fields
  <2>4. output' = [output EXCEPT ![at].mode = output[at].mode, ![at].active = TRUE]
    BY <1>1, <1>2, <2>2, <2>3
  <2> QED
    BY <1>1, <2>1, <2>4, ProgrammedIsKnown
<1>6. CASE PowerOffEvent
  <2>1. /\ mode_active' = [mode_active EXCEPT ![at] = FALSE] /\ programmed' = programmed
        /\ output' = [output EXCEPT ![at].active = FALSE]
    BY <1>6 DEF PowerOffEvent
  <2>2. /\ output'[at].present = output[at].present /\ output'[at].mode = output[at].mode
        /\ output'[at].deferred = output[at].deferred
    BY <1>1, <1>2, <2>1 DEF Fields
  <2>3. output[at].mode # NoMode /\ output[at].deferred = NoMode
    BY <1>1, <1>6 DEF PowerOffEvent, DaemonInv, ActiveHasMode, StreamInv, StreamsKnown, Known
  <2>4. Known(output'[at], mode_active'[at], programmed'[at])
    BY <1>1, <2>2, <2>3 DEF Known
  <2>5. /\ DOMAIN output' = Heads
        /\ \A h \in Heads \ {at} : /\ output'[h] = output[h] /\ mode_active'[h] = mode_active[h]
                                   /\ programmed'[h] = programmed[h]
    BY <1>1, <1>2, <2>1 DEF DaemonInv, Books
  <2> QED
    BY <2>4, <2>5, AtKnown
<1>7. CASE IgnoredEvent(e)
  BY <1>7 DEF IgnoredEvent, StreamInv, StreamsKnown, sessionVars
<1> QED
  BY <1>4, <1>5, <1>6, <1>7 DEF HandleEvent

LEMMA FrameKnown ==
  ASSUME DaemonInv, StreamInv, ~dock_wide, GrabbedFrame
  PROVE  \A h \in Heads : Known(output'[h], mode_active'[h], programmed'[h])
<1> DEFINE m == cardmode'[at]
<1>1. at \in Heads /\ output[at].present /\ m # NoMode
  BY DEF DaemonInv, LoopPlace, GrabbedFrame
<1>2. DOMAIN output = Heads /\ DOMAIN output[at] = Fields
  BY <1>1 DEF DaemonInv, Books, OutputShape
<1>3. CASE m = output[at].mode
  BY <1>3 DEF GrabbedFrame, StreamInv, StreamsKnown, sessionVars
<1>4. CASE m # output[at].mode
  <2>1. ProgramMode(at, m) /\ output' = [output EXCEPT ![at].mode = m]
    BY <1>4 DEF GrabbedFrame, ActivateMode, Declines
  <2>2. [output[at] EXCEPT !.mode = m] = [output[at] EXCEPT !.mode = m, !.active = output[at].active]
    BY <1>2 DEF Fields
  <2>3. output' = [output EXCEPT ![at].mode = m, ![at].active = output[at].active]
    BY <1>1, <1>2, <2>1, <2>2
  <2> QED
    BY <1>1, <2>1, <2>3, ProgrammedIsKnown
<1> QED
  BY <1>3, <1>4

\* refresh_topology takes away an output without a mode or an active one: the
\* stream of neither was taken down.
LEMMA ProbeKnown ==
  ASSUME DaemonInv, StreamInv, ~dock_wide, NEW answer, ProbeHead(answer)
  PROVE  \A h \in Heads : Known(output'[h], mode_active'[h], programmed'[h])
<1>1. at \in Heads /\ DOMAIN output = Heads /\ UNCHANGED sessionVars /\ ~Spared(at)
  BY DEF DaemonInv, LoopPlace, Books, ProbeHead
<1>2. \A h \in Heads : Known(output[h], mode_active[h], programmed[h])
  BY DEF StreamInv, StreamsKnown
<1>3. OutputShape(output[at])
  BY <1>1 DEF DaemonInv, Books
<1>4. programmed[at] = NoMode \/ mode_active[at] \/ output[at].mode = NoMode \/ ~output[at].present
  BY <1>1 DEF Spared, DaemonInv, ActiveIsLit, Driven
<1>5. programmed[at] = NoMode \/ mode_active[at]
  BY <1>1, <1>2, <1>4 DEF Known
<1>6. ASSUME NEW o \in {NoOutput, NewOutput}, output' = [output EXCEPT ![at] = o]
      PROVE  \A h \in Heads : Known(output'[h], mode_active'[h], programmed'[h])
  <2>1. Known(o, mode_active[at], programmed[at])
    BY <1>5, <1>6 DEF Known, NoOutput, NewOutput
  <2> QED
    BY <1>1, <1>2, <1>6, <2>1 DEF sessionVars
<1>7. CASE ~output[at].present
  <2>1. UNCHANGED output \/ output' = [output EXCEPT ![at] = NewOutput]
    BY <1>7 DEF ProbeHead
  <2> QED
    BY <1>1, <1>2, <1>6, <2>1 DEF sessionVars
<1>8. CASE output[at].present /\ output' # [output EXCEPT ![at] = NoOutput]
  <2>1. PICK silent, debounce :
          output' = [output EXCEPT ![at].silent = silent, ![at].debounce = debounce]
    BY <1>8 DEF ProbeHead
  <2>2. DOMAIN output[at] = Fields
    BY <1>3, <1>8 DEF OutputShape
  <2> DEFINE o == [output[at] EXCEPT !.silent = silent, !.debounce = debounce]
  <2>3. o.present = output[at].present /\ o.deferred = output[at].deferred /\ o.mode = output[at].mode
    BY <2>2 DEF Fields
  <2>4. output' = [output EXCEPT ![at] = o]
    BY <1>1, <2>1
  <2> HIDE DEF o
  <2> QED
    BY <1>1, <2>3, <2>4, OtherFieldKnown
<1> QED
  BY <1>6, <1>7, <1>8

LEMMA GraceKnown ==
  ASSUME DaemonInv, StreamInv, NEW h \in Heads, GraceEnds(h)
  PROVE  /\ ~dock_wide => \A g \in Heads : Known(output'[g], mode_active'[g], programmed'[g])
         /\ \A g \in Heads : output'[g].present = output[g].present
<1>1. output[h].present /\ UNCHANGED sessionVars /\ output' = [output EXCEPT ![h].grace = FALSE]
  BY DEF GraceEnds
<1>2. DOMAIN output = Heads /\ DOMAIN output[h] = Fields
  BY <1>1 DEF DaemonInv, Books, OutputShape
<1> DEFINE o == [output[h] EXCEPT !.grace = FALSE]
<1>3. o.present = output[h].present /\ o.deferred = output[h].deferred /\ o.mode = output[h].mode
  BY <1>2 DEF Fields
<1>4. output' = [output EXCEPT ![h] = o]
  BY <1>1, <1>2
<1> HIDE DEF o
<1> QED
  BY <1>1, <1>2, <1>3, <1>4, OtherFieldKnown

LEMMA StreamStep == DaemonInv /\ StreamInv /\ [Next]_vars => StreamInv'
<1> SUFFICES ASSUME DaemonInv, StreamInv, [Next]_vars PROVE StreamInv'
  OBVIOUS
<1>1. dock_wide' = dock_wide
  BY DEF Next, Daemon, vars, compositorVars, CompositorEnables, CompositorDisables, PlugMonitor, GraceEnds,
         SessionFails, DropCards, Engage, TakeEvents, HandleEvent, EventsDone, NoNewFrame, GrabbedFrame,
         Batch, ProbeHead, SkipProbe
<1>2. Counting'
  <2>1. failures' \in {failures, failures + 1}
    BY DEF Next, Daemon, vars, CompositorEnables, CompositorDisables, PlugMonitor, GraceEnds, SessionFails,
           Engage, TakeEvents, HandleEvent, EventsDone, NoNewFrame, GrabbedFrame, Batch, ProbeHead, SkipProbe
  <2>2. silences' \in {silences, silences + 1}
    BY DEF Next, Daemon, vars, CompositorEnables, CompositorDisables, PlugMonitor, GraceEnds, SessionFails,
           Engage, TakeEvents, HandleEvent, EventsDone, NoNewFrame, GrabbedFrame, Batch, ProbeHead, SkipProbe
  <2> QED
    BY <2>1, <2>2 DEF StreamInv, Counting
<1>3. ASSUME UNCHANGED <<output, sessionVars>>, stage' # "engage" \/ stage' = stage
      PROVE  StreamInv'
  <2>1. NoneWhileEngaging' /\ StreamsKnown'
    BY <1>1, <1>3 DEF StreamInv, NoneWhileEngaging, StreamsKnown, sessionVars
  <2> QED
    BY <1>2, <2>1 DEF StreamInv
<1>4. ASSUME ~dock_wide => \A h \in Heads : Known(output'[h], mode_active'[h], programmed'[h]),
             stage' # "engage"
      PROVE  StreamInv'
  BY <1>1, <1>2, <1>4 DEF StreamInv, NoneWhileEngaging, StreamsKnown
<1>5. CASE UNCHANGED vars
  BY <1>3, <1>5 DEF vars, loopVars
<1>6. CASE \E h \in Heads : (\E m \in Modes : CompositorEnables(h, m)) \/ CompositorDisables(h) \/ PlugMonitor(h)
  BY <1>3, <1>6 DEF CompositorEnables, CompositorDisables, PlugMonitor, loopVars
<1>7. CASE \E h \in Heads : GraceEnds(h)
  <2>1. PICK h \in Heads : GraceEnds(h)
    BY <1>7
  <2>2. stage' = stage
    BY <2>1 DEF GraceEnds, loopVars
  <2>3. NoneWhileEngaging' /\ StreamsKnown'
    BY <1>1, <2>1, <2>2, GraceKnown DEF StreamInv, NoneWhileEngaging, StreamsKnown
  <2> QED
    BY <1>2, <2>3 DEF StreamInv
<1>8. CASE SessionFails
  <2>1. \A h \in Heads : output'[h] = NoOutput /\ programmed'[h] = NoMode
    BY <1>8 DEF SessionFails, NoHeads
  <2> QED
    BY <1>2, <2>1 DEF StreamInv, NoneWhileEngaging, StreamsKnown, Known, NoOutput
<1>9. CASE Engage
  <2>1. UNCHANGED sessionVars /\ stage = "engage" /\ stage' = "poll"
    BY <1>9 DEF Engage
  <2>2. \A h \in Heads : output'[h] \in {NewOutput, NoOutput}
    BY <1>9 DEF Engage
  <2>3. ~dock_wide => \A h \in Heads : programmed[h] = NoMode \/ mode_active[h]
    BY <2>1 DEF StreamInv, NoneWhileEngaging, StreamsKnown, Known
  <2>4. ~dock_wide => \A h \in Heads : Known(output'[h], mode_active'[h], programmed'[h])
    BY <2>1, <2>2, <2>3 DEF Known, NewOutput, NoOutput, sessionVars
  <2> QED
    BY <1>4, <2>1, <2>4
<1>10. CASE TakeEvents \/ EventsDone \/ NoNewFrame
  <2>1. UNCHANGED <<output, sessionVars>>
    BY <1>10 DEF TakeEvents, EventsDone, NoNewFrame
  <2>2. stage' # "engage"
    BY <1>10 DEF TakeEvents, EventsDone, NoNewFrame, NextHead
  <2> QED
    BY <1>3, <2>1, <2>2
<1>11. CASE HandleEvent
  <2>1. stage' = "handle"
    BY <1>11 DEF HandleEvent
  <2> QED
    BY <1>4, <1>11, <2>1, HandleKnown
<1>12. CASE GrabbedFrame
  <2>1. stage' # "engage"
    BY <1>12 DEF GrabbedFrame, NextHead
  <2> QED
    BY <1>4, <1>12, <2>1, FrameKnown
<1>13. CASE Batch
  <2>1. stage' # "engage"
    BY <1>13 DEF Batch
  <2>2. ~dock_wide => UNCHANGED <<sessionVars, output>>
    BY <1>13 DEF Batch, StreamInv, StreamsKnown, Known
  <2> QED
    BY <1>4, <2>1, <2>2 DEF StreamInv, StreamsKnown, sessionVars
<1>14. CASE \E answer \in {"yes", "no", "silent"} : answer \in Answers(at) /\ ProbeHead(answer)
  <2>1. stage' # "engage"
    BY <1>14 DEF ProbeHead, NextProbe
  <2> QED
    BY <1>4, <1>14, <2>1, ProbeKnown
<1>15. CASE SkipProbe
  <2>1. stage' # "engage" /\ UNCHANGED <<output, sessionVars>>
    BY <1>15 DEF SkipProbe, NextProbe
  <2> QED
    BY <1>3, <2>1
<1> QED
  BY <1>5, <1>6, <1>7, <1>8, <1>9, <1>10, <1>11, <1>12, <1>13, <1>14, <1>15 DEF Next, Daemon

\* Of the steps only the probe takes an output away without the session, and a
\* plugged monitor is answered for with "no" where its stream is down.
LEMMA StepKeepsPlugged ==
  ASSUME DaemonInv, StreamInv, Next, NEW h \in Heads
  PROVE  KeepsPlugged(h)
<1> SUFFICES ASSUME output[h].present, ~output'[h].present, failures' = failures, monitor[h],
                    silences' = silences
             PROVE  ClosedUnawares(h)
  BY DEF KeepsPlugged
<1>1. DOMAIN output = Heads /\ at \in Heads
  BY DEF DaemonInv, Books, LoopPlace
<1>2. \A g \in Heads : OutputShape(output[g])
  BY DEF DaemonInv, Books
<1>3. ASSUME NEW answer \in Answers(at), ProbeHead(answer)
      PROVE  ClosedUnawares(h)
  <2>1. h = at
    <3>1. PICK o : output' = output \/ output' = [output EXCEPT ![at] = o]
      <4>1. CASE output' = [output EXCEPT ![at] = NewOutput] \/ output' = [output EXCEPT ![at] = NoOutput]
                   \/ output' = output
        BY <4>1
      <4>2. CASE ~(output' = [output EXCEPT ![at] = NewOutput] \/ output' = [output EXCEPT ![at] = NoOutput]
                     \/ output' = output)
        <5>1. PICK silent, debounce :
                output' = [output EXCEPT ![at].silent = silent, ![at].debounce = debounce]
          BY <1>3, <4>2 DEF ProbeHead
        <5> QED
          BY <1>1, <5>1
      <4> QED
        BY <4>1, <4>2
    <3> QED
      BY <1>1, <3>1
  <2>2. answer # "yes"
    <3>1. SUFFICES ASSUME answer = "yes" PROVE FALSE
      OBVIOUS
    <3>2. PICK silent, debounce :
            output' = [output EXCEPT ![at].silent = silent, ![at].debounce = debounce]
      BY <1>3, <2>1, <3>1 DEF ProbeHead
    <3>3. DOMAIN output[at] = Fields
      BY <1>2, <2>1 DEF OutputShape
    <3>4. output'[at].present = output[at].present
      BY <1>1, <3>2, <3>3 DEF Fields
    <3> QED
      BY <2>1, <3>4
  <2>3. answer # "silent"
    <3>1. answer = "silent" => silences' = silences + 1
      BY <1>3 DEF ProbeHead
    <3> QED
      BY <3>1 DEF StreamInv, Counting
  <2>4. programmed[h] # NoMode /\ ~mode_active[h]
    BY <1>3, <2>1, <2>2, <2>3 DEF Answers
  <2>5. ~output[h].active
    BY <2>4 DEF DaemonInv, ActiveIsLit, Driven
  <2>6. output[h].mode = NoMode
    BY <1>3, <2>1, <2>5 DEF ProbeHead, Spared
  <2> QED
    BY <2>4, <2>6 DEF ClosedUnawares, StreamInv, StreamsKnown, Known
<1>4. CASE Engage
  BY <1>4 DEF Engage, StreamInv, NoneWhileEngaging
<1>5. CASE SessionFails
  <2>1. failures' = failures + 1
    BY <1>5 DEF SessionFails
  <2> QED
    BY <2>1 DEF StreamInv, Counting
<1>6. CASE \E g \in Heads : GraceEnds(g)
  BY <1>6, GraceKnown
<1>7. CASE HandleEvent
  <2>1. at # h => output'[h] = output[h]
    BY <1>1, <1>7 DEF HandleEvent, ModeEvent, PowerOnEvent, PowerOffEvent, IgnoredEvent
  <2> QED
    BY <1>7, <2>1, HandleKeeps
<1>8. CASE GrabbedFrame
  <2>1. PICK f \in {"mode", "deferred"} : \E v : output' = output \/ output' = [output EXCEPT ![at][f] = v]
    BY <1>8 DEF GrabbedFrame
  <2>2. output[at].present => DOMAIN output[at] = Fields
    BY <1>1, <1>2 DEF OutputShape
  <2> QED
    BY <1>1, <2>1, <2>2 DEF Fields
<1>9. CASE Batch
  <2>1. output'[h] = output[h] \/ output'[h] = [output[h] EXCEPT !.mode = Wanted(h), !.active = TRUE,
                                                                 !.deferred = NoMode]
    BY <1>9 DEF Batch
  <2>2. DOMAIN output[h] = Fields
    BY <1>2 DEF OutputShape
  <2> QED
    BY <2>1, <2>2 DEF Fields
<1>10. CASE UNCHANGED output
  BY <1>10
<1>11. CASE \/ TakeEvents \/ EventsDone \/ NoNewFrame \/ SkipProbe
            \/ \E g \in Heads : (\E m \in Modes : CompositorEnables(g, m)) \/ CompositorDisables(g) \/ PlugMonitor(g)
  BY <1>10, <1>11 DEF TakeEvents, EventsDone, NoNewFrame, SkipProbe, CompositorEnables, CompositorDisables, PlugMonitor
<1> QED
  BY <1>3, <1>4, <1>5, <1>6, <1>7, <1>8, <1>9, <1>11 DEF Next, Daemon

\* No step takes the output of a plugged monitor away but one that heard nothing
\* from it, or one misled by a stream that a batch took down while the connector
\* had no output (PluggedIsKept).
THEOREM PluggedIsAlwaysKept == Spec => PluggedIsKept
<1>1. DaemonInv /\ StreamInv /\ [Next]_vars => [\A h \in Heads : KeepsPlugged(h)]_vars
  BY StepKeepsPlugged
<1> QED
  BY <1>1, InitHolds, StepHolds, StreamInit, StreamStep, PTL DEF Spec, PluggedIsKept

=============================================================================
