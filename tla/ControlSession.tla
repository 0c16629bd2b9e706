--------------------------- MODULE ControlSession ---------------------------
(***************************************************************************)
(* An authenticated control session with a dock (session.rs): mode sets,   *)
(* blanking, presented frames, the pointer, presence probes, DDC/CI and the*)
(* status polls, as the sequence of records each puts on the wire.         *)
(*                                                                         *)
(* The host runs one operation at a time.  An operation is a script of     *)
(* steps, one record each, so that the dock's answers, which may come late,*)
(* and a transport failure fall between any two of them.  A failure loses  *)
(* the session, and the daemon engages a new one; only DDC/CI failures are*)
(* swallowed by the daemon's event loop.                                   *)
(*                                                                         *)
(* The dock is external: it answers every sealed control message in order, *)
(* echoing its inner counter, it forgets its pointer when a timing is      *)
(* programmed, and it follows the sink markers and the block counter of    *)
(* the sealed video records.                                               *)
(***************************************************************************)
EXTENDS DockProfiles, Sequences, FiniteSets

CONSTANTS
  Heads,         \* connectors
  Shapes,        \* pointer images
  Places,        \* pointer positions, the origin among them
  CounterMod,    \* width of the inner counter (u16 in the code)
  MaxLag,        \* bound: replies the dock may still owe after a read
  MaxWindow,     \* bound: carrier or black frames that fit a deadline
  MaxOps,        \* bound: operations
  MaxFaults      \* bound: failed writes and monitors that come or go

None == "none"
Hidden == "hidden"
Origin == "origin"
Occupancy == {"occupied", "empty"}

\* The inner counter does not come round within the replies that may be owed
\* and the messages a set-mode message is built ahead of.
ASSUME SessionAssumption ==
  /\ Heads \subseteq Nat /\ \A S \in SUBSET Heads : Cardinality(S) \in Nat
  /\ Hidden \notin Places
  /\ CounterMod \in Nat /\ MaxLag \in Nat /\ CounterMod > MaxLag + 5
  /\ MaxWindow \in Nat /\ MaxOps \in Nat /\ MaxFaults \in Nat

VARIABLES
  profile,
  script,           \* steps left of the operation being run
  inner_counter, mode_active, mode_restate_owed, keyframe_owed,
  video_seal_seq, frame_seq, cursor_shot,
  answer,           \* the last probe: what it reported and what was true
  unread,           \* replies the host has not read, oldest first
  plugged,          \* whether each connector is occupied
  sink,             \* dock: downstream sink up
  opened,           \* dock: a stream was opened on the connector
  sealed,           \* dock: blocks of sealed video records seen
  pointer,          \* dock: pointer image and position
  unseen,           \* dock: a frame came while the sink was down
  skewed,           \* dock: a sealed record did not start at the next block
  ops, faults     \* bounds

hostVars == <<mode_active, mode_restate_owed, keyframe_owed, video_seal_seq,
              frame_seq, cursor_shot>>
streamVars == <<opened, sealed, unseen, skewed>>
dockVars == <<sink, pointer, streamVars>>
vars == <<profile, script, inner_counter, hostVars, answer, unread, plugged,
          dockVars, ops, faults>>

NoAnswer == [said |-> None, truth |-> None]
NoPointer == [shape |-> None, at |-> None]

(***************************************************************************)
(* A session as engage leaves it, and the dock with no stream open.        *)
(***************************************************************************)
Fresh ==
  /\ inner_counter = 0 /\ script = <<>> /\ unread = <<>> /\ answer = NoAnswer
  /\ mode_active = [h \in Heads |-> FALSE]
  /\ mode_restate_owed = [h \in Heads |-> FALSE]
  /\ keyframe_owed = [h \in Heads |-> TRUE]
  /\ video_seal_seq = [h \in Heads |-> 0] /\ frame_seq = [h \in Heads |-> 0]
  /\ cursor_shot = [h \in Heads |-> NoPointer]
  /\ sink = [h \in Heads |-> FALSE] /\ opened = [h \in Heads |-> FALSE]
  /\ sealed = [h \in Heads |-> 0] /\ pointer = [h \in Heads |-> NoPointer]
  /\ unseen = FALSE /\ skewed = FALSE

Init ==
  /\ profile \in Profiles /\ Fresh
  /\ plugged = [h \in Heads |-> "occupied"]
  /\ ops = 0 /\ faults = 0

-----------------------------------------------------------------------------
(***************************************************************************)
(* Control messages.                                                       *)
(***************************************************************************)
Wrap(n) == n % CounterMod

\* What the dock answers to a message: its inner counter and, for a presence
\* probe, whether the probed connector is occupied.
Reply(counter, status) == [echo |-> counter, status |-> status]

\* send_control: write, advance the counter, take the next frame if one comes.
\* A reply may be late, by at most MaxLag messages.
SendMessage(counter, status) ==
  LET queue == Append(unread, Reply(counter, status)) IN
  /\ inner_counter' = Wrap(inner_counter + 1)
  /\ \/ unread' = Tail(queue)
     \/ Len(queue) <= MaxLag /\ unread' = queue

SendControl == SendMessage(inner_counter, None)

\* A write fails and the operation returns its error; the daemon abandons
\* the session and engages a new one, on a dock it has reset.
LoseSession ==
  /\ script # <<>> /\ faults < MaxFaults
  /\ faults' = faults + 1
  /\ inner_counter' = 0 /\ script' = <<>> /\ unread' = <<>> /\ answer' = NoAnswer
  /\ mode_active' = [h \in Heads |-> FALSE]
  /\ mode_restate_owed' = [h \in Heads |-> FALSE]
  /\ keyframe_owed' = [h \in Heads |-> TRUE]
  /\ video_seal_seq' = [h \in Heads |-> 0] /\ frame_seq' = [h \in Heads |-> 0]
  /\ cursor_shot' = [h \in Heads |-> NoPointer]
  /\ sink' = [h \in Heads |-> FALSE] /\ opened' = [h \in Heads |-> FALSE]
  /\ sealed' = [h \in Heads |-> 0] /\ pointer' = [h \in Heads |-> NoPointer]
  /\ unseen' = FALSE /\ skewed' = FALSE
  /\ UNCHANGED <<profile, plugged, ops>>

\* The messages of a session.  Those no property looks into are alike.
Msg == [do |-> "message"]
StreamMarker2f == Msg
DeviceQuery == Msg
Heartbeat == Msg
StreamCommit == Msg
ClearMode == Msg
CursorCreate == Msg
DdcciForward == Msg
DdcciReadRequest == Msg
StreamMarker2e(h, up) == [do |-> "sink", head |-> h, up |-> up]
SetModeMessage(h, counter) == [do |-> "set_mode", head |-> h, counter |-> counter]
CursorImageMessage(h, shape) == [do |-> "image", head |-> h, shape |-> shape]
CursorMove(h, place) == [do |-> "move", head |-> h, at |-> place]
PresenceProbe(h) == [do |-> "probe", head |-> h]

\* A message whose content no property looks at: a bracket marker, a status
\* poll, a clear, a commit, a heartbeat, a cursor create.
Message ==
  /\ Head(script).do = "message"
  /\ SendControl
  /\ script' = Tail(script)
  /\ UNCHANGED <<hostVars, answer, dockVars>>

\* send_marker of 0x2e: the downstream sink goes up or down.
SinkMarker ==
  LET s == Head(script) IN
  /\ s.do = "sink"
  /\ SendControl
  /\ sink' = [sink EXCEPT ![s.head] = s.up]
  /\ script' = Tail(script)
  /\ UNCHANGED <<hostVars, answer, pointer, streamVars>>

-----------------------------------------------------------------------------
(***************************************************************************)
(* Sealed video records and frames.                                        *)
(***************************************************************************)
OpeningBlocks == 2
ReportBlocks == 1
NoSeal == [at |-> 0, blocks |-> 0]

\* Mutant: a message is sealed from block zero whatever went before it.
BlocksFromZero(h, n) == [at |-> 0, blocks |-> n]

\* take_blocks: a record is sealed from where the last one ended.
TakeBlocks(h, n) == [at |-> video_seal_seq[h], blocks |-> n]

\* The sealed blocks of a connector after a record taken for it.
Spend(h, seal) == [video_seal_seq EXCEPT ![h] = @ + seal.blocks]

\* stream_prefix: what the first frame after a mode set opens with.  An ARM
\* burst is sealed by itself, and a shared pipe carries its opening apart.
StreamPrefix(h) ==
  IF profile.arm_burst \/ profile.ctrl_pipe THEN NoSeal ELSE TakeBlocks(h, OpeningBlocks)

\* frame_report on a dock that shares its pipes holds the restatement back.
HoldsRestatement(h) == profile.ctrl_pipe /\ frame_seq[h] < 2

\* frame_report and stream_report: the record sent with a frame, if any.
FrameReport(h) ==
  IF \/ profile.arm_burst
     \/ mode_restate_owed[h] /\ HoldsRestatement(h)
     \/ ~mode_restate_owed[h] /\ profile.ctrl_pipe
  THEN NoSeal ELSE TakeBlocks(h, ReportBlocks)

Restates(h) == mode_restate_owed[h] /\ FrameReport(h) # NoSeal

\* The dock takes a sealed record.
DockUnseals(h, seal) ==
  /\ skewed' = (skewed \/ (seal.blocks > 0 /\ seal.at # sealed[h]))
  /\ sealed' = [sealed EXCEPT ![h] = @ + seal.blocks]

\* submit_video of a frame with a trailer.  It completes at once or at the
\* retry after a timeout, when the dock may have taken it twice: the second
\* copy changes nothing.
SubmitVideo(h, seal) ==
  /\ unseen' = (unseen \/ ~sink[h])
  /\ DockUnseals(h, seal)

\* A frame built with its report, as carriers and pictures are.
SubmitReported(h) ==
  /\ SubmitVideo(h, FrameReport(h))
  /\ video_seal_seq' = Spend(h, FrameReport(h))
  /\ mode_restate_owed' = [mode_restate_owed EXCEPT ![h] = @ /\ ~Restates(h)]

-----------------------------------------------------------------------------
(***************************************************************************)
(* program_mode.                                                           *)
(***************************************************************************)
When(cond, steps) == IF cond THEN steps ELSE <<>>

Step(name, h) == [do |-> name, head |-> h]

\* Mutant: the closing marker does not name the sink.
LeavesSink(h) == <<StreamMarker2f>>

\* The bracket's last `2e`, ahead of any pixel.
BringsSinkUp(h) == <<StreamMarker2e(h, TRUE)>>

\* What the bracket sends ahead of the timing, and behind it.
LeadIn(h) ==
  <<StreamMarker2f>> \o When(profile.pre_sink, <<StreamMarker2e(h, FALSE)>>)
  \o <<DeviceQuery>> \o When(profile.clear, <<ClearMode>>)

Settling(h) ==
  <<DeviceQuery, StreamMarker2f, StreamMarker2e(h, profile.post_sink[1]),
    StreamMarker2f, StreamMarker2e(h, profile.post_sink[2])>>
  \o When(profile.ctrl_pipe, <<Step("prologue", h)>>)
  \o <<StreamMarker2f, DeviceQuery>>

\* The opening frame, behind the check of the bracket's pace.
OpeningFrame(h, seal) ==
  <<DeviceQuery, DeviceQuery, DeviceQuery, Step("paced", h),
    [do |-> "opening", head |-> h, seal |-> seal]>>

\* The bracket the timing is programmed inside, up to the opening frame and
\* the two commits.  The set-mode message carries the inner counter it was
\* built with, before the bracket's first marker.
Bracket(h, seal, counter) ==
  LeadIn(h) \o <<SetModeMessage(h, counter)>> \o Settling(h) \o BringsSinkUp(h)
  \o OpeningFrame(h, seal) \o <<StreamCommit, StreamCommit>>

Closing(h) == When(~profile.ctrl_pipe, <<StreamMarker2f, StreamMarker2e(h, TRUE)>>)

CarrierCounts == IF profile.carriers = Window THEN 0..MaxWindow ELSE {profile.carriers}

Carriers(h, n) == [i \in 1..n |-> [do |-> "carrier", head |-> h, seq |-> i]]

\* The stream's opening and the mode message are built first.
BeginMode ==
  LET h == Head(script).head IN
  /\ Head(script).do = "begin"
  /\ \E n \in CarrierCounts :
       script' = Bracket(h, StreamPrefix(h), inner_counter) \o Closing(h)
                 \o Carriers(h, n)
                 \o <<[do |-> "programmed", head |-> h, seq |-> n + 1]>> \o Tail(script)
  /\ video_seal_seq' = Spend(h, StreamPrefix(h))
  /\ UNCHANGED <<inner_counter, unread, mode_active, mode_restate_owed, keyframe_owed,
                 frame_seq, cursor_shot, answer, dockVars>>

\* The timing is programmed, and the pointer's bitmap is undefined.
SetMode ==
  LET s == Head(script) IN
  /\ s.do = "set_mode"
  /\ SendMessage(s.counter, None)
  /\ pointer' = [pointer EXCEPT ![s.head] = NoPointer]
  /\ script' = Tail(script)
  /\ UNCHANGED <<hostVars, answer, sink, streamVars>>

\* send_stream_prologue, of a dock that shares its pipes.
Prologue ==
  LET h == Head(script).head
      config == TakeBlocks(h, OpeningBlocks) IN
  /\ Head(script).do = "prologue"
  /\ DockUnseals(h, config)
  /\ video_seal_seq' = Spend(h, config)
  /\ script' = Tail(script)
  /\ UNCHANGED <<inner_counter, unread, mode_active, mode_restate_owed, keyframe_owed,
                 frame_seq, cursor_shot, answer, sink, pointer, opened, unseen>>

\* The bracket kept its pace; one that overran is an error (LoseSession).
Paced ==
  LET h == Head(script).head IN
  /\ Head(script).do = "paced"
  /\ mode_restate_owed' = [mode_restate_owed EXCEPT ![h] = TRUE]
  /\ frame_seq' = [frame_seq EXCEPT ![h] = 0]
  /\ script' = Tail(script)
  /\ UNCHANGED <<inner_counter, unread, mode_active, keyframe_owed, video_seal_seq,
                 cursor_shot, answer, dockVars>>

\* The frame that opens the stream, with sequence 0.
Opening ==
  LET s == Head(script) IN
  /\ s.do = "opening"
  /\ opened' = [opened EXCEPT ![s.head] = TRUE]
  /\ unseen' = (unseen \/ ~sink[s.head])
  /\ DockUnseals(s.head, s.seal)
  /\ script' = Tail(script)
  /\ UNCHANGED <<inner_counter, unread, hostVars, answer, sink, pointer>>

\* A flat frame; the sequence advances behind its submission.
Carrier ==
  LET s == Head(script) IN
  /\ s.do = "carrier"
  /\ SubmitReported(s.head)
  /\ frame_seq' = [frame_seq EXCEPT ![s.head] = s.seq]
  /\ script' \in {Tail(script), <<DeviceQuery>> \o Tail(script)}     \* a poll is due or not
  /\ UNCHANGED <<inner_counter, unread, mode_active, keyframe_owed, cursor_shot, answer,
                 sink, pointer, opened>>

(***************************************************************************)
(* The pointer.                                                            *)
(***************************************************************************)
SetCursor(h, shape) == <<CursorCreate, CursorImageMessage(h, shape)>>

\* Mutant: a mode set leaves the pointer to the compositor.
RearmNothing(h) == <<>>

\* rearm_cursor: replay the image, then the position or the hiding.
RearmCursor(h) ==
  LET shot == cursor_shot[h] IN
  When(shot # NoPointer,
       SetCursor(h, shot.shape)
       \o <<CursorMove(h, IF shot.visible THEN shot.at ELSE Hidden)>>)

\* cursor_image, the second message of set_cursor: the shot keeps the
\* position and the visibility it had.  An upload shows nothing by itself.
CursorImage ==
  LET s == Head(script)
      shot == cursor_shot[s.head] IN
  /\ s.do = "image"
  /\ SendControl
  /\ pointer' = [pointer EXCEPT ![s.head].shape = s.shape]
  /\ cursor_shot' = [cursor_shot EXCEPT ![s.head] =
       IF shot = NoPointer THEN [shape |-> s.shape, at |-> Origin, visible |-> TRUE]
       ELSE [shot EXCEPT !.shape = s.shape]]
  /\ script' = Tail(script)
  /\ UNCHANGED <<mode_active, mode_restate_owed, keyframe_owed, video_seal_seq, frame_seq,
                 answer, sink, streamVars>>

\* What the shot becomes after cursor_move with a place, or with the visible
\* flag clear.
Moved(shot, at) ==
  IF at = Hidden THEN [shot EXCEPT !.visible = FALSE]
  ELSE [shot EXCEPT !.at = at, !.visible = TRUE]

\* move_cursor and hide_cursor.
CursorMoves ==
  LET s == Head(script) IN
  /\ s.do = "move"
  /\ SendControl
  /\ pointer' = [pointer EXCEPT ![s.head].at = s.at]
  /\ cursor_shot' = [cursor_shot EXCEPT ![s.head] =
                       IF @ = NoPointer THEN @ ELSE Moved(@, s.at)]
  /\ script' = Tail(script)
  /\ UNCHANGED <<mode_active, mode_restate_owed, keyframe_owed, video_seal_seq, frame_seq,
                 answer, sink, streamVars>>

FirstPictureSeq(s) == s.seq

\* The end of program_mode: the first picture takes the sequence after the
\* last carrier, a keyframe is owed, and the pointer is put back.
Programmed ==
  LET s == Head(script) IN
  /\ s.do = "programmed"
  /\ frame_seq' = [frame_seq EXCEPT ![s.head] = FirstPictureSeq(s)]
  /\ mode_active' = [mode_active EXCEPT ![s.head] = TRUE]
  /\ keyframe_owed' = [keyframe_owed EXCEPT ![s.head] = TRUE]
  /\ script' = RearmCursor(s.head) \o Tail(script)
  /\ UNCHANGED <<inner_counter, unread, mode_restate_owed, video_seal_seq, cursor_shot,
                 answer, dockVars>>

-----------------------------------------------------------------------------
(***************************************************************************)
(* present_rgb and deactivate_mode.                                        *)
(***************************************************************************)
Pictures(h, n) ==
  [i \in 1..n |-> [do |-> "picture", head |-> h, seq |-> frame_seq[h] + i - 1]]

\* The steps of a plan: nothing moved, a delta, or an owed keyframe with all
\* its presentations; each ends with a status poll.
PresentScripts(h) ==
  LET n == IF keyframe_owed[h] THEN {profile.presentations} ELSE {0, 1} IN
  {Pictures(h, k) \o When(k > 0, <<[do |-> "presented", head |-> h, n |-> k]>>) \o <<DeviceQuery>> :
     k \in n}

Picture ==
  LET s == Head(script) IN
  /\ s.do = "picture"
  /\ SubmitReported(s.head)
  /\ script' = Tail(script)
  /\ UNCHANGED <<inner_counter, unread, mode_active, keyframe_owed, frame_seq, cursor_shot,
                 answer, sink, pointer, opened>>

\* The sequence and the ledger move once every presentation is out.
Presented ==
  LET s == Head(script) IN
  /\ s.do = "presented"
  /\ frame_seq' = [frame_seq EXCEPT ![s.head] = @ + s.n]
  /\ keyframe_owed' = [keyframe_owed EXCEPT ![s.head] = FALSE]
  /\ script' = Tail(script)
  /\ UNCHANGED <<inner_counter, unread, mode_active, mode_restate_owed, video_seal_seq,
                 cursor_shot, answer, dockVars>>

BlackFrames(h) == {[i \in 1..n |-> Step("black", h)] : n \in 1..MaxWindow}

\* The markers that close a blanked stream and power its sink down.
BlankMarkers(h) ==
  IF profile.held THEN <<StreamMarker2f, StreamMarker2e(h, FALSE)>>
  ELSE <<StreamMarker2f, StreamMarker2e(h, TRUE), StreamMarker2f, StreamMarker2e(h, FALSE),
         DeviceQuery, StreamMarker2f>>

\* deactivate_mode begins: the books first, then black frames where the dock
\* wants them, then the markers.
BeginBlank ==
  LET h == Head(script).head IN
  /\ Head(script).do = "blank"
  /\ keyframe_owed' = [keyframe_owed EXCEPT ![h] = TRUE]
  /\ mode_active' = [mode_active EXCEPT ![h] = FALSE]
  /\ \E black \in IF profile.held THEN {<<>>} ELSE BlackFrames(h) :
       script' = black \o BlankMarkers(h) \o Tail(script)
  /\ UNCHANGED <<inner_counter, unread, mode_restate_owed, video_seal_seq, frame_seq,
                 cursor_shot, answer, dockVars>>

\* A black frame, which carries no trailer; a status poll may follow it.
Black ==
  LET h == Head(script).head IN
  /\ Head(script).do = "black"
  /\ unseen' = (unseen \/ ~sink[h])
  /\ script' \in {Tail(script), <<DeviceQuery>> \o Tail(script)}
  /\ UNCHANGED <<inner_counter, unread, hostVars, answer, sink, pointer, opened, sealed,
                 skewed>>

-----------------------------------------------------------------------------
(***************************************************************************)
(* probe_head_present: ask, then drain replies until one echoes this       *)
(* request's counter or the deadline passes.                               *)
(***************************************************************************)
ProbeSend ==
  LET h == Head(script).head IN
  /\ Head(script).do = "probe"
  /\ inner_counter' = Wrap(inner_counter + 1)
  /\ unread' = Append(unread, Reply(inner_counter, plugged[h]))
  /\ script' = <<[do |-> "await", head |-> h, counter |-> inner_counter,
                  truth |-> plugged[h]]>>
  /\ UNCHANGED <<hostVars, answer, dockVars>>

\* Mutant: the next reply is taken for the answer.
AnswersAnything(reply, request) == reply.status # None

Answers(reply, request) == reply.echo = request.counter

ProbeRead ==
  LET s == Head(script) IN
  /\ s.do = "await" /\ unread # <<>>
  /\ unread' = Tail(unread)
  /\ IF Answers(Head(unread), s)
     THEN /\ answer' = [said |-> Head(unread).status, truth |-> s.truth]
          /\ script' = Tail(script)
     ELSE UNCHANGED <<answer, script>>
  /\ UNCHANGED <<inner_counter, hostVars, dockVars>>

\* The deadline: nothing was learned.
ProbeGivesUp ==
  /\ Head(script).do = "await" /\ Len(unread) <= MaxLag
  /\ answer' = NoAnswer /\ script' = Tail(script)
  /\ UNCHANGED <<inner_counter, unread, hostVars, dockVars>>

-----------------------------------------------------------------------------
(***************************************************************************)
(* What the daemon asks of the session, one operation at a time.           *)
(***************************************************************************)
Ask(steps) ==
  /\ script = <<>> /\ ops < MaxOps
  /\ ops' = ops + 1 /\ script' = steps
  /\ UNCHANGED <<profile, inner_counter, hostVars, answer, unread, plugged, dockVars,
                 faults>>

\* activate_mode, where it is not declined.
ActivateMode(h) ==
  /\ profile.dock_wide => \A o \in Heads \ {h} : ~mode_active[o]
  /\ Ask(<<Step("begin", h)>>)

\* A set of connectors in ascending order, and a step for each of them.
InOrder(S) ==
  {order \in [1..Cardinality(S) -> S] : \A i, j \in DOMAIN order : i < j => order[i] < order[j]}
Each(name, S) == {[i \in 1..Cardinality(S) |-> Step(name, order[i])] : order \in InOrder(S)}

\* activate_modes: every lit connector comes down, then the set is programmed.
ActivateModes(S) ==
  /\ profile.dock_wide
  /\ \E blanks \in Each("blank", {h \in Heads : mode_active[h]}), begins \in Each("begin", S) :
       Ask(blanks \o begins)

DeactivateMode(h) == mode_active[h] /\ Ask(<<Step("blank", h)>>)

PresentRgb(h) == mode_active[h] /\ \E steps \in PresentScripts(h) : Ask(steps)

CursorSetEvent(h) ==
  /\ profile.hw_cursor
  /\ \E shape \in Shapes : Ask(SetCursor(h, shape))

CursorHideEvent(h) == profile.hw_cursor /\ Ask(<<CursorMove(h, Hidden)>>)

CursorMoveEvent(h) ==
  /\ profile.hw_cursor /\ mode_active[h]
  /\ \E place \in Places : Ask(<<CursorMove(h, place)>>)

Probe(h) == Ask(<<PresenceProbe(h)>>)

\* heartbeat, keepalive_poll, and a DDC/CI message that is written.
Poll == \E m \in {Heartbeat, DeviceQuery, DdcciForward, DdcciReadRequest} : Ask(<<m>>)

\* A DDC/CI write fails: nothing was advanced and the session goes on.
DdcciFails ==
  /\ script = <<>> /\ ops < MaxOps /\ faults < MaxFaults
  /\ ops' = ops + 1 /\ faults' = faults + 1
  /\ UNCHANGED <<profile, script, inner_counter, hostVars, answer, unread, plugged, dockVars>>

\* A monitor comes or goes (external).
PlugChanges ==
  /\ script = <<>> /\ faults < MaxFaults /\ faults' = faults + 1
  /\ \E h \in Heads : plugged' = [plugged EXCEPT ![h] = CHOOSE o \in Occupancy : o # @]
  /\ UNCHANGED <<profile, script, inner_counter, hostVars, answer, unread, dockVars, ops>>

Request ==
  \/ \E h \in Heads :
       \/ ActivateMode(h) \/ DeactivateMode(h) \/ PresentRgb(h) \/ Probe(h)
       \/ CursorSetEvent(h) \/ CursorHideEvent(h) \/ CursorMoveEvent(h)
  \/ \E S \in SUBSET Heads : S # {} /\ ActivateModes(S)
  \/ Poll \/ DdcciFails

RunStep ==
  /\ script # <<>>
  /\ \/ Message \/ SinkMarker \/ BeginMode \/ SetMode \/ Prologue \/ Paced \/ Opening
     \/ Carrier \/ Programmed \/ CursorImage \/ CursorMoves \/ Picture \/ Presented
     \/ BeginBlank \/ Black \/ ProbeSend \/ ProbeRead \/ ProbeGivesUp
  /\ UNCHANGED <<profile, plugged, ops, faults>>

\* The bound on operations is reached.
Done == script = <<>> /\ ops = MaxOps /\ UNCHANGED vars

Next == Request \/ RunStep \/ LoseSession \/ PlugChanges \/ Done

Spec == Init /\ [][Next]_vars

-----------------------------------------------------------------------------
Idle == script = <<>>

\* No frame reaches a connector whose downstream sink is down: the bracket
\* brings it up before the first pixel on every dock family, and a blank
\* takes it down behind the last (program_mode, deactivate_mode).
FramesAreScannedOut == ~unseen

\* The dock meets the sealed records of a connector in block order with no
\* block reused or skipped, although an opening is sealed before the bracket
\* that carries it and later mode sets continue the count.
SealsInOrder == ~skewed

\* Between operations the dock is as the session's books have it: a connector
\* that has had a stream has its sink up exactly while its mode is active, so
\* that a blanked panel is powered down, and a lit one that was given a pointer
\* shows it, through any mode set: hidden if it was hidden last, and where it
\* was moved last.  (A position sent before the first image is not remembered;
\* the origin stands for it.)
DockFollowsTheSession ==
  Idle => \A h \in Heads :
    /\ opened[h] => (sink[h] <=> mode_active[h])
    /\ mode_active[h] /\ cursor_shot[h] # NoPointer =>
         LET shot == cursor_shot[h] IN
         /\ pointer[h].shape = shot.shape
         /\ ~shot.visible => pointer[h].at = Hidden
         /\ shot.visible /\ shot.at # Origin => pointer[h].at = shot.at

\* A probe that learns something learns what the dock said of its own
\* connector when it was asked, although replies to earlier messages, other
\* connectors' probes among them, arrive late.
ProbeAnswersItself == answer.said = answer.truth
=============================================================================
