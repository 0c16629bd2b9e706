--------------------------- MODULE SessionProofs ----------------------------
(***************************************************************************)
(* A control session, for any connectors, pointers, operations, failures   *)
(* and late replies: its probes, its sealed records, its sinks and its     *)
(* pointer.                                                                *)
(***************************************************************************)
EXTENDS ControlSession, Integers, TLAPS

\* The provers every leaf that names none is given, and their seconds.
USE ZenonT(10), SMTT(30)

(***************************************************************************)
(* Types.                                                                  *)
(***************************************************************************)
Counters == 0 .. CounterMod - 1
Seals == [at : Nat, blocks : 0 .. 2]
Steps ==
  [do : {"message"}]
  \cup [do : {"begin", "blank", "probe", "prologue", "paced", "black"}, head : Heads]
  \cup [do : {"sink"}, head : Heads, up : BOOLEAN]
  \cup [do : {"set_mode"}, head : Heads, counter : Counters]
  \cup [do : {"opening"}, head : Heads, seal : Seals]
  \cup [do : {"carrier", "programmed", "picture"}, head : Heads, seq : Nat]
  \cup [do : {"presented"}, head : Heads, n : Nat]
  \cup [do : {"image"}, head : Heads, shape : Shapes]
  \cup [do : {"move"}, head : Heads, at : Places \cup {Origin, Hidden}]
  \cup [do : {"await"}, head : Heads, counter : Counters, truth : Occupancy]

Shots == {NoPointer} \cup [shape : Shapes, at : Places \cup {Origin}, visible : BOOLEAN]
Pointers == [shape : Shapes \cup {None}, at : Places \cup {Origin, Hidden, None}]

Types ==
  /\ profile \in Profiles /\ script \in Seq(Steps) /\ inner_counter \in Counters
  /\ unread \in Seq([echo : Counters, status : Occupancy \cup {None}])
  /\ plugged \in [Heads -> Occupancy]
  /\ mode_active \in [Heads -> BOOLEAN] /\ mode_restate_owed \in [Heads -> BOOLEAN]
  /\ keyframe_owed \in [Heads -> BOOLEAN]
  /\ video_seal_seq \in [Heads -> Nat] /\ frame_seq \in [Heads -> Nat]
  /\ cursor_shot \in [Heads -> Shots] /\ pointer \in [Heads -> Pointers]
  /\ sink \in [Heads -> BOOLEAN] /\ sealed \in [Heads -> Nat]

\* The steps of a script, by what they do.
Does(i, kinds) == script[i].do \in kinds
Indices == 1 .. Len(script)

-----------------------------------------------------------------------------
(***************************************************************************)
(* Probes: the replies not read yet are those of the last messages, in     *)
(* their order, and a set-mode message is built a few messages early.      *)
(***************************************************************************)
\* How many messages ago the counter was at c.
Ago(c) == IF inner_counter >= c THEN inner_counter - c ELSE inner_counter - c + CounterMod

Awaiting == script # <<>> /\ script[1].do = "await"

ProbeInv ==
  /\ answer.said = answer.truth
  /\ \A i \in 1 .. Len(unread) :
       Ago(unread[i].echo) \in Len(unread) - i + 1 .. Len(unread) - i + 5
  /\ Len(unread) <= IF Awaiting THEN MaxLag + 1 ELSE MaxLag
  /\ \A i \in Indices : Does(i, {"await"}) => i = 1
  /\ Awaiting => /\ Ago(script[1].counter) = 1
                 /\ unread # <<>> => unread[Len(unread)] = Reply(script[1].counter, script[1].truth)
  /\ \A i \in Indices : Does(i, {"set_mode"}) =>
       Ago(script[i].counter) + i <= 5 /\ \A j \in 1 .. i - 1 : Does(j, {"message", "sink"})

-----------------------------------------------------------------------------
(***************************************************************************)
(* Sealed records: the host is ahead of the dock by an opening that was    *)
(* sealed and not sent, and seals nothing until it is out.                 *)
(***************************************************************************)
Leading == {"message", "sink", "set_mode", "prologue", "paced"}

OpeningAt(p) ==
  LET s == script[p] IN
  /\ s.do = "opening"
  /\ \A j \in 1 .. p - 1 : Does(j, Leading) /\ (Does(j, {"prologue"}) => s.seal.blocks = 0)
  /\ \A j \in p + 1 .. Len(script) : ~Does(j, {"opening"})
  /\ s.seal.blocks # 0 => s.seal.at = sealed[s.head]
  /\ video_seal_seq = [sealed EXCEPT ![s.head] = @ + s.seal.blocks]

SealInv ==
  /\ ~skewed
  /\ \/ video_seal_seq = sealed /\ \A i \in Indices : ~Does(i, {"opening"})
     \/ \E p \in Indices : OpeningAt(p)

-----------------------------------------------------------------------------
(***************************************************************************)
(* Sinks: what the markers left in the script make of a sink before each   *)
(* frame, and at the end.                                                  *)
(***************************************************************************)
Marks(step, h) == step.do = "sink" /\ step.head = h

\* Starting at `up`, the sink of h is v before step n of a script.
SinkBefore(steps, n, h, up, v) ==
  \/ up = v /\ \A j \in 1 .. n - 1 : Marks(steps[j], h) => steps[j].up = v
  \/ \E i \in 1 .. n - 1 :
       /\ Marks(steps[i], h)
       /\ \A j \in i .. n - 1 : Marks(steps[j], h) => steps[j].up = v

Frames == {"opening", "carrier", "picture", "black"}
Pending == {"begin", "blank"}

EndsActive(h) == mode_active[h] \/ \E i \in Indices : Does(i, {"programmed"}) /\ script[i].head = h

SinkInv ==
  /\ ~unseen
  /\ \A i, j \in Indices : i < j /\ Does(i, Pending) => Does(j, Pending)
  /\ \A i \in Indices : Does(i, {"probe", "await"}) => Len(script) = 1
  /\ \A i \in Indices : Does(i, {"blank"}) =>
       /\ mode_active[script[i].head]
       /\ \A j \in Indices : Does(j, {"blank"}) /\ script[j].head = script[i].head => j = i
  /\ \A i \in Indices : Does(i, Frames) => SinkBefore(script, i, script[i].head, sink[script[i].head], TRUE)
  /\ \A h \in Heads : SinkBefore(script, Len(script) + 1, h, sink[h], EndsActive(h))

-----------------------------------------------------------------------------
(***************************************************************************)
(* The pointer: a connector shows the pointer it was given, or is about to *)
(* be given it again.                                                      *)
(***************************************************************************)
Place(shot) == IF shot.visible THEN shot.at ELSE Hidden

Shows(h) ==
  cursor_shot[h] # NoPointer =>
    LET shot == cursor_shot[h] IN
    /\ pointer[h].shape = shot.shape
    /\ ~shot.visible => pointer[h].at = Hidden
    /\ shot.visible /\ shot.at # Origin => pointer[h].at = shot.at

Programming == {"message", "sink", "set_mode", "prologue", "paced", "opening", "carrier"}

\* The mode set of h is under way, and nothing comes ahead of its end.
ProgrammedAt(p, h) ==
  /\ Does(p, {"programmed"}) /\ script[p].head = h
  /\ \A j \in 1 .. p - 1 : Does(j, Programming)

Replays(h, n) ==
  /\ cursor_shot[h] # NoPointer /\ Len(script) >= n
  /\ script[n] = CursorMove(h, Place(cursor_shot[h]))
  /\ n > 1 => script[n - 1] = CursorImageMessage(h, cursor_shot[h].shape)
  /\ n > 2 => script[n - 2] = Msg
  /\ n = 1 => pointer[h].shape = cursor_shot[h].shape

Rearming(h) == (\E p \in Indices : ProgrammedAt(p, h)) \/ \E n \in 1 .. 3 : Replays(h, n)

PointerInv ==
  /\ \A h \in Heads : Shows(h) \/ Rearming(h)
  /\ \A i \in Indices : Does(i, {"set_mode"}) =>
       \E p \in Indices : p > i /\ ProgrammedAt(p, script[i].head)

SessionInv == Types /\ ProbeInv /\ SealInv /\ SinkInv /\ PointerInv

-----------------------------------------------------------------------------
(***************************************************************************)
(* Scripts.                                                                *)
(***************************************************************************)
LEMMA StepFields ==
  ASSUME NEW s \in Steps
  PROVE  /\ s.do = "message" => s = Msg
         /\ s.do # "message" => s.head \in Heads
         /\ s.do = "sink" => s.up \in BOOLEAN
         /\ s.do = "set_mode" => s.counter \in Counters
         /\ s.do = "opening" => s.seal \in Seals
         /\ s.do \in {"carrier", "programmed", "picture"} => s.seq \in Nat
         /\ s.do = "presented" => s.n \in Nat
         /\ s.do = "image" => s.shape \in Shapes
         /\ s.do = "move" => s.at \in Places \cup {Origin, Hidden}
         /\ s.do = "await" => s.counter \in Counters /\ s.truth \in Occupancy
<1>1. CASE s \in [do : {"message"}]
  BY <1>1 DEF Msg
<1>2. CASE s \in [do : {"begin", "blank", "probe", "prologue", "paced", "black"}, head : Heads]
  BY <1>2
<1>3. CASE s \in [do : {"sink"}, head : Heads, up : BOOLEAN]
  BY <1>3
<1>4. CASE s \in [do : {"set_mode"}, head : Heads, counter : Counters]
  BY <1>4
<1>5. CASE s \in [do : {"opening"}, head : Heads, seal : Seals]
  BY <1>5
<1>6. CASE s \in [do : {"carrier", "programmed", "picture"}, head : Heads, seq : Nat]
  BY <1>6
<1>7. CASE s \in [do : {"presented"}, head : Heads, n : Nat]
  BY <1>7
<1>8. CASE s \in [do : {"image"}, head : Heads, shape : Shapes]
  BY <1>8
<1>9. CASE s \in [do : {"move"}, head : Heads, at : Places \cup {Origin, Hidden}]
  BY <1>9
<1>10. CASE s \in [do : {"await"}, head : Heads, counter : Counters, truth : Occupancy]
  BY <1>10
<1> QED
  BY <1>1, <1>2, <1>3, <1>4, <1>5, <1>6, <1>7, <1>8, <1>9, <1>10 DEF Steps

LEMMA MessagesAreSteps ==
  /\ Msg \in Steps /\ Msg.do = "message"
  /\ StreamMarker2f = Msg /\ DeviceQuery = Msg /\ Heartbeat = Msg /\ StreamCommit = Msg /\ ClearMode = Msg
  /\ CursorCreate = Msg /\ DdcciForward = Msg /\ DdcciReadRequest = Msg
  BY DEF Msg, Steps, StreamMarker2f, DeviceQuery, Heartbeat, StreamCommit, ClearMode, CursorCreate, DdcciForward,
         DdcciReadRequest

LEMMA MadeSteps ==
  ASSUME NEW h \in Heads
  PROVE  /\ \A name \in {"begin", "blank", "probe", "prologue", "paced", "black"} :
              Step(name, h) \in Steps /\ Step(name, h).do = name /\ Step(name, h).head = h
         /\ \A up \in BOOLEAN : LET s == StreamMarker2e(h, up) IN
              s \in Steps /\ s.do = "sink" /\ s.head = h /\ s.up = up
         /\ \A c \in Counters : LET s == SetModeMessage(h, c) IN
              s \in Steps /\ s.do = "set_mode" /\ s.head = h /\ s.counter = c
         /\ \A shape \in Shapes : LET s == CursorImageMessage(h, shape) IN
              s \in Steps /\ s.do = "image" /\ s.head = h /\ s.shape = shape
         /\ \A place \in Places \cup {Origin, Hidden} : LET s == CursorMove(h, place) IN
              s \in Steps /\ s.do = "move" /\ s.head = h /\ s.at = place
         /\ PresenceProbe(h) \in Steps /\ PresenceProbe(h).do = "probe"
         /\ \A seal \in Seals : [do |-> "opening", head |-> h, seal |-> seal] \in Steps
         /\ \A name \in {"carrier", "programmed", "picture"}, seq \in Nat :
              [do |-> name, head |-> h, seq |-> seq] \in Steps
         /\ \A n \in Nat : [do |-> "presented", head |-> h, n |-> n] \in Steps
         /\ \A c \in Counters, truth \in Occupancy :
              [do |-> "await", head |-> h, counter |-> c, truth |-> truth] \in Steps
<1>1. \A name \in {"begin", "blank", "probe", "prologue", "paced", "black"} :
        Step(name, h) \in Steps /\ Step(name, h).do = name /\ Step(name, h).head = h
  BY DEF Step, Steps
<1>2. \A up \in BOOLEAN : LET s == StreamMarker2e(h, up) IN
        s \in Steps /\ s.do = "sink" /\ s.head = h /\ s.up = up
  BY DEF StreamMarker2e, Steps
<1>3. \A c \in Counters : LET s == SetModeMessage(h, c) IN
        s \in Steps /\ s.do = "set_mode" /\ s.head = h /\ s.counter = c
  BY DEF SetModeMessage, Steps
<1>4. \A shape \in Shapes : LET s == CursorImageMessage(h, shape) IN
        s \in Steps /\ s.do = "image" /\ s.head = h /\ s.shape = shape
  BY DEF CursorImageMessage, Steps
<1>5. \A place \in Places \cup {Origin, Hidden} : LET s == CursorMove(h, place) IN
        s \in Steps /\ s.do = "move" /\ s.head = h /\ s.at = place
  BY DEF CursorMove, Steps
<1>6. PresenceProbe(h) \in Steps /\ PresenceProbe(h).do = "probe"
  BY DEF PresenceProbe, Steps
<1>7. \A seal \in Seals : [do |-> "opening", head |-> h, seal |-> seal] \in Steps
  BY DEF Steps
<1>8. \A name \in {"carrier", "programmed", "picture"}, seq \in Nat :
        [do |-> name, head |-> h, seq |-> seq] \in Steps
  BY DEF Steps
<1>9. \A n \in Nat : [do |-> "presented", head |-> h, n |-> n] \in Steps
  BY DEF Steps
<1>10. \A c \in Counters, truth \in Occupancy :
         [do |-> "await", head |-> h, counter |-> c, truth |-> truth] \in Steps
  BY DEF Steps
<1> QED
  BY <1>1, <1>2, <1>3, <1>4, <1>5, <1>6, <1>7, <1>8, <1>9, <1>10

LEMMA SinkSteps ==
  ASSUME NEW h \in Heads
  PROVE  /\ StreamMarker2e(h, TRUE) \in Steps /\ StreamMarker2e(h, FALSE) \in Steps
         /\ StreamMarker2e(h, TRUE).do = "sink" /\ StreamMarker2e(h, FALSE).do = "sink"
         /\ StreamMarker2e(h, TRUE).head = h /\ StreamMarker2e(h, FALSE).head = h
         /\ StreamMarker2e(h, TRUE).up = TRUE /\ StreamMarker2e(h, FALSE).up = FALSE
  BY DEF StreamMarker2e, Steps

LEMMA Members ==
  ASSUME NEW S, NEW s \in Seq(S)
  PROVE  Len(s) \in Nat /\ \A i \in 1 .. Len(s) : s[i] \in S
  OBVIOUS

LEMMA Joined ==
  ASSUME NEW S, NEW s \in Seq(S), NEW t \in Seq(S)
  PROVE  /\ s \o t \in Seq(S) /\ Len(s) \in Nat /\ Len(t) \in Nat /\ Len(s \o t) = Len(s) + Len(t)
         /\ \A i \in 1 .. Len(s) : (s \o t)[i] = s[i]
         /\ \A i \in Len(s) + 1 .. Len(s) + Len(t) : (s \o t)[i] = t[i - Len(s)] /\ i - Len(s) \in 1 .. Len(t)
  OBVIOUS

LEMMA FirstStep ==
  ASSUME Types, script # <<>>
  PROVE  /\ Head(script) = script[1] /\ script[1] \in Steps /\ Len(script) \in Nat /\ Len(script) >= 1
         /\ Tail(script) \in Seq(Steps) /\ Len(Tail(script)) = Len(script) - 1
         /\ \A i \in 1 .. Len(script) - 1 : Tail(script)[i] = script[i + 1]
<1>1. script \in Seq(Steps)
  BY DEF Types
<1>2. Len(script) \in Nat /\ Len(script) >= 1
  BY <1>1
<1>3. Head(script) = script[1] /\ script[1] \in Steps
  BY <1>1, <1>2
<1>4. Tail(script) \in Seq(Steps) /\ Len(Tail(script)) = Len(script) - 1
  BY <1>1, <1>2
<1>5. \A i \in 1 .. Len(script) - 1 : Tail(script)[i] = script[i + 1]
  BY <1>1, <1>2
<1> QED
  BY <1>2, <1>3, <1>4, <1>5

LEMMA ScriptSteps ==
  ASSUME Types
  PROVE  /\ Len(script) \in Nat /\ (script # <<>> => Len(script) >= 1 /\ 1 \in Indices)
         /\ \A i \in Indices : i \in Nat /\ i >= 1 /\ i <= Len(script) /\ script[i] \in Steps
<1>1. script \in Seq(Steps)
  BY DEF Types
<1> QED
  BY <1>1 DEF Indices

LEMMA ScriptStepsPrimed ==
  ASSUME Types'
  PROVE  /\ Len(script') \in Nat /\ (script' # <<>> => Len(script') >= 1 /\ 1 \in Indices')
         /\ \A i \in Indices' : i \in Nat /\ i >= 1 /\ i <= Len(script') /\ script'[i] \in Steps
<1>1. script' \in Seq(Steps)
  BY DEF Types
<1> QED
  BY <1>1 DEF Indices

LEMMA ProfileFacts ==
  ASSUME profile \in Profiles
  PROVE  /\ profile.ctrl_pipe \in BOOLEAN /\ profile.arm_burst \in BOOLEAN /\ profile.pre_sink \in BOOLEAN
         /\ profile.clear \in BOOLEAN /\ profile.held \in BOOLEAN
         /\ profile.post_sink[1] \in BOOLEAN /\ profile.post_sink[2] \in BOOLEAN
         /\ profile.carriers \in Nat /\ profile.presentations \in Nat
<1>1. CASE profile = PROFILE_ELLA
  BY <1>1 DEF PROFILE_ELLA
<1>2. CASE profile = PROFILE_RIDGE
  BY <1>2 DEF PROFILE_RIDGE, Window
<1>3. CASE profile = PROFILE_NAVARRO
  BY <1>3 DEF PROFILE_NAVARRO
<1> QED
  BY <1>1, <1>2, <1>3 DEF Profiles

LEMMA InOrderOf ==
  ASSUME NEW name \in {"begin", "blank"}, NEW S, S \subseteq Heads, NEW steps \in Each(name, S)
  PROVE  /\ steps \in Seq(Steps)
         /\ \A i \in 1 .. Len(steps) : steps[i].do = name /\ steps[i].head \in S
         /\ \A i, j \in 1 .. Len(steps) : steps[i].head = steps[j].head => i = j
<1>1. PICK order \in InOrder(S) : steps = [i \in 1..Cardinality(S) |-> Step(name, order[i])]
  BY DEF Each
<1>2. Cardinality(S) \in Nat
  BY SessionAssumption
<1>3. order \in [1..Cardinality(S) -> S] /\ \A i, j \in 1..Cardinality(S) : i < j => order[i] < order[j]
  BY <1>1 DEF InOrder
<1>4. \A i \in 1..Cardinality(S) :
        steps[i] = Step(name, order[i]) /\ order[i] \in S /\ order[i] \in Heads /\ order[i] \in Nat
  BY <1>1, <1>3, SessionAssumption
<1>5. \A i \in 1..Cardinality(S) : steps[i] \in Steps /\ steps[i].do = name /\ steps[i].head = order[i]
  BY <1>4, MadeSteps
<1>6. steps \in Seq(Steps) /\ Len(steps) = Cardinality(S)
  BY <1>1, <1>2, <1>5
<1>7. \A i, j \in 1..Cardinality(S) : order[i] = order[j] => i = j
  <2> SUFFICES ASSUME NEW i \in 1..Cardinality(S), NEW j \in 1..Cardinality(S), order[i] = order[j] PROVE i = j
    OBVIOUS
  <2>1. i \in Nat /\ j \in Nat /\ order[i] \in Nat /\ ~(i < j) /\ ~(j < i)
    BY <1>2, <1>3, <1>4
  <2> QED
    BY <2>1
<1> QED
  BY <1>4, <1>5, <1>6, <1>7

-----------------------------------------------------------------------------
\* What the bracket sends ahead of the timing, behind it, and as its opening.
LEMMA BracketParts ==
  ASSUME Types, NEW h \in Heads, NEW seal \in Seals
  PROVE  /\ LeadIn(h) \in Seq(Steps) /\ Len(LeadIn(h)) \in 0 .. 4
         /\ \A i \in 1 .. Len(LeadIn(h)) : LET s == LeadIn(h)[i] IN
              s.do \in {"message", "sink"} /\ (s.do = "sink" => s.head = h)
         /\ Settling(h) \in Seq(Steps)
         /\ \A i \in 1 .. Len(Settling(h)) : LET s == Settling(h)[i] IN
              /\ s.do \in {"message", "sink", "prologue"} /\ (s.do = "sink" => s.head = h)
              /\ s.do = "prologue" => profile.ctrl_pipe
         /\ OpeningFrame(h, seal) \in Seq(Steps) /\ Len(OpeningFrame(h, seal)) = 5
         /\ OpeningFrame(h, seal)[5] = [do |-> "opening", head |-> h, seal |-> seal]
         /\ \A i \in 1 .. 4 : OpeningFrame(h, seal)[i].do \in {"message", "paced"}
<1> DEFINE Quiet == {Msg} \cup {StreamMarker2e(h, up) : up \in BOOLEAN}
           Busy == Quiet \cup {s \in {Step("prologue", h)} : profile.ctrl_pipe}
<1>1. /\ profile.pre_sink \in BOOLEAN /\ profile.clear \in BOOLEAN /\ profile.ctrl_pipe \in BOOLEAN
      /\ profile.post_sink[1] \in BOOLEAN /\ profile.post_sink[2] \in BOOLEAN
  BY ProfileFacts DEF Types
<1>2. /\ \A s \in Quiet : s \in Steps /\ s.do \in {"message", "sink"} /\ (s.do = "sink" => s.head = h)
      /\ \A s \in Busy : /\ s \in Steps /\ s.do \in {"message", "sink", "prologue"} /\ (s.do = "sink" => s.head = h)
                         /\ s.do = "prologue" => profile.ctrl_pipe
  BY MadeSteps, MessagesAreSteps
<1>3. Msg \in Quiet /\ (\A up \in BOOLEAN : StreamMarker2e(h, up) \in Quiet) /\ Quiet \subseteq Busy
      /\ StreamMarker2e(h, FALSE) \in Quiet
      /\ (profile.ctrl_pipe => Step("prologue", h) \in Busy)
  OBVIOUS
<1> HIDE DEF Quiet, Busy
<1>4. LeadIn(h) \in Seq(Quiet) /\ Len(LeadIn(h)) \in 0 .. 4
  <2> DEFINE a == <<StreamMarker2f>>
             b == When(profile.pre_sink, <<StreamMarker2e(h, FALSE)>>)
             c == <<DeviceQuery>>
             d == When(profile.clear, <<ClearMode>>)
  <2>1. a \in Seq(Quiet) /\ Len(a) = 1 /\ c \in Seq(Quiet) /\ Len(c) = 1
    BY <1>3, MessagesAreSteps
  <2>2. b \in Seq(Quiet) /\ Len(b) \in 0 .. 1
    <3> DEFINE m == StreamMarker2e(h, FALSE)
    <3>1. m \in Quiet /\ b = When(profile.pre_sink, <<m>>)
      BY <1>3
    <3> HIDE DEF m, b
    <3> QED
      BY <1>1, <3>1 DEF When
  <2>3. d \in Seq(Quiet) /\ Len(d) \in 0 .. 1
    BY <1>1, <1>3, MessagesAreSteps DEF When
  <2>4. LeadIn(h) = ((a \o b) \o c) \o d
    BY DEF LeadIn
  <2> HIDE DEF a, b, c, d
  <2>5. a \o b \in Seq(Quiet) /\ Len(a \o b) \in 1 .. 2
    <3>1. a \o b \in Seq(Quiet) /\ Len(a \o b) = Len(a) + Len(b)
      BY <2>1, <2>2, Joined
    <3> QED
      BY <2>1, <2>2, <3>1
  <2> DEFINE ab == a \o b
             abc == ab \o c
  <2>6. abc \in Seq(Quiet) /\ Len(abc) \in 2 .. 3
    <3> HIDE DEF ab
    <3>1. ab \o c \in Seq(Quiet) /\ Len(ab \o c) = Len(ab) + Len(c)
      BY <2>1, <2>5, Joined DEF ab
    <3> QED
      BY <2>1, <2>5, <3>1 DEF ab
  <2>7. abc \o d \in Seq(Quiet) /\ Len(abc \o d) \in 0 .. 4
    <3> HIDE DEF abc
    <3>1. abc \o d \in Seq(Quiet) /\ Len(abc \o d) = Len(abc) + Len(d)
      BY <2>3, <2>6, Joined
    <3>2. \A x \in 2 .. 3, y \in 0 .. 1 : x + y \in 0 .. 4
      OBVIOUS
    <3> QED
      BY <2>3, <2>6, <3>1, <3>2, Zenon
  <2> QED
    BY <2>4, <2>7
<1>5. Settling(h) \in Seq(Busy)
  <2> DEFINE a == <<DeviceQuery, StreamMarker2f, StreamMarker2e(h, profile.post_sink[1]),
                    StreamMarker2f, StreamMarker2e(h, profile.post_sink[2])>>
             b == When(profile.ctrl_pipe, <<Step("prologue", h)>>)
             c == <<StreamMarker2f, DeviceQuery>>
  <2>1. a \in Seq(Busy) /\ c \in Seq(Busy)
    BY <1>1, <1>3, MessagesAreSteps
  <2>2. b \in Seq(Busy)
    BY <1>1, <1>3 DEF When
  <2>3. Settling(h) = (a \o b) \o c
    BY DEF Settling
  <2> HIDE DEF a, b, c
  <2> QED
    BY <2>1, <2>2, <2>3
<1>6. \A s : s \in Seq(Quiet) \/ s \in Seq(Busy) => s \in Seq(Steps)
  BY <1>2
<1>7. /\ OpeningFrame(h, seal) \in Seq(Steps) /\ Len(OpeningFrame(h, seal)) = 5
      /\ OpeningFrame(h, seal)[5] = [do |-> "opening", head |-> h, seal |-> seal]
      /\ \A i \in 1 .. 4 : OpeningFrame(h, seal)[i].do \in {"message", "paced"}
  <2> DEFINE o == [do |-> "opening", head |-> h, seal |-> seal]
             p == Step("paced", h)
  <2>1. o \in Steps /\ p \in Steps /\ p.do = "paced" /\ Msg \in Steps /\ Msg.do = "message"
    BY MadeSteps, MessagesAreSteps
  <2>2. OpeningFrame(h, seal) = <<Msg, Msg, Msg, p, o>>
    BY MessagesAreSteps DEF OpeningFrame
  <2> HIDE DEF o, p
  <2>3. OpeningFrame(h, seal) \in Seq(Steps) /\ Len(OpeningFrame(h, seal)) = 5
    BY <2>1, <2>2
  <2>4. OpeningFrame(h, seal)[5] = o /\ \A i \in 1 .. 4 : OpeningFrame(h, seal)[i] \in {Msg, p}
    BY <2>2
  <2> QED
    BY <2>1, <2>3, <2>4 DEF o
<1> QED
  BY <1>2, <1>4, <1>5, <1>6, <1>7

\* What follows the opening up to the end of the mode set.
LEMMA ClosingParts ==
  ASSUME NEW h \in Heads
  PROVE  /\ Closing(h) \in Seq(Steps)
         /\ \A i \in 1 .. Len(Closing(h)) : LET s == Closing(h)[i] IN
              s.do \in {"message", "sink"} /\ (s.do = "sink" => s.head = h /\ s.up = TRUE)
<1> DEFINE m == StreamMarker2e(h, TRUE)
<1>1. m \in Steps /\ m.do = "sink" /\ m.head = h /\ m.up = TRUE /\ Msg \in Steps /\ Msg.do = "message"
  BY SinkSteps, MessagesAreSteps
<1>2. Closing(h) \in {<<>>, <<Msg, m>>}
  BY MessagesAreSteps DEF Closing, When
<1> HIDE DEF m
<1>3. /\ Closing(h) \in Seq(Steps)
      /\ \A i \in 1 .. Len(Closing(h)) : Closing(h)[i] \in {Msg, m}
  <2>1. CASE Closing(h) = <<>>
    BY <2>1
  <2>2. CASE Closing(h) = <<Msg, m>>
    BY <1>1, <2>2
  <2> QED
    BY <1>2, <2>1, <2>2
<1> QED
  BY <1>1, <1>3

LEMMA CarrierSteps ==
  ASSUME NEW h \in Heads, NEW n \in Nat
  PROVE  /\ Carriers(h, n) \in Seq(Steps)
         /\ \A i \in 1 .. Len(Carriers(h, n)) : Carriers(h, n)[i].do = "carrier" /\ Carriers(h, n)[i].head = h
<1>1. \A i \in 1 .. n : [do |-> "carrier", head |-> h, seq |-> i] \in Steps
  BY MadeSteps
<1>2. Carriers(h, n) \in Seq(Steps) /\ Len(Carriers(h, n)) = n
  BY <1>1 DEF Carriers
<1>3. \A i \in 1 .. n : Carriers(h, n)[i].do = "carrier" /\ Carriers(h, n)[i].head = h
  BY DEF Carriers
<1> QED
  BY <1>2, <1>3

\* Steps of a mode set: ahead of the timing, between it and the opening, and
\* behind the opening.
AheadSteps(h) ==
  {s \in Steps : s.do \in {"message", "sink"} /\ (s.do = "sink" => s.head = h)}
TurnSteps(h) ==
  {s \in Steps : /\ s.do \in {"message", "sink", "prologue", "paced"} /\ (s.do = "sink" => s.head = h)
                 /\ s.do = "prologue" => profile.ctrl_pipe}
LitSteps(h) ==
  {s \in Steps : /\ s.do \in {"message", "sink", "carrier"} /\ (s.do # "message" => s.head = h)
                 /\ s.do = "sink" => s.up = TRUE}

\* Places in a sequence made of two parts.
LEMMA TwoParts ==
  ASSUME NEW b \in Nat, NEW r \in Nat PROVE \A i \in 1 .. r : i \in 1 .. b \/ i \in b + 1 .. r
  OBVIOUS

LEMMA SecondPart ==
  ASSUME NEW r \in Nat, NEW n \in Nat, NEW m, m = r + n PROVE \A i \in r + 1 .. m : i - r \in 1 .. n
  OBVIOUS

\* The script of a mode set: the timing at q, the sink up at p, the opening at
\* o and the end at r.
ModeScript(steps, h, seal, counter, rest, q, p, o, r) ==
  /\ steps \in Seq(Steps)
  /\ q \in 1 .. 5 /\ p \in Nat /\ o \in Nat /\ r \in Nat /\ q < p /\ p < o /\ o < r
  /\ Len(steps) = r + Len(rest)
  /\ steps[q] = SetModeMessage(h, counter) /\ steps[p] = StreamMarker2e(h, TRUE)
  /\ steps[o] = [do |-> "opening", head |-> h, seal |-> seal]
  /\ steps[r].do = "programmed" /\ steps[r].head = h
  /\ \A i \in 1 .. q - 1 : steps[i] \in AheadSteps(h)
  /\ \A i \in q + 1 .. o - 1 : steps[i] \in TurnSteps(h)
  /\ \A i \in p + 1 .. o - 1 : steps[i].do \in {"message", "paced"}
  /\ \A i \in o + 1 .. r - 1 : steps[i] \in LitSteps(h)
  /\ \A i \in r + 1 .. Len(steps) : steps[i] = rest[i - r]

\* The same, by what its steps do.
ModeKinds(steps, h, seal, c, rest, q, p, o, r) ==
  /\ steps \in Seq(Steps) /\ q \in 1 .. 5 /\ q < p /\ p < o /\ o < r /\ Len(steps) = r + Len(rest)
  /\ steps[q].do = "set_mode" /\ steps[q].head = h /\ steps[q].counter = c
  /\ steps[o].do = "opening" /\ steps[o].head = h /\ steps[o].seal = seal
  /\ steps[r].do = "programmed" /\ steps[r].head = h
  /\ \A i \in 1 .. q - 1 : steps[i].do \in {"message", "sink"}
  /\ \A i \in q + 1 .. o - 1 : /\ steps[i].do \in {"message", "sink", "prologue", "paced"}
                               /\ steps[i].do = "prologue" => profile.ctrl_pipe
  /\ \A i \in o + 1 .. r - 1 : steps[i].do \in {"message", "sink", "carrier"}
  /\ \A i \in r + 1 .. Len(steps) : steps[i] = rest[i - r]

LEMMA ModeScriptAt ==
  ASSUME NEW h, NEW c, NEW seal, NEW rest, NEW steps, NEW q, NEW p, NEW o, NEW r,
         ModeScript(steps, h, seal, c, rest, q, p, o, r)
  PROVE  ModeKinds(steps, h, seal, c, rest, q, p, o, r)
<1>0. /\ steps \in Seq(Steps) /\ q \in 1 .. 5 /\ q < p /\ p < o /\ o < r /\ Len(steps) = r + Len(rest)
      /\ steps[r].do = "programmed" /\ steps[r].head = h
      /\ \A i \in r + 1 .. Len(steps) : steps[i] = rest[i - r]
  BY Zenon DEF ModeScript
<1>1. /\ steps[q] = SetModeMessage(h, c) /\ steps[o] = [do |-> "opening", head |-> h, seal |-> seal]
      /\ \A i \in 1 .. q - 1 : steps[i] \in AheadSteps(h)
      /\ \A i \in q + 1 .. o - 1 : steps[i] \in TurnSteps(h)
      /\ \A i \in o + 1 .. r - 1 : steps[i] \in LitSteps(h)
  BY Zenon DEF ModeScript
<1>2. steps[q].do = "set_mode" /\ steps[q].head = h /\ steps[q].counter = c
  <2>1. LET s == SetModeMessage(h, c) IN s.do = "set_mode" /\ s.head = h /\ s.counter = c
    BY DEF SetModeMessage
  <2> QED
    BY <1>1, <2>1
<1>3. steps[o].do = "opening" /\ steps[o].head = h /\ steps[o].seal = seal
  BY <1>1
<1>4. \A s \in AheadSteps(h) : s.do \in {"message", "sink"}
  BY DEF AheadSteps
<1>5. \A s \in TurnSteps(h) : /\ s.do \in {"message", "sink", "prologue", "paced"}
                              /\ s.do = "prologue" => profile.ctrl_pipe
  BY DEF TurnSteps
<1>6. \A s \in LitSteps(h) : s.do \in {"message", "sink", "carrier"}
  BY DEF LitSteps
<1>7. \A i \in 1 .. q - 1 : steps[i].do \in {"message", "sink"}
  BY <1>1, <1>4, Zenon
<1>8. \A i \in q + 1 .. o - 1 : /\ steps[i].do \in {"message", "sink", "prologue", "paced"}
                                /\ steps[i].do = "prologue" => profile.ctrl_pipe
  BY <1>1, <1>5, Zenon
<1>9. \A i \in o + 1 .. r - 1 : steps[i].do \in {"message", "sink", "carrier"}
  BY <1>1, <1>6, Zenon
<1> QED
  BY <1>0, <1>2, <1>3, <1>7, <1>8, <1>9 DEF ModeKinds

LEMMA Extended ==
  ASSUME NEW S, NEW T, NEW s \in Seq(S), NEW t \in Seq(S), NEW n \in 0 .. Len(s),
         \A i \in n + 1 .. Len(s) : s[i] \in T, \A i \in 1 .. Len(t) : t[i] \in T
  PROVE  \A i \in n + 1 .. Len(s \o t) : (s \o t)[i] \in T
<1>1. /\ Len(s) \in Nat /\ Len(t) \in Nat /\ Len(s \o t) = Len(s) + Len(t)
      /\ \A i \in 1 .. Len(s) : (s \o t)[i] = s[i]
      /\ \A i \in Len(s) + 1 .. Len(s) + Len(t) : (s \o t)[i] = t[i - Len(s)] /\ i - Len(s) \in 1 .. Len(t)
  BY Joined, Zenon
<1> DEFINE j == s \o t
<1> HIDE DEF j
<1> SUFFICES ASSUME NEW i \in n + 1 .. Len(j) PROVE j[i] \in T
  BY DEF j
<1>2. (i \in 1 .. Len(s) /\ i \in n + 1 .. Len(s)) \/ i \in Len(s) + 1 .. Len(s) + Len(t)
  BY <1>1 DEF j
<1> QED
  BY <1>1, <1>2 DEF j

LEMMA ModeScripts ==
  ASSUME Types, NEW h \in Heads, NEW seal \in Seals, NEW c \in Counters, NEW n \in Nat, NEW rest \in Seq(Steps)
  PROVE  \E q, p, o, r \in Nat :
           ModeScript(Bracket(h, seal, c) \o Closing(h) \o Carriers(h, n)
                      \o <<[do |-> "programmed", head |-> h, seq |-> n + 1]>> \o rest,
                      h, seal, c, rest, q, p, o, r)
<1> DEFINE sm == SetModeMessage(h, c)
           up == StreamMarker2e(h, TRUE)
           op == [do |-> "opening", head |-> h, seal |-> seal]
           pr == [do |-> "programmed", head |-> h, seq |-> n + 1]
<1>1. sm \in Steps /\ up \in Steps /\ op \in Steps /\ pr \in Steps /\ pr.do = "programmed" /\ pr.head = h
  <2>1. sm \in Steps /\ op \in Steps
    BY MadeSteps
  <2>2. n + 1 \in Nat
    OBVIOUS
  <2>3. pr \in Steps
    BY <2>2, MadeSteps
  <2> QED
    BY <2>1, <2>3, SinkSteps
<1>2. up \in TurnSteps(h) /\ Msg \in TurnSteps(h) /\ Msg \in LitSteps(h) /\ Msg \in Steps
  BY <1>1, SinkSteps, MessagesAreSteps DEF TurnSteps, LitSteps
<1> DEFINE a == LeadIn(h)
           st == Settling(h)
           fr == OpeningFrame(h, seal)
           cl == Closing(h)
           ca == Carriers(h, n)
           cc == <<StreamCommit, StreamCommit>>
           z2 == a \o <<sm>>
           z3 == z2 \o st
           z4 == z3 \o <<up>>
           z5 == z4 \o fr
           z6 == z5 \o cc
           z7 == z6 \o cl
           z8 == z7 \o ca
           z9 == z8 \o <<pr>>
           z == z9 \o rest
<1>3. z = Bracket(h, seal, c) \o Closing(h) \o Carriers(h, n) \o <<pr>> \o rest
  BY DEF Bracket, BringsSinkUp
<1>4. a \in Seq(Steps) /\ Len(a) \in 0 .. 4 /\ \A i \in 1 .. Len(a) : a[i] \in AheadSteps(h)
  <2>1. a \in Seq(Steps) /\ Len(a) \in 0 .. 4
        /\ \A i \in 1 .. Len(a) : LET s == a[i] IN s.do \in {"message", "sink"} /\ (s.do = "sink" => s.head = h)
    BY BracketParts
  <2> QED
    BY <2>1 DEF AheadSteps
<1>5. st \in Seq(Steps) /\ \A i \in 1 .. Len(st) : st[i] \in TurnSteps(h)
  <2>1. st \in Seq(Steps) /\ \A i \in 1 .. Len(st) : LET s == st[i] IN
              /\ s.do \in {"message", "sink", "prologue"} /\ (s.do = "sink" => s.head = h)
              /\ s.do = "prologue" => profile.ctrl_pipe
    BY BracketParts
  <2> QED
    BY <2>1 DEF TurnSteps
<1>6. /\ fr \in Seq(Steps) /\ Len(fr) = 5 /\ fr[5] = op
      /\ \A i \in 1 .. 4 : fr[i].do \in {"message", "paced"} /\ fr[i] \in TurnSteps(h)
  <2>1. fr \in Seq(Steps) /\ Len(fr) = 5 /\ fr[5] = op /\ \A i \in 1 .. 4 : fr[i].do \in {"message", "paced"}
    BY BracketParts
  <2> HIDE DEF fr, op
  <2>2. \A i \in 1 .. 4 : fr[i] \in Steps
    <3>1. \A i \in 1 .. Len(fr) : fr[i] \in Steps
      BY <2>1, Members, Zenon
    <3>2. \A i \in 1 .. 4 : i \in 1 .. Len(fr)
      BY <2>1
    <3> QED
      BY <3>1, <3>2
  <2> QED
    BY <2>1, <2>2 DEF TurnSteps
<1>7. cl \in Seq(Steps) /\ (\A i \in 1 .. Len(cl) : cl[i] \in LitSteps(h))
      /\ ca \in Seq(Steps) /\ (\A i \in 1 .. Len(ca) : ca[i] \in LitSteps(h))
  <2>1. /\ cl \in Seq(Steps) /\ ca \in Seq(Steps)
        /\ \A i \in 1 .. Len(cl) : LET s == cl[i] IN
              s.do \in {"message", "sink"} /\ (s.do = "sink" => s.head = h /\ s.up = TRUE)
        /\ \A i \in 1 .. Len(ca) : ca[i].do = "carrier" /\ ca[i].head = h
    <3>1. /\ Closing(h) \in Seq(Steps)
          /\ \A i \in 1 .. Len(Closing(h)) : LET s == Closing(h)[i] IN
              s.do \in {"message", "sink"} /\ (s.do = "sink" => s.head = h /\ s.up = TRUE)
      BY ClosingParts, Zenon
    <3>2. /\ Carriers(h, n) \in Seq(Steps)
          /\ \A i \in 1 .. Len(Carriers(h, n)) : Carriers(h, n)[i].do = "carrier" /\ Carriers(h, n)[i].head = h
      BY CarrierSteps, Zenon
    <3> QED
      BY <3>1, <3>2
  <2> QED
    BY <2>1 DEF LitSteps
<1>8. cc \in Seq(Steps) /\ Len(cc) = 2 /\ \A i \in 1 .. Len(cc) : cc[i] \in LitSteps(h)
  <2>1. cc = <<Msg, Msg>>
    BY MessagesAreSteps
  <2> HIDE DEF cc
  <2> QED
    BY <1>2, <2>1
<1> HIDE DEF sm, up, op, pr, a, st, fr, cl, ca, cc, z2, z3, z4, z5, z6, z7, z8, z9, z
<1> DEFINE q == Len(a) + 1
           p == Len(z3) + 1
           o == p + 5
           r == Len(z8) + 1
<1>9. z2 \in Seq(Steps) /\ Len(z2) = q /\ q \in 1 .. 5 /\ z2[q] = sm /\ \A i \in 1 .. q - 1 : z2[i] \in AheadSteps(h)
  BY <1>1, <1>4 DEF z2
<1> HIDE DEF q
<1>10. /\ z3 \in Seq(Steps) /\ Len(z3) \in Nat /\ Len(z3) >= q /\ z3[q] = sm
       /\ \A i \in 1 .. q - 1 : z3[i] \in AheadSteps(h)
       /\ \A i \in q + 1 .. Len(z3) : z3[i] \in TurnSteps(h)
  <2>1. z3 \in Seq(Steps) /\ Len(z3) = q + Len(st) /\ Len(st) \in Nat /\ \A i \in 1 .. q : z3[i] = z2[i]
    BY <1>5, <1>9, Joined, Zenon DEF z3
  <2>2. \A i \in q + 1 .. Len(z3) : z3[i] \in TurnSteps(h)
    <3>1. q \in 0 .. Len(z2) /\ \A i \in q + 1 .. Len(z2) : z2[i] \in TurnSteps(h)
      BY <1>9
    <3> QED
      BY <1>5, <1>9, <3>1, Extended, Zenon DEF z3
  <2> QED
    BY <1>9, <2>1, <2>2
<1>11. /\ z4 \in Seq(Steps) /\ Len(z4) = p /\ p \in Nat /\ q < p /\ z4[p] = up /\ z4[q] = sm
       /\ \A i \in 1 .. q - 1 : z4[i] \in AheadSteps(h)
       /\ \A i \in q + 1 .. p : z4[i] \in TurnSteps(h)
  <2>1. z4 \in Seq(Steps) /\ Len(z4) = p /\ z4[p] = up /\ \A i \in 1 .. Len(z3) : z4[i] = z3[i]
    BY <1>1, <1>10 DEF z4
  <2>2. p \in Nat /\ q < p /\ p = Len(z3) + 1 /\ q \in 1 .. Len(z3)
    BY <1>9, <1>10
  <2> HIDE DEF p
  <2>3. \A i \in q + 1 .. p : i = p \/ (i \in q + 1 .. Len(z3) /\ i \in 1 .. Len(z3))
    BY <1>9, <1>10, <2>2
  <2>4. \A i \in 1 .. q - 1 : i \in 1 .. Len(z3)
    BY <1>9, <1>10, <2>2
  <2> QED
    BY <1>2, <1>10, <2>1, <2>2, <2>3, <2>4
<1> HIDE DEF p
<1>12. /\ z5 \in Seq(Steps) /\ Len(z5) = o /\ o \in Nat /\ p < o /\ z5[o] = op /\ z5[p] = up /\ z5[q] = sm
       /\ \A i \in 1 .. q - 1 : z5[i] \in AheadSteps(h)
       /\ \A i \in q + 1 .. o - 1 : z5[i] \in TurnSteps(h)
       /\ \A i \in p + 1 .. o - 1 : z5[i].do \in {"message", "paced"}
  <2>1. /\ z5 \in Seq(Steps) /\ Len(z5) = p + 5 /\ \A i \in 1 .. p : z5[i] = z4[i]
        /\ \A i \in p + 1 .. p + 5 : z5[i] = fr[i - p] /\ i - p \in 1 .. 5
    <3>1. /\ z5 \in Seq(Steps) /\ Len(z5) = Len(z4) + Len(fr) /\ \A i \in 1 .. Len(z4) : z5[i] = z4[i]
          /\ \A i \in Len(z4) + 1 .. Len(z4) + Len(fr) : z5[i] = fr[i - Len(z4)] /\ i - Len(z4) \in 1 .. Len(fr)
      BY <1>6, <1>11, Joined, ZenonT(40) DEF z5
    <3> QED
      BY <1>6, <1>11, <3>1
  <2>2. z5[o] = op /\ o \in Nat /\ p < o /\ \A i \in p + 1 .. o - 1 : z5[i] = fr[i - p] /\ i - p \in 1 .. 4
    <3>1. o \in p + 1 .. p + 5 /\ o - p = 5
      BY <1>11
    <3>2. \A i \in p + 1 .. o - 1 : i \in p + 1 .. p + 5 /\ i - p \in 1 .. 4
      BY <1>11
    <3> QED
      BY <1>6, <1>11, <2>1, <3>1, <3>2
  <2>3. \A i \in q + 1 .. o - 1 : (i \in q + 1 .. p /\ i \in 1 .. p) \/ i \in p + 1 .. o - 1
    BY <1>9, <1>11
  <2>4. q \in 1 .. p /\ p \in 1 .. p /\ \A i \in 1 .. q - 1 : i \in 1 .. p
    BY <1>9, <1>11
  <2> HIDE DEF o
  <2>5. \A i \in q + 1 .. o - 1 : z5[i] \in TurnSteps(h)
    BY <1>6, <1>11, <2>1, <2>2, <2>3
  <2> QED
    BY <1>6, <1>11, <2>1, <2>2, <2>4, <2>5 DEF o
<1> HIDE DEF o
<1>13. /\ z8 \in Seq(Steps) /\ Len(z8) \in Nat /\ Len(z8) >= o
       /\ \A i \in 1 .. o : z8[i] = z5[i]
       /\ \A i \in o + 1 .. Len(z8) : z8[i] \in LitSteps(h)
  <2>1. /\ z6 \in Seq(Steps) /\ Len(z6) \in Nat /\ Len(z6) >= o /\ \A i \in 1 .. o : z6[i] = z5[i]
    <3>1. z6 \in Seq(Steps) /\ Len(z6) = Len(z5) + Len(cc) /\ \A i \in 1 .. Len(z5) : z6[i] = z5[i]
      BY <1>8, <1>12, Joined, ZenonT(40) DEF z6
    <3> QED
      BY <1>8, <1>12, <3>1
  <2>2. \A i \in o + 1 .. Len(z6) : z6[i] \in LitSteps(h)
    <3>1. o \in 0 .. Len(z5) /\ \A i \in o + 1 .. Len(z5) : z5[i] \in LitSteps(h)
      BY <1>12
    <3> QED
      BY <1>8, <1>12, <3>1, Extended, Zenon DEF z6
  <2>3. /\ z7 \in Seq(Steps) /\ Len(z7) \in Nat /\ Len(z7) >= o /\ \A i \in 1 .. o : z7[i] = z6[i]
    <3>1. z7 \in Seq(Steps) /\ Len(z7) = Len(z6) + Len(cl) /\ Len(cl) \in Nat /\ \A i \in 1 .. Len(z6) : z7[i] = z6[i]
      BY <1>7, <2>1, Joined, Zenon DEF z7
    <3> QED
      BY <1>12, <2>1, <3>1
  <2>4. \A i \in o + 1 .. Len(z7) : z7[i] \in LitSteps(h)
    <3>1. o \in 0 .. Len(z6)
      BY <1>12, <2>1
    <3> QED
      BY <1>7, <2>1, <2>2, <3>1, Extended, Zenon DEF z7
  <2>5. /\ z8 \in Seq(Steps) /\ Len(z8) \in Nat /\ Len(z8) >= o /\ \A i \in 1 .. o : z8[i] = z7[i]
    <3>1. z8 \in Seq(Steps) /\ Len(z8) = Len(z7) + Len(ca) /\ Len(ca) \in Nat /\ \A i \in 1 .. Len(z7) : z8[i] = z7[i]
      BY <1>7, <2>3, Joined, Zenon DEF z8
    <3> QED
      BY <1>12, <2>3, <3>1
  <2>6. \A i \in o + 1 .. Len(z8) : z8[i] \in LitSteps(h)
    <3>1. o \in 0 .. Len(z7)
      BY <1>12, <2>3
    <3> QED
      BY <1>7, <2>3, <2>4, <3>1, Extended, Zenon DEF z8
  <2> QED
    BY <2>1, <2>3, <2>5, <2>6
<1>14. /\ z9 \in Seq(Steps) /\ Len(z9) = r /\ r \in Nat /\ o < r /\ z9[r] = pr
       /\ \A i \in 1 .. r - 1 : z9[i] = z8[i]
  BY <1>1, <1>12, <1>13 DEF z9
<1>15. /\ z \in Seq(Steps) /\ Len(z) = r + Len(rest) /\ Len(rest) \in Nat /\ \A i \in 1 .. r : z[i] = z9[i]
       /\ \A i \in r + 1 .. r + Len(rest) : z[i] = rest[i - r]
  <2>1. /\ z \in Seq(Steps) /\ Len(z) = Len(z9) + Len(rest) /\ Len(rest) \in Nat
        /\ \A i \in 1 .. Len(z9) : z[i] = z9[i]
        /\ \A i \in Len(z9) + 1 .. Len(z9) + Len(rest) : z[i] = rest[i - Len(z9)]
    BY <1>14, Joined, ZenonT(40) DEF z
  <2> HIDE DEF r
  <2> QED
    BY <1>14, <2>1
<1>16. r - 1 = Len(z8) /\ r \in Nat
  BY <1>13
<1> HIDE DEF r
<1>17. /\ \A i \in 1 .. o : z[i] = z5[i]
       /\ z[r] = pr /\ \A i \in o + 1 .. r - 1 : z[i] \in LitSteps(h)
  <2>1. \A i \in 1 .. o : i \in 1 .. r /\ i \in 1 .. r - 1
    BY <1>12, <1>14
  <2>2. \A i \in o + 1 .. r - 1 : i \in 1 .. r /\ i \in 1 .. r - 1 /\ i \in o + 1 .. Len(z8)
    BY <1>12, <1>14, <1>16
  <2>3. r \in 1 .. r
    BY <1>12, <1>14
  <2> QED
    BY <1>13, <1>14, <1>15, <2>1, <2>2, <2>3
<1>18. ModeScript(z, h, seal, c, rest, q, p, o, r)
  <2>1. /\ q \in 1 .. o /\ p \in 1 .. o /\ o \in 1 .. o /\ (\A i \in 1 .. q - 1 : i \in 1 .. o)
        /\ (\A i \in q + 1 .. o - 1 : i \in 1 .. o) /\ (\A i \in p + 1 .. o - 1 : i \in 1 .. o)
    BY <1>9, <1>11, <1>12
  <2>2. /\ z[q] = sm /\ z[p] = up /\ z[o] = op
        /\ \A i \in 1 .. q - 1 : z[i] \in AheadSteps(h)
        /\ \A i \in q + 1 .. o - 1 : z[i] \in TurnSteps(h)
        /\ \A i \in p + 1 .. o - 1 : z[i].do \in {"message", "paced"}
    BY <1>12, <1>17, <2>1
  <2> QED
    BY <1>1, <1>9, <1>11, <1>12, <1>14, <1>15, <1>17, <2>2 DEF ModeScript, sm, up, op
<1> QED
  BY <1>3, <1>9, <1>11, <1>12, <1>14, <1>18 DEF pr

\* The script of a blank: black frames, the markers, the last of which for a
\* sink is at d and takes it down, and the rest.
BlankScript(steps, h, rest, b, d, r) ==
  /\ steps \in Seq(Steps) /\ b \in Nat /\ d \in Nat /\ r \in Nat /\ b < d /\ d <= r
  /\ Len(steps) = r + Len(rest)
  /\ \A i \in 1 .. b : steps[i].do = "black" /\ steps[i].head = h
  /\ \A i \in b + 1 .. r : steps[i] \in AheadSteps(h)
  /\ steps[d] = StreamMarker2e(h, FALSE) /\ \A i \in d + 1 .. r : steps[i].do = "message"
  /\ \A i \in r + 1 .. Len(steps) : steps[i] = rest[i - r]

LEMMA BlankParts ==
  ASSUME Types, NEW h \in Heads
  PROVE  LET m == BlankMarkers(h) IN
         /\ m \in Seq(Steps) /\ Len(m) \in Nat /\ \A i \in 1 .. Len(m) : m[i] \in AheadSteps(h)
         /\ \E d \in 1 .. Len(m) : m[d] = StreamMarker2e(h, FALSE) /\ \A i \in d + 1 .. Len(m) : m[i].do = "message"
<1> DEFINE u == StreamMarker2e(h, TRUE)
           v == StreamMarker2e(h, FALSE)
<1>1. u \in AheadSteps(h) /\ v \in AheadSteps(h) /\ Msg \in AheadSteps(h) /\ Msg.do = "message"
  BY SinkSteps, MessagesAreSteps DEF AheadSteps
<1>2. AheadSteps(h) \subseteq Steps
  BY DEF AheadSteps
<1>3. BlankMarkers(h) = IF profile.held THEN <<Msg, v>> ELSE <<Msg, u, Msg, v, Msg, Msg>>
  BY MessagesAreSteps DEF BlankMarkers
<1> DEFINE m == BlankMarkers(h)
           Ends(d) == m[d] = v /\ \A i \in d + 1 .. Len(m) : m[i].do = "message"
<1> SUFFICES /\ m \in Seq(Steps) /\ Len(m) \in Nat /\ \A i \in 1 .. Len(m) : m[i] \in AheadSteps(h)
             /\ \E d \in 1 .. Len(m) : Ends(d)
  OBVIOUS
<1> HIDE DEF u, v
<1>4. CASE profile.held
  <2>1. m = <<Msg, v>>
    BY <1>3, <1>4
  <2> HIDE DEF m
  <2>2. m \in Seq(Steps) /\ Len(m) = 2 /\ m[2] = v /\ \A i \in 1 .. Len(m) : m[i] \in {Msg, v}
    BY <1>1, <1>2, <2>1
  <2>3. 2 \in 1 .. Len(m) /\ \A i \in 3 .. Len(m) : m[i].do = "message"
    BY <2>2
  <2> QED
    BY <1>1, <2>2, <2>3
<1>5. CASE ~profile.held
  <2>1. m = <<Msg, u, Msg, v, Msg, Msg>>
    BY <1>3, <1>5
  <2> HIDE DEF m
  <2>2. m \in Seq(Steps) /\ Len(m) = 6 /\ m[4] = v /\ m[5] = Msg /\ m[6] = Msg
    BY <1>1, <1>2, <2>1
  <2>3. \A i \in 1 .. Len(m) : m[i] \in {Msg, u, v}
    BY <2>1
  <2>4. 4 \in 1 .. Len(m) /\ \A i \in 5 .. Len(m) : m[i].do = "message"
    <3>1. 4 \in 1 .. Len(m) /\ \A i \in 5 .. Len(m) : i = 5 \/ i = 6
      BY <2>2
    <3> QED
      BY <1>1, <2>2, <3>1
  <2> QED
    BY <1>1, <2>2, <2>3, <2>4
<1> QED
  BY <1>4, <1>5

LEMMA BlankScripts ==
  ASSUME Types, NEW h \in Heads, NEW rest \in Seq(Steps), NEW black,
         black \in IF profile.held THEN {<<>>} ELSE BlackFrames(h)
  PROVE  \E b, d, r \in Nat : BlankScript(black \o BlankMarkers(h) \o rest, h, rest, b, d, r)
<1>1. black \in Seq(Steps) /\ Len(black) \in Nat /\ \A i \in 1 .. Len(black) : black[i].do = "black" /\ black[i].head = h
  <2>1. CASE black = <<>>
    BY <2>1
  <2>2. CASE black \in BlackFrames(h)
    <3>1. PICK n \in 1 .. MaxWindow : black = [i \in 1 .. n |-> Step("black", h)]
      BY <2>2 DEF BlackFrames
    <3>2. Step("black", h) \in Steps /\ Step("black", h).do = "black" /\ Step("black", h).head = h
      BY MadeSteps
    <3>3. n \in Nat
      BY SessionAssumption
    <3>4. black \in Seq(Steps) /\ Len(black) = n
      BY <3>1, <3>2, <3>3
    <3>5. \A i \in 1 .. n : black[i] = Step("black", h)
      BY <3>1
    <3> QED
      BY <3>2, <3>3, <3>4, <3>5
  <2> QED
    BY <2>1, <2>2
<1> DEFINE m == BlankMarkers(h)
<1>2. m \in Seq(Steps) /\ Len(m) \in Nat /\ \A i \in 1 .. Len(m) : m[i] \in AheadSteps(h)
  BY BlankParts
<1>3. PICK d \in 1 .. Len(m) : m[d] = StreamMarker2e(h, FALSE) /\ \A i \in d + 1 .. Len(m) : m[i].do = "message"
  BY BlankParts
<1> DEFINE y == black \o m
           z == y \o rest
           b == Len(black)
           r == Len(y)
<1> HIDE DEF m
<1>4. /\ y \in Seq(Steps) /\ Len(y) = b + Len(m) /\ \A i \in 1 .. b : y[i] = black[i]
      /\ \A i \in b + 1 .. b + Len(m) : y[i] = m[i - b] /\ i - b \in 1 .. Len(m)
  BY <1>1, <1>2, Joined, Zenon
<1> HIDE DEF y
<1>5. /\ z \in Seq(Steps) /\ Len(z) = r + Len(rest) /\ \A i \in 1 .. r : z[i] = y[i]
      /\ \A i \in r + 1 .. Len(z) : z[i] = rest[i - r]
  <2>1. /\ z \in Seq(Steps) /\ Len(z) = Len(y) + Len(rest) /\ \A i \in 1 .. Len(y) : z[i] = y[i]
        /\ \A i \in Len(y) + 1 .. Len(y) + Len(rest) : z[i] = rest[i - Len(y)]
    <3>1. y \in Seq(Steps)
      BY <1>4
    <3> QED
      BY <3>1, Joined, Zenon
  <2> HIDE DEF z
  <2> QED
    BY <2>1
<1> HIDE DEF z
<1>6. /\ r = b + Len(m) /\ r \in Nat /\ b \in Nat /\ b + d \in Nat /\ b < b + d /\ b + d <= r
      /\ b + d \in b + 1 .. b + Len(m) /\ b + d \in 1 .. r /\ (b + d) - b = d
      /\ \A i \in 1 .. b : i \in 1 .. r
      /\ \A i \in b + 1 .. r : i \in 1 .. r /\ i \in b + 1 .. b + Len(m)
      /\ \A i \in b + d + 1 .. r : i \in 1 .. r /\ i \in b + 1 .. b + Len(m) /\ i - b \in d + 1 .. Len(m)
  <2>1. d \in 1 .. Len(m) /\ Len(m) \in Nat /\ b \in Nat
    BY <1>1, <1>2
  <2> HIDE DEF b
  <2> QED
    BY <1>4, <2>1
<1> HIDE DEF b, r
<1>7. /\ \A i \in 1 .. b : z[i].do = "black" /\ z[i].head = h
      /\ \A i \in b + 1 .. r : z[i] \in AheadSteps(h)
      /\ z[b + d] = StreamMarker2e(h, FALSE) /\ \A i \in b + d + 1 .. r : z[i].do = "message"
  <2>1. \A i \in 1 .. b : z[i].do = "black" /\ z[i].head = h
    BY <1>1, <1>4, <1>5, <1>6, ZenonT(40) DEF b
  <2>2. \A i \in b + 1 .. r : z[i] = m[i - b] /\ i - b \in 1 .. Len(m)
    BY <1>4, <1>5, <1>6
  <2>3. z[b + d] = m[d] /\ \A i \in b + d + 1 .. r : z[i] = m[i - b] /\ i - b \in d + 1 .. Len(m)
    BY <1>4, <1>5, <1>6
  <2>4. \A i \in b + 1 .. r : z[i] \in AheadSteps(h)
    BY <1>2, <2>2
  <2>5. z[b + d] = StreamMarker2e(h, FALSE) /\ \A i \in b + d + 1 .. r : z[i].do = "message"
    BY <1>3, <2>3, Zenon
  <2> QED
    BY <2>1, <2>4, <2>5
<1>8. BlankScript(z, h, rest, b, b + d, r)
  BY <1>5, <1>6, <1>7 DEF BlankScript
<1> QED
  BY <1>6, <1>8 DEF z, y, m

-----------------------------------------------------------------------------
(***************************************************************************)
(* How a step moves the script on.                                         *)
(***************************************************************************)
LEMMA RearmSteps ==
  ASSUME Types, NEW h \in Heads
  PROVE  LET shot == cursor_shot[h] IN
         /\ RearmCursor(h) \in Seq(Steps)
         /\ shot = NoPointer => RearmCursor(h) = <<>>
         /\ shot # NoPointer =>
              /\ RearmCursor(h) = <<Msg, CursorImageMessage(h, shot.shape), CursorMove(h, Place(shot))>>
              /\ shot \in [shape : Shapes, at : Places \cup {Origin}, visible : BOOLEAN]
<1> DEFINE shot == cursor_shot[h]
<1>1. CASE shot = NoPointer
  BY <1>1 DEF RearmCursor, When
<1>2. CASE shot # NoPointer
  <2>1. shot \in [shape : Shapes, at : Places \cup {Origin}, visible : BOOLEAN]
    BY <1>2 DEF Types, Shots
  <2>2. shot.shape \in Shapes /\ Place(shot) \in Places \cup {Origin, Hidden}
    BY <2>1 DEF Place
  <2> DEFINE im == CursorImageMessage(h, shot.shape)
             mv == CursorMove(h, Place(shot))
  <2>3. im \in Steps /\ mv \in Steps /\ Msg \in Steps
    BY <2>2, MadeSteps, MessagesAreSteps
  <2>4. RearmCursor(h) = <<Msg, im>> \o <<mv>>
    BY <1>2, MessagesAreSteps DEF RearmCursor, When, SetCursor, Place
  <2> HIDE DEF im, mv
  <2>5. <<Msg, im>> \o <<mv>> = <<Msg, im, mv>>
    <3> DEFINE s == <<Msg, im>>
               t == <<mv>>
               w == s \o t
    <3>1. s \in Seq(Steps) /\ Len(s) = 2 /\ s[1] = Msg /\ s[2] = im /\ t \in Seq(Steps) /\ Len(t) = 1 /\ t[1] = mv
      BY <2>3
    <3> HIDE DEF s, t
    <3>2. w \in Seq(Steps) /\ Len(w) = 3 /\ w[1] = Msg /\ w[2] = im /\ w[3] = mv
      <4>1. /\ w \in Seq(Steps) /\ Len(w) = Len(s) + Len(t) /\ \A i \in 1 .. Len(s) : w[i] = s[i]
            /\ \A i \in Len(s) + 1 .. Len(s) + Len(t) : w[i] = t[i - Len(s)]
        BY <3>1, Joined, ZenonT(40)
      <4> HIDE DEF w
      <4>2. 1 \in 1 .. Len(s) /\ 2 \in 1 .. Len(s) /\ 3 \in Len(s) + 1 .. Len(s) + Len(t) /\ 3 - Len(s) = 1
            /\ Len(s) + Len(t) = 3
        BY <3>1
      <4> QED
        BY <3>1, <4>1, <4>2, Zenon
    <3> HIDE DEF w
    <3>3. w = <<Msg, im, mv>>
      BY <3>2
    <3> QED
      BY <3>3 DEF w, s, t
  <2>6. <<Msg, im, mv>> \in Seq(Steps)
    BY <2>3
  <2> QED
    BY <1>2, <2>1, <2>4, <2>5, <2>6 DEF im, mv
<1> QED
  BY <1>1, <1>2

\* The first step gives way to others that hold no marker and no frame.
Advanced(steps) ==
  /\ steps \in Seq(Steps) /\ script' = steps \o Tail(script)
  /\ \/ steps = <<>>
     \/ steps = <<Msg>> /\ script[1].do \in {"carrier", "black"}
     \/ script[1].do = "programmed" /\ steps = RearmCursor(script[1].head)

Advances ==
  \/ Message \/ SinkMarker \/ SetMode \/ Prologue \/ Paced \/ Opening \/ Carrier \/ Programmed
  \/ CursorImage \/ CursorMoves \/ Picture \/ Presented \/ Black

LEMMA AdvancesScript ==
  ASSUME Types, script # <<>>, Advances
  PROVE  \E steps : Advanced(steps)
<1>1. /\ Head(script) = script[1] /\ Tail(script) \in Seq(Steps) /\ script[1] \in Steps
  BY FirstStep
<1>2. <<>> \o Tail(script) = Tail(script) /\ <<>> \in Seq(Steps) /\ <<Msg>> \in Seq(Steps) /\ DeviceQuery = Msg
  BY <1>1, MessagesAreSteps
<1>3. CASE script' = Tail(script)
  BY <1>2, <1>3 DEF Advanced
<1>4. CASE (Carrier \/ Black) /\ script' # Tail(script)
  <2>1. script' = <<Msg>> \o Tail(script) /\ script[1].do \in {"carrier", "black"}
    BY <1>1, <1>2, <1>4 DEF Carrier, Black
  <2> QED
    BY <1>2, <2>1 DEF Advanced
<1>5. CASE Programmed
  <2>1. script' = RearmCursor(script[1].head) \o Tail(script) /\ script[1].do = "programmed"
    BY <1>1, <1>5 DEF Programmed
  <2>2. RearmCursor(script[1].head) \in Seq(Steps)
    BY <1>1, <2>1, RearmSteps, StepFields
  <2> QED
    BY <2>1, <2>2 DEF Advanced
<1>6. CASE \/ Message \/ SinkMarker \/ SetMode \/ Prologue \/ Paced \/ Opening
           \/ CursorImage \/ CursorMoves \/ Picture \/ Presented
  BY <1>3, <1>6 DEF Message, SinkMarker, SetMode, Prologue, Paced, Opening, CursorImage, CursorMoves, Picture, Presented
<1> QED
  BY <1>3, <1>4, <1>5, <1>6 DEF Advances

\* The steps that were behind the first one, in their new places.
LEMMA AdvancedAt ==
  ASSUME Types, script # <<>>, NEW steps, Advanced(steps)
  PROVE  LET k == Len(steps) IN
         /\ script' \in Seq(Steps) /\ k \in Nat /\ Len(script) \in Nat /\ Len(script) >= 1
         /\ Len(script') = k + Len(script) - 1
         /\ \A i \in 1 .. k : script'[i] = steps[i] /\ steps[i].do \in {"message", "image", "move"}
         /\ \A i \in k + 1 .. Len(script') : script'[i] = script[i - k + 1] /\ i - k + 1 \in 2 .. Len(script)
         /\ script[1].do # "programmed" => k \in {0, 1} /\ \A i \in 1 .. k : script'[i] = Msg
<1> DEFINE k == Len(steps)
<1>1. /\ script[1] \in Steps /\ Len(script) \in Nat /\ Len(script) >= 1
      /\ Tail(script) \in Seq(Steps) /\ Len(Tail(script)) = Len(script) - 1
      /\ \A i \in 1 .. Len(script) - 1 : Tail(script)[i] = script[i + 1]
  BY FirstStep
<1>2. steps \in Seq(Steps) /\ script' = steps \o Tail(script)
  BY DEF Advanced
<1> DEFINE t == Tail(script)
<1>3. /\ script' \in Seq(Steps) /\ k \in Nat /\ Len(script') = k + Len(t) /\ \A i \in 1 .. k : script'[i] = steps[i]
      /\ \A i \in k + 1 .. k + Len(t) : script'[i] = t[i - k] /\ i - k \in 1 .. Len(t)
  <2>1. t \in Seq(Steps)
    BY <1>1
  <2> HIDE DEF t
  <2>2. script' = steps \o t
    BY <1>2 DEF t
  <2>3. /\ steps \o t \in Seq(Steps) /\ Len(steps) \in Nat /\ Len(steps \o t) = Len(steps) + Len(t)
        /\ \A i \in 1 .. Len(steps) : (steps \o t)[i] = steps[i]
        /\ \A i \in Len(steps) + 1 .. Len(steps) + Len(t) :
             (steps \o t)[i] = t[i - Len(steps)] /\ i - Len(steps) \in 1 .. Len(t)
    <3>1. steps \in Seq(Steps)
      BY <1>2
    <3> QED
      BY <2>1, <3>1, Joined, Zenon
  <2> QED
    BY <2>2, <2>3, Zenon
<1>4. \A i \in k + 1 .. Len(script') : script'[i] = script[i - k + 1] /\ i - k + 1 \in 2 .. Len(script)
  <2> HIDE DEF t, k
  <2>1. Len(t) = Len(script) - 1 /\ \A i \in 1 .. Len(script) - 1 : t[i] = script[i + 1]
    BY <1>1 DEF t
  <2> SUFFICES ASSUME NEW i \in k + 1 .. Len(script')
               PROVE  script'[i] = script[i - k + 1] /\ i - k + 1 \in 2 .. Len(script)
    OBVIOUS
  <2>2. i - k \in 1 .. Len(script) - 1 /\ script'[i] = t[i - k] /\ i - k + 1 \in 2 .. Len(script)
    BY <1>1, <1>3, <2>1
  <2> QED
    BY <2>1, <2>2
<1>5. (\A i \in 1 .. k : steps[i].do \in {"message", "image", "move"})
      /\ (script[1].do # "programmed" => k \in {0, 1} /\ \A i \in 1 .. k : steps[i] = Msg)
  <2>1. CASE steps = <<>>
    BY <2>1
  <2>2. CASE steps = <<Msg>>
    BY <2>2, MessagesAreSteps
  <2>3. CASE script[1].do = "programmed" /\ steps = RearmCursor(script[1].head)
    <3>1. script[1].head \in Heads
      BY <1>1, <2>3, StepFields
    <3> DEFINE shot == cursor_shot[script[1].head]
               im == CursorImageMessage(script[1].head, shot.shape)
               mv == CursorMove(script[1].head, Place(shot))
    <3>2. steps = <<>> \/ steps = <<Msg, im, mv>>
      BY <2>3, <3>1, RearmSteps
    <3>3. im.do = "image" /\ mv.do = "move" /\ Msg.do = "message"
      BY MessagesAreSteps DEF CursorImageMessage, CursorMove
    <3> HIDE DEF im, mv
    <3>4. CASE steps = <<Msg, im, mv>>
      <4>1. Len(steps) = 3 /\ steps[1] = Msg /\ steps[2] = im /\ steps[3] = mv
        BY <3>4
      <4>2. \A i \in 1 .. k : i = 1 \/ i = 2 \/ i = 3
        BY <4>1
      <4> QED
        BY <2>3, <3>3, <4>1, <4>2
    <3> QED
      BY <2>1, <3>2, <3>4
  <2> QED
    BY <2>1, <2>2, <2>3 DEF Advanced
<1>6. Len(script') = k + Len(script) - 1
  BY <1>1, <1>3
<1> QED
  BY <1>1, <1>3, <1>4, <1>5, <1>6

\* What the daemon may ask for.
AskedScript(s) ==
  /\ s \in Seq(Steps)
  /\ \A i \in 1 .. Len(s) :
       /\ s[i].do \in {"begin", "blank", "picture", "presented", "message", "image", "move", "probe"}
       /\ s[i].do \in {"blank", "picture"} => mode_active[s[i].head]
       /\ s[i].do = "probe" => Len(s) = 1
  /\ \A i, j \in 1 .. Len(s) : i < j /\ s[i].do \in Pending => s[j].do \in Pending
  /\ \A i, j \in 1 .. Len(s) : s[i].do = "blank" /\ s[j].do = "blank" /\ s[i].head = s[j].head => i = j

LEMMA AsksOne ==
  ASSUME NEW x \in Steps,
         x.do \in {"begin", "blank", "picture", "presented", "message", "image", "move", "probe"},
         x.do \in {"blank", "picture"} => mode_active[x.head]
  PROVE  AskedScript(<<x>>)
<1>1. <<x>> \in Seq(Steps) /\ Len(<<x>>) = 1 /\ <<x>>[1] = x
  OBVIOUS
<1>2. \A i \in 1 .. Len(<<x>>) : i = 1
  BY <1>1
<1> QED
  BY <1>1, <1>2, ZenonT(40) DEF AskedScript

LEMMA AsksPlain ==
  ASSUME NEW s \in Seq(Steps), \A i \in 1 .. Len(s) : s[i].do \in {"picture", "presented", "message", "image", "move"},
         \A i \in 1 .. Len(s) : s[i].do = "picture" => mode_active[s[i].head]
  PROVE  AskedScript(s)
  BY DEF AskedScript, Pending

LEMMA AsksPending ==
  ASSUME Types, NEW S, S \subseteq Heads,
         NEW blanks \in Each("blank", {h \in Heads : mode_active[h]}), NEW begins \in Each("begin", S)
  PROVE  AskedScript(blanks \o begins)
<1> DEFINE z == blanks \o begins
<1>1. /\ blanks \in Seq(Steps)
      /\ \A i \in 1 .. Len(blanks) : blanks[i].do = "blank" /\ blanks[i].head \in {h \in Heads : mode_active[h]}
      /\ \A i, j \in 1 .. Len(blanks) : blanks[i].head = blanks[j].head => i = j
  BY InOrderOf
<1>2. begins \in Seq(Steps) /\ \A i \in 1 .. Len(begins) : begins[i].do = "begin"
  BY InOrderOf
<1>3. /\ z \in Seq(Steps) /\ Len(blanks) \in Nat /\ Len(begins) \in Nat /\ Len(z) = Len(blanks) + Len(begins)
      /\ \A i \in 1 .. Len(blanks) : z[i] = blanks[i]
      /\ \A i \in Len(blanks) + 1 .. Len(blanks) + Len(begins) :
           z[i] = begins[i - Len(blanks)] /\ i - Len(blanks) \in 1 .. Len(begins)
  BY <1>1, <1>2, Joined, Zenon
<1> HIDE DEF z
<1>4. \A i \in 1 .. Len(z) : i \in 1 .. Len(blanks) \/ i \in Len(blanks) + 1 .. Len(blanks) + Len(begins)
  BY <1>3
<1>5. \A i \in 1 .. Len(z) :
        \/ i \in 1 .. Len(blanks) /\ z[i] = blanks[i] /\ z[i].do = "blank" /\ mode_active[z[i].head]
        \/ z[i].do = "begin"
  <2>1. \A i \in 1 .. Len(blanks) : z[i] = blanks[i] /\ z[i].do = "blank" /\ mode_active[z[i].head]
    BY <1>1, <1>3
  <2>2. \A i \in Len(blanks) + 1 .. Len(blanks) + Len(begins) : z[i].do = "begin"
    BY <1>2, <1>3
  <2> QED
    BY <1>4, <2>1, <2>2
<1>6. \A i, j \in 1 .. Len(z) : z[i].do = "blank" /\ z[j].do = "blank" /\ z[i].head = z[j].head => i = j
  BY <1>1, <1>5
<1>7. AskedScript(z)
  BY <1>3, <1>5, <1>6 DEF AskedScript, Pending
<1> QED
  BY <1>7 DEF z

LEMMA AsksPictures ==
  ASSUME Types, NEW h \in Heads, mode_active[h], NEW s \in PresentScripts(h)
  PROVE  AskedScript(s)
<1>1. PICK k \in Nat : s = Pictures(h, k) \o When(k > 0, <<[do |-> "presented", head |-> h, n |-> k]>>) \o <<DeviceQuery>>
  <2>1. profile.presentations \in Nat
    BY ProfileFacts DEF Types
  <2> QED
    BY <2>1 DEF PresentScripts
<1> DEFINE a == Pictures(h, k)
           x == [do |-> "presented", head |-> h, n |-> k]
           b == When(k > 0, <<x>>)
           y == a \o b
           Shown == {t \in Steps : t.do \in {"picture", "presented", "message"} /\ (t.do = "picture" => t.head = h)}
<1>2. a \in Seq(Shown)
  <2>1. frame_seq[h] \in Nat
    BY DEF Types
  <2>2. \A i \in 1 .. k : frame_seq[h] + i - 1 \in Nat
    BY <2>1
  <2>3. \A i \in 1 .. k : [do |-> "picture", head |-> h, seq |-> frame_seq[h] + i - 1] \in Shown
    BY <2>2, MadeSteps, ZenonT(40)
  <2> HIDE DEF Shown
  <2> QED
    BY <2>3 DEF Pictures
<1>3. x \in Shown /\ Msg \in Shown
  BY MadeSteps, MessagesAreSteps
<1> HIDE DEF Shown, x, a
<1>4. b \in Seq(Shown)
  BY <1>3 DEF When
<1> HIDE DEF b
<1>5. y \in Seq(Shown)
  BY <1>2, <1>4
<1>6. <<DeviceQuery>> \in Seq(Shown)
  BY <1>3, MessagesAreSteps
<1> HIDE DEF y
<1>7. s = y \o <<DeviceQuery>>
  BY <1>1 DEF y, a, b, x
<1>8. s \in Seq(Shown)
  BY <1>5, <1>6, <1>7
<1>9. s \in Seq(Steps) /\ \A i \in 1 .. Len(s) : s[i] \in Shown
  BY <1>8 DEF Shown
<1> QED
  BY <1>9, AsksPlain DEF Shown

LEMMA RequestScript ==
  ASSUME Types, Request, ~DdcciFails
  PROVE  /\ script = <<>> /\ AskedScript(script')
         /\ UNCHANGED <<profile, inner_counter, hostVars, answer, unread, plugged, dockVars>>
<1>1. \A s : Ask(s) => /\ script = <<>> /\ script' = s
                       /\ UNCHANGED <<profile, inner_counter, hostVars, answer, unread, plugged, dockVars>>
  BY DEF Ask
<1> DEFINE Asks == \E s : AskedScript(s) /\ Ask(s)
<1> SUFFICES Asks
  BY <1>1
<1>2. ASSUME NEW h \in Heads, ActivateMode(h) \/ DeactivateMode(h) \/ Probe(h) \/ CursorHideEvent(h)
      PROVE  Asks
  <2>1. /\ Step("begin", h) \in Steps /\ Step("begin", h).do = "begin"
        /\ Step("blank", h) \in Steps /\ Step("blank", h).do = "blank" /\ Step("blank", h).head = h
        /\ PresenceProbe(h) \in Steps /\ PresenceProbe(h).do = "probe"
        /\ CursorMove(h, Hidden) \in Steps /\ CursorMove(h, Hidden).do = "move"
    BY MadeSteps
  <2>2. /\ AskedScript(<<Step("begin", h)>>) /\ AskedScript(<<PresenceProbe(h)>>)
        /\ AskedScript(<<CursorMove(h, Hidden)>>)
    BY <2>1, AsksOne
  <2>3. mode_active[h] => AskedScript(<<Step("blank", h)>>)
    BY <2>1, AsksOne
  <2> QED
    BY <1>2, <2>2, <2>3 DEF ActivateMode, DeactivateMode, Probe, CursorHideEvent
<1>3. ASSUME NEW h \in Heads, PresentRgb(h)
      PROVE  Asks
  BY <1>3, AsksPictures DEF PresentRgb
<1>4. ASSUME NEW h \in Heads, CursorSetEvent(h)
      PROVE  Asks
  <2>1. PICK shape \in Shapes : Ask(SetCursor(h, shape))
    BY <1>4 DEF CursorSetEvent
  <2> DEFINE im == CursorImageMessage(h, shape)
  <2>2. im \in Steps /\ im.do = "image" /\ Msg \in Steps /\ Msg.do = "message" /\ SetCursor(h, shape) = <<Msg, im>>
    BY MadeSteps, MessagesAreSteps DEF SetCursor
  <2> HIDE DEF im
  <2>3. <<Msg, im>> \in Seq(Steps) /\ \A i \in 1 .. Len(<<Msg, im>>) : <<Msg, im>>[i] \in {Msg, im}
    BY <2>2
  <2>4. AskedScript(<<Msg, im>>)
    BY <2>2, <2>3, AsksPlain
  <2> QED
    BY <2>1, <2>2, <2>4
<1>5. ASSUME NEW h \in Heads, CursorMoveEvent(h)
      PROVE  Asks
  <2>1. PICK place \in Places : Ask(<<CursorMove(h, place)>>)
    BY <1>5 DEF CursorMoveEvent
  <2>2. CursorMove(h, place) \in Steps /\ CursorMove(h, place).do = "move"
    BY MadeSteps
  <2> QED
    BY <2>1, <2>2, AsksOne
<1>6. ASSUME NEW S \in SUBSET Heads, ActivateModes(S)
      PROVE  Asks
  BY <1>6, AsksPending DEF ActivateModes
<1>7. CASE Poll
  <2>1. Msg \in Steps /\ Msg.do = "message" /\ Ask(<<Msg>>)
    BY <1>7, MessagesAreSteps DEF Poll
  <2> QED
    BY <2>1, AsksOne
<1> QED
  BY <1>2, <1>3, <1>4, <1>5, <1>6, <1>7 DEF Request

-----------------------------------------------------------------------------
(***************************************************************************)
(* Types.                                                                  *)
(***************************************************************************)
ReplySet == [echo : Counters, status : Occupancy \cup {None}]

LEMMA Wraps ==
  ASSUME NEW n \in Counters
  PROVE  Wrap(n + 1) = (IF n + 1 = CounterMod THEN 0 ELSE n + 1) /\ Wrap(n + 1) \in Counters
<1>1. CounterMod \in Nat /\ CounterMod > 0 /\ n \in 0 .. CounterMod - 1
  BY SessionAssumption DEF Counters
<1>2. CASE n + 1 = CounterMod
  <2>1. CounterMod % CounterMod = 0
    BY <1>1
  <2> QED
    BY <1>1, <1>2, <2>1 DEF Wrap, Counters
<1>3. CASE n + 1 # CounterMod
  <2>1. n + 1 \in 0 .. CounterMod - 1
    BY <1>1, <1>3
  <2>2. \A x \in 0 .. CounterMod - 1 : x % CounterMod = x
    BY <1>1
  <2> QED
    BY <1>3, <2>1, <2>2 DEF Wrap, Counters
<1> QED
  BY <1>2, <1>3

\* A message is answered, and its answer read, or one before it, or none.
LEMMA Sends ==
  ASSUME Types, NEW c \in Counters, NEW status \in Occupancy \cup {None}, SendMessage(c, status)
  PROVE  LET queue == Append(unread, Reply(c, status)) IN
         /\ inner_counter' = Wrap(inner_counter + 1) /\ inner_counter' \in Counters
         /\ queue \in Seq(ReplySet) /\ Len(queue) = Len(unread) + 1 /\ Len(unread) \in Nat
         /\ queue[Len(unread) + 1] = Reply(c, status) /\ \A i \in 1 .. Len(unread) : queue[i] = unread[i]
         /\ unread' \in Seq(ReplySet)
         /\ \/ /\ unread' = queue /\ Len(queue) <= MaxLag
            \/ /\ Len(unread') = Len(unread)
               /\ \A i \in 1 .. Len(unread') : unread'[i] = queue[i + 1] /\ i + 1 \in 1 .. Len(queue)
<1> DEFINE queue == Append(unread, Reply(c, status))
<1>1. Reply(c, status) \in ReplySet /\ unread \in Seq(ReplySet)
  BY DEF Types, ReplySet, Reply
<1>2. inner_counter' = Wrap(inner_counter + 1) /\ inner_counter' \in Counters
  BY Wraps DEF SendMessage, Types
<1>3. /\ queue \in Seq(ReplySet) /\ Len(queue) = Len(unread) + 1 /\ Len(unread) \in Nat
      /\ queue[Len(unread) + 1] = Reply(c, status) /\ \A i \in 1 .. Len(unread) : queue[i] = unread[i]
  BY <1>1
<1> HIDE DEF queue
<1>4. unread' = Tail(queue) \/ (Len(queue) <= MaxLag /\ unread' = queue)
  BY DEF SendMessage, queue
<1>5. CASE unread' = Tail(queue)
  <2>1. Len(queue) \in Nat /\ Len(queue) >= 1
    BY <1>3
  <2>2. /\ Tail(queue) \in Seq(ReplySet) /\ Len(Tail(queue)) = Len(queue) - 1
        /\ \A i \in 1 .. Len(queue) - 1 : Tail(queue)[i] = queue[i + 1]
    BY <1>3, <2>1
  <2>3. Len(unread') = Len(unread) /\ \A i \in 1 .. Len(unread') : i + 1 \in 1 .. Len(queue) /\ i \in 1 .. Len(queue) - 1
    BY <1>3, <1>5, <2>2
  <2>4. unread' \in Seq(ReplySet) /\ \A i \in 1 .. Len(unread') : unread'[i] = queue[i + 1] /\ i + 1 \in 1 .. Len(queue)
    BY <1>5, <2>2, <2>3
  <2> QED
    BY <1>2, <1>3, <2>3, <2>4 DEF queue
<1>6. CASE Len(queue) <= MaxLag /\ unread' = queue
  BY <1>2, <1>3, <1>6 DEF queue
<1> QED
  BY <1>4, <1>5, <1>6

LEMMA SendControls ==
  ASSUME Types, SendControl
  PROVE  SendMessage(inner_counter, None) /\ inner_counter \in Counters /\ None \in Occupancy \cup {None}
  BY DEF SendControl, Types

\* A sealed record taken for a connector.
LEMMA SealTypes ==
  ASSUME Types, NEW h \in Heads
  PROVE  /\ StreamPrefix(h) \in Seals /\ FrameReport(h) \in Seals /\ TakeBlocks(h, OpeningBlocks) \in Seals
         /\ \A seal \in Seals : Spend(h, seal) \in [Heads -> Nat] /\ [sealed EXCEPT ![h] = @ + seal.blocks] \in [Heads -> Nat]
<1>1. video_seal_seq \in [Heads -> Nat] /\ sealed \in [Heads -> Nat]
  BY DEF Types
<1>2. NoSeal \in Seals /\ TakeBlocks(h, OpeningBlocks) \in Seals /\ TakeBlocks(h, ReportBlocks) \in Seals
  BY <1>1 DEF NoSeal, TakeBlocks, OpeningBlocks, ReportBlocks, Seals
<1>3. StreamPrefix(h) \in Seals /\ FrameReport(h) \in Seals
  BY <1>2 DEF StreamPrefix, FrameReport
<1>4. \A seal \in Seals : seal.blocks \in Nat
  BY DEF Seals
<1>5. \A seal \in Seals : Spend(h, seal) \in [Heads -> Nat] /\ [sealed EXCEPT ![h] = @ + seal.blocks] \in [Heads -> Nat]
  BY <1>1, <1>4 DEF Spend
<1> QED
  BY <1>2, <1>3, <1>5

\* A failure and the session behind it.
LEMMA LostTypes == ASSUME Types, LoseSession PROVE Types'
<1>1. NoPointer \in Shots /\ NoPointer \in Pointers /\ 0 \in Counters /\ 0 \in Nat
  BY SessionAssumption DEF NoPointer, Shots, Pointers, Counters
<1>2. /\ inner_counter' = 0 /\ script' = <<>> /\ unread' = <<>>
      /\ mode_active' = [h \in Heads |-> FALSE] /\ mode_restate_owed' = [h \in Heads |-> FALSE]
      /\ keyframe_owed' = [h \in Heads |-> TRUE] /\ sink' = [h \in Heads |-> FALSE]
      /\ video_seal_seq' = [h \in Heads |-> 0] /\ frame_seq' = [h \in Heads |-> 0] /\ sealed' = [h \in Heads |-> 0]
      /\ cursor_shot' = [h \in Heads |-> NoPointer] /\ pointer' = [h \in Heads |-> NoPointer]
      /\ UNCHANGED <<profile, plugged>>
  BY DEF LoseSession
<1>3. script' \in Seq(Steps) /\ unread' \in Seq([echo : Counters, status : Occupancy \cup {None}])
  BY <1>2
<1> QED
  BY <1>1, <1>2, <1>3 DEF Types

LEMMA OutsideTypes ==
  ASSUME Types, Request \/ PlugChanges \/ Done \/ UNCHANGED vars
  PROVE  Types'
<1>1. CASE Request /\ ~DdcciFails
  <2>1. /\ script' \in Seq(Steps)
        /\ UNCHANGED <<profile, inner_counter, hostVars, answer, unread, plugged, dockVars>>
    BY <1>1, RequestScript DEF AskedScript
  <2> QED
    BY <2>1 DEF Types, hostVars, dockVars, streamVars
<1>2. CASE PlugChanges
  <2>1. \A o : (CHOOSE p \in Occupancy : p # o) \in Occupancy
    BY DEF Occupancy
  <2>2. plugged' \in [Heads -> Occupancy]
    <3> DEFINE other(o) == CHOOSE p \in Occupancy : p # o
    <3>1. \A o : other(o) \in Occupancy
      BY <2>1
    <3>2. PICK h \in Heads : plugged' = [plugged EXCEPT ![h] = other(plugged[h])]
      BY <1>2 DEF PlugChanges
    <3> HIDE DEF other
    <3> QED
      BY <3>1, <3>2 DEF Types
  <2> QED
    BY <1>2, <2>2 DEF PlugChanges, Types, hostVars, dockVars, streamVars
<1>3. CASE DdcciFails \/ Done \/ UNCHANGED vars
  BY <1>3 DEF DdcciFails, Done, vars, Types, hostVars, dockVars, streamVars
<1> QED
  BY <1>1, <1>2, <1>3

\* The steps that send a message and take what has come.
Sending == Message \/ SinkMarker \/ SetMode \/ CursorImage \/ CursorMoves
\* The steps that send none.
Silent == Prologue \/ Paced \/ Opening \/ Carrier \/ Programmed \/ Picture \/ Presented \/ Black

LEMMA SendingSends ==
  ASSUME Types, script # <<>>, Sending
  PROVE  /\ UNCHANGED answer /\ script[1].do \in {"message", "sink", "set_mode", "image", "move"}
         /\ \E c \in Counters : /\ SendMessage(c, None)
                                /\ c = IF script[1].do = "set_mode" THEN script[1].counter ELSE inner_counter
<1>1. Head(script) = script[1] /\ script[1] \in Steps /\ inner_counter \in Counters
  BY FirstStep DEF Types
<1>2. CASE SetMode
  <2>1. script[1].do = "set_mode" /\ SendMessage(script[1].counter, None) /\ answer' = answer
    BY <1>1, <1>2 DEF SetMode
  <2> QED
    BY <1>1, <2>1, StepFields
<1>3. CASE Message \/ SinkMarker \/ CursorImage \/ CursorMoves
  <2>1. script[1].do \in {"message", "sink", "image", "move"} /\ SendMessage(inner_counter, None) /\ answer' = answer
    BY <1>1, <1>3 DEF Message, SinkMarker, CursorImage, CursorMoves, SendControl
  <2> QED
    BY <1>1, <2>1
<1> QED
  BY <1>2, <1>3 DEF Sending

LEMMA SilentKeeps ==
  ASSUME Types, script # <<>>, Silent
  PROVE  /\ UNCHANGED <<inner_counter, unread, answer>>
         /\ script[1].do \in {"prologue", "paced", "opening", "carrier", "programmed", "picture", "presented", "black"}
<1>1. Head(script) = script[1]
  BY FirstStep
<1> QED
  BY <1>1 DEF Silent, Prologue, Paced, Opening, Carrier, Programmed, Picture, Presented, Black

\* What the pointer's steps make of it.
LEMMA ShotTypes ==
  ASSUME NEW shot \in Shots, NEW shape \in Shapes, NEW at \in Places \cup {Origin, Hidden}
  PROVE  /\ (IF shot = NoPointer THEN [shape |-> shape, at |-> Origin, visible |-> TRUE]
             ELSE [shot EXCEPT !.shape = shape]) \in Shots
         /\ (IF shot = NoPointer THEN shot ELSE Moved(shot, at)) \in Shots
<1>1. CASE shot = NoPointer
  BY <1>1 DEF Shots
<1>2. CASE shot # NoPointer
  <2>1. shot \in [shape : Shapes, at : Places \cup {Origin}, visible : BOOLEAN]
    BY <1>2 DEF Shots
  <2>2. [shot EXCEPT !.shape = shape] \in Shots
    BY <2>1 DEF Shots
  <2>3. Moved(shot, at) \in Shots
    BY <2>1 DEF Shots, Moved
  <2> QED
    BY <1>2, <2>2, <2>3
<1> QED
  BY <1>1, <1>2

\* The script, the counter and the replies of a session that advances.
LEMMA AdvancingTypes ==
  ASSUME Types, script # <<>>, Advances
  PROVE  script' \in Seq(Steps) /\ inner_counter' \in Counters /\ unread' \in Seq(ReplySet)
<1>1. script' \in Seq(Steps)
  <2>1. PICK steps : Advanced(steps)
    BY AdvancesScript
  <2> QED
    BY <2>1, AdvancedAt
<1>2. CASE Sending
  <2>1. PICK c \in Counters : SendMessage(c, None)
    BY <1>2, SendingSends
  <2> QED
    BY <1>1, <2>1, Sends
<1>3. CASE Silent
  BY <1>1, <1>3, SilentKeeps DEF Types, ReplySet
<1> QED
  BY <1>2, <1>3 DEF Advances, Sending, Silent

LEMMA AdvancesTypes ==
  ASSUME Types, script # <<>>, Advances, UNCHANGED <<profile, plugged>>
  PROVE  Types'
<1> DEFINE s == script[1]
           h == script[1].head
<1>1. Head(script) = s /\ s \in Steps
  BY FirstStep
<1>2. script' \in Seq(Steps) /\ inner_counter' \in Counters /\ unread' \in Seq([echo : Counters, status : Occupancy \cup {None}])
  BY AdvancingTypes DEF ReplySet
<1> DEFINE Rest ==
             /\ mode_active' \in [Heads -> BOOLEAN] /\ mode_restate_owed' \in [Heads -> BOOLEAN]
             /\ keyframe_owed' \in [Heads -> BOOLEAN]
             /\ video_seal_seq' \in [Heads -> Nat] /\ frame_seq' \in [Heads -> Nat]
             /\ cursor_shot' \in [Heads -> Shots] /\ pointer' \in [Heads -> Pointers]
             /\ sink' \in [Heads -> BOOLEAN] /\ sealed' \in [Heads -> Nat]
<1> SUFFICES Rest
  BY <1>2 DEF Types
<1>3. /\ mode_active \in [Heads -> BOOLEAN] /\ mode_restate_owed \in [Heads -> BOOLEAN]
      /\ keyframe_owed \in [Heads -> BOOLEAN]
      /\ video_seal_seq \in [Heads -> Nat] /\ frame_seq \in [Heads -> Nat]
      /\ cursor_shot \in [Heads -> Shots] /\ pointer \in [Heads -> Pointers]
      /\ sink \in [Heads -> BOOLEAN] /\ sealed \in [Heads -> Nat]
  BY DEF Types
<1>4. CASE Message
  BY <1>3, <1>4 DEF Message, hostVars, dockVars, streamVars
<1>5. CASE SinkMarker
  <2>1. h \in Heads /\ s.up \in BOOLEAN /\ sink' = [sink EXCEPT ![h] = s.up] /\ UNCHANGED <<hostVars, pointer, streamVars>>
    BY <1>1, <1>5, StepFields DEF SinkMarker
  <2> QED
    BY <1>3, <2>1 DEF hostVars, streamVars
<1>6. CASE SetMode
  <2>1. h \in Heads /\ pointer' = [pointer EXCEPT ![h] = NoPointer] /\ UNCHANGED <<hostVars, sink, streamVars>>
    BY <1>1, <1>6, StepFields DEF SetMode
  <2>2. NoPointer \in Pointers
    BY DEF NoPointer, Pointers
  <2> QED
    BY <1>3, <2>1, <2>2 DEF hostVars, streamVars
<1>7. CASE Prologue
  <2>1. h \in Heads
    BY <1>1, <1>7, StepFields DEF Prologue
  <2>2. PICK seal \in Seals : sealed' = [sealed EXCEPT ![h] = @ + seal.blocks] /\ video_seal_seq' = Spend(h, seal)
    BY <1>1, <1>7, <2>1, SealTypes DEF Prologue, DockUnseals
  <2>3. UNCHANGED <<mode_active, mode_restate_owed, keyframe_owed, frame_seq, cursor_shot, sink, pointer>>
    BY <1>7 DEF Prologue
  <2> QED
    BY <1>3, <2>1, <2>2, <2>3, SealTypes
<1>8. CASE Paced
  <2>1. /\ h \in Heads /\ mode_restate_owed' = [mode_restate_owed EXCEPT ![h] = TRUE] /\ frame_seq' = [frame_seq EXCEPT ![h] = 0]
        /\ UNCHANGED <<mode_active, keyframe_owed, video_seal_seq, cursor_shot, dockVars>>
    BY <1>1, <1>8, StepFields DEF Paced
  <2> QED
    BY <1>3, <2>1 DEF dockVars, streamVars
<1>9. CASE Opening
  <2>1. /\ h \in Heads /\ s.seal \in Seals /\ sealed' = [sealed EXCEPT ![h] = @ + s.seal.blocks]
        /\ UNCHANGED <<hostVars, sink, pointer>>
    BY <1>1, <1>9, StepFields DEF Opening, DockUnseals
  <2> QED
    BY <1>3, <2>1, SealTypes DEF hostVars
<1>10. CASE Carrier \/ Picture
  <2>1. h \in Heads /\ s.seq \in Nat
    BY <1>1, <1>10, StepFields DEF Carrier, Picture
  <2>2. /\ sealed' = [sealed EXCEPT ![h] = @ + FrameReport(h).blocks] /\ video_seal_seq' = Spend(h, FrameReport(h))
        /\ mode_restate_owed' = [mode_restate_owed EXCEPT ![h] = @ /\ ~Restates(h)]
        /\ frame_seq' \in {frame_seq, [frame_seq EXCEPT ![h] = s.seq]}
        /\ UNCHANGED <<mode_active, keyframe_owed, cursor_shot, sink, pointer>>
    BY <1>1, <1>10 DEF Carrier, Picture, SubmitReported, SubmitVideo, DockUnseals
  <2>3. sealed' \in [Heads -> Nat] /\ video_seal_seq' \in [Heads -> Nat]
    BY <2>1, <2>2, SealTypes
  <2>4. (mode_restate_owed[h] /\ ~Restates(h)) \in BOOLEAN
    OBVIOUS
  <2>5. mode_restate_owed' \in [Heads -> BOOLEAN]
    BY <1>3, <2>1, <2>2, <2>4, Zenon
  <2>6. frame_seq' \in [Heads -> Nat]
    BY <1>3, <2>1, <2>2
  <2> QED
    BY <1>3, <2>2, <2>3, <2>5, <2>6
<1>11. CASE Programmed
  <2>1. /\ h \in Heads /\ s.seq \in Nat /\ frame_seq' = [frame_seq EXCEPT ![h] = s.seq]
        /\ mode_active' = [mode_active EXCEPT ![h] = TRUE] /\ keyframe_owed' = [keyframe_owed EXCEPT ![h] = TRUE]
        /\ UNCHANGED <<mode_restate_owed, video_seal_seq, cursor_shot, dockVars>>
    BY <1>1, <1>11, StepFields DEF Programmed, FirstPictureSeq
  <2> QED
    BY <1>3, <2>1 DEF dockVars, streamVars
<1>12. CASE CursorImage
  <2> DEFINE t == IF cursor_shot[h] = NoPointer THEN [shape |-> s.shape, at |-> Origin, visible |-> TRUE]
                  ELSE [cursor_shot[h] EXCEPT !.shape = s.shape]
  <2>1. h \in Heads /\ s.shape \in Shapes
    BY <1>1, <1>12, StepFields DEF CursorImage
  <2>2. /\ pointer' = [pointer EXCEPT ![h].shape = s.shape] /\ cursor_shot' = [cursor_shot EXCEPT ![h] = t]
        /\ UNCHANGED <<mode_active, mode_restate_owed, keyframe_owed, video_seal_seq, frame_seq, sink, streamVars>>
    BY <1>1, <1>12 DEF CursorImage
  <2>3. t \in Shots
    BY <1>3, <2>1, ShotTypes
  <2>4. pointer' \in [Heads -> Pointers]
    BY <1>3, <2>1, <2>2, ZenonT(40) DEF Pointers
  <2> HIDE DEF t
  <2> QED
    BY <1>3, <2>1, <2>2, <2>3, <2>4 DEF streamVars
<1>13. CASE CursorMoves
  <2> DEFINE t == IF cursor_shot[h] = NoPointer THEN cursor_shot[h] ELSE Moved(cursor_shot[h], s.at)
  <2>1. h \in Heads /\ s.at \in Places \cup {Origin, Hidden}
    BY <1>1, <1>13, StepFields DEF CursorMoves
  <2>2. /\ pointer' = [pointer EXCEPT ![h].at = s.at] /\ cursor_shot' = [cursor_shot EXCEPT ![h] = t]
        /\ UNCHANGED <<mode_active, mode_restate_owed, keyframe_owed, video_seal_seq, frame_seq, sink, streamVars>>
    BY <1>1, <1>13 DEF CursorMoves
  <2>3. t \in Shots
    <3>1. CASE cursor_shot[h] = NoPointer
      BY <1>3, <2>1, <3>1
    <3>2. CASE cursor_shot[h] # NoPointer
      <4>1. PICK shape : shape \in Shapes
        BY <1>3, <2>1, <3>2 DEF Shots
      <4> QED
        BY <1>3, <2>1, <4>1, ShotTypes
    <3> QED
      BY <3>1, <3>2
  <2>4. pointer' \in [Heads -> Pointers]
    BY <1>3, <2>1, <2>2, ZenonT(40) DEF Pointers
  <2> HIDE DEF t
  <2> QED
    BY <1>3, <2>1, <2>2, <2>3, <2>4 DEF streamVars
<1>14. CASE Presented
  <2>1. /\ h \in Heads /\ s.n \in Nat /\ frame_seq' = [frame_seq EXCEPT ![h] = @ + s.n]
        /\ keyframe_owed' = [keyframe_owed EXCEPT ![h] = FALSE]
        /\ UNCHANGED <<mode_active, mode_restate_owed, video_seal_seq, cursor_shot, dockVars>>
    BY <1>1, <1>14, StepFields DEF Presented
  <2> QED
    BY <1>3, <2>1 DEF dockVars, streamVars
<1>15. CASE Black
  BY <1>3, <1>15 DEF Black, hostVars
<1> QED
  BY <1>4, <1>5, <1>6, <1>7, <1>8, <1>9, <1>10, <1>11, <1>12, <1>13, <1>14, <1>15 DEF Advances

LEMMA BeginModeScript ==
  ASSUME Types, script # <<>>, BeginMode
  PROVE  LET h == script[1].head IN
         /\ script[1].do = "begin" /\ h \in Heads /\ StreamPrefix(h) \in Seals /\ inner_counter \in Counters
         /\ \E q, p, o, r \in Nat : ModeScript(script', h, StreamPrefix(h), inner_counter, Tail(script), q, p, o, r)
         /\ video_seal_seq' = Spend(h, StreamPrefix(h)) /\ video_seal_seq' \in [Heads -> Nat]
         /\ UNCHANGED <<inner_counter, unread, mode_active, mode_restate_owed, keyframe_owed,
                        frame_seq, cursor_shot, answer, dockVars>>
<1> DEFINE h == script[1].head
           seal == StreamPrefix(h)
<1>1. Head(script) = script[1] /\ script[1] \in Steps /\ Tail(script) \in Seq(Steps) /\ inner_counter \in Counters
  BY FirstStep DEF Types
<1>2. script[1].do = "begin" /\ h \in Heads
  BY <1>1, StepFields DEF BeginMode
<1>3. seal \in Seals /\ Spend(h, seal) \in [Heads -> Nat]
  BY <1>2, SealTypes
<1>4. CarrierCounts \subseteq Nat
  BY ProfileFacts, SessionAssumption DEF CarrierCounts, Types
<1>5. PICK n \in CarrierCounts :
        script' = Bracket(h, seal, inner_counter) \o Closing(h) \o Carriers(h, n)
                  \o <<[do |-> "programmed", head |-> h, seq |-> n + 1]>> \o Tail(script)
  BY <1>1 DEF BeginMode
<1>6. /\ video_seal_seq' = Spend(h, seal)
      /\ UNCHANGED <<inner_counter, unread, mode_active, mode_restate_owed, keyframe_owed,
                     frame_seq, cursor_shot, answer, dockVars>>
  BY <1>1 DEF BeginMode
<1>7. n \in Nat
  BY <1>4
<1> HIDE DEF seal, h
<1>8. \E q, p, o, r \in Nat : ModeScript(script', h, seal, inner_counter, Tail(script), q, p, o, r)
  BY <1>1, <1>2, <1>3, <1>5, <1>7, ModeScripts
<1> QED
  BY <1>1, <1>2, <1>3, <1>6, <1>8 DEF seal, h

LEMMA BeginBlankScript ==
  ASSUME Types, script # <<>>, BeginBlank
  PROVE  LET h == script[1].head IN
         /\ script[1].do = "blank" /\ h \in Heads
         /\ \E b, d, r \in Nat : BlankScript(script', h, Tail(script), b, d, r)
         /\ keyframe_owed' = [keyframe_owed EXCEPT ![h] = TRUE] /\ mode_active' = [mode_active EXCEPT ![h] = FALSE]
         /\ UNCHANGED <<inner_counter, unread, mode_restate_owed, video_seal_seq, frame_seq,
                        cursor_shot, answer, dockVars>>
<1> DEFINE h == script[1].head
<1>1. Head(script) = script[1] /\ script[1] \in Steps /\ Tail(script) \in Seq(Steps)
  BY FirstStep
<1>2. script[1].do = "blank" /\ h \in Heads
  BY <1>1, StepFields DEF BeginBlank
<1>3. PICK black \in IF profile.held THEN {<<>>} ELSE BlackFrames(h) : script' = black \o BlankMarkers(h) \o Tail(script)
  BY <1>1 DEF BeginBlank
<1>4. /\ keyframe_owed' = [keyframe_owed EXCEPT ![h] = TRUE] /\ mode_active' = [mode_active EXCEPT ![h] = FALSE]
      /\ UNCHANGED <<inner_counter, unread, mode_restate_owed, video_seal_seq, frame_seq, cursor_shot, answer, dockVars>>
  BY <1>1 DEF BeginBlank
<1> HIDE DEF h
<1>5. \E b, d, r \in Nat : BlankScript(script', h, Tail(script), b, d, r)
  BY <1>1, <1>2, <1>3, BlankScripts
<1> QED
  BY <1>1, <1>2, <1>4, <1>5 DEF h

LEMMA BeginTypes ==
  ASSUME Types, script # <<>>, BeginMode \/ BeginBlank, UNCHANGED <<profile, plugged>>
  PROVE  Types'
<1>1. CASE BeginMode
  <2>1. script' \in Seq(Steps) /\ video_seal_seq' \in [Heads -> Nat]
    <3> DEFINE h == script[1].head
    <3>1. /\ h \in Heads /\ inner_counter \in Counters /\ video_seal_seq' \in [Heads -> Nat]
          /\ \E q, p, o, r \in Nat : ModeScript(script', h, StreamPrefix(h), inner_counter, Tail(script), q, p, o, r)
      BY <1>1, BeginModeScript
    <3> HIDE DEF h
    <3>2. PICK q, p, o, r \in Nat : ModeScript(script', h, StreamPrefix(h), inner_counter, Tail(script), q, p, o, r)
      BY <3>1
    <3>3. script' \in Seq(Steps)
      BY <3>2, Zenon DEF ModeScript
    <3> QED
      BY <3>1, <3>3
  <2>2. UNCHANGED <<inner_counter, unread, mode_active, mode_restate_owed, keyframe_owed,
                    frame_seq, cursor_shot, answer, dockVars>>
    BY <1>1 DEF BeginMode
  <2> QED
    BY <2>1, <2>2 DEF Types, dockVars, streamVars
<1>2. CASE BeginBlank
  <2>1. script' \in Seq(Steps)
    BY <1>2, BeginBlankScript DEF BlankScript
  <2>2. /\ keyframe_owed' \in [Heads -> BOOLEAN] /\ mode_active' \in [Heads -> BOOLEAN]
        /\ UNCHANGED <<inner_counter, unread, mode_restate_owed, video_seal_seq, frame_seq, cursor_shot, answer, dockVars>>
    BY <1>2, BeginBlankScript DEF Types
  <2> QED
    BY <2>1, <2>2 DEF Types, dockVars, streamVars
<1> QED
  BY <1>1, <1>2

LEMMA ProbeTypes ==
  ASSUME Types, script # <<>>, ProbeSend \/ ProbeRead \/ ProbeGivesUp, UNCHANGED <<profile, plugged>>
  PROVE  Types'
<1>1. /\ Head(script) = script[1] /\ script[1] \in Steps /\ Tail(script) \in Seq(Steps)
      /\ unread \in Seq(ReplySet) /\ script \in Seq(Steps)
  BY FirstStep DEF Types, ReplySet
<1>2. UNCHANGED <<hostVars, dockVars>>
  BY DEF ProbeSend, ProbeRead, ProbeGivesUp
<1>3. CASE ProbeSend
  <2> DEFINE h == script[1].head
             step == [do |-> "await", head |-> h, counter |-> inner_counter, truth |-> plugged[h]]
             rep == Reply(inner_counter, plugged[h])
  <2>1. h \in Heads /\ inner_counter \in Counters /\ plugged[h] \in Occupancy
    BY <1>1, <1>3, StepFields DEF ProbeSend, Types
  <2>2. step \in Steps /\ rep \in ReplySet
    BY <2>1, MadeSteps DEF Reply, ReplySet
  <2>3. script' = <<step>> /\ unread' = Append(unread, rep) /\ inner_counter' = Wrap(inner_counter + 1)
    BY <1>1, <1>3 DEF ProbeSend
  <2> HIDE DEF step, rep
  <2>4. script' \in Seq(Steps) /\ unread' \in Seq(ReplySet) /\ inner_counter' \in Counters
    BY <1>1, <2>1, <2>2, <2>3, Wraps
  <2> QED
    BY <1>2, <2>4 DEF Types, ReplySet, hostVars, dockVars, streamVars
<1>4. CASE ProbeRead
  <2>1. unread # <<>> /\ unread' = Tail(unread) /\ script' \in {script, Tail(script)} /\ inner_counter' = inner_counter
    BY <1>4 DEF ProbeRead
  <2>2. Len(unread) \in Nat /\ Len(unread) >= 1
    BY <1>1, <2>1
  <2>3. Tail(unread) \in Seq(ReplySet)
    BY <1>1, <2>2
  <2>4. script' \in Seq(Steps) /\ unread' \in Seq(ReplySet)
    BY <1>1, <2>1, <2>3
  <2> QED
    BY <1>2, <2>1, <2>4 DEF Types, ReplySet, hostVars, dockVars, streamVars
<1>5. CASE ProbeGivesUp
  <2>1. script' = Tail(script) /\ unread' = unread /\ inner_counter' = inner_counter
    BY <1>5 DEF ProbeGivesUp
  <2> QED
    BY <1>1, <1>2, <2>1 DEF Types, ReplySet, hostVars, dockVars, streamVars
<1> QED
  BY <1>3, <1>4, <1>5

LEMMA InitTypes == Init => Types
<1> SUFFICES ASSUME Init PROVE Types
  OBVIOUS
<1>1. NoPointer \in Shots /\ NoPointer \in Pointers /\ 0 \in Counters /\ 0 \in Nat /\ "occupied" \in Occupancy
  BY SessionAssumption DEF NoPointer, Shots, Pointers, Counters, Occupancy
<1>2. script \in Seq(Steps) /\ unread \in Seq([echo : Counters, status : Occupancy \cup {None}])
  BY DEF Init, Fresh
<1> QED
  BY <1>1, <1>2 DEF Types, Init, Fresh

LEMMA NextTypes ==
  ASSUME Types, [Next]_vars
  PROVE  Types'
<1>1. CASE RunStep
  <2>1. /\ script # <<>> /\ UNCHANGED <<profile, plugged>>
        /\ Advances \/ BeginMode \/ BeginBlank \/ ProbeSend \/ ProbeRead \/ ProbeGivesUp
    BY <1>1 DEF RunStep, Advances
  <2> QED
    BY <2>1, AdvancesTypes, BeginTypes, ProbeTypes
<1> QED
  BY <1>1, LostTypes, OutsideTypes DEF Next

-----------------------------------------------------------------------------
(***************************************************************************)
(* Probes.                                                                 *)
(***************************************************************************)
\* How many messages the counter n is past c.
Behind(n, c) == IF n >= c THEN n - c ELSE n - c + CounterMod

LEMMA Behinds ==
  ASSUME NEW n \in Counters, NEW c \in Counters
  PROVE  /\ Behind(n, c) \in Counters /\ Behind(n, n) = 0
         /\ Behind(n, c) + 1 < CounterMod => Behind(Wrap(n + 1), c) = Behind(n, c) + 1
<1>1. CounterMod \in Nat /\ CounterMod > 5
  BY SessionAssumption
<1>2. Wrap(n + 1) = (IF n + 1 = CounterMod THEN 0 ELSE n + 1)
  BY Wraps
<1> QED
  BY <1>1, <1>2 DEF Behind, Counters

\* The replies owed once a message is out, before any is read.
LEMMA QueueGrows ==
  ASSUME Types, ProbeInv, ~Awaiting, NEW c \in Counters, Behind(inner_counter, c) <= 4, NEW status,
         inner_counter' = Wrap(inner_counter + 1)
  PROVE  LET queue == Append(unread, Reply(c, status)) IN
         \A i \in 1 .. Len(unread) + 1 :
           Behind(inner_counter', queue[i].echo) \in Len(unread) - i + 2 .. Len(unread) - i + 6
<1> DEFINE queue == Append(unread, Reply(c, status))
           m == Len(unread)
<1>1. m \in Nat /\ (\A i \in 1 .. m : unread[i] \in ReplySet) /\ unread \in Seq(ReplySet)
  <2>1. unread \in Seq(ReplySet)
    BY DEF Types, ReplySet
  <2> QED
    BY <2>1, Members
<1>2. (\A i \in 1 .. m : queue[i] = unread[i]) /\ queue[m + 1] = Reply(c, status)
  BY <1>1
<1>3. inner_counter \in Counters /\ CounterMod \in Nat /\ MaxLag \in Nat /\ CounterMod > MaxLag + 5 /\ m <= MaxLag
  BY SessionAssumption DEF Types, ProbeInv
<1>4. ASSUME NEW d \in Counters, NEW low \in Nat, NEW high \in Nat, high <= MaxLag + 4,
             Behind(inner_counter, d) \in low .. high
      PROVE  Behind(inner_counter', d) \in low + 1 .. high + 1
  <2> DEFINE a == Behind(inner_counter, d)
  <2>1. a \in Nat /\ a + 1 < CounterMod
    BY <1>3, <1>4
  <2>2. Behind(inner_counter', d) = a + 1
    BY <1>3, <2>1, Behinds
  <2> HIDE DEF a
  <2>3. a \in low .. high
    BY <1>4 DEF a
  <2> QED
    BY <2>1, <2>2, <2>3
<1>5. ASSUME NEW i \in 1 .. m
      PROVE  Behind(inner_counter', queue[i].echo) \in m - i + 2 .. m - i + 6
  <2> DEFINE d == unread[i].echo
  <2>1. d \in Counters /\ queue[i].echo = d
    BY <1>1, <1>2 DEF ReplySet
  <2>2. Behind(inner_counter, d) \in m - i + 1 .. m - i + 5
    BY DEF ProbeInv, Ago, Behind
  <2>3. m - i + 1 \in Nat /\ m - i + 5 \in Nat /\ m - i + 5 <= MaxLag + 4 /\ (m - i + 1) + 1 = m - i + 2 /\ (m - i + 5) + 1 = m - i + 6
    BY <1>1, <1>3
  <2> HIDE DEF d
  <2>4. Behind(inner_counter', d) \in (m - i + 1) + 1 .. (m - i + 5) + 1
    BY <1>4, <2>1, <2>2, <2>3
  <2> QED
    BY <2>1, <2>3, <2>4
<1>6. Behind(inner_counter', queue[m + 1].echo) \in m - (m + 1) + 2 .. m - (m + 1) + 6
  <2>1. queue[m + 1].echo = c
    BY <1>2 DEF Reply
  <2>2. Behind(inner_counter, c) \in 0 .. 4
    <3>1. Behind(inner_counter, c) \in Counters
      BY <1>3, Behinds
    <3> QED
      BY <1>3, <3>1 DEF Counters
  <2>3. 0 \in Nat /\ 4 \in Nat /\ 4 <= MaxLag + 4
    BY <1>3
  <2>4. Behind(inner_counter', c) \in 0 + 1 .. 4 + 1
    BY <1>4, <2>2, <2>3
  <2>5. m - (m + 1) + 2 = 1 /\ m - (m + 1) + 6 = 5
    BY <1>1
  <2> QED
    BY <2>1, <2>4, <2>5
<1> HIDE DEF queue
<1>7. \A i \in 1 .. m + 1 : i \in 1 .. m \/ i = m + 1
  BY <1>1
<1>8. \A i \in 1 .. m + 1 : Behind(inner_counter', queue[i].echo) \in m - i + 2 .. m - i + 6
  BY <1>5, <1>6, <1>7
<1> QED
  BY <1>8 DEF queue

LEMMA SendingProbe ==
  ASSUME Types, ProbeInv, script # <<>>, Sending
  PROVE  ProbeInv'
<1> DEFINE m == Len(unread)
<1>1. PICK c \in Counters : /\ SendMessage(c, None)
                            /\ c = IF script[1].do = "set_mode" THEN script[1].counter ELSE inner_counter
  BY SendingSends
<1>2. /\ answer' = answer /\ script[1].do \in {"message", "sink", "set_mode", "image", "move"}
      /\ inner_counter \in Counters /\ inner_counter' = Wrap(inner_counter + 1) /\ Len(script) \in Nat /\ Len(script) >= 1
  BY <1>1, SendingSends, FirstStep DEF Types, SendMessage
<1>3. ~Awaiting
  BY <1>2 DEF Awaiting
<1>4. Behind(inner_counter, c) <= 4
  <2>1. CASE script[1].do = "set_mode"
    <3>1. 1 \in Indices /\ c = script[1].counter
      BY <1>1, <2>1, ScriptSteps
    <3>3. Ago(script[1].counter) + 1 <= 5
      BY <2>1, <3>1 DEF ProbeInv, Does
    <3>4. Behind(inner_counter, c) + 1 <= 5
      BY <3>1, <3>3 DEF Ago, Behind
    <3>2. Behind(inner_counter, c) \in Int
      BY <1>2, Behinds DEF Counters
    <3> QED
      BY <3>2, <3>4
  <2>2. CASE script[1].do # "set_mode"
    BY <1>1, <1>2, <2>2, Behinds
  <2> QED
    BY <2>1, <2>2
<1> DEFINE queue == Append(unread, Reply(c, None))
<1>5. /\ m \in Nat /\ m <= MaxLag
      /\ \/ unread' = queue /\ Len(queue) <= MaxLag /\ Len(queue) = m + 1
         \/ /\ Len(unread') = m
            /\ \A i \in 1 .. Len(unread') : unread'[i] = queue[i + 1]
  <2>1. None \in Occupancy \cup {None}
    OBVIOUS
  <2>2. LET qu == Append(unread, Reply(c, None)) IN
         /\ Len(qu) = Len(unread) + 1 /\ Len(unread) \in Nat
         /\ \/ unread' = qu /\ Len(qu) <= MaxLag
            \/ Len(unread') = Len(unread) /\ \A i \in 1 .. Len(unread') : unread'[i] = qu[i + 1]
    BY <1>1, <2>1, Sends
  <2> QED
    BY <1>3, <2>2 DEF ProbeInv
<1>6. \A i \in 1 .. m + 1 : Behind(inner_counter', queue[i].echo) \in m - i + 2 .. m - i + 6
  BY <1>2, <1>3, <1>4, QueueGrows
<1> HIDE DEF queue
<1>7. /\ \A i \in 1 .. Len(unread') : Behind(inner_counter', unread'[i].echo) \in Len(unread') - i + 1 .. Len(unread') - i + 5
      /\ Len(unread') <= MaxLag
  <2>1. CASE unread' = queue /\ Len(queue) <= MaxLag /\ Len(queue) = m + 1
    <3>1. \A i \in 1 .. m + 1 : (m + 1) - i + 1 = m - i + 2 /\ (m + 1) - i + 5 = m - i + 6
      BY <1>5
    <3> QED
      BY <1>6, <2>1, <3>1
  <2>2. CASE Len(unread') = m /\ \A i \in 1 .. Len(unread') : unread'[i] = queue[i + 1]
    <3>1. \A i \in 1 .. m : i + 1 \in 1 .. m + 1 /\ m - (i + 1) + 2 = m - i + 1 /\ m - (i + 1) + 6 = m - i + 5
      BY <1>5
    <3>2. \A i \in 1 .. m : Behind(inner_counter', queue[i + 1].echo) \in m - (i + 1) + 2 .. m - (i + 1) + 6
      BY <1>6, <3>1
    <3>3. \A i \in 1 .. m : Behind(inner_counter', queue[i + 1].echo) \in m - i + 1 .. m - i + 5
      BY <3>1, <3>2
    <3> QED
      BY <1>5, <2>2, <3>3
  <2> QED
    BY <1>5, <2>1, <2>2
<1>8. /\ Len(script') = Len(script) - 1
      /\ \A i \in 1 .. Len(script') : script'[i] = script[i + 1] /\ i + 1 \in Indices /\ i + 1 # 1
  <2>1. script' = Tail(script)
    BY DEF Sending, Message, SinkMarker, SetMode, CursorImage, CursorMoves
  <2>2. Len(Tail(script)) = Len(script) - 1 /\ \A i \in 1 .. Len(script) - 1 : Tail(script)[i] = script[i + 1]
    BY FirstStep
  <2>3. \A i \in 1 .. Len(script) - 1 : i + 1 \in Indices /\ i + 1 # 1
    BY <1>2 DEF Indices
  <2> QED
    BY <2>1, <2>2, <2>3
<1>9. \A i \in Indices' : script'[i].do # "await"
  BY <1>8 DEF Indices, ProbeInv, Does
<1>10. ~Awaiting'
  <2>1. script' # <<>> => 1 \in Indices'
    <3>1. script' \in Seq(Steps)
      BY AdvancingTypes DEF Advances, Sending
    <3> QED
      BY <3>1 DEF Indices
  <2> QED
    BY <1>9, <2>1 DEF Awaiting
<1>11. ASSUME NEW i \in Indices', script'[i].do = "set_mode"
       PROVE  /\ Behind(inner_counter', script'[i].counter) + i <= 5
              /\ \A j \in 1 .. i - 1 : script'[j].do \in {"message", "sink"}
  <2> DEFINE d == script[i + 1].counter
             a == Behind(inner_counter, d)
  <2>1. script'[i] = script[i + 1] /\ i + 1 \in Indices /\ i \in Nat /\ i >= 1 /\ i <= Len(script')
    BY <1>2, <1>8, <1>11 DEF Indices
  <2>2. a + (i + 1) <= 5 /\ \A j \in 1 .. (i + 1) - 1 : script[j].do \in {"message", "sink"}
    BY <1>11, <2>1 DEF ProbeInv, Does, Ago, Behind
  <2>3. script \in Seq(Steps)
    BY DEF Types
  <2>4. d \in Counters
    <3>1. script[i + 1] \in Steps
      BY <2>1, <2>3 DEF Indices
    <3> QED
      BY <1>11, <2>1, <3>1, StepFields
  <2>5. a \in Nat /\ CounterMod \in Nat /\ CounterMod > 5
    <3>1. inner_counter \in Counters
      BY <1>2, Zenon
    <3>2. a \in Counters
      BY <2>4, <3>1, Behinds, Zenon
    <3>3. CounterMod \in Nat /\ CounterMod > 5
      BY SessionAssumption
    <3> HIDE DEF a
    <3> QED
      BY <3>2, <3>3 DEF Counters
  <2>6. a + 1 < CounterMod
    BY <2>1, <2>2, <2>5
  <2>7. Behind(inner_counter', d) = a + 1
    BY <1>2, <2>4, <2>6, Behinds
  <2> HIDE DEF a, d
  <2>8. (a + 1) + i <= 5
    BY <2>1, <2>2, <2>5
  <2>9. \A j \in 1 .. i - 1 : j + 1 \in 1 .. (i + 1) - 1 /\ j \in 1 .. Len(script')
    BY <1>2, <1>8, <2>1
  <2>10. \A j \in 1 .. i - 1 : script'[j].do \in {"message", "sink"}
    BY <1>8, <2>2, <2>9
  <2> QED
    BY <2>1, <2>7, <2>8, <2>10 DEF d
<1> QED
  BY <1>2, <1>7, <1>9, <1>10, <1>11 DEF ProbeInv, Ago, Behind, Does

\* Behind a first step that is no message nothing waits, and no timing is due.
LEMMA NothingWaits ==
  ASSUME Types, ProbeInv, script # <<>>, script[1].do \notin {"message", "sink"}
  PROVE  \A i \in 2 .. Len(script) : script[i].do \notin {"await", "set_mode"}
<1>1. Len(script) \in Nat /\ Len(script) >= 1
  BY FirstStep
<1> SUFFICES ASSUME NEW i \in 2 .. Len(script), script[i].do \in {"await", "set_mode"}
             PROVE  FALSE
  OBVIOUS
<1>2. i \in Indices /\ i # 1 /\ 1 \in 1 .. i - 1
  BY <1>1 DEF Indices
<1> QED
  BY <1>2 DEF ProbeInv, Does

\* A script with nothing to wait for, and no timing but one the counter is at.
LEMMA QuietScript ==
  ASSUME Types, Types', ProbeInv, ~Awaiting \/ Len(unread) <= MaxLag, UNCHANGED <<inner_counter, unread>>,
         answer' = answer \/ answer' = NoAnswer,
         \A i \in Indices' : script'[i].do # "await",
         \A i \in Indices' : script'[i].do = "set_mode" =>
           /\ Behind(inner_counter, script'[i].counter) + i <= 5
           /\ \A j \in 1 .. i - 1 : script'[j].do \in {"message", "sink"}
  PROVE  ProbeInv'
<1>1. script' # <<>> => 1 \in Indices'
  BY ScriptStepsPrimed
<1>2. ~Awaiting'
  BY <1>1 DEF Awaiting
<1>3. Len(unread) <= MaxLag
  BY DEF ProbeInv
<1>4. answer'.said = answer'.truth
  BY DEF ProbeInv, NoAnswer
<1>5. \A i \in 1 .. Len(unread') : Behind(inner_counter', unread'[i].echo) \in Len(unread') - i + 1 .. Len(unread') - i + 5
  BY DEF ProbeInv, Ago, Behind
<1> QED
  BY <1>2, <1>3, <1>4, <1>5 DEF ProbeInv, Ago, Behind, Does

LEMMA SilentProbe ==
  ASSUME Types, Types', ProbeInv, script # <<>>, Silent
  PROVE  ProbeInv'
<1>1. /\ UNCHANGED <<inner_counter, unread, answer>>
      /\ script[1].do \in {"prologue", "paced", "opening", "carrier", "programmed", "picture", "presented", "black"}
  BY SilentKeeps
<1>2. PICK steps : Advanced(steps)
  BY AdvancesScript DEF Advances, Silent
<1> DEFINE k == Len(steps)
<1>3. /\ k \in Nat /\ Len(script') = k + Len(script) - 1 /\ Len(script) \in Nat
      /\ \A i \in 1 .. k : script'[i] = steps[i] /\ steps[i].do \in {"message", "image", "move"}
      /\ \A i \in k + 1 .. Len(script') : script'[i] = script[i - k + 1] /\ i - k + 1 \in 2 .. Len(script)
  BY <1>2, AdvancedAt
<1>4. \A i \in Indices' : i \in 1 .. k \/ i \in k + 1 .. Len(script')
  BY <1>3 DEF Indices
<1>5. \A i \in Indices' : script'[i].do \notin {"await", "set_mode"}
  BY <1>1, <1>3, <1>4, NothingWaits
<1> QED
  BY <1>1, <1>5, QuietScript DEF Awaiting

LEMMA BeginProbe ==
  ASSUME Types, Types', ProbeInv, script # <<>>, BeginMode \/ BeginBlank
  PROVE  ProbeInv'
<1> DEFINE rest == Tail(script)
           h == script[1].head
<1>1. /\ script[1].do \in {"begin", "blank"} /\ UNCHANGED <<inner_counter, unread, answer>>
      /\ inner_counter \in Counters
  BY BeginModeScript, BeginBlankScript DEF Types
<1>2. \A i \in 1 .. Len(rest) : rest[i].do \notin {"await", "set_mode"}
  <2>1. /\ Len(rest) = Len(script) - 1 /\ Len(script) \in Nat
        /\ \A i \in 1 .. Len(script) - 1 : rest[i] = script[i + 1]
    BY FirstStep
  <2>2. \A i \in 1 .. Len(rest) : i + 1 \in 2 .. Len(script)
    BY <2>1
  <2> QED
    BY <1>1, <2>1, <2>2, NothingWaits
<1>3. CASE BeginMode
  <2>1. PICK q, p, o, r \in Nat : ModeKinds(script', h, StreamPrefix(h), inner_counter, rest, q, p, o, r)
    <3>1. PICK q, p, o, r \in Nat : ModeScript(script', h, StreamPrefix(h), inner_counter, rest, q, p, o, r)
      BY <1>3, BeginModeScript, Zenon
    <3>2. ModeKinds(script', h, StreamPrefix(h), inner_counter, rest, q, p, o, r)
      BY <3>1, ModeScriptAt, Zenon
    <3> QED
      BY <3>2
  <2>2. h \in Heads /\ Len(rest) \in Nat
    <3>1. h \in Heads
      BY <1>3, BeginModeScript, Zenon
    <3>2. Len(rest) = Len(script) - 1 /\ Len(script) \in Nat /\ Len(script) >= 1
      BY FirstStep, Zenon
    <3> QED
      BY <3>1, <3>2
  <2> HIDE DEF h, rest
  <2>0. q \in 1 .. 5 /\ q < p /\ p < o /\ o < r /\ Len(script') = r + Len(rest)
    BY <2>1 DEF ModeKinds
  <2>3. script'[q].do = "set_mode" /\ script'[q].counter = inner_counter
    BY <2>1 DEF ModeKinds
  <2>4. /\ \A i \in 1 .. q - 1 : script'[i].do \in {"message", "sink"}
        /\ \A i \in q + 1 .. o - 1 : script'[i].do \in {"message", "sink", "prologue", "paced"}
        /\ \A i \in o + 1 .. r - 1 : script'[i].do \in {"message", "sink", "carrier"}
        /\ script'[o].do = "opening" /\ script'[r].do = "programmed"
        /\ \A i \in r + 1 .. Len(script') : script'[i] = rest[i - r]
    BY <2>1 DEF ModeKinds
  <2>5. \A i \in Indices' : \/ i \in 1 .. q - 1 \/ i = q \/ i \in q + 1 .. o - 1 \/ i = o \/ i \in o + 1 .. r - 1
                            \/ i = r \/ (i \in r + 1 .. Len(script') /\ i - r \in 1 .. Len(rest))
    BY <2>0, <2>2 DEF Indices
  <2>6. \A i \in Indices' : script'[i].do # "await" /\ (script'[i].do = "set_mode" => i = q)
    BY <1>2, <2>3, <2>4, <2>5
  <2>7. Behind(inner_counter, inner_counter) + q <= 5
    BY <1>1, <2>0, Behinds
  <2> QED
    BY <1>1, <2>3, <2>4, <2>6, <2>7, QuietScript DEF Awaiting
<1>4. CASE BeginBlank
  <2>1. PICK b, d, r \in Nat : BlankScript(script', h, rest, b, d, r)
    BY <1>4, BeginBlankScript
  <2>2. /\ Len(script') = r + Len(rest) /\ Len(rest) \in Nat
        /\ \A i \in 1 .. b : script'[i].do = "black"
        /\ \A i \in b + 1 .. r : script'[i].do \in {"message", "sink"}
        /\ \A i \in r + 1 .. Len(script') : script'[i] = rest[i - r]
    BY <2>1, FirstStep DEF BlankScript, AheadSteps
  <2>3. \A i \in Indices' : \/ i \in 1 .. b \/ i \in b + 1 .. r
                            \/ (i \in r + 1 .. Len(script') /\ i - r \in 1 .. Len(rest))
    BY <2>2 DEF Indices
  <2>4. \A i \in Indices' : script'[i].do \notin {"await", "set_mode"}
    BY <1>2, <2>2, <2>3
  <2> QED
    BY <1>1, <2>4, QuietScript DEF Awaiting
<1> QED
  BY <1>3, <1>4

LEMMA SentProbe ==
  ASSUME Types, Types', ProbeInv, script # <<>>, ProbeSend
  PROVE  ProbeInv'
<1> DEFINE h == script[1].head
           step == [do |-> "await", head |-> h, counter |-> inner_counter, truth |-> plugged[h]]
           queue == Append(unread, Reply(inner_counter, plugged[h]))
           m == Len(unread)
<1>1. Head(script) = script[1] /\ script[1].do = "probe"
  BY FirstStep DEF ProbeSend
<1>2. /\ script' = <<step>> /\ unread' = queue /\ inner_counter' = Wrap(inner_counter + 1) /\ answer' = answer
  BY <1>1 DEF ProbeSend
<1>3. ~Awaiting
  BY <1>1 DEF Awaiting
<1>4. inner_counter \in Counters /\ m \in Nat /\ m <= MaxLag /\ unread \in Seq(ReplySet) /\ MaxLag \in Nat /\ CounterMod > 5
      /\ CounterMod \in Nat
  <2>1. unread \in Seq(ReplySet) /\ inner_counter \in Counters
    BY DEF Types, ReplySet
  <2>2. m <= MaxLag
    BY <1>3 DEF ProbeInv
  <2> QED
    BY <2>1, <2>2, SessionAssumption
<1>5. Behind(inner_counter, inner_counter) = 0
  BY <1>4, Behinds
<1>6. \A i \in 1 .. m + 1 : Behind(inner_counter', queue[i].echo) \in m - i + 2 .. m - i + 6
  <2>1. Behind(inner_counter, inner_counter) <= 4
    BY <1>5
  <2> QED
    BY <1>2, <1>3, <1>4, <2>1, QueueGrows, Zenon
<1>7. Behind(inner_counter', inner_counter) = 1
  <2>1. Behind(inner_counter, inner_counter) + 1 < CounterMod
    BY <1>4, <1>5
  <2> QED
    BY <1>2, <1>4, <1>5, <2>1, Behinds
<1>8. Len(queue) = m + 1 /\ queue[m + 1] = Reply(inner_counter, plugged[h])
  BY <1>4
<1>9. /\ script' # <<>> /\ Len(script') = 1 /\ script'[1] = step /\ step.do = "await"
      /\ step.counter = inner_counter /\ step.truth = plugged[h]
  BY <1>2
<1> HIDE DEF queue, step
<1>10. Awaiting' /\ \A i \in Indices' : i = 1
  BY <1>9 DEF Awaiting, Indices
<1>11. \A i \in 1 .. Len(unread') : Behind(inner_counter', unread'[i].echo) \in Len(unread') - i + 1 .. Len(unread') - i + 5
  <2>1. \A i \in 1 .. m + 1 : (m + 1) - i + 1 = m - i + 2 /\ (m + 1) - i + 5 = m - i + 6
    BY <1>4
  <2> QED
    BY <1>2, <1>6, <1>8, <2>1
<1>12. Len(unread') <= MaxLag + 1 /\ unread'[Len(unread')] = Reply(script'[1].counter, script'[1].truth)
  BY <1>2, <1>4, <1>8, <1>9
<1>13. answer'.said = answer'.truth /\ Behind(inner_counter', script'[1].counter) = 1
  BY <1>2, <1>7, <1>9 DEF ProbeInv
<1> QED
  BY <1>9, <1>10, <1>11, <1>12, <1>13 DEF ProbeInv, Ago, Behind, Does

LEMMA ReadProbe ==
  ASSUME Types, Types', ProbeInv, script # <<>>, ProbeRead \/ ProbeGivesUp
  PROVE  ProbeInv'
<1> DEFINE s == script[1]
           m == Len(unread)
<1>1. /\ Head(script) = s /\ s.do = "await" /\ Awaiting /\ Len(script) \in Nat /\ Len(script) >= 1
      /\ Len(Tail(script)) = Len(script) - 1 /\ \A i \in 1 .. Len(script) - 1 : Tail(script)[i] = script[i + 1]
  BY FirstStep DEF ProbeRead, ProbeGivesUp, Awaiting
<1>2. ASSUME script' = Tail(script)
      PROVE  \A i \in Indices' : script'[i].do \notin {"await", "set_mode"}
  <2>1. \A i \in Indices' : script'[i] = script[i + 1] /\ i + 1 \in 2 .. Len(script)
    BY <1>1, <1>2 DEF Indices
  <2> QED
    BY <1>1, <2>1, NothingWaits
<1>3. CASE ProbeGivesUp
  BY <1>2, <1>3, QuietScript DEF ProbeGivesUp
<1>4. CASE ProbeRead
  <2>1. unread # <<>> /\ unread' = Tail(unread) /\ inner_counter' = inner_counter
    BY <1>4 DEF ProbeRead
  <2>2. /\ m \in Nat /\ m >= 1 /\ Head(unread) = unread[1] /\ Len(unread') = m - 1
        /\ \A i \in 1 .. m - 1 : unread'[i] = unread[i + 1]
    <3>1. unread \in Seq(ReplySet)
      BY DEF Types, ReplySet
    <3>2. m \in Nat /\ m >= 1
      BY <2>1, <3>1
    <3> QED
      BY <2>1, <3>1, <3>2
  <2>3. \A i \in 1 .. m : Behind(inner_counter, unread[i].echo) \in m - i + 1 .. m - i + 5
    BY DEF ProbeInv, Ago, Behind
  <2>4. m <= MaxLag + 1 /\ Behind(inner_counter, s.counter) = 1 /\ unread[m] = Reply(s.counter, s.truth)
    BY <1>1, <2>1 DEF ProbeInv, Ago, Behind
  <2>5. \A i \in 1 .. Len(unread') : Behind(inner_counter', unread'[i].echo) \in Len(unread') - i + 1 .. Len(unread') - i + 5
    <3>1. \A i \in 1 .. m - 1 : i + 1 \in 1 .. m /\ m - (i + 1) + 1 = (m - 1) - i + 1 /\ m - (i + 1) + 5 = (m - 1) - i + 5
      BY <2>2
    <3>2. \A i \in 1 .. m - 1 : Behind(inner_counter, unread[i + 1].echo) \in m - (i + 1) + 1 .. m - (i + 1) + 5
      BY <2>3, <3>1
    <3>3. \A i \in 1 .. m - 1 : Behind(inner_counter, unread[i + 1].echo) \in (m - 1) - i + 1 .. (m - 1) - i + 5
      BY <3>1, <3>2
    <3> QED
      BY <2>1, <2>2, <3>3
  <2>6. MaxLag \in Nat /\ Len(unread') <= MaxLag
    BY <2>2, <2>4, SessionAssumption
  <2>7. CASE m = 1
    <3>1. Answers(Head(unread), s) /\ Head(unread).status = s.truth
      BY <2>2, <2>4, <2>7 DEF Answers, Reply
    <3>2. answer' = [said |-> s.truth, truth |-> s.truth] /\ script' = Tail(script)
      BY <1>1, <1>4, <3>1 DEF ProbeRead
    <3>3. \A i \in Indices' : script'[i].do \notin {"await", "set_mode"}
      BY <1>2, <3>2
    <3>4. ~Awaiting'
      <4>1. script' # <<>> => 1 \in Indices'
        BY DEF Types, Indices
      <4> QED
        BY <3>3, <4>1 DEF Awaiting
    <3>5. answer'.said = answer'.truth
      BY <3>2
    <3> QED
      BY <2>5, <2>6, <3>3, <3>4, <3>5 DEF ProbeInv, Ago, Behind, Does
  <2>8. CASE m # 1
    <3>1. 1 \in 1 .. m /\ m \in 1 .. m /\ m - 1 >= 1 /\ m - 1 + 1 >= 2 /\ m - 1 \in 1 .. m - 1 /\ (m - 1) + 1 = m
      BY <2>2, <2>8
    <3>2. Behind(inner_counter, unread[1].echo) \in m - 1 + 1 .. m - 1 + 5
      BY <2>3, <3>1
    <3>3. Behind(inner_counter, unread[1].echo) # 1
      BY <2>2, <3>1, <3>2
    <3>4. ~Answers(Head(unread), s)
      BY <2>2, <2>4, <3>3 DEF Answers
    <3>5. answer' = answer /\ script' = script
      BY <1>1, <1>4, <3>4 DEF ProbeRead
    <3>6. unread'[Len(unread')] = unread[m]
      <4>1. unread'[m - 1] = unread[(m - 1) + 1]
        BY <2>2, <3>1
      <4> QED
        BY <2>2, <3>1, <4>1
    <3>7. Awaiting' /\ Len(unread') <= MaxLag + 1
      BY <1>1, <2>2, <2>6, <3>5 DEF Awaiting
    <3> QED
      BY <2>1, <2>4, <2>5, <3>5, <3>6, <3>7 DEF ProbeInv, Ago, Behind, Does, Indices
  <2> QED
    BY <2>7, <2>8
<1> QED
  BY <1>3, <1>4

LEMMA NextProbe ==
  ASSUME Types, Types', ProbeInv, [Next]_vars
  PROVE  ProbeInv'
<1>1. CASE RunStep
  <2>1. /\ script # <<>>
        /\ Sending \/ Silent \/ BeginMode \/ BeginBlank \/ ProbeSend \/ ProbeRead \/ ProbeGivesUp
    BY <1>1 DEF RunStep, Sending, Silent
  <2> QED
    BY <2>1, SendingProbe, SilentProbe, BeginProbe, SentProbe, ReadProbe
<1>2. CASE LoseSession
  <2>1. script' = <<>> /\ unread' = <<>> /\ answer' = NoAnswer
    BY <1>2 DEF LoseSession
  <2>2. answer'.said = answer'.truth /\ Len(unread') = 0 /\ Len(script') = 0 /\ ~Awaiting' /\ MaxLag \in Nat
    BY <2>1, SessionAssumption DEF NoAnswer, Awaiting
  <2> QED
    BY <2>2 DEF ProbeInv, Indices
<1>3. CASE Request /\ ~DdcciFails
  <2>1. /\ script = <<>> /\ UNCHANGED <<inner_counter, unread, answer>>
        /\ \A i \in 1 .. Len(script') :
             script'[i].do \in {"begin", "blank", "picture", "presented", "message", "image", "move", "probe"}
    BY <1>3, RequestScript DEF AskedScript
  <2>2. \A i \in Indices' : script'[i].do \notin {"await", "set_mode"}
    BY <2>1 DEF Indices
  <2> QED
    BY <2>1, <2>2, QuietScript DEF Awaiting
<1>4. CASE PlugChanges \/ DdcciFails \/ Done \/ UNCHANGED vars
  <2>1. UNCHANGED <<script, inner_counter, unread, answer>>
    BY <1>4 DEF PlugChanges, DdcciFails, Done, vars
  <2> QED
    BY <2>1 DEF ProbeInv, Awaiting, Ago, Does, Indices
<1> QED
  BY <1>1, <1>2, <1>3, <1>4 DEF Next

-----------------------------------------------------------------------------
(***************************************************************************)
(* Sealed records.                                                         *)
(***************************************************************************)
\* No opening is due, and the dock has seen what was sealed.
InStep == video_seal_seq = sealed /\ \A i \in Indices : script[i].do # "opening"

LEMMA NoneIsDue ==
  ASSUME Types, SealInv, script = <<>> \/ script[1].do \notin Leading \cup {"opening"}
  PROVE  ~skewed /\ InStep
<1>1. ASSUME NEW p \in Indices, OpeningAt(p) PROVE FALSE
  <2>1. script # <<>> /\ p \in Nat /\ p >= 1
    BY <1>1 DEF Indices, Types
  <2>2. CASE p = 1
    BY <1>1, <2>1, <2>2 DEF OpeningAt
  <2>3. CASE p # 1
    <3>1. 1 \in 1 .. p - 1
      BY <2>1, <2>3
    <3> QED
      BY <1>1, <2>1, <3>1 DEF OpeningAt, Does
  <2> QED
    BY <2>2, <2>3
<1> QED
  BY <1>1 DEF SealInv, InStep, Does

\* A script that has moved on past a step that was no opening.
LEMMA StillNone ==
  ASSUME Types, script # <<>>, \A i \in Indices : i # 1 => script[i].do # "opening", NEW steps, Advanced(steps)
  PROVE  \A i \in Indices' : script'[i].do # "opening"
<1> DEFINE k == Len(steps)
<1>1. /\ k \in Nat /\ Len(script') = k + Len(script) - 1 /\ Len(script) \in Nat
      /\ \A i \in 1 .. k : script'[i] = steps[i] /\ steps[i].do \in {"message", "image", "move"}
      /\ \A i \in k + 1 .. Len(script') : script'[i] = script[i - k + 1] /\ i - k + 1 \in 2 .. Len(script)
  BY AdvancedAt
<1>2. \A i \in Indices' : i \in 1 .. k \/ (i \in k + 1 .. Len(script') /\ i - k + 1 \in Indices /\ i - k + 1 # 1)
  BY <1>1 DEF Indices
<1> QED
  BY <1>1, <1>2

\* The opening comes one step nearer.
LEMMA StillDue ==
  ASSUME Types, SealInv, script # <<>>, NEW p \in Indices, OpeningAt(p), script[1].do # "opening",
         NEW steps, Advanced(steps)
  PROVE  /\ script[1].do \in Leading /\ (script[1].do = "prologue" => script[p].seal.blocks = 0)
         /\ p - 1 \in Indices' /\ script'[p - 1] = script[p] /\ script[p].do = "opening" /\ script[p].head \in Heads
         /\ script[p].seal \in Seals
         /\ \A j \in 1 .. (p - 1) - 1 :
              script'[j].do \in Leading /\ (script'[j].do = "prologue" => script[p].seal.blocks = 0)
         /\ \A j \in (p - 1) + 1 .. Len(script') : script'[j].do # "opening"
<1>1. p \in Nat /\ p > 1 /\ p <= Len(script) /\ 1 \in 1 .. p - 1 /\ Len(script) \in Nat
  <2>1. p \in Nat /\ p >= 1 /\ p <= Len(script) /\ Len(script) \in Nat
    BY FirstStep DEF Indices
  <2> QED
    BY <2>1 DEF OpeningAt
<1>2. script[1].do \in Leading /\ (script[1].do = "prologue" => script[p].seal.blocks = 0) /\ script[p].do = "opening"
  BY <1>1 DEF OpeningAt, Does
<1>3. steps = <<>>
  BY <1>2 DEF Advanced, Leading
<1>4. /\ Len(script') = Len(script) - 1
      /\ \A i \in 1 .. Len(script') : script'[i] = script[i + 1]
  <2>1. /\ Len(script') = Len(steps) + Len(script) - 1
        /\ \A i \in Len(steps) + 1 .. Len(script') : script'[i] = script[i - Len(steps) + 1]
    BY AdvancedAt
  <2>2. Len(steps) = 0
    BY <1>3
  <2> QED
    BY <1>1, <2>1, <2>2
<1>5. script[p] \in Steps
  <2>1. script \in Seq(Steps)
    BY DEF Types
  <2> QED
    BY <2>1, Members DEF Indices
<1>6. p - 1 \in 1 .. Len(script') /\ (p - 1) + 1 = p
  BY <1>1, <1>4
<1>7. /\ \A j \in 1 .. (p - 1) - 1 : j \in 1 .. Len(script') /\ j + 1 \in 1 .. p - 1
      /\ \A j \in (p - 1) + 1 .. Len(script') : j \in 1 .. Len(script') /\ j + 1 \in p + 1 .. Len(script)
  BY <1>1, <1>4
<1>8. script'[p - 1] = script[p] /\ script[p].head \in Heads /\ script[p].seal \in Seals
  BY <1>2, <1>4, <1>5, <1>6, StepFields
<1>9. /\ \A j \in 1 .. (p - 1) - 1 :
           script'[j].do \in Leading /\ (script'[j].do = "prologue" => script[p].seal.blocks = 0)
      /\ \A j \in (p - 1) + 1 .. Len(script') : script'[j].do # "opening"
  BY <1>4, <1>7 DEF OpeningAt, Does
<1> QED
  BY <1>2, <1>6, <1>8, <1>9 DEF Indices

\* Steps that neither seal nor send a sealed record.
LEMMA UnsealedStep ==
  ASSUME Types, SealInv, script # <<>>, script[1].do # "opening", Advances, UNCHANGED <<video_seal_seq, sealed, skewed>>
  PROVE  SealInv'
<1>1. PICK steps : Advanced(steps)
  BY AdvancesScript
<1>2. CASE InStep
  BY <1>1, <1>2, StillNone DEF SealInv, InStep, Does
<1>3. CASE \E p \in Indices : OpeningAt(p)
  <2>1. PICK p \in Indices : OpeningAt(p)
    BY <1>3
  <2>2. OpeningAt(p - 1)' /\ p - 1 \in Indices'
    <3>1. video_seal_seq = [sealed EXCEPT ![script[p].head] = @ + script[p].seal.blocks]
          /\ (script[p].seal.blocks # 0 => script[p].seal.at = sealed[script[p].head])
      BY <2>1 DEF OpeningAt
    <3> QED
      BY <1>1, <2>1, <3>1, StillDue DEF OpeningAt, Does
  <2> QED
    BY <2>2 DEF SealInv
<1> QED
  BY <1>2, <1>3 DEF SealInv, InStep, Does

\* A record sealed where the dock is keeps the two together.
LEMMA SealedTogether ==
  ASSUME Types, ~skewed, video_seal_seq = sealed, NEW h \in Heads, NEW seal \in Seals,
         seal.blocks # 0 => seal.at = video_seal_seq[h],
         DockUnseals(h, seal), video_seal_seq' = Spend(h, seal)
  PROVE  ~skewed' /\ video_seal_seq' = sealed'
<1>1. seal.blocks \in Nat
  BY DEF Seals
<1>2. ~skewed'
  <2>1. ~(seal.blocks > 0 /\ seal.at # sealed[h])
    BY <1>1
  <2> QED
    BY <2>1, Zenon DEF DockUnseals
<1> QED
  BY <1>2 DEF DockUnseals, Spend

LEMMA ReportsAreNext ==
  ASSUME NEW h
  PROVE  /\ FrameReport(h).blocks # 0 => FrameReport(h).at = video_seal_seq[h]
         /\ StreamPrefix(h).blocks # 0 => StreamPrefix(h).at = video_seal_seq[h]
         /\ profile.ctrl_pipe => StreamPrefix(h).blocks = 0
         /\ TakeBlocks(h, OpeningBlocks).at = video_seal_seq[h]
  BY DEF FrameReport, StreamPrefix, TakeBlocks, NoSeal

LEMMA ReportedStep ==
  ASSUME Types, SealInv, script # <<>>, Carrier \/ Picture
  PROVE  SealInv'
<1> DEFINE h == script[1].head
           seal == FrameReport(h)
<1>1. /\ Head(script) = script[1] /\ script[1] \in Steps /\ script[1].do \in {"carrier", "picture"} /\ h \in Heads
  BY FirstStep, StepFields DEF Carrier, Picture
<1>2. DockUnseals(h, seal) /\ video_seal_seq' = Spend(h, seal)
  BY <1>1 DEF Carrier, Picture, SubmitReported, SubmitVideo
<1>3. ~skewed /\ InStep
  BY <1>1, NoneIsDue DEF Leading
<1>4. seal \in Seals /\ (seal.blocks # 0 => seal.at = video_seal_seq[h])
  BY <1>1, SealTypes, ReportsAreNext
<1> HIDE DEF seal, h
<1>5. ~skewed' /\ video_seal_seq' = sealed'
  BY <1>1, <1>2, <1>3, <1>4, SealedTogether DEF InStep
<1>6. PICK steps : Advanced(steps)
  BY AdvancesScript DEF Advances
<1>7. \A i \in Indices' : script'[i].do # "opening"
  BY <1>3, <1>6, StillNone DEF InStep
<1> QED
  BY <1>5, <1>7 DEF SealInv, Does

LEMMA PrologueStep ==
  ASSUME Types, SealInv, script # <<>>, Prologue
  PROVE  SealInv'
<1> DEFINE h == script[1].head
           seal == TakeBlocks(h, OpeningBlocks)
<1>1. /\ Head(script) = script[1] /\ script[1] \in Steps /\ script[1].do = "prologue" /\ h \in Heads
  BY FirstStep, StepFields DEF Prologue
<1>2. DockUnseals(h, seal) /\ video_seal_seq' = Spend(h, seal)
  BY <1>1 DEF Prologue
<1>3. seal \in Seals /\ (seal.blocks # 0 => seal.at = video_seal_seq[h])
  BY <1>1, SealTypes, ReportsAreNext
<1> HIDE DEF seal, h
<1>4. PICK steps : Advanced(steps)
  BY AdvancesScript DEF Advances
<1>5. CASE InStep
  <2>1. ~skewed' /\ video_seal_seq' = sealed'
    BY <1>1, <1>2, <1>3, <1>5, SealedTogether DEF InStep, SealInv
  <2>2. \A i \in Indices' : script'[i].do # "opening"
    BY <1>4, <1>5, StillNone DEF InStep
  <2> QED
    BY <2>1, <2>2 DEF SealInv, Does
<1>6. CASE \E p \in Indices : OpeningAt(p)
  <2>1. PICK p \in Indices : OpeningAt(p)
    BY <1>6
  <2>2. /\ script[p].seal.blocks = 0 /\ script[p].head \in Heads
        /\ p - 1 \in Indices' /\ script'[p - 1] = script[p] /\ script[p].do = "opening"
        /\ \A j \in 1 .. (p - 1) - 1 : script'[j].do \in Leading
        /\ \A j \in (p - 1) + 1 .. Len(script') : script'[j].do # "opening"
    BY <1>1, <1>4, <2>1, StillDue
  <2>3. sealed \in [Heads -> Nat] /\ sealed' \in [Heads -> Nat]
    BY <1>1, <1>2, <1>3, SealTypes DEF Types, DockUnseals
  <2>4. \A f \in [Heads -> Nat], g \in Heads : [f EXCEPT ![g] = @ + 0] = f
    OBVIOUS
  <2>5. video_seal_seq = sealed
    BY <2>1, <2>2, <2>3, <2>4 DEF OpeningAt
  <2>6. ~skewed' /\ video_seal_seq' = sealed'
    BY <1>1, <1>2, <1>3, <2>5, SealedTogether DEF SealInv
  <2>7. video_seal_seq' = [sealed' EXCEPT ![script'[p - 1].head] = @ + script'[p - 1].seal.blocks]
    BY <2>2, <2>3, <2>4, <2>6
  <2>8. OpeningAt(p - 1)'
    BY <2>2, <2>7 DEF OpeningAt, Does
  <2> QED
    BY <2>2, <2>6, <2>8 DEF SealInv
<1> QED
  BY <1>5, <1>6 DEF SealInv, InStep, Does

LEMMA OpeningStep ==
  ASSUME Types, SealInv, script # <<>>, Opening
  PROVE  SealInv'
<1> DEFINE s == script[1]
<1>1. /\ Head(script) = s /\ s \in Steps /\ s.do = "opening" /\ s.head \in Heads /\ s.seal \in Seals
      /\ Len(script) \in Nat /\ Len(script) >= 1
  BY FirstStep, StepFields DEF Opening
<1>2. DockUnseals(s.head, s.seal) /\ video_seal_seq' = video_seal_seq
  BY <1>1 DEF Opening, hostVars
<1>3. OpeningAt(1) /\ ~skewed
  <2>1. 1 \in Indices
    BY <1>1 DEF Indices
  <2>2. PICK p \in Indices : OpeningAt(p)
    BY <1>1, <2>1 DEF SealInv, Does
  <2>3. p = 1
    <3>1. p \in Nat /\ p >= 1 /\ (p # 1 => 1 \in 1 .. p - 1)
      BY <1>1 DEF Indices
    <3> QED
      BY <1>1, <2>2, <3>1 DEF OpeningAt, Does, Leading
  <2> QED
    BY <2>2, <2>3 DEF SealInv
<1>4. ~skewed' /\ video_seal_seq' = sealed'
  <2>1. s.seal.blocks \in Nat /\ (s.seal.blocks # 0 => s.seal.at = sealed[s.head])
    BY <1>1, <1>3 DEF OpeningAt, Seals
  <2>2. ~skewed'
    <3>1. ~(s.seal.blocks > 0 /\ s.seal.at # sealed[s.head])
      BY <2>1
    <3> QED
      BY <1>2, <1>3, <3>1, Zenon DEF DockUnseals
  <2> QED
    BY <1>2, <1>3, <2>2 DEF DockUnseals, OpeningAt
<1>5. \A i \in Indices : i # 1 => script[i].do # "opening"
  <2>1. \A i \in Indices : i # 1 => i \in 1 + 1 .. Len(script)
    BY <1>1 DEF Indices
  <2> QED
    BY <1>3, <2>1 DEF OpeningAt, Does
<1>6. PICK steps : Advanced(steps)
  BY AdvancesScript DEF Advances
<1>7. \A i \in Indices' : script'[i].do # "opening"
  BY <1>5, <1>6, StillNone
<1> QED
  BY <1>4, <1>7 DEF SealInv, Does

LEMMA AdvancesSeal ==
  ASSUME Types, SealInv, script # <<>>, Advances
  PROVE  SealInv'
<1>1. Head(script) = script[1]
  BY FirstStep
<1>2. CASE \/ Message \/ SinkMarker \/ SetMode \/ Paced \/ Programmed \/ CursorImage \/ CursorMoves
           \/ Presented \/ Black
  <2>1. UNCHANGED <<video_seal_seq, sealed, skewed>> /\ script[1].do # "opening"
    BY <1>1, <1>2 DEF Message, SinkMarker, SetMode, Paced, Programmed, CursorImage, CursorMoves, Presented, Black,
                      hostVars, dockVars, streamVars
  <2> QED
    BY <2>1, UnsealedStep
<1> QED
  BY <1>2, ReportedStep, PrologueStep, OpeningStep DEF Advances

LEMMA BeginSeal ==
  ASSUME Types, SealInv, script # <<>>, BeginMode \/ BeginBlank
  PROVE  SealInv'
<1> DEFINE rest == Tail(script)
           h == script[1].head
<1>1. script[1].do \in {"begin", "blank"}
  BY BeginModeScript, BeginBlankScript
<1>2. ~skewed /\ InStep
  BY <1>1, NoneIsDue DEF Leading
<1>3. Len(rest) \in Nat /\ \A i \in 1 .. Len(rest) : rest[i].do # "opening"
  <2>1. /\ Len(rest) = Len(script) - 1 /\ Len(script) \in Nat /\ Len(script) >= 1
        /\ \A i \in 1 .. Len(script) - 1 : rest[i] = script[i + 1]
    BY FirstStep
  <2>2. Len(rest) \in Nat /\ \A i \in 1 .. Len(rest) : i + 1 \in Indices
    BY <2>1 DEF Indices
  <2> QED
    BY <1>2, <2>1, <2>2 DEF InStep
<1>4. CASE BeginMode
  <2> DEFINE seal == StreamPrefix(h)
  <2>1. PICK q, p, o, r \in Nat : ModeKinds(script', h, seal, inner_counter, rest, q, p, o, r)
    <3>1. PICK q, p, o, r \in Nat : ModeScript(script', h, seal, inner_counter, rest, q, p, o, r)
      BY <1>4, BeginModeScript, Zenon
    <3>2. ModeKinds(script', h, seal, inner_counter, rest, q, p, o, r)
      BY <3>1, ModeScriptAt, Zenon
    <3> QED
      BY <3>2
  <2>2. /\ h \in Heads /\ inner_counter \in Counters /\ video_seal_seq' = Spend(h, seal)
        /\ UNCHANGED <<sealed, skewed>>
    BY <1>4, BeginModeScript DEF dockVars, streamVars
  <2>3. (seal.blocks # 0 => seal.at = video_seal_seq[h]) /\ (profile.ctrl_pipe => seal.blocks = 0)
    BY ReportsAreNext
  <2> HIDE DEF seal
  <2> HIDE DEF h, rest
  <2>4. q \in 1 .. 5 /\ q < p /\ p < o /\ o < r /\ Len(script') = r + Len(rest)
    BY <2>1 DEF ModeKinds
  <2>5. /\ \A i \in 1 .. q - 1 : script'[i].do \in {"message", "sink"}
        /\ \A i \in q + 1 .. o - 1 : /\ script'[i].do \in {"message", "sink", "prologue", "paced"}
                                     /\ script'[i].do = "prologue" => profile.ctrl_pipe
        /\ \A i \in o + 1 .. r - 1 : script'[i].do \in {"message", "sink", "carrier"}
        /\ script'[r].do = "programmed"
        /\ \A i \in r + 1 .. Len(script') : script'[i] = rest[i - r]
    BY <2>1 DEF ModeKinds
  <2>6. script'[q].do = "set_mode"
    BY <2>1 DEF ModeKinds
  <2>7. /\ \A j \in 1 .. o - 1 : j \in 1 .. q - 1 \/ j = q \/ j \in q + 1 .. o - 1
        /\ \A j \in o + 1 .. Len(script') : \/ j \in o + 1 .. r - 1 \/ j = r
                                            \/ j \in r + 1 .. Len(script') /\ j - r \in 1 .. Len(rest)
        /\ o \in 1 .. Len(script')
    BY <1>3, <2>4
  <2>8. \A j \in 1 .. o - 1 : script'[j].do \in Leading /\ (script'[j].do = "prologue" => seal.blocks = 0)
    BY <2>3, <2>5, <2>6, <2>7 DEF Leading
  <2>9. \A j \in o + 1 .. Len(script') : script'[j].do # "opening"
    <3> SUFFICES ASSUME NEW j \in o + 1 .. Len(script') PROVE script'[j].do # "opening"
      OBVIOUS
    <3>1. CASE j \in o + 1 .. r - 1 \/ j = r
      BY <2>5, <3>1
    <3>2. CASE j \in r + 1 .. Len(script') /\ j - r \in 1 .. Len(rest)
      <4>1. script'[j] = rest[j - r]
        BY <2>5, <3>2
      <4> QED
        BY <1>3, <3>2, <4>1
    <3> QED
      BY <2>7, <3>1, <3>2
  <2>10. script'[o].do = "opening" /\ script'[o].head = h /\ script'[o].seal = seal
    BY <2>1 DEF ModeKinds
  <2>11. video_seal_seq' = [sealed' EXCEPT ![h] = @ + seal.blocks] /\ (seal.blocks # 0 => seal.at = sealed'[h])
    BY <1>2, <2>2, <2>3 DEF InStep, Spend
  <2>12. OpeningAt(o)'
    BY <2>8, <2>9, <2>10, <2>11 DEF OpeningAt, Does
  <2>13. ~skewed' /\ o \in Indices'
    BY <1>2, <2>2, <2>7 DEF Indices
  <2> QED
    BY <2>12, <2>13 DEF SealInv
<1>5. CASE BeginBlank
  <2>1. PICK b, d, r \in Nat : BlankScript(script', h, rest, b, d, r)
    BY <1>5, BeginBlankScript
  <2>2. /\ Len(script') = r + Len(rest)
        /\ \A i \in 1 .. b : script'[i].do = "black"
        /\ \A i \in b + 1 .. r : script'[i].do \in {"message", "sink"}
        /\ \A i \in r + 1 .. Len(script') : script'[i] = rest[i - r]
    BY <2>1 DEF BlankScript, AheadSteps
  <2>3. \A i \in Indices' : \/ i \in 1 .. b \/ i \in b + 1 .. r
                            \/ (i \in r + 1 .. Len(script') /\ i - r \in 1 .. Len(rest))
    BY <1>3, <2>2 DEF Indices
  <2>4. \A i \in Indices' : script'[i].do # "opening"
    BY <1>3, <2>2, <2>3
  <2>5. UNCHANGED <<video_seal_seq, sealed, skewed>>
    BY <1>5, BeginBlankScript DEF dockVars, streamVars
  <2> QED
    BY <1>2, <2>4, <2>5 DEF SealInv, InStep, Does
<1> QED
  BY <1>4, <1>5

LEMMA NextSeal ==
  ASSUME Types, Types', SealInv, [Next]_vars
  PROVE  SealInv'
<1>1. CASE RunStep
  <2>1. /\ script # <<>>
        /\ Advances \/ BeginMode \/ BeginBlank \/ ProbeSend \/ ProbeRead \/ ProbeGivesUp
    BY <1>1 DEF RunStep, Advances
  <2>2. CASE ProbeSend \/ ProbeRead \/ ProbeGivesUp
    <3>1. /\ Head(script) = script[1] /\ Len(script) \in Nat /\ Len(script) >= 1 /\ Len(Tail(script)) = Len(script) - 1
          /\ \A i \in 1 .. Len(script) - 1 : Tail(script)[i] = script[i + 1]
      BY <2>1, FirstStep
    <3>2. script[1].do \in {"probe", "await"} /\ UNCHANGED <<video_seal_seq, sealed, skewed>>
      BY <2>2, <3>1 DEF ProbeSend, ProbeRead, ProbeGivesUp, hostVars, dockVars, streamVars
    <3>3. ~skewed /\ InStep
      BY <3>2, NoneIsDue DEF Leading
    <3>4. \A i \in Indices' : script'[i].do # "opening"
      <4>1. CASE script' = script
        BY <3>3, <4>1 DEF InStep, Indices
      <4>2. CASE script' = Tail(script)
        <5>1. \A i \in Indices' : i \in 1 .. Len(script) - 1 /\ i + 1 \in Indices
          BY <3>1, <4>2 DEF Indices
        <5> QED
          BY <3>1, <3>3, <4>2, <5>1 DEF InStep
      <4>3. CASE ProbeSend
        <5>1. Len(script') = 1 /\ script'[1].do = "await"
          BY <4>3 DEF ProbeSend
        <5>2. \A i \in Indices' : i = 1
          BY <5>1 DEF Indices
        <5> QED
          BY <5>1, <5>2
      <4> QED
        BY <2>2, <4>1, <4>2, <4>3 DEF ProbeRead, ProbeGivesUp
    <3> QED
      BY <3>2, <3>3, <3>4 DEF SealInv, InStep, Does
  <2> QED
    BY <2>1, <2>2, AdvancesSeal, BeginSeal
<1>2. CASE LoseSession
  <2>1. script' = <<>> /\ video_seal_seq' = sealed' /\ skewed' = FALSE
    BY <1>2 DEF LoseSession
  <2>2. ~skewed' /\ Len(script') = 0
    BY <2>1
  <2> QED
    BY <2>1, <2>2 DEF SealInv, Indices
<1>3. CASE Request /\ ~DdcciFails
  <2>1. /\ script = <<>> /\ UNCHANGED <<video_seal_seq, sealed, skewed>>
        /\ \A i \in 1 .. Len(script') :
             script'[i].do \in {"begin", "blank", "picture", "presented", "message", "image", "move", "probe"}
    BY <1>3, RequestScript DEF AskedScript, hostVars, dockVars, streamVars
  <2>2. ~skewed /\ InStep
    BY <2>1, NoneIsDue
  <2>3. \A i \in Indices' : script'[i].do # "opening"
    BY <2>1 DEF Indices
  <2> QED
    BY <2>1, <2>2, <2>3 DEF SealInv, InStep, Does
<1>4. CASE PlugChanges \/ DdcciFails \/ Done \/ UNCHANGED vars
  <2>1. UNCHANGED <<script, video_seal_seq, sealed, skewed>>
    BY <1>4 DEF PlugChanges, DdcciFails, Done, vars, hostVars, dockVars, streamVars
  <2> QED
    BY <2>1 DEF SealInv, OpeningAt, Does, Indices
<1> QED
  BY <1>1, <1>2, <1>3, <1>4 DEF Next

-----------------------------------------------------------------------------
(***************************************************************************)
(* Sinks.                                                                  *)
(***************************************************************************)
LEMMA Unmarked ==
  ASSUME NEW steps, NEW n \in Nat, NEW h, NEW up, NEW v,
         \A j \in 1 .. n - 1 : ~Marks(steps[j], h)
  PROVE  SinkBefore(steps, n, h, up, v) <=> up = v
  BY DEF SinkBefore

LEMMA StaysUnmarked ==
  ASSUME NEW steps, NEW n, NEW h, NEW up, NEW v, up = v, \A j \in 1 .. n - 1 : ~Marks(steps[j], h)
  PROVE  SinkBefore(steps, n, h, up, v)
  BY DEF SinkBefore

\* A marker that brings the sink to v, with none behind it that does not.
LEMMA MarkedLast ==
  ASSUME NEW steps, NEW n \in Nat, NEW h, NEW up, NEW v, NEW p \in 1 .. n - 1,
         Marks(steps[p], h), \A j \in p .. n - 1 : Marks(steps[j], h) => steps[j].up = v
  PROVE  SinkBefore(steps, n, h, up, v)
  BY DEF SinkBefore

\* The first step is out: what its script makes of a sink is the same.
LEMMA SinkMoves ==
  ASSUME Types, script # <<>>, NEW steps, Advanced(steps), NEW h \in Heads, NEW n \in 2 .. Len(script) + 1, NEW v,
         sink'[h] = IF Marks(script[1], h) THEN script[1].up ELSE sink[h],
         SinkBefore(script, n, h, sink[h], v)
  PROVE  SinkBefore(script', n - 1 + Len(steps), h, sink'[h], v)
<1> DEFINE k == Len(steps)
           w == n - 1 + k
<1>1. /\ k \in Nat /\ Len(script') = k + Len(script) - 1 /\ Len(script) \in Nat
      /\ \A i \in 1 .. k : script'[i].do \in {"message", "image", "move"}
      /\ \A i \in k + 1 .. Len(script') : script'[i] = script[i - k + 1]
  BY AdvancedAt
<1>2. w \in Nat /\ n \in Nat /\ n >= 2 /\ n <= Len(script) + 1 /\ w = n - 1 + k /\ w - 1 <= Len(script')
  BY <1>1
<1> HIDE DEF w
<1>3. \A j \in 1 .. w - 1 : \/ ~Marks(script'[j], h)
                            \/ j \in k + 1 .. w - 1 /\ script'[j] = script[j - k + 1] /\ j - k + 1 \in 2 .. n - 1
  <2> SUFFICES ASSUME NEW j \in 1 .. w - 1
               PROVE  \/ ~Marks(script'[j], h)
                      \/ j \in k + 1 .. w - 1 /\ script'[j] = script[j - k + 1] /\ j - k + 1 \in 2 .. n - 1
    OBVIOUS
  <2>1. CASE j <= k
    <3>1. j \in 1 .. k
      BY <1>1, <1>2, <2>1
    <3> QED
      BY <1>1, <3>1 DEF Marks
  <2>2. CASE ~(j <= k)
    <3>1. j \in k + 1 .. Len(script') /\ j \in k + 1 .. w - 1 /\ j - k + 1 \in 2 .. n - 1
      BY <1>1, <1>2, <2>2
    <3> QED
      BY <1>1, <3>1
  <2> QED
    BY <2>1, <2>2
<1>4. CASE /\ sink'[h] = v
           /\ \A j \in 2 .. n - 1 : Marks(script[j], h) => script[j].up = v
  <2>1. \A j \in 1 .. w - 1 : Marks(script'[j], h) => script'[j].up = v
    BY <1>3, <1>4
  <2>2. SinkBefore(script', w, h, sink'[h], v)
    BY <1>4, <2>1, Zenon DEF SinkBefore
  <2> QED
    BY <2>2 DEF w
<1>5. CASE /\ sink[h] = v
           /\ \A j \in 1 .. n - 1 : Marks(script[j], h) => script[j].up = v
  <2>1. 1 \in 1 .. n - 1 /\ \A j \in 2 .. n - 1 : j \in 1 .. n - 1
    BY <1>2
  <2> QED
    BY <1>4, <1>5, <2>1
<1>6. CASE \E i \in 1 .. n - 1 :
             /\ Marks(script[i], h)
             /\ \A j \in i .. n - 1 : Marks(script[j], h) => script[j].up = v
  <2>1. PICK i \in 1 .. n - 1 : /\ Marks(script[i], h)
                                /\ \A j \in i .. n - 1 : Marks(script[j], h) => script[j].up = v
    BY <1>6
  <2>2. i \in i .. n - 1
    BY <1>2
  <2>3. CASE i = 1
    <3>1. 1 \in i .. n - 1 /\ \A j \in 2 .. n - 1 : j \in i .. n - 1
      BY <1>2, <2>3
    <3> QED
      BY <1>4, <2>1, <2>3, <3>1
  <2>4. CASE i # 1
    <3> DEFINE p == i - 1 + k
    <3>1. p \in 1 .. w - 1 /\ p \in k + 1 .. Len(script') /\ p - k + 1 = i
      <4>1. k \in Nat /\ i \in Nat /\ i >= 2 /\ i <= n - 1
        BY <1>1, <1>2, <2>4
      <4> HIDE DEF k
      <4>2. p \in Int /\ p >= k + 1 /\ p <= w - 1 /\ p - k + 1 = i
        BY <1>2, <4>1
      <4>3. p \in k + 1 .. w - 1
        BY <1>2, <4>1, <4>2
      <4> QED
        BY <1>1, <4>1, <4>2, <4>3 DEF k
    <3>2. Marks(script'[p], h)
      BY <1>1, <2>1, <3>1
    <3>3. \A j \in p .. w - 1 : j \in 1 .. w - 1
      BY <1>1, <1>2, <3>1
    <3>4. \A j \in p .. w - 1 : j \in k + 1 .. w - 1 => j - k + 1 \in i .. n - 1
      BY <1>1, <1>2, <3>1
    <3> HIDE DEF p
    <3>5. \A j \in p .. w - 1 : Marks(script'[j], h) => script'[j].up = v
      BY <1>3, <2>1, <3>3, <3>4
    <3> QED
      BY <1>2, <3>1, <3>2, <3>5, MarkedLast DEF w
  <2> QED
    BY <2>3, <2>4
<1> QED
  BY <1>5, <1>6 DEF SinkBefore

\* What the steps that advance a script do to the sinks and the modes.
LEMMA AdvancesEffect ==
  ASSUME Types, script # <<>>, Advances
  PROVE  LET s == script[1] IN
         /\ s \in Steps /\ s.do \notin {"begin", "blank", "probe", "await"} /\ (s.do # "message" => s.head \in Heads)
         /\ s.do = "sink" => s.up \in BOOLEAN
         /\ \A h \in Heads : sink'[h] = IF Marks(s, h) THEN s.up ELSE sink[h]
         /\ \A h \in Heads : mode_active'[h] <=> mode_active[h] \/ (s.do = "programmed" /\ s.head = h)
         /\ unseen' = unseen \/ (s.do \in Frames /\ unseen' = (unseen \/ ~sink[s.head]))
<1> DEFINE s == script[1]
<1>1. /\ Head(script) = s /\ s \in Steps /\ sink \in [Heads -> BOOLEAN] /\ mode_active \in [Heads -> BOOLEAN]
      /\ (s.do # "message" => s.head \in Heads) /\ (s.do = "sink" => s.up \in BOOLEAN)
  BY FirstStep, StepFields DEF Types
<1>2. CASE SinkMarker
  <2>1. s.do = "sink" /\ sink' = [sink EXCEPT ![s.head] = s.up] /\ UNCHANGED <<hostVars, streamVars>>
    BY <1>1, <1>2 DEF SinkMarker
  <2> HIDE DEF s
  <2> QED
    BY <1>1, <2>1 DEF Marks, hostVars, streamVars, s
<1>3. CASE Programmed
  <2>1. s.do = "programmed" /\ mode_active' = [mode_active EXCEPT ![s.head] = TRUE] /\ UNCHANGED dockVars
    BY <1>1, <1>3 DEF Programmed
  <2>2. \A h \in Heads : mode_active'[h] <=> mode_active[h] \/ s.head = h
    <3> SUFFICES ASSUME NEW h \in Heads PROVE mode_active'[h] <=> mode_active[h] \/ s.head = h
      OBVIOUS
    <3>1. CASE h = s.head
      BY <1>1, <2>1, <3>1
    <3>2. CASE h # s.head
      BY <1>1, <2>1, <3>2
    <3> QED
      BY <3>1, <3>2
  <2> QED
    BY <1>1, <2>1, <2>2 DEF Marks, dockVars, streamVars
<1>4. CASE Opening \/ Carrier \/ Picture \/ Black
  <2>1. s.do \in Frames /\ UNCHANGED <<sink, mode_active>> /\ unseen' = (unseen \/ ~sink[s.head])
    BY <1>1, <1>4 DEF Opening, Carrier, Picture, Black, Frames, SubmitReported, SubmitVideo, hostVars
  <2> QED
    BY <1>1, <2>1 DEF Marks, Frames
<1>5. CASE Message \/ SetMode \/ Prologue \/ Paced \/ CursorImage \/ CursorMoves \/ Presented
  <2>1. s.do \in {"message", "set_mode", "prologue", "paced", "image", "move", "presented"} /\ UNCHANGED <<sink, mode_active, unseen>>
    BY <1>1, <1>5 DEF Message, SetMode, Prologue, Paced, CursorImage, CursorMoves, Presented, hostVars, dockVars, streamVars
  <2> QED
    BY <1>1, <2>1 DEF Marks
<1> QED
  BY <1>2, <1>3, <1>4, <1>5 DEF Advances

\* The end an operation comes to is the same all the way.
LEMMA EndsTheSame ==
  ASSUME Types, script # <<>>, Advances, NEW steps, Advanced(steps), NEW h \in Heads
  PROVE  EndsActive(h)' = EndsActive(h)
<1> DEFINE k == Len(steps)
           Due == \E i \in Indices : script[i].do = "programmed" /\ script[i].head = h
<1>1. /\ k \in Nat /\ Len(script') = k + Len(script) - 1 /\ Len(script) \in Nat /\ Len(script) >= 1
      /\ \A i \in 1 .. k : script'[i].do \in {"message", "image", "move"}
      /\ \A i \in k + 1 .. Len(script') : script'[i] = script[i - k + 1] /\ i - k + 1 \in 2 .. Len(script)
  <2>1. \A i \in 1 .. Len(steps) : script'[i] = steps[i] /\ steps[i].do \in {"message", "image", "move"}
    BY AdvancedAt
  <2> QED
    BY <2>1, AdvancedAt
<1>2. mode_active'[h] <=> mode_active[h] \/ (script[1].do = "programmed" /\ script[1].head = h)
  BY AdvancesEffect
<1>3. ASSUME NEW i \in Indices', script'[i].do = "programmed", script'[i].head = h
      PROVE  Due
  <2>1. i \in 1 .. k \/ i \in k + 1 .. Len(script')
    BY <1>1 DEF Indices
  <2>2. i \in k + 1 .. Len(script')
    BY <1>1, <1>3, <2>1
  <2>3. script'[i] = script[i - k + 1] /\ i - k + 1 \in 2 .. Len(script)
    BY <1>1, <2>2
  <2>4. \A j \in 2 .. Len(script) : j \in Indices
    BY DEF Indices
  <2> QED
    BY <1>3, <2>3, <2>4
<1>4. ASSUME NEW i \in Indices, script[i].do = "programmed", script[i].head = h
      PROVE  EndsActive(h)'
  <2>1. CASE i = 1
    BY <1>2, <1>4, <2>1 DEF EndsActive
  <2>2. CASE i # 1
    <3> DEFINE j == i + k - 1
    <3>1. k \in Nat /\ i \in Nat /\ i >= 2 /\ i <= Len(script) /\ Len(script) \in Nat
      BY <1>1, <2>2 DEF Indices
    <3>2. j \in k + 1 .. Len(script') /\ j - k + 1 = i /\ j \in Indices'
      <4> HIDE DEF k
      <4>1. j \in Int /\ j >= k + 1 /\ j <= k + Len(script) - 1 /\ j - k + 1 = i /\ j >= 1
        BY <3>1
      <4> QED
        BY <1>1, <3>1, <4>1 DEF k, Indices
    <3> HIDE DEF j
    <3>3. script'[j] = script[i]
      BY <1>1, <3>2
    <3> QED
      BY <1>4, <3>2, <3>3 DEF EndsActive, Does
  <2> QED
    BY <2>1, <2>2
<1>5. 1 \in Indices
  BY <1>1 DEF Indices
<1>6. EndsActive(h) <=> mode_active[h] \/ Due
  BY DEF EndsActive, Does
<1>7. EndsActive(h)' <=> mode_active'[h] \/ \E i \in Indices' : script'[i].do = "programmed" /\ script'[i].head = h
  BY DEF EndsActive, Does
<1>8. EndsActive(h)' <=> EndsActive(h)
  BY <1>2, <1>3, <1>4, <1>5, <1>6, <1>7
<1>9. EndsActive(h) \in BOOLEAN /\ EndsActive(h)' \in BOOLEAN
  BY DEF EndsActive
<1> QED
  BY <1>8, <1>9

LEMMA AdvancesSink ==
  ASSUME Types, SinkInv, script # <<>>, Advances
  PROVE  SinkInv'
<1>1. PICK steps : Advanced(steps)
  BY AdvancesScript
<1> DEFINE k == Len(steps)
           s == script[1]
<1>2. /\ k \in Nat /\ Len(script') = k + Len(script) - 1 /\ Len(script) \in Nat /\ Len(script) >= 1
      /\ \A i \in 1 .. k : script'[i].do \in {"message", "image", "move"}
      /\ \A i \in k + 1 .. Len(script') : script'[i] = script[i - k + 1] /\ i - k + 1 \in 2 .. Len(script)
  <2>1. \A i \in 1 .. Len(steps) : script'[i] = steps[i] /\ steps[i].do \in {"message", "image", "move"}
    BY <1>1, AdvancedAt
  <2> QED
    BY <1>1, <2>1, AdvancedAt
<1>3. /\ s \in Steps /\ s.do \notin {"begin", "blank", "probe", "await"} /\ (s.do # "message" => s.head \in Heads)
      /\ \A h \in Heads : sink'[h] = IF Marks(s, h) THEN s.up ELSE sink[h]
      /\ \A h \in Heads : mode_active'[h] <=> mode_active[h] \/ (s.do = "programmed" /\ s.head = h)
      /\ unseen' = unseen \/ (s.do \in Frames /\ unseen' = (unseen \/ ~sink[s.head]))
  BY AdvancesEffect
<1>4. ~unseen'
  <2>1. CASE s.do \in Frames
    <3>1. 1 \in Indices /\ 1 \in Nat /\ \A j \in 1 .. 1 - 1 : FALSE
      BY <1>2 DEF Indices
    <3>2. SinkBefore(script, 1, s.head, sink[s.head], TRUE)
      BY <2>1, <3>1 DEF SinkInv, Does
    <3>3. sink[s.head] = TRUE
      BY <3>1, <3>2, Zenon DEF SinkBefore
    <3> QED
      BY <1>3, <3>3 DEF SinkInv
  <2> QED
    BY <1>3, <2>1 DEF SinkInv
\* Steps of note were there, one place further or as many as were put ahead.
<1>5. \A i \in Indices' : script'[i].do \notin {"message", "image", "move"} =>
        /\ i \in k + 1 .. Len(script') /\ script'[i] = script[i - k + 1] /\ i - k + 1 \in 2 .. Len(script)
        /\ i - k + 1 \in Indices
  <2> SUFFICES ASSUME NEW i \in Indices', script'[i].do \notin {"message", "image", "move"}
               PROVE  /\ i \in k + 1 .. Len(script') /\ script'[i] = script[i - k + 1]
                      /\ i - k + 1 \in 2 .. Len(script) /\ i - k + 1 \in Indices
    OBVIOUS
  <2>1. i \in 1 .. k \/ i \in k + 1 .. Len(script')
    BY <1>2 DEF Indices
  <2>2. i \in k + 1 .. Len(script')
    BY <1>2, <2>1
  <2>3. \A j \in 2 .. Len(script) : j \in Indices
    BY DEF Indices
  <2> QED
    BY <1>2, <2>2, <2>3
<1> HIDE DEF s, k
<1>6. \A i, j \in Indices' : i < j /\ script'[i].do \in Pending => script'[j].do \in Pending
  <2> SUFFICES ASSUME NEW i \in Indices', NEW j \in Indices', i < j, script'[i].do \in Pending
               PROVE  script'[j].do \in Pending
    OBVIOUS
  <2>1. i \in k + 1 .. Len(script') /\ script'[i] = script[i - k + 1] /\ i - k + 1 \in Indices
    BY <1>5 DEF Pending
  <2>2. j \in k + 1 .. Len(script') /\ i - k + 1 < j - k + 1
    BY <1>2, <2>1 DEF Indices
  <2>3. script'[j] = script[j - k + 1] /\ j - k + 1 \in Indices
    <3>1. \A m \in 2 .. Len(script) : m \in Indices
      BY DEF Indices
    <3> QED
      BY <1>2, <2>2, <3>1
  <2> QED
    BY <2>1, <2>2, <2>3 DEF SinkInv, Does
<1>7. \A i \in Indices' : script'[i].do \notin {"probe", "await"}
  <2> SUFFICES ASSUME NEW i \in Indices', script'[i].do \in {"probe", "await"} PROVE FALSE
    OBVIOUS
  <2>1. script'[i] = script[i - k + 1] /\ i - k + 1 \in 2 .. Len(script) /\ i - k + 1 \in Indices
    BY <1>5
  <2>2. Len(script) = 1
    BY <2>1 DEF SinkInv, Does
  <2> QED
    BY <2>1, <2>2
<1>8. \A i \in Indices' : script'[i].do = "blank" =>
        /\ mode_active'[script'[i].head]
        /\ \A j \in Indices' : script'[j].do = "blank" /\ script'[j].head = script'[i].head => j = i
  <2> SUFFICES ASSUME NEW i \in Indices', script'[i].do = "blank"
               PROVE  /\ mode_active'[script'[i].head]
                      /\ \A j \in Indices' : script'[j].do = "blank" /\ script'[j].head = script'[i].head => j = i
    OBVIOUS
  <2>1. script'[i] = script[i - k + 1] /\ i - k + 1 \in Indices /\ i \in Int
    BY <1>5 DEF Indices
  <2>2. /\ mode_active[script'[i].head]
        /\ \A m \in Indices : script[m].do = "blank" /\ script[m].head = script'[i].head => m = i - k + 1
    BY <2>1 DEF SinkInv, Does
  <2>3. script'[i].head \in Heads
    <3>1. script[i - k + 1] \in Steps
      BY <2>1, ScriptSteps
    <3> QED
      BY <2>1, <3>1, StepFields
  <2>4. ASSUME NEW j \in Indices', script'[j].do = "blank", script'[j].head = script'[i].head PROVE j = i
    <3>1. script'[j] = script[j - k + 1] /\ j - k + 1 \in Indices /\ j \in Int
      BY <1>5, <2>4 DEF Indices
    <3>2. j - k + 1 = i - k + 1
      BY <2>2, <2>4, <3>1
    <3>3. i \in Int /\ k \in Int
      BY <1>2, <2>1
    <3> QED
      BY <3>1, <3>2, <3>3
  <2> QED
    BY <1>3, <2>2, <2>3, <2>4
<1>9. \A i \in Indices' : script'[i].do \in Frames =>
        SinkBefore(script', i, script'[i].head, sink'[script'[i].head], TRUE)
  <2> SUFFICES ASSUME NEW i \in Indices', script'[i].do \in Frames
               PROVE  SinkBefore(script', i, script'[i].head, sink'[script'[i].head], TRUE)
    OBVIOUS
  <2> DEFINE n == i - k + 1
             h == script'[i].head
  <2>1. script'[i] = script[n] /\ n \in 2 .. Len(script) /\ n \in Indices /\ i \in Int
    BY <1>5 DEF Frames, Indices
  <2>2. h \in Heads
    <3>1. script[n] \in Steps
      BY <2>1 DEF Types, Indices
    <3> QED
      BY <2>1, <3>1, StepFields DEF Frames
  <2>3. SinkBefore(script, n, h, sink[h], TRUE)
    BY <2>1 DEF SinkInv, Does
  <2>4. n \in 2 .. Len(script) + 1 /\ n - 1 + k = i
    <3>1. k \in Nat /\ Len(script) \in Nat
      BY <1>2
    <3>2. n - 1 + k = i
      BY <2>1, <3>1
    <3> HIDE DEF n
    <3> QED
      BY <2>1, <3>1, <3>2
  <2> HIDE DEF n, h
  <2>5. sink'[h] = IF Marks(script[1], h) THEN script[1].up ELSE sink[h]
    BY <1>3, <2>2 DEF s
  <2>6. SinkBefore(script', n - 1 + Len(steps), h, sink'[h], TRUE)
    BY <1>1, <2>2, <2>3, <2>4, <2>5, SinkMoves
  <2> QED
    BY <2>4, <2>6 DEF k, h
<1>10. \A h \in Heads : SinkBefore(script', Len(script') + 1, h, sink'[h], EndsActive(h)')
  <2> SUFFICES ASSUME NEW h \in Heads
               PROVE  SinkBefore(script', Len(script') + 1, h, sink'[h], EndsActive(h)')
    OBVIOUS
  <2> DEFINE n == Len(script) + 1
             v == EndsActive(h)
  <2>1. SinkBefore(script, n, h, sink[h], v)
    BY DEF SinkInv
  <2>2. EndsActive(h)' = v
    BY <1>1, EndsTheSame
  <2>3. n \in 2 .. Len(script) + 1 /\ n - 1 + k = Len(script') + 1
    BY <1>2
  <2>4. sink'[h] = IF Marks(script[1], h) THEN script[1].up ELSE sink[h]
    BY <1>3 DEF s
  <2> HIDE DEF n, v
  <2>5. SinkBefore(script', n - 1 + Len(steps), h, sink'[h], v)
    BY <1>1, <2>1, <2>3, <2>4, SinkMoves
  <2> QED
    BY <2>2, <2>3, <2>5 DEF k
<1> QED
  BY <1>4, <1>6, <1>7, <1>8, <1>9, <1>10 DEF SinkInv, Does

\* With no marker and no mode set in the script the sinks are as the modes.
LEMMA PlainScript ==
  ASSUME Types, \A i \in Indices : script[i].do \notin {"sink", "programmed"}, NEW h \in Heads
  PROVE  SinkBefore(script, Len(script) + 1, h, sink[h], EndsActive(h)) <=> sink[h] = mode_active[h]
<1>1. Len(script) + 1 \in Nat /\ mode_active[h] \in BOOLEAN /\ (Len(script) + 1) - 1 = Len(script) /\ Len(script) \in Nat
  <2>1. mode_active \in [Heads -> BOOLEAN]
    BY DEF Types
  <2> QED
    BY <2>1, ScriptSteps
<1>2. EndsActive(h) = mode_active[h]
  BY <1>1 DEF EndsActive, Does
<1>3. \A j \in 1 .. (Len(script) + 1) - 1 : ~Marks(script[j], h)
  BY <1>1 DEF Marks, Indices
<1>4. SinkBefore(script, Len(script) + 1, h, sink[h], mode_active[h]) <=> sink[h] = mode_active[h]
  <2> DEFINE n == Len(script) + 1
             u == sink[h]
             v == mode_active[h]
  <2>1. n \in Nat /\ \A j \in 1 .. n - 1 : ~Marks(script[j], h)
    BY <1>1, <1>3, Zenon
  <2> HIDE DEF n, u, v
  <2>2. SinkBefore(script, n, h, u, v) <=> u = v
    BY <2>1, Unmarked, Zenon
  <2> QED
    BY <2>2, Zenon DEF n, u, v
<1> QED
  BY <1>2, <1>4, Zenon

LEMMA PlainScriptPrimed ==
  ASSUME Types', \A i \in Indices' : script'[i].do \notin {"sink", "programmed"}, NEW h \in Heads, sink'[h] = mode_active'[h]
  PROVE  SinkBefore(script', Len(script') + 1, h, sink'[h], EndsActive(h)')
<1>1. /\ Len(script') + 1 \in Nat /\ mode_active'[h] \in BOOLEAN /\ (Len(script') + 1) - 1 = Len(script')
      /\ Len(script') \in Nat
  <2>1. mode_active' \in [Heads -> BOOLEAN]
    BY DEF Types
  <2> QED
    BY <2>1, ScriptStepsPrimed
<1>2. EndsActive(h)' = mode_active'[h]
  BY <1>1 DEF EndsActive, Does
<1>3. \A j \in 1 .. (Len(script') + 1) - 1 : ~Marks(script'[j], h)
  BY <1>1 DEF Marks, Indices
<1>4. SinkBefore(script', Len(script') + 1, h, sink'[h], mode_active'[h]) <=> sink'[h] = mode_active'[h]
  <2> DEFINE n == Len(script') + 1
             u == sink'[h]
             v == mode_active'[h]
  <2>1. n \in Nat /\ \A j \in 1 .. n - 1 : ~Marks(script'[j], h)
    BY <1>1, <1>3, Zenon
  <2> HIDE DEF n, u, v
  <2>2. SinkBefore(script', n, h, u, v) <=> u = v
    BY <2>1, Unmarked, Zenon
  <2> QED
    BY <2>2, Zenon DEF n, u, v
<1> QED
  BY <1>2, <1>4, Zenon

LEMMA PendingRest ==
  ASSUME Types, SinkInv, script # <<>>, script[1].do \in Pending
  PROVE  LET rest == Tail(script) IN
         /\ Len(rest) \in Nat /\ Len(rest) = Len(script) - 1
         /\ \A i \in 1 .. Len(rest) : /\ rest[i] = script[i + 1] /\ i + 1 \in Indices /\ i + 1 # 1
                                      /\ rest[i].do \in Pending /\ rest[i].head \in Heads
         /\ 1 \in Indices
         /\ \A h \in Heads : sink[h] = mode_active[h]
<1> DEFINE rest == Tail(script)
<1>1. /\ Len(script) \in Nat /\ Len(script) >= 1 /\ rest \in Seq(Steps) /\ Len(rest) = Len(script) - 1
      /\ \A i \in 1 .. Len(script) - 1 : rest[i] = script[i + 1]
  BY FirstStep
<1>2. 1 \in Indices /\ \A i \in Indices : i = 1 \/ 1 < i
  BY <1>1 DEF Indices
<1>3. \A i \in Indices : script[i].do \in Pending
  BY <1>2 DEF SinkInv, Does
<1>4. \A i \in 1 .. Len(rest) : rest[i] = script[i + 1] /\ i + 1 \in Indices /\ i + 1 # 1
  BY <1>1 DEF Indices
<1>5. \A i \in 1 .. Len(rest) : rest[i].do \in Pending /\ rest[i].head \in Heads
  <2>1. \A i \in 1 .. Len(rest) : rest[i] \in Steps
    BY <1>1, Members
  <2>2. \A i \in 1 .. Len(rest) : rest[i].do \in Pending
    BY <1>3, <1>4
  <2> QED
    BY <2>1, <2>2, StepFields DEF Pending
<1>6. \A h \in Heads : sink[h] = mode_active[h]
  BY <1>3, PlainScript DEF Pending, SinkInv
<1>7. \A i \in 1 .. Len(rest) : /\ rest[i] = script[i + 1] /\ i + 1 \in Indices /\ i + 1 # 1
                               /\ rest[i].do \in Pending /\ rest[i].head \in Heads
  BY <1>4, <1>5, Zenon
<1>8. Len(rest) \in Nat
  <2>1. \A n \in Nat : n >= 1 => n - 1 \in Nat
    OBVIOUS
  <2> QED
    BY <1>1, <2>1, Zenon
<1> QED
  BY <1>1, <1>2, <1>6, <1>7, <1>8, Zenon

LEMMA BeginModeSink ==
  ASSUME Types, Types', SinkInv, script # <<>>, BeginMode
  PROVE  SinkInv'
<1>0. PICK h \in Heads : h = script[1].head
  BY BeginModeScript
<1> DEFINE rest == Tail(script)
           seal == StreamPrefix(h)
<1>1. PICK q, p, o, r \in Nat : ModeScript(script', h, seal, inner_counter, rest, q, p, o, r)
  BY <1>0, BeginModeScript
<1>2. /\ script[1].do = "begin" /\ inner_counter \in Counters /\ UNCHANGED <<mode_active, sink, unseen>>
  BY BeginModeScript DEF dockVars, streamVars
<1>3. /\ Len(rest) \in Nat
      /\ \A i \in 1 .. Len(rest) : /\ rest[i] = script[i + 1] /\ i + 1 \in Indices
                                   /\ rest[i].do \in Pending /\ rest[i].head \in Heads
      /\ \A g \in Heads : sink[g] = mode_active[g]
  BY <1>2, PendingRest DEF Pending
<1> HIDE DEF rest, seal
<1>4. /\ q \in 1 .. 5 /\ q < p /\ p < o /\ o < r /\ Len(script') = r + Len(rest)
  BY <1>1 DEF ModeScript
<1>5. /\ \A i \in 1 .. q - 1 : script'[i].do \in {"message", "sink"} /\ (script'[i].do = "sink" => script'[i].head = h)
      /\ \A i \in q + 1 .. o - 1 : /\ script'[i].do \in {"message", "sink", "prologue", "paced"}
                                   /\ script'[i].do = "sink" => script'[i].head = h
      /\ \A i \in p + 1 .. o - 1 : script'[i].do \in {"message", "paced"}
      /\ \A i \in o + 1 .. r - 1 : /\ script'[i].do \in {"message", "sink", "carrier"}
                                   /\ script'[i].do # "message" => script'[i].head = h
                                   /\ script'[i].do = "sink" => script'[i].up = TRUE
      /\ script'[r].do = "programmed" /\ script'[r].head = h
      /\ \A i \in r + 1 .. Len(script') : script'[i] = rest[i - r]
  BY <1>1 DEF ModeScript, AheadSteps, TurnSteps, LitSteps
<1>6. script'[o].do = "opening" /\ script'[o].head = h /\ script'[q].do = "set_mode"
  <2>1. ModeKinds(script', h, seal, inner_counter, rest, q, p, o, r)
    BY <1>1, ModeScriptAt, Zenon
  <2> QED
    BY <2>1, Zenon DEF ModeKinds
<1>7. script'[p].do = "sink" /\ script'[p].head = h /\ script'[p].up = TRUE
  <2> DEFINE m == StreamMarker2e(h, TRUE)
  <2>1. m.do = "sink" /\ m.head = h /\ m.up = TRUE
    BY <1>2, SinkSteps
  <2>2. script'[p] = m
    BY <1>1 DEF ModeScript
  <2> HIDE DEF m
  <2> QED
    BY <2>1, <2>2
<1>8. \A i \in r + 1 .. Len(script') : /\ script'[i] = rest[i - r] /\ i - r \in 1 .. Len(rest)
                                       /\ script'[i].do \in Pending
  <2>1. \A i \in r + 1 .. Len(script') : i - r \in 1 .. Len(rest)
    BY <1>3, <1>4, SecondPart, Zenon
  <2>2. \A i \in r + 1 .. Len(script') : script'[i] = rest[i - r]
    BY <1>5, Zenon
  <2> QED
    BY <1>3, <2>1, <2>2, Zenon
<1>9. \A i \in 1 .. r : /\ script'[i].do \notin Pending \cup {"probe", "await", "picture", "black"}
                        /\ script'[i].do \in Frames => i >= o /\ script'[i].head = h
                        /\ script'[i].do = "sink" => script'[i].head = h
                        /\ script'[i].do = "programmed" => script'[i].head = h
  <2>1. \A i \in 1 .. r : i \in 1 .. q - 1 \/ i = q \/ i \in q + 1 .. o - 1 \/ (i = o /\ i >= o)
                          \/ (i \in o + 1 .. r - 1 /\ i >= o) \/ i = r
    BY <1>4
  <2> QED
    BY <1>5, <1>6, <2>1 DEF Pending, Frames
<1>10. \A i \in Indices' : i \in Nat /\ (i \in 1 .. r \/ i \in r + 1 .. Len(script'))
  BY <1>4 DEF Indices
<1>11. \A i \in p .. Len(script') : Marks(script'[i], h) => script'[i].up = TRUE
  <2> SUFFICES ASSUME NEW i \in p .. Len(script'), Marks(script'[i], h) PROVE script'[i].up = TRUE
    OBVIOUS
  <2>1. \/ i = p \/ i \in p + 1 .. o - 1 \/ i = o \/ i \in o + 1 .. r - 1 \/ i = r \/ i \in r + 1 .. Len(script')
    BY <1>4
  <2>2. script'[i].do = "sink"
    BY DEF Marks
  <2>3. ~(i \in p + 1 .. o - 1) /\ i # o /\ i # r /\ ~(i \in r + 1 .. Len(script'))
    BY <1>5, <1>6, <1>8, <2>2 DEF Pending
  <2> QED
    BY <1>5, <1>7, <2>1, <2>2, <2>3
<1>12. \A i, j \in Indices' : i < j /\ script'[i].do \in Pending => script'[j].do \in Pending
  <2>1. \A i, j \in Indices' : i < j /\ i \in r + 1 .. Len(script') => j \in r + 1 .. Len(script')
    BY <1>4 DEF Indices
  <2> QED
    BY <1>8, <1>9, <1>10, <2>1
<1>13. \A i \in Indices' : script'[i].do \notin {"probe", "await"}
  BY <1>8, <1>9, <1>10 DEF Pending
<1>14. \A i \in Indices' : script'[i].do = "blank" =>
         /\ mode_active'[script'[i].head]
         /\ \A j \in Indices' : script'[j].do = "blank" /\ script'[j].head = script'[i].head => j = i
  <2>1. \A i \in Indices' : script'[i].do = "blank" =>
          script'[i] = script[(i - r) + 1] /\ (i - r) + 1 \in Indices /\ i \in Nat
    BY <1>3, <1>8, <1>9, <1>10, ZenonT(40) DEF Pending
  <2>2. \A i, j \in Nat : (i - r) + 1 = (j - r) + 1 => i = j
    OBVIOUS
  <2>3. \A i \in Indices : script[i].do = "blank" =>
          /\ mode_active[script[i].head]
          /\ \A j \in Indices : script[j].do = "blank" /\ script[j].head = script[i].head => j = i
    BY DEF SinkInv, Does
  <2>4. ASSUME NEW i \in Indices', script'[i].do = "blank"
        PROVE  mode_active'[script'[i].head]
    <3>1. mode_active[script[(i - r) + 1].head] /\ script'[i] = script[(i - r) + 1]
      BY <2>1, <2>3, <2>4
    <3>2. mode_active' = mode_active
      BY <1>2
    <3> QED
      BY <3>1, <3>2
  <2>5. ASSUME NEW i \in Indices', script'[i].do = "blank", NEW j \in Indices', script'[j].do = "blank",
               script'[j].head = script'[i].head
        PROVE  j = i
    <3>1. (j - r) + 1 = (i - r) + 1 /\ i \in Nat /\ j \in Nat
      BY <2>1, <2>3, <2>5
    <3> QED
      BY <2>2, <3>1
  <2> QED
    BY <2>4, <2>5
<1>15. \A i \in Indices' : script'[i].do \in Frames =>
         SinkBefore(script', i, script'[i].head, sink'[script'[i].head], TRUE)
  <2> SUFFICES ASSUME NEW i \in Indices', script'[i].do \in Frames
               PROVE  SinkBefore(script', i, script'[i].head, sink'[script'[i].head], TRUE)
    OBVIOUS
  <2>1. script'[i].head = h /\ i >= o /\ i \in Nat
    BY <1>8, <1>9, <1>10 DEF Pending, Frames
  <2>2. p \in 1 .. i - 1 /\ \A j \in p .. i - 1 : j \in p .. Len(script')
    BY <1>4, <2>1 DEF Indices
  <2>3. Marks(script'[p], h)
    BY <1>7 DEF Marks
  <2>4. SinkBefore(script', i, h, sink'[h], TRUE)
    BY <1>11, <2>1, <2>2, <2>3, MarkedLast
  <2> QED
    BY <2>1, <2>4
<1>16. SinkBefore(script', Len(script') + 1, h, sink'[h], EndsActive(h)')
  <2> DEFINE n == Len(script') + 1
  <2>1. n \in Nat /\ n - 1 = Len(script') /\ p \in 1 .. n - 1 /\ r \in Indices'
    BY <1>3, <1>4 DEF Indices
  <2>2. EndsActive(h)' = TRUE
    <3>1. EndsActive(h)'
      BY <1>5, <2>1, Zenon DEF EndsActive, Does
    <3>2. EndsActive(h)' \in BOOLEAN
      BY DEF EndsActive
    <3> QED
      BY <3>1, <3>2
  <2> HIDE DEF n
  <2>3. SinkBefore(script', n, h, sink'[h], TRUE)
    <3>1. Marks(script'[p], h)
      BY <1>7 DEF Marks
    <3>2. \A j \in p .. n - 1 : Marks(script'[j], h) => script'[j].up = TRUE
      BY <1>11, <2>1
    <3> QED
      BY <2>1, <3>1, <3>2, MarkedLast
  <2> QED
    BY <2>2, <2>3 DEF n
<1>17. ASSUME NEW g \in Heads, g # h
       PROVE  SinkBefore(script', Len(script') + 1, g, sink'[g], EndsActive(g)')
  <2> DEFINE n == Len(script') + 1
  <2>1. n \in Nat /\ n - 1 = Len(script')
    BY <1>3, <1>4
  <2>2. \A i \in Indices' : ~Marks(script'[i], g) /\ ~(script'[i].do = "programmed" /\ script'[i].head = g)
    BY <1>8, <1>9, <1>10, <1>17 DEF Marks, Pending
  <2>3. EndsActive(g)' = mode_active'[g]
    <3>1. mode_active'[g] \in BOOLEAN
      BY DEF Types
    <3> QED
      BY <2>2, <3>1 DEF EndsActive, Does
  <2> HIDE DEF n
  <2>4. \A j \in 1 .. n - 1 : ~Marks(script'[j], g)
    BY <2>1, <2>2 DEF Indices
  <2>5. sink'[g] = EndsActive(g)'
    BY <1>2, <1>3, <2>3
  <2> QED
    BY <2>1, <2>4, <2>5, Unmarked, ZenonT(40) DEF n
<1>18. ~unseen'
  BY <1>2 DEF SinkInv
<1>19. \A g \in Heads : SinkBefore(script', Len(script') + 1, g, sink'[g], EndsActive(g)')
  BY <1>16, <1>17, Zenon
<1> QED
  BY <1>12, <1>13, <1>14, <1>15, <1>18, <1>19 DEF SinkInv, Does

LEMMA BeginBlankSink ==
  ASSUME Types, Types', SinkInv, script # <<>>, BeginBlank
  PROVE  SinkInv'
<1>0. PICK h \in Heads : h = script[1].head
  BY BeginBlankScript
<1> DEFINE rest == Tail(script)
<1>1. PICK b, d, r \in Nat : BlankScript(script', h, rest, b, d, r)
  BY <1>0, BeginBlankScript
<1>2. /\ script[1].do = "blank" /\ mode_active' = [mode_active EXCEPT ![h] = FALSE] /\ UNCHANGED <<sink, unseen>>
      /\ mode_active \in [Heads -> BOOLEAN]
  BY <1>0, BeginBlankScript DEF dockVars, streamVars, Types
<1>3. /\ Len(rest) \in Nat /\ 1 \in Indices
      /\ \A i \in 1 .. Len(rest) : /\ rest[i] = script[i + 1] /\ i + 1 \in Indices /\ i + 1 # 1
                                   /\ rest[i].do \in Pending /\ rest[i].head \in Heads
      /\ \A g \in Heads : sink[g] = mode_active[g]
  BY <1>2, PendingRest DEF Pending
<1> HIDE DEF rest
<1>4. /\ b < d /\ d <= r /\ Len(script') = r + Len(rest)
      /\ \A i \in 1 .. b : script'[i].do = "black" /\ script'[i].head = h
      /\ \A i \in b + 1 .. r : script'[i].do \in {"message", "sink"} /\ (script'[i].do = "sink" => script'[i].head = h)
      /\ \A i \in d + 1 .. r : script'[i].do = "message"
      /\ \A i \in r + 1 .. Len(script') : script'[i] = rest[i - r]
  BY <1>1 DEF BlankScript, AheadSteps
<1>5. script'[d].do = "sink" /\ script'[d].head = h /\ script'[d].up = FALSE
  <2> DEFINE m == StreamMarker2e(h, FALSE)
  <2>1. m.do = "sink" /\ m.head = h /\ m.up = FALSE
    BY SinkSteps
  <2>2. script'[d] = m
    BY <1>1 DEF BlankScript
  <2> HIDE DEF m
  <2> QED
    BY <2>1, <2>2
<1>6. \A i \in r + 1 .. Len(script') : /\ script'[i] = rest[i - r] /\ i - r \in 1 .. Len(rest)
                                       /\ script'[i].do \in Pending
  <2>1. \A i \in r + 1 .. Len(script') : i - r \in 1 .. Len(rest)
    BY <1>3, <1>4, SecondPart, Zenon
  <2>2. \A i \in r + 1 .. Len(script') : script'[i] = rest[i - r]
    BY <1>4, Zenon
  <2> QED
    BY <1>3, <2>1, <2>2, Zenon
<1>7. \A i \in 1 .. r : /\ script'[i].do \in {"black", "message", "sink"}
                        /\ script'[i].do = "black" => i \in 1 .. b /\ script'[i].head = h
                        /\ script'[i].do = "sink" => script'[i].head = h
  <2>1. \A i \in 1 .. r : i \in 1 .. b \/ i \in b + 1 .. r
    BY TwoParts, Zenon
  <2> QED
    BY <1>4, <2>1
<1>8. \A i \in Indices' : i \in Nat /\ (i \in 1 .. r \/ i \in r + 1 .. Len(script'))
  BY <1>4 DEF Indices
<1>9. ~unseen'
  BY <1>2 DEF SinkInv
<1>10. \A i, j \in Indices' : i < j /\ script'[i].do \in Pending => script'[j].do \in Pending
  <2>1. \A i, j \in Indices' : i < j /\ i \in r + 1 .. Len(script') => j \in r + 1 .. Len(script')
    <3> SUFFICES ASSUME NEW i \in 1 .. Len(script'), NEW j \in 1 .. Len(script'), i < j, i \in r + 1 .. Len(script')
                 PROVE  j \in r + 1 .. Len(script')
      BY DEF Indices
    <3> QED
      BY <1>4
  <2> QED
    BY <1>6, <1>7, <1>8, <2>1 DEF Pending
<1>11. \A i \in Indices' : script'[i].do \notin {"probe", "await", "programmed"}
  BY <1>6, <1>7, <1>8 DEF Pending
<1>12. \A i \in Indices : script[i].do = "blank" =>
         /\ mode_active[script[i].head]
         /\ \A j \in Indices : script[j].do = "blank" /\ script[j].head = script[i].head => j = i
  BY DEF SinkInv, Does
<1>13. \A i \in Indices' : script'[i].do = "blank" =>
         /\ script'[i] = script[(i - r) + 1] /\ (i - r) + 1 \in Indices /\ (i - r) + 1 # 1
         /\ i \in Nat /\ script'[i].head \in Heads
  <2> SUFFICES ASSUME NEW i \in Indices', script'[i].do = "blank"
               PROVE  /\ script'[i] = script[(i - r) + 1] /\ (i - r) + 1 \in Indices /\ (i - r) + 1 # 1
                      /\ i \in Nat /\ script'[i].head \in Heads
    OBVIOUS
  <2>1. i \in r + 1 .. Len(script') /\ i \in Nat
    BY <1>7, <1>8
  <2>2. script'[i] = rest[i - r] /\ i - r \in 1 .. Len(rest)
    BY <1>6, <2>1
  <2> QED
    BY <1>3, <2>1, <2>2
<1>14. \A i \in Indices' : script'[i].do = "blank" =>
         /\ mode_active'[script'[i].head]
         /\ \A j \in Indices' : script'[j].do = "blank" /\ script'[j].head = script'[i].head => j = i
  <2>1. ASSUME NEW i \in Indices', script'[i].do = "blank"
        PROVE  mode_active'[script'[i].head]
    <3>1. mode_active[script'[i].head] /\ script'[i].head # h
      <4> DEFINE m == (i - r) + 1
      <4>1. m \in Indices /\ m # 1 /\ script'[i] = script[m] /\ script[m].do = "blank"
        BY <1>13, <2>1
      <4> HIDE DEF m
      <4>2. mode_active[script[m].head]
        BY <1>12, <4>1
      <4>3. script[m].head # h
        BY <1>0, <1>2, <1>3, <1>12, <4>1
      <4> QED
        BY <4>1, <4>2, <4>3
    <3> QED
      BY <1>2, <1>13, <2>1, <3>1
  <2>2. ASSUME NEW i \in Indices', script'[i].do = "blank", NEW j \in Indices', script'[j].do = "blank",
               script'[j].head = script'[i].head
        PROVE  j = i
    <3>1. (j - r) + 1 = (i - r) + 1 /\ i \in Nat /\ j \in Nat
      BY <1>12, <1>13, <2>2
    <3> QED
      BY <3>1
  <2> QED
    BY <2>1, <2>2
<1>15. sink[h] = TRUE
  <2>1. mode_active[h] /\ mode_active[h] \in BOOLEAN
    BY <1>0, <1>2, <1>3, <1>12
  <2> QED
    BY <1>3, <2>1
<1>16. \A i \in Indices' : script'[i].do \in Frames =>
         SinkBefore(script', i, script'[i].head, sink'[script'[i].head], TRUE)
  <2> SUFFICES ASSUME NEW i \in Indices', script'[i].do \in Frames
               PROVE  SinkBefore(script', i, script'[i].head, sink'[script'[i].head], TRUE)
    OBVIOUS
  <2>1. script'[i].head = h /\ i \in Nat /\ i \in 1 .. b
    BY <1>6, <1>7, <1>8 DEF Pending, Frames
  <2>2. \A j \in 1 .. i - 1 : j \in 1 .. b
    BY <2>1
  <2>3. \A j \in 1 .. i - 1 : ~Marks(script'[j], h)
    BY <1>4, <2>2 DEF Marks
  <2>4. sink'[h] = TRUE
    BY <1>2, <1>15
  <2>5. SinkBefore(script', i, h, sink'[h], TRUE)
    BY <2>1, <2>3, <2>4, StaysUnmarked
  <2> QED
    BY <2>1, <2>5
<1>17. \A g \in Heads : EndsActive(g)' = mode_active'[g]
  <2>1. mode_active' \in [Heads -> BOOLEAN]
    BY DEF Types
  <2> QED
    BY <1>11, <2>1 DEF EndsActive, Does
<1>18. SinkBefore(script', Len(script') + 1, h, sink'[h], EndsActive(h)')
  <2> DEFINE n == Len(script') + 1
  <2>1. n \in Nat /\ n - 1 = Len(script') /\ d \in 1 .. n - 1
    <3>1. Len(script') = r + Len(rest) /\ Len(rest) \in Nat /\ b < d /\ d <= r
      BY <1>3, <1>4, Zenon
    <3> QED
      BY <3>1
  <2>2. EndsActive(h)' = FALSE
    BY <1>2, <1>17
  <2> HIDE DEF n
  <2>3. \A j \in d .. n - 1 : j = d \/ j \in d + 1 .. r \/ j \in r + 1 .. Len(script')
    BY <1>4, <2>1
  <2>4. \A j \in d .. n - 1 : Marks(script'[j], h) => script'[j].up = FALSE
    BY <1>4, <1>5, <1>6, <2>3 DEF Marks, Pending
  <2>5. Marks(script'[d], h)
    BY <1>5 DEF Marks
  <2>6. SinkBefore(script', n, h, sink'[h], FALSE)
    BY <2>1, <2>4, <2>5, MarkedLast
  <2> QED
    BY <2>2, <2>6 DEF n
<1>19. ASSUME NEW g \in Heads, g # h
       PROVE  SinkBefore(script', Len(script') + 1, g, sink'[g], EndsActive(g)')
  <2> DEFINE n == Len(script') + 1
  <2>1. n \in Nat /\ n - 1 = Len(script')
    BY <1>3, <1>4
  <2>2. \A i \in Indices' : ~Marks(script'[i], g)
    BY <1>6, <1>7, <1>8, <1>19 DEF Marks, Pending
  <2>3. sink'[g] = EndsActive(g)'
    BY <1>2, <1>3, <1>17, <1>19
  <2> HIDE DEF n
  <2>4. \A j \in 1 .. n - 1 : ~Marks(script'[j], g)
    BY <2>1, <2>2 DEF Indices
  <2> QED
    BY <2>1, <2>3, <2>4, Unmarked, ZenonT(40) DEF n
<1>20. \A g \in Heads : SinkBefore(script', Len(script') + 1, g, sink'[g], EndsActive(g)')
  BY <1>18, <1>19, Zenon
<1> QED
  BY <1>9, <1>10, <1>11, <1>14, <1>16, <1>20 DEF SinkInv, Does

\* A script that was put in the place of one with no marker and no mode set.
LEMMA PlainSink ==
  ASSUME Types, Types', SinkInv, \A i \in Indices : script[i].do \notin {"sink", "programmed"},
         UNCHANGED <<mode_active, sink, unseen>>,
         \A i \in Indices' :
           /\ script'[i].do \in {"begin", "blank", "picture", "presented", "message", "image", "move", "probe", "await"}
           /\ script'[i].do \in {"blank", "picture"} => mode_active[script'[i].head]
           /\ script'[i].do \in {"probe", "await"} => Len(script') = 1,
         \A i, j \in Indices' : i < j /\ script'[i].do \in Pending => script'[j].do \in Pending,
         \A i, j \in Indices' : script'[i].do = "blank" /\ script'[j].do = "blank" /\ script'[i].head = script'[j].head => i = j
  PROVE  SinkInv'
<1>1. \A h \in Heads : sink[h] = mode_active[h]
  BY PlainScript DEF SinkInv
<1>2. \A h \in Heads : SinkBefore(script', Len(script') + 1, h, sink'[h], EndsActive(h)')
  BY <1>1, PlainScriptPrimed
<1>3. ASSUME NEW i \in Indices', script'[i].do \in Frames
      PROVE  SinkBefore(script', i, script'[i].head, sink'[script'[i].head], TRUE)
  <2> DEFINE h == script'[i].head
  <2>1. i \in Nat /\ script'[i] \in Steps /\ script'[i].do = "picture"
    <3>1. i \in Nat /\ script'[i] \in Steps
      BY ScriptStepsPrimed
    <3> QED
      BY <1>3, <3>1 DEF Frames
  <2>2. h \in Heads /\ mode_active[h] /\ mode_active[h] \in BOOLEAN
    BY <2>1, StepFields DEF Types
  <2>3. sink'[h] = TRUE
    BY <1>1, <2>2
  <2>4. \A j \in 1 .. i - 1 : ~Marks(script'[j], h)
    <3>1. \A j \in 1 .. i - 1 : j \in Indices'
      <4>1. Len(script') \in Nat /\ i \in Nat /\ i <= Len(script')
        BY ScriptStepsPrimed
      <4> QED
        BY <4>1 DEF Indices
    <3> QED
      BY <3>1 DEF Marks
  <2> HIDE DEF h
  <2>5. SinkBefore(script', i, h, sink'[h], TRUE)
    BY <2>1, <2>3, <2>4, Unmarked
  <2> QED
    BY <2>5 DEF h
<1>4. ~unseen'
  BY DEF SinkInv
<1>5. \A i \in Indices' : script'[i].do = "blank" => mode_active'[script'[i].head]
  <2>1. mode_active' = mode_active
    OBVIOUS
  <2> QED
    BY <2>1
<1> QED
  BY <1>2, <1>3, <1>4, <1>5 DEF SinkInv, Does

LEMMA NextSink ==
  ASSUME Types, Types', SinkInv, [Next]_vars
  PROVE  SinkInv'
<1>1. CASE RunStep
  <2>1. /\ script # <<>>
        /\ Advances \/ BeginMode \/ BeginBlank \/ ProbeSend \/ ProbeRead \/ ProbeGivesUp
    BY <1>1 DEF RunStep, Advances
  <2>2. CASE ProbeSend \/ ProbeRead \/ ProbeGivesUp
    <3>1. Head(script) = script[1] /\ Len(script) \in Nat /\ Len(script) >= 1 /\ Len(Tail(script)) = Len(script) - 1
      BY <2>1, FirstStep
    <3>2. script[1].do \in {"probe", "await"} /\ UNCHANGED <<mode_active, sink, unseen>>
      BY <2>2, <3>1 DEF ProbeSend, ProbeRead, ProbeGivesUp, hostVars, dockVars, streamVars
    <3>3. Len(script) = 1 /\ Indices = {1}
      <4>1. 1 \in Indices
        BY <2>1, ScriptSteps
      <4>2. Len(script) = 1
        BY <3>2, <4>1 DEF SinkInv, Does
      <4> QED
        BY <4>2 DEF Indices
    <3>4. Len(script') = 0 \/ (Len(script') = 1 /\ script'[1].do \in {"probe", "await"})
      <4>1. CASE ProbeSend
        <5>1. Len(script') = 1 /\ script'[1].do = "await"
          BY <4>1 DEF ProbeSend
        <5> QED
          BY <5>1
      <4>2. CASE script' = script
        BY <3>2, <3>3, <4>2
      <4>3. CASE script' = Tail(script)
        BY <3>1, <3>3, <4>3
      <4> QED
        BY <2>2, <4>1, <4>2, <4>3 DEF ProbeRead, ProbeGivesUp
    <3>5. \A i \in Indices' : i = 1 /\ Len(script') = 1 /\ script'[1].do \in {"probe", "await"}
      <4>1. \A i \in Indices' : Len(script') # 0 /\ (Len(script') = 1 => i = 1)
        BY DEF Indices
      <4> QED
        BY <3>4, <4>1
    <3> QED
      BY <3>2, <3>3, <3>5, PlainSink DEF Pending
  <2> QED
    BY <2>1, <2>2, AdvancesSink, BeginModeSink, BeginBlankSink
<1>2. CASE LoseSession
  <2>1. /\ script' = <<>> /\ sink' = [h \in Heads |-> FALSE] /\ mode_active' = [h \in Heads |-> FALSE] /\ unseen' = FALSE
    BY <1>2 DEF LoseSession
  <2>2. Len(script') = 0 /\ ~unseen' /\ Indices' = {} /\ \A h \in Heads : sink'[h] = mode_active'[h]
    BY <2>1 DEF Indices
  <2>3. \A h \in Heads : SinkBefore(script', Len(script') + 1, h, sink'[h], EndsActive(h)')
    BY <2>2, PlainScriptPrimed
  <2> QED
    BY <2>2, <2>3 DEF SinkInv
<1>3. CASE Request /\ ~DdcciFails
  <2>1. /\ script = <<>> /\ UNCHANGED <<mode_active, sink, unseen>> /\ AskedScript(script')
    BY <1>3, RequestScript DEF hostVars, dockVars, streamVars
  <2>2. Indices = {}
    BY <2>1 DEF Indices
  <2> QED
    BY <2>1, <2>2, PlainSink DEF AskedScript, Indices
<1>4. CASE PlugChanges \/ DdcciFails \/ Done \/ UNCHANGED vars
  <2>1. UNCHANGED <<script, mode_active, sink, unseen>>
    BY <1>4 DEF PlugChanges, DdcciFails, Done, vars, hostVars, dockVars, streamVars
  <2> QED
    BY <2>1 DEF SinkInv, EndsActive, Does, Indices
<1> QED
  BY <1>1, <1>2, <1>3, <1>4 DEF Next

-----------------------------------------------------------------------------
(***************************************************************************)
(* The pointer.                                                            *)
(***************************************************************************)
\* Behind a first step that is not part of a mode set no timing is due.
LEMMA NoTimingDue ==
  ASSUME Types, PointerInv, script = <<>> \/ script[1].do \notin Programming
  PROVE  \A i \in Indices : script[i].do # "set_mode"
<1> SUFFICES ASSUME NEW i \in Indices, script[i].do = "set_mode" PROVE FALSE
  OBVIOUS
<1>1. script # <<>> /\ i \in Nat /\ i >= 1
  BY ScriptSteps
<1>2. PICK p \in Indices : p > i /\ ProgrammedAt(p, script[i].head)
  BY DEF PointerInv, Does
<1>3. 1 \in 1 .. p - 1
  BY <1>1, <1>2 DEF Indices
<1> QED
  BY <1>1, <1>2, <1>3 DEF ProgrammedAt, Does

\* What is left of a pointer's replay.
LEMMA ReplayedMove ==
  ASSUME NEW h \in Heads, Replays(h, 1)
  PROVE  /\ cursor_shot[h] # NoPointer /\ script[1] = CursorMove(h, Place(cursor_shot[h]))
         /\ script[1].do = "move" /\ script[1].head = h /\ pointer[h].shape = cursor_shot[h].shape
<1>1. \A place : CursorMove(h, place).do = "move" /\ CursorMove(h, place).head = h
  BY DEF CursorMove
<1> QED
  BY <1>1, Zenon DEF Replays

LEMMA ReplayedImage ==
  ASSUME NEW h \in Heads, Replays(h, 2)
  PROVE  /\ cursor_shot[h] # NoPointer /\ Len(script) >= 2
         /\ script[1] = CursorImageMessage(h, cursor_shot[h].shape) /\ script[1].do = "image" /\ script[1].head = h
         /\ script[2] = CursorMove(h, Place(cursor_shot[h]))
<1>1. /\ cursor_shot[h] # NoPointer /\ Len(script) >= 2 /\ script[2] = CursorMove(h, Place(cursor_shot[h]))
      /\ script[2 - 1] = CursorImageMessage(h, cursor_shot[h].shape)
  <2>1. 2 > 1
    OBVIOUS
  <2> QED
    BY <2>1, Zenon DEF Replays
<1>2. 2 - 1 = 1
  OBVIOUS
<1>3. \A shape : CursorImageMessage(h, shape).do = "image" /\ CursorImageMessage(h, shape).head = h
  BY DEF CursorImageMessage
<1> QED
  BY <1>1, <1>2, <1>3, Zenon

LEMMA ReplayedMessage ==
  ASSUME NEW h \in Heads, Replays(h, 3)
  PROVE  /\ cursor_shot[h] # NoPointer /\ Len(script) >= 3
         /\ script[1] = Msg /\ script[1].do = "message"
         /\ script[2] = CursorImageMessage(h, cursor_shot[h].shape)
         /\ script[3] = CursorMove(h, Place(cursor_shot[h]))
<1>1. /\ cursor_shot[h] # NoPointer /\ Len(script) >= 3 /\ script[3] = CursorMove(h, Place(cursor_shot[h]))
      /\ script[3 - 1] = CursorImageMessage(h, cursor_shot[h].shape) /\ script[3 - 2] = Msg
  <2>1. 3 > 1 /\ 3 > 2
    OBVIOUS
  <2> QED
    BY <2>1, Zenon DEF Replays
<1>2. 3 - 1 = 2 /\ 3 - 2 = 1
  OBVIOUS
<1> QED
  BY <1>1, <1>2 DEF Msg

\* What a connector that is being given its pointer again has next.
LEMMA RearmingNext ==
  ASSUME Types, NEW h \in Heads, Rearming(h)
  PROVE  /\ script # <<>> /\ script[1].do \in Programming \cup {"programmed", "image", "move"}
         /\ \/ script[1].do = "programmed" /\ script[1].head = h
            \/ script[1].do \in Programming /\ \E p \in Indices : p # 1 /\ ProgrammedAt(p, h)
            \/ script[1].do = "message" /\ Replays(h, 3)
            \/ script[1].do = "image" /\ script[1].head = h /\ Replays(h, 2)
            \/ script[1].do = "move" /\ script[1].head = h /\ Replays(h, 1)
<1>1. ASSUME NEW p \in Indices, ProgrammedAt(p, h)
      PROVE  /\ script # <<>>
             /\ \/ script[1].do = "programmed" /\ script[1].head = h
                \/ script[1].do \in Programming /\ p # 1
  <2>1. script # <<>> /\ p \in Nat /\ p >= 1
    BY ScriptSteps
  <2>2. CASE p = 1
    BY <1>1, <2>1, <2>2 DEF ProgrammedAt, Does
  <2>3. CASE p # 1
    <3>1. 1 \in 1 .. p - 1
      BY <2>1, <2>3
    <3> QED
      BY <1>1, <2>1, <2>3, <3>1 DEF ProgrammedAt, Does
  <2> QED
    BY <2>2, <2>3
<1>2. ASSUME NEW n \in 1 .. 3, Replays(h, n)
      PROVE  /\ script # <<>>
             /\ \/ script[1].do = "message" /\ n = 3
                \/ script[1].do = "image" /\ script[1].head = h /\ n = 2
                \/ script[1].do = "move" /\ script[1].head = h /\ n = 1
  <2>1. n \in {1, 2, 3} /\ script # <<>>
    <3>1. n \in Nat /\ n >= 1 /\ n \in {1, 2, 3} /\ Len(script) >= n
      <4>1. Len(script) >= n
        BY <1>2, Zenon DEF Replays
      <4> QED
        BY <4>1
    <3>2. Len(script) \in Nat /\ Len(<<>>) = 0
      BY ScriptSteps
    <3> QED
      BY <3>1, <3>2
  <2>2. CASE n = 1
    BY <1>2, <2>1, <2>2, ReplayedMove
  <2>3. CASE n = 2
    BY <1>2, <2>1, <2>3, ReplayedImage
  <2>4. CASE n = 3
    BY <1>2, <2>1, <2>4, ReplayedMessage
  <2> QED
    BY <2>1, <2>2, <2>3, <2>4
<1> QED
  BY <1>1, <1>2 DEF Rearming, Programming

\* The end of a mode set comes nearer, or waits behind a poll.
LEMMA ProgrammedMoves ==
  ASSUME Types, script # <<>>, NEW steps, Advanced(steps), NEW h, NEW p \in Indices, p # 1, ProgrammedAt(p, h),
         script[1].do # "programmed"
  PROVE  LET k == Len(steps) IN p + k - 1 \in Indices' /\ ProgrammedAt(p + k - 1, h)'
<1> DEFINE k == Len(steps)
           w == p + k - 1
<1>1. /\ k \in {0, 1} /\ k \in Nat /\ Len(script') = k + Len(script) - 1 /\ Len(script) \in Nat
      /\ \A i \in 1 .. k : script'[i] = Msg
      /\ \A i \in k + 1 .. Len(script') : script'[i] = script[i - k + 1]
  BY AdvancedAt
<1>2. p \in Nat /\ p >= 2 /\ p <= Len(script)
  BY <1>1 DEF Indices
<1> HIDE DEF k
<1>3. w \in 1 .. Len(script') /\ w \in k + 1 .. Len(script') /\ w - k + 1 = p
  BY <1>1, <1>2
<1>4. \A j \in 1 .. w - 1 : j \in 1 .. k \/ (j \in k + 1 .. Len(script') /\ j - k + 1 \in 1 .. p - 1)
  BY <1>1, <1>2, <1>3
<1>5. script'[w] = script[p]
  BY <1>1, <1>3
<1>6. Msg.do \in Programming
  BY DEF Msg, Programming
<1> HIDE DEF w
<1>7. \A j \in 1 .. w - 1 : script'[j].do \in Programming
  BY <1>1, <1>4, <1>6 DEF ProgrammedAt, Does
<1>8. ProgrammedAt(w, h)' /\ w \in Indices'
  BY <1>3, <1>5, <1>7 DEF ProgrammedAt, Does, Indices
<1> QED
  BY <1>8 DEF w, k

LEMMA TimingMoves ==
  ASSUME Types, PointerInv, script # <<>>, NEW steps, Advanced(steps)
  PROVE  (\A i \in Indices : Does(i, {"set_mode"}) => \E p \in Indices : p > i /\ ProgrammedAt(p, script[i].head))'
<1> DEFINE k == Len(steps)
<1>1. /\ k \in Nat /\ Len(script') = k + Len(script) - 1 /\ Len(script) \in Nat
      /\ \A i \in 1 .. k : script'[i] = steps[i] /\ steps[i].do \in {"message", "image", "move"}
      /\ \A i \in k + 1 .. Len(script') : script'[i] = script[i - k + 1] /\ i - k + 1 \in 2 .. Len(script)
  BY AdvancedAt
<1> SUFFICES ASSUME NEW i \in Indices', script'[i].do = "set_mode", NEW g, g = script'[i].head
             PROVE  \E p \in Indices' : p > i /\ ProgrammedAt(p, g)'
  BY ZenonT(40) DEF ProgrammedAt, Does
<1>2. i \in k + 1 .. Len(script')
  <2>1. i \in 1 .. k \/ i \in k + 1 .. Len(script')
    BY <1>1 DEF Indices
  <2> QED
    BY <1>1, <2>1
<1> DEFINE m == i - k + 1
<1>3. script'[i] = script[m] /\ m \in 2 .. Len(script)
  BY <1>1, <1>2
<1>4. m \in Indices /\ m >= 2 /\ m \in Nat /\ i = m + k - 1 /\ i \in Int
  <2>1. m \in 2 .. Len(script) /\ Len(script) \in Nat /\ k \in Nat /\ i \in Int
    BY <1>1, <1>2, <1>3
  <2> HIDE DEF k
  <2>2. i = m + k - 1
    BY <2>1
  <2> HIDE DEF m
  <2> QED
    BY <2>1, <2>2 DEF Indices
<1> HIDE DEF m
<1>5. PICK p \in Indices : p > m /\ ProgrammedAt(p, g)
  BY <1>3, <1>4 DEF PointerInv, Does
<1>6. p \in Nat /\ p # 1 /\ script[1].do # "programmed"
  <2>1. p \in Nat /\ p # 1 /\ 1 \in 1 .. p - 1
    BY <1>4, <1>5 DEF Indices
  <2> QED
    BY <1>5, <2>1 DEF ProgrammedAt, Does, Programming
<1>7. p + Len(steps) - 1 \in Indices' /\ ProgrammedAt(p + Len(steps) - 1, g)'
  BY <1>5, <1>6, ProgrammedMoves
<1>8. p + Len(steps) - 1 > i
  BY <1>1, <1>4, <1>5, <1>6
<1> QED
  BY <1>7, <1>8

LEMMA RearmingMoves ==
  ASSUME Types, script # <<>>, NEW steps, Advanced(steps), NEW h, script[1].do # "programmed",
         \E p \in Indices : p # 1 /\ ProgrammedAt(p, h)
  PROVE  Rearming(h)'
<1>1. PICK p \in Indices : p # 1 /\ ProgrammedAt(p, h)
  OBVIOUS
<1>2. p + Len(steps) - 1 \in Indices' /\ ProgrammedAt(p + Len(steps) - 1, h)'
  BY <1>1, ProgrammedMoves
<1> QED
  BY <1>2 DEF Rearming

\* A pointer no step has touched.
LEMMA ShowsStill ==
  ASSUME NEW h, Shows(h), cursor_shot'[h] = cursor_shot[h], pointer'[h] = pointer[h]
  PROVE  Shows(h)'
  BY DEF Shows

\* The steps that leave the pointer alone.
LEMMA PlainPointer ==
  ASSUME Types, PointerInv, script # <<>>, Advances, UNCHANGED <<cursor_shot, pointer>>,
         script[1].do \notin {"programmed", "image", "move"}
  PROVE  PointerInv'
<1>1. PICK steps : Advanced(steps)
  BY AdvancesScript
<1>2. ASSUME NEW h \in Heads PROVE Shows(h)' \/ Rearming(h)'
  <2>1. CASE Shows(h)
    BY <2>1, ShowsStill
  <2>2. CASE Rearming(h)
    <3>1. \/ \E p \in Indices : p # 1 /\ ProgrammedAt(p, h)
          \/ script[1].do = "message" /\ Replays(h, 3)
      BY <2>2, RearmingNext
    <3>2. CASE script[1].do = "message" /\ Replays(h, 3)
      <4>1. Len(script) \in Nat /\ Len(script') = Len(script) - 1 /\ \A i \in 1 .. Len(script') : script'[i] = script[i + 1]
        <5>1. steps = <<>>
          BY <1>1, <3>2 DEF Advanced
        <5>2. Len(steps) = 0
          BY <5>1
        <5>3. /\ Len(script) \in Nat /\ Len(script') = Len(steps) + Len(script) - 1
              /\ \A i \in Len(steps) + 1 .. Len(script') : script'[i] = script[i - Len(steps) + 1]
          BY <1>1, AdvancedAt
        <5> QED
          BY <5>2, <5>3
      <4>2. /\ cursor_shot[h] # NoPointer /\ Len(script) >= 3
            /\ script[3] = CursorMove(h, Place(cursor_shot[h]))
            /\ script[2] = CursorImageMessage(h, cursor_shot[h].shape)
        BY <3>2, ReplayedMessage
      <4>3. 1 \in 1 .. Len(script') /\ 2 \in 1 .. Len(script') /\ Len(script') >= 2
        BY <4>1, <4>2
      <4>4. script'[1] = script[2] /\ script'[2] = script[3]
        BY <4>1, <4>3
      <4>5. Replays(h, 2)'
        <5>1. /\ CursorImageMessage(h, cursor_shot[h].shape)' = CursorImageMessage(h, cursor_shot[h].shape)
              /\ CursorMove(h, Place(cursor_shot[h]))' = CursorMove(h, Place(cursor_shot[h]))
          BY DEF Place, CursorMove, CursorImageMessage
        <5>2. 2 - 1 = 1 /\ ~(2 > 2) /\ 2 # 1 /\ cursor_shot'[h] # NoPointer
          BY <4>2
        <5> QED
          BY <4>2, <4>3, <4>4, <5>1, <5>2 DEF Replays
      <4> QED
        BY <4>5 DEF Rearming
    <3> QED
      BY <1>1, <3>1, <3>2, RearmingMoves
  <2> QED
    BY <2>1, <2>2 DEF PointerInv
<1>3. (\A i \in Indices : Does(i, {"set_mode"}) => \E p \in Indices : p > i /\ ProgrammedAt(p, script[i].head))'
  BY <1>1, TimingMoves
<1> QED
  BY <1>2, <1>3 DEF PointerInv

LEMMA SetModePointer ==
  ASSUME Types, PointerInv, script # <<>>, SetMode
  PROVE  PointerInv'
<1>1. PICK steps : Advanced(steps)
  BY AdvancesScript DEF Advances
<1>2. PICK g : g = script[1].head
  OBVIOUS
<1>3. /\ script[1].do = "set_mode" /\ g \in Heads /\ pointer' = [pointer EXCEPT ![g] = NoPointer]
      /\ cursor_shot' = cursor_shot /\ pointer \in [Heads -> Pointers] /\ 1 \in Indices
  <2>1. Head(script) = script[1] /\ script[1] \in Steps /\ Len(script) \in Nat /\ Len(script) >= 1
    BY FirstStep
  <2>2. /\ script[1].do = "set_mode" /\ pointer' = [pointer EXCEPT ![script[1].head] = NoPointer]
        /\ cursor_shot' = cursor_shot
    BY <2>1 DEF SetMode, hostVars
  <2>3. pointer \in [Heads -> Pointers] /\ 1 \in Indices
    BY <2>1 DEF Types, Indices
  <2>4. script[1].head \in Heads
    BY <2>1, <2>2, StepFields
  <2> QED
    BY <1>2, <2>2, <2>3, <2>4
<1>4. ASSUME NEW h \in Heads PROVE Shows(h)' \/ Rearming(h)'
  <2>1. CASE h = g
    <3>1. PICK p \in Indices : p > 1 /\ ProgrammedAt(p, h)
      BY <1>2, <1>3, <2>1 DEF PointerInv, Does
    <3>2. p # 1
      BY <3>1 DEF Indices
    <3> QED
      BY <1>1, <1>3, <3>1, <3>2, RearmingMoves
  <2>2. CASE h # g /\ Shows(h)
    BY <1>3, <2>2, ShowsStill
  <2>3. CASE Rearming(h)
    <3>1. \E p \in Indices : p # 1 /\ ProgrammedAt(p, h)
      BY <1>3, <2>3, RearmingNext
    <3> QED
      BY <1>1, <1>3, <3>1, RearmingMoves
  <2> QED
    BY <2>1, <2>2, <2>3 DEF PointerInv
<1>5. (\A i \in Indices : Does(i, {"set_mode"}) => \E p \in Indices : p > i /\ ProgrammedAt(p, script[i].head))'
  BY <1>1, TimingMoves
<1> QED
  BY <1>4, <1>5 DEF PointerInv

LEMMA ProgrammedPointer ==
  ASSUME Types, PointerInv, script # <<>>, Programmed
  PROVE  PointerInv'
<1>1. PICK g : g = script[1].head
  OBVIOUS
<1> DEFINE shot == cursor_shot[g]
           steps == RearmCursor(g)
<1>2. /\ script[1].do = "programmed" /\ g \in Heads /\ UNCHANGED <<cursor_shot, pointer>>
      /\ Tail(script) \in Seq(Steps) /\ script' = steps \o Tail(script)
  <2>1. Head(script) = script[1] /\ script[1] \in Steps /\ Tail(script) \in Seq(Steps)
    BY FirstStep
  <2> QED
    BY <1>1, <2>1, StepFields DEF Programmed, dockVars
<1>3. PICK more : Advanced(more)
  BY AdvancesScript DEF Advances
<1>4. ASSUME NEW h \in Heads, h # g PROVE Shows(h)' \/ Rearming(h)'
  <2>1. ~Rearming(h)
    BY <1>1, <1>2, <1>4, RearmingNext DEF Programming
  <2> QED
    BY <1>2, <2>1, ShowsStill DEF PointerInv
<1>5. Shows(g)' \/ Rearming(g)'
  <2>1. CASE shot = NoPointer
    BY <1>2, <2>1 DEF Shows
  <2>2. CASE shot # NoPointer
    <3> DEFINE im == CursorImageMessage(g, shot.shape)
               mv == CursorMove(g, Place(shot))
    <3>1. steps = <<Msg, im, mv>> /\ steps \in Seq(Steps)
      BY <1>2, <2>2, RearmSteps
    <3> HIDE DEF im, mv, steps
    <3>2. Len(steps) = 3 /\ steps[1] = Msg /\ steps[2] = im /\ steps[3] = mv
      BY <3>1
    <3>3. /\ Len(script') = Len(steps) + Len(Tail(script)) /\ Len(Tail(script)) \in Nat
          /\ \A i \in 1 .. Len(steps) : script'[i] = steps[i]
      BY <1>2, <3>1, Joined
    <3>4. 1 \in 1 .. Len(steps) /\ 2 \in 1 .. Len(steps) /\ 3 \in 1 .. Len(steps) /\ Len(script') >= 3
      BY <3>2, <3>3
    <3>5. script'[1] = Msg /\ script'[2] = im /\ script'[3] = mv
      BY <3>2, <3>3, <3>4
    <3>6. Replays(g, 3)'
      <4>1. im = CursorImageMessage(g, cursor_shot[g].shape)' /\ mv = CursorMove(g, Place(cursor_shot[g]))'
        BY <1>2 DEF Place, CursorMove, CursorImageMessage, im, mv
      <4>2. cursor_shot'[g] # NoPointer /\ Msg' = Msg
        BY <1>2, <2>2 DEF Msg
      <4>3. 3 - 1 = 2 /\ 3 - 2 = 1 /\ 3 # 1
        OBVIOUS
      <4> QED
        BY <3>4, <3>5, <4>1, <4>2, <4>3 DEF Replays
    <3> QED
      BY <3>6 DEF Rearming
  <2> QED
    BY <2>1, <2>2
<1>6. (\A i \in Indices : Does(i, {"set_mode"}) => \E p \in Indices : p > i /\ ProgrammedAt(p, script[i].head))'
  BY <1>3, TimingMoves
<1>7. \A h \in Heads : Shows(h)' \/ Rearming(h)'
  BY <1>4, <1>5
<1> QED
  BY <1>6, <1>7 DEF PointerInv

LEMMA ImagePointer ==
  ASSUME Types, PointerInv, script # <<>>, CursorImage
  PROVE  PointerInv'
<1>1. PICK g : g = script[1].head
  OBVIOUS
<1> DEFINE s == script[1]
           shot == cursor_shot[g]
           new == IF shot = NoPointer THEN [shape |-> s.shape, at |-> Origin, visible |-> TRUE]
                  ELSE [shot EXCEPT !.shape = s.shape]
<1>2. /\ s.do = "image" /\ g \in Heads /\ s.shape \in Shapes
      /\ pointer' = [pointer EXCEPT ![g].shape = s.shape] /\ cursor_shot' = [cursor_shot EXCEPT ![g] = new]
      /\ script' = Tail(script) /\ pointer \in [Heads -> Pointers] /\ cursor_shot \in [Heads -> Shots]
  <2>1. Head(script) = script[1] /\ script[1] \in Steps
    BY FirstStep
  <2> QED
    BY <1>1, <2>1, StepFields DEF CursorImage, Types
<1>3. PICK steps : Advanced(steps)
  BY AdvancesScript DEF Advances
<1>4. ASSUME NEW h \in Heads, h # g PROVE Shows(h)' \/ Rearming(h)'
  <2>1. ~Rearming(h)
    BY <1>1, <1>2, <1>4, RearmingNext DEF Programming
  <2>2. cursor_shot'[h] = cursor_shot[h] /\ pointer'[h] = pointer[h]
    BY <1>2, <1>4
  <2> QED
    BY <2>1, <2>2, ShowsStill DEF PointerInv
<1>5. Shows(g)' \/ Rearming(g)'
  <2>1. /\ cursor_shot'[g] = new /\ pointer'[g].shape = s.shape /\ pointer'[g].at = pointer[g].at
    <3>1. pointer[g] \in Pointers /\ pointer'[g] = [pointer[g] EXCEPT !.shape = s.shape]
      BY <1>2
    <3>2. pointer'[g].shape = s.shape /\ pointer'[g].at = pointer[g].at
      BY <3>1 DEF Pointers
    <3>3. cursor_shot'[g] = new
      BY <1>2
    <3> QED
      BY <3>2, <3>3
  <2>2. CASE shot = NoPointer
    <3>1. cursor_shot'[g] = [shape |-> s.shape, at |-> Origin, visible |-> TRUE]
      BY <2>1, <2>2
    <3>2. cursor_shot'[g].shape = s.shape /\ cursor_shot'[g].at = Origin /\ cursor_shot'[g].visible
      BY <3>1
    <3> QED
      BY <2>1, <3>2 DEF Shows
  <2>3. CASE shot # NoPointer
    <3>1. shot \in [shape : Shapes, at : Places \cup {Origin}, visible : BOOLEAN]
      BY <1>2, <2>3 DEF Shots
    <3>2. new = [shot EXCEPT !.shape = s.shape]
      BY <2>3
    <3>3. cursor_shot'[g].shape = s.shape /\ cursor_shot'[g].at = shot.at /\ cursor_shot'[g].visible = shot.visible
      BY <2>1, <3>1, <3>2, ZenonT(40)
    <3>4. CASE Shows(g)
      BY <2>1, <2>3, <3>3, <3>4 DEF Shows
    <3>5. CASE Rearming(g)
      <4>1. Replays(g, 2)
        BY <1>2, <3>5, RearmingNext DEF Programming
      <4>2. /\ script[2] = CursorMove(g, Place(shot)) /\ Len(script) >= 2
            /\ s = CursorImageMessage(g, shot.shape)
        BY <1>2, <4>1, ReplayedImage
      <4>3. s.shape = shot.shape
        BY <4>2 DEF CursorImageMessage
      <4>4. script'[1] = script[2] /\ Len(script') >= 1
        <5>1. /\ Len(script) \in Nat /\ Len(Tail(script)) = Len(script) - 1
              /\ \A i \in 1 .. Len(script) - 1 : Tail(script)[i] = script[i + 1]
          BY FirstStep
        <5>2. 1 \in 1 .. Len(script) - 1 /\ 1 + 1 = 2
          BY <4>2, <5>1
        <5> QED
          BY <1>2, <4>2, <5>1, <5>2
      <4>5. Place(cursor_shot[g])' = Place(shot)
        BY <3>3 DEF Place
      <4>6. cursor_shot'[g] # NoPointer
        <5>1. cursor_shot'[g] = shot
          BY <2>1, <3>1, <3>2, <4>3
        <5> QED
          BY <2>3, <5>1
      <4>7. Replays(g, 1)'
        BY <2>1, <3>3, <4>2, <4>4, <4>5, <4>6 DEF Replays, CursorMove
      <4> QED
        BY <4>7 DEF Rearming
    <3> QED
      BY <1>2, <3>4, <3>5 DEF PointerInv
  <2> QED
    BY <2>2, <2>3
<1>6. (\A i \in Indices : Does(i, {"set_mode"}) => \E p \in Indices : p > i /\ ProgrammedAt(p, script[i].head))'
  BY <1>3, TimingMoves
<1>7. \A h \in Heads : Shows(h)' \/ Rearming(h)'
  BY <1>4, <1>5
<1> QED
  BY <1>6, <1>7 DEF PointerInv

LEMMA MovePointer ==
  ASSUME Types, PointerInv, script # <<>>, CursorMoves
  PROVE  PointerInv'
<1>1. PICK g : g = script[1].head
  OBVIOUS
<1> DEFINE s == script[1]
           shot == cursor_shot[g]
           new == IF shot = NoPointer THEN shot ELSE Moved(shot, s.at)
<1>2. /\ s.do = "move" /\ g \in Heads
      /\ pointer' = [pointer EXCEPT ![g].at = s.at] /\ cursor_shot' = [cursor_shot EXCEPT ![g] = new]
      /\ pointer \in [Heads -> Pointers] /\ cursor_shot \in [Heads -> Shots]
  <2>1. Head(script) = script[1] /\ script[1] \in Steps
    BY FirstStep
  <2> QED
    BY <1>1, <2>1, StepFields DEF CursorMoves, Types
<1>3. PICK steps : Advanced(steps)
  BY AdvancesScript DEF Advances
<1>4. ASSUME NEW h \in Heads, h # g PROVE Shows(h)' \/ Rearming(h)'
  <2>1. ~Rearming(h)
    BY <1>1, <1>2, <1>4, RearmingNext DEF Programming
  <2>2. cursor_shot'[h] = cursor_shot[h] /\ pointer'[h] = pointer[h]
    BY <1>2, <1>4
  <2> QED
    BY <2>1, <2>2, ShowsStill DEF PointerInv
<1>5. Shows(g)'
  <2>1. cursor_shot'[g] = new /\ pointer'[g].at = s.at /\ pointer'[g].shape = pointer[g].shape
    <3>1. pointer[g] \in Pointers /\ pointer'[g] = [pointer[g] EXCEPT !.at = s.at]
      BY <1>2
    <3>2. pointer'[g].at = s.at /\ pointer'[g].shape = pointer[g].shape
      BY <3>1 DEF Pointers
    <3>3. cursor_shot'[g] = new
      BY <1>2
    <3> QED
      BY <3>2, <3>3
  <2>2. CASE shot = NoPointer
    BY <2>1, <2>2 DEF Shows
  <2>3. CASE shot # NoPointer
    <3>1. shot \in [shape : Shapes, at : Places \cup {Origin}, visible : BOOLEAN]
      BY <1>2, <2>3 DEF Shots
    <3>2. new = Moved(shot, s.at)
      BY <2>3
    <3>3. pointer[g].shape = shot.shape
      <4>1. CASE Shows(g)
        BY <2>3, <4>1 DEF Shows
      <4>2. CASE Rearming(g)
        <5>1. Replays(g, 1)
          BY <1>2, <4>2, RearmingNext DEF Programming
        <5> QED
          BY <5>1 DEF Replays
      <4> QED
        BY <1>2, <4>1, <4>2 DEF PointerInv
    <3>4. CASE s.at = Hidden
      <4>1. cursor_shot'[g] = [shot EXCEPT !.visible = FALSE]
        BY <2>1, <3>2, <3>4 DEF Moved
      <4>2. cursor_shot'[g].shape = shot.shape /\ ~cursor_shot'[g].visible
        BY <3>1, <4>1
      <4> QED
        BY <2>1, <3>3, <3>4, <4>2 DEF Shows
    <3>5. CASE s.at # Hidden
      <4>1. cursor_shot'[g] = [shot EXCEPT !.at = s.at, !.visible = TRUE]
        BY <2>1, <3>2, <3>5 DEF Moved
      <4>2. cursor_shot'[g].shape = shot.shape /\ cursor_shot'[g].visible /\ cursor_shot'[g].at = s.at
        BY <3>1, <4>1
      <4> QED
        BY <2>1, <3>3, <4>2 DEF Shows
    <3> QED
      BY <3>4, <3>5
  <2> QED
    BY <2>2, <2>3
<1>6. (\A i \in Indices : Does(i, {"set_mode"}) => \E p \in Indices : p > i /\ ProgrammedAt(p, script[i].head))'
  BY <1>3, TimingMoves
<1>7. \A h \in Heads : Shows(h)' \/ Rearming(h)'
  BY <1>4, <1>5
<1> QED
  BY <1>6, <1>7 DEF PointerInv

LEMMA AdvancesPointer ==
  ASSUME Types, PointerInv, script # <<>>, Advances
  PROVE  PointerInv'
<1>1. Head(script) = script[1]
  BY FirstStep
<1>2. CASE \/ Message \/ SinkMarker \/ Prologue \/ Paced \/ Opening \/ Carrier \/ Picture \/ Presented \/ Black
  <2>1. UNCHANGED <<cursor_shot, pointer>> /\ script[1].do \notin {"programmed", "image", "move"}
    BY <1>1, <1>2 DEF Message, SinkMarker, Prologue, Paced, Opening, Carrier, Picture, Presented, Black,
                      hostVars, dockVars
  <2> QED
    BY <2>1, PlainPointer
<1> QED
  BY <1>2, SetModePointer, ProgrammedPointer, ImagePointer, MovePointer DEF Advances

\* Where no mode set is under way and nothing is replayed every pointer shows.
LEMMA NoneRearming ==
  ASSUME Types, PointerInv, script = <<>> \/ script[1].do \notin Programming \cup {"programmed", "image", "move"}
  PROVE  (\A h \in Heads : Shows(h)) /\ \A i \in Indices : script[i].do # "set_mode"
  BY RearmingNext, NoTimingDue DEF PointerInv

LEMMA BeginPointer ==
  ASSUME Types, PointerInv, script # <<>>, BeginMode \/ BeginBlank
  PROVE  PointerInv'
<1> DEFINE rest == Tail(script)
<1>0. PICK h \in Heads : h = script[1].head
  BY BeginModeScript, BeginBlankScript
<1>1. /\ script[1].do \in {"begin", "blank"} /\ UNCHANGED <<cursor_shot, pointer>> /\ inner_counter \in Counters
  BY BeginModeScript, BeginBlankScript DEF dockVars, Types
<1>2. (\A g \in Heads : Shows(g)) /\ \A i \in Indices : script[i].do # "set_mode"
  BY <1>1, NoneRearming DEF Programming
<1>3. \A g \in Heads : Shows(g)'
  BY <1>1, <1>2, ShowsStill
<1>4. Len(rest) \in Nat /\ \A i \in 1 .. Len(rest) : rest[i].do # "set_mode"
  <2>1. /\ Len(rest) = Len(script) - 1 /\ Len(script) \in Nat /\ Len(script) >= 1
        /\ \A i \in 1 .. Len(script) - 1 : rest[i] = script[i + 1]
    BY FirstStep
  <2>2. Len(rest) \in Nat /\ \A i \in 1 .. Len(rest) : i + 1 \in Indices
    BY <2>1 DEF Indices
  <2> QED
    BY <1>2, <2>1, <2>2
<1> HIDE DEF rest
<1>5. CASE BeginMode
  <2> DEFINE seal == StreamPrefix(h)
  <2>1. PICK q, p, o, r \in Nat : ModeKinds(script', h, seal, inner_counter, rest, q, p, o, r)
    <3>1. PICK q, p, o, r \in Nat : ModeScript(script', h, seal, inner_counter, rest, q, p, o, r)
      BY <1>0, <1>5, BeginModeScript DEF rest
    <3> HIDE DEF seal
    <3>2. ModeKinds(script', h, seal, inner_counter, rest, q, p, o, r)
      BY <3>1, ModeScriptAt, Zenon
    <3> QED
      BY <3>2, Zenon
  <2> HIDE DEF seal
  <2>2. /\ q \in 1 .. 5 /\ q < p /\ p < o /\ o < r /\ Len(script') = r + Len(rest)
    BY <2>1 DEF ModeKinds
  <2>3. /\ \A i \in 1 .. q - 1 : script'[i].do \in {"message", "sink"}
        /\ \A i \in q + 1 .. o - 1 : script'[i].do \in {"message", "sink", "prologue", "paced"}
        /\ \A i \in o + 1 .. r - 1 : script'[i].do \in {"message", "sink", "carrier"}
        /\ script'[r].do = "programmed" /\ script'[r].head = h
        /\ \A i \in r + 1 .. Len(script') : script'[i] = rest[i - r]
    BY <2>1 DEF ModeKinds
  <2>4. script'[o].do = "opening" /\ script'[q].do = "set_mode" /\ script'[q].head = h
    BY <2>1 DEF ModeKinds
  <2>5. \A i \in Indices' : script'[i].do = "set_mode" => i = q
    <3> SUFFICES ASSUME NEW i \in Indices', script'[i].do = "set_mode" PROVE i = q
      OBVIOUS
    <3>1. \/ i \in 1 .. q - 1 \/ i = q \/ i \in q + 1 .. o - 1 \/ i = o \/ i \in o + 1 .. r - 1 \/ i = r
          \/ i \in r + 1 .. Len(script') /\ i - r \in 1 .. Len(rest)
      BY <1>4, <2>2 DEF Indices
    <3>2. ~(i \in r + 1 .. Len(script') /\ i - r \in 1 .. Len(rest))
      BY <1>4, <2>3
    <3> QED
      BY <2>3, <2>4, <3>1, <3>2
  <2>6. \A j \in 1 .. r - 1 : script'[j].do \in Programming
    <3>1. \A j \in 1 .. r - 1 : \/ j \in 1 .. q - 1 \/ j = q \/ j \in q + 1 .. o - 1 \/ j = o \/ j \in o + 1 .. r - 1
      BY <2>2
    <3> QED
      BY <2>3, <2>4, <3>1 DEF Programming
  <2>7. r \in Indices' /\ r > q
    BY <1>4, <2>2 DEF Indices
  <2>8. ProgrammedAt(r, h)'
    BY <2>3, <2>6 DEF ProgrammedAt, Does
  <2>9. (\A i \in Indices : Does(i, {"set_mode"}) => \E w \in Indices : w > i /\ ProgrammedAt(w, script[i].head))'
    <3> SUFFICES ASSUME NEW i \in Indices', script'[i].do = "set_mode", NEW g, g = script'[i].head
                 PROVE  \E w \in Indices' : w > i /\ ProgrammedAt(w, g)'
      BY ZenonT(40) DEF ProgrammedAt, Does
    <3>1. i = q /\ g = h
      BY <2>4, <2>5
    <3> QED
      BY <2>7, <2>8, <3>1
  <2> QED
    BY <1>3, <2>9 DEF PointerInv
<1>6. CASE BeginBlank
  <2>1. PICK b, d, r \in Nat : BlankScript(script', h, rest, b, d, r)
    BY <1>0, <1>6, BeginBlankScript DEF rest
  <2>2. /\ Len(script') = r + Len(rest)
        /\ \A i \in 1 .. b : script'[i].do = "black"
        /\ \A i \in b + 1 .. r : script'[i].do \in {"message", "sink"}
        /\ \A i \in r + 1 .. Len(script') : script'[i] = rest[i - r]
    BY <2>1 DEF BlankScript, AheadSteps
  <2>3. \A i \in Indices' : \/ i \in 1 .. b \/ i \in b + 1 .. r
                            \/ (i \in r + 1 .. Len(script') /\ i - r \in 1 .. Len(rest))
    BY <1>4, <2>2 DEF Indices
  <2>4. \A i \in Indices' : script'[i].do # "set_mode"
    BY <1>4, <2>2, <2>3
  <2> QED
    BY <1>3, <2>4 DEF PointerInv, Does
<1> QED
  BY <1>5, <1>6

LEMMA NextPointer ==
  ASSUME Types, Types', PointerInv, [Next]_vars
  PROVE  PointerInv'
<1>1. CASE RunStep
  <2>1. /\ script # <<>>
        /\ Advances \/ BeginMode \/ BeginBlank \/ ProbeSend \/ ProbeRead \/ ProbeGivesUp
    BY <1>1 DEF RunStep, Advances
  <2>2. CASE ProbeSend \/ ProbeRead \/ ProbeGivesUp
    <3>1. /\ Head(script) = script[1] /\ Len(script) \in Nat /\ Len(script) >= 1 /\ Len(Tail(script)) = Len(script) - 1
          /\ \A i \in 1 .. Len(script) - 1 : Tail(script)[i] = script[i + 1]
      BY <2>1, FirstStep
    <3>2. script[1].do \in {"probe", "await"} /\ UNCHANGED <<cursor_shot, pointer>>
      BY <2>2, <3>1 DEF ProbeSend, ProbeRead, ProbeGivesUp, hostVars, dockVars, streamVars
    <3>3. (\A h \in Heads : Shows(h)) /\ \A i \in Indices : script[i].do # "set_mode"
      BY <3>2, NoneRearming DEF Programming
    <3>4. \A i \in Indices' : script'[i].do # "set_mode"
      <4>1. CASE script' = script
        BY <3>3, <4>1 DEF Indices
      <4>2. CASE script' = Tail(script)
        <5>1. \A i \in Indices' : i \in 1 .. Len(script) - 1 /\ i + 1 \in Indices
          BY <3>1, <4>2 DEF Indices
        <5> QED
          BY <3>1, <3>3, <4>2, <5>1
      <4>3. CASE ProbeSend
        <5>1. Len(script') = 1 /\ script'[1].do = "await"
          BY <4>3 DEF ProbeSend
        <5>2. \A i \in Indices' : i = 1
          BY <5>1 DEF Indices
        <5> QED
          BY <5>1, <5>2
      <4> QED
        BY <2>2, <4>1, <4>2, <4>3 DEF ProbeRead, ProbeGivesUp
    <3> QED
      BY <3>2, <3>3, <3>4, ShowsStill DEF PointerInv, Does
  <2> QED
    BY <2>1, <2>2, AdvancesPointer, BeginPointer
<1>2. CASE LoseSession
  <2>1. script' = <<>> /\ cursor_shot' = [h \in Heads |-> NoPointer]
    BY <1>2 DEF LoseSession
  <2>2. Indices' = {} /\ \A h \in Heads : cursor_shot'[h] = NoPointer
    BY <2>1 DEF Indices
  <2> QED
    BY <2>2 DEF PointerInv, Shows
<1>3. CASE Request /\ ~DdcciFails
  <2>1. /\ script = <<>> /\ UNCHANGED <<cursor_shot, pointer>>
        /\ \A i \in 1 .. Len(script') :
             script'[i].do \in {"begin", "blank", "picture", "presented", "message", "image", "move", "probe"}
    BY <1>3, RequestScript DEF AskedScript, hostVars, dockVars, streamVars
  <2>2. \A h \in Heads : Shows(h)
    BY <2>1, NoneRearming
  <2>3. \A i \in Indices' : script'[i].do # "set_mode"
    BY <2>1 DEF Indices
  <2> QED
    BY <2>1, <2>2, <2>3, ShowsStill DEF PointerInv, Does
<1>4. CASE PlugChanges \/ DdcciFails \/ Done \/ UNCHANGED vars
  <2>1. UNCHANGED <<script, cursor_shot, pointer>>
    BY <1>4 DEF PlugChanges, DdcciFails, Done, vars, hostVars, dockVars, streamVars
  <2>2. Indices' = Indices /\ script' = script
    BY <2>1, Zenon DEF Indices
  <2>3. \A p, h : ProgrammedAt(p, h)' <=> ProgrammedAt(p, h)
    BY <2>1, Zenon DEF ProgrammedAt, Does
  <2>4. \A n, h : Replays(h, n)' <=> Replays(h, n)
    BY <2>1, ZenonT(30) DEF Replays, Place
  <2>5. \A h : (Shows(h)' <=> Shows(h)) /\ (Rearming(h)' <=> Rearming(h))
    <3>1. \A h : Shows(h)' <=> Shows(h)
      BY <2>1, Zenon DEF Shows
    <3>2. \A h : Rearming(h)' <=> Rearming(h)
      BY <2>2, <2>3, <2>4, Zenon DEF Rearming
    <3> QED
      BY <3>1, <3>2, Zenon
  <2> QED
    BY <2>2, <2>3, <2>5, Zenon DEF PointerInv, Does
<1> QED
  BY <1>1, <1>2, <1>3, <1>4 DEF Next

-----------------------------------------------------------------------------
(***************************************************************************)
(* The session.                                                            *)
(***************************************************************************)
LEMMA InitSession == Init => SessionInv
<1> SUFFICES ASSUME Init PROVE SessionInv
  OBVIOUS
<1>1. Types
  BY InitTypes
<1>2. /\ script = <<>> /\ unread = <<>> /\ answer = NoAnswer /\ video_seal_seq = sealed /\ ~skewed /\ ~unseen
      /\ \A h \in Heads : sink[h] = mode_active[h] /\ cursor_shot[h] = NoPointer
  BY DEF Init, Fresh
<1>3. Indices = {} /\ Len(unread) = 0 /\ ~Awaiting /\ answer.said = answer.truth /\ MaxLag \in Nat
  BY <1>2, SessionAssumption DEF Indices, Awaiting, NoAnswer
<1>4. ProbeInv
  BY <1>3 DEF ProbeInv
<1>5. SealInv
  BY <1>2, <1>3 DEF SealInv
<1>6. \A h \in Heads : SinkBefore(script, Len(script) + 1, h, sink[h], EndsActive(h))
  BY <1>1, <1>2, <1>3, PlainScript
<1>7. SinkInv
  BY <1>2, <1>3, <1>6 DEF SinkInv
<1>8. PointerInv
  BY <1>2, <1>3 DEF PointerInv, Shows
<1> QED
  BY <1>1, <1>4, <1>5, <1>7, <1>8 DEF SessionInv

LEMMA SessionIsSound == Spec => []SessionInv
<1>1. Init => SessionInv
  BY InitSession
<1>2. SessionInv /\ [Next]_vars => SessionInv'
  <2> SUFFICES ASSUME SessionInv, [Next]_vars PROVE SessionInv'
    OBVIOUS
  <2>1. Types /\ ProbeInv /\ SealInv /\ SinkInv /\ PointerInv
    BY DEF SessionInv
  <2>2. Types'
    BY <2>1, NextTypes
  <2>3. ProbeInv'
    BY <2>1, <2>2, NextProbe
  <2>4. SealInv'
    BY <2>1, <2>2, NextSeal
  <2>5. SinkInv'
    BY <2>1, <2>2, NextSink
  <2>6. PointerInv'
    BY <2>1, <2>2, NextPointer
  <2> QED
    BY <2>2, <2>3, <2>4, <2>5, <2>6 DEF SessionInv
<1> QED
  BY <1>1, <1>2, PTL DEF Spec

\* Whatever replies come late, a presence probe that reports something reports
\* what the dock said of its own connector: probe_head_present drains until a
\* reply echoes its counter, and no reply that is still owed can, although a
\* set-mode message carries a counter taken several messages before.
THEOREM ProbeAlwaysAnswersItself == Spec => []ProbeAnswersItself
<1>1. SessionInv => ProbeAnswersItself
  BY DEF SessionInv, ProbeInv, ProbeAnswersItself
<1> QED
  BY <1>1, SessionIsSound, PTL

\* The dock meets the sealed video records of every connector in block order,
\* none skipped and none reused: program_mode seals an opening ahead of the
\* bracket that carries it, and nothing else is sealed in between
\* (take_blocks, stream_prefix, send_stream_prologue, frame_report).
THEOREM SealsAreAlwaysInOrder == Spec => []SealsInOrder
<1>1. SessionInv => SealsInOrder
  BY DEF SessionInv, SealInv, SealsInOrder
<1> QED
  BY <1>1, SessionIsSound, PTL

\* No frame, opening, carrier, picture or black, reaches a connector whose
\* sink is down, on any dock family and through any order of mode sets, blanks
\* and presentations (program_mode, present_rgb, deactivate_mode).
THEOREM FramesAreAlwaysScannedOut == Spec => []FramesAreScannedOut
<1>1. SessionInv => FramesAreScannedOut
  BY DEF SessionInv, SinkInv, FramesAreScannedOut
<1> QED
  BY <1>1, SessionIsSound, PTL

\* Between operations every sink is up exactly while its mode is active, and
\* every connector that was given a pointer shows it as it was given last,
\* through any mode set (program_mode, rearm_cursor, deactivate_mode).
THEOREM DockAlwaysFollowsTheSession == Spec => []DockFollowsTheSession
<1>1. SessionInv => DockFollowsTheSession
  <2> SUFFICES ASSUME SessionInv, Idle, NEW h \in Heads
               PROVE  /\ sink[h] <=> mode_active[h]
                      /\ Shows(h)
    BY DEF DockFollowsTheSession, Shows
  <2>1. Types /\ SinkInv /\ PointerInv /\ script = <<>>
    BY DEF SessionInv, Idle
  <2>2. Indices = {}
    BY <2>1 DEF Indices
  <2>3. sink[h] = mode_active[h]
    BY <2>1, <2>2, PlainScript DEF SinkInv
  <2>4. Shows(h)
    BY <2>1, NoneRearming
  <2> QED
    BY <2>3, <2>4
<1> QED
  BY <1>1, SessionIsSound, PTL

=============================================================================
