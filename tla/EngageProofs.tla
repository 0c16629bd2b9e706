---------------------------- MODULE EngageProofs ----------------------------
(***************************************************************************)
(* Bringing a dock up, for any number of connectors, attempts, faults, late*)
(* answers and fetches: both sides stay in step, every occupied socket is  *)
(* keyed and finalized, and an output has the EDID of its own monitor.     *)
(***************************************************************************)
EXTENDS EdidFetch, TLAPS

\* The provers every leaf that names none is given, and their seconds.
USE ZenonT(10), SMTT(30)

(***************************************************************************)
(* The counters: the dock is ahead by the message the host is still        *)
(* reading the answers of, and by nothing anywhere else.                   *)
(***************************************************************************)
Configuring == at \in {"head", "drain", "hprime"}

InStep ==
  IF at \in {"drain", "hprime"}
  THEN dock_seq = wire_seq + Blocks /\ dock_counter = inner_counter + 1
  ELSE dock_seq = wire_seq /\ dock_counter = inner_counter

CounterInv ==
  /\ wire_seq \in Nat /\ inner_counter \in Nat /\ dock_seq \in Nat /\ dock_counter \in Nat
  /\ adrift \in BOOLEAN /\ ambiguous \in BOOLEAN
  /\ step \in Nat /\ (Configuring => step \in 0 .. 8) /\ (at = "wide" => step >= 1)
  /\ fetching # 0 => at = "engaged"
  /\ line # None => fetching # 0
  /\ ~ambiguous => ~adrift /\ (at # "failed" => InStep)

-----------------------------------------------------------------------------
(***************************************************************************)
(* The sockets.                                                            *)
(***************************************************************************)
SocketTypes ==
  /\ profile \in Profiles /\ occupied \subseteq Heads
  /\ head \in Nat /\ commits \in Nat /\ late \in Nat /\ step \in Nat
  /\ rrx \in [Heads -> Heads \cup {0}] /\ finalized \in [Heads -> Nat]
  /\ coming \in [Heads -> {None, "slow", "late"}] /\ arrived \in Seq(Heads)

CommittedEarly == IF profile.early_commit THEN 1 ELSE 0

\* The finalization messages of a connector, by the step that comes next.
Part(h) == IF step >= 3 * h THEN 3 ELSE IF step > 3 * h - 3 THEN step - (3 * h - 3) ELSE 0
NoneFinalized == \A h \in Heads : finalized[h] = 0
AllFinalized == \A h \in Heads : finalized[h] = IF rrx[h] # 0 THEN 3 ELSE 0

\* Where the host is, what it has sent.
CourseInv ==
  /\ at \in {"open", "auth", "first", "wide"} =>
       head = 0 /\ commits = 0 /\ NoneFinalized /\ \A h \in Heads : rrx[h] = 0
  /\ Configuring => /\ head \in Heads /\ commits = CommittedEarly /\ NoneFinalized /\ step \in 0 .. 8
                    /\ at = "hprime" => step = 2
                    /\ \A h \in Heads : h > head => rrx[h] = 0
  /\ at = "commit" /\ head = 1 =>
       /\ profile.early_commit /\ commits = 0 /\ NoneFinalized /\ step = 0
       /\ \A h \in Heads : rrx[h] = 0
  /\ at = "commit" /\ head # 1 =>
       ~profile.early_commit /\ commits = 0 /\ head = Connectors + 1 /\ AllFinalized
  /\ at = "finalize" =>
       /\ head = Connectors + 1 /\ commits = CommittedEarly /\ step \in 0 .. 3 * Connectors
       /\ step < 3 * Connectors /\ rrx[Finalizing] = 0 => step % 3 = 0
       /\ \A h \in Heads : finalized[h] = IF rrx[h] # 0 THEN Part(h) ELSE 0
  /\ at = "engaged" => head = Connectors + 1 /\ commits = 1 /\ AllFinalized

\* The connector was authenticated with its own Rrx, and has its key.
Served(h) == rrx[h] = (IF h \in occupied THEN h ELSE 0) /\ (h \in occupied => h \in keyed)

NothingComes == arrived = <<>> /\ \A h \in Heads : coming[h] = None

\* Where its Rrx is when no push is late: to come, under way, or read.
PushInv ==
  late = 0 =>
    /\ \A h \in Heads : h < head => Served(h)
    /\ at \in {"open", "auth", "first", "wide"} \/ (at = "commit" /\ head = 1) => NothingComes
    /\ Configuring /\ (step < 2 \/ (step = 2 /\ at = "head")) => rrx[head] = 0 /\ NothingComes
    /\ Configuring /\ step = 2 /\ at # "head" =>
         \/ head \notin occupied /\ rrx[head] = 0 /\ NothingComes
         \/ head \in occupied /\ at = "hprime" /\ rrx[head] = head /\ NothingComes
         \/ /\ head \in occupied /\ rrx[head] = 0 /\ arrived = <<head>>
            /\ \A h \in Heads : coming[h] = None
         \/ /\ head \in occupied /\ rrx[head] = 0 /\ arrived = <<>> /\ coming[head] = "slow"
            /\ \A h \in Heads : h # head => coming[h] = None
    /\ Configuring /\ step >= 3 =>
         /\ rrx[head] = (IF head \in occupied THEN head ELSE 0) /\ NothingComes
         /\ (step > 4 \/ (step = 4 /\ at = "drain")) /\ head \in occupied => head \in keyed

SocketInv == SocketTypes /\ CourseInv /\ PushInv

-----------------------------------------------------------------------------
(***************************************************************************)
(* The fetch.                                                              *)
(***************************************************************************)
Kinds == {"none", "ack", "busy", "ready", "bridge", "placeholder", "monitor"}
Replies == [kind : Kinds, of : Heads \cup {0}]
Done == ddc[fetching] = "done"
Mine(kind) == Reply(kind, fetching)

FetchTypes ==
  /\ profile \in Profiles /\ occupied \subseteq Heads /\ late \in Nat
  /\ fetching \in Heads \cup {0} /\ line \in Lines \cup {None}
  /\ (fetching = 0) = (line = None)
  /\ edid \in Replies /\ ready \in BOOLEAN /\ replies \in Seq(Replies)
  /\ outputs \in [Heads -> Replies] /\ asked \subseteq Heads
  /\ ddc \in [Heads -> {"idle", "busy", "done"}]
  /\ \A h \in Heads : ddc[h] # "idle" => h \in occupied /\ h \in asked
  /\ fetching # 0 => fetching \in asked /\ (profile.shared_edid => fetching \in occupied)

\* What may be waiting to be read: answers of this fetch, and the monitor's
\* block once the dock has read it.
Answers ==
  {Ack, Mine("busy"), Mine("bridge")}
  \cup (IF Done THEN {Mine("monitor")} ELSE {})
  \cup (IF Done /\ profile.edid_ready THEN {Mine("ready")} ELSE {})
  \cup (IF line = "wait" /\ profile.edid_ready THEN {Mine("placeholder")} ELSE {})

\* How much of it, by the line: the answers left by the fetch before and the
\* block pushed, until the wait has read them.
Waiting ==
  CASE line \in {"probe1", "probe2", "kick"} ->
         Len(replies) <= 1 /\ (ddc[fetching] = "busy" => replies = <<>>)
    [] line = "get" ->
         \/ replies \in {<<>>, <<Ack>>}
         \/ Done /\ replies = <<Mine("monitor")>>
         \/ Done /\ replies = <<Ack, Mine("monitor")>> /\ edid = NoBlock
    [] line = "wait" ->
         /\ Len(replies) <= IF Done THEN 2 ELSE 1
         /\ \A i \in 1 .. Len(replies) : i > 1 => replies[i] = Mine("monitor")
    [] OTHER -> IF Done THEN Len(replies) <= 1 ELSE replies = <<>>

Blocked ==
  {NoBlock} \cup (IF Done /\ line # "wait" THEN {Mine("monitor")} ELSE {})
  \cup (IF profile.edid_ready /\ line \in {"engage1", "engage2", "final", "post"}
        THEN {Mine("placeholder")} ELSE {})

\* A block from before the monitor was read is held with no report heard, and
\* none waiting.
Unreported ==
  edid = Mine("placeholder") \/ (\E i \in 1 .. Len(replies) : replies[i] = Mine("placeholder")) =>
    ~ready /\ \A i \in 1 .. Len(replies) : replies[i] # Mine("ready")

Quiet ==
  late = 0 =>
    /\ \A h \in Heads : outputs[h] # NoBlock => outputs[h] = Reply("monitor", h) /\ h \in occupied
    /\ fetching = 0 => replies = <<>> \/ replies = <<Ack>>
    /\ fetching # 0 =>
         /\ \A i \in 1 .. Len(replies) : replies[i] \in Answers
         /\ edid \in Blocked /\ Waiting /\ Unreported
         /\ ready => Done /\ profile.edid_ready

FetchInv == FetchTypes /\ Quiet

-----------------------------------------------------------------------------
\* A message sent in step is one the dock expects.
LEMMA TakenInStep ==
  ASSUME CounterInv, at \notin {"drain", "hprime", "failed"}, NEW b \in Nat, Taken(b), UNCHANGED ambiguous
  PROVE  /\ dock_seq' \in Nat /\ dock_counter' \in Nat /\ adrift' \in BOOLEAN /\ ambiguous' \in BOOLEAN
         /\ ~ambiguous' => ~adrift' /\ dock_seq' = wire_seq + b /\ dock_counter' = inner_counter + 1
<1>1. ~ambiguous => ~adrift /\ dock_seq = wire_seq /\ dock_counter = inner_counter
  BY DEF CounterInv, InStep
<1> QED
  BY <1>1 DEF CounterInv, Taken

\* A failed write leaves the counters, or leaves the count in doubt.
LEMMA FaultInStep ==
  ASSUME CounterInv, NEW b \in Nat, WriteFails(b)
  PROVE  /\ dock_seq' \in Nat /\ dock_counter' \in Nat /\ adrift' \in BOOLEAN /\ ambiguous' \in BOOLEAN
         /\ ~ambiguous' => UNCHANGED <<dock_seq, dock_counter, adrift, ambiguous>>
<1>1. CASE UNCHANGED <<dockCounters, ambiguous>>
  BY <1>1 DEF CounterInv, dockCounters
<1>2. CASE Taken(b) /\ ambiguous' = TRUE
  BY <1>2 DEF CounterInv, Taken
<1> QED
  BY <1>1, <1>2 DEF WriteFails

LEMMA BlocksAreCounted == \A s \in 0 .. 8 : CP_SETUP_PER_HEAD[s + 1] \in Nat
  BY DEF CP_SETUP_PER_HEAD

\* The steps of engage that send nothing, or send and count at once.
LEMMA EngageCounts ==
  ASSUME CounterInv, SocketInv, UNCHANGED fetchVars,
         \/ Open \/ Authenticate \/ First \/ Wide \/ WideDone \/ Commit \/ NoSink
         \/ Finalize \/ FinalizeSkips \/ FinalizeDone
  PROVE  CounterInv'
<1> USE DEF fetchVars
<1>1. CASE Open
  BY <1>1 DEF Open, Go, CounterInv, InStep, Configuring, hostCounters, dockCounters, bounds
<1>2. CASE Authenticate
  <2>1. at = "auth" /\ Taken(0) /\ Counted(0) /\ UNCHANGED ambiguous
    BY <1>2 DEF Authenticate, bounds
  <2>2. step' \in Nat /\ at' \in {"failed", "first", "auth"}
    BY <1>2 DEF Authenticate, CounterInv, Go
  <2>3. /\ dock_seq' \in Nat /\ dock_counter' \in Nat /\ adrift' \in BOOLEAN /\ ambiguous' \in BOOLEAN
        /\ ~ambiguous' => ~adrift' /\ dock_seq' = wire_seq + 0 /\ dock_counter' = inner_counter + 1
    BY <2>1, TakenInStep
  <2> QED
    BY <2>1, <2>2, <2>3 DEF CounterInv, InStep, Configuring, Counted
<1>3. CASE First
  <2>1. at = "first" /\ Taken(2) /\ Counted(2) /\ UNCHANGED ambiguous /\ at' = "wide" /\ step' = 1
    BY <1>3 DEF First, Message, bounds, Go
  <2>2. /\ dock_seq' \in Nat /\ dock_counter' \in Nat /\ adrift' \in BOOLEAN /\ ambiguous' \in BOOLEAN
        /\ ~ambiguous' => ~adrift' /\ dock_seq' = wire_seq + 2 /\ dock_counter' = inner_counter + 1
    BY <2>1, TakenInStep
  <2> QED
    BY <2>1, <2>2 DEF CounterInv, InStep, Configuring, Counted
<1>4. CASE Wide
  <2>1. /\ at = "wide" /\ step <= WideRecords /\ Counted(2) /\ UNCHANGED ambiguous /\ at' = "wide"
        /\ step' = step + 1
    BY <1>4 DEF Wide, bounds
  <2>2. profile.wide_init
    BY <2>1 DEF WideRecords, CounterInv
  <2>3. Taken(2)
    BY <1>4, <2>2 DEF Wide
  <2>4. /\ dock_seq' \in Nat /\ dock_counter' \in Nat /\ adrift' \in BOOLEAN /\ ambiguous' \in BOOLEAN
        /\ ~ambiguous' => ~adrift' /\ dock_seq' = wire_seq + 2 /\ dock_counter' = inner_counter + 1
    BY <2>1, <2>3, TakenInStep
  <2> QED
    BY <2>1, <2>4 DEF CounterInv, InStep, Configuring, Counted
<1>5. CASE WideDone
  BY <1>5 DEF WideDone, Go, CounterInv, InStep, Configuring, hostCounters, dockCounters, bounds
<1>6. CASE Commit
  <2>1. /\ at = "commit" /\ at' \in {"head", "engaged", "failed"} /\ (at' = "head" => step = 0)
        /\ UNCHANGED <<step, hostCounters, dockCounters, bounds>>
    BY <1>6 DEF Commit, Go, Finish, SocketInv, CourseInv
  <2> QED
    BY <1>6, <2>1 DEF CounterInv, InStep, Configuring, hostCounters, dockCounters, bounds
<1>7. CASE NoSink
  <2>1. /\ at = "head" /\ step' = 0 /\ at' \in {"finalize", "head"}
        /\ UNCHANGED <<hostCounters, dockCounters, bounds>>
    BY <1>7 DEF NoSink, EmptySocket, NextHead, Go
  <2> QED
    BY <2>1 DEF CounterInv, InStep, Configuring, hostCounters, dockCounters, bounds
<1>8. CASE Finalize
  <2>1. /\ at = "finalize" /\ Taken(2) /\ Counted(2) /\ UNCHANGED ambiguous /\ at' = "finalize"
        /\ step' = step + 1
    BY <1>8 DEF Finalize, Message, bounds
  <2>2. /\ dock_seq' \in Nat /\ dock_counter' \in Nat /\ adrift' \in BOOLEAN /\ ambiguous' \in BOOLEAN
        /\ ~ambiguous' => ~adrift' /\ dock_seq' = wire_seq + 2 /\ dock_counter' = inner_counter + 1
    BY <2>1, TakenInStep
  <2> QED
    BY <2>1, <2>2 DEF CounterInv, InStep, Configuring, Counted
<1>9. CASE FinalizeSkips
  BY <1>9 DEF FinalizeSkips, CounterInv, InStep, Configuring, hostCounters, dockCounters, bounds,
              CP_SETUP_FINALIZE_STEPS
<1>10. CASE FinalizeDone
  BY <1>10 DEF FinalizeDone, Go, Finish, CounterInv, InStep, Configuring, hostCounters, dockCounters, bounds
<1> QED
  BY <1>1, <1>2, <1>3, <1>4, <1>5, <1>6, <1>7, <1>8, <1>9, <1>10

\* configure_head: the message is taken, its answers are read, and only then
\* is it counted.
LEMMA HeadCounts ==
  ASSUME CounterInv, UNCHANGED fetchVars, HeadMessage \/ Drain \/ HPrime PROVE CounterInv'
<1> USE DEF fetchVars
<1>1. CASE HeadMessage
  <2>1. /\ at = "head" /\ Taken(Blocks) /\ UNCHANGED <<step, wire_seq, inner_counter, ambiguous>>
        /\ at' = "drain"
    BY <1>1 DEF HeadMessage, Go, hostCounters
  <2>2. step \in 0 .. 8 /\ Blocks \in Nat /\ Blocks' = Blocks
    BY <2>1, BlocksAreCounted DEF CounterInv, Configuring, Blocks
  <2>3. /\ dock_seq' \in Nat /\ dock_counter' \in Nat /\ adrift' \in BOOLEAN /\ ambiguous' \in BOOLEAN
        /\ ~ambiguous' => ~adrift' /\ dock_seq' = wire_seq + Blocks /\ dock_counter' = inner_counter + 1
    BY <2>1, <2>2, TakenInStep
  <2> QED
    BY <2>1, <2>2, <2>3 DEF CounterInv, InStep, Configuring
<1>2. CASE Drain /\ step = 2
  <2>1. at = "drain" /\ at' = "hprime" /\ UNCHANGED <<step, hostCounters, dockCounters, bounds>>
    BY <1>2 DEF Drain, Go
  <2>2. Blocks' = Blocks
    BY <2>1 DEF Blocks
  <2> QED
    BY <2>1, <2>2 DEF CounterInv, InStep, Configuring, hostCounters, dockCounters, bounds
<1>3. CASE (Drain /\ step # 2) \/ HPrime
  <2>1. at \in {"drain", "hprime"} /\ NextMessage /\ UNCHANGED <<dockCounters, bounds>>
    BY <1>3 DEF Drain, HPrime
  <2>2. step \in 0 .. 8 /\ Blocks \in Nat
    BY <2>1, BlocksAreCounted DEF CounterInv, Configuring, Blocks
  <2>3. Counted(Blocks) /\ at' \in {"head", "finalize"} /\ step' \in 0 .. 8
    BY <2>1, <2>2 DEF NextMessage, NextHead, Go
  <2> QED
    BY <2>1, <2>2, <2>3 DEF CounterInv, InStep, Configuring, Counted, dockCounters, bounds
<1> QED
  BY <1>1, <1>2, <1>3

\* The faults of engage, and a push that arrives.
LEMMA FaultCounts ==
  ASSUME CounterInv, UNCHANGED fetchVars, EngageFault \/ Arrive PROVE CounterInv'
<1> USE DEF fetchVars
<1>1. CASE AuthenticateFails \/ ControlFails
  <2>1. PICK b \in {0, 2} : WriteFails(b) /\ at' = "failed" /\ UNCHANGED <<step, hostCounters>> /\ at # "engaged"
    BY <1>1 DEF AuthenticateFails, ControlFails, EngageFails, Go
  <2>2. /\ dock_seq' \in Nat /\ dock_counter' \in Nat /\ adrift' \in BOOLEAN /\ ambiguous' \in BOOLEAN
        /\ ~ambiguous' => UNCHANGED <<dock_seq, dock_counter, adrift, ambiguous>>
    BY <2>1, FaultInStep
  <2> QED
    BY <2>1, <2>2 DEF CounterInv, Configuring, hostCounters
<1>2. CASE FirstRetries
  <2>1. /\ WriteFails(2) /\ at = "first" /\ at' \in {"failed", "first"} /\ UNCHANGED <<step, hostCounters>>
    BY <1>2 DEF FirstRetries, Go
  <2>2. /\ dock_seq' \in Nat /\ dock_counter' \in Nat /\ adrift' \in BOOLEAN /\ ambiguous' \in BOOLEAN
        /\ ~ambiguous' => UNCHANGED <<dock_seq, dock_counter, adrift, ambiguous>>
    BY <2>1, FaultInStep
  <2> QED
    BY <2>1, <2>2 DEF CounterInv, InStep, Configuring, hostCounters
<1>3. CASE Disconnects
  BY <1>3 DEF Disconnects, Go, CounterInv, Configuring, hostCounters, dockCounters
<1>4. CASE Arrive
  <2>1. UNCHANGED <<position, hostCounters, dockCounters, bounds>>
    BY <1>4 DEF Arrive
  <2> QED
    BY <2>1 DEF CounterInv, InStep, Configuring, Blocks, position, hostCounters, dockCounters, bounds
<1> QED
  BY <1>1, <1>2, <1>3, <1>4 DEF EngageFault

\* The fetch and the probes send and count at once; a failed fetch leaves the
\* session as it is.
LEMMA FetchCounts ==
  ASSUME CounterInv, SocketInv, FetchStep \/ FetchFails \/ DdcCompletes \/ Offer \/ Refresh \/ Restart
  PROVE  CounterInv'
<1> DEFINE Sent == Taken(2) /\ Counted(2) /\ UNCHANGED ambiguous
           CountsKept == UNCHANGED <<hostCounters, dockCounters, ambiguous>>
<1>1. CASE Restart
  BY <1>1 DEF Restart, CounterInv, InStep, Configuring
<1>2. ASSUME Sent \/ CountsKept, UNCHANGED <<at, step>>, at = "engaged",
             line' # None => fetching' # 0
      PROVE  CounterInv'
  <2>1. CASE Sent
    <3>1. /\ dock_seq' \in Nat /\ dock_counter' \in Nat /\ adrift' \in BOOLEAN /\ ambiguous' \in BOOLEAN
          /\ ~ambiguous' => ~adrift' /\ dock_seq' = wire_seq + 2 /\ dock_counter' = inner_counter + 1
      BY <1>2, <2>1, TakenInStep
    <3> QED
      BY <1>2, <2>1, <3>1 DEF CounterInv, InStep, Configuring, Counted
  <2>2. CASE CountsKept
    BY <1>2, <2>2 DEF CounterInv, InStep, Configuring, hostCounters, dockCounters
  <2> QED
    BY <1>2, <2>1, <2>2
<1>3. CASE FetchStep
  <2>1. line \in Lines /\ line # None
    BY <1>3 DEF FetchStep, Early, Kick, Get, AsyncWait, EngageSink, Poll, PollProbe, PollEnds, Final,
                FinalEnds, Post, Step, Lines, None
  <2>2. UNCHANGED <<at, step>>
    BY <1>3 DEF FetchStep, Early, Kick, Get, AsyncWait, EngageSink, Poll, PollProbe, PollEnds, Final,
                FinalEnds, Post, Step, Exchange, unfetched, position
  <2>3. Sent \/ CountsKept
    BY <1>3 DEF FetchStep, Early, Kick, Get, AsyncWait, EngageSink, Poll, PollProbe, PollEnds, Final,
                FinalEnds, Post, Step, Exchange, bounds
  <2>4. UNCHANGED fetching \/ line' = None
    BY <1>3 DEF FetchStep, Early, Kick, Get, AsyncWait, EngageSink, Poll, PollProbe, PollEnds, Final,
                FinalEnds, Post, Leave, At, Over
  <2> QED
    BY <1>2, <2>1, <2>2, <2>3, <2>4 DEF CounterInv
<1>4. CASE FetchFails
  <2>1. /\ line # None /\ WriteFails(2) /\ UNCHANGED <<unfetched, hostCounters>> /\ line' = None
        /\ fetching' = 0
    BY <1>4 DEF FetchFails, Over, Lines, None
  <2>2. /\ dock_seq' \in Nat /\ dock_counter' \in Nat /\ adrift' \in BOOLEAN /\ ambiguous' \in BOOLEAN
        /\ ~ambiguous' => UNCHANGED <<dock_seq, dock_counter, adrift, ambiguous>>
    BY <2>1, FaultInStep
  <2> QED
    BY <2>1, <2>2 DEF CounterInv, InStep, Configuring, hostCounters, unfetched, position
<1>5. CASE DdcCompletes
  <2>1. UNCHANGED <<unfetched, hostCounters, dockCounters, ambiguous, fetching, line>>
    BY <1>5 DEF DdcCompletes
  <2> QED
    BY <2>1 DEF CounterInv, InStep, Configuring, Blocks, hostCounters, dockCounters, unfetched, position
<1>6. CASE Offer \/ Refresh
  <2>1. at = "engaged" /\ UNCHANGED <<at, step>> /\ (Sent \/ CountsKept)
    BY <1>6 DEF Offer, Refresh, Probe, unfetched, position, bounds
  <2>2. line' # None => fetching' # 0
    <3>1. \/ UNCHANGED <<fetching, line>>
          \/ \E h \in Heads : fetching' = h
      BY <1>6 DEF Offer, Refresh, Fetch, SocketInv, SocketTypes
    <3> QED
      BY <3>1, EngageAssumption DEF CounterInv, Heads
  <2> QED
    BY <1>2, <2>1, <2>2
<1> QED
  BY <1>1, <1>3, <1>4, <1>5, <1>6

-----------------------------------------------------------------------------
\* The sockets are the engagement's alone.
LEMMA SocketsUntouched ==
  ASSUME SocketInv, UNCHANGED unfetched, late' \in Nat, late' = 0 => late = 0
  PROVE  SocketInv'
<1>1. UNCHANGED <<profile, occupied, at, step, head, rrx, keyed, finalized, commits, arrived, coming>>
  BY DEF unfetched, dockFacts, position, dockState, pushes
<1>2. SocketTypes'
  BY <1>1 DEF SocketInv, SocketTypes
<1>3. CourseInv'
  BY <1>1 DEF SocketInv, CourseInv, Configuring, NoneFinalized, AllFinalized, CommittedEarly, Finalizing,
              Part
<1>4. PushInv'
  BY <1>1 DEF SocketInv, PushInv, Configuring, Served, NothingComes
<1> QED
  BY <1>2, <1>3, <1>4 DEF SocketInv

\* Nothing of a connector is touched before the first of them, nor once the
\* session has failed.
LEMMA SocketsAhead ==
  ASSUME SocketInv, at \in {"open", "auth", "first", "wide"} \/ at' = "failed",
         at' \in {"auth", "first", "wide", "failed"}, step' \in Nat,
         UNCHANGED <<dockFacts, head, rrx, dockState, pushes, late>>
  PROVE  SocketInv'
<1>1. UNCHANGED <<profile, occupied, head, rrx, keyed, finalized, commits, arrived, coming, late>>
  BY DEF dockFacts, dockState, pushes
<1>2. SocketTypes'
  BY <1>1 DEF SocketInv, SocketTypes
<1>3. CourseInv'
  BY <1>1 DEF SocketInv, CourseInv, Configuring, NoneFinalized
<1>4. PushInv'
  BY <1>1 DEF SocketInv, PushInv, Configuring, Served, NothingComes
<1> QED
  BY <1>2, <1>3, <1>4 DEF SocketInv

\* The connectors begin.
LEMMA BeginSockets == ASSUME SocketInv, WideDone \/ Commit PROVE SocketInv'
<1>1. UNCHANGED <<profile, occupied, rrx, keyed, finalized, arrived, coming, late>>
  BY DEF WideDone, Commit, dockFacts, dockState, pushes, bounds
<1>2. 1 \in Heads /\ Connectors \in Nat \ {0} /\ SocketTypes
  BY EngageAssumption DEF Heads, SocketInv
<1>3. CASE WideDone
  <2>1. /\ at = "wide" /\ at' = IF profile.early_commit THEN "commit" ELSE "head"
        /\ head' = 1 /\ step' = 0 /\ commits' = commits
    BY <1>3 DEF WideDone, Go, dockState
  <2>2. SocketTypes'
    BY <1>1, <1>2, <2>1 DEF SocketTypes
  <2>3. head = 0 /\ commits = 0 /\ NoneFinalized /\ \A h \in Heads : rrx[h] = 0
    BY <2>1 DEF SocketInv, CourseInv
  <2>4. CourseInv'
    BY <1>1, <1>2, <2>1, <2>3 DEF CourseInv, Configuring, NoneFinalized, CommittedEarly
  <2>5. PushInv'
    <3>1. \A h \in Heads : ~(h < 1)
      BY DEF Heads
    <3>2. late = 0 => NothingComes
      BY <2>1 DEF SocketInv, PushInv
    <3> QED
      BY <1>1, <1>2, <2>1, <2>3, <3>1, <3>2 DEF PushInv, Configuring, NothingComes
  <2> QED
    BY <2>2, <2>4, <2>5 DEF SocketInv
<1>4. CASE Commit /\ head = 1
  <2>1. at = "commit" /\ at' = "head" /\ commits' = commits + 1 /\ UNCHANGED <<step, head>>
    BY <1>4 DEF Commit, Go
  <2>2. SocketTypes'
    BY <1>1, <1>2, <2>1 DEF SocketTypes
  <2>3. /\ profile.early_commit /\ commits = 0 /\ NoneFinalized /\ step = 0
        /\ \A h \in Heads : rrx[h] = 0
    BY <1>4, <2>1 DEF SocketInv, CourseInv
  <2>4. CourseInv'
    BY <1>1, <1>2, <1>4, <2>1, <2>3 DEF CourseInv, Configuring, NoneFinalized, CommittedEarly
  <2>5. PushInv'
    <3>1. late = 0 => NothingComes /\ \A h \in Heads : h < head => Served(h)
      BY <1>4, <2>1 DEF SocketInv, PushInv
    <3> QED
      BY <1>1, <1>2, <1>4, <2>1, <2>3, <3>1 DEF PushInv, Configuring, NothingComes, Served
  <2> QED
    BY <2>2, <2>4, <2>5 DEF SocketInv
<1>5. CASE Commit /\ head # 1
  <2>1. /\ at = "commit" /\ at' \in {"engaged", "failed"} /\ commits' = commits + 1
        /\ UNCHANGED <<step, head>>
    BY <1>5 DEF Commit, Go, Finish
  <2>2. SocketTypes'
    BY <1>1, <1>2, <2>1 DEF SocketTypes
  <2>3. ~profile.early_commit /\ commits = 0 /\ head = Connectors + 1 /\ AllFinalized
    BY <1>5, <2>1 DEF SocketInv, CourseInv
  <2>4. CourseInv'
    BY <1>1, <2>1, <2>3 DEF CourseInv, Configuring, AllFinalized
  <2>5. PushInv'
    BY <1>1, <2>1 DEF SocketInv, PushInv, Configuring, Served
  <2> QED
    BY <2>2, <2>4, <2>5 DEF SocketInv
<1> QED
  BY <1>3, <1>4, <1>5

\* The connector is through, authenticated or left out.
LEMMA NextSocket ==
  ASSUME SocketInv, Configuring, NextHead,
         UNCHANGED <<profile, occupied, keyed, finalized, commits, late>>,
         rrx' \in [Heads -> Heads \cup {0}], \A h \in Heads : h # head => rrx'[h] = rrx[h],
         coming' \in [Heads -> {None, "slow", "late"}], arrived' \in Seq(Heads),
         late = 0 => /\ rrx'[head] = (IF head \in occupied THEN head ELSE 0)
                     /\ (head \in occupied => head \in keyed) /\ NothingComes'
  PROVE  SocketInv'
<1>1. SocketTypes /\ Connectors \in Nat \ {0}
  BY EngageAssumption DEF SocketInv
<1>2. /\ head \in Heads /\ commits = CommittedEarly /\ NoneFinalized
      /\ \A h \in Heads : h > head => rrx[h] = 0
  BY DEF SocketInv, CourseInv
<1>3. /\ head' = head + 1 /\ step' = 0
      /\ at' = IF head = Connectors THEN "finalize" ELSE "head"
  BY DEF NextHead, Go
<1>4. head \in 1 .. Connectors /\ \A h \in Heads : h \in 1 .. Connectors
  BY <1>2 DEF Heads
<1>5. SocketTypes'
  BY <1>1, <1>3 DEF SocketTypes
<1>6. CourseInv'
  <2>1. \A h \in Heads : Part(h)' = 0
    BY <1>3, <1>4 DEF Part
  <2>2. CASE head = Connectors
    <3>1. /\ at' = "finalize" /\ head' = Connectors + 1 /\ step' = 0 /\ commits' = CommittedEarly'
          /\ 0 \in 0 .. 3 * Connectors /\ 0 % 3 = 0
      BY <1>1, <1>2, <1>3, <2>2 DEF CommittedEarly
    <3>2. \A h \in Heads : finalized'[h] = 0
      BY <1>2 DEF NoneFinalized
    <3> QED
      BY <2>1, <3>1, <3>2 DEF CourseInv, Configuring
  <2>3. CASE head # Connectors
    <3>1. at' = "head" /\ head' \in Heads /\ step' = 0 /\ commits' = CommittedEarly' /\ NoneFinalized'
      BY <1>1, <1>2, <1>3, <1>4, <2>3 DEF CommittedEarly, NoneFinalized, Heads
    <3>2. \A h \in Heads : h > head' => rrx'[h] = 0
      BY <1>2, <1>3, <1>4
    <3> QED
      BY <3>1, <3>2 DEF CourseInv, Configuring
  <2> QED
    BY <2>2, <2>3
<1>7. PushInv'
  <2> SUFFICES ASSUME late = 0 PROVE PushInv'
    BY DEF PushInv
  <2>1. ASSUME NEW h \in Heads, h < head' PROVE Served(h)'
    <3>1. CASE h = head
      BY <3>1 DEF Served
    <3>2. CASE h # head
      <4>1. h < head
        BY <1>3, <1>4, <2>1, <3>2
      <4>2. Served(h)
        BY <4>1 DEF SocketInv, PushInv
      <4> QED
        BY <3>2, <4>2 DEF Served
    <3> QED
      BY <3>1, <3>2
  <2>2. at' = "head" => rrx'[head'] = 0
    <3>1. head # Connectors => head + 1 \in Heads /\ head + 1 > head
      BY <1>1, <1>4 DEF Heads
    <3>2. ASSUME head # Connectors PROVE rrx'[head + 1] = 0
      BY <1>2, <1>4, <3>1, <3>2
    <3> QED
      BY <1>3, <3>2
  <2> QED
    BY <1>3, <2>1, <2>2 DEF PushInv, Configuring
<1> QED
  BY <1>5, <1>6, <1>7 DEF SocketInv

\* What reading does to the connector's Rrx.
LEMMA ReadRrx ==
  ASSUME SocketTypes, head \in Heads, NEW queue \in Seq(Heads), Reads(queue)
  PROVE  /\ rrx' \in [Heads -> Heads \cup {0}] /\ \A h \in Heads : h # head => rrx'[h] = rrx[h]
         /\ queue = <<>> \/ rrx[head] # 0 => rrx' = rrx
         /\ queue # <<>> /\ rrx[head] = 0 => rrx'[head] = queue[1]
<1>1. rrx \in [Heads -> Heads \cup {0}]
  BY DEF SocketTypes
<1>2. CASE queue # <<>> /\ rrx[head] = 0
  <2>1. queue[1] \in Heads
    BY <1>2
  <2>2. rrx' = [rrx EXCEPT ![head] = queue[1]]
    BY <1>2 DEF Reads
  <2> QED
    BY <1>1, <1>2, <2>1, <2>2
<1>3. CASE ~(queue # <<>> /\ rrx[head] = 0)
  BY <1>1, <1>3 DEF Reads
<1> QED
  BY <1>2, <1>3

\* A connector left out.
LEMMA NoSinkSockets == ASSUME SocketInv, NoSink PROVE SocketInv'
<1>1. /\ at = "head" /\ step >= 3 /\ rrx[head] = 0 /\ NextHead
      /\ UNCHANGED <<profile, occupied, rrx, keyed, finalized, commits, arrived, coming, late>>
  BY DEF NoSink, EmptySocket, dockFacts, dockState, pushes, bounds
<1>2. SocketTypes /\ Configuring /\ head \in Heads
  BY <1>1 DEF SocketInv, Configuring, CourseInv
<1>3. late = 0 => head \notin occupied /\ NothingComes'
  <2> SUFFICES ASSUME late = 0 PROVE head \notin occupied /\ NothingComes'
    OBVIOUS
  <2>1. rrx[head] = (IF head \in occupied THEN head ELSE 0) /\ NothingComes
    BY <1>1, <1>2 DEF SocketInv, PushInv
  <2>2. head # 0
    BY <1>2 DEF Heads
  <2>3. head \notin occupied
    BY <1>1, <2>1, <2>2
  <2> QED
    BY <1>1, <2>1, <2>3 DEF NothingComes
<1> QED
  BY <1>1, <1>2, <1>3, NextSocket DEF SocketTypes

\* A message of configure_head: the third brings the Rrx on its way, the fifth
\* the key.
LEMMA MessageSockets == ASSUME SocketInv, HeadMessage PROVE SocketInv'
<1>1. /\ at = "head" /\ at' = "drain" /\ DockKeys /\ (step >= 3 => rrx[head] # 0)
      /\ UNCHANGED <<profile, occupied, step, head, rrx, finalized, commits>>
      /\ IF step = 2 /\ head \in occupied THEN DockPushesRrx ELSE UNCHANGED <<arrived, coming, late>>
  BY DEF HeadMessage, Go, dockFacts, pushes
<1>2. SocketTypes /\ Configuring
  BY <1>1 DEF SocketInv, Configuring
<1>3. /\ head \in Heads /\ commits = CommittedEarly /\ NoneFinalized /\ step \in 0 .. 8
      /\ \A h \in Heads : h > head => rrx[h] = 0
  BY <1>2 DEF SocketInv, CourseInv
<1>4. /\ late' \in Nat /\ arrived' \in Seq(Heads) /\ coming' \in [Heads -> {None, "slow", "late"}]
      /\ late' = 0 => late = 0
  <2>1. late \in Nat /\ arrived \in Seq(Heads) /\ coming \in [Heads -> {None, "slow", "late"}]
    BY <1>2 DEF SocketTypes
  <2>2. CASE DockPushesRrx
    <3>1. late' \in Nat /\ (late' = 0 => late = 0)
      BY <2>1, <2>2 DEF DockPushesRrx
    <3>2. arrived' \in Seq(Heads)
      BY <1>3, <2>1, <2>2 DEF DockPushesRrx
    <3>3. coming' \in [Heads -> {None, "slow", "late"}]
      BY <1>3, <2>1, <2>2 DEF DockPushesRrx
    <3> QED
      BY <3>1, <3>2, <3>3
  <2>3. CASE UNCHANGED <<arrived, coming, late>>
    BY <2>1, <2>3
  <2> QED
    BY <1>1, <2>2, <2>3
<1>5. SocketTypes'
  BY <1>1, <1>2, <1>4 DEF SocketTypes
<1>6. CourseInv'
  BY <1>1, <1>3 DEF CourseInv, Configuring, CommittedEarly, NoneFinalized
<1>7. PushInv'
  <2> SUFFICES ASSUME late' = 0 PROVE PushInv'
    BY DEF PushInv
  <2>1. late = 0 /\ keyed \subseteq keyed'
    BY <1>1, <1>4 DEF DockKeys
  <2>2. \A h \in Heads : h < head' => Served(h)'
    BY <1>1, <2>1 DEF SocketInv, PushInv, Served
  <2>3. CASE step < 2
    <3>1. rrx[head] = 0 /\ NothingComes
      BY <1>2, <2>1, <2>3 DEF SocketInv, PushInv
    <3> QED
      BY <1>1, <2>2, <2>3, <3>1 DEF PushInv, Configuring, NothingComes
  <2>4. CASE step = 2
    <3>1. rrx[head] = 0 /\ NothingComes
      BY <1>1, <1>2, <2>1, <2>4 DEF SocketInv, PushInv
    <3>2. CASE head \notin occupied
      BY <1>1, <2>2, <2>4, <3>1, <3>2 DEF PushInv, Configuring, NothingComes
    <3>3. CASE head \in occupied /\ arrived' = Append(arrived, head) /\ UNCHANGED coming
      <4>1. arrived' = <<head>>
        BY <3>1, <3>3 DEF NothingComes
      <4> QED
        BY <1>1, <2>2, <2>4, <3>1, <3>3, <4>1 DEF PushInv, Configuring, NothingComes
    <3>4. CASE head \in occupied /\ coming' = [coming EXCEPT ![head] = "slow"] /\ UNCHANGED arrived
      <4>1. coming'[head] = "slow" /\ \A h \in Heads : h # head => coming'[h] = None
        BY <1>2, <1>3, <3>1, <3>4 DEF NothingComes, SocketTypes
      <4> QED
        BY <1>1, <2>2, <2>4, <3>1, <3>4, <4>1 DEF PushInv, Configuring, NothingComes
    <3>5. late' # late + 1
      BY <2>1
    <3> QED
      BY <1>1, <2>4, <3>2, <3>3, <3>4, <3>5 DEF DockPushesRrx
  <2>5. CASE step >= 3
    <3>1. /\ rrx[head] = (IF head \in occupied THEN head ELSE 0) /\ NothingComes
          /\ step > 4 /\ head \in occupied => head \in keyed
      BY <1>1, <1>2, <2>1, <2>5 DEF SocketInv, PushInv
    <3>2. step = 4 /\ head \in occupied => head \in keyed'
      BY <1>1, <3>1 DEF DockKeys
    <3>3. UNCHANGED <<arrived, coming>>
      BY <1>1, <2>5
    <3>4. /\ rrx'[head'] = (IF head' \in occupied' THEN head' ELSE 0) /\ NothingComes'
          /\ (step' > 4 \/ step' = 4) /\ head' \in occupied' => head' \in keyed'
      BY <1>1, <2>1, <3>1, <3>2, <3>3 DEF NothingComes
    <3> QED
      BY <1>1, <1>3, <2>2, <2>5, <3>4 DEF PushInv, Configuring
  <2> QED
    BY <1>3, <2>3, <2>4, <2>5
<1> QED
  BY <1>5, <1>6, <1>7 DEF SocketInv

\* A push that arrives can be read from then on.
LEMMA ArriveSockets == ASSUME SocketInv, Arrive PROVE SocketInv'
<1>1. PICK g \in Heads : /\ coming[g] # None /\ arrived' = Append(arrived, g)
                         /\ coming' = [coming EXCEPT ![g] = None]
  BY DEF Arrive
<1>2. UNCHANGED <<profile, occupied, at, step, head, rrx, keyed, finalized, commits, late>>
  BY DEF Arrive, dockFacts, position, dockState, bounds
<1>3. SocketTypes'
  <2>1. SocketTypes
    BY DEF SocketInv
  <2>2. arrived' \in Seq(Heads) /\ coming' \in [Heads -> {None, "slow", "late"}]
    BY <1>1, <2>1 DEF SocketTypes
  <2> QED
    BY <1>2, <2>1, <2>2 DEF SocketTypes
<1>4. CourseInv'
  BY <1>2 DEF SocketInv, CourseInv, Configuring, NoneFinalized, AllFinalized, CommittedEarly, Finalizing,
              Part
<1>5. PushInv'
  <2> SUFFICES ASSUME late = 0 PROVE PushInv'
    BY <1>2 DEF PushInv
  <2>1. ~NothingComes
    BY <1>1 DEF NothingComes
  <2>2. \A h \in Heads : h < head => Served(h)'
    BY <1>2 DEF SocketInv, PushInv, Served
  <2>3. CASE ~Configuring
    BY <1>2, <2>1, <2>2, <2>3 DEF SocketInv, PushInv, Configuring
  <2>4. CASE Configuring
    <3>1. step \in 0 .. 8 /\ head \in Heads
      BY <2>4 DEF SocketInv, CourseInv
    <3>2. /\ step = 2 /\ at # "head" /\ head \in occupied /\ rrx[head] = 0 /\ arrived = <<>>
          /\ \A h \in Heads : h # head => coming[h] = None
      BY <1>1, <2>1, <2>4, <3>1 DEF SocketInv, PushInv
    <3>3. g = head
      BY <1>1, <3>2
    <3>4. arrived' = <<head>> /\ \A h \in Heads : coming'[h] = None
      BY <1>1, <3>1, <3>2, <3>3 DEF SocketInv, SocketTypes
    <3> QED
      BY <1>2, <2>2, <2>4, <3>2, <3>4 DEF PushInv, Configuring
  <2> QED
    BY <2>3, <2>4
<1> QED
  BY <1>3, <1>4, <1>5 DEF SocketInv

\* Reading behind a message, other than the third.
LEMMA DrainSockets == ASSUME SocketInv, Drain, step # 2 PROVE SocketInv'
<1>1. /\ at = "drain" /\ Reads(arrived) /\ arrived' = <<>> /\ UNCHANGED coming /\ NextMessage
      /\ UNCHANGED <<profile, occupied, keyed, finalized, commits, late>>
  BY DEF Drain, dockFacts, dockState, bounds
<1>2. SocketTypes /\ Configuring
  BY <1>1 DEF SocketInv, Configuring
<1>3. /\ head \in Heads /\ commits = CommittedEarly /\ NoneFinalized /\ step \in 0 .. 8
      /\ \A h \in Heads : h > head => rrx[h] = 0
  BY <1>2 DEF SocketInv, CourseInv
<1>4. /\ rrx' \in [Heads -> Heads \cup {0}] /\ \A h \in Heads : h # head => rrx'[h] = rrx[h]
      /\ arrived = <<>> => rrx' = rrx
  BY <1>1, <1>2, <1>3, ReadRrx DEF SocketTypes
<1>5. arrived' \in Seq(Heads) /\ coming' \in [Heads -> {None, "slow", "late"}]
  BY <1>1, <1>2 DEF SocketTypes
<1>6. late = 0 =>
        /\ NothingComes /\ NothingComes' /\ rrx' = rrx
        /\ step < 2 => rrx[head] = 0
        /\ step >= 3 => /\ rrx[head] = (IF head \in occupied THEN head ELSE 0)
                        /\ step >= 4 /\ head \in occupied => head \in keyed
  <2> SUFFICES ASSUME late = 0
               PROVE  /\ NothingComes /\ (step < 2 => rrx[head] = 0)
                      /\ step >= 3 => /\ rrx[head] = (IF head \in occupied THEN head ELSE 0)
                                      /\ step >= 4 /\ head \in occupied => head \in keyed
    BY <1>1, <1>4 DEF NothingComes
  <2>1. CASE step < 2
    BY <1>2, <2>1, <1>3 DEF SocketInv, PushInv
  <2>2. CASE step >= 3
    BY <1>1, <1>2, <1>3, <2>2 DEF SocketInv, PushInv
  <2> QED
    BY <1>3, <2>1, <2>2
<1>7. CASE step = 8
  <2>1. NextHead
    BY <1>1, <1>7 DEF NextMessage
  <2>2. late = 0 => /\ rrx'[head] = (IF head \in occupied THEN head ELSE 0)
                    /\ (head \in occupied => head \in keyed) /\ NothingComes'
    BY <1>6, <1>7
  <2> QED
    BY <1>1, <1>2, <1>4, <1>5, <2>1, <2>2, NextSocket
<1>8. CASE step # 8
  <2>1. at' = "head" /\ step' = step + 1 /\ head' = head
    BY <1>1, <1>8 DEF NextMessage, Go
  <2>2. SocketTypes'
    BY <1>1, <1>2, <1>4, <1>5, <2>1 DEF SocketTypes
  <2>3. CourseInv'
    <3>1. \A h \in Heads : h > head' => rrx'[h] = 0
      BY <1>3, <1>4, <2>1 DEF Heads
    <3>2. head' \in Heads /\ step' \in 0 .. 8 /\ commits' = CommittedEarly' /\ NoneFinalized'
      BY <1>1, <1>3, <1>8, <2>1 DEF CommittedEarly, NoneFinalized
    <3> QED
      BY <2>1, <3>1, <3>2 DEF CourseInv, Configuring
  <2>4. PushInv'
    <3> SUFFICES ASSUME late = 0 PROVE PushInv'
      BY <1>1 DEF PushInv
    <3>1. \A h \in Heads : h < head' => Served(h)'
      BY <1>1, <1>6, <2>1 DEF SocketInv, PushInv, Served
    <3>2. NothingComes' /\ rrx' = rrx
      BY <1>6
    <3>3. CASE step < 2
      <4>1. step' <= 2 /\ rrx'[head'] = 0
        BY <1>3, <1>6, <2>1, <3>2, <3>3
      <4> QED
        BY <1>3, <2>1, <3>1, <3>2, <4>1 DEF PushInv, Configuring
    <3>4. CASE step >= 3
      <4>1. /\ step' >= 4 /\ rrx'[head'] = (IF head' \in occupied' THEN head' ELSE 0)
            /\ step' > 4 /\ head' \in occupied' => head' \in keyed'
        BY <1>1, <1>3, <1>6, <2>1, <3>2, <3>4
      <4> QED
        BY <1>3, <2>1, <3>1, <3>2, <4>1 DEF PushInv, Configuring
    <3> QED
      BY <1>3, <3>3, <3>4
  <2> QED
    BY <2>2, <2>3, <2>4 DEF SocketInv
<1> QED
  BY <1>7, <1>8

\* Reading behind the third message, where the connector's Rrx is awaited.
LEMMA LockstepSockets == ASSUME SocketInv, Drain, step = 2 PROVE SocketInv'
<1>1. /\ at = "drain" /\ at' = "hprime"
      /\ UNCHANGED <<profile, occupied, step, head, keyed, finalized, commits, late>>
  BY DEF Drain, Go, dockFacts, dockState, bounds
<1>2. SocketTypes /\ Configuring
  BY <1>1 DEF SocketInv, Configuring
<1>3. /\ head \in Heads /\ commits = CommittedEarly /\ NoneFinalized
      /\ \A h \in Heads : h > head => rrx[h] = 0
  BY <1>2 DEF SocketInv, CourseInv
<1>4. PICK queue \in Seq(Heads) :
        /\ Reads(queue)
        /\ \/ /\ queue = (IF arrived = <<>> THEN SlowPushes ELSE arrived)
              /\ arrived' = IF queue = <<>> THEN queue ELSE Tail(queue)
              /\ IF arrived = <<>> THEN SlowIsHere ELSE UNCHANGED coming
           \/ queue = arrived /\ arrived' = <<>> /\ UNCHANGED coming
  <2>1. SlowPushes \in Seq(Heads) /\ arrived \in Seq(Heads)
    BY <1>2, <1>3 DEF SlowPushes, SocketTypes
  <2> QED
    BY <2>1 DEF Drain
<1>5. /\ rrx' \in [Heads -> Heads \cup {0}] /\ \A h \in Heads : h # head => rrx'[h] = rrx[h]
      /\ queue = <<>> \/ rrx[head] # 0 => rrx' = rrx
      /\ queue # <<>> /\ rrx[head] = 0 => rrx'[head] = queue[1]
  BY <1>2, <1>3, <1>4, ReadRrx
<1>6. arrived' \in Seq(Heads) /\ coming' \in [Heads -> {None, "slow", "late"}]
  <2>1. arrived' \in Seq(Heads)
    <3>1. <<>> \in Seq(Heads) /\ (queue # <<>> => Tail(queue) \in Seq(Heads))
      BY <1>4
    <3>2. arrived' \in {<<>>, queue} \/ (queue # <<>> /\ arrived' = Tail(queue))
      BY <1>4
    <3> QED
      BY <1>4, <3>1, <3>2
  <2>2. coming' \in [Heads -> {None, "slow", "late"}]
    BY <1>2, <1>3, <1>4 DEF SocketTypes, SlowIsHere
  <2> QED
    BY <2>1, <2>2
<1>7. SocketTypes'
  BY <1>1, <1>2, <1>5, <1>6 DEF SocketTypes
<1>8. CourseInv'
  <2>1. \A h \in Heads : h > head' => rrx'[h] = 0
    BY <1>1, <1>3, <1>5 DEF Heads
  <2>2. head' \in Heads /\ step' = 2 /\ commits' = CommittedEarly' /\ NoneFinalized'
    BY <1>1, <1>3 DEF CommittedEarly, NoneFinalized
  <2> QED
    BY <1>1, <2>1, <2>2 DEF CourseInv, Configuring
<1>9. PushInv'
  <2> SUFFICES ASSUME late = 0 PROVE PushInv'
    BY <1>1 DEF PushInv
  <2>1. \A h \in Heads : h < head' => Served(h)'
    <3>1. \A h \in Heads : h < head => h # head /\ Served(h)
      BY DEF SocketInv, PushInv, Heads
    <3> QED
      BY <1>1, <1>5, <3>1 DEF Served
  <2>2. CASE head \notin occupied /\ rrx[head] = 0 /\ NothingComes
    <3>1. queue = <<>> /\ NothingComes'
      BY <1>2, <1>3, <1>4, <2>2 DEF NothingComes, SlowPushes, SlowIsHere, None
    <3> QED
      BY <1>1, <1>5, <2>1, <2>2, <3>1 DEF PushInv, Configuring
  <2>3. CASE head \in occupied /\ rrx[head] = 0 /\ arrived = <<head>> /\ \A h \in Heads : coming[h] = None
    <3>1. queue = <<head>> /\ UNCHANGED coming
      BY <1>4, <2>3
    <3>2. arrived' = <<>> /\ rrx'[head] = head
      BY <1>4, <1>5, <2>3, <3>1
    <3> QED
      BY <1>1, <2>1, <2>3, <3>1, <3>2 DEF PushInv, Configuring, NothingComes
  <2>4. CASE /\ head \in occupied /\ rrx[head] = 0 /\ arrived = <<>> /\ coming[head] = "slow"
             /\ \A h \in Heads : h # head => coming[h] = None
    <3>1. CASE queue = <<head>> /\ arrived' = Tail(queue) /\ SlowIsHere
      <4>1. arrived' = <<>> /\ rrx'[head] = head
        BY <1>5, <2>4, <3>1
      <4>2. \A h \in Heads : coming'[h] = None
        BY <1>2, <1>3, <2>4, <3>1 DEF SlowIsHere, SocketTypes
      <4> QED
        BY <1>1, <2>1, <2>4, <4>1, <4>2 DEF PushInv, Configuring, NothingComes
    <3>2. CASE queue = <<>> /\ arrived' = <<>> /\ UNCHANGED coming
      BY <1>1, <1>5, <2>1, <2>4, <3>2 DEF PushInv, Configuring
    <3> QED
      BY <1>4, <2>4, <3>1, <3>2 DEF SlowPushes
  <2>5. \/ head \notin occupied /\ rrx[head] = 0 /\ NothingComes
        \/ head \in occupied /\ rrx[head] = 0 /\ arrived = <<head>> /\ \A h \in Heads : coming[h] = None
        \/ /\ head \in occupied /\ rrx[head] = 0 /\ arrived = <<>> /\ coming[head] = "slow"
           /\ \A h \in Heads : h # head => coming[h] = None
    BY <1>1, <1>2 DEF SocketInv, PushInv
  <2> QED
    BY <2>2, <2>3, <2>4, <2>5
<1> QED
  BY <1>7, <1>8, <1>9 DEF SocketInv

\* The pause for H': whatever is not late is there.
LEMMA HPrimeSockets == ASSUME SocketInv, HPrime PROVE SocketInv'
<1>1. /\ at = "hprime" /\ Reads(HPrimeReads) /\ arrived' = <<>> /\ NextMessage
      /\ IF HPrimeReads = arrived THEN UNCHANGED coming ELSE SlowIsHere
      /\ UNCHANGED <<profile, occupied, keyed, finalized, commits, late>>
  BY DEF HPrime, dockFacts, dockState, bounds
<1>2. SocketTypes /\ Configuring
  BY <1>1 DEF SocketInv, Configuring
<1>3. /\ head \in Heads /\ commits = CommittedEarly /\ NoneFinalized /\ step = 2
      /\ \A h \in Heads : h > head => rrx[h] = 0
  BY <1>1, <1>2 DEF SocketInv, CourseInv
<1>4. HPrimeReads \in Seq(Heads)
  BY <1>2, <1>3 DEF HPrimeReads, SlowPushes, SocketTypes
<1>5. /\ rrx' \in [Heads -> Heads \cup {0}] /\ \A h \in Heads : h # head => rrx'[h] = rrx[h]
      /\ HPrimeReads = <<>> \/ rrx[head] # 0 => rrx' = rrx
      /\ HPrimeReads # <<>> /\ rrx[head] = 0 => rrx'[head] = HPrimeReads[1]
  BY <1>1, <1>2, <1>3, <1>4, ReadRrx
<1>6. arrived' \in Seq(Heads)
  BY <1>1
<1>7. coming' \in [Heads -> {None, "slow", "late"}]
  BY <1>1, <1>2, <1>3 DEF SocketTypes, SlowIsHere
<1>8. at' = "head" /\ step' = 3 /\ head' = head
  BY <1>1, <1>3 DEF NextMessage, Go
<1>9. SocketTypes'
  BY <1>1, <1>2, <1>5, <1>6, <1>7, <1>8 DEF SocketTypes
<1>10. CourseInv'
  <2>1. \A h \in Heads : h > head' => rrx'[h] = 0
    BY <1>3, <1>5, <1>8 DEF Heads
  <2>2. head' \in Heads /\ commits' = CommittedEarly' /\ NoneFinalized'
    BY <1>1, <1>3, <1>8 DEF CommittedEarly, NoneFinalized
  <2> QED
    BY <1>8, <2>1, <2>2 DEF CourseInv, Configuring
<1>11. PushInv'
  <2> SUFFICES ASSUME late = 0 PROVE PushInv'
    BY <1>1 DEF PushInv
  <2>1. \A h \in Heads : h < head' => Served(h)'
    <3>1. \A h \in Heads : h < head => h # head /\ Served(h)
      BY DEF SocketInv, PushInv, Heads
    <3> QED
      BY <1>1, <1>5, <1>8, <3>1 DEF Served
  <2>2. SUFFICES rrx'[head] = (IF head \in occupied THEN head ELSE 0) /\ NothingComes'
    BY <1>1, <1>8, <2>1 DEF PushInv, Configuring
  <2>3. CASE rrx[head] = (IF head \in occupied THEN head ELSE 0) /\ NothingComes
    <3>1. SlowPushes = <<>> /\ HPrimeReads = <<>>
      BY <1>3, <2>3 DEF NothingComes, SlowPushes, HPrimeReads, None
    <3> QED
      BY <1>1, <1>5, <2>3, <3>1 DEF NothingComes
  <2>4. CASE head \in occupied /\ rrx[head] = 0 /\ arrived = <<head>> /\ \A h \in Heads : coming[h] = None
    <3>1. SlowPushes = <<>> /\ HPrimeReads = <<head>>
      <4>1. SlowPushes = <<>>
        BY <1>3, <2>4 DEF SlowPushes, None
      <4>2. ASSUME NEW s \in Seq(Heads) PROVE s \o <<>> = s
        OBVIOUS
      <4> QED
        BY <1>2, <2>4, <4>1, <4>2 DEF HPrimeReads, SocketTypes
    <3> QED
      BY <1>1, <1>5, <2>4, <3>1 DEF NothingComes
  <2>5. CASE /\ head \in occupied /\ rrx[head] = 0 /\ arrived = <<>> /\ coming[head] = "slow"
             /\ \A h \in Heads : h # head => coming[h] = None
    <3>1. SlowPushes = <<head>> /\ HPrimeReads = <<head>>
      BY <2>5 DEF SlowPushes, HPrimeReads
    <3>2. SlowIsHere
      BY <1>1, <2>5, <3>1
    <3>3. \A h \in Heads : coming'[h] = None
      BY <1>2, <1>3, <2>5, <3>2 DEF SlowIsHere, SocketTypes
    <3> QED
      BY <1>1, <1>5, <2>5, <3>1, <3>3 DEF NothingComes
  <2>6. \/ rrx[head] = (IF head \in occupied THEN head ELSE 0) /\ NothingComes
        \/ head \in occupied /\ rrx[head] = 0 /\ arrived = <<head>> /\ \A h \in Heads : coming[h] = None
        \/ /\ head \in occupied /\ rrx[head] = 0 /\ arrived = <<>> /\ coming[head] = "slow"
           /\ \A h \in Heads : h # head => coming[h] = None
    BY <1>1, <1>2, <1>3 DEF SocketInv, PushInv
  <2> QED
    BY <2>3, <2>4, <2>5, <2>6
<1> QED
  BY <1>9, <1>10, <1>11 DEF SocketInv

\* The finalization goes through the connectors in order.
LEMMA FinalizeSockets ==
  ASSUME SocketInv, Finalize \/ FinalizeSkips \/ FinalizeDone PROVE SocketInv'
<1> USE DEF CP_SETUP_FINALIZE_STEPS
<1>1. UNCHANGED <<profile, occupied, head, rrx, keyed, coming, arrived, late>> /\ at = "finalize"
  BY DEF Finalize, FinalizeSkips, FinalizeDone, Message, dockFacts, dockState, pushes, bounds
<1>2. SocketTypes /\ Connectors \in Nat \ {0}
  BY EngageAssumption DEF SocketInv
<1>3. /\ head = Connectors + 1 /\ commits = CommittedEarly /\ step \in 0 .. 3 * Connectors
      /\ step < 3 * Connectors /\ rrx[Finalizing] = 0 => step % 3 = 0
      /\ \A h \in Heads : finalized[h] = IF rrx[h] # 0 THEN Part(h) ELSE 0
  BY <1>1 DEF SocketInv, CourseInv
<1>4. PushInv' \/ at' \notin {"finalize", "commit", "engaged", "failed"}
  <2>1. late = 0 => \A h \in Heads : h < head => Served(h)
    BY Zenon DEF SocketInv, PushInv
  <2>2. late' = late /\ head' = head /\ \A h : Served(h)' = Served(h)
    BY <1>1, Zenon DEF Served
  <2>3. head # 1
    BY <1>2, <1>3
  <2> QED
    BY <2>1, <2>2, <2>3, ZenonT(40) DEF PushInv, Configuring
<1>5. CASE Finalize
  <2>1. /\ at' = "finalize" /\ step < 3 * Connectors /\ rrx[Finalizing] # 0 /\ step' = step + 1
        /\ finalized' = [finalized EXCEPT ![Finalizing] = @ + 1] /\ commits' = commits
    BY <1>5 DEF Finalize, Authenticated
  <2> DEFINE f == Finalizing
  <2>2. f \in Heads /\ 3 * f - 3 <= step /\ step < 3 * f
    BY <1>2, <1>3, <2>1 DEF Heads, Finalizing
  <2>3. Finalizing' = f \/ step' % 3 = 0
    BY <1>3, <2>1 DEF Finalizing
  <2> HIDE DEF f
  <2>4. finalized' \in [Heads -> Nat]
    BY <1>2, <2>1, <2>2 DEF SocketTypes, f
  <2>5. SocketTypes'
    BY <1>1, <1>2, <1>3, <2>1, <2>4 DEF SocketTypes
  <2>6. ASSUME NEW h \in Heads PROVE finalized'[h] = IF rrx'[h] # 0 THEN Part(h)' ELSE 0
    <3>1. h \in Nat /\ f \in Nat /\ step \in Nat
      BY <1>3, <2>2 DEF Heads
    <3>2. CASE h = f
      <4>1. finalized'[h] = finalized[h] + 1 /\ rrx[h] # 0
        BY <1>2, <2>1, <3>2 DEF SocketTypes, f
      <4>2. Part(h)' = Part(h) + 1
        BY <2>1, <2>2, <3>1, <3>2 DEF Part
      <4> QED
        BY <1>1, <1>3, <4>1, <4>2
    <3>3. CASE h # f
      <4>1. finalized'[h] = finalized[h]
        BY <1>2, <2>1, <3>3 DEF SocketTypes, f
      <4>2. Part(h)' = Part(h)
        BY <2>1, <2>2, <3>1, <3>3 DEF Part
      <4> QED
        BY <1>1, <1>3, <4>1, <4>2
    <3> QED
      BY <3>2, <3>3
  <2>7. step' \in 0 .. 3 * Connectors /\ (rrx'[Finalizing'] = 0 => step' % 3 = 0)
    <3>1. step' \in 0 .. 3 * Connectors
      BY <1>2, <1>3, <2>1
    <3>2. rrx[f] # 0
      BY <2>1 DEF f
    <3> QED
      BY <1>1, <2>3, <3>1, <3>2
  <2>8. CourseInv'
    BY <1>1, <1>3, <2>1, <2>6, <2>7 DEF CourseInv, Configuring, CommittedEarly
  <2> QED
    BY <1>4, <2>1, <2>5, <2>8 DEF SocketInv
<1>6. CASE FinalizeSkips
  <2>1. /\ at' = "finalize" /\ step < 3 * Connectors /\ rrx[Finalizing] = 0 /\ step' = step + 3
        /\ UNCHANGED <<finalized, commits>>
    BY <1>6 DEF FinalizeSkips, Authenticated, dockState
  <2> DEFINE f == Finalizing
  <2>2. step % 3 = 0
    BY <1>3, <2>1
  <2>3. f \in Heads /\ 3 * f - 3 = step
    BY <1>2, <1>3, <2>1, <2>2 DEF Heads, Finalizing
  <2>4. step' % 3 = 0
    BY <1>3, <2>1, <2>2
  <2>5. rrx[f] = 0
    BY <2>1
  <2> HIDE DEF f
  <2>6. SocketTypes'
    BY <1>1, <1>2, <2>1 DEF SocketTypes
  <2>7. ASSUME NEW h \in Heads PROVE finalized'[h] = IF rrx'[h] # 0 THEN Part(h)' ELSE 0
    <3>1. h \in Nat /\ f \in Nat /\ step \in Nat
      BY <1>3, <2>3 DEF Heads
    <3>2. CASE h = f
      BY <1>1, <1>3, <2>1, <2>5, <3>2
    <3>3. CASE h # f
      <4>1. Part(h)' = Part(h)
        BY <2>1, <2>3, <3>1, <3>3 DEF Part
      <4> QED
        BY <1>1, <1>3, <2>1, <4>1
    <3> QED
      BY <3>2, <3>3
  <2>8. step' \in 0 .. 3 * Connectors
    <3>1. f \in 1 .. Connectors
      BY <2>3 DEF Heads
    <3> QED
      BY <1>2, <1>3, <2>1, <2>3, <3>1
  <2>9. CourseInv'
    BY <1>1, <1>3, <2>1, <2>4, <2>7, <2>8 DEF CourseInv, Configuring, CommittedEarly
  <2> QED
    BY <1>4, <2>1, <2>6, <2>9 DEF SocketInv
<1>7. CASE FinalizeDone
  <2>1. /\ step = 3 * Connectors /\ UNCHANGED <<step, finalized, commits>>
        /\ IF profile.early_commit THEN at' \in {"engaged", "failed"} ELSE at' = "commit"
    BY <1>7 DEF FinalizeDone, CommitsAtTheEnd, Go, Finish, dockState
  <2>2. SocketTypes'
    BY <1>1, <1>2, <2>1 DEF SocketTypes
  <2>3. AllFinalized'
    <3>1. \A h \in Heads : Part(h) = 3
      BY <1>2, <2>1 DEF Part, Heads
    <3> QED
      BY <1>1, <1>3, <2>1, <3>1 DEF AllFinalized
  <2>4. CourseInv'
    BY <1>1, <1>2, <1>3, <2>1, <2>3 DEF CourseInv, Configuring, CommittedEarly
  <2> QED
    BY <1>4, <2>1, <2>2, <2>4 DEF SocketInv
<1> QED
  BY <1>5, <1>6, <1>7

\* engage, its faults and the pushes.
LEMMA SetupSockets == ASSUME SocketInv, EngageStep \/ EngageFault \/ Arrive PROVE SocketInv'
<1>1. SocketTypes
  BY DEF SocketInv
<1>2. CASE Open
  BY <1>2, SocketsAhead DEF Open, Go, bounds
<1>3. CASE Authenticate
  <2>1. step' \in Nat /\ at' \in {"failed", "first", "auth"}
    BY <1>1, <1>3 DEF Authenticate, SocketTypes, Go
  <2> QED
    BY <1>3, <2>1, SocketsAhead DEF Authenticate, bounds
<1>4. CASE First
  BY <1>4, SocketsAhead DEF First, Message, Go, bounds
<1>5. CASE Wide
  BY <1>1, <1>5, SocketsAhead DEF Wide, SocketTypes, bounds
<1>6. CASE FirstRetries
  BY <1>1, <1>6, SocketsAhead DEF FirstRetries, Go, SocketTypes
<1>7. CASE AuthenticateFails \/ ControlFails
  BY <1>1, <1>7, SocketsAhead DEF AuthenticateFails, ControlFails, EngageFails, Go, SocketTypes
<1>8. CASE Disconnects
  BY <1>1, <1>8, SocketsAhead DEF Disconnects, Go, SocketTypes
<1> QED
  BY <1>2, <1>3, <1>4, <1>5, <1>6, <1>7, <1>8, BeginSockets, MessageSockets, NoSinkSockets, DrainSockets,
     LockstepSockets, HPrimeSockets, FinalizeSockets, ArriveSockets DEF EngageStep, EngageFault

\* The daemon's steps.
LEMMA FetchSockets ==
  ASSUME SocketInv, FetchStep \/ FetchFails \/ DdcCompletes \/ Offer \/ Refresh \/ Restart PROVE SocketInv'
<1>1. late \in Nat
  BY DEF SocketInv, SocketTypes
<1>2. CASE Restart
  <2>1. /\ UNCHANGED <<profile, occupied>> /\ at' = "open" /\ step' = 0 /\ head' = 0 /\ commits' = 0 /\ late' = 0
        /\ rrx' = [h \in Heads |-> 0] /\ finalized' = [h \in Heads |-> 0]
        /\ arrived' = <<>> /\ coming' = [h \in Heads |-> None]
    BY <1>2 DEF Restart, dockFacts
  <2>2. <<>> \in Seq(Heads)
    OBVIOUS
  <2>3. SocketTypes'
    BY <2>1, <2>2 DEF SocketInv, SocketTypes
  <2>4. CourseInv'
    BY <2>1 DEF CourseInv, Configuring, NoneFinalized
  <2>5. PushInv'
    BY <2>1 DEF PushInv, Configuring, NothingComes, Heads
  <2> QED
    BY <2>3, <2>4, <2>5 DEF SocketInv
<1>3. CASE FetchStep
  <2>1. UNCHANGED unfetched
    BY <1>3 DEF FetchStep, Early, Kick, Get, AsyncWait, EngageSink, Poll, PollProbe, PollEnds, Final,
                FinalEnds, Post, Step, Exchange
  <2>2. late' \in {late, late + 1}
    BY <1>3 DEF FetchStep, Early, Kick, Get, AsyncWait, EngageSink, Poll, PollProbe, PollEnds, Final,
                FinalEnds, Post, Step, Exchange, Drained, bounds
  <2> QED
    BY <1>1, <2>1, <2>2, SocketsUntouched
<1>4. CASE FetchFails
  BY <1>1, <1>4, SocketsUntouched DEF FetchFails
<1>5. CASE DdcCompletes
  BY <1>1, <1>5, SocketsUntouched DEF DdcCompletes
<1>6. CASE Offer \/ Refresh
  BY <1>1, <1>6, SocketsUntouched DEF Offer, Refresh, bounds
<1> QED
  BY <1>2, <1>3, <1>4, <1>5, <1>6

LEMMA EngageInvariant == Spec => [](CounterInv /\ SocketInv)
<1>1. FetchInit => CounterInv /\ SocketInv
  <2> SUFFICES ASSUME FetchInit PROVE CounterInv /\ SocketInv
    OBVIOUS
  <2>1. Init /\ fetching = 0 /\ line = None /\ <<>> \in Seq(Heads)
    BY DEF FetchInit
  <2>2. CounterInv
    BY <2>1 DEF Init, CounterInv, InStep, Configuring
  <2>3. SocketTypes
    BY <2>1 DEF Init, Docks, SocketTypes
  <2>4. CourseInv
    BY <2>1 DEF Init, CourseInv, Configuring, NoneFinalized
  <2>5. PushInv
    BY <2>1 DEF Init, PushInv, Configuring, NothingComes, Heads
  <2> QED
    BY <2>2, <2>3, <2>4, <2>5 DEF SocketInv
<1>2. CounterInv /\ SocketInv /\ [Next]_vars => (CounterInv /\ SocketInv)'
  <2> SUFFICES ASSUME CounterInv, SocketInv, [Next]_vars PROVE (CounterInv /\ SocketInv)'
    OBVIOUS
  <2>1. CASE Setup
    BY <2>1, EngageCounts, HeadCounts, FaultCounts, SetupSockets DEF Setup, EngageStep
  <2>2. CASE FetchStep \/ FetchFails \/ DdcCompletes \/ Offer \/ Refresh \/ Restart
    BY <2>2, FetchCounts, FetchSockets
  <2>3. CASE UNCHANGED vars
    <3>1. UNCHANGED <<engageVars, fetchVars>>
      BY <2>3 DEF vars
    <3>2. SocketInv'
      BY <3>1, SocketsUntouched DEF engageVars, unfetched, bounds, SocketInv, SocketTypes
    <3>3. CounterInv'
      BY <3>1 DEF engageVars, fetchVars, position, hostCounters, dockCounters, bounds, CounterInv, InStep,
                  Configuring, Blocks
    <3> QED
      BY <3>2, <3>3
  <2> QED
    BY <2>1, <2>2, <2>3 DEF Next
<1> QED
  BY <1>1, <1>2, PTL DEF Spec

\* Whatever the dock is and whatever fails, every message of the link
\* authentication, the setup, the fetches and the probes reaches the dock under
\* the dock's own counters, until a failed write was taken all the same.
THEOREM AlwaysStaysInStep == Spec => []StaysInStep
<1>1. CounterInv /\ SocketInv => StaysInStep
  BY DEF CounterInv, StaysInStep
<1> QED
  BY <1>1, EngageInvariant, PTL

\* For any number of connectors, a session that is engaged has started the
\* video engine once and finalized exactly the authenticated connectors; with
\* no answer late, those are the occupied ones, each under its own Rrx.
THEOREM SocketsAreAlwaysAuthenticated == Spec => []SocketsAuthenticated
<1>1. CounterInv /\ SocketInv => SocketsAuthenticated
  <2> SUFFICES ASSUME SocketInv, at = "engaged" PROVE SocketsAuthenticated
    BY DEF SocketsAuthenticated
  <2>1. head = Connectors + 1 /\ commits = 1 /\ AllFinalized
    BY DEF SocketInv, CourseInv
  <2>2. \A h \in Heads : h < head
    BY <2>1, EngageAssumption DEF Heads
  <2>3. late = 0 => \A h \in Heads : Served(h)
    BY <2>2 DEF SocketInv, PushInv
  <2> QED
    BY <2>1, <2>3 DEF SocketsAuthenticated, AllFinalized, Served, CP_SETUP_FINALIZE_STEPS
<1> QED
  BY <1>1, EngageInvariant, PTL

-----------------------------------------------------------------------------
\* Steps that leave the fetch alone, late answers of others included.
LEMMA FetchUntouched ==
  ASSUME FetchInv, UNCHANGED <<fetchVars, profile, occupied>>, late' \in Nat, late' = 0 => late = 0
  PROVE  FetchInv'
<1>1. UNCHANGED <<fetching, line, round, edid, ready, outputs, asked, replies, ddc, fetches>>
  BY DEF fetchVars
<1>2. FetchTypes'
  BY <1>1 DEF FetchInv, FetchTypes
<1>3. Answers' = Answers /\ Waiting' = Waiting /\ Blocked' = Blocked /\ Unreported' = Unreported /\ Done' = Done
  BY <1>1 DEF Answers, Waiting, Blocked, Unreported, Done, Mine
<1>4. Quiet'
  BY <1>1, <1>3 DEF FetchInv, Quiet
<1> QED
  BY <1>2, <1>4 DEF FetchInv

\* What the dock answers the messages of a fetch with.
LEMMA DockSays ==
  ASSUME FetchTypes, fetching # 0, NEW reply
  PROVE  /\ reply \in DockAnswers(get_edid_req_sub, fetching) =>
              reply = Mine("busy") \/ (Done /\ profile.edid_ready /\ reply = Mine("ready"))
         /\ \A message \in {edid_readiness_kick, edid_engage_req, device_query_req, post_edid_query} :
              reply \in DockAnswers(message, fetching) => reply = Ack
         /\ reply \in DockAnswers(get_edid_req, fetching) =>
              IF Done THEN reply = Mine("monitor")
              ELSE reply \in {Ack, Mine("bridge")} \/ (profile.edid_ready /\ reply = Mine("placeholder"))
<1> USE DEF get_edid_req_sub, edid_readiness_kick, edid_engage_req, device_query_req, post_edid_query,
            get_edid_req
<1>1. reply \in DockAnswers(get_edid_req_sub, fetching) =>
        reply = Mine("busy") \/ (Done /\ profile.edid_ready /\ reply = Mine("ready"))
  BY DEF DockAnswers, Mine, Done
<1>2. \A message \in {edid_readiness_kick, edid_engage_req, device_query_req, post_edid_query} :
        reply \in DockAnswers(message, fetching) => reply = Ack
  BY DEF DockAnswers
<1>3. ASSUME reply \in DockAnswers(get_edid_req, fetching)
      PROVE  IF Done THEN reply = Mine("monitor")
             ELSE reply \in {Ack, Mine("bridge")} \/ (profile.edid_ready /\ reply = Mine("placeholder"))
  <2>1. reply \in EdidAnswers(fetching)
    BY <1>3 DEF DockAnswers
  <2>2. ~(profile.shared_edid /\ fetching \notin occupied)
    BY DEF FetchTypes
  <2> QED
    BY <2>1, <2>2 DEF EdidAnswers, Done, Mine
<1> QED
  BY <1>1, <1>2, <1>3

\* The oldest reply, if the answer to the message is the last.
Oldest(reply) == IF replies = <<>> THEN reply ELSE replies[1]

ReadOf(reply, settles) ==
  /\ ready' = Heard(Oldest(reply))
  /\ edid' = IF settles THEN Settled(Kept(Oldest(reply)), ready') ELSE Kept(Oldest(reply))
  /\ replies' = Tail(Append(replies, reply))

LEMMA NoBlockIsAReply == NoBlock \in Replies /\ Ack \in Replies
  BY DEF NoBlock, Ack, Reply, Replies, Kinds

\* Whatever is read has its type.
LEMMA DrainedTypes ==
  ASSUME FetchTypes, NEW queue \in Seq(Replies), NEW settles \in BOOLEAN, Drained(queue, settles)
  PROVE  /\ edid' \in Replies /\ ready' \in BOOLEAN /\ replies' \in Seq(Replies) /\ late' \in Nat
         /\ late' = 0 => late = 0 /\ \/ /\ queue # <<>> /\ replies' = Tail(queue) /\ ready' = Heard(queue[1])
                                        /\ edid' = IF settles THEN Settled(Kept(queue[1]), ready') ELSE Kept(queue[1])
                                     \/ /\ queue = <<>> /\ replies' = <<>> /\ ready' = ready
                                        /\ edid' = IF settles THEN Settled(edid, ready) ELSE edid
<1>1. edid \in Replies /\ ready \in BOOLEAN /\ late \in Nat /\ NoBlock \in Replies
  BY NoBlockIsAReply DEF FetchTypes
<1>2. CASE /\ queue # <<>> /\ replies' = Tail(queue) /\ ready' = Heard(queue[1])
           /\ edid' = IF settles THEN Settled(Kept(queue[1]), ready') ELSE Kept(queue[1])
           /\ UNCHANGED late
  <2>1. queue[1] \in Replies /\ Tail(queue) \in Seq(Replies)
    BY <1>2
  <2>2. ready' \in BOOLEAN /\ Kept(queue[1]) \in Replies
    BY <1>1, <1>2, <2>1 DEF Heard, Kept
  <2>3. edid' \in Replies
    BY <1>1, <1>2, <2>2 DEF Settled
  <2> QED
    BY <1>1, <1>2, <2>1, <2>2, <2>3
<1>3. CASE /\ late' = IF queue = <<>> THEN late ELSE late + 1
           /\ replies' = queue /\ ready' = ready
           /\ edid' = IF settles THEN Settled(edid, ready) ELSE edid
  BY <1>1, <1>3 DEF Settled
<1> QED
  BY <1>2, <1>3 DEF Drained

LEMMA AnswersAreReplies ==
  ASSUME FetchTypes, fetching # 0, NEW message,
         message \in {get_edid_req_sub, edid_readiness_kick, edid_engage_req, device_query_req, post_edid_query,
                      get_edid_req},
         NEW reply \in DockAnswers(message, fetching)
  PROVE  reply \in Replies
<1>1. fetching \in Heads \cup {0}
  BY DEF FetchTypes
<1>2. /\ \A kind \in Kinds : Mine(kind) \in Replies
      /\ Ack \in Replies
  BY <1>1, NoBlockIsAReply DEF Mine, Reply, Replies
<1>3. reply \in {Ack, Mine("busy"), Mine("ready"), Mine("bridge"), Mine("placeholder"), Mine("monitor")}
  BY DockSays
<1> QED
  BY <1>2, <1>3 DEF Kinds

\* A message and the read behind it, with no answer late.
LEMMA Exchanged ==
  ASSUME FetchTypes, fetching # 0, NEW message, NEW settles \in BOOLEAN, Exchange(message, settles),
         message \in {get_edid_req_sub, edid_readiness_kick, edid_engage_req, device_query_req, post_edid_query,
                      get_edid_req}
  PROVE  /\ edid' \in Replies /\ ready' \in BOOLEAN /\ replies' \in Seq(Replies) /\ late' \in Nat
         /\ late' = 0 => late = 0 /\ \E reply \in DockAnswers(message, fetching) : ReadOf(reply, settles)
         /\ UNCHANGED <<profile, occupied>>
<1>1. PICK reply \in DockAnswers(message, fetching) : Drained(Append(replies, reply), settles)
  BY DEF Exchange
<1>2. reply \in Replies /\ replies \in Seq(Replies)
  BY <1>1, AnswersAreReplies DEF FetchTypes
<1> DEFINE q == Append(replies, reply)
<1>3. q \in Seq(Replies) /\ q # <<>> /\ q[1] = Oldest(reply)
  <2>1. q \in Seq(Replies) /\ q # <<>>
    BY <1>2
  <2>2. CASE replies = <<>>
    BY <1>2, <2>2 DEF Oldest
  <2>3. CASE replies # <<>>
    <3>1. Len(replies) \in Nat /\ Len(replies) >= 1
      BY <1>2, <2>3
    <3> QED
      BY <1>2, <2>3, <3>1 DEF Oldest
  <2> QED
    BY <2>1, <2>2, <2>3
<1>4. Drained(q, settles)
  BY <1>1
<1> HIDE DEF q
<1>5. /\ edid' \in Replies /\ ready' \in BOOLEAN /\ replies' \in Seq(Replies) /\ late' \in Nat
      /\ late' = 0 => late = 0 /\ replies' = Tail(q) /\ ready' = Heard(q[1])
                      /\ edid' = IF settles THEN Settled(Kept(q[1]), ready') ELSE Kept(q[1])
  BY <1>3, <1>4, DrainedTypes
<1>6. late' = 0 => ReadOf(reply, settles)
  BY <1>3, <1>5 DEF ReadOf, q
<1> QED
  BY <1>1, <1>5, <1>6 DEF Exchange, unfetched, dockFacts

\* A queue the dock adds to.
LEMMA QueueGrows ==
  ASSUME NEW S, NEW q \in Seq(S), NEW reply \in S
  PROVE  /\ Len(Append(q, reply)) = Len(q) + 1
         /\ \A i \in 1 .. Len(Append(q, reply)) :
              Append(q, reply)[i] = reply \/ (i \in 1 .. Len(q) /\ Append(q, reply)[i] = q[i])
         /\ \A i \in 1 .. Len(Append(q, reply)) : i > Len(q) => Append(q, reply)[i] = reply
  OBVIOUS

\* A queue the host reads from once for each message it sends.
LEMMA QueueMoves ==
  ASSUME NEW S, NEW q \in Seq(S), NEW reply \in S
  PROVE  /\ Len(Tail(Append(q, reply))) = Len(q)
         /\ \A i \in 1 .. Len(q) : Tail(Append(q, reply))[i] = IF i = Len(q) THEN reply ELSE q[i + 1]
         /\ q = <<>> => Tail(Append(q, reply)) = <<>>
         /\ Len(q) = 1 => Tail(Append(q, reply)) = <<reply>>
<1> DEFINE a == Append(q, reply)
           t == Tail(a)
<1>1. a \in Seq(S) /\ Len(a) = Len(q) + 1 /\ a # <<>> /\ Len(q) \in Nat
  OBVIOUS
<1>2. \A i \in 1 .. Len(q) : a[i] = q[i]
  OBVIOUS
<1>3. a[Len(q) + 1] = reply
  OBVIOUS
<1> HIDE DEF a
<1>4. t \in Seq(S) /\ Len(t) = Len(q)
  BY <1>1
<1>5. \A i \in 1 .. Len(q) : t[i] = a[i + 1]
  BY <1>1
<1>6. \A i \in 1 .. Len(q) : t[i] = IF i = Len(q) THEN reply ELSE q[i + 1]
  BY <1>1, <1>2, <1>3, <1>5
<1> HIDE DEF t
<1>7. q = <<>> => t = <<>>
  BY <1>1, <1>4
<1>8. Len(q) = 1 => t = <<reply>>
  BY <1>1, <1>4, <1>6
<1> QED
  BY <1>4, <1>6, <1>7, <1>8 DEF a, t

LEMMA QueueTurns ==
  ASSUME NEW S, NEW q \in Seq(S), NEW reply \in S, NEW turned, turned = Tail(Append(q, reply))
  PROVE  /\ Len(turned) = Len(q) /\ (q = <<>> => turned = <<>>)
         /\ Len(q) = 1 => turned = <<reply>>
<1>1. /\ Len(Tail(Append(q, reply))) = Len(q) /\ (q = <<>> => Tail(Append(q, reply)) = <<>>)
      /\ Len(q) = 1 => Tail(Append(q, reply)) = <<reply>>
  BY QueueMoves
<1> QED
  BY <1>1, Zenon

\* The replies of a fetch are told apart by their kind.
LEMMA KindsDiffer ==
  /\ \A k, l \in Kinds : k # l => Mine(k) # Mine(l)
  /\ \A k \in Kinds : Mine(k).kind = k
  /\ Ack.kind = "ack" /\ NoBlock.kind = "none"
  BY DEF Mine, Reply, Ack, NoBlock

\* Outside the wait, reading with no answer late keeps what is known of the
\* replies, and keeps the block or takes the monitor's.
LEMMA PlainRead ==
  ASSUME FetchTypes, fetching # 0, line # "wait", \A i \in 1 .. Len(replies) : replies[i] \in Answers,
         Unreported, ready => Done /\ profile.edid_ready,
         NEW reply \in Answers, reply \in Replies, NEW settles, ReadOf(reply, settles),
         edid = Mine("placeholder") => reply # Mine("ready")
  PROVE  /\ \A i \in 1 .. Len(replies') : replies'[i] \in Answers
         /\ ready' => Done /\ profile.edid_ready
         /\ edid = Mine("placeholder") => ~ready' /\ \A i \in 1 .. Len(replies') : replies'[i] # Mine("ready")
         /\ Kept(Oldest(reply)) = edid \/ (edid = NoBlock /\ Done /\ Kept(Oldest(reply)) = Mine("monitor"))
<1> DEFINE r == Oldest(reply)
<1>1. replies \in Seq(Replies) /\ Len(replies) \in Nat
  <2>1. replies \in Seq(Replies)
    BY DEF FetchTypes
  <2> QED
    BY <2>1
<1>2. /\ Len(replies') = Len(replies)
      /\ \A i \in 1 .. Len(replies) : replies'[i] = IF i = Len(replies) THEN reply ELSE replies[i + 1]
  BY <1>1, QueueMoves DEF ReadOf
<1>3. \A i \in 1 .. Len(replies') : replies'[i] \in Answers
  BY <1>1, <1>2
<1>4. replies # <<>> => 1 \in 1 .. Len(replies)
  BY <1>1
<1>5. r \in Answers /\ (edid = Mine("placeholder") => r # Mine("ready"))
  BY <1>4 DEF Oldest, Unreported
<1>6. edid = Mine("placeholder") => \A i \in 1 .. Len(replies') : replies'[i] # Mine("ready")
  <2> SUFFICES ASSUME edid = Mine("placeholder"), NEW i \in 1 .. Len(replies) PROVE replies'[i] # Mine("ready")
    BY <1>2
  <2>1. \A j \in 1 .. Len(replies) : replies[j] # Mine("ready")
    BY DEF Unreported
  <2>2. CASE i = Len(replies)
    BY <1>2, <2>2
  <2>3. CASE i # Len(replies)
    <3>1. i + 1 \in 1 .. Len(replies)
      BY <1>1, <2>3
    <3> QED
      BY <1>2, <2>1, <2>3, <3>1
  <2> QED
    BY <2>2, <2>3
<1>7. r.kind = "ready" => r = Mine("ready") /\ Done /\ profile.edid_ready
  BY <1>5, KindsDiffer DEF Answers, Kinds
<1>8. ready' = Heard(r)
  BY DEF ReadOf
<1>9. Parses(r) => Done /\ r = Mine("monitor")
  BY <1>5, KindsDiffer DEF Answers, Kinds, Parses
<1>10. Kept(r) = edid \/ (edid = NoBlock /\ Done /\ Kept(r) = Mine("monitor"))
  BY <1>9 DEF Kept
<1> HIDE DEF r
<1>11. ready' => ready \/ r.kind = "ready"
  BY <1>8 DEF Heard
<1>12. ready' => Done /\ profile.edid_ready
  BY <1>7, <1>11
<1>13. edid = Mine("placeholder") => ~ready'
  BY <1>5, <1>7, <1>11 DEF Unreported
<1> QED
  BY <1>3, <1>6, <1>10, <1>12, <1>13 DEF r

\* The messages whose answer carries no block: probes, kick, engage and query.
LEMMA PlainKeeps ==
  ASSUME FetchInv, fetching # 0, NEW message, Exchange(message, FALSE),
         \/ line = "probe1" /\ line' = "probe2" /\ message = get_edid_req_sub
         \/ line = "probe2" /\ line' = "kick" /\ message = get_edid_req_sub
         \/ line = "kick" /\ line' = "get" /\ message = edid_readiness_kick
         \/ line = "engage1" /\ line' = "engage2" /\ message = edid_engage_req
         \/ line = "poll" /\ line' \in {"poll", "pollprobe"} /\ message = device_query_req
         \/ line = "pollprobe" /\ line' = "poll" /\ message = get_edid_req_sub,
         UNCHANGED <<fetching, outputs, asked>>,
         \/ UNCHANGED ddc
         \/ /\ line = "kick" /\ fetching \in occupied /\ ddc[fetching] = "idle"
            /\ ddc' = [ddc EXCEPT ![fetching] = "busy"]
  PROVE  FetchInv'
<1>1. FetchTypes /\ Quiet /\ line # "wait" /\ line' # "wait"
  BY DEF FetchInv
<1>2. /\ edid' \in Replies /\ ready' \in BOOLEAN /\ replies' \in Seq(Replies) /\ late' \in Nat
      /\ late' = 0 => late = 0 /\ \E reply \in DockAnswers(message, fetching) : ReadOf(reply, FALSE)
      /\ UNCHANGED <<profile, occupied>>
  BY <1>1, Exchanged
<1>3. /\ ddc' \in [Heads -> {"idle", "busy", "done"}] /\ (Done' = Done)
      /\ \A h \in Heads : ddc'[h] # "idle" => h \in occupied /\ h \in asked
  BY <1>1 DEF FetchTypes, Done
<1>4. line' \in Lines \cup {None} /\ (fetching' = 0) = (line' = None)
  BY DEF Lines, None
<1>5. FetchTypes'
  BY <1>1, <1>2, <1>3, <1>4 DEF FetchTypes
<1>6. Quiet'
  <2> SUFFICES ASSUME late' = 0 PROVE Quiet'
    BY DEF Quiet
  <2>1. PICK reply \in DockAnswers(message, fetching) : ReadOf(reply, FALSE)
    BY <1>2
  <2>2. /\ \A i \in 1 .. Len(replies) : replies[i] \in Answers
        /\ edid \in Blocked /\ Waiting /\ Unreported
        /\ ready => Done /\ profile.edid_ready
        /\ \A h \in Heads : outputs[h] # NoBlock => outputs[h] = Reply("monitor", h) /\ h \in occupied
    BY <1>1, <1>2 DEF Quiet
  <2>3. reply \in Answers /\ reply \in Replies /\ (line \in {"kick", "engage1"} => reply = Ack)
    <3>1. reply \in Replies
      BY <1>1, AnswersAreReplies
    <3>2. \/ reply = Mine("busy") \/ (Done /\ profile.edid_ready /\ reply = Mine("ready"))
          \/ reply = Ack
      BY <1>1, DockSays
    <3>3. line \in {"kick", "engage1"} => reply = Ack
      BY <1>1, DockSays
    <3> QED
      BY <3>1, <3>2, <3>3 DEF Answers
  <2>4. edid = Mine("placeholder") => line = "engage1"
    BY <2>2, KindsDiffer DEF Blocked, Kinds, NoBlock, Mine, Reply
  <2>5. /\ \A i \in 1 .. Len(replies') : replies'[i] \in Answers
        /\ ready' => Done /\ profile.edid_ready
        /\ edid = Mine("placeholder") => ~ready' /\ \A i \in 1 .. Len(replies') : replies'[i] # Mine("ready")
        /\ edid' = edid \/ (edid = NoBlock /\ Done /\ edid' = Mine("monitor"))
    <3>1. edid = Mine("placeholder") => reply # Mine("ready")
      BY <2>3, <2>4, KindsDiffer DEF Kinds
    <3> QED
      BY <1>1, <2>1, <2>2, <2>3, <3>1, PlainRead DEF ReadOf
  <2>6. Answers' = Answers /\ \A kind : Mine(kind)' = Mine(kind)
    BY <1>1, <1>2, <1>3 DEF Answers, Mine
  <2>7. \A i \in 1 .. Len(replies') : replies'[i] # Mine("placeholder")
    BY <1>1, <2>5, KindsDiffer DEF Answers, Kinds
  <2>8. Unreported'
    <3>1. edid' = Mine("placeholder") => edid = Mine("placeholder")
      BY <2>5, KindsDiffer DEF Kinds
    <3> QED
      BY <2>5, <2>6, <2>7, <3>1 DEF Unreported
  <2>9. edid' \in Blocked'
    BY <1>1, <1>2, <1>3, <2>2, <2>4, <2>5, <2>6 DEF Blocked
  <2>10. Waiting'
    <3>1. /\ Len(replies') = Len(replies) /\ (replies = <<>> => replies' = <<>>)
          /\ Len(replies) = 1 => replies' = <<reply>>
      <4>1. replies' = Tail(Append(replies, reply)) /\ replies \in Seq(Replies) /\ reply \in Replies
        BY <1>1, <2>1, <2>3, Zenon DEF ReadOf, FetchTypes
      <4> QED
        BY <4>1, QueueTurns, ZenonT(40)
    <3>2. replies \in Seq(Replies) /\ Len(replies) \in Nat /\ (Len(replies) = 0 => replies = <<>>)
      BY <1>1 DEF FetchTypes
    <3>3. CASE line \in {"probe1", "probe2"}
      <4>1. Len(replies) <= 1 /\ (ddc[fetching] = "busy" => replies = <<>>)
        BY <2>2, <3>3 DEF Waiting
      <4> QED
        BY <3>1, <3>3, <4>1 DEF Waiting
    <3>4. CASE line = "kick"
      <4>1. Len(replies) <= 1
        BY <2>2, <3>4 DEF Waiting
      <4>2. replies' \in {<<>>, <<Ack>>}
        BY <2>3, <3>1, <3>2, <3>4, <4>1
      <4>3. Ack' = Ack
        BY DEF Ack, Reply
      <4> QED
        BY <3>4, <4>2, <4>3 DEF Waiting
    <3>5. CASE line \in {"engage1", "poll", "pollprobe"}
      <4>1. IF Done THEN Len(replies) <= 1 ELSE replies = <<>>
        BY <2>2, <3>5 DEF Waiting
      <4> QED
        BY <1>3, <3>1, <3>5, <4>1 DEF Waiting
    <3> QED
      BY <3>3, <3>4, <3>5
  <2> QED
    BY <1>2, <1>3, <2>2, <2>5, <2>6, <2>8, <2>9, <2>10 DEF Quiet
<1> QED
  BY <1>5, <1>6 DEF FetchInv

\* The second engage and the last query, which settle what was read.
LEMMA SettledKeeps ==
  ASSUME FetchInv, fetching # 0, NEW message, Exchange(message, TRUE), UNCHANGED <<asked, ddc>>,
         \/ /\ line = "engage2" /\ line' \in {"poll", "post"} /\ message = edid_engage_req
            /\ UNCHANGED <<fetching, outputs>>
         \/ /\ line = "post" /\ line' = None /\ message = post_edid_query /\ fetching' = 0
            /\ outputs' = [outputs EXCEPT ![fetching] = edid']
  PROVE  FetchInv'
<1>1. FetchTypes /\ Quiet /\ line # "wait" /\ line' # "wait" /\ fetching \in Heads
  BY DEF FetchInv, FetchTypes, None
<1>2. /\ edid' \in Replies /\ ready' \in BOOLEAN /\ replies' \in Seq(Replies) /\ late' \in Nat
      /\ late' = 0 => late = 0 /\ \E reply \in DockAnswers(message, fetching) : ReadOf(reply, TRUE)
      /\ UNCHANGED <<profile, occupied>>
  BY <1>1, Exchanged
<1>3. outputs' \in [Heads -> Replies]
  BY <1>1, <1>2 DEF FetchTypes
<1>4. /\ line' \in Lines \cup {None} /\ (fetching' = 0) = (line' = None) /\ fetching' \in Heads \cup {0}
      /\ fetching' # 0 => fetching' = fetching
  BY <1>1 DEF Lines, None
<1>5. FetchTypes'
  BY <1>1, <1>2, <1>3, <1>4 DEF FetchTypes
<1>6. Quiet'
  <2> SUFFICES ASSUME late' = 0 PROVE Quiet'
    BY DEF Quiet
  <2>1. PICK reply \in DockAnswers(message, fetching) : ReadOf(reply, TRUE)
    BY <1>2
  <2>2. /\ \A i \in 1 .. Len(replies) : replies[i] \in Answers
        /\ edid \in Blocked /\ Waiting /\ Unreported
        /\ ready => Done /\ profile.edid_ready
        /\ \A h \in Heads : outputs[h] # NoBlock => outputs[h] = Reply("monitor", h) /\ h \in occupied
    BY <1>1, <1>2 DEF Quiet
  <2>3. reply = Ack /\ reply \in Answers /\ reply \in Replies
    BY <1>1, DockSays, NoBlockIsAReply DEF Answers
  <2>4. /\ \A i \in 1 .. Len(replies') : replies'[i] \in Answers
        /\ ready' => Done /\ profile.edid_ready
        /\ edid = Mine("placeholder") => ~ready'
        /\ Kept(Oldest(reply)) = edid \/ (edid = NoBlock /\ Done /\ Kept(Oldest(reply)) = Mine("monitor"))
    <3>1. reply # Mine("ready")
      BY <2>3, KindsDiffer DEF Kinds
    <3> QED
      BY <1>1, <2>1, <2>2, <2>3, <3>1, PlainRead
  <2>5. edid' = NoBlock \/ (Done /\ edid' = Mine("monitor"))
    <3>1. edid' = Settled(Kept(Oldest(reply)), ready')
      BY <2>1 DEF ReadOf
    <3>2. edid = NoBlock \/ (Done /\ edid = Mine("monitor")) \/ (profile.edid_ready /\ edid = Mine("placeholder"))
      BY <2>2 DEF Blocked
    <3>3. CASE profile.edid_ready /\ edid = Mine("placeholder")
      BY <2>4, <3>1, <3>3 DEF Settled
    <3>4. CASE edid = NoBlock \/ (Done /\ edid = Mine("monitor"))
      BY <2>4, <3>1, <3>4 DEF Settled
    <3> QED
      BY <3>2, <3>3, <3>4
  <2>6. /\ Len(replies') = Len(replies) /\ (replies = <<>> => replies' = <<>>)
        /\ Len(replies) = 1 => replies' = <<Ack>>
    <3>1. replies' = Tail(Append(replies, Ack)) /\ replies \in Seq(Replies) /\ Ack \in Replies
      BY <1>1, <2>1, <2>3, Zenon DEF ReadOf, FetchTypes
    <3> QED
      BY <3>1, QueueTurns, ZenonT(40)
  <2>7. IF Done THEN Len(replies) <= 1 ELSE replies = <<>>
    BY <2>2 DEF Waiting
  <2>8. replies \in Seq(Replies) /\ Len(replies) \in Nat /\ (Len(replies) = 0 => replies = <<>>)
    BY <1>1 DEF FetchTypes
  <2>9. CASE line = "engage2"
    <3>1. Answers' = Answers /\ Done' = Done /\ \A kind : Mine(kind)' = Mine(kind)
      BY <1>1, <1>2, <2>9 DEF Answers, Mine, Done
    <3>2. \A i \in 1 .. Len(replies') : replies'[i] # Mine("placeholder")
      BY <1>1, <2>4, KindsDiffer DEF Answers, Kinds
    <3>3. edid' # Mine("placeholder")
      BY <2>5, KindsDiffer DEF Kinds, NoBlock, Mine, Reply
    <3>4. Unreported'
      BY <3>1, <3>2, <3>3 DEF Unreported
    <3>5. edid' \in Blocked'
      BY <1>1, <2>5, <3>1, <2>9 DEF Blocked
    <3>6. Waiting'
      BY <2>6, <2>7, <2>9, <3>1 DEF Waiting
    <3> QED
      BY <1>2, <2>2, <2>4, <2>9, <3>1, <3>4, <3>5, <3>6 DEF Quiet
  <2>10. CASE line = "post"
    <3>1. replies' = <<>> \/ replies' = <<Ack>>
      BY <2>6, <2>7, <2>8
    <3>2. Done => fetching \in occupied
      BY <1>1 DEF FetchTypes, Done
    <3>3. ASSUME NEW h \in Heads, outputs'[h] # NoBlock PROVE outputs'[h] = Reply("monitor", h) /\ h \in occupied
      <4>1. CASE h = fetching
        <5>1. outputs'[h] = edid'
          BY <1>1, <2>10, <4>1 DEF FetchTypes
        <5> QED
          BY <2>5, <3>2, <3>3, <4>1, <5>1 DEF Mine
      <4>2. CASE h # fetching
        BY <1>1, <2>2, <2>10, <3>3, <4>2 DEF FetchTypes
      <4> QED
        BY <4>1, <4>2
    <3> QED
      BY <1>2, <2>10, <3>1, <3>3 DEF Quiet, Ack, NoBlock, Reply
  <2> QED
    BY <2>9, <2>10
<1> QED
  BY <1>5, <1>6 DEF FetchInv

\* The steps between the rounds.
LEMMA TurnKeeps ==
  ASSUME FetchInv, PollEnds \/ FinalEnds PROVE FetchInv'
<1>1. /\ line \in {"poll", "final"} /\ line' \in {"final", "post"} /\ (line = "poll" => line' = "final")
      /\ UNCHANGED <<profile, occupied, late, fetching, edid, ready, outputs, asked, replies, ddc>>
      /\ FetchTypes /\ Quiet
  BY DEF PollEnds, FinalEnds, At, unfetched, dockFacts, bounds, FetchInv
<1>2. FetchTypes' /\ fetching # 0
  BY <1>1 DEF FetchTypes, Lines, None
<1>3. Quiet'
  <2>1. Answers' = Answers /\ Done' = Done /\ \A kind : Mine(kind)' = Mine(kind)
    BY <1>1 DEF Answers, Mine, Done
  <2>2. Unreported' = Unreported /\ Waiting' = Waiting
    BY <1>1, <2>1 DEF Unreported, Waiting
  <2>3. edid \in Blocked => edid' \in Blocked'
    BY <1>1, <2>1 DEF Blocked
  <2> QED
    BY <1>1, <1>2, <2>1, <2>2, <2>3 DEF Quiet
<1> QED
  BY <1>2, <1>3 DEF FetchInv

\* The request of the early round: the block of a dock that has read nothing
\* yet is dropped, or waits to be.
LEMMA GetKeeps == ASSUME FetchInv, Get PROVE FetchInv'
<1>1. /\ line = "get" /\ Exchange(get_edid_req, TRUE) /\ UNCHANGED <<fetching, outputs, asked, ddc>>
      /\ line' = IF edid' = NoBlock THEN "wait" ELSE "engage1"
  BY DEF Get, Step, Leave
<1>2. FetchTypes /\ Quiet /\ fetching # 0
  BY <1>1 DEF FetchInv, FetchTypes, None
<1>3. /\ edid' \in Replies /\ ready' \in BOOLEAN /\ replies' \in Seq(Replies) /\ late' \in Nat
      /\ late' = 0 => late = 0 /\ \E reply \in DockAnswers(get_edid_req, fetching) : ReadOf(reply, TRUE)
      /\ UNCHANGED <<profile, occupied>>
  BY <1>1, <1>2, Exchanged
<1>4. FetchTypes'
  BY <1>1, <1>2, <1>3 DEF FetchTypes, Lines, None
<1>5. Quiet'
  <2> SUFFICES ASSUME late' = 0 PROVE Quiet'
    BY DEF Quiet
  <2>1. PICK reply \in DockAnswers(get_edid_req, fetching) : ReadOf(reply, TRUE)
    BY <1>3
  <2>2. /\ edid = NoBlock \/ (Done /\ edid = Mine("monitor"))
        /\ \/ replies \in {<<>>, <<Ack>>} \/ (Done /\ replies = <<Mine("monitor")>>)
           \/ Done /\ replies = <<Ack, Mine("monitor")>> /\ edid = NoBlock
        /\ ready => Done /\ profile.edid_ready
        /\ \A h \in Heads : outputs[h] # NoBlock => outputs[h] = Reply("monitor", h) /\ h \in occupied
    BY <1>1, <1>2, <1>3 DEF Quiet, Blocked, Waiting
  <2>3. /\ IF Done THEN reply = Mine("monitor")
           ELSE reply \in {Ack, Mine("bridge")} \/ (profile.edid_ready /\ reply = Mine("placeholder"))
        /\ reply \in Replies
    BY <1>2, DockSays, AnswersAreReplies
  <2>4. Done' = Done /\ (\A kind : Mine(kind)' = Mine(kind)) /\ Ack' = Ack /\ NoBlock' = NoBlock
    BY <1>1 DEF Done, Mine, Ack, NoBlock, Reply
  <2>5. CASE ~Done
    <3>1. edid = NoBlock /\ ~ready /\ replies \in {<<>>, <<Ack>>}
      BY <2>2, <2>5
    <3>2. /\ reply.kind \in {"ack", "bridge", "placeholder"}
          /\ reply.kind = "placeholder" => profile.edid_ready
          /\ reply # Mine("ready")
      BY <2>3, <2>5, KindsDiffer DEF Kinds
    <3>3. ~ready' /\ edid' = NoBlock
      <4>1. Oldest(reply) \in {reply, Ack}
        BY <3>1 DEF Oldest
      <4>2. ~Heard(Oldest(reply))
        BY <3>1, <3>2, <4>1, KindsDiffer DEF Heard
      <4>3. Settled(Kept(Oldest(reply)), FALSE) = NoBlock
        BY <3>1, <3>2, <4>1, KindsDiffer DEF Settled, Kept, Parses
      <4> QED
        BY <1>3, <2>1, <4>2, <4>3 DEF ReadOf
    <3>4. replies' = <<>> \/ replies' = <<reply>>
      BY <1>2, <2>1, <2>3, <3>1, QueueMoves DEF ReadOf, FetchTypes
    <3>5. Len(replies') <= 1 /\ \A i \in 1 .. Len(replies') : i = 1 /\ replies'[i] = reply
      <4>1. CASE replies' = <<>>
        BY <4>1
      <4>2. CASE replies' = <<reply>>
        BY <4>2
      <4> QED
        BY <3>4, <4>1, <4>2
    <3>6. reply \in Answers'
      BY <1>1, <1>3, <2>3, <2>4, <2>5, <3>3 DEF Answers
    <3>7. Waiting'
      BY <1>1, <2>4, <2>5, <3>3, <3>5 DEF Waiting
    <3>8. Unreported'
      BY <2>4, <3>2, <3>3, <3>5 DEF Unreported
    <3>9. edid' \in Blocked'
      BY <2>4, <3>3 DEF Blocked
    <3>10. \A i \in 1 .. Len(replies') : replies'[i] \in Answers'
      BY <3>5, <3>6
    <3> QED
      BY <1>1, <1>2, <1>3, <2>2, <2>4, <3>3, <3>7, <3>8, <3>9, <3>10 DEF Quiet
  <2>6. CASE Done
    <3>1. /\ \A i \in 1 .. Len(replies) : replies[i] \in {Ack, Mine("monitor")} /\ (i > 1 => replies[i] = Mine("monitor"))
          /\ Len(replies) <= 2 /\ (Len(replies) > 1 => replies[1] = Ack /\ edid = NoBlock)
      <4>1. CASE replies = <<>>
        BY <4>1
      <4>2. CASE replies = <<Ack>>
        BY <4>2
      <4>3. CASE replies = <<Mine("monitor")>>
        BY <4>3
      <4>4. CASE replies = <<Ack, Mine("monitor")>> /\ edid = NoBlock
        BY <4>4
      <4> QED
        BY <2>2, <4>1, <4>2, <4>3, <4>4
    <3>2. replies \in Seq(Replies) /\ Len(replies) \in Nat /\ (replies # <<>> => Len(replies) >= 1)
      BY <1>2 DEF FetchTypes
    <3>3. reply = Mine("monitor")
      BY <2>3, <2>6
    <3>4. /\ Len(replies') = Len(replies)
          /\ \A i \in 1 .. Len(replies) : replies'[i] = IF i = Len(replies) THEN reply ELSE replies[i + 1]
      BY <2>1, <2>3, <3>2, QueueMoves DEF ReadOf
    <3>5. \A i \in 1 .. Len(replies') : replies'[i] = Mine("monitor")
      BY <3>1, <3>2, <3>3, <3>4
    <3>6. Oldest(reply) \in {Ack, Mine("monitor")} /\ (Len(replies) > 1 => Oldest(reply) = Ack)
      <4>1. CASE replies = <<>>
        BY <3>2, <3>3, <4>1 DEF Oldest
      <4>2. CASE replies # <<>>
        <5>1. 1 \in 1 .. Len(replies)
          BY <3>2, <4>2
        <5> QED
          BY <3>1, <4>2, <5>1 DEF Oldest
      <4> QED
        BY <4>1, <4>2
    <3>7. ready' = ready
      BY <1>2, <2>1, <3>6, KindsDiffer DEF ReadOf, Heard, Kinds, FetchTypes
    <3>8. edid' \in {NoBlock, Mine("monitor")} /\ (Len(replies) > 1 => edid' = NoBlock)
      BY <2>1, <2>2, <3>1, <3>6, KindsDiffer DEF ReadOf, Settled, Kept, Parses, Kinds
    <3>9. Mine("monitor") \in Answers' /\ Mine("monitor") # Mine("placeholder") /\ NoBlock # Mine("placeholder")
      BY <2>4, <2>6, KindsDiffer DEF Answers, Kinds, NoBlock, Mine, Reply
    <3>10. Unreported'
      BY <2>4, <3>5, <3>8, <3>9 DEF Unreported
    <3>11. edid' \in Blocked'
      BY <1>1, <2>4, <2>6, <3>8 DEF Blocked
    <3>12. Waiting'
      BY <1>1, <2>4, <2>6, <3>1, <3>2, <3>4, <3>5, <3>8 DEF Waiting
    <3>13. \A i \in 1 .. Len(replies') : replies'[i] \in Answers'
      BY <3>5, <3>9
    <3> QED
      BY <1>1, <1>2, <1>3, <2>2, <2>4, <3>7, <3>10, <3>11, <3>12, <3>13 DEF Quiet
  <2> QED
    BY <2>5, <2>6
<1> QED
  BY <1>4, <1>5 DEF FetchInv

\* The wait reads until it has a block or nothing is left.
LEMMA WaitKeeps == ASSUME FetchInv, AsyncWait PROVE FetchInv'
<1>1. /\ line = "wait" /\ UNCHANGED <<profile, occupied, fetching, outputs, asked, ddc>>
      /\ FetchTypes /\ Quiet /\ fetching # 0 /\ replies \in Seq(Replies)
  BY DEF AsyncWait, Leave, unfetched, dockFacts, FetchInv, FetchTypes, None
<1>2. CASE replies = <<>> /\ line' = "engage1" /\ UNCHANGED <<replies, edid, ready, late>>
  <2>1. FetchTypes'
    BY <1>1, <1>2 DEF FetchTypes, Lines, None
  <2>2. Quiet'
    <3> SUFFICES ASSUME late = 0 PROVE Quiet'
      BY <1>2 DEF Quiet
    <3>1. /\ edid = NoBlock /\ (ready => Done /\ profile.edid_ready)
          /\ \A h \in Heads : outputs[h] # NoBlock => outputs[h] = Reply("monitor", h) /\ h \in occupied
      BY <1>1, KindsDiffer DEF Quiet, Blocked
    <3>2. Done' = Done /\ (\A kind : Mine(kind)' = Mine(kind)) /\ Len(replies') = 0 /\ NoBlock # Mine("placeholder")
      BY <1>1, <1>2, KindsDiffer DEF Done, Mine, NoBlock, Reply
    <3>3. Waiting' /\ edid' \in Blocked' /\ Unreported'
      BY <1>2, <3>1, <3>2 DEF Waiting, Blocked, Unreported
    <3> QED
      <4>1. \A i \in 1 .. Len(replies') : replies'[i] \in Answers'
        BY <3>2
      <4> QED
        BY <1>1, <1>2, <3>1, <3>2, <3>3, <4>1, ZenonT(40) DEF Quiet, NoBlock
  <2> QED
    BY <2>1, <2>2 DEF FetchInv
<1>3. CASE replies # <<>> /\ Drained(replies, FALSE) /\ line' = IF edid' = NoBlock THEN "wait" ELSE "engage1"
  <2>1. /\ edid' \in Replies /\ ready' \in BOOLEAN /\ replies' \in Seq(Replies) /\ late' \in Nat
        /\ late' = 0 => late = 0 /\ replies' = Tail(replies) /\ ready' = Heard(replies[1]) /\ edid' = Kept(replies[1])
    BY <1>1, <1>3, DrainedTypes
  <2>2. FetchTypes'
    BY <1>1, <1>3, <2>1 DEF FetchTypes, Lines, None
  <2>3. Quiet'
    <3> SUFFICES ASSUME late' = 0 PROVE Quiet'
      BY DEF Quiet
    <3> DEFINE r == replies[1]
    <3>1. /\ edid = NoBlock /\ (ready => Done /\ profile.edid_ready) /\ Unreported
          /\ \A i \in 1 .. Len(replies) : replies[i] \in Answers /\ (i > 1 => replies[i] = Mine("monitor"))
          /\ Len(replies) <= IF Done THEN 2 ELSE 1
          /\ \A h \in Heads : outputs[h] # NoBlock => outputs[h] = Reply("monitor", h) /\ h \in occupied
      BY <1>1, <2>1 DEF Quiet, Blocked, Waiting
    <3>2. /\ Len(replies) \in Nat /\ 1 \in 1 .. Len(replies) /\ Len(replies') = Len(replies) - 1
          /\ \A i \in 1 .. Len(replies') : replies'[i] = replies[i + 1] /\ i + 1 \in 1 .. Len(replies)
      <4>1. Len(replies) \in Nat /\ Len(replies) >= 1
        BY <1>1, <1>3
      <4>2. Len(Tail(replies)) = Len(replies) - 1 /\ \A i \in 1 .. Len(replies) - 1 : Tail(replies)[i] = replies[i + 1]
        BY <1>1, <1>3, <4>1
      <4>3. replies' = Tail(replies)
        BY <2>1
      <4>4. Len(replies') = Len(replies) - 1 /\ \A i \in 1 .. Len(replies) - 1 : replies'[i] = replies[i + 1]
        BY <4>2, <4>3, Zenon
      <4> QED
        BY <4>1, <4>4
    <3>3. \A i \in 1 .. Len(replies') : replies'[i] = Mine("monitor")
      <4> SUFFICES ASSUME NEW i \in 1 .. Len(replies') PROVE replies'[i] = Mine("monitor")
        OBVIOUS
      <4>1. i + 1 > 1
        OBVIOUS
      <4> QED
        BY <3>1, <3>2, <4>1, ZenonT(40)
    <3>4. Done' = Done /\ (\A kind : Mine(kind)' = Mine(kind)) /\ NoBlock' = NoBlock
      BY <1>1 DEF Done, Mine, NoBlock, Reply
    <3>5. r \in Answers
      BY <3>1, <3>2
    <3>6. ready' = Heard(r) /\ edid' = Kept(r)
      BY <2>1
    <3> HIDE DEF r
    <3>7. ready' => Done /\ profile.edid_ready
      <4>1. ready' => ready \/ r.kind = "ready"
        BY <3>6 DEF Heard
      <4>2. r.kind = "ready" => Done /\ profile.edid_ready
        BY <3>5, KindsDiffer DEF Answers, Kinds
      <4> QED
        BY <3>1, <4>1, <4>2
    <3>8. \/ edid' = NoBlock \/ (Done /\ edid' = Mine("monitor"))
          \/ edid' = Mine("placeholder") /\ r = Mine("placeholder") /\ profile.edid_ready
      BY <3>1, <3>5, <3>6, KindsDiffer DEF Answers, Kinds, Kept, Parses
    <3>9. /\ Mine("monitor") # Mine("placeholder") /\ NoBlock # Mine("placeholder") /\ NoBlock # Mine("monitor")
          /\ Mine("monitor") # Mine("ready")
      BY KindsDiffer DEF Kinds, NoBlock, Mine, Reply
    <3>10. Unreported'
      <4> SUFFICES ASSUME edid' = Mine("placeholder") PROVE ~ready'
        BY <3>3, <3>4, <3>9 DEF Unreported
      <4>1. r = Mine("placeholder") /\ r.kind = "placeholder"
        BY <3>8, <3>9, KindsDiffer DEF Kinds
      <4>2. ~ready
        BY <3>1, <3>2, <4>1 DEF Unreported, r
      <4> QED
        BY <3>6, <4>1, <4>2 DEF Heard
    <3>11. edid' \in Blocked'
      BY <1>1, <1>3, <3>4, <3>8, <3>9 DEF Blocked
    <3>12. Waiting'
      BY <1>3, <3>1, <3>2, <3>3, <3>4 DEF Waiting
    <3>13. \A i \in 1 .. Len(replies') : replies'[i] \in Answers'
      <4>1. 1 \in 1 .. Len(replies') => Done
        BY <3>1, <3>2
      <4>2. \A i \in 1 .. Len(replies') : Done
        BY <3>1, <3>2
      <4> QED
        BY <3>3, <3>4, <4>2 DEF Answers
    <3> QED
      BY <1>1, <2>1, <3>1, <3>4, <3>7, <3>10, <3>11, <3>12, <3>13 DEF Quiet
  <2> QED
    BY <2>2, <2>3 DEF FetchInv
<1> QED
  BY <1>2, <1>3 DEF AsyncWait, Leave

\* The final rounds ask again; what they read is held for the last query to
\* settle.
LEMMA FinalKeeps == ASSUME FetchInv, Final PROVE FetchInv'
<1>1. /\ line = "final" /\ line' = "final" /\ edid = NoBlock /\ Exchange(get_edid_req, FALSE)
      /\ UNCHANGED <<fetching, outputs, asked, ddc>>
  BY DEF Final, Step, At
<1>2. FetchTypes /\ Quiet /\ fetching # 0
  BY <1>1 DEF FetchInv, FetchTypes, None
<1>3. /\ edid' \in Replies /\ ready' \in BOOLEAN /\ replies' \in Seq(Replies) /\ late' \in Nat
      /\ late' = 0 => late = 0 /\ \E reply \in DockAnswers(get_edid_req, fetching) : ReadOf(reply, FALSE)
      /\ UNCHANGED <<profile, occupied>>
  BY <1>1, <1>2, Exchanged
<1>4. FetchTypes'
  BY <1>1, <1>2, <1>3 DEF FetchTypes, Lines, None
<1>5. Quiet'
  <2> SUFFICES ASSUME late' = 0 PROVE Quiet'
    BY DEF Quiet
  <2>1. PICK reply \in DockAnswers(get_edid_req, fetching) : ReadOf(reply, FALSE)
    BY <1>3
  <2>2. /\ \A i \in 1 .. Len(replies) : replies[i] \in Answers
        /\ Unreported /\ (ready => Done /\ profile.edid_ready)
        /\ IF Done THEN Len(replies) <= 1 ELSE replies = <<>>
        /\ \A h \in Heads : outputs[h] # NoBlock => outputs[h] = Reply("monitor", h) /\ h \in occupied
    BY <1>1, <1>2, <1>3 DEF Quiet, Waiting
  <2>3. /\ IF Done THEN reply = Mine("monitor")
           ELSE reply \in {Ack, Mine("bridge")} \/ (profile.edid_ready /\ reply = Mine("placeholder"))
        /\ reply \in Replies
    BY <1>2, DockSays, AnswersAreReplies
  <2>4. /\ Done' = Done /\ (\A kind : Mine(kind)' = Mine(kind)) /\ NoBlock' = NoBlock /\ Answers' = Answers
        /\ NoBlock # Mine("placeholder") /\ Mine("monitor") # Mine("placeholder")
    BY <1>1, <1>3, KindsDiffer DEF Done, Answers, Mine, NoBlock, Reply, Kinds
  <2>5. Len(replies') = Len(replies) /\ (replies = <<>> => replies' = <<>>)
    BY <1>2, <2>1, <2>3, QueueMoves DEF ReadOf, FetchTypes
  <2>6. Waiting'
    BY <1>1, <2>2, <2>4, <2>5 DEF Waiting
  <2>7. CASE ~Done
    <3>1. replies = <<>> /\ replies' = <<>> /\ Oldest(reply) = reply /\ ~ready
      BY <2>2, <2>5, <2>7 DEF Oldest
    <3>2. ~ready'
      BY <1>1, <1>3, <2>1, <3>1 DEF ReadOf, Heard
    <3>3. edid' = NoBlock \/ (profile.edid_ready /\ edid' = Mine("placeholder"))
      BY <1>1, <2>1, <2>3, <2>7, <3>1, KindsDiffer DEF ReadOf, Kept, Parses, Kinds
    <3>4. edid' \in Blocked' /\ Unreported' /\ Len(replies') = 0
      <4>1. edid' \in Blocked'
        BY <1>1, <1>3, <2>4, <3>3 DEF Blocked
      <4>2. Len(replies') = 0 /\ \A i \in 1 .. Len(replies') : FALSE
        <5>1. replies' = <<>>
          BY <3>1
        <5> QED
          BY <5>1
      <4> QED
        BY <3>2, <4>1, <4>2 DEF Unreported
    <3>5. \A i \in 1 .. Len(replies') : replies'[i] \in Answers'
      BY <3>4
    <3> QED
      BY <1>1, <1>2, <1>3, <2>2, <2>4, <2>6, <3>2, <3>4, <3>5, ZenonT(40) DEF Quiet
  <2>8. CASE Done
    <3>1. reply \in Answers
      BY <2>3, <2>8 DEF Answers
    <3>2. /\ \A i \in 1 .. Len(replies') : replies'[i] \in Answers
          /\ ready' => Done /\ profile.edid_ready
          /\ edid' \in {NoBlock, Mine("monitor")}
      BY <1>1, <1>2, <2>1, <2>2, <2>3, <2>4, <3>1, PlainRead DEF ReadOf
    <3>3. \A i \in 1 .. Len(replies') : replies'[i] # Mine("placeholder")
      BY <1>1, <3>2, KindsDiffer DEF Answers, Kinds
    <3>4. edid' \in Blocked' /\ Unreported'
      BY <1>1, <2>4, <2>8, <3>2, <3>3 DEF Blocked, Unreported
    <3> QED
      BY <1>1, <1>2, <1>3, <2>2, <2>4, <2>6, <3>2, <3>4 DEF Quiet
  <2> QED
    BY <2>7, <2>8
<1> QED
  BY <1>4, <1>5 DEF FetchInv

\* The dock has read the monitor: its block may be pushed to the fetch under
\* way, and is late for any other.
LEMMA DdcKeeps == ASSUME FetchInv, DdcCompletes PROVE FetchInv'
<1>1. PICK h \in occupied :
        /\ ddc[h] = "busy" /\ ddc' = [ddc EXCEPT ![h] = "done"]
        /\ \/ UNCHANGED <<replies, late>>
           \/ /\ replies' = Append(replies, Reply("monitor", h))
              /\ IF fetching = h THEN UNCHANGED late ELSE late' = late + 1
  BY DEF DdcCompletes
<1>2. UNCHANGED <<profile, occupied, fetching, line, edid, ready, outputs, asked>>
  BY DEF DdcCompletes, unfetched, dockFacts
<1>3. FetchTypes /\ Quiet /\ h \in Heads
  BY DEF FetchInv, FetchTypes
<1>4. Reply("monitor", h) \in Replies /\ replies \in Seq(Replies) /\ late \in Nat
  BY <1>3 DEF Reply, Replies, Kinds, FetchTypes
<1>5. replies' \in Seq(Replies) /\ late' \in Nat /\ (late' = 0 => late = 0)
  <2>1. Append(replies, Reply("monitor", h)) \in Seq(Replies)
    BY <1>4
  <2>2. late + 1 \in Nat /\ late + 1 # 0
    BY <1>4
  <2> QED
    BY <1>1, <1>4, <2>1, <2>2, Zenon
<1>6. /\ ddc' \in [Heads -> {"idle", "busy", "done"}]
      /\ \A g \in Heads : ddc'[g] # "idle" => ddc[g] # "idle"
  BY <1>1, <1>3 DEF FetchTypes
<1>7. FetchTypes'
  BY <1>2, <1>3, <1>5, <1>6 DEF FetchTypes
<1>8. Quiet'
  <2> SUFFICES ASSUME late' = 0 PROVE Quiet'
    BY DEF Quiet
  <2>1. late = 0
    BY <1>5
  <2>2. CASE fetching # h
    <3>1. UNCHANGED replies /\ (fetching # 0 => ddc'[fetching] = ddc[fetching])
      BY <1>1, <1>3, <1>4, <2>2 DEF FetchTypes
    <3>2. fetching # 0 => /\ Answers' = Answers /\ Waiting' = Waiting /\ Blocked' = Blocked
                          /\ Unreported' = Unreported /\ Done' = Done
      BY <1>2, <3>1 DEF Answers, Waiting, Blocked, Unreported, Done, Mine
    <3> QED
      BY <1>2, <1>3, <2>1, <3>1, <3>2 DEF Quiet
  <2>3. CASE fetching = h
    <3>1. /\ fetching # 0 /\ ~Done /\ Done' /\ ddc[fetching] = "busy" /\ ddc'[fetching] = "done"
          /\ Reply("monitor", h) = Mine("monitor") /\ \A kind : Mine(kind)' = Mine(kind)
      <4>1. h \in Heads /\ h # 0 /\ ddc \in [Heads -> {"idle", "busy", "done"}]
        BY <1>3 DEF FetchTypes, Heads
      <4>2. ddc[h] = "busy" /\ ddc'[h] = "done"
        BY <1>1, <4>1
      <4>3. Reply("monitor", h) = Mine("monitor") /\ \A kind : Mine(kind)' = Mine(kind)
        BY <1>2, <2>3 DEF Mine
      <4> QED
        BY <1>2, <2>3, <4>1, <4>2, <4>3 DEF Done
    <3>2. /\ \A i \in 1 .. Len(replies) : replies[i] \in Answers
          /\ edid \in Blocked /\ Waiting /\ Unreported
          /\ ~ready
          /\ \A g \in Heads : outputs[g] # NoBlock => outputs[g] = Reply("monitor", g) /\ g \in occupied
      BY <1>3, <2>1, <3>1 DEF Quiet
    <3>3. Answers \subseteq Answers' /\ Mine("monitor") \in Answers' /\ edid' \in Blocked'
      BY <1>2, <3>1, <3>2 DEF Answers, Blocked
    <3>4. Mine("monitor") # Mine("placeholder") /\ Mine("monitor") # Mine("ready") /\ Len(replies) \in Nat
      BY <1>4, KindsDiffer DEF Kinds
    <3>5. /\ line \in {"probe1", "probe2", "kick"} => replies = <<>>
          /\ line = "get" => replies \in {<<>>, <<Ack>>} /\ edid = NoBlock
          /\ line = "wait" => Len(replies) <= 1 /\ \A i \in 1 .. Len(replies) : i > 1 => replies[i] = Mine("monitor")
          /\ line \notin {"probe1", "probe2", "kick", "get", "wait"} => replies = <<>>
      BY <3>1, <3>2 DEF Waiting, Blocked
    <3>6. CASE UNCHANGED replies
      <4>1. Unreported'
        BY <1>2, <3>1, <3>2, <3>6 DEF Unreported
      <4>2. Waiting'
        BY <1>2, <3>1, <3>4, <3>5, <3>6 DEF Waiting, Ack, Reply
      <4> QED
        BY <1>2, <3>1, <3>2, <3>3, <3>6, <4>1, <4>2 DEF Quiet
    <3>7. CASE replies' = Append(replies, Mine("monitor"))
      <4>1. /\ Len(replies') = Len(replies) + 1
            /\ \A i \in 1 .. Len(replies') : replies'[i] = Mine("monitor") \/ (i \in 1 .. Len(replies) /\ replies'[i] = replies[i])
            /\ \A i \in 1 .. Len(replies') : i > Len(replies) => replies'[i] = Mine("monitor")
        <5>1. replies \in Seq(Replies) /\ Mine("monitor") \in Replies
          BY <1>4, <3>1
        <5> QED
          BY <3>7, <5>1, QueueGrows, ZenonT(40)
      <4>2. \A i \in 1 .. Len(replies') : replies'[i] \in Answers'
        BY <3>2, <3>3, <4>1
      <4>3. Unreported'
        BY <1>2, <3>1, <3>2, <3>4, <4>1 DEF Unreported
      <4>4. Waiting'
        <5>1. replies = <<>> => replies' = <<Mine("monitor")>> /\ Len(replies') <= 1
          BY <3>7, <4>1
        <5>2. replies = <<Ack>> => replies' = <<Ack, Mine("monitor")>>
          <6>1. Ack \in Replies /\ Mine("monitor") \in Replies
            BY <1>4, <3>1 DEF Ack, Reply, Replies, Kinds
          <6>2. SUFFICES ASSUME replies = <<Ack>> PROVE replies' = <<Ack, Mine("monitor")>>
            OBVIOUS
          <6>3. Len(replies) = 1 /\ replies[1] = Ack
            BY <6>2
          <6>4. Len(replies') = 2 /\ replies'[1] = Ack /\ replies'[2] = Mine("monitor")
            <7>1. \A i \in 1 .. Len(replies) : Append(replies, Mine("monitor"))[i] = replies[i]
              BY <1>4, <3>1
            <7>2. 1 \in 1 .. Len(replies) /\ 2 \in 1 .. Len(replies') /\ 2 > Len(replies)
              BY <4>1, <6>3
            <7> QED
              BY <3>7, <4>1, <6>3, <7>1, <7>2
          <6>5. replies' \in Seq(Replies)
            BY <1>5
          <6> QED
            BY <6>4, <6>5
        <5>3. Ack' = Ack /\ NoBlock' = NoBlock
          BY DEF Ack, NoBlock, Reply
        <5>4. CASE line \in {"probe1", "probe2", "kick"}
          BY <1>2, <3>1, <3>5, <5>1, <5>4 DEF Waiting
        <5>5. CASE line = "get"
          BY <1>2, <3>1, <3>5, <5>1, <5>2, <5>3, <5>5 DEF Waiting
        <5>6. CASE line = "wait"
          <6>1. /\ Len(replies') <= 2
                /\ \A i \in 1 .. Len(replies') : i > 1 => replies'[i] = Mine("monitor")
            BY <3>4, <3>5, <4>1, <5>6
          <6> QED
            BY <1>2, <3>1, <5>6, <6>1 DEF Waiting
        <5>7. CASE line \notin {"probe1", "probe2", "kick", "get", "wait"}
          BY <1>2, <3>1, <3>5, <5>1, <5>7 DEF Waiting
        <5> QED
          BY <5>4, <5>5, <5>6, <5>7
      <4> QED
        BY <1>2, <3>1, <3>2, <3>3, <4>2, <4>3, <4>4 DEF Quiet
    <3> QED
      BY <1>1, <3>1, <3>6, <3>7
  <2> QED
    BY <2>2, <2>3
<1> QED
  BY <1>7, <1>8 DEF FetchInv

\* A failed fetch leaves nothing behind, or what it leaves is late.
LEMMA FailKeeps == ASSUME FetchInv, FetchFails PROVE FetchInv'
<1>1. /\ fetching' = 0 /\ line' = None
      /\ IF replies = <<>> THEN UNCHANGED late ELSE late' = late + 1
      /\ UNCHANGED <<profile, occupied, edid, ready, outputs, asked, replies, ddc>>
  BY DEF FetchFails, Over, unfetched, dockFacts
<1>2. FetchTypes'
  BY <1>1 DEF FetchInv, FetchTypes
<1>3. Quiet'
  <2>1. late \in Nat
    BY DEF FetchInv, FetchTypes
  <2>2. late' = 0 => late = 0 /\ replies = <<>>
    BY <1>1, <2>1
  <2> QED
    BY <1>1, <2>2 DEF FetchInv, Quiet
<1> QED
  BY <1>2, <1>3 DEF FetchInv

\* A connector offered for the first time has not been read; one fetched again
\* starts behind a probe that read everything.
LEMMA StartKeeps == ASSUME FetchInv, Offer \/ Refresh PROVE FetchInv'
<1>1. FetchTypes /\ Quiet /\ fetching = 0
  BY DEF FetchInv, Offer, Refresh
<1>2. UNCHANGED <<profile, occupied, late, outputs, ddc>>
  BY DEF Offer, Refresh, Fetch, unfetched, dockFacts, bounds
<1>3. PICK h \in Heads :
        \/ /\ Fetch(h) /\ (profile.shared_edid => h \in occupied)
           /\ replies' = <<>> \/ (UNCHANGED replies /\ ddc[h] = "idle")
        \/ asked' = asked \cup {h} /\ replies' = <<>> /\ UNCHANGED <<fetching, line, edid, ready>>
  <2>1. CASE Refresh
    BY <1>1, <2>1 DEF Refresh, Probe, FetchTypes
  <2>2. CASE Offer
    <3>1. PICK h \in Heads \ asked :
            \/ DiscoversByEdid /\ Fetch(h) /\ UNCHANGED replies
            \/ Probe /\ h \in occupied /\ Fetch(h)
            \/ Probe /\ asked' = asked \cup {h} /\ UNCHANGED <<fetching, line, edid, ready>>
      BY <2>2 DEF Offer
    <3>2. ddc[h] = "idle"
      BY <1>1, <3>1 DEF FetchTypes
    <3> QED
      BY <3>1, <3>2 DEF DiscoversByEdid, Probe
  <2> QED
    BY <2>1, <2>2
<1>4. NoBlock \in Replies /\ <<>> \in Seq(Replies) /\ h # 0
  BY NoBlockIsAReply DEF Heads
<1>5. CASE Fetch(h) /\ (profile.shared_edid => h \in occupied)
           /\ (replies' = <<>> \/ (UNCHANGED replies /\ ddc[h] = "idle"))
  <2>1. /\ fetching' = h /\ line' = "probe1" /\ edid' = NoBlock /\ ready' = FALSE /\ asked' = asked \cup {h}
    BY <1>5 DEF Fetch
  <2>2. replies' \in Seq(Replies)
    BY <1>1, <1>4, <1>5 DEF FetchTypes
  <2>3. FetchTypes'
    BY <1>1, <1>2, <1>4, <1>5, <2>1, <2>2 DEF FetchTypes, Lines, None
  <2>4. Quiet'
    <3> SUFFICES ASSUME late = 0 PROVE Quiet'
      BY <1>2 DEF Quiet
    <3>1. /\ replies' = <<>> \/ (replies' = <<Ack>> /\ ddc'[h] = "idle")
          /\ \A g \in Heads : outputs[g] # NoBlock => outputs[g] = Reply("monitor", g) /\ g \in occupied
      BY <1>1, <1>2, <1>5 DEF Quiet
    <3>2. Len(replies') <= 1 /\ \A i \in 1 .. Len(replies') : replies'[i] = Ack
      <4>1. CASE replies' = <<>>
        BY <4>1
      <4>2. CASE replies' = <<Ack>>
        BY <4>2
      <4> QED
        BY <3>1, <4>1, <4>2
    <3>3. Ack \in Answers' /\ edid' \in Blocked'
      BY <2>1 DEF Answers, Blocked, Ack, NoBlock, Reply
    <3>4. Waiting'
      BY <2>1, <3>1, <3>2 DEF Waiting
    <3>5. Unreported'
      <4>1. Mine("placeholder")' # NoBlock /\ Mine("placeholder")' # Ack /\ Mine("ready")' # Ack
        BY DEF Mine, Reply, Ack, NoBlock
      <4> QED
        BY <2>1, <3>2, <4>1, ZenonT(40) DEF Unreported
    <3>6. \A i \in 1 .. Len(replies') : replies'[i] \in Answers'
      <4>1. \A i \in 1 .. Len(replies') : replies'[i] = Ack
        BY <3>2
      <4> QED
        BY <3>3, <4>1
    <3> QED
      BY <1>2, <1>4, <2>1, <3>1, <3>3, <3>4, <3>5, <3>6 DEF Quiet
  <2> QED
    BY <2>3, <2>4 DEF FetchInv
<1>6. CASE asked' = asked \cup {h} /\ replies' = <<>> /\ UNCHANGED <<fetching, line, edid, ready>>
  <2>1. FetchTypes'
    BY <1>1, <1>2, <1>4, <1>6 DEF FetchTypes
  <2>2. Quiet'
    BY <1>1, <1>2, <1>6 DEF Quiet
  <2> QED
    BY <2>1, <2>2 DEF FetchInv
<1> QED
  BY <1>3, <1>5, <1>6

\* The setup touches the fetches only by the answers it leaves late.
LEMMA SetupKeeps == ASSUME FetchInv, Setup PROVE FetchInv'
<1>1. late \in Nat /\ UNCHANGED fetchVars
  BY DEF FetchInv, FetchTypes, Setup
<1>2. UNCHANGED <<profile, occupied>> /\ (UNCHANGED late \/ late' = late + 1)
  <2>1. CASE HeadMessage
    BY <2>1 DEF HeadMessage, DockPushesRrx, dockFacts
  <2>2. CASE Open \/ Authenticate \/ First \/ Wide \/ WideDone \/ Commit \/ NoSink
    BY <2>2 DEF Open, Authenticate, First, Wide, WideDone, Commit, NoSink, Message, dockFacts, bounds
  <2>3. CASE Drain \/ HPrime \/ Finalize \/ FinalizeSkips \/ FinalizeDone
    BY <2>3 DEF Drain, HPrime, Finalize, FinalizeSkips, FinalizeDone, Message, dockFacts, bounds
  <2>4. CASE EngageFault
    BY <2>4 DEF EngageFault, AuthenticateFails, FirstRetries, ControlFails, Disconnects, EngageFails, dockFacts
  <2>5. CASE Arrive
    BY <2>5 DEF Arrive, dockFacts, bounds
  <2> QED
    BY <2>1, <2>2, <2>3, <2>4, <2>5 DEF Setup, EngageStep
<1> QED
  BY <1>1, <1>2, FetchUntouched

\* A session that starts, for the first time or again, has nothing to read.
LEMMA NewKeeps ==
  ASSUME FetchInv, Restart PROVE FetchInv'
<1>1. NoBlock \in Replies /\ <<>> \in Seq(Replies)
  BY NoBlockIsAReply
<1>2. FetchTypes'
  BY <1>1 DEF FetchInv, FetchTypes, Restart, dockFacts
<1>3. Quiet'
  BY DEF Quiet, Restart
<1> QED
  BY <1>2, <1>3 DEF FetchInv

LEMMA FetchStepKeeps == ASSUME FetchInv, FetchStep PROVE FetchInv'
<1>1. line # None => fetching # 0
  BY DEF FetchInv, FetchTypes
<1>2. CASE Early
  BY <1>1, <1>2, PlainKeeps DEF Early, Step, Leave, None
<1>3. CASE Kick
  BY <1>1, <1>3, PlainKeeps DEF Kick, Step, Leave, None
<1>4. CASE EngageSink
  <2>1. CASE Step("engage1", edid_engage_req, FALSE) /\ Leave("engage2") /\ UNCHANGED ddc
    BY <1>1, <2>1, PlainKeeps DEF Step, Leave, None
  <2>2. CASE /\ Step("engage2", edid_engage_req, TRUE) /\ Leave(IF edid' = NoBlock THEN "poll" ELSE "post")
             /\ UNCHANGED ddc
    BY <1>1, <2>2, SettledKeeps DEF Step, Leave, None
  <2> QED
    BY <1>4, <2>1, <2>2 DEF EngageSink
<1>5. CASE Poll
  BY <1>1, <1>5, PlainKeeps DEF Poll, Step, At, None
<1>6. CASE PollProbe
  BY <1>1, <1>6, PlainKeeps DEF PollProbe, Step, At, None
<1>7. CASE Post
  BY <1>1, <1>7, SettledKeeps DEF Post, Step, Over, None
<1> QED
  BY <1>2, <1>3, <1>4, <1>5, <1>6, <1>7, GetKeeps, WaitKeeps, TurnKeeps, FinalKeeps DEF FetchStep

\* For any number of connectors, sockets occupied, faults and fetches, and
\* whatever the dock offers before it has read a monitor: with no answer late,
\* an output is brought up with the block of the monitor in its own socket, and
\* only where there is one.
THEOREM OutputIsAlwaysItsMonitor == Spec => []OutputIsItsMonitor
<1>1. FetchInit => FetchInv
  <2> SUFFICES ASSUME FetchInit PROVE FetchInv
    OBVIOUS
  <2>1. NoBlock \in Replies /\ <<>> \in Seq(Replies)
    BY NoBlockIsAReply
  <2>2. FetchTypes
    BY <2>1 DEF FetchTypes, FetchInit, Init, Docks
  <2>3. Quiet
    BY DEF Quiet, FetchInit
  <2> QED
    BY <2>2, <2>3 DEF FetchInv
<1>2. FetchInv /\ [Next]_vars => FetchInv'
  <2> SUFFICES ASSUME FetchInv, [Next]_vars PROVE FetchInv'
    OBVIOUS
  <2>1. CASE UNCHANGED vars
    BY <2>1, FetchUntouched DEF vars, engageVars, dockFacts, bounds, FetchInv, FetchTypes
  <2> QED
    BY <2>1, SetupKeeps, FetchStepKeeps, FailKeeps, DdcKeeps, StartKeeps, NewKeeps DEF Next
<1>3. FetchInv => OutputIsItsMonitor
  BY DEF FetchInv, Quiet, OutputIsItsMonitor
<1> QED
  BY <1>1, <1>2, <1>3, PTL DEF Spec

=============================================================================
