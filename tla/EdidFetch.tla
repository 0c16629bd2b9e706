----------------------------- MODULE EdidFetch ------------------------------
(***************************************************************************)
(* Bringing a dock up (daemon.rs, run_session) on an engaged session: the  *)
(* EDID fetch of edid_fetch.rs for each connector, and its repetition for a*)
(* connector found occupied later.                                         *)
(*                                                                         *)
(* Every message is followed by one read.  The dock answers in order; an   *)
(* answer may come after its read has timed out, and the block of a monitor*)
(* is also pushed unprompted when the dock has read it.  Asked too early,  *)
(* the dock answers with its own descriptor, or, where it reports readiness,*)
(* with a block that only the report tells from a monitor's.               *)
(***************************************************************************)
EXTENDS Engage

CONSTANTS
  POLL_ITERS, POLL_PROBE_EVERY, FINAL_FETCH_ROUNDS,   \* 250, 8 and 24
  MaxFetches                                          \* bound: fetches

VARIABLES
  fetching,      \* the connector being fetched, 0 for none
  line, round,   \* where its fetch is
  edid, ready,
  outputs,       \* block each connector was brought up with
  asked,         \* connectors bring-up is through with
  replies,       \* replies not yet read
  ddc,           \* dock: the read of each connector's monitor
  fetches

fetchVars == <<fetching, line, round, edid, ready, outputs, asked, replies, ddc, fetches>>
vars == <<engageVars, fetchVars>>
unfetched == <<dockFacts, position, rrx, acked, dockState, pushes>>

Reply(kind, of) == [kind |-> kind, of |-> of]
NoBlock == Reply("none", 0)
Ack == Reply("ack", 0)
Lines == {"probe1", "probe2", "kick", "get", "wait", "engage1", "engage2", "poll",
          "pollprobe", "final", "post"}

FetchInit ==
  /\ Init
  /\ fetching = 0 /\ line = None /\ round = 0 /\ edid = NoBlock /\ ready = FALSE
  /\ outputs = [h \in Heads |-> NoBlock] /\ asked = {} /\ replies = <<>>
  /\ ddc = [h \in Heads |-> "idle"] /\ fetches = 0

-----------------------------------------------------------------------------
\* The messages of a fetch.
get_edid_req_sub == "probe"
edid_readiness_kick == "kick"
get_edid_req == "get"
edid_engage_req == "engage"
device_query_req == "query"
post_edid_query == "post"

(***************************************************************************)
(* The dock.                                                               *)
(***************************************************************************)
\* What a connector's EDID request is answered with.  Connectors that share a
\* handler answer for an empty socket with a monitor of the others.
EdidAnswers(h) ==
  IF ddc[h] = "done" THEN {Reply("monitor", h)}
  ELSE IF profile.shared_edid /\ h \notin occupied /\ occupied # {}
  THEN {Reply("monitor", o) : o \in occupied}
  ELSE {Ack, Reply("bridge", h)}
       \cup (IF profile.edid_ready THEN {Reply("placeholder", h)} ELSE {})

DockAnswers(message, h) ==
  CASE message = get_edid_req -> EdidAnswers(h)
    [] message = get_edid_req_sub -> {Reply(IF profile.edid_ready /\ ddc[h] = "done"
                                   THEN "ready" ELSE "busy", h)}
    [] OTHER -> {Ack}

\* The dock has read a monitor, and may push its block.  One that is read when
\* nobody fetches it any more counts as late.
DdcCompletes ==
  \E h \in occupied :
    /\ ddc[h] = "busy" /\ ddc' = [ddc EXCEPT ![h] = "done"]
    /\ \/ UNCHANGED <<replies, late>>
       \/ /\ replies' = Append(replies, Reply("monitor", h))
          /\ IF fetching = h THEN UNCHANGED late ELSE late < MaxLate /\ late' = late + 1
    /\ UNCHANGED <<unfetched, hostCounters, dockCounters, faults, ambiguous, fetching,
                   line, round, edid, ready, outputs, asked, fetches>>

-----------------------------------------------------------------------------
(***************************************************************************)
(* One message and the read behind it.                                     *)
(***************************************************************************)
\* parse_edid_from_reply refuses the dock's own descriptor.
Parses(reply) == reply.kind \in {"monitor", "placeholder"}

\* drain_once: the first block read is kept.
Kept(reply) == IF edid = NoBlock /\ Parses(reply) THEN reply ELSE edid
\* The final rounds ignore what a reply says of readiness.
Heard(reply) == ready \/ (reply.kind = "ready" /\ line # "final")

\* Mutant: blocks are not held to the readiness report.
SettledAtOnce(block, heard) == block

\* settled!: where the dock reports readiness, an earlier block is dropped.
Settled(block, heard) == IF profile.edid_ready /\ ~heard THEN NoBlock ELSE block

Drained(queue, settles) ==
  \/ /\ queue # <<>>
     /\ replies' = Tail(queue)
     /\ ready' = Heard(queue[1])
     /\ edid' = IF settles THEN Settled(Kept(queue[1]), ready') ELSE Kept(queue[1])
     /\ UNCHANGED late
  \/ /\ queue = <<>> \/ late < MaxLate
     /\ late' = IF queue = <<>> THEN late ELSE late + 1
     /\ replies' = queue /\ ready' = ready
     /\ edid' = IF settles THEN Settled(edid, ready) ELSE edid

Exchange(message, settles) ==
  /\ Taken(2) /\ Counted(2)
  /\ \E reply \in DockAnswers(message, fetching) : Drained(Append(replies, reply), settles)
  /\ UNCHANGED <<unfetched, faults, ambiguous>>

Step(where, message, settles) == line = where /\ Exchange(message, settles)
Leave(where) == line' = where /\ UNCHANGED <<fetching, round, outputs, asked, fetches>>

-----------------------------------------------------------------------------
(***************************************************************************)
(* fetch_edid.                                                             *)
(***************************************************************************)
\* Two probes, the kick and the request of the early round.
Early ==
  /\ \/ Step("probe1", get_edid_req_sub, FALSE) /\ Leave("probe2")
     \/ Step("probe2", get_edid_req_sub, FALSE) /\ Leave("kick")
  /\ UNCHANGED ddc

Kick ==
  /\ Step("kick", edid_readiness_kick, FALSE) /\ Leave("get")
  /\ ddc' = IF fetching \in occupied /\ ddc[fetching] = "idle"
            THEN [ddc EXCEPT ![fetching] = "busy"] ELSE ddc

Get ==
  /\ Step("get", get_edid_req, TRUE)
  /\ Leave(IF edid' = NoBlock THEN "wait" ELSE "engage1")
  /\ UNCHANGED ddc

\* ASYNC_EDID_WAIT: reads until a block is there, or the time is over.
AsyncWait ==
  /\ line = "wait"
  /\ \/ /\ replies # <<>> /\ Drained(replies, FALSE)
        /\ Leave(IF edid' = NoBlock THEN "wait" ELSE "engage1")
     \/ /\ replies = <<>> /\ Leave("engage1")
        /\ UNCHANGED <<replies, edid, ready, late>>
  /\ UNCHANGED <<unfetched, hostCounters, dockCounters, faults, ambiguous, ddc>>

\* Two engage messages, whether or not the block is there.
EngageSink ==
  /\ \/ Step("engage1", edid_engage_req, FALSE) /\ Leave("engage2")
     \/ /\ Step("engage2", edid_engage_req, TRUE)
        /\ Leave(IF edid' = NoBlock THEN "poll" ELSE "post")
  /\ UNCHANGED ddc

At(where, n) == line' = where /\ round' = n /\ UNCHANGED <<fetching, outputs, asked, fetches>>

\* The readiness poll: status queries with a probe every few of them.
Poll ==
  /\ edid = NoBlock /\ ~ready /\ round < POLL_ITERS
  /\ Step("poll", device_query_req, FALSE)
  /\ IF round % POLL_PROBE_EVERY = POLL_PROBE_EVERY - 1
     THEN At("pollprobe", round) ELSE At("poll", round + 1)
  /\ UNCHANGED ddc

PollProbe ==
  /\ Step("pollprobe", get_edid_req_sub, FALSE) /\ At("poll", round + 1)
  /\ UNCHANGED ddc

\* The poll ends with a block, the report, its last round or its time.
PollEnds ==
  /\ line = "poll" /\ At("final", 0)
  /\ UNCHANGED <<unfetched, hostCounters, dockCounters, bounds, edid, ready, replies, ddc>>

Final ==
  /\ edid = NoBlock /\ round < FINAL_FETCH_ROUNDS
  /\ Step("final", get_edid_req, FALSE) /\ At("final", round + 1)
  /\ UNCHANGED ddc

FinalEnds ==
  /\ line = "final" /\ (edid # NoBlock \/ round = FINAL_FETCH_ROUNDS) /\ At("post", 0)
  /\ UNCHANGED <<unfetched, hostCounters, dockCounters, bounds, edid, ready, replies, ddc>>

Over == fetching' = 0 /\ line' = None /\ round' = 0 /\ UNCHANGED <<asked, fetches>>

\* The query behind the fetch, and its result: a connector with no block gets
\* no output.
Post ==
  /\ Step("post", post_edid_query, TRUE)
  /\ outputs' = [outputs EXCEPT ![fetching] = edid'] /\ Over
  /\ UNCHANGED ddc

\* connect_output prints a failed fetch and leaves the session as it is.  What
\* that fetch has not read is late.
FetchFails ==
  /\ line \in Lines \ {"wait"}
  /\ IF replies = <<>> THEN UNCHANGED late ELSE late < MaxLate /\ late' = late + 1
  /\ WriteFails(2) /\ Over
  /\ UNCHANGED <<unfetched, hostCounters, edid, ready, replies, outputs, ddc>>

-----------------------------------------------------------------------------
(***************************************************************************)
(* The daemon.                                                             *)
(***************************************************************************)
Fetch(h) ==
  /\ fetching' = h /\ line' = "probe1" /\ round' = 0 /\ edid' = NoBlock /\ ready' = FALSE
  /\ asked' = asked \cup {h} /\ fetches' = fetches + 1
  /\ UNCHANGED <<outputs, ddc>>

\* probe_head_present reads until the echo of its own counter.
Probe ==
  /\ Taken(2) /\ Counted(2) /\ replies' = <<>>

DiscoversByEdid == ~profile.shared_edid

\* run_session offers each connector in turn; where they share a handler the
\* probe decides.
Offer ==
  \E h \in Heads \ asked :
    /\ at = "engaged" /\ fetching = 0 /\ fetches < MaxFetches
    /\ \A g \in Heads : g < h => g \in asked
    /\ \/ /\ DiscoversByEdid /\ Fetch(h) /\ UNCHANGED <<replies, hostCounters, dockCounters>>
       \/ ~DiscoversByEdid /\ Probe /\ h \in occupied /\ Fetch(h)
       \/ /\ ~DiscoversByEdid /\ Probe /\ h \notin occupied /\ asked' = asked \cup {h}
          /\ UNCHANGED <<fetching, line, round, edid, ready, outputs, ddc, fetches>>
    /\ UNCHANGED <<unfetched, bounds>>

\* refresh_topology, where the dock reports presence (every family with a
\* readiness report): an occupied connector with no output is fetched again.
Refresh ==
  \E h \in occupied :
    /\ at = "engaged" /\ fetching = 0 /\ fetches < MaxFetches /\ asked = Heads
    /\ profile.edid_ready /\ outputs[h] = NoBlock
    /\ Probe /\ Fetch(h)
    /\ UNCHANGED <<unfetched, bounds>>

\* run: the session ended, on its own or by an error, and a new one is opened.
Restart ==
  /\ at = "failed" \/ (at = "engaged" /\ fetching = 0)
  /\ UNCHANGED dockFacts
  /\ at' = "open" /\ step' = 0 /\ head' = 0 /\ tries' = 0
  /\ wire_seq' = 0 /\ inner_counter' = 1 /\ acked' = FALSE
  /\ rrx' = [h \in Heads |-> 0]
  /\ dock_seq' = 0 /\ dock_counter' = 1 /\ adrift' = FALSE
  /\ keyed' = {} /\ finalized' = [h \in Heads |-> 0] /\ commits' = 0
  /\ arrived' = <<>> /\ coming' = [h \in Heads |-> None]
  /\ late' = 0 /\ faults' = 0 /\ ambiguous' = FALSE
  /\ fetching' = 0 /\ line' = None /\ round' = 0 /\ edid' = NoBlock /\ ready' = FALSE
  /\ outputs' = [h \in Heads |-> NoBlock] /\ asked' = {} /\ replies' = <<>>
  /\ ddc' = [h \in Heads |-> "idle"] /\ fetches' = 0

Setup == (EngageStep \/ EngageFault \/ Arrive) /\ UNCHANGED fetchVars
FetchStep ==
  \/ Early \/ Kick \/ Get \/ AsyncWait \/ EngageSink \/ Poll \/ PollProbe \/ PollEnds
  \/ Final \/ FinalEnds \/ Post
Next == Setup \/ FetchStep \/ FetchFails \/ DdcCompletes \/ Offer \/ Refresh \/ Restart

\* The host's own steps are one thread's and are always taken in the end.
Spec ==
  FetchInit /\ [][Next]_vars /\ WF_vars(EngageStep /\ UNCHANGED fetchVars)

-----------------------------------------------------------------------------
\* An output is brought up with the block of the monitor in its own socket:
\* never with the dock's own descriptor, a block offered before the monitor
\* was read, or the monitor of another socket, as long as answers reach the
\* fetch that asked for them (fetch_edid, connect_output).
OutputIsItsMonitor ==
  late = 0 => \A h \in Heads :
    outputs[h] # NoBlock => outputs[h] = Reply("monitor", h) /\ h \in occupied
=============================================================================
