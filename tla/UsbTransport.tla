---------------------------- MODULE UsbTransport ----------------------------
(***************************************************************************)
(* The USB transport under a dock session (vino-driver's `Dock`): the pool *)
(* of read transfers kept posted on endpoint 0x84, the pipelined write of a*)
(* frame's chunks, the single-transfer control write, and the teardown.    *)
(*                                                                         *)
(* One host thread runs the calls.  libusb owns a transfer from its submit *)
(* until its completion callback has run, and callbacks run only while the *)
(* host pumps events, so a completion passes through two queues: finished  *)
(* by the kernel (`outDone`, `inDone`), then called back (`completions`,   *)
(* `ready`).  Every pump runs the callbacks of both directions.  Deadlines *)
(* may pass at any moment the code looks at the clock.  Lengths are        *)
(* reduced to whether a transfer moved all of its bytes.                   *)
(***************************************************************************)
EXTENDS Naturals, Sequences

CONSTANTS
  PIPELINE_DEPTH,     \* transfers outstanding in one frame write
  RECV_QUEUE_DEPTH,   \* read transfers kept posted
  MaxChunks,          \* bound: chunks of a frame
  MaxReplies,         \* bound: replies the dock sends
  MaxFaults           \* bound: read transfers failed, empty, or not re-armed

ASSUME DepthsAssumption ==
  /\ PIPELINE_DEPTH \in Nat \ {0} /\ RECV_QUEUE_DEPTH \in Nat
  /\ {MaxChunks, MaxReplies, MaxFaults} \subseteq Nat

VARIABLES
  pc,           \* what the host thread is doing
  pumping,      \* inside pump_events, a callback has run
  chunks,       \* number of chunks of the current (or last) write
  next,         \* index of the next chunk to submit, from 0
  submitted, reaped,
  err,          \* first error of the current (or last) write
  outQueue,     \* chunks queued on the endpoint, in order
  outDone,      \* finished by the kernel, callback not run
  completions,  \* called back, not reaped
  wire,         \* chunks the dock took whole from this write
  gone,         \* the device left the bus
  posted,       \* read transfers waiting on the endpoint
  inDone,       \* read transfers finished, callback not run
  ready,        \* replies called back, not read
  inflight,     \* InShared.inflight
  closing,      \* InShared.closing
  sent,         \* replies the dock has sent so far
  got,          \* replies recv returned
  answer,       \* outcome of the last recv
  faults        \* bound: faults so far

writeVars == <<chunks, next, submitted, reaped, err, outQueue, outDone,
               completions, wire>>
readVars == <<posted, inDone, ready, inflight, closing, sent, got, answer, faults>>
vars == <<pc, pumping, writeVars, gone, readVars>>

NoError == "none"
\* A short transfer completes with fewer bytes; "error" is a stall, a
\* cancellation, a departed device or any other failure.
Statuses == {"completed", "short", "timed_out", "error"}
\* The caller retries after a Timeout and gives up on every other error.
Errors == {NoError, "Timeout", "Other"}
Empty == 0                    \* a read that completed with no bytes
Failed == MaxReplies + 1      \* a read that did not complete

Depth == IF chunks < PIPELINE_DEPTH THEN chunks ELSE PIPELINE_DEPTH

(***************************************************************************)
(* AsyncIn::new: every transfer is submitted, and the ones accepted count. *)
(***************************************************************************)
Init ==
  /\ pc = "idle" /\ pumping = FALSE /\ chunks = 0 /\ next = 0 /\ submitted = 0 /\ reaped = 0
  /\ err = NoError
  /\ outQueue = <<>> /\ outDone = <<>> /\ completions = <<>>
  /\ wire = <<>> /\ gone = FALSE
  /\ posted \in 0..RECV_QUEUE_DEPTH /\ inflight = posted
  /\ inDone = <<>> /\ ready = <<>> /\ closing = FALSE
  /\ sent = 0 /\ got = <<>> /\ answer = "none" /\ faults = 0

-----------------------------------------------------------------------------
(***************************************************************************)
(* The kernel and the dock (external).                                     *)
(***************************************************************************)

\* The queued transfer at the head finishes: taken, cut short, or ended by
\* its timeout, a failure, a cancellation or a departed device.
DockTakesChunk ==
  /\ outQueue # <<>>
  /\ \E status \in IF gone THEN {"error"} ELSE Statuses :
       /\ outDone' = Append(outDone, status)
       /\ wire' = IF status = "completed" THEN Append(wire, Head(outQueue)) ELSE wire
  /\ outQueue' = Tail(outQueue)
  /\ UNCHANGED <<pc, pumping, chunks, next, submitted, reaped, err, completions, gone, readVars>>

\* The dock answers into a posted read.
DockReplies ==
  /\ posted > 0 /\ ~gone /\ sent < MaxReplies
  /\ sent' = sent + 1 /\ posted' = posted - 1
  /\ inDone' = Append(inDone, sent')
  /\ UNCHANGED <<pc, pumping, writeVars, gone, ready, inflight, closing, got, answer, faults>>

\* A read ends without a reply: empty, in error, or device gone.
ReadEnds ==
  /\ posted > 0
  /\ posted' = posted - 1
  /\ \/ /\ closing \/ gone
        /\ inDone' = Append(inDone, Failed) /\ UNCHANGED faults
     \/ /\ ~gone /\ faults < MaxFaults /\ faults' = faults + 1
        /\ \E outcome \in {Empty, Failed} : inDone' = Append(inDone, outcome)
  /\ UNCHANGED <<pc, pumping, writeVars, gone, ready, inflight, closing, sent, got, answer>>

DeviceGoes ==
  /\ ~gone /\ gone' = TRUE
  /\ UNCHANGED <<pc, pumping, writeVars, readVars>>

-----------------------------------------------------------------------------
(***************************************************************************)
(* Callbacks.                                                              *)
(***************************************************************************)

Rearms(outcome) == outcome # Failed /\ ~closing

\* Mutant: the reply replaces the ones waiting.
KeepsLatest(outcome) == <<outcome>>

Keeps(outcome) == Append(ready, outcome)

\* ep84_complete for the oldest finished read: keep the bytes, re-arm, and
\* count the transfer out when it was not re-armed.
ReadCompletes ==
  /\ LET outcome == Head(inDone) IN
     /\ ready' = IF Rearms(outcome) /\ outcome # Empty
                 THEN Keeps(outcome) ELSE ready
     /\ \/ /\ Rearms(outcome) /\ ~gone
           /\ posted' = posted + 1 /\ UNCHANGED <<inflight, faults>>
        \/ /\ Rearms(outcome)
           /\ \/ gone /\ UNCHANGED faults
              \/ ~gone /\ faults < MaxFaults /\ faults' = faults + 1
           /\ inflight' = inflight - 1 /\ UNCHANGED posted
        \/ /\ ~Rearms(outcome)
           /\ inflight' = inflight - 1 /\ UNCHANGED <<posted, faults>>
  /\ inDone' = Tail(inDone)
  /\ UNCHANGED <<closing, sent, got, answer>>

\* out_complete for the oldest finished write.
WriteCompletes ==
  /\ completions' = Append(completions, Head(outDone))
  /\ outDone' = Tail(outDone)
  /\ UNCHANGED <<chunks, next, submitted, reaped, err, outQueue, wire>>

\* Mutant: the drain gives up without the callbacks.
DrainedEnough == TRUE

Drained == reaped = submitted

\* Mutant: an empty pool is waited on like a posted one.
NobodyGivesUp == FALSE

NobodyWillCall == ready = <<>> /\ inflight = 0

\* pump_events, from any of the loops that wait: it runs the callbacks that
\* are due, several in one call or some of them only.
Waiting ==
  \/ pumping
  \/ pc = "reap" /\ reaped < submitted /\ completions = <<>>
  \/ pc = "drain" /\ ~Drained /\ completions = <<>>
  \/ pc = "recv" /\ ready = <<>> /\ ~NobodyWillCall
  \/ pc = "closing" /\ inflight > 0

PumpWrites ==
  /\ Waiting /\ outDone # <<>> /\ WriteCompletes
  /\ pumping' = TRUE
  /\ UNCHANGED <<pc, gone, readVars>>

PumpReads ==
  /\ Waiting /\ inDone # <<>> /\ ReadCompletes
  /\ pumping' = TRUE
  /\ UNCHANGED <<pc, gone, writeVars>>

\* A slice of the wait passes with no callback due.
PumpNothing == Waiting /\ UNCHANGED vars

-----------------------------------------------------------------------------
(***************************************************************************)
(* pipeline_out: write_video_frame with the chunks of a frame, and the     *)
(* control write, which is the same submit, wait, cancel and drain for one *)
(* transfer.                                                               *)
(***************************************************************************)
Start(n) ==
  /\ pc = "idle"
  /\ chunks' = n /\ next' = 0 /\ submitted' = 0 /\ reaped' = 0
  /\ err' = NoError /\ wire' = <<>>
  /\ pc' = IF n = 0 THEN "idle" ELSE "prime"
  /\ pumping' = FALSE
  /\ UNCHANGED <<outQueue, outDone, completions, gone, readVars>>

WriteVideoFrame == \E n \in 0..MaxChunks : Start(n)

WriteCtrlRawAsync == Start(1)

\* libusb_submit_transfer of the next chunk: refused by a device that left,
\* or for want of memory.
Submit ==
  \/ /\ ~gone
     /\ outQueue' = Append(outQueue, next + 1)
     /\ submitted' = submitted + 1 /\ next' = next + 1 /\ UNCHANGED err
  \/ /\ err' = "Other" /\ UNCHANGED <<outQueue, submitted, next>>

Prime ==
  /\ pc = "prime"
  /\ IF next < Depth /\ err = NoError
     THEN Submit /\ UNCHANGED pc
     ELSE pc' = "reap" /\ UNCHANGED <<outQueue, submitted, next, err>>
  /\ pumping' = FALSE
  /\ UNCHANGED <<chunks, reaped, outDone, completions, wire, gone, readVars>>

StatusToErr(status) == IF status = "timed_out" THEN "Timeout" ELSE "Other"

SubmitsAhead == err = NoError /\ next < chunks

\* Mutant: only a transfer that did not complete is an error, as if the byte
\* count were not compared.
FailsUnlessCompleted(status) == status \notin {"completed", "short"}

Fails(status) == status # "completed"

Reap ==
  /\ pc = "reap" /\ reaped < submitted /\ completions # <<>>
  /\ completions' = Tail(completions) /\ reaped' = reaped + 1
  /\ IF Fails(Head(completions))
     THEN /\ err' = IF err = NoError THEN StatusToErr(Head(completions)) ELSE err
          /\ UNCHANGED <<outQueue, submitted, next>>
     ELSE IF SubmitsAhead
          THEN Submit
          ELSE UNCHANGED <<outQueue, submitted, next, err>>
  /\ pumping' = FALSE
  /\ UNCHANGED <<pc, chunks, outDone, wire, gone, readVars>>

\* The loop ends: everything reaped, or the deadline with nothing to reap.
\* Either way what is outstanding is cancelled.
ReapEnds ==
  /\ pc = "reap"
  /\ \/ reaped = submitted /\ UNCHANGED err
     \/ /\ reaped < submitted /\ completions = <<>>
        /\ err' = IF err = NoError THEN "Timeout" ELSE err
  /\ pc' = "drain"
  /\ pumping' = FALSE
  /\ UNCHANGED <<chunks, next, submitted, reaped, outQueue, outDone, completions, wire,
                 gone, readVars>>

Drain ==
  /\ pc = "drain" /\ ~Drained /\ completions # <<>>
  /\ completions' = Tail(completions) /\ reaped' = reaped + 1
  /\ pumping' = FALSE
  /\ UNCHANGED <<pc, chunks, next, submitted, err, outQueue, outDone, wire,
                 gone, readVars>>

\* Every transfer is freed and the outcome returned.
Return ==
  /\ pc = "drain" /\ Drained
  /\ pc' = "idle"
  /\ pumping' = FALSE
  /\ UNCHANGED <<writeVars, gone, readVars>>

-----------------------------------------------------------------------------
(***************************************************************************)
(* AsyncIn::recv and AsyncIn::drop.                                        *)
(***************************************************************************)
RecvFrame ==
  /\ pc = "idle" /\ pc' = "recv" /\ pumping' = FALSE
  /\ UNCHANGED <<writeVars, gone, readVars>>

RecvReturns(outcome) ==
  /\ answer' = outcome /\ pc' = "idle" /\ pumping' = FALSE
  /\ UNCHANGED <<writeVars, gone, posted, inDone, inflight, closing, sent, faults>>

RecvReply ==
  /\ pc = "recv" /\ ready # <<>>
  /\ got' = Append(got, Head(ready)) /\ ready' = Tail(ready)
  /\ RecvReturns("Ok")

RecvDisconnected ==
  /\ pc = "recv" /\ NobodyWillCall
  /\ UNCHANGED <<ready, got>>
  /\ RecvReturns("Disconnected")

RecvTimeout ==
  /\ pc = "recv" /\ ready = <<>> /\ inflight > 0
  /\ UNCHANGED <<ready, got>>
  /\ RecvReturns("Timeout")

Drop ==
  /\ pc = "idle" /\ pc' = "closing" /\ closing' = TRUE /\ pumping' = FALSE
  /\ UNCHANGED <<writeVars, gone, posted, inDone, ready, inflight, sent, got, answer, faults>>

\* The drain ends with no transfer out, or at its deadline of 500 ms.
DropEnds ==
  /\ pc = "closing" /\ pc' = "closed" /\ pumping' = FALSE
  /\ UNCHANGED <<writeVars, gone, readVars>>

Closed == pc = "closed" /\ UNCHANGED vars

-----------------------------------------------------------------------------
External == DockTakesChunk \/ DockReplies \/ ReadEnds \/ DeviceGoes

WriteStep == Prime \/ Reap \/ ReapEnds \/ Drain \/ Return

RecvStep == RecvReply \/ RecvDisconnected \/ RecvTimeout

Next ==
  \/ External
  \/ PumpWrites \/ PumpReads \/ PumpNothing
  \/ WriteVideoFrame \/ WriteCtrlRawAsync \/ WriteStep
  \/ RecvFrame \/ RecvStep
  \/ Drop \/ DropEnds \/ Closed

\* The thread inside a call keeps running, its deadlines pass, and pumping
\* runs the callbacks that are due.  A queued transfer finishes: it has a
\* timeout of its own, and a cancelled one is handed back.
Fairness ==
  /\ WF_vars(WriteStep) /\ WF_vars(RecvStep) /\ WF_vars(DropEnds)
  /\ WF_vars(PumpWrites) /\ WF_vars(DockTakesChunk)

Spec == Init /\ [][Next]_vars /\ Fairness

-----------------------------------------------------------------------------
Iota(n) == [i \in 1..n |-> i]

\* A write that returned Ok put every chunk of the frame on the wire, whole,
\* once and in order (pipeline_out's window, its short-write check and its
\* error bookkeeping).
OkMeansWholeFrame ==
  pc = "idle" /\ err = NoError => wire = Iota(chunks)

\* When a write has returned and freed its transfers, libusb owns none of
\* them and no callback of theirs is due: pipeline_out's `completions` and
\* the control write's `shared` are gone by then.
FreedIsIdle ==
  pc \in {"idle", "recv"} => outQueue = <<>> /\ outDone = <<>> /\ completions = <<>>

\* Until teardown no reply is lost, repeated or reordered between the
\* endpoint and recv, whichever loop's pumping ran its callback.
RepliesInOrder ==
  ~closing =>
    LET delivered == Len(got \o ready)
        waiting == delivered + 1 .. sent
    IN
    /\ got \o ready = Iota(delivered) /\ delivered <= sent
    /\ \A i \in 1..Len(inDone) : inDone[i] \in waiting \cup {Empty, Failed}
    /\ \A r \in waiting : \E i \in 1..Len(inDone) : inDone[i] = r
    /\ \A i, j \in 1..Len(inDone) : i < j /\ {inDone[i], inDone[j]} \subseteq waiting => inDone[i] < inDone[j]

\* Every call returns: a write however the dock treats its chunks and
\* although the final drain has no deadline, recv with the pool exhausted or
\* the device gone, and the teardown.
CallsReturn ==
    /\ pc \in {"prime", "reap", "drain"} ~> pc = "idle"
    /\ pc \in {"recv", "closing"} ~> pc \in {"idle", "closed"}
=============================================================================
