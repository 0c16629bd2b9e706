------------------------------- MODULE Engage -------------------------------
(***************************************************************************)
(* Engaging a dock (session.rs, engage): the link authentication, the      *)
(* dock-wide records, one downstream authentication per connector, the     *)
(* finalization and the start of the video engine.                         *)
(*                                                                         *)
(* The host walks a fixed course; what varies is what the dock is, which of*)
(* its sockets are occupied, when its answers arrive and which writes fail.*)
(* A push of the dock is prompt, slow (it needs the pause the host makes   *)
(* for it) or late (after that pause).  Only the Rrx pushes are modelled:  *)
(* the others are read and thrown away.  A failed write may have been      *)
(* taken by the dock all the same.                                         *)
(*                                                                         *)
(* Both sides count: the inner counter counts messages and wire_seq the    *)
(* AES blocks they took.  The dock is adrift once a message reaches it     *)
(* under counters other than its own.                                      *)
(***************************************************************************)
EXTENDS DockProfiles, Integers, Sequences

CONSTANTS
  Connectors,      \* connectors the dock backs
  FIRST_TRIES,     \* attempts at the first encrypted message (40 in the code)
  MaxLate,         \* bound: late answers in a session
  MaxFaults        \* bound: failed transfers in a session

ASSUME EngageAssumption ==
  /\ Connectors \in Nat \ {0} /\ FIRST_TRIES \in Nat \ {0}
  /\ MaxLate \in Nat /\ MaxFaults \in Nat

Heads == 1..Connectors
None == "none"

VARIABLES
  profile, repeater,
  genuine,         \* dock: the proofs of authenticity it gets right
  mute,            \* dock: it acknowledges nothing
  occupied,        \* dock: connectors with a monitor
  at, step, head,  \* where the host is
  tries,
  wire_seq, inner_counter,
  rrx,             \* whose Rrx each connector was authenticated with
  acked,
  dock_seq, dock_counter, adrift,
  keyed,           \* dock: connectors whose video key it could recover
  finalized,       \* dock: finalization messages of each connector
  commits,         \* dock: starts of the video engine
  arrived, coming, \* Rrx pushes to be read, and pushes under way
  late, faults,
  ambiguous        \* a failed write was taken by the dock

dockFacts == <<profile, repeater, genuine, mute, occupied>>
position == <<at, step, head, tries>>
hostCounters == <<wire_seq, inner_counter>>
dockCounters == <<dock_seq, dock_counter, adrift>>
dockState == <<keyed, finalized, commits>>
pushes == <<arrived, coming>>
bounds == <<late, faults, ambiguous>>
engageVars == <<dockFacts, position, hostCounters, rrx, acked,
                dockCounters, dockState, pushes, bounds>>

\* A dock family with some sockets occupied, genuine or not.  A dock that is
\* no repeater has no receiver list to prove.
Docks ==
  /\ profile \in Profiles /\ repeater \in BOOLEAN
  /\ genuine \in {{"H", "L", "V"}, {"H", "L"}, {"H", "V"}, {"L", "V"}}
  /\ mute \in BOOLEAN /\ occupied \in SUBSET Heads
  /\ ~repeater => "V" \in genuine

Init ==
  /\ Docks
  /\ at = "open" /\ step = 0 /\ head = 0 /\ tries = 0
  /\ wire_seq = 0 /\ inner_counter = 1 /\ acked = FALSE
  /\ rrx = [h \in Heads |-> 0]
  /\ dock_seq = 0 /\ dock_counter = 1 /\ adrift = FALSE
  /\ keyed = {} /\ finalized = [h \in Heads |-> 0] /\ commits = 0
  /\ arrived = <<>> /\ coming = [h \in Heads |-> None]
  /\ late = 0 /\ faults = 0 /\ ambiguous = FALSE

-----------------------------------------------------------------------------
Go(where) == at' = where

(***************************************************************************)
(* The wire.                                                               *)
(***************************************************************************)
\* The dock takes a message of `blocks` AES blocks.
Taken(blocks) ==
  /\ adrift' = (adrift \/ wire_seq # dock_seq \/ inner_counter # dock_counter)
  /\ dock_seq' = dock_seq + blocks
  /\ dock_counter' = dock_counter + 1

\* The host advances its counters behind a message.
Counted(blocks) ==
  /\ wire_seq' = wire_seq + blocks
  /\ inner_counter' = inner_counter + 1

\* A write returns an error; the dock may have taken it all the same.
WriteFails(blocks) ==
  /\ faults < MaxFaults /\ faults' = faults + 1
  /\ \/ UNCHANGED <<dockCounters, ambiguous>>
     \/ Taken(blocks) /\ ambiguous' = TRUE

\* The dock acknowledges, unless it never does; the host counts it in one of
\* the reads that follow.
Acknowledged == acked' = (acked \/ ~mute)

\* A setup message the host reads no push for.
Message(blocks) ==
  /\ Taken(blocks) /\ Counted(blocks) /\ Acknowledged
  /\ UNCHANGED <<pushes, bounds>>

\* Any error of engage loses the session.
EngageFails(blocks) ==
  /\ WriteFails(blocks)
  /\ Go("failed")
  /\ UNCHANGED <<step, head, tries, hostCounters, acked, pushes, late>>

-----------------------------------------------------------------------------
(***************************************************************************)
(* Opening and the link authentication.                                    *)
(***************************************************************************)
\* device_open_preamble and session_init: nothing here is counted.
Open ==
  /\ at = "open"
  /\ Go("auth") /\ step' = 1
  /\ UNCHANGED <<dockFacts, head, tries, hostCounters, rrx, acked,
                 dockCounters, dockState, pushes, bounds>>

AuthMessages ==
  <<"session_init_ack", "AKE_Init", "AKE_Transmitter_Info", "AKE_No_Stored_km",
    "LC_Init", "SKE_Send_Eks">>
  \o IF repeater
     THEN <<"RepeaterAuth_Send_Ack", "RepeaterAuth_Stream_Manage">>
     ELSE <<>>

\* The proof the dock owes in answer to a message.
ProofAfter(message) ==
  CASE message = "AKE_No_Stored_km" -> {"H"}
    [] message = "LC_Init" -> {"L"}
    [] message = "SKE_Send_Eks" /\ repeater -> {"V"}
    [] OTHER -> {}

Verifies(proofs) == proofs \subseteq genuine

\* Each message is counted and answered; a proof that does not verify ends
\* the attempt.  The counter the last one leaves is keys.next_counter.
Authenticate ==
  LET proofs == ProofAfter(AuthMessages[step]) IN
  /\ at = "auth"
  /\ Taken(0) /\ Counted(0)
  /\ step' = IF step = Len(AuthMessages) THEN 0 ELSE step + 1
  /\ Go(IF ~Verifies(proofs) THEN "failed"
        ELSE IF step = Len(AuthMessages) THEN "first" ELSE "auth")
  /\ UNCHANGED <<dockFacts, head, tries, rrx, acked, dockState, pushes, bounds>>

AuthenticateFails ==
  /\ at = "auth" /\ EngageFails(0)
  /\ UNCHANGED <<dockFacts, rrx, dockState>>

-----------------------------------------------------------------------------
(***************************************************************************)
(* configure_control.                                                      *)
(***************************************************************************)
\* The first encrypted message is repeated as it is until a write succeeds.
First ==
  /\ at = "first"
  /\ Message(2)
  /\ Go("wide") /\ step' = 1
  /\ UNCHANGED <<dockFacts, head, tries, rrx, dockState>>

FirstRetries ==
  /\ at = "first" /\ tries < FIRST_TRIES
  /\ WriteFails(2)
  /\ tries' = tries + 1
  /\ Go(IF tries' = FIRST_TRIES THEN "failed" ELSE "first")
  /\ UNCHANGED <<dockFacts, step, head, hostCounters, rrx, acked,
                 dockState, pushes, late>>

\* Mutant: the dock-wide records go to every dock.
WideForAll == 2 + Connectors

\* 0x14/0x30, 0x15/0x0b and one 0x16/0x2a per connector, where asked for.
WideRecords == IF profile.wide_init THEN 2 + Connectors ELSE 0

\* A dock that does not expect a dock-wide record does not count it.
Wide ==
  /\ at = "wide" /\ step <= WideRecords
  /\ IF profile.wide_init THEN Taken(2) ELSE UNCHANGED dockCounters
  /\ Counted(2) /\ Acknowledged /\ step' = step + 1
  /\ UNCHANGED <<dockFacts, at, head, tries, rrx, dockState, pushes, bounds>>

WideDone ==
  /\ at = "wide" /\ step > WideRecords
  /\ Go(IF profile.early_commit THEN "commit" ELSE "head")
  /\ head' = 1 /\ step' = 0
  /\ UNCHANGED <<dockFacts, tries, hostCounters, rrx, acked, dockCounters,
                 dockState, pushes, bounds>>

CommitsAtTheEnd == ~profile.early_commit

\* engage wants one acknowledgement out of the whole setup.
Finish == Go(IF acked THEN "engaged" ELSE "failed")

\* commit_video_engine: at the boundary the connectors are still to come,
\* behind the finalization they are done.
Commit ==
  /\ at = "commit"
  /\ commits' = commits + 1
  /\ IF head = 1 THEN Go("head") ELSE Finish
  /\ UNCHANGED <<dockFacts, step, head, tries, hostCounters, rrx, acked,
                 dockCounters, keyed, finalized, pushes, bounds>>

-----------------------------------------------------------------------------
(***************************************************************************)
(* configure_head: nine messages, of which the third asks for the Rrx the  *)
(* key exchange from the fourth on is computed with.                       *)
(***************************************************************************)
CP_SETUP_PER_HEAD == <<3, 3, 10, 3, 4, 3, 3, 2, 2>>   \* AES blocks of each

Blocks == CP_SETUP_PER_HEAD[step + 1]

NextHead ==
  /\ head' = head + 1 /\ step' = 0
  /\ Go(IF head = Connectors THEN "finalize" ELSE "head")

\* An occupied connector answers AKE_No_Stored_km with its Rrx.
DockPushesRrx ==
  \/ arrived' = Append(arrived, head) /\ UNCHANGED <<coming, late>>
  \/ coming' = [coming EXCEPT ![head] = "slow"] /\ UNCHANGED <<arrived, late>>
  \/ /\ late < MaxLate /\ late' = late + 1
     /\ coming' = [coming EXCEPT ![head] = "late"] /\ UNCHANGED arrived

\* The dock can recover a video key wrapped with its own Rrx.
DockKeys ==
  keyed' = IF step = 4 /\ rrx[head] = head THEN keyed \cup {head} ELSE keyed

HeadMessage ==
  /\ at = "head" /\ (step >= 3 => rrx[head] # 0)
  /\ Taken(Blocks) /\ Acknowledged /\ DockKeys
  /\ IF step = 2 /\ head \in occupied THEN DockPushesRrx
                                     ELSE UNCHANGED <<pushes, late>>
  /\ Go("drain")
  /\ UNCHANGED <<dockFacts, step, head, tries, hostCounters, rrx, finalized,
                 commits, faults, ambiguous>>

\* Mutant: a connector without an Rrx fails the dock.
EmptySocketAborts == Go("failed") /\ UNCHANGED <<head, step>>

EmptySocket == NextHead

\* No Rrx by the fourth message: the connector is left unauthenticated.
NoSink ==
  /\ at = "head" /\ step >= 3 /\ rrx[head] = 0
  /\ EmptySocket
  /\ UNCHANGED <<dockFacts, tries, hostCounters, rrx, acked, dockCounters,
                 dockState, pushes, bounds>>

\* A push under way arrives at its own time.
Arrive ==
  \E h \in Heads :
    /\ coming[h] # None
    /\ arrived' = Append(arrived, h) /\ coming' = [coming EXCEPT ![h] = None]
    /\ UNCHANGED <<dockFacts, position, hostCounters, rrx, acked,
                   dockCounters, dockState, bounds>>

\* A slow push is of the connector at hand: the pause brings it.
SlowPushes == IF coming[head] = "slow" THEN <<head>> ELSE <<>>

\* The first Rrx read is kept, whatever is read behind it.
Reads(queue) ==
  rrx' = IF rrx[head] = 0 /\ queue # <<>>
         THEN [rrx EXCEPT ![head] = queue[1]] ELSE rrx

SlowIsHere == coming' = IF coming[head] = "slow" THEN [coming EXCEPT ![head] = None] ELSE coming

NextMessage ==
  /\ Counted(Blocks)
  /\ IF step = 8 THEN NextHead
     ELSE Go("head") /\ step' = step + 1 /\ UNCHANGED head

\* Reading stops when nothing is queued.  A dock in lockstep is waited on for
\* the push its step expects, and reading stops behind it.
Drain ==
  /\ at = "drain"
  /\ IF profile.lockstep /\ step = 2
     THEN LET queue == IF arrived = <<>> THEN SlowPushes ELSE arrived IN
          /\ Reads(queue)
          /\ arrived' = IF queue = <<>> THEN queue ELSE Tail(queue)
          /\ IF arrived = <<>> THEN SlowIsHere ELSE UNCHANGED coming
     ELSE Reads(arrived) /\ arrived' = <<>> /\ UNCHANGED coming
  /\ IF step = 2
     THEN Go("hprime") /\ UNCHANGED <<step, head, hostCounters>>
     ELSE NextMessage
  /\ UNCHANGED <<dockFacts, tries, acked, dockCounters, dockState, bounds>>

\* Mutant: the dock is given no time to compute H'.
HPrimeReadsAtOnce == arrived

HPrimeReads == arrived \o SlowPushes

\* wait_until(HDCP_HPRIME_WAIT), then everything queued is read.
HPrime ==
  /\ at = "hprime"
  /\ Reads(HPrimeReads) /\ arrived' = <<>>
  /\ IF HPrimeReads = arrived THEN UNCHANGED coming ELSE SlowIsHere
  /\ NextMessage
  /\ UNCHANGED <<dockFacts, tries, acked, dockCounters, dockState, bounds>>

\* The device is gone while the host reads.
Disconnects ==
  /\ at \in {"drain", "hprime", "commit"} /\ faults < MaxFaults
  /\ faults' = faults + 1 /\ Go("failed")
  /\ UNCHANGED <<dockFacts, step, head, tries, hostCounters, rrx, acked,
                 dockCounters, dockState, pushes, late, ambiguous>>

-----------------------------------------------------------------------------
(***************************************************************************)
(* Finalization: CP_SETUP_FINALIZE_STEPS for each authenticated connector. *)
(***************************************************************************)
CP_SETUP_FINALIZE_STEPS == 3

\* The connector whose turn it is, and whether it has one.
Finalizing == step \div CP_SETUP_FINALIZE_STEPS + 1
Authenticated == step < CP_SETUP_FINALIZE_STEPS * Connectors /\ rrx[Finalizing] # 0

Finalize ==
  /\ at = "finalize" /\ Authenticated
  /\ finalized' = [finalized EXCEPT ![Finalizing] = @ + 1]
  /\ Message(2) /\ step' = step + 1
  /\ UNCHANGED <<dockFacts, at, head, tries, rrx, keyed, commits>>

\* A connector that never authenticated has nothing to finalise.
FinalizeSkips ==
  /\ at = "finalize" /\ step < CP_SETUP_FINALIZE_STEPS * Connectors /\ ~Authenticated
  /\ step' = step + CP_SETUP_FINALIZE_STEPS
  /\ UNCHANGED <<dockFacts, at, head, tries, hostCounters, rrx, acked, dockCounters,
                 dockState, pushes, bounds>>

FinalizeDone ==
  /\ at = "finalize" /\ step = CP_SETUP_FINALIZE_STEPS * Connectors
  /\ IF CommitsAtTheEnd THEN Go("commit") ELSE Finish
  /\ UNCHANGED <<dockFacts, step, head, tries, hostCounters, rrx, acked,
                 dockCounters, dockState, pushes, bounds>>

ControlFails ==
  /\ \/ at = "wide" /\ step <= WideRecords
     \/ at = "head" /\ (step >= 3 => rrx[head] # 0)
     \/ at = "finalize" /\ Authenticated
  /\ EngageFails(2)
  /\ UNCHANGED <<dockFacts, rrx, dockState>>

EngageStep ==
  \/ Open \/ Authenticate \/ First \/ Wide \/ WideDone \/ Commit \/ HeadMessage
  \/ NoSink \/ Drain \/ HPrime \/ Finalize \/ FinalizeSkips \/ FinalizeDone
EngageFault ==
  AuthenticateFails \/ FirstRetries \/ ControlFails \/ Disconnects

-----------------------------------------------------------------------------
\* Every message reaches the dock under the counters the dock is at, over the
\* link authentication, the dock-wide records and connectors given up halfway,
\* unless a write that failed was taken all the same (configure_control,
\* configure_head, fetch_edid: "advanced only after a successful transfer").
StaysInStep == adrift => ambiguous

\* By the time the session is engaged the video engine was started once,
\* wherever the dock's profile places that, and a connector was finalized,
\* wholly, if it was authenticated and only then.  It was authenticated if its
\* socket is occupied, and the dock can recover its video key: the Rrx the key
\* was wrapped with is the connector's own.  The reads of configure_head give
\* this to every push that is not later than the H' pause.
SocketsAuthenticated ==
  at = "engaged" =>
    /\ commits = 1
    /\ \A h \in Heads :
         /\ finalized[h] = IF rrx[h] # 0 THEN CP_SETUP_FINALIZE_STEPS ELSE 0
         /\ late = 0 => rrx[h] = (IF h \in occupied THEN h ELSE 0) /\ (h \in occupied => h \in keyed)

\* A genuine dock that acknowledges is engaged whatever its sockets hold,
\* unless a transfer fails ("aborting here took the whole dock down whenever a
\* single socket was empty", configure_head).
EngageSucceeds ==
  at = "open" ~> \/ at = "engaged" \/ faults > 0 \/ mute \/ genuine # {"H", "L", "V"}
=============================================================================
