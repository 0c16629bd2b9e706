----------------------------- MODULE CardProofs -----------------------------
(***************************************************************************)
(* A Revdi card and its client, for every screen, queue length and number  *)
(* of flips and clients (RevdiCard): the card keeps the promise of         *)
(* DamagePromise, and a client that waits has its wake-up.  And the cards  *)
(* there are, for every limit and any number of writers, clients and       *)
(* outputs at work at once (CardRegistry, CardClients): the registry never *)
(* lists more cards than it may, the handles of a process are on cards of  *)
(* their own, and so are the outputs that ask for cards by position.       *)
(***************************************************************************)
EXTENDS RevdiCard, CardClients, FiniteSetTheorems, WellFoundedInduction, TLAPS

\* The provers every leaf that names none is given, and their seconds.
USE ZenonT(10), SMTT(30)

\* Only regions of the screen are recorded, or about to be.
RegionsInv == kregions \subseteq Regions /\ damage \subseteq Regions

\* What flips have recorded or have yet to record are regions of the screen
\* (atomic_update).
LEMMA RegionsInvariant == Spec => []RegionsInv
<1>1. Init => RegionsInv
  BY DEF Init, RegionsInv
<1>2. RegionsInv /\ [Next]_vars => RegionsInv'
  <2> SUFFICES ASSUME RegionsInv, [Next]_vars PROVE RegionsInv'
    OBVIOUS
  <2> USE DEF RegionsInv
  <2>1. CASE Kms
    BY <2>1 DEF Kms, AtomicEnable, AtomicDisable, PlaneOff, Flip, CursorMint, kmsVars, cardVars
  <2>2. CASE KmsFinishes
    BY <2>2 DEF KmsFinishes, EnableSendsDpms, EnableSendsMode, DisableForgetsMode, DisableSendsDpms,
                FlipRecordsDamage, FlipNotifies, CursorSend, cardVars
  <2>3. CASE Open \/ DropDevice \/ ClientDies \/ DeviceEvents
    BY <2>3 DEF Open, DropDevice, ClientDies, ClientGone, DeviceEvents, kmsVars, cardVars
  <2>4. CASE ClientStep
    BY <2>4 DEF ClientStep, Connect, ConnectPublishes, ReplayReads, ReplaySendsDpms, ReplaySendsMode,
                NextFrame, RequestUpdate, Wait, WaitTimesOut, GrabSnapshot, GrabTakesDamage,
                GrabCopies, kmsVars, cardVars
  <2>5. CASE UNCHANGED vars
    BY <2>5 DEF vars, kmsVars, cardVars
  <2> QED
    BY <2>1, <2>2, <2>3, <2>4, <2>5 DEF Next
<1> QED
  BY <1>1, <1>2, PTL DEF Spec

\* Whatever commits and ioctls interleave, a flip only adds to what is owed, a
\* grab takes all of it, and nothing else touches it (atomic_update, grabpix).
THEOREM CardAlwaysKeepsThePromise == Spec => CardKeepsThePromise
<1>1. Init => Promise!PromiseInit
  BY DEF Init, Promise!PromiseInit
<1>2. RegionsInv /\ [Next]_vars => [Promise!PromiseNext]_(Promise!promiseVars)
  <2> SUFFICES ASSUME RegionsInv, [Next]_vars
               PROVE  [Promise!PromiseNext]_(Promise!promiseVars)
    OBVIOUS
  <2> USE DEF Promise!promiseVars
  <2>1. CASE FlipRecordsDamage
    <3>1. Promise!Change(kregions)
      BY <2>1 DEF FlipRecordsDamage, Promise!Change, clientVars, grabVars
    <3> QED
      BY <3>1 DEF RegionsInv, Promise!PromiseNext
  <2>2. CASE GrabTakesDamage
    <3>1. Promise!Grab
      BY <2>2 DEF GrabTakesDamage, RegionsInv, Promise!Grab
    <3> QED
      BY <3>1 DEF Promise!PromiseNext
  <2>3. CASE GrabCopies \/ DropDevice \/ ClientDies
    <3>1. Promise!Done
      BY <2>3 DEF GrabCopies, DropDevice, ClientDies, ClientGone, Promise!Done,
                Promise!Returned, cardVars
    <3> QED
      BY <3>1 DEF Promise!PromiseNext
  <2>4. CASE Kms
    BY <2>4 DEF Kms, AtomicEnable, AtomicDisable, PlaneOff, Flip, CursorMint, cardVars, clientVars,
                grabVars
  <2>5. CASE KmsFinishes /\ ~FlipRecordsDamage
    BY <2>5 DEF KmsFinishes, EnableSendsDpms, EnableSendsMode, DisableForgetsMode, DisableSendsDpms,
                FlipNotifies, CursorSend, cardVars, clientVars, grabVars
  <2>6. CASE Open \/ DeviceEvents
    BY <2>6 DEF Open, DeviceEvents, cardVars, grabVars
  <2>7. CASE ClientStep /\ ~GrabTakesDamage /\ ~GrabCopies
    BY <2>7 DEF ClientStep, Connect, ConnectPublishes, ReplayReads, ReplaySendsDpms, ReplaySendsMode,
                NextFrame, RequestUpdate, Wait, WaitTimesOut, GrabSnapshot, cardVars, grabVars
  <2>8. CASE UNCHANGED vars
    BY <2>8 DEF vars, cardVars, clientVars, grabVars
  <2> QED
    BY <2>1, <2>2, <2>3, <2>4, <2>5, <2>6, <2>7, <2>8 DEF Next
<1> QED
  BY <1>1, <1>2, RegionsInvariant, PTL DEF Spec, CardKeepsThePromise, Promise!PromiseSpec

-----------------------------------------------------------------------------
Events ==
    [type : {"dpms_on", "dpms_off", "update"}]
      \cup [type : {"mode"}, mode : Modes \cup {NoMode}]
      \cup [type : {"cursor"}, handle : Nat]

\* What the channel and those that send on it hold, and that the connected
\* file is the client's.
ChannelInv ==
    /\ queue \in Seq(Events)
    /\ receiver \in Nat /\ file \in Nat /\ clients \in Nat /\ khandle \in Nat
    /\ announced_mode \in Modes \cup {NoMode}
    /\ kmode \in Modes \cup {NoMode} /\ creplay \in Modes \cup {NoMode}
    /\ cpc \notin {"closed", "opened"} => receiver = file /\ file # 0
    /\ cpc = "opened" => file # 0

\* A send keeps what is pending; an UPDATE_READY to a connected file is pending
\* after it, or counted as lost (EventChannel::send).
LEMMA SendKeeps ==
    ASSUME queue \in Seq(Events), QueueCap \in Nat, NEW e \in Events, Send(e)
    PROVE  /\ queue' \in Seq(Events)
           /\ UpdatePending => UpdatePending'
           /\ lost => lost'
           /\ e.type = "update" /\ receiver # 0 => lost' \/ UpdatePending'
<1>1. CASE receiver # 0 /\ Len(queue) < QueueCap
  <2>1. queue' = Append(queue, e)
    BY <1>1 DEF Send
  <2>2. /\ queue' \in Seq(Events) /\ DOMAIN queue' = 1 .. Len(queue) + 1
        /\ queue'[Len(queue) + 1] = e /\ \A i \in DOMAIN queue : queue'[i] = queue[i]
    BY <2>1
  <2>3. DOMAIN queue \subseteq DOMAIN queue' /\ Len(queue) + 1 \in DOMAIN queue'
    BY <2>2
  <2> QED
    BY <2>2, <2>3 DEF Send, UpdatePending
<1>2. CASE ~(receiver # 0 /\ Len(queue) < QueueCap)
  <2>1. queue' = queue
    BY <1>2 DEF Send
  <2>2. receiver # 0 => Len(queue) >= QueueCap
    BY <1>2
  <2> QED
    BY <2>1, <2>2 DEF Send, UpdatePending
<1> QED
  BY <1>1, <1>2

\* Every step keeps the channel typed and the client its receiver.
LEMMA ChannelInvariant == ChannelInv /\ [Next]_vars => ChannelInv'
<1> SUFFICES ASSUME ChannelInv, [Next]_vars PROVE ChannelInv'
  OBVIOUS
<1>q. QueueCap \in Nat
  BY CardAssumption
<1>e. <<>> \in Seq(Events)
  OBVIOUS
<1> USE DEF ChannelInv
<1>1. CASE Kms
  BY <1>1 DEF Kms, AtomicEnable, AtomicDisable, PlaneOff, Flip, CursorMint,
              kmsVars, cardVars, channelVars, clientVars
<1>2. CASE EnableSendsDpms \/ DisableSendsDpms \/ FlipNotifies \/ ReplaySendsDpms
  <2>1. PICK e \in Events : Send(e)
    BY <1>2 DEF EnableSendsDpms, DisableSendsDpms, FlipNotifies, ReplaySendsDpms, Events
  <2>2. queue' \in Seq(Events) /\ receiver' = receiver
    BY <2>1, SendKeeps, <1>q DEF Send
  <2> QED
    BY <1>2, <2>2 DEF EnableSendsDpms, DisableSendsDpms, FlipNotifies, ReplaySendsDpms,
                      kmsVars, cardVars, clientVars
<1>3. CASE EnableSendsMode \/ ReplaySendsMode \/ CursorSend
  <2>1. PICK e \in Events : Send(e)
    BY <1>3 DEF EnableSendsMode, ReplaySendsMode, CursorSend, Events
  <2>2. queue' \in Seq(Events) /\ receiver' = receiver
    BY <2>1, SendKeeps, <1>q DEF Send
  <2> QED
    BY <1>3, <2>2 DEF EnableSendsMode, ReplaySendsMode, CursorSend, kmsVars, cardVars, clientVars
<1>4. CASE DisableForgetsMode \/ FlipRecordsDamage
  BY <1>4 DEF DisableForgetsMode, FlipRecordsDamage, channelVars, clientVars
<1>5. CASE Open \/ DropDevice \/ ClientDies
  <2>1. CASE Open
    <3>1. file' = clients + 1 /\ clients' = clients + 1 /\ cpc' = "opened"
      BY <2>1 DEF Open
    <3>2. UNCHANGED <<queue, receiver, khandle, announced_mode, kmode, creplay>>
      BY <2>1 DEF Open, channelVars, kmsVars
    <3> QED
      BY <3>1, <3>2
  <2>2. CASE DropDevice \/ ClientDies
    <3>1. receiver' = 0 /\ queue' = <<>> /\ file' = 0 /\ cpc' = "closed" /\ creplay' = NoMode
      BY <2>2 DEF DropDevice, ClientDies, ClientGone
    <3>2. UNCHANGED <<clients, khandle, announced_mode, kmode>>
      BY <2>2 DEF DropDevice, ClientDies, ClientGone, kmsVars
    <3> QED
      BY <3>1, <3>2, <1>e
  <2> QED
    BY <1>5, <2>1, <2>2
<1>6. CASE DeviceEvents \/ NextFrame \/ Wait
  <2>1. queue' = <<>> /\ receiver' = receiver
    BY <1>6 DEF DeviceEvents, NextFrame, Wait, PollEvents
  <2> QED
    BY <1>6, <2>1, <1>e DEF DeviceEvents, NextFrame, Wait, kmsVars, cardVars
<1>7. CASE Connect \/ ConnectPublishes \/ ReplayReads
  BY <1>7, <1>e DEF Connect, ConnectPublishes, ReplayReads, kmsVars, cardVars, channelVars
<1>8. CASE RequestUpdate \/ WaitTimesOut \/ GrabSnapshot \/ GrabTakesDamage \/ GrabCopies
  BY <1>8 DEF RequestUpdate, WaitTimesOut, GrabSnapshot, GrabTakesDamage, GrabCopies,
              kmsVars, cardVars, channelVars
<1>9. CASE UNCHANGED vars
  BY <1>9 DEF vars, kmsVars, cardVars, channelVars, clientVars
<1> QED
  BY <1>1, <1>2, <1>3, <1>4, <1>5, <1>6, <1>7, <1>8, <1>9 DEF Next, KmsFinishes, ClientStep

\* A client that waits while a frame waits for it has its UPDATE_READY, pending
\* or about to be sent, unless the queue was full (request_update, next_frame).
THEOREM WakeupIsNeverLost == Spec => []NoLostWakeup
<1>1. Init => ChannelInv /\ NoLostWakeup
  BY DEF Init, ChannelInv, NoLostWakeup
<1>2. ChannelInv /\ NoLostWakeup /\ [Next]_vars => NoLostWakeup'
  <2> SUFFICES ASSUME ChannelInv, NoLostWakeup, [Next]_vars PROVE NoLostWakeup'
    OBVIOUS
  <2>q. QueueCap \in Nat
    BY CardAssumption
  <2>t. queue \in Seq(Events)
    BY DEF ChannelInv
  <2> USE DEF NoLostWakeup
  <2>1. CASE Kms
    <3>1. kpc = "idle" /\ UNCHANGED <<queue, lost, frame_dirty, cpc>>
      BY <2>1 DEF Kms, AtomicEnable, AtomicDisable, PlaneOff, Flip, CursorMint,
                  cardVars, channelVars, clientVars
    <3> QED
      BY <3>1 DEF UpdatePending
  <2>2. CASE EnableSendsDpms \/ EnableSendsMode \/ DisableSendsDpms \/ CursorSend
    <3>1. PICK e \in Events : Send(e)
      BY <2>2 DEF EnableSendsDpms, EnableSendsMode, DisableSendsDpms, CursorSend, Events, ChannelInv
    <3>2. (UpdatePending => UpdatePending') /\ (lost => lost')
      BY <3>1, SendKeeps, <2>q, <2>t
    <3>3. kpc # "flip_notify" /\ UNCHANGED <<frame_dirty, cpc>>
      BY <2>2 DEF EnableSendsDpms, EnableSendsMode, DisableSendsDpms, CursorSend, cardVars, clientVars
    <3> QED
      BY <3>2, <3>3
  <2>3. CASE DisableForgetsMode \/ FlipRecordsDamage
    BY <2>3 DEF DisableForgetsMode, FlipRecordsDamage, channelVars, clientVars, UpdatePending
  <2>4. CASE FlipNotifies
    <3> DEFINE e == [type |-> "update"]
    <3>1. e \in Events /\ Send(e) /\ e.type = "update"
      BY <2>4 DEF FlipNotifies, Events
    <3>2. receiver # 0 => lost' \/ UpdatePending'
      BY <3>1, SendKeeps, <2>q, <2>t
    <3>3. cpc' = "wait" => receiver # 0
      BY <2>4 DEF FlipNotifies, ChannelInv, clientVars
    <3> QED
      BY <3>2, <3>3
  <2>5. CASE Wait
    <3>1. cpc' = "wait" => ~UpdatePending /\ cpc = "wait"
      BY <2>5 DEF Wait
    <3>2. UNCHANGED <<kpc, lost, frame_dirty>>
      BY <2>5 DEF Wait, kmsVars, cardVars
    <3> QED
      BY <3>1, <3>2
  <2>6. CASE RequestUpdate
    BY <2>6 DEF RequestUpdate, cardVars
  <2>7. CASE Open \/ DropDevice \/ ClientDies \/ DeviceEvents \/ NextFrame
    BY <2>7 DEF Open, DropDevice, ClientDies, ClientGone, DeviceEvents, NextFrame
  <2>8. CASE ClientStep /\ ~NextFrame /\ ~RequestUpdate /\ ~Wait
    BY <2>8 DEF ClientStep, Connect, ConnectPublishes, ReplayReads, ReplaySendsDpms, ReplaySendsMode,
                WaitTimesOut, GrabSnapshot, GrabTakesDamage, GrabCopies
  <2>9. CASE UNCHANGED vars
    BY <2>9 DEF vars, kmsVars, cardVars, channelVars, clientVars, UpdatePending
  <2> QED
    BY <2>1, <2>2, <2>3, <2>4, <2>5, <2>6, <2>7, <2>8, <2>9 DEF Next, KmsFinishes, ClientStep
<1> QED
  BY <1>1, <1>2, ChannelInvariant, PTL DEF Spec

-----------------------------------------------------------------------------
(* The registry and those who look for a card in it.                       *)

\* No two members of a set have as many members below them.
LEMMA RanksDiffer ==
  ASSUME NEW S \in SUBSET Nat, IsFiniteSet(S), NEW i \in S, NEW k \in S, i < k
  PROVE  Cardinality({j \in S : j < i}) < Cardinality({j \in S : j < k})
<1> DEFINE below(n) == {j \in S : j < n}
<1>1. IsFiniteSet(below(k)) /\ below(i) \in SUBSET below(k)
  <2>1. below(k) \in SUBSET S
    OBVIOUS
  <2>2. IsFiniteSet(below(k))
    BY <2>1, FS_Subset
  <2>3. \A j \in S : j < i => j < k
    OBVIOUS
  <2> QED
    BY <2>2, <2>3
<1>2. i \in below(k) /\ i \notin below(i)
  OBVIOUS
<1>3. below(i) # below(k)
  BY <1>2
<1>4. IsFiniteSet(below(i)) /\ Cardinality(below(i)) <= Cardinality(below(k))
      /\ (Cardinality(below(k)) = Cardinality(below(i)) => below(k) = below(i))
  BY <1>1, FS_Subset
<1>5. Cardinality(below(i)) \in Nat /\ Cardinality(below(k)) \in Nat
  BY <1>1, <1>4, FS_CardinalityType
<1> HIDE DEF below
<1>6. Cardinality(below(i)) < Cardinality(below(k))
  BY <1>3, <1>4, <1>5
<1> QED
  BY <1>6 DEF below

\* The k lowest members are no more than k.
LEMMA LowestAreFew ==
  ASSUME NEW k \in Nat, NEW S \in SUBSET Nat, IsFiniteSet(S)
  PROVE  IsFiniteSet(Lowest(k, S)) /\ Cardinality(Lowest(k, S)) <= k
<1> DEFINE rank == [i \in Lowest(k, S) |-> Cardinality({j \in S : j < i})]
<1>1. IsFiniteSet(Lowest(k, S)) /\ Lowest(k, S) \subseteq S
  <2>1. Lowest(k, S) \in SUBSET S
    BY DEF Lowest
  <2> QED
    BY <2>1, FS_Subset
<1>2. rank \in [Lowest(k, S) -> 0 .. k - 1]
  <2> SUFFICES ASSUME NEW i \in Lowest(k, S) PROVE Cardinality({j \in S : j < i}) \in 0 .. k - 1
    OBVIOUS
  <2>1. IsFiniteSet({j \in S : j < i})
    BY FS_Subset
  <2>2. Cardinality({j \in S : j < i}) \in Nat
    BY <2>1, FS_CardinalityType
  <2>3. Cardinality({j \in S : j < i}) < k
    BY DEF Lowest
  <2> QED
    BY <2>2, <2>3
<1>3. IsFiniteSet(0 .. k - 1) /\ Cardinality(0 .. k - 1) = k
  <2>1. 0 \in Int /\ k - 1 \in Int
    OBVIOUS
  <2>2. IsFiniteSet(0 .. k - 1)
        /\ Cardinality(0 .. k - 1) = IF 0 > k - 1 THEN 0 ELSE (k - 1) - 0 + 1
    BY <2>1, FS_Interval
  <2> QED
    BY <2>2
<1>4. Cardinality(Lowest(k, S)) \in Nat
  BY <1>1, FS_CardinalityType
<1>5. \A x, y \in Lowest(k, S) : x # y => rank[x] # rank[y]
  <2> SUFFICES ASSUME NEW x \in Lowest(k, S), NEW y \in Lowest(k, S), x # y
               PROVE  rank[x] # rank[y]
    OBVIOUS
  <2>1. x \in S /\ y \in S /\ x \in Nat /\ y \in Nat
    BY <1>1
  <2>2. \A n \in S : Cardinality({j \in S : j < n}) \in Nat
    <3> SUFFICES ASSUME NEW n \in S PROVE Cardinality({j \in S : j < n}) \in Nat
      OBVIOUS
    <3>1. IsFiniteSet({j \in S : j < n})
      BY FS_Subset
    <3> QED
      BY <3>1, FS_CardinalityType
  <2>3. CASE x < y
    BY <2>1, <2>2, <2>3, RanksDiffer
  <2>4. CASE y < x
    BY <2>1, <2>2, <2>4, RanksDiffer
  <2> QED
    BY <2>1, <2>3, <2>4
<1> HIDE DEF rank
<1>6. CASE Cardinality(Lowest(k, S)) > k
  <2>1. Cardinality(0 .. k - 1) < Cardinality(Lowest(k, S))
    BY <1>3, <1>4, <1>6
  <2>2. \E x, y \in Lowest(k, S) : x # y /\ rank[x] = rank[y]
    BY <1>1, <1>2, <1>3, <2>1, FS_PigeonHole
  <2> QED
    BY <1>5, <2>2
<1> QED
  BY <1>1, <1>4, <1>6

\* The listed cards are finitely many, and no more than may be.
BoundedInv == IsFiniteSet(generic) /\ IsFiniteSet(attached) /\ RegistryBounded

\* A write of a number keeps to the limit: the cards it makes are no more than
\* those it made room for (EvdiRegistry::store).
LEMMA AddGenericKeeps ==
  ASSUME BoundedInv, NEW count \in Nat, NEW made \in Nat, made <= count, NEW gone,
         AddGeneric(count, made, gone), UNCHANGED attached
  PROVE  BoundedInv'
<1> DEFINE free == Indices \ (Live \cup gone)
<1>1. CASE Cardinality(Devices) + count > MAX_CARDS
  BY <1>1 DEF AddGeneric, BoundedInv, RegistryBounded, Devices
<1>2. CASE ~(Cardinality(Devices) + count > MAX_CARDS)
  <2>1. generic' = generic \cup Lowest(made, free)
    BY <1>2 DEF AddGeneric
  <2>2. free \in SUBSET Indices
    OBVIOUS
  <2>3. free \in SUBSET Nat /\ IsFiniteSet(free)
    BY <2>2, RegistryAssumption, FS_Subset
  <2> HIDE DEF free
  <2>4. IsFiniteSet(Lowest(made, free)) /\ Cardinality(Lowest(made, free)) <= made
    BY <2>3, LowestAreFew
  <2>5. IsFiniteSet(generic) /\ IsFiniteSet(attached) /\ IsFiniteSet(generic')
    BY <2>1, <2>4, FS_Union DEF BoundedInv
  <2>6. IsFiniteSet(Devices)
    BY <2>5, FS_Union DEF Devices
  <2>7. Devices' = Devices \cup Lowest(made, free)
    BY <2>1 DEF Devices
  <2>8. /\ Cardinality(Devices') = Cardinality(Devices) + Cardinality(Lowest(made, free))
                                     - Cardinality(Devices \cap Lowest(made, free))
        /\ IsFiniteSet(Devices \cap Lowest(made, free))
    BY <2>4, <2>6, <2>7, FS_Union, FS_Intersection
  <2>9. /\ Cardinality(Devices) \in Nat /\ Cardinality(Lowest(made, free)) \in Nat
        /\ Cardinality(Devices \cap Lowest(made, free)) \in Nat
    BY <2>4, <2>6, <2>8, FS_CardinalityType
  <2>10. MAX_CARDS \in Nat
    BY RegistryAssumption
  <2>11. Cardinality(Devices') <= MAX_CARDS
    BY <1>2, <2>4, <2>8, <2>9, <2>10
  <2> QED
    BY <2>5, <2>11 DEF BoundedInv, RegistryBounded
<1> QED
  BY <1>1, <1>2

\* A step of a usb writer: only its entry in the list can add a card, and it
\* looks at the limit under the same lock (add_usb_device).
LEMMA WriterKeeps ==
  ASSUME BoundedInv, NEW w, NEW gone, WriterStep(w, gone)
  PROVE  BoundedInv'
<1>1. CASE UNCHANGED <<generic, attached>>
  BY <1>1 DEF BoundedInv, RegistryBounded, Devices
<1>2. CASE /\ Cardinality(Devices) < MAX_CARDS /\ attached' = attached \cup {making[w]}
           /\ UNCHANGED generic
  <2>1. IsFiniteSet(Devices) /\ IsFiniteSet(attached') /\ IsFiniteSet(generic')
    BY <1>2, FS_Union, FS_AddElement DEF BoundedInv, Devices
  <2>2. Devices' = Devices \cup {making[w]}
    BY <1>2 DEF Devices
  <2>3. Cardinality(Devices') <= Cardinality(Devices) + 1 /\ Cardinality(Devices) \in Nat
    <3>1. Cardinality(Devices) \in Nat
      BY <2>1, FS_CardinalityType
    <3>2. Cardinality(Devices') = IF making[w] \in Devices THEN Cardinality(Devices)
                                  ELSE Cardinality(Devices) + 1
      BY <2>1, <2>2, FS_AddElement
    <3> QED
      BY <3>1, <3>2
  <2>4. Cardinality(Devices') \in Nat
    <3>1. IsFiniteSet(Devices')
      BY <2>1, FS_Union DEF Devices
    <3> QED
      BY <3>1, FS_CardinalityType
  <2>5. Cardinality(Devices') <= MAX_CARDS
    BY <1>2, <2>3, <2>4, RegistryAssumption
  <2> QED
    BY <2>1, <2>5 DEF BoundedInv, RegistryBounded
<1> QED
  BY <1>1, <1>2 DEF WriterStep, UsbFind, UsbMake, UsbLink, UsbList

\* Fewer cards are no more than may be.
LEMMA FewerKeeps ==
  ASSUME BoundedInv, generic' \in SUBSET generic, attached' \in SUBSET attached
  PROVE  BoundedInv'
<1>1. IsFiniteSet(generic') /\ IsFiniteSet(attached')
  BY FS_Subset DEF BoundedInv
<1>2. IsFiniteSet(Devices)
  BY FS_Union DEF BoundedInv, Devices
<1>3. Devices' \in SUBSET Devices
  BY DEF Devices
<1>4. IsFiniteSet(Devices') /\ Cardinality(Devices') <= Cardinality(Devices)
  BY <1>2, <1>3, FS_Subset
<1>5. Cardinality(Devices) \in Nat /\ Cardinality(Devices') \in Nat
  BY <1>2, <1>4, FS_CardinalityType
<1>6. Cardinality(Devices') <= MAX_CARDS
  BY <1>4, <1>5, RegistryAssumption DEF BoundedInv, RegistryBounded
<1> QED
  BY <1>1, <1>6 DEF BoundedInv, RegistryBounded

\* What the registry's own callers do to it.
LEMMA RegistryKeeps ==
  ASSUME BoundedInv, NEW gone, RegistryStep(gone)
  PROVE  BoundedInv'
<1>1. CASE \E count \in 1 .. MAX_CARDS + 1, made \in 0 .. MAX_CARDS : StoreAdd(count, made, gone)
  <2>1. PICK count \in 1 .. MAX_CARDS + 1, made \in 0 .. MAX_CARDS : StoreAdd(count, made, gone)
    BY <1>1
  <2>2. count \in Nat /\ made \in Nat
    BY RegistryAssumption
  <2>3. made <= count /\ AddGeneric(count, made, gone) /\ UNCHANGED attached
    BY <2>1 DEF StoreAdd
  <2> QED
    BY <2>2, <2>3, AddGenericKeeps
<1>2. CASE Unplug \/ Plug \/ RemoveUsb \/ RemoveAll \/ DropEntries \/ \E i \in Indices : NodeAppears(i)
  <2>1. generic' \in SUBSET generic /\ attached' \in SUBSET attached
    BY <1>2 DEF Unplug, Plug, RemoveUsb, RemoveAll, DropEntries, NodeAppears
  <2> QED
    BY <2>1, FewerKeeps
<1> QED
  BY <1>1, <1>2 DEF RegistryStep

\* Whoever opens, adds, removes, plugs and unplugs at once, the registry lists
\* no more cards than MAX_CARDS (store, add_usb_device).
THEOREM RegistryAlwaysBounded == ClientsSpec => []RegistryBounded
<1>1. ClientsInit => BoundedInv
  <2> SUFFICES ASSUME ClientsInit PROVE BoundedInv
    OBVIOUS
  <2>1. generic = {} /\ attached = {} /\ Devices = {}
    BY DEF ClientsInit, RegistryInit, Devices
  <2>2. IsFiniteSet({}) /\ Cardinality({}) = 0
    BY FS_EmptySet
  <2> QED
    BY <2>1, <2>2, RegistryAssumption DEF BoundedInv, RegistryBounded
<1>2. BoundedInv /\ [ClientsNext]_<<registryVars, processVars>> => BoundedInv'
  <2> SUFFICES ASSUME BoundedInv, [ClientsNext]_<<registryVars, processVars>> PROVE BoundedInv'
    OBVIOUS
  <2>1. CASE Registry
    BY <2>1, RegistryKeeps DEF Registry
  <2>2. CASE \E o \in Openers : WriteGeneric(o)
    <3>1. PICK made \in {0, 1} : AddGeneric(1, made, Held)
      BY <2>2 DEF WriteGeneric
    <3>2. UNCHANGED attached
      BY <2>2 DEF WriteGeneric
    <3> QED
      BY <3>1, <3>2, AddGenericKeeps
  <2>3. CASE \E o \in Openers : WriteUsb(o)
    <3>1. PICK o \in Openers : WriterStep(o, Held) \/ UNCHANGED registryVars
      BY <2>3 DEF WriteUsb
    <3>2. CASE UNCHANGED registryVars
      BY <3>2, FewerKeeps DEF registryVars
    <3> QED
      BY <3>1, <3>2, WriterKeeps
  <2>4. CASE \E h \in Heads : OpenNth(h)
    <3>1. UNCHANGED attached
      BY <2>4 DEF OpenNth
    <3>2. CASE UNCHANGED generic
      BY <3>1, <3>2, FewerKeeps
    <3>3. CASE \E made \in {0, 1} : AddGeneric(1, made, Held)
      BY <3>1, <3>3, AddGenericKeeps
    <3> QED
      BY <2>4, <3>2, <3>3 DEF OpenNth
  <2>5. CASE UNCHANGED registryVars
    BY <2>5, FewerKeeps DEF registryVars
  <2>6. ASSUME NEW o \in Openers,
               \/ \E p \in Parents : OpenAttachedTo(o, p)
               \/ FirstSearch(o) \/ SecondSearch(o) \/ OpenDevice(o) \/ MarkInUse(o)
               \/ CloseFile(o) \/ ClearMark(o)
        PROVE  UNCHANGED registryVars
    BY <2>6 DEF OpenAttachedTo, FirstSearch, SecondSearch, Search, OpenDevice, MarkInUse, CloseFile,
                ClearMark
  <2>7. ASSUME NEW h \in Heads, CloseCard(h) PROVE UNCHANGED registryVars
    BY <2>7 DEF CloseCard
  <2> QED
    BY <2>1, <2>2, <2>3, <2>4, <2>5, <2>6, <2>7 DEF ClientsNext
<1>3. BoundedInv => RegistryBounded
  BY DEF BoundedInv
<1> QED
  BY <1>1, <1>2, <1>3, PTL DEF ClientsSpec

-----------------------------------------------------------------------------
\* Outside a call into the library, without a handle and with one.
Resting == {"idle", "held"}

OpenerTypes ==
  /\ opc \in [Openers -> {"idle", "find", "write", "refind", "open", "mark", "held", "closing"}]
  /\ DOMAIN index = Openers

\* Every mark is that of a handle not closed yet.
MarksAreHandles == \A i \in card_in_use : \E o \in Openers : opc[o] \in {"held", "closing"} /\ index[o] = i

\* Calls that never overlapped: there is one at most, a card it has found is
\* nobody's, and one it closes nobody else's.
Apart ==
  ~overlapped =>
    /\ \A o, p \in Openers : opc[o] \notin Resting /\ opc[p] \notin Resting => o = p
    /\ \A o \in Openers : opc[o] \in {"open", "mark"} => index[o] \notin card_in_use
    /\ \A o \in Openers : opc[o] = "held" => index[o] \in card_in_use
    /\ \A o, p \in Openers :
         opc[o] \in {"held", "closing"} /\ opc[p] = "held" /\ index[o] = index[p] => o = p

HandlesInv == OpenerTypes /\ MarksAreHandles /\ Apart

\* A call begins, on an open or on a close.
LEMMA BeginKeeps ==
  ASSUME HandlesInv, NEW o \in Openers, NEW to \in {"find", "closing"},
         opc[o] = IF to = "find" THEN "idle" ELSE "held",
         Goto(o, to), UNCHANGED <<index, card_in_use>>,
         overlapped' = (overlapped \/ \E q \in Openers \ {o} : opc[q] \notin {"idle", "held"})
  PROVE  HandlesInv'
<1>1. OpenerTypes'
  BY DEF HandlesInv, OpenerTypes, Goto
<1>2. \A p \in Openers : opc'[p] = IF p = o THEN to ELSE opc[p]
  BY DEF HandlesInv, OpenerTypes, Goto
<1>3. MarksAreHandles'
  BY <1>2 DEF HandlesInv, MarksAreHandles
<1>4. Apart'
  <2> SUFFICES ASSUME ~overlapped' PROVE Apart'
    BY DEF Apart
  <2>1. ~overlapped /\ \A q \in Openers \ {o} : opc[q] \in Resting
    BY DEF Resting
  <2>2. \A q \in Openers \ {o} : opc'[q] = opc[q] /\ opc[q] \in Resting
    BY <1>2, <2>1
  <2>3. \A q \in Openers : opc'[q] = "held" => opc[q] = "held"
    BY <1>2
  <2>4. \A q \in Openers : opc'[q] \in {"held", "closing"} => opc[q] \in {"held", "closing"}
    BY <1>2
  <2>5. \A p, q \in Openers : opc'[p] \notin Resting /\ opc'[q] \notin Resting => p = q
    BY <2>2
  <2>6. \A q \in Openers : opc'[q] \notin {"open", "mark"}
    BY <1>2, <2>2 DEF Resting
  <2>7. \A q \in Openers : opc'[q] = "held" => index'[q] \in card_in_use'
    BY <2>1, <2>3 DEF HandlesInv, Apart
  <2>8. \A p, q \in Openers :
          opc'[p] \in {"held", "closing"} /\ opc'[q] = "held" /\ index'[p] = index'[q] => p = q
    BY <2>1, <2>3, <2>4 DEF HandlesInv, Apart
  <2> QED
    BY <2>5, <2>6, <2>7, <2>8 DEF Apart
<1> QED
  BY <1>1, <1>3, <1>4 DEF HandlesInv

\* A call goes on or returns without a handle: its card, if it has one, is not
\* marked.
LEMMA MovesKeep ==
  ASSUME HandlesInv, NEW o \in Openers, opc[o] \notin {"idle", "held", "closing"},
         NEW to \in {"idle", "write", "refind", "open", "mark"}, Goto(o, to),
         DOMAIN index' = Openers, \A p \in Openers \ {o} : index'[p] = index[p],
         to \in {"open", "mark"} => index'[o] \notin card_in_use,
         UNCHANGED <<card_in_use, overlapped>>
  PROVE  HandlesInv'
<1>1. OpenerTypes'
  BY DEF HandlesInv, OpenerTypes, Goto
<1>2. \A p \in Openers : opc'[p] = IF p = o THEN to ELSE opc[p]
  BY DEF HandlesInv, OpenerTypes, Goto
<1>3. MarksAreHandles'
  BY <1>2 DEF HandlesInv, MarksAreHandles
<1>4. Apart'
  <2> SUFFICES ASSUME ~overlapped' PROVE Apart'
    BY DEF Apart
  <2>1. /\ \A p, q \in Openers : opc[p] \notin Resting /\ opc[q] \notin Resting => p = q
        /\ \A q \in Openers : opc[q] = "held" => index[q] \in card_in_use
        /\ \A p, q \in Openers :
             opc[p] \in {"held", "closing"} /\ opc[q] = "held" /\ index[p] = index[q] => p = q
    BY DEF HandlesInv, Apart
  <2>2. \A q \in Openers \ {o} : opc'[q] = opc[q] /\ opc[q] \in Resting
    BY <1>2, <2>1 DEF Resting
  <2>3. \A q \in Openers : opc'[q] \in {"held", "closing"} => opc[q] = opc'[q] /\ index'[q] = index[q]
    BY <1>2
  <2>4. \A p, q \in Openers : opc'[p] \notin Resting /\ opc'[q] \notin Resting => p = q
    BY <2>2
  <2>5. \A q \in Openers : opc'[q] \in {"open", "mark"} => index'[q] \notin card_in_use'
    BY <1>2, <2>2 DEF Resting
  <2>6. \A q \in Openers : opc'[q] = "held" => index'[q] \in card_in_use'
    BY <2>1, <2>3
  <2>7. \A p, q \in Openers :
          opc'[p] \in {"held", "closing"} /\ opc'[q] = "held" /\ index'[p] = index'[q] => p = q
    BY <2>1, <2>3
  <2> QED
    BY <2>4, <2>5, <2>6, <2>7 DEF Apart
<1> QED
  BY <1>1, <1>3, <1>4 DEF HandlesInv

\* evdi_open marks its card as the handle is made.
LEMMA MarkKeeps == ASSUME HandlesInv, NEW o \in Openers, MarkInUse(o) PROVE HandlesInv'
<1>1. /\ opc[o] = "mark" /\ Goto(o, "held") /\ card_in_use' = card_in_use \cup {index[o]}
      /\ UNCHANGED <<index, overlapped>>
  BY DEF MarkInUse
<1>2. OpenerTypes'
  BY <1>1 DEF HandlesInv, OpenerTypes, Goto
<1>3. \A p \in Openers : opc'[p] = IF p = o THEN "held" ELSE opc[p]
  BY <1>1 DEF HandlesInv, OpenerTypes, Goto
<1>4. MarksAreHandles'
  BY <1>1, <1>3 DEF HandlesInv, MarksAreHandles
<1>5. Apart'
  BY <1>1, <1>3 DEF HandlesInv, Apart, Resting
<1> QED
  BY <1>2, <1>4, <1>5 DEF HandlesInv

\* evdi_close takes its mark away.
LEMMA ClearKeeps == ASSUME HandlesInv, NEW o \in Openers, ClearMark(o) PROVE HandlesInv'
<1>1. /\ opc[o] = "closing" /\ Goto(o, "idle") /\ card_in_use' = card_in_use \ {index[o]}
      /\ index' = [index EXCEPT ![o] = -1] /\ UNCHANGED overlapped
  BY DEF ClearMark, Return
<1>2. OpenerTypes'
  BY <1>1 DEF HandlesInv, OpenerTypes, Goto
<1>3. /\ \A p \in Openers : opc'[p] = IF p = o THEN "idle" ELSE opc[p]
      /\ \A p \in Openers \ {o} : index'[p] = index[p]
  BY <1>1 DEF HandlesInv, OpenerTypes, Goto
<1>4. MarksAreHandles'
  BY <1>1, <1>3, ZenonT(40) DEF HandlesInv, MarksAreHandles
<1>5. Apart'
  BY <1>1, <1>3 DEF HandlesInv, Apart, Resting
<1> QED
  BY <1>2, <1>4, <1>5 DEF HandlesInv

\* Every step keeps the handles apart: the registry and the outputs leave the
\* handles alone, and each step of a call is one of the above.
LEMMA HandlesKeep ==
  ASSUME HandlesInv, [ClientsNext]_<<registryVars, processVars>>
  PROVE  HandlesInv'
<1>1. CASE UNCHANGED openerVars
  BY <1>1 DEF openerVars, HandlesInv, OpenerTypes, MarksAreHandles, Apart
<1>2. ASSUME NEW o \in Openers, NEW p \in Parents, OpenAttachedTo(o, p) PROVE HandlesInv'
  BY <1>2, BeginKeeps DEF OpenAttachedTo
<1>3. ASSUME NEW o \in Openers, CloseFile(o) PROVE HandlesInv'
  BY <1>3, BeginKeeps DEF CloseFile
<1>4. ASSUME NEW o \in Openers, FirstSearch(o) \/ SecondSearch(o) PROVE HandlesInv'
  <2>1. DOMAIN index = Openers /\ opc[o] \notin {"idle", "held", "closing"}
    BY <1>4 DEF HandlesInv, OpenerTypes, FirstSearch, SecondSearch
  <2>2. UNCHANGED <<card_in_use, overlapped>>
    BY <1>4 DEF FirstSearch, SecondSearch, Search
  <2>3. CASE Goto(o, "write") /\ UNCHANGED index
    BY <2>1, <2>2, <2>3, MovesKeep
  <2>4. CASE Return(o)
    BY <2>1, <2>2, <2>4, MovesKeep DEF Return
  <2>5. ASSUME NEW i \in FindUnusedCard(parent[o]),
               Goto(o, "open"), index' = [index EXCEPT ![o] = i]
        PROVE  HandlesInv'
    <3>1. i \notin card_in_use
      BY DEF FindUnusedCard
    <3> QED
      BY <2>1, <2>2, <2>5, <3>1, MovesKeep
  <2> QED
    BY <1>4, <2>3, <2>4, <2>5 DEF FirstSearch, SecondSearch, Search
<1>5. ASSUME NEW o \in Openers, WriteGeneric(o) PROVE HandlesInv'
  <2>1. DOMAIN index = Openers
    BY DEF HandlesInv, OpenerTypes
  <2> QED
    BY <1>5, <2>1, MovesKeep DEF WriteGeneric
<1>6. ASSUME NEW o \in Openers, WriteUsb(o) PROVE HandlesInv'
  <2>1. DOMAIN index = Openers
    BY DEF HandlesInv, OpenerTypes
  <2>2. opc[o] = "write" /\ UNCHANGED <<parent, index, card_in_use, overlapped>>
    BY <1>6 DEF WriteUsb
  <2>3. Goto(o, "refind") \/ UNCHANGED opc
    BY <1>6 DEF WriteUsb
  <2>4. CASE Goto(o, "refind")
    BY <2>1, <2>2, <2>4, MovesKeep
  <2>5. CASE UNCHANGED opc
    BY <1>1, <2>2, <2>5 DEF openerVars
  <2> QED
    BY <2>3, <2>4, <2>5
<1>7. ASSUME NEW o \in Openers, OpenDevice(o) PROVE HandlesInv'
  <2>1. DOMAIN index = Openers /\ opc[o] = "open" /\ UNCHANGED <<card_in_use, overlapped>>
    BY <1>7 DEF HandlesInv, OpenerTypes, OpenDevice
  <2>2. CASE Return(o)
    BY <2>1, <2>2, MovesKeep DEF Return
  <2>3. CASE Goto(o, "mark") /\ UNCHANGED index
    <3>1. CASE ~overlapped
      <4>1. index[o] \notin card_in_use
        BY <2>1, <3>1 DEF HandlesInv, Apart
      <4> QED
        BY <2>1, <2>3, <4>1, MovesKeep
    <3>2. CASE overlapped
      BY <2>1, <2>3, <3>2 DEF HandlesInv, OpenerTypes, MarksAreHandles, Apart, Goto
    <3> QED
      BY <3>1, <3>2
  <2> QED
    BY <1>7, <2>2, <2>3 DEF OpenDevice
<1>8. CASE Registry \/ \E h \in Heads : OpenNth(h) \/ CloseCard(h)
  BY <1>1, <1>8 DEF Registry, OpenNth, CloseCard
<1>9. CASE UNCHANGED <<registryVars, processVars>>
  BY <1>1, <1>9 DEF processVars
<1> QED
  BY <1>2, <1>3, <1>4, <1>5, <1>6, <1>7, <1>8, <1>9, MarkKeeps, ClearKeeps DEF ClientsNext

\* No card is lost to the process, and while its calls into the library do not
\* overlap its handles are marked and on different cards: evdi_open_attached_to
\* and evdi_close, however many handles and whatever becomes of the cards.
THEOREM HandlesAlwaysApart == ClientsSpec => []HandlesAreApart
<1>1. ClientsInit => HandlesInv
  BY DEF ClientsInit, HandlesInv, OpenerTypes, MarksAreHandles, Apart, Resting
<1>2. HandlesInv /\ [ClientsNext]_<<registryVars, processVars>> => HandlesInv'
  BY HandlesKeep
<1>3. HandlesInv => HandlesAreApart
  BY DEF HandlesInv, MarksAreHandles, Apart, HandlesAreApart
<1> QED
  BY <1>1, <1>2, <1>3, PTL DEF ClientsSpec

-----------------------------------------------------------------------------
\* How many cards come before one.
Rank(i) == Cardinality({j \in nodes : j < i})

\* Among more than n cards there is one with exactly n before it: the lowest
\* that is not among the first n.  It is the one open_nth takes.
LEMMA PresentHasRank ==
  ASSUME NEW n \in Nat, nodes \in SUBSET Indices, Cardinality(nodes) > n
  PROVE  Present(n) \in nodes /\ Rank(Present(n)) = n
<1> DEFINE first_n == Lowest(n, nodes)
           rest == nodes \ first_n
           Less == {ss \in Nat \X Nat : ss[1] < ss[2]}
<1>1. nodes \in SUBSET Nat /\ IsFiniteSet(nodes)
  BY RegistryAssumption, FS_Subset
<1>2. IsFiniteSet(first_n) /\ Cardinality(first_n) <= n
  BY <1>1, LowestAreFew
<1>3. Cardinality(nodes) \in Nat /\ Cardinality(first_n) \in Nat
  BY <1>1, <1>2, FS_CardinalityType
<1>4. first_n # nodes
  <2> HIDE DEF first_n
  <2> QED
    BY <1>2, <1>3
<1>5. rest # {} /\ rest \subseteq Nat
  <2>1. first_n \subseteq nodes
    BY DEF Lowest
  <2> QED
    BY <1>1, <1>4, <2>1
<1>6. PICK m \in rest : \A k \in rest : ~(<<k, m>> \in Less)
  <2>1. IsWellFoundedOn(Less, Nat)
    BY NatLessThanWellFounded DEF OpToRel
  <2> HIDE DEF rest
  <2> QED
    BY <1>5, <2>1, WFMin
<1>7. m \in nodes /\ m \in Nat /\ ~(Rank(m) < n)
  BY <1>1 DEF Lowest, Rank
<1>8. {j \in nodes : j < m} \in SUBSET first_n
  <2> SUFFICES ASSUME NEW j \in nodes, j < m, j \notin first_n PROVE FALSE
    OBVIOUS
  <2>1. j \in rest /\ <<j, m>> \in Nat \X Nat
    BY <1>1, <1>7
  <2>2. <<j, m>>[1] = j /\ <<j, m>>[2] = m
    OBVIOUS
  <2> HIDE DEF rest
  <2> QED
    BY <1>6, <2>1, <2>2
<1>9. Rank(m) <= Cardinality(first_n) /\ IsFiniteSet({j \in nodes : j < m})
  <2> HIDE DEF first_n
  <2> QED
    BY <1>2, <1>8, FS_Subset DEF Rank
<1>10. Rank(m) \in Nat
  BY <1>9, FS_CardinalityType DEF Rank
<1>11. Rank(m) = n
  <2> HIDE DEF first_n
  <2> QED
    BY <1>2, <1>3, <1>7, <1>9, <1>10
<1>12. \E i \in nodes : Cardinality({j \in nodes : j < i}) = n
  BY <1>7, <1>11 DEF Rank
<1> QED
  BY <1>12 DEF Present, Rank

\* No two cards have as many before them.
LEMMA RankIsOne ==
  ASSUME nodes \in SUBSET Indices, NEW i \in nodes, NEW k \in nodes, Rank(i) = Rank(k)
  PROVE  i = k
<1>1. nodes \in SUBSET Nat /\ IsFiniteSet(nodes)
  BY RegistryAssumption, FS_Subset
<1>2. \A n \in nodes : Rank(n) \in Nat
  <2> SUFFICES ASSUME NEW n \in nodes PROVE Rank(n) \in Nat
    OBVIOUS
  <2>1. IsFiniteSet({j \in nodes : j < n})
    BY <1>1, FS_Subset
  <2> QED
    BY <2>1, FS_CardinalityType DEF Rank
<1>3. CASE i < k
  <2>1. Rank(i) < Rank(k)
    BY <1>1, <1>3, RanksDiffer DEF Rank
  <2> QED
    BY <1>2, <2>1
<1>4. CASE k < i
  <2>1. Rank(k) < Rank(i)
    BY <1>1, <1>4, RanksDiffer DEF Rank
  <2> QED
    BY <1>2, <2>1
<1>5. i \in Nat /\ k \in Nat
  BY <1>1
<1> QED
  BY <1>3, <1>4, <1>5

\* As long as no card has left and none came below another, the card an output
\* was first given is still there and has the position asked for, and the one
\* it has open is that one.
PositionInv ==
  /\ nodes \in SUBSET Indices
  /\ DOMAIN card = Heads /\ DOMAIN first = Heads
  /\ ~shuffled => \A h \in Heads :
       /\ first[h] # -1 => first[h] \in nodes /\ Rank(first[h]) = h
       /\ card[h] # -1 => card[h] = first[h]

\* A watched step of the registry moves no card, or is noticed.
LEMMA WatchedKeeps ==
  ASSUME PositionInv, nodes' \in SUBSET Indices, Watched, UNCHANGED headVars
  PROVE  PositionInv'
<1>1. UNCHANGED <<card, first>>
  BY DEF headVars
<1>2. ASSUME ~shuffled', NEW i \in nodes PROVE i \in nodes' /\ Rank(i)' = Rank(i)
  <2>1. nodes \subseteq nodes' /\ \A k \in nodes' \ nodes, j \in nodes : ~(k < j)
    BY <1>2 DEF Watched
  <2>2. {j \in nodes' : j < i} = {j \in nodes : j < i}
    BY <2>1
  <2> QED
    BY <2>1, <2>2 DEF Rank
<1>3. ~shuffled' => ~shuffled
  BY DEF Watched
<1>4. ASSUME ~shuffled', NEW h \in Heads
      PROVE  /\ first'[h] # -1 => first'[h] \in nodes' /\ Rank(first[h])' = h
             /\ card'[h] # -1 => card'[h] = first'[h]
  <2>1. /\ first[h] # -1 => first[h] \in nodes /\ Rank(first[h]) = h
        /\ card[h] # -1 => card[h] = first[h]
    BY <1>3, <1>4 DEF PositionInv
  <2>2. first[h] \in nodes => first[h] \in nodes' /\ Cardinality({j \in nodes' : j < first[h]}) = Rank(first[h])
    BY <1>2, <1>4 DEF Rank
  <2> QED
    BY <1>1, <2>1, <2>2 DEF Rank
<1> QED
  BY <1>1, <1>4 DEF PositionInv

\* A step that leaves the nodes and the outputs alone.
LEMMA StillKeeps ==
  ASSUME PositionInv, UNCHANGED <<nodes, headVars, shuffled>> PROVE PositionInv'
BY DEF PositionInv, Rank, headVars

\* One turn of open_nth: the card at the position asked for is the one the
\* output had before.
LEMMA OpenNthKeeps ==
  ASSUME PositionInv, NEW h \in Heads, OpenNth(h) PROVE PositionInv'
<1>1. UNCHANGED <<nodes, shuffled>>
  BY DEF OpenNth
<1>2. CASE UNCHANGED <<card, first>>
  BY <1>1, <1>2 DEF PositionInv, Rank
<1>3. CASE /\ Cardinality(nodes) > h
           /\ card' = [card EXCEPT ![h] = NthCard(h)]
           /\ first' = IF first[h] = -1 THEN [first EXCEPT ![h] = NthCard(h)] ELSE first
  <2>1. NthCard(h) \in nodes /\ Rank(NthCard(h)) = h
    BY <1>3, PresentHasRank, ClientsAssumption DEF PositionInv, NthCard
  <2>2. ~shuffled /\ first[h] # -1 => first[h] = NthCard(h)
    BY <2>1, RankIsOne DEF PositionInv
  <2>3. /\ DOMAIN card' = Heads /\ DOMAIN first' = Heads
        /\ card'[h] = NthCard(h)
        /\ first[h] = -1 => first'[h] = NthCard(h)
        /\ first[h] # -1 => first'[h] = first[h]
        /\ \A g \in Heads \ {h} : card'[g] = card[g] /\ first'[g] = first[g]
    BY <1>3 DEF PositionInv
  <2>4. ASSUME ~shuffled, NEW g \in Heads
        PROVE  /\ first'[g] # -1 => first'[g] \in nodes /\ Rank(first'[g]) = g
               /\ card'[g] # -1 => card'[g] = first'[g]
    <3>1. CASE g = h
      BY <2>1, <2>2, <2>3, <2>4, <3>1 DEF PositionInv
    <3>2. CASE g # h
      BY <2>3, <2>4, <3>2 DEF PositionInv
    <3> QED
      BY <3>1, <3>2
  <2> QED
    BY <1>1, <2>3, <2>4 DEF PositionInv, Rank
<1> QED
  BY <1>2, <1>3 DEF OpenNth

\* Every step keeps the positions.
LEMMA PositionsKeep ==
  ASSUME PositionInv, [ClientsNext]_<<registryVars, processVars>>
  PROVE  PositionInv'
<1>1. CASE UNCHANGED <<nodes, headVars, shuffled>>
  BY <1>1, StillKeeps
<1>2. CASE Registry
  <2>1. nodes' \in SUBSET Indices
    BY <1>2 DEF Registry, RegistryStep, StoreAdd, Unplug, Plug, RemoveUsb, RemoveAll, DropEntries,
                NodeAppears, PositionInv
  <2> QED
    BY <1>2, <2>1, WatchedKeeps DEF Registry
<1>3. ASSUME NEW o \in Openers, WriteUsb(o) PROVE PositionInv'
  <2>1. WriterStep(o, Held) \/ UNCHANGED registryVars
    BY <1>3 DEF WriteUsb
  <2>2. nodes' \in SUBSET Indices
    BY <2>1 DEF WriterStep, UsbFind, UsbMake, UsbLink, UsbList, UsbDrop, registryVars, PositionInv
  <2> QED
    BY <1>3, <2>2, WatchedKeeps DEF WriteUsb
<1>4. ASSUME NEW o \in Openers,
             \/ \E p \in Parents : OpenAttachedTo(o, p)
             \/ FirstSearch(o) \/ WriteGeneric(o) \/ SecondSearch(o)
             \/ OpenDevice(o) \/ MarkInUse(o) \/ CloseFile(o) \/ ClearMark(o)
      PROVE  PositionInv'
  BY <1>1, <1>4 DEF OpenAttachedTo, FirstSearch, SecondSearch, Search, WriteGeneric, OpenDevice,
                    MarkInUse, CloseFile, ClearMark, registryVars
<1>5. ASSUME NEW h \in Heads, CloseCard(h) PROVE PositionInv'
  <2>1. /\ UNCHANGED <<nodes, first, shuffled>>
        /\ card' = [card EXCEPT ![h] = -1]
    BY <1>5 DEF CloseCard, registryVars
  <2> QED
    BY <2>1 DEF PositionInv, Rank
<1>6. CASE UNCHANGED <<registryVars, processVars>>
  BY <1>1, <1>6 DEF registryVars, processVars
<1> QED
  BY <1>2, <1>3, <1>4, <1>5, <1>6, OpenNthKeeps DEF ClientsNext

\* Outputs that ask by position each have a card of their own, and keep it over
\* a reconnect, until a card leaves or a node comes below another: open_nth,
\* for any number of outputs and cards.
THEOREM EachAlwaysItsOwnCard == ClientsSpec => []EachItsOwnCard
<1>1. ClientsInit => PositionInv
  BY DEF ClientsInit, RegistryInit, PositionInv
<1>2. PositionInv /\ [ClientsNext]_<<registryVars, processVars>> => PositionInv'
  BY PositionsKeep
<1>3. PositionInv => EachItsOwnCard
  <2> SUFFICES ASSUME PositionInv, ~shuffled, NEW h \in Heads, card[h] # -1
               PROVE  card[h] = first[h] /\ \A g \in Heads \ {h} : card[g] # card[h]
    BY DEF EachItsOwnCard
  <2>1. card[h] = first[h] /\ first[h] # -1 /\ Rank(first[h]) = h
    BY DEF PositionInv
  <2>2. ASSUME NEW g \in Heads, card[g] = card[h] PROVE g = h
    <3>1. card[g] = first[g] /\ first[g] # -1 /\ Rank(first[g]) = g
      BY <2>2 DEF PositionInv
    <3> QED
      BY <2>1, <2>2, <3>1
  <2> QED
    BY <2>1, <2>2
<1> QED
  BY <1>1, <1>2, <1>3, PTL DEF ClientsSpec
=============================================================================
