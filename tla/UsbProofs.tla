------------------------------ MODULE UsbProofs -----------------------------
(***************************************************************************)
(* UsbTransport, for every window, frame and number of posted reads: what  *)
(* the pipelined write reports is what reached the dock, it frees nothing  *)
(* that libusb still owns, and recv returns the dock's replies in order.   *)
(***************************************************************************)
EXTENDS UsbTransport, TLAPS

\* The provers every leaf that names none is given, and their seconds.
USE ZenonT(10), SMTT(30)

\* The calls of the host thread, inside a write and outside of one.
Writing == {"prime", "reap", "drain"}
NotWriting == {"idle", "recv", "closing", "closed"}

WriteTypes ==
  /\ pc \in Writing \cup NotWriting
  /\ chunks \in Nat /\ submitted \in Nat /\ reaped \in Nat /\ next = submitted
  /\ err \in Errors
  /\ outQueue \in Seq(Nat) /\ wire \in Seq(Nat)
  /\ outDone \in Seq(Statuses) /\ completions \in Seq(Statuses)

\* A transfer submitted and not reaped is in one of the three queues.
Accounted ==
  /\ submitted <= chunks
  /\ Len(outQueue) + Len(outDone) + Len(completions) + reaped = submitted

AllWhole(statuses) == \A i \in 1..Len(statuses) : statuses[i] = "completed"

\* As long as no chunk has failed, those that were submitted are on the wire
\* or queued behind it, in order.
Unbroken ==
  err = NoError /\ AllWhole(outDone) /\ AllWhole(completions) =>
    /\ Len(wire) + Len(outQueue) = submitted
    /\ \A i \in 1..Len(wire) : wire[i] = i
    /\ \A i \in 1..Len(outQueue) : outQueue[i] = Len(wire) + i

\* A write without an error has a chunk out until it has submitted the last,
\* so its loop cannot end before; after the loop all are reaped.
Progress ==
  /\ pc = "prime" => reaped = 0 /\ chunks > 0
  /\ pc = "reap" /\ err = NoError => submitted = chunks \/ reaped < submitted
  /\ pc = "drain" /\ err = NoError => submitted = chunks /\ reaped = submitted
  /\ pc \in NotWriting => reaped = submitted
  /\ pc \in NotWriting /\ err = NoError => submitted = chunks

WriteInv == WriteTypes /\ Accounted /\ Unbroken /\ Progress

\* Between writes every queue is empty, as every transfer was reaped.
LEMMA AllReaped == WriteInv /\ reaped = submitted =>
                     outQueue = <<>> /\ outDone = <<>> /\ completions = <<>>
<1> SUFFICES ASSUME WriteInv, reaped = submitted
             PROVE  outQueue = <<>> /\ outDone = <<>> /\ completions = <<>>
  OBVIOUS
<1>1. Len(outQueue) \in Nat /\ Len(outDone) \in Nat /\ Len(completions) \in Nat
  BY DEF WriteInv, WriteTypes
<1>2. Len(outQueue) = 0 /\ Len(outDone) = 0 /\ Len(completions) = 0
  BY <1>1 DEF WriteInv, WriteTypes, Accounted
<1> QED
  BY <1>2 DEF WriteInv, WriteTypes

\* A status appended to a queue, and one taken from it.
LEMMA WholeAppend ==
  ASSUME NEW q \in Seq(Statuses), NEW st \in Statuses, AllWhole(Append(q, st))
  PROVE  AllWhole(q) /\ st = "completed"
<1>1. /\ Append(q, st) \in Seq(Statuses) /\ Len(Append(q, st)) = Len(q) + 1
      /\ Append(q, st)[Len(q) + 1] = st
      /\ \A i \in 1..Len(q) : Append(q, st)[i] = q[i]
  OBVIOUS
<1>2. Len(q) \in Nat
  OBVIOUS
<1> QED
  BY <1>1, <1>2 DEF AllWhole

LEMMA WholeTail ==
  ASSUME NEW q \in Seq(Statuses), q # <<>>, AllWhole(Tail(q)), Head(q) = "completed"
  PROVE  AllWhole(q)
<1>1. /\ Len(q) \in Nat /\ Len(q) > 0 /\ Len(Tail(q)) = Len(q) - 1
      /\ \A i \in 1..Len(q) - 1 : Tail(q)[i] = q[i + 1]
      /\ Head(q) = q[1]
  OBVIOUS
<1> SUFFICES ASSUME NEW i \in 1..Len(q) PROVE q[i] = "completed"
  BY DEF AllWhole
<1>2. CASE i = 1
  BY <1>1, <1>2
<1>3. CASE i > 1
  <2>1. i - 1 \in 1..Len(q) - 1 /\ q[i] = Tail(q)[i - 1]
    BY <1>1, <1>3
  <2> QED
    BY <1>1, <2>1 DEF AllWhole
<1> QED
  BY <1>2, <1>3

\* The kernel finishes the transfer at the head of the endpoint's queue.
LEMMA TakesKeeps == WriteInv /\ DockTakesChunk => WriteInv'
<1> SUFFICES ASSUME WriteInv, DockTakesChunk PROVE WriteInv'
  OBVIOUS
<1>1. PICK st \in Statuses :
        /\ outDone' = Append(outDone, st)
        /\ wire' = IF st = "completed" THEN Append(wire, Head(outQueue)) ELSE wire
  BY DEF DockTakesChunk, Statuses
<1>2. /\ outQueue # <<>> /\ outQueue' = Tail(outQueue)
      /\ UNCHANGED <<pc, chunks, next, submitted, reaped, err, completions>>
  BY DEF DockTakesChunk
<1>3. /\ outQueue \in Seq(Nat) /\ wire \in Seq(Nat) /\ outDone \in Seq(Statuses)
      /\ completions \in Seq(Statuses) /\ chunks \in Nat /\ submitted \in Nat /\ reaped \in Nat
  BY DEF WriteInv, WriteTypes
<1>4. /\ Len(outQueue) \in Nat /\ Len(outQueue) > 0 /\ Head(outQueue) = outQueue[1]
      /\ Head(outQueue) \in Nat /\ Tail(outQueue) \in Seq(Nat)
      /\ Len(Tail(outQueue)) = Len(outQueue) - 1
      /\ \A i \in 1..Len(outQueue) - 1 : Tail(outQueue)[i] = outQueue[i + 1]
  BY <1>2, <1>3
<1>5. /\ outDone' \in Seq(Statuses) /\ Len(outDone') = Len(outDone) + 1
      /\ Len(outDone) \in Nat /\ Len(completions) \in Nat /\ Len(wire) \in Nat
  BY <1>1, <1>3
<1>6. wire' \in Seq(Nat)
  BY <1>1, <1>3, <1>4
<1>7. WriteTypes'
  BY <1>2, <1>4, <1>5, <1>6 DEF WriteInv, WriteTypes
<1>8. Accounted'
  <2>1. Len(outQueue) + Len(outDone) + Len(completions) + reaped = submitted /\ submitted <= chunks
    BY DEF WriteInv, Accounted
  <2>2. Len(outQueue') = Len(outQueue) - 1 /\ Len(completions') = Len(completions)
    BY <1>2, <1>4
  <2>4. /\ Len(outQueue) \in Nat /\ Len(outDone) \in Nat /\ Len(completions) \in Nat
        /\ reaped \in Nat /\ submitted \in Nat /\ Len(outDone') = Len(outDone) + 1
    BY <1>3, <1>4, <1>5
  <2>3. Len(outQueue') + Len(outDone') + Len(completions') + reaped = submitted
    BY <2>1, <2>2, <2>4
  <2> QED
    BY <1>2, <2>1, <2>3 DEF Accounted
<1>9. Unbroken'
  <2> SUFFICES ASSUME err = NoError, AllWhole(outDone'), AllWhole(completions)
               PROVE  /\ Len(wire') + Len(outQueue') = submitted
                      /\ \A i \in 1..Len(wire') : wire'[i] = i
                      /\ \A i \in 1..Len(outQueue') : outQueue'[i] = Len(wire') + i
    BY <1>2 DEF Unbroken
  <2>1. AllWhole(outDone) /\ st = "completed"
    BY <1>1, <1>3, WholeAppend
  <2>2. /\ Len(wire) + Len(outQueue) = submitted
        /\ \A i \in 1..Len(wire) : wire[i] = i
        /\ \A i \in 1..Len(outQueue) : outQueue[i] = Len(wire) + i
    BY <2>1 DEF WriteInv, Unbroken
  <2>3. /\ Len(wire') = Len(wire) + 1 /\ wire'[Len(wire) + 1] = outQueue[1]
        /\ \A i \in 1..Len(wire) : wire'[i] = wire[i]
    BY <1>1, <1>3, <1>4, <2>1
  <2>4. outQueue[1] = Len(wire) + 1
    BY <1>4, <1>5, <2>2
  <2>5. \A i \in 1..Len(wire') : wire'[i] = i
    BY <1>5, <2>2, <2>3, <2>4
  <2>6. \A i \in 1..Len(outQueue') : outQueue'[i] = Len(wire') + i
    BY <1>2, <1>4, <1>5, <2>2, <2>3
  <2> QED
    BY <1>2, <1>4, <1>5, <2>2, <2>3, <2>5, <2>6
<1>10. Progress'
  BY <1>2 DEF WriteInv, Progress
<1> QED
  BY <1>7, <1>8, <1>9, <1>10 DEF WriteInv

\* out_complete moves a status from one queue to the next.
LEMMA PumpKeeps == WriteInv /\ PumpWrites => WriteInv'
<1> SUFFICES ASSUME WriteInv, PumpWrites PROVE WriteInv'
  OBVIOUS
<1>1. /\ outDone # <<>> /\ completions' = Append(completions, Head(outDone)) /\ outDone' = Tail(outDone)
      /\ UNCHANGED <<pc, chunks, next, submitted, reaped, err, outQueue, wire>>
  BY DEF PumpWrites, WriteCompletes
<1>2. /\ outDone \in Seq(Statuses) /\ completions \in Seq(Statuses) /\ outQueue \in Seq(Nat)
      /\ chunks \in Nat /\ submitted \in Nat /\ reaped \in Nat
  BY DEF WriteInv, WriteTypes
<1>3. /\ Head(outDone) \in Statuses /\ outDone' \in Seq(Statuses) /\ completions' \in Seq(Statuses)
      /\ Len(outDone) \in Nat /\ Len(completions) \in Nat /\ Len(outQueue) \in Nat
      /\ Len(outDone') = Len(outDone) - 1 /\ Len(completions') = Len(completions) + 1
  BY <1>1, <1>2
<1>4. WriteTypes'
  BY <1>1, <1>3 DEF WriteInv, WriteTypes
<1>5. Accounted'
  <2>1. Len(outQueue) + Len(outDone) + Len(completions) + reaped = submitted /\ submitted <= chunks
    BY DEF WriteInv, Accounted
  <2>2. /\ Len(outQueue) \in Nat /\ Len(outDone) \in Nat /\ Len(completions) \in Nat
        /\ reaped \in Nat /\ submitted \in Nat /\ Len(outDone') = Len(outDone) - 1
        /\ Len(completions') = Len(completions) + 1
    BY <1>2, <1>3
  <2>3. Len(outQueue) + Len(outDone') + Len(completions') + reaped = submitted
    BY <2>1, <2>2
  <2> QED
    BY <1>1, <2>1, <2>3 DEF Accounted
<1>6. AllWhole(outDone') /\ AllWhole(completions') => AllWhole(outDone) /\ AllWhole(completions)
  BY <1>1, <1>2, <1>3, WholeAppend, WholeTail
<1>7. Unbroken'
  BY <1>1, <1>6 DEF WriteInv, Unbroken
<1>8. Progress'
  BY <1>1 DEF WriteInv, Progress
<1> QED
  BY <1>4, <1>5, <1>7, <1>8 DEF WriteInv

\* A write begins with its queues empty.
LEMMA StartKeeps ==
  ASSUME NEW n \in Nat, WriteInv, Start(n)
  PROVE  WriteInv'
<1>1. /\ pc = "idle" /\ chunks' = n /\ next' = 0 /\ submitted' = 0 /\ reaped' = 0
      /\ err' = NoError /\ wire' = <<>> /\ pc' = IF n = 0 THEN "idle" ELSE "prime"
      /\ UNCHANGED <<outQueue, outDone, completions>>
  BY DEF Start
<1>2. reaped = submitted
  BY <1>1 DEF WriteInv, Progress, NotWriting
<1>3. outQueue' = <<>> /\ outDone' = <<>> /\ completions' = <<>>
  BY <1>1, <1>2, AllReaped
<1>4. <<>> \in Seq(Nat) /\ <<>> \in Seq(Statuses)
  OBVIOUS
<1>5. WriteTypes'
  BY <1>1, <1>3, <1>4 DEF WriteTypes, Writing, NotWriting, Errors
<1>6. Accounted' /\ Unbroken'
  BY <1>1, <1>3 DEF Accounted, Unbroken
<1>7. Progress'
  BY <1>1 DEF Progress, NotWriting
<1> QED
  BY <1>5, <1>6, <1>7 DEF WriteInv

\* libusb takes the next chunk, or refuses it.
LEMMA SubmitKeeps ==
  ASSUME WriteTypes, Unbroken, Submit, UNCHANGED <<chunks, outDone, wire>>,
         AllWhole(completions') /\ err' = NoError => AllWhole(completions)
  PROVE  Unbroken'
<1>1. CASE err' = "Other"
  BY <1>1 DEF Unbroken, NoError
<1>2. CASE /\ outQueue' = Append(outQueue, next + 1)
           /\ submitted' = submitted + 1 /\ next' = next + 1 /\ UNCHANGED err
  <2> SUFFICES ASSUME err' = NoError, AllWhole(outDone), AllWhole(completions')
               PROVE  /\ Len(wire) + Len(outQueue') = submitted + 1
                      /\ \A i \in 1..Len(wire) : wire[i] = i
                      /\ \A i \in 1..Len(outQueue') : outQueue'[i] = Len(wire) + i
    BY <1>2 DEF Unbroken
  <2>1. /\ Len(wire) + Len(outQueue) = submitted
        /\ \A i \in 1..Len(wire) : wire[i] = i
        /\ \A i \in 1..Len(outQueue) : outQueue[i] = Len(wire) + i
    BY <1>2 DEF Unbroken
  <2>2. next = submitted /\ submitted \in Nat /\ outQueue \in Seq(Nat) /\ wire \in Seq(Nat)
    BY DEF WriteTypes
  <2>3. /\ Len(outQueue') = Len(outQueue) + 1 /\ outQueue'[Len(outQueue) + 1] = submitted + 1
        /\ \A i \in 1..Len(outQueue) : outQueue'[i] = outQueue[i]
        /\ Len(outQueue) \in Nat /\ Len(wire) \in Nat
    BY <1>2, <2>2
  <2>4. Len(wire) + Len(outQueue') = submitted + 1
    <3>1. Len(outQueue') = Len(outQueue) + 1 /\ Len(outQueue) \in Nat /\ Len(wire) \in Nat
      BY <2>3
    <3> QED
      BY <2>1, <3>1
  <2>5. \A i \in 1..Len(outQueue') : outQueue'[i] = Len(wire) + i
    <3> SUFFICES ASSUME NEW i \in 1..Len(outQueue') PROVE outQueue'[i] = Len(wire) + i
      OBVIOUS
    <3>1. CASE i \in 1..Len(outQueue)
      BY <2>1, <2>3, <3>1
    <3>2. CASE i = Len(outQueue) + 1
      <4>1. outQueue'[i] = submitted + 1
        BY <2>3, <3>2
      <4>2. Len(wire) \in Nat /\ Len(outQueue) \in Nat /\ Len(wire) + Len(outQueue) = submitted
        BY <2>1, <2>3
      <4> QED
        BY <3>2, <4>1, <4>2
    <3>3. Len(outQueue') = Len(outQueue) + 1 /\ Len(outQueue) \in Nat
      BY <2>3
    <3> QED
      BY <3>1, <3>2, <3>3
  <2> QED
    BY <2>1, <2>4, <2>5
<1> QED
  BY <1>1, <1>2 DEF Submit

\* What Submit does to the types and the count of what is out.
LEMMA SubmitCounts ==
  ASSUME WriteInv, Submit, next < chunks
  PROVE  /\ outQueue' \in Seq(Nat) /\ submitted' \in Nat /\ next' = submitted' /\ err' \in Errors
         /\ Len(outQueue') - submitted' = Len(outQueue) - submitted
         /\ submitted' <= chunks
         /\ err' = NoError => submitted' = submitted + 1
<1>1. /\ outQueue \in Seq(Nat) /\ submitted \in Nat /\ next = submitted /\ err \in Errors
      /\ submitted <= chunks /\ chunks \in Nat /\ Len(outQueue) \in Nat
  BY DEF WriteInv, WriteTypes, Accounted
<1>2. CASE err' = "Other" /\ UNCHANGED <<outQueue, submitted, next>>
  BY <1>1, <1>2 DEF Errors, NoError
<1>3. CASE /\ outQueue' = Append(outQueue, next + 1)
           /\ submitted' = submitted + 1 /\ next' = next + 1 /\ UNCHANGED err
  <2>1. outQueue' \in Seq(Nat) /\ Len(outQueue') = Len(outQueue) + 1
    BY <1>1, <1>3
  <2> QED
    BY <1>1, <1>3, <2>1
<1> QED
  BY <1>2, <1>3 DEF Submit

\* The window is primed.
LEMMA PrimeKeeps == WriteInv /\ Prime => WriteInv'
<1> SUFFICES ASSUME WriteInv, Prime PROVE WriteInv'
  OBVIOUS
<1>1. pc = "prime" /\ UNCHANGED <<chunks, reaped, outDone, completions, wire>>
  BY DEF Prime
<1>2. /\ chunks \in Nat /\ submitted \in Nat /\ next = submitted /\ reaped = 0 /\ chunks > 0
      /\ submitted <= chunks
  BY <1>1 DEF WriteInv, WriteTypes, Accounted, Progress
<1>3. Depth \in Nat /\ Depth > 0 /\ Depth <= chunks
  BY <1>2, DepthsAssumption DEF Depth
<1>4. CASE next < Depth /\ err = NoError
  <2>1. Submit /\ UNCHANGED pc /\ next < chunks
    BY <1>2, <1>3, <1>4 DEF Prime
  <2>2. /\ outQueue' \in Seq(Nat) /\ submitted' \in Nat /\ next' = submitted' /\ err' \in Errors
        /\ Len(outQueue') - submitted' = Len(outQueue) - submitted /\ submitted' <= chunks
    BY <2>1, SubmitCounts
  <2>3. WriteTypes'
    BY <1>1, <2>1, <2>2 DEF WriteInv, WriteTypes
  <2>4. Accounted'
    <3>1. Len(outQueue) + Len(outDone) + Len(completions) + reaped = submitted
      BY DEF WriteInv, Accounted
    <3>2. /\ Len(outQueue) \in Nat /\ Len(outDone) \in Nat /\ Len(completions) \in Nat /\ reaped \in Nat
          /\ Len(outQueue') \in Nat /\ submitted \in Nat /\ submitted' \in Nat
      BY <2>2 DEF WriteInv, WriteTypes
    <3>3. Len(outQueue') + Len(outDone) + Len(completions) + reaped = submitted'
      BY <2>2, <3>1, <3>2
    <3> QED
      BY <1>1, <2>2, <3>3 DEF Accounted
  <2>5. Unbroken'
    BY <1>1, <2>1, SubmitKeeps DEF WriteInv
  <2>6. Progress'
    BY <1>1, <1>2, <2>1 DEF Progress, NotWriting
  <2> QED
    BY <2>3, <2>4, <2>5, <2>6 DEF WriteInv
<1>5. CASE ~(next < Depth /\ err = NoError)
  <2>1. pc' = "reap" /\ UNCHANGED <<outQueue, submitted, next, err>>
    BY <1>5 DEF Prime
  <2>2. WriteTypes' /\ Accounted' /\ Unbroken'
    BY <1>1, <2>1 DEF WriteInv, WriteTypes, Accounted, Unbroken, Writing
  <2>3. err = NoError => reaped < submitted
    BY <1>2, <1>3, <1>5
  <2>4. Progress'
    BY <1>1, <2>1, <2>3 DEF Progress, NotWriting
  <2> QED
    BY <2>2, <2>4 DEF WriteInv
<1> QED
  BY <1>4, <1>5

\* One completion is taken from the queue: its types and its count.
LEMMA TakenCounts ==
  ASSUME WriteInv, completions # <<>>, completions' = Tail(completions), reaped' = reaped + 1
  PROVE  /\ Head(completions) \in Statuses /\ completions' \in Seq(Statuses) /\ reaped' \in Nat
         /\ Len(outQueue) \in Nat /\ Len(outDone) \in Nat /\ Len(completions') \in Nat
         /\ Len(outQueue) + Len(outDone) + Len(completions') + reaped' = submitted
<1>1. /\ completions \in Seq(Statuses) /\ reaped \in Nat /\ submitted \in Nat
      /\ Len(outQueue) \in Nat /\ Len(outDone) \in Nat
  BY DEF WriteInv, WriteTypes
<1>2. /\ Head(completions) \in Statuses /\ completions' \in Seq(Statuses)
      /\ Len(completions) \in Nat /\ Len(completions') = Len(completions) - 1
      /\ Len(completions') \in Nat
  BY <1>1
<1>3. Len(outQueue) + Len(outDone) + Len(completions) + reaped = submitted
  BY DEF WriteInv, Accounted
<1>4. Len(outQueue) + Len(outDone) + Len(completions') + reaped' = submitted
  <2>1. Len(completions') = Len(completions) - 1 /\ Len(completions) \in Nat
    BY <1>2
  <2> QED
    BY <1>1, <1>3, <2>1
<1> QED
  BY <1>1, <1>2, <1>4

\* A completion is reaped: it ends the write in error, or the next chunk goes
\* out in its place.
LEMMA ReapKeeps == WriteInv /\ Reap => WriteInv'
<1> SUFFICES ASSUME WriteInv, Reap PROVE WriteInv'
  OBVIOUS
<1>1. /\ pc = "reap" /\ reaped < submitted /\ completions # <<>>
      /\ completions' = Tail(completions) /\ reaped' = reaped + 1
      /\ UNCHANGED <<pc, chunks, outDone, wire>>
  BY DEF Reap
<1>2. /\ Head(completions) \in Statuses /\ completions' \in Seq(Statuses) /\ reaped' \in Nat
      /\ Len(outQueue) \in Nat /\ Len(outDone) \in Nat /\ Len(completions') \in Nat
      /\ Len(outQueue) + Len(outDone) + Len(completions') + reaped' = submitted
  BY <1>1, TakenCounts
<1>3. /\ chunks \in Nat /\ submitted \in Nat /\ reaped \in Nat /\ next = submitted
      /\ submitted <= chunks /\ err \in Errors /\ completions \in Seq(Statuses)
  BY DEF WriteInv, WriteTypes, Accounted
<1>4. CASE Fails(Head(completions))
  <2>1. UNCHANGED <<outQueue, submitted, next>> /\ err' \in Errors /\ err' # NoError
    BY <1>3, <1>4 DEF Reap, StatusToErr, Errors, NoError
  <2>2. WriteTypes'
    BY <1>1, <1>2, <2>1 DEF WriteInv, WriteTypes
  <2>3. Accounted'
    BY <1>1, <1>2, <1>3, <2>1 DEF Accounted
  <2>4. Unbroken' /\ Progress'
    BY <1>1, <2>1 DEF Unbroken, Progress, NotWriting
  <2> QED
    BY <2>2, <2>3, <2>4 DEF WriteInv
<1>5. CASE ~Fails(Head(completions))
  <2>1. AllWhole(completions') => AllWhole(completions)
    BY <1>1, <1>3, <1>5, WholeTail DEF Fails
  <2>2. CASE SubmitsAhead
    <3>1. Submit /\ err = NoError /\ next < chunks
      BY <1>5, <2>2 DEF Reap, SubmitsAhead
    <3>2. /\ outQueue' \in Seq(Nat) /\ submitted' \in Nat /\ next' = submitted' /\ err' \in Errors
          /\ Len(outQueue') - submitted' = Len(outQueue) - submitted /\ submitted' <= chunks
          /\ err' = NoError => submitted' = submitted + 1
      BY <3>1, SubmitCounts
    <3>3. WriteTypes'
      BY <1>1, <1>2, <3>2 DEF WriteInv, WriteTypes
    <3>4. Accounted'
      <4> DEFINE queued == Len(outQueue)
                 queuedNow == Len(outQueue')
                 rest == Len(outDone) + Len(completions') + reaped'
                 submittedNow == submitted'
      <4>1. queuedNow \in Nat /\ submittedNow \in Nat
        BY <3>2
      <4>2. queued \in Nat /\ rest \in Nat /\ submitted \in Nat
        BY <1>2, <1>3
      <4>3. queuedNow - submittedNow = queued - submitted
        BY <3>2
      <4>4. queued + rest = submitted
        BY <1>2, <1>3
      <4>5. queuedNow + rest = submittedNow
        <5> HIDE DEF queued, queuedNow, rest, submittedNow
        <5> QED
          BY <4>1, <4>2, <4>3, <4>4
      <4>6. Len(outQueue') + Len(outDone) + Len(completions') + reaped' = submitted'
        BY <1>2, <1>3, <4>1, <4>5
      <4> QED
        BY <1>1, <3>2, <4>6 DEF Accounted
    <3>5. Unbroken'
      BY <1>1, <2>1, <3>1, SubmitKeeps DEF WriteInv
    <3>6. err' = NoError => reaped' < submitted'
      BY <1>1, <1>3, <3>2
    <3>7. Progress'
      BY <1>1, <3>6 DEF Progress, NotWriting
    <3> QED
      BY <3>3, <3>4, <3>5, <3>7 DEF WriteInv
  <2>3. CASE ~SubmitsAhead
    <3>1. UNCHANGED <<outQueue, submitted, next, err>>
      BY <1>5, <2>3 DEF Reap
    <3>2. WriteTypes'
      BY <1>1, <1>2, <3>1 DEF WriteInv, WriteTypes
    <3>3. Accounted'
      BY <1>1, <1>2, <1>3, <3>1 DEF Accounted
    <3>4. Unbroken'
      BY <1>1, <2>1, <3>1 DEF WriteInv, Unbroken
    <3>5. err = NoError => submitted = chunks
      BY <1>3, <2>3 DEF SubmitsAhead
    <3>6. Progress'
      BY <1>1, <3>1, <3>5 DEF Progress, NotWriting
    <3> QED
      BY <3>2, <3>3, <3>4, <3>6 DEF WriteInv
  <2> QED
    BY <2>2, <2>3
<1> QED
  BY <1>4, <1>5

\* The loop ends, what is left is drained, and the call returns.
LEMMA EndKeeps == WriteInv /\ (ReapEnds \/ Drain \/ Return) => WriteInv'
<1> SUFFICES ASSUME WriteInv, ReapEnds \/ Drain \/ Return PROVE WriteInv'
  OBVIOUS
<1>1. submitted \in Nat /\ reaped \in Nat /\ err \in Errors
  BY DEF WriteInv, WriteTypes
<1>2. CASE ReapEnds
  <2>1. /\ pc = "reap" /\ pc' = "drain"
        /\ UNCHANGED <<chunks, next, submitted, reaped, outQueue, outDone, completions, wire>>
    BY <1>2 DEF ReapEnds
  <2>2. /\ err' \in Errors
        /\ err' = NoError => err = NoError
        /\ err' = NoError => reaped = submitted
    BY <1>1, <1>2 DEF ReapEnds, Errors, NoError
  <2>3. WriteTypes'
    BY <2>1, <2>2 DEF WriteInv, WriteTypes, Writing
  <2>4. Accounted' /\ Unbroken'
    BY <2>1, <2>2 DEF WriteInv, Accounted, Unbroken
  <2>5. err' = NoError => submitted = chunks
    BY <1>1, <2>1, <2>2 DEF WriteInv, Progress
  <2>6. Progress'
    BY <2>1, <2>2, <2>5 DEF Progress, NotWriting
  <2> QED
    BY <2>3, <2>4, <2>6 DEF WriteInv
<1>3. CASE Drain
  <2>1. /\ pc = "drain" /\ reaped # submitted /\ completions # <<>>
        /\ completions' = Tail(completions) /\ reaped' = reaped + 1
        /\ UNCHANGED <<pc, chunks, next, submitted, err, outQueue, outDone, wire>>
    BY <1>3 DEF Drain, Drained
  <2>2. /\ completions' \in Seq(Statuses) /\ reaped' \in Nat
        /\ Len(outQueue) + Len(outDone) + Len(completions') + reaped' = submitted
    BY <2>1, TakenCounts
  <2>3. err # NoError
    BY <2>1 DEF WriteInv, Progress
  <2>4. WriteTypes'
    BY <2>1, <2>2 DEF WriteInv, WriteTypes
  <2>5. Accounted'
    BY <2>1, <2>2 DEF WriteInv, Accounted
  <2>6. Unbroken' /\ Progress'
    BY <2>1, <2>3 DEF Unbroken, Progress, NotWriting
  <2> QED
    BY <2>4, <2>5, <2>6 DEF WriteInv
<1>4. CASE Return
  <2>1. pc = "drain" /\ reaped = submitted /\ pc' = "idle" /\ UNCHANGED writeVars
    BY <1>4 DEF Return, Drained
  <2>2. WriteTypes' /\ Accounted' /\ Unbroken'
    BY <2>1 DEF WriteInv, WriteTypes, Accounted, Unbroken, NotWriting, writeVars
  <2>3. Progress'
    BY <2>1 DEF WriteInv, Progress, writeVars
  <2> QED
    BY <2>2, <2>3 DEF WriteInv
<1> QED
  BY <1>2, <1>3, <1>4

\* Outside of a write nothing touches what the last one left.
LEMMA RestKeeps ==
  ASSUME WriteInv, UNCHANGED writeVars,
         pc' = pc \/ (pc \in NotWriting /\ pc' \in NotWriting)
  PROVE  WriteInv'
<1>1. WriteTypes'
  BY DEF WriteInv, WriteTypes, writeVars
<1>2. Accounted' /\ Unbroken'
  BY DEF WriteInv, Accounted, Unbroken, writeVars
<1>3. Progress'
  BY DEF WriteInv, Progress, NotWriting, writeVars
<1> QED
  BY <1>1, <1>2, <1>3 DEF WriteInv

\* The inductive invariant of the pipelined write (pipeline_out,
\* write_ctrl_raw_async, out_complete).
LEMMA WriteInvariant == Spec => []WriteInv
<1>1. Init => WriteInv
  <2> SUFFICES ASSUME Init PROVE WriteInv
    OBVIOUS
  <2>1. <<>> \in Seq(Nat) /\ <<>> \in Seq(Statuses)
    OBVIOUS
  <2>2. WriteTypes
    BY <2>1 DEF Init, WriteTypes, NotWriting, Errors
  <2>3. Accounted /\ Unbroken
    BY DEF Init, Accounted, Unbroken
  <2>4. Progress
    BY DEF Init, Progress, NotWriting
  <2> QED
    BY <2>2, <2>3, <2>4 DEF WriteInv
<1>2. WriteInv /\ [Next]_vars => WriteInv'
  <2> SUFFICES ASSUME WriteInv, [Next]_vars PROVE WriteInv'
    OBVIOUS
  <2>1. CASE DockTakesChunk
    BY <2>1, TakesKeeps
  <2>2. CASE PumpWrites
    BY <2>2, PumpKeeps
  <2>3. CASE WriteVideoFrame \/ WriteCtrlRawAsync
    <3>1. PICK n \in Nat : Start(n)
      BY <2>3, DepthsAssumption DEF WriteVideoFrame, WriteCtrlRawAsync
    <3> QED
      BY <3>1, StartKeeps
  <2>4. CASE WriteStep
    BY <2>4, PrimeKeeps, ReapKeeps, EndKeeps DEF WriteStep
  <2>5. CASE DockReplies \/ ReadEnds \/ DeviceGoes \/ PumpReads
    BY <2>5, RestKeeps DEF DockReplies, ReadEnds, DeviceGoes, PumpReads
  <2>6. CASE RecvFrame \/ RecvStep \/ Drop \/ DropEnds
    <3>1. UNCHANGED writeVars /\ pc \in NotWriting /\ pc' \in NotWriting
      BY <2>6 DEF RecvFrame, RecvStep, RecvReply, RecvDisconnected, RecvTimeout, RecvReturns, Drop,
                  DropEnds, NotWriting
    <3> QED
      BY <3>1, RestKeeps
  <2>7. CASE UNCHANGED vars
    BY <2>7, RestKeeps DEF vars
  <2> QED
    BY <2>1, <2>2, <2>3, <2>4, <2>5, <2>6, <2>7 DEF Next, External, PumpNothing, Closed
<1> QED
  BY <1>1, <1>2, PTL DEF Spec

\* A write that returned Ok put every chunk on the wire, whole, once and in
\* order, for every window and frame (pipeline_out).
THEOREM OkAlwaysMeansWholeFrame == Spec => []OkMeansWholeFrame
<1>1. WriteInv => OkMeansWholeFrame
  <2> SUFFICES ASSUME WriteInv, pc = "idle", err = NoError PROVE wire = Iota(chunks)
    BY DEF OkMeansWholeFrame
  <2>1. reaped = submitted /\ submitted = chunks
    BY DEF WriteInv, Progress, NotWriting
  <2>2. outQueue = <<>> /\ outDone = <<>> /\ completions = <<>>
    BY <2>1, AllReaped
  <2>3. AllWhole(outDone) /\ AllWhole(completions)
    BY <2>2 DEF AllWhole
  <2>4. Len(wire) + Len(outQueue) = submitted /\ \A i \in 1..Len(wire) : wire[i] = i
    BY <2>3 DEF WriteInv, Unbroken
  <2>5. wire \in Seq(Nat) /\ Len(wire) = chunks
    BY <2>1, <2>2, <2>4 DEF WriteInv, WriteTypes
  <2> QED
    BY <2>4, <2>5 DEF Iota
<1> QED
  BY <1>1, WriteInvariant, PTL

\* When a write has returned, libusb owns none of its transfers and none of
\* its callbacks is due, for every window and frame (pipeline_out's drain).
THEOREM FreedIsAlwaysIdle == Spec => []FreedIsIdle
<1>1. WriteInv => FreedIsIdle
  BY AllReaped DEF FreedIsIdle, WriteInv, Progress, NotWriting
<1> QED
  BY <1>1, WriteInvariant, PTL

-----------------------------------------------------------------------------
\* The replies that recv returned or will return count up from 1, and the
\* finished reads hold the rest of those sent, the older ones first.
ReadTypes ==
  /\ got \in Seq(Nat) /\ ready \in Seq(Nat) /\ inDone \in Seq(Nat) /\ sent \in 0..MaxReplies

Count == Len(got) + Len(ready)

Counted ==
  /\ \A i \in 1..Len(got) : got[i] = i
  /\ \A i \in 1..Len(ready) : ready[i] = Len(got) + i
  /\ Count <= sent

\* Of the finished reads q, with n replies delivered of m sent.
Holds(q, n, m) ==
  /\ \A i \in 1..Len(q) : q[i] \in (n + 1 .. m) \cup {Empty, Failed}
  /\ \A r \in n + 1 .. m : \E i \in 1..Len(q) : q[i] = r
  /\ \A i, j \in 1..Len(q) : i < j /\ {q[i], q[j]} \subseteq n + 1 .. m => q[i] < q[j]

ReadInv == ReadTypes /\ (~closing => Counted /\ Holds(inDone, Count, sent))

\* The oldest finished read, where it is a reply, is the next one.
LEMMA OldestIsNext ==
  ASSUME NEW q \in Seq(Nat), q # <<>>, NEW n \in Nat, NEW m \in 0..MaxReplies, Holds(q, n, m),
         Head(q) # Empty, Head(q) # Failed
  PROVE  Head(q) = n + 1 /\ n + 1 <= m
<1>1. Len(q) \in Nat /\ Len(q) >= 1 /\ Head(q) = q[1] /\ m \in Nat
  BY DepthsAssumption
<1>2. q[1] \in n + 1 .. m
  BY <1>1 DEF Holds
<1>3. n + 1 \in n + 1 .. m
  BY <1>1, <1>2
<1>4. PICK i \in 1..Len(q) : q[i] = n + 1
  BY <1>3 DEF Holds
<1>5. CASE i = 1
  BY <1>1, <1>3, <1>4, <1>5
<1>6. CASE i > 1
  <2>1. 1 \in 1..Len(q) /\ {q[1], q[i]} \subseteq n + 1 .. m
    BY <1>1, <1>2, <1>3, <1>4
  <2>2. q[1] < q[i]
    BY <1>6, <2>1 DEF Holds
  <2> QED
    BY <1>1, <1>2, <1>4, <2>2
<1> QED
  BY <1>1, <1>4, <1>5, <1>6

\* It is taken: the rest hold the rest.
LEMMA TailHolds ==
  ASSUME NEW q \in Seq(Nat), q # <<>>, NEW n \in Nat, NEW m \in 0..MaxReplies, Holds(q, n, m)
  PROVE  Holds(Tail(q), IF Head(q) \in {Empty, Failed} THEN n ELSE n + 1, m)
<1> DEFINE k == IF Head(q) \in {Empty, Failed} THEN n ELSE n + 1
<1>1. /\ Len(q) \in Nat /\ Len(q) >= 1 /\ Head(q) = q[1] /\ m \in Nat
      /\ Len(Tail(q)) = Len(q) - 1 /\ \A i \in 1..Len(q) - 1 : Tail(q)[i] = q[i + 1]
  BY DepthsAssumption
<1>2. Head(q) \in {Empty, Failed} => \A r \in n + 1 .. m : r # Head(q)
  BY <1>1, DepthsAssumption DEF Empty, Failed
<1>3. Head(q) \notin {Empty, Failed} => q[1] = n + 1 /\ n + 1 <= m
  BY <1>1, OldestIsNext
<1>4. k \in Nat /\ k >= n
  OBVIOUS
<1>5. ASSUME NEW r \in k + 1 .. m
      PROVE  r \in n + 1 .. m /\ r # q[1]
  BY <1>1, <1>2, <1>3
<1>6. ASSUME NEW r \in n + 1 .. m, r # q[1]
      PROVE  r \in k + 1 .. m
  BY <1>1, <1>2, <1>3, <1>6
<1>7. ASSUME NEW i \in 1..Len(Tail(q))
      PROVE  Tail(q)[i] \in (k + 1 .. m) \cup {Empty, Failed}
  <2>1. i + 1 \in 1..Len(q) /\ Tail(q)[i] = q[i + 1] /\ i + 1 > 1
    BY <1>1
  <2>2. q[i + 1] \in (n + 1 .. m) \cup {Empty, Failed}
    BY <2>1 DEF Holds
  <2>3. q[1] \in n + 1 .. m /\ q[i + 1] \in n + 1 .. m => q[1] < q[i + 1]
    BY <1>1, <2>1 DEF Holds
  <2>4. CASE q[i + 1] \in n + 1 .. m
    <3>1. CASE q[1] \in n + 1 .. m
      BY <1>6, <2>1, <2>3, <2>4, <3>1
    <3>2. CASE q[1] \notin n + 1 .. m
      BY <1>6, <2>1, <2>4, <3>2
    <3> QED
      BY <3>1, <3>2
  <2> QED
    BY <2>1, <2>2, <2>4
<1>8. ASSUME NEW r \in k + 1 .. m
      PROVE  \E i \in 1..Len(Tail(q)) : Tail(q)[i] = r
  <2>1. r \in n + 1 .. m /\ r # q[1]
    BY <1>5
  <2>2. PICK i \in 1..Len(q) : q[i] = r
    BY <2>1 DEF Holds
  <2>3. i - 1 \in 1..Len(q) - 1 /\ Tail(q)[i - 1] = q[i]
    <3>1. i # 1
      BY <2>1, <2>2
    <3>2. i - 1 \in 1..Len(q) - 1 /\ (i - 1) + 1 = i
      BY <1>1, <3>1
    <3> QED
      BY <1>1, <3>2
  <2> QED
    BY <1>1, <2>2, <2>3
<1>9. ASSUME NEW i \in 1..Len(Tail(q)), NEW j \in 1..Len(Tail(q)), i < j,
             {Tail(q)[i], Tail(q)[j]} \subseteq k + 1 .. m
      PROVE  Tail(q)[i] < Tail(q)[j]
  <2>1. /\ i + 1 \in 1..Len(q) /\ j + 1 \in 1..Len(q) /\ i + 1 < j + 1
        /\ Tail(q)[i] = q[i + 1] /\ Tail(q)[j] = q[j + 1]
    BY <1>1, <1>9
  <2>2. {q[i + 1], q[j + 1]} \subseteq n + 1 .. m
    BY <1>5, <1>9, <2>1
  <2> QED
    BY <2>1, <2>2 DEF Holds
<1> HIDE DEF k
<1>10. Holds(Tail(q), k, m)
  BY <1>7, <1>8, <1>9 DEF Holds
<1> QED
  BY <1>10 DEF k

\* The dock answers: the reply is the newest, and goes behind the others.
LEMMA ReplyHolds ==
  ASSUME NEW q \in Seq(Nat), NEW n \in Nat, NEW m \in Nat, n <= m, m < MaxReplies, Holds(q, n, m)
  PROVE  Holds(Append(q, m + 1), n, m + 1)
<1> DEFINE p == Append(q, m + 1)
<1>1. /\ Len(q) \in Nat /\ Len(p) = Len(q) + 1 /\ p[Len(q) + 1] = m + 1
      /\ \A i \in 1..Len(q) : p[i] = q[i]
  OBVIOUS
<1> HIDE DEF p
<1>2. Empty \notin n + 1 .. m + 1 /\ Failed \notin n + 1 .. m + 1
  BY DepthsAssumption DEF Empty, Failed
<1>3. ASSUME NEW i \in 1..Len(p)
      PROVE  p[i] \in (n + 1 .. m + 1) \cup {Empty, Failed}
  BY <1>1 DEF Holds
<1>4. ASSUME NEW r \in n + 1 .. m + 1
      PROVE  \E i \in 1..Len(p) : p[i] = r
  <2>1. CASE r = m + 1
    BY <1>1, <2>1
  <2>2. CASE r \in n + 1 .. m
    BY <1>1, <2>2 DEF Holds
  <2> QED
    BY <2>1, <2>2
<1>5. ASSUME NEW i \in 1..Len(p), NEW j \in 1..Len(p), i < j, {p[i], p[j]} \subseteq n + 1 .. m + 1
      PROVE  p[i] < p[j]
  <2>1. i \in 1..Len(q) /\ p[i] = q[i]
    BY <1>1, <1>5
  <2>2. p[i] \in n + 1 .. m
    BY <1>2, <1>5, <2>1 DEF Holds
  <2>3. CASE j = Len(q) + 1
    BY <1>1, <2>2, <2>3
  <2>4. CASE j \in 1..Len(q)
    <3>1. p[j] = q[j] /\ p[j] \in n + 1 .. m
      BY <1>1, <1>2, <1>5, <2>4 DEF Holds
    <3> QED
      BY <1>5, <2>1, <2>2, <2>4, <3>1 DEF Holds
  <2> QED
    BY <1>1, <2>3, <2>4
<1> QED
  BY <1>3, <1>4, <1>5 DEF Holds, p

\* A read that ended without a reply.
LEMMA NoReplyHolds ==
  ASSUME NEW q \in Seq(Nat), NEW n \in Nat, NEW m \in 0..MaxReplies, NEW o \in {Empty, Failed}, Holds(q, n, m)
  PROVE  Holds(Append(q, o), n, m)
<1> DEFINE p == Append(q, o)
<1>0. o \in Nat /\ m \in Nat
  BY DepthsAssumption DEF Empty, Failed
<1>1. /\ Len(q) \in Nat /\ Len(p) = Len(q) + 1 /\ p[Len(q) + 1] = o
      /\ \A i \in 1..Len(q) : p[i] = q[i]
  BY <1>0
<1> HIDE DEF p
<1>2. o \notin n + 1 .. m
  BY <1>0, DepthsAssumption DEF Empty, Failed
<1>3. ASSUME NEW i \in 1..Len(p)
      PROVE  p[i] \in (n + 1 .. m) \cup {Empty, Failed}
  BY <1>1 DEF Holds
<1>4. ASSUME NEW r \in n + 1 .. m
      PROVE  \E i \in 1..Len(p) : p[i] = r
  BY <1>1 DEF Holds
<1>5. ASSUME NEW i \in 1..Len(p), NEW j \in 1..Len(p), i < j, {p[i], p[j]} \subseteq n + 1 .. m
      PROVE  p[i] < p[j]
  <2>1. i \in 1..Len(q) /\ j \in 1..Len(q)
    <3>1. p[i] # o /\ p[j] # o
      BY <1>2, <1>5
    <3>2. i # Len(q) + 1 /\ j # Len(q) + 1
      BY <1>1, <3>1
    <3>3. Len(q) \in Nat /\ Len(p) = Len(q) + 1
      BY <1>1
    <3> QED
      BY <3>2, <3>3
  <2>2. p[i] = q[i] /\ p[j] = q[j]
    BY <1>1, <2>1
  <2> QED
    BY <1>5, <2>1, <2>2 DEF Holds
<1> QED
  BY <1>3, <1>4, <1>5 DEF Holds, p

\* ep84_complete keeps what it read behind what it read before.
LEMMA ReadCompletesKeeps ==
  ASSUME ReadInv, inDone # <<>>, ReadCompletes
  PROVE  ReadInv'
<1> DEFINE r == Head(inDone)
<1>1. /\ got \in Seq(Nat) /\ ready \in Seq(Nat) /\ inDone \in Seq(Nat) /\ sent \in 0..MaxReplies
      /\ inDone' = Tail(inDone) /\ UNCHANGED <<closing, sent, got>>
  BY DEF ReadInv, ReadTypes, ReadCompletes
<1>2. r \in Nat /\ inDone' \in Seq(Nat) /\ Len(got) \in Nat /\ Len(ready) \in Nat
  BY <1>1
<1>3. ready' = IF Rearms(r) /\ r # Empty THEN Append(ready, r) ELSE ready
  BY DEF ReadCompletes, Keeps
<1>4. ReadTypes'
  BY <1>1, <1>2, <1>3 DEF ReadTypes
<1>5. ASSUME ~closing
      PROVE  Counted' /\ Holds(inDone', Count', sent')
  <2>1. Counted /\ Holds(inDone, Count, sent)
    BY <1>5 DEF ReadInv
  <2>2. Count \in Nat
    BY <1>2 DEF Count
  <2>3. Holds(inDone', IF r \in {Empty, Failed} THEN Count ELSE Count + 1, sent)
    BY <1>1, <2>1, <2>2, TailHolds
  <2>4. CASE r \in {Empty, Failed}
    <3>1. ready' = ready
      BY <1>3, <2>4 DEF Rearms
    <3>2. Count' = Count
      BY <1>1, <3>1 DEF Count
    <3> QED
      BY <1>1, <2>1, <2>3, <2>4, <3>1, <3>2 DEF Counted
  <2>5. CASE r \notin {Empty, Failed}
    <3>1. r = Count + 1 /\ Count + 1 <= sent
      BY <1>1, <2>1, <2>2, <2>5, OldestIsNext
    <3>2. ready' = Append(ready, r)
      BY <1>3, <1>5, <2>5 DEF Rearms
    <3>3. /\ Len(ready') = Len(ready) + 1 /\ ready'[Len(ready) + 1] = Len(got) + (Len(ready) + 1)
          /\ \A i \in 1..Len(ready) : ready'[i] = ready[i]
      BY <1>1, <1>2, <3>1, <3>2 DEF Count
    <3>4. Count' = Count + 1
      BY <1>1, <1>2, <3>3 DEF Count
    <3>5. ASSUME NEW i \in 1..Len(ready') PROVE ready'[i] = Len(got) + i
      <4>1. CASE i = Len(ready) + 1
        BY <3>3, <4>1
      <4>2. CASE i \in 1..Len(ready)
        BY <2>1, <3>3, <4>2 DEF Counted
      <4>3. Len(ready') = Len(ready) + 1 /\ Len(ready) \in Nat
        BY <1>2, <3>3
      <4> QED
        BY <4>1, <4>2, <4>3
    <3>6. Counted'
      BY <1>1, <2>1, <3>1, <3>4, <3>5 DEF Counted
    <3> QED
      BY <1>1, <2>3, <2>5, <3>4, <3>6
  <2> QED
    BY <2>4, <2>5
<1> QED
  BY <1>1, <1>4, <1>5 DEF ReadInv

\* recv takes the oldest.
LEMMA RecvReplyKeeps ==
  ASSUME ReadInv, RecvReply
  PROVE  ReadInv'
<1>1. /\ got \in Seq(Nat) /\ ready \in Seq(Nat) /\ ready # <<>>
      /\ got' = Append(got, Head(ready)) /\ ready' = Tail(ready) /\ UNCHANGED <<inDone, closing, sent>>
  BY DEF ReadInv, ReadTypes, RecvReply, RecvReturns
<1>2. /\ Len(got) \in Nat /\ Len(ready) \in Nat /\ Len(ready) >= 1 /\ Head(ready) = ready[1]
      /\ Len(ready') = Len(ready) - 1 /\ \A i \in 1..Len(ready) - 1 : ready'[i] = ready[i + 1]
  BY <1>1
<1>3. got' \in Seq(Nat) /\ ready' \in Seq(Nat)
  BY <1>1, <1>2
<1>4. /\ Len(got') = Len(got) + 1 /\ got'[Len(got) + 1] = ready[1]
      /\ \A i \in 1..Len(got) : got'[i] = got[i]
  BY <1>1, <1>2
<1>5. Count' = Count
  BY <1>2, <1>4 DEF Count
<1>6. Counted => Counted'
  <2> SUFFICES ASSUME Counted PROVE Counted'
    OBVIOUS
  <2>1. ready[1] = Len(got) + 1
    BY <1>2 DEF Counted
  <2>2. \A i \in 1..Len(got') : got'[i] = i
    BY <1>2, <1>4, <2>1 DEF Counted
  <2>3. \A i \in 1..Len(ready') : ready'[i] = Len(got') + i
    <3> SUFFICES ASSUME NEW i \in 1..Len(ready') PROVE ready'[i] = Len(got') + i
      OBVIOUS
    <3>1. i + 1 \in 1..Len(ready) /\ ready'[i] = ready[i + 1]
      BY <1>2
    <3>2. ready[i + 1] = Len(got) + (i + 1)
      BY <3>1 DEF Counted
    <3> QED
      BY <1>2, <1>4, <3>1, <3>2
  <2> QED
    BY <1>1, <1>5, <2>2, <2>3 DEF Counted
<1> QED
  BY <1>1, <1>3, <1>5, <1>6 DEF ReadInv, ReadTypes

LEMMA ReadInvariant == Spec => []ReadInv
<1>1. Init => ReadInv
  <2> SUFFICES ASSUME Init PROVE ReadInv
    OBVIOUS
  <2>1. got = <<>> /\ ready = <<>> /\ inDone = <<>> /\ sent = 0
    BY DEF Init
  <2>2. ReadTypes
    BY <2>1, DepthsAssumption DEF ReadTypes
  <2>3. Counted /\ Holds(inDone, Count, sent)
    BY <2>1 DEF Counted, Count, Holds
  <2> QED
    BY <2>2, <2>3 DEF ReadInv
<1>2. ReadInv /\ [Next]_vars => ReadInv'
  <2> SUFFICES ASSUME ReadInv, [Next]_vars PROVE ReadInv'
    OBVIOUS
  <2>0. got \in Seq(Nat) /\ ready \in Seq(Nat) /\ inDone \in Seq(Nat) /\ sent \in 0..MaxReplies /\ Count \in Nat
    BY DEF ReadInv, ReadTypes, Count
  <2>1. ASSUME UNCHANGED <<got, ready, inDone, sent>>, closing' = closing \/ closing' = TRUE PROVE ReadInv'
    BY <2>1 DEF ReadInv, ReadTypes, Counted, Count
  <2>2. CASE DockReplies
    <3>1. /\ sent < MaxReplies /\ sent' = sent + 1 /\ inDone' = Append(inDone, sent + 1)
          /\ UNCHANGED <<got, ready, closing>>
      BY <2>2 DEF DockReplies
    <3>2. ReadTypes'
      BY <2>0, <3>1, DepthsAssumption DEF ReadTypes
    <3>3. ~closing => Holds(inDone', Count, sent') /\ Counted'
      <4> SUFFICES ASSUME ~closing PROVE Holds(inDone', Count, sent') /\ Counted'
        OBVIOUS
      <4>1. Counted /\ Holds(inDone, Count, sent) /\ Count <= sent /\ sent \in Nat
        BY <2>0 DEF ReadInv, Counted
      <4>2. Holds(inDone', Count, sent')
        BY <2>0, <3>1, <4>1, ReplyHolds
      <4>3. Counted'
        BY <2>0, <3>1, <4>1 DEF Counted, Count
      <4> QED
        BY <4>2, <4>3
    <3> QED
      BY <3>1, <3>2, <3>3 DEF ReadInv, Count
  <2>3. CASE ReadEnds
    <3>1. PICK o \in {Empty, Failed} : inDone' = Append(inDone, o) /\ UNCHANGED <<got, ready, sent, closing>>
      BY <2>3 DEF ReadEnds
    <3>2. ReadTypes'
      BY <2>0, <3>1, DepthsAssumption DEF ReadTypes, Empty, Failed
    <3>3. ~closing => Holds(inDone', Count, sent)
      BY <2>0, <3>1, NoReplyHolds DEF ReadInv
    <3> QED
      BY <3>1, <3>2, <3>3 DEF ReadInv, Counted, Count
  <2>4. CASE PumpReads
    BY <2>4, ReadCompletesKeeps DEF PumpReads
  <2>5. CASE RecvReply
    BY <2>5, RecvReplyKeeps
  <2>6. CASE RecvFrame \/ RecvDisconnected \/ RecvTimeout \/ Drop \/ DropEnds
    BY <2>1, <2>6 DEF RecvFrame, RecvDisconnected, RecvTimeout, RecvReturns, Drop, DropEnds, readVars
  <2>7. CASE DockTakesChunk \/ DeviceGoes \/ PumpWrites \/ WriteVideoFrame \/ WriteCtrlRawAsync \/ WriteStep
    <3>1. UNCHANGED readVars
      BY <2>7 DEF DockTakesChunk, DeviceGoes, PumpWrites, WriteVideoFrame, WriteCtrlRawAsync, Start,
                  WriteStep, Prime, Reap, ReapEnds, Drain, Return
    <3> QED
      BY <2>1, <3>1 DEF readVars
  <2>8. CASE UNCHANGED vars
    BY <2>1, <2>8 DEF vars, readVars
  <2> QED
    BY <2>2, <2>3, <2>4, <2>5, <2>6, <2>7, <2>8 DEF Next, External, RecvStep, PumpNothing, Closed
<1> QED
  BY <1>1, <1>2, PTL DEF Spec

\* Until teardown no reply is lost, repeated or reordered between the endpoint
\* and recv, for every number of posted reads, replies and faults
\* (ep84_complete, AsyncIn::recv).
THEOREM RepliesAlwaysInOrder == Spec => []RepliesInOrder
<1>1. ReadInv => RepliesInOrder
  <2> SUFFICES ASSUME ReadInv, ~closing PROVE RepliesInOrder
    BY DEF RepliesInOrder
  <2>1. got \in Seq(Nat) /\ ready \in Seq(Nat) /\ Counted /\ Holds(inDone, Count, sent)
    BY DEF ReadInv, ReadTypes
  <2>2. /\ Len(got \o ready) = Count /\ Len(got) \in Nat /\ Len(ready) \in Nat /\ got \o ready \in Seq(Nat)
        /\ \A i \in 1..Len(got) : (got \o ready)[i] = got[i]
        /\ \A i \in Len(got) + 1 .. Count : (got \o ready)[i] = ready[i - Len(got)]
    BY <2>1 DEF Count
  <2>3. \A i \in 1..Count : (got \o ready)[i] = i
    <3> SUFFICES ASSUME NEW i \in 1..Count PROVE (got \o ready)[i] = i
      OBVIOUS
    <3>1. CASE i \in 1..Len(got)
      BY <2>1, <2>2, <3>1 DEF Counted
    <3>2. CASE i \in Len(got) + 1 .. Count
      <4>1. i - Len(got) \in 1..Len(ready)
        BY <2>2, <3>2 DEF Count
      <4>2. ready[i - Len(got)] = Len(got) + (i - Len(got))
        BY <2>1, <4>1 DEF Counted
      <4> QED
        BY <2>2, <3>2, <4>2
    <3> QED
      BY <2>2, <3>1, <3>2 DEF Count
  <2>4. got \o ready = Iota(Count)
    <3> DEFINE q == got \o ready
    <3>1. q \in Seq(Nat) /\ Len(q) = Count /\ \A i \in 1..Count : q[i] = i
      BY <2>2, <2>3
    <3> HIDE DEF q
    <3>2. q = Iota(Count)
      BY <3>1 DEF Iota
    <3> QED
      BY <3>2 DEF q
  <2> QED
    BY <2>1, <2>2, <2>4 DEF RepliesInOrder, Counted, Holds
<1> QED
  BY <1>1, ReadInvariant, PTL

=============================================================================
