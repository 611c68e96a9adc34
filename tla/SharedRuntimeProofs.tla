-------------------------- MODULE SharedRuntimeProofs --------------------------
(***************************************************************************)
(* What TLAPS proves of usage capture and the turns of the shared runtime  *)
(* for every number of turns, events, calls and every limit of the queue.  *)
(***************************************************************************)
EXTENDS SharedRuntime, SequenceTheorems, TLAPS

USE CallsAssumption, EventsAssumption, LimitsAssumption

-----------------------------------------------------------------------------
(* The inductive invariant of the capture.                                 *)

Queued(s, e) == \E i \in 1..Len(queue[s]) : queue[s][i] = e

Stored(s, e) == \E k \in 1..Len(recorded[s]) : recorded[s][k] = e

\* No two of the events a capture took in report the same call.
SeenOnce(s) ==
    /\ \A d, e \in seenEvents[s] : SameCall(d, e) => d = e
    /\ \A d \in seenEvents[s] : CallOf[d] # NoCall => CallOf[d] \in seenCalls[s]
    /\ \A c \in seenCalls[s] : \E d \in seenEvents[s] : CallOf[d] = c

\* An event is queued once, and posted when it is at the head of the queue.
QueueInOrder(s) ==
    /\ \A i \in 1..Len(queue[s]) :
          /\ queue[s][i] \in seenEvents[s]
          /\ i > 1 \/ ~ posting[s] =>
                queue[s][i] \notin inflight[s] /\ ~ Stored(s, queue[s][i])
    /\ \A i, j \in 1..Len(queue[s]) : queue[s][i] = queue[s][j] => i = j
    /\ posting[s] => queue[s] # <<>>

\* A post is handled once.
PostedOnce(s) ==
    /\ \A e \in inflight[s] : e \in seenEvents[s] /\ ~ Stored(s, e)
    /\ \A k \in 1..Len(recorded[s]) : recorded[s][k] \in seenEvents[s]
    /\ \A k, l \in 1..Len(recorded[s]) : recorded[s][k] = recorded[s][l] => k = l

AnswersAreTrue(s) ==
    /\ ~ posting[s] => answer[s] = "none"
    /\ answer[s] = "accepted" => Stored(s, Head(queue[s]))

\* Until the capture fails, what was reported was taken in, and is kept.
NothingLost(s) ==
    ~ failed[s] =>
        /\ \A e \in reported[s] : \E d \in seenEvents[s] : SameCall(d, e)
        /\ \A e \in seenEvents[s] : Queued(s, e) \/ Stored(s, e)

Ledger(s) ==
    /\ SeenOnce(s)
    /\ QueueInOrder(s)
    /\ PostedOnce(s)
    /\ AnswersAreTrue(s)
    /\ NothingLost(s)

CaptureInv == CaptureTypeOK /\ \A s \in Sessions : Ledger(s)

-----------------------------------------------------------------------------
(* The inductive invariant of the turns and of the CLI.                    *)

\* What is settled by the time a turn gets somewhere.
TurnInOrder(t) ==
    /\ At(t, "starting") => run[t] = "open"
    /\ At(t, "detaching") => capture[t] = "stopped"
    /\ at[t] \in {"closing", "ending", "ok"} =>
          capture[t] = "stopped" /\ ~ failed[t] /\ queue[t] = <<>>
    /\ At(t, "ending") => task[t] = "closed"
    /\ At(t, "ok") => run[t] = "ended" /\ task[t] = "closed" /\ session[t] = "closed"
    /\ At(t, "abandoning") /\ taskKnown[t] => task[t] = "closed"
    /\ run[t] = "ended" /\ taskKnown[t] => task[t] = "closed"

\* There is one CLI at most, and while the runtime lives it is the client's.
OneClient ==
    /\ disposal = "no" =>
          processes = [starting |-> IF client = "pending" THEN 1 ELSE 0,
                       running |-> IF client = "ready" THEN 1 ELSE 0]
    /\ disposal # "no" => client = "none"
    /\ NoStrayClient

IInv ==
    /\ TypeOK
    /\ CaptureInv
    /\ \A t \in Turns : TurnInOrder(t)
    /\ OneClient

-----------------------------------------------------------------------------
(* Steps of the capture.                                                   *)

CaptureStep(s) ==
    \/ Attach(s)
    \/ \E e \in EventIds :
          Enqueue(s, e) \/ Repeat(s, e) \/ Refuse(s, e) \/ Record(s, e) \/ Reject(s, e)
    \/ Send(s)
    \/ Acknowledge(s)
    \/ PostFails(s)
    \/ Stop(s)

SameCapture(u) ==
    /\ capture'[u] = capture[u] /\ failed'[u] = failed[u]
    /\ seenEvents'[u] = seenEvents[u] /\ seenCalls'[u] = seenCalls[u]
    /\ queue'[u] = queue[u] /\ posting'[u] = posting[u] /\ answer'[u] = answer[u]
    /\ inflight'[u] = inflight[u] /\ recorded'[u] = recorded[u] /\ reported'[u] = reported[u]

LEMMA CaptureTypeInit == CaptureInit => CaptureTypeOK
  BY DEF CaptureInit, CaptureTypeOK

LEMMA CaptureTypeStep ==
    ASSUME CaptureTypeOK, NEW s \in Sessions, Ledger(s), CaptureStep(s)
    PROVE  CaptureTypeOK'
<1> USE DEF CaptureTypeOK
<1>1. CASE Attach(s)
  BY <1>1 DEF Attach
<1>2. ASSUME NEW e \in EventIds, Enqueue(s, e)
      PROVE  CaptureTypeOK'
  <2>1. Append(queue[s], e) \in Seq(EventIds) /\ Len(Append(queue[s], e)) = Len(queue[s]) + 1
    BY AppendProperties
  <2>2. Len(queue[s]) < MaxPending
    BY <1>2 DEF Enqueue, Full
  <2>3. {CallOf[e]} \ {NoCall} \subseteq Calls
    OBVIOUS
  <2> QED
    BY <1>2, <2>1, <2>2, <2>3 DEF Enqueue, Report
<1>3. ASSUME NEW e \in EventIds, Repeat(s, e) \/ Refuse(s, e)
      PROVE  CaptureTypeOK'
  <2>1. CASE Repeat(s, e)
    BY <2>1 DEF Repeat, Report
  <2>2. CASE Refuse(s, e)
    BY <2>2 DEF Refuse, Report
  <2> QED
    BY <1>3, <2>1, <2>2
<1>4. ASSUME NEW e \in EventIds, Record(s, e)
      PROVE  CaptureTypeOK'
  <2>1. Append(recorded[s], e) \in Seq(EventIds)
    BY AppendProperties
  <2>2. answer' \in [Sessions -> {"none", "accepted", "rejected"}]
    BY <1>4 DEF Record, Answer
  <2> QED
    BY <1>4, <2>1, <2>2 DEF Record
<1>5. ASSUME NEW e \in EventIds, Reject(s, e)
      PROVE  CaptureTypeOK'
  BY <1>5 DEF Reject, Answer
<1>6. CASE Send(s)
  BY <1>6, HeadTailProperties DEF Send
<1>7. CASE Acknowledge(s) \/ PostFails(s)
  <2>1. queue[s] # <<>>
    BY <1>7 DEF Acknowledge, PostFails, Settled, Ledger, QueueInOrder
  <2>2. Tail(queue[s]) \in Seq(EventIds) /\ Len(Tail(queue[s])) = Len(queue[s]) - 1
    BY <2>1, HeadTailProperties
  <2>3. Len(queue[s]) \in Nat /\ Len(queue[s]) <= MaxPending
    BY LenProperties
  <2>4. CASE Acknowledge(s)
    BY <2>2, <2>3, <2>4 DEF Acknowledge, Settled
  <2>5. CASE PostFails(s)
    BY <2>2, <2>3, <2>5 DEF PostFails, Settled
  <2> QED
    BY <1>7, <2>4, <2>5
<1>8. CASE Stop(s)
  BY <1>8 DEF Stop
<1> QED
  BY <1>1, <1>2, <1>3, <1>4, <1>5, <1>6, <1>7, <1>8 DEF CaptureStep

LEMMA CaptureAlone ==
    ASSUME CaptureTypeOK, NEW s \in Sessions, CaptureStep(s), NEW u \in Sessions, u # s
    PROVE  SameCapture(u)
<1> USE DEF CaptureTypeOK, SameCapture
<1>1. CASE Attach(s) \/ Stop(s)
  BY <1>1 DEF Attach, Stop
<1>2. ASSUME NEW e \in EventIds, Enqueue(s, e) \/ Repeat(s, e) \/ Refuse(s, e)
      PROVE  SameCapture(u)
  BY <1>2 DEF Enqueue, Repeat, Refuse, Report
<1>3. ASSUME NEW e \in EventIds, Record(s, e) \/ Reject(s, e)
      PROVE  SameCapture(u)
  BY <1>3 DEF Record, Reject, Answer
<1>4. CASE Send(s) \/ Acknowledge(s) \/ PostFails(s)
  BY <1>4 DEF Send, Acknowledge, PostFails, Settled
<1> QED
  BY <1>1, <1>2, <1>3, <1>4 DEF CaptureStep

LEMMA SameLedger ==
    ASSUME NEW u \in Sessions, SameCapture(u), Ledger(u)
    PROVE  Ledger(u)'
<1>1. SeenOnce(u)' /\ QueueInOrder(u)'
  BY DEF SameCapture, Ledger, SeenOnce, QueueInOrder, Stored
<1>2. PostedOnce(u)' /\ AnswersAreTrue(u)' /\ NothingLost(u)'
  BY DEF SameCapture, Ledger, PostedOnce, AnswersAreTrue, NothingLost, Stored, Queued
<1> QED
  BY <1>1, <1>2 DEF Ledger

\* Enqueue: the event reports a call that is new to the capture.
LEMMA EnqueueLedger ==
    ASSUME CaptureTypeOK, NEW s \in Sessions, Ledger(s), NEW e \in EventIds, Enqueue(s, e)
    PROVE  Ledger(s)'
<1> USE DEF CaptureTypeOK
<1>1. e \notin seenEvents[s] /\ CallOf[e] \notin seenCalls[s]
  BY DEF Enqueue, Seen
<1>2. /\ seenEvents'[s] = seenEvents[s] \cup {e}
      /\ seenCalls'[s] = seenCalls[s] \cup ({CallOf[e]} \ {NoCall})
      /\ queue'[s] = Append(queue[s], e)
      /\ reported'[s] = reported[s] \cup {e}
      /\ UNCHANGED <<failed, posting, answer, inflight, recorded>>
  BY DEF Enqueue, Report
<1>3. /\ Len(queue'[s]) = Len(queue[s]) + 1
      /\ queue'[s][Len(queue[s]) + 1] = e
      /\ \A i \in 1..Len(queue[s]) : queue'[s][i] = queue[s][i]
      /\ Len(queue[s]) \in Nat
  BY <1>2, AppendProperties, LenProperties
<1>4. SeenOnce(s)'
  BY <1>1, <1>2 DEF Ledger, SeenOnce, SameCall
<1>5. ~ Stored(s, e) /\ e \notin inflight[s] /\ \A i \in 1..Len(queue[s]) : queue[s][i] # e
  BY <1>1 DEF Ledger, PostedOnce, QueueInOrder, Stored
<1>6. queue'[s] # <<>>
  BY <1>3
<1>7. QueueInOrder(s)'
  BY <1>2, <1>3, <1>5, <1>6 DEF Ledger, QueueInOrder, Stored
<1>8. PostedOnce(s)'
  BY <1>2 DEF Ledger, PostedOnce, Stored
<1>9. AnswersAreTrue(s)'
  <2>1. posting[s] => Head(queue'[s]) = Head(queue[s])
    BY <1>2, <1>3 DEF Ledger, QueueInOrder
  <2> QED
    BY <1>2, <2>1 DEF Ledger, AnswersAreTrue, Stored
<1>10. NothingLost(s)'
  <2>1. Queued(s, e)'
    BY <1>3 DEF Queued
  <2>3. ASSUME NEW d, Queued(s, d)
        PROVE  Queued(s, d)'
    <3>1. PICK i \in 1..Len(queue[s]) : queue[s][i] = d
      BY <2>3 DEF Queued
    <3>2. i \in 1..Len(queue'[s]) /\ queue'[s][i] = d
      BY <1>3, <3>1
    <3> QED
      BY <3>2 DEF Queued
  <2>2. \A d \in EventIds : Stored(s, d) => Stored(s, d)'
    BY <1>2 DEF Stored
  <2> QED
    BY <1>2, <2>1, <2>2, <2>3 DEF Ledger, NothingLost, SameCall
<1> QED
  BY <1>4, <1>7, <1>8, <1>9, <1>10 DEF Ledger

\* Record: the post was under way, so the recorder does not have the event yet.
LEMMA RecordLedger ==
    ASSUME CaptureTypeOK, NEW s \in Sessions, Ledger(s), NEW e \in EventIds, Record(s, e)
    PROVE  Ledger(s)'
<1> USE DEF CaptureTypeOK
<1>1. /\ e \in inflight[s]
      /\ inflight'[s] = inflight[s] \ {e}
      /\ recorded'[s] = Append(recorded[s], e)
      /\ answer'[s] = (IF posting[s] /\ Head(queue[s]) = e THEN "accepted" ELSE answer[s])
      /\ UNCHANGED <<failed, seenEvents, seenCalls, queue, posting, reported>>
  BY DEF Record, Answer
<1>2. /\ Len(recorded'[s]) = Len(recorded[s]) + 1
      /\ recorded'[s][Len(recorded[s]) + 1] = e
      /\ \A k \in 1..Len(recorded[s]) : recorded'[s][k] = recorded[s][k]
      /\ Len(recorded[s]) \in Nat
  BY <1>1, AppendProperties, LenProperties
<1>3. ASSUME NEW d
      PROVE  Stored(s, d)' <=> d = e \/ Stored(s, d)
  <2>1. Stored(s, e)'
    BY <1>2 DEF Stored
  <2>2. ASSUME Stored(s, d)
        PROVE  Stored(s, d)'
    <3>1. PICK k \in 1..Len(recorded[s]) : recorded[s][k] = d
      BY <2>2 DEF Stored
    <3>2. k \in 1..Len(recorded'[s]) /\ recorded'[s][k] = d
      BY <1>2, <3>1
    <3> QED
      BY <3>2 DEF Stored
  <2>3. ASSUME Stored(s, d)', d # e
        PROVE  Stored(s, d)
    <3>1. PICK k \in 1..Len(recorded'[s]) : recorded'[s][k] = d
      BY <2>3 DEF Stored
    <3>2. k \in 1..Len(recorded[s]) /\ recorded[s][k] = d
      BY <1>2, <2>3, <3>1
    <3> QED
      BY <3>2 DEF Stored
  <2> QED
    BY <2>1, <2>2, <2>3
<1>4. ~ Stored(s, e) /\ e \in seenEvents[s]
  BY <1>1 DEF Ledger, PostedOnce
<1>5. SeenOnce(s)'
  BY <1>1 DEF Ledger, SeenOnce
<1>6. QueueInOrder(s)'
  BY <1>1, <1>3 DEF Ledger, QueueInOrder
<1>7. PostedOnce(s)'
  <2>1. \A d \in inflight'[s] : d \in seenEvents'[s] /\ ~ Stored(s, d)'
    BY <1>1, <1>3 DEF Ledger, PostedOnce
  <2>2. \A k \in 1..Len(recorded[s]) : recorded[s][k] # e
    BY <1>4 DEF Stored
  <2>3. ASSUME NEW k \in 1..Len(recorded'[s])
        PROVE  /\ recorded'[s][k] \in seenEvents'[s]
               /\ \A l \in 1..Len(recorded'[s]) : recorded'[s][k] = recorded'[s][l] => k = l
    <3>1. CASE k = Len(recorded[s]) + 1
      BY <1>1, <1>2, <1>4, <2>2, <3>1
    <3>2. CASE k \in 1..Len(recorded[s])
      BY <1>1, <1>2, <2>2, <3>2 DEF Ledger, PostedOnce
    <3> QED
      BY <1>2, <3>1, <3>2
  <2> QED
    BY <2>1, <2>3 DEF PostedOnce
<1>8. AnswersAreTrue(s)'
  BY <1>1, <1>3 DEF Ledger, AnswersAreTrue
<1>9. NothingLost(s)'
  BY <1>1, <1>3 DEF Ledger, NothingLost, Queued
<1> QED
  BY <1>5, <1>6, <1>7, <1>8, <1>9 DEF Ledger

\* Acknowledge and PostFails: the head of the queue leaves it.
LEMMA SettledLedger ==
    ASSUME CaptureTypeOK, NEW s \in Sessions, Ledger(s), Acknowledge(s) \/ PostFails(s)
    PROVE  Ledger(s)'
<1> USE DEF CaptureTypeOK
<1>1. /\ posting[s] /\ ~ posting'[s] /\ queue[s] # <<>>
      /\ queue'[s] = Tail(queue[s]) /\ answer'[s] = "none"
      /\ failed'[s] \/ (answer[s] = "accepted" /\ failed'[s] = failed[s])
      /\ UNCHANGED <<seenEvents, seenCalls, inflight, recorded, reported>>
  BY DEF Acknowledge, PostFails, Settled, Ledger, QueueInOrder
<1>2. /\ Len(queue[s]) \in Nat /\ Len(queue'[s]) = Len(queue[s]) - 1
      /\ \A i \in 1..Len(queue'[s]) : queue'[s][i] = queue[s][i + 1]
      /\ Head(queue[s]) = queue[s][1]
  BY <1>1, HeadTailProperties, LenProperties
<1>3. SeenOnce(s)'
  BY <1>1 DEF Ledger, SeenOnce
<1>4. QueueInOrder(s)'
  <2>1. ASSUME NEW i \in 1..Len(queue'[s])
        PROVE  /\ i + 1 \in 1..Len(queue[s]) /\ i + 1 > 1
               /\ queue'[s][i] = queue[s][i + 1]
    BY <1>2
  <2>3. ASSUME NEW i \in 1..Len(queue'[s])
        PROVE  /\ queue'[s][i] \in seenEvents'[s]
               /\ queue'[s][i] \notin inflight'[s] /\ ~ Stored(s, queue[s][i + 1])
    BY <1>1, <2>1 DEF Ledger, QueueInOrder
  <2>4. \A i, j \in 1..Len(queue'[s]) : queue'[s][i] = queue'[s][j] => i = j
    BY <2>1 DEF Ledger, QueueInOrder
  <2>5. ASSUME NEW i \in 1..Len(queue'[s]), NEW k \in 1..Len(recorded'[s])
        PROVE  recorded'[s][k] # queue'[s][i]
    <3>1. queue'[s][i] = queue[s][i + 1] /\ ~ Stored(s, queue[s][i + 1])
      BY <2>1, <2>3
    <3>2. recorded' = recorded
      BY <1>1
    <3> QED
      BY <3>1, <3>2 DEF Stored
  <2> QED
    BY <1>1, <2>3, <2>4, <2>5 DEF QueueInOrder, Stored
<1>5. PostedOnce(s)'
  BY <1>1 DEF Ledger, PostedOnce, Stored
<1>6. AnswersAreTrue(s)'
  BY <1>1 DEF AnswersAreTrue
<1>7. NothingLost(s)'
  <2> SUFFICES ASSUME ~ failed'[s], NEW e \in seenEvents[s], ~ Stored(s, e)
               PROVE  Queued(s, e)'
    BY <1>1 DEF Ledger, NothingLost, Stored
  <2>1. PICK i \in 1..Len(queue[s]) : queue[s][i] = e
    BY <1>1 DEF Ledger, NothingLost, Queued
  <2>2. i # 1
    BY <1>1, <1>2, <2>1 DEF Ledger, AnswersAreTrue
  <2>3. i - 1 \in 1..Len(queue'[s]) /\ queue'[s][i - 1] = e
    BY <1>2, <2>1, <2>2
  <2> QED
    BY <2>3 DEF Queued
<1> QED
  BY <1>3, <1>4, <1>5, <1>6, <1>7 DEF Ledger

LEMMA LedgerStep ==
    ASSUME CaptureTypeOK, NEW s \in Sessions, Ledger(s), CaptureStep(s)
    PROVE  Ledger(s)'
<1> USE DEF CaptureTypeOK
<1>1. CASE Attach(s) \/ Stop(s)
  <2>1. /\ failed[s] => failed'[s]
        /\ UNCHANGED <<seenEvents, seenCalls, queue, posting, answer, inflight, recorded, reported>>
    BY <1>1 DEF Attach, Stop
  <2>2. SeenOnce(s)' /\ QueueInOrder(s)' /\ PostedOnce(s)' /\ AnswersAreTrue(s)'
    BY <2>1 DEF Ledger, SeenOnce, QueueInOrder, PostedOnce, AnswersAreTrue, Stored
  <2>3. NothingLost(s)'
    BY <2>1 DEF Ledger, NothingLost, Queued, Stored
  <2> QED
    BY <2>2, <2>3 DEF Ledger
<1>2. ASSUME NEW e \in EventIds, Repeat(s, e) \/ Refuse(s, e)
      PROVE  Ledger(s)'
  <2>1. /\ reported'[s] = reported[s] \cup {e}
        /\ failed'[s] \/ (Seen(s, e) /\ failed'[s] = failed[s])
        /\ UNCHANGED <<seenEvents, seenCalls, queue, posting, answer, inflight, recorded>>
    BY <1>2 DEF Repeat, Refuse, Report
  <2>2. SeenOnce(s)' /\ QueueInOrder(s)' /\ PostedOnce(s)' /\ AnswersAreTrue(s)'
    <3>1. SeenOnce(s)'
      BY <2>1 DEF Ledger, SeenOnce
    <3>2. QueueInOrder(s)'
      BY <2>1 DEF Ledger, QueueInOrder, Stored
    <3>3. PostedOnce(s)'
      BY <2>1 DEF Ledger, PostedOnce, Stored
    <3>4. AnswersAreTrue(s)'
      BY <2>1 DEF Ledger, AnswersAreTrue, Stored
    <3> QED
      BY <3>1, <3>2, <3>3, <3>4
  <2>3. Seen(s, e) => \E d \in seenEvents[s] : SameCall(d, e)
    BY DEF Seen, Ledger, SeenOnce, SameCall
  <2>4. ASSUME ~ failed'[s]
        PROVE  /\ \A d \in reported'[s] : \E f \in seenEvents'[s] : SameCall(f, d)
               /\ \A d \in seenEvents'[s] : Queued(s, d)' \/ Stored(s, d)'
    <3>1. ~ failed[s] /\ Seen(s, e)
      BY <2>1, <2>4
    <3>2. \A d \in seenEvents'[s] : Queued(s, d)' \/ Stored(s, d)'
      BY <2>1, <3>1 DEF Ledger, NothingLost, Queued, Stored
    <3>3. \A d \in reported'[s] : \E f \in seenEvents'[s] : SameCall(f, d)
      BY <2>1, <2>3, <3>1 DEF Ledger, NothingLost
    <3> QED
      BY <3>2, <3>3
  <2>5. NothingLost(s)'
    BY <2>4 DEF NothingLost
  <2> QED
    BY <2>2, <2>5 DEF Ledger
<1>3. ASSUME NEW e \in EventIds, Reject(s, e)
      PROVE  Ledger(s)'
  <2>1. /\ inflight'[s] = inflight[s] \ {e}
        /\ answer'[s] = (IF posting[s] /\ Head(queue[s]) = e THEN "rejected" ELSE answer[s])
        /\ UNCHANGED <<failed, seenEvents, seenCalls, queue, posting, recorded, reported>>
    BY <1>3 DEF Reject, Answer
  <2>2. SeenOnce(s)' /\ QueueInOrder(s)' /\ PostedOnce(s)' /\ AnswersAreTrue(s)'
    BY <2>1 DEF Ledger, SeenOnce, QueueInOrder, PostedOnce, AnswersAreTrue, Stored
  <2>3. NothingLost(s)'
    BY <2>1 DEF Ledger, NothingLost, Queued, Stored
  <2> QED
    BY <2>2, <2>3 DEF Ledger
<1>4. CASE Send(s)
  <2>1. /\ ~ posting[s] /\ posting'[s] /\ queue[s] # <<>>
        /\ inflight'[s] = inflight[s] \cup {Head(queue[s])}
        /\ UNCHANGED <<failed, seenEvents, seenCalls, queue, answer, recorded, reported>>
    BY <1>4 DEF Send
  <2>2. Head(queue[s]) = queue[s][1] /\ 1 \in 1..Len(queue[s])
    BY <2>1, EmptySeq, LenProperties
  <2>3. SeenOnce(s)'
    BY <2>1 DEF Ledger, SeenOnce
  <2>4. QueueInOrder(s)'
    BY <2>1, <2>2 DEF Ledger, QueueInOrder, Stored
  <2>5. PostedOnce(s)'
    BY <2>1, <2>2 DEF Ledger, QueueInOrder, PostedOnce, Stored
  <2>6. AnswersAreTrue(s)'
    BY <2>1 DEF Ledger, AnswersAreTrue
  <2>7. NothingLost(s)'
    BY <2>1 DEF Ledger, NothingLost, Queued, Stored
  <2> QED
    BY <2>3, <2>4, <2>5, <2>6, <2>7 DEF Ledger
<1> QED
  BY <1>1, <1>2, <1>3, <1>4, EnqueueLedger, RecordLedger, SettledLedger DEF CaptureStep

LEMMA CaptureInvStep ==
    ASSUME CaptureInv, NEW s \in Sessions, CaptureStep(s)
    PROVE  CaptureInv'
<1>1. CaptureTypeOK'
  BY CaptureTypeStep DEF CaptureInv
<1>2. ASSUME NEW u \in Sessions
      PROVE  Ledger(u)'
  <2>1. CASE u = s
    BY <2>1, LedgerStep DEF CaptureInv
  <2>2. CASE u # s
    BY <2>2, CaptureAlone, SameLedger DEF CaptureInv
  <2> QED
    BY <2>1, <2>2
<1> QED
  BY <1>1, <1>2 DEF CaptureInv

\* A capture that stopped stays so; without a failure and with nothing queued it
\* has seen the end of its posts.
LEMMA StoppedStays ==
    ASSUME CaptureTypeOK, NEW s \in Sessions, CaptureStep(s), NEW u \in Sessions, Ledger(u),
           capture[u] = "stopped"
    PROVE  /\ capture'[u] = "stopped"
           /\ ~ failed[u] /\ queue[u] = <<>> => ~ failed'[u] /\ queue'[u] = <<>>
<1> USE DEF CaptureTypeOK
<1>1. CASE u # s
  BY <1>1, CaptureAlone DEF SameCapture
<1>2. CASE Attach(u) \/ Stop(u)
  BY <1>2 DEF Attach, Stop
<1>3. ASSUME NEW e \in EventIds, Enqueue(u, e) \/ Repeat(u, e) \/ Refuse(u, e)
      PROVE  FALSE
  BY <1>3 DEF Enqueue, Repeat, Refuse, Report
<1>4. ASSUME NEW e \in EventIds, Record(u, e) \/ Reject(u, e)
      PROVE  UNCHANGED <<capture, failed, queue>>
  BY <1>4 DEF Record, Reject
<1>5. CASE Send(u)
  BY <1>5 DEF Send
<1>6. CASE Acknowledge(u) \/ PostFails(u)
  <2>1. posting[u] /\ capture'[u] = "stopped"
    BY <1>6 DEF Acknowledge, PostFails, Settled
  <2> QED
    BY <2>1 DEF Ledger, QueueInOrder
<1> QED
  BY <1>1, <1>2, <1>3, <1>4, <1>5, <1>6 DEF CaptureStep

-----------------------------------------------------------------------------
(* Steps of the turns.                                                     *)

LEMMA CaptureCases ==
    ASSUME [Next]_vars
    PROVE  UNCHANGED captureVars \/ \E s \in Sessions : CaptureStep(s)
<1>1. CASE UNCHANGED vars
  BY <1>1 DEF vars
<1>2. ASSUME NEW t \in Turns, Capture(t) \/ Export(t)
      PROVE  CaptureStep(t)
  BY <1>2 DEF Capture, Export, Intake, Delivery, CaptureStep
<1>3. ASSUME NEW t \in Turns, Begin(t) \/ Cancel(t) \/ Reply(t) \/ ReplyFails(t)
      PROVE  UNCHANGED captureVars \/ CaptureStep(t)
  BY <1>3 DEF Begin, Cancel, Reply, ReplyFails, CaptureStep
<1>4. ASSUME NEW t \in Turns, TurnStep(t)
      PROVE  UNCHANGED captureVars \/ CaptureStep(t)
  BY <1>4 DEF TurnStep, CreateRun, StartTask, GetClient, OpenSession, AttachUsage, Interrupt,
              Detached, CloseTask, EndRun, ReportFailure, AbandonRun, Release, Disconnect,
              CaptureStep
<1>5. CASE ClientStep \/ Dispose
  BY <1>5 DEF ClientStep, ClientStarts, ClientFails, StopClient, Dispose
<1> QED
  BY <1>1, <1>2, <1>3, <1>4, <1>5 DEF Next, Turns

\* A step of a turn leaves the other turns alone.
SameTurn(u) ==
    /\ at'[u] = at[u] /\ run'[u] = run[u] /\ runKnown'[u] = runKnown[u]
    /\ task'[u] = task[u] /\ taskKnown'[u] = taskKnown[u] /\ session'[u] = session[u]

TurnTypeOK ==
    /\ at \in [Turns -> Places]
    /\ cancelled \in [Turns -> BOOLEAN]
    /\ run \in [Turns -> {"none", "open", "ended"}]
    /\ runKnown \in [Turns -> BOOLEAN]
    /\ task \in [Turns -> {"none", "open", "closed"}]
    /\ taskKnown \in [Turns -> BOOLEAN]
    /\ session \in [Turns -> {"none", "open", "closed"}]

\* What a turn does, apart from the capture and the CLI.
OwnStep(t) ==
    \/ Begin(t) \/ Cancel(t) \/ Reply(t) \/ ReplyFails(t)
    \/ TurnStep(t)

LEMMA TurnAlone ==
    ASSUME TurnTypeOK, NEW t \in Turns, OwnStep(t), NEW u \in Turns, u # t
    PROVE  SameTurn(u)
<1> USE DEF TurnTypeOK, SameTurn
<1>1. CASE Begin(t) \/ Cancel(t) \/ Reply(t) \/ ReplyFails(t)
  BY <1>1 DEF Begin, Cancel, Reply, ReplyFails, Goto, Catch
<1>2. CASE CreateRun(t) \/ StartTask(t) \/ GetClient(t) \/ OpenSession(t) \/ AttachUsage(t)
  BY <1>2 DEF CreateRun, StartTask, GetClient, OpenSession, AttachUsage, Goto, Catch
<1>3. CASE Interrupt(t) \/ Detached(t) \/ CloseTask(t) \/ EndRun(t)
  BY <1>3 DEF Interrupt, Detached, CloseTask, EndRun, Goto, Catch
<1>4. CASE ReportFailure(t) \/ AbandonRun(t) \/ Release(t) \/ Disconnect(t)
  BY <1>4 DEF ReportFailure, AbandonRun, Release, Disconnect, Goto, Catch
<1> QED
  BY <1>1, <1>2, <1>3, <1>4 DEF OwnStep, TurnStep

LEMMA TurnTypeStep ==
    ASSUME TurnTypeOK, NEW t \in Turns, OwnStep(t)
    PROVE  TurnTypeOK'
<1> USE DEF TurnTypeOK, Places, At, Goto, Catch
<1>1. CASE Begin(t) \/ Cancel(t) \/ Reply(t) \/ ReplyFails(t)
  BY <1>1 DEF Begin, Cancel, Reply, ReplyFails
<1>2. CASE CreateRun(t)
  <2>1. \E place \in Places : at' = [at EXCEPT ![t] = place]
    BY <1>2 DEF CreateRun
  <2>2. \E effect \in {"none", "open"} : run' = [run EXCEPT ![t] = effect]
    BY <1>2 DEF CreateRun
  <2>3. runKnown' \in [Turns -> BOOLEAN]
    BY <1>2 DEF CreateRun
  <2>4. at' \in [Turns -> Places]
    BY <2>1
  <2>5. run' \in [Turns -> {"none", "open", "ended"}]
    BY <2>2
  <2>6. UNCHANGED <<cancelled, task, taskKnown, session>>
    BY <1>2 DEF CreateRun
  <2> QED
    BY <2>3, <2>4, <2>5, <2>6
<1>3. CASE StartTask(t)
  <2>1. \E place \in Places : at' = [at EXCEPT ![t] = place]
    BY <1>3 DEF StartTask
  <2>2. \E effect \in {"none", "open"} : task' = [task EXCEPT ![t] = effect]
    BY <1>3 DEF StartTask
  <2>3. taskKnown' \in [Turns -> BOOLEAN]
    BY <1>3 DEF StartTask
  <2>4. at' \in [Turns -> Places]
    BY <2>1
  <2>5. task' \in [Turns -> {"none", "open", "closed"}]
    BY <2>2
  <2>6. UNCHANGED <<cancelled, run, runKnown, session>>
    BY <1>3 DEF StartTask
  <2> QED
    BY <2>3, <2>4, <2>5, <2>6
<1>4. CASE GetClient(t)
  BY <1>4 DEF GetClient
<1>5. CASE OpenSession(t) \/ AttachUsage(t)
  BY <1>5 DEF OpenSession, AttachUsage
<1>6. CASE Interrupt(t) \/ Detached(t)
  BY <1>6 DEF Interrupt, Detached
<1>7. CASE CloseTask(t) \/ EndRun(t)
  <2>1. CASE CloseTask(t)
    BY <2>1 DEF CloseTask
  <2>2. CASE EndRun(t)
    BY <2>2 DEF EndRun
  <2> QED
    BY <1>7, <2>1, <2>2
<1>8. CASE ReportFailure(t)
  <2>1. \E effect \in {task[t], "closed"} : task' = [task EXCEPT ![t] = effect]
    BY <1>8 DEF ReportFailure
  <2>2. task' \in [Turns -> {"none", "open", "closed"}]
    BY <2>1
  <2> QED
    BY <1>8, <2>2 DEF ReportFailure
<1>9. CASE AbandonRun(t) \/ Release(t) \/ Disconnect(t)
  BY <1>9 DEF AbandonRun, Release, Disconnect
<1> QED
  BY <1>1, <1>2, <1>3, <1>4, <1>5, <1>6, <1>7, <1>8, <1>9 DEF OwnStep, TurnStep

\* Places at which nothing about the capture is promised.
LEMMA ElsewhereInOrder ==
    ASSUME NEW u \in Turns,
           at'[u] \notin {"starting", "detaching", "closing", "ending", "ok", "abandoning"},
           run'[u] = "ended" /\ taskKnown'[u] => task'[u] = "closed"
    PROVE  TurnInOrder(u)'
  BY DEF TurnInOrder, At

LEMMA OtherInOrder ==
    ASSUME CaptureInv, TurnTypeOK, [Next]_vars, NEW u \in Turns, SameTurn(u), TurnInOrder(u)
    PROVE  TurnInOrder(u)'
<1>1. /\ capture[u] = "stopped" => capture'[u] = "stopped"
      /\ capture[u] = "stopped" /\ ~ failed[u] /\ queue[u] = <<>> =>
            ~ failed'[u] /\ queue'[u] = <<>>
  BY CaptureCases, StoppedStays DEF CaptureInv, captureVars, Turns
<1> QED
  BY <1>1 DEF SameTurn, TurnInOrder, At

LEMMA OwnInOrder ==
    ASSUME CaptureInv, TurnTypeOK, NEW u \in Turns, OwnStep(u), TurnInOrder(u)
    PROVE  TurnInOrder(u)'
<1> USE DEF TurnTypeOK, At, Goto, Catch
<1>1. CASE Begin(u)
  BY <1>1 DEF Begin, TurnInOrder
<1>2. CASE Cancel(u)
  BY <1>2 DEF Cancel, TurnInOrder, captureVars
<1>3. CASE Reply(u)
  <2>1. capture'[u] = "stopped" /\ at'[u] = "detaching"
    BY <1>3 DEF Reply, Stop, CaptureInv, CaptureTypeOK, Turns
  <2> QED
    BY <1>3, <2>1 DEF Reply, TurnInOrder
<1>4. CASE ReplyFails(u) \/ Interrupt(u)
  BY <1>4 DEF ReplyFails, Interrupt, TurnInOrder
<1>5. CASE CreateRun(u)
  <2>1. /\ (at'[u] = "starting" /\ run'[u] = "open") \/ at'[u] \in {"reporting", "releasing"}
        /\ run'[u] # "ended"
    BY <1>5 DEF CreateRun
  <2> QED
    BY <2>1 DEF TurnInOrder
<1>6. CASE StartTask(u)
  <2>1. /\ at'[u] \in {"client", "reporting", "releasing"}
        /\ run'[u] = "open"
    BY <1>6 DEF StartTask, TurnInOrder
  <2> QED
    BY <2>1, ElsewhereInOrder
<1>7. CASE GetClient(u)
  BY <1>7 DEF GetClient, TurnInOrder
<1>8. CASE OpenSession(u) \/ AttachUsage(u)
  BY <1>8 DEF OpenSession, AttachUsage, TurnInOrder
<1>9. CASE Detached(u)
  BY <1>9 DEF Detached, DetachFulfils, Flushed, TurnInOrder, captureVars
<1>10. CASE CloseTask(u)
  BY <1>10 DEF CloseTask, TurnInOrder, captureVars
<1>11. CASE EndRun(u)
  <2>1. task[u] = "closed" /\ UNCHANGED <<captureVars, task, taskKnown>>
    BY <1>11 DEF EndRun, TurnInOrder
  <2>2. CASE at'[u] = "ok" /\ run'[u] = "ended" /\ session'[u] = "closed"
    BY <1>11, <2>1, <2>2 DEF EndRun, TurnInOrder, captureVars
  <2>3. CASE at'[u] \in {"reporting", "releasing"}
    BY <2>1, <2>3, ElsewhereInOrder
  <2> QED
    BY <1>11, <2>2, <2>3 DEF EndRun
<1>12. CASE ReportFailure(u)
  <2>1. /\ UNCHANGED <<run, taskKnown>>
        /\ task'[u] = task[u] \/ task'[u] = (IF taskKnown[u] THEN "closed" ELSE task[u])
    BY <1>12 DEF ReportFailure
  <2>2. \/ /\ at'[u] = "abandoning"
           /\ task'[u] = (IF taskKnown[u] THEN "closed" ELSE task[u])
        \/ at'[u] = "releasing"
    BY <1>12 DEF ReportFailure
  <2> QED
    BY <2>1, <2>2 DEF TurnInOrder
<1>13. CASE AbandonRun(u)
  BY <1>13 DEF AbandonRun, TurnInOrder
<1>14. CASE Release(u) \/ Disconnect(u)
  BY <1>14 DEF Release, Disconnect, TurnInOrder
<1> QED
  BY <1>1, <1>2, <1>3, <1>4, <1>5, <1>6, <1>7, <1>8, <1>9, <1>10, <1>11, <1>12, <1>13, <1>14
     DEF OwnStep, TurnStep

-----------------------------------------------------------------------------
(* The CLI.                                                                *)

ClientTypeOK ==
    /\ client \in {"none", "pending", "ready"}
    /\ processes \in [starting : Nat, running : Nat]
    /\ disposal \in {"no", "waiting", "done"}

LEMMA TypeParts == TypeOK <=> CaptureTypeOK /\ TurnTypeOK /\ ClientTypeOK
  BY DEF TypeOK, TurnTypeOK, ClientTypeOK

\* A turn touches the CLI only to start it, and only if there is none.
LEMMA ClientCases ==
    ASSUME [Next]_vars
    PROVE  \/ UNCHANGED clientVars
           \/ /\ disposal = "no" /\ client = "none"
              /\ client' = "pending" /\ disposal' = disposal
              /\ processes' = [processes EXCEPT !.starting = @ + 1]
           \/ ClientStep
           \/ Dispose
<1>1. CASE UNCHANGED vars
  BY <1>1 DEF vars
<1>2. ASSUME NEW t \in Turns,
             Capture(t) \/ Export(t) \/ Begin(t) \/ Cancel(t) \/ Reply(t) \/ ReplyFails(t)
      PROVE  UNCHANGED clientVars
  BY <1>2 DEF Capture, Export, Begin, Cancel, Reply, ReplyFails
<1>3. ASSUME NEW t \in Turns, TurnStep(t), ~ GetClient(t)
      PROVE  UNCHANGED clientVars
  BY <1>3 DEF TurnStep, CreateRun, StartTask, OpenSession, AttachUsage, Interrupt, Detached,
              CloseTask, EndRun, ReportFailure, AbandonRun, Release, Disconnect
<1>4. ASSUME NEW t \in Turns, GetClient(t)
      PROVE  \/ UNCHANGED clientVars
             \/ /\ disposal = "no" /\ client = "none"
                /\ client' = "pending" /\ disposal' = disposal
                /\ processes' = [processes EXCEPT !.starting = @ + 1]
  BY <1>4 DEF GetClient, clientVars
<1> QED
  BY <1>1, <1>2, <1>3, <1>4 DEF Next

LEMMA ClientStepInv ==
    ASSUME ClientTypeOK, OneClient, [Next]_vars
    PROVE  ClientTypeOK' /\ OneClient'
<1> USE DEF ClientTypeOK, OneClient, NoStrayClient
<1>1. CASE UNCHANGED clientVars
  BY <1>1 DEF clientVars
<1>2. CASE /\ disposal = "no" /\ client = "none"
           /\ client' = "pending" /\ disposal' = disposal
           /\ processes' = [processes EXCEPT !.starting = @ + 1]
  BY <1>2
<1>3. CASE ClientStarts
  BY <1>3 DEF ClientStarts
<1>4. CASE ClientFails
  BY <1>4 DEF ClientFails
<1>5. CASE StopClient
  BY <1>5 DEF StopClient
<1>6. CASE Dispose
  BY <1>6 DEF Dispose
<1> QED
  BY <1>1, <1>2, <1>3, <1>4, <1>5, <1>6, ClientCases DEF ClientStep

-----------------------------------------------------------------------------
(* The theorems.                                                           *)

LEMMA IInvInit == Init => IInv
<1> SUFFICES ASSUME Init
             PROVE  IInv
  OBVIOUS
<1>1. TypeOK
  BY CaptureTypeInit DEF Init, TypeOK, Places
<1>2. ASSUME NEW s \in Sessions
      PROVE  Ledger(s)
  BY DEF Init, CaptureInit, Ledger, SeenOnce, QueueInOrder, PostedOnce, AnswersAreTrue,
         NothingLost
<1>3. \A t \in Turns : TurnInOrder(t)
  BY DEF Init, TurnInOrder, At
<1>4. OneClient
  BY DEF Init, OneClient, NoStrayClient
<1> QED
  BY <1>1, <1>2, <1>3, <1>4 DEF IInv, CaptureInv, TypeOK

LEMMA TypePartsNext ==
    CaptureTypeOK' /\ TurnTypeOK' /\ ClientTypeOK' => TypeOK'
  BY DEF TypeOK, TurnTypeOK, ClientTypeOK

LEMMA IInvStep == IInv /\ [Next]_vars => IInv'
<1> SUFFICES ASSUME IInv, [Next]_vars
             PROVE  IInv'
  OBVIOUS
<1>1. /\ CaptureInv /\ CaptureTypeOK /\ TurnTypeOK /\ ClientTypeOK /\ OneClient
      /\ \A t \in Turns : TurnInOrder(t)
  BY TypeParts DEF IInv
<1>2. CaptureInv'
  <2>1. CASE UNCHANGED captureVars
    <3>1. ASSUME NEW u \in Sessions
          PROVE  Ledger(u)'
      BY <1>1, <2>1, SameLedger DEF CaptureInv, SameCapture, captureVars
    <3> QED
      BY <1>1, <2>1, <3>1 DEF CaptureInv, CaptureTypeOK, captureVars
  <2> QED
    BY <1>1, <2>1, CaptureCases, CaptureInvStep
<1>3. ClientTypeOK' /\ OneClient'
  BY <1>1, ClientStepInv
<1>4. CASE UNCHANGED turnVars
  <2>1. TurnTypeOK'
    BY <1>1, <1>4 DEF TurnTypeOK, turnVars
  <2>2. ASSUME NEW u \in Turns
        PROVE  TurnInOrder(u)'
    BY <1>1, <1>4, OtherInOrder DEF SameTurn, turnVars
  <2> QED
    BY <1>2, <1>3, <2>1, <2>2, TypePartsNext DEF IInv, CaptureInv
<1>5. ASSUME NEW t \in Turns, OwnStep(t)
      PROVE  IInv'
  <2>1. TurnTypeOK'
    BY <1>1, <1>5, TurnTypeStep
  <2>2. ASSUME NEW u \in Turns
        PROVE  TurnInOrder(u)'
    BY <1>1, <1>5, TurnAlone, OtherInOrder, OwnInOrder
  <2> QED
    BY <1>2, <1>3, <2>1, <2>2, TypePartsNext DEF IInv, CaptureInv
<1>6. CASE ClientFails
  <2>1. /\ UNCHANGED <<captureVars, cancelled, run, runKnown, task, taskKnown, session>>
        /\ at' = [t \in Turns |-> IF at[t] # "waiting" THEN at[t]
                                  ELSE IF runKnown[t] THEN "reporting" ELSE "releasing"]
    BY <1>6 DEF ClientFails
  <2>2. TurnTypeOK'
    BY <1>1, <2>1 DEF TurnTypeOK, Places
  <2>3. ASSUME NEW u \in Turns
        PROVE  TurnInOrder(u)'
    BY <1>1, <2>1 DEF TurnInOrder, At, captureVars
  <2> QED
    BY <1>2, <1>3, <2>2, <2>3, TypePartsNext DEF IInv, CaptureInv
<1>7. CASE UNCHANGED vars
  BY <1>4, <1>7 DEF vars
<1>8. ASSUME NEW t \in Turns, Capture(t) \/ Export(t)
      PROVE  UNCHANGED turnVars
  BY <1>8 DEF Capture, Export
<1>9. CASE ClientStarts \/ StopClient \/ Dispose
  BY <1>4, <1>9 DEF ClientStarts, StopClient, Dispose
<1> QED
  BY <1>4, <1>5, <1>6, <1>7, <1>8, <1>9 DEF Next, ClientStep, OwnStep

LEMMA Inductive == Spec => []IInv
<1> QED
  BY IInvInit, IInvStep, PTL DEF Spec

\* Every variable keeps to its type, and no queue outgrows its limit.
THEOREM TypeCorrect == Spec => []TypeOK
<1>1. IInv => TypeOK
  BY DEF IInv
<1> QED
  BY <1>1, Inductive, PTL

\* The recorder never counts a call of the model twice, whatever the session
\* repeats and however late a post lands.
THEOREM CallsCountOnce == Spec => []RecordedOnce
<1>1. IInv => RecordedOnce
  BY DEF IInv, CaptureInv, Ledger, SeenOnce, PostedOnce, RecordedOnce
<1> QED
  BY <1>1, Inductive, PTL

LEMMA KeptInTurn ==
    ASSUME CaptureInv, NEW s \in Sessions, ~ failed[s], NEW e \in reported[s]
    PROVE  \E d \in EventIds : SameCall(d, e) /\ (Queued(s, d) \/ Stored(s, d))
<1>1. PICK d \in seenEvents[s] : SameCall(d, e)
  BY DEF CaptureInv, Ledger, NothingLost
<1>2. d \in EventIds /\ (Queued(s, d) \/ Stored(s, d))
  BY DEF CaptureInv, CaptureTypeOK, Ledger, NothingLost
<1> QED
  BY <1>1, <1>2

LEMMA PlacesInSets ==
    ASSUME CaptureTypeOK, NEW s \in Sessions, NEW d
    PROVE  /\ Queued(s, d) => d \in ToSet(queue[s])
           /\ Stored(s, d) => d \in ToSet(recorded[s])
<1>1. DOMAIN queue[s] = 1..Len(queue[s]) /\ DOMAIN recorded[s] = 1..Len(recorded[s])
  BY LenProperties DEF CaptureTypeOK
<1> QED
  BY <1>1 DEF Queued, Stored, ToSet

\* While the capture reports no failure, every call that its session reported is
\* recorded or queued.
THEOREM LossIsReported == Spec => []NoSilentLoss
<1>1. IInv => NoSilentLoss
  <2> SUFFICES ASSUME IInv, NEW s \in Sessions, ~ failed[s], NEW e \in reported[s]
               PROVE  \E d \in ToSet(queue[s]) \cup ToSet(recorded[s]) : SameCall(d, e)
    BY DEF NoSilentLoss
  <2> QED
    BY KeptInTurn, PlacesInSets DEF IInv, CaptureInv
<1> QED
  BY <1>1, Inductive, PTL

\* A turn that ends well has completed its run, closed its task, and recorded
\* every call that its session reported.
THEOREM GoodTurnsAreComplete == Spec => []GoodTurnIsComplete
<1>1. IInv => GoodTurnIsComplete
  <2> SUFFICES ASSUME IInv, NEW t \in Turns, At(t, "ok")
               PROVE  /\ run[t] = "ended" /\ task[t] = "closed" /\ session[t] = "closed"
                      /\ \A e \in reported[t] : \E d \in ToSet(recorded[t]) : SameCall(d, e)
    BY DEF GoodTurnIsComplete
  <2>1. /\ run[t] = "ended" /\ task[t] = "closed" /\ session[t] = "closed"
        /\ ~ failed[t] /\ queue[t] = <<>>
    BY DEF IInv, TurnInOrder, At
  <2>2. \A d : ~ Queued(t, d)
    BY <2>1, EmptySeq DEF Queued
  <2> QED
    BY <2>1, <2>2, KeptInTurn, PlacesInSets DEF IInv, CaptureInv, Turns
<1> QED
  BY <1>1, Inductive, PTL

\* A run is not completed around a task that its turn knows to be open.
THEOREM RunsEndAfterTasks == Spec => []EndedRunClosesTask
<1>1. IInv => EndedRunClosesTask
  BY DEF IInv, TurnInOrder, EndedRunClosesTask
<1> QED
  BY <1>1, Inductive, PTL

\* A runtime that was stopped has no CLI, and starts none.
THEOREM DisposalIsFinal == Spec => []NoStrayClient
<1>1. IInv => NoStrayClient
  BY DEF IInv, OneClient
<1> QED
  BY <1>1, Inductive, PTL
=============================================================================
