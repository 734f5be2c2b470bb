--------------------------- MODULE NewQueueProofs ---------------------------
(***************************************************************************)
(* The first message of a new queue: theorems for any number of            *)
(* environments, queues and parameters, any time to live, timeout,         *)
(* visibility timeout and number of receives.                              *)
(*                                                                         *)
(* The argument counts visibility timeouts: before its k-th receive the    *)
(* message has waited for k - 1 of them since the queue was registered, so *)
(* at the last one what the cache knew before has expired, and a refresh   *)
(* begins after the registration.                                          *)
(***************************************************************************)
EXTENDS NewQueue, ConfigStoreProofs

\* The receives a message may spend outlast a cached absence.
Patient == VisibilityTimeout * (MaxReceive - 1) >= TTL + MaxRefresh

\* A received message has waited, since its queue was registered, for as many
\* visibility timeouts as it was received.
Waits ==
  place = "replay" /\ receives > 0 =>
    /\ Effective(params, NewArn) # NoConfig
    /\ visibleAt >= lastWrite[NewArn] + VisibilityTimeout * receives

\* An environment that works on the message looks its queue up since it received it.
Serves ==
  \A e \in Envs :
    handler = e => /\ place = "replay" /\ receives > 0
                   /\ reader[e].busy /\ reader[e].arn = NewArn
                   /\ visibleAt = reader[e].startedAt + VisibilityTimeout

\* The last receive is not over before the message is replayed.
LastSucceeds == place = "replay" /\ receives = MaxReceive => handler # NoOne

QInv ==
  /\ SInv
  /\ NewQueueTypeOK
  /\ lastWrite[NewArn] <= now
  /\ faults = 0 => Waits /\ Serves /\ LastSucceeds /\ place # "dead"

-----------------------------------------------------------------------------
(* Type correctness *)

LEMMA StepOfStore == ASSUME NewQueueNext PROVE [Next]_vars
<1>1. ASSUME NEW e \in Envs, ReceiveCached(e) \/ ReceiveCold(e) PROVE Next
  BY <1>1, NewQueueAssumption DEF ReceiveCached, ReceiveCold, Next
<1>2. ASSUME NEW e \in Envs, OtherLookup(e) PROVE Next
  BY <1>2 DEF OtherLookup, Next
<1>3. ASSUME NEW e \in Envs, Answered(e) \/ Unanswered(e) \/ ReadPage(e) PROVE Next
  BY <1>3 DEF Answered, Unanswered, Next
<1>4. ASSUME NEW n \in Names, NEW v \in Versions, Register(n, v) PROVE Next
  <2>1. [arn |-> NewArn, version |-> v] \in Value
    BY NewQueueAssumption DEF Value, Config
  <2>2. QED
    BY <1>4, <2>1 DEF Register, Next
<1>5. CASE Tick
  BY <1>5 DEF Next
<1>6. CASE GiveUp
  BY <1>6 DEF GiveUp
<1>7. QED
  BY <1>1, <1>2, <1>3, <1>4, <1>5, <1>6 DEF NewQueueNext

LEMMA QueueInitType == NewQueueInit => NewQueueTypeOK
<1>1. MaxReceive \in Nat /\ VisibilityTimeout \in Nat /\ MaxNow \in Nat
  BY NewQueueAssumption, StoreAssumption
<1>2. QED
  BY <1>1, StoreInitType DEF NewQueueInit, NewQueueTypeOK

LEMMA QueueNextType == ASSUME NewQueueTypeOK, [NewQueueNext]_newQueueVars PROVE NewQueueTypeOK'
<1>1. TypeOK'
  <2>1. [Next]_vars
    BY StepOfStore DEF newQueueVars
  <2>2. CASE UNCHANGED vars
    BY <2>2 DEF vars, NewQueueTypeOK, TypeOK
  <2>3. QED
    BY <2>1, <2>2, StoreNextType DEF NewQueueTypeOK
<1>2. /\ MaxReceive \in Nat /\ VisibilityTimeout \in Nat /\ now \in 0..MaxNow
      /\ MaxNow \in Nat
  BY NewQueueAssumption, StoreAssumption DEF NewQueueTypeOK, TypeOK
<1>3. ASSUME NEW e \in Envs, ReceiveCached(e) \/ ReceiveCold(e) PROVE NewQueueTypeOK'
  BY <1>1, <1>2, <1>3 DEF ReceiveCached, ReceiveCold, Receivable, NewQueueTypeOK
<1>4. ASSUME NEW e \in Envs, Answered(e) \/ Unanswered(e) PROVE NewQueueTypeOK'
  BY <1>1, <1>4 DEF Answered, Unanswered, Settle, messageVars, NewQueueTypeOK
<1>5. CASE GiveUp
  BY <1>1, <1>5 DEF GiveUp, NewQueueTypeOK
<1>6. CASE UNCHANGED messageVars
  BY <1>1, <1>6 DEF messageVars, NewQueueTypeOK
<1>7. QED
  BY <1>3, <1>4, <1>5, <1>6
  DEF NewQueueNext, OtherLookup, Register, newQueueVars, messageVars

\* In every reachable state, the message and the store have their types: a message
\* is never received more often than maxReceiveCount allows (sqs-queue-with-replay.ts:43).
THEOREM NewQueueTypeCorrect == NewQueueSpec => []NewQueueTypeOK
<1>1. NewQueueTypeOK /\ [NewQueueNext]_newQueueVars => NewQueueTypeOK'
  BY QueueNextType
<1>2. QED
  BY <1>1, QueueInitType, PTL DEF NewQueueSpec

-----------------------------------------------------------------------------
(* Counting visibility timeouts *)

LEMMA QueueNumbers ==
  ASSUME QInv
  PROVE  /\ now \in Nat /\ lastWrite[NewArn] \in Int /\ visibleAt \in Nat
         /\ receives \in Nat /\ receives <= MaxReceive /\ MaxReceive \in Nat \ {0}
         /\ VisibilityTimeout \in Nat \ {0} /\ TTL \in Nat \ {0} /\ MaxRefresh \in Nat
         /\ \A e \in Envs : reader[e] \in Reader /\ reader[e].startedAt \in Nat
BY NewQueueAssumption, StoreAssumption DEF QInv, NewQueueTypeOK, TypeOK, Reader

\* A receive starts no earlier than a visibility timeout after the one before.
LEMMA ReceiveIsLate ==
  ASSUME QInv, faults = 0, Receivable
  PROVE  now >= lastWrite[NewArn] + VisibilityTimeout * receives
<1>1. CASE receives = 0
  <2>1. VisibilityTimeout * receives = 0
    BY <1>1, QueueNumbers
  <2>2. QED
    BY <2>1, QueueNumbers DEF QInv
<1>2. CASE receives # 0
  <2>1. visibleAt >= lastWrite[NewArn] + VisibilityTimeout * receives
    BY <1>2, QueueNumbers DEF QInv, Waits, Receivable
  <2>2. VisibilityTimeout * receives \in Int
    BY QueueNumbers
  <2>3. QED
    BY <2>1, <2>2, QueueNumbers DEF Receivable
<1>3. QED
  BY <1>1, <1>2

\* One more receive, one more visibility timeout.
LEMMA WaitsAgain ==
  ASSUME QInv, faults = 0, Receivable, UNCHANGED <<params, lastWrite>>,
         receives' = receives + 1, visibleAt' = now + VisibilityTimeout
  PROVE  Waits'
<1>1. VisibilityTimeout * receives' = VisibilityTimeout * receives + VisibilityTimeout
  BY QueueNumbers, TimesNext
<1>2. VisibilityTimeout * receives \in Int
  BY QueueNumbers
<1>3. visibleAt' >= lastWrite[NewArn] + VisibilityTimeout * receives'
  BY <1>1, <1>2, ReceiveIsLate, QueueNumbers
<1>4. QED
  BY <1>3 DEF Waits, Receivable

\* The last receive finds nothing in a cache that predates the registration.
LEMMA LastReceiveIsAnswered ==
  ASSUME QInv, Patient, faults = 0, NEW e \in Envs, ReceiveCached(e),
         receives + 1 = MaxReceive
  PROVE  place' = "replayed"
<1>1. receives = MaxReceive - 1 /\ Lookup(e, NewArn) /\ Receivable
  BY QueueNumbers DEF ReceiveCached
<1>2. now - lastWrite[NewArn] >= TTL + MaxRefresh
  <2>1. VisibilityTimeout * receives \in Int
    BY QueueNumbers
  <2>2. VisibilityTimeout * receives >= TTL + MaxRefresh
    BY <1>1 DEF Patient
  <2>3. QED
    BY <1>1, <2>1, <2>2, ReceiveIsLate, QueueNumbers
<1>3. NewArn \in Arns /\ SInv
  BY NewQueueAssumption DEF QInv
<1>4. answer'[e].result = Effective(params, NewArn)
  <2>1. ASSUME answer'[e].result # Effective(params, NewArn) PROVE FALSE
    <3>1. now - lastWrite[NewArn] < TTL + MaxRefresh
      BY <1>1, <1>3, <2>1, RecentAnswer DEF Answers
    <3>2. QED
      BY <1>2, <3>1, QueueNumbers
  <2>2. QED
    BY <2>1
<1>5. Effective(params, NewArn) \in Versions
  BY <1>1, <1>3, EffectiveType DEF Receivable, SInv, TypeOK
<1>6. QED
  BY <1>4, <1>5 DEF ReceiveCached

\* A refresh begun at the last receive reads the registration.
LEMMA LastRefreshIsAnswered ==
  ASSUME QInv, Patient, faults = 0, NEW e \in Envs, Answered(e), handler = e,
         receives = MaxReceive
  PROVE  place' = "replayed"
<1>1. Install(e) /\ place' = IF answer'[e].result \in Versions THEN "replayed" ELSE place
  BY DEF Answered, Settle
<1>2. /\ receives > 0 /\ Effective(params, NewArn) # NoConfig /\ reader[e].arn = NewArn
      /\ visibleAt = reader[e].startedAt + VisibilityTimeout
      /\ visibleAt >= lastWrite[NewArn] + VisibilityTimeout * receives
  BY DEF QInv, Serves, Waits
<1>3. reader[e].startedAt > lastWrite[NewArn]
  <2>1. VisibilityTimeout * MaxReceive = VisibilityTimeout * (MaxReceive - 1) + VisibilityTimeout
    <3>1. MaxReceive - 1 \in Int /\ (MaxReceive - 1) + 1 = MaxReceive
      BY QueueNumbers
    <3>2. QED
      BY <3>1, QueueNumbers, TimesNext
  <2>2. VisibilityTimeout * (MaxReceive - 1) \in Int
    BY QueueNumbers
  <2>3. QED
    BY <1>2, <2>1, <2>2, QueueNumbers DEF Patient
<1>4. SInv /\ NewArn \in Arns
  BY NewQueueAssumption DEF QInv
<1>5. reader[e].configs[NewArn] = Effective(params, NewArn)
  <2>1. lastWrite[NewArn] < reader[e].startedAt
    BY <1>3, QueueNumbers
  <2>2. QED
    BY <1>1, <1>4, <2>1, AllRead DEF Install
<1>6. answer'[e].result = Effective(params, NewArn)
  BY <1>1, <1>2, <1>4, <1>5 DEF Install, Answer, SInv, TypeOK
<1>7. Effective(params, NewArn) \in Versions
  BY <1>2, <1>4, EffectiveType DEF SInv, TypeOK
<1>8. QED
  BY <1>1, <1>6, <1>7

-----------------------------------------------------------------------------
(* The inductive invariant *)

Served == Waits /\ Serves /\ LastSucceeds /\ place # "dead"

LEMMA QueueReceives ==
  ASSUME QInv, Patient, faults = 0, Served, NEW e \in Envs, ReceiveCached(e) \/ ReceiveCold(e)
  PROVE  Served'
<1>1. /\ Receivable /\ UNCHANGED <<params, lastWrite>> /\ receives' = receives + 1
      /\ visibleAt' = now + VisibilityTimeout
  BY DEF ReceiveCached, ReceiveCold, Lookup, Begin
<1>2. Waits'
  BY <1>1, WaitsAgain
<1>3. CASE ReceiveCached(e)
  <2>1. handler' = NoOne
    BY <1>1, <1>3 DEF ReceiveCached, Receivable
  <2>2. Serves'
    BY <2>1, NewQueueAssumption DEF Serves
  <2>3. LastSucceeds'
    BY <1>1, <1>3, LastReceiveIsAnswered DEF LastSucceeds
  <2>4. place' # "dead"
    BY <1>3 DEF ReceiveCached, Served
  <2>5. QED
    BY <1>2, <2>2, <2>3, <2>4 DEF Served
<1>4. CASE ReceiveCold(e)
  <2>1. reader'[e].busy /\ reader'[e].arn = NewArn /\ reader'[e].startedAt = now
    <3> DEFINE r == [Idle EXCEPT !.busy = TRUE, !.arn = NewArn, !.startedAt = now]
    <3>1. r.busy = TRUE /\ r.arn = NewArn /\ r.startedAt = now
      BY DEF Idle
    <3>2. reader' = [reader EXCEPT ![e] = r]
      BY <1>4 DEF ReceiveCold, Begin
    <3> HIDE DEF r
    <3>3. reader'[e] = r
      BY <3>2 DEF QInv, SInv, TypeOK
    <3>4. QED
      BY <3>1, <3>3
  <2>2. place' = "replay" /\ handler' = e /\ e # NoOne /\ receives' > 0
    BY <1>1, <1>4, NewQueueAssumption, QueueNumbers DEF ReceiveCold, Receivable
  <2>3. QED
    BY <1>1, <1>2, <2>1, <2>2 DEF Served, Serves, LastSucceeds
<1>5. QED
  BY <1>3, <1>4

LEMMA QueueAnswered ==
  ASSUME QInv, Patient, faults = 0, Served, NEW e \in Envs, Answered(e)
  PROVE  Served'
<1>1. /\ UNCHANGED <<params, lastWrite, receives, visibleAt>>
      /\ \A f \in Envs : f # e => reader'[f] = reader[f]
  BY DEF Answered, Install, Settle, messageVars, QInv, SInv, TypeOK
<1>2. CASE handler = e
  <2>1. handler' = NoOne /\ place' \in {place, "replayed"}
    BY <1>2 DEF Answered, Settle
  <2>2. receives = MaxReceive => place' = "replayed"
    BY <1>2, LastRefreshIsAnswered
  <2>3. Serves'
    BY <2>1, NewQueueAssumption DEF Serves
  <2>4. QED
    BY <1>1, <2>1, <2>2, <2>3 DEF Served, Waits, LastSucceeds
<1>3. CASE handler # e
  BY <1>1, <1>3 DEF Answered, messageVars, Served, Waits, Serves, LastSucceeds
<1>4. QED
  BY <1>2, <1>3

\* A lookup for another queue, a page, time and the registration leave the message
\* alone, and the registration comes before its first receive.
LEMMA QueueWaits ==
  ASSUME QInv, faults = 0, Served, UNCHANGED messageVars,
         \/ Tick
         \/ \E n \in Names, v \in Versions : Register(n, v)
         \/ \E e \in Envs : OtherLookup(e) \/ ReadPage(e)
  PROVE  Served'
<1>1. CASE Tick
  BY <1>1 DEF Tick, messageVars, Served, Waits, Serves, LastSucceeds
<1>2. ASSUME NEW n \in Names, NEW v \in Versions, Register(n, v) PROVE Served'
  <2>1. Effective(params, NewArn) = NoConfig /\ UNCHANGED reader
    BY <1>2 DEF Register, Write
  <2>2. ~(place = "replay" /\ receives > 0)
    BY <2>1 DEF Served, Waits
  <2>3. QED
    BY <2>1, <2>2 DEF messageVars, Served, Waits, Serves, LastSucceeds
<1>3. ASSUME NEW e \in Envs, OtherLookup(e) \/ ReadPage(e) PROVE Served'
  <2>1. /\ UNCHANGED <<params, lastWrite>>
        /\ \A f \in Envs : f # e => reader'[f] = reader[f]
    BY <1>3 DEF OtherLookup, Begin, ReadPage, QInv, SInv, TypeOK
  <2>2. CASE OtherLookup(e)
    <3>1. ~reader[e].busy
      BY <2>2 DEF OtherLookup, Begin
    <3>2. QED
      BY <2>1, <3>1 DEF messageVars, Served, Waits, Serves, LastSucceeds
  <2>3. CASE ReadPage(e)
    <3>1. reader'[e].busy = reader[e].busy /\ reader'[e].arn = reader[e].arn
          /\ reader'[e].startedAt = reader[e].startedAt
      <4>1. reader[e] \in Reader
        BY QueueNumbers
      <4>2. QED
        BY <2>3, <4>1 DEF ReadPage, QInv, SInv, TypeOK, Reader
    <3>2. QED
      BY <2>1, <3>1 DEF messageVars, Served, Waits, Serves, LastSucceeds
  <2>4. QED
    BY <1>3, <2>2, <2>3
<1>4. QED
  BY <1>1, <1>2, <1>3

LEMMA QInvInit == NewQueueInit => QInv
<1> SUFFICES ASSUME NewQueueInit PROVE QInv
  OBVIOUS
<1>1. SInv /\ NewQueueTypeOK
  BY SInvInit, QueueInitType DEF NewQueueInit
<1>2. lastWrite[NewArn] <= now
  <2>1. lastWrite[NewArn] = -(TTL + MaxRefresh) /\ now = 0
    BY NewQueueAssumption DEF NewQueueInit, Init
  <2>2. QED
    BY <2>1, StoreAssumption
<1>3. Waits /\ Serves /\ LastSucceeds /\ place # "dead"
  BY NewQueueAssumption DEF NewQueueInit, Waits, Serves, LastSucceeds
<1>4. QED
  BY <1>1, <1>2, <1>3 DEF QInv

\* Failures are counted: a step after which there was none is not one.
LEMMA FaultsGrow ==
  ASSUME QInv, NewQueueNext, faults' = 0
  PROVE  faults = 0 /\ \A e \in Envs : ~Unanswered(e)
<1>1. faults \in Nat
  BY StoreAssumption DEF QInv, SInv, TypeOK
<1>2. ASSUME NEW e \in Envs, Unanswered(e) PROVE FALSE
  BY <1>1, <1>2 DEF Unanswered, PageFails, Kill, Fault
<1>3. ASSUME Tick PROVE faults = 0
  BY <1>3 DEF Tick
<1>4. ASSUME NEW n \in Names, NEW v \in Versions, Register(n, v) PROVE faults = 0
  BY <1>4 DEF Register, Write
<1>5. ASSUME NEW e \in Envs,
             ReceiveCached(e) \/ ReceiveCold(e) \/ OtherLookup(e) \/ Answered(e) \/ ReadPage(e)
      PROVE  faults = 0
  BY <1>5 DEF ReceiveCached, ReceiveCold, OtherLookup, Answered, ReadPage, Install, Lookup, Begin
<1>6. ASSUME GiveUp PROVE faults = 0
  BY <1>6 DEF GiveUp, vars
<1>7. QED
  BY <1>2, <1>3, <1>4, <1>5, <1>6 DEF NewQueueNext

LEMMA QInvStep == ASSUME Patient, QInv, [NewQueueNext]_newQueueVars PROVE QInv'
<1>1. SInv'
  <2>1. [Next]_vars
    BY StepOfStore DEF newQueueVars
  <2>2. QED
    BY <2>1, SInvStep DEF QInv
<1>2. NewQueueTypeOK'
  BY QueueNextType DEF QInv
<1>3. lastWrite'[NewArn] <= now'
  <2>1. [Next]_vars
    BY StepOfStore DEF newQueueVars
  <2>2. CASE Tick
    BY <2>2, QueueNumbers DEF Tick, QInv
  <2>3. ASSUME NEW n \in Names, NEW v \in Value, Write(n, v) PROVE lastWrite'[NewArn] <= now'
    BY <2>3, QueueNumbers, NewQueueAssumption DEF Write, QInv
  <2>4. CASE UNCHANGED <<now, lastWrite>>
    BY <2>4 DEF QInv
  <2>5. QED
    BY <2>1, <2>2, <2>3, <2>4
    DEF Next, Lookup, Begin, ReadPage, Install, PageFails, Kill, vars
<1>4. ASSUME faults' = 0 PROVE Served'
  <2>1. CASE UNCHANGED newQueueVars
    BY <1>4, <2>1 DEF newQueueVars, vars, QInv, Served, Waits, Serves, LastSucceeds
  <2>2. CASE NewQueueNext
    <3>1. faults = 0 /\ Served /\ \A e \in Envs : ~Unanswered(e)
      BY <1>4, <2>2, FaultsGrow DEF QInv, Served
    <3>2. ~GiveUp
      BY <3>1 DEF GiveUp, Served, LastSucceeds
    <3>3. QED
      BY <2>2, <3>1, <3>2, QueueReceives, QueueAnswered, QueueWaits
      DEF NewQueueNext, OtherLookup, Register
  <2>3. QED
    BY <2>1, <2>2
<1>5. QED
  BY <1>1, <1>2, <1>3, <1>4 DEF QInv, Served

\* A message of a registered queue goes to the dead-letter queue unsent only when a
\* read of the parameters failed or an environment was killed, provided that the
\* visibility timeouts of its receives but one outlast the time to live of a cached
\* absence and one refresh (config.rs:104, lib.rs:80-87, README.md:69).
THEOREM NewQueuesPickedUp == Patient /\ NewQueueSpec => []NewQueuePickedUp
<1>1. QInv => NewQueuePickedUp
  <2>1. QInv => faults \in Nat
    BY StoreAssumption DEF QInv, SInv, TypeOK
  <2>2. QED
    BY <2>1 DEF QInv, NewQueuePickedUp
<1> SUFFICES ASSUME Patient PROVE NewQueueSpec => []NewQueuePickedUp
  OBVIOUS
<1>2. QInv /\ [NewQueueNext]_newQueueVars => QInv'
  BY QInvStep
<1>3. QED
  BY <1>1, <1>2, QInvInit, PTL DEF NewQueueSpec
=============================================================================
