------------------------------ MODULE NewQueue ------------------------------
(***************************************************************************)
(* A message of a newly registered queue against the configuration cache:  *)
(* ConfigStore composed with the receives of one message of queue NewArn,  *)
(* which reaches its replay queue after the deployment wrote the queue's   *)
(* parameter.  The environments also serve other queues, so a cache may    *)
(* have been loaded just before.  A message without configuration is       *)
(* reported as failed (lib.rs:80-87): each such receive is one of the      *)
(* maxReceiveCount the redrive policy allows (sqs-queue-with-replay.ts).   *)
(***************************************************************************)
EXTENDS ConfigStore

CONSTANTS
  NewArn,             \* the queue that is being registered
  VisibilityTimeout,  \* of its replay queue, in ticks
  MaxReceive,         \* maxReceiveCount of its replay queue
  NoOne

ASSUME NewQueueAssumption ==
  /\ NewArn \in Arns
  /\ VisibilityTimeout \in Nat \ {0} /\ MaxReceive \in Nat \ {0}
  /\ NoOne \notin Envs

VARIABLES
  place,      \* where the message is
  receives,   \* how often it was received
  visibleAt,  \* when its visibility timeout ends
  handler     \* the environment working on it

messageVars == <<place, receives, visibleAt, handler>>
newQueueVars == <<vars, place, receives, visibleAt, handler>>

NewQueueTypeOK ==
  /\ TypeOK
  /\ place \in {"replay", "replayed", "dead"}
  /\ receives \in 0..MaxReceive
  /\ visibleAt \in 0..(MaxNow + VisibilityTimeout)
  /\ handler \in Envs \cup {NoOne}

\* The queue is not registered yet and its first message is still on its way.
NewQueueInit ==
  /\ Init
  /\ params = [n \in Names |-> Absent]
  /\ place = "replay" /\ receives = 0 /\ visibleAt = 0 /\ handler = NoOne

\* handle, once the configuration is looked up: the message is replayed, or
\* reported and left to reappear.
Settle(result) ==
  /\ place' = IF result \in Versions THEN "replayed" ELSE place
  /\ handler' = NoOne
  /\ UNCHANGED <<receives, visibleAt>>

\* Mutant: no visibility timeout, and one receive too many.
ReceivableAtOnce ==
  /\ place = "replay" /\ handler = NoOne
  /\ Effective(params, NewArn) # NoConfig
  /\ receives <= MaxReceive

Receivable ==
  /\ place = "replay" /\ handler = NoOne
  /\ Effective(params, NewArn) # NoConfig
  /\ now >= visibleAt /\ receives < MaxReceive

\* The message is received and its configuration is cached, or a refresh starts.
ReceiveCached(e) ==
  /\ Receivable
  /\ Lookup(e, NewArn)
  /\ place' = IF answer'[e].result \in Versions THEN "replayed" ELSE place
  /\ receives' = receives + 1
  /\ visibleAt' = now + VisibilityTimeout
  /\ UNCHANGED handler

ReceiveCold(e) ==
  /\ Receivable
  /\ Begin(e, NewArn)
  /\ receives' = receives + 1
  /\ visibleAt' = now + VisibilityTimeout
  /\ handler' = e
  /\ UNCHANGED place

\* Messages of other queues make an environment look up, too.
OtherLookup(e) ==
  /\ \E a \in Arns \ {NewArn} : Begin(e, a)
  /\ UNCHANGED messageVars

Answered(e) ==
  /\ Install(e)
  /\ IF handler = e THEN Settle(answer'[e].result) ELSE UNCHANGED messageVars

\* The lookup fails, or the environment is killed, and the message with it.
Unanswered(e) ==
  /\ PageFails(e) \/ Kill(e)
  /\ IF handler = e THEN Settle(Failed) ELSE UNCHANGED messageVars

\* The redrive policy of the replay queue.
GiveUp ==
  /\ place = "replay" /\ handler = NoOne
  /\ receives = MaxReceive /\ now >= visibleAt
  /\ place' = "dead"
  /\ UNCHANGED <<vars, receives, visibleAt, handler>>

\* The deployment writes the queue's parameter.
Register(n, v) ==
  /\ Effective(params, NewArn) = NoConfig
  /\ Write(n, [arn |-> NewArn, version |-> v])
  /\ UNCHANGED messageVars

NewQueueNext ==
  \/ Tick /\ UNCHANGED messageVars
  \/ \E n \in Names, v \in Versions : Register(n, v)
  \/ \E e \in Envs :
       \/ ReceiveCached(e) \/ ReceiveCold(e) \/ OtherLookup(e)
       \/ Answered(e) \/ Unanswered(e)
       \/ (ReadPage(e) /\ UNCHANGED messageVars)
  \/ GiveUp

NewQueueSpec == NewQueueInit /\ [][NewQueueNext]_newQueueVars

-----------------------------------------------------------------------------
\* New queues are picked up (README.md:69): a message of a registered queue is
\* given up unsent only when something failed, although absence is cached
\* (config.rs:104) and each receive meanwhile is spent.  It needs
\* (maxReceiveCount - 1) * visibilityTimeout >= ttl + the function's timeout:
\* the defaults have 4 * 18 s = 72 s against 60 s + 10 s.
NewQueuePickedUp == place = "dead" => faults > 0
=============================================================================
