--------------------------- MODULE ReplayHandler ---------------------------
(***************************************************************************)
(* The replayer Lambda: `handle` (lib.rs) and what it calls in replay.rs,  *)
(* run by any number of execution environments, with the queues of         *)
(* SqsChain around it.  Each environment runs one invocation at a time     *)
(* (main.rs) and keeps a configuration cache between invocations.          *)
(*                                                                         *)
(* The awaits of the code are the boundaries of the actions: resolving a   *)
(* configuration, each effect of a SendMessageBatch call, and the answer   *)
(* of that call are steps of their own, because other environments, SQS    *)
(* and deployments run between them.  When a cached configuration is stale *)
(* is the subject of ConfigStore; here it may be used or refreshed at will.*)
(***************************************************************************)
EXTENDS SqsChain

CONSTANTS
  Envs,        \* execution environments of the Lambda function
  BatchSize,   \* batchSize of the event source mapping
  MaxEntries,  \* MAX_ENTRIES of chunk_entries
  Limits,      \* the values of maxAttempts that deployments write
  Modulus,     \* 2^32 in the code: the width of the replay count
  NoConfig,    \* no parameter registers the replay queue
  Cold,        \* the cache of an environment that has not loaded anything
  Unresolved,  \* a queue whose configuration is not looked up yet
  MaxFaults,   \* bound: failures of the environment
  MaxDeploys   \* bound: changes of the registered configurations

Setting == [destination : Chains, maxAttempts : Limits]

ASSUME HandlerAssumption ==
  /\ BatchSize \in Nat \ {0} /\ MaxEntries \in Nat \ {0} /\ Modulus \in Nat \ {0}
  /\ Limits \subseteq Nat \ {0} /\ Limits # {}
  /\ \A n \in StartCounts : n < Modulus
  /\ NoConfig \notin Setting /\ Unresolved \notin Setting /\ Unresolved # NoConfig
  /\ Cold \notin [Chains -> Setting \cup {NoConfig}]
  /\ MaxFaults \in Nat /\ MaxDeploys \in Nat

VARIABLES
  registry,  \* SSM Parameter Store: the configuration of each replay queue
  cache,     \* ConfigStore.cache of each environment
  inv,       \* the invocation each environment runs
  faults,    \* failures so far
  deploys    \* configuration changes so far

handlerVars == <<registry, cache, inv, faults, deploys>>
vars == <<msg, sent, hidden, acked, registry, cache, inv, faults, deploys>>

Registered == Setting \cup {NoConfig}

\* A SendMessageBatch call: the queue it goes to, its entries, those SQS has not
\* decided on yet, and those it refused.
Call == [destination : Chains, entries : SUBSET Copies,
         left : SUBSET Copies, refused : SUBSET Copies]

Invocation == [phase : {"idle", "resolving", "sending"}, batch : SUBSET Copies,
               resolved : [Chains -> Registered \cup {Unresolved}],
               failures : SUBSET Copies, calls : SUBSET Call]

NothingResolved == [ch \in Chains |-> Unresolved]

Idle == [phase |-> "idle", batch |-> {}, resolved |-> NothingResolved,
         failures |-> {}, calls |-> {}]

\* What an SqsReplayer construct writes for the chain it belongs to.
ConfigOf(ch, m) == [destination |-> ch, maxAttempts |-> m]

TypeOK ==
  /\ ChainTypeOK
  /\ registry \in [Chains -> Registered]
  /\ cache \in [Envs -> [Chains -> Registered] \cup {Cold}]
  /\ inv \in [Envs -> Invocation]
  /\ faults \in 0..MaxFaults
  /\ deploys \in 0..MaxDeploys

Init ==
  /\ ChainInit
  /\ registry \in [Chains -> Registered]
  /\ \A ch \in Chains : registry[ch] # NoConfig => registry[ch].destination = ch
  /\ cache = [e \in Envs |-> Cold]
  /\ inv = [e \in Envs |-> Idle]
  /\ faults = 0
  /\ deploys = 0

\* One more failure of something outside the code.
Fault == faults < MaxFaults /\ faults' = faults + 1

-----------------------------------------------------------------------------
(* Deployments and execution environments *)

\* A deployment registers a replay queue or changes its attempt limit.
Deploy(ch, m) ==
  /\ deploys < MaxDeploys
  /\ registry[ch] # ConfigOf(ch, m)
  /\ registry' = [registry EXCEPT ![ch] = ConfigOf(ch, m)]
  /\ deploys' = deploys + 1
  /\ UNCHANGED <<msg, sent, hidden, acked, cache, inv, faults>>

\* The service replaces an idle environment; the next one starts cold.
Recycle(e) ==
  /\ inv[e].phase = "idle"
  /\ cache[e] # Cold
  /\ cache' = [cache EXCEPT ![e] = Cold]
  /\ UNCHANGED <<msg, sent, hidden, acked, registry, inv, faults, deploys>>

\* Mutant: the redrive policy allows one receive too many.
ReceiveOnceMore(e, B) ==
  /\ inv[e].phase = "idle"
  /\ B # {} /\ Cardinality(B) <= BatchSize
  /\ \A c \in B : Visible(c) /\ msg[c].receives <= MaxReceive
  /\ msg' = [c \in Copies |-> IF c \in B THEN [msg[c] EXCEPT !.receives = @ + 1]
                                         ELSE msg[c]]
  /\ hidden' = hidden \cup B
  /\ inv' = [inv EXCEPT ![e] = [Idle EXCEPT !.phase = "resolving", !.batch = B]]
  /\ UNCHANGED <<sent, acked, registry, cache, faults, deploys>>

\* The event source mapping receives messages and invokes the Lambda with them.
Receive(e, B) ==
  /\ inv[e].phase = "idle"
  /\ B # {} /\ Cardinality(B) <= BatchSize
  /\ \A c \in B : Visible(c) /\ msg[c].receives < MaxReceive
  /\ msg' = [c \in Copies |-> IF c \in B THEN [msg[c] EXCEPT !.receives = @ + 1]
                                         ELSE msg[c]]
  /\ hidden' = hidden \cup B
  /\ inv' = [inv EXCEPT ![e] = [Idle EXCEPT !.phase = "resolving", !.batch = B]]
  /\ UNCHANGED <<sent, acked, registry, cache, faults, deploys>>

-----------------------------------------------------------------------------
(* handle: one lookup per distinct eventSourceARN, under the store's lock *)

ToResolve(e) == {msg[c].chain : c \in {b \in inv[e].batch : msg[b].shape # "noArn"}}

Pending(e, ch) ==
  /\ inv[e].phase = "resolving"
  /\ ch \in ToResolve(e)
  /\ inv[e].resolved[ch] = Unresolved

ResolveCached(e, ch) ==
  /\ Pending(e, ch)
  /\ cache[e] # Cold
  /\ inv' = [inv EXCEPT ![e].resolved[ch] = cache[e][ch]]
  /\ UNCHANGED <<msg, sent, hidden, acked, registry, cache, faults, deploys>>

ResolveRefreshed(e, ch) ==
  /\ Pending(e, ch)
  /\ cache' = [cache EXCEPT ![e] = registry]
  /\ inv' = [inv EXCEPT ![e].resolved[ch] = registry[ch]]
  /\ UNCHANGED <<msg, sent, hidden, acked, registry, faults, deploys>>

\* SSM cannot be read: the invocation fails as a whole, nothing is sent or
\* deleted, and a cache loaded earlier stays.
ResolveFailed(e, ch) ==
  /\ Pending(e, ch)
  /\ Fault
  /\ inv' = [inv EXCEPT ![e] = Idle]
  /\ UNCHANGED <<msg, sent, hidden, acked, registry, cache, deploys>>

-----------------------------------------------------------------------------
(* handle: the replay requests and the calls that carry them *)

\* Mutant: the replay count is copied, not incremented.
SameCount(c) == msg[c].count

\* `replay_num += 1` on a u32, in a release build.
NextCount(c) == (msg[c].count + 1) % Modulus

\* Mutants: the limit compared before the increment, and with >= for >.
ReplayableOnceMore(c, setting) ==
  /\ msg[c].shape \in {"plain", "noId"}
  /\ setting # NoConfig
  /\ msg[c].count <= setting.maxAttempts

ReplayableOnceLess(c, setting) ==
  /\ msg[c].shape \in {"plain", "noId"}
  /\ setting # NoConfig
  /\ NextCount(c) < setting.maxAttempts

\* build_replay_request returns a request for the record.
Replayable(c, setting) ==
  /\ msg[c].shape \in {"plain", "noId"}
  /\ setting # NoConfig
  /\ NextCount(c) <= setting.maxAttempts

\* The requests that are sent: a record without a message id is passed over.
Sends(e) == {c \in inv[e].batch : /\ msg[c].shape # "noId"
                                  /\ Replayable(c, inv[e].resolved[msg[c].chain])}

\* Mutant: a malformed record is logged and passed over, not reported.
RejectedUnlessMalformed(e) ==
  {c \in inv[e].batch \ Sends(e) : msg[c].shape \notin {"noId", "badCount"}}

\* push_failure drops the failures of records without a message id.
Rejected(e) == {c \in inv[e].batch \ Sends(e) : msg[c].shape # "noId"}

Destination(e, c) == inv[e].resolved[msg[c].chain].destination

NewCall(url, C) == [destination |-> url, entries |-> C, left |-> C, refused |-> {}]

\* Mutant: the requests are not grouped by destination.
ChunksUngrouped(e) ==
  {P \in SUBSET {C \in SUBSET Sends(e) : C # {}} :
     /\ UNION P = Sends(e)
     /\ \A C \in P : Cardinality(C) <= MaxEntries
     /\ \A C, D \in P : C = D \/ C \cap D = {}}

\* chunk_entries: one destination per call and at most MaxEntries entries.  Where
\* the bodies make it cut is left open.
Chunks(e) ==
  {P \in SUBSET {C \in SUBSET Sends(e) : C # {}} :
     /\ UNION P = Sends(e)
     /\ \A C \in P : Cardinality(C) <= MaxEntries
     /\ \A C, D \in P : C = D \/ C \cap D = {}
     /\ \A C \in P : \A c, d \in C : Destination(e, c) = Destination(e, d)}

Build(e) ==
  /\ inv[e].phase = "resolving"
  /\ \A ch \in ToResolve(e) : inv[e].resolved[ch] # Unresolved
  /\ \E P \in Chunks(e) :
       inv' = [inv EXCEPT
         ![e].phase = "sending",
         ![e].failures = Rejected(e),
         ![e].calls = {NewCall(Destination(e, CHOOSE c \in C : TRUE), C) : C \in P}]
  /\ UNCHANGED <<msg, sent, hidden, acked, registry, cache, faults, deploys>>

-----------------------------------------------------------------------------
(* SendMessageBatch: the calls of an invocation run concurrently *)

Replace(e, old, new) == [inv EXCEPT ![e].calls = (@ \ {old}) \cup {new}]

Decided(call, c) == [call EXCEPT !.left = @ \ {c}]

\* SQS accepts an entry: the copy it stores carries the request's body and count.
ReplayOf(c, url) ==
  [place |-> "source", chain |-> url, body |-> msg[c].body, count |-> NextCount(c),
   shape |-> "plain", parent |-> c, receives |-> 0]

AcceptEntry(e, call, c) ==
  /\ call \in inv[e].calls /\ c \in call.left
  /\ sent < MaxCopies
  /\ sent' = sent + 1
  /\ msg' = [msg EXCEPT ![sent + 1] = ReplayOf(c, call.destination)]
  /\ inv' = Replace(e, call, Decided(call, c))
  /\ UNCHANGED <<hidden, acked, registry, cache, faults, deploys>>

\* SQS lists the entry among the failed ones.
RefuseEntry(e, call, c) ==
  /\ call \in inv[e].calls /\ c \in call.left
  /\ Fault
  /\ inv' = Replace(e, call, [Decided(call, c) EXCEPT !.refused = @ \cup {c}])
  /\ UNCHANGED <<msg, sent, hidden, acked, registry, cache, deploys>>

\* send_chunk returns: with the entries SQS refused, or with all of them when the
\* call itself failed, whatever SQS had accepted by then.
Return(e, call, failed) ==
  inv' = [inv EXCEPT ![e].calls = @ \ {call}, ![e].failures = @ \cup failed]

\* Mutant: the entries SQS lists as failed are not looked at.
CallAnsweredUnread(e, call) ==
  /\ call \in inv[e].calls /\ call.left = {}
  /\ Return(e, call, {})
  /\ UNCHANGED <<msg, sent, hidden, acked, registry, cache, faults, deploys>>

CallAnswered(e, call) ==
  /\ call \in inv[e].calls /\ call.left = {}
  /\ Return(e, call, call.refused)
  /\ UNCHANGED <<msg, sent, hidden, acked, registry, cache, faults, deploys>>

\* Mutant: a failed call is logged, its messages are not reported.
CallFailedUnreported(e, call) ==
  /\ call \in inv[e].calls
  /\ Fault
  /\ Return(e, call, {})
  /\ UNCHANGED <<msg, sent, hidden, acked, registry, cache, deploys>>

CallFailed(e, call) ==
  /\ call \in inv[e].calls
  /\ Fault
  /\ Return(e, call, call.entries)
  /\ UNCHANGED <<msg, sent, hidden, acked, registry, cache, deploys>>

\* The answer is lost or late and the SDK's retry strategy sends the call again.
CallRetried(e, call) ==
  /\ call \in inv[e].calls
  /\ Fault
  /\ inv' = Replace(e, call, NewCall(call.destination, call.entries))
  /\ UNCHANGED <<msg, sent, hidden, acked, registry, cache, deploys>>

-----------------------------------------------------------------------------
(* The end of an invocation *)

\* Mutant: the response reports the whole batch.
RespondAllFailed(e) ==
  /\ inv[e].phase = "sending" /\ inv[e].calls = {}
  /\ inv' = [inv EXCEPT ![e] = Idle]
  /\ UNCHANGED <<msg, sent, hidden, acked, registry, cache, faults, deploys>>

\* The response: the event source mapping deletes what is not reported.
Respond(e) ==
  /\ inv[e].phase = "sending" /\ inv[e].calls = {}
  /\ acked' = acked \cup (inv[e].batch \ inv[e].failures)
  /\ inv' = [inv EXCEPT ![e] = Idle]
  /\ UNCHANGED <<msg, sent, hidden, registry, cache, faults, deploys>>

\* The environment is killed: out of memory, a panic, or the function's timeout.
Crash(e) ==
  /\ inv[e].phase # "idle"
  /\ Fault
  /\ inv' = [inv EXCEPT ![e] = Idle]
  /\ cache' = [cache EXCEPT ![e] = Cold]
  /\ UNCHANGED <<msg, sent, hidden, acked, registry, deploys>>

InHand(c) == c \in acked \/ \E e \in Envs : c \in inv[e].batch

-----------------------------------------------------------------------------
Queues ==
  /\ \E c \in Copies : \/ Consume(c) \/ RedriveToReplay(c) \/ DeadLetter(c) \/ Delete(c)
                       \/ (~InHand(c) /\ Reappear(c))
  /\ UNCHANGED handlerVars

\* A message comes back while it is being worked on, or its delete is lost.
QueueFault ==
  /\ \E c \in Copies : (InHand(c) /\ Reappear(c)) \/ DeleteLost(c)
  /\ Fault
  /\ UNCHANGED <<registry, cache, inv, deploys>>

Handler(e) ==
  \/ \E B \in SUBSET Copies : Receive(e, B)
  \/ \E ch \in Chains : ResolveCached(e, ch) \/ ResolveRefreshed(e, ch)
  \/ Build(e)
  \/ \E call \in inv[e].calls : \/ CallAnswered(e, call)
                                \/ \E c \in Copies : AcceptEntry(e, call, c)
  \/ Respond(e)

HandlerFault(e) ==
  \/ \E ch \in Chains : ResolveFailed(e, ch)
  \/ \E call \in inv[e].calls : \/ CallFailed(e, call) \/ CallRetried(e, call)
                                \/ \E c \in Copies : RefuseEntry(e, call, c)
  \/ Crash(e)

\* What happens when nothing fails and nobody deploys.
Progress == Queues \/ \E e \in Envs : Handler(e)

Next ==
  \/ Progress
  \/ QueueFault
  \/ \E e \in Envs : HandlerFault(e) \/ Recycle(e)
  \/ \E ch \in Chains, m \in Limits : Deploy(ch, m)

Spec == Init /\ [][Next]_vars

\* The queues, the event source mapping and the Lambda service keep going.
FairSpec == Spec /\ WF_vars(Progress)
-----------------------------------------------------------------------------
(* Properties *)

Children(c) == {d \in 1..sent : msg[d].parent = c}

Alive(c) == msg[c].place \in {"source", "replay", "dead", "consumed"}

\* No message is lost: once the event source mapping has deleted a copy, a later
\* copy with the same body is queued, dead-lettered or consumed.  It rests on
\* `handle` leaving unreported only what SQS accepted, across failed and repeated
\* calls, crashes and overlapping invocations (lib.rs:66-128, replay.rs:147-174).
NothingLost ==
  \A c \in 1..sent : msg[c].place = "deleted" =>
    \E d \in c+1..sent : msg[d].body = msg[c].body /\ Alive(d)

\* A replay goes back to the chain its message came from, although calls are
\* grouped by destination and one event may hold messages of several queues
\* (replay.rs:109-116, lib.rs:78-79).
ReplaysGoHome ==
  \A c \in 1..sent : \A d \in Children(c) : msg[d].chain = msg[c].chain

\* Along a line of replays the count goes up, and never beyond every limit that
\* was ever configured: the attempts of a message come to an end (replay.rs:49-54).
AttemptsBounded ==
  \A c \in 1..sent : \A d \in Children(c) :
    /\ msg[d].count > msg[c].count
    /\ \E m \in Limits : msg[d].count <= m

\* A well-formed message with attempts left reaches the dead-letter queue only
\* through at least maxReceiveCount failures: the handler never spends one of its
\* receives, nor one of another message of its batch, on its own account.
EarlyDeadLetterNeedsFaults ==
  \A c \in 1..sent :
    ( /\ msg[c].place = "dead" /\ msg[c].shape = "plain"
      /\ deploys = 0 /\ registry[msg[c].chain] # NoConfig
      /\ msg[c].count < registry[msg[c].chain].maxAttempts )
    => faults >= MaxReceive

\* Between building the requests and responding, every message of the batch is
\* accounted for: reported as a failure, in a call under way, or replayed.  This is
\* the doc of `handle` (lib.rs:32-33): what was not sent is reported.
BatchAccountedFor ==
  \A e \in Envs : inv[e].phase = "sending" =>
    \A c \in inv[e].batch :
      \/ c \in inv[e].failures
      \/ \E call \in inv[e].calls : c \in call.entries
      \/ Children(c) # {}

\* A message whose count has reached every limit that was ever configured is not
\* replayed: `None` "when the replay attempt limit has been exceeded"
\* (replay.rs:37-38, 49-54).
ExhaustedIsNotReplayed ==
  \A c \in 1..sent : (\A m \in Limits : msg[c].count >= m) => Children(c) = {}

\* A message is replayed a second time only after a failure (a lost answer, a
\* lost delete, a crash, an early redelivery): in a run without failures every
\* replay is made exactly once, whatever the environments do concurrently.
ReplayedTwiceNeedsFaults ==
  \A c \in 1..sent : Cardinality(Children(c)) <= 1 + faults

\* The promise of ReplayContract, with invocations, caches and visibility hidden:
\* every step of the system is a step of a message's life, or none
\* (lib.rs:40-129, replay.rs:45-174, sqs-queue-with-replay.ts:116-128).
Contract == INSTANCE ReplayContract WITH
  item <- [c \in Copies |-> [place |-> msg[c].place, chain |-> msg[c].chain,
                             body |-> msg[c].body, count |-> msg[c].count,
                             parent |-> msg[c].parent]]
KeepsContract == Contract!Spec

\* Why NothingLost holds: replays are younger than what they replay and carry the
\* same body; every entry of a call is undecided, refused or replayed; a message is
\* acknowledged only once it was replayed.
Replayed(c) == Children(c) # {}

Lineage ==
  \A d \in 1..sent : msg[d].parent # 0 =>
    msg[d].parent < d /\ msg[d].body = msg[msg[d].parent].body

CallsAccountedFor ==
  \A e \in Envs :
    /\ \A c \in inv[e].batch : c <= sent
    /\ inv[e].phase # "sending" => inv[e].calls = {}
    /\ \A call \in inv[e].calls :
         /\ call.entries \subseteq inv[e].batch /\ call.left \subseteq call.entries
         /\ \A c \in call.entries : c \in call.left \/ c \in call.refused \/ Replayed(c)

AckedWereReplayed == \A c \in acked : Replayed(c)

IInv == /\ TypeOK /\ Lineage /\ CallsAccountedFor /\ BatchAccountedFor
        /\ AckedWereReplayed /\ NothingLost

\* Every message ends consumed, dead-lettered, or deleted after its replay: no
\* message circles between the queues for ever.
Settled(c) == c > sent \/ msg[c].place \in {"consumed", "dead", "deleted"}
EveryMessageSettles == <>(\A c \in Copies : Settled(c))
=============================================================================
