# Verification of sqs-replay-backoff

TLA+ models of the replayer Lambda and the queues, configuration store and
deployments around it, TLC configurations that check them on small instances,
and TLAPS proofs of what holds for every instance. Paths are relative to the
repository (`src/` in the map of `PROJECT.json`).

## The system

A message that its consumer cannot process is moved by SQS from `Queue` to
`ReplayQueue`. An event source mapping hands batches of the replay queue to one
shared Lambda, which looks up the queue's configuration in SSM Parameter Store,
sends each message to `Queue` again with a growing delay and a count of replays,
and reports the messages it did not send. SQS deletes the messages that were not
reported; the others come back after their visibility timeout, and after
`maxReceiveCount` receives they go to `DeadLetterQueue`.

### Inventory

| Component | State | Operations | Talks to |
|---|---|---|---|
| Handler (`lambda/src/lib.rs`) | per invocation: resolved configurations, failures, requests | `handle`, `resolve_config`, `push_failure` | cache (under a mutex), SQS, event source mapping (its response) |
| Requests and sending (`lambda/src/replay.rs`) | none between invocations | `build_replay_request`, `chunk_entries`, `send_replay_batch`, `send_chunk`, attribute mapping | `SendMessageBatch`, calls run concurrently |
| Configuration cache (`lambda/src/config.rs`) | cache with load time, per environment | `config_for`, `refresh`, `resolve` | `GetParametersByPath`, page by page |
| Backoff (`lambda/src/backoff.rs`) | none | `backoff`, `backoff_with_jitter` | called when a request is built |
| Environment (`lambda/src/environment.rs`) | process constants | `parse` | defaults for `resolve` |
| Bootstrap (`lambda/src/main.rs`) | the environment's cache | one event at a time | Lambda service |
| Queue chain (`src/sqs-queue-with-replay.ts`) | three queues | redrive, visibility timeout | SQS |
| Registration (`src/sqs-replayer.ts`) | one SSM parameter and one event source mapping per replay queue | `constructor`, `validateTuning`, `sanitize` | CloudFormation, singleton |
| Shared Lambda (`src/sqs-replayer-singleton.ts`) | one function per stage | `of` | its environment names the path that registrations write |

### What is hard about it

* Several environments work at once, on overlapping sets of messages whenever a
  visibility timeout passes early; deployments change configurations meanwhile.
* Every remote effect can happen without its answer arriving: an accepted entry
  of a call that failed, a call repeated by the SDK, a killed environment, a
  delete that is lost. The design is at-least-once; what must never happen is a
  delete of a message that was not sent again.
* Each failure the handler reports or causes costs one of the message's
  `maxReceiveCount` receives; when they run out, the message is dead-lettered.
* The configuration cache remembers absence, is loaded page by page, and starts
  its time to live after the load.
* Nothing but the count in a message attribute ends the circle
  Queue -> ReplayQueue -> Queue.

### What makes each component correct

* Handler and sending: no message is lost; every record of an event is sent or
  reported; replays return to their own queue; the count grows and stops at the
  limit; without failures a message is replayed once and never dead-lettered
  early; every message settles.
* Cache: an answer differs from what is registered only for a bounded time after
  a change, failed and torn refreshes included; a new queue is picked up before
  its first message is given up.
* Requests: a call stays within the limits of `SendMessageBatch`; the delay
  stays within 900 s, grows with the attempts and does not wrap.
* Constructs: whatever validates at synthesis is understood by the Lambda;
  registrations land where the Lambda looks and do not overwrite each other.

`PROJECT.json` lists the hazards one by one, each with its line and the
properties that cover it.

## Modules

    SqsChain            the three queues, receives, visibility, deletes
      ReplayHandler     the Lambda: environments, invocations, calls, failures
        MCReplayHandler     instances for TLC
        ReplayHandlerProofs     theorems: types, no message is lost
          ReplayRoutingProofs     routing, the attempt limit
            ReplayContractProofs    ReplayHandler implements ReplayContract
              ReplayFaultProofs       what failures can cost
      ReplayContract    what the replayer promises (abstract; refined by ReplayHandler)
    ConfigStore         the configuration cache, with time and paging
      MCConfigStore
      ConfigStoreProofs   theorems: how stale an answer can be
      NewQueue          ConfigStore and the receives of one message of a new queue
        MCNewQueue
        NewQueueProofs    theorem: a new queue is picked up in time
    Chunking            chunk_entries: grouping and cutting by entries and bytes
      MCChunking
      CallContract      what the handler takes from it (abstract; refined by Chunking)
      ChunkingProofs    theorems: limits, nothing lost, CallContract
    Tuning              limits and delays from props and environment to one replay
      Synthesis         the constructs, the shared Lambda, what it finds
        ReplayTrip      one message going round under what was deployed
          MCReplayTrip
          ReplayTripProofs  theorems: delays, tuning, the message, mistakes

### SqsChain and ReplayHandler

A *copy* is one SQS message: original messages are copies `1..Originals`, and
each accepted batch entry makes the next copy. `msg[c]` has its place (`source`,
`replay`, `dead`, `consumed`, `deleted`), chain, body (the original it descends
from), replay count, the copy it replays, its receives in the replay queue, and
its `shape` as a Lambda record: `plain`, `badCount` (replay count not a number),
`noBody`, `noArn`, `noId`. Only producers make shapes other than `plain`; the
handler's own re-sends are well formed. `noBody`, `noArn` and `noId` cannot come
from SQS itself, but the code has branches for them and the tests send them.
`badCount` needs only an odd attribute.

Each environment has a `cache` and at most one invocation `inv[e]`:

| Phase | Action | Code |
|---|---|---|
| idle | `Receive` | the event source mapping invokes with a batch |
| resolving | `ResolveCached`, `ResolveRefreshed`, `ResolveFailed` | lib.rs:48-61, one per distinct ARN; an error fails the invocation |
| | `Build` | lib.rs:63-116 and `chunk_entries`: requests, rejections and calls, no await |
| sending | `AcceptEntry`, `RefuseEntry` | SQS decides on one entry of a call |
| | `CallAnswered`, `CallFailed`, `CallRetried` | `send_chunk` returns, or the SDK repeats the call |
| | `Respond` | lib.rs:118-129; what is not reported is to be deleted (`acked`) |
| any | `Crash`, `Recycle` | the environment is killed, or replaced while idle |

`handle` awaits only where these actions end, so they are its atomic steps. The
calls of one invocation are independent (`join_all`), and a failed call may have
had any effect. Where `chunk_entries` cuts by bytes is left open: `Chunks` is
every grouping with one destination and at most `MaxEntries` entries per call.
`ResolveCached` may use a cache of any age and `ResolveRefreshed` may refresh one
that is fresh; when the cache really is used is the matter of `ConfigStore`.

Failures take from a budget `MaxFaults`, configuration changes from `MaxDeploys`.
Failures are: a failed lookup, a failed or repeated call, a refused entry, a
killed environment, a lost delete, and a visibility timeout that passes while the
message is in hand.

### ReplayContract

The life of a copy with everything inside hidden: consumed or parked; a parked
copy is replayed into its own chain with the next count, within a configured
limit; it is dropped only after it was replayed; or it is given up to the
dead-letter queue. Replay is allowed again after drop or give-up: at least once.
`ReplayHandler` implements it with `item` taken from `msg` (property
`KeepsContract`); all steps of invocations, caches and visibility are stutters.

### ConfigStore and NewQueue

`params` is the path in the order SSM lists it, `reader` a refresh under way with
its next page and the map it has filled so far; `lastWrite` and the `startedAt` of a
cache are history. A refresh is `Begin`, one `ReadPage` per page, which inserts the
page's parameters one after the other (`InsertPage`), `Install` or `PageFails`;
deployments (`Write`),
other environments and `Tick` come between. A refresh lasts at most `MaxRefresh`,
the function's timeout: time stops there until the refresh ends or the
environment is killed (`Kill`). Malformed parameters are skipped, and of several
parameters with one ARN the last one inserted stays, as in the `HashMap`. The
properties compare with `Effective`, which looks at all parameters at once and knows
nothing of pages or maps.

`NewQueue` adds one message of a queue that is registered during the run. A
receive looks the queue up in some environment, whose cache may have been loaded
for other queues at the worst moment; a lookup that says "unknown", fails, or dies
with its environment costs a receive and a visibility timeout.

### Chunking

The loops of `chunk_entries` step by step: `Group` is the first loop, `StartGroup` takes
the groups in any order (a `HashMap`), `Push` and `CutAndPush` are one iteration of the
inner loop, `CloseGroup` is what follows it. Entries are positions of the input; of a
message only the bytes of its body and of its attributes are kept. `CallContract` is the
result in one step: the requests are divided into calls with one destination and at most
`MAX_ENTRIES` entries each. `ReplayHandler` relies on just that in its operator
`Chunks`, and `Chunking` implements it (`KeepsCallContract`: nothing until all groups
are cut, then all calls). At each step before that, `Sent(d)`, the calls of a queue
followed by its chunk and its group, has the requests of the queue that were taken, once
and in order (`GroupsStayWhole`). The bytes of a sequence are summed by a recursive
function, `Total`. A call that SQS refuses because it is too large is one of the faults
there.

### Tuning, Synthesis and ReplayTrip

`Tuning` has no state: it follows maximum attempts, backoff rate, maximum delay and
jitter from the props of a construct (`ValidTuning`, `ConfigJson`) and the variables
of the function (`EnvironmentParses`, `Environment`) through `Resolve` to
`DelaySeconds` and the cast to i32. A number that is no u32 yet is a record of its
whole part and its kind, so that 1.5, infinity and "abc" are values the model can
hand in; `U32_MAX`, the limit of 900 s and the largest batch size are constants,
scaled down for TLC.

`Synthesis` constructs replayers in any order with any props. A *chain* stands for a
replay queue's ARN and its source queue's URL; several replayers may be made for one
chain in different stages (in one stage the second event source mapping throws,
`Unmapped`). `SingletonOf` is the `WeakMap`: the first replayer of a stage gives the
Lambda its options. Parameter
names are sequences of "/" and words, so that `/custom` and `/custom/` followed by a
construct path differ as they do in Parameter Store. `Throw` ends the synthesis, and
`Deploy` may come after any number of constructs. `Served` says that the Lambda
starts and that its next refresh has the queue; when it refreshes is the matter of
`ConfigStore`. What it has for a queue is decided as in `ConfigStore::refresh`: all
parameters below the path, of whatever replayer, go into one map keyed by the ARN they
say (`Read`, `Loaded`). Where several say the same ARN, `Loaded` has the values of all
of them, as SSM promises no order and any of them may be listed last.

`ReplayTrip` sends one message round: `Replay` is `resolve_config`,
`build_replay_request`, `to_batch_entry` and the delivery of the result, with the
attributes and system attributes as functions from names to values. The replay goes to
the source queue that the configuration names, if the role of the Lambda may send to
it (`MaySend`), and the next time the message comes from that chain. After the
deployment a parameter may be rewritten by hand with any configuration, another ARN
or destination included (`EditParameter`).

## Runs

| Run | Instance | Checks |
|---|---|---|
| `replay` | 1 message, 2 environments, `maxReceiveCount` 2, limit 1, 2 failures, 1 deployment, fairness | `TypeOK`, `NothingLost`, `AttemptsBounded`, `ReplayedTwiceNeedsFaults`, `EarlyDeadLetterNeedsFaults`, `KeepsContract`, `EveryMessageSettles` |
| `batch` | 2 messages of 2 queues (some malformed), 1 environment, 1 failure | `IInv`, `BatchAccountedFor`, `ReplaysGoHome` |
| `config_store` | 2 queues, 2 values, 2 pages of 1, TTL 2, refresh 2, 2 changes, 1 failure | `TypeOK`, `CacheTracksChanges`, `StaleOnlyAfterChange` |
| `new_queue` | 2 environments, TTL 3, refresh 1, visibility 2, 3 receives, 1 failure | `NewQueueTypeOK`, `NewQueuePickedUp` |
| `chunking` | 4 requests, 2 queues, limits 3 entries, 8 (bodies) and 10 (call) | `TypeOK`, `GroupsStayWhole`, `CallsWithinLimits`, `NoCallToSpare`, `OverLimitOnlyByAttributes`, `KeepsCallContract` |
| `registration` | 2 replayers of 1 or 2 chains, 1 or 2 stages, 23 props, 10 edits, 4 messages, 6 replays | `TypeOK`, `DelayWithinTimer`, `OwnTuningGoverns`, `SameMessage`, `MistakesStayLocal` |
| `missing_id` | a record without a message id | violates `BatchAccountedFor` |
| `wrapped_count` | width 8 for 2^32, a count of 7 | violates `ExhaustedIsNotReplayed` |
| `oversized_call` | bodies of 1, attributes of 4, call limit 10 | violates `PayloadWithinLimit` |
| `bare_path` | 2 replayers, `configPath` with and without a slash | violates `EveryReplayerServed` |
| `unlimited` | 2 replayers, `maxAttempts` Infinity or not given | violates `UnlimitedNeverExhausted` |
| `impatient_queue` | defaults in ticks of 6 s, `maxReceiveCount` 3 | violates `NewQueuePickedUp` |

**Why the bounds suffice.** Two environments give every overlap of two invocations
on a message; two failures give each pair, e.g. a retried call and then a killed
environment, or an early redelivery and a lost delete. A message with limit 1 is
replayed at most once without failures, and every failure adds at most one copy: 1
message and 2 failures make at most 4 copies, 2 messages and 1 failure at most 6, so
`MaxCopies` (5 and 7) never stops a send. Two messages of two queues are the
smallest event in which grouping, and rejecting one of two, can go wrong. In
`config_store` two pages of one parameter allow every torn read, and two changes
allow a parameter to move between pages. `MaxNow` reaches past TTL plus refresh. The
bounds of `StaleOnlyAfterChange`, `EarlyDeadLetterNeedsFaults` and
`NewQueuePickedUp` are exact: with one less tick, one more required failure, or one
receive fewer, TLC finds a violation. `Modulus` is 100 where wrapping plays no part.
The deployment in `replay` registers a queue; that limits move while a message is
under way is left to the theorems, which hold for any limits. In `chunking`, sizes
are in units in which a chunk holds 8: 4 + 4 is exactly full, 1 + 4 + 4 is cut, 9 is
alone, three entries of 1 are cut by their number when a fourth comes, and two
entries' replay counts fill the headroom of 2 exactly. In `registration`, 9 stands
for 900 s and 31 for the largest u32: with a rate of 16 the product saturates at the
first attempt, where wrapping would make the delay 0; the power saturates at the
fifth. Each of the 23 props changes an option or two, to a legal value, one at the
limit, or one beyond it; two replayers are enough for options to leak from one to
the other in either order, and one rewritten parameter is enough to speak for the
other replayer's queue. The instance takes the two chains, and the two stages, for
interchangeable; so does `config_store` with the two values. No definition tells
them apart (no constant but the symmetric set of edits names a chain), and no
liveness is checked there.

**Fairness.** `FairSpec` asks `WF_vars(Progress)`, one weak fairness condition:
when nothing but deployments, recycling and failures happened for ever, although
something else could, that would be unfair. Failures and deployments are bounded,
so this says that SQS, the event source mapping and the Lambda service keep
going, in no particular order. No fairness is asked of single environments,
messages or of the consumer's success: `Consume` and `RedriveToReplay` are both
allowed, and either settles the message or brings it closer to its limit.

**Deadlock** is not checked: the system comes to rest when every message has
settled, and the timed models end at `MaxNow`.

### Findings

* `missing_id`: a record without message id is neither sent nor reported
  (lib.rs:94-97), against the doc of `handle` (lib.rs:32-33).
* `wrapped_count`: `replay_num += 1` (replay.rs:50) wraps in the shipped release
  build; a message at the largest count starts again at 0.
* `oversized_call`: chunks are cut by the bytes of the bodies only (replay.rs:122),
  with 16 KB of headroom for attributes; replay.rs:101-102 promises 256 KB of
  payload. `OverLimitOnlyByAttributes` says how far the promise holds.
* `bare_path`: with a `configPath` that does not end in a slash, parameters are
  written beside the hierarchy the Lambda reads (sqs-replayer.ts:152), and no queue
  of the stage is served; README.md:69 offers `configPath` without that condition.
* `unlimited`: `maxAttempts: Infinity` passes `validateTuning`, is written as `null`,
  and the Lambda applies its default of 5, which sqs-replayer.ts:15-18 has for a value
  that is not set.
* `impatient_queue`: absence is cached for the full time to live, so with
  `maxReceiveCount` 3 a message that is in the replay queue when its queue is
  registered is dead-lettered unsent; README.md:69 says that new queues are picked up.
  It needs a backlog in the replay queue, or a consumer that returns messages early:
  with the same settings the source queue holds a new message for 54 s first. What is needed
  is `(maxReceiveCount - 1) * visibilityTimeout >= ttl + timeout`: the defaults have
  72 s against 70 s.

## Proofs

Every invariant and action property of a passing run, and both refinements, is a
theorem for all values of the constants under the assumptions of the modules, which
TLC evaluates in the runs. What remains is liveness (below). Three hypotheses appear
beside those assumptions; each is what a finding is about:

| Hypothesis | Says | Finding |
|---|---|---|
| `"noId" \notin Shapes` | every record has a message id, as SQS sends it | `missing_id` |
| `NoWrap` | producers' counts and limits stay below the width of the replay count | `wrapped_count` |
| `Patient` | `VisibilityTimeout * (MaxReceive - 1) >= TTL + MaxRefresh` | `impatient_queue` |

| Module | Theorems | Hypotheses |
|---|---|---|
| `ReplayHandlerProofs` | `TypeCorrect`; `Accounts` (`IInv`), `NoMessageLost`, `NothingUnreported` | the last three: no `noId` |
| `ReplayRoutingProofs` | `RoutedHome`; `AttemptsEnd` | `AttemptsEnd`: `NoWrap` |
| `ReplayContractProofs` | `ContractKept` | no `noId`, `NoWrap` |
| `ReplayFaultProofs` | `ReplaysPaid`, `DeadLettersPaid` | |
| `ConfigStoreProofs` | `StoreTypeCorrect`, `CachesTrack`, `AnswersAreRecent` | |
| `NewQueueProofs` | `NewQueueTypeCorrect`; `NewQueuesPickedUp` | `NewQueuesPickedUp`: `Patient` |
| `ChunkingProofs` | `ChunkingTypeCorrect`, `CallsFit`, `CallsNeeded`, `OverLimitExplained`, `NothingLostInCalls`, `CallContractKept` | |
| `ReplayTripProofs` | `TripTypeCorrect`, `DelaysFitTheTimer`, `OwnTuningAlways`, `MessageUnaltered`, `MistakesAreLocal` | |

### Nothing is lost, everything is reported

`NothingLost` is not inductive: a delete is harmless only if the copy was replayed
before. The invariant `IInv` adds the chain of facts from the call to the delete:
every entry of a call under way is undecided, refused, or has a child
(`CallsAccountedFor`); every message of a batch being sent is reported, in a call,
or has a child (`BatchAccountedFor`); so what is acknowledged has a child
(`AckedWereReplayed`); and children are younger and carry the parent's body
(`Lineage`). When copy `c` is deleted, its child `d` is alive, or was deleted
itself, and then a still younger copy is alive by `NothingLost` in the old state;
the same step serves the copies for which `c` had been the living heir
(`DeleteLosesNothing`). No induction over copies is needed. The lemmas are grouped
by action; `StepAccounts` and `QuietStep` carry what most actions share. TLC checks
`IInv` as an invariant (run `batch`).

### Routing and the limit

`ReplaysGoHome` and `AttemptsBounded` need what `handle` knew when it built a
request, long after the invocation's snapshot and the registry may differ. `RInv`
says of every configuration in the registry, in a cache or in an invocation that
it leads to its own queue; of every entry of a call under way that it belongs to
the call's destination and has an attempt left (`Routed`); and of every copy that
it is a producer's or a replay of an older copy of its chain (`Descended`).

### The contract of the replayer

`ContractKept` maps each action to a step of `ReplayContract` or a stutter. What the
two invariants above leave open is that a message in the hands of an invocation is
never back in its source queue, whatever became of it meanwhile: `HInv` says that it
was parked (`Parked`), and that steps move copies only onward (`KeepsParked`). An
accepted entry then is a `Replay` of a parked or given-up copy.

### What failures can cost

Counting needs a ledger: at any time a replay or a receive is paid by a failure, or
it is the one the message is still *on course* with (`OnCourse`): hidden, and in an
invocation that will have it deleted, or already to be deleted. `Tally` adds to the
replays of a message those that invocations under way may still make; `FInv` bounds
it, and the receives, by the failures, and one more only while on course (`Within`).
The cases of `Paid` are the four ways in which a step of one invocation changes that
ledger; cardinalities enter in one lemma about them.

### Staleness

`CacheTracksChanges` says of a queue that was last changed before a refresh began that
the map has at each page what the pages so far say. `SInv` adds how long refreshes last
and how old caches are (`ReaderTracks`, `CacheTracks`). That inserting one more page
leaves the last of its parameters for the queue, or what was there, uses that a set of
positions up to a bound has a greatest one. `StaleOnlyAfterChange` follows, as a refresh
lasts at most `MaxRefresh` and its cache is used for less than `TTL`.
`NewQueuesPickedUp` counts visibility timeouts on top of it (`QInv`): without failures
the message has waited for one since the registration before each receive but the first;
at the last receive the registration is therefore older than any answer can be stale.

### Chunking

`CInv` (limits of the finished calls, why each was cut, what has been started) and
`GroupsStayWhole` are inductive together. What a call carries is a sum, and what a
queue is sent a concatenation (`FlattenSeq`): recursive functions, of which the
provers know only that they are chosen to satisfy their equation. `Recursion` shows
that such a function exists, by the least number for which it would not, and the
lemmas `TotalAppend` and `FlattenAppend` what one more element adds. `CallContractKept`
then is about the one step that finishes: the pieces of a concatenation that strictly
increases are disjoint (`PiecesApart`), so the calls divide the requests (`Division`).

### Tuning and registration

`TripInv` joins the properties with what the constructs leave behind (`Registrations`):
the name of a parameter is the path of the Lambda its stage has now and the construct
path, and unless it was written by hand its value is what its own props say.
`OwnTuningAlways` is about a queue that one replayer alone speaks for (`Sole`): of all
the parameters in the map only that replayer's can say its ARN (`SoleConfig`), so what
resolves is its own props (`OwnConfig`), finite numbers assumed, as the finding
`unlimited` shows that Infinity counts as not set. `MistakesAreLocal` needs of the map
that its entry for an ARN is some parameter's that says it, and that a construct's
parameter sends home (`SentHome`). A path that a parameter was accepted under begins
with a slash itself, as construct paths do not (`PathOfName`). Below the limit of 900 s
the saturating operations do not show (`BackoffIsFormula`); that a power of two is
positive comes from counting the subsets of a set (`PowerOfTwo`). Assumed of the
constants are what the types say (a `number` prop is never text, `props.useJitter` is a
flag or absent), that no construct path begins with a slash, and that u32 holds twice
the limit. `Counted` says that a count, once the message was replayed, is a whole
number; before that it is the producer's.

### Only model-checked

`EveryMessageSettles`: liveness under fairness is beyond this prover. The runs that
expect a violation stay what they are, counterexamples. That `FairSpec` has the
invariants follows from `Spec`.

## Not modelled

Wording of logs, client construction, packaging, CI, and generated project files.
The random number of the jitter (any value in its range). Message order (standard
queues have none). IAM permissions, except as a reason for a failed call, for the path
the role may read and for the queues it may send to. In `Synthesis`: one replay queue
with two different source queues, parameters that no construct made, two constructs
for one queue by different imports; `ReplayTrip` leaves out the cache, whose age is
the matter of `ConfigStore`. `sanitize`, which is assumed to keep construct paths
apart (a collision fails the deployment); the order in which a deployment creates
parameter and event source mapping; the kinds of attribute values (a value is kept
or not); the options of the function that do not touch its behaviour (memory, VPC,
logs, code). The forwarding of options in `SqsQueueWithReplay` is one assignment per
option; `Synthesis` starts at `SqsReplayer`.

## Plan

1. Done: `SqsChain`, `ReplayHandler`, `ReplayContract`, `ConfigStore`, `NewQueue`.
2. Done: `Chunking`, `Tuning`, `Synthesis`, `ReplayTrip`, `CallContract`.
3. Done: a theorem for each invariant, action property and refinement of the passing
   runs.
4. Next: theorems with fewer hypotheses: what `handle` still guarantees for the
   records that do have an id when others of the event do not, and the contract of
   `ReplayHandler` with the wrapping of counts made explicit.
