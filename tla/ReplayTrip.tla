----------------------------- MODULE ReplayTrip -----------------------------
(***************************************************************************)
(* One message on its way round: it comes from the replay queue of some    *)
(* chain, build_replay_request and to_batch_entry (replay.rs) make the     *)
(* message that goes back to a source queue, and SQS delivers that one the *)
(* next time.  The configuration is what Synthesis deployed, or what       *)
(* somebody wrote into a parameter afterwards: for this queue or another.  *)
(***************************************************************************)
EXTENDS Synthesis

CONSTANTS
  Originals,  \* the messages producers send
  Edits,      \* the JSON that may be written into a parameter by hand
  MaxEdits,   \* bound: such writes
  MaxCount,   \* bound: replays of the message
  NoTrip      \* no message is under way

REPLAY_NUM_PROPERTY_NAME == "sqs-dlq-replay-num"
TRACE_HEADER_PROPERTY_NAME == "AWSTraceHeader"

\* A record as the Lambda sees it: body, message_attributes and (system) attributes.
ASSUME TripAssumption ==
  /\ \A m \in Originals :
       /\ DOMAIN m = {"body", "message_attributes", "attributes"}
       /\ REPLAY_NUM_PROPERTY_NAME \in DOMAIN m.message_attributes =>
            m.message_attributes[REPLAY_NUM_PROPERTY_NAME] \in Number
  /\ Edits \subseteq QueueConfigs
  /\ NoTrip \notin Chains
  /\ MaxEdits \in Nat /\ MaxCount \in Nat

VARIABLES
  edits,     \* the replayers whose parameter was written by hand
  of,        \* the chain whose message is under way
  original,  \* the message as its producer sent it
  record,    \* the message as it is delivered now
  replays,   \* how often it was replayed
  delay      \* DelaySeconds of its last replay

tripVars == <<edits, of, original, record, replays, delay>>
vars == <<stage, chain, props, singletons, parameters, synthesis, edits, of, original,
          record, replays, delay>>

TypeOK ==
  /\ SynthesisTypeOK
  /\ edits \subseteq Replayers
  /\ of \in Chains \cup {NoTrip}
  /\ original \in Originals
  /\ replays \in 0..MaxCount
  /\ delay \in Int

Init ==
  /\ SynthesisInit
  /\ edits = {}
  /\ of = NoTrip
  /\ original \in Originals /\ record = original
  /\ replays = 0 /\ delay = 0

\* One of the steps of the constructs and the deployment.
Synthesize ==
  /\ \/ \E r \in Replayers, p \in Props : Construct(r, p) \/ Throw(r, p)
     \/ Deploy
  /\ UNCHANGED tripVars

\* Somebody writes another configuration into the parameter that r made, of whatever
\* queues.
EditParameter(r, value) ==
  /\ synthesis = "deployed" /\ props[r] # NotBuilt
  /\ Cardinality(edits) < MaxEdits /\ r \notin edits
  /\ parameters' = [parameters EXCEPT ![r].value = value]
  /\ edits' = edits \cup {r}
  /\ UNCHANGED <<stage, chain, props, singletons, synthesis, of, original, record, replays, delay>>

-----------------------------------------------------------------------------
(* replay.rs *)

\* replay_num: a missing attribute, or one without a string value, counts as 0; a
\* count that is no number is an error.
ReplayNum(rec) ==
  IF /\ REPLAY_NUM_PROPERTY_NAME \in DOMAIN rec.message_attributes
     /\ IsSet(rec.message_attributes[REPLAY_NUM_PROPERTY_NAME])
  THEN rec.message_attributes[REPLAY_NUM_PROPERTY_NAME]
  ELSE Whole(0)

\* Mutant: a count that is there already is kept.
MapMessageAttributesKeeping(input, replay_num) ==
  [name \in DOMAIN input \cup {REPLAY_NUM_PROPERTY_NAME} |->
     IF name \in DOMAIN input THEN input[name] ELSE Whole(replay_num)]

\* map_message_attributes: the count replaces one that is there already.
MapMessageAttributes(input, replay_num) ==
  [name \in DOMAIN input \cup {REPLAY_NUM_PROPERTY_NAME} |->
     IF name = REPLAY_NUM_PROPERTY_NAME THEN Whole(replay_num) ELSE input[name]]

\* map_message_system_attributes, and the ids that to_batch_entry sets: of what a
\* record has, this is sent again.
Forwarded == {TRACE_HEADER_PROPERTY_NAME, "MessageGroupId", "MessageDeduplicationId"}

\* build_replay_request: the requests it may build, one for each delay.
BuildReplayRequest(config, rec) ==
  LET attempt == ReplayNum(rec).whole + 1 IN
  {[queue_url |-> config.queue_url,
    message_body |-> rec.body,
    delay_seconds |-> seconds,
    message_attributes |-> MapMessageAttributes(rec.message_attributes, attempt),
    attributes |-> Restrict(rec.attributes, DOMAIN rec.attributes \cap Forwarded)] :
     seconds \in IF IsU32(ReplayNum(rec)) /\ attempt <= config.max_attempts
                 THEN DelaySeconds(config, attempt) ELSE {}}

\* SQS: the entry as a record, when it is delivered again.
Delivered(request) ==
  [body |-> request.message_body,
   message_attributes |-> request.message_attributes,
   attributes |-> [name \in DOMAIN request.attributes \cup {"ApproximateReceiveCount"} |->
     IF name = "ApproximateReceiveCount" THEN "1" ELSE request.attributes[name]]]

\* resolve_config: what the Lambda of r may replay the messages of chain q by.
Configs(r, q) ==
  {Resolve(value, Environment(LambdaVariables(LambdaOf(r)))) : value \in Loaded(LambdaOf(r), q)}

\* The message of some replay queue is received for the first time.
Begin(q) ==
  /\ synthesis = "deployed"
  /\ of = NoTrip
  /\ of' = q
  /\ UNCHANGED <<synthesisVars, edits, original, record, replays, delay>>

\* The event source mapping of r gives the message to the Lambda of r's stage.  SQS
\* accepts it for a source queue that this Lambda may send to; the message comes
\* from the replay queue of that chain the next time.
Replay(r) ==
  /\ of # NoTrip /\ props[r] # NotBuilt /\ chain[r] = of
  /\ EnvironmentParses(LambdaVariables(LambdaOf(r)))
  /\ replays < MaxCount
  /\ \E config \in Configs(r, of) : \E request \in BuildReplayRequest(config, record) :
       /\ MaySend(r, request.queue_url)
       /\ of' = request.queue_url
       /\ record' = Delivered(request)
       /\ delay' = AsI32(request.delay_seconds)
  /\ replays' = replays + 1
  /\ UNCHANGED <<synthesisVars, edits, original>>

Next ==
  \/ Synthesize
  \/ \E q \in Chains : Begin(q)
  \/ \E r \in Replayers : Replay(r) \/ \E value \in Edits : EditParameter(r, value)

Spec == Init /\ [][Next]_vars

-----------------------------------------------------------------------------
(* Properties *)

\* The delay that goes to SQS is one it accepts, 0 to 900 s, whatever synthesis
\* let through, the environment says or somebody wrote into a parameter: that is
\* what the cast to i32 relies on (replay.rs:177-185).
DelayWithinTimer == delay \in 0..MAXIMUM_DELAY_LIMIT_SECONDS

\* Nobody else speaks for the chain of r: no other replayer was made for it, and no
\* parameter written by hand names its replay queue.
Sole(r) ==
  /\ props[r] # NotBuilt /\ r \notin edits
  /\ \A s \in Replayers \ {r} : props[s] # NotBuilt => chain[s] # chain[r]
  /\ \A s \in edits : parameters[s].value.replayQueueArn # chain[r]

Given(own, shared, default) == OrElse(own, OrElse(shared, default))

\* A message of a chain that r alone speaks for is replayed as r's values say.
AsTuned(r) ==
  LET own == props[r]
      shared == LambdaOf(r).environment
      attempt == record'.message_attributes[REPLAY_NUM_PROPERTY_NAME].whole
      formula == Smaller(
        Given(own.maximumDelay, shared.MAXIMUM_DELAY, MAXIMUM_DELAY_LIMIT_SECONDS),
        Given(own.backoffRate, shared.BACKOFF_RATE, DefaultBackoffRate) * 2 ^ attempt)
      jitter == IF own.useJitter = "unset" THEN shared.BACKOFF_JITTER ELSE own.useJitter
  IN /\ replays' > replays /\ Sole(r) /\ of = chain[r]
     /\ own.maxAttempts.kind # "infinite" /\ own.backoffRate.kind # "infinite"
     => /\ of' = of
        /\ attempt <= Given(own.maxAttempts, shared.MAX_ATTEMPTS, DefaultAttempts)
        /\ delay' <= formula
        /\ jitter # "true" => delay' = formula

\* A replay goes back to the queue's own source queue, after min(maximumDelay,
\* backoffRate * 2^attempt), the doc's formula without the width of the integers
\* (backoff.rs:8), and at most maxAttempts times, by the values the queue's only
\* replayer was given, for those it was not given by the environment of the shared
\* Lambda, else by the defaults; never by what other replayers registered or hands
\* wrote for other queues, all of which the Lambda reads into the same map
\* (config.rs:126-131).  Of an infinite number the run unlimited speaks.
OwnTuningGoverns == [][\A r \in Replayers : AsTuned(r)]_vars

\* sqs-replayer.ts:15-18: "Maximum replay attempts before a message is reported ...
\* Applied by the Lambda when not set."  A message of a replayer that was given
\* Infinity is never refused for its count.
UnlimitedNeverExhausted ==
  \A r \in Replayers :
    Sole(r) /\ of = chain[r] /\ props[r].maxAttempts.kind = "infinite" =>
      \A config \in Configs(r, of) :
        IsU32(ReplayNum(record)) /\ ReplayNum(record).whole < U32_MAX
          => BuildReplayRequest(config, record) # {}

WithoutCount(attributes) ==
  Restrict(attributes, DOMAIN attributes \ {REPLAY_NUM_PROPERTY_NAME})

\* However often it goes round, the message stays what its producer sent: body,
\* attributes and trace header, and the count says how often it was replayed.
\* Nothing but the one count is added, so that a replay is not larger than the
\* replay before it.
SameMessage ==
  /\ record.body = original.body
  /\ WithoutCount(record.message_attributes) = WithoutCount(original.message_attributes)
  /\ replays > 0 => ReplayNum(record) = Whole(ReplayNum(original).whole + replays)
  /\ \A name \in Forwarded :
       /\ name \in DOMAIN record.attributes <=> name \in DOMAIN original.attributes
       /\ name \in DOMAIN original.attributes =>
            record.attributes[name] = original.attributes[name]

\* A value that synthesis lets through and that is no u32 in JSON.
OwnMistake(p) ==
  \E x \in {p.maxAttempts, p.backoffRate, p.maximumDelay} :
    x.kind = "fraction" \/ (x.kind = "integer" /\ x.whole > U32_MAX)

\* A configPath without a trailing slash, another path in the environment, or an
\* environment that the Lambda refuses.
SharedMistake(made) ==
  \/ Last(ConfigPath(made)) # "/"
  \/ made.environment.SSM_PARAMETER_PATH # NoPath
  \/ ~EnvironmentParses([made.environment EXCEPT !.SSM_PARAMETER_PATH = DEFAULT_CONFIG_PATH])

\* The Lambda and the constructs agree on where a registration is and what it looks
\* like, whichever replayer of a stage comes first and makes the Lambda, and
\* whatever path and environment the later ones are given
\* (sqs-replayer-singleton.ts:72-84, sqs-replayer.ts:152): a replayer whose own
\* numbers and whose Lambda are sound is served.  Where the Lambda would send its
\* messages elsewhere, somebody wrote that by hand for this replay queue.
MistakesStayLocal ==
  synthesis = "deployed" =>
    \A r \in Replayers \ edits :
      props[r] # NotBuilt =>
        /\ Served(r) \/ OwnMistake(props[r]) \/ SharedMistake(LambdaOf(r))
        /\ \A config \in Configs(r, chain[r]) :
             \/ config.queue_url = chain[r]
             \/ \E s \in edits : parameters[s].value.replayQueueArn = chain[r]

\* README.md:69: "Set `configPath` on `SqsReplayer` ... to change the SSM path."
EveryReplayerServed ==
  synthesis = "deployed" => \A r \in Replayers : props[r] # NotBuilt => Served(r)
=============================================================================
