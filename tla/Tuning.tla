------------------------------- MODULE Tuning -------------------------------
(***************************************************************************)
(* The numbers that decide how often and how late a message is replayed,   *)
(* on their way from the props of a construct and the environment of the   *)
(* Lambda to the delay of one replay: validateTuning and JSON.stringify    *)
(* (sqs-replayer.ts), serde and QueueConfig::resolve (config.rs),          *)
(* Environment::parse (environment.rs), backoff (backoff.rs).              *)
(*                                                                         *)
(* A number before it is a u32 is a record: `whole`, and its kind.  A      *)
(* "fraction" lies between whole and whole + 1, an "infinite" is larger    *)
(* than every number, "text" is what only a string can be, "unset" is an   *)
(* option that is not given.                                               *)
(***************************************************************************)
EXTENDS Integers, Sequences

CONSTANTS
  U32_MAX,                      \* 2^32 - 1
  MAXIMUM_DELAY_LIMIT_SECONDS,  \* 900, the message timer of SQS
  BATCH_SIZE_LIMIT,             \* 10000
  DefaultAttempts,              \* 5
  DefaultBackoffRate            \* 30

ASSUME TuningAssumption ==
  /\ U32_MAX \in Nat /\ BATCH_SIZE_LIMIT \in Nat
  /\ MAXIMUM_DELAY_LIMIT_SECONDS \in Nat \ {0}
  /\ 2 * MAXIMUM_DELAY_LIMIT_SECONDS <= U32_MAX
  /\ DefaultAttempts \in 1..U32_MAX /\ DefaultBackoffRate \in 1..U32_MAX

Number == [whole : Nat, kind : {"integer", "fraction", "infinite", "text", "unset"}]

Unset == [whole |-> 0, kind |-> "unset"]
Whole(n) == [whole |-> n, kind |-> "integer"]
IsSet(x) == x.kind # "unset"

Smaller(a, b) == IF a <= b THEN a ELSE b

-----------------------------------------------------------------------------
(* validateTuning and the JSON value of the SSM parameter *)

BelowOne(x) == x.whole = 0 /\ x.kind \in {"integer", "fraction"}

Above(x, limit) ==
  \/ x.kind = "infinite"
  \/ x.whole > limit
  \/ (x.whole = limit /\ x.kind = "fraction")

ValidTuning(props) ==
  /\ ~BelowOne(props.maxAttempts)
  /\ ~BelowOne(props.backoffRate)
  /\ ~BelowOne(props.maximumDelay)
  /\ ~Above(props.maximumDelay, MAXIMUM_DELAY_LIMIT_SECONDS)
  /\ ~BelowOne(props.batchSize) /\ ~Above(props.batchSize, BATCH_SIZE_LIMIT)

\* JSON has no infinity: JSON.stringify writes null, which serde takes for None.
Stringified(x) == IF x.kind = "infinite" THEN Unset ELSE x

ConfigJson(arn, destination, props) ==
  [replayQueueArn       |-> arn,
   destinationQueueUrl  |-> destination,
   maxAttempts          |-> Stringified(props.maxAttempts),
   backoffRate          |-> Stringified(props.backoffRate),
   maximumDelay         |-> Stringified(props.maximumDelay),
   useJitter            |-> props.useJitter]

-----------------------------------------------------------------------------
(* What the Lambda makes of it *)

IsU32(x) == x.kind = "integer" /\ x.whole <= U32_MAX

\* serde_json::from_str::<QueueConfig>
ParsesAsQueueConfig(json) ==
  \A x \in {json.maxAttempts, json.backoffRate, json.maximumDelay} : IsSet(x) => IsU32(x)

\* positive_int
PositiveInt(x) == IsSet(x) => IsU32(x) /\ x.whole # 0

\* maximum_delay
MaximumDelay(x) == PositiveInt(x) /\ ~Above(x, MAXIMUM_DELAY_LIMIT_SECONDS)

OrElse(x, default) == IF IsSet(x) THEN x.whole ELSE default

\* bool_flag and Option<bool>: a flag is "true", "false", "unset" or, in a
\* variable, "other".
FlagOrElse(flag, default) == IF flag = "unset" THEN default ELSE flag = "true"

\* A path and a name in Parameter Store are sequences of "/" and words.
DEFAULT_CONFIG_PATH == <<"/", "sqs-replay", "/", "queues", "/">>

\* Environment::parse, when it succeeds; SSM_PARAMETER_PATH is always set by the
\* construct.
EnvironmentParses(variables) ==
  /\ variables.SSM_PARAMETER_PATH # <<>> /\ Head(variables.SSM_PARAMETER_PATH) = "/"
  /\ PositiveInt(variables.MAX_ATTEMPTS)
  /\ PositiveInt(variables.BACKOFF_RATE)
  /\ MaximumDelay(variables.MAXIMUM_DELAY)
  /\ variables.BACKOFF_JITTER # "other"

\* Environment::parse, what it returns then.
Environment(variables) ==
  [config_path            |-> variables.SSM_PARAMETER_PATH,
   max_attempts           |-> OrElse(variables.MAX_ATTEMPTS, DefaultAttempts),
   backoff_rate_seconds   |-> OrElse(variables.BACKOFF_RATE, DefaultBackoffRate),
   maximum_delay_seconds  |-> OrElse(variables.MAXIMUM_DELAY, MAXIMUM_DELAY_LIMIT_SECONDS),
   use_jitter             |-> FlagOrElse(variables.BACKOFF_JITTER, FALSE)]

\* Mutant: the delay of the parameter is taken as it is.
ResolveUnclamped(json, defaults) ==
  [queue_url              |-> json.destinationQueueUrl,
   max_attempts           |-> OrElse(json.maxAttempts, defaults.max_attempts),
   backoff_rate_seconds   |-> OrElse(json.backoffRate, defaults.backoff_rate_seconds),
   maximum_delay_seconds  |-> OrElse(json.maximumDelay, defaults.maximum_delay_seconds),
   use_jitter             |-> FlagOrElse(json.useJitter, defaults.use_jitter)]

\* QueueConfig::resolve
Resolve(json, defaults) ==
  [queue_url              |-> json.destinationQueueUrl,
   max_attempts           |-> OrElse(json.maxAttempts, defaults.max_attempts),
   backoff_rate_seconds   |-> OrElse(json.backoffRate, defaults.backoff_rate_seconds),
   maximum_delay_seconds  |->
     IF IsSet(json.maximumDelay)
     THEN Smaller(json.maximumDelay.whole, MAXIMUM_DELAY_LIMIT_SECONDS)
     ELSE defaults.maximum_delay_seconds,
   use_jitter             |-> FlagOrElse(json.useJitter, defaults.use_jitter)]

-----------------------------------------------------------------------------
(* The delay of a replay *)

Saturated(n) == Smaller(n, U32_MAX)

\* Mutant: the product wraps.
BackoffWrapping(base, max, attempt) ==
  Smaller(max, (base * Saturated(2 ^ attempt)) % (U32_MAX + 1))

Backoff(base, max, attempt) == Smaller(max, Saturated(base * Saturated(2 ^ attempt)))

\* backoff_with_jitter: what the random number may be.
BackoffWithJitter(base, max, attempt) == 0..Backoff(base, max, attempt)

\* delay_seconds: the delays that an attempt may have.
DelaySeconds(config, attempt) ==
  LET base == config.backoff_rate_seconds
      max == config.maximum_delay_seconds
  IN IF config.use_jitter THEN BackoffWithJitter(base, max, attempt)
                          ELSE {Backoff(base, max, attempt)}

\* request.delay_seconds as i32
AsI32(n) == IF n <= U32_MAX \div 2 THEN n ELSE n - (U32_MAX + 1)
=============================================================================
