---------------------------- MODULE MCReplayTrip ----------------------------
(* Instances of ReplayTrip for TLC. *)
EXTENDS ReplayTrip

CONSTANTS r1, r2, s1, s2, q1, q2

Symmetry == Permutations({q1, q2}) \cup Permutations({s1, s2})

MCWords == {"/", "sqs-replay", "queues", "custom", "Stack", "A", "B"}

Half(n) == [whole |-> n, kind |-> "fraction"]
Infinite == [whole |-> 0, kind |-> "infinite"]
Text == [whole |-> 0, kind |-> "text"]

MCNodePath == (r1 :> <<"Stack", "/", "A">>) @@ (r2 :> <<"Stack", "/", "B">>)

NoVariables == [SSM_PARAMETER_PATH |-> NoPath, MAX_ATTEMPTS |-> Unset, BACKOFF_RATE |-> Unset,
                MAXIMUM_DELAY |-> Unset, BACKOFF_JITTER |-> "unset"]

Plain == [maxAttempts |-> Unset, backoffRate |-> Unset, maximumDelay |-> Unset,
          batchSize |-> Unset, useJitter |-> "unset", fifo |-> FALSE, configPath |-> NoPath,
          environment |-> NoVariables]

Slashed == <<"/", "custom", "/">>
Bare == <<"/", "custom">>

Paths == {[Plain EXCEPT !.configPath = Slashed], [Plain EXCEPT !.configPath = Bare]}

\* Each option on its own, at and beyond its limits.
MCProps ==
  {Plain} \cup Paths \cup
  {[Plain EXCEPT !.fifo = TRUE],
   [Plain EXCEPT !.configPath = <<"custom", "/">>],
   [Plain EXCEPT !.configPath = <<>>],
   [Plain EXCEPT !.batchSize = Whole(BATCH_SIZE_LIMIT + 1)],
   [Plain EXCEPT !.maxAttempts = Half(0)],
   [Plain EXCEPT !.maxAttempts = Half(1)],
   [Plain EXCEPT !.maxAttempts = Infinite],
   [Plain EXCEPT !.maxAttempts = Whole(U32_MAX + 1)],
   [Plain EXCEPT !.maxAttempts = Whole(6), !.backoffRate = Whole(1)],
   [Plain EXCEPT !.maxAttempts = Whole(3), !.backoffRate = Whole((U32_MAX + 1) \div 2)],
   [Plain EXCEPT !.maximumDelay = Half(MAXIMUM_DELAY_LIMIT_SECONDS)],
   [Plain EXCEPT !.maximumDelay = Whole(1), !.useJitter = "false"],
   [Plain EXCEPT !.useJitter = "true"],
   [Plain EXCEPT !.environment.SSM_PARAMETER_PATH = Slashed],
   [Plain EXCEPT !.environment.SSM_PARAMETER_PATH = <<"custom">>],
   [Plain EXCEPT !.environment.MAX_ATTEMPTS = Whole(3),
                 !.environment.BACKOFF_RATE = Whole(1),
                 !.environment.MAXIMUM_DELAY = Whole(5),
                 !.environment.BACKOFF_JITTER = "true"],
   [Plain EXCEPT !.environment.MAX_ATTEMPTS = Whole(0)],
   [Plain EXCEPT !.environment.BACKOFF_RATE = Text],
   [Plain EXCEPT !.environment.MAXIMUM_DELAY = Whole(MAXIMUM_DELAY_LIMIT_SECONDS + 1)],
   [Plain EXCEPT !.environment.BACKOFF_JITTER = "other"]}

PathProps == {Plain} \cup Paths

UnlimitedProps == {Plain, [Plain EXCEPT !.maxAttempts = Infinite]}

Tuned(arn, destination, attempts, rate, most) ==
  [replayQueueArn |-> arn, destinationQueueUrl |-> destination, maxAttempts |-> attempts,
   backoffRate |-> rate, maximumDelay |-> most, useJitter |-> "unset"]

\* Some tuning for either queue, and a queue whose messages are sent to the other.
MCEdits ==
  UNION {{Tuned(q, q, Whole(0), Unset, Unset),
          Tuned(q, q, Whole(3), Whole(0), Unset),
          Tuned(q, q, Whole(4), Whole(3), Whole(3 * MAXIMUM_DELAY_LIMIT_SECONDS)),
          Tuned(q, q, Text, Unset, Unset)} : q \in {q1, q2}}
  \cup {Tuned(q1, q2, Unset, Unset, Whole(1)), Tuned(q2, q1, Unset, Unset, Whole(1))}

NoAttributes == [name \in {} |-> Unset]

MCOriginals ==
  {[body |-> "plain", message_attributes |-> NoAttributes,
    attributes |-> ("ApproximateReceiveCount" :> "1")],
   [body |-> "traced", message_attributes |-> ("app" :> Text),
    attributes |-> ("ApproximateReceiveCount" :> "2") @@ ("AWSTraceHeader" :> "root")
                   @@ ("MessageGroupId" :> "group")],
   [body |-> "counted",
    message_attributes |-> ("app" :> Text) @@ ("sqs-dlq-replay-num" :> Whole(1)),
    attributes |-> ("ApproximateReceiveCount" :> "1")],
   [body |-> "binary count",
    message_attributes |-> ("sqs-dlq-replay-num" :> Unset),
    attributes |-> ("ApproximateReceiveCount" :> "1")]}
=============================================================================
