----------------------------- MODULE Synthesis -----------------------------
(***************************************************************************)
(* The constructs: SqsReplayer (sqs-replayer.ts) and the shared Lambda it  *)
(* makes or finds (sqs-replayer-singleton.ts), in the order in which the   *)
(* app constructs them, up to the deployment; and whether the Lambda then  *)
(* finds what a replayer registered.                                       *)
(*                                                                         *)
(* A chain stands for both its queues: the ARN of its replay queue, under  *)
(* which it is registered, and the URL of its source queue.                *)
(***************************************************************************)
EXTENDS Tuning, SequencesExt

CONSTANTS
  Words,        \* the words of paths, "/" among them
  Chains,       \* source queues, each with its replay queue
  Replayers,    \* SqsReplayer constructs
  NodePath,     \* their construct paths, sanitized
  Stages,       \* App or Stage constructs
  Props,        \* the props a replayer may be given
  NotBuilt,     \* a replayer that is not constructed
  NoSingleton,  \* a stage without a shared Lambda
  NoParameter   \* a replayer that has not registered

NoPath == <<"unset">>

Variables == [SSM_PARAMETER_PATH : Seq(Words) \cup {NoPath}, MAX_ATTEMPTS : Number,
              BACKOFF_RATE : Number, MAXIMUM_DELAY : Number,
              BACKOFF_JITTER : {"true", "false", "other", "unset"}]

\* What a parameter may hold.
QueueConfigs == [replayQueueArn : Chains, destinationQueueUrl : Chains,
                 maxAttempts : Number, backoffRate : Number, maximumDelay : Number,
                 useJitter : {"true", "false", "unset"}]
Parameters == [name : Seq(Words), value : QueueConfigs]

\* A prop of type number is never text, and a construct path begins with the id of
\* a stack.
ASSUME SynthesisAssumption ==
  /\ DEFAULT_CONFIG_PATH \in Seq(Words)
  /\ NodePath \in [Replayers -> Seq(Words)]
  /\ \A r \in Replayers : NodePath[r] # <<>> /\ Head(NodePath[r]) # "/"
  /\ \A r, s \in Replayers : NodePath[r] = NodePath[s] => r = s
  /\ \A p \in Props :
       /\ \A x \in {p.maxAttempts, p.backoffRate, p.maximumDelay, p.batchSize} :
            x \in Number /\ x.kind # "text"
       /\ p.useJitter \in {"true", "false", "unset"}
       /\ p.fifo \in BOOLEAN
       /\ p.configPath \in Seq(Words) \cup {NoPath}
       /\ p.environment \in Variables
  /\ NotBuilt \notin Props /\ NoSingleton \notin Props
  /\ NoParameter \notin Parameters

VARIABLES
  stage,       \* Stage.of each replayer
  chain,       \* the queues that each replayer is given
  props,       \* the props of the replayers constructed so far
  singletons,  \* the WeakMap: the props each shared Lambda was made from
  parameters,  \* the SSM parameter of each replayer: its name and value
  synthesis    \* "running", "failed" or "deployed"

synthesisVars == <<stage, chain, props, singletons, parameters, synthesis>>

SynthesisTypeOK ==
  /\ stage \in [Replayers -> Stages]
  /\ chain \in [Replayers -> Chains]
  /\ props \in [Replayers -> Props \cup {NotBuilt}]
  /\ singletons \in [Stages -> Props \cup {NoSingleton}]
  /\ parameters \in [Replayers -> Parameters \cup {NoParameter}]
  /\ \A r \in Replayers :
       /\ props[r] = NotBuilt <=> parameters[r] = NoParameter
       /\ parameters[r] # NoParameter => singletons[stage[r]] # NoSingleton
  /\ synthesis \in {"running", "failed", "deployed"}

SynthesisInit ==
  /\ stage \in [Replayers -> Stages]
  /\ chain \in [Replayers -> Chains]
  /\ props = [r \in Replayers |-> NotBuilt]
  /\ singletons = [s \in Stages |-> NoSingleton]
  /\ parameters = [r \in Replayers |-> NoParameter]
  /\ synthesis = "running"

-----------------------------------------------------------------------------
(* new SqsReplayer *)

\* SqsReplayerSingleton.configPath, of a Lambda made from these props.
ConfigPath(made) ==
  IF made.configPath = NoPath THEN DEFAULT_CONFIG_PATH ELSE made.configPath

\* SqsReplayerSingleton.of: the one of the stage, or a new one made from p.
SingletonOf(r, p) == IF singletons[stage[r]] = NoSingleton THEN p ELSE singletons[stage[r]]

\* Mutant: the parameter is put where the props of the replayer say.
OwnParameterName(r, p) == ConfigPath(p) \o NodePath[r]

ParameterName(r, p) == ConfigPath(SingletonOf(r, p)) \o NodePath[r]

\* The event source mapping of the replay queue is the first one of this function: a
\* second one of the same queue is a second construct of the same id.
Unmapped(r) ==
  \A s \in Replayers : props[s] # NotBuilt /\ chain[s] = chain[r] => stage[s] # stage[r]

\* The constructor does not throw; the StringParameter refuses a name that has
\* slashes and does not begin with one.
Accepted(r, p) ==
  /\ ~p.fifo
  /\ ValidTuning(p)
  /\ Head(ParameterName(r, p)) = "/"
  /\ Unmapped(r)

\* Mutant: the shared Lambda is not remembered.
ConstructUnshared(r, p) ==
  /\ synthesis = "running" /\ props[r] = NotBuilt
  /\ Accepted(r, p)
  /\ props' = [props EXCEPT ![r] = p]
  /\ parameters' = [parameters EXCEPT
       ![r] = [name |-> ParameterName(r, p), value |-> ConfigJson(chain[r], chain[r], p)]]
  /\ UNCHANGED <<stage, chain, singletons, synthesis>>

Construct(r, p) ==
  /\ synthesis = "running" /\ props[r] = NotBuilt
  /\ Accepted(r, p)
  /\ props' = [props EXCEPT ![r] = p]
  /\ singletons' = [singletons EXCEPT ![stage[r]] = SingletonOf(r, p)]
  /\ parameters' = [parameters EXCEPT
       ![r] = [name |-> ParameterName(r, p), value |-> ConfigJson(chain[r], chain[r], p)]]
  /\ UNCHANGED <<stage, chain, synthesis>>

\* The exception ends the synthesis of the app.
Throw(r, p) ==
  /\ synthesis = "running" /\ props[r] = NotBuilt
  /\ ~Accepted(r, p)
  /\ synthesis' = "failed"
  /\ UNCHANGED <<stage, chain, props, singletons, parameters>>

Deploy ==
  /\ synthesis = "running"
  /\ \E r \in Replayers : props[r] # NotBuilt
  /\ synthesis' = "deployed"
  /\ UNCHANGED <<stage, chain, props, singletons, parameters>>

-----------------------------------------------------------------------------
(* The shared Lambda, once deployed *)

\* The variables of the function: the caller's environment is spread last.
LambdaVariables(made) ==
  IF made.environment.SSM_PARAMETER_PATH = NoPath
  THEN [made.environment EXCEPT !.SSM_PARAMETER_PATH = ConfigPath(made)]
  ELSE made.environment

\* The role may read what begins with configPath; here word by word, as no two words
\* of an instance begin alike.
MayRead(made, path) == IsPrefix(ConfigPath(made), path)

\* GetParametersByPath, recursive: the parameters of the hierarchy below a path.
Below(path, name) ==
  IsPrefix(IF Last(path) = "/" THEN path ELSE Append(path, "/"), name)

\* The parameters that the Lambda reads and that parse, by the replayer that made them.
Read(made) ==
  LET path == LambdaVariables(made).SSM_PARAMETER_PATH
  IN {r \in Replayers : /\ props[r] # NotBuilt
                        /\ MayRead(made, path)
                        /\ Below(path, parameters[r].name)
                        /\ ParsesAsQueueConfig(parameters[r].value)}

\* Mutant: the map is keyed by the destination.
LoadedByDestination(made, q) ==
  {value \in {parameters[r].value : r \in Read(made)} : value.destinationQueueUrl = q}

\* ConfigStore::refresh, which keys its map by the ARN of the replay queue: what it
\* may have for a chain.  Of several parameters that name the queue the one that
\* SSM lists last wins; SSM promises no order, so it may be any of them.
Loaded(made, q) ==
  {value \in {parameters[r].value : r \in Read(made)} : value.replayQueueArn = q}

LambdaOf(r) == singletons[stage[r]]

\* The role of the Lambda of r may send to the source queues of its stage's replayers.
MaySend(r, q) ==
  \E s \in Replayers : props[s] # NotBuilt /\ stage[s] = stage[r] /\ chain[s] = q

\* The Lambda starts (main.rs), and knows the replay queue of r.
Served(r) ==
  /\ EnvironmentParses(LambdaVariables(LambdaOf(r)))
  /\ Loaded(LambdaOf(r), chain[r]) # {}
=============================================================================
