-------------------------- MODULE ReplayTripProofs --------------------------
(***************************************************************************)
(* What becomes of a message, and of the tuning of a replayer: theorems    *)
(* for any number of replayers and stages, any props, edits and messages,  *)
(* and any width of the integers that holds twice the message timer.       *)
(***************************************************************************)
EXTENDS ReplayTrip, FiniteSetTheorems, TLAPS

-----------------------------------------------------------------------------
(* The delay of one replay *)

\* A power of two is the number of subsets of a set, and thus no negative number.
LEMMA PowerOfTwo == ASSUME NEW n \in Nat PROVE 2 ^ n \in Nat \ {0}
<1>1. IsFiniteSet(1..n) /\ Cardinality(1..n) = n
  BY FS_Interval
<1>2. IsFiniteSet(SUBSET (1..n)) /\ Cardinality(SUBSET (1..n)) = 2 ^ n
  BY <1>1, FS_SUBSET
<1>3. Cardinality(SUBSET (1..n)) \in Nat
  BY <1>2, FS_CardinalityType
<1>4. Cardinality(SUBSET (1..n)) # 0
  <2>1. SUBSET (1..n) # {}
    OBVIOUS
  <2>2. QED
    BY <1>2, <2>1, FS_EmptySet
<1>5. QED
  BY <1>2, <1>3, <1>4

Limit == MAXIMUM_DELAY_LIMIT_SECONDS

LEMMA LimitIsU32 == U32_MAX \in Nat /\ Limit \in Nat /\ Limit <= U32_MAX \div 2 /\ Limit < U32_MAX
  BY TuningAssumption DEF Limit

\* The saturating operations do not show below the message timer: the delay is the
\* doc's formula without the width of the integers.
LEMMA BackoffIsFormula ==
  ASSUME NEW base \in Nat, NEW max \in 0..Limit, NEW attempt \in Nat
  PROVE  /\ Backoff(base, max, attempt) \in 0..max
         /\ Backoff(base, max, attempt) = Smaller(max, base * 2 ^ attempt)
<1>1. PICK power \in Nat \ {0} : power = 2 ^ attempt
  BY PowerOfTwo
<1>2. base * power \in Nat /\ base * U32_MAX \in Nat
  BY LimitIsU32
<1>3. CASE base = 0
  BY <1>1, <1>3, LimitIsU32 DEF Backoff, Saturated, Smaller
<1>4. CASE base # 0 /\ power <= U32_MAX
  <2>1. Saturated(2 ^ attempt) = power
    BY <1>1, <1>4 DEF Saturated, Smaller
  <2>2. PICK product \in Nat : product = base * power
    BY <1>2
  <2>3. Backoff(base, max, attempt) = Smaller(max, Saturated(product))
    BY <2>1, <2>2 DEF Backoff
  <2>4. Smaller(max, Saturated(product)) = Smaller(max, product)
        /\ Smaller(max, product) \in 0..max
    BY <2>2, LimitIsU32 DEF Saturated, Smaller
  <2>5. QED
    BY <1>1, <2>2, <2>3, <2>4
<1>5. CASE base # 0 /\ power > U32_MAX
  <2>1. base * power >= power /\ base * U32_MAX >= U32_MAX
    BY <1>5, LimitIsU32
  <2>2. QED
    BY <1>1, <1>2, <1>5, <2>1, LimitIsU32 DEF Backoff, Saturated, Smaller
<1>6. QED
  BY <1>1, <1>3, <1>4, <1>5, LimitIsU32

LEMMA DelayIsFormula ==
  ASSUME NEW config, NEW attempt \in Nat, NEW seconds \in DelaySeconds(config, attempt),
         config.backoff_rate_seconds \in Nat, config.maximum_delay_seconds \in 0..Limit
  PROVE  LET formula == Smaller(config.maximum_delay_seconds,
                                config.backoff_rate_seconds * 2 ^ attempt)
         IN /\ formula \in 0..Limit
            /\ AsI32(seconds) = seconds
            /\ seconds \in 0..formula
            /\ ~config.use_jitter => seconds = formula
<1> DEFINE base == config.backoff_rate_seconds
           max == config.maximum_delay_seconds
           formula == Smaller(max, base * 2 ^ attempt)
<1>1. Backoff(base, max, attempt) \in 0..max /\ Backoff(base, max, attempt) = formula
  BY BackoffIsFormula
<1>2. formula \in 0..Limit
  BY <1>1, LimitIsU32
<1>3. seconds \in 0..formula /\ (~config.use_jitter => seconds = formula)
  BY <1>1, <1>2, LimitIsU32 DEF DelaySeconds, BackoffWithJitter
<1>4. AsI32(seconds) = seconds
  <2> HIDE DEF formula
  <2>1. QED
    BY <1>2, <1>3, LimitIsU32 DEF AsI32
<1>5. QED
  BY <1>2, <1>3, <1>4

-----------------------------------------------------------------------------
(* What a replayer registers stays what it was made for *)

Registration(r) ==
  /\ LambdaOf(r) \in Props
  /\ props[r] \in Props /\ ValidTuning(props[r])
  /\ ConfigPath(LambdaOf(r)) # <<>> /\ Head(ConfigPath(LambdaOf(r))) = "/"
  /\ parameters[r].name = ConfigPath(LambdaOf(r)) \o NodePath[r]
  /\ r \notin edits => parameters[r].value = ConfigJson(chain[r], chain[r], props[r])

Registrations == \A r \in Replayers : props[r] # NotBuilt => Registration(r)

\* Parameters are written and messages received when the app is deployed.
UnderWay ==
  /\ edits # {} \/ of # NoTrip => synthesis = "deployed"
  /\ of = NoTrip => replays = 0

\* The count is a number, once the message was replayed the whole one it should be.
Counted ==
  /\ ReplayNum(original) \in Number
  /\ ReplayNum(record) \in Number
  /\ replays = 0 => record = original

TripInv ==
  /\ TypeOK /\ Registrations /\ UnderWay /\ Counted
  /\ SameMessage /\ DelayWithinTimer

LEMMA PropsTyped ==
  ASSUME NEW p \in Props
  PROVE  /\ p.maxAttempts \in Number /\ p.maxAttempts.kind # "text"
         /\ p.backoffRate \in Number /\ p.backoffRate.kind # "text"
         /\ p.maximumDelay \in Number /\ p.maximumDelay.kind # "text"
         /\ p.useJitter \in {"true", "false", "unset"}
         /\ p.environment \in Variables
         /\ ConfigPath(p) \in Seq(Words)
  BY SynthesisAssumption DEF ConfigPath

LEMMA NumbersTyped ==
  /\ Unset \in Number
  /\ \A n \in Nat : Whole(n) \in Number
  /\ \A x \in Number : Stringified(x) \in Number
  BY DEF Unset, Whole, Number, Stringified

LEMMA ConfigJsonTyped ==
  ASSUME NEW arn \in Chains, NEW destination \in Chains, NEW p,
         p.maxAttempts \in Number, p.backoffRate \in Number, p.maximumDelay \in Number,
         p.useJitter \in {"true", "false", "unset"}
  PROVE  ConfigJson(arn, destination, p) \in QueueConfigs
  BY NumbersTyped DEF ConfigJson, QueueConfigs

\* The slash with which a name begins is that of the path.
LEMMA PathOfName ==
  ASSUME NEW path \in Seq(Words), NEW r \in Replayers, Head(path \o NodePath[r]) = "/"
  PROVE  path # <<>> /\ Head(path) = "/"
<1>1. NodePath[r] \in Seq(Words) /\ NodePath[r] # <<>> /\ Head(NodePath[r]) # "/"
  BY SynthesisAssumption
<1>2. CASE path = <<>>
  BY <1>1, <1>2
<1>3. CASE path # <<>>
  BY <1>1, <1>3
<1>4. QED
  BY <1>2, <1>3

LEMMA InitTripInv == Init => TripInv
<1> SUFFICES ASSUME Init PROVE TripInv
  OBVIOUS
<1>1. TypeOK
  BY TripAssumption DEF Init, SynthesisInit, TypeOK, SynthesisTypeOK
<1>2. Registrations /\ UnderWay
  BY DEF Init, SynthesisInit, Registrations, UnderWay
<1>3. Counted
  BY TripAssumption, NumbersTyped DEF Init, Counted, ReplayNum
<1>4. SameMessage /\ DelayWithinTimer
  BY TuningAssumption DEF Init, SameMessage, DelayWithinTimer
<1>5. QED
  BY <1>1, <1>2, <1>3, <1>4 DEF TripInv

-----------------------------------------------------------------------------
(* What the Lambda reads for a replayer is what its construct was given *)

Attempts(own, shared) == Given(own.maxAttempts, shared.MAX_ATTEMPTS, DefaultAttempts)
Rate(own, shared) == Given(own.backoffRate, shared.BACKOFF_RATE, DefaultBackoffRate)
Most(own, shared) ==
  Given(own.maximumDelay, shared.MAXIMUM_DELAY, MAXIMUM_DELAY_LIMIT_SECONDS)
Jitter(own, shared) ==
  IF own.useJitter = "unset" THEN shared.BACKOFF_JITTER ELSE own.useJitter

LEMMA VariablesOfShared ==
  ASSUME NEW made \in Props
  PROVE  LET variables == LambdaVariables(made)
             shared == made.environment
         IN /\ variables.MAX_ATTEMPTS = shared.MAX_ATTEMPTS
            /\ variables.BACKOFF_RATE = shared.BACKOFF_RATE
            /\ variables.MAXIMUM_DELAY = shared.MAXIMUM_DELAY
            /\ variables.BACKOFF_JITTER = shared.BACKOFF_JITTER
  BY PropsTyped DEF LambdaVariables, Variables

LEMMA SharedTyped ==
  ASSUME NEW made \in Props, EnvironmentParses(LambdaVariables(made))
  PROVE  LET shared == made.environment
         IN /\ OrElse(shared.MAX_ATTEMPTS, DefaultAttempts) \in Nat
            /\ OrElse(shared.BACKOFF_RATE, DefaultBackoffRate) \in Nat
            /\ OrElse(shared.MAXIMUM_DELAY, Limit) \in 0..Limit
            /\ shared.MAX_ATTEMPTS \in Number
            /\ shared.BACKOFF_RATE \in Number
            /\ shared.MAXIMUM_DELAY \in Number
<1> DEFINE shared == made.environment
<1>1. /\ shared.MAX_ATTEMPTS \in Number
      /\ shared.BACKOFF_RATE \in Number
      /\ shared.MAXIMUM_DELAY \in Number
  BY PropsTyped DEF Variables
<1>2. MaximumDelay(shared.MAXIMUM_DELAY)
  BY VariablesOfShared DEF EnvironmentParses
<1>3. OrElse(shared.MAXIMUM_DELAY, Limit) \in 0..Limit
  BY <1>1, <1>2, LimitIsU32
     DEF MaximumDelay, PositiveInt, IsSet, IsU32, Above, OrElse, Number, Limit
<1>4. /\ OrElse(shared.MAX_ATTEMPTS, DefaultAttempts) \in Nat
      /\ OrElse(shared.BACKOFF_RATE, DefaultBackoffRate) \in Nat
  BY <1>1, TuningAssumption DEF OrElse, Number
<1>5. QED
  BY <1>1, <1>3, <1>4

\* A configuration the Lambda has for a queue is that of some parameter it read.
LEMMA ConfigRead ==
  ASSUME NEW r \in Replayers, NEW q, NEW config \in Configs(r, q)
  PROVE  \E s \in Read(LambdaOf(r)) :
           /\ s \in Replayers /\ props[s] # NotBuilt
           /\ ParsesAsQueueConfig(parameters[s].value)
           /\ parameters[s].value.replayQueueArn = q
           /\ config = Resolve(parameters[s].value,
                               Environment(LambdaVariables(LambdaOf(r))))
<1>1. PICK value \in Loaded(LambdaOf(r), q) :
        config = Resolve(value, Environment(LambdaVariables(LambdaOf(r))))
  BY DEF Configs
<1>2. PICK s \in Read(LambdaOf(r)) :
        value = parameters[s].value /\ value.replayQueueArn = q
  BY DEF Loaded
<1>3. QED
  BY <1>1, <1>2 DEF Read

LEMMA ConfigTyped ==
  ASSUME NEW r \in Replayers, TypeOK, Registrations, props[r] # NotBuilt,
         EnvironmentParses(LambdaVariables(LambdaOf(r))), NEW q, NEW config \in Configs(r, q)
  PROVE  /\ config.queue_url \in Chains
         /\ config.backoff_rate_seconds \in Nat
         /\ config.maximum_delay_seconds \in 0..Limit
<1>1. LambdaOf(r) \in Props
  BY DEF Registrations, Registration
<1>2. PICK s \in Replayers :
        /\ props[s] # NotBuilt
        /\ config = Resolve(parameters[s].value, Environment(LambdaVariables(LambdaOf(r))))
  BY ConfigRead
<1> DEFINE value == parameters[s].value
           shared == LambdaOf(r).environment
<1>3. value \in QueueConfigs
  <2>1. parameters[s] \in Parameters
    BY <1>2 DEF TypeOK, SynthesisTypeOK
  <2>2. QED
    BY <2>1 DEF Parameters
<1> HIDE DEF value
<1>4. config.queue_url \in Chains
  BY <1>2, <1>3 DEF Resolve, QueueConfigs, value
<1>5. config.backoff_rate_seconds \in Nat
  <2>1. config.backoff_rate_seconds =
          OrElse(value.backoffRate, OrElse(shared.BACKOFF_RATE, DefaultBackoffRate))
    BY <1>1, <1>2, VariablesOfShared DEF Resolve, Environment, value
  <2>2. OrElse(shared.BACKOFF_RATE, DefaultBackoffRate) \in Nat
    BY <1>1, SharedTyped
  <2>3. QED
    BY <1>3, <2>1, <2>2 DEF OrElse, QueueConfigs, Number
<1>6. config.maximum_delay_seconds \in 0..Limit
  <2> DEFINE own == value.maximumDelay
  <2>1. config.maximum_delay_seconds =
          IF IsSet(own) THEN Smaller(own.whole, Limit) ELSE OrElse(shared.MAXIMUM_DELAY, Limit)
    BY <1>1, <1>2, VariablesOfShared DEF Resolve, Environment, Limit, value
  <2>2. own.whole \in Nat
    BY <1>3 DEF QueueConfigs, Number
  <2>3. OrElse(shared.MAXIMUM_DELAY, Limit) \in 0..Limit
    BY <1>1, SharedTyped
  <2>4. QED
    BY <2>1, <2>2, <2>3, LimitIsU32 DEF Smaller
<1>7. QED
  BY <1>4, <1>5, <1>6

\* What is read for a queue that a replayer alone speaks for is what that replayer
\* wrote: of the parameters read, no other one names the queue.
LEMMA SoleConfig ==
  ASSUME NEW r \in Replayers, TypeOK, Registrations, Sole(r), NEW config \in Configs(r, chain[r])
  PROVE  /\ ParsesAsQueueConfig(ConfigJson(chain[r], chain[r], props[r]))
         /\ config = Resolve(ConfigJson(chain[r], chain[r], props[r]),
                             Environment(LambdaVariables(LambdaOf(r))))
<1>1. PICK s \in Replayers :
        /\ props[s] # NotBuilt
        /\ ParsesAsQueueConfig(parameters[s].value)
        /\ parameters[s].value.replayQueueArn = chain[r]
        /\ config = Resolve(parameters[s].value, Environment(LambdaVariables(LambdaOf(r))))
  BY ConfigRead
<1>2. s \notin edits
  BY <1>1 DEF Sole
<1>3. parameters[s].value = ConfigJson(chain[s], chain[s], props[s])
  BY <1>1, <1>2 DEF Registrations, Registration
<1>4. chain[s] = chain[r]
  BY <1>1, <1>3 DEF ConfigJson
<1>5. s = r
  BY <1>1, <1>4 DEF Sole
<1>6. QED
  BY <1>1, <1>3, <1>5

LEMMA OwnConfig ==
  ASSUME NEW r \in Replayers, TypeOK, Registrations, Sole(r),
         EnvironmentParses(LambdaVariables(LambdaOf(r))),
         props[r].maxAttempts.kind # "infinite", props[r].backoffRate.kind # "infinite",
         NEW config \in Configs(r, chain[r])
  PROVE  LET own == props[r]
             shared == LambdaOf(r).environment
         IN /\ config.queue_url = chain[r]
            /\ config.max_attempts = Attempts(own, shared)
            /\ config.backoff_rate_seconds = Rate(own, shared)
            /\ config.maximum_delay_seconds = Most(own, shared)
            /\ config.use_jitter => Jitter(own, shared) = "true"
<1> DEFINE own == props[r]
           shared == LambdaOf(r).environment
           defaults == Environment(LambdaVariables(LambdaOf(r)))
           json == ConfigJson(chain[r], chain[r], own)
<1>1. LambdaOf(r) \in Props /\ own \in Props /\ ValidTuning(own)
  BY DEF Registrations, Registration, Sole
<1>2. ParsesAsQueueConfig(json) /\ config = Resolve(json, defaults)
  BY SoleConfig
<1>3. /\ own.maxAttempts \in Number /\ own.backoffRate \in Number /\ own.maximumDelay \in Number
      /\ own.maximumDelay.kind # "infinite"
  BY <1>1, PropsTyped DEF ValidTuning, Above
<1>4. /\ json.maxAttempts = own.maxAttempts /\ json.backoffRate = own.backoffRate
      /\ json.maximumDelay = own.maximumDelay /\ json.useJitter = own.useJitter
      /\ json.destinationQueueUrl = chain[r]
  BY <1>3 DEF ConfigJson, Stringified
<1>5. /\ defaults.max_attempts = OrElse(shared.MAX_ATTEMPTS, DefaultAttempts)
      /\ defaults.backoff_rate_seconds = OrElse(shared.BACKOFF_RATE, DefaultBackoffRate)
      /\ defaults.maximum_delay_seconds = OrElse(shared.MAXIMUM_DELAY, Limit)
  BY <1>1, VariablesOfShared DEF Environment, Limit
<1>6. defaults.use_jitter = FlagOrElse(shared.BACKOFF_JITTER, FALSE)
  <2>1. defaults.use_jitter = FlagOrElse(LambdaVariables(LambdaOf(r)).BACKOFF_JITTER, FALSE)
    BY Zenon DEF Environment
  <2>2. QED
    BY <1>1, <2>1, VariablesOfShared, Zenon
<1> HIDE DEF own, shared, defaults, json
<1>7. /\ config.queue_url = chain[r]
      /\ config.max_attempts = Attempts(own, shared)
      /\ config.backoff_rate_seconds = Rate(own, shared)
  BY <1>2, <1>4, <1>5 DEF Resolve, Attempts, Rate, Given
<1>8. config.maximum_delay_seconds = Most(own, shared)
  <2>1. config.maximum_delay_seconds =
          IF IsSet(own.maximumDelay) THEN Smaller(own.maximumDelay.whole, Limit)
          ELSE OrElse(shared.MAXIMUM_DELAY, Limit)
    BY <1>2, <1>4, <1>5 DEF Resolve, Limit
  <2>2. ASSUME IsSet(own.maximumDelay)
        PROVE  Smaller(own.maximumDelay.whole, Limit) = own.maximumDelay.whole
    <3>1. own.maximumDelay.whole \in Nat /\ ~(own.maximumDelay.whole > Limit)
      BY <1>1, <1>3 DEF ValidTuning, Above, Number, Limit
    <3>2. QED
      BY <3>1, LimitIsU32 DEF Smaller
  <2>3. QED
    BY <2>1, <2>2 DEF Most, Given, OrElse, Limit
<1>9. config.use_jitter => Jitter(own, shared) = "true"
  <2>1. config.use_jitter = FlagOrElse(json.useJitter, defaults.use_jitter)
    BY <1>2, Zenon DEF Resolve
  <2>2. config.use_jitter = FlagOrElse(own.useJitter, FlagOrElse(shared.BACKOFF_JITTER, FALSE))
    BY <1>4, <1>6, <2>1, Zenon
  <2>3. QED
    BY <2>2, Zenon DEF FlagOrElse, Jitter
<1>10. QED
  BY <1>7, <1>8, <1>9 DEF own, shared

-----------------------------------------------------------------------------
(* Every step keeps the invariant *)

LEMMA MessageKept ==
  ASSUME TripInv, UNCHANGED <<original, record, replays, delay>>
  PROVE  Counted' /\ SameMessage' /\ DelayWithinTimer'
         /\ (original \in Originals /\ replays \in 0..MaxCount /\ delay \in Int)'
  BY DEF TripInv, TypeOK, Counted, SameMessage, DelayWithinTimer, ReplayNum

LEMMA ConstructTripInv ==
  ASSUME NEW r \in Replayers, NEW p \in Props, TripInv, Construct(r, p), UNCHANGED tripVars
  PROVE  TripInv'
<1> DEFINE made == SingletonOf(r, p)
           parameter == [name |-> ParameterName(r, p), value |-> ConfigJson(chain[r], chain[r], p)]
<1>1. TypeOK /\ Registrations /\ UnderWay
  BY DEF TripInv
<1>2. /\ UNCHANGED <<stage, chain, synthesis, edits, of, original, record, replays, delay>>
      /\ edits = {} /\ of = NoTrip
  BY <1>1 DEF Construct, tripVars, UnderWay
<1>3. /\ stage[r] \in Stages
      /\ made \in Props /\ made # NoSingleton
      /\ singletons[stage[r]] # NoSingleton => made = singletons[stage[r]]
  BY <1>1, SynthesisAssumption DEF TypeOK, SynthesisTypeOK, SingletonOf
<1>4. /\ ConfigPath(made) \in Seq(Words) /\ NodePath[r] \in Seq(Words)
      /\ ParameterName(r, p) = ConfigPath(made) \o NodePath[r]
      /\ ParameterName(r, p) \in Seq(Words)
  BY <1>3, PropsTyped, SynthesisAssumption DEF ParameterName
<1>5. ConfigPath(made) # <<>> /\ Head(ConfigPath(made)) = "/"
  BY <1>4, PathOfName DEF Construct, Accepted
<1>6. ConfigJson(chain[r], chain[r], p) \in QueueConfigs
  <2>1. chain[r] \in Chains
    BY <1>1 DEF TypeOK, SynthesisTypeOK
  <2>2. QED
    BY <2>1, PropsTyped, ConfigJsonTyped
<1>7. parameter \in Parameters /\ parameter # NoParameter
  <2>1. \A name \in Seq(Words), value \in QueueConfigs :
          [name |-> name, value |-> value] \in Parameters
    BY DEF Parameters
  <2>2. parameter \in Parameters
    BY <1>4, <1>6, <2>1
  <2>3. QED
    BY <2>2, SynthesisAssumption
<1>8. /\ props[r] = NotBuilt /\ p # NotBuilt
      /\ props' = [props EXCEPT ![r] = p]
      /\ singletons' = [singletons EXCEPT ![stage[r]] = made]
      /\ parameters' = [parameters EXCEPT ![r] = parameter]
  BY SynthesisAssumption DEF Construct
<1>9. \A s \in Replayers : singletons[stage[s]] # NoSingleton =>
        singletons'[stage'[s]] = singletons[stage[s]]
  BY <1>1, <1>2, <1>3, <1>8 DEF TypeOK, SynthesisTypeOK
<1>10. singletons'[stage'[r]] = made
  BY <1>1, <1>2, <1>3, <1>8 DEF TypeOK, SynthesisTypeOK
<1>11. SynthesisTypeOK'
  <2> HIDE DEF made, parameter
  <2>1. /\ stage' \in [Replayers -> Stages] /\ chain' \in [Replayers -> Chains]
        /\ props' \in [Replayers -> Props \cup {NotBuilt}]
        /\ singletons' \in [Stages -> Props \cup {NoSingleton}]
        /\ parameters' \in [Replayers -> Parameters \cup {NoParameter}]
        /\ synthesis' \in {"running", "failed", "deployed"}
    BY <1>1, <1>2, <1>3, <1>7, <1>8 DEF TypeOK, SynthesisTypeOK
  <2>2. \A s \in Replayers :
          /\ props'[s] = NotBuilt <=> parameters'[s] = NoParameter
          /\ parameters'[s] # NoParameter => singletons'[stage'[s]] # NoSingleton
    BY <1>1, <1>3, <1>7, <1>8, <1>9, <1>10 DEF TypeOK, SynthesisTypeOK
  <2>3. QED
    BY <2>1, <2>2 DEF SynthesisTypeOK
<1>12. Registrations'
  <2> SUFFICES ASSUME NEW s \in Replayers, props'[s] # NotBuilt PROVE Registration(s)'
    BY DEF Registrations
  <2>1. CASE s = r
    <3>1. props'[s] = p /\ parameters'[s] = parameter
      BY <1>1, <1>8, <2>1 DEF TypeOK, SynthesisTypeOK
    <3>2. ValidTuning(p)
      BY DEF Construct, Accepted
    <3>3. LambdaOf(s)' = made
      BY <1>10, <2>1 DEF LambdaOf
    <3> HIDE DEF made
    <3>4. QED
      BY <1>2, <1>3, <1>4, <1>5, <2>1, <3>1, <3>2, <3>3 DEF Registration
  <2>2. CASE s # r
    <3>1. props'[s] = props[s] /\ parameters'[s] = parameters[s]
      BY <1>1, <1>8, <2>2 DEF TypeOK, SynthesisTypeOK
    <3>2. Registration(s)
      BY <1>1, <3>1 DEF Registrations
    <3>3. LambdaOf(s)' = LambdaOf(s)
      BY <1>1, <1>9, <3>1 DEF LambdaOf, TypeOK, SynthesisTypeOK
    <3>4. QED
      BY <1>2, <3>1, <3>2, <3>3 DEF Registration
  <2>3. QED
    BY <2>1, <2>2
<1>13. TypeOK'
  BY <1>1, <1>2, <1>11, MessageKept DEF TypeOK
<1>14. UnderWay'
  BY <1>1, <1>2 DEF UnderWay
<1>15. QED
  BY <1>2, <1>12, <1>13, <1>14, MessageKept DEF TripInv

\* Where neither the replayers nor their parameters change, nor the message under
\* way, nothing does that a tuning decides.
LEMMA RegistryKept ==
  ASSUME TripInv, UNCHANGED <<stage, chain, props, singletons, parameters, tripVars>>,
         synthesis' \in {"running", "failed", "deployed"},
         synthesis = "deployed" => synthesis' = "deployed"
  PROVE  TripInv'
<1>1. UNCHANGED <<edits, of, original, record, replays, delay>>
  BY DEF tripVars
<1>2. TypeOK'
  BY <1>1 DEF TripInv, TypeOK, SynthesisTypeOK
<1>3. Registrations'
  BY <1>1 DEF TripInv, Registrations, Registration, LambdaOf
<1>4. UnderWay'
  BY <1>1 DEF TripInv, UnderWay
<1>5. QED
  BY <1>1, <1>2, <1>3, <1>4, MessageKept DEF TripInv

LEMMA BeginTripInv ==
  ASSUME NEW q \in Chains, TripInv, Begin(q)
  PROVE  TripInv'
<1>1. UNCHANGED <<stage, chain, props, singletons, parameters, synthesis, edits, original,
                  record, replays, delay>>
  BY DEF Begin, synthesisVars
<1>2. of' = q /\ synthesis = "deployed" /\ replays = 0
  BY DEF Begin, TripInv, UnderWay
<1>3. TypeOK'
  BY <1>1, <1>2 DEF TripInv, TypeOK, SynthesisTypeOK
<1>4. Registrations'
  BY <1>1 DEF TripInv, Registrations, Registration, LambdaOf
<1>5. UnderWay'
  BY <1>1, <1>2, TripAssumption DEF UnderWay
<1>6. QED
  BY <1>1, <1>3, <1>4, <1>5, MessageKept DEF TripInv

LEMMA EditTripInv ==
  ASSUME NEW r \in Replayers, NEW value \in Edits, TripInv, EditParameter(r, value)
  PROVE  TripInv'
<1> DEFINE old == parameters[r]
<1>1. TypeOK /\ Registrations /\ UnderWay
  BY DEF TripInv
<1>2. /\ UNCHANGED <<stage, chain, props, singletons, synthesis, of, original, record, replays, delay>>
      /\ edits' = edits \cup {r}
      /\ synthesis = "deployed" /\ props[r] # NotBuilt
  BY DEF EditParameter
<1>3. old \in Parameters
  BY <1>1, <1>2 DEF TypeOK, SynthesisTypeOK
<1>4. value \in QueueConfigs
  BY TripAssumption
<1>5. parameters' = [parameters EXCEPT ![r] = [old EXCEPT !.value = value]]
  BY DEF EditParameter
<1>6. /\ [old EXCEPT !.value = value] \in Parameters
      /\ [old EXCEPT !.value = value].name = old.name
      /\ [old EXCEPT !.value = value].value = value
  BY <1>3, <1>4 DEF Parameters
<1>7. TypeOK'
  <2>1. parameters' \in [Replayers -> Parameters \cup {NoParameter}]
    BY <1>1, <1>5, <1>6 DEF TypeOK, SynthesisTypeOK
  <2>2. \A s \in Replayers : parameters'[s] = NoParameter <=> parameters[s] = NoParameter
    BY <1>1, <1>2, <1>5, <1>6, SynthesisAssumption DEF TypeOK, SynthesisTypeOK
  <2>3. SynthesisTypeOK'
    BY <1>1, <1>2, <2>1, <2>2 DEF TypeOK, SynthesisTypeOK
  <2>4. QED
    BY <1>1, <1>2, <2>3, MessageKept DEF TypeOK
<1>8. Registrations'
  <2> SUFFICES ASSUME NEW s \in Replayers, props'[s] # NotBuilt PROVE Registration(s)'
    BY DEF Registrations
  <2>1. Registration(s) /\ LambdaOf(s)' = LambdaOf(s) /\ props'[s] = props[s]
    BY <1>1, <1>2 DEF Registrations, LambdaOf
  <2>2. CASE s = r
    <3>1. parameters'[s].name = old.name
      BY <1>1, <1>5, <1>6, <2>2 DEF TypeOK, SynthesisTypeOK
    <3>2. QED
      BY <1>2, <2>1, <2>2, <3>1 DEF Registration
  <2>3. CASE s # r
    <3>1. parameters'[s] = parameters[s]
      BY <1>1, <1>5, <2>3 DEF TypeOK, SynthesisTypeOK
    <3>2. QED
      BY <1>2, <2>1, <2>3, <3>1 DEF Registration
  <2>4. QED
    BY <2>2, <2>3
<1>9. UnderWay'
  BY <1>1, <1>2 DEF UnderWay
<1>10. QED
  BY <1>2, <1>7, <1>8, <1>9, MessageKept DEF TripInv

\* What a replay makes of a record: the same message with the next count.
LEMMA SentAgain ==
  ASSUME NEW config, NEW rec, NEW request \in BuildReplayRequest(config, rec),
         ReplayNum(rec) \in Number
  PROVE  LET next == Delivered(request)
             attempt == ReplayNum(rec).whole + 1
         IN /\ request.queue_url = config.queue_url
            /\ attempt \in Nat
            /\ attempt <= config.max_attempts
            /\ request.delay_seconds \in DelaySeconds(config, attempt)
            /\ next.body = rec.body
            /\ REPLAY_NUM_PROPERTY_NAME \in DOMAIN next.message_attributes
            /\ next.message_attributes[REPLAY_NUM_PROPERTY_NAME] = Whole(attempt)
            /\ ReplayNum(next) = Whole(attempt)
            /\ WithoutCount(next.message_attributes) = WithoutCount(rec.message_attributes)
            /\ \A name \in Forwarded :
                 /\ name \in DOMAIN next.attributes <=> name \in DOMAIN rec.attributes
                 /\ name \in DOMAIN rec.attributes => next.attributes[name] = rec.attributes[name]
<1> DEFINE attempt == ReplayNum(rec).whole + 1
           next == Delivered(request)
<1>1. PICK seconds \in DelaySeconds(config, attempt) :
        /\ attempt <= config.max_attempts
        /\ request =
             [queue_url |-> config.queue_url,
              message_body |-> rec.body,
              delay_seconds |-> seconds,
              message_attributes |-> MapMessageAttributes(rec.message_attributes, attempt),
              attributes |-> Restrict(rec.attributes, DOMAIN rec.attributes \cap Forwarded)]
  BY DEF BuildReplayRequest
<1>2. attempt \in Nat
  BY DEF Number
<1> HIDE DEF attempt
<1>3. /\ request.queue_url = config.queue_url /\ request.delay_seconds = seconds
      /\ next.body = rec.body
      /\ next.message_attributes = MapMessageAttributes(rec.message_attributes, attempt)
  BY <1>1 DEF Delivered
<1>4. /\ REPLAY_NUM_PROPERTY_NAME \in DOMAIN next.message_attributes
      /\ next.message_attributes[REPLAY_NUM_PROPERTY_NAME] = Whole(attempt)
      /\ ReplayNum(next) = Whole(attempt)
  BY <1>3 DEF MapMessageAttributes, ReplayNum, IsSet, Whole
<1>5. WithoutCount(next.message_attributes) = WithoutCount(rec.message_attributes)
  BY <1>3 DEF MapMessageAttributes, WithoutCount, Restrict
<1>6. \A name \in Forwarded :
        /\ name \in DOMAIN next.attributes <=> name \in DOMAIN rec.attributes
        /\ name \in DOMAIN rec.attributes => next.attributes[name] = rec.attributes[name]
  <2>1. request.attributes = Restrict(rec.attributes, DOMAIN rec.attributes \cap Forwarded)
    BY <1>1
  <2>2. "ApproximateReceiveCount" \notin Forwarded
    BY DEF Forwarded, TRACE_HEADER_PROPERTY_NAME
  <2>3. QED
    BY <2>1, <2>2 DEF Delivered, Restrict
<1>7. QED
  BY <1>1, <1>2, <1>3, <1>4, <1>5, <1>6 DEF attempt

LEMMA ReplayTripInv ==
  ASSUME TripInv, NEW r \in Replayers, Replay(r)
  PROVE  TripInv'
<1>1. /\ TypeOK /\ Registrations /\ UnderWay /\ Counted /\ SameMessage
      /\ of # NoTrip /\ props[r] # NotBuilt
      /\ EnvironmentParses(LambdaVariables(LambdaOf(r)))
      /\ synthesis = "deployed" /\ replays \in Nat /\ replays < MaxCount
  BY TripAssumption DEF TripInv, TypeOK, UnderWay, Replay
<1>2. /\ UNCHANGED <<stage, chain, props, singletons, parameters, synthesis, edits, original>>
      /\ replays' = replays + 1
  BY DEF Replay, synthesisVars
<1>pick. PICK config \in Configs(r, of) : \E request \in BuildReplayRequest(config, record) :
        /\ of' = request.queue_url
        /\ record' = Delivered(request)
        /\ delay' = AsI32(request.delay_seconds)
  BY DEF Replay
<1>3. PICK request \in BuildReplayRequest(config, record) :
        /\ of' = request.queue_url
        /\ record' = Delivered(request)
        /\ delay' = AsI32(request.delay_seconds)
  BY <1>pick
<1> DEFINE attempt == ReplayNum(record).whole + 1
           seconds == request.delay_seconds
           formula == Smaller(config.maximum_delay_seconds,
                              config.backoff_rate_seconds * 2 ^ attempt)
<1>4. /\ config.queue_url \in Chains
      /\ config.backoff_rate_seconds \in Nat
      /\ config.maximum_delay_seconds \in 0..Limit
  BY <1>1, ConfigTyped
<1>5. ReplayNum(record) \in Number
  BY <1>1 DEF Counted
<1>6. of' \in Chains
  BY <1>3, <1>4, <1>5, SentAgain
<1>7. attempt \in Nat /\ seconds \in DelaySeconds(config, attempt)
  BY <1>5, SentAgain
<1>8. /\ formula \in 0..Limit
      /\ delay' \in 0..formula
  <2>1. AsI32(seconds) = seconds
    BY <1>4, <1>7, DelayIsFormula
  <2>2. QED
    BY <1>3, <1>4, <1>7, <2>1, DelayIsFormula
<1>9. DelayWithinTimer' /\ delay' \in Int
  <2> HIDE DEF formula
  <2>1. QED
    BY <1>8, LimitIsU32 DEF DelayWithinTimer, Limit
<1>10. TypeOK'
  BY <1>1, <1>2, <1>6, <1>9, TripAssumption DEF TypeOK, SynthesisTypeOK
<1>11. Registrations' /\ UnderWay'
  BY <1>1, <1>2, <1>6, TripAssumption DEF Registrations, Registration, LambdaOf, UnderWay
<1>12. /\ record'.body = record.body
       /\ ReplayNum(record') = Whole(attempt)
       /\ WithoutCount(record'.message_attributes) = WithoutCount(record.message_attributes)
       /\ \A name \in Forwarded :
            /\ name \in DOMAIN record'.attributes <=> name \in DOMAIN record.attributes
            /\ name \in DOMAIN record.attributes =>
                 record'.attributes[name] = record.attributes[name]
  BY <1>3, <1>5, SentAgain
<1>13. Counted'
  BY <1>1, <1>2, <1>7, <1>12, NumbersTyped DEF Counted
<1>14. SameMessage'
  <2>1. ReplayNum(record).whole = ReplayNum(original).whole + replays
    <3>1. ReplayNum(original).whole \in Nat
      BY <1>1 DEF Counted, Number
    <3>2. CASE replays = 0
      BY <1>1, <3>1, <3>2 DEF Counted
    <3>3. CASE replays > 0
      BY <1>1, <3>3 DEF SameMessage, Whole
    <3>4. QED
      BY <1>1, <3>2, <3>3
  <2>2. ReplayNum(record') = Whole(ReplayNum(original).whole + replays')
    <3>1. ReplayNum(original).whole \in Nat
      BY <1>1 DEF Counted, Number
    <3>2. QED
      BY <1>1, <1>2, <1>12, <2>1, <3>1
  <2>3. QED
    BY <1>1, <1>2, <1>12, <2>2 DEF SameMessage
<1>15. QED
  BY <1>9, <1>10, <1>11, <1>13, <1>14 DEF TripInv

LEMMA NextTripInv == TripInv /\ [Next]_vars => TripInv'
<1> SUFFICES ASSUME TripInv, [Next]_vars PROVE TripInv'
  OBVIOUS
<1>1. ASSUME NEW r \in Replayers, NEW p \in Props, Construct(r, p), UNCHANGED tripVars
      PROVE  TripInv'
  BY <1>1, ConstructTripInv
<1>2. ASSUME NEW r \in Replayers, NEW p \in Props, Throw(r, p), UNCHANGED tripVars
      PROVE  TripInv'
  BY <1>2, RegistryKept DEF Throw
<1>3. ASSUME Deploy, UNCHANGED tripVars PROVE TripInv'
  BY <1>3, RegistryKept DEF Deploy
<1>4. ASSUME NEW q \in Chains, Begin(q) PROVE TripInv'
  BY <1>4, BeginTripInv
<1>5. ASSUME NEW r \in Replayers, NEW value \in Edits, EditParameter(r, value)
      PROVE  TripInv'
  BY <1>5, EditTripInv
<1>6. ASSUME NEW r \in Replayers, Replay(r) PROVE TripInv'
  BY <1>6, ReplayTripInv
<1>7. CASE UNCHANGED vars
  <2>1. synthesis \in {"running", "failed", "deployed"}
    BY DEF TripInv, TypeOK, SynthesisTypeOK
  <2>2. QED
    BY <1>7, <2>1, RegistryKept DEF vars, tripVars
<1>8. QED
  BY <1>1, <1>2, <1>3, <1>4, <1>5, <1>6, <1>7 DEF Next, Synthesize

LEMMA AlwaysTripInv == Spec => []TripInv
<1>1. TripInv /\ [Next]_vars => TripInv'
  BY NextTripInv
<1>2. QED
  BY <1>1, InitTripInv, PTL DEF Spec

-----------------------------------------------------------------------------
(* Theorems *)

\* Every reachable state is well typed: what a parameter holds, by whichever
\* construct or hand it was written, is a configuration (sqs-replayer.ts), a
\* replayer is registered just when it was built, and its stage has a Lambda then.
THEOREM TripTypeCorrect == Spec => []TypeOK
<1>1. TripInv => TypeOK
  BY DEF TripInv
<1>2. QED
  BY <1>1, AlwaysTripInv, PTL

\* Whatever the props, the environment and the hand-written parameters say, and
\* however high the count of a message, the delay that reaches SQS is 0 to 900 s:
\* the saturating operations (backoff.rs), the clamp of resolve (config.rs) and
\* maximum_delay (environment.rs) together make the cast to i32 safe
\* (replay.rs:177-185), for any width that holds twice the limit.
THEOREM DelaysFitTheTimer == Spec => []DelayWithinTimer
<1>1. TripInv => DelayWithinTimer
  BY DEF TripInv
<1>2. QED
  BY <1>1, AlwaysTripInv, PTL

\* A replay of a queue that one replayer alone speaks for.
LEMMA ReplayAsTuned ==
  ASSUME TripInv, NEW r \in Replayers, NEW s \in Replayers, Replay(s)
  PROVE  AsTuned(r)
<1> DEFINE own == props[r]
           shared == LambdaOf(r).environment
<1> SUFFICES ASSUME Sole(r), of = chain[r],
                    own.maxAttempts.kind # "infinite", own.backoffRate.kind # "infinite"
             PROVE  AsTuned(r)
  BY DEF AsTuned
<1>1. TypeOK /\ Registrations /\ ReplayNum(record) \in Number
  BY DEF TripInv, Counted
<1>2. s = r
  BY DEF Replay, Sole
<1>3. /\ props[r] # NotBuilt
      /\ EnvironmentParses(LambdaVariables(LambdaOf(r)))
  BY <1>2 DEF Replay
<1>pick. PICK config \in Configs(r, chain[r]) : \E request \in BuildReplayRequest(config, record) :
        /\ of' = request.queue_url
        /\ record' = Delivered(request)
        /\ delay' = AsI32(request.delay_seconds)
  BY <1>2 DEF Replay
<1>4. PICK request \in BuildReplayRequest(config, record) :
        /\ of' = request.queue_url
        /\ record' = Delivered(request)
        /\ delay' = AsI32(request.delay_seconds)
  BY <1>pick
<1> DEFINE attempt == ReplayNum(record).whole + 1
           seconds == request.delay_seconds
           formula == Smaller(config.maximum_delay_seconds,
                              config.backoff_rate_seconds * 2 ^ attempt)
<1>5. /\ config.backoff_rate_seconds \in Nat
      /\ config.maximum_delay_seconds \in 0..Limit
  BY <1>1, <1>3, ConfigTyped
<1>6. /\ config.queue_url = chain[r]
      /\ config.max_attempts = Attempts(own, shared)
      /\ config.backoff_rate_seconds = Rate(own, shared)
      /\ config.maximum_delay_seconds = Most(own, shared)
      /\ config.use_jitter => Jitter(own, shared) = "true"
  BY <1>1, <1>3, OwnConfig
<1>7. /\ attempt \in Nat /\ attempt <= config.max_attempts
      /\ seconds \in DelaySeconds(config, attempt)
      /\ of' = config.queue_url
      /\ record'.message_attributes[REPLAY_NUM_PROPERTY_NAME] = Whole(attempt)
  BY <1>1, <1>4, SentAgain
<1>8. record'.message_attributes[REPLAY_NUM_PROPERTY_NAME].whole = attempt
  BY <1>7 DEF Whole
<1>9. /\ formula \in 0..Limit /\ delay' \in 0..formula
      /\ ~config.use_jitter => delay' = formula
  <2>1. AsI32(seconds) = seconds
    BY <1>5, <1>7, DelayIsFormula
  <2>2. QED
    BY <1>4, <1>5, <1>7, <2>1, DelayIsFormula
<1> HIDE DEF own, shared, attempt, seconds
<1>10. formula = Smaller(Most(own, shared), Rate(own, shared) * 2 ^ attempt)
  BY <1>6
<1> HIDE DEF formula
<1>11. /\ attempt <= Attempts(own, shared)
       /\ delay' <= formula
       /\ Jitter(own, shared) # "true" => delay' = formula
  <2>1. delay' <= formula
    BY <1>9, LimitIsU32
  <2>2. QED
    BY <1>6, <1>7, <1>9, <2>1
<1>12. of' = of
  BY <1>6, <1>7
<1>13. QED
  BY <1>8, <1>10, <1>11, <1>12 DEF AsTuned, Attempts, Rate, Most, Jitter, own, shared

\* A message of a queue that one replayer alone speaks for is replayed to its own
\* source queue, by the values this replayer was given, for those it was not given
\* by the environment of the shared Lambda, else by the defaults, and the delay is
\* the formula of the doc (backoff.rs:8) however large the attempt: for any
\* replayers in any stages, in any order of construction, whatever they registered
\* and whatever is written by hand for other queues into the map that the Lambda
\* fills (config.rs:126-131).
THEOREM OwnTuningAlways == Spec => OwnTuningGoverns
<1>1. TripInv /\ [Next]_vars => \A r \in Replayers : AsTuned(r)
  <2> SUFFICES ASSUME TripInv, [Next]_vars, NEW r \in Replayers PROVE AsTuned(r)
    OBVIOUS
  <2>1. CASE \E s \in Replayers : Replay(s)
    BY <2>1, ReplayAsTuned
  <2>2. CASE replays' = replays
    <3>1. replays \in Nat
      BY TripAssumption DEF TripInv, TypeOK
    <3>2. QED
      BY <2>2, <3>1 DEF AsTuned
  <2>3. QED
    BY <2>1, <2>2 DEF Next, Synthesize, Begin, EditParameter, tripVars, vars
<1>2. QED
  BY <1>1, AlwaysTripInv, PTL DEF Spec, OwnTuningGoverns

\* However often a message goes round (build_replay_request, to_batch_entry), it
\* stays the one its producer sent, and its count is that of its replays.
THEOREM MessageUnaltered == Spec => []SameMessage
<1>1. TripInv => SameMessage
  BY DEF TripInv
<1>2. QED
  BY <1>1, AlwaysTripInv, PTL

\* What is registered below the path of a sound Lambda is read by it.
LEMMA LoadedUnlessMistaken ==
  ASSUME TripInv, NEW r \in Replayers \ edits, props[r] # NotBuilt,
         ~OwnMistake(props[r]), ~SharedMistake(LambdaOf(r))
  PROVE  Served(r)
<1> DEFINE made == LambdaOf(r)
           path == ConfigPath(made)
           own == props[r]
<1>1. /\ made \in Props /\ own \in Props
      /\ path # <<>> /\ Head(path) = "/"
      /\ parameters[r].name = path \o NodePath[r]
      /\ parameters[r].value = ConfigJson(chain[r], chain[r], own)
  BY DEF TripInv, Registrations, Registration
<1>2. path \in Seq(Words) /\ NodePath[r] \in Seq(Words)
  BY <1>1, PropsTyped, SynthesisAssumption
<1>3. /\ Last(path) = "/"
      /\ made.environment.SSM_PARAMETER_PATH = NoPath
      /\ EnvironmentParses([made.environment EXCEPT !.SSM_PARAMETER_PATH = DEFAULT_CONFIG_PATH])
  BY DEF SharedMistake
<1>4. made.environment \in Variables
  BY <1>1, PropsTyped
<1>5. /\ LambdaVariables(made) = [made.environment EXCEPT !.SSM_PARAMETER_PATH = path]
      /\ LambdaVariables(made).SSM_PARAMETER_PATH = path
  BY <1>3, <1>4 DEF LambdaVariables, Variables
<1>6. EnvironmentParses(LambdaVariables(made))
  <2> HIDE DEF made, path
  <2>1. QED
    BY <1>1, <1>3, <1>4, <1>5 DEF EnvironmentParses, Variables
<1>7. MayRead(made, path) /\ Below(path, parameters[r].name)
  <2> HIDE DEF path
  <2>1. IsPrefix(path, path) /\ IsPrefix(path, path \o NodePath[r])
    BY <1>2 DEF IsPrefix
  <2>2. QED
    BY <1>1, <1>3, <2>1 DEF MayRead, Below, path
<1>8. ParsesAsQueueConfig(parameters[r].value)
  <2> SUFFICES ASSUME NEW x \in {own.maxAttempts, own.backoffRate, own.maximumDelay}
               PROVE  IsSet(Stringified(x)) => IsU32(Stringified(x))
    BY <1>1 DEF ParsesAsQueueConfig, ConfigJson
  <2>1. x \in Number /\ x.kind # "text"
    BY <1>1, PropsTyped
  <2>2. x.kind # "fraction" /\ (x.kind = "integer" => ~(x.whole > U32_MAX))
    BY DEF OwnMistake
  <2>3. QED
    BY <2>1, <2>2, LimitIsU32 DEF Stringified, IsSet, IsU32, Unset, Number
<1>9. r \in Read(made)
  BY <1>5, <1>7, <1>8 DEF Read
<1>10. parameters[r].value \in Loaded(made, chain[r])
  BY <1>1, <1>9 DEF Loaded, ConfigJson
<1>11. QED
  BY <1>6, <1>10 DEF Served

\* Only a parameter written by hand for this queue sends its messages elsewhere.
LEMMA SentHome ==
  ASSUME TripInv, NEW r \in Replayers, NEW config \in Configs(r, chain[r])
  PROVE  \/ config.queue_url = chain[r]
         \/ \E s \in edits : parameters[s].value.replayQueueArn = chain[r]
<1>1. PICK s \in Replayers :
        /\ props[s] # NotBuilt
        /\ parameters[s].value.replayQueueArn = chain[r]
        /\ config = Resolve(parameters[s].value, Environment(LambdaVariables(LambdaOf(r))))
  BY ConfigRead
<1>2. CASE s \in edits
  BY <1>1, <1>2
<1>3. CASE s \notin edits
  <2>1. parameters[s].value = ConfigJson(chain[s], chain[s], props[s])
    BY <1>1, <1>3 DEF TripInv, Registrations, Registration
  <2>2. QED
    BY <1>1, <2>1 DEF ConfigJson, Resolve
<1>4. QED
  BY <1>2, <1>3

\* Once deployed, every replayer is served unless its own numbers are no u32 or the
\* options of its stage's Lambda are unsound, whichever replayer came first and
\* whatever path the later ones were given; and where a message would be sent to
\* another source queue, a parameter was written by hand for its replay queue
\* (sqs-replayer.ts:152, sqs-replayer-singleton.ts:72-84, config.rs:126-131).
THEOREM MistakesAreLocal == Spec => []MistakesStayLocal
<1>1. TripInv => MistakesStayLocal
  BY LoadedUnlessMistaken, SentHome DEF MistakesStayLocal
<1>2. QED
  BY <1>1, AlwaysTripInv, PTL

=============================================================================
