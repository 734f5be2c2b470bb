------------------------ MODULE ReplayRoutingProofs ------------------------
(***************************************************************************)
(* Replays return to their own queue, and the attempts of a message end:   *)
(* theorems about ReplayHandler for every value of its constants.          *)
(*                                                                         *)
(* When SQS accepts an entry, all that is left of the decision to send it  *)
(* is the call it is in.  The invariant therefore says of every call under *)
(* way what handle knew when it built the requests, and of every           *)
(* configuration in the registry, a cache or an invocation where it leads. *)
(***************************************************************************)
EXTENDS ReplayHandlerProofs

\* The configuration of a queue sends its messages to that queue.
Homeward(configs) ==
  \A ch \in Chains : configs[ch] \in Setting => configs[ch].destination = ch

WithinLimits(n) == \E m \in Limits : n <= m

Routed(call) ==
  /\ call.left \subseteq call.entries
  /\ \A c \in call.entries :
       c <= sent /\ msg[c].chain = call.destination /\ WithinLimits(NextCount(c))

EnvRouted(e) ==
  /\ cache[e] # Cold => Homeward(cache[e])
  /\ Homeward(inv[e].resolved)
  /\ \A c \in inv[e].batch : c <= sent
  /\ \A call \in inv[e].calls : Routed(call)

\* Where a copy comes from: a producer, or a replay in its parent's chain.
Descended(d) ==
  \/ msg[d].parent = 0 /\ msg[d].count \in StartCounts
  \/ /\ msg[d].parent \in 1..sent
     /\ msg[d].chain = msg[msg[d].parent].chain
     /\ msg[d].count = NextCount(msg[d].parent)
     /\ WithinLimits(msg[d].count)

RInv == /\ TypeOK /\ Homeward(registry)
        /\ \A e \in Envs : EnvRouted(e)
        /\ \A d \in 1..sent : Descended(d)

-----------------------------------------------------------------------------
\* Steps only add copies: where a copy belongs and what it counts never changes.
KeepsRoute ==
  /\ sent <= sent'
  /\ \A c \in 1..sent : /\ msg'[c].parent = msg[c].parent /\ msg'[c].chain = msg[c].chain
                        /\ msg'[c].count = msg[c].count

LEMMA RoutedStays ==
  ASSUME TypeOK, TypeOK', KeepsRoute, NEW call \in Call, Routed(call)
  PROVE  Routed(call)'
<1>1. ASSUME NEW c \in call.entries
      PROVE  c <= sent' /\ msg'[c].chain = call.destination /\ WithinLimits(NextCount(c))'
  <2>1. c \in 1..sent /\ sent \in Nat /\ sent' \in Nat
    BY DEF Routed, Call, Copies, TypeOK, ChainTypeOK
  <2>2. NextCount(c)' = NextCount(c)
    BY <2>1 DEF KeepsRoute, NextCount
  <2>3. QED
    BY <2>1, <2>2 DEF KeepsRoute, Routed, WithinLimits
<1>2. QED
  BY <1>1 DEF Routed

LEMMA DescendedStays ==
  ASSUME TypeOK, TypeOK', KeepsRoute, NEW d \in 1..sent, Descended(d)
  PROVE  Descended(d)'
<1>1. sent \in Nat /\ sent' \in Nat
  BY DEF TypeOK, ChainTypeOK
<1>2. CASE msg[d].parent = 0 /\ msg[d].count \in StartCounts
  BY <1>2 DEF KeepsRoute, Descended
<1>3. CASE /\ msg[d].parent \in 1..sent
           /\ msg[d].chain = msg[msg[d].parent].chain
           /\ msg[d].count = NextCount(msg[d].parent)
           /\ WithinLimits(msg[d].count)
  <2>1. msg'[d].parent \in 1..sent' /\ msg'[d].parent = msg[d].parent
    BY <1>1, <1>3 DEF KeepsRoute
  <2>2. msg'[d].chain = msg'[msg'[d].parent].chain
    BY <1>3, <2>1 DEF KeepsRoute
  <2>3. msg'[d].count = NextCount(msg[d].parent)'
    BY <1>3, <2>1 DEF KeepsRoute, NextCount
  <2>4. WithinLimits(msg[d].count)'
    BY <1>3 DEF KeepsRoute, WithinLimits
  <2>5. QED
    BY <2>1, <2>2, <2>3, <2>4 DEF Descended
<1>4. QED
  BY <1>2, <1>3 DEF Descended

\* An environment that does not step stays routed.
LEMMA EnvRoutedStays ==
  ASSUME TypeOK, TypeOK', KeepsRoute, NEW e \in Envs, EnvRouted(e),
         inv'[e] = inv[e], cache'[e] = cache[e]
  PROVE  EnvRouted(e)'
<1>1. inv[e] \in Invocation /\ sent \in Nat /\ sent' \in Nat
  BY DEF TypeOK, ChainTypeOK
<1>2. \A call \in inv'[e].calls : Routed(call)'
  BY <1>1, RoutedStays DEF EnvRouted, Invocation
<1>3. \A c \in inv'[e].batch : c <= sent'
  BY <1>1 DEF EnvRouted, KeepsRoute, Invocation, Copies
<1>4. QED
  BY <1>2, <1>3 DEF EnvRouted, Homeward

\* A step that sends nothing: it is enough to look at the environment that steps.
LEMMA StepRoutes ==
  ASSUME RInv, TypeOK', UNCHANGED <<sent, registry>>, KeepsRoute,
         NEW e \in Envs, EnvRouted(e)',
         \A f \in Envs : f # e => inv'[f] = inv[f] /\ cache'[f] = cache[f]
  PROVE  RInv'
<1>1. ASSUME NEW f \in Envs PROVE EnvRouted(f)'
  <2>1. CASE f = e
    BY <2>1
  <2>2. CASE f # e
    BY <2>2, EnvRoutedStays DEF RInv
  <2>3. QED
    BY <2>1, <2>2
<1>2. \A d \in 1..sent : Descended(d)'
  BY DescendedStays DEF RInv
<1>3. Homeward(registry)'
  BY DEF RInv, Homeward
<1>4. QED
  BY <1>1, <1>2, <1>3 DEF RInv

\* A step of an invocation that leaves the messages alone.
LEMMA QuietRoute ==
  ASSUME RInv, TypeOK', UNCHANGED <<msg, sent, registry, cache>>, NEW e \in Envs,
         Homeward(inv'[e].resolved), \A c \in inv'[e].batch : c <= sent,
         \A call \in inv'[e].calls : Routed(call),
         \A f \in Envs : f # e => inv'[f] = inv[f]
  PROVE  RInv'
<1>1. KeepsRoute
  BY DEF KeepsRoute, RInv, TypeOK, ChainTypeOK
<1>2. \A call \in inv'[e].calls : Routed(call)'
  BY DEF Routed, NextCount
<1>3. EnvRouted(e)'
  BY <1>2 DEF EnvRouted, RInv, Homeward
<1>4. QED
  BY <1>1, <1>3, StepRoutes

LEMMA IdleRouted ==
  Homeward(Idle.resolved) /\ Idle.batch = {} /\ Idle.calls = {}
BY HandlerAssumption DEF Idle, NothingResolved, Homeward

-----------------------------------------------------------------------------
LEMMA QueuesRoute == ASSUME RInv, TypeOK', Queues \/ QueueFault PROVE RInv'
<1> USE DEF RInv
<1>1. PICK c \in Copies : \/ Consume(c) \/ RedriveToReplay(c) \/ DeadLetter(c) \/ Delete(c)
                          \/ Reappear(c) \/ DeleteLost(c)
  BY DEF Queues, QueueFault
<1>2. UNCHANGED <<registry, cache, inv>>
  BY DEF Queues, QueueFault, handlerVars
<1>3. sent' = sent /\ (msg' = msg \/ \E p \in Places : msg' = Move(c, p))
  BY <1>1 DEF Consume, RedriveToReplay, DeadLetter, Delete, Reappear, DeleteLost, Places
<1>4. KeepsRoute
  <2>1. sent \in Nat /\ \A d \in 1..sent : d \in Copies
    BY ConstantTypes DEF TypeOK, ChainTypeOK, Copies
  <2>2. ASSUME NEW p \in Places, msg' = Move(c, p), NEW d \in Copies
        PROVE  /\ msg'[d].parent = msg[d].parent /\ msg'[d].chain = msg[d].chain
               /\ msg'[d].count = msg[d].count
    <3>1. msg[d] \in Message
      BY DEF TypeOK, ChainTypeOK
    <3>2. msg'[d] = IF d = c THEN [msg[d] EXCEPT !.place = p] ELSE msg[d]
      BY <2>2 DEF Move, TypeOK, ChainTypeOK
    <3>3. QED
      BY <3>1, <3>2 DEF Message
  <2>3. QED
    BY <1>3, <2>1, <2>2 DEF KeepsRoute
<1>5. \A e \in Envs : EnvRouted(e)'
  BY <1>2, <1>4, EnvRoutedStays
<1>6. \A d \in 1..sent' : Descended(d)'
  BY <1>3, <1>4, DescendedStays
<1>7. QED
  BY <1>2, <1>5, <1>6 DEF Homeward

LEMMA ReceiveRoute ==
  ASSUME RInv, TypeOK', NEW e \in Envs, NEW B \in SUBSET Copies, Receive(e, B)
  PROVE  RInv'
<1> USE DEF RInv
<1>1. \A c \in Copies : /\ msg'[c].parent = msg[c].parent /\ msg'[c].chain = msg[c].chain
                        /\ msg'[c].count = msg[c].count
  BY DEF Receive, TypeOK, ChainTypeOK, Message
<1>2. UNCHANGED <<sent, registry, cache>>
  BY DEF Receive
<1>3. KeepsRoute
  BY <1>1, <1>2, ConstantTypes DEF KeepsRoute, TypeOK, ChainTypeOK, Copies
<1>4. inv'[e] = [Idle EXCEPT !.phase = "resolving", !.batch = B]
  BY DEF Receive, TypeOK
<1>5. inv'[e].resolved = Idle.resolved /\ inv'[e].calls = {} /\ inv'[e].batch = B
  BY <1>4 DEF Idle
<1>6. \A c \in B : c <= sent
  BY DEF Receive, Visible, At
<1>7. EnvRouted(e)'
  BY <1>2, <1>5, <1>6, IdleRouted DEF EnvRouted, Homeward
<1>8. \A f \in Envs : f # e => inv'[f] = inv[f] /\ cache'[f] = cache[f]
  BY <1>2 DEF Receive, TypeOK
<1>9. QED
  BY <1>2, <1>3, <1>7, <1>8, StepRoutes

LEMMA ResolveRoute ==
  ASSUME RInv, TypeOK', NEW e \in Envs, NEW ch \in Chains,
         ResolveCached(e, ch) \/ ResolveRefreshed(e, ch) \/ ResolveFailed(e, ch)
  PROVE  RInv'
<1> USE DEF RInv
<1>1. EnvRouted(e) /\ inv[e] \in Invocation
  BY DEF TypeOK
<1>2. UNCHANGED <<msg, sent, registry>>
  BY DEF ResolveCached, ResolveRefreshed, ResolveFailed
<1>3. KeepsRoute
  BY <1>2 DEF KeepsRoute, TypeOK, ChainTypeOK
<1>4. \A f \in Envs : f # e => inv'[f] = inv[f] /\ cache'[f] = cache[f]
  BY DEF ResolveCached, ResolveRefreshed, ResolveFailed, TypeOK
<1>5. ASSUME NEW setting, setting \in Setting => setting.destination = ch,
             inv' = [inv EXCEPT ![e].resolved[ch] = setting],
             cache'[e] # Cold => Homeward(cache'[e])
      PROVE  EnvRouted(e)'
  <2>1. inv'[e] = [inv[e] EXCEPT !.resolved[ch] = setting]
    BY <1>5 DEF TypeOK
  <2>2. /\ inv'[e].batch = inv[e].batch /\ inv'[e].calls = inv[e].calls
        /\ inv'[e].resolved = [inv[e].resolved EXCEPT ![ch] = setting]
    BY <1>1, <2>1 DEF Invocation
  <2>3. inv[e].resolved \in [Chains -> Registered \cup {Unresolved}]
    BY <1>1 DEF Invocation
  <2>4. Homeward(inv'[e].resolved)
    BY <1>1, <1>5, <2>2, <2>3 DEF EnvRouted, Homeward
  <2>5. \A call \in inv'[e].calls : Routed(call)'
    BY <1>1, <1>2, <2>2 DEF EnvRouted, Routed, NextCount
  <2>6. QED
    BY <1>1, <1>2, <1>5, <2>2, <2>4, <2>5 DEF EnvRouted, Homeward
<1>6. CASE ResolveCached(e, ch)
  <2>1. cache[e][ch] \in Setting => cache[e][ch].destination = ch
    BY <1>1, <1>6 DEF ResolveCached, EnvRouted, Homeward
  <2>2. EnvRouted(e)'
    BY <1>1, <1>5, <1>6, <2>1 DEF ResolveCached, EnvRouted
  <2>3. QED
    BY <1>2, <1>3, <1>4, <2>2, StepRoutes
<1>7. CASE ResolveRefreshed(e, ch)
  <2>1. registry[ch] \in Setting => registry[ch].destination = ch
    BY DEF Homeward
  <2>2. cache'[e] = registry
    BY <1>7 DEF ResolveRefreshed, TypeOK
  <2>3. EnvRouted(e)'
    BY <1>5, <1>7, <2>1, <2>2 DEF ResolveRefreshed
  <2>4. QED
    BY <1>2, <1>3, <1>4, <2>3, StepRoutes
<1>8. CASE ResolveFailed(e, ch)
  <2>1. inv'[e] = Idle /\ UNCHANGED cache
    BY <1>8 DEF ResolveFailed, TypeOK
  <2>2. QED
    BY <1>2, <1>4, <2>1, IdleRouted, QuietRoute
<1>9. QED
  BY <1>6, <1>7, <1>8

\* What handle knows of a record it sends: its queue and that it has an attempt left.
LEMMA SendsRouted ==
  ASSUME RInv, NEW e \in Envs, NEW c \in Sends(e),
         \A ch \in ToResolve(e) : inv[e].resolved[ch] # Unresolved
  PROVE  /\ Destination(e, c) = msg[c].chain /\ WithinLimits(NextCount(c))
         /\ c <= sent
<1> USE DEF RInv
<1> DEFINE setting == inv[e].resolved[msg[c].chain]
<1>1. inv[e] \in Invocation /\ EnvRouted(e)
  BY DEF TypeOK
<1>2. c \in inv[e].batch /\ c \in Copies
  BY <1>1 DEF Sends, Invocation
<1>3. /\ msg[c].chain \in Chains /\ msg[c].shape # "noArn" /\ setting # NoConfig
      /\ NextCount(c) <= setting.maxAttempts
  BY <1>2 DEF Sends, Replayable, TypeOK, ChainTypeOK, Message
<1>4. msg[c].chain \in ToResolve(e)
  BY <1>2, <1>3 DEF ToResolve
<1>5. setting \in Setting
  BY <1>1, <1>3, <1>4 DEF Invocation, Registered
<1>6. setting.destination = msg[c].chain /\ setting.maxAttempts \in Limits
  BY <1>1, <1>3, <1>5 DEF EnvRouted, Homeward, Setting
<1>7. QED
  BY <1>1, <1>2, <1>3, <1>6 DEF Destination, WithinLimits, EnvRouted

LEMMA BuildRoute == ASSUME RInv, TypeOK', NEW e \in Envs, Build(e) PROVE RInv'
<1> USE DEF RInv
<1>1. PICK P \in Chunks(e) :
        inv' = [inv EXCEPT
          ![e].phase = "sending",
          ![e].failures = Rejected(e),
          ![e].calls = {NewCall(Destination(e, CHOOSE c \in C : TRUE), C) : C \in P}]
  BY DEF Build
<1>2. inv[e] \in Invocation /\ EnvRouted(e)
  BY DEF TypeOK
<1>3. /\ inv'[e].batch = inv[e].batch /\ inv'[e].resolved = inv[e].resolved
      /\ inv'[e].calls = {NewCall(Destination(e, CHOOSE c \in C : TRUE), C) : C \in P}
  BY <1>1, <1>2 DEF TypeOK, Invocation
<1>4. ASSUME NEW C \in P
      PROVE  Routed(NewCall(Destination(e, CHOOSE c \in C : TRUE), C))
  <2> DEFINE first == CHOOSE c \in C : TRUE
  <2>1. /\ C # {} /\ C \subseteq Sends(e)
        /\ \A c, d \in C : Destination(e, c) = Destination(e, d)
    BY DEF Chunks
  <2>2. first \in C
    BY <2>1
  <2>3. \A c \in C : /\ Destination(e, c) = msg[c].chain /\ WithinLimits(NextCount(c))
                     /\ c <= sent
    BY <2>1, SendsRouted DEF Build
  <2>4. \A c \in C : msg[c].chain = Destination(e, first)
    BY <2>1, <2>2, <2>3
  <2>5. QED
    BY <2>3, <2>4 DEF Routed, NewCall
<1>5. \A call \in inv'[e].calls : Routed(call)
  BY <1>3, <1>4
<1>6. \A f \in Envs : f # e => inv'[f] = inv[f]
  BY DEF Build, TypeOK
<1>7. QED
  BY <1>2, <1>3, <1>5, <1>6, QuietRoute DEF Build, EnvRouted

LEMMA AcceptRoute ==
  ASSUME RInv, TypeOK', NEW e \in Envs, NEW call \in inv[e].calls, NEW c \in Copies,
         AcceptEntry(e, call, c)
  PROVE  RInv'
<1> USE DEF RInv
<1>1. PICK d \in Copies :
        /\ d = sent + 1 /\ sent' = d /\ sent \in Nat /\ UNCHANGED <<registry, cache>>
        /\ msg' = [msg EXCEPT ![d] = ReplayOf(c, call.destination)]
  <2>1. sent \in Nat /\ sent + 1 \in Copies
    BY DEF AcceptEntry, TypeOK, ChainTypeOK, Copies
  <2>2. QED
    BY <2>1 DEF AcceptEntry
<1>2. \A f \in 1..sent : f \in Copies /\ msg'[f] = msg[f]
  BY <1>1, ConstantTypes DEF TypeOK, ChainTypeOK, Copies
<1>3. KeepsRoute
  BY <1>1, <1>2 DEF KeepsRoute
<1>4. call \in Call /\ EnvRouted(e) /\ Routed(call) /\ inv[e] \in Invocation
  BY DEF TypeOK, Invocation, EnvRouted
<1>5. /\ c \in 1..sent /\ msg[c].chain = call.destination /\ WithinLimits(NextCount(c))
  BY <1>1, <1>4 DEF AcceptEntry, Routed, Copies
<1>6. Descended(d)'
  <2>1. msg'[d] = ReplayOf(c, call.destination)
    BY <1>1 DEF TypeOK, ChainTypeOK
  <2>2. msg'[d].parent = c /\ msg'[d].chain = call.destination /\ msg'[d].count = NextCount(c)
    BY <2>1 DEF ReplayOf
  <2>3. c \in 1..sent' /\ msg'[c] = msg[c]
    BY <1>1, <1>2, <1>5
  <2>4. NextCount(c)' = NextCount(c)
    BY <2>3 DEF NextCount
  <2>5. msg'[d].count = NextCount(msg[d].parent)'
    BY <2>2, <2>4 DEF NextCount
  <2>6. WithinLimits(msg[d].count)'
    BY <1>5, <2>2 DEF WithinLimits
  <2>7. QED
    BY <1>5, <2>2, <2>3, <2>5, <2>6 DEF Descended
<1>7. \A f \in 1..sent' : Descended(f)'
  BY <1>1, <1>3, <1>6, DescendedStays
<1>8. /\ inv'[e].batch = inv[e].batch /\ inv'[e].resolved = inv[e].resolved
      /\ inv'[e].calls = (inv[e].calls \ {call}) \cup {Decided(call, c)}
      /\ \A f \in Envs : f # e => inv'[f] = inv[f]
  BY <1>4 DEF AcceptEntry, Replace, TypeOK, Invocation
<1>9. Routed(Decided(call, c)) /\ Decided(call, c) \in Call
  BY <1>4 DEF Decided, Call, Routed
<1>10. \A k \in inv'[e].calls : Routed(k)'
  BY <1>3, <1>4, <1>8, <1>9, RoutedStays DEF EnvRouted, Invocation
<1>11. \A k \in inv'[e].batch : k <= sent'
  BY <1>1, <1>4, <1>8 DEF EnvRouted, Invocation, Copies
<1>12. EnvRouted(e)'
  BY <1>1, <1>4, <1>8, <1>10, <1>11 DEF EnvRouted, Homeward
<1>13. \A f \in Envs : EnvRouted(f)'
  BY <1>1, <1>3, <1>8, <1>12, EnvRoutedStays
<1>14. QED
  BY <1>1, <1>7, <1>13 DEF Homeward

LEMMA CallRoute ==
  ASSUME RInv, TypeOK', NEW e \in Envs, NEW call \in inv[e].calls,
         \/ \E c \in Copies : RefuseEntry(e, call, c)
         \/ CallRetried(e, call) \/ CallAnswered(e, call) \/ CallFailed(e, call)
  PROVE  RInv'
<1> USE DEF RInv
<1>1. UNCHANGED <<msg, sent, registry, cache>>
  BY DEF RefuseEntry, CallRetried, CallAnswered, CallFailed
<1>2. call \in Call /\ EnvRouted(e) /\ Routed(call) /\ inv[e] \in Invocation
  BY DEF TypeOK, Invocation, EnvRouted
<1>3. ASSUME NEW new, inv' = Replace(e, call, new), Routed(new) PROVE RInv'
  <2>1. /\ inv'[e].batch = inv[e].batch /\ inv'[e].resolved = inv[e].resolved
        /\ inv'[e].calls = (inv[e].calls \ {call}) \cup {new}
        /\ \A f \in Envs : f # e => inv'[f] = inv[f]
    BY <1>2, <1>3 DEF Replace, TypeOK, Invocation
  <2>2. \A k \in inv'[e].calls : Routed(k)
    BY <1>2, <1>3, <2>1 DEF EnvRouted
  <2>3. QED
    BY <1>1, <1>2, <2>1, <2>2, QuietRoute DEF EnvRouted
<1>4. ASSUME NEW c \in Copies, RefuseEntry(e, call, c) PROVE RInv'
  <2> DEFINE new == [Decided(call, c) EXCEPT !.refused = @ \cup {c}]
  <2>1. Routed(new)
    BY <1>2 DEF Decided, Call, Routed
  <2>2. inv' = Replace(e, call, new)
    BY <1>4 DEF RefuseEntry
  <2> HIDE DEF new
  <2>3. QED
    BY <1>3, <2>1, <2>2
<1>5. CASE CallRetried(e, call)
  <2> DEFINE new == NewCall(call.destination, call.entries)
  <2>1. Routed(new)
    BY <1>2 DEF NewCall, Routed
  <2>2. inv' = Replace(e, call, new)
    BY <1>5 DEF CallRetried
  <2> HIDE DEF new
  <2>3. QED
    BY <1>3, <2>1, <2>2
<1>6. CASE CallAnswered(e, call) \/ CallFailed(e, call)
  <2>1. PICK failed : Return(e, call, failed)
    BY <1>6 DEF CallAnswered, CallFailed
  <2>2. /\ inv'[e].batch = inv[e].batch /\ inv'[e].resolved = inv[e].resolved
        /\ inv'[e].calls = inv[e].calls \ {call}
        /\ \A f \in Envs : f # e => inv'[f] = inv[f]
    BY <1>2, <2>1 DEF Return, TypeOK, Invocation
  <2>3. QED
    BY <1>1, <1>2, <2>2, QuietRoute DEF EnvRouted
<1>7. QED
  BY <1>4, <1>5, <1>6

LEMMA EndRoute == ASSUME RInv, TypeOK', NEW e \in Envs, Respond(e) \/ Crash(e) PROVE RInv'
<1> USE DEF RInv
<1>1. /\ UNCHANGED <<msg, sent, registry>> /\ inv'[e] = Idle
      /\ cache'[e] = cache[e] \/ cache'[e] = Cold
      /\ \A f \in Envs : f # e => inv'[f] = inv[f] /\ cache'[f] = cache[f]
  BY DEF Respond, Crash, TypeOK
<1>2. KeepsRoute
  BY <1>1 DEF KeepsRoute, TypeOK, ChainTypeOK
<1>3. EnvRouted(e)'
  BY <1>1, IdleRouted DEF EnvRouted, Homeward
<1>4. QED
  BY <1>1, <1>2, <1>3, StepRoutes

LEMMA EnvironmentRoute ==
  ASSUME RInv, TypeOK',
         \/ \E e \in Envs : Recycle(e)
         \/ \E ch \in Chains, m \in Limits : Deploy(ch, m)
         \/ UNCHANGED vars
  PROVE  RInv'
<1> USE DEF RInv
<1>1. UNCHANGED <<msg, sent, inv>>
  BY DEF Recycle, Deploy, vars
<1>2. \A e \in Envs : cache'[e] = cache[e] \/ cache'[e] = Cold
  BY DEF Recycle, Deploy, vars, TypeOK
<1>3. Homeward(registry')
  <2>1. CASE registry' = registry
    BY <2>1
  <2>2. ASSUME NEW ch \in Chains, NEW m \in Limits, Deploy(ch, m) PROVE Homeward(registry')
    BY <2>2 DEF Deploy, ConfigOf, Homeward, TypeOK
  <2>3. QED
    BY <2>1, <2>2 DEF Recycle, vars
<1>4. \A e \in Envs : \A call \in inv'[e].calls : Routed(call)'
  BY <1>1 DEF EnvRouted, Routed, NextCount
<1>5. \A e \in Envs : EnvRouted(e)'
  BY <1>1, <1>2, <1>4 DEF EnvRouted, Homeward
<1>6. \A d \in 1..sent' : Descended(d)'
  BY <1>1 DEF Descended, NextCount, WithinLimits
<1>7. QED
  BY <1>3, <1>5, <1>6 DEF Homeward

LEMMA InitRoute == Init => RInv
<1> SUFFICES ASSUME Init PROVE RInv
  OBVIOUS
<1>1. TypeOK
  BY InitType
<1>2. \A d \in 1..sent : Descended(d)
  BY ConstantTypes DEF Init, ChainInit, Produced, Copies, Descended
<1>3. Homeward(registry)
  BY HandlerAssumption DEF Init, Homeward
<1>4. \A e \in Envs : EnvRouted(e)
  BY IdleRouted DEF Init, EnvRouted
<1>5. QED
  BY <1>1, <1>2, <1>3, <1>4 DEF RInv

LEMMA Routing == Spec => []RInv
<1>1. Init => RInv
  BY InitRoute
<1>2. RInv /\ [Next]_vars /\ TypeOK' => RInv'
  <2> SUFFICES ASSUME RInv, [Next]_vars, TypeOK' PROVE RInv'
    OBVIOUS
  <2>1. CASE Next
    <3>1. TypeOK
      BY DEF RInv
    <3>2. QED
      BY <2>1, <3>1, NextCases, QueuesRoute, ReceiveRoute, ResolveRoute, BuildRoute, AcceptRoute,
         CallRoute, EndRoute, EnvironmentRoute
  <2>2. CASE UNCHANGED vars
    BY <2>2, EnvironmentRoute
  <2>3. QED
    BY <2>1, <2>2
<1>3. QED
  BY <1>1, <1>2, TypeCorrect, PTL DEF Spec

-----------------------------------------------------------------------------
\* However events mix the messages of several queues, and whatever caches and
\* deployments do meanwhile, a replay is sent to the queue its message came from
\* (replay.rs:109-116, lib.rs:78-79).
THEOREM RoutedHome == Spec => []ReplaysGoHome
<1>1. RInv => ReplaysGoHome
  BY DEF RInv, Descended, ReplaysGoHome, Children
<1>2. QED
  BY <1>1, Routing, PTL

\* No count that a producer may send or a deployment may allow reaches the width of
\* the replay count.
NoWrap == \A n \in StartCounts \cup Limits : n + 1 < Modulus

\* As long as counts cannot wrap, replays count up and stay within some configured
\* limit (replay.rs:49-54): no message is replayed for ever.
THEOREM AttemptsEnd == NoWrap /\ Spec => []AttemptsBounded
<1> SUFFICES ASSUME NoWrap PROVE Spec => []AttemptsBounded
  OBVIOUS
<1>1. ASSUME RInv PROVE AttemptsBounded
  <2> SUFFICES ASSUME NEW c \in 1..sent, NEW d \in Children(c)
               PROVE  msg[d].count > msg[c].count /\ \E m \in Limits : msg[d].count <= m
    BY DEF AttemptsBounded
  <2>1. d \in 1..sent /\ msg[d].parent = c /\ sent \in Nat
    BY <1>1 DEF Children, RInv, TypeOK, ChainTypeOK
  <2>2. msg[d].count = NextCount(c) /\ WithinLimits(msg[d].count)
    BY <1>1, <2>1 DEF RInv, Descended
  <2>3. msg[c].count \in Nat
    BY <1>1, <2>1, ConstantTypes DEF RInv, TypeOK, ChainTypeOK, Message, Copies
  <2>4. msg[c].count \in StartCounts \/ WithinLimits(msg[c].count)
    BY <1>1 DEF RInv, Descended
  <2>5. msg[c].count + 1 < Modulus
    BY <2>3, <2>4, ConstantTypes, HandlerAssumption DEF NoWrap, WithinLimits
  <2>6. NextCount(c) = msg[c].count + 1
    BY <2>3, <2>5, ConstantTypes DEF NextCount
  <2>7. QED
    BY <2>2, <2>3, <2>6 DEF WithinLimits
<1>2. QED
  BY <1>1, Routing, PTL
=============================================================================
