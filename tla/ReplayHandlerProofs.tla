------------------------ MODULE ReplayHandlerProofs ------------------------
(***************************************************************************)
(* Theorems about ReplayHandler, for every value of its constants.         *)
(***************************************************************************)
EXTENDS ReplayHandler, TLAPS

LEMMA ConstantTypes ==
  /\ MaxCopies \in Nat /\ Originals \in Nat /\ Originals <= MaxCopies
  /\ MaxReceive \in Nat /\ MaxReceive >= 1
  /\ (CHOOSE ch \in Chains : TRUE) \in Chains
  /\ (CHOOSE s \in Shapes : TRUE) \in Shapes
  /\ StartCounts \subseteq Nat
  /\ Modulus \in Nat /\ Modulus > 0
  /\ MaxFaults \in Nat /\ MaxDeploys \in Nat
BY ChainAssumption, HandlerAssumption

LEMMA NextCountType == ASSUME TypeOK, NEW c \in Copies PROVE NextCount(c) \in Nat
BY ConstantTypes DEF NextCount, TypeOK, ChainTypeOK, Message

LEMMA IdleType == Idle \in Invocation
BY DEF Idle, Invocation, NothingResolved

LEMMA InitType == Init => TypeOK
<1> SUFFICES ASSUME Init PROVE TypeOK
  OBVIOUS
<1> USE ConstantTypes
<1>1. PICK ch \in [1..Originals -> Chains], n \in [1..Originals -> StartCounts],
           s \in [1..Originals -> Shapes] :
        msg = [c \in Copies |-> IF c <= Originals THEN Produced(c, ch[c], n[c], s[c])
                                                  ELSE Unsent]
  BY DEF Init, ChainInit
<1>2. ASSUME NEW c \in Copies PROVE msg[c] \in Message /\ (msg[c].place = "unsent" <=> c > sent)
  BY <1>1, <1>2 DEF Init, ChainInit, Copies, Message, Produced, Unsent, Places
<1>3. ChainTypeOK
  BY <1>1, <1>2 DEF ChainTypeOK, Init, ChainInit
<1>4. QED
  BY <1>3, IdleType DEF TypeOK, Init

LEMMA QueuesType == ASSUME TypeOK, Queues \/ QueueFault PROVE TypeOK'
<1> USE ConstantTypes
<1>1. PICK c \in Copies : \/ Consume(c) \/ RedriveToReplay(c) \/ DeadLetter(c) \/ Delete(c)
                          \/ Reappear(c) \/ DeleteLost(c)
  BY DEF Queues, QueueFault
<1>2. UNCHANGED <<registry, cache, inv, deploys>> /\ faults' \in 0..MaxFaults
  BY DEF Queues, QueueFault, Fault, handlerVars, TypeOK
<1>3. ASSUME NEW p \in {"replay", "dead", "consumed", "deleted"}, c <= sent,
             msg' = Move(c, p), sent' = sent, hidden' \subseteq Copies, acked' \subseteq Copies
      PROVE  ChainTypeOK'
  <2>1. msg' \in [Copies -> Message]
    BY <1>3 DEF Move, TypeOK, ChainTypeOK, Message, Places
  <2>2. ASSUME NEW d \in Copies PROVE msg'[d].place = "unsent" <=> d > sent'
    <3>1. CASE d = c
      <4>1. msg'[c].place = p
        BY <1>3 DEF Move, TypeOK, ChainTypeOK, Message
      <4>2. QED
        BY <1>3, <3>1, <4>1 DEF TypeOK, ChainTypeOK, Copies
    <3>2. CASE d # c
      BY <1>3, <3>2 DEF Move, TypeOK, ChainTypeOK
    <3>3. QED
      BY <3>1, <3>2
  <2>3. QED
    BY <1>3, <2>1, <2>2 DEF TypeOK, ChainTypeOK
<1>4. ChainTypeOK'
  <2>1. CASE Consume(c)
    BY <1>3, <2>1 DEF Consume, At, TypeOK, ChainTypeOK
  <2>2. CASE RedriveToReplay(c)
    BY <1>3, <2>2 DEF RedriveToReplay, At, TypeOK, ChainTypeOK
  <2>3. CASE DeadLetter(c)
    BY <1>3, <2>3 DEF DeadLetter, Visible, At, TypeOK, ChainTypeOK
  <2>4. CASE Reappear(c) \/ DeleteLost(c)
    BY <2>4 DEF Reappear, DeleteLost, TypeOK, ChainTypeOK
  <2>5. CASE Delete(c) /\ msg[c].place # "replay"
    BY <2>5 DEF Delete, TypeOK, ChainTypeOK
  <2>6. CASE Delete(c) /\ msg[c].place = "replay"
    <3>1. c <= sent
      BY <2>6 DEF TypeOK, ChainTypeOK, Copies
    <3>2. QED
      BY <1>3, <2>6, <3>1 DEF Delete, TypeOK, ChainTypeOK
  <2>7. QED
    BY <1>1, <2>1, <2>2, <2>3, <2>4, <2>5, <2>6
<1>5. QED
  BY <1>2, <1>4 DEF TypeOK

LEMMA ReceiveType == ASSUME TypeOK, NEW e \in Envs, NEW B \in SUBSET Copies, Receive(e, B)
                     PROVE  TypeOK'
<1> USE ConstantTypes
<1>1. ASSUME NEW c \in Copies
      PROVE  msg'[c] \in Message /\ (msg'[c].place = "unsent" <=> c > sent')
  BY <1>1 DEF Receive, TypeOK, ChainTypeOK, Message
<1>2. ChainTypeOK'
  BY <1>1 DEF Receive, TypeOK, ChainTypeOK
<1>3. inv' \in [Envs -> Invocation]
  BY IdleType DEF Receive, TypeOK, Invocation, Idle
<1>4. QED
  BY <1>2, <1>3 DEF Receive, TypeOK

\* What the steps of an invocation other than AcceptEntry leave to prove.
LEMMA InvocationType ==
  ASSUME TypeOK, NEW e \in Envs, NEW i \in Invocation, inv' = [inv EXCEPT ![e] = i],
         UNCHANGED <<msg, sent, hidden, registry, deploys>>, acked' \subseteq Copies,
         cache' \in [Envs -> [Chains -> Registered] \cup {Cold}],
         UNCHANGED faults \/ Fault
  PROVE  TypeOK'
<1>1. faults' \in 0..MaxFaults
  BY ConstantTypes DEF Fault, TypeOK
<1>2. QED
  BY <1>1 DEF TypeOK, ChainTypeOK

LEMMA ResolveType ==
  ASSUME TypeOK, NEW e \in Envs, NEW ch \in Chains,
         ResolveCached(e, ch) \/ ResolveRefreshed(e, ch) \/ ResolveFailed(e, ch)
  PROVE  TypeOK'
<1>1. inv[e] \in Invocation
  BY DEF TypeOK
<1>2. CASE ResolveCached(e, ch)
  <2>1. cache[e][ch] \in Registered
    BY <1>2 DEF ResolveCached, TypeOK
  <2>2. [inv[e] EXCEPT !.resolved[ch] = cache[e][ch]] \in Invocation
    BY <1>1, <2>1 DEF Invocation
  <2>3. inv' = [inv EXCEPT ![e] = [inv[e] EXCEPT !.resolved[ch] = cache[e][ch]]]
    BY <1>2 DEF ResolveCached, TypeOK, Invocation
  <2>4. QED
    BY <1>2, <2>2, <2>3, InvocationType DEF ResolveCached, TypeOK, ChainTypeOK
<1>3. CASE ResolveRefreshed(e, ch)
  <2>1. [inv[e] EXCEPT !.resolved[ch] = registry[ch]] \in Invocation
    BY <1>1 DEF Invocation, TypeOK
  <2>2. inv' = [inv EXCEPT ![e] = [inv[e] EXCEPT !.resolved[ch] = registry[ch]]]
    BY <1>3 DEF ResolveRefreshed, TypeOK, Invocation
  <2>3. cache' \in [Envs -> [Chains -> Registered] \cup {Cold}]
    BY <1>3 DEF ResolveRefreshed, TypeOK
  <2>4. QED
    BY <1>3, <2>1, <2>2, <2>3, InvocationType DEF ResolveRefreshed, TypeOK, ChainTypeOK
<1>4. CASE ResolveFailed(e, ch)
  BY <1>4, IdleType, InvocationType DEF ResolveFailed, TypeOK, ChainTypeOK
<1>5. QED
  BY <1>2, <1>3, <1>4

\* Every request has a destination: its configuration was looked up and found.
LEMMA SendsType ==
  ASSUME TypeOK, NEW e \in Envs, NEW c \in Sends(e),
         \A ch \in ToResolve(e) : inv[e].resolved[ch] # Unresolved
  PROVE  c \in Copies /\ c \in inv[e].batch /\ Destination(e, c) \in Chains
<1> DEFINE setting == inv[e].resolved[msg[c].chain]
<1>1. inv[e] \in Invocation
  BY DEF TypeOK
<1>2. c \in inv[e].batch /\ c \in Copies
  BY <1>1 DEF Sends, Invocation
<1>3. msg[c].chain \in Chains /\ msg[c].shape # "noArn" /\ setting # NoConfig
  BY <1>2 DEF Sends, Replayable, TypeOK, ChainTypeOK, Message
<1>4. msg[c].chain \in ToResolve(e)
  BY <1>2, <1>3 DEF ToResolve
<1>5. setting \in Registered \cup {Unresolved} /\ setting # Unresolved
  BY <1>1, <1>3, <1>4 DEF Invocation
<1>6. setting \in Setting
  BY <1>3, <1>5 DEF Registered
<1>7. QED
  BY <1>2, <1>6 DEF Destination, Setting

LEMMA NewCallType == ASSUME NEW url \in Chains, NEW C \in SUBSET Copies
                     PROVE  NewCall(url, C) \in Call
BY DEF NewCall, Call

LEMMA BuildType == ASSUME TypeOK, NEW e \in Envs, Build(e) PROVE TypeOK'
<1>1. PICK P \in Chunks(e) :
        inv' = [inv EXCEPT
          ![e].phase = "sending",
          ![e].failures = Rejected(e),
          ![e].calls = {NewCall(Destination(e, CHOOSE c \in C : TRUE), C) : C \in P}]
  BY DEF Build
<1> DEFINE calls == {NewCall(Destination(e, CHOOSE c \in C : TRUE), C) : C \in P}
           i == [inv[e] EXCEPT !.phase = "sending", !.failures = Rejected(e), !.calls = calls]
<1>2. inv[e] \in Invocation
  BY DEF TypeOK
<1>3. ASSUME NEW C \in P
      PROVE  NewCall(Destination(e, CHOOSE c \in C : TRUE), C) \in Call
  <2>1. C # {} /\ C \subseteq Sends(e)
    BY DEF Chunks
  <2>2. (CHOOSE c \in C : TRUE) \in Sends(e)
    BY <2>1
  <2>3. C \subseteq Copies /\ Destination(e, CHOOSE c \in C : TRUE) \in Chains
    BY <2>1, <2>2, SendsType DEF Build
  <2>4. QED
    BY <2>3, NewCallType
<1>4. calls \subseteq Call
  BY <1>3
<1>5. Rejected(e) \subseteq Copies
  BY <1>2 DEF Rejected, Invocation
<1>6. i \in Invocation
  BY <1>2, <1>4, <1>5 DEF Invocation
<1>7. inv' = [inv EXCEPT ![e] = i]
  BY <1>1, <1>2 DEF TypeOK, Invocation
<1> HIDE DEF i
<1>8. QED
  BY <1>6, <1>7, InvocationType DEF Build, TypeOK, ChainTypeOK

LEMMA ReplaceType ==
  ASSUME TypeOK, NEW e \in Envs, NEW old, NEW new \in Call
  PROVE  \E i \in Invocation : Replace(e, old, new) = [inv EXCEPT ![e] = i]
<1> DEFINE i == [inv[e] EXCEPT !.calls = (@ \ {old}) \cup {new}]
<1>1. inv[e] \in Invocation
  BY DEF TypeOK
<1>2. i \in Invocation
  BY <1>1 DEF Invocation
<1>3. Replace(e, old, new) = [inv EXCEPT ![e] = i]
  BY <1>1 DEF Replace, Invocation, TypeOK
<1>4. QED
  BY <1>2, <1>3

LEMMA AcceptType ==
  ASSUME TypeOK, NEW e \in Envs, NEW call \in inv[e].calls, NEW c \in Copies,
         AcceptEntry(e, call, c)
  PROVE  TypeOK'
<1> USE ConstantTypes
<1>1. call \in Call
  BY DEF TypeOK, Invocation
<1>2. Decided(call, c) \in Call
  BY <1>1 DEF Decided, Call
<1>3. inv' \in [Envs -> Invocation]
  BY <1>2, ReplaceType DEF AcceptEntry, TypeOK
<1>4. ReplayOf(c, call.destination) \in Message
  <2>1. call.destination \in Chains
    BY <1>1 DEF Call
  <2>2. msg[c].body \in 0..MaxCopies
    BY DEF TypeOK, ChainTypeOK, Message
  <2>3. c \in 0..MaxCopies /\ 0 \in 0..MaxReceive
    BY DEF Copies
  <2>4. QED
    BY <2>1, <2>2, <2>3, NextCountType DEF ReplayOf, Message, Places
<1>5. ASSUME NEW d \in Copies
      PROVE  msg'[d] \in Message /\ (msg'[d].place = "unsent" <=> d > sent')
  <2>1. CASE d = sent + 1
    <3>1. msg'[d] = ReplayOf(c, call.destination)
      BY <2>1 DEF AcceptEntry, TypeOK, ChainTypeOK
    <3>2. msg'[d].place = "source" /\ sent' = sent + 1
      BY <3>1 DEF ReplayOf, AcceptEntry
    <3>3. QED
      BY <1>4, <2>1, <3>1, <3>2 DEF TypeOK, ChainTypeOK
  <2>2. CASE d # sent + 1
    BY <2>2 DEF AcceptEntry, TypeOK, ChainTypeOK, Copies
  <2>3. QED
    BY <2>1, <2>2
<1>6. msg' \in [Copies -> Message]
  BY <1>5 DEF AcceptEntry, TypeOK, ChainTypeOK
<1>7. ChainTypeOK'
  BY <1>5, <1>6 DEF AcceptEntry, TypeOK, ChainTypeOK
<1>8. QED
  BY <1>3, <1>7 DEF AcceptEntry, TypeOK

LEMMA CallType ==
  ASSUME TypeOK, NEW e \in Envs, NEW call \in inv[e].calls,
         \/ \E c \in Copies : RefuseEntry(e, call, c)
         \/ CallRetried(e, call) \/ CallAnswered(e, call) \/ CallFailed(e, call)
  PROVE  TypeOK'
<1>1. inv[e] \in Invocation /\ call \in Call
  BY DEF TypeOK, Invocation
<1>2. \E i \in Invocation : inv' = [inv EXCEPT ![e] = i]
  <2>1. ASSUME NEW c \in Copies, RefuseEntry(e, call, c)
        PROVE  \E i \in Invocation : inv' = [inv EXCEPT ![e] = i]
    <3>1. [Decided(call, c) EXCEPT !.refused = @ \cup {c}] \in Call
      BY <1>1 DEF Decided, Call
    <3>2. QED
      BY <2>1, <3>1, ReplaceType DEF RefuseEntry
  <2>2. CASE CallRetried(e, call)
    <3>1. NewCall(call.destination, call.entries) \in Call
      BY <1>1 DEF NewCall, Call
    <3>2. QED
      BY <2>2, <3>1, ReplaceType DEF CallRetried
  <2>3. ASSUME NEW failed \in SUBSET Copies, Return(e, call, failed)
        PROVE  \E i \in Invocation : inv' = [inv EXCEPT ![e] = i]
    <3> DEFINE i == [inv[e] EXCEPT !.calls = @ \ {call}, !.failures = @ \cup failed]
    <3>1. i \in Invocation
      BY <1>1 DEF Invocation
    <3>2. inv' = [inv EXCEPT ![e] = i]
      BY <1>1, <2>3 DEF Return, Invocation, TypeOK
    <3>3. QED
      BY <3>1, <3>2
  <2>4. CASE CallAnswered(e, call)
    BY <1>1, <2>3, <2>4 DEF CallAnswered, Call
  <2>5. CASE CallFailed(e, call)
    BY <1>1, <2>3, <2>5 DEF CallFailed, Call
  <2>6. QED
    BY <2>1, <2>2, <2>4, <2>5
<1>3. UNCHANGED <<msg, sent, hidden, acked, registry, cache, deploys>>
  BY DEF RefuseEntry, CallRetried, CallAnswered, CallFailed
<1>4. UNCHANGED faults \/ Fault
  BY DEF RefuseEntry, CallRetried, CallAnswered, CallFailed
<1>5. QED
  BY <1>2, <1>3, <1>4, InvocationType DEF TypeOK, ChainTypeOK

LEMMA EndType == ASSUME TypeOK, NEW e \in Envs, Respond(e) \/ Crash(e) PROVE TypeOK'
<1>1. CASE Respond(e)
  <2>1. acked' \subseteq Copies
    BY <1>1 DEF Respond, TypeOK, ChainTypeOK, Invocation
  <2>2. QED
    BY <1>1, <2>1, IdleType, InvocationType DEF Respond, TypeOK
<1>2. CASE Crash(e)
  <2>1. cache' \in [Envs -> [Chains -> Registered] \cup {Cold}]
    BY <1>2 DEF Crash, TypeOK
  <2>2. QED
    BY <1>2, <2>1, IdleType, InvocationType DEF Crash, TypeOK, ChainTypeOK
<1>3. QED
  BY <1>1, <1>2

LEMMA EnvironmentType ==
  ASSUME TypeOK,
         (\E e \in Envs : Recycle(e)) \/ (\E ch \in Chains, m \in Limits : Deploy(ch, m))
  PROVE  TypeOK'
<1>1. CASE \E e \in Envs : Recycle(e)
  BY <1>1 DEF Recycle, TypeOK, ChainTypeOK
<1>2. CASE \E ch \in Chains, m \in Limits : Deploy(ch, m)
  <2>1. PICK ch \in Chains, m \in Limits : Deploy(ch, m)
    BY <1>2
  <2>2. ConfigOf(ch, m) \in Registered
    BY DEF ConfigOf, Registered, Setting
  <2>3. QED
    BY <2>1, <2>2, ConstantTypes DEF Deploy, TypeOK, ChainTypeOK
<1>3. QED
  BY <1>1, <1>2

\* The disjuncts of Next, one by one.
LEMMA NextCases ==
  ASSUME TypeOK, Next
  PROVE  \/ Queues \/ QueueFault
         \/ \E e \in Envs :
              \/ \E B \in SUBSET Copies : Receive(e, B)
              \/ \E ch \in Chains : ResolveCached(e, ch) \/ ResolveRefreshed(e, ch)
                                    \/ ResolveFailed(e, ch)
              \/ Build(e)
              \/ \E call \in inv[e].calls : \E c \in Copies : AcceptEntry(e, call, c)
              \/ \E call \in inv[e].calls :
                   \/ \E c \in Copies : RefuseEntry(e, call, c)
                   \/ CallAnswered(e, call) \/ CallFailed(e, call) \/ CallRetried(e, call)
              \/ Respond(e) \/ Crash(e)
         \/ \E e \in Envs : Recycle(e)
         \/ \E ch \in Chains, m \in Limits : Deploy(ch, m)
BY DEF Next, Progress, Handler, HandlerFault

\* The model's variables keep their types in every reachable state.
THEOREM TypeCorrect == Spec => []TypeOK
<1>1. Init => TypeOK
  BY InitType
<1>2. TypeOK /\ [Next]_vars => TypeOK'
  <2> SUFFICES ASSUME TypeOK, [Next]_vars PROVE TypeOK'
    OBVIOUS
  <2>1. CASE Next
    BY <2>1, NextCases, QueuesType, ReceiveType, ResolveType, BuildType, AcceptType, CallType,
       EndType, EnvironmentType
  <2>2. CASE UNCHANGED vars
    BY <2>2 DEF vars, TypeOK, ChainTypeOK
  <2>3. QED
    BY <2>1, <2>2
<1>3. QED
  BY <1>1, <1>2, PTL DEF Spec

-----------------------------------------------------------------------------
(***************************************************************************)
(* NothingLost.  It is not inductive: a delete is safe only because acked  *)
(* messages were replayed, which rests on what every call of every         *)
(* invocation has done so far.  IInv says so.                              *)
(***************************************************************************)

\* Steps only add copies: what a copy replays and carries never changes.
KeepsHistory ==
  /\ sent <= sent'
  /\ \A c \in 1..sent : msg'[c].parent = msg[c].parent /\ msg'[c].body = msg[c].body

LEMMA ReplayedStays ==
  ASSUME TypeOK, TypeOK', KeepsHistory, NEW c \in Copies, Replayed(c)
  PROVE  Replayed(c)'
BY DEF KeepsHistory, Replayed, Children, TypeOK, ChainTypeOK

LEMMA LineageStays ==
  ASSUME TypeOK, Lineage, KeepsHistory, sent' = sent
  PROVE  Lineage'
<1> SUFFICES ASSUME NEW d \in 1..sent', msg'[d].parent # 0
             PROVE  msg'[d].parent < d /\ msg'[d].body = msg'[msg'[d].parent].body
  BY DEF Lineage
<1>1. d \in 1..sent /\ d \in Copies /\ msg[d].parent \in Nat
  BY ConstantTypes DEF TypeOK, ChainTypeOK, Copies, Message
<1>2. msg[d].parent < d /\ msg[d].body = msg[msg[d].parent].body /\ msg[d].parent \in 1..sent
  BY <1>1 DEF Lineage, KeepsHistory, TypeOK, ChainTypeOK
<1>3. QED
  BY <1>1, <1>2 DEF KeepsHistory

\* A step that deletes nothing and takes nothing from the living.
LEMMA NothingLostStays ==
  ASSUME TypeOK, TypeOK', NothingLost, KeepsHistory,
         \A c \in 1..sent' : msg'[c].place = "deleted" =>
                               c <= sent /\ msg[c].place = "deleted",
         \A c \in 1..sent : Alive(c) => Alive(c)'
  PROVE  NothingLost'
<1> SUFFICES ASSUME NEW c \in 1..sent', msg'[c].place = "deleted"
             PROVE  \E d \in c+1..sent' : msg'[d].body = msg'[c].body /\ Alive(d)'
  BY DEF NothingLost
<1>1. c \in 1..sent /\ msg[c].place = "deleted"
  BY DEF TypeOK, ChainTypeOK
<1>2. PICK d \in c+1..sent : msg[d].body = msg[c].body /\ Alive(d)
  BY <1>1 DEF NothingLost
<1>3. d \in 1..sent /\ d \in c+1..sent'
  BY <1>1, <1>2 DEF KeepsHistory, TypeOK, ChainTypeOK
<1>4. msg'[d].body = msg'[c].body /\ Alive(d)'
  BY <1>1, <1>2, <1>3 DEF KeepsHistory
<1>5. QED
  BY <1>3, <1>4

LEMMA MoveKeeps ==
  ASSUME TypeOK, NEW c \in Copies, NEW d \in Copies, NEW p
  PROVE  /\ Move(c, p)[d].body = msg[d].body /\ Move(c, p)[d].parent = msg[d].parent
         /\ d # c => Move(c, p)[d].place = msg[d].place
         /\ Move(c, p)[c].place = p
<1>1. CASE d = c
  BY <1>1 DEF Move, TypeOK, ChainTypeOK, Message
<1>2. CASE d # c
  BY <1>2 DEF Move, TypeOK, ChainTypeOK, Message
<1>3. QED
  BY <1>1, <1>2

\* The step at the heart of it: the copy deleted last has a replay, and if that
\* was deleted before, something younger still lives.
LEMMA DeleteLosesNothing ==
  ASSUME IInv, TypeOK', NEW c \in Copies, Delete(c)
  PROVE  NothingLost'
<1> USE DEF IInv
<1>1. CASE msg[c].place # "replay"
  BY <1>1 DEF Delete, NothingLost, Alive
<1>2. CASE msg[c].place = "replay"
  <2>1. c \in 1..sent /\ sent' = sent /\ sent \in Nat /\ msg' = Move(c, "deleted")
    BY <1>2 DEF Delete, TypeOK, ChainTypeOK, Copies
  <2>2. \A d \in 1..sent : /\ d \in Copies /\ msg'[d].body = msg[d].body
                           /\ d # c => msg'[d].place = msg[d].place
    BY <2>1, MoveKeeps, ConstantTypes DEF TypeOK, ChainTypeOK, Copies
  <2>3. PICK d \in 1..sent : msg[d].parent = c
    BY DEF Delete, AckedWereReplayed, Replayed, Children
  <2>4. d > c /\ msg[d].body = msg[c].body
    BY <2>1, <2>3 DEF Lineage
  <2>5. PICK f \in c+1..sent : msg[f].body = msg[c].body /\ Alive(f)
    <3>1. CASE msg[d].place = "deleted"
      <4>1. PICK f \in d+1..sent : msg[f].body = msg[d].body /\ Alive(f)
        BY <3>1 DEF NothingLost
      <4>2. QED
        BY <2>1, <2>3, <2>4, <4>1
    <3>2. CASE msg[d].place # "deleted"
      <4>1. msg[d].place \in Places /\ msg[d].place # "unsent"
        BY <2>1, <2>2 DEF TypeOK, ChainTypeOK, Message
      <4>2. Alive(d)
        BY <3>2, <4>1 DEF Alive, Places
      <4>3. QED
        BY <2>1, <2>4, <4>2
    <3>3. QED
      BY <3>1, <3>2
  <2>6. SUFFICES ASSUME NEW b \in 1..sent, msg'[b].place = "deleted"
                 PROVE  \E g \in b+1..sent : msg'[g].body = msg'[b].body /\ Alive(g)'
    BY <2>1 DEF NothingLost
  <2>7. \A g \in 1..sent : g # c /\ Alive(g) => Alive(g)'
    BY <2>2 DEF Alive
  <2>8. CASE b = c
    BY <2>1, <2>2, <2>5, <2>7, <2>8
  <2>9. CASE b # c
    <3>1. PICK g \in b+1..sent : msg[g].body = msg[b].body /\ Alive(g)
      BY <2>2, <2>6, <2>9 DEF NothingLost
    <3>2. CASE g = c
      BY <2>1, <2>2, <2>5, <2>7, <3>1, <3>2
    <3>3. CASE g # c
      BY <2>1, <2>2, <2>7, <3>1, <3>3
    <3>4. QED
      BY <3>2, <3>3
  <2>10. QED
    BY <2>8, <2>9
<1>3. QED
  BY <1>1, <1>2

\* CallsAccountedFor and BatchAccountedFor, for one environment.
Accounted(e) ==
  /\ \A c \in inv[e].batch : c <= sent
  /\ inv[e].phase # "sending" => inv[e].calls = {}
  /\ \A call \in inv[e].calls :
       /\ call.entries \subseteq inv[e].batch /\ call.left \subseteq call.entries
       /\ \A c \in call.entries : c \in call.left \/ c \in call.refused \/ Replayed(c)
  /\ inv[e].phase = "sending" =>
       \A c \in inv[e].batch :
         \/ c \in inv[e].failures
         \/ \E call \in inv[e].calls : c \in call.entries
         \/ Replayed(c)

LEMMA AccountedIsIInv ==
  (\A e \in Envs : Accounted(e)) <=> CallsAccountedFor /\ BatchAccountedFor
BY DEF Accounted, CallsAccountedFor, BatchAccountedFor, Replayed

\* An environment that does not step keeps its accounts.
LEMMA AccountedStays ==
  ASSUME TypeOK, TypeOK', KeepsHistory, NEW e \in Envs, inv'[e] = inv[e], Accounted(e)
  PROVE  Accounted(e)'
<1>1. inv[e] \in Invocation /\ sent \in Nat /\ sent' \in Nat
  BY DEF TypeOK, ChainTypeOK
<1>2. \A call \in inv[e].calls : call.entries \subseteq Copies
  BY <1>1 DEF Invocation, Call
<1>3. \A c \in Copies : Replayed(c) => Replayed(c)'
  BY ReplayedStays
<1>4. \A c \in inv'[e].batch : c <= sent'
  BY <1>1 DEF Accounted, KeepsHistory, Invocation, Copies
<1>5. \A call \in inv'[e].calls : \A c \in call.entries :
        c \in call.left \/ c \in call.refused \/ Replayed(c)'
  BY <1>2, <1>3 DEF Accounted
<1>6. inv'[e].phase = "sending" => \A c \in inv'[e].batch :
         \/ c \in inv'[e].failures
         \/ \E call \in inv'[e].calls : c \in call.entries
         \/ Replayed(c)'
  BY <1>1, <1>3 DEF Accounted, Invocation
<1>7. QED
  BY <1>4, <1>5, <1>6 DEF Accounted

\* It is enough to look at the environment that steps.
LEMMA StepAccounts ==
  ASSUME IInv, TypeOK', KeepsHistory, NEW e \in Envs, Accounted(e)',
         \A f \in Envs : f # e => inv'[f] = inv[f]
  PROVE  CallsAccountedFor' /\ BatchAccountedFor'
<1>1. \A f \in Envs : Accounted(f)
  BY AccountedIsIInv DEF IInv
<1>2. ASSUME NEW f \in Envs PROVE Accounted(f)'
  <2>1. CASE f = e
    BY <2>1
  <2>2. CASE f # e
    BY <1>1, <2>2, AccountedStays DEF IInv
  <2>3. QED
    BY <2>1, <2>2
<1>3. (\A f \in Envs : Accounted(f)')
      <=> CallsAccountedFor' /\ BatchAccountedFor'
  BY DEF Accounted, CallsAccountedFor, BatchAccountedFor, Replayed
<1>4. QED
  BY <1>2, <1>3

LEMMA AckedStays ==
  ASSUME IInv, TypeOK', KeepsHistory, acked' \subseteq acked
  PROVE  AckedWereReplayed'
<1>1. \A c \in acked : c \in Copies /\ Replayed(c)
  BY DEF IInv, TypeOK, ChainTypeOK, AckedWereReplayed
<1>2. QED
  BY <1>1, ReplayedStays DEF IInv, AckedWereReplayed

\* The steps of an invocation that neither send nor acknowledge.
LEMMA QuietStep ==
  ASSUME IInv, TypeOK', UNCHANGED <<msg, sent, acked>>, NEW e \in Envs, Accounted(e)',
         \A f \in Envs : f # e => inv'[f] = inv[f]
  PROVE  IInv'
<1>1. KeepsHistory
  BY DEF KeepsHistory, IInv, TypeOK, ChainTypeOK
<1>2. Lineage' /\ NothingLost'
  BY DEF IInv, Lineage, NothingLost, Alive
<1>3. QED
  BY <1>1, <1>2, StepAccounts, AckedStays DEF IInv

LEMMA IdleAccounted == ASSUME NEW e \in Envs, inv'[e] = Idle PROVE Accounted(e)'
BY DEF Accounted, Idle

LEMMA QueuesIInv == ASSUME IInv, TypeOK', Queues \/ QueueFault PROVE IInv'
<1> USE DEF IInv
<1>1. PICK c \in Copies : \/ Consume(c) \/ RedriveToReplay(c) \/ DeadLetter(c) \/ Delete(c)
                          \/ Reappear(c) \/ DeleteLost(c)
  BY DEF Queues, QueueFault
<1>2. inv' = inv
  BY DEF Queues, QueueFault, handlerVars
<1>3. sent' = sent /\ acked' \subseteq acked
  BY <1>1 DEF Consume, RedriveToReplay, DeadLetter, Delete, Reappear, DeleteLost
<1>4. \/ msg' = msg
      \/ \E p \in {"consumed", "replay", "dead"} : Alive(c) /\ msg' = Move(c, p)
      \/ Delete(c) /\ msg' = Move(c, "deleted")
  BY <1>1 DEF Consume, RedriveToReplay, DeadLetter, Delete, Reappear, DeleteLost, Alive,
     Visible, At
<1>5. KeepsHistory
  <2>1. ASSUME NEW d \in 1..sent
        PROVE  msg'[d].parent = msg[d].parent /\ msg'[d].body = msg[d].body
    <3>1. d \in Copies
      BY ConstantTypes DEF TypeOK, ChainTypeOK, Copies
    <3>2. msg' = msg \/ \E p : msg' = Move(c, p)
      BY <1>4
    <3>3. QED
      BY <3>1, <3>2, MoveKeeps
  <2>2. QED
    BY <1>3, <2>1 DEF KeepsHistory, TypeOK, ChainTypeOK
<1>6. NothingLost'
  <2>1. CASE Delete(c)
    BY <2>1, DeleteLosesNothing
  <2>2. CASE msg' = msg
    BY <1>3, <2>2 DEF NothingLost, Alive
  <2>3. ASSUME NEW p \in {"consumed", "replay", "dead"}, Alive(c), msg' = Move(c, p)
        PROVE  NothingLost'
    <3>1. \A d \in 1..sent : (d = c => msg'[d].place = p) /\ (d # c => msg'[d].place = msg[d].place)
      BY <1>3, <2>3, MoveKeeps, ConstantTypes DEF TypeOK, ChainTypeOK, Copies
    <3>2. QED
      BY <1>3, <1>5, <2>3, <3>1, NothingLostStays DEF Alive
  <2>4. QED
    BY <1>4, <2>1, <2>2, <2>3
<1>7. \A e \in Envs : Accounted(e)'
  BY <1>2, <1>5, AccountedStays, AccountedIsIInv
<1>8. CallsAccountedFor' /\ BatchAccountedFor'
  BY <1>7 DEF Accounted, CallsAccountedFor, BatchAccountedFor, Replayed
<1>9. QED
  BY <1>3, <1>5, <1>6, <1>8, LineageStays, AckedStays

LEMMA ReceiveIInv ==
  ASSUME IInv, TypeOK', NEW e \in Envs, NEW B \in SUBSET Copies, Receive(e, B)
  PROVE  IInv'
<1> USE DEF IInv
<1>1. \A c \in Copies : /\ msg'[c].parent = msg[c].parent /\ msg'[c].body = msg[c].body
                        /\ msg'[c].place = msg[c].place
  BY DEF Receive, TypeOK, ChainTypeOK, Message
<1>2. sent' = sent /\ acked' = acked
  BY DEF Receive
<1>3. KeepsHistory
  BY <1>1, <1>2, ConstantTypes DEF KeepsHistory, TypeOK, ChainTypeOK, Copies
<1>4. \A c \in 1..sent : msg'[c].place = msg[c].place
  BY <1>1, ConstantTypes DEF TypeOK, ChainTypeOK, Copies
<1>5. NothingLost'
  BY <1>2, <1>3, <1>4, NothingLostStays DEF Alive
<1>6. inv'[e] = [Idle EXCEPT !.phase = "resolving", !.batch = B]
  BY DEF Receive, TypeOK
<1>7. \A c \in B : c <= sent
  BY DEF Receive, Visible, At
<1>8. Accounted(e)'
  BY <1>2, <1>6, <1>7 DEF Accounted, Idle
<1>9. \A f \in Envs : f # e => inv'[f] = inv[f]
  BY DEF Receive, TypeOK
<1>10. QED
  BY <1>2, <1>3, <1>5, <1>8, <1>9, LineageStays, StepAccounts, AckedStays

LEMMA ResolveIInv ==
  ASSUME IInv, TypeOK', NEW e \in Envs, NEW ch \in Chains,
         ResolveCached(e, ch) \/ ResolveRefreshed(e, ch) \/ ResolveFailed(e, ch)
  PROVE  IInv'
<1> USE DEF IInv
<1>1. UNCHANGED <<msg, sent, acked>> /\ inv[e].phase = "resolving"
  BY DEF ResolveCached, ResolveRefreshed, ResolveFailed, Pending
<1>2. \A f \in Envs : f # e => inv'[f] = inv[f]
  BY DEF ResolveCached, ResolveRefreshed, ResolveFailed, TypeOK
<1>3. \/ inv'[e] = Idle
      \/ /\ inv'[e].phase = "resolving" /\ inv'[e].batch = inv[e].batch
         /\ inv'[e].calls = inv[e].calls
  <2>1. ASSUME NEW setting, inv' = [inv EXCEPT ![e].resolved[ch] = setting]
        PROVE  /\ inv'[e].phase = inv[e].phase /\ inv'[e].batch = inv[e].batch
               /\ inv'[e].calls = inv[e].calls
    <3>1. inv'[e] = [inv[e] EXCEPT !.resolved[ch] = setting] /\ inv[e] \in Invocation
      BY <2>1 DEF TypeOK
    <3>2. QED
      BY <3>1 DEF Invocation
  <2>2. CASE ResolveFailed(e, ch)
    BY <2>2 DEF ResolveFailed, TypeOK
  <2>3. QED
    BY <1>1, <2>1, <2>2 DEF ResolveCached, ResolveRefreshed
<1>4. Accounted(e)
  BY AccountedIsIInv
<1>5. Accounted(e)'
  BY <1>1, <1>3, <1>4, IdleAccounted DEF Accounted
<1>6. QED
  BY <1>1, <1>2, <1>5, QuietStep

\* Every record is put in a call or reported; push_failure drops nothing, because
\* every record has a message id.
LEMMA BuildIInv ==
  ASSUME IInv, TypeOK', "noId" \notin Shapes, NEW e \in Envs, Build(e)
  PROVE  IInv'
<1> USE DEF IInv
<1>1. PICK P \in Chunks(e) :
        inv' = [inv EXCEPT
          ![e].phase = "sending",
          ![e].failures = Rejected(e),
          ![e].calls = {NewCall(Destination(e, CHOOSE c \in C : TRUE), C) : C \in P}]
  BY DEF Build
<1>2. inv[e] \in Invocation /\ sent' = sent /\ msg' = msg
  BY DEF TypeOK, Build
<1>3. /\ inv'[e].batch = inv[e].batch /\ inv'[e].phase = "sending"
      /\ inv'[e].failures = Rejected(e)
      /\ inv'[e].calls = {NewCall(Destination(e, CHOOSE c \in C : TRUE), C) : C \in P}
  BY <1>1, <1>2 DEF TypeOK, Invocation
<1>4. UNION P = Sends(e) /\ \A C \in P : C \subseteq Sends(e)
  BY DEF Chunks
<1>5. Sends(e) \subseteq inv[e].batch
  BY DEF Sends
<1>6. \A c \in inv[e].batch : msg[c].shape # "noId"
  BY <1>2 DEF Invocation, TypeOK, ChainTypeOK, Message
<1>7. ASSUME NEW c \in inv[e].batch
      PROVE  c \in inv'[e].failures \/ \E call \in inv'[e].calls : c \in call.entries
  <2>1. CASE c \in Sends(e)
    <3>1. PICK C \in P : c \in C
      BY <1>4, <2>1
    <3>2. NewCall(Destination(e, CHOOSE d \in C : TRUE), C).entries = C
      BY DEF NewCall
    <3>3. QED
      BY <1>3, <3>1, <3>2
  <2>2. CASE c \notin Sends(e)
    BY <1>3, <1>6, <2>2 DEF Rejected
  <2>3. QED
    BY <2>1, <2>2
<1>8. \A call \in inv'[e].calls : call.entries \subseteq inv[e].batch /\ call.left = call.entries
  BY <1>3, <1>4, <1>5 DEF NewCall
<1>9. Accounted(e)
  BY AccountedIsIInv
<1>10. Accounted(e)'
  BY <1>2, <1>3, <1>7, <1>8, <1>9 DEF Accounted
<1>11. \A f \in Envs : f # e => inv'[f] = inv[f]
  BY DEF Build, TypeOK
<1>12. QED
  BY <1>10, <1>11, QuietStep DEF Build

\* The three fields a step of send_chunk can touch, and those it cannot.
LEMMA ReplaceFields ==
  ASSUME TypeOK, NEW e \in Envs, NEW old, NEW new, inv' = Replace(e, old, new)
  PROVE  /\ inv'[e].phase = inv[e].phase /\ inv'[e].batch = inv[e].batch
         /\ inv'[e].failures = inv[e].failures
         /\ inv'[e].calls = (inv[e].calls \ {old}) \cup {new}
         /\ \A f \in Envs : f # e => inv'[f] = inv[f]
<1>1. inv[e] \in Invocation
  BY DEF TypeOK
<1>2. QED
  BY <1>1 DEF Replace, TypeOK, Invocation

\* A call that is still under way after a step covers the same entries, all of them
\* accounted for.
LEMMA ReplaceAccounted ==
  ASSUME IInv, TypeOK', KeepsHistory, NEW e \in Envs, NEW old \in inv[e].calls, NEW new,
         inv' = Replace(e, old, new),
         new.entries = old.entries, new.left \subseteq new.entries,
         \A c \in new.entries : c \in new.left \/ c \in new.refused \/ Replayed(c)'
  PROVE  Accounted(e)'
<1> USE DEF IInv
<1>1. Accounted(e) /\ inv[e] \in Invocation /\ sent \in Nat /\ sent' \in Nat
  BY AccountedIsIInv DEF TypeOK, ChainTypeOK
<1>2. /\ inv'[e].phase = inv[e].phase /\ inv'[e].batch = inv[e].batch
      /\ inv'[e].failures = inv[e].failures
      /\ inv'[e].calls = (inv[e].calls \ {old}) \cup {new}
  BY ReplaceFields
<1>3. inv[e].phase = "sending"
  BY <1>1 DEF Accounted
<1>4. \A c \in Copies : Replayed(c) => Replayed(c)'
  BY ReplayedStays
<1>5. inv[e].batch \subseteq Copies /\ old.entries \subseteq inv[e].batch
  BY <1>1 DEF Accounted, Invocation
<1>6. \A c \in inv'[e].batch : c <= sent'
  BY <1>1, <1>2, <1>5 DEF Accounted, KeepsHistory, Copies
<1>7. ASSUME NEW call \in inv'[e].calls
      PROVE  /\ call.entries \subseteq inv'[e].batch /\ call.left \subseteq call.entries
             /\ \A c \in call.entries : c \in call.left \/ c \in call.refused \/ Replayed(c)'
  <2>1. CASE call = new
    BY <1>2, <1>5, <2>1
  <2>2. CASE call \in inv[e].calls
    BY <1>1, <1>2, <1>4, <1>5, <2>2 DEF Accounted
  <2>3. QED
    BY <1>2, <2>1, <2>2
<1>8. ASSUME NEW c \in inv'[e].batch
      PROVE  \/ c \in inv'[e].failures
             \/ \E call \in inv'[e].calls : c \in call.entries
             \/ Replayed(c)'
  <2>1. \/ c \in inv[e].failures
        \/ \E call \in inv[e].calls : c \in call.entries
        \/ Replayed(c)
    BY <1>1, <1>2, <1>3 DEF Accounted
  <2>2. ASSUME NEW call \in inv[e].calls, c \in call.entries
        PROVE  \E d \in inv'[e].calls : c \in d.entries
    BY <1>2, <2>2
  <2>3. QED
    BY <1>2, <1>4, <1>5, <2>1, <2>2
<1>9. QED
  BY <1>2, <1>3, <1>6, <1>7, <1>8 DEF Accounted

LEMMA AcceptIInv ==
  ASSUME IInv, TypeOK', NEW e \in Envs, NEW call \in inv[e].calls, NEW c \in Copies,
         AcceptEntry(e, call, c)
  PROVE  IInv'
<1> USE DEF IInv
<1> DEFINE d == sent + 1
<1>1. /\ sent' = d /\ sent \in Nat /\ d \in Copies
      /\ msg' = [msg EXCEPT ![d] = ReplayOf(c, call.destination)]
      /\ acked' = acked
  BY DEF AcceptEntry, TypeOK, ChainTypeOK, Copies
<1>2. \A f \in 1..sent : f \in Copies /\ msg'[f] = msg[f]
  BY <1>1, ConstantTypes DEF TypeOK, ChainTypeOK, Copies
<1>3. msg'[d].parent = c /\ msg'[d].body = msg[c].body /\ msg'[d].place = "source"
  <2>1. msg'[d] = ReplayOf(c, call.destination)
    BY <1>1 DEF TypeOK, ChainTypeOK
  <2>2. QED
    BY <2>1 DEF ReplayOf
<1>4. KeepsHistory
  BY <1>1, <1>2 DEF KeepsHistory
<1>5. Accounted(e) /\ call \in Call
  BY AccountedIsIInv DEF TypeOK, Invocation
<1>6. c \in 1..sent /\ c \in call.left
  <2>1. c \in call.left
    BY DEF AcceptEntry
  <2>2. c \in inv[e].batch
    BY <1>5, <2>1 DEF Accounted
  <2>3. QED
    BY <1>1, <1>5, <2>1, <2>2 DEF Accounted, Copies
<1>7. Replayed(c)'
  BY <1>1, <1>3 DEF Replayed, Children
<1>8. Lineage'
  <2> SUFFICES ASSUME NEW f \in 1..sent', msg'[f].parent # 0
               PROVE  msg'[f].parent < f /\ msg'[f].body = msg'[msg'[f].parent].body
    BY DEF Lineage
  <2>1. CASE f = d
    BY <1>1, <1>2, <1>3, <1>6, <2>1
  <2>2. CASE f \in 1..sent
    <3>1. msg[f].parent \in Nat
      BY <1>2, <2>2, ConstantTypes DEF TypeOK, ChainTypeOK, Message
    <3>2. msg[f].parent < f /\ msg[f].body = msg[msg[f].parent].body /\ msg[f].parent \in 1..sent
      BY <1>1, <1>2, <2>2, <3>1 DEF Lineage
    <3>3. msg'[msg[f].parent].body = msg[msg[f].parent].body
      BY <1>2, <3>2
    <3>4. QED
      BY <1>2, <2>2, <3>2, <3>3
  <2>3. QED
    BY <1>1, <2>1, <2>2
<1>9. NothingLost'
  <2>1. \A f \in 1..sent' : msg'[f].place = "deleted" => f <= sent /\ msg[f].place = "deleted"
    BY <1>1, <1>2, <1>3
  <2>2. \A f \in 1..sent : Alive(f) => Alive(f)'
    BY <1>2 DEF Alive
  <2>3. QED
    BY <1>4, <2>1, <2>2, NothingLostStays
<1>10. Accounted(e)'
  <2>1. Decided(call, c).entries = call.entries /\ Decided(call, c).left = call.left \ {c}
        /\ Decided(call, c).refused = call.refused
    BY <1>5 DEF Decided, Call
  <2>2. \A f \in call.entries : f \in Copies /\ (f \in call.left \/ f \in call.refused \/ Replayed(f))
    BY <1>5 DEF Accounted, Call
  <2>3. \A f \in call.entries :
          f \in call.left \ {c} \/ f \in call.refused \/ Replayed(f)'
    BY <1>4, <1>7, <2>2, ReplayedStays
  <2>4. call.left \subseteq call.entries
    BY <1>5 DEF Accounted
  <2>5. inv' = Replace(e, call, Decided(call, c))
    BY DEF AcceptEntry
  <2>6. QED
    BY <1>4, <2>1, <2>3, <2>4, <2>5, ReplaceAccounted
<1>11. \A f \in Envs : f # e => inv'[f] = inv[f]
  BY ReplaceFields DEF AcceptEntry
<1>12. QED
  BY <1>1, <1>4, <1>8, <1>9, <1>10, <1>11, StepAccounts, AckedStays

LEMMA CallIInv ==
  ASSUME IInv, TypeOK', NEW e \in Envs, NEW call \in inv[e].calls,
         \/ \E c \in Copies : RefuseEntry(e, call, c)
         \/ CallRetried(e, call) \/ CallAnswered(e, call) \/ CallFailed(e, call)
  PROVE  IInv'
<1> USE DEF IInv
<1>1. UNCHANGED <<msg, sent, acked>>
  BY DEF RefuseEntry, CallRetried, CallAnswered, CallFailed
<1>2. KeepsHistory
  BY <1>1 DEF KeepsHistory, TypeOK, ChainTypeOK
<1>3. Accounted(e) /\ call \in Call /\ inv[e] \in Invocation
  BY AccountedIsIInv DEF TypeOK, Invocation
<1>4. \A c \in call.entries : /\ c \in inv[e].batch
                              /\ c \in call.left \/ c \in call.refused \/ Replayed(c)'
  BY <1>1, <1>3 DEF Accounted, Replayed, Children
<1>5. call.left \subseteq call.entries
  BY <1>3 DEF Accounted
<1>6. ASSUME NEW new, inv' = Replace(e, call, new), new.entries = call.entries,
             new.left \subseteq new.entries,
             \A c \in new.entries : c \in new.left \/ c \in new.refused \/ Replayed(c)'
      PROVE  IInv'
  <2>1. Accounted(e)'
    BY <1>2, <1>6, ReplaceAccounted
  <2>2. \A f \in Envs : f # e => inv'[f] = inv[f]
    BY <1>6, ReplaceFields
  <2>3. QED
    BY <1>1, <2>1, <2>2, QuietStep
<1>7. ASSUME NEW c \in Copies, RefuseEntry(e, call, c) PROVE IInv'
  <2> DEFINE new == [Decided(call, c) EXCEPT !.refused = @ \cup {c}]
  <2>1. /\ new.entries = call.entries /\ new.left = call.left \ {c}
        /\ new.refused = call.refused \cup {c}
    BY <1>3 DEF Decided, Call
  <2>2. inv' = Replace(e, call, new)
    BY <1>7 DEF RefuseEntry
  <2> HIDE DEF new
  <2>3. QED
    BY <1>4, <1>5, <1>6, <2>1, <2>2
<1>8. CASE CallRetried(e, call)
  <2> DEFINE new == NewCall(call.destination, call.entries)
  <2>1. new.entries = call.entries /\ new.left = call.entries
    BY DEF NewCall
  <2>2. inv' = Replace(e, call, new)
    BY <1>8 DEF CallRetried
  <2> HIDE DEF new
  <2>3. QED
    BY <1>6, <2>1, <2>2
<1>9. ASSUME NEW failed, Return(e, call, failed),
             \A c \in call.entries : c \in failed \/ Replayed(c)'
      PROVE  IInv'
  <2>1. /\ inv'[e].phase = inv[e].phase /\ inv'[e].batch = inv[e].batch
        /\ inv'[e].calls = inv[e].calls \ {call}
        /\ inv'[e].failures = inv[e].failures \cup failed
        /\ \A f \in Envs : f # e => inv'[f] = inv[f]
    BY <1>3, <1>9 DEF Return, TypeOK, Invocation
  <2>2. \A c \in Copies : Replayed(c) <=> Replayed(c)'
    BY <1>1 DEF Replayed, Children
  <2>3. inv[e].batch \subseteq Copies
    BY <1>3 DEF Invocation
  <2>4. ASSUME NEW c \in inv[e].batch, inv[e].phase = "sending"
        PROVE  \/ c \in inv'[e].failures
               \/ \E k \in inv'[e].calls : c \in k.entries
               \/ Replayed(c)'
    BY <1>3, <1>9, <2>1, <2>2, <2>3, <2>4 DEF Accounted
  <2>5. Accounted(e)'
    BY <1>1, <1>3, <2>1, <2>2, <2>3, <2>4 DEF Accounted
  <2>6. QED
    BY <1>1, <2>1, <2>5, QuietStep
<1>10. CASE CallAnswered(e, call)
  BY <1>4, <1>9, <1>10 DEF CallAnswered
<1>11. CASE CallFailed(e, call)
  BY <1>9, <1>11 DEF CallFailed
<1>12. QED
  BY <1>7, <1>8, <1>10, <1>11

\* The response acknowledges exactly what the accounts say was replayed.
LEMMA EndIInv == ASSUME IInv, TypeOK', NEW e \in Envs, Respond(e) \/ Crash(e) PROVE IInv'
<1> USE DEF IInv
<1>1. UNCHANGED <<msg, sent>> /\ inv'[e] = Idle /\ \A f \in Envs : f # e => inv'[f] = inv[f]
  BY DEF Respond, Crash, TypeOK
<1>2. Accounted(e)'
  BY <1>1, IdleAccounted
<1>3. CASE Crash(e)
  BY <1>1, <1>2, <1>3, QuietStep DEF Crash
<1>4. CASE Respond(e)
  <2>1. KeepsHistory
    BY <1>1 DEF KeepsHistory, TypeOK, ChainTypeOK
  <2>2. Lineage' /\ NothingLost'
    BY <1>1 DEF Lineage, NothingLost, Alive
  <2>3. \A c \in inv[e].batch \ inv[e].failures : Replayed(c)
    BY <1>4, AccountedIsIInv DEF Respond, Accounted
  <2>4. \A c \in acked' : Replayed(c)'
    BY <1>1, <1>4, <2>3 DEF Respond, AckedWereReplayed, Replayed, Children
  <2>5. QED
    BY <1>1, <1>2, <2>1, <2>2, <2>4, StepAccounts DEF AckedWereReplayed
<1>5. QED
  BY <1>3, <1>4

LEMMA EnvironmentIInv ==
  ASSUME IInv, TypeOK',
         \/ \E e \in Envs : Recycle(e)
         \/ \E ch \in Chains, m \in Limits : Deploy(ch, m)
         \/ UNCHANGED vars
  PROVE  IInv'
<1>1. UNCHANGED <<msg, sent, acked, inv>>
  BY DEF Recycle, Deploy, vars
<1>2. QED
  BY <1>1 DEF IInv, Lineage, CallsAccountedFor, BatchAccountedFor, AckedWereReplayed,
     NothingLost, Replayed, Children, Alive

LEMMA InitIInv == Init => IInv
<1> SUFFICES ASSUME Init PROVE IInv
  OBVIOUS
<1>1. TypeOK
  BY InitType
<1>2. \A c \in 1..sent : msg[c].parent = 0 /\ msg[c].place = "source"
  BY ConstantTypes DEF Init, ChainInit, Produced, Copies
<1>3. QED
  BY <1>1, <1>2 DEF Init, ChainInit, Idle, IInv, Lineage, CallsAccountedFor,
     BatchAccountedFor, AckedWereReplayed, NothingLost

\* Where every record has a message id, the whole account holds: every copy of a
\* message descends from the one before it by one replay (build_replay_request), and
\* what a call carries, reports or has had accepted (lib.rs handle, replay.rs
\* send_replays) is each message of the batch, so that what was deleted lives on.
THEOREM Accounts == "noId" \notin Shapes /\ Spec => []IInv
<1> SUFFICES ASSUME "noId" \notin Shapes PROVE Spec => []IInv
  OBVIOUS
<1>1. Init => IInv
  BY InitIInv
<1>2. IInv /\ [Next]_vars /\ TypeOK' => IInv'
  <2> SUFFICES ASSUME IInv, [Next]_vars, TypeOK' PROVE IInv'
    OBVIOUS
  <2>1. CASE Next
    <3>1. TypeOK
      BY DEF IInv
    <3>2. QED
      BY <2>1, <3>1, NextCases, QueuesIInv, ReceiveIInv, ResolveIInv, BuildIInv, AcceptIInv,
         CallIInv, EndIInv, EnvironmentIInv
  <2>2. CASE UNCHANGED vars
    BY <2>2, EnvironmentIInv
  <2>3. QED
    BY <2>1, <2>2
<1>3. QED
  BY <1>1, <1>2, TypeCorrect, PTL DEF Spec

\* Unless a record comes without a message id, no message is ever lost: whatever
\* fails and however invocations overlap, a deleted copy leaves a living replay.
THEOREM NoMessageLost == "noId" \notin Shapes /\ Spec => []NothingLost
<1>1. IInv => NothingLost
  BY DEF IInv
<1>2. QED
  BY <1>1, Accounts, PTL

\* The doc of handle (lib.rs:32-33) for every other record: while the calls of an
\* invocation are under way, each message of its batch is reported, in a call, or
\* already replayed.
THEOREM NothingUnreported == "noId" \notin Shapes /\ Spec => []BatchAccountedFor
<1>1. IInv => BatchAccountedFor
  BY DEF IInv
<1>2. QED
  BY <1>1, Accounts, PTL

=============================================================================
