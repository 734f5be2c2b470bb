------------------------ MODULE ReplayContractProofs ------------------------
(***************************************************************************)
(* ReplayHandler implements ReplayContract, for every value of the         *)
(* constants: every step of queues, invocations and failures is a step of  *)
(* one message's life, or changes nothing an owner of a queue sees.        *)
(*                                                                         *)
(* Most of it is in the invariants of the two proof modules below.  What   *)
(* is added here is that a message an invocation works on has been parked: *)
(* it may have been dead-lettered or deleted meanwhile, but it never goes  *)
(* back to its source queue.                                               *)
(***************************************************************************)
EXTENDS ReplayRoutingProofs

Parked(c) == msg[c].place \in {"replay", "dead", "deleted"}

InHandParked(e) ==
  /\ \A c \in inv[e].batch : Parked(c)
  /\ \A call \in inv[e].calls :
       call.left \subseteq call.entries /\ call.entries \subseteq inv[e].batch

HInv == TypeOK /\ \A e \in Envs : InHandParked(e)

-----------------------------------------------------------------------------
\* The steps that change places only move copies onward.
KeepsParked == \A c \in Copies : Parked(c) => Parked(c)'

LEMMA ParkedStays ==
  ASSUME TypeOK, KeepsParked, NEW e \in Envs, InHandParked(e), inv'[e] = inv[e]
  PROVE  InHandParked(e)'
<1>1. inv[e].batch \subseteq Copies
  BY DEF TypeOK, Invocation
<1>2. QED
  BY <1>1 DEF InHandParked, KeepsParked

\* It is enough to look at the environment that steps.
LEMMA StepParked ==
  ASSUME HInv, TypeOK', KeepsParked, NEW e \in Envs, InHandParked(e)',
         \A f \in Envs : f # e => inv'[f] = inv[f]
  PROVE  HInv'
<1>1. ASSUME NEW f \in Envs, f # e PROVE InHandParked(f)'
  BY <1>1, ParkedStays DEF HInv
<1>2. QED
  BY <1>1 DEF HInv

\* A step of an invocation that leaves the messages alone.
LEMMA QuietParked ==
  ASSUME HInv, TypeOK', UNCHANGED msg, NEW e \in Envs,
         inv'[e].batch \subseteq inv[e].batch,
         \A call \in inv'[e].calls :
           call.left \subseteq call.entries /\ call.entries \subseteq inv'[e].batch,
         \A f \in Envs : f # e => inv'[f] = inv[f]
  PROVE  HInv'
<1>1. KeepsParked
  BY DEF KeepsParked, Parked
<1>2. InHandParked(e)'
  BY DEF HInv, InHandParked, Parked
<1>3. QED
  BY <1>1, <1>2, StepParked

LEMMA QueuesParked == ASSUME HInv, TypeOK', Queues \/ QueueFault PROVE HInv'
<1> USE DEF HInv
<1>1. PICK c \in Copies : \/ Consume(c) \/ RedriveToReplay(c) \/ DeadLetter(c) \/ Delete(c)
                          \/ Reappear(c) \/ DeleteLost(c)
  BY DEF Queues, QueueFault
<1>2. UNCHANGED inv
  BY DEF Queues, QueueFault, handlerVars
<1>3. ASSUME NEW p \in Places, msg' = Move(c, p),
             ~Parked(c) \/ p \in {"replay", "dead", "deleted"}
      PROVE  KeepsParked
  <2>1. ASSUME NEW d \in Copies, Parked(d) PROVE Parked(d)'
    <3>1. msg[d] \in Message
      BY DEF TypeOK, ChainTypeOK
    <3>2. msg'[d] = IF d = c THEN [msg[d] EXCEPT !.place = p] ELSE msg[d]
      BY <1>3 DEF Move, TypeOK, ChainTypeOK
    <3>3. QED
      BY <1>3, <2>1, <3>1, <3>2 DEF Parked, Message
  <2>2. QED
    BY <2>1 DEF KeepsParked
<1>4. UNCHANGED msg => KeepsParked
  BY DEF KeepsParked, Parked
<1>5. KeepsParked
  BY <1>1, <1>3, <1>4 DEF Consume, RedriveToReplay, DeadLetter, Visible, Delete, Reappear,
     DeleteLost, At, Parked, Places
<1>6. QED
  BY <1>2, <1>5, ParkedStays

LEMMA ReceiveParked ==
  ASSUME HInv, TypeOK', NEW e \in Envs, NEW B \in SUBSET Copies, Receive(e, B)
  PROVE  HInv'
<1>1. \A c \in Copies : msg'[c].place = msg[c].place
  BY DEF HInv, Receive, TypeOK, ChainTypeOK, Message
<1>2. inv'[e].batch = B /\ inv'[e].calls = {}
  BY DEF HInv, Receive, TypeOK, Idle
<1>3. \A c \in B : Parked(c)
  BY DEF Receive, Visible, At, Parked
<1>4. KeepsParked /\ InHandParked(e)'
  BY <1>1, <1>2, <1>3 DEF KeepsParked, InHandParked, Parked
<1>5. \A f \in Envs : f # e => inv'[f] = inv[f]
  BY DEF HInv, Receive, TypeOK
<1>6. QED
  BY <1>4, <1>5, StepParked

LEMMA BuildParked == ASSUME HInv, TypeOK', NEW e \in Envs, Build(e) PROVE HInv'
<1>1. PICK P \in Chunks(e) :
        inv' = [inv EXCEPT
          ![e].phase = "sending",
          ![e].failures = Rejected(e),
          ![e].calls = {NewCall(Destination(e, CHOOSE c \in C : TRUE), C) : C \in P}]
  BY DEF Build
<1>2. inv[e] \in Invocation
  BY DEF HInv, TypeOK
<1>3. /\ inv'[e].batch = inv[e].batch
      /\ inv'[e].calls = {NewCall(Destination(e, CHOOSE c \in C : TRUE), C) : C \in P}
  BY <1>1, <1>2 DEF HInv, TypeOK, Invocation
<1>4. \A C \in P : C \subseteq inv[e].batch
  BY DEF Chunks, Sends
<1>5. \A call \in inv'[e].calls :
        call.left \subseteq call.entries /\ call.entries \subseteq inv'[e].batch
  BY <1>3, <1>4 DEF NewCall
<1>6. QED
  BY <1>3, <1>5, QuietParked DEF Build, HInv, TypeOK

LEMMA AcceptParked ==
  ASSUME HInv, TypeOK', NEW e \in Envs, NEW call \in inv[e].calls, NEW c \in Copies,
         AcceptEntry(e, call, c)
  PROVE  HInv'
<1> USE DEF HInv
<1>1. KeepsParked
  <2>1. msg[sent + 1].place = "unsent"
    BY ConstantTypes DEF AcceptEntry, TypeOK, ChainTypeOK, Copies
  <2>2. \A d \in Copies : d # sent + 1 => msg'[d] = msg[d]
    BY DEF AcceptEntry, TypeOK, ChainTypeOK
  <2>3. QED
    BY <2>1, <2>2 DEF KeepsParked, Parked
<1>2. inv[e] \in Invocation /\ call \in Call /\ InHandParked(e)
  BY DEF TypeOK, Invocation
<1>3. /\ inv'[e].batch = inv[e].batch
      /\ inv'[e].calls = (inv[e].calls \ {call}) \cup {Decided(call, c)}
      /\ \A f \in Envs : f # e => inv'[f] = inv[f]
  BY ReplaceFields DEF AcceptEntry
<1>4. Decided(call, c).left = call.left \ {c} /\ Decided(call, c).entries = call.entries
  BY <1>2 DEF Decided, Call
<1>5. \A k \in inv'[e].calls :
        k.left \subseteq k.entries /\ k.entries \subseteq inv'[e].batch
  BY <1>2, <1>3, <1>4 DEF InHandParked
<1>6. \A k \in inv'[e].batch : Parked(k)'
  BY <1>1, <1>2, <1>3 DEF InHandParked, KeepsParked, Invocation
<1>7. QED
  BY <1>1, <1>3, <1>5, <1>6, StepParked DEF InHandParked

LEMMA CallParked ==
  ASSUME HInv, TypeOK', NEW e \in Envs, NEW call \in inv[e].calls,
         \/ \E c \in Copies : RefuseEntry(e, call, c)
         \/ CallRetried(e, call) \/ CallAnswered(e, call) \/ CallFailed(e, call)
  PROVE  HInv'
<1> USE DEF HInv
<1>1. UNCHANGED msg
  BY DEF RefuseEntry, CallRetried, CallAnswered, CallFailed
<1>2. inv[e] \in Invocation /\ call \in Call /\ InHandParked(e)
  BY DEF TypeOK, Invocation
<1>3. ASSUME NEW new, inv' = Replace(e, call, new), new.entries = call.entries,
             new.left \subseteq call.entries
      PROVE  HInv'
  <2>1. /\ inv'[e].batch = inv[e].batch
        /\ inv'[e].calls = (inv[e].calls \ {call}) \cup {new}
        /\ \A f \in Envs : f # e => inv'[f] = inv[f]
    BY <1>3, ReplaceFields
  <2>2. QED
    BY <1>1, <1>2, <1>3, <2>1, QuietParked DEF InHandParked
<1>4. ASSUME NEW c \in Copies, RefuseEntry(e, call, c) PROVE HInv'
  <2> DEFINE new == [Decided(call, c) EXCEPT !.refused = @ \cup {c}]
  <2>1. new.entries = call.entries /\ new.left = call.left \ {c}
    BY <1>2 DEF Decided, Call
  <2>2. inv' = Replace(e, call, new)
    BY <1>4 DEF RefuseEntry
  <2> HIDE DEF new
  <2>3. QED
    BY <1>2, <1>3, <2>1, <2>2 DEF InHandParked
<1>5. CASE CallRetried(e, call)
  <2> DEFINE new == NewCall(call.destination, call.entries)
  <2>1. new.entries = call.entries /\ new.left = call.entries
    BY DEF NewCall
  <2>2. inv' = Replace(e, call, new)
    BY <1>5 DEF CallRetried
  <2> HIDE DEF new
  <2>3. QED
    BY <1>3, <2>1, <2>2
<1>6. CASE CallAnswered(e, call) \/ CallFailed(e, call)
  <2>1. PICK failed : Return(e, call, failed)
    BY <1>6 DEF CallAnswered, CallFailed
  <2>2. /\ inv'[e].batch = inv[e].batch /\ inv'[e].calls = inv[e].calls \ {call}
        /\ \A f \in Envs : f # e => inv'[f] = inv[f]
    BY <1>2, <2>1 DEF Return, TypeOK, Invocation
  <2>3. QED
    BY <1>1, <1>2, <2>2, QuietParked DEF InHandParked
<1>7. QED
  BY <1>4, <1>5, <1>6

LEMMA ResolveParked ==
  ASSUME HInv, TypeOK', NEW e \in Envs, NEW ch \in Chains,
         ResolveCached(e, ch) \/ ResolveRefreshed(e, ch) \/ ResolveFailed(e, ch)
  PROVE  HInv'
<1>1. UNCHANGED msg /\ \A f \in Envs : f # e => inv'[f] = inv[f]
  BY DEF HInv, ResolveCached, ResolveRefreshed, ResolveFailed, TypeOK
<1>2. inv[e] \in Invocation /\ InHandParked(e)
  BY DEF HInv, TypeOK
<1>3. CASE ResolveFailed(e, ch)
  <2>1. inv'[e].batch = {} /\ inv'[e].calls = {}
    BY <1>3 DEF HInv, ResolveFailed, TypeOK, Idle
  <2>2. QED
    BY <1>1, <2>1, QuietParked
<1>4. CASE ResolveCached(e, ch) \/ ResolveRefreshed(e, ch)
  <2>1. inv'[e].batch = inv[e].batch /\ inv'[e].calls = inv[e].calls
    BY <1>2, <1>4 DEF HInv, ResolveCached, ResolveRefreshed, TypeOK, Invocation
  <2>2. QED
    BY <1>1, <1>2, <2>1, QuietParked DEF InHandParked
<1>5. QED
  BY <1>3, <1>4

LEMMA EndParked == ASSUME HInv, TypeOK', NEW e \in Envs, Respond(e) \/ Crash(e) PROVE HInv'
<1>1. UNCHANGED msg /\ inv'[e] = Idle /\ \A f \in Envs : f # e => inv'[f] = inv[f]
  BY DEF HInv, Respond, Crash, TypeOK
<1>2. QED
  BY <1>1, QuietParked DEF Idle

LEMMA EnvironmentParked ==
  ASSUME HInv, TypeOK',
         \/ \E e \in Envs : Recycle(e)
         \/ \E ch \in Chains, m \in Limits : Deploy(ch, m)
         \/ UNCHANGED vars
  PROVE  HInv'
<1>1. UNCHANGED <<msg, inv>>
  BY DEF Recycle, Deploy, vars
<1>2. QED
  BY <1>1 DEF HInv, InHandParked, Parked

\* In every reachable state, what an invocation works on has been parked.
LEMMA Parking == Spec => []HInv
<1>1. Init => HInv
  <2> SUFFICES ASSUME Init PROVE HInv
    OBVIOUS
  <2>1. \A e \in Envs : inv[e].batch = {} /\ inv[e].calls = {}
    BY DEF Init, Idle
  <2>2. QED
    BY <2>1, InitType DEF HInv, InHandParked
<1>2. HInv /\ [Next]_vars /\ TypeOK' => HInv'
  <2> SUFFICES ASSUME HInv, [Next]_vars, TypeOK' PROVE HInv'
    OBVIOUS
  <2>1. CASE Next
    <3>1. TypeOK
      BY DEF HInv
    <3>2. QED
      BY <2>1, <3>1, NextCases, QueuesParked, ReceiveParked, ResolveParked, BuildParked,
         AcceptParked, CallParked, EndParked, EnvironmentParked
  <2>2. CASE UNCHANGED vars
    BY <2>2, EnvironmentParked
  <2>3. QED
    BY <2>1, <2>2
<1>3. QED
  BY <1>1, <1>2, TypeCorrect, PTL DEF Spec

-----------------------------------------------------------------------------
(* The refinement mapping, step by step *)

\* What ReplayContract sees of a copy.
Item(c) == [place |-> msg[c].place, chain |-> msg[c].chain, body |-> msg[c].body,
            count |-> msg[c].count, parent |-> msg[c].parent]

\* A step that changes none of it.
LEMMA UnseenStep ==
  ASSUME UNCHANGED sent, \A c \in Copies : Item(c)' = Item(c)
  PROVE  UNCHANGED Contract!vars
BY DEF Contract!vars, Item

\* A step that moves one copy.
LEMMA MoveStep ==
  ASSUME TypeOK, NEW c \in Copies, NEW p, msg' = Move(c, p), UNCHANGED sent
  PROVE  Contract!Move(c, p)
<1>1. ASSUME NEW d \in Copies
      PROVE  Item(d)' = IF d = c THEN [Item(d) EXCEPT !.place = p] ELSE Item(d)
  <2>1. msg[d] \in Message
    BY DEF TypeOK, ChainTypeOK
  <2>2. msg'[d] = IF d = c THEN [msg[d] EXCEPT !.place = p] ELSE msg[d]
    BY DEF Move, TypeOK, ChainTypeOK
  <2>3. QED
    BY <2>1, <2>2 DEF Item, Message
<1>2. [d \in Copies |-> Item(d)]' = [[d \in Copies |-> Item(d)] EXCEPT ![c].place = p]
  BY <1>1
<1>3. QED
  BY <1>2 DEF Contract!Move, Item

LEMMA QueuesKeepContract ==
  ASSUME IInv, Queues \/ QueueFault
  PROVE  Contract!Next \/ UNCHANGED Contract!vars
<1> USE DEF IInv
<1>1. PICK c \in Copies : \/ Consume(c) \/ RedriveToReplay(c) \/ DeadLetter(c) \/ Delete(c)
                          \/ Reappear(c) \/ DeleteLost(c)
  BY DEF Queues, QueueFault
<1>2. ASSUME NEW p, At(c, p) PROVE Contract!Is(c, p)
  BY <1>2 DEF At, Contract!Is
<1>3. CASE Consume(c)
  <2>1. Contract!Consume(c)
    BY <1>2, <1>3, MoveStep DEF Consume, Contract!Consume
  <2>2. QED
    BY <2>1 DEF Contract!Next, Contract!Copies, Copies
<1>4. CASE RedriveToReplay(c)
  <2>1. Contract!Park(c)
    BY <1>2, <1>4, MoveStep DEF RedriveToReplay, Contract!Park
  <2>2. QED
    BY <2>1 DEF Contract!Next, Contract!Copies, Copies
<1>5. CASE DeadLetter(c)
  <2>1. Contract!GiveUp(c)
    BY <1>2, <1>5, MoveStep DEF DeadLetter, Visible, Contract!GiveUp
  <2>2. QED
    BY <2>1 DEF Contract!Next, Contract!Copies, Copies
<1>6. CASE Delete(c) /\ msg[c].place = "replay"
  <2>1. At(c, "replay")
    BY <1>6 DEF At, TypeOK, ChainTypeOK, Copies
  <2>2. PICK d \in 1..sent : msg[d].parent = c
    BY <1>6 DEF Delete, AckedWereReplayed, Replayed, Children
  <2>3. d \in Copies
    BY <2>2, ConstantTypes DEF TypeOK, ChainTypeOK, Copies
  <2>4. Contract!Drop(c)
    BY <1>2, <1>6, <2>1, <2>2, <2>3, MoveStep DEF Delete, Contract!Drop
  <2>5. QED
    BY <2>4 DEF Contract!Next, Contract!Copies, Copies
<1>7. CASE (Delete(c) /\ msg[c].place # "replay") \/ Reappear(c) \/ DeleteLost(c)
  <2>1. UNCHANGED <<msg, sent>>
    BY <1>7 DEF Delete, Reappear, DeleteLost
  <2>2. QED
    BY <2>1, UnseenStep DEF Item
<1>8. QED
  BY <1>1, <1>3, <1>4, <1>5, <1>6, <1>7

\* Unless counts wrap, a replay is one more than what it replays, within a limit.
LEMMA NextCountIsNext ==
  ASSUME NoWrap, RInv, NEW c \in 1..sent
  PROVE  NextCount(c) = msg[c].count + 1
<1>1. msg[c].count \in Nat
  BY ConstantTypes DEF RInv, TypeOK, ChainTypeOK, Message, Copies
<1>2. msg[c].count \in StartCounts \/ WithinLimits(msg[c].count)
  BY DEF RInv, Descended
<1>3. msg[c].count + 1 < Modulus
  BY <1>1, <1>2, ConstantTypes, HandlerAssumption DEF NoWrap, WithinLimits
<1>4. QED
  BY <1>1, <1>3, ConstantTypes DEF NextCount

LEMMA AcceptKeepsContract ==
  ASSUME NoWrap, RInv, HInv, NEW e \in Envs, NEW call \in inv[e].calls, NEW c \in Copies,
         AcceptEntry(e, call, c)
  PROVE  Contract!Next
<1> USE DEF HInv
<1>1. /\ sent \in Nat /\ sent + 1 \in Copies /\ sent < MaxCopies /\ sent' = sent + 1
      /\ msg' = [msg EXCEPT ![sent + 1] = ReplayOf(c, call.destination)]
  BY ConstantTypes DEF AcceptEntry, TypeOK, ChainTypeOK, Copies
<1>2. c \in 1..sent /\ Parked(c) /\ msg[c].chain = call.destination
      /\ WithinLimits(NextCount(c))
  <2>1. c \in call.entries /\ c \in inv[e].batch
    BY DEF AcceptEntry, InHandParked
  <2>2. Routed(call)
    BY DEF RInv, EnvRouted
  <2>3. QED
    BY <1>1, <2>1, <2>2 DEF Routed, InHandParked, Copies
<1>3. NextCount(c) = msg[c].count + 1
  BY <1>2, NextCountIsNext
<1>4. msg[c].count \in Nat
  BY <1>1, <1>2, ConstantTypes DEF TypeOK, ChainTypeOK, Message, Copies
<1>5. \E m \in Limits : msg[c].count < m
  BY <1>2, <1>3, <1>4, HandlerAssumption DEF WithinLimits
<1>6. ASSUME NEW d \in Copies
      PROVE  Item(d)' = IF d = sent + 1
               THEN [place |-> "source", chain |-> msg[c].chain, body |-> msg[c].body,
                     count |-> msg[c].count + 1, parent |-> c]
               ELSE Item(d)
  <2>1. msg'[d] = IF d = sent + 1 THEN ReplayOf(c, call.destination) ELSE msg[d]
    BY <1>1 DEF TypeOK, ChainTypeOK
  <2>2. CASE d = sent + 1
    <3>1. msg'[d] = ReplayOf(c, call.destination)
      BY <2>1, <2>2
    <3>2. /\ msg'[d].place = "source" /\ msg'[d].chain = msg[c].chain
          /\ msg'[d].body = msg[c].body /\ msg'[d].count = msg[c].count + 1
          /\ msg'[d].parent = c
      BY <1>2, <1>3, <3>1 DEF ReplayOf
    <3>3. QED
      BY <2>2, <3>2 DEF Item
  <2>3. CASE d # sent + 1
    BY <2>1, <2>3 DEF Item
  <2>4. QED
    BY <2>2, <2>3
<1>7. [d \in Copies |-> Item(d)]' = [[d \in Copies |-> Item(d)] EXCEPT ![sent + 1] =
        [place |-> "source", chain |-> msg[c].chain, body |-> msg[c].body,
         count |-> msg[c].count + 1, parent |-> c]]
  BY <1>6
<1>8. Contract!Replay(c)
  <2> DEFINE item == [d \in Copies |-> Item(d)]
  <2>1. /\ item[c].place = msg[c].place /\ item[c].chain = msg[c].chain
        /\ item[c].body = msg[c].body /\ item[c].count = msg[c].count
    BY DEF Item
  <2>2. item' = [item EXCEPT ![sent + 1] =
          [place |-> "source", chain |-> item[c].chain, body |-> item[c].body,
           count |-> item[c].count + 1, parent |-> c]]
    BY <1>7, <2>1
  <2>3. /\ c <= sent /\ item[c].place \in {"replay", "dead", "deleted"}
        /\ \E m \in Limits : item[c].count < m
    BY <1>1, <1>2, <1>5, <2>1 DEF Parked
  <2>4. QED
    BY <1>1, <2>2, <2>3 DEF Contract!Replay, Item
<1>9. QED
  BY <1>8 DEF Contract!Next, Contract!Copies, Copies

\* Receiving, resolving, building, answering, responding and failing are unseen.
LEMMA HandlerUnseen ==
  ASSUME TypeOK,
         \/ \E e \in Envs :
              \/ \E B \in SUBSET Copies : Receive(e, B)
              \/ \E ch \in Chains : ResolveCached(e, ch) \/ ResolveRefreshed(e, ch)
                                    \/ ResolveFailed(e, ch)
              \/ Build(e)
              \/ \E call \in inv[e].calls :
                   \/ \E c \in Copies : RefuseEntry(e, call, c)
                   \/ CallAnswered(e, call) \/ CallFailed(e, call) \/ CallRetried(e, call)
              \/ Respond(e) \/ Crash(e)
         \/ \E e \in Envs : Recycle(e)
         \/ \E ch \in Chains, m \in Limits : Deploy(ch, m)
         \/ UNCHANGED vars
  PROVE  UNCHANGED Contract!vars
<1>1. CASE UNCHANGED <<msg, sent>>
  BY <1>1, UnseenStep DEF Item
<1>2. ASSUME NEW e \in Envs, NEW B \in SUBSET Copies, Receive(e, B)
      PROVE  UNCHANGED Contract!vars
  <2>1. \A c \in Copies : Item(c)' = Item(c)
    BY <1>2 DEF Receive, TypeOK, ChainTypeOK, Message, Item
  <2>2. QED
    BY <1>2, <2>1, UnseenStep DEF Receive
<1>3. QED
  BY <1>1, <1>2 DEF ResolveCached, ResolveRefreshed, ResolveFailed, Build, RefuseEntry,
     CallAnswered, CallFailed, CallRetried, Respond, Crash, Recycle, Deploy, vars

LEMMA InitKeepsContract == Init => Contract!Init
<1> SUFFICES ASSUME Init PROVE Contract!Init
  OBVIOUS
<1>1. PICK ch \in [1..Originals -> Chains], n \in [1..Originals -> StartCounts],
           s \in [1..Originals -> Shapes] :
        msg = [c \in Copies |-> IF c <= Originals THEN Produced(c, ch[c], n[c], s[c])
                                                  ELSE Unsent]
  BY DEF Init, ChainInit
<1>2. ASSUME NEW c \in Copies
      PROVE  IF c <= Originals
             THEN msg[c].place = "source" /\ msg[c].parent = 0 /\ msg[c].body = c
             ELSE msg[c].place = "unsent"
  BY <1>1 DEF Produced, Unsent
<1>3. QED
  BY <1>2 DEF Init, ChainInit, Contract!Init, Contract!Copies, Copies

\* The promise of ReplayContract holds for any number of queues, messages,
\* environments, failures and deployments: what an owner sees is a message being
\* consumed, parked, sent to its own queue once more within a limit, given up, or
\* deleted after it was sent (lib.rs:40-129, replay.rs:45-174).  The hypotheses are
\* the findings missing_id and wrapped_count.
THEOREM ContractKept == NoWrap /\ "noId" \notin Shapes /\ Spec => KeepsContract
<1> SUFFICES ASSUME NoWrap, "noId" \notin Shapes PROVE Spec => KeepsContract
  OBVIOUS
<1>1. Init => Contract!Init
  BY InitKeepsContract
<1>2. IInv /\ RInv /\ HInv /\ [Next]_vars => [Contract!Next]_(Contract!vars)
  <2> SUFFICES ASSUME IInv, RInv, HInv, [Next]_vars
               PROVE  Contract!Next \/ UNCHANGED Contract!vars
    OBVIOUS
  <2>1. TypeOK
    BY DEF HInv
  <2>2. CASE Next
    BY <2>1, <2>2, NextCases, QueuesKeepContract, AcceptKeepsContract, HandlerUnseen
  <2>3. CASE UNCHANGED vars
    BY <2>1, <2>3, HandlerUnseen
  <2>4. QED
    BY <2>2, <2>3
<1>3. Spec => []IInv
  BY Accounts
<1>4. QED
  BY <1>1, <1>2, <1>3, Routing, Parking, PTL DEF Spec, KeepsContract, Contract!Spec
=============================================================================
