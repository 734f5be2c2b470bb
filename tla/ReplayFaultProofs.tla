-------------------------- MODULE ReplayFaultProofs --------------------------
(***************************************************************************)
(* What failures can cost: a second replay, or an early dead letter, takes *)
(* failures to happen, for every value of the constants of ReplayHandler.  *)
(*                                                                         *)
(* Every replay and every receive is charged to a failure, except the ones *)
(* that the message is still on course with.  A message is on course while *)
(* it is hidden and an invocation that has not given it up, or the delete  *)
(* that follows, is still to come: only a failure ends that, and until it  *)
(* ends nothing else receives the message.                                 *)
(***************************************************************************)
EXTENDS ReplayContractProofs, FiniteSetTheorems

\* The invocation of e will have c deleted if nothing fails.
OnTrack(e, c) ==
  /\ c \in inv[e].batch /\ c \notin inv[e].failures
  /\ \A call \in inv[e].calls : c \notin call.refused

OnCourse(c) == c \in hidden /\ (c \in acked \/ \E e \in Envs : OnTrack(e, c))

\* The invocations that may still make a replay of c.
Working(e, c) ==
  /\ c \in inv[e].batch
  /\ inv[e].phase = "resolving" \/ \E call \in inv[e].calls : c \in call.left

Chances(c) == {e \in Envs : Working(e, c)}

\* The replays of c that were made and that may still be made.
Tally(c) == Cardinality(Children(c)) + Cardinality(Chances(c))

\* One for each failure, and one that is on course.
Within(n, c) == n <= faults + 1 /\ (~OnCourse(c) => n <= faults)

\* The handler has no reason of its own to report c as a failure.
Deserving(c) ==
  /\ msg[c].shape = "plain" /\ deploys = 0 /\ registry[msg[c].chain] # NoConfig
  /\ msg[c].count < registry[msg[c].chain].maxAttempts

Receipts(c) ==
  Deserving(c) =>
    /\ msg[c].place \in {"source", "replay"} => Within(msg[c].receives, c)
    /\ msg[c].place = "dead" => faults >= MaxReceive

ReplaysCounted(c) ==
  /\ IsFiniteSet(Chances(c))
  /\ Tally(c) <= faults + 1
  /\ msg[c].place = "replay" => Within(Tally(c), c)
  /\ ~Parked(c) => Children(c) = {}

Counted(c) == Receipts(c) /\ ReplaysCounted(c)

\* Entries are in one call at most, and what was resolved is what is registered.
Orderly(e) ==
  /\ inv[e].phase = "idle" => inv[e].batch = {}
  /\ inv[e].phase # "sending" => inv[e].calls = {}
  /\ \A k, l \in inv[e].calls : k = l \/ k.entries \cap l.entries = {}
  /\ deploys = 0 =>
       /\ cache[e] # Cold => cache[e] = registry
       /\ \A ch \in Chains : inv[e].resolved[ch] \in {Unresolved, registry[ch]}

FInv == /\ RInv /\ HInv
        /\ \A e \in Envs : Orderly(e)
        /\ \A c \in acked : Parked(c)
        /\ \A c \in 1..sent : Counted(c)

-----------------------------------------------------------------------------
LEMMA ChildrenFinite ==
  ASSUME TypeOK, NEW c PROVE IsFiniteSet(Children(c)) /\ Cardinality(Children(c)) \in Nat
<1>1. IsFiniteSet(1..sent)
  BY FS_Interval DEF TypeOK, ChainTypeOK
<1>2. Children(c) \in SUBSET (1..sent)
  BY DEF Children
<1>3. IsFiniteSet(Children(c))
  BY <1>1, <1>2, FS_Subset
<1>4. QED
  BY <1>3, FS_CardinalityType

\* How a step that leaves message c alone may change what is still to come for it:
\* a failure pays for what goes off course or is tried again; an invocation that
\* gives up a message it has no reason to send makes no replay of it.
Paid(e, c) ==
  \/ Chances(c)' \subseteq Chances(c) /\ (OnCourse(c) => OnCourse(c)')
  \/ Chances(c)' \subseteq Chances(c) /\ faults' = faults + 1
  \/ /\ Chances(c)' \subseteq Chances(c) \cup {e} /\ faults' = faults + 1
     /\ OnCourse(c) => OnCourse(c)'
  \/ Chances(c)' \subseteq Chances(c) \ {e} /\ e \in Chances(c) /\ ~Deserving(c)'

\* The sizes of the two sets of chances in each of those cases.
LEMMA ChancesCount ==
  ASSUME NEW S, NEW T, NEW e, IsFiniteSet(S), T \subseteq S \cup {e}
  PROVE  /\ IsFiniteSet(T) /\ Cardinality(T) \in Nat /\ Cardinality(S) \in Nat
         /\ Cardinality(T) <= Cardinality(S) + 1
         /\ T \subseteq S => Cardinality(T) <= Cardinality(S)
         /\ T \subseteq S \ {e} /\ e \in S => Cardinality(T) <= Cardinality(S) - 1
<1>1. IsFiniteSet(S \cup {e}) /\ Cardinality(S \cup {e}) \in {Cardinality(S), Cardinality(S) + 1}
  BY FS_AddElement
<1>2. IsFiniteSet(T) /\ Cardinality(T) <= Cardinality(S \cup {e})
  BY <1>1, FS_Subset
<1>3. Cardinality(S) \in Nat /\ Cardinality(T) \in Nat
  BY <1>2, FS_CardinalityType
<1>4. T \subseteq S => Cardinality(T) <= Cardinality(S)
  BY FS_Subset
<1>5. ASSUME T \subseteq S \ {e}, e \in S PROVE Cardinality(T) <= Cardinality(S) - 1
  <2>1. IsFiniteSet(S \ {e}) /\ Cardinality(S \ {e}) = Cardinality(S) - 1
    BY <1>5, FS_RemoveElement
  <2>2. QED
    BY <1>5, <2>1, FS_Subset
<1>6. QED
  BY <1>1, <1>2, <1>3, <1>4, <1>5

LEMMA PaidCounted ==
  ASSUME TypeOK, TypeOK', NEW c \in 1..sent, Counted(c), NEW e, Paid(e, c),
         msg'[c] = msg[c], Children(c)' = Children(c),
         faults' \in {faults, faults + 1}, Deserving(c)' => Deserving(c)
  PROVE  Counted(c)'
<1>1. faults \in Nat /\ msg[c].receives \in Nat /\ MaxReceive \in Nat
  BY ConstantTypes DEF TypeOK, ChainTypeOK, Message, Copies
<1>2. Cardinality(Children(c)) \in Nat
  BY ChildrenFinite
<1>3. IsFiniteSet(Chances(c)) /\ Chances(c)' \subseteq Chances(c) \cup {e}
  BY DEF Counted, ReplaysCounted, Paid
<1> DEFINE p == Cardinality(Children(c))
           q == Cardinality(Chances(c))
           r == Cardinality(Chances(c)')
<1>4. /\ IsFiniteSet(Chances(c)') /\ q \in Nat /\ r \in Nat /\ r <= q + 1
      /\ Chances(c)' \subseteq Chances(c) => r <= q
      /\ Chances(c)' \subseteq Chances(c) \ {e} /\ e \in Chances(c) => r <= q - 1
  BY <1>3, ChancesCount
<1>5. Tally(c) = p + q /\ Tally(c)' = p + r
  BY DEF Tally
<1>6. p \in Nat
  BY <1>2
<1> HIDE DEF p, q, r
<1>7. /\ Tally(c)' <= faults' + 1
      /\ Within(Tally(c), c) => Within(Tally(c), c)'
  <2>1. /\ Tally(c) \in Nat /\ Tally(c)' \in Nat /\ Tally(c) <= faults + 1
        /\ Tally(c)' <= Tally(c) + 1 /\ faults' \in Nat /\ faults <= faults'
        /\ Chances(c)' \subseteq Chances(c) => Tally(c)' <= Tally(c)
        /\ Chances(c)' \subseteq Chances(c) \ {e} /\ e \in Chances(c) => Tally(c)' <= Tally(c) - 1
    BY <1>1, <1>4, <1>5, <1>6 DEF Counted, ReplaysCounted
  <2>2. CASE Chances(c)' \subseteq Chances(c) /\ (OnCourse(c) => OnCourse(c)')
    BY <1>1, <2>1, <2>2 DEF Within
  <2>3. CASE Chances(c)' \subseteq Chances(c) /\ faults' = faults + 1
    BY <1>1, <2>1, <2>3 DEF Within
  <2>4. CASE faults' = faults + 1 /\ (OnCourse(c) => OnCourse(c)')
    BY <1>1, <2>1, <2>4 DEF Within
  <2>5. CASE Chances(c)' \subseteq Chances(c) \ {e} /\ e \in Chances(c)
    BY <1>1, <2>1, <2>5 DEF Within
  <2>6. QED
    BY <2>2, <2>3, <2>4, <2>5 DEF Paid
<1>8. ReplaysCounted(c)'
  BY <1>4, <1>7 DEF Counted, ReplaysCounted, Parked
<1>9. Receipts(c)'
  BY <1>1 DEF Counted, Receipts, Within, Paid
<1>10. QED
  BY <1>8, <1>9 DEF Counted

-----------------------------------------------------------------------------
(* Steps of one environment that leave the messages alone *)

LEMMA OrderlyStays ==
  ASSUME NEW e \in Envs, Orderly(e), inv'[e] = inv[e], cache'[e] = cache[e],
         UNCHANGED <<registry, deploys>>
  PROVE  Orderly(e)'
BY DEF Orderly

\* Only the environment that steps changes its chances and what is on track there.
LEMMA OthersWork ==
  ASSUME NEW e \in Envs, \A f \in Envs : f # e => inv'[f] = inv[f], NEW c
  PROVE  /\ Chances(c)' \subseteq Chances(c) \cup {e}
         /\ ~Working(e, c)' => Chances(c)' \subseteq Chances(c) \ {e}
         /\ (Working(e, c)' => Working(e, c)) => Chances(c)' \subseteq Chances(c)
         /\ \A f \in Envs : f # e => (OnTrack(f, c)' <=> OnTrack(f, c))
BY DEF Chances, Working, OnTrack

LEMMA StepPaid ==
  ASSUME FInv, RInv', HInv', UNCHANGED <<msg, sent, hidden, registry>>, acked \subseteq acked',
         deploys' = deploys \/ deploys' # 0, faults' \in {faults, faults + 1},
         \A c \in acked' : Parked(c), \A e \in Envs : Orderly(e)',
         NEW e, \A c \in 1..sent : Paid(e, c)
  PROVE  FInv'
<1>1. ASSUME NEW c \in 1..sent PROVE Counted(c)'
  <2>1. TypeOK /\ TypeOK' /\ Counted(c) /\ Paid(e, c)
    BY DEF FInv, HInv
  <2>2. msg'[c] = msg[c] /\ Children(c)' = Children(c)
    BY DEF Children
  <2>3. Deserving(c)' => Deserving(c)
    BY DEF Deserving
  <2>4. QED
    BY <2>1, <2>2, <2>3, PaidCounted
<1>2. \A c \in acked' : Parked(c)'
  BY DEF Parked
<1>3. QED
  BY <1>1, <1>2 DEF FInv

\* What such a step of an environment has to show: it takes no message up, and
\* what it loses track of is acknowledged or paid for with a failure.
LEMMA QuietPaid ==
  ASSUME FInv, RInv', HInv', UNCHANGED <<msg, sent, hidden, registry, deploys>>,
         acked \subseteq acked', \A c \in acked' : Parked(c), faults' \in {faults, faults + 1},
         NEW e \in Envs, Orderly(e)',
         \A f \in Envs : f # e => inv'[f] = inv[f] /\ cache'[f] = cache[f],
         \A c \in 1..sent : Working(e, c)' => Working(e, c),
         \A c \in 1..sent : OnTrack(e, c) => OnTrack(e, c)' \/ c \in acked' \/ faults' = faults + 1
  PROVE  FInv'
<1>1. ASSUME NEW f \in Envs PROVE Orderly(f)'
  BY OrderlyStays DEF FInv
<1>2. ASSUME NEW c \in 1..sent PROVE Paid(e, c)
  <2>1. /\ Chances(c)' \subseteq Chances(c)
        /\ \A f \in Envs : f # e => (OnTrack(f, c)' <=> OnTrack(f, c))
    BY OthersWork
  <2>2. CASE faults' = faults + 1
    BY <2>1, <2>2 DEF Paid
  <2>3. CASE OnTrack(e, c) => OnTrack(e, c)' \/ c \in acked'
    <3>1. OnCourse(c) => OnCourse(c)'
      BY <2>1, <2>3 DEF OnCourse
    <3>2. QED
      BY <2>1, <3>1 DEF Paid
  <2>4. QED
    BY <2>2, <2>3
<1>3. QED
  BY <1>1, <1>2, StepPaid

LEMMA ResolvePaid ==
  ASSUME FInv, RInv', HInv', NEW e \in Envs, NEW ch \in Chains,
         ResolveCached(e, ch) \/ ResolveRefreshed(e, ch) \/ ResolveFailed(e, ch)
  PROVE  FInv'
<1> USE DEF FInv, HInv
<1>1. /\ UNCHANGED <<msg, sent, hidden, acked, registry, deploys>>
      /\ faults' \in {faults, faults + 1}
      /\ \A f \in Envs : f # e => inv'[f] = inv[f] /\ cache'[f] = cache[f]
  BY DEF ResolveCached, ResolveRefreshed, ResolveFailed, Fault, TypeOK
<1>2. inv[e] \in Invocation /\ Orderly(e) /\ inv[e].phase = "resolving"
  BY DEF TypeOK, ResolveCached, ResolveRefreshed, ResolveFailed, Pending
<1>3. CASE ResolveFailed(e, ch)
  <2>1. inv'[e] = Idle /\ faults' = faults + 1 /\ cache'[e] = cache[e]
    BY <1>3 DEF ResolveFailed, Fault, TypeOK
  <2>2. Orderly(e)' /\ \A c \in 1..sent : ~Working(e, c)'
    BY <1>1, <1>2, <2>1 DEF Orderly, Idle, NothingResolved, Working
  <2>3. QED
    BY <1>1, <2>1, <2>2, QuietPaid
<1>4. CASE ResolveCached(e, ch) \/ ResolveRefreshed(e, ch)
  <2>1. PICK v : /\ v = registry[ch] \/ (cache[e] # Cold /\ v = cache[e][ch])
                 /\ inv' = [inv EXCEPT ![e].resolved[ch] = v]
    <3>1. CASE ResolveCached(e, ch)
      <4>1. cache[e] # Cold /\ inv' = [inv EXCEPT ![e].resolved[ch] = cache[e][ch]]
        BY <3>1 DEF ResolveCached
      <4>2. QED
        BY <4>1, Zenon
    <3>2. CASE ResolveRefreshed(e, ch)
      <4>1. inv' = [inv EXCEPT ![e].resolved[ch] = registry[ch]]
        BY <3>2 DEF ResolveRefreshed
      <4>2. QED
        BY <4>1, Zenon
    <3>3. QED
      BY <1>4, <3>1, <3>2, Zenon
  <2>2. cache'[e] = cache[e] \/ cache'[e] = registry
    BY <1>4 DEF ResolveCached, ResolveRefreshed, TypeOK
  <2>3. /\ inv'[e].batch = inv[e].batch /\ inv'[e].calls = inv[e].calls
        /\ inv'[e].phase = inv[e].phase /\ inv'[e].failures = inv[e].failures
        /\ inv'[e].resolved = [inv[e].resolved EXCEPT ![ch] = v]
    BY <1>2, <2>1 DEF TypeOK, Invocation
  <2>4. ASSUME deploys = 0, NEW k \in Chains
        PROVE  inv'[e].resolved[k] \in {Unresolved, registry[k]}
    <3>1. inv'[e].resolved[k] = IF k = ch THEN v ELSE inv[e].resolved[k]
      BY <1>2, <2>3 DEF Invocation
    <3>2. QED
      BY <1>2, <2>1, <2>4, <3>1 DEF Orderly
  <2>5. Orderly(e)'
    BY <1>1, <1>2, <2>2, <2>3, <2>4 DEF Orderly
  <2>6. \A c \in 1..sent : (Working(e, c)' <=> Working(e, c)) /\ (OnTrack(e, c)' <=> OnTrack(e, c))
    BY <2>3 DEF Working, OnTrack
  <2>7. QED
    BY <1>1, <2>5, <2>6, QuietPaid
<1>5. QED
  BY <1>3, <1>4

LEMMA EndPaid ==
  ASSUME FInv, RInv', HInv', NEW e \in Envs, Respond(e) \/ Crash(e) PROVE FInv'
<1> USE DEF FInv, HInv
<1>1. /\ UNCHANGED <<msg, sent, hidden, registry, deploys>> /\ inv'[e] = Idle
      /\ faults' \in {faults, faults + 1} /\ cache'[e] \in {cache[e], Cold}
      /\ \A f \in Envs : f # e => inv'[f] = inv[f] /\ cache'[f] = cache[f]
  BY DEF Respond, Crash, Fault, TypeOK
<1>2. Orderly(e)' /\ \A c \in 1..sent : ~Working(e, c)'
  BY <1>1 DEF Orderly, Idle, NothingResolved, Working
<1>3. CASE Crash(e)
  <2>1. faults' = faults + 1 /\ UNCHANGED acked
    BY <1>3 DEF Crash, Fault
  <2>2. QED
    BY <1>1, <1>2, <2>1, QuietPaid
<1>4. CASE Respond(e)
  <2>1. acked' = acked \cup (inv[e].batch \ inv[e].failures)
    BY <1>4 DEF Respond
  <2>2. \A c \in acked' : Parked(c)
    BY <2>1 DEF InHandParked
  <2>3. \A c \in 1..sent : OnTrack(e, c) => c \in acked'
    BY <2>1 DEF OnTrack
  <2>4. acked \subseteq acked' /\ \A f \in Envs : f # e => cache'[f] = cache[f]
    BY <1>1, <2>1
  <2> HIDE DEF FInv, HInv
  <2>5. QED
    BY <1>1, <1>2, <2>2, <2>3, <2>4, QuietPaid
<1>5. QED
  BY <1>3, <1>4

\* Calls change what they have left and refused, never their entries.
LEMMA ReplaceOrderly ==
  ASSUME TypeOK, NEW e \in Envs, Orderly(e), NEW old \in inv[e].calls, NEW new,
         new.entries = old.entries, inv' = Replace(e, old, new),
         UNCHANGED <<registry, cache, deploys>>
  PROVE  Orderly(e)'
<1>1. /\ inv'[e].phase = inv[e].phase /\ inv'[e].batch = inv[e].batch
      /\ inv'[e].calls = (inv[e].calls \ {old}) \cup {new}
  BY ReplaceFields
<1>2. inv'[e].resolved = inv[e].resolved
  BY DEF Replace, TypeOK, Invocation
<1>3. \A k, l \in inv'[e].calls : k = l \/ k.entries \cap l.entries = {}
  BY <1>1 DEF Orderly
<1>4. inv[e].phase = "sending"
  BY DEF Orderly
<1>5. QED
  BY <1>1, <1>2, <1>3, <1>4 DEF Orderly

LEMMA ReturnPaid ==
  ASSUME FInv, RInv', HInv', NEW e \in Envs, NEW call \in inv[e].calls,
         CallAnswered(e, call) \/ CallFailed(e, call)
  PROVE  FInv'
<1> USE DEF FInv, HInv
<1>1. PICK failed : /\ Return(e, call, failed)
                    /\ (failed = call.refused /\ UNCHANGED faults) \/ faults' = faults + 1
  BY DEF CallAnswered, CallFailed, Fault
<1>2. UNCHANGED <<msg, sent, hidden, acked, registry, cache, deploys>>
  BY DEF CallAnswered, CallFailed
<1>3. inv[e] \in Invocation /\ Orderly(e)
  BY DEF TypeOK
<1>4. /\ inv'[e].phase = inv[e].phase /\ inv'[e].batch = inv[e].batch
      /\ inv'[e].resolved = inv[e].resolved
      /\ inv'[e].calls = inv[e].calls \ {call}
      /\ inv'[e].failures = inv[e].failures \cup failed
      /\ \A f \in Envs : f # e => inv'[f] = inv[f] /\ cache'[f] = cache[f]
  BY <1>1, <1>2, <1>3 DEF Return, TypeOK, Invocation
<1>5. Orderly(e)'
  BY <1>2, <1>3, <1>4 DEF Orderly
<1>6. \A c \in 1..sent : Working(e, c)' => Working(e, c)
  BY <1>4 DEF Working
<1>7. failed = call.refused => \A c \in 1..sent : OnTrack(e, c) => OnTrack(e, c)'
  BY <1>4 DEF OnTrack
<1>8. faults' \in {faults, faults + 1}
  BY <1>1
<1>9. QED
  BY <1>1, <1>2, <1>4, <1>5, <1>6, <1>7, <1>8, QuietPaid

LEMMA RefusePaid ==
  ASSUME FInv, RInv', HInv', NEW e \in Envs, NEW call \in inv[e].calls, NEW c \in Copies,
         RefuseEntry(e, call, c)
  PROVE  FInv'
<1> USE DEF FInv, HInv
<1> DEFINE new == [Decided(call, c) EXCEPT !.refused = @ \cup {c}]
<1>1. call \in Call /\ inv' = Replace(e, call, new) /\ faults' = faults + 1
      /\ UNCHANGED <<msg, sent, hidden, acked, registry, cache, deploys>>
  BY DEF RefuseEntry, Fault, TypeOK, Invocation
<1>2. new.entries = call.entries /\ new.left \subseteq call.left
  BY <1>1 DEF Decided, Call
<1> HIDE DEF new
<1>3. Orderly(e)'
  BY <1>1, <1>2, ReplaceOrderly
<1>4. /\ inv'[e].phase = inv[e].phase /\ inv'[e].batch = inv[e].batch
      /\ inv'[e].calls = (inv[e].calls \ {call}) \cup {new}
      /\ \A f \in Envs : f # e => inv'[f] = inv[f] /\ cache'[f] = cache[f]
  BY <1>1, ReplaceFields
<1>5. \A d \in 1..sent : Working(e, d)' => Working(e, d)
  BY <1>2, <1>4 DEF Working
<1>6. QED
  BY <1>1, <1>3, <1>4, <1>5, QuietPaid

\* A repeated call may replay all its entries once more, at the price of the failure.
LEMMA RetryPaid ==
  ASSUME FInv, RInv', HInv', NEW e \in Envs, NEW call \in inv[e].calls, CallRetried(e, call)
  PROVE  FInv'
<1> USE DEF FInv, HInv
<1> DEFINE new == NewCall(call.destination, call.entries)
<1>1. /\ inv' = Replace(e, call, new) /\ faults' = faults + 1
      /\ UNCHANGED <<msg, sent, hidden, acked, registry, cache, deploys>>
  BY DEF CallRetried, Fault
<1>2. new.entries = call.entries /\ new.refused = {}
  BY DEF NewCall
<1> HIDE DEF new
<1>3. Orderly(e)'
  BY <1>1, <1>2, ReplaceOrderly
<1>4. /\ inv'[e].batch = inv[e].batch /\ inv'[e].failures = inv[e].failures
      /\ inv'[e].calls = (inv[e].calls \ {call}) \cup {new}
      /\ \A f \in Envs : f # e => inv'[f] = inv[f]
  BY <1>1, ReplaceFields
<1>5. ASSUME NEW c \in 1..sent PROVE Paid(e, c)
  <2>1. OnTrack(e, c) => OnTrack(e, c)'
    BY <1>2, <1>4 DEF OnTrack
  <2>2. /\ Chances(c)' \subseteq Chances(c) \cup {e}
        /\ \A f \in Envs : f # e => (OnTrack(f, c)' <=> OnTrack(f, c))
    BY <1>4, OthersWork
  <2>3. OnCourse(c) => OnCourse(c)'
    BY <1>1, <2>1, <2>2 DEF OnCourse
  <2>4. QED
    BY <1>1, <2>2, <2>3 DEF Paid
<1>6. \A f \in Envs : Orderly(f)'
  BY <1>1, <1>3, <1>4, OrderlyStays
<1>7. faults' \in {faults, faults + 1}
  BY <1>1
<1>8. QED
  BY <1>1, <1>5, <1>6, <1>7, StepPaid

\* Building the requests: what has attempts left is sent, so nothing that goes off
\* course had a reason to be.
LEMMA DeservingIsSent ==
  ASSUME FInv, NEW e \in Envs, NEW c \in inv[e].batch, Deserving(c),
         \A ch \in ToResolve(e) : inv[e].resolved[ch] # Unresolved
  PROVE  c \in Sends(e)
<1> USE DEF FInv, HInv
<1> DEFINE setting == inv[e].resolved[msg[c].chain]
<1>1. inv[e] \in Invocation /\ Orderly(e)
  BY DEF TypeOK
<1>2. c \in Copies /\ msg[c] \in Message
  BY <1>1 DEF Invocation, TypeOK, ChainTypeOK
<1>3. msg[c].chain \in Chains /\ msg[c].count \in Nat
  BY <1>2 DEF Message
<1>4. setting = registry[msg[c].chain]
  <2>1. msg[c].chain \in ToResolve(e)
    BY DEF ToResolve, Deserving
  <2>2. setting # Unresolved
    BY <2>1
  <2>3. setting \in {Unresolved, registry[msg[c].chain]}
    BY <1>1, <1>3 DEF Orderly, Deserving
  <2>4. QED
    BY <2>2, <2>3
<1>5. setting \in Setting
  BY <1>3, <1>4 DEF TypeOK, Registered, Deserving
<1>6. setting.maxAttempts \in Nat /\ msg[c].count < setting.maxAttempts
  BY <1>4, <1>5, HandlerAssumption DEF Setting, Deserving
<1> HIDE DEF setting
<1>7. NextCount(c) <= setting.maxAttempts
  <2>1. NextCount(c) <= msg[c].count + 1
    <3>1. CASE msg[c].count + 1 < Modulus
      BY <1>3, <3>1, ConstantTypes DEF NextCount
    <3>2. CASE msg[c].count + 1 >= Modulus
      <4>1. NextCount(c) < Modulus
        BY <1>3, ConstantTypes DEF NextCount
      <4>2. NextCount(c) \in Nat
        BY <1>2, NextCountType
      <4>3. QED
        BY <1>3, <3>2, <4>1, <4>2, ConstantTypes
    <3>3. QED
      BY <1>3, <3>1, <3>2, ConstantTypes
  <2>2. NextCount(c) \in Nat
    BY <1>2, NextCountType
  <2>3. QED
    BY <1>3, <1>6, <2>1, <2>2
<1>8. Replayable(c, setting)
  BY <1>5, <1>7, HandlerAssumption DEF Replayable, Deserving
<1>9. QED
  BY <1>8 DEF setting, Sends, Deserving

LEMMA BuildPaid == ASSUME FInv, RInv', HInv', NEW e \in Envs, Build(e) PROVE FInv'
<1> USE DEF FInv, HInv
<1>1. PICK P \in Chunks(e) :
        inv' = [inv EXCEPT
          ![e].phase = "sending",
          ![e].failures = Rejected(e),
          ![e].calls = {NewCall(Destination(e, CHOOSE c \in C : TRUE), C) : C \in P}]
  BY DEF Build
<1>2. /\ inv[e].phase = "resolving" /\ \A ch \in ToResolve(e) : inv[e].resolved[ch] # Unresolved
      /\ UNCHANGED <<msg, sent, hidden, acked, registry, cache, faults, deploys>>
  BY DEF Build
<1>3. inv[e] \in Invocation /\ Orderly(e)
  BY DEF TypeOK
<1>4. /\ inv'[e].phase = "sending" /\ inv'[e].batch = inv[e].batch
      /\ inv'[e].resolved = inv[e].resolved /\ inv'[e].failures = Rejected(e)
      /\ inv'[e].calls = {NewCall(Destination(e, CHOOSE c \in C : TRUE), C) : C \in P}
      /\ \A f \in Envs : f # e => inv'[f] = inv[f]
  BY <1>1, <1>3 DEF TypeOK, Invocation
<1>5. \A call \in inv'[e].calls :
        \E C \in P : call.entries = C /\ call.left = C /\ call.refused = {}
                    /\ call = NewCall(Destination(e, CHOOSE c \in C : TRUE), C)
  BY <1>4 DEF NewCall
<1>6. \A C, D \in P : C \subseteq Sends(e) /\ (C = D \/ C \cap D = {})
  BY DEF Chunks
<1>7. Orderly(e)'
  <2>1. \A k, l \in inv'[e].calls : k = l \/ k.entries \cap l.entries = {}
    BY <1>5, <1>6
  <2>2. QED
    BY <1>2, <1>3, <1>4, <2>1 DEF Orderly
<1>8. ASSUME NEW c \in 1..sent PROVE Paid(e, c)
  <2>1. /\ Chances(c)' \subseteq Chances(c) \cup {e}
        /\ ~Working(e, c)' => Chances(c)' \subseteq Chances(c) \ {e}
        /\ (Working(e, c)' => Working(e, c)) => Chances(c)' \subseteq Chances(c)
        /\ \A f \in Envs : f # e => (OnTrack(f, c)' <=> OnTrack(f, c))
    BY <1>4, OthersWork
  <2>2. Working(e, c)' => c \in Sends(e)
    BY <1>4, <1>5, <1>6 DEF Working
  <2>3. c \in inv[e].batch <=> Working(e, c)
    BY <1>2 DEF Working
  <2>4. Sends(e) \subseteq inv[e].batch
    BY DEF Sends
  <2>5. Chances(c)' \subseteq Chances(c)
    BY <2>1, <2>2, <2>3, <2>4
  <2>6. CASE OnTrack(e, c) => OnTrack(e, c)'
    <3>1. OnCourse(c) => OnCourse(c)'
      BY <1>2, <2>1, <2>6 DEF OnCourse
    <3>2. QED
      BY <2>5, <3>1 DEF Paid
  <2>7. CASE OnTrack(e, c) /\ ~OnTrack(e, c)'
    <3>1. c \in inv[e].batch /\ c \in Rejected(e)
      BY <1>4, <1>5, <2>7 DEF OnTrack
    <3>2. c \notin Sends(e)
      BY <3>1 DEF Rejected
    <3>3. ~Deserving(c)
      BY <1>2, <3>1, <3>2, DeservingIsSent
    <3>4. ~Deserving(c)'
      BY <1>2, <3>3 DEF Deserving
    <3>5. e \in Chances(c) /\ Chances(c)' \subseteq Chances(c) \ {e}
      BY <2>1, <2>2, <2>3, <3>1, <3>2 DEF Chances
    <3>6. QED
      BY <3>4, <3>5 DEF Paid
  <2>8. QED
    BY <2>6, <2>7
<1>9. \A f \in Envs : Orderly(f)'
  BY <1>2, <1>4, <1>7, OrderlyStays
<1>10. faults' \in {faults, faults + 1}
  BY <1>2
<1>11. QED
  BY <1>2, <1>8, <1>9, <1>10, StepPaid

LEMMA EnvironmentPaid ==
  ASSUME FInv, RInv', HInv',
         \/ \E e \in Envs : Recycle(e)
         \/ \E ch \in Chains, m \in Limits : Deploy(ch, m)
         \/ UNCHANGED vars
  PROVE  FInv'
<1> USE DEF FInv, HInv
<1>1. UNCHANGED <<msg, sent, hidden, acked, inv, faults>>
  BY DEF Recycle, Deploy, vars
<1>2. /\ UNCHANGED <<registry, deploys>> \/ deploys' # 0
      /\ \A e \in Envs : cache'[e] = cache[e] \/ cache'[e] = Cold
  BY DEF Recycle, Deploy, vars, TypeOK
<1>3. \A e \in Envs : Orderly(e)'
  BY <1>1, <1>2 DEF Orderly
<1>4. ASSUME NEW c \in 1..sent PROVE Counted(c)'
  <2>1. Chances(c)' = Chances(c) /\ (OnCourse(c)' <=> OnCourse(c)) /\ Children(c)' = Children(c)
    BY <1>1 DEF Chances, Working, OnCourse, OnTrack, Children
  <2>2. Paid({}, c)
    BY <2>1 DEF Paid
  <2>3. Deserving(c)' => Deserving(c)
    BY <1>1, <1>2 DEF Deserving
  <2>4. QED
    BY <1>1, <2>1, <2>2, <2>3, PaidCounted
<1>5. QED
  BY <1>1, <1>3, <1>4 DEF Parked

-----------------------------------------------------------------------------
(* Steps that change messages *)

\* A received message was visible, so it was not on course: its receive is the one
\* that is not charged to a failure.
LEMMA ReceivePaid ==
  ASSUME FInv, RInv', HInv', NEW e \in Envs, NEW B \in SUBSET Copies, Receive(e, B)
  PROVE  FInv'
<1> USE DEF FInv, HInv
<1>1. /\ UNCHANGED <<sent, acked, registry, cache, faults, deploys>> /\ hidden' = hidden \cup B
      /\ inv[e].phase = "idle" /\ \A c \in B : Visible(c) /\ msg[c].receives < MaxReceive
  BY DEF Receive
<1>2. /\ inv'[e].phase = "resolving" /\ inv'[e].batch = B /\ inv'[e].failures = {}
      /\ inv'[e].calls = {} /\ inv'[e].resolved = NothingResolved
      /\ \A f \in Envs : f # e => inv'[f] = inv[f]
  BY DEF Receive, TypeOK, Idle
<1>3. \A c \in Copies : /\ msg'[c].place = msg[c].place /\ msg'[c].parent = msg[c].parent
                        /\ msg'[c].chain = msg[c].chain /\ msg'[c].count = msg[c].count
                        /\ msg'[c].shape = msg[c].shape
                        /\ msg'[c].receives =
                             IF c \in B THEN msg[c].receives + 1 ELSE msg[c].receives
                        /\ c \notin B => msg'[c] = msg[c]
  BY DEF Receive, TypeOK, ChainTypeOK, Message
<1>4. 1..sent \subseteq Copies /\ sent' = sent
  BY <1>1, ConstantTypes DEF TypeOK, ChainTypeOK, Copies
<1>5. ASSUME NEW c \in 1..sent
      PROVE  /\ Children(c)' = Children(c) /\ (Deserving(c)' => Deserving(c))
             /\ (Parked(c)' <=> Parked(c))
  BY <1>1, <1>3, <1>4 DEF Children, Deserving, Parked
<1>6. inv[e].batch = {}
  BY <1>1 DEF Orderly
<1>7. ASSUME NEW c \in 1..sent, c \notin B PROVE Counted(c)'
  <2>1. ~Working(e, c)' /\ ~OnTrack(e, c)
    BY <1>2, <1>6, <1>7 DEF Working, OnTrack
  <2>2. /\ Chances(c)' \subseteq Chances(c)
        /\ \A f \in Envs : f # e => (OnTrack(f, c)' <=> OnTrack(f, c))
    BY <1>2, <2>1, OthersWork
  <2>3. OnCourse(c) => OnCourse(c)'
    BY <1>1, <2>1, <2>2 DEF OnCourse
  <2>4. Paid(e, c)
    BY <2>2, <2>3 DEF Paid
  <2>5. faults' \in {faults, faults + 1} /\ msg'[c] = msg[c]
    BY <1>1, <1>3, <1>4, <1>7
  <2>6. QED
    BY <1>5, <2>4, <2>5, PaidCounted
<1>8. ASSUME NEW c \in 1..sent, c \in B PROVE Counted(c)'
  <2>1. ~OnCourse(c) /\ msg[c].place = "replay" /\ faults \in Nat /\ msg[c].receives \in Nat
        /\ msg'[c].receives = msg[c].receives + 1 /\ msg'[c].place = "replay"
    BY <1>1, <1>3, <1>4, <1>8, ConstantTypes
    DEF OnCourse, Visible, At, TypeOK, ChainTypeOK, Message
  <2>2. OnCourse(c)'
    <3>1. OnTrack(e, c)'
      BY <1>2, <1>8 DEF OnTrack
    <3>2. QED
      BY <1>1, <1>8, <3>1 DEF OnCourse
  <2>3. Receipts(c)'
    BY <1>1, <1>5, <2>1, <2>2 DEF Counted, Receipts, Within
  <2>4. /\ IsFiniteSet(Chances(c)') /\ Tally(c)' <= Tally(c) + 1
        /\ Tally(c) \in Nat /\ Tally(c)' \in Nat
    <3>1. Chances(c)' \subseteq Chances(c) \cup {e} /\ IsFiniteSet(Chances(c))
      BY <1>2, OthersWork DEF Counted, ReplaysCounted
    <3>2. /\ IsFiniteSet(Chances(c)') /\ Cardinality(Chances(c)') <= Cardinality(Chances(c)) + 1
          /\ Cardinality(Chances(c)') \in Nat /\ Cardinality(Chances(c)) \in Nat
      BY <3>1, ChancesCount
    <3>3. Cardinality(Children(c)) \in Nat /\ Children(c)' = Children(c)
      BY <1>5, ChildrenFinite
    <3>4. QED
      BY <3>2, <3>3 DEF Tally
  <2>5. Tally(c) <= faults
    BY <2>1 DEF Counted, ReplaysCounted, Within
  <2>6. ReplaysCounted(c)'
    BY <1>1, <1>5, <2>1, <2>2, <2>4, <2>5 DEF Counted, ReplaysCounted, Within
  <2>7. QED
    BY <2>3, <2>6 DEF Counted
<1>9. \A f \in Envs : Orderly(f)'
  <2>1. Orderly(e)'
    BY <1>1, <1>2 DEF Orderly, NothingResolved
  <2>2. QED
    BY <1>1, <1>2, <2>1, OrderlyStays
<1>10. \A c \in acked' : Parked(c)'
  BY <1>1, <1>3 DEF Parked, TypeOK, ChainTypeOK
<1>11. QED
  BY <1>4, <1>7, <1>8, <1>9, <1>10

\* An accepted entry is no longer a chance but a replay.
LEMMA AcceptPaid ==
  ASSUME FInv, RInv', HInv', NEW e \in Envs, NEW call \in inv[e].calls, NEW c \in Copies,
         AcceptEntry(e, call, c)
  PROVE  FInv'
<1> USE DEF FInv, HInv
<1> DEFINE new == Decided(call, c)
<1>1. /\ inv' = Replace(e, call, new) /\ c \in call.left
      /\ UNCHANGED <<hidden, acked, registry, cache, faults, deploys>>
  BY DEF AcceptEntry
<1>2. PICK k \in Copies :
        k = sent + 1 /\ sent \in Nat /\ sent' = k /\ 1..sent \subseteq Copies
  BY ConstantTypes DEF AcceptEntry, TypeOK, ChainTypeOK, Copies
<1>3. /\ \A d \in 1..sent : msg'[d] = msg[d]
      /\ msg'[k].place = "source" /\ msg'[k].parent = c /\ msg'[k].receives = 0
  <2>1. msg' = [msg EXCEPT ![k] = ReplayOf(c, call.destination)]
    BY <1>2 DEF AcceptEntry
  <2>2. QED
    BY <1>2, <2>1 DEF TypeOK, ChainTypeOK, ReplayOf
<1>4. call \in Call /\ inv[e] \in Invocation /\ Orderly(e) /\ InHandParked(e)
  BY DEF TypeOK, Invocation
<1>5. new.entries = call.entries /\ new.left = call.left \ {c} /\ new.refused = call.refused
  BY <1>4 DEF Decided, Call
<1> HIDE DEF new
<1>6. Orderly(e)'
  BY <1>1, <1>5, ReplaceOrderly
<1>7. /\ inv'[e].phase = inv[e].phase /\ inv'[e].batch = inv[e].batch
      /\ inv'[e].failures = inv[e].failures
      /\ inv'[e].calls = (inv[e].calls \ {call}) \cup {new}
      /\ \A f \in Envs : f # e => inv'[f] = inv[f]
  BY <1>1, ReplaceFields
<1>8. inv[e].phase = "sending" /\ c \in call.entries /\ c \in inv[e].batch
  BY <1>1, <1>4 DEF Orderly, InHandParked
<1>9. c \in 1..sent /\ Parked(c)
  BY <1>2, <1>4, <1>8 DEF RInv, EnvRouted, InHandParked, Copies
<1>10. Working(e, c) /\ ~Working(e, c)'
  <2>1. \A l \in inv[e].calls : l # call => c \notin l.left
    BY <1>4, <1>8 DEF Orderly, InHandParked
  <2>2. QED
    BY <1>1, <1>5, <1>7, <1>8, <2>1 DEF Working
<1>11. \A d : (Working(e, d)' => Working(e, d)) /\ (OnTrack(e, d) => OnTrack(e, d)')
  BY <1>5, <1>7 DEF Working, OnTrack
<1>12. ASSUME NEW d \in 1..sent
       PROVE  /\ Chances(d)' \subseteq Chances(d) /\ (OnCourse(d) => OnCourse(d)')
              /\ Deserving(d)' => Deserving(d)
  <2>1. Chances(d)' \subseteq Chances(d) /\ \A f \in Envs : f # e => (OnTrack(f, d)' <=> OnTrack(f, d))
    BY <1>7, <1>11, OthersWork
  <2>2. OnCourse(d) => OnCourse(d)'
    BY <1>1, <1>11, <2>1 DEF OnCourse
  <2>3. Deserving(d)' => Deserving(d)
    BY <1>1, <1>3 DEF Deserving
  <2>4. QED
    BY <2>1, <2>2, <2>3
<1>13. \A d : Children(d)' = IF d = c THEN Children(d) \cup {k} ELSE Children(d)
  BY <1>2, <1>3 DEF Children
<1>14. ASSUME NEW d \in 1..sent, d # c PROVE Counted(d)'
  <2>1. Paid(e, d)
    BY <1>12 DEF Paid
  <2>2. faults' \in {faults, faults + 1} /\ msg'[d] = msg[d] /\ Children(d)' = Children(d)
    BY <1>1, <1>3, <1>13, <1>14
  <2>3. QED
    BY <1>12, <2>1, <2>2, PaidCounted
<1>15. Counted(c)'
  <2>1. /\ IsFiniteSet(Chances(c)') /\ Cardinality(Chances(c)') <= Cardinality(Chances(c)) - 1
        /\ Cardinality(Chances(c)') \in Nat /\ Cardinality(Chances(c)) \in Nat
    <3>1. IsFiniteSet(Chances(c)) /\ e \in Chances(c) /\ Chances(c)' \subseteq Chances(c) \ {e}
      BY <1>7, <1>9, <1>10, OthersWork DEF Counted, ReplaysCounted, Chances
    <3>2. QED
      BY <3>1, ChancesCount
  <2>2. /\ Cardinality(Children(c)') = Cardinality(Children(c)) + 1
        /\ Cardinality(Children(c)) \in Nat
    <3>1. IsFiniteSet(Children(c)) /\ Cardinality(Children(c)) \in Nat
      BY ChildrenFinite
    <3>2. k \notin Children(c)
      BY <1>2 DEF Children
    <3>3. QED
      BY <1>13, <3>1, <3>2, FS_AddElement
  <2>3. Tally(c)' <= Tally(c) /\ Tally(c) \in Nat /\ Tally(c)' \in Nat /\ faults \in Nat
    BY <2>1, <2>2 DEF Tally, TypeOK
  <2>4. Within(Tally(c), c) => Within(Tally(c), c)'
    BY <1>1, <1>9, <1>12, <2>3 DEF Within
  <2>5. Tally(c)' <= faults' + 1
    BY <1>1, <1>9, <2>3 DEF Counted, ReplaysCounted
  <2>6. ReplaysCounted(c)'
    BY <1>3, <1>9, <2>1, <2>4, <2>5 DEF Counted, ReplaysCounted, Parked
  <2>7. Receipts(c)'
    BY <1>1, <1>3, <1>9, <1>12 DEF Counted, Receipts, Within
  <2>8. QED
    BY <2>6, <2>7 DEF Counted
<1>16. Counted(k)'
  <2>1. Children(k) = {}
    BY <1>2, ConstantTypes DEF Children, RInv, Descended
  <2>2. Children(k)' = {}
    BY <1>2, <1>9, <1>13, <2>1
  <2>3. Chances(k)' = {}
    <3>1. \A f \in Envs : inv'[f].batch = inv[f].batch
      BY <1>7
    <3>2. \A f \in Envs : k \notin inv[f].batch
      BY <1>2 DEF RInv, EnvRouted
    <3>3. QED
      BY <3>1, <3>2 DEF Chances, Working
  <2>4. faults' \in Nat /\ Tally(k)' = 0 /\ IsFiniteSet(Chances(k)')
    BY <1>1, <2>2, <2>3, FS_EmptySet DEF Tally, TypeOK
  <2>5. ReplaysCounted(k)'
    BY <1>3, <2>2, <2>4 DEF ReplaysCounted
  <2>6. Receipts(k)'
    <3>1. Within(msg[k].receives, k)'
      <4>1. msg'[k].receives = 0
        BY <1>3
      <4>2. faults' \in Nat
        BY <2>4
      <4>3. 0 <= faults' + 1 /\ 0 <= faults'
        <5>1. \A n \in Nat : 0 <= n + 1 /\ 0 <= n
          OBVIOUS
        <5>2. QED
          BY <4>2, <5>1
      <4>4. QED
        BY <4>1, <4>3 DEF Within
    <3>2. msg'[k].place # "dead"
      BY <1>3
    <3>3. QED
      BY <3>1, <3>2 DEF Receipts
  <2>7. QED
    BY <2>5, <2>6 DEF Counted
<1>17. \A d \in 1..sent' : Counted(d)'
  BY <1>2, <1>14, <1>15, <1>16
<1>18. \A f \in Envs : Orderly(f)'
  BY <1>1, <1>6, <1>7, OrderlyStays
<1>19. \A d \in acked' : Parked(d)'
  <2>1. \A d \in acked : d \in 1..sent
    BY DEF Parked, TypeOK, ChainTypeOK, Copies
  <2>2. QED
    BY <1>1, <1>3, <2>1 DEF Parked
<1>20. QED
  BY <1>17, <1>18, <1>19

\* The queues move one copy, or change only what is hidden or acknowledged.
LEMMA MovePaid ==
  ASSUME FInv, NEW c \in Copies, NEW p, msg' = Move(c, p), TypeOK',
         UNCHANGED <<sent, registry, cache, inv, faults, deploys>>,
         hidden' \cup {c} = hidden \cup {c}, acked' \cup {c} = acked \cup {c}
  PROVE  /\ \A d \in 1..sent : d # c => Counted(d)'
         /\ \A d \in 1..sent : /\ Children(d)' = Children(d) /\ Chances(d)' = Chances(d)
                               /\ Tally(d)' = Tally(d) /\ (Deserving(d)' <=> Deserving(d))
                               /\ msg'[d].receives = msg[d].receives
         /\ c \in 1..sent => msg'[c].place = p
<1> USE DEF FInv, HInv
<1>1. \A d \in Copies : msg[d] \in Message
  BY DEF TypeOK, ChainTypeOK
<1>2. \A d \in Copies : msg'[d] = IF d = c THEN [msg[d] EXCEPT !.place = p] ELSE msg[d]
  BY DEF Move, TypeOK, ChainTypeOK
<1>3. \A d \in Copies : /\ msg'[d].parent = msg[d].parent /\ msg'[d].chain = msg[d].chain
                        /\ msg'[d].count = msg[d].count /\ msg'[d].shape = msg[d].shape
                        /\ msg'[d].receives = msg[d].receives
  BY <1>1, <1>2 DEF Message
<1>4. 1..sent \subseteq Copies
  BY ConstantTypes DEF TypeOK, ChainTypeOK, Copies
<1>5. ASSUME NEW d \in 1..sent
      PROVE  /\ Children(d)' = Children(d) /\ Chances(d)' = Chances(d)
             /\ (Deserving(d)' <=> Deserving(d)) /\ msg'[d].receives = msg[d].receives
  BY <1>3, <1>4 DEF Children, Chances, Working, Deserving
<1>6. \A d \in 1..sent : Tally(d)' = Tally(d)
  BY <1>5 DEF Tally
<1>7. ASSUME NEW d \in 1..sent, d # c PROVE Counted(d)'
  <2>1. OnCourse(d) <=> OnCourse(d)'
    BY <1>7 DEF OnCourse, OnTrack
  <2>2. Paid({}, d)
    BY <1>5, <2>1 DEF Paid
  <2>3. msg'[d] = msg[d] /\ faults' \in {faults, faults + 1}
    BY <1>2, <1>4, <1>7
  <2>4. QED
    BY <1>5, <2>2, <2>3, PaidCounted
<1>8. c \in 1..sent => msg'[c].place = p
  BY <1>1, <1>2 DEF Message
<1>9. QED
  BY <1>5, <1>6, <1>7, <1>8

\* A copy that was never parked is in no invocation and has no replay.
LEMMA UnparkedUncounted ==
  ASSUME FInv, NEW c \in 1..sent, ~Parked(c)
  PROVE  Tally(c) = 0
<1>1. Chances(c) = {}
  BY DEF FInv, HInv, InHandParked, Chances, Working
<1>2. Children(c) = {}
  BY DEF FInv, Counted, ReplaysCounted
<1>3. QED
  BY <1>1, <1>2, FS_EmptySet DEF Tally

LEMMA QueuesPaid ==
  ASSUME FInv, RInv', HInv', Queues \/ QueueFault PROVE FInv'
<1> USE DEF FInv, HInv
<1>1. UNCHANGED <<sent, registry, cache, inv, deploys>> /\ faults' \in {faults, faults + 1}
  BY DEF Queues, QueueFault, Fault, handlerVars, Consume, RedriveToReplay, DeadLetter, Delete,
     Reappear, DeleteLost
<1>2. \A f \in Envs : Orderly(f)'
  BY <1>1 DEF Orderly
<1>3. faults \in Nat /\ 1..sent \subseteq Copies /\ acked \subseteq 1..sent
  BY ConstantTypes DEF TypeOK, ChainTypeOK, Copies, Parked
<1>4. ASSUME NEW c \in Copies, NEW p \in Places, msg' = Move(c, p), c \in 1..sent,
             UNCHANGED faults, acked' \subseteq acked,
             hidden' \cup {c} = hidden \cup {c}, acked' \cup {c} = acked \cup {c},
             p \in {"replay", "dead", "deleted"} \/ ~Parked(c), Counted(c)'
      PROVE  FInv'
  <2>1. \A d \in 1..sent : Counted(d)'
    BY <1>1, <1>4, MovePaid
  <2>2. \A d \in acked' : Parked(d)'
    <3>1. c \in acked => Parked(c)
      OBVIOUS
    <3>2. msg'[c].place = p
      BY <1>1, <1>4, MovePaid
    <3>3. \A d \in acked' : d # c => msg'[d] = msg[d]
      BY <1>3, <1>4 DEF Move, TypeOK, ChainTypeOK
    <3>4. QED
      BY <1>4, <3>1, <3>2, <3>3 DEF Parked
  <2>3. QED
    BY <1>1, <1>2, <2>1, <2>2
<1>5. ASSUME UNCHANGED msg, acked' \subseteq acked,
             \A c \in 1..sent : OnCourse(c) => OnCourse(c)' \/ faults' = faults + 1
      PROVE  FInv'
  <2>1. ASSUME NEW c \in 1..sent PROVE Counted(c)'
    <3>1. Chances(c)' = Chances(c) /\ Children(c)' = Children(c)
      BY <1>1, <1>5 DEF Chances, Working, Children
    <3>2. Paid({}, c)
      BY <1>5, <3>1 DEF Paid
    <3>3. Deserving(c)' => Deserving(c)
      BY <1>1, <1>5 DEF Deserving
    <3>4. QED
      BY <1>1, <1>5, <3>1, <3>2, <3>3, PaidCounted
  <2>2. \A c \in acked' : Parked(c)'
    BY <1>5 DEF Parked
  <2>3. QED
    BY <1>1, <1>2, <2>1, <2>2
<1>6. ASSUME NEW c \in Copies, Consume(c), UNCHANGED faults PROVE FInv'
  <2>1. /\ msg' = Move(c, "consumed") /\ c \in 1..sent /\ ~Parked(c)
        /\ UNCHANGED <<hidden, acked>>
    BY <1>3, <1>6 DEF Consume, At, Parked, Copies
  <2>2. /\ Children(c)' = Children(c) /\ Chances(c)' = Chances(c) /\ Tally(c)' = Tally(c)
        /\ msg'[c].place = "consumed"
    BY <1>1, <1>6, <2>1, MovePaid
  <2>3. Counted(c)'
    BY <1>3, <1>6, <2>1, <2>2 DEF Counted, Receipts, ReplaysCounted
  <2>4. QED
    BY <1>4, <1>6, <2>1, <2>3 DEF Places
<1>7. ASSUME NEW c \in Copies, RedriveToReplay(c), UNCHANGED faults PROVE FInv'
  <2>1. /\ msg' = Move(c, "replay") /\ c \in 1..sent /\ ~Parked(c)
        /\ msg[c].place = "source" /\ UNCHANGED <<hidden, acked>>
    BY <1>3, <1>7 DEF RedriveToReplay, At, Parked, Copies
  <2>2. /\ Children(c)' = Children(c) /\ Chances(c)' = Chances(c) /\ Tally(c)' = Tally(c)
        /\ (Deserving(c)' <=> Deserving(c)) /\ msg'[c].receives = msg[c].receives
        /\ msg'[c].place = "replay"
    BY <1>1, <1>7, <2>1, MovePaid
  <2>3. OnCourse(c)' <=> OnCourse(c)
    BY <1>1, <2>1 DEF OnCourse, OnTrack
  <2>4. Tally(c) = 0
    BY <2>1, UnparkedUncounted
  <2>5. Receipts(c)'
    BY <1>7, <2>1, <2>2, <2>3 DEF Counted, Receipts, Within
  <2>6. Within(Tally(c), c)' /\ Tally(c)' <= faults' + 1
    BY <1>3, <1>7, <2>2, <2>4 DEF Within
  <2>7. ReplaysCounted(c)'
    BY <2>1, <2>2, <2>6 DEF Counted, ReplaysCounted, Parked
  <2>8. Counted(c)'
    BY <2>5, <2>7 DEF Counted
  <2>9. QED
    BY <1>4, <1>7, <2>1, <2>8 DEF Places
<1>8. ASSUME NEW c \in Copies, DeadLetter(c), UNCHANGED faults PROVE FInv'
  <2>1. /\ msg' = Move(c, "dead") /\ c \in 1..sent /\ msg[c].place = "replay"
        /\ c \notin hidden /\ msg[c].receives = MaxReceive /\ UNCHANGED <<hidden, acked>>
    BY <1>3, <1>8 DEF DeadLetter, Visible, At, Copies
  <2>2. /\ Children(c)' = Children(c) /\ Chances(c)' = Chances(c) /\ Tally(c)' = Tally(c)
        /\ (Deserving(c)' <=> Deserving(c)) /\ msg'[c].place = "dead"
    BY <1>1, <1>8, <2>1, MovePaid
  <2>3. Deserving(c) => faults >= MaxReceive
    BY <1>3, <2>1, ConstantTypes DEF Counted, Receipts, Within, OnCourse
  <2>4. Counted(c)'
    BY <1>8, <2>1, <2>2, <2>3 DEF Counted, Receipts, ReplaysCounted, Parked
  <2>5. QED
    BY <1>4, <1>8, <2>1, <2>4 DEF Places
<1>9. ASSUME NEW c \in Copies, Delete(c), UNCHANGED faults, msg[c].place = "replay" PROVE FInv'
  <2>1. /\ msg' = Move(c, "deleted") /\ c \in 1..sent
        /\ hidden' = hidden \ {c} /\ acked' = acked \ {c}
    BY <1>3, <1>9 DEF Delete
  <2>2. /\ Children(c)' = Children(c) /\ Chances(c)' = Chances(c) /\ Tally(c)' = Tally(c)
        /\ msg'[c].place = "deleted"
    BY <1>1, <1>9, <2>1, MovePaid
  <2>3. Counted(c)'
    BY <1>9, <2>1, <2>2 DEF Counted, Receipts, ReplaysCounted, Parked
  <2>4. QED
    BY <1>4, <1>9, <2>1, <2>3 DEF Places
<1>10. ASSUME NEW c \in Copies, Delete(c), UNCHANGED faults, msg[c].place # "replay" PROVE FInv'
  <2>1. /\ c \in 1..sent /\ Parked(c) /\ UNCHANGED msg
        /\ hidden' = hidden \ {c} /\ acked' = acked \ {c}
    BY <1>3, <1>10 DEF Delete
  <2>2. ASSUME NEW d \in 1..sent, d # c PROVE Counted(d)'
    <3>1. Chances(d)' = Chances(d) /\ Children(d)' = Children(d)
      BY <1>1, <2>1 DEF Chances, Working, Children
    <3>2. OnCourse(d) => OnCourse(d)'
      BY <1>1, <2>1, <2>2 DEF OnCourse, OnTrack
    <3>3. Paid({}, d) /\ (Deserving(d)' => Deserving(d))
      BY <1>1, <2>1, <3>1, <3>2 DEF Paid, Deserving
    <3>4. QED
      BY <1>1, <2>1, <3>1, <3>3, PaidCounted
  <2>3. Counted(c)'
    <3>1. Chances(c)' = Chances(c) /\ Children(c)' = Children(c) /\ (Deserving(c)' <=> Deserving(c))
      BY <1>1, <2>1 DEF Chances, Working, Children, Deserving
    <3>2. Tally(c)' = Tally(c) /\ msg[c].place \notin {"source", "replay"}
      BY <1>10, <2>1, <3>1 DEF Tally, Parked
    <3>3. QED
      BY <1>10, <2>1, <3>1, <3>2 DEF Counted, Receipts, ReplaysCounted, Parked
  <2>4. \A d \in acked' : Parked(d)'
    BY <2>1 DEF Parked
  <2>5. QED
    BY <1>1, <1>2, <2>2, <2>3, <2>4
<1>11. ASSUME NEW c \in Copies, ~InHand(c), Reappear(c) PROVE FInv'
  <2>1. UNCHANGED <<msg, acked>> /\ hidden' = hidden \ {c}
    BY <1>11 DEF Reappear
  <2>2. ~OnCourse(c)
    BY <1>11 DEF OnCourse, OnTrack, InHand
  <2>3. \A d \in 1..sent : OnCourse(d) => OnCourse(d)'
    BY <1>1, <2>1, <2>2 DEF OnCourse, OnTrack
  <2>4. QED
    BY <1>5, <2>1, <2>3
<1>12. CASE QueueFault
  <2>1. UNCHANGED msg /\ acked' \subseteq acked /\ faults' = faults + 1
    BY <1>12 DEF QueueFault, Reappear, DeleteLost, Fault
  <2>2. QED
    BY <1>5, <2>1
<1>13. CASE Queues
  <2>1. UNCHANGED faults
    BY <1>13 DEF Queues, handlerVars
  <2>2. QED
    BY <1>6, <1>7, <1>8, <1>9, <1>10, <1>11, <1>13, <2>1 DEF Queues
<1>14. QED
  BY <1>12, <1>13

LEMMA InitPaid == Init => FInv
<1> SUFFICES ASSUME Init PROVE FInv
  OBVIOUS
<1>1. RInv /\ HInv
  <2>1. \A e \in Envs : inv[e].batch = {} /\ inv[e].calls = {}
    BY DEF Init, Idle
  <2>2. QED
    BY <2>1, InitRoute, InitType DEF HInv, InHandParked
<1>2. \A e \in Envs : Orderly(e)
  BY DEF Init, Idle, NothingResolved, Orderly
<1>3. acked = {} /\ faults = 0
  BY DEF Init, ChainInit
<1>4. ASSUME NEW c \in 1..sent PROVE Counted(c)
  <2>1. /\ \A d \in 1..sent : msg[d].parent = 0
        /\ msg[c].place = "source" /\ msg[c].receives = 0
    BY ConstantTypes DEF Init, ChainInit, Produced, Copies
  <2>2. Chances(c) = {} /\ Children(c) = {}
    BY <2>1 DEF Init, Idle, Chances, Working, Children
  <2>3. IsFiniteSet(Chances(c)) /\ Tally(c) = 0
    BY <2>2, FS_EmptySet DEF Tally
  <2>4. Receipts(c)
    BY <1>3, <2>1 DEF Receipts, Within
  <2>5. ReplaysCounted(c)
    BY <1>3, <2>1, <2>2, <2>3 DEF ReplaysCounted
  <2>6. QED
    BY <2>4, <2>5 DEF Counted
<1>5. QED
  BY <1>1, <1>2, <1>3, <1>4 DEF FInv

\* In every reachable state, replays and receives are paid for.
LEMMA Payments == Spec => []FInv
<1>1. Init => FInv
  BY InitPaid
<1>2. FInv /\ [Next]_vars /\ RInv' /\ HInv' => FInv'
  <2> SUFFICES ASSUME FInv, [Next]_vars, RInv', HInv' PROVE FInv'
    OBVIOUS
  <2>1. CASE Next
    <3>1. TypeOK
      BY DEF FInv, HInv
    <3>2. QED
      BY <2>1, <3>1, NextCases, QueuesPaid, ReceivePaid, ResolvePaid, BuildPaid, AcceptPaid,
         RefusePaid, RetryPaid, ReturnPaid, EndPaid, EnvironmentPaid
  <2>2. CASE UNCHANGED vars
    BY <2>2, EnvironmentPaid
  <2>3. QED
    BY <2>1, <2>2
<1>3. QED
  BY <1>1, <1>2, Routing, Parking, PTL DEF Spec

\* A message is replayed once for each failure, and once more: calls that are cut,
\* answered in part, failed, repeated or outlived by the visibility timeout never
\* replay it on the handler's own account, whatever the environments do
\* concurrently (lib.rs:66-128, replay.rs:147-174).
THEOREM ReplaysPaid == Spec => []ReplayedTwiceNeedsFaults
<1>1. ASSUME FInv PROVE ReplayedTwiceNeedsFaults
  <2>1. ASSUME NEW c \in 1..sent PROVE Cardinality(Children(c)) <= 1 + faults
    <3>1. IsFiniteSet(Chances(c)) /\ Tally(c) <= faults + 1 /\ faults \in Nat
      BY <1>1 DEF FInv, HInv, Counted, ReplaysCounted, TypeOK
    <3>2. Cardinality(Chances(c)) \in Nat
      BY <3>1, FS_CardinalityType
    <3>3. Cardinality(Children(c)) \in Nat
      BY <1>1, ChildrenFinite DEF FInv, HInv
    <3>4. QED
      BY <3>1, <3>2, <3>3 DEF Tally
  <2>2. QED
    BY <2>1 DEF ReplayedTwiceNeedsFaults
<1>2. QED
  BY <1>1, Payments, PTL

\* A well-formed message with attempts left is dead-lettered only after as many
\* failures as the replay queue allows receives: the handler does not spend a
\* receive of one message on another message of its batch or of its call
\* (lib.rs:66-128, replay.rs:45-77, sqs-queue-with-replay.ts:116-128).
THEOREM DeadLettersPaid == Spec => []EarlyDeadLetterNeedsFaults
<1>1. FInv => EarlyDeadLetterNeedsFaults
  BY DEF FInv, Counted, Receipts, Deserving, EarlyDeadLetterNeedsFaults
<1>2. QED
  BY <1>1, Payments, PTL
=============================================================================
