--------------------------- MODULE ChunkingProofs ---------------------------
(***************************************************************************)
(* The calls of one invocation: theorems for any number of requests and    *)
(* destinations, any sizes and limits.                                     *)
(*                                                                         *)
(* What a call carries is a sum over a sequence, and what is sent to a     *)
(* queue a concatenation of sequences.  Both are recursive functions; that *)
(* they are defined, and what one more element adds to them, follows from  *)
(* the least number for which it would not hold.                           *)
(***************************************************************************)
EXTENDS Chunking, SequenceTheorems, FiniteSetTheorems, WellFoundedInduction, TLAPS

-----------------------------------------------------------------------------
(* Recursion over the naturals up to a bound *)

LessThan == {p \in Nat \X Nat : p[1] < p[2]}

LEMMA Least ==
  ASSUME NEW S \in SUBSET Nat, S # {}
  PROVE  \E m \in S : \A n \in S : ~(n < m)
<1>1. LessThan = OpToRel(<, Nat)
  BY DEF LessThan, OpToRel
<1>2. IsWellFoundedOn(LessThan, Nat)
  BY <1>1, NatLessThanWellFounded
<1>3. \E m \in S : \A n \in S : ~(<<n, m>> \in LessThan)
  BY <1>2, WFMin
<1>4. \A m, n \in Nat : n < m => <<n, m>> \in LessThan
  BY DEF LessThan
<1>5. QED
  BY <1>3, <1>4

Recursive(g, base, step, m) ==
  g[0] = base /\ \A n \in 1..m : g[n] = step[<<n, g[n - 1]>>]

LEMMA Recursion ==
  ASSUME NEW N \in Nat, NEW S, NEW base \in S, NEW step \in [(1..N) \X S -> S]
  PROVE  \E g \in [0..N -> S] : Recursive(g, base, step, N)
<1> DEFINE Undefined == {m \in 0..N : ~ \E g \in [0..m -> S] : Recursive(g, base, step, m)}
<1>1. ASSUME Undefined # {} PROVE FALSE
  <2>1. PICK m \in Undefined : \A n \in Undefined : ~(n < m)
    <3>1. Undefined \in SUBSET Nat
      OBVIOUS
    <3> HIDE DEF Undefined
    <3>2. QED
      BY <1>1, <3>1, Least
  <2>2. CASE m = 0
    <3>1. [n \in 0..0 |-> base] \in [0..m -> S]
      BY <2>2
    <3>2. Recursive([n \in 0..0 |-> base], base, step, m)
      BY <2>2 DEF Recursive
    <3>3. QED
      BY <3>1, <3>2
  <2>3. CASE m # 0
    <3>1. m - 1 \in 0..N /\ m \in 1..N /\ m - 1 < m
      BY <2>3
    <3>2. PICK g \in [0..(m - 1) -> S] : Recursive(g, base, step, m - 1)
      BY <2>1, <3>1
    <3>3. step[<<m, g[m - 1]>>] \in S
      BY <3>1, <3>2
    <3> DEFINE h == [n \in 0..m |-> IF n = m THEN step[<<m, g[m - 1]>>] ELSE g[n]]
    <3>4. h \in [0..m -> S]
      BY <3>1, <3>2, <3>3
    <3>5. Recursive(h, base, step, m)
      BY <3>1, <3>2 DEF Recursive
    <3>6. QED
      BY <3>4, <3>5
  <2>4. QED
    BY <2>2, <2>3
<1>2. QED
  BY <1>1

-----------------------------------------------------------------------------
(* Sums *)

Sums(bytes) ==
  CHOOSE upTo : upTo = [n \in 0..Len(bytes) |-> IF n = 0 THEN 0 ELSE upTo[n - 1] + bytes[n]]

LEMMA SumsDefined ==
  ASSUME NEW bytes \in Seq(Nat)
  PROVE  /\ Total(bytes) = Sums(bytes)[Len(bytes)]
         /\ Sums(bytes) \in [0..Len(bytes) -> Nat]
         /\ Sums(bytes)[0] = 0
         /\ \A n \in 1..Len(bytes) : Sums(bytes)[n] = Sums(bytes)[n - 1] + bytes[n]
<1> DEFINE N == Len(bytes)
           step == [p \in (1..N) \X Nat |-> p[2] + bytes[p[1]]]
           f == Sums(bytes)
<1>1. N \in Nat /\ \A n \in 1..N : bytes[n] \in Nat
  OBVIOUS
<1>2. step \in [(1..N) \X Nat -> Nat]
  BY <1>1
<1>3. PICK g \in [0..N -> Nat] : Recursive(g, 0, step, N)
  <2> HIDE DEF step, N
  <2>1. QED
    BY <1>1, <1>2, Recursion
<1>4. g = [n \in 0..N |-> IF n = 0 THEN 0 ELSE g[n - 1] + bytes[n]]
  <2>1. \A n \in 1..N : g[n] = g[n - 1] + bytes[n]
    <3> SUFFICES ASSUME NEW n \in 1..N PROVE g[n] = g[n - 1] + bytes[n]
      OBVIOUS
    <3>1. g[n] = step[<<n, g[n - 1]>>]
      BY <1>3 DEF Recursive
    <3>2. n - 1 \in 0..N /\ g[n - 1] \in Nat
      <4> HIDE DEF N, step
      <4>1. n - 1 \in 0..N
        BY <1>1
      <4>2. QED
        BY <1>3, <4>1
    <3>3. QED
      BY <3>1, <3>2
  <2>2. g[0] = 0
    BY <1>3 DEF Recursive
  <2>3. \A n \in 0..N : n = 0 \/ n \in 1..N
    BY <1>1
  <2> HIDE DEF N, step
  <2>4. QED
    BY <2>1, <2>2, <2>3
<1>5. f = [n \in 0..N |-> IF n = 0 THEN 0 ELSE f[n - 1] + bytes[n]]
  BY <1>4 DEF Sums
<1> HIDE DEF f
<1>6. f[0] = 0 /\ \A n \in 1..N : f[n] = f[n - 1] + bytes[n]
  BY <1>1, <1>5
<1>7. \A n \in 0..N : f[n] \in Nat
  <2> DEFINE Wrong == {n \in 0..N : f[n] \notin Nat}
  <2>1. ASSUME Wrong # {} PROVE FALSE
    <3>1. PICK m \in Wrong : \A n \in Wrong : ~(n < m)
      <4>1. Wrong \in SUBSET Nat
        BY <1>1
      <4> HIDE DEF Wrong
      <4>2. QED
        BY <2>1, <4>1, Least
    <3>2. m \in 1..N /\ m - 1 \in 0..N /\ m - 1 < m
      BY <1>1, <1>6
    <3>3. f[m - 1] \in Nat
      BY <3>1, <3>2
    <3>4. QED
      BY <1>1, <1>6, <3>2, <3>3
  <2>2. QED
    BY <2>1
<1>8. f \in [0..N -> Nat]
  BY <1>5, <1>7
<1>9. Total(bytes) = f[N]
  BY DEF Total, Sums, f
<1>10. QED
  BY <1>6, <1>8, <1>9 DEF f

LEMMA TotalNat == ASSUME NEW bytes \in Seq(Nat) PROVE Total(bytes) \in Nat
<1>1. Len(bytes) \in 0..Len(bytes)
  OBVIOUS
<1>2. QED
  BY <1>1, SumsDefined

LEMMA TotalEmpty == Total(<<>>) = 0
<1>1. <<>> \in Seq(Nat) /\ Len(<<>>) = 0
  OBVIOUS
<1>2. QED
  BY <1>1, SumsDefined

LEMMA TotalAppend ==
  ASSUME NEW bytes \in Seq(Nat), NEW b \in Nat
  PROVE  Total(Append(bytes, b)) = Total(bytes) + b
<1> DEFINE N == Len(bytes)
           more == Append(bytes, b)
           f == Sums(bytes)
           g == Sums(more)
<1>1. /\ N \in Nat /\ more \in Seq(Nat) /\ Len(more) = N + 1 /\ more[N + 1] = b
      /\ \A n \in 1..N : more[n] = bytes[n] /\ bytes[n] \in Nat
  OBVIOUS
<1> HIDE DEF more
<1>2. /\ f \in [0..N -> Nat] /\ f[0] = 0 /\ Total(bytes) = f[N]
      /\ \A n \in 1..N : f[n] = f[n - 1] + bytes[n]
  BY SumsDefined
<1>3. /\ g \in [0..(N + 1) -> Nat] /\ g[0] = 0 /\ Total(more) = g[N + 1]
      /\ \A n \in 1..(N + 1) : g[n] = g[n - 1] + more[n]
  BY <1>1, SumsDefined
<1> HIDE DEF f, g, N
<1>4. \A n \in 0..N : f[n] = g[n]
  <2> DEFINE Differ == {n \in 0..N : f[n] # g[n]}
  <2>1. ASSUME Differ # {} PROVE FALSE
    <3>1. PICK m \in Differ : \A n \in Differ : ~(n < m)
      <4>1. Differ \in SUBSET Nat
        BY <1>1
      <4> HIDE DEF Differ
      <4>2. QED
        BY <2>1, <4>1, Least
    <3>2. m \in 1..N /\ m - 1 \in 0..N /\ m - 1 < m /\ m \in 1..(N + 1)
      BY <1>1, <1>2, <1>3
    <3>3. f[m - 1] = g[m - 1]
      BY <3>1, <3>2
    <3>4. QED
      BY <1>1, <1>2, <1>3, <3>2, <3>3
  <2>2. QED
    BY <2>1
<1>5. N \in 0..N /\ N + 1 \in 1..(N + 1) /\ (N + 1) - 1 = N
  BY <1>1
<1>6. g[N + 1] = f[N] + b
  BY <1>1, <1>3, <1>4, <1>5
<1>7. QED
  BY <1>2, <1>3, <1>6 DEF more

-----------------------------------------------------------------------------
(* Concatenations *)

Joined(seqs) ==
  CHOOSE flatten : flatten =
    [i \in 1..Len(seqs) |-> IF i = 1 THEN seqs[i] ELSE flatten[i - 1] \o seqs[i]]

LEMMA JoinedDefined ==
  ASSUME NEW S, NEW seqs \in Seq(Seq(S))
  PROVE  /\ FlattenSeq(seqs) = IF Len(seqs) = 0 THEN <<>> ELSE Joined(seqs)[Len(seqs)]
         /\ Joined(seqs) \in [1..Len(seqs) -> Seq(S)]
         /\ \A i \in 1..Len(seqs) :
              Joined(seqs)[i] = IF i = 1 THEN seqs[i] ELSE Joined(seqs)[i - 1] \o seqs[i]
<1> DEFINE N == Len(seqs)
           step == [p \in (1..N) \X Seq(S) |-> p[2] \o seqs[p[1]]]
           f == Joined(seqs)
<1>1. N \in Nat /\ \A i \in 1..N : seqs[i] \in Seq(S)
  OBVIOUS
<1>2. step \in [(1..N) \X Seq(S) -> Seq(S)]
  BY <1>1
<1>3. PICK g \in [0..N -> Seq(S)] : Recursive(g, <<>>, step, N)
  <2>1. <<>> \in Seq(S)
    OBVIOUS
  <2> HIDE DEF step, N
  <2>2. QED
    BY <1>1, <1>2, <2>1, Recursion
<1>4. \A i \in 1..N : g[i] = IF i = 1 THEN seqs[i] ELSE g[i - 1] \o seqs[i]
  <2> SUFFICES ASSUME NEW i \in 1..N
               PROVE  g[i] = IF i = 1 THEN seqs[i] ELSE g[i - 1] \o seqs[i]
    OBVIOUS
  <2>1. g[0] = <<>> /\ g[i] = step[<<i, g[i - 1]>>]
    BY <1>3 DEF Recursive
  <2>2. i - 1 \in 0..N /\ g[i - 1] \in Seq(S)
    <3> HIDE DEF N, step
    <3>1. i - 1 \in 0..N
      BY <1>1
    <3>2. QED
      BY <1>3, <3>1
  <2>3. g[i] = g[i - 1] \o seqs[i]
    BY <2>1, <2>2
  <2>4. i = 1 => g[i] = seqs[i]
    <3> HIDE DEF N, step
    <3>1. seqs[i] \in Seq(S)
      BY <1>1
    <3>2. <<>> \o seqs[i] = seqs[i]
      BY <3>1, ConcatEmptySeq
    <3>3. i = 1 => g[i - 1] = <<>>
      BY <2>1
    <3>4. QED
      BY <2>3, <3>2, <3>3, Zenon
  <2>5. QED
    BY <2>3, <2>4
<1>5. f = [i \in 1..N |-> IF i = 1 THEN seqs[i] ELSE f[i - 1] \o seqs[i]]
  <2> DEFINE h == [i \in 1..N |-> g[i]]
  <2>1. \A i \in 1..N : i = 1 \/ i - 1 \in 1..N
    BY <1>1
  <2>2. h = [i \in 1..N |-> IF i = 1 THEN seqs[i] ELSE h[i - 1] \o seqs[i]]
    <3>1. ASSUME NEW i \in 1..N
          PROVE  h[i] = IF i = 1 THEN seqs[i] ELSE h[i - 1] \o seqs[i]
      <4>1. h[i] = g[i] /\ (i = 1 \/ h[i - 1] = g[i - 1])
        BY <2>1
      <4>2. QED
        BY <1>4, <4>1
    <3>2. h = [i \in 1..N |-> h[i]]
      OBVIOUS
    <3> HIDE DEF h, N
    <3>3. QED
      BY <3>1, <3>2
  <2> HIDE DEF h
  <2>3. QED
    BY <2>2 DEF Joined
<1> HIDE DEF f, N, step
<1>6. \A i \in 1..N : f[i] = IF i = 1 THEN seqs[i] ELSE f[i - 1] \o seqs[i]
  BY <1>5, Zenon
<1>7. \A i \in 1..N : f[i] \in Seq(S)
  <2> DEFINE Wrong == {i \in 1..N : f[i] \notin Seq(S)}
  <2>1. ASSUME Wrong # {} PROVE FALSE
    <3>1. PICK m \in Wrong : \A n \in Wrong : ~(n < m)
      <4>1. Wrong \in SUBSET Nat
        BY <1>1
      <4> HIDE DEF Wrong
      <4>2. QED
        BY <2>1, <4>1, Least
    <3>2. m # 1 /\ m - 1 \in 1..N /\ m - 1 < m
      BY <1>1, <1>6
    <3>3. f[m - 1] \in Seq(S) /\ seqs[m] \in Seq(S)
      BY <1>1, <3>1, <3>2
    <3>4. f[m - 1] \o seqs[m] \in Seq(S)
      BY <3>3, ConcatProperties
    <3>5. f[m] = f[m - 1] \o seqs[m]
      BY <1>6, <3>1, <3>2
    <3>6. QED
      BY <3>1, <3>4, <3>5
  <2>2. QED
    BY <2>1
<1>8. f \in [1..N -> Seq(S)]
  BY <1>5, <1>7
<1>9. FlattenSeq(seqs) = IF N = 0 THEN <<>> ELSE f[N]
  BY DEF FlattenSeq, Joined, f, N
<1>10. QED
  BY <1>6, <1>8, <1>9 DEF f, N

LEMMA FlattenType ==
  ASSUME NEW S, NEW seqs \in Seq(Seq(S))
  PROVE  FlattenSeq(seqs) \in Seq(S)
<1>1. Len(seqs) \in Nat /\ (Len(seqs) # 0 => Len(seqs) \in 1..Len(seqs))
  OBVIOUS
<1>2. QED
  BY <1>1, JoinedDefined

LEMMA FlattenEmpty == FlattenSeq(<<>>) = <<>>
BY DEF FlattenSeq

LEMMA FlattenAppend ==
  ASSUME NEW S, NEW seqs \in Seq(Seq(S)), NEW seq \in Seq(S)
  PROVE  FlattenSeq(Append(seqs, seq)) = FlattenSeq(seqs) \o seq
<1> DEFINE N == Len(seqs)
           more == Append(seqs, seq)
           f == Joined(seqs)
           g == Joined(more)
<1>1. /\ N \in Nat /\ more \in Seq(Seq(S)) /\ Len(more) = N + 1 /\ more[N + 1] = seq
      /\ \A i \in 1..N : more[i] = seqs[i] /\ seqs[i] \in Seq(S)
  OBVIOUS
<1> HIDE DEF more
<1>2. /\ FlattenSeq(seqs) = IF N = 0 THEN <<>> ELSE f[N]
      /\ f \in [1..N -> Seq(S)]
      /\ \A i \in 1..N : f[i] = IF i = 1 THEN seqs[i] ELSE f[i - 1] \o seqs[i]
  BY JoinedDefined
<1>3. /\ FlattenSeq(more) = g[N + 1]
      /\ \A i \in 1..(N + 1) : g[i] = IF i = 1 THEN more[i] ELSE g[i - 1] \o more[i]
  BY <1>1, JoinedDefined
<1> HIDE DEF f, g, N
<1>4. \A i \in 1..N : f[i] = g[i]
  <2> DEFINE Differ == {i \in 1..N : f[i] # g[i]}
  <2>1. ASSUME Differ # {} PROVE FALSE
    <3>1. PICK m \in Differ : \A n \in Differ : ~(n < m)
      <4>1. Differ \in SUBSET Nat
        BY <1>1
      <4> HIDE DEF Differ
      <4>2. QED
        BY <2>1, <4>1, Least
    <3>2. m \in 1..N /\ m \in 1..(N + 1) /\ (m = 1 \/ (m - 1 \in 1..N /\ m - 1 < m))
      BY <1>1
    <3>3. m = 1 \/ f[m - 1] = g[m - 1]
      BY <3>1, <3>2
    <3>4. more[m] = seqs[m]
      BY <1>1, <3>2
    <3>5. /\ f[m] = IF m = 1 THEN seqs[m] ELSE f[m - 1] \o seqs[m]
          /\ g[m] = IF m = 1 THEN more[m] ELSE g[m - 1] \o more[m]
      BY <1>2, <1>3, <3>2
    <3>6. f[m] = g[m]
      BY <3>3, <3>4, <3>5
    <3>7. QED
      BY <3>6
  <2>2. QED
    BY <2>1
<1>5. CASE N = 0
  <2>1. FlattenSeq(more) = seq
    BY <1>1, <1>3, <1>5
  <2>2. QED
    BY <1>2, <1>5, <2>1, ConcatEmptySeq DEF more
<1>6. CASE N # 0
  <2>1. N \in 1..N /\ N + 1 \in 1..(N + 1) /\ N + 1 # 1 /\ (N + 1) - 1 = N
    BY <1>1, <1>6
  <2>2. g[N + 1] = g[N] \o seq
    BY <1>1, <1>3, <2>1
  <2>3. QED
    BY <1>2, <1>3, <1>4, <1>6, <2>1, <2>2 DEF more
<1>7. QED
  BY <1>5, <1>6

-----------------------------------------------------------------------------
(* What a chunk weighs *)

BodiesOf(entries, s) == Total([k \in DOMAIN s |-> entries[s[k]].body])

AttributesOf(entries, s) ==
  Total([k \in DOMAIN s |-> entries[s[k]].attributes + CountBytes])

LEMMA Weights ==
  ASSUME NEW entries \in Seq(Entry), NEW s \in Seq(1..Len(entries))
  PROVE  /\ BodiesOf(entries, s) \in Nat /\ AttributesOf(entries, s) \in Nat
         /\ \A p \in 1..Len(entries) :
              BodiesOf(entries, Append(s, p)) = BodiesOf(entries, s) + entries[p].body
<1> DEFINE bodies == [k \in DOMAIN s |-> entries[s[k]].body]
<1>1. /\ DOMAIN s = 1..Len(s) /\ Len(s) \in Nat
      /\ \A p \in 1..Len(entries) : entries[p].body \in Nat /\ entries[p].attributes \in Nat
      /\ \A k \in DOMAIN s : s[k] \in 1..Len(entries)
  <2>1. \A p \in 1..Len(entries) : entries[p] \in Entry
    BY ElementOfSeq
  <2>2. QED
    BY <2>1, ElementOfSeq, LenProperties, ChunkingAssumption DEF Entry
<1>2. bodies \in Seq(Nat)
  BY <1>1
<1>3. [k \in DOMAIN s |-> entries[s[k]].attributes + CountBytes] \in Seq(Nat)
  BY <1>1, ChunkingAssumption
<1>4. ASSUME NEW p \in 1..Len(entries)
      PROVE  BodiesOf(entries, Append(s, p)) = BodiesOf(entries, s) + entries[p].body
  <2> DEFINE more == [k \in DOMAIN Append(s, p) |-> entries[Append(s, p)[k]].body]
             sum == Append(bodies, entries[p].body)
  <2>1. /\ Append(s, p) \in Seq(1..Len(entries)) /\ Len(Append(s, p)) = Len(s) + 1
        /\ Append(s, p)[Len(s) + 1] = p
        /\ \A k \in 1..Len(s) : Append(s, p)[k] = s[k]
    BY AppendProperties
  <2>2. DOMAIN Append(s, p) = 1..(Len(s) + 1)
    BY <2>1, LenProperties
  <2>3. \A k \in 1..(Len(s) + 1) :
          /\ k \in DOMAIN Append(s, p)
          /\ Append(s, p)[k] = IF k = Len(s) + 1 THEN p ELSE s[k]
    BY <1>1, <2>1, <2>2
  <2>4. /\ sum \in Seq(Nat) /\ Len(sum) = Len(s) + 1
        /\ \A k \in 1..(Len(s) + 1) :
             sum[k] = IF k = Len(s) + 1 THEN entries[p].body ELSE entries[s[k]].body
    <3>1. Len(bodies) = Len(s) /\ \A k \in 1..Len(s) : bodies[k] = entries[s[k]].body
      BY <1>1
    <3> HIDE DEF bodies
    <3>2. QED
      BY <1>1, <1>2, <3>1, AppendProperties
  <2>5. more = [k \in 1..(Len(s) + 1) |-> sum[k]]
    BY <1>1, <2>2, <2>3, <2>4
  <2>6. sum = [k \in 1..(Len(s) + 1) |-> sum[k]]
    <3>1. sum \in [1..(Len(s) + 1) -> Nat]
      BY <2>4, LenProperties
    <3> HIDE DEF sum
    <3>2. QED
      BY <3>1
  <2>7. Total(more) = Total(sum)
    BY <2>5, <2>6
  <2>8. Total(sum) = Total(bodies) + entries[p].body
    <3> HIDE DEF bodies
    <3>1. QED
      BY <1>1, <1>2, TotalAppend
  <2>9. QED
    BY <2>7, <2>8 DEF BodiesOf
<1>5. QED
  BY <1>2, <1>3, <1>4, TotalNat DEF BodiesOf, AttributesOf

LEMMA WeightEmpty == ASSUME NEW entries PROVE BodiesOf(entries, <<>>) = 0
<1>1. [k \in DOMAIN <<>> |-> entries[<<>>[k]].body] = <<>>
  OBVIOUS
<1>2. QED
  BY <1>1, TotalEmpty DEF BodiesOf

LEMMA WeightSingle ==
  ASSUME NEW entries \in Seq(Entry), NEW p \in 1..Len(entries)
  PROVE  BodiesOf(entries, <<p>>) = entries[p].body /\ entries[p].body \in Nat
<1>1. <<>> \in Seq(1..Len(entries)) /\ <<p>> = Append(<<>>, p)
  OBVIOUS
<1>2. entries[p].body \in Nat
  <2>1. entries[p] \in Entry
    BY ElementOfSeq
  <2>2. QED
    BY <2>1, ChunkingAssumption DEF Entry
<1>3. BodiesOf(entries, Append(<<>>, p)) = BodiesOf(entries, <<>>) + entries[p].body
  BY <1>1, Weights
<1>4. QED
  BY <1>1, <1>2, <1>3, WeightEmpty

-----------------------------------------------------------------------------
(* Type correctness *)

LEMMA ChunkingInitType == Init => TypeOK
<1> SUFFICES ASSUME Init PROVE TypeOK
  OBVIOUS
<1>1. PICK n \in 0..MaxInput : input \in [1..n -> Entry]
  BY DEF Init
<1>2. n \in Nat
  BY ChunkingAssumption
<1>3. input \in Seq(Entry) /\ Len(input) \in Nat
  BY <1>1, <1>2
<1>4. QED
  BY <1>3 DEF Init, TypeOK

\* What the first entry of a group left to cut is.
LEMMA HeadOfRest ==
  ASSUME TypeOK, rest # <<>>
  PROVE  /\ Head(rest) \in Positions /\ Tail(rest) \in Seq(Positions)
         /\ EntrySize \in Nat
<1>1. Head(rest) \in Positions /\ Tail(rest) \in Seq(Positions)
  BY HeadTailProperties DEF TypeOK
<1>2. QED
  BY <1>1, WeightSingle DEF TypeOK, Positions, EntrySize

LEMMA DoneIsChunk == ASSUME TypeOK, url # NoDestination PROVE Done \in Chunk
BY DEF TypeOK, Done, Chunk

LEMMA ChunkingNextType ==
  ASSUME TypeOK, url = NoDestination => rest = <<>>, Next PROVE TypeOK'
<1>1. CASE Group
  <2>1. taken + 1 \in Positions
    BY <1>1 DEF Group, TypeOK, Positions
  <2>2. groups' \in [Destinations -> Seq(Positions)]
    <3>1. PICK more : more = Append(groups[input[taken + 1].queue_url], taken + 1)
      OBVIOUS
    <3>2. input[taken + 1].queue_url \in Destinations
      BY <2>1, ElementOfSeq DEF TypeOK, Positions, Entry
    <3>3. more \in Seq(Positions)
      BY <2>1, <3>1, <3>2, AppendProperties DEF TypeOK
    <3>4. groups' = [groups EXCEPT ![input[taken + 1].queue_url] = more]
      BY <1>1, <3>1 DEF Group
    <3>5. QED
      BY <3>3, <3>4 DEF TypeOK
  <2>3. QED
    BY <1>1, <2>1, <2>2 DEF Group, TypeOK, Positions, Chunk
<1>2. ASSUME NEW d \in Destinations, StartGroup(d) PROVE TypeOK'
  <2>1. groups' \in [Destinations -> Seq(Positions)] /\ rest' \in Seq(Positions)
    BY <1>2 DEF StartGroup, TypeOK
  <2>2. QED
    BY <1>2, <2>1 DEF StartGroup, TypeOK, Positions, Chunk
<1>3. CASE Push
  <2>1. /\ Append(current, Head(rest)) \in Seq(Positions) /\ Tail(rest) \in Seq(Positions)
        /\ size + EntrySize \in Nat
    BY <1>3, HeadOfRest, AppendProperties DEF Push, TypeOK
  <2>2. QED
    BY <1>3, <2>1 DEF Push, TypeOK, Positions, Chunk
<1>4. CASE CutAndPush
  <2>1. /\ <<Head(rest)>> \in Seq(Positions) /\ Tail(rest) \in Seq(Positions)
        /\ EntrySize \in Nat
    BY <1>4, HeadOfRest DEF CutAndPush
  <2>2. Append(chunks, Done) \in Seq(Chunk)
    BY <1>4, DoneIsChunk, AppendProperties DEF CutAndPush, TypeOK
  <2>3. QED
    BY <1>4, <2>1, <2>2 DEF CutAndPush, TypeOK, Positions, Chunk
<1>5. CASE CloseGroup
  <2>1. chunks' \in Seq(Chunk)
    BY <1>5, DoneIsChunk, AppendProperties DEF CloseGroup, TypeOK
  <2>2. QED
    BY <1>5, <2>1 DEF CloseGroup, TypeOK, Positions, Chunk
<1>6. QED
  BY <1>1, <1>2, <1>3, <1>4, <1>5 DEF Next

-----------------------------------------------------------------------------
(* What is cut off stays within the limits, and is cut off for a reason *)

\* What chunk_entries has not begun to send to d.
NotStarted(d) == groups[d] # <<>> \/ (url = d /\ current = <<>>)

Fits(entries, s) ==
  /\ Len(s) \in 1..MAX_ENTRIES
  /\ BodiesOf(entries, s) <= MAX_BODY_BYTES \/ Len(s) = 1

\* The position p is one too many for s.
TooMuch(entries, s, p) ==
  Len(s) = MAX_ENTRIES \/ BodiesOf(entries, Append(s, p)) > MAX_BODY_BYTES

Phases ==
  /\ taken < Len(input) => url = NoDestination /\ chunks = <<>>
  /\ url = NoDestination => rest = <<>> /\ current = <<>>
  /\ \A d \in Destinations : groups[d] # <<>> => url # d
  /\ \A d \in Destinations : NotStarted(d) => \A i \in DOMAIN chunks : chunks[i].queue_url # d

Limits ==
  /\ \A i \in DOMAIN chunks : Fits(input, chunks[i].entries)
  /\ current # <<>> => Fits(input, current)
  /\ size = BodiesOf(input, current)

Reasons ==
  /\ \A i \in DOMAIN chunks \ {1} :
       chunks[i].queue_url = chunks[i - 1].queue_url
         => TooMuch(input, chunks[i - 1].entries, Head(chunks[i].entries))
  /\ current # <<>> /\ chunks # <<>> /\ chunks[Len(chunks)].queue_url = url
         => TooMuch(input, chunks[Len(chunks)].entries, Head(current))

CInv == TypeOK /\ Phases /\ Limits /\ Reasons

\* A chunk is added to those that are complete.
LEMMA OneMoreChunk ==
  ASSUME TypeOK, NEW c \in Chunk, chunks' = Append(chunks, c)
  PROVE  /\ Len(chunks) \in Nat /\ DOMAIN chunks = 1..Len(chunks)
         /\ DOMAIN chunks' = 1..(Len(chunks) + 1) /\ Len(chunks') = Len(chunks) + 1
         /\ \A i \in 1..Len(chunks) : chunks'[i] = chunks[i]
         /\ chunks'[Len(chunks) + 1] = c
         /\ chunks = <<>> <=> Len(chunks) = 0
<1>1. chunks \in Seq(Chunk) /\ chunks' \in Seq(Chunk)
  BY DEF TypeOK
<1>2. QED
  BY <1>1

LEMMA PushFits ==
  ASSUME CInv, Push
  PROVE  Fits(input, current') /\ size' = BodiesOf(input, current')
<1>1. /\ rest # <<>> /\ current' = Append(current, Head(rest)) /\ size' = size + EntrySize
      /\ input' = input /\ ~Full
  BY DEF Push
<1>2. /\ Head(rest) \in 1..Len(input) /\ current \in Seq(1..Len(input))
      /\ input \in Seq(Entry) /\ size = BodiesOf(input, current) /\ EntrySize \in Nat
      /\ EntrySize = input[Head(rest)].body
  BY <1>1, HeadOfRest DEF CInv, TypeOK, Positions, Limits, EntrySize
<1>3. /\ Len(current') = Len(current) + 1 /\ Len(current) \in Nat
      /\ current = <<>> => Len(current) = 0
  BY <1>1, <1>2, AppendProperties, LenProperties
<1>4. BodiesOf(input, current') = size + EntrySize /\ size \in Nat
  BY <1>1, <1>2, Weights
<1>5. CASE current = <<>>
  BY <1>1, <1>3, <1>4, <1>5, ChunkingAssumption DEF Fits
<1>6. CASE current # <<>>
  <2>1. Len(current) < MAX_ENTRIES /\ size + EntrySize <= MAX_BODY_BYTES
    <3>1. ~(Len(current) >= MAX_ENTRIES) /\ ~(size + EntrySize > MAX_BODY_BYTES)
      BY <1>1, <1>6 DEF Full
    <3>2. QED
      BY <1>2, <1>3, <1>4, <3>1, ChunkingAssumption
  <2>2. QED
    BY <1>1, <1>3, <1>4, <2>1, ChunkingAssumption DEF Fits
<1>7. QED
  BY <1>5, <1>6

\* The entry that is cut off would have been one too many.
LEMMA CutIsNeeded ==
  ASSUME CInv, CutAndPush
  PROVE  TooMuch(input, current, Head(rest))
<1>1. /\ rest # <<>> /\ current # <<>>
      /\ Len(current) >= MAX_ENTRIES \/ size + EntrySize > MAX_BODY_BYTES
  BY DEF CutAndPush, Full
<1>2. /\ Head(rest) \in 1..Len(input) /\ current \in Seq(1..Len(input))
      /\ input \in Seq(Entry) /\ size = BodiesOf(input, current)
      /\ EntrySize = input[Head(rest)].body
  BY <1>1, HeadOfRest DEF CInv, TypeOK, Positions, Limits, EntrySize
<1>3. BodiesOf(input, Append(current, Head(rest))) = size + EntrySize
  BY <1>2, Weights
<1>4. Len(current) \in 1..MAX_ENTRIES
  BY <1>1 DEF CInv, Limits, Fits
<1>5. QED
  BY <1>1, <1>3, <1>4, ChunkingAssumption DEF TooMuch

LEMMA GroupKeeps == ASSUME CInv, TypeOK', Group PROVE CInv'
<1>1. /\ url = NoDestination /\ chunks = <<>> /\ rest = <<>> /\ current = <<>>
      /\ UNCHANGED <<input, url, rest, current, size, chunks>>
  BY DEF CInv, Phases, Group
<1>2. DOMAIN chunks = {} /\ \A d \in Destinations : url # d
  BY <1>1, ChunkingAssumption
<1>3. Phases'
  BY <1>1, <1>2 DEF Phases, NotStarted
<1>4. Limits' /\ Reasons'
  BY <1>1, <1>2 DEF CInv, Limits, Reasons
<1>5. QED
  BY <1>3, <1>4 DEF CInv

LEMMA StartGroupKeeps ==
  ASSUME CInv, TypeOK', NEW d \in Destinations, StartGroup(d) PROVE CInv'
<1>1. /\ taken = Len(input) /\ url = NoDestination /\ groups[d] # <<>> /\ url' = d
      /\ groups' = [groups EXCEPT ![d] = <<>>] /\ current' = <<>> /\ size' = 0
      /\ UNCHANGED <<input, taken, chunks>>
  BY DEF StartGroup
<1>2. \A c \in Destinations : groups'[c] = IF c = d THEN <<>> ELSE groups[c]
  BY <1>1 DEF CInv, TypeOK
<1>3. Phases'
  <2>1. taken' = Len(input') /\ Len(input) \in Nat /\ url' # NoDestination
    BY <1>1, ChunkingAssumption DEF CInv, TypeOK
  <2>2. \A c \in Destinations : NotStarted(c)' => NotStarted(c)
    BY <1>1, <1>2 DEF NotStarted
  <2>3. QED
    BY <1>1, <1>2, <2>1, <2>2 DEF CInv, Phases
<1>4. Limits'
  BY <1>1, WeightEmpty DEF CInv, Limits, Fits
<1>5. Reasons'
  BY <1>1 DEF CInv, Reasons, TooMuch
<1>6. QED
  BY <1>3, <1>4, <1>5 DEF CInv

LEMMA PushKeeps == ASSUME CInv, TypeOK', Push PROVE CInv'
<1>1. /\ rest # <<>> /\ current' = Append(current, Head(rest))
      /\ UNCHANGED <<input, taken, groups, url, chunks>>
  BY DEF Push
<1>2. /\ Head(rest) \in Positions /\ current \in Seq(Positions) /\ url # NoDestination
      /\ current' # <<>>
      /\ Head(current') = IF current = <<>> THEN Head(rest) ELSE Head(current)
  <2>1. Head(rest) \in Positions /\ current \in Seq(Positions) /\ url # NoDestination
    BY <1>1, HeadOfRest DEF CInv, Phases, TypeOK
  <2>2. QED
    BY <1>1, <2>1, AppendProperties, HeadTailAppend
<1>3. Phases'
  BY <1>1, <1>2 DEF CInv, Phases, NotStarted
<1>4. Limits'
  BY <1>1, PushFits DEF CInv, Limits, Fits
<1>5. Reasons'
  <2>1. CASE current = <<>>
    <3>1. url \in Destinations /\ NotStarted(url)
      BY <1>2, <2>1 DEF CInv, TypeOK, NotStarted
    <3>2. \A i \in DOMAIN chunks : chunks[i].queue_url # url
      BY <3>1 DEF CInv, Phases
    <3>3. chunks # <<>> => Len(chunks) \in DOMAIN chunks
      BY DEF CInv, TypeOK
    <3>4. QED
      BY <1>1, <3>2, <3>3 DEF CInv, Reasons, TooMuch
  <2>2. CASE current # <<>>
    BY <1>1, <1>2, <2>2 DEF CInv, Reasons, TooMuch
  <2>3. QED
    BY <2>1, <2>2
<1>6. QED
  BY <1>3, <1>4, <1>5 DEF CInv

\* The chunk being filled is complete: what CutAndPush and CloseGroup have in common.
LEMMA CompleteKeeps ==
  ASSUME CInv, url # NoDestination, current # <<>>, chunks' = Append(chunks, Done),
         UNCHANGED <<input, taken, groups>>
  PROVE  /\ \A i \in DOMAIN chunks' : Fits(input, chunks'[i].entries)
         /\ \A i \in DOMAIN chunks' \ {1} :
              chunks'[i].queue_url = chunks'[i - 1].queue_url
                => TooMuch(input, chunks'[i - 1].entries, Head(chunks'[i].entries))
         /\ \A d \in Destinations :
              groups[d] # <<>> => \A i \in DOMAIN chunks' : chunks'[i].queue_url # d
<1>1. Done \in Chunk /\ Done.queue_url = url /\ Done.entries = current
  BY DoneIsChunk DEF CInv, Done
<1> DEFINE n == Len(chunks)
<1>2. /\ n \in Nat /\ DOMAIN chunks = 1..n /\ DOMAIN chunks' = 1..(n + 1)
      /\ \A i \in 1..n : chunks'[i] = chunks[i]
      /\ chunks'[n + 1] = Done /\ (chunks = <<>> <=> n = 0)
  BY <1>1, OneMoreChunk DEF CInv
<1> HIDE DEF n
<1>3. \A i \in 1..(n + 1) : i \in 1..n \/ i = n + 1
  BY <1>2
<1>4. \A i \in DOMAIN chunks' : Fits(input, chunks'[i].entries)
  BY <1>1, <1>2, <1>3 DEF CInv, Limits, Fits
<1>5. ASSUME NEW i \in DOMAIN chunks' \ {1}, chunks'[i].queue_url = chunks'[i - 1].queue_url
      PROVE  TooMuch(input, chunks'[i - 1].entries, Head(chunks'[i].entries))
  <2>1. i - 1 \in 1..n
    BY <1>2
  <2>2. CASE i \in 1..n
    BY <1>2, <1>5, <2>1, <2>2 DEF CInv, Reasons, TooMuch
  <2>3. CASE i = n + 1
    <3>1. i - 1 = n /\ chunks # <<>> /\ chunks[n].queue_url = url
      BY <1>1, <1>2, <1>5, <2>1, <2>3
    <3>2. TooMuch(input, chunks[n].entries, Head(current))
      BY <3>1 DEF CInv, Reasons, n
    <3>3. QED
      BY <1>1, <1>2, <2>1, <2>3, <3>1, <3>2 DEF TooMuch
  <2>4. QED
    BY <1>2, <1>3, <2>2, <2>3
<1>6. \A d \in Destinations :
        groups[d] # <<>> => \A i \in DOMAIN chunks' : chunks'[i].queue_url # d
  BY <1>1, <1>2, <1>3 DEF CInv, Phases, NotStarted
<1>7. QED
  BY <1>4, <1>5, <1>6

LEMMA CutKeeps == ASSUME CInv, TypeOK', CutAndPush PROVE CInv'
<1>1. /\ rest # <<>> /\ current # <<>> /\ chunks' = Append(chunks, Done)
      /\ current' = <<Head(rest)>> /\ size' = EntrySize
      /\ UNCHANGED <<input, taken, groups, url>>
  BY DEF CutAndPush, Full
<1>2. url # NoDestination /\ ~(taken < Len(input))
  BY <1>1 DEF CInv, Phases
<1>3. Phases'
  BY <1>1, <1>2, CompleteKeeps DEF CInv, Phases, NotStarted
<1>4. Limits'
  <2>1. /\ Head(rest) \in 1..Len(input) /\ input \in Seq(Entry)
        /\ EntrySize = input[Head(rest)].body
    BY <1>1, HeadOfRest DEF CInv, TypeOK, Positions, EntrySize
  <2>2. Len(<<Head(rest)>>) = 1 /\ BodiesOf(input, <<Head(rest)>>) = EntrySize
    BY <2>1, WeightSingle
  <2>3. Fits(input, current')
    BY <1>1, <2>2, ChunkingAssumption DEF Fits
  <2>4. QED
    BY <1>1, <1>2, <2>2, <2>3, CompleteKeeps DEF Limits
<1>5. Reasons'
  <2>1. /\ Len(chunks') = Len(chunks) + 1 /\ chunks'[Len(chunks) + 1] = Done
        /\ Done.entries = current
    BY <1>1, <1>2, OneMoreChunk, DoneIsChunk DEF CInv, Done
  <2>2. Head(current') = Head(rest)
    BY <1>1
  <2>3. TooMuch(input, chunks'[Len(chunks')].entries, Head(current'))
    BY <1>1, <2>1, <2>2, CutIsNeeded DEF TooMuch
  <2>4. QED
    BY <1>1, <1>2, <2>3, CompleteKeeps DEF Reasons
<1>6. QED
  BY <1>3, <1>4, <1>5 DEF CInv

LEMMA CloseGroupKeeps == ASSUME CInv, TypeOK', CloseGroup PROVE CInv'
<1>1. /\ url # NoDestination /\ rest = <<>> /\ url' = NoDestination
      /\ chunks' = IF current = <<>> THEN chunks ELSE Append(chunks, Done)
      /\ current' = <<>> /\ size' = 0 /\ UNCHANGED <<input, taken, groups, rest>>
  BY DEF CloseGroup
<1>2. ~(taken < Len(input)) /\ \A d \in Destinations : url' # d
  BY <1>1, ChunkingAssumption DEF CInv, Phases
<1>3. CASE current = <<>>
  BY <1>1, <1>2, <1>3, WeightEmpty
  DEF CInv, Phases, Limits, Reasons, NotStarted, Fits, TooMuch
<1>4. CASE current # <<>>
  <2>1. Phases'
    BY <1>1, <1>2, <1>4, CompleteKeeps DEF Phases, NotStarted
  <2>2. Limits' /\ Reasons'
    BY <1>1, <1>4, CompleteKeeps, WeightEmpty DEF Limits, Reasons
  <2>3. QED
    BY <2>1, <2>2 DEF CInv
<1>5. QED
  BY <1>3, <1>4

LEMMA CInvInit == Init => CInv
<1> SUFFICES ASSUME Init PROVE CInv
  OBVIOUS
<1>1. /\ taken = 0 /\ url = NoDestination /\ rest = <<>> /\ current = <<>> /\ size = 0
      /\ chunks = <<>> /\ DOMAIN chunks = {}
      /\ \A d \in Destinations : groups[d] = <<>> /\ url # d
  BY ChunkingAssumption DEF Init
<1>2. Phases
  BY <1>1 DEF Phases
<1>3. Limits /\ Reasons
  BY <1>1, WeightEmpty DEF Limits, Reasons
<1>4. QED
  BY <1>2, <1>3, ChunkingInitType DEF CInv

LEMMA CInvStep == CInv /\ [Next]_vars => CInv'
<1> SUFFICES ASSUME CInv, [Next]_vars PROVE CInv'
  OBVIOUS
<1>1. CASE UNCHANGED vars
  BY <1>1 DEF vars, CInv, TypeOK, Positions, Chunk, Phases, NotStarted, Limits, Fits, Reasons,
              TooMuch
<1>2. CASE Next
  <2>1. TypeOK'
    BY <1>2, ChunkingNextType DEF CInv, Phases
  <2>2. QED
    BY <1>2, <2>1, GroupKeeps, StartGroupKeeps, PushKeeps, CutKeeps, CloseGroupKeeps DEF Next
<1>3. QED
  BY <1>1, <1>2

LEMMA Cutting == Spec => []CInv
BY CInvInit, CInvStep, PTL DEF Spec

\* In every reachable state, what chunk_entries works with has its type: every
\* position in a group, in a chunk or still to be cut is one of the input
\* (replay.rs:109-143).
THEOREM ChunkingTypeCorrect == Spec => []TypeOK
<1>1. CInv => TypeOK
  BY DEF CInv
<1>2. QED
  BY <1>1, Cutting, PTL

\* No call is empty, has more than ten entries, or bodies of more than 240 KB unless
\* it is a single message (replay.rs:103-106, 123-131).
THEOREM CallsFit == Spec => []CallsWithinLimits
<1>1. CInv => CallsWithinLimits
  BY DEF CInv, Limits, Fits, CallsWithinLimits, EntriesWithinLimit, BodiesWithinLimit, Bodies,
         BodiesOf, IsSingle
<1>2. QED
  BY <1>1, Cutting, PTL

\* A call that follows another one to the same queue was needed: its first entry did
\* not fit into the one before (replay.rs:100, 123-131).
THEOREM CallsNeeded == Spec => []NoCallToSpare
<1>1. CInv => NoCallToSpare
  BY DEF CInv, Reasons, TooMuch, NoCallToSpare, Bodies, BodiesOf
<1>2. QED
  BY <1>1, Cutting, PTL

\* A call is larger than SQS accepts only when its attributes fill more than the
\* headroom that MAX_BODY_BYTES leaves, or when it is one message of more than
\* MAX_BODY_BYTES (replay.rs:11-14, 103-106).
THEOREM OverLimitExplained == Spec => []OverLimitOnlyByAttributes
<1>1. CInv => OverLimitOnlyByAttributes
  <2> SUFFICES ASSUME CInv, NEW i \in DOMAIN chunks, Payload(chunks[i]) > PayloadLimit
               PROVE  \/ SentAttributes(chunks[i].entries) > Headroom
                      \/ IsSingle(chunks[i]) /\ Bodies(chunks[i].entries) > MAX_BODY_BYTES
    BY DEF OverLimitOnlyByAttributes
  <2> DEFINE s == chunks[i].entries
  <2>1. s \in Seq(1..Len(input)) /\ input \in Seq(Entry)
    <3>1. chunks[i] \in Chunk
      BY DEF CInv, TypeOK
    <3>2. QED
      BY <3>1 DEF CInv, TypeOK, Chunk, Positions
  <2>2. Bodies(s) \in Nat /\ SentAttributes(s) \in Nat
    BY <2>1, Weights DEF Bodies, BodiesOf, SentAttributes, AttributesOf
  <2>3. Bodies(s) <= MAX_BODY_BYTES \/ IsSingle(chunks[i])
    BY DEF CInv, Limits, Fits, Bodies, BodiesOf, IsSingle
  <2>4. Payload(chunks[i]) = Bodies(s) + SentAttributes(s)
    BY DEF Payload
  <2> HIDE DEF s
  <2>5. QED
    BY <2>2, <2>3, <2>4, ChunkingAssumption DEF Headroom, s
<1>2. QED
  BY <1>1, Cutting, PTL

-----------------------------------------------------------------------------
(* What is sent to a queue *)

Increasing(s) == \A i, j \in DOMAIN s : i < j => s[i] < s[j]

LEMMA SentType ==
  ASSUME TypeOK, NEW d \in Destinations
  PROVE  /\ ChunksTo(d) \in Seq(Seq(Positions))
         /\ FlattenSeq(ChunksTo(d)) \in Seq(Positions)
         /\ groups[d] \in Seq(Positions)
         /\ Sent(d) = FlattenSeq(ChunksTo(d)) \o (IF url = d THEN current \o rest ELSE <<>>)
                         \o groups[d]
<1>1. \A i \in DOMAIN chunks : chunks[i].entries \in Seq(Positions)
  <2>1. \A i \in DOMAIN chunks : chunks[i] \in Chunk
    BY DEF TypeOK
  <2>2. QED
    BY <2>1 DEF Chunk
<1>2. ChunksTo(d) \in Seq(Seq(Positions))
  <2>1. /\ Len(chunks) \in Nat /\ DOMAIN chunks = 1..Len(chunks)
        /\ <<>> \in Seq(Positions)
    BY DEF TypeOK
  <2>2. QED
    BY <1>1, <2>1 DEF ChunksTo
<1>3. QED
  BY <1>2, FlattenType DEF TypeOK, Sent

\* A chunk is complete: what goes to its queue is longer by its entries.
LEMMA MoreChunksTo ==
  ASSUME TypeOK, url # NoDestination, chunks' = Append(chunks, Done), NEW d \in Destinations
  PROVE  FlattenSeq(ChunksTo(d)') =
           FlattenSeq(ChunksTo(d)) \o (IF url = d THEN current ELSE <<>>)
<1> DEFINE n == Len(chunks)
           new == IF url = d THEN current ELSE <<>>
<1>1. Done \in Chunk /\ Done.queue_url = url /\ Done.entries = current
  BY DoneIsChunk DEF Done
<1>2. /\ n \in Nat /\ DOMAIN chunks = 1..n /\ DOMAIN chunks' = 1..(n + 1)
      /\ \A i \in 1..n : chunks'[i] = chunks[i]
      /\ chunks'[n + 1] = Done
  BY <1>1, OneMoreChunk
<1>3. new \in Seq(Positions) /\ ChunksTo(d) \in Seq(Seq(Positions))
  BY SentType DEF TypeOK
<1>4. Len(ChunksTo(d)) = n /\ DOMAIN ChunksTo(d) = 1..n
  BY <1>2, <1>3 DEF ChunksTo
<1>5. /\ Append(ChunksTo(d), new) \in Seq(Seq(Positions))
      /\ Len(Append(ChunksTo(d), new)) = n + 1
      /\ \A i \in 1..n : Append(ChunksTo(d), new)[i] = ChunksTo(d)[i]
      /\ Append(ChunksTo(d), new)[n + 1] = new
  <2> HIDE DEF n, new
  <2>1. QED
    BY <1>3, <1>4, AppendProperties
<1>6. ChunksTo(d)' = [i \in 1..(n + 1) |->
                       IF chunks'[i].queue_url = d THEN chunks'[i].entries ELSE <<>>]
  BY <1>2 DEF ChunksTo
<1>7. \A i \in 1..(n + 1) : ChunksTo(d)'[i] = Append(ChunksTo(d), new)[i]
  <2> SUFFICES ASSUME NEW i \in 1..(n + 1) PROVE ChunksTo(d)'[i] = Append(ChunksTo(d), new)[i]
    OBVIOUS
  <2>1. ChunksTo(d)'[i] = IF chunks'[i].queue_url = d THEN chunks'[i].entries ELSE <<>>
    BY <1>6
  <2>2. CASE i = n + 1
    BY <1>1, <1>2, <1>5, <2>1, <2>2
  <2>3. CASE i # n + 1
    <3>1. i \in 1..n
      BY <1>2, <2>3
    <3>2. ChunksTo(d)[i] = IF chunks[i].queue_url = d THEN chunks[i].entries ELSE <<>>
      BY <1>2, <3>1 DEF ChunksTo
    <3>3. QED
      BY <1>2, <1>5, <2>1, <3>1, <3>2
  <2>4. QED
    BY <2>2, <2>3
<1>8. ChunksTo(d)' = Append(ChunksTo(d), new)
  <2>1. Append(ChunksTo(d), new) \in [1..(n + 1) -> Seq(Positions)]
    BY <1>5, LenProperties
  <2> DEFINE l == ChunksTo(d)'
             r == Append(ChunksTo(d), new)
  <2>2. l = [i \in 1..(n + 1) |-> l[i]]
    BY <1>6
  <2>3. r = [i \in 1..(n + 1) |-> r[i]]
    BY <2>1
  <2>4. \A i \in 1..(n + 1) : l[i] = r[i]
    BY <1>7
  <2> HIDE DEF l, r
  <2>5. l = r
    BY <2>2, <2>3, <2>4
  <2>6. QED
    BY <2>5 DEF l, r
<1>9. QED
  BY <1>3, <1>8, FlattenAppend

LEMMA Shift ==
  ASSUME NEW S, NEW s \in Seq(S), NEW r \in Seq(S), r # <<>>
  PROVE  Append(s, Head(r)) \o Tail(r) = s \o r
<1>1. Head(r) \in S /\ Tail(r) \in Seq(S) /\ Len(r) \in Nat \ {0} /\ Len(Tail(r)) = Len(r) - 1
      /\ \A i \in 1..Len(Tail(r)) : Tail(r)[i] = r[i + 1]
      /\ Head(r) = r[1]
  BY HeadTailProperties, EmptySeq
<1>2. Len(s) \in Nat /\ Append(s, Head(r)) \in Seq(S)
      /\ Len(Append(s, Head(r))) = Len(s) + 1
      /\ \A i \in 1..Len(s) : Append(s, Head(r))[i] = s[i]
      /\ Append(s, Head(r))[Len(s) + 1] = Head(r)
  BY <1>1, AppendProperties, LenProperties
<1> DEFINE a == Append(s, Head(r))
           t == Tail(r)
<1> HIDE DEF a, t
<1>3. /\ a \o t \in Seq(S) /\ Len(a \o t) = Len(s) + Len(r)
      /\ \A i \in 1..(Len(s) + Len(r)) :
           (a \o t)[i] = IF i <= Len(s) + 1 THEN a[i] ELSE t[i - (Len(s) + 1)]
  BY <1>1, <1>2, ConcatProperties DEF a, t
<1>4. /\ s \o r \in Seq(S) /\ Len(s \o r) = Len(s) + Len(r)
      /\ \A i \in 1..(Len(s) + Len(r)) :
           (s \o r)[i] = IF i <= Len(s) THEN s[i] ELSE r[i - Len(s)]
  BY ConcatProperties
<1>5. ASSUME NEW i \in 1..(Len(s) + Len(r)) PROVE (a \o t)[i] = (s \o r)[i]
  <2>1. CASE i <= Len(s)
    BY <1>1, <1>2, <1>3, <1>4, <2>1 DEF a
  <2>2. CASE i = Len(s) + 1
    BY <1>1, <1>2, <1>3, <1>4, <2>2 DEF a
  <2>3. CASE i > Len(s) + 1
    <3>1. i - (Len(s) + 1) \in 1..Len(t) /\ (i - (Len(s) + 1)) + 1 = i - Len(s)
      BY <1>1, <1>2, <2>3 DEF t
    <3>2. t[i - (Len(s) + 1)] = r[i - Len(s)]
      BY <1>1, <3>1 DEF t
    <3>3. QED
      BY <1>1, <1>2, <1>3, <1>4, <2>3, <3>2
  <2>4. i <= Len(s) \/ i = Len(s) + 1 \/ i > Len(s) + 1
    BY <1>1, <1>2
  <2>5. QED
    BY <2>1, <2>2, <2>3, <2>4
<1>6. a \o t = s \o r
  BY <1>3, <1>4, <1>5, SeqEqual
<1>7. QED
  BY <1>6 DEF a, t

\* Cutting moves entries along what is sent to a queue, and changes nothing in it.
LEMMA CuttingSendsTheSame ==
  ASSUME CInv, TypeOK', NEW d \in Destinations,
         (\E c \in Destinations : StartGroup(c)) \/ Push \/ CutAndPush \/ CloseGroup
  PROVE  Sent(d)' = Sent(d)
<1> DEFINE flat == FlattenSeq(ChunksTo(d))
           group == groups[d]
<1>1. /\ flat \in Seq(Positions) /\ group \in Seq(Positions) /\ <<>> \in Seq(Positions)
      /\ current \in Seq(Positions) /\ rest \in Seq(Positions)
      /\ Sent(d) = flat \o (IF url = d THEN current \o rest ELSE <<>>) \o group
  <2>1. TypeOK
    BY DEF CInv
  <2>2. /\ flat \in Seq(Positions) /\ group \in Seq(Positions)
        /\ Sent(d) = flat \o (IF url = d THEN current \o rest ELSE <<>>) \o group
    BY <2>1, SentType
  <2>3. current \in Seq(Positions) /\ rest \in Seq(Positions) /\ <<>> \in Seq(Positions)
    BY <2>1 DEF TypeOK
  <2>4. QED
    BY <2>2, <2>3
<1>2. /\ flat \o <<>> = flat /\ <<>> \o group = group /\ group \o <<>> = group
      /\ current \o <<>> = current
  BY <1>1, ConcatEmptySeq
<1>3. ASSUME UNCHANGED chunks PROVE FlattenSeq(ChunksTo(d))' = flat
  BY <1>3 DEF ChunksTo
<1>4. ASSUME NEW c \in Destinations, StartGroup(c) PROVE Sent(d)' = Sent(d)
  <2>1. /\ url = NoDestination /\ url # d /\ url' = c /\ rest' = groups[c] /\ current' = <<>>
        /\ groups' = [groups EXCEPT ![c] = <<>>]
    BY <1>4, ChunkingAssumption DEF StartGroup
  <2>2. Sent(d)' = flat \o (IF url' = d THEN current' \o rest' ELSE <<>>) \o groups'[d]
    BY <1>3, <1>4 DEF StartGroup, Sent
  <2>3. CASE c = d
    <3>1. groups'[d] = <<>>
      BY <2>1, <2>3 DEF CInv, TypeOK
    <3>2. Sent(d)' = flat \o (<<>> \o group) \o <<>>
      BY <2>1, <2>2, <2>3, <3>1
    <3>3. flat \o group \in Seq(Positions)
      BY <1>1, ConcatProperties
    <3>4. (flat \o group) \o <<>> = flat \o group
      BY <3>3, ConcatEmptySeq
    <3> HIDE DEF flat, group
    <3>5. QED
      BY <1>1, <1>2, <2>1, <3>2, <3>4
  <2>4. CASE c # d
    <3>1. groups'[d] = group
      BY <2>1, <2>4 DEF CInv, TypeOK
    <3>2. QED
      BY <1>1, <2>1, <2>2, <2>4, <3>1
  <2>5. QED
    BY <2>3, <2>4
<1>5. CASE Push
  <2>1. /\ current' \o rest' = current \o rest
        /\ UNCHANGED <<chunks, url, groups>>
    BY <1>1, <1>5, Shift DEF Push
  <2>2. QED
    BY <1>1, <1>3, <2>1 DEF Sent
<1>6. CASE CutAndPush
  <2>1. /\ rest # <<>> /\ current' = <<Head(rest)>> /\ rest' = Tail(rest)
        /\ chunks' = Append(chunks, Done) /\ UNCHANGED <<url, groups>> /\ url # NoDestination
    BY <1>6 DEF CutAndPush, CInv, Phases
  <2>2. current' \o rest' = rest
    <3>1. Append(<<>>, Head(rest)) \o Tail(rest) = <<>> \o rest
      BY <1>1, <2>1, Shift
    <3>2. Append(<<>>, Head(rest)) = <<Head(rest)>> /\ <<>> \o rest = rest
      BY <1>1, ConcatEmptySeq
    <3>3. QED
      BY <2>1, <3>1, <3>2
  <2>3. FlattenSeq(ChunksTo(d))' = flat \o (IF url = d THEN current ELSE <<>>)
    BY <2>1, MoreChunksTo DEF CInv
  <2>4. (flat \o current) \o rest = flat \o (current \o rest)
    BY <1>1, ConcatAssociative
  <2>5. Sent(d)' = FlattenSeq(ChunksTo(d))' \o (IF url = d THEN rest ELSE <<>>) \o group
    BY <2>1, <2>2 DEF Sent
  <2> HIDE DEF flat, group
  <2>6. QED
    BY <1>1, <1>2, <2>3, <2>4, <2>5
<1>7. CASE CloseGroup
  <2>1. /\ rest = <<>> /\ url' # d /\ url # NoDestination /\ UNCHANGED groups
        /\ chunks' = IF current = <<>> THEN chunks ELSE Append(chunks, Done)
    BY <1>7, ChunkingAssumption DEF CloseGroup
  <2>2. FlattenSeq(ChunksTo(d))' = flat \o (IF url = d THEN current ELSE <<>>)
    <3>1. CASE current = <<>>
      BY <1>2, <1>3, <2>1, <3>1
    <3>2. CASE current # <<>>
      BY <2>1, <3>2, MoreChunksTo DEF CInv
    <3>3. QED
      BY <3>1, <3>2
  <2>3. Sent(d)' = FlattenSeq(ChunksTo(d))' \o <<>> \o group
    BY <2>1 DEF Sent
  <2>4. (flat \o current) \o <<>> = flat \o current
    <3>1. flat \o current \in Seq(Positions)
      BY <1>1, ConcatProperties
    <3> HIDE DEF flat
    <3>2. QED
      BY <3>1, ConcatEmptySeq
  <2> HIDE DEF flat, group
  <2>5. QED
    BY <1>1, <1>2, <2>1, <2>2, <2>3, <2>4
<1>8. QED
  BY <1>4, <1>5, <1>6, <1>7

\* An entry is put into its group: it is the last of what is sent to its queue so far.
LEMMA GroupSendsOneMore ==
  ASSUME CInv, Group, NEW d \in Destinations
  PROVE  Sent(d)' = IF input[taken + 1].queue_url = d THEN Append(Sent(d), taken + 1) ELSE Sent(d)
<1>1. /\ url = NoDestination /\ url # d /\ chunks = <<>> /\ UNCHANGED <<url, chunks, current, rest>>
      /\ groups' = [groups EXCEPT ![input[taken + 1].queue_url] = Append(@, taken + 1)]
  BY ChunkingAssumption DEF CInv, Phases, Group
<1>2. groups'[d] = IF input[taken + 1].queue_url = d THEN Append(groups[d], taken + 1) ELSE groups[d]
  BY <1>1, Zenon DEF CInv, TypeOK
<1>3. taken + 1 \in Positions
  BY DEF Group, CInv, TypeOK, Positions
<1>4. /\ groups[d] \in Seq(Positions) /\ groups'[d] \in Seq(Positions)
      /\ <<>> \o <<>> = <<>>
  <2>1. groups[d] \in Seq(Positions) /\ <<>> \in Seq(Positions)
    BY DEF CInv, TypeOK
  <2>2. QED
    BY <1>2, <1>3, <2>1, AppendProperties, ConcatEmptySeq
<1>5. FlattenSeq(ChunksTo(d)) = <<>> /\ FlattenSeq(ChunksTo(d))' = <<>>
  <2>1. ChunksTo(d) = <<>> /\ ChunksTo(d)' = <<>>
    BY <1>1 DEF ChunksTo
  <2>2. QED
    BY <2>1, FlattenEmpty
<1>6. Sent(d) = groups[d] /\ Sent(d)' = groups'[d]
  <2>1. Sent(d) = <<>> \o <<>> \o groups[d] /\ Sent(d)' = <<>> \o <<>> \o groups'[d]
    BY <1>1, <1>5 DEF Sent
  <2>2. <<>> \o groups[d] = groups[d] /\ <<>> \o groups'[d] = groups'[d]
    BY <1>4, ConcatEmptySeq
  <2>3. QED
    BY <1>4, <2>1, <2>2
<1>7. QED
  BY <1>2, <1>6

LEMMA GroupKeepsWhole == ASSUME CInv, GroupsStayWhole, Group PROVE GroupsStayWhole'
<1>1. /\ taken \in Nat /\ taken' = taken + 1 /\ input' = input
      /\ TypeOK /\ taken + 1 \in Positions
  BY DEF Group, CInv, TypeOK, Positions
<1> SUFFICES ASSUME NEW d \in Destinations
             PROVE  /\ Range(Sent(d)') = {p \in 1..taken' : input[p].queue_url = d}
                    /\ Increasing(Sent(d)')
  BY <1>1 DEF GroupsStayWhole, Increasing
<1> DEFINE s == Sent(d)
           n == Len(s)
           p == taken + 1
<1>2. Range(s) = {q \in 1..taken : input[q].queue_url = d} /\ Increasing(s)
  BY DEF GroupsStayWhole, Increasing
<1>3. s \in Seq(Positions)
  <2>1. /\ FlattenSeq(ChunksTo(d)) \in Seq(Positions) /\ groups[d] \in Seq(Positions)
        /\ current \in Seq(Positions) /\ rest \in Seq(Positions) /\ <<>> \in Seq(Positions)
        /\ s = FlattenSeq(ChunksTo(d)) \o (IF url = d THEN current \o rest ELSE <<>>)
                 \o groups[d]
    <3>1. /\ FlattenSeq(ChunksTo(d)) \in Seq(Positions) /\ groups[d] \in Seq(Positions)
          /\ s = FlattenSeq(ChunksTo(d)) \o (IF url = d THEN current \o rest ELSE <<>>)
                   \o groups[d]
      BY <1>1, SentType
    <3>2. current \in Seq(Positions) /\ rest \in Seq(Positions)
      BY <1>1 DEF TypeOK
    <3>3. <<>> \in Seq(Positions)
      OBVIOUS
    <3>4. QED
      BY <3>1, <3>2, <3>3
  <2>2. current \o rest \in Seq(Positions)
    BY <2>1, ConcatProperties
  <2>3. FlattenSeq(ChunksTo(d)) \o (IF url = d THEN current \o rest ELSE <<>>) \in Seq(Positions)
    BY <2>1, <2>2, ConcatProperties
  <2>4. QED
    BY <2>1, <2>3, ConcatProperties
<1>4. Sent(d)' = IF input[p].queue_url = d THEN Append(s, p) ELSE s
  BY GroupSendsOneMore
<1> HIDE DEF s
<1>5. \A q : q \in 1..taken' <=> q \in 1..taken \/ q = p
  BY <1>1
<1>6. CASE input[p].queue_url # d
  BY <1>2, <1>4, <1>5, <1>6
<1>7. CASE input[p].queue_url = d
  <2> DEFINE t == Append(s, p)
  <2>1. /\ n \in Nat /\ DOMAIN s = 1..n /\ DOMAIN t = 1..(n + 1)
        /\ \A i \in 1..n : t[i] = s[i]
        /\ t[n + 1] = p
    <3>1. t \in Seq(Positions) /\ Len(t) = n + 1
      BY <1>1, <1>3, AppendProperties
    <3>2. DOMAIN t = 1..Len(t)
      BY <3>1, LenProperties
    <3>3. QED
      BY <1>1, <1>3, <3>1, <3>2, AppendProperties, LenProperties
  <2> HIDE DEF t, n
  <2>2. \A i \in 1..n : s[i] \in 1..taken
    BY <1>2, <2>1 DEF Range
  <2>3. \A i : i \in 1..(n + 1) <=> i \in 1..n \/ i = n + 1
    BY <2>1
  <2>4. \A q : q \in Range(t) <=> q \in Range(s) \/ q = p
    <3>1. \A q : q \in Range(t) <=> \E i \in 1..(n + 1) : q = t[i]
      BY <2>1 DEF Range
    <3>2. \A q : q \in Range(s) <=> \E i \in 1..n : q = s[i]
      BY <2>1 DEF Range
    <3>3. QED
      BY <2>1, <2>3, <3>1, <3>2
  <2>5. Range(t) = {q \in 1..taken' : input[q].queue_url = d}
    BY <1>2, <1>5, <1>7, <2>4
  <2>6. Increasing(t)
    <3> SUFFICES ASSUME NEW i \in 1..(n + 1), NEW j \in 1..(n + 1), i < j PROVE t[i] < t[j]
      BY <2>1 DEF Increasing
    <3>1. i \in 1..n
      BY <2>1
    <3>2. CASE j = n + 1
      BY <1>1, <2>1, <2>2, <3>1, <3>2
    <3>3. CASE j \in 1..n
      BY <1>2, <2>1, <3>1, <3>3 DEF Increasing
    <3>4. QED
      BY <2>3, <3>2, <3>3
  <2>7. QED
    BY <1>4, <1>7, <2>5, <2>6 DEF t
<1>8. QED
  BY <1>6, <1>7

LEMMA WholeStep == CInv /\ TypeOK' /\ GroupsStayWhole /\ [Next]_vars => GroupsStayWhole'
<1> SUFFICES ASSUME CInv, TypeOK', GroupsStayWhole, [Next]_vars PROVE GroupsStayWhole'
  OBVIOUS
<1>1. CASE Group
  BY <1>1, GroupKeepsWhole
<1>2. CASE (\E c \in Destinations : StartGroup(c)) \/ Push \/ CutAndPush \/ CloseGroup
  <2>1. \A d \in Destinations : Sent(d)' = Sent(d)
    BY <1>2, CuttingSendsTheSame
  <2>2. UNCHANGED <<input, taken>>
    BY <1>2 DEF StartGroup, Push, CutAndPush, CloseGroup
  <2>3. QED
    BY <2>1, <2>2 DEF GroupsStayWhole
<1>3. CASE UNCHANGED vars
  <2>1. \A d \in Destinations : Sent(d)' = Sent(d)
    BY <1>3 DEF vars, Sent, ChunksTo
  <2>2. UNCHANGED <<input, taken>>
    BY <1>3 DEF vars
  <2>3. QED
    BY <2>1, <2>2 DEF GroupsStayWhole
<1>4. QED
  BY <1>1, <1>2, <1>3 DEF Next

LEMMA WholeInit == Init => GroupsStayWhole
<1> SUFFICES ASSUME Init, NEW d \in Destinations
             PROVE  Range(Sent(d)) = {} /\ DOMAIN Sent(d) = {} /\ 1..taken = {}
  BY DEF GroupsStayWhole
<1>1. /\ groups[d] = <<>> /\ url # d /\ ChunksTo(d) = <<>> /\ taken = 0
  BY ChunkingAssumption DEF Init, ChunksTo
<1>2. Sent(d) = <<>> \o <<>> \o <<>>
  BY <1>1, FlattenEmpty DEF Sent
<1>3. Sent(d) = <<>>
  BY <1>2
<1>4. QED
  BY <1>1, <1>3 DEF Range

\* chunk_entries drops no entry, sends none twice or to another queue, and keeps the
\* order of the entries of each queue, whatever the order in which the HashMap yields
\* the groups (replay.rs:103-143).
THEOREM NothingLostInCalls == Spec => []GroupsStayWhole
<1>1. CInv /\ [Next]_vars => CInv'
  BY CInvStep
<1>2. CInv /\ GroupsStayWhole /\ [Next]_vars => CInv' /\ GroupsStayWhole'
  BY <1>1, WholeStep DEF CInv
<1>3. QED
  BY <1>2, CInvInit, WholeInit, PTL DEF Spec

-----------------------------------------------------------------------------
(* The promise of CallContract *)

\* The pieces of an increasing sequence have no element in common.
PiecesOf(seqs) ==
  /\ Range(FlattenSeq(seqs)) = UNION {Range(seqs[i]) : i \in DOMAIN seqs}
  /\ Increasing(FlattenSeq(seqs)) =>
       \A i, j \in DOMAIN seqs : i < j => Range(seqs[i]) \cap Range(seqs[j]) = {}

LEMMA PiecesAppend ==
  ASSUME NEW front \in Seq(Seq(Nat)), NEW last \in Seq(Nat), PiecesOf(front)
  PROVE  PiecesOf(Append(front, last))
<1> DEFINE n == Len(front)
           seqs == Append(front, last)
           flat == FlattenSeq(front)
           m == Len(flat)
           more == FlattenSeq(seqs)
<1>1. /\ n \in Nat /\ DOMAIN front = 1..n /\ DOMAIN seqs = 1..(n + 1)
      /\ seqs[n + 1] = last /\ \A i \in 1..n : seqs[i] = front[i]
  <2>1. seqs \in Seq(Seq(Nat)) /\ Len(seqs) = n + 1
    BY AppendProperties
  <2>2. DOMAIN seqs = 1..Len(seqs)
    BY <2>1, LenProperties
  <2>3. QED
    BY <2>1, <2>2, AppendProperties, LenProperties
<1>2. more = flat \o last /\ flat \in Seq(Nat)
  BY FlattenAppend, FlattenType
<1> HIDE DEF n, seqs, flat, more
<1>3. Range(more) = Range(flat) \cup Range(last)
  BY <1>2, RangeConcatenation
<1>4. /\ m \in Nat /\ DOMAIN flat = 1..m /\ DOMAIN last = 1..Len(last) /\ Len(last) \in Nat
      /\ DOMAIN more = 1..(m + Len(last))
      /\ \A k \in 1..m : more[k] = flat[k] /\ flat[k] \in Nat
      /\ \A k \in 1..Len(last) : more[m + k] = last[k]
  <2>1. /\ more \in Seq(Nat) /\ Len(more) = m + Len(last)
        /\ \A k \in 1..(m + Len(last)) : more[k] = IF k <= m THEN flat[k] ELSE last[k - m]
    BY <1>2, ConcatProperties
  <2>2. /\ m \in Nat /\ DOMAIN flat = 1..m /\ DOMAIN last = 1..Len(last) /\ Len(last) \in Nat
        /\ DOMAIN more = 1..(m + Len(last)) /\ \A k \in 1..m : flat[k] \in Nat
    BY <1>2, <2>1, LenProperties, ElementOfSeq
  <2> HIDE DEF m
  <2>3. ASSUME NEW k \in 1..m PROVE more[k] = flat[k]
    BY <2>1, <2>2
  <2>4. ASSUME NEW k \in 1..Len(last) PROVE more[m + k] = last[k]
    <3>1. m + k \in 1..(m + Len(last)) /\ ~(m + k <= m) /\ (m + k) - m = k
      BY <2>2
    <3>2. QED
      BY <2>1, <3>1
  <2>5. QED
    BY <2>2, <2>3, <2>4
<1> HIDE DEF m
<1>5. \A i : i \in 1..(n + 1) <=> i \in 1..n \/ i = n + 1
  BY <1>1
<1>6. Range(more) = UNION {Range(seqs[i]) : i \in DOMAIN seqs}
  <2>1. \A x : x \in Range(flat) <=> \E i \in 1..n : x \in Range(seqs[i])
    BY <1>1 DEF PiecesOf, flat
  <2>2. \A x : x \in Range(more) <=> \E i \in 1..(n + 1) : x \in Range(seqs[i])
    BY <1>1, <1>3, <1>5, <2>1
  <2>3. QED
    BY <1>1, <2>2
<1>7. ASSUME Increasing(more), NEW i \in DOMAIN seqs, NEW j \in DOMAIN seqs, i < j
      PROVE  Range(seqs[i]) \cap Range(seqs[j]) = {}
  <2>1. i \in 1..n
    BY <1>1, <1>7
  <2>2. CASE j \in 1..n
    <3>1. Increasing(flat)
      <4> SUFFICES ASSUME NEW k \in 1..m, NEW l \in 1..m, k < l PROVE flat[k] < flat[l]
        BY <1>4 DEF Increasing
      <4>1. k \in DOMAIN more /\ l \in DOMAIN more
        BY <1>4
      <4>2. more[k] < more[l]
        BY <1>7, <4>1 DEF Increasing
      <4>3. QED
        BY <1>4, <4>2
    <3>2. QED
      BY <1>1, <1>7, <2>1, <2>2, <3>1 DEF PiecesOf, flat
  <2>3. CASE j = n + 1
    <3>1. ASSUME NEW x, x \in Range(seqs[i]), x \in Range(seqs[j]) PROVE FALSE
      <4>1. x \in Range(flat)
        BY <1>1, <2>1, <3>1 DEF PiecesOf, flat
      <4>2. PICK k \in 1..m : x = flat[k]
        BY <1>4, <4>1 DEF Range
      <4>3. x \in Range(last)
        BY <1>1, <2>3, <3>1
      <4>4. PICK l \in 1..Len(last) : x = last[l]
        BY <1>4, <4>3 DEF Range
      <4>5. k \in DOMAIN more /\ m + l \in DOMAIN more /\ k < m + l
        BY <1>4
      <4>6. more[k] < more[m + l]
        BY <1>7, <4>5 DEF Increasing
      <4>7. x < x /\ x \in Nat
        BY <1>4, <4>2, <4>4, <4>6
      <4>8. QED
        BY <4>7
    <3>2. QED
      BY <3>1
  <2>4. QED
    BY <1>1, <1>5, <2>2, <2>3
<1>8. QED
  BY <1>6, <1>7 DEF PiecesOf, more, seqs

LEMMA PiecesApart == ASSUME NEW seqs \in Seq(Seq(Nat)) PROVE PiecesOf(seqs)
<1> DEFINE Wrong == {n \in Nat : \E s \in Seq(Seq(Nat)) : Len(s) = n /\ ~PiecesOf(s)}
<1>1. ASSUME Wrong # {} PROVE FALSE
  <2>1. PICK n \in Wrong : \A k \in Wrong : ~(k < n)
    <3>1. Wrong \in SUBSET Nat
      OBVIOUS
    <3> HIDE DEF Wrong
    <3>2. QED
      BY <1>1, <3>1, Least
  <2>2. PICK s \in Seq(Seq(Nat)) : Len(s) = n /\ ~PiecesOf(s)
    BY <2>1
  <2>3. s # <<>>
    <3>1. DOMAIN <<>> = {} /\ Range(FlattenSeq(<<>>)) = {}
      BY FlattenEmpty DEF Range
    <3>2. PiecesOf(<<>>)
      BY <3>1 DEF PiecesOf
    <3>3. QED
      BY <2>2, <3>2
  <2>4. PICK front \in Seq(Seq(Nat)), last \in Seq(Nat) : s = Append(front, last)
    BY <2>3, SequenceEmptyOrAppend
  <2>5. Len(front) \in Nat /\ n = Len(front) + 1
    BY <2>2, <2>4, AppendProperties, LenProperties
  <2>6. PiecesOf(front)
    <3>1. Len(front) < n
      BY <2>5
    <3>2. Len(front) \notin Wrong
      BY <2>1, <3>1
    <3>3. QED
      BY <2>5, <3>2
  <2>7. QED
    BY <2>2, <2>4, <2>6, PiecesAppend
<1>2. Len(seqs) \in Nat
  OBVIOUS
<1>3. QED
  BY <1>1, <1>2

LEMMA FewInRange ==
  ASSUME NEW S, NEW s \in Seq(S)
  PROVE  IsFiniteSet(Range(s)) /\ Cardinality(Range(s)) <= Len(s)
<1>1. Len(s) \in Nat /\ s \in [1..Len(s) -> Range(s)] /\ DOMAIN s = 1..Len(s)
  BY LenProperties DEF Range
<1>2. s \in Surjection(1..Len(s), Range(s))
  BY <1>1 DEF Surjection, Range
<1>3. IsFiniteSet(1..Len(s)) /\ Cardinality(1..Len(s)) = Len(s)
  BY <1>1, FS_Interval
<1>4. QED
  BY <1>2, <1>3, FS_Surjection

\* ChunksTo, for any chunks.
ToQueue(cs, d) == [i \in DOMAIN cs |-> IF cs[i].queue_url = d THEN cs[i].entries ELSE <<>>]

WholeChunks(entries, cs) ==
  /\ entries \in Seq(Entry)
  /\ cs \in Seq([queue_url : Destinations, entries : Seq(1..Len(entries))])
  /\ \A i \in DOMAIN cs : Len(cs[i].entries) \in 1..MAX_ENTRIES
  /\ \A d \in Destinations :
       /\ Range(FlattenSeq(ToQueue(cs, d))) = {p \in 1..Len(entries) : entries[p].queue_url = d}
       /\ Increasing(FlattenSeq(ToQueue(cs, d)))

IsDivision(entries, P) ==
  /\ P \in SUBSET ((SUBSET (1..Len(entries))) \ {{}})
  /\ UNION P = 1..Len(entries)
  /\ \A C, D \in P : C = D \/ C \cap D = {}
  /\ \A C \in P : Cardinality(C) <= MAX_ENTRIES
  /\ \A C \in P : \A p, q \in C : entries[p].queue_url = entries[q].queue_url

\* Chunks that stay whole divide the entries into calls.
LEMMA Division ==
  ASSUME NEW entries, NEW cs, NEW P, WholeChunks(entries, cs),
         P = {Range(cs[i].entries) : i \in DOMAIN cs}
  PROVE  IsDivision(entries, P)
<1> USE DEF WholeChunks
<1> DEFINE all == 1..Len(entries)
<1>1. /\ DOMAIN cs = 1..Len(cs) /\ Len(cs) \in Nat /\ Len(entries) \in Nat
      /\ \A i \in DOMAIN cs : cs[i].queue_url \in Destinations /\ cs[i].entries \in Seq(all)
      /\ \A p \in all : entries[p].queue_url \in Destinations
  <2>1. \A p \in all : entries[p] \in Entry
    BY ElementOfSeq
  <2>2. \A i \in DOMAIN cs : cs[i] \in [queue_url : Destinations, entries : Seq(all)]
    <3> DEFINE C == [queue_url : Destinations, entries : Seq(all)]
    <3>1. cs \in Seq(C)
      OBVIOUS
    <3> HIDE DEF C
    <3>2. \A i \in DOMAIN cs : cs[i] \in C
      BY <3>1, ElementOfSeq, LenProperties
    <3>3. QED
      BY <3>2 DEF C
  <2>3. DOMAIN cs = 1..Len(cs) /\ Len(cs) \in Nat /\ Len(entries) \in Nat
    BY LenProperties
  <2> HIDE DEF all
  <2>4. QED
    BY <2>1, <2>2, <2>3 DEF Entry
<1> HIDE DEF all
<1>2. ASSUME NEW d \in Destinations PROVE PiecesOf(ToQueue(cs, d)) /\ DOMAIN ToQueue(cs, d) = DOMAIN cs
  <2>1. \A i \in DOMAIN cs : cs[i].entries \in Seq(Nat)
    BY <1>1, SeqMonotonic DEF all
  <2>2. <<>> \in Seq(Nat)
    OBVIOUS
  <2>3. ToQueue(cs, d) \in Seq(Seq(Nat)) /\ DOMAIN ToQueue(cs, d) = DOMAIN cs
    BY <1>1, <2>1, <2>2 DEF ToQueue
  <2>4. QED
    BY <2>3, PiecesApart
<1>3. ASSUME NEW i \in DOMAIN cs
      PROVE  /\ Range(cs[i].entries) \subseteq {p \in all : entries[p].queue_url = cs[i].queue_url}
             /\ Range(cs[i].entries) # {}
  <2>1. ToQueue(cs, cs[i].queue_url)[i] = cs[i].entries
    BY DEF ToQueue
  <2>2. Range(cs[i].entries) \subseteq Range(FlattenSeq(ToQueue(cs, cs[i].queue_url)))
    BY <1>1, <1>2, <2>1 DEF PiecesOf
  <2>3. Range(cs[i].entries) # {}
    <3>1. Len(cs[i].entries) \in 1..MAX_ENTRIES /\ cs[i].entries \in Seq(all)
      BY <1>1
    <3>2. PICK s : s = cs[i].entries
      OBVIOUS
    <3>3. 1 \in DOMAIN s
      BY <3>1, <3>2, LenProperties, ChunkingAssumption
    <3>4. s[1] \in Range(s)
      BY <3>3 DEF Range
    <3>5. QED
      BY <3>2, <3>4
  <2>4. QED
    BY <1>1, <2>2, <2>3 DEF all
<1>4. UNION P = all
  <2>1. ASSUME NEW p \in all PROVE p \in UNION P
    <3>1. p \in Range(FlattenSeq(ToQueue(cs, entries[p].queue_url)))
      BY <1>1, <2>1 DEF all
    <3>2. PICK i \in DOMAIN cs : p \in Range(ToQueue(cs, entries[p].queue_url)[i])
      <4>1. PICK d \in Destinations : d = entries[p].queue_url
        BY <1>1
      <4>2. p \in UNION {Range(ToQueue(cs, d)[i]) : i \in DOMAIN ToQueue(cs, d)}
        BY <1>2, <3>1, <4>1 DEF PiecesOf
      <4>3. QED
        BY <1>2, <4>1, <4>2
    <3>3. ToQueue(cs, entries[p].queue_url)[i] \in {cs[i].entries, <<>>}
      BY DEF ToQueue
    <3>4. p \in Range(cs[i].entries)
      BY <3>2, <3>3 DEF Range
    <3>5. QED
      BY <3>4
  <2>2. QED
    BY <1>3, <2>1
<1>5. ASSUME NEW i \in DOMAIN cs, NEW j \in DOMAIN cs, i < j
      PROVE  Range(cs[i].entries) \cap Range(cs[j].entries) = {}
  <2>1. CASE cs[i].queue_url = cs[j].queue_url
    <3>1. PICK d \in Destinations : d = cs[i].queue_url
      BY <1>1
    <3>2. ToQueue(cs, d)[i] = cs[i].entries /\ ToQueue(cs, d)[j] = cs[j].entries
      BY <2>1, <3>1 DEF ToQueue
    <3>3. QED
      BY <1>2, <1>5, <3>2 DEF PiecesOf
  <2>2. CASE cs[i].queue_url # cs[j].queue_url
    BY <1>3, <2>2
  <2>3. QED
    BY <2>1, <2>2
<1>6. \A C, D \in P : C = D \/ C \cap D = {}
  <2> SUFFICES ASSUME NEW i \in DOMAIN cs, NEW j \in DOMAIN cs, i # j
               PROVE  Range(cs[i].entries) \cap Range(cs[j].entries) = {}
    BY Zenon
  <2>1. i < j \/ j < i
    BY <1>1
  <2>2. QED
    BY <1>5, <2>1
<1>7. \A C \in P : Cardinality(C) <= MAX_ENTRIES
  <2> SUFFICES ASSUME NEW i \in DOMAIN cs PROVE Cardinality(Range(cs[i].entries)) <= MAX_ENTRIES
    OBVIOUS
  <2>1. /\ IsFiniteSet(Range(cs[i].entries))
        /\ Cardinality(Range(cs[i].entries)) <= Len(cs[i].entries)
    BY <1>1, FewInRange
  <2>2. Cardinality(Range(cs[i].entries)) \in Nat
    BY <2>1, FS_CardinalityType
  <2>3. Len(cs[i].entries) \in 1..MAX_ENTRIES
    OBVIOUS
  <2>4. QED
    BY <2>1, <2>2, <2>3, ChunkingAssumption
<1>8. \A C \in P : \A p, q \in C : entries[p].queue_url = entries[q].queue_url
  BY <1>3
<1>9. P \in SUBSET ((SUBSET all) \ {{}})
  BY <1>3
<1>10. QED
  BY <1>4, <1>6, <1>7, <1>8, <1>9 DEF all, IsDivision

\* What is left to do: nothing is cut before it is grouped, nor twice.
LEMMA FinishedStops == ASSUME CInv, Finished, Next PROVE FALSE
<1>1. taken = Len(input) /\ Len(input) \in Nat /\ url = NoDestination /\ rest = <<>>
      /\ \A d \in Destinations : groups[d] = <<>>
  BY DEF Finished, CInv, TypeOK, Phases
<1>2. QED
  BY <1>1 DEF Next, Group, StartGroup, Push, CutAndPush, CloseGroup

LEMMA FinishedDivides ==
  ASSUME CInv', GroupsStayWhole', UNCHANGED input, Finished'
  PROVE  {Range(chunks'[i].entries) : i \in DOMAIN chunks'} \in Contract!Divisions
<1> DEFINE P == {Range(chunks'[i].entries) : i \in DOMAIN chunks'}
<1>1. /\ input \in Seq(Entry)
      /\ chunks' \in Seq([queue_url : Destinations, entries : Seq(1..Len(input))])
  BY DEF CInv, TypeOK, Chunk, Positions
<1>2. \A i \in DOMAIN chunks' : Len(chunks'[i].entries) \in 1..MAX_ENTRIES
  BY DEF CInv, Limits, Fits
<1>3. ASSUME NEW d \in Destinations
      PROVE  /\ Range(FlattenSeq(ToQueue(chunks', d))) =
                  {p \in 1..Len(input) : input[p].queue_url = d}
             /\ Increasing(FlattenSeq(ToQueue(chunks', d)))
  <2>1. taken' = Len(input) /\ url' = NoDestination /\ groups'[d] = <<>> /\ url' # d
    BY ChunkingAssumption DEF Finished
  <2>2. ChunksTo(d)' = ToQueue(chunks', d)
    BY DEF ChunksTo, ToQueue
  <2>3. Sent(d)' = FlattenSeq(ToQueue(chunks', d)) \o <<>> \o <<>>
    BY <2>1, <2>2 DEF Sent
  <2>4. FlattenSeq(ToQueue(chunks', d)) \in Seq(Positions')
    <3>1. /\ chunks' \in Seq(Chunk') /\ <<>> \in Seq(Positions')
          /\ DOMAIN chunks' = 1..Len(chunks') /\ Len(chunks') \in Nat
      BY DEF CInv, TypeOK
    <3>2. \A i \in DOMAIN chunks' : chunks'[i] \in Chunk'
      BY <3>1, ElementOfSeq
    <3>3. \A i \in DOMAIN chunks' : chunks'[i].entries \in Seq(Positions')
      BY <3>2 DEF Chunk
    <3>4. ToQueue(chunks', d) \in Seq(Seq(Positions'))
      BY <3>1, <3>3 DEF ToQueue
    <3>5. QED
      BY <3>4, FlattenType
  <2>5. Sent(d)' = FlattenSeq(ToQueue(chunks', d))
    <3> DEFINE flat == FlattenSeq(ToQueue(chunks', d))
    <3>1. flat \o <<>> = flat
      BY <2>4, ConcatEmptySeq
    <3> HIDE DEF flat
    <3>2. flat \o <<>> \o <<>> = flat
      BY <3>1
    <3>3. QED
      BY <2>3, <3>2 DEF flat
  <2>6. /\ Range(Sent(d)') = {p \in 1..Len(input) : input[p].queue_url = d}
        /\ Increasing(Sent(d)')
    BY <2>1 DEF GroupsStayWhole, Increasing
  <2>7. QED
    BY <2>5, <2>6
<1>4. IsDivision(input, P)
  <2>1. WholeChunks(input, chunks')
    BY <1>1, <1>2, <1>3 DEF WholeChunks
  <2>2. QED
    BY <2>1, Division
<1> HIDE DEF P
<1>5. DOMAIN [p \in Positions |-> input[p].queue_url] = 1..Len(input)
  BY DEF Positions
<1>6. \A C \in P : \A p, q \in C :
        [r \in Positions |-> input[r].queue_url][p] = [r \in Positions |-> input[r].queue_url][q]
  BY <1>4 DEF Positions, IsDivision
<1>7. P \in Contract!Divisions
  BY <1>4, <1>5, <1>6 DEF IsDivision, Contract!Divisions, Contract!Cardinality, Cardinality
<1>8. QED
  BY <1>7 DEF P

\* The calls that chunk_entries makes are a division of the requests into calls, each
\* to one queue and with at most ten entries: what ReplayHandler takes from it
\* (replay.rs:100-143).  Every step but the last is a stutter of CallContract.
THEOREM CallContractKept == Spec => KeepsCallContract
<1>1. Init => Contract!Init
  <2> SUFFICES ASSUME Init PROVE Contract!Init
    OBVIOUS
  <2>1. {Range(chunks[i].entries) : i \in DOMAIN chunks} = {}
    BY DEF Init
  <2>2. QED
    BY <2>1 DEF Contract!Init
<1>2. /\ CInv /\ CInv' /\ GroupsStayWhole'
      /\ [Next]_vars
      => [Contract!Divide]_<<[p \in Positions |-> input[p].queue_url],
                             IF Finished THEN {Range(chunks[i].entries) : i \in DOMAIN chunks}
                                         ELSE {}>>
  <2> SUFFICES ASSUME CInv, CInv', GroupsStayWhole', [Next]_vars
               PROVE  [Contract!Divide]_<<[p \in Positions |-> input[p].queue_url],
                        IF Finished THEN {Range(chunks[i].entries) : i \in DOMAIN chunks}
                                    ELSE {}>>
    OBVIOUS
  <2>1. UNCHANGED input /\ UNCHANGED [p \in Positions |-> input[p].queue_url]
    BY DEF Next, Group, StartGroup, Push, CutAndPush, CloseGroup, vars, Positions
  <2>2. CASE UNCHANGED vars
    BY <2>1, <2>2 DEF vars, Finished
  <2>3. CASE Next
    <3>1. ~Finished
      BY <2>3, FinishedStops
    <3>2. CASE ~Finished'
      BY <2>1, <3>1, <3>2
    <3>3. CASE Finished'
      BY <2>1, <3>1, <3>3, FinishedDivides DEF Contract!Divide
    <3>4. QED
      BY <3>2, <3>3
  <2>4. QED
    BY <2>2, <2>3
<1>3. QED
  BY <1>1, <1>2, Cutting, NothingLostInCalls, PTL DEF Spec, KeepsCallContract, Contract!Spec
=============================================================================
