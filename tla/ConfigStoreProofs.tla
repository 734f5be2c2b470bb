-------------------------- MODULE ConfigStoreProofs --------------------------
(***************************************************************************)
(* How stale the answers of ConfigStore can be: theorems for any number of *)
(* environments, queues, parameters and pages, any page size, time to live *)
(* and timeout.                                                            *)
(*                                                                         *)
(* The invariant follows a refresh through its pages: of a queue whose     *)
(* parameters did not change since the refresh began, the map filled so    *)
(* far says what the pages up to there say.  A parameter that names this   *)
(* queue neither before nor after a change may change freely meanwhile.    *)
(***************************************************************************)
EXTENDS ConfigStore, WellFoundedInduction, TLAPS

NamesQueue(v, a) == v \in Config /\ v.arn = a

\* Two values say the same about a queue.
Agree(v, w, a) == v = w \/ (~NamesQueue(v, a) /\ ~NamesQueue(w, a))

\* The pages before this one.
Upto(values, page) == [n \in Names |-> IF PageOf(n) < page THEN values[n] ELSE Absent]

CacheTracks(e) ==
  cache[e] # Cold =>
    /\ cache[e].startedAt <= cache[e].loadedAt /\ cache[e].loadedAt <= now
    /\ cache[e].loadedAt <= cache[e].startedAt + MaxRefresh
    /\ \A a \in Arns : lastWrite[a] < cache[e].startedAt
                        => cache[e].configs[a] = Effective(params, a)

ReaderTracks(e) ==
  reader[e].busy =>
    /\ reader[e].startedAt <= now /\ now <= reader[e].startedAt + MaxRefresh
    /\ \A a \in Arns : lastWrite[a] < reader[e].startedAt
                        => reader[e].configs[a] = Effective(Upto(params, reader[e].page), a)

SInv == /\ TypeOK
        /\ \A e \in Envs : CacheTracks(e) /\ ReaderTracks(e)

-----------------------------------------------------------------------------
(* The last parameter that names a queue *)

LessThan == {p \in Nat \X Nat : p[1] < p[2]}

LEMMA LessThanWellFounded == IsWellFoundedOn(LessThan, Nat)
<1>1. LessThan = OpToRel(<, Nat)
  BY DEF LessThan, OpToRel
<1>2. QED
  BY <1>1, NatLessThanWellFounded

LEMMA Largest ==
  ASSUME NEW N \in Nat, NEW S \in SUBSET (1..N), S # {}
  PROVE  \E m \in S : \A n \in S : n <= m
<1> DEFINE D == {N - n : n \in S}
<1>1. D \subseteq Nat /\ D # {}
  <2>1. \A n \in S : n \in Nat /\ n <= N
    OBVIOUS
  <2>2. D \subseteq Nat
    BY <2>1
  <2>3. D # {}
    BY Zenon
  <2>4. QED
    BY <2>2, <2>3
<1>2. \A x, y \in Nat : y < x => <<y, x>> \in LessThan
  BY DEF LessThan
<1>3. \E x \in D : \A y \in D : ~(<<y, x>> \in LessThan)
  BY <1>1, LessThanWellFounded, WFMin
<1>4. PICK x \in D : \A y \in D : ~(y < x)
  BY <1>1, <1>2, <1>3
<1>5. PICK m \in S : x = N - m
  OBVIOUS
<1>6. ASSUME NEW n \in S PROVE n <= m
  <2>1. N - n \in D
    OBVIOUS
  <2>2. ~(N - n < N - m)
    BY <1>4, <1>5, <2>1
  <2>3. n \in Nat /\ m \in Nat
    OBVIOUS
  <2>4. QED
    BY <2>2, <2>3
<1>7. QED
  BY <1>6

\* A set of parameters has one latest.
LEMMA LatestIs ==
  ASSUME NEW S \in SUBSET Names, NEW n \in S, \A m \in S : m <= n
  PROVE  Latest(S) = n
<1>1. Latest(S) \in S /\ \A m \in S : m <= Latest(S)
  BY DEF Latest
<1>2. n <= Latest(S) /\ Latest(S) <= n /\ n \in Names /\ Latest(S) \in Names
  BY <1>1, Zenon
<1>3. QED
  BY <1>2, StoreAssumption DEF Names

LEMMA LatestMember ==
  ASSUME NEW S \in SUBSET Names, S # {}
  PROVE  Latest(S) \in S /\ \A m \in S : m <= Latest(S)
<1>1. \E n \in S : \A m \in S : m <= n
  BY Largest, StoreAssumption DEF Names
<1>2. QED
  BY <1>1 DEF Latest

LEMMA NamingNames == ASSUME NEW values, NEW a PROVE Naming(values, a) \in SUBSET Names
BY DEF Naming

LEMMA EffectiveType ==
  ASSUME NEW values \in [Names -> Value], NEW a
  PROVE  Effective(values, a) \in Versions \cup {NoConfig}
<1>1. CASE Naming(values, a) = {}
  BY <1>1 DEF Effective
<1>2. CASE Naming(values, a) # {}
  <2>1. Latest(Naming(values, a)) \in Naming(values, a)
    BY <1>2, LatestMember, NamingNames
  <2>2. QED
    BY <1>2, <2>1 DEF Effective, Naming, Config
<1>3. QED
  BY <1>1, <1>2

\* Parameters that say the same about a queue configure it alike.
LEMMA EffectiveAgrees ==
  ASSUME NEW values, NEW others, NEW a,
         \A n \in Names : Agree(values[n], others[n], a)
  PROVE  Effective(values, a) = Effective(others, a)
<1>1. Naming(values, a) = Naming(others, a)
  BY DEF Naming, Agree, NamesQueue
<1>2. CASE Naming(values, a) = {}
  BY <1>1, <1>2 DEF Effective
<1>3. CASE Naming(values, a) # {}
  <2> DEFINE n == Latest(Naming(values, a))
  <2>1. n \in Naming(values, a)
    BY <1>3, LatestMember, NamingNames
  <2>2. Effective(values, a) = values[n].version /\ Effective(others, a) = others[n].version
    BY <1>1, <1>3 DEF Effective
  <2> HIDE DEF n
  <2>3. values[n] = others[n]
    BY <2>1 DEF Naming, Agree, NamesQueue
  <2>4. QED
    BY <2>2, <2>3
<1>4. QED
  BY <1>2, <1>3

-----------------------------------------------------------------------------
(* Pages *)

LEMMA DivBounds ==
  ASSUME NEW n \in Nat, NEW d \in Nat \ {0}
  PROVE  n \div d \in Int /\ d * (n \div d) <= n /\ n < d * (n \div d) + d
OBVIOUS

LEMMA TimesMonotone ==
  ASSUME NEW d \in Nat \ {0}, NEW p \in Int, NEW q \in Int, p <= q
  PROVE  d * p <= d * q
OBVIOUS

LEMMA TimesNext == ASSUME NEW d \in Nat \ {0}, NEW q \in Int PROVE d * (q + 1) = d * q + d
OBVIOUS

LEMMA DivMonotone ==
  ASSUME NEW n \in Nat, NEW k \in Nat, NEW d \in Nat \ {0}, n <= k
  PROVE  n \div d <= k \div d
<1> DEFINE p == n \div d
           q == k \div d
<1>1. p \in Int /\ d * p <= n /\ q \in Int /\ k < d * q + d
  BY DivBounds
<1> HIDE DEF p, q
<1>2. ASSUME ~(p <= q) PROVE FALSE
  <2>1. q + 1 <= p
    BY <1>1, <1>2
  <2>2. d * (q + 1) <= d * p
    BY <1>1, <2>1, TimesMonotone
  <2>3. d * (q + 1) = d * q + d
    BY <1>1, TimesNext
  <2>4. d * q \in Int /\ d * p \in Int /\ d * (q + 1) \in Int
    BY <1>1
  <2>5. QED
    BY <1>1, <2>2, <2>3, <2>4
<1>3. QED
  BY <1>1, <1>2 DEF p, q

LEMMA DivNatural == ASSUME NEW n \in Nat, NEW d \in Nat \ {0} PROVE n \div d \in Nat
<1> DEFINE q == n \div d
<1>1. q \in Int /\ n < d * q + d /\ d * q \in Int
  BY DivBounds
<1> HIDE DEF q
<1>2. ASSUME q < 0 PROVE FALSE
  <2>1. d * (q + 1) <= d * 0
    BY <1>1, <1>2, TimesMonotone
  <2>2. d * 0 = 0 /\ d * (q + 1) = d * q + d
    BY <1>1, TimesNext
  <2>3. QED
    BY <1>1, <2>1, <2>2
<1>3. QED
  BY <1>1, <1>2 DEF q

\* Every parameter is on a page up to the last.
LEMMA Pages == /\ LastPage \in Nat \ {0}
               /\ \A n \in Names : PageOf(n) \in Nat \ {0} /\ PageOf(n) <= LastPage
<1>1. /\ NumNames - 1 \in Nat /\ PageSize \in Nat \ {0}
      /\ \A n \in Names : n - 1 \in Nat /\ n - 1 <= NumNames - 1
  BY StoreAssumption DEF Names
<1>2. (NumNames - 1) \div PageSize \in Nat
  BY <1>1, DivNatural
<1>3. ASSUME NEW n \in Names
      PROVE  /\ (n - 1) \div PageSize \in Nat
             /\ (n - 1) \div PageSize <= (NumNames - 1) \div PageSize
  BY <1>1, DivNatural, DivMonotone
<1>4. QED
  BY <1>2, <1>3 DEF LastPage, PageOf

LEMMA PagesInOrder ==
  ASSUME NEW n \in Names, NEW k \in Names, PageOf(n) < PageOf(k)
  PROVE  n <= k
<1>1. ASSUME k <= n PROVE FALSE
  <2>1. /\ k - 1 \in Nat /\ n - 1 \in Nat /\ k - 1 <= n - 1
        /\ PageSize \in Nat \ {0}
    BY <1>1, StoreAssumption DEF Names
  <2>2. (k - 1) \div PageSize <= (n - 1) \div PageSize
    BY <2>1, DivMonotone
  <2>3. (k - 1) \div PageSize \in Nat /\ (n - 1) \div PageSize \in Nat
    BY <2>1, DivNatural
  <2>4. QED
    BY <2>2, <2>3 DEF PageOf
<1>2. n \in Int /\ k \in Int
  BY StoreAssumption DEF Names
<1>3. QED
  BY <1>1, <1>2

\* Inserting a page takes the map from what the pages before it say to what they
\* and it say: the last parameter of the page that names a queue comes after all
\* that were read before.
LEMMA InsertPageSays ==
  ASSUME NEW configs, NEW page \in Nat, NEW a \in Arns,
         configs[a] = Effective(Upto(params, page), a)
  PROVE  InsertPage(configs, page)[a] = Effective(Upto(params, page + 1), a)
<1> DEFINE listed == {n \in Naming(params, a) : PageOf(n) = page}
           before == Naming(Upto(params, page), a)
           after == Naming(Upto(params, page + 1), a)
<1>1. \A n \in Names : PageOf(n) \in Nat
  BY Pages
<1>2. \A p \in Nat : Naming(Upto(params, p), a) = {n \in Naming(params, a) : PageOf(n) < p}
  BY StoreAssumption DEF Naming, Upto
<1>3. after = before \cup listed /\ listed \in SUBSET Names /\ after \in SUBSET Names
  BY <1>1, <1>2 DEF Naming
<1>4. CASE listed = {}
  <2>1. InsertPage(configs, page)[a] = configs[a]
    BY <1>4 DEF InsertPage
  <2>2. \A n \in Names : Agree(Upto(params, page)[n], Upto(params, page + 1)[n], a)
    <3>1. ASSUME NEW n \in Names
          PROVE  Agree(Upto(params, page)[n], Upto(params, page + 1)[n], a)
      <4>1. CASE PageOf(n) = page
        <5>1. ~NamesQueue(params[n], a) /\ ~NamesQueue(Absent, a)
          BY <1>4, <4>1, StoreAssumption DEF Naming, NamesQueue
        <5>2. QED
          BY <5>1 DEF Upto, Agree
      <4>2. CASE PageOf(n) # page
        BY <1>1, <4>2 DEF Upto, Agree
      <4>3. QED
        BY <4>1, <4>2
    <3>2. QED
      BY <3>1
  <2>3. QED
    BY <2>1, <2>2, EffectiveAgrees
<1>5. CASE listed # {}
  <2> DEFINE last == Latest(listed)
  <2>1. last \in listed /\ \A m \in listed : m <= last
    BY <1>3, <1>5, LatestMember
  <2>2. InsertPage(configs, page)[a] = params[last].version
    BY <1>5 DEF InsertPage
  <2> HIDE DEF last
  <2>3. \A m \in before : m <= last
    BY <1>2, <2>1, PagesInOrder DEF Naming
  <2>4. Latest(after) = last
    BY <1>3, <2>1, <2>3, LatestIs
  <2>5. Effective(Upto(params, page + 1), a) = Upto(params, page + 1)[last].version
    BY <1>3, <2>1, <2>4 DEF Effective
  <2>6. Upto(params, page + 1)[last] = params[last]
    BY <2>1 DEF Upto, Naming
  <2>7. QED
    BY <2>2, <2>5, <2>6
<1>6. QED
  BY <1>4, <1>5

-----------------------------------------------------------------------------
(* Type correctness *)

LEMMA StoreInitType == Init => TypeOK
<1> SUFFICES ASSUME Init PROVE TypeOK
  OBVIOUS
<1>1. TTL \in Nat /\ MaxRefresh \in Nat /\ MaxNow \in Nat /\ MaxWrites \in Nat
      /\ MaxFaults \in Nat /\ (CHOOSE a \in Arns : TRUE) \in Arns
  BY StoreAssumption
<1>2. Idle \in Reader
  BY <1>1, Pages DEF Idle, Reader, Configs
<1>3. QED
  BY <1>1, <1>2 DEF Init, TypeOK, Answer

\* What replaces the reader, the cache and the answer of the environment that steps.
LEMMA ReaderType ==
  ASSUME TypeOK, NEW e \in Envs, NEW r \in Reader, reader' = [reader EXCEPT ![e] = r],
         cache' \in [Envs -> Cache \cup {Cold}],
         answer' \in [Envs -> [result : Versions \cup {NoConfig, Failed}, at : 0..MaxNow]],
         UNCHANGED faults \/ Fault, UNCHANGED <<now, params, lastWrite, writes>>
  PROVE  TypeOK'
<1>1. faults' \in 0..MaxFaults
  BY StoreAssumption DEF TypeOK, Fault
<1>2. reader' \in [Envs -> Reader]
  BY DEF TypeOK
<1>3. QED
  BY <1>1, <1>2 DEF TypeOK

LEMMA StoreNextType == ASSUME TypeOK, Next PROVE TypeOK'
<1>1. Idle \in Reader
  <2>1. (CHOOSE a \in Arns : TRUE) \in Arns /\ MaxNow \in Nat
    BY StoreAssumption
  <2>2. QED
    BY <2>1, Pages DEF Idle, Reader, Configs
<1>2. CASE Tick
  BY <1>2, StoreAssumption DEF Tick, TypeOK
<1>3. ASSUME NEW n \in Names, NEW v \in Value, Write(n, v) PROVE TypeOK'
  BY <1>3, StoreAssumption DEF Write, TypeOK
<1>4. ASSUME NEW e \in Envs, NEW a \in Arns, Lookup(e, a) PROVE TypeOK'
  <2>1. cache[e].configs[a] \in Versions \cup {NoConfig}
    BY <1>4 DEF Lookup, Fresh, TypeOK, Cache, Configs
  <2>2. QED
    BY <1>4, <2>1 DEF Lookup, Answer, TypeOK
<1>5. ASSUME NEW e \in Envs, NEW a \in Arns, Begin(e, a) PROVE TypeOK'
  <2> DEFINE r == [Idle EXCEPT !.busy = TRUE, !.arn = a, !.startedAt = now]
  <2>1. r \in Reader
    BY <1>1 DEF Idle, Reader, TypeOK
  <2>2. QED
    BY <1>5, <2>1, ReaderType DEF Begin, TypeOK
<1>6. ASSUME NEW e \in Envs, ReadPage(e) PROVE TypeOK'
  <2> DEFINE r == [reader[e] EXCEPT
        !.page = @ + 1, !.configs = InsertPage(@, reader[e].page)]
  <2>1. reader[e] \in Reader /\ params \in [Names -> Value]
    BY DEF TypeOK
  <2>2. reader[e].page + 1 \in 1..(LastPage + 1)
    BY <1>6, <2>1, Pages DEF ReadPage, Reader
  <2>3. InsertPage(reader[e].configs, reader[e].page) \in Configs
    <3>1. ASSUME NEW a \in Arns
          PROVE  InsertPage(reader[e].configs, reader[e].page)[a] \in Versions \cup {NoConfig}
      <4> DEFINE listed == {n \in Naming(params, a) : PageOf(n) = reader[e].page}
      <4>1. reader[e].configs[a] \in Versions \cup {NoConfig}
        BY <2>1 DEF Reader, Configs
      <4>2. CASE listed = {}
        BY <4>1, <4>2 DEF InsertPage
      <4>3. CASE listed # {}
        <5>1. listed \in SUBSET Names
          BY DEF Naming
        <5>2. Latest(listed) \in listed
          BY <4>3, <5>1, LatestMember
        <5>3. params[Latest(listed)] \in Config
          BY <5>2 DEF Naming
        <5>4. InsertPage(reader[e].configs, reader[e].page)[a] = params[Latest(listed)].version
          BY <4>3 DEF InsertPage
        <5>5. QED
          BY <5>3, <5>4 DEF Config
      <4>4. QED
        BY <4>2, <4>3
    <3>2. QED
      BY <3>1 DEF InsertPage, Configs
  <2>4. r \in Reader
    BY <2>1, <2>2, <2>3 DEF Reader
  <2>5. reader' = [reader EXCEPT ![e] = r]
    BY <1>6 DEF ReadPage
  <2> HIDE DEF r
  <2>6. QED
    BY <1>6, <2>4, <2>5, ReaderType DEF ReadPage, TypeOK
<1>7. ASSUME NEW e \in Envs, Install(e) PROVE TypeOK'
  <2>1. /\ reader[e].startedAt \in 0..MaxNow /\ now \in 0..MaxNow
        /\ reader[e].configs \in Configs /\ reader[e].arn \in Arns
    BY DEF TypeOK, Reader
  <2>2. Refreshed(e) \in Cache /\ reader[e].configs[reader[e].arn] \in Versions \cup {NoConfig}
    BY <2>1 DEF Refreshed, Cache, Configs
  <2>3. cache' \in [Envs -> Cache \cup {Cold}]
    BY <1>7, <2>2 DEF Install, TypeOK
  <2>4. answer' \in [Envs -> [result : Versions \cup {NoConfig, Failed}, at : 0..MaxNow]]
    BY <1>7, <2>2 DEF Install, Answer, TypeOK
  <2>5. QED
    BY <1>1, <1>7, <2>3, <2>4, ReaderType DEF Install
<1>8. ASSUME NEW e \in Envs, PageFails(e) \/ Kill(e) PROVE TypeOK'
  <2>1. cache' \in [Envs -> Cache \cup {Cold}]
    BY <1>8 DEF PageFails, Kill, TypeOK
  <2>2. answer' \in [Envs -> [result : Versions \cup {NoConfig, Failed}, at : 0..MaxNow]]
    BY <1>8 DEF PageFails, Kill, Answer, TypeOK
  <2>3. QED
    BY <1>1, <1>8, <2>1, <2>2, ReaderType DEF PageFails, Kill
<1>9. QED
  BY <1>2, <1>3, <1>4, <1>5, <1>6, <1>7, <1>8 DEF Next

\* In every reachable state, the variables of ConfigStore have their types: a cached
\* or answered configuration is one of a registered queue, or none, and a refresh
\* never asks for a page after the one that follows the last (config.rs:108-149).
THEOREM StoreTypeCorrect == Spec => []TypeOK
<1>1. Init => TypeOK
  BY StoreInitType
<1>2. TypeOK /\ [Next]_vars => TypeOK'
  <2> SUFFICES ASSUME TypeOK, [Next]_vars PROVE TypeOK'
    OBVIOUS
  <2>1. CASE UNCHANGED vars
    BY <2>1 DEF vars, TypeOK
  <2>2. QED
    BY <2>1, StoreNextType
<1>3. QED
  BY <1>1, <1>2, PTL DEF Spec

-----------------------------------------------------------------------------
(* What caches and refreshes know *)

\* A step of one environment in which no parameter changes.
LEMMA StepTracks ==
  ASSUME SInv, TypeOK', UNCHANGED <<now, params, lastWrite>>, NEW e \in Envs,
         CacheTracks(e)', ReaderTracks(e)',
         \A f \in Envs : f # e => cache'[f] = cache[f] /\ reader'[f] = reader[f]
  PROVE  SInv'
<1>1. ASSUME NEW f \in Envs, f # e PROVE CacheTracks(f)' /\ ReaderTracks(f)'
  BY <1>1 DEF SInv, CacheTracks, ReaderTracks
<1>2. QED
  BY <1>1 DEF SInv

\* Reading a page: what the map says of it is what the parameters say now.
LEMMA ReadPageTracks == ASSUME SInv, TypeOK', NEW e \in Envs, ReadPage(e) PROVE SInv'
<1>1. reader[e] \in Reader /\ CacheTracks(e) /\ ReaderTracks(e)
  BY DEF SInv, TypeOK
<1>2. /\ UNCHANGED <<now, params, lastWrite, cache>> /\ reader[e].busy
      /\ \A f \in Envs : f # e => reader'[f] = reader[f]
  BY DEF ReadPage, SInv, TypeOK
<1>3. /\ reader'[e].startedAt = reader[e].startedAt
      /\ reader'[e].page = reader[e].page + 1 /\ reader[e].page \in Nat
      /\ reader'[e].configs = InsertPage(reader[e].configs, reader[e].page)
  BY <1>1, Pages DEF ReadPage, SInv, TypeOK, Reader
<1>4. ASSUME NEW a \in Arns, lastWrite[a] < reader[e].startedAt
      PROVE  reader'[e].configs[a] = Effective(Upto(params, reader'[e].page), a)
  <2>1. reader[e].configs[a] = Effective(Upto(params, reader[e].page), a)
    BY <1>1, <1>2, <1>4 DEF ReaderTracks
  <2>2. QED
    BY <1>3, <2>1, InsertPageSays
<1>5. ReaderTracks(e)'
  BY <1>1, <1>2, <1>3, <1>4 DEF ReaderTracks
<1>6. CacheTracks(e)'
  BY <1>1, <1>2 DEF CacheTracks
<1>7. QED
  BY <1>2, <1>5, <1>6, StepTracks

\* When the last page has arrived, every parameter has been read.
LEMMA AllRead ==
  ASSUME SInv, NEW e \in Envs, reader[e].busy, reader[e].page > LastPage, NEW a \in Arns,
         lastWrite[a] < reader[e].startedAt
  PROVE  reader[e].configs[a] = Effective(params, a)
<1>1. reader[e].page \in Nat
  BY Pages DEF SInv, TypeOK, Reader
<1>2. \A n \in Names : PageOf(n) < reader[e].page
  BY <1>1, Pages
<1>3. \A n \in Names : Agree(Upto(params, reader[e].page)[n], params[n], a)
  BY <1>2 DEF Upto, Agree
<1>4. Effective(Upto(params, reader[e].page), a) = Effective(params, a)
  BY <1>3, EffectiveAgrees
<1>5. QED
  BY <1>4 DEF SInv, ReaderTracks

LEMMA InstallTracks == ASSUME SInv, TypeOK', NEW e \in Envs, Install(e) PROVE SInv'
<1>1. /\ UNCHANGED <<now, params, lastWrite>> /\ reader[e].busy /\ reader[e].page > LastPage
      /\ ~reader'[e].busy
      /\ cache'[e] = Refreshed(e)
      /\ \A f \in Envs : f # e => cache'[f] = cache[f] /\ reader'[f] = reader[f]
  BY DEF Install, SInv, TypeOK, Idle
<1>2. /\ now \in Nat /\ MaxRefresh \in Nat /\ reader[e].startedAt \in Nat
      /\ reader[e].startedAt <= now /\ now <= reader[e].startedAt + MaxRefresh
  BY <1>1, StoreAssumption DEF SInv, TypeOK, Reader, ReaderTracks
<1>3. /\ cache'[e].loadedAt = now /\ cache'[e].startedAt = reader[e].startedAt
      /\ cache'[e].configs = reader[e].configs
  BY <1>1 DEF Refreshed
<1>4. ASSUME NEW a \in Arns, lastWrite[a] < reader[e].startedAt
      PROVE  reader[e].configs[a] = Effective(params, a)
  BY <1>1, <1>4, AllRead
<1>5. CacheTracks(e)'
  BY <1>1, <1>2, <1>3, <1>4 DEF CacheTracks
<1>6. QED
  BY <1>1, <1>5, StepTracks DEF ReaderTracks

\* A change of a parameter touches only the queues it names before or after.
LEMMA WriteTracks ==
  ASSUME SInv, TypeOK', NEW n \in Names, NEW v \in Value, Write(n, v) PROVE SInv'
<1>1. /\ UNCHANGED <<now, cache, reader>> /\ params' = [params EXCEPT ![n] = v]
      /\ lastWrite' = [a \in Arns |-> IF n \in Naming(params, a) \cup Naming(params', a)
                                      THEN now ELSE lastWrite[a]]
  BY DEF Write
<1>2. /\ params \in [Names -> Value] /\ now \in Nat /\ MaxRefresh \in Nat
      /\ \A k \in Names : params'[k] = IF k = n THEN v ELSE params[k]
  BY <1>1, StoreAssumption DEF SInv, TypeOK
<1>3. ASSUME NEW a \in Arns, n \notin Naming(params, a) \cup Naming(params', a)
      PROVE  /\ lastWrite'[a] = lastWrite[a]
             /\ ~NamesQueue(params[n], a) /\ ~NamesQueue(v, a)
             /\ Effective(params', a) = Effective(params, a)
  <2>1. ~NamesQueue(params[n], a) /\ ~NamesQueue(v, a)
    BY <1>2, <1>3 DEF Naming, NamesQueue
  <2>2. \A k \in Names : Agree(params'[k], params[k], a)
    BY <1>2, <2>1 DEF Agree
  <2>3. QED
    BY <1>1, <1>3, <2>1, <2>2, EffectiveAgrees
<1>4. ASSUME NEW a \in Arns, NEW t \in 0..MaxNow, t <= now, lastWrite'[a] < t
      PROVE  n \notin Naming(params, a) \cup Naming(params', a) /\ lastWrite[a] < t
  <2>1. now \in Int /\ t \in Int
    BY <1>2, StoreAssumption
  <2>2. CASE n \in Naming(params, a) \cup Naming(params', a)
    <3>1. lastWrite'[a] = now
      BY <1>1, <2>2
    <3>2. QED
      BY <1>4, <2>1, <3>1
  <2>3. CASE n \notin Naming(params, a) \cup Naming(params', a)
    BY <1>3, <1>4, <2>3
  <2>4. QED
    BY <2>2, <2>3
<1>5. ASSUME NEW e \in Envs PROVE CacheTracks(e)'
  <2>1. /\ CacheTracks(e)
        /\ cache[e] # Cold => cache[e] \in Cache
    BY DEF SInv, TypeOK
  <2>2. ASSUME cache[e] # Cold, NEW a \in Arns, lastWrite'[a] < cache[e].startedAt
        PROVE  cache[e].configs[a] = Effective(params', a)
    <3>1. cache[e].startedAt \in 0..MaxNow /\ cache[e].startedAt <= now
      BY <1>2, <2>1, <2>2, StoreAssumption DEF Cache, CacheTracks
    <3>2. n \notin Naming(params, a) \cup Naming(params', a) /\ lastWrite[a] < cache[e].startedAt
      BY <1>4, <2>2, <3>1
    <3>3. QED
      BY <1>3, <2>1, <2>2, <3>2 DEF CacheTracks
  <2>3. QED
    BY <1>1, <2>1, <2>2 DEF CacheTracks
<1>6. ASSUME NEW e \in Envs PROVE ReaderTracks(e)'
  <2>1. ReaderTracks(e) /\ reader[e].startedAt \in 0..MaxNow
    BY DEF SInv, TypeOK, Reader
  <2>2. ASSUME reader[e].busy, NEW a \in Arns, lastWrite'[a] < reader[e].startedAt
        PROVE  reader[e].configs[a] = Effective(Upto(params', reader[e].page), a)
    <3>1. /\ n \notin Naming(params, a) \cup Naming(params', a)
          /\ reader[e].configs[a] = Effective(Upto(params, reader[e].page), a)
      BY <1>4, <2>1, <2>2 DEF ReaderTracks
    <3>2. \A k \in Names :
            Agree(Upto(params, reader[e].page)[k], Upto(params', reader[e].page)[k], a)
      BY <1>2, <1>3, <3>1 DEF Upto, Agree
    <3>3. QED
      BY <3>1, <3>2, EffectiveAgrees
  <2>3. QED
    BY <1>1, <2>1, <2>2 DEF ReaderTracks
<1>7. QED
  BY <1>5, <1>6 DEF SInv

\* Time passes only within the timeout of every refresh.
LEMMA TickTracks == ASSUME SInv, TypeOK', Tick PROVE SInv'
<1>1. ASSUME NEW e \in Envs PROVE CacheTracks(e)' /\ ReaderTracks(e)'
  <2>1. /\ CacheTracks(e) /\ ReaderTracks(e) /\ now \in Nat /\ now' = now + 1
        /\ UNCHANGED <<params, lastWrite, cache, reader>>
        /\ reader[e].busy => now < reader[e].startedAt + MaxRefresh
    BY DEF Tick, SInv, TypeOK
  <2>2. /\ cache[e] # Cold => cache[e].loadedAt \in Nat
        /\ reader[e].startedAt \in Nat /\ MaxRefresh \in Nat
    BY StoreAssumption DEF SInv, TypeOK, Reader, Cache
  <2>3. CacheTracks(e)'
    BY <2>1, <2>2 DEF CacheTracks
  <2>4. ReaderTracks(e)'
    BY <2>1, <2>2 DEF ReaderTracks
  <2>5. QED
    BY <2>3, <2>4
<1>2. QED
  BY <1>1 DEF SInv

\* A refresh begins, fails or dies: the cache stays or is dropped.
LEMMA CacheStaysTracks ==
  ASSUME SInv, TypeOK', NEW e \in Envs,
         \/ \E a \in Arns : Lookup(e, a) \/ Begin(e, a)
         \/ PageFails(e) \/ Kill(e)
  PROVE  SInv'
<1>1. /\ UNCHANGED <<now, params, lastWrite>> /\ cache'[e] \in {cache[e], Cold}
      /\ \A f \in Envs : f # e => cache'[f] = cache[f] /\ reader'[f] = reader[f]
  BY DEF Lookup, Begin, PageFails, Kill, SInv, TypeOK
<1>2. CacheTracks(e)'
  BY <1>1 DEF CacheTracks, SInv
<1>3. CASE \E a \in Arns : Begin(e, a)
  <2>1. /\ reader'[e].busy /\ reader'[e].page = 1 /\ reader'[e].startedAt = now
        /\ reader'[e].configs = [a \in Arns |-> NoConfig]
    <3>1. PICK arn \in Arns : Begin(e, arn)
      BY <1>3
    <3> DEFINE r == [Idle EXCEPT !.busy = TRUE, !.arn = arn, !.startedAt = now]
    <3>2. r.busy = TRUE /\ r.page = 1 /\ r.startedAt = now /\ r.configs = [a \in Arns |-> NoConfig]
      BY DEF Idle
    <3>3. reader' = [reader EXCEPT ![e] = r]
      BY <3>1 DEF Begin
    <3> HIDE DEF r
    <3>4. reader'[e] = r
      BY <3>3 DEF SInv, TypeOK
    <3>5. QED
      BY <3>2, <3>4
  <2>2. now \in Nat /\ MaxRefresh \in Nat /\ \A n \in Names : ~(PageOf(n) < 1)
    BY Pages, StoreAssumption DEF SInv, TypeOK
  <2>3. \A a : Effective(Upto(params, 1), a) = NoConfig
    BY <2>2, StoreAssumption DEF Effective, Naming, Upto
  <2>4. ReaderTracks(e)'
    BY <1>1, <2>1, <2>2, <2>3 DEF ReaderTracks
  <2>5. QED
    BY <1>1, <1>2, <2>4, StepTracks
<1>4. CASE PageFails(e) \/ Kill(e)
  <2>1. ~reader'[e].busy
    BY <1>4 DEF PageFails, Kill, SInv, TypeOK, Idle
  <2>2. QED
    BY <1>1, <1>2, <2>1, StepTracks DEF ReaderTracks
<1>5. CASE \E a \in Arns : Lookup(e, a)
  <2>1. UNCHANGED reader
    BY <1>5 DEF Lookup
  <2>2. ReaderTracks(e)'
    BY <1>1, <2>1 DEF SInv, ReaderTracks
  <2>3. QED
    BY <1>1, <1>2, <2>2, StepTracks
<1>6. QED
  BY <1>3, <1>4, <1>5

LEMMA SInvInit == Init => SInv
<1> SUFFICES ASSUME Init PROVE SInv
  OBVIOUS
<1>1. \A e \in Envs : cache[e] = Cold /\ ~reader[e].busy
  BY DEF Init, Idle
<1>2. QED
  BY <1>1, StoreInitType DEF SInv, CacheTracks, ReaderTracks

LEMMA SInvStep == SInv /\ [Next]_vars => SInv'
<1> SUFFICES ASSUME SInv, [Next]_vars PROVE SInv'
  OBVIOUS
<1>1. TypeOK'
  BY StoreNextType DEF SInv, vars, TypeOK
<1>2. CASE UNCHANGED vars
  BY <1>2 DEF vars, SInv, TypeOK, CacheTracks, ReaderTracks
<1>3. CASE Next
  BY <1>1, <1>3, TickTracks, WriteTracks, ReadPageTracks, InstallTracks, CacheStaysTracks
  DEF Next
<1>4. QED
  BY <1>2, <1>3

\* In every reachable state, caches and refreshes track the parameters.
LEMMA Tracking == Spec => []SInv
<1>1. Init => SInv
  BY SInvInit
<1>2. QED
  BY <1>1, SInvStep, PTL DEF Spec

\* What a cache says of a queue is what is registered, and what a refresh has put
\* into its map is what the pages it asked for say, unless the queue's parameters
\* changed since that refresh began: also where several parameters name the queue,
\* and where deployments fall between the pages (config.rs:110-150).
THEOREM CachesTrack == Spec => []CacheTracksChanges
<1>1. SInv => CacheTracksChanges
  <2>1. \A e \in Envs : AskedFor(e) = Upto(params, reader[e].page)
    BY DEF AskedFor, Upto
  <2>2. QED
    BY <2>1 DEF SInv, CacheTracks, ReaderTracks, CacheTracksChanges
<1>2. QED
  BY <1>1, Tracking, PTL

\* What config_for answers, from its cache or after a refresh.
LEMMA RecentAnswer ==
  ASSUME SInv, NEW e \in Envs, NEW a \in Arns, Answers(e, a),
         answer'[e].result # Effective(params, a)
  PROVE  now - lastWrite[a] < TTL + MaxRefresh
<1>1. /\ now \in Nat /\ lastWrite[a] \in Int /\ TTL \in Nat /\ TTL > 0 /\ MaxRefresh \in Nat
      /\ cache[e] # Cold => cache[e].loadedAt \in Nat /\ cache[e].startedAt \in Nat
      /\ reader[e].startedAt \in Nat
  BY StoreAssumption DEF SInv, TypeOK, Reader, Cache
<1>2. CASE Lookup(e, a)
  <2>1. cache[e] # Cold /\ now - cache[e].loadedAt < TTL
    BY <1>2 DEF Lookup, Fresh
  <2>2. answer'[e].result = cache[e].configs[a]
    BY <1>2 DEF Lookup, Answer, SInv, TypeOK
  <2>3. /\ ~(lastWrite[a] < cache[e].startedAt)
        /\ cache[e].loadedAt <= cache[e].startedAt + MaxRefresh
    BY <2>1, <2>2 DEF SInv, CacheTracks
  <2>4. QED
    BY <1>1, <2>1, <2>3
<1>3. CASE Install(e) /\ reader[e].arn = a
  <2>1. answer'[e].result = reader[e].configs[a]
    BY <1>3 DEF Install, Answer, SInv, TypeOK
  <2>2. ~(lastWrite[a] < reader[e].startedAt) /\ now <= reader[e].startedAt + MaxRefresh
    BY <1>3, <2>1, AllRead DEF Install, SInv, ReaderTracks
  <2>3. QED
    BY <1>1, <2>2
<1>4. QED
  BY <1>2, <1>3 DEF Answers

\* An answer of config_for is out of date for less than the time to live plus one
\* refresh: the bound a test cannot wait for (config.rs:89-107).
THEOREM AnswersAreRecent == Spec => StaleOnlyAfterChange
<1>1. SInv => \A e \in Envs, a \in Arns :
                Answers(e, a) /\ answer'[e].result # Effective(params, a)
                  => now - lastWrite[a] < TTL + MaxRefresh
  BY RecentAnswer
<1>2. QED
  BY <1>1, Tracking, PTL DEF Spec, StaleOnlyAfterChange
=============================================================================
