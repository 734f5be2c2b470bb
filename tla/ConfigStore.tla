---------------------------- MODULE ConfigStore ----------------------------
(***************************************************************************)
(* ConfigStore (config.rs) of every execution environment, the parameters  *)
(* it reads from SSM, and time.  A refresh reads the path page by page, so *)
(* deployments come between its pages, and between the last page and the   *)
(* moment the result is installed and its time to live begins.             *)
(*                                                                         *)
(* Lookups of one environment follow each other: it handles one event at a *)
(* time, and `handle` holds the store's mutex across them.                 *)
(***************************************************************************)
EXTENDS Integers

CONSTANTS
  Envs,        \* execution environments
  Arns,        \* replay queues
  Versions,    \* what a configuration says besides its queue
  NumNames,    \* parameters under the path, numbered in the order SSM lists them
  PageSize,    \* parameters of one GetParametersByPath page
  TTL,         \* ttl of the store
  MaxRefresh,  \* the function's timeout, which bounds a refresh
  NoConfig, Absent, Malformed, Cold, Failed,
  MaxNow,      \* bound: time
  MaxWrites,   \* bound: parameter changes
  MaxFaults    \* bound: failed SSM calls and killed environments

Names == 1..NumNames
PageOf(n) == ((n - 1) \div PageSize) + 1
LastPage == PageOf(NumNames)

Config == [arn : Arns, version : Versions]
Value == Config \cup {Absent, Malformed}

\* A HashMap from queues to what their configuration says.
Configs == [Arns -> Versions \cup {NoConfig}]

\* ConfigStore.cache, and when the refresh that loaded it began (history).
Cache == [startedAt : 0..MaxNow, loadedAt : 0..MaxNow, configs : Configs]

ASSUME StoreAssumption ==
  /\ Arns # {}
  /\ NumNames \in Nat \ {0} /\ PageSize \in Nat \ {0}
  /\ TTL \in Nat \ {0} /\ MaxRefresh \in Nat
  /\ MaxNow \in Nat /\ MaxWrites \in Nat /\ MaxFaults \in Nat
  /\ NoConfig \notin Versions /\ Failed \notin Versions \cup {NoConfig}
  /\ Absent \notin Config /\ Malformed \notin Config /\ Absent # Malformed
  /\ Cold \notin Cache

VARIABLES
  now,        \* time, in ticks
  params,     \* SSM Parameter Store below the path
  lastWrite,  \* when a parameter of the queue was last changed (history)
  cache,      \* ConfigStore.cache
  reader,     \* the refresh under way
  answer,     \* what config_for returned last, and when
  writes, faults

vars == <<now, params, lastWrite, cache, reader, answer, writes, faults>>

\* page: the next page to read; configs: the map filled so far.
Reader == [busy : BOOLEAN, arn : Arns, page : 1..(LastPage + 1),
           configs : Configs, startedAt : 0..MaxNow]

Idle == [busy |-> FALSE, arn |-> CHOOSE a \in Arns : TRUE, page |-> 1,
         configs |-> [a \in Arns |-> NoConfig], startedAt |-> 0]

TypeOK ==
  /\ now \in 0..MaxNow
  /\ params \in [Names -> Value]
  /\ lastWrite \in [Arns -> Int]
  /\ cache \in [Envs -> Cache \cup {Cold}]
  /\ reader \in [Envs -> Reader]
  /\ answer \in [Envs -> [result : Versions \cup {NoConfig, Failed}, at : 0..MaxNow]]
  /\ writes \in 0..MaxWrites
  /\ faults \in 0..MaxFaults

\* The parameters that parse and name a queue.
Naming(values, a) == {n \in Names : values[n] \in Config /\ values[n].arn = a}

Latest(S) == CHOOSE n \in S : \A m \in S : m <= n

\* What is registered for a queue: of the parameters that name it, the last one
\* that SSM lists.
Effective(values, a) ==
  IF Naming(values, a) = {} THEN NoConfig ELSE values[Latest(Naming(values, a))].version

Answer(result) == [result |-> result, at |-> now]

Init ==
  /\ now = 0
  /\ params \in [Names -> Value]
  /\ lastWrite = [a \in Arns |-> -(TTL + MaxRefresh)]
  /\ cache = [e \in Envs |-> Cold]
  /\ reader = [e \in Envs |-> Idle]
  /\ answer = [e \in Envs |-> Answer(Failed)]
  /\ writes = 0
  /\ faults = 0

Fault == faults < MaxFaults /\ faults' = faults + 1

\* Mutant: elapsed() <= ttl.
FreshTooLong(e) == cache[e] # Cold /\ now - cache[e].loadedAt <= TTL

\* loaded_at.elapsed() < ttl
Fresh(e) == cache[e] # Cold /\ now - cache[e].loadedAt < TTL

\* config_for, answered from the cache.
Lookup(e, a) ==
  /\ ~reader[e].busy
  /\ Fresh(e)
  /\ answer' = [answer EXCEPT ![e] = Answer(cache[e].configs[a])]
  /\ UNCHANGED <<now, params, lastWrite, cache, reader, writes, faults>>

\* config_for, with a refresh: its first request is sent.
Begin(e, a) ==
  /\ ~reader[e].busy
  /\ ~Fresh(e)
  /\ reader' = [reader EXCEPT ![e] = [Idle EXCEPT !.busy = TRUE, !.arn = a, !.startedAt = now]]
  /\ UNCHANGED <<now, params, lastWrite, cache, answer, writes, faults>>

\* Mutant: what a queue has already is kept.
InsertPageKeeping(configs, page) ==
  [a \in Arns |-> LET listed == {n \in Naming(params, a) : PageOf(n) = page}
                  IN IF listed = {} \/ configs[a] # NoConfig THEN configs[a]
                     ELSE params[Latest(listed)].version]

\* The parameters of a page, inserted one after the other: a parameter that does
\* not parse is skipped, and a later one replaces what the queue has already.
InsertPage(configs, page) ==
  [a \in Arns |-> LET listed == {n \in Naming(params, a) : PageOf(n) = page}
                  IN IF listed = {} THEN configs[a] ELSE params[Latest(listed)].version]

\* Mutant: the page loop does not look at a missing next token.
ReadPageForEver(e) ==
  /\ reader[e].busy
  /\ reader' = [reader EXCEPT ![e].page = @ + 1,
                              ![e].configs = InsertPage(@, reader[e].page)]
  /\ UNCHANGED <<now, params, lastWrite, cache, answer, writes, faults>>

\* SSM answers the request for a page.
ReadPage(e) ==
  /\ reader[e].busy /\ reader[e].page <= LastPage
  /\ reader' = [reader EXCEPT ![e].page = @ + 1,
                              ![e].configs = InsertPage(@, reader[e].page)]
  /\ UNCHANGED <<now, params, lastWrite, cache, answer, writes, faults>>

\* The cache that a refresh leaves.
Refreshed(e) ==
  [startedAt |-> reader[e].startedAt, loadedAt |-> now, configs |-> reader[e].configs]

\* The last page has arrived: the cache is replaced and the lookup answered.
Install(e) ==
  /\ reader[e].busy /\ reader[e].page > LastPage
  /\ cache' = [cache EXCEPT ![e] = Refreshed(e)]
  /\ answer' = [answer EXCEPT ![e] = Answer(reader[e].configs[reader[e].arn])]
  /\ reader' = [reader EXCEPT ![e] = Idle]
  /\ UNCHANGED <<now, params, lastWrite, writes, faults>>

\* Mutant: what was read before a page failed replaces the cache.
PageFailsHalfWay(e) ==
  /\ reader[e].busy
  /\ Fault
  /\ cache' = [cache EXCEPT ![e] = Refreshed(e)]
  /\ reader' = [reader EXCEPT ![e] = Idle]
  /\ answer' = [answer EXCEPT ![e] = Answer(Failed)]
  /\ UNCHANGED <<now, params, lastWrite, writes>>

\* A page cannot be read: the lookup fails and the cache stays as it was.
PageFails(e) ==
  /\ reader[e].busy
  /\ Fault
  /\ reader' = [reader EXCEPT ![e] = Idle]
  /\ answer' = [answer EXCEPT ![e] = Answer(Failed)]
  /\ UNCHANGED <<now, params, lastWrite, cache, writes>>

\* The environment is killed, at the latest when the function times out.
Kill(e) ==
  /\ reader[e].busy
  /\ Fault
  /\ reader' = [reader EXCEPT ![e] = Idle]
  /\ cache' = [cache EXCEPT ![e] = Cold]
  /\ UNCHANGED <<now, params, lastWrite, answer, writes>>

\* A deployment creates, changes or deletes one parameter.
Write(n, v) ==
  /\ writes < MaxWrites
  /\ params[n] # v
  /\ params' = [params EXCEPT ![n] = v]
  /\ lastWrite' = [a \in Arns |-> IF n \in Naming(params, a) \cup Naming(params', a)
                                  THEN now ELSE lastWrite[a]]
  /\ writes' = writes + 1
  /\ UNCHANGED <<now, cache, reader, answer, faults>>

\* Time passes, but not beyond the timeout of an invocation.
Tick ==
  /\ now < MaxNow
  /\ \A e \in Envs : reader[e].busy => now < reader[e].startedAt + MaxRefresh
  /\ now' = now + 1
  /\ UNCHANGED <<params, lastWrite, cache, reader, answer, writes, faults>>

Next ==
  \/ Tick
  \/ \E n \in Names, v \in Value : Write(n, v)
  \/ \E e \in Envs :
       \/ \E a \in Arns : Lookup(e, a) \/ Begin(e, a)
       \/ ReadPage(e) \/ Install(e) \/ PageFails(e) \/ Kill(e)

Spec == Init /\ [][Next]_vars

-----------------------------------------------------------------------------
\* What config_for answers differs from what is registered only shortly after a
\* change that touched the queue's parameters: less than the time to live plus
\* the longest refresh, because the time to live starts when a refresh ends
\* (config.rs:102-151).  It covers a refresh torn by deployments between its
\* pages, one that failed half-way, and parameters that do not parse.
Answers(e, a) == Lookup(e, a) \/ (Install(e) /\ reader[e].arn = a)
StaleOnlyAfterChange ==
  [][\A e \in Envs, a \in Arns :
       Answers(e, a) /\ answer'[e].result # Effective(params, a)
         => now - lastWrite[a] < TTL + MaxRefresh]_vars

\* The parameters that a refresh has asked for, as they are now.
AskedFor(e) == [n \in Names |-> IF PageOf(n) < reader[e].page THEN params[n] ELSE Absent]

\* Why: of a queue whose parameters did not change since a refresh began, the map
\* that this refresh is filling says at each page what the pages up to there say,
\* and the cache it leaves says what is registered; also where several parameters
\* name the queue (config.rs:110-150).
CacheTracksChanges ==
  \A e \in Envs, a \in Arns :
    /\ reader[e].busy /\ lastWrite[a] < reader[e].startedAt
         => reader[e].configs[a] = Effective(AskedFor(e), a)
    /\ cache[e] # Cold /\ lastWrite[a] < cache[e].startedAt
         => cache[e].configs[a] = Effective(params, a)
=============================================================================
