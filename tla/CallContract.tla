---------------------------- MODULE CallContract ----------------------------
(***************************************************************************)
(* What chunk_entries promises to the handler, all at once: the requests   *)
(* are divided into calls, each to one destination and with at most        *)
(* MAX_ENTRIES entries.  It is what ReplayHandler takes from the code, for *)
(* the copies of one invocation, in its operator Chunks; Chunking          *)
(* implements it.                                                          *)
(***************************************************************************)
EXTENDS Naturals, FiniteSets

CONSTANT MAX_ENTRIES  \* 10

VARIABLES
  requests,  \* the destination of each request
  calls      \* the calls, sets of requests

Divisions ==
  {P \in SUBSET ((SUBSET DOMAIN requests) \ {{}}) :
     /\ UNION P = DOMAIN requests
     /\ \A C, D \in P : C = D \/ C \cap D = {}
     /\ \A C \in P : Cardinality(C) <= MAX_ENTRIES
     /\ \A C \in P : \A p, q \in C : requests[p] = requests[q]}

Init == calls = {}

Divide ==
  /\ calls = {}
  /\ calls' \in Divisions
  /\ UNCHANGED requests

Spec == Init /\ [][Divide]_<<requests, calls>>
=============================================================================
