------------------------------ MODULE Chunking ------------------------------
(***************************************************************************)
(* chunk_entries (replay.rs): the requests of one invocation are grouped   *)
(* by destination, and each group is cut into SendMessageBatch calls, with *)
(* the bytes of bodies and attributes that ReplayHandler leaves out.       *)
(*                                                                         *)
(* An entry is known by its position in the input; its message by the      *)
(* bytes of its body and of the attributes it arrived with, not counting   *)
(* an sqs-dlq-replay-num from an earlier replay.                           *)
(***************************************************************************)
EXTENDS Naturals, SequencesExt

CONSTANTS
  Destinations,    \* queue URLs
  NoDestination,   \* no group is being cut
  BodyBytes,       \* the body sizes of messages
  AttributeBytes,  \* the sizes of their attributes
  MaxInput,        \* bound: requests of one invocation
  MAX_ENTRIES,     \* 10
  MAX_BODY_BYTES,  \* 240 KB
  PayloadLimit,    \* 256 KB: what SQS accepts in a message and in a call
  CountBytes       \* what sqs-dlq-replay-num adds to a message

ASSUME ChunkingAssumption ==
  /\ NoDestination \notin Destinations
  /\ BodyBytes \subseteq Nat /\ AttributeBytes \subseteq Nat
  /\ MaxInput \in Nat /\ MAX_ENTRIES \in Nat \ {0}
  /\ MAX_BODY_BYTES \in Nat /\ PayloadLimit \in Nat /\ CountBytes \in Nat \ {0}
  /\ MAX_BODY_BYTES <= PayloadLimit

VARIABLES
  input,    \* the entries given to chunk_entries
  taken,    \* how many of them are in a group
  groups,   \* groups: the positions for each destination
  url,      \* queue_url of the group being cut
  rest,     \* what is left of that group
  current,  \* the chunk being filled
  size,     \* its body bytes
  chunks    \* the chunks that are complete

vars == <<input, taken, groups, url, rest, current, size, chunks>>

\* What SQS delivers: a message that SQS once accepted.
Entry == {e \in [queue_url : Destinations, body : BodyBytes, attributes : AttributeBytes] :
            e.body + e.attributes <= PayloadLimit}

Positions == 1..Len(input)
Chunk == [queue_url : Destinations, entries : Seq(Positions)]

TypeOK ==
  /\ input \in Seq(Entry)
  /\ taken \in 0..Len(input)
  /\ groups \in [Destinations -> Seq(Positions)]
  /\ url \in Destinations \cup {NoDestination}
  /\ rest \in Seq(Positions) /\ current \in Seq(Positions)
  /\ size \in Nat
  /\ chunks \in Seq(Chunk)

Init ==
  /\ \E n \in 0..MaxInput : input \in [1..n -> Entry]
  /\ taken = 0
  /\ groups = [d \in Destinations |-> <<>>]
  /\ url = NoDestination
  /\ rest = <<>> /\ current = <<>> /\ size = 0
  /\ chunks = <<>>

-----------------------------------------------------------------------------
(* Grouping *)

\* Mutant: the position is counted from zero.
GroupFromZero ==
  /\ taken < Len(input)
  /\ taken' = taken + 1
  /\ groups' = [groups EXCEPT ![input[taken + 1].queue_url] = Append(@, taken)]
  /\ UNCHANGED <<input, url, rest, current, size, chunks>>

\* Mutant: all entries go into the group of the first one.
GroupTogether ==
  /\ taken < Len(input)
  /\ taken' = taken + 1
  /\ groups' = [groups EXCEPT ![input[1].queue_url] = Append(@, taken + 1)]
  /\ UNCHANGED <<input, url, rest, current, size, chunks>>

Group ==
  /\ taken < Len(input)
  /\ taken' = taken + 1
  /\ groups' = [groups EXCEPT ![input[taken + 1].queue_url] = Append(@, taken + 1)]
  /\ UNCHANGED <<input, url, rest, current, size, chunks>>

-----------------------------------------------------------------------------
(* Cutting one group; a HashMap yields the groups in any order *)

StartGroup(d) ==
  /\ taken = Len(input) /\ url = NoDestination
  /\ groups[d] # <<>>
  /\ url' = d
  /\ rest' = groups[d]
  /\ groups' = [groups EXCEPT ![d] = <<>>]
  /\ current' = <<>> /\ size' = 0
  /\ UNCHANGED <<input, taken, chunks>>

EntrySize == input[Head(rest)].body

\* Mutant: the entry that is about to be added is not counted.
FullLate ==
  /\ current # <<>>
  /\ Len(current) >= MAX_ENTRIES \/ size > MAX_BODY_BYTES

\* Mutant: one entry too many.
FullOffByOne ==
  /\ current # <<>>
  /\ Len(current) > MAX_ENTRIES \/ size + EntrySize > MAX_BODY_BYTES

Full ==
  /\ current # <<>>
  /\ Len(current) >= MAX_ENTRIES \/ size + EntrySize > MAX_BODY_BYTES

Done == [queue_url |-> url, entries |-> current]

Push ==
  /\ rest # <<>> /\ ~Full
  /\ current' = Append(current, Head(rest))
  /\ size' = size + EntrySize
  /\ rest' = Tail(rest)
  /\ UNCHANGED <<input, taken, groups, url, chunks>>

\* Mutant: the size is not reset for the next chunk.
CutKeepsSize ==
  /\ rest # <<>> /\ Full
  /\ chunks' = Append(chunks, Done)
  /\ current' = <<Head(rest)>>
  /\ size' = size + EntrySize
  /\ rest' = Tail(rest)
  /\ UNCHANGED <<input, taken, groups, url>>

\* The full chunk is complete and the entry is the first of the next one.
CutAndPush ==
  /\ rest # <<>> /\ Full
  /\ chunks' = Append(chunks, Done)
  /\ current' = <<Head(rest)>>
  /\ size' = EntrySize
  /\ rest' = Tail(rest)
  /\ UNCHANGED <<input, taken, groups, url>>

\* Mutant: the chunk that the loop leaves behind is forgotten.
CloseGroupOnly ==
  /\ url # NoDestination /\ rest = <<>>
  /\ url' = NoDestination
  /\ current' = <<>> /\ size' = 0
  /\ UNCHANGED <<input, taken, groups, rest, chunks>>

CloseGroup ==
  /\ url # NoDestination /\ rest = <<>>
  /\ chunks' = IF current = <<>> THEN chunks ELSE Append(chunks, Done)
  /\ url' = NoDestination
  /\ current' = <<>> /\ size' = 0
  /\ UNCHANGED <<input, taken, groups, rest>>

Next ==
  \/ Group
  \/ \E d \in Destinations : StartGroup(d)
  \/ Push
  \/ CutAndPush
  \/ CloseGroup

Spec == Init /\ [][Next]_vars

-----------------------------------------------------------------------------
(* What the calls carry *)

Total(bytes) ==
  LET upTo[n \in 0..Len(bytes)] == IF n = 0 THEN 0 ELSE upTo[n - 1] + bytes[n]
  IN  upTo[Len(bytes)]

Bodies(positions) == Total([i \in DOMAIN positions |-> input[positions[i]].body])

\* map_message_attributes: those of the message, and the replay count.
SentAttributes(positions) ==
  Total([i \in DOMAIN positions |-> input[positions[i]].attributes + CountBytes])

Payload(chunk) == Bodies(chunk.entries) + SentAttributes(chunk.entries)

IsSingle(chunk) == Len(chunk.entries) = 1

Headroom == PayloadLimit - MAX_BODY_BYTES

-----------------------------------------------------------------------------
(* Properties *)

\* The chunks of a queue, the chunk being filled and what is left of its group.
ChunksTo(d) ==
  [i \in DOMAIN chunks |-> IF chunks[i].queue_url = d THEN chunks[i].entries ELSE <<>>]

Sent(d) ==
  FlattenSeq(ChunksTo(d)) \o (IF url = d THEN current \o rest ELSE <<>>) \o groups[d]

\* No entry is dropped, sent twice or sent to another queue, and those of one
\* queue keep their order: what is sent to a queue are, one after the other, the
\* entries of the input for it.
GroupsStayWhole ==
  \A d \in Destinations :
    /\ Range(Sent(d)) = {p \in 1..taken : input[p].queue_url = d}
    /\ \A i, j \in DOMAIN Sent(d) : i < j => Sent(d)[i] < Sent(d)[j]

\* A call is not empty, has at most ten entries, and the bodies fill at most
\* 240 KB, unless a single body is larger (replay.rs:103-106).
EntriesWithinLimit == \A i \in DOMAIN chunks : Len(chunks[i].entries) \in 1..MAX_ENTRIES

BodiesWithinLimit ==
  \A i \in DOMAIN chunks :
    Bodies(chunks[i].entries) <= MAX_BODY_BYTES \/ IsSingle(chunks[i])

CallsWithinLimits == EntriesWithinLimit /\ BodiesWithinLimit

\* No call more than the limits ask for ("one API call per destination queue"):
\* a chunk that follows another one of its queue starts with an entry that did
\* not fit into it.
NoCallToSpare ==
  \A i \in DOMAIN chunks \ {1} :
    LET before == chunks[i - 1] IN
    chunks[i].queue_url = before.queue_url =>
      \/ Len(before.entries) = MAX_ENTRIES
      \/ Bodies(Append(before.entries, Head(chunks[i].entries))) > MAX_BODY_BYTES

\* The headroom does what it is there for: a call is larger than SQS accepts only
\* if its attributes alone are larger than the headroom, or if it is one message
\* that was within the limit until the replay count was added to it.
OverLimitOnlyByAttributes ==
  \A i \in DOMAIN chunks :
    Payload(chunks[i]) > PayloadLimit =>
      \/ SentAttributes(chunks[i].entries) > Headroom
      \/ IsSingle(chunks[i]) /\ Bodies(chunks[i].entries) > MAX_BODY_BYTES

Finished ==
  taken = Len(input) /\ url = NoDestination /\ \A d \in Destinations : groups[d] = <<>>

Contract == INSTANCE CallContract WITH
  requests <- [p \in Positions |-> input[p].queue_url],
  calls <- IF Finished THEN {Range(chunks[i].entries) : i \in DOMAIN chunks} ELSE {}

\* The calls of an invocation are a division of its requests, each to one queue:
\* what ReplayHandler assumes where it leaves the cutting open (replay.rs:100-102,
\* "requests for the same destination are batched together").
KeepsCallContract == Contract!Spec

\* The doc of chunk_entries (replay.rs:100-102): "each chunk stays within SQS's
\* per-request limits (10 entries, 256 KB of payload)".
PayloadWithinLimit ==
  \A i \in DOMAIN chunks : Payload(chunks[i]) <= PayloadLimit
=============================================================================
