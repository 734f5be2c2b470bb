------------------------------ MODULE SqsChain ------------------------------
(***************************************************************************)
(* The queues a replayer sits between.  A chain is the topology            *)
(* Queue -> ReplayQueue -> DeadLetterQueue of sqs-queue-with-replay.ts     *)
(* with both redrive policies; the behaviour of SQS itself (visibility,    *)
(* receive counts, at-least-once deletes) is external and is modelled from *)
(* how the Lambda and its event source mapping rely on it.                 *)
(*                                                                         *)
(* A copy is one SQS message.  A replay is a new copy with the same body:  *)
(* sends are numbered, so a copy is always older than its replays.         *)
(***************************************************************************)
EXTENDS Integers, FiniteSets

CONSTANTS
  Chains,       \* the Queue -> ReplayQueue -> DeadLetterQueue chains
  Originals,    \* number of messages the producers send
  MaxCopies,    \* bound: number of sends the model follows
  MaxReceive,   \* maxReceiveCount of the redrive policies
  StartCounts,  \* replay counts a producer's message may carry
  Shapes        \* the shapes producers' messages may have as Lambda records

ASSUME ChainAssumption ==
  /\ Originals \in Nat /\ MaxCopies \in Nat /\ Originals <= MaxCopies
  /\ MaxReceive \in Nat \ {0}
  /\ Chains # {} /\ Shapes # {}
  /\ StartCounts \subseteq Nat
  /\ Shapes \subseteq {"plain", "badCount", "noBody", "noArn", "noId"}

VARIABLES
  msg,     \* every copy: where it is and what it carries
  sent,    \* copies 1..sent exist
  hidden,  \* copies of a replay queue inside a visibility timeout
  acked    \* copies the event source mapping still has to delete

chainVars == <<msg, sent, hidden, acked>>

Copies == 1..MaxCopies

Places == {"unsent", "source", "replay", "dead", "consumed", "deleted"}

\* parent is the copy a replay was made from (0: sent by a producer).
Message == [place : Places, chain : Chains, body : 0..MaxCopies, count : Nat,
            shape : Shapes \cup {"plain"}, parent : 0..MaxCopies, receives : 0..MaxReceive]

Unsent == [place |-> "unsent", chain |-> CHOOSE ch \in Chains : TRUE, body |-> 0,
           count |-> 0, shape |-> CHOOSE s \in Shapes : TRUE, parent |-> 0, receives |-> 0]

\* A producer's first send of body c.
Produced(c, ch, n, s) == [place |-> "source", chain |-> ch, body |-> c, count |-> n,
                          shape |-> s, parent |-> 0, receives |-> 0]

ChainTypeOK ==
  /\ msg \in [Copies -> Message]
  /\ sent \in Nat /\ sent <= MaxCopies
  /\ \A c \in Copies : msg[c].place = "unsent" <=> c > sent
  /\ hidden \subseteq Copies
  /\ acked \subseteq Copies

ChainInit ==
  /\ \E ch \in [1..Originals -> Chains], n \in [1..Originals -> StartCounts],
        s \in [1..Originals -> Shapes] :
       msg = [c \in Copies |-> IF c <= Originals THEN Produced(c, ch[c], n[c], s[c])
                                                 ELSE Unsent]
  /\ sent = Originals
  /\ hidden = {}
  /\ acked = {}

At(c, p) == c <= sent /\ msg[c].place = p

Visible(c) == At(c, "replay") /\ c \notin hidden

Move(c, p) == [msg EXCEPT ![c].place = p]

(***************************************************************************)
(* The consumer of the source queue: it succeeds, or the redrive policy    *)
(* moves the message to the replay queue, which counts receives afresh.    *)
(***************************************************************************)
Consume(c) ==
  /\ At(c, "source")
  /\ msg' = Move(c, "consumed")
  /\ UNCHANGED <<sent, hidden, acked>>

RedriveToReplay(c) ==
  /\ At(c, "source")
  /\ msg' = Move(c, "replay")
  /\ UNCHANGED <<sent, hidden, acked>>

\* The redrive policy of the replay queue, applied when a message that has used
\* its receives would be received once more.
DeadLetter(c) ==
  /\ Visible(c)
  /\ msg[c].receives = MaxReceive
  /\ msg' = Move(c, "dead")
  /\ UNCHANGED <<sent, hidden, acked>>

\* The visibility timeout of a received message passes.
Reappear(c) ==
  /\ At(c, "replay") /\ c \in hidden
  /\ hidden' = hidden \ {c}
  /\ UNCHANGED <<msg, sent, acked>>

\* The event source mapping deletes a message the Lambda did not report.  It has
\* no effect on a message that has left the replay queue in the meantime.
Delete(c) ==
  /\ c \in acked
  /\ acked' = acked \ {c}
  /\ hidden' = hidden \ {c}
  /\ msg' = IF msg[c].place = "replay" THEN Move(c, "deleted") ELSE msg
  /\ UNCHANGED sent

\* The delete call fails: the message will reappear although it was replayed.
DeleteLost(c) ==
  /\ c \in acked
  /\ acked' = acked \ {c}
  /\ UNCHANGED <<msg, sent, hidden>>
=============================================================================
