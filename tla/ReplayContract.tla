--------------------------- MODULE ReplayContract ---------------------------
(***************************************************************************)
(* What the replayer promises to the owner of a queue, without Lambda      *)
(* invocations, caches, visibility timeouts or batches: the life of each   *)
(* copy of a message between the three queues of its chain (README,        *)
(* "How it works").                                                        *)
(***************************************************************************)
EXTENDS Integers

CONSTANTS Chains, MaxCopies, Originals, Limits

VARIABLES
  item,  \* the copies: place, chain, body, replay count, and what they replay
  sent   \* copies 1..sent exist

vars == <<item, sent>>

Copies == 1..MaxCopies

Init ==
  /\ sent = Originals
  /\ \A c \in Copies : IF c <= Originals
       THEN item[c].place = "source" /\ item[c].parent = 0 /\ item[c].body = c
       ELSE item[c].place = "unsent"

Is(c, p) == c <= sent /\ item[c].place = p

Move(c, p) == /\ item' = [item EXCEPT ![c].place = p]
              /\ UNCHANGED sent

\* The consumer processes a message, or fails until it is redriven.
Consume(c) == Is(c, "source") /\ Move(c, "consumed")
Park(c) == Is(c, "source") /\ Move(c, "replay")

\* A parked message is sent to its own queue again, once more than before and
\* never beyond a configured limit.  The promise is at least once: the message may
\* have been dead-lettered or replayed already.
Replay(c) ==
  /\ c <= sent /\ item[c].place \in {"replay", "dead", "deleted"}
  /\ sent < MaxCopies
  /\ sent' = sent + 1
  /\ \E m \in Limits : item[c].count < m
  /\ item' = [item EXCEPT ![sent + 1] =
       [place |-> "source", chain |-> item[c].chain, body |-> item[c].body,
        count |-> item[c].count + 1, parent |-> c]]

\* A parked message leaves its queue only when it has been replayed.
Drop(c) ==
  /\ Is(c, "replay")
  /\ \E d \in 1..sent : item[d].parent = c
  /\ Move(c, "deleted")

\* A parked message is given up to the dead-letter queue.
GiveUp(c) == Is(c, "replay") /\ Move(c, "dead")

Next == \E c \in Copies : Consume(c) \/ Park(c) \/ Replay(c) \/ Drop(c) \/ GiveUp(c)

Spec == Init /\ [][Next]_vars
=============================================================================
