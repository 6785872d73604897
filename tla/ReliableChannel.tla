-------------------------- MODULE ReliableChannel --------------------------
(***************************************************************************)
(* What a lossless connection promises, as the head of messenger.c puts it: *)
(* "ordered and reliable delivery".  Messages submitted in a session are    *)
(* delivered in that order, each at most once over the whole life of the    *)
(* connection, until one of the two ends forgets the session.               *)
(***************************************************************************)
EXTENDS Naturals, Sequences

CONSTANT Msg

VARIABLES
  submitted,   \* messages accepted in the present session, in order
  delivered,   \* those of them that the peer has been given
  up,          \* does the peer know of the session?
  once         \* all messages that were ever delivered

chan == <<submitted, delivered, up, once>>

Init == submitted = <<>> /\ delivered = <<>> /\ up = FALSE /\ once = {}

Submit(m) ==
  /\ submitted' = Append(submitted, m)
  /\ UNCHANGED <<delivered, up, once>>

\* Only a session that has delivered nothing may be taken for a new one.
Establish ==
  /\ ~up /\ \A i \in 1..Len(submitted) : submitted[i] \notin once
  /\ up' = TRUE /\ delivered' = <<>>
  /\ UNCHANGED <<submitted, once>>

Deliver ==
  /\ up /\ Len(delivered) < Len(submitted)
  /\ LET m == submitted[Len(delivered) + 1]
     IN  /\ m \notin once
         /\ delivered' = Append(delivered, m) /\ once' = once \cup {m}
  /\ UNCHANGED <<submitted, up>>

\* The peer loses its state.
Forget ==
  /\ up' = FALSE /\ delivered' = <<>>
  /\ UNCHANGED <<submitted, once>>

\* The sender discards what it holds and starts again.
Reset ==
  /\ submitted' = <<>> /\ delivered' = <<>> /\ up' = FALSE
  /\ UNCHANGED once

Next ==
  \/ \E m \in Msg : Submit(m)
  \/ Establish \/ Deliver \/ Forget \/ Reset

Spec == Init /\ [][Next]_chan
=============================================================================
