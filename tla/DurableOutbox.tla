--------------------------- MODULE DurableOutbox ----------------------------
(***************************************************************************)
(* What a checkpoint promises to the lab: a letter leaves for the door     *)
(* only under a number that the outside copy of the outbox already holds,  *)
(* and the outside copy never loses, and never gives to another letter, a  *)
(* number under which a letter has left.                                   *)
(***************************************************************************)
EXTENDS Naturals

CONSTANT Letter

VARIABLES
  stored,  \* the outbox of the outside copy, as pairs of a number and a record
  sent     \* what may be on the door

durableVars == <<stored, sent>>

Pairs == (Nat \ {0}) \X Letter
OneEach(S) == \A p, q \in S : p[1] = q[1] => p = q

\* The outside copy is replaced by one that still has everything sent.
Store ==
  /\ stored' \subseteq Pairs
  /\ OneEach(stored')
  /\ sent \subseteq stored'
  /\ sent' = sent

\* Letters of the outside copy leave.
Push ==
  /\ sent \subseteq sent'
  /\ sent' \subseteq stored
  /\ stored' = stored

DurableInit == stored = {} /\ sent = {}
DurableNext == Store \/ Push
DurableSpec == DurableInit /\ [][DurableNext]_durableVars

\* One number, one letter: what is on the door can be told from its numbers.
OneLetterPerNumber == OneEach(sent)
=============================================================================
