----------------------------- MODULE MailOrder -------------------------------
(***************************************************************************)
(* What the sending of drafts promises: a letter reaches the door only     *)
(* after its draft was approved, once, in the words approved, under the    *)
(* next number; it is reported as sent only when it did, and as failed     *)
(* only when it never did and never will.                                  *)
(***************************************************************************)
EXTENDS Integers, FiniteSets

CONSTANTS Draft, None

VARIABLES
  decided,    \* decided[d]: "approved", "rejected" or None
  delivered,  \* what ever reached the door: records with n, draft, true
  outcome     \* outcome[d]: "sent", "failed" or None

orderVars == <<decided, delivered, outcome>>

Decide(d) ==
  /\ decided[d] = None
  /\ \E x \in {"approved", "rejected"} : decided' = [decided EXCEPT ![d] = x]
  /\ UNCHANGED <<delivered, outcome>>

Deliver(d) ==
  /\ decided[d] = "approved"
  /\ outcome[d] # "failed"
  /\ \A l \in delivered : l.draft # d
  /\ \E l \in delivered' :
       /\ delivered' = delivered \cup {l}
       /\ l.n = Cardinality(delivered) + 1
       /\ l.draft = d
       /\ l.true
  /\ UNCHANGED <<decided, outcome>>

Reached(d) == \E l \in delivered : l.draft = d

Report(d) ==
  /\ decided[d] = "approved"
  /\ outcome[d] = None
  /\ outcome' = [outcome EXCEPT ![d] = IF Reached(d) THEN "sent" ELSE "failed"]
  /\ UNCHANGED <<decided, delivered>>

OrderInit ==
  /\ decided = [d \in Draft |-> None]
  /\ delivered = {}
  /\ outcome = [d \in Draft |-> None]

OrderNext == \E d \in Draft : Decide(d) \/ Deliver(d) \/ Report(d)

OrderSpec == OrderInit /\ [][OrderNext]_orderVars
=============================================================================
