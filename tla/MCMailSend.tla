----------------------------- MODULE MCMailSend ------------------------------
(***************************************************************************)
(* The values with which TLC checks MailSend.  Drafts, stamps, and workers *)
(* of one host may be permuted.                                            *)
(***************************************************************************)
EXTENDS MailSend

CONSTANTS d1, d2, d3, h1, h2, w1, w2, s1, s2, c1, c2, p1, p2

OnOneHost == [w \in Worker |-> h1]
OnEach == w1 :> h1 @@ w2 :> h2

Symmetry == Permutations({d1, d2}) \cup Permutations({s1, s2})

\* Two ledgers are open in one instance of the drop only.  A redeployment comes when there
\* is one again, which has the newest copy, and from then on there is one.
OneLedger == Cardinality({h \in Host : open[h]}) <= 1
HasNewest == \A h \in Host : open[h] => base[h] = kept
Apart ==
  /\ redeploys' > redeploys => OneLedger /\ HasNewest
  /\ redeploys' > 0 => OneLedger'
ApartSpec == Init /\ [][Next /\ Apart]_vars
=============================================================================
