------------------------------ MODULE MerkleLog ------------------------------
(***************************************************************************)
(* The transparency log of a hub (hub_log.py): the tree over the admitted  *)
(* envelopes, its proofs, and what a client makes of two tree heads.  A    *)
(* hash is the tuple of what it is taken of.                               *)
(*                                                                         *)
(* tree is the log that is asked.  twin is another one of the same hub,    *)
(* equal to it up to some place: a tree head of it is what a client may    *)
(* have been shown before.  Proofs come from either.                       *)
(***************************************************************************)
EXTENDS Budget, Integers, FiniteSets, SequencesExt

VARIABLES tree, twin

merkleVars == <<tree, twin>>

BareLeaf(x) == IF Len(x) = 2 THEN <<"node", x[1], x[2]>> ELSE <<"leaf", x>>  \* mutant: no prefix
Leaf(x) == <<"leaf", x>>
Node(l, r) == <<"node", l, r>>

\* The greatest power of two that is smaller than n.
Split(n) == CHOOSE k \in 1..(n - 1) : k * 2 >= n /\ \E i \in 0..n : k = 2^i

\* _root, of the leaves from a to b - 1, counted from 0.
Root(s, a, b) ==
  LET root[i, j \in 0..Len(s)] ==
        IF j = i + 1 THEN Leaf(s[j])
        ELSE Node(root[i, i + Split(j - i)], root[i + Split(j - i), j])
  IN IF a = b THEN <<"empty">> ELSE root[a, b]

\* inclusion_proof of leaf m among the first n.
InclusionProof(s, m, n) ==
  LET path[i, j \in 0..Len(s)] ==
        LET k == i + Split(j - i) IN
        IF j = i + 1 THEN <<>>
        ELSE IF m < k THEN Append(path[i, k], Root(s, k, j))
        ELSE Append(path[k, j], Root(s, i, k))
  IN path[0, n]

\* consistency_proof of the first m in the first n.
ConsistencyProof(s, m, n) ==
  LET sub[i, j \in 0..Len(s), complete \in BOOLEAN] ==
        LET k == i + Split(j - i) IN
        IF m = j THEN (IF complete THEN <<>> ELSE <<Root(s, i, j)>>)
        ELSE IF m <= k THEN Append(sub[i, k, complete], Root(s, k, j))
        ELSE Append(sub[k, j, FALSE], Root(s, i, k))
  IN sub[0, n, TRUE]

-----------------------------------------------------------------------------
(* Verification: the place is halved step by step, and with it the last     *)
(* place; nothing may be left of that in the end.                           *)

OddOnly(fn, sn) == fn % 2 = 1  \* mutant: forgets the right edge
OnTheLeft(fn, sn) == fn % 2 = 1 \/ fn = sn

\* After a step along the right edge, up to where the place is a right child again.
Climb(fn) == CHOOSE k \in 0..fn : /\ (fn \div 2^k) % 2 = 1 \/ fn \div 2^k = 0
                                  /\ \A i \in 0..(k - 1) : (fn \div 2^i) % 2 = 0 /\ fn \div 2^i # 0
Rise(v) ==
  LET k == 1 + IF OnTheLeft(v.fn, v.sn) THEN Climb(v.fn) ELSE 0
  IN [v EXCEPT !.fn = @ \div 2^k, !.sn = @ \div 2^k]

\* One hash more: it goes to the left or to the right.  old is the root of the old tree,
\* which only grows to the left.
Step(v, p) ==
  IF ~v.ok \/ v.sn = 0 THEN [v EXCEPT !.ok = FALSE]
  ELSE Rise(IF OnTheLeft(v.fn, v.sn)
            THEN [v EXCEPT !.old = Node(p, @), !.new = Node(p, @)]
            ELSE [v EXCEPT !.new = Node(@, p)])

VerifyInclusion(x, index, size, proof, root) ==
  /\ index \in 0..(size - 1)
  /\ LET v == FoldLeft(Step, [fn |-> index, sn |-> size - 1, old |-> Leaf(x), new |-> Leaf(x), ok |-> TRUE],
                       proof)
     IN v.ok /\ v.sn = 0 /\ v.new = root

NeverImplied(n) == FALSE  \* mutant
PowerOfTwo(n) == \E i \in 0..n : n = 2^i
NewOnly(v, oldRoot, newRoot) == v.new = newRoot  \* mutant
BothRoots(v, oldRoot, newRoot) == v.old = oldRoot /\ v.new = newRoot

VerifyConsistency(m, oldRoot, n, newRoot, proof) ==
  IF m = n THEN oldRoot = newRoot /\ proof = <<>>
  ELSE /\ 0 < m /\ m < n
       /\ proof # <<>>
       /\ LET p == IF PowerOfTwo(m) THEN <<oldRoot>> \o proof ELSE proof
              k == Climb(m)  \* the ones at the end of m - 1 are the zeros at the end of m
              v == FoldLeft(Step, [fn |-> (m - 1) \div 2^k, sn |-> (n - 1) \div 2^k,
                                   old |-> p[1], new |-> p[1], ok |-> TRUE], Tail(p))
          IN v.ok /\ v.sn = 0 /\ BothRoots(v, oldRoot, newRoot)

\* detect_fork, of two heads with a good signature; "open" when there is no proof to tell.
TreeHead(s, n) == [size |-> n, root |-> Root(s, 0, n)]
DetectFork(a, b, proofs) ==
  LET small == IF a.size < b.size THEN a ELSE b
      big == IF a.size < b.size THEN b ELSE a
  IN IF a.size = b.size THEN {IF a.root = b.root THEN "none" ELSE "fork"}
     ELSE IF proofs = {} THEN {"open"}
     ELSE {IF VerifyConsistency(small.size, small.root, big.size, big.root, p) THEN "none" ELSE "fork"
             : p \in proofs}

-----------------------------------------------------------------------------

Datum(i, which) == <<i, which, 0>>

AppendLeaf ==
  /\ Spend("leaf")
  /\ tree' = Append(tree, Datum(Len(tree), "tree"))
  /\ UNCHANGED twin

TwinLeaf ==
  /\ Spend("twin")
  /\ \/ twin' = Append(twin, Datum(Len(twin), "twin"))
     \/ Len(twin) < Len(tree) /\ IsPrefix(twin, tree) /\ twin' = Append(twin, tree[Len(twin) + 1])
  /\ UNCHANGED tree

MerkleInit == tree = <<>> /\ twin = <<>>
MerkleNext == AppendLeaf \/ TwinLeaf

-----------------------------------------------------------------------------
(* Properties *)

Sizes(s) == 1..Len(s)
InclusionProofs == UNION {{InclusionProof(s, i, n) : i \in 0..(n - 1)} : <<s, n>> \in
                          {<<t, k>> \in {tree, twin} \X (Sizes(tree) \cup Sizes(twin)) : k <= Len(t)}}
ConsistencyProofs(s) == {ConsistencyProof(s, mn[1], mn[2]) : mn \in {q \in Sizes(s) \X Sizes(s) : q[1] <= q[2]}}

\* The proof that a hub gives for an entry is accepted, for every entry and every size
\* (cmd_prove, cmd_verify_proof).
OwnProofsHold ==
  \A n \in Sizes(tree) : \A i \in 0..(n - 1) :
    VerifyInclusion(tree[i + 1], i, n, InclusionProof(tree, i, n), Root(tree, 0, n))

\* Whatever place, size and proof it comes with, what is accepted under the root of the
\* first n entries is one of them, and the one at that place if the size is n too.
Data == ToSet(tree) \cup ToSet(twin)
          \cup {<<Leaf(tree[i]), Leaf(tree[i + 1])>> : i \in 1..(Len(tree) - 1)}
AcceptedIsThere ==
  \A n \in Sizes(tree), x \in Data, size \in Sizes(tree), p \in InclusionProofs : \A i \in 0..(size - 1) :
    VerifyInclusion(x, i, size, p, Root(tree, 0, n)) =>
      /\ x \in ToSet(SubSeq(tree, 1, n))
      /\ size = n => x = tree[i + 1]

\* Heads of one log are never called a fork when the proof is the one for their sizes.
NoFalseFork ==
  \A m, n \in Sizes(tree) : m <= n =>
    DetectFork(TreeHead(tree, m), TreeHead(tree, n), {ConsistencyProof(tree, m, n)}) = {"none"}

\* Heads that are said to belong together do: one log is the beginning of the other,
\* whichever proof was given.
NoHiddenFork ==
  \A m \in Sizes(twin), n \in Sizes(tree) :
    "none" \in DetectFork(TreeHead(twin, m), TreeHead(tree, n), ConsistencyProofs(tree) \cup ConsistencyProofs(twin)) =>
      \A i \in 1..(IF m < n THEN m ELSE n) : twin[i] = tree[i]

\* Proofs show what is so, of entries and of heads, and nothing else.
ProofsHold == OwnProofsHold /\ AcceptedIsThere /\ NoFalseFork /\ NoHiddenFork
=============================================================================
