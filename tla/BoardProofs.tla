----------------------------- MODULE BoardProofs ------------------------------
(***************************************************************************)
(* For any labs, sayings and pushers: an event is recorded once and its    *)
(* record says truly what became of it, a reading that calls itself        *)
(* complete has what was at the doors, but for what came late or was lost, *)
(* and what the board, its threads and its directory say is what the labs  *)
(* said under the contract.                                                *)
(***************************************************************************)
EXTENDS Board, TLAPS, WellFoundedInduction, FiniteSetTheorems, SequenceTheorems

boardAll == <<boardVars, budget>>

LEMMA HighestExists ==
  ASSUME NEW N \in Nat, NEW S \in SUBSET (0 .. N), S # {}
  PROVE  \E n \in S : \A k \in S : k <= n
<1> DEFINE T == {N - n : n \in S}
<1>1. T \subseteq Nat /\ T # {}
  <2>1. \A n \in S : N - n \in Nat /\ N - n \in T
    OBVIOUS
  <2> QED
    BY <2>1
<1>2. PICK m \in T : \A k \in T : ~ (<<k, m>> \in OpToRel(<, Nat))
  BY <1>1, NatLessThanWellFounded, WFMin
<1>3. \A k \in T : ~ (k < m)
  BY <1>1, <1>2 DEF OpToRel
<1>4. PICK n \in S : m = N - n
  OBVIOUS
<1>5. \A k \in S : N - k \in T /\ ~ (N - k < N - n)
  BY <1>3, <1>4
<1> QED
  BY <1>4, <1>5

\* The highest number of a set of numbers of quads.
Top(S) == CHOOSE n \in S : \A m \in S : m <= n

LEMMA TopIsHighest ==
  ASSUME NEW S \in SUBSET QuadNumbers, S # {}
  PROVE  Top(S) \in S /\ \A m \in S : m <= Top(S)
<1>1. MaxQuad \in Nat /\ S \in SUBSET (0 .. MaxQuad)
  BY BoardAssumption DEF QuadNumbers
<1>2. \E n \in S : \A m \in S : m <= n
  BY <1>1, HighestExists
<1> QED
  BY <1>2 DEF Top

LEMMA NextIsFree ==
  ASSUME NEW l, NextQuad(l) <= MaxQuad
  PROVE  NextQuad(l) \in QuadNumbers /\ quads[l][NextQuad(l)] = NoQuad
<1> DEFINE S == TakenNumbers(l)
<1>1. S \subseteq QuadNumbers /\ MaxQuad \in Nat
  BY BoardAssumption DEF TakenNumbers
<1>2. NextQuad(l) = 1 + IF S = {} THEN 0 ELSE Top(S)
  BY DEF NextQuad, Top
<1>3. CASE S = {}
  <2>1. NextQuad(l) = 1
    BY <1>2, <1>3
  <2> QED
    BY <1>3, <2>1, BoardAssumption DEF QuadNumbers, TakenNumbers
<1>4. CASE S # {}
  <2>1. Top(S) \in S /\ \A m \in S : m <= Top(S)
    BY <1>1, <1>4, TopIsHighest
  <2>2. NextQuad(l) = 1 + Top(S) /\ Top(S) \in 1 .. MaxQuad
    BY <1>1, <1>2, <1>4, <2>1 DEF QuadNumbers
  <2>3. NextQuad(l) \in QuadNumbers
    BY <1>1, <2>2 DEF QuadNumbers
  <2>4. NextQuad(l) \notin S
    BY <2>1, <2>2
  <2> QED
    BY <2>3, <2>4 DEF TakenNumbers
<1> QED
  BY <1>3, <1>4

-----------------------------------------------------------------------------
(* Posts and their records *)

EventOr == Sayings \cup {NoEvent}
QuadSet == [event : EventOr, files : {"none", "part", "whole"}]
PushResults == {"unknown", "rejected", "stored", "conflict"}
RecordSet == [event : EventOr, status : {"none", "pending"} \cup PushResults]
PreparingSet == {BoardIdle} \cup [pc : {"export", "envelope", "record"}, event : Sayings, n : QuadNumbers]
PushingSet == {BoardIdle} \cup [pc : {"send"}, lab : Lab, n : QuadNumbers]
                \cup [pc : {"save"}, lab : Lab, n : QuadNumbers, result : PushResults]

PostTypes ==
  /\ quads \in [Lab -> [QuadNumbers -> QuadSet]]
  /\ records \in [Lab -> [QuadNumbers -> RecordSet]]
  /\ preparing \in [Lab -> PreparingSet]
  /\ pushing \in [Pusher -> PushingSet]
  /\ wall \in [Lab -> [QuadNumbers -> EventOr]]

\* A number that is taken bears one event for good: in the outbox, in its record and at
\* the door.
OneEvent(Q, R, W, l, n) ==
  /\ Q[l][n] # NoQuad => Q[l][n].event \in Sayings
  /\ R[l][n] # NoRecord =>
       /\ R[l][n].event = Q[l][n].event /\ R[l][n].event \in Sayings
       /\ R[l][n].status = "stored" => W[l][n] = R[l][n].event
       /\ R[l][n].status # "conflict"
  /\ W[l][n] # NoEvent => W[l][n] = Q[l][n].event

\* Who has the lock has found no record of its event, and nobody takes its number.
HasLock(Q, R, P, l) ==
  P[l] # BoardIdle =>
    /\ R[l][P[l].n] = NoRecord
    /\ \A m \in QuadNumbers : R[l][m].event # P[l].event
    /\ P[l].pc = "export" => Q[l][P[l].n] = NoQuad
    /\ P[l].pc # "export" => Q[l][P[l].n].event = P[l].event /\ Q[l][P[l].n] # NoQuad

\* Who pushes has read a record; what it was answered is so.
Knows(R, W, U, p) ==
  U[p] # BoardIdle =>
    /\ R[U[p].lab][U[p].n] # NoRecord
    /\ U[p].pc = "save" =>
         /\ U[p].result = "stored" => W[U[p].lab][U[p].n] = R[U[p].lab][U[p].n].event
         /\ U[p].result # "conflict"

PostInv ==
  /\ PostTypes
  /\ \A l \in Lab, n \in QuadNumbers : OneEvent(quads, records, wall, l, n)
  /\ \A l \in Lab : HasLock(quads, records, preparing, l)
  /\ \A p \in Pusher : Knows(records, wall, pushing, p)
  /\ OneRecordPerEvent

LEMMA PutAt ==
  ASSUME NEW X, NEW f \in [Lab -> [QuadNumbers -> X]], NEW l \in Lab, NEW n \in QuadNumbers, NEW x \in X,
         NEW g, g = [f EXCEPT ![l][n] = x]
  PROVE  /\ g \in [Lab -> [QuadNumbers -> X]] /\ g[l][n] = x
         /\ \A k \in Lab, m \in QuadNumbers : k # l \/ m # n => g[k][m] = f[k][m]
OBVIOUS

LEMMA PostFirst ==
  ASSUME BoardInit
  PROVE  PostInv
<1>1. PostTypes
  <2>1. NoQuad \in QuadSet /\ NoRecord \in RecordSet /\ NoEvent \in EventOr /\ BoardIdle \in PreparingSet
        /\ BoardIdle \in PushingSet
    BY DEF NoQuad, QuadSet, NoRecord, RecordSet, EventOr, PreparingSet, PushingSet
  <2> QED
    BY <2>1 DEF BoardInit, PostTypes
<1>2. \A l \in Lab, n \in QuadNumbers :
        quads[l][n] = NoQuad /\ records[l][n] = NoRecord /\ wall[l][n] = NoEvent
  BY DEF BoardInit
<1>3. (\A l \in Lab : preparing[l] = BoardIdle) /\ (\A p \in Pusher : pushing[p] = BoardIdle)
  BY DEF BoardInit
<1> QED
  BY <1>1, <1>2, <1>3 DEF PostInv, OneEvent, HasLock, Knows, OneRecordPerEvent

LEMMA PostPrepare ==
  ASSUME PostInv, NEW l \in Lab, NEW e \in Prepared, Prepare(l, e)
  PROVE  PostInv'
<1>1. UNCHANGED <<quads, records, pushing, wall>> /\ e \in Sayings /\ preparing[l] = BoardIdle
  BY BoardAssumption DEF Prepare
<1>2. CASE FindByEvent(l, e) # {}
  <2>1. preparing' = preparing
    BY <1>1, <1>2 DEF Prepare, PostInv, PostTypes
  <2> QED
    BY <1>1, <2>1 DEF PostInv, PostTypes, OneRecordPerEvent
<1>3. CASE FindByEvent(l, e) = {}
  <2>1. PICK x : x = [pc |-> "export", event |-> e, n |-> NextQuad(l)]
    OBVIOUS
  <2>2. NextQuad(l) \in QuadNumbers /\ quads[l][NextQuad(l)] = NoQuad
    BY NextIsFree DEF Prepare
  <2>3. x \in PreparingSet /\ x.pc = "export" /\ x.event = e /\ x.n = NextQuad(l)
    BY <1>1, <2>1, <2>2 DEF PreparingSet
  <2>4. preparing' = [preparing EXCEPT ![l] = x]
    BY <1>3, <2>1 DEF Prepare
  <2>5. preparing' \in [Lab -> PreparingSet] /\ preparing'[l] = x
        /\ \A k \in Lab : k # l => preparing'[k] = preparing[k]
    BY <2>3, <2>4 DEF PostInv, PostTypes
  <2>6. records[l][x.n] = NoRecord
    <3>1. OneEvent(quads, records, wall, l, x.n)
      BY <2>2, <2>3 DEF PostInv
    <3> QED
      BY <2>2, <2>3, <3>1, BoardAssumption DEF OneEvent, NoQuad
  <2>7. \A m \in QuadNumbers : records[l][m].event # e
    BY <1>3 DEF FindByEvent
  <2>8. HasLock(quads, records, preparing', l)
    BY <2>2, <2>3, <2>5, <2>6, <2>7 DEF HasLock
  <2>9. \A k \in Lab : HasLock(quads, records, preparing', k)
    BY <2>5, <2>8 DEF PostInv, HasLock
  <2> QED
    BY <1>1, <2>5, <2>9 DEF PostInv, PostTypes, OneRecordPerEvent
<1> QED
  BY <1>2, <1>3

LEMMA PostPrepareEnds ==
  ASSUME PostInv, NEW l \in Lab, PrepareEnds(l)
  PROVE  PostInv'
<1>1. UNCHANGED <<quads, records, pushing, wall>> /\ preparing' = [preparing EXCEPT ![l] = BoardIdle]
  BY DEF PrepareEnds
<1>2. /\ preparing' \in [Lab -> PreparingSet] /\ preparing'[l] = BoardIdle
      /\ \A k \in Lab : k # l => preparing'[k] = preparing[k]
  <2>1. BoardIdle \in PreparingSet
    BY DEF PreparingSet
  <2> QED
    BY <1>1, <2>1 DEF PostInv, PostTypes
<1>3. \A k \in Lab : HasLock(quads, records, preparing', k)
  BY <1>2 DEF PostInv, HasLock
<1> QED
  BY <1>1, <1>2, <1>3 DEF PostInv, PostTypes, OneRecordPerEvent

LEMMA PreparingIs ==
  ASSUME PostTypes, NEW l \in Lab, preparing[l] # BoardIdle
  PROVE  /\ preparing[l].event \in Sayings /\ preparing[l].n \in QuadNumbers
         /\ preparing[l].pc \in {"export", "envelope", "record"}
         /\ preparing[l] \in [pc : {"export", "envelope", "record"}, event : Sayings, n : QuadNumbers]
BY DEF PostTypes, PreparingSet

LEMMA PreparingMoves ==
  ASSUME PostTypes, NEW l \in Lab, preparing[l] # BoardIdle, NEW pc \in {"export", "envelope", "record"},
         preparing' = [preparing EXCEPT ![l].pc = pc]
  PROVE  /\ preparing' \in [Lab -> PreparingSet]
         /\ preparing'[l].pc = pc /\ preparing'[l].event = preparing[l].event /\ preparing'[l].n = preparing[l].n
         /\ \A k \in Lab : k # l => preparing'[k] = preparing[k]
<1>1. preparing[l] \in [pc : {"export", "envelope", "record"}, event : Sayings, n : QuadNumbers]
  BY PreparingIs
<1>2. PICK x : x = [preparing[l] EXCEPT !.pc = pc]
  OBVIOUS
<1>3. x \in PreparingSet /\ x.pc = pc /\ x.event = preparing[l].event /\ x.n = preparing[l].n
  BY <1>1, <1>2 DEF PreparingSet
<1>4. preparing' = [preparing EXCEPT ![l] = x]
  BY <1>2
<1> QED
  BY <1>3, <1>4 DEF PostTypes

PutQuad(l, n, x) == quads' = [quads EXCEPT ![l][n] = x]

LEMMA QuadPut ==
  ASSUME PostTypes, NEW l \in Lab, NEW n \in QuadNumbers, NEW x \in QuadSet, PutQuad(l, n, x)
  PROVE  /\ quads' \in [Lab -> [QuadNumbers -> QuadSet]] /\ quads'[l][n] = x
         /\ \A k \in Lab, m \in QuadNumbers : k # l \/ m # n => quads'[k][m] = quads[k][m]
BY PutAt DEF PostTypes, PutQuad

\* A number is taken that nothing was said under.
LEMMA TakesNumber ==
  ASSUME PostInv, NEW l \in Lab, NEW n \in QuadNumbers, quads[l][n] = NoQuad,
         NEW x \in QuadSet, x.event \in Sayings, PutQuad(l, n, x), records' = records
  PROVE  /\ quads' \in [Lab -> [QuadNumbers -> QuadSet]] /\ quads'[l][n] = x
         /\ \A k \in Lab, m \in QuadNumbers : k # l \/ m # n => quads'[k][m] = quads[k][m]
         /\ records[l][n] = NoRecord /\ wall[l][n] = NoEvent
<1>1. /\ quads' \in [Lab -> [QuadNumbers -> QuadSet]] /\ quads'[l][n] = x
      /\ \A k \in Lab, m \in QuadNumbers : k # l \/ m # n => quads'[k][m] = quads[k][m]
  BY QuadPut DEF PostInv
<1>2. OneEvent(quads, records, wall, l, n) /\ wall[l][n] \in EventOr
  BY DEF PostInv, PostTypes
<1> QED
  BY <1>1, <1>2, BoardAssumption DEF OneEvent, NoQuad

LEMMA PostExport ==
  ASSUME PostInv, NEW l \in Lab, preparing[l] # BoardIdle, preparing[l].pc = "export",
         quads' = [quads EXCEPT ![l][preparing[l].n] = [event |-> preparing[l].event, files |-> "part"]],
         preparing' = [preparing EXCEPT ![l].pc = "envelope"],
         UNCHANGED <<records, pushing, wall>>
  PROVE  PostInv'
<1>0. PICK n, e : n = preparing[l].n /\ e = preparing[l].event
  OBVIOUS
<1>1. PICK x : x = [event |-> e, files |-> "part"]
  OBVIOUS
<1>2. n \in QuadNumbers /\ e \in Sayings /\ quads[l][n] = NoQuad
  BY <1>0, PreparingIs DEF PostInv, HasLock
<1>3. x \in QuadSet /\ x.event = e
  <2>1. e \in EventOr
    BY <1>2 DEF EventOr
  <2> QED
    BY <1>1, <2>1 DEF QuadSet
<1>4. PutQuad(l, n, x)
  BY <1>0, <1>1 DEF PutQuad
<1>5. /\ quads' \in [Lab -> [QuadNumbers -> QuadSet]] /\ quads'[l][n] = x
      /\ \A k \in Lab, m \in QuadNumbers : k # l \/ m # n => quads'[k][m] = quads[k][m]
      /\ records[l][n] = NoRecord /\ wall[l][n] = NoEvent
  BY <1>2, <1>3, <1>4, TakesNumber
<1>6. /\ preparing' \in [Lab -> PreparingSet]
      /\ preparing'[l].pc = "envelope" /\ preparing'[l].event = e /\ preparing'[l].n = n
      /\ \A k \in Lab : k # l => preparing'[k] = preparing[k]
  BY <1>0, PreparingMoves DEF PostInv
<1>7. \A k \in Lab, m \in QuadNumbers : OneEvent(quads', records, wall, k, m)
  <2>1. OneEvent(quads', records, wall, l, n)
    BY <1>2, <1>3, <1>5 DEF OneEvent
  <2>2. ASSUME NEW k \in Lab, NEW m \in QuadNumbers, k # l \/ m # n
        PROVE  OneEvent(quads', records, wall, k, m)
    BY <1>5, <2>2 DEF PostInv, OneEvent
  <2> QED
    BY <2>1, <2>2
<1>8. x # NoQuad
  BY <1>2, <1>3, BoardAssumption DEF NoQuad
<1>9. HasLock(quads', records, preparing', l)
  <2>1. \A m \in QuadNumbers : records[l][m].event # e
    BY <1>0 DEF PostInv, HasLock
  <2> QED
    BY <1>3, <1>5, <1>6, <1>8, <2>1 DEF HasLock
<1>10. \A k \in Lab : HasLock(quads', records, preparing', k)
  <2>1. ASSUME NEW k \in Lab, k # l PROVE HasLock(quads', records, preparing', k)
    <3>1. preparing[k] # BoardIdle => preparing[k].n \in QuadNumbers
      BY PreparingIs DEF PostInv
    <3> QED
      BY <1>5, <1>6, <2>1, <3>1 DEF PostInv, HasLock
  <2> QED
    BY <1>9, <2>1
<1>11. PostTypes' /\ OneRecordPerEvent'
  BY <1>5, <1>6 DEF PostInv, PostTypes, OneRecordPerEvent
<1> QED
  BY <1>7, <1>10, <1>11 DEF PostInv

LEMMA PostEnvelope ==
  ASSUME PostInv, NEW l \in Lab, preparing[l] # BoardIdle, preparing[l].pc = "envelope",
         quads' = [quads EXCEPT ![l][preparing[l].n] = [event |-> preparing[l].event, files |-> "whole"]],
         preparing' = [preparing EXCEPT ![l].pc = "record"],
         UNCHANGED <<records, pushing, wall>>
  PROVE  PostInv'
<1>0. PICK n, e : n = preparing[l].n /\ e = preparing[l].event
  OBVIOUS
<1>1. n \in QuadNumbers /\ e \in Sayings /\ quads[l][n].event = e
  BY <1>0, PreparingIs DEF PostInv, HasLock
<1>3. PICK x : x = [event |-> e, files |-> "whole"]
  OBVIOUS
<1>4. x \in QuadSet /\ x.event = e
  <2>1. e \in EventOr
    BY <1>1 DEF EventOr
  <2> QED
    BY <1>3, <2>1 DEF QuadSet
<1>5. PutQuad(l, n, x)
  BY <1>0, <1>3 DEF PutQuad
<1>6. /\ quads' \in [Lab -> [QuadNumbers -> QuadSet]] /\ quads'[l][n] = x
      /\ \A k \in Lab, m \in QuadNumbers : k # l \/ m # n => quads'[k][m] = quads[k][m]
  <2>1. PostTypes /\ n \in QuadNumbers /\ x \in QuadSet
    BY <1>1, <1>4 DEF PostInv
  <2> QED
    BY <1>5, <2>1, QuadPut
<1>7. x # NoQuad
  BY <1>1, <1>4, BoardAssumption DEF NoQuad
<1>8. /\ preparing' \in [Lab -> PreparingSet]
      /\ preparing'[l].pc = "record" /\ preparing'[l].event = e /\ preparing'[l].n = n
      /\ \A k \in Lab : k # l => preparing'[k] = preparing[k]
  BY <1>0, PreparingMoves DEF PostInv
<1>9. \A k \in Lab, m \in QuadNumbers : OneEvent(quads', records, wall, k, m)
  <2>1. OneEvent(quads, records, wall, l, n)
    BY <1>1 DEF PostInv
  <2>2. OneEvent(quads', records, wall, l, n)
    BY <1>1, <1>4, <1>6, <2>1 DEF OneEvent
  <2>3. ASSUME NEW k \in Lab, NEW m \in QuadNumbers, k # l \/ m # n
        PROVE  OneEvent(quads', records, wall, k, m)
    BY <1>6, <2>3 DEF PostInv, OneEvent
  <2> QED
    BY <2>2, <2>3
<1>10. HasLock(quads', records, preparing', l)
  <2>1. records[l][n] = NoRecord /\ \A m \in QuadNumbers : records[l][m].event # e
    BY <1>0 DEF PostInv, HasLock
  <2> QED
    BY <1>4, <1>6, <1>7, <1>8, <2>1 DEF HasLock
<1>11. \A k \in Lab : HasLock(quads', records, preparing', k)
  <2>1. ASSUME NEW k \in Lab, k # l PROVE HasLock(quads', records, preparing', k)
    <3>1. preparing[k] # BoardIdle => preparing[k].n \in QuadNumbers
      BY PreparingIs DEF PostInv
    <3> QED
      BY <1>6, <1>8, <2>1, <3>1 DEF PostInv, HasLock
  <2> QED
    BY <1>10, <2>1
<1>12. PostTypes' /\ OneRecordPerEvent'
  BY <1>6, <1>8 DEF PostInv, PostTypes, OneRecordPerEvent
<1> QED
  BY <1>9, <1>11, <1>12 DEF PostInv

LEMMA PushingIs ==
  ASSUME PostTypes, NEW p \in Pusher, pushing[p] # BoardIdle
  PROVE  pushing[p].lab \in Lab /\ pushing[p].n \in QuadNumbers
BY DEF PostTypes, PushingSet

LEMMA PostRecord ==
  ASSUME PostInv, NEW l \in Lab, preparing[l] # BoardIdle, preparing[l].pc = "record",
         records' = [records EXCEPT ![l][preparing[l].n] = [event |-> preparing[l].event, status |-> "pending"]],
         preparing' = [preparing EXCEPT ![l] = BoardIdle],
         UNCHANGED <<quads, pushing, wall>>
  PROVE  PostInv'
<1>0. PICK n, e : n = preparing[l].n /\ e = preparing[l].event
  OBVIOUS
<1>1. PICK x : x = [event |-> e, status |-> "pending"]
  OBVIOUS
<1>2. /\ n \in QuadNumbers /\ e \in Sayings /\ quads[l][n].event = e /\ quads[l][n] # NoQuad
      /\ records[l][n] = NoRecord /\ \A m \in QuadNumbers : records[l][m].event # e
  BY <1>0, PreparingIs DEF PostInv, HasLock
<1>3. x \in RecordSet /\ x.event = e /\ x.status = "pending" /\ x # NoRecord
  <2>1. e \in EventOr
    BY <1>2 DEF EventOr
  <2>2. x \in RecordSet /\ x.event = e /\ x.status = "pending"
    BY <1>1, <2>1 DEF RecordSet
  <2> QED
    BY <2>2 DEF NoRecord
<1>4. records' = [records EXCEPT ![l][n] = x]
  BY <1>0, <1>1
<1>5. /\ records' \in [Lab -> [QuadNumbers -> RecordSet]] /\ records'[l][n] = x
      /\ \A k \in Lab, m \in QuadNumbers : k # l \/ m # n => records'[k][m] = records[k][m]
  BY <1>2, <1>3, <1>4, PutAt DEF PostInv, PostTypes
<1>6. /\ preparing' \in [Lab -> PreparingSet] /\ preparing'[l] = BoardIdle
      /\ \A k \in Lab : k # l => preparing'[k] = preparing[k]
  <2>1. BoardIdle \in PreparingSet
    BY DEF PreparingSet
  <2> QED
    BY <2>1 DEF PostInv, PostTypes
<1>7. \A k \in Lab, m \in QuadNumbers : OneEvent(quads, records', wall, k, m)
  <2>1. OneEvent(quads, records, wall, l, n)
    BY <1>2 DEF PostInv
  <2>2. OneEvent(quads, records', wall, l, n)
    BY <1>2, <1>3, <1>5, <2>1 DEF OneEvent
  <2>3. ASSUME NEW k \in Lab, NEW m \in QuadNumbers, k # l \/ m # n
        PROVE  OneEvent(quads, records', wall, k, m)
    BY <1>5, <2>3 DEF PostInv, OneEvent
  <2> QED
    BY <2>2, <2>3
<1>8. \A k \in Lab : HasLock(quads, records', preparing', k)
  <2>1. ASSUME NEW k \in Lab, k # l PROVE HasLock(quads, records', preparing', k)
    <3>1. preparing[k] # BoardIdle => preparing[k].n \in QuadNumbers
      BY PreparingIs DEF PostInv
    <3> QED
      BY <1>5, <1>6, <2>1, <3>1 DEF PostInv, HasLock
  <2> QED
    BY <1>6, <2>1 DEF HasLock
<1>9. \A p \in Pusher : Knows(records', wall, pushing, p)
  <2> TAKE p \in Pusher
  <2>1. CASE pushing[p] # BoardIdle
    <3>1. pushing[p].lab \in Lab /\ pushing[p].n \in QuadNumbers
      BY <2>1, PushingIs DEF PostInv
    <3>2. Knows(records, wall, pushing, p)
      BY DEF PostInv
    <3>3. pushing[p].lab # l \/ pushing[p].n # n
      BY <1>2, <2>1, <3>2 DEF Knows
    <3>4. records'[pushing[p].lab][pushing[p].n] = records[pushing[p].lab][pushing[p].n]
      BY <1>5, <3>1, <3>3
    <3> QED
      BY <3>2, <3>4 DEF Knows
  <2>2. CASE pushing[p] = BoardIdle
    BY <2>2 DEF Knows
  <2> QED
    BY <2>1, <2>2
<1>10. OneRecordPerEvent'
  <2>1. ASSUME NEW k \in Lab, NEW m \in QuadNumbers, NEW j \in QuadNumbers,
               records'[k][m] # NoRecord, records'[k][m].event = records'[k][j].event
        PROVE  m = j
    <3>1. CASE k # l \/ (m # n /\ j # n)
      BY <1>5, <2>1, <3>1 DEF PostInv, OneRecordPerEvent
    <3>2. CASE k = l /\ m = n /\ j # n
      BY <1>2, <1>3, <1>5, <2>1, <3>2
    <3>3. CASE k = l /\ m # n /\ j = n
      BY <1>2, <1>3, <1>5, <2>1, <3>3
    <3> QED
      BY <3>1, <3>2, <3>3
  <2> QED
    BY <2>1 DEF OneRecordPerEvent
<1> QED
  BY <1>5, <1>6, <1>7, <1>8, <1>9, <1>10 DEF PostInv, PostTypes

LEMMA PostPrepareStep ==
  ASSUME PostInv, NEW l \in Lab, PrepareStep(l)
  PROVE  PostInv'
<1>1. UNCHANGED <<pushing, wall>> /\ preparing[l] # BoardIdle
  BY DEF PrepareStep
<1> QED
  BY <1>1, PostExport, PostEnvelope, PostRecord DEF PrepareStep

PutPushing(p, x) == pushing' = [pushing EXCEPT ![p] = x]

LEMMA PushingPut ==
  ASSUME PostTypes, NEW p \in Pusher, NEW x \in PushingSet, PutPushing(p, x)
  PROVE  /\ pushing' \in [Pusher -> PushingSet] /\ pushing'[p] = x
         /\ \A k \in Pusher : k # p => pushing'[k] = pushing[k]
BY DEF PostTypes, PutPushing

LEMMA PostPushRead ==
  ASSUME PostInv, NEW p \in Pusher, NEW l \in Lab, NEW n \in QuadNumbers, PushRead(p, l, n)
  PROVE  PostInv'
<1>1. UNCHANGED <<quads, records, preparing, wall>> /\ records[l][n] # NoRecord
  BY DEF PushRead
<1>2. PICK x : x = [pc |-> "send", lab |-> l, n |-> n]
  OBVIOUS
<1>3. x \in PushingSet /\ x.pc = "send" /\ x.lab = l /\ x.n = n
  BY <1>2 DEF PushingSet
<1>4. PutPushing(p, x)
  BY <1>2 DEF PushRead, PutPushing
<1>5. /\ pushing' \in [Pusher -> PushingSet] /\ pushing'[p] = x
      /\ \A k \in Pusher : k # p => pushing'[k] = pushing[k]
  BY <1>3, <1>4, PushingPut DEF PostInv
<1>6. \A k \in Pusher : Knows(records, wall, pushing', k)
  BY <1>1, <1>3, <1>5 DEF PostInv, Knows
<1>7. PostTypes' /\ OneRecordPerEvent'
  BY <1>1, <1>5 DEF PostInv, PostTypes, OneRecordPerEvent
<1> QED
  BY <1>1, <1>6, <1>7 DEF PostInv

\* A door that has nothing under a number takes what bears it.
Raised(l, n, e) ==
  /\ wall' \in [Lab -> [QuadNumbers -> EventOr]]
  /\ \A k \in Lab, m \in QuadNumbers : k # l \/ m # n => wall'[k][m] = wall[k][m]
  /\ wall'[l][n] = IF wall[l][n] = NoEvent THEN e ELSE wall[l][n]

LEMMA RaiseIs ==
  ASSUME PostTypes, NEW l \in Lab, NEW n \in QuadNumbers, NEW e \in Sayings, Raise(l, n, e)
  PROVE  Raised(l, n, e)
<1>1. e \in EventOr
  BY DEF EventOr
<1>2. CASE wall[l][n] = NoEvent
  <2>1. wall' = [wall EXCEPT ![l][n] = e]
    BY <1>2 DEF Raise
  <2>2. wall \in [Lab -> [QuadNumbers -> EventOr]]
    BY DEF PostTypes
  <2> QED
    BY <1>1, <1>2, <2>1, <2>2, PutAt DEF Raised
<1>3. CASE wall[l][n] # NoEvent
  BY <1>3 DEF Raise, Raised, PostTypes
<1> QED
  BY <1>2, <1>3

\* What others were answered stays so when a letter comes to a door.
LEMMA KnowsStill ==
  ASSUME PostInv, NEW l \in Lab, NEW n \in QuadNumbers, NEW e, Raised(l, n, e), NEW p \in Pusher
  PROVE  Knows(records, wall', pushing, p)
<1>1. CASE pushing[p] = BoardIdle
  BY <1>1 DEF Knows
<1>2. CASE pushing[p] # BoardIdle
  <2>1. PICK k, m : k = pushing[p].lab /\ m = pushing[p].n
    OBVIOUS
  <2>2. k \in Lab /\ m \in QuadNumbers
    BY <1>2, <2>1, PushingIs DEF PostInv
  <2>3. Knows(records, wall, pushing, p) /\ OneEvent(quads, records, wall, k, m)
    BY <2>2 DEF PostInv
  <2>4. wall[k][m] # NoEvent => wall'[k][m] = wall[k][m]
    BY <2>2 DEF Raised
  <2>5. records[k][m] # NoRecord /\ records[k][m].event # NoEvent
    BY <1>2, <2>1, <2>3, BoardAssumption DEF Knows, OneEvent
  <2> QED
    BY <1>2, <2>1, <2>3, <2>4, <2>5 DEF Knows
<1> QED
  BY <1>1, <1>2

LEMMA PostPushSend ==
  ASSUME PostInv, NEW p \in Pusher, PushSend(p)
  PROVE  PostInv'
<1>0. PICK l, n, e : l = pushing[p].lab /\ n = pushing[p].n /\ e = quads[l][n].event
  OBVIOUS
<1>1. UNCHANGED <<quads, records, preparing>> /\ pushing[p].pc = "send"
  BY DEF PushSend
<1>2. pushing[p] # BoardIdle
  BY <1>1 DEF BoardIdle
<1>3. l \in Lab /\ n \in QuadNumbers
  BY <1>0, <1>2, PushingIs DEF PostInv
<1>4. records[l][n] # NoRecord
  BY <1>0, <1>2 DEF PostInv, Knows
<1>5. OneEvent(quads, records, wall, l, n)
  BY <1>3 DEF PostInv
<1>6. e \in Sayings /\ records[l][n].event = e /\ wall[l][n] \in {NoEvent, e} /\ e # NoEvent
  BY <1>0, <1>4, <1>5, BoardAssumption DEF OneEvent
<1>7. PICK arrived \in BOOLEAN, answer \in {"none", "refused", "given"} :
        /\ answer = "given" => arrived
        /\ IF arrived THEN Raise(l, n, e) ELSE UNCHANGED <<wall, raised>>
        /\ pushing' = [pushing EXCEPT ![p] = [pc |-> "save", lab |-> l, n |-> n,
             result |-> PushResult(wall[l][n] \in {NoEvent, e}, answer)]]
  BY <1>0 DEF PushSend
<1>8. PICK x, result : /\ result = PushResult(wall[l][n] \in {NoEvent, e}, answer)
                       /\ x = [pc |-> "save", lab |-> l, n |-> n, result |-> result]
  OBVIOUS
<1>9. result \in {"unknown", "rejected", "stored"} /\ (result = "stored" <=> answer = "given")
  <2>1. result = PushResult(TRUE, answer)
    BY <1>6, <1>8
  <2>2. answer = "none" => PushResult(TRUE, answer) = "unknown"
    BY DEF PushResult
  <2>3. answer = "refused" => PushResult(TRUE, answer) = "rejected"
    BY DEF PushResult
  <2>4. answer = "given" => PushResult(TRUE, answer) = "stored"
    BY DEF PushResult
  <2> QED
    BY <1>7, <2>1, <2>2, <2>3, <2>4
<1>10. x \in PushingSet /\ x.pc = "save" /\ x.lab = l /\ x.n = n /\ x.result = result
  <2>1. result \in PushResults
    BY <1>9 DEF PushResults
  <2> QED
    BY <1>3, <1>8, <2>1 DEF PushingSet
<1>11. PutPushing(p, x)
  BY <1>7, <1>8 DEF PutPushing
<1>12. /\ pushing' \in [Pusher -> PushingSet] /\ pushing'[p] = x
       /\ \A k \in Pusher : k # p => pushing'[k] = pushing[k]
  BY <1>10, <1>11, PushingPut DEF PostInv
<1>13. Raised(l, n, e) \/ (wall' = wall /\ answer # "given")
  BY <1>3, <1>6, <1>7, RaiseIs DEF PostInv
<1>14. \A k \in Lab, m \in QuadNumbers : OneEvent(quads, records, wall', k, m)
  <2>1. CASE wall' = wall
    BY <2>1 DEF PostInv
  <2>2. CASE Raised(l, n, e)
    <3>1. OneEvent(quads, records, wall', l, n)
      BY <1>0, <1>4, <1>5, <1>6, <2>2 DEF OneEvent, Raised
    <3>2. ASSUME NEW k \in Lab, NEW m \in QuadNumbers, k # l \/ m # n
          PROVE  OneEvent(quads, records, wall', k, m)
      BY <2>2, <3>2 DEF PostInv, OneEvent, Raised
    <3> QED
      BY <3>1, <3>2
  <2> QED
    BY <1>13, <2>1, <2>2
<1>15. \A k \in Pusher : Knows(records, wall', pushing, k)
  BY <1>3, <1>13, KnowsStill DEF PostInv
<1>16. Knows(records, wall', pushing', p)
  <2>1. answer = "given" => wall'[l][n] = e
    BY <1>6, <1>13 DEF Raised
  <2> QED
    BY <1>4, <1>6, <1>9, <1>10, <1>12, <2>1 DEF Knows
<1>17. \A k \in Pusher : Knows(records, wall', pushing', k)
  BY <1>12, <1>15, <1>16 DEF Knows
<1>18. PostTypes' /\ OneRecordPerEvent'
  BY <1>1, <1>12, <1>13 DEF PostInv, PostTypes, OneRecordPerEvent, Raised
<1> QED
  BY <1>1, <1>14, <1>17, <1>18 DEF PostInv

PutRecord(l, n, x) == records' = [records EXCEPT ![l][n] = x]

\* The status of a record is set.
StatusPut(R, S, l, n, status) == S = [R EXCEPT ![l][n].status = status]

LEMMA StatusIsPut ==
  ASSUME NEW R \in [Lab -> [QuadNumbers -> RecordSet]], NEW l \in Lab, NEW n \in QuadNumbers,
         NEW S, NEW status \in PushResults, StatusPut(R, S, l, n, status)
  PROVE  /\ S \in [Lab -> [QuadNumbers -> RecordSet]]
         /\ S[l][n].event = R[l][n].event /\ S[l][n].status = status /\ S[l][n] # NoRecord
         /\ \A k \in Lab, m \in QuadNumbers : k # l \/ m # n => S[k][m] = R[k][m]
<1>1. R[l][n] \in RecordSet
  OBVIOUS
<1>2. PICK x : x = [event |-> R[l][n].event, status |-> status]
  OBVIOUS
<1>3. x = [R[l][n] EXCEPT !.status = status] /\ x \in RecordSet
      /\ x.event = R[l][n].event /\ x.status = status
  BY <1>1, <1>2 DEF RecordSet
<1>4. S = [R EXCEPT ![l][n] = x]
  BY <1>3 DEF StatusPut
<1>5. x # NoRecord
  BY <1>3 DEF NoRecord, PushResults
<1> QED
  BY <1>3, <1>4, <1>5, PutAt

LEMMA PostPushSave ==
  ASSUME PostInv, NEW p \in Pusher, PushSave(p)
  PROVE  PostInv'
<1>0. PICK l, n, result : l = pushing[p].lab /\ n = pushing[p].n /\ result = pushing[p].result
  OBVIOUS
<1>1. /\ UNCHANGED <<quads, preparing, wall>> /\ pushing[p].pc = "save"
      /\ StatusPut(records, records', l, n, result)
      /\ PutPushing(p, BoardIdle)
  BY <1>0 DEF PushSave, StatusPut, PutPushing
<1>2. pushing[p] # BoardIdle
  BY <1>1 DEF BoardIdle
<1>3. l \in Lab /\ n \in QuadNumbers
  BY <1>0, <1>2, PushingIs DEF PostInv
<1>4. /\ records[l][n] # NoRecord
      /\ result = "stored" => wall[l][n] = records[l][n].event
      /\ result # "conflict"
  BY <1>0, <1>1, <1>2 DEF PostInv, Knows
<1>5. result \in PushResults
  BY <1>0, <1>1, <1>2 DEF PostInv, PostTypes, PushingSet, BoardIdle
<1>6. PICK R : R = records'
  OBVIOUS
<1>7. /\ R \in [Lab -> [QuadNumbers -> RecordSet]]
      /\ R[l][n].event = records[l][n].event /\ R[l][n].status = result /\ R[l][n] # NoRecord
      /\ \A k \in Lab, m \in QuadNumbers : k # l \/ m # n => R[k][m] = records[k][m]
  <2>1. StatusPut(records, R, l, n, result) /\ records \in [Lab -> [QuadNumbers -> RecordSet]]
    BY <1>1, <1>6 DEF PostInv, PostTypes
  <2> QED
    BY <1>3, <1>5, <2>1, StatusIsPut
<1>8. /\ pushing' \in [Pusher -> PushingSet] /\ pushing'[p] = BoardIdle
      /\ \A k \in Pusher : k # p => pushing'[k] = pushing[k]
  <2>1. BoardIdle \in PushingSet
    BY DEF PushingSet
  <2> QED
    BY <1>1, <2>1, PushingPut DEF PostInv
<1>9. \A k \in Lab, m \in QuadNumbers :
        R[k][m].event = records[k][m].event /\ (R[k][m] = NoRecord <=> records[k][m] = NoRecord)
  BY <1>4, <1>7
<1>10. \A k \in Lab, m \in QuadNumbers : OneEvent(quads, R, wall, k, m)
  <2>1. OneEvent(quads, records, wall, l, n)
    BY <1>3 DEF PostInv
  <2>2. OneEvent(quads, R, wall, l, n)
    BY <1>4, <1>7, <2>1 DEF OneEvent
  <2>3. ASSUME NEW k \in Lab, NEW m \in QuadNumbers, k # l \/ m # n
        PROVE  OneEvent(quads, R, wall, k, m)
    BY <1>7, <2>3 DEF PostInv, OneEvent
  <2> QED
    BY <2>2, <2>3
<1>11. \A k \in Lab : HasLock(quads, R, preparing, k)
  <2> TAKE k \in Lab
  <2>1. preparing[k] # BoardIdle => preparing[k].n \in QuadNumbers
    BY PreparingIs DEF PostInv
  <2> QED
    BY <1>9, <2>1 DEF PostInv, HasLock
<1>12. \A k \in Pusher : Knows(R, wall, pushing', k)
  <2> TAKE k \in Pusher
  <2>1. CASE pushing'[k] = BoardIdle
    BY <2>1 DEF Knows
  <2>2. CASE pushing'[k] # BoardIdle
    <3>1. pushing'[k] = pushing[k]
      BY <1>8, <2>2
    <3>2. pushing[k].lab \in Lab /\ pushing[k].n \in QuadNumbers
      BY <2>2, <3>1, PushingIs DEF PostInv
    <3>3. Knows(records, wall, pushing, k)
      BY DEF PostInv
    <3> QED
      BY <1>9, <2>2, <3>1, <3>2, <3>3 DEF Knows
  <2> QED
    BY <2>1, <2>2
<1>13. OneRecordPerEvent'
  BY <1>6, <1>9 DEF PostInv, OneRecordPerEvent
<1>14. PostTypes'
  BY <1>1, <1>6, <1>7, <1>8 DEF PostInv, PostTypes
<1> QED
  BY <1>1, <1>6, <1>10, <1>11, <1>12, <1>13, <1>14 DEF PostInv

LEMMA PostRaw ==
  ASSUME PostInv, NEW l \in Lab, NEW e \in Sayings, RawPost(l, e)
  PROVE  PostInv'
<1>0. PICK n : n = NextQuad(l)
  OBVIOUS
<1>1. /\ UNCHANGED <<records, preparing, pushing>> /\ preparing[l] = BoardIdle
      /\ quads' = [quads EXCEPT ![l][n] = [event |-> e, files |-> "whole"]]
      /\ Raise(l, n, e)
  BY <1>0 DEF RawPost
<1>2. n \in QuadNumbers /\ quads[l][n] = NoQuad
  BY <1>0, NextIsFree DEF RawPost
<1>3. PICK x : x = [event |-> e, files |-> "whole"]
  OBVIOUS
<1>4. x \in QuadSet /\ x.event = e
  <2>1. e \in EventOr
    BY DEF EventOr
  <2> QED
    BY <1>3, <2>1 DEF QuadSet
<1>5. PutQuad(l, n, x)
  BY <1>1, <1>3 DEF PutQuad
<1>6. /\ quads' \in [Lab -> [QuadNumbers -> QuadSet]] /\ quads'[l][n] = x
      /\ \A k \in Lab, m \in QuadNumbers : k # l \/ m # n => quads'[k][m] = quads[k][m]
      /\ records[l][n] = NoRecord /\ wall[l][n] = NoEvent
  BY <1>1, <1>2, <1>4, <1>5, TakesNumber
<1>7. Raised(l, n, e)
  BY <1>1, <1>2, RaiseIs DEF PostInv
<1>8. \A k \in Lab, m \in QuadNumbers : OneEvent(quads', records, wall', k, m)
  <2>1. OneEvent(quads', records, wall', l, n)
    BY <1>4, <1>6, <1>7 DEF OneEvent, Raised
  <2>2. ASSUME NEW k \in Lab, NEW m \in QuadNumbers, k # l \/ m # n
        PROVE  OneEvent(quads', records, wall', k, m)
    BY <1>6, <1>7, <2>2 DEF PostInv, OneEvent, Raised
  <2> QED
    BY <2>1, <2>2
<1>9. \A k \in Lab : HasLock(quads', records, preparing, k)
  <2> TAKE k \in Lab
  <2>1. CASE k = l
    BY <1>1, <2>1 DEF HasLock
  <2>2. CASE k # l
    <3>1. preparing[k] # BoardIdle => preparing[k].n \in QuadNumbers
      BY PreparingIs DEF PostInv
    <3> QED
      BY <1>6, <2>2, <3>1 DEF PostInv, HasLock
  <2> QED
    BY <2>1, <2>2
<1>10. \A k \in Pusher : Knows(records, wall', pushing, k)
  BY <1>2, <1>7, KnowsStill
<1>11. PostTypes' /\ OneRecordPerEvent'
  BY <1>1, <1>6, <1>7 DEF PostInv, PostTypes, OneRecordPerEvent, Raised
<1> QED
  BY <1>1, <1>8, <1>9, <1>10, <1>11 DEF PostInv

LEMMA PostAside ==
  ASSUME PostInv, UNCHANGED <<quads, records, preparing, pushing, wall>>
  PROVE  PostInv'
BY DEF PostInv, PostTypes, OneRecordPerEvent

LEMMA PostNext ==
  ASSUME PostInv, [BoardNext]_boardAll
  PROVE  PostInv'
<1>1. ASSUME NEW l \in Lab, \/ PullDoor(l) \/ \E n \in QuadNumbers : ShelfDamage(l, n)
      PROVE  UNCHANGED <<quads, records, preparing, pushing, wall>>
  BY <1>1 DEF PullDoor, ShelfDamage
<1>2. ASSUME RoundStarts \/ RoundEnds \/ RoundCut
      PROVE  UNCHANGED <<quads, records, preparing, pushing, wall>>
  BY <1>2 DEF RoundStarts, RoundEnds, RoundCut
<1>3. ASSUME UNCHANGED boardAll
      PROVE  UNCHANGED <<quads, records, preparing, pushing, wall>>
  BY <1>3 DEF boardAll, boardVars
<1> QED
  BY <1>1, <1>2, <1>3, PostAside, PostPrepare, PostPrepareStep, PostPrepareEnds, PostRaw, PostPushRead,
     PostPushSend, PostPushSave DEF BoardNext

\* An event is recorded once, and what its record says of the door is so, however often it
\* is prepared and pushed, by whom at the same time, and wherever a process ended
\* (prepare_post, push_outbox).
THEOREM PostsAlwaysOnce == BoardSpec => []PostsAreOnce
<1>1. BoardInit => PostInv
  BY PostFirst
<1>2. PostInv /\ [BoardNext]_boardAll => PostInv'
  BY PostNext
<1>3. PostInv => PostsAreOnce
  BY DEF PostInv, PostsAreOnce, OneEvent, RecordsHold
<1> QED
  BY <1>1, <1>2, <1>3, PTL DEF BoardSpec, boardAll

-----------------------------------------------------------------------------
(* Rounds.  What a door has gets to the reader in the order of the numbers, but for what
   came to the door after a number that the reader has. *)

ShelfStates == {"none", "part", "damaged", "whole"}
There(S) == {n \in QuadNumbers : S[n] # "none"}
Whole(S) == {n \in QuadNumbers : S[n] \in {"whole", "damaged"}}

\* CameLate, of the numbers as they came to a door and of what the reader has.
Late(R, S, n) == \E i, j \in DOMAIN R : i < j /\ R[j] = n /\ R[i] > n /\ S[R[i]] # "none"

DoorOrder(W, R, S) ==
  /\ \A n \in QuadNumbers : W[n] # NoEvent => \E i \in DOMAIN R : R[i] = n
  /\ \A n \in There(S) : W[n] # NoEvent
  /\ \A n, m \in QuadNumbers : W[n] # NoEvent /\ S[n] = "none" /\ m > n /\ m \in There(S) => Late(R, S, n)

RoundSays(r, l, S, R) ==
  l \in DOMAIN r.results /\ r.results[l] =>
    \A n \in r.there[l] : n \in Whole(S) \/ Late(R, S, n)

RoundTypes ==
  /\ wall \in [Lab -> [QuadNumbers -> EventOr]]
  /\ raised \in [Lab -> Seq(QuadNumbers)]
  /\ shelf \in [Lab -> [QuadNumbers -> ShelfStates]]
  /\ round = [status |-> round.status, planned |-> round.planned, results |-> round.results, there |-> round.there]
  /\ round.planned \subseteq Lab
  /\ \A l \in DOMAIN round.results : l \in Lab

RoundInv ==
  /\ RoundTypes
  /\ \A l \in Lab : DoorOrder(wall[l], raised[l], shelf[l])
  /\ \A l \in Lab : RoundSays(round, l, shelf[l], raised[l])

\* Nothing that a reader has goes away, and a door only adds to what came.
LEMMA LateStays ==
  ASSUME NEW R \in Seq(QuadNumbers), NEW n, NEW S, NEW T,
         \A m \in QuadNumbers : S[m] # "none" => T[m] # "none",
         Late(R, S, n)
  PROVE  Late(R, T, n)
<1>1. \A i \in DOMAIN R : R[i] \in QuadNumbers
  OBVIOUS
<1> QED
  BY <1>1 DEF Late

LEMMA LateAppended ==
  ASSUME NEW R \in Seq(QuadNumbers), NEW n, NEW S, NEW m \in QuadNumbers, Late(R, S, n)
  PROVE  Late(Append(R, m), S, n)
<1>1. \A i \in DOMAIN R : i \in DOMAIN Append(R, m) /\ Append(R, m)[i] = R[i]
  OBVIOUS
<1> QED
  BY <1>1 DEF Late

\* A letter that comes to a door under a lower number than one that the reader has is late.
LEMMA OrderAppended ==
  ASSUME NEW W, NEW R \in Seq(QuadNumbers), NEW S, DoorOrder(W, R, S), NEW m \in QuadNumbers, W[m] = NoEvent,
         NEW V, \A k \in QuadNumbers : k # m => V[k] = W[k]
  PROVE  DoorOrder(V, Append(R, m), S)
<1> DEFINE Q == Append(R, m)
<1>1. /\ Len(R) + 1 \in DOMAIN Q /\ Q[Len(R) + 1] = m
      /\ \A i \in DOMAIN R : i \in DOMAIN Q /\ Q[i] = R[i] /\ i < Len(R) + 1
  OBVIOUS
<1>2. \A n \in QuadNumbers : V[n] # NoEvent => \E i \in DOMAIN Q : Q[i] = n
  BY <1>1 DEF DoorOrder
<1>3. \A n \in There(S) : n # m /\ V[n] # NoEvent
  BY DEF DoorOrder, There
<1>4. ASSUME NEW n \in QuadNumbers, NEW k \in QuadNumbers, V[n] # NoEvent, S[n] = "none", k > n, k \in There(S)
      PROVE  Late(Q, S, n)
  <2>1. CASE n # m
    <3>1. Late(R, S, n)
      BY <1>4, <2>1 DEF DoorOrder
    <3> QED
      BY <3>1, LateAppended
  <2>2. CASE n = m
    <3>1. W[k] # NoEvent /\ S[k] # "none"
      BY <1>4 DEF DoorOrder, There
    <3>2. PICK i \in DOMAIN R : R[i] = k
      BY <3>1 DEF DoorOrder
    <3>3. i < Len(R) + 1 /\ i \in DOMAIN Q /\ Q[i] = k
      BY <1>1, <3>2
    <3> QED
      BY <1>1, <1>4, <2>2, <3>1, <3>3 DEF Late
  <2> QED
    BY <2>1, <2>2
<1> QED
  BY <1>2, <1>3, <1>4 DEF DoorOrder

LEMMA RoundFirst ==
  ASSUME BoardInit
  PROVE  RoundInv
<1>1. \A l \in Lab, n \in QuadNumbers : wall[l][n] = NoEvent /\ shelf[l][n] = "none"
  BY DEF BoardInit
<1>2. \A l \in Lab : DoorOrder(wall[l], raised[l], shelf[l])
  BY <1>1 DEF DoorOrder, There
<1>3. round = NoRound
  BY DEF BoardInit
<1>4. DOMAIN round.results = {}
  BY <1>3 DEF NoRound
<1>5. RoundTypes
  BY <1>3, <1>4 DEF BoardInit, RoundTypes, NoRound, EventOr, ShelfStates
<1> QED
  BY <1>2, <1>4, <1>5 DEF RoundInv, RoundSays

\* A letter comes to the door of l.
Comes(l, n, e) ==
  /\ wall[l][n] = NoEvent
  /\ wall' = [wall EXCEPT ![l][n] = e]
  /\ raised' = [raised EXCEPT ![l] = Append(@, n)]
  /\ UNCHANGED <<shelf, round>>

LEMMA RoundComes ==
  ASSUME RoundInv, NEW l \in Lab, NEW n \in QuadNumbers, NEW e \in EventOr, Comes(l, n, e)
  PROVE  RoundInv'
<1>1. wall \in [Lab -> [QuadNumbers -> EventOr]] /\ raised \in [Lab -> Seq(QuadNumbers)]
  BY DEF RoundInv, RoundTypes
<1>2. /\ wall' \in [Lab -> [QuadNumbers -> EventOr]]
      /\ \A k \in Lab : k # l => \A m \in QuadNumbers : wall'[k][m] = wall[k][m]
      /\ \A m \in QuadNumbers : m # n => wall'[l][m] = wall[l][m]
  BY <1>1, PutAt DEF Comes
<1>3. /\ raised' \in [Lab -> Seq(QuadNumbers)] /\ raised'[l] = Append(raised[l], n)
      /\ \A k \in Lab : k # l => raised'[k] = raised[k]
  BY <1>1 DEF Comes
<1>4. shelf' = shelf /\ round' = round /\ wall[l][n] = NoEvent
  BY DEF Comes
<1>5. \A k \in Lab : DoorOrder(wall'[k], raised'[k], shelf[k])
  <2>1. DoorOrder(wall'[l], raised'[l], shelf[l])
    BY <1>1, <1>2, <1>3, <1>4, OrderAppended DEF RoundInv
  <2>2. ASSUME NEW k \in Lab, k # l PROVE DoorOrder(wall'[k], raised'[k], shelf[k])
    <3>1. DoorOrder(wall[k], raised[k], shelf[k])
      BY DEF RoundInv
    <3>2. raised'[k] = raised[k] /\ \A m \in QuadNumbers : wall'[k][m] = wall[k][m]
      BY <1>2, <1>3, <2>2
    <3> QED
      BY <3>1, <3>2 DEF DoorOrder, There
  <2> QED
    BY <2>1, <2>2
<1>6. \A k \in Lab : RoundSays(round, k, shelf[k], raised'[k])
  <2>1. \A m : Late(raised[l], shelf[l], m) => Late(raised'[l], shelf[l], m)
    BY <1>1, <1>3, LateAppended
  <2>2. RoundSays(round, l, shelf[l], raised'[l])
    BY <2>1 DEF RoundInv, RoundSays
  <2> QED
    BY <1>3, <2>2 DEF RoundInv
<1>7. RoundTypes'
  BY <1>2, <1>3, <1>4 DEF RoundInv, RoundTypes
<1> QED
  BY <1>4, <1>5, <1>6, <1>7 DEF RoundInv

\* What the reader has of a door after it was pulled.
Pulled(S, T, got, part) ==
  T = [n \in QuadNumbers |-> IF n \in got THEN "whole" ELSE IF n \in part THEN "part" ELSE S[n]]

LEMMA PulledStates ==
  ASSUME NEW S \in [QuadNumbers -> ShelfStates], NEW got, NEW part,
         \A n \in part : S[n] = "none", NEW T, Pulled(S, T, got, part)
  PROVE  /\ T \in [QuadNumbers -> ShelfStates]
         /\ \A n \in QuadNumbers : S[n] # "none" => T[n] # "none"
         /\ \A n \in Whole(S) : n \in Whole(T)
         /\ \A n \in QuadNumbers : T[n] # "none" => S[n] # "none" \/ n \in got \/ n \in part
         /\ \A n \in QuadNumbers : T[n] = "none" => S[n] = "none" /\ n \notin got /\ n \notin part
BY DEF Pulled, ShelfStates, Whole

\* resume_point: what lies at a door at or before it is there, or came late.
LEMMA ResumeIs ==
  ASSUME RoundInv, NEW l \in Lab, NEW n \in QuadNumbers, n <= ResumePoint(l), shelf[l][n] = "none"
  PROVE  \E m \in There(shelf[l]) : m > n
<1> DEFINE good == {k \in QuadNumbers : shelf[l][k] = "whole" /\ \A m \in Incomplete(l) : k < m}
<1>1. CASE good = {}
  <2>1. ResumePoint(l) = 0
    BY <1>1 DEF ResumePoint
  <2> QED
    BY <2>1, BoardAssumption DEF QuadNumbers
<1>2. CASE good # {}
  <2>1. Top(good) \in good
    BY <1>2, TopIsHighest
  <2>2. ResumePoint(l) = Top(good)
    BY <1>2 DEF ResumePoint, Top
  <2>3. shelf[l][ResumePoint(l)] = "whole" /\ ResumePoint(l) \in QuadNumbers
    BY <2>1, <2>2
  <2>4. ResumePoint(l) > n /\ ResumePoint(l) \in There(shelf[l])
    BY <2>3 DEF There, QuadNumbers
  <2> QED
    BY <2>4
<1> QED
  BY <1>1, <1>2

LEMMA ResumeType ==
  ASSUME NEW l
  PROVE  ResumePoint(l) \in Nat
<1> DEFINE good == {k \in QuadNumbers : shelf[l][k] = "whole" /\ \A m \in Incomplete(l) : k < m}
<1>1. CASE good = {}
  BY <1>1 DEF ResumePoint
<1>2. CASE good # {}
  <2>1. Top(good) \in good
    BY <1>2, TopIsHighest
  <2>2. ResumePoint(l) = Top(good)
    BY <1>2 DEF ResumePoint, Top
  <2> QED
    BY <2>1, <2>2 DEF QuadNumbers
<1> QED
  BY <1>1, <1>2

LEMMA OrderPulled ==
  ASSUME RoundInv, NEW l \in Lab, NEW got \in SUBSET ToPull(l), NEW part \in SUBSET ToPull(l),
         \A n \in got, m \in ToPull(l) \ got : n < m,
         \A n \in part : shelf[l][n] = "none" /\ \A m \in ToPull(l) \ got : n <= m,
         NEW T, Pulled(shelf[l], T, got, part)
  PROVE  DoorOrder(wall[l], raised[l], T)
<1> DEFINE S == shelf[l]
           R == raised[l]
           W == wall[l]
<1>1. S \in [QuadNumbers -> ShelfStates] /\ R \in Seq(QuadNumbers) /\ DoorOrder(W, R, S)
  BY DEF RoundInv, RoundTypes
<1>2. /\ \A n \in QuadNumbers : S[n] # "none" => T[n] # "none"
      /\ \A n \in QuadNumbers : T[n] # "none" => S[n] # "none" \/ n \in got \/ n \in part
      /\ \A n \in QuadNumbers : T[n] = "none" => S[n] = "none" /\ n \notin got /\ n \notin part
  <2>1. \A n \in part : S[n] = "none"
    OBVIOUS
  <2>2. Pulled(S, T, got, part)
    OBVIOUS
  <2> HIDE DEF S
  <2> QED
    BY <1>1, <2>1, <2>2 DEF Pulled, ShelfStates
<1>3. \A n \in ToPull(l) : n \in QuadNumbers /\ W[n] # NoEvent /\ n > ResumePoint(l)
  BY DEF ToPull, OnWall
<1>4. \A n \in QuadNumbers : W[n] # NoEvent /\ n > ResumePoint(l) => n \in ToPull(l)
  BY DEF ToPull, OnWall
<1> HIDE DEF S, R, W
<1>5. \A n \in There(T) : W[n] # NoEvent
  BY <1>1, <1>2, <1>3 DEF DoorOrder, There
<1>6. ASSUME NEW n \in QuadNumbers, NEW m \in QuadNumbers, W[n] # NoEvent, T[n] = "none", m > n, m \in There(T)
      PROVE  Late(R, T, n)
  <2>1. S[n] = "none" /\ n \notin got /\ n \notin part
    BY <1>2, <1>6
  <2>2. ASSUME NEW k \in There(S), k > n PROVE Late(R, T, n)
    <3>1. k \in QuadNumbers
      BY DEF There
    <3>2. Late(R, S, n)
      BY <1>1, <1>6, <2>1, <2>2, <3>1 DEF DoorOrder
    <3> QED
      BY <1>1, <1>2, <3>2, LateStays
  <2>3. CASE n \in ToPull(l)
    <3>1. n \in ToPull(l) \ got
      BY <2>1, <2>3
    <3>2. m \notin got /\ m \notin part
      <4>1. m \in Nat /\ n \in Nat
        BY <1>6 DEF QuadNumbers
      <4>2. ~(m < n) /\ ~(m <= n)
        BY <1>6, <4>1
      <4> QED
        BY <3>1, <4>2
    <3>3. m \in There(S)
      BY <1>2, <1>6, <3>2 DEF There
    <3> QED
      BY <1>6, <2>2, <3>3
  <2>4. CASE n \notin ToPull(l)
    <3>1. n <= ResumePoint(l)
      BY <1>4, <1>6, <2>4, ResumeType DEF QuadNumbers
    <3>2. \E k \in There(S) : k > n
      BY <2>1, <3>1, ResumeIs DEF S
    <3> QED
      BY <2>2, <3>2
  <2> QED
    BY <2>3, <2>4
<1> QED
  BY <1>1, <1>5, <1>6 DEF DoorOrder, W, R

\* A door is pulled well only if all that it has is there then, but for what came late.
LEMMA PulledWell ==
  ASSUME RoundInv, NEW l \in Lab, NEW T, Pulled(shelf[l], T, ToPull(l), {}),
         DoorOrder(wall[l], raised[l], T), Incomplete(l) \subseteq ToPull(l), NEW n \in OnWall(l)
  PROVE  n \in Whole(T) \/ Late(raised[l], T, n)
<1>1. shelf[l] \in [QuadNumbers -> ShelfStates] /\ raised[l] \in Seq(QuadNumbers) /\ n \in QuadNumbers
  BY DEF RoundInv, RoundTypes, OnWall
<1>2. CASE n \in ToPull(l)
  BY <1>1, <1>2 DEF Pulled, Whole
<1>3. CASE n \notin ToPull(l) /\ shelf[l][n] # "none"
  <2>1. n \notin Incomplete(l)
    BY <1>3
  <2>2. shelf[l][n] = "whole"
    BY <1>1, <1>3, <2>1 DEF Incomplete, ShelfStates
  <2> QED
    BY <1>1, <1>3, <2>2 DEF Pulled, Whole
<1>4. CASE n \notin ToPull(l) /\ shelf[l][n] = "none"
  <2>1. n <= ResumePoint(l)
    BY <1>1, <1>4, ResumeType DEF ToPull, OnWall, QuadNumbers
  <2>2. PICK m \in There(shelf[l]) : m > n
    BY <1>1, <1>4, <2>1, ResumeIs
  <2>3. wall[l][n] # NoEvent /\ m \in QuadNumbers
    BY DEF OnWall, There
  <2>4. Late(raised[l], shelf[l], n)
    BY <1>1, <1>4, <2>2, <2>3 DEF RoundInv, DoorOrder
  <2>5. \A k \in QuadNumbers : shelf[l][k] # "none" => T[k] # "none"
    <3>1. \A k \in {} : shelf[l][k] = "none"
      OBVIOUS
    <3> QED
      BY <1>1 DEF Pulled, ShelfStates
  <2> QED
    BY <1>1, <2>4, <2>5, LateStays
<1> QED
  BY <1>2, <1>3, <1>4

LEMMA SaysStill ==
  ASSUME RoundTypes, NEW l \in Lab, RoundSays(round, l, shelf[l], raised[l]), NEW T,
         \A n \in QuadNumbers : shelf[l][n] # "none" => T[n] # "none",
         \A n \in Whole(shelf[l]) : n \in Whole(T)
  PROVE  RoundSays(round, l, T, raised[l])
<1>1. raised[l] \in Seq(QuadNumbers)
  BY DEF RoundTypes
<1>2. \A n : Late(raised[l], shelf[l], n) => Late(raised[l], T, n)
  BY <1>1, LateStays
<1> QED
  BY <1>2 DEF RoundSays

LEMMA RoundDamage ==
  ASSUME RoundInv, NEW l \in Lab, NEW n \in QuadNumbers, ShelfDamage(l, n)
  PROVE  RoundInv'
<1>1. /\ shelf[l][n] = "whole" /\ shelf' = [shelf EXCEPT ![l][n] = "damaged"]
      /\ UNCHANGED <<wall, raised, round>>
  BY DEF ShelfDamage
<1>2. /\ shelf' \in [Lab -> [QuadNumbers -> ShelfStates]] /\ shelf'[l][n] = "damaged"
      /\ \A k \in Lab, m \in QuadNumbers : k # l \/ m # n => shelf'[k][m] = shelf[k][m]
  <2>1. shelf \in [Lab -> [QuadNumbers -> ShelfStates]] /\ "damaged" \in ShelfStates
    BY DEF RoundInv, RoundTypes, ShelfStates
  <2> QED
    BY <1>1, <2>1, PutAt
<1>3. \A k \in Lab : There(shelf'[k]) = There(shelf[k]) /\ Whole(shelf'[k]) = Whole(shelf[k])
  BY <1>1, <1>2 DEF There, Whole
<1>4. \A k \in Lab, m \in QuadNumbers : shelf'[k][m] = "none" <=> shelf[k][m] = "none"
  BY <1>1, <1>2
<1>5. \A k \in Lab, m \in QuadNumbers : Late(raised[k], shelf[k], m) => Late(raised[k], shelf'[k], m)
  <2> TAKE k \in Lab, m \in QuadNumbers
  <2>1. raised[k] \in Seq(QuadNumbers)
    BY DEF RoundInv, RoundTypes
  <2>2. \A j \in QuadNumbers : shelf[k][j] # "none" => shelf'[k][j] # "none"
    BY <1>4
  <2> QED
    BY <2>1, <2>2, LateStays
<1>6. \A k \in Lab : DoorOrder(wall[k], raised[k], shelf'[k])
  BY <1>3, <1>4, <1>5 DEF RoundInv, DoorOrder
<1>7. \A k \in Lab : RoundSays(round, k, shelf'[k], raised[k])
  <2> TAKE k \in Lab
  <2>1. \A j \in QuadNumbers : shelf[k][j] # "none" => shelf'[k][j] # "none"
    BY <1>4
  <2> QED
    BY <1>3, <2>1, SaysStill DEF RoundInv
<1> QED
  BY <1>1, <1>2, <1>6, <1>7 DEF RoundInv, RoundTypes

LEMMA RoundPull ==
  ASSUME RoundInv, NEW l \in Lab, PullDoor(l)
  PROVE  RoundInv'
<1>1. PICK got \in SUBSET ToPull(l), part \in SUBSET ToPull(l) :
        /\ \A n \in got, m \in ToPull(l) \ got : n < m
        /\ IF got = ToPull(l) THEN part = {}
           ELSE part \subseteq {n \in ToPull(l) \ got : shelf[l][n] = "none" /\ \A m \in ToPull(l) \ got : n <= m}
        /\ shelf' = [shelf EXCEPT ![l] =
             [n \in QuadNumbers |-> IF n \in got THEN "whole" ELSE IF n \in part THEN "part" ELSE @[n]]]
        /\ round' = [round EXCEPT
             !.results = [d \in DOMAIN round.results \cup {l} |->
                IF d = l THEN got = ToPull(l) /\ part = {} /\ Incomplete(l) \subseteq got ELSE @[d]],
             !.there = [d \in DOMAIN round.results \cup {l} |-> IF d = l THEN OnWall(l) ELSE @[d]]]
  BY DEF PullDoor
<1>2. PICK good : good = (got = ToPull(l) /\ part = {} /\ Incomplete(l) \subseteq got)
  OBVIOUS
<1>3. PICK T : T = [n \in QuadNumbers |-> IF n \in got THEN "whole" ELSE IF n \in part THEN "part" ELSE shelf[l][n]]
  OBVIOUS
<1>4. PICK results, there :
        /\ results = [d \in DOMAIN round.results \cup {l} |-> IF d = l THEN good ELSE round.results[d]]
        /\ there = [d \in DOMAIN round.results \cup {l} |-> IF d = l THEN OnWall(l) ELSE round.there[d]]
  OBVIOUS
<1>5. round' = [status |-> round.status, planned |-> round.planned, results |-> results, there |-> there]
  <2>1. round = [status |-> round.status, planned |-> round.planned, results |-> round.results, there |-> round.there]
    BY DEF RoundInv, RoundTypes
  <2>2. round' = [round EXCEPT !.results = results, !.there = there]
    BY <1>1, <1>2, <1>4
  <2> QED
    BY <2>1, <2>2
<1>6. \A n \in part : shelf[l][n] = "none" /\ \A m \in ToPull(l) \ got : n <= m
  BY <1>1
<1>7. Pulled(shelf[l], T, got, part) /\ DoorOrder(wall[l], raised[l], T)
  <2>1. Pulled(shelf[l], T, got, part)
    BY <1>3 DEF Pulled
  <2> QED
    BY <1>1, <1>6, <2>1, OrderPulled
<1>8. /\ T \in [QuadNumbers -> ShelfStates]
      /\ \A n \in QuadNumbers : shelf[l][n] # "none" => T[n] # "none"
      /\ \A n \in Whole(shelf[l]) : n \in Whole(T)
  <2>1. shelf[l] \in [QuadNumbers -> ShelfStates]
    BY DEF RoundInv, RoundTypes
  <2> QED
    BY <1>6, <1>7, <2>1 DEF Pulled, ShelfStates, Whole
<1>9. /\ shelf' \in [Lab -> [QuadNumbers -> ShelfStates]] /\ shelf'[l] = T
      /\ \A k \in Lab : k # l => shelf'[k] = shelf[k]
  <2>1. shelf' = [shelf EXCEPT ![l] = T]
    BY <1>1, <1>3
  <2> QED
    BY <1>8, <2>1 DEF RoundInv, RoundTypes
<1>10. wall' = wall /\ raised' = raised
  BY DEF PullDoor
<1>11. \A k \in Lab : DoorOrder(wall[k], raised[k], shelf'[k])
  BY <1>7, <1>9 DEF RoundInv
<1>12. RoundSays(round', l, T, raised[l])
  <2>1. round'.results[l] = good /\ round'.there[l] = OnWall(l)
    BY <1>4, <1>5
  <2>2. ASSUME good, NEW n \in OnWall(l)
        PROVE  n \in Whole(T) \/ Late(raised[l], T, n)
    <3>1. got = ToPull(l) /\ part = {} /\ Incomplete(l) \subseteq ToPull(l)
      BY <1>2, <2>2
    <3>2. Pulled(shelf[l], T, ToPull(l), {})
      BY <1>7, <3>1
    <3> QED
      BY <1>7, <3>1, <3>2, PulledWell
  <2> QED
    BY <2>1, <2>2 DEF RoundSays
<1>13. ASSUME NEW k \in Lab, k # l
       PROVE  RoundSays(round', k, shelf[k], raised[k])
  <2>1. k \in DOMAIN round'.results <=> k \in DOMAIN round.results
    BY <1>4, <1>5, <1>13
  <2>2. k \in DOMAIN round.results => round'.results[k] = round.results[k] /\ round'.there[k] = round.there[k]
    BY <1>4, <1>5, <1>13
  <2> QED
    BY <2>1, <2>2 DEF RoundInv, RoundSays
<1>14. \A k \in Lab : RoundSays(round', k, shelf'[k], raised[k])
  BY <1>9, <1>12, <1>13
<1>15. RoundTypes'
  <2>1. round' = [status |-> round'.status, planned |-> round'.planned, results |-> round'.results, there |-> round'.there]
        /\ round'.planned = round.planned /\ DOMAIN round'.results = DOMAIN round.results \cup {l}
    BY <1>4, <1>5
  <2> QED
    BY <1>9, <1>10, <2>1 DEF RoundInv, RoundTypes
<1> QED
  BY <1>10, <1>11, <1>14, <1>15 DEF RoundInv

LEMMA RoundBegins ==
  ASSUME RoundInv, RoundStarts
  PROVE  RoundInv'
<1>1. PICK status, planned :
        /\ planned \in SUBSET Lab
        /\ round' = [status |-> status, planned |-> planned, results |-> <<>>, there |-> <<>>]
        /\ UNCHANGED <<wall, raised, shelf>>
  <2>1. Planned \in SUBSET Lab /\ {} \in SUBSET Lab
    BY DEF Planned
  <2> QED
    BY <2>1 DEF RoundStarts
<1>2. DOMAIN round'.results = {} /\ round'.planned = planned
      /\ round' = [status |-> round'.status, planned |-> round'.planned, results |-> round'.results, there |-> round'.there]
  BY <1>1
<1>3. \A l \in Lab : RoundSays(round', l, shelf[l], raised[l])
  BY <1>2 DEF RoundSays
<1> QED
  BY <1>1, <1>2, <1>3 DEF RoundInv, RoundTypes

LEMMA RoundCloses ==
  ASSUME RoundInv, RoundEnds
  PROVE  RoundInv'
<1>1. round' = [status |-> "complete", planned |-> round.planned, results |-> round.results, there |-> round.there]
      /\ UNCHANGED <<wall, raised, shelf>>
  <2>1. round = [status |-> round.status, planned |-> round.planned, results |-> round.results, there |-> round.there]
    BY DEF RoundInv, RoundTypes
  <2>2. round' = [round EXCEPT !.status = "complete"]
    BY DEF RoundEnds
  <2> QED
    BY <2>1, <2>2 DEF RoundEnds
<1>2. /\ round'.planned = round.planned /\ round'.results = round.results /\ round'.there = round.there
      /\ round' = [status |-> round'.status, planned |-> round'.planned, results |-> round'.results, there |-> round'.there]
  BY <1>1
<1>3. \A l \in Lab : RoundSays(round', l, shelf[l], raised[l])
  BY <1>2 DEF RoundInv, RoundSays
<1> QED
  BY <1>1, <1>2, <1>3 DEF RoundInv, RoundTypes

LEMMA RoundAside ==
  ASSUME RoundInv, UNCHANGED <<wall, raised, shelf, round>>
  PROVE  RoundInv'
BY DEF RoundInv, RoundTypes

LEMMA RoundRaise ==
  ASSUME RoundInv, NEW l \in Lab, NEW n \in QuadNumbers, NEW e \in EventOr, Raise(l, n, e), UNCHANGED <<shelf, round>>
  PROVE  RoundInv'
BY RoundComes, RoundAside DEF Raise, Comes

LEMMA RoundRaw ==
  ASSUME RoundInv, NEW l \in Lab, NEW e \in Sayings, RawPost(l, e)
  PROVE  RoundInv'
<1>1. Raise(l, NextQuad(l), e) /\ UNCHANGED <<shelf, round>> /\ NextQuad(l) <= MaxQuad
  BY DEF RawPost
<1>2. NextQuad(l) \in QuadNumbers /\ e \in EventOr
  BY <1>1, NextIsFree DEF EventOr
<1> QED
  BY <1>1, <1>2, RoundRaise

LEMMA RoundSend ==
  ASSUME PostInv, RoundInv, NEW p \in Pusher, PushSend(p)
  PROVE  RoundInv'
<1>0. PICK l, n, e : l = pushing[p].lab /\ n = pushing[p].n /\ e = quads[l][n].event
  OBVIOUS
<1>1. UNCHANGED <<shelf, round>> /\ pushing[p].pc = "send"
  BY DEF PushSend
<1>2. l \in Lab /\ n \in QuadNumbers
  BY <1>0, <1>1, PushingIs DEF PostInv, BoardIdle
<1>3. e \in EventOr
  BY <1>0, <1>2 DEF PostInv, PostTypes, QuadSet
<1>4. Raise(l, n, e) \/ UNCHANGED <<wall, raised>>
  BY <1>0 DEF PushSend
<1> QED
  BY <1>1, <1>2, <1>3, <1>4, RoundRaise, RoundAside

LEMMA RoundNext ==
  ASSUME PostInv, RoundInv, [BoardNext]_boardAll
  PROVE  RoundInv'
<1>1. ASSUME NEW l \in Lab,
             (\E e \in Prepared : Prepare(l, e)) \/ PrepareStep(l) \/ PrepareEnds(l)
      PROVE  UNCHANGED <<wall, raised, shelf, round>>
  BY <1>1 DEF Prepare, PrepareStep, PrepareEnds
<1>2. ASSUME NEW p \in Pusher, PushSave(p) \/ \E l \in Lab, n \in QuadNumbers : PushRead(p, l, n)
      PROVE  UNCHANGED <<wall, raised, shelf, round>>
  BY <1>2 DEF PushSave, PushRead
<1>3. ASSUME RoundCut \/ UNCHANGED boardAll
      PROVE  UNCHANGED <<wall, raised, shelf, round>>
  BY <1>3 DEF RoundCut, boardAll, boardVars
<1> QED
  BY <1>1, <1>2, <1>3, RoundAside, RoundRaw, RoundSend, RoundPull, RoundDamage, RoundBegins, RoundCloses
     DEF BoardNext

\* A reading that calls itself complete has all that was at a planned door, but for files
\* that were lost and letters that came late, through cut rounds, faults and repairs
\* (pull_channel, completeness_of).
THEOREM CompleteAlwaysMeansAll == BoardSpec => []CompleteMeansAll
<1>1. BoardInit => PostInv /\ RoundInv
  BY PostFirst, RoundFirst
<1>2. PostInv /\ RoundInv /\ [BoardNext]_boardAll => PostInv' /\ RoundInv'
  BY PostNext, RoundNext
<1>3. RoundInv => CompleteMeansAll
  <2> SUFFICES ASSUME RoundInv, Completeness = "complete", NEW l \in round.planned, NEW n \in round.there[l]
               PROVE  shelf[l][n] \in {"whole", "damaged"} \/ CameLate(l, n)
    BY DEF CompleteMeansAll
  <2>1. Failures(round) = {} /\ Untried = {}
    BY DEF Completeness
  <2>2. l \in DOMAIN round.results /\ round.results[l] /\ l \in Lab
    BY <2>1 DEF Failures, Untried, RoundInv, RoundTypes
  <2>3. n \in Whole(shelf[l]) \/ Late(raised[l], shelf[l], n)
    BY <2>2 DEF RoundInv, RoundSays
  <2> QED
    BY <2>3 DEF Whole, Late, CameLate
<1> QED
  BY <1>1, <1>2, <1>3, PTL DEF BoardSpec, boardAll

-----------------------------------------------------------------------------
(* Sequences in order *)

\* Earlier is a strict order of all of S.
InLine(S) ==
  /\ \A x \in S : ~Earlier(x, x)
  /\ \A x, y \in S : x # y => Earlier(x, y) \/ Earlier(y, x)
  /\ \A x, y, z \in S : Earlier(x, y) /\ Earlier(y, z) => Earlier(x, z)

\* q has the elements of S, each once, the earlier before the later.
Sorted(q, S) ==
  /\ q \in Seq(S)
  /\ \A x \in S : \E i \in 1 .. Len(q) : q[i] = x
  /\ \A i, j \in 1 .. Len(q) : Earlier(q[i], q[j]) <=> i < j

LEMMA RanksRise ==
  ASSUME NEW S, IsFiniteSet(S), InLine(S)
  PROVE  /\ \A x \in S : Cardinality(AllEarlier(S, x)) \in 0 .. Cardinality(S) - 1
         /\ \A x, y \in S : Earlier(x, y) =>
              Cardinality(AllEarlier(S, x)) < Cardinality(AllEarlier(S, y))
<1>1. ASSUME NEW x \in S, NEW T, IsFiniteSet(T), AllEarlier(S, x) \cup {x} \subseteq T
      PROVE  /\ Cardinality(AllEarlier(S, x)) \in Nat
             /\ Cardinality(AllEarlier(S, x)) + 1 <= Cardinality(T)
             /\ Cardinality(T) \in Nat
  <2> DEFINE A == AllEarlier(S, x)
  <2>1. A \subseteq T /\ x \notin A /\ A \cup {x} \in SUBSET T /\ A \in SUBSET T
    BY <1>1 DEF AllEarlier, InLine
  <2> HIDE DEF A
  <2>2. IsFiniteSet(A) /\ Cardinality(A) \in Nat
    BY <1>1, <2>1, FS_Subset, FS_CardinalityType
  <2>3. Cardinality(A \cup {x}) = Cardinality(A) + 1
    BY <2>1, <2>2, FS_AddElement
  <2>4. Cardinality(A \cup {x}) <= Cardinality(T) /\ Cardinality(T) \in Nat
    BY <1>1, <2>1, FS_Subset, FS_CardinalityType
  <2> QED
    BY <2>2, <2>3, <2>4 DEF A
<1>2. ASSUME NEW x \in S PROVE Cardinality(AllEarlier(S, x)) \in 0 .. Cardinality(S) - 1
  <2>1. AllEarlier(S, x) \cup {x} \subseteq S
    BY DEF AllEarlier
  <2> QED
    BY <1>1, <2>1
<1>3. ASSUME NEW x \in S, NEW y \in S, Earlier(x, y)
      PROVE  Cardinality(AllEarlier(S, x)) < Cardinality(AllEarlier(S, y))
  <2>1. AllEarlier(S, x) \cup {x} \subseteq AllEarlier(S, y)
    BY <1>3 DEF AllEarlier, InLine
  <2>2. IsFiniteSet(AllEarlier(S, y))
    <3>1. AllEarlier(S, y) \in SUBSET S
      BY DEF AllEarlier
    <3> QED
      BY <3>1, FS_Subset
  <2>3. /\ Cardinality(AllEarlier(S, x)) \in Nat
        /\ Cardinality(AllEarlier(S, x)) + 1 <= Cardinality(AllEarlier(S, y))
        /\ Cardinality(AllEarlier(S, y)) \in Nat
    BY <1>1, <2>1, <2>2
  <2> QED
    BY <2>3
<1> QED
  BY <1>2, <1>3

LEMMA InOrderSorts ==
  ASSUME NEW S, IsFiniteSet(S), InLine(S)
  PROVE  Sorted(InOrder(S), S) /\ Len(InOrder(S)) = Cardinality(S)
<1> DEFINE q == InOrder(S)
           N == Cardinality(S)
           rank(x) == Cardinality(AllEarlier(S, x))
           f == [x \in S |-> rank(x) + 1]
<1>1. N \in Nat /\ \A x \in S : rank(x) \in 0 .. N - 1
  BY RanksRise, FS_CardinalityType
<1>2. \A x, y \in S : Earlier(x, y) => rank(x) < rank(y)
  BY RanksRise
<1> HIDE DEF N, rank
<1>3. \A x, y \in S : rank(x) = rank(y) => x = y
  <2> SUFFICES ASSUME NEW x \in S, NEW y \in S, x # y PROVE rank(x) # rank(y)
    OBVIOUS
  <2>1. rank(x) \in Nat /\ rank(y) \in Nat /\ (Earlier(x, y) \/ Earlier(y, x))
    BY <1>1 DEF InLine
  <2> QED
    BY <1>2, <2>1
<1>4. f \in [S -> 1 .. N] /\ \A x \in S : f[x] = rank(x) + 1
  BY <1>1
<1>5. f \in Injection(S, 1 .. N)
  <2>1. \A x, y \in S : f[x] = f[y] => x = y
    <3> SUFFICES ASSUME NEW x \in S, NEW y \in S, f[x] = f[y] PROVE x = y
      OBVIOUS
    <3>1. rank(x) \in Nat /\ rank(y) \in Nat
      BY <1>1
    <3> HIDE DEF f
    <3>2. rank(x) = rank(y)
      BY <1>4, <3>1
    <3> QED
      BY <1>3, <3>2
  <2> HIDE DEF f
  <2> QED
    BY <1>4, <2>1 DEF Injection, IsInjective
<1>6. f \in Surjection(S, 1 .. N)
  <2>1. IsFiniteSet(1 .. N) /\ Cardinality(1 .. N) = N
    BY <1>1, FS_Interval
  <2> HIDE DEF f
  <2> QED
    BY <1>5, <2>1, FS_Injection DEF N
<1>7. ASSUME NEW i \in 1 .. N PROVE \E x \in S : rank(x) = i - 1
  <2>1. PICK x \in S : f[x] = i
    <3> HIDE DEF f
    <3> QED
      BY <1>6 DEF Surjection
  <2> QED
    BY <1>1, <1>4, <2>1
<1>8. q = [i \in 1 .. N |-> CHOOSE x \in S : rank(x) = i - 1]
  BY DEF InOrder, N, rank
<1>9. ASSUME NEW i \in 1 .. N PROVE q[i] \in S /\ rank(q[i]) = i - 1
  BY <1>7, <1>8
<1>10. q \in Seq(S) /\ Len(q) = N
  BY <1>1, <1>8, <1>9
<1> HIDE DEF q
<1>11. ASSUME NEW x \in S PROVE \E i \in 1 .. N : q[i] = x
  <2>1. rank(x) + 1 \in 1 .. N /\ (rank(x) + 1) - 1 = rank(x)
    BY <1>1
  <2>2. q[rank(x) + 1] = x
    BY <1>3, <1>9, <2>1
  <2> QED
    BY <2>1, <2>2
<1>12. ASSUME NEW i \in 1 .. N, NEW j \in 1 .. N PROVE Earlier(q[i], q[j]) <=> i < j
  <2>1. /\ q[i] \in S /\ q[j] \in S /\ rank(q[i]) = i - 1 /\ rank(q[j]) = j - 1
        /\ i \in Nat /\ j \in Nat
    BY <1>9
  <2>2. ASSUME Earlier(q[i], q[j]) PROVE i < j
    <3>1. rank(q[i]) < rank(q[j])
      BY <1>2, <2>1, <2>2
    <3> QED
      BY <2>1, <3>1
  <2>3. ASSUME i < j PROVE Earlier(q[i], q[j])
    <3>1. q[i] # q[j]
      BY <2>1, <2>3
    <3>2. CASE Earlier(q[j], q[i])
      <4>1. rank(q[j]) < rank(q[i])
        BY <1>2, <2>1, <3>2
      <4> QED
        BY <2>1, <2>3, <4>1
    <3> QED
      BY <2>1, <3>1, <3>2 DEF InLine
  <2> QED
    BY <2>2, <2>3
<1> QED
  BY <1>10, <1>11, <1>12 DEF Sorted, q, N

-----------------------------------------------------------------------------
(* Folds *)

\* The fold of n steps: F[i] is what step i does with a state.  It is over sets of places,
\* of which the last is taken off.
FoldOf(h, n, F, St, base) ==
  /\ h \in [SUBSET (1 .. n) -> St]
  /\ \A s \in SUBSET (1 .. n) : h[s] = IF s = {} THEN base ELSE F[Max(s)][h[s \ {Max(s)}]]

LEMMA FoldExists ==
  ASSUME NEW St, NEW base \in St, NEW N \in Nat, NEW F \in [1 .. N -> [St -> St]]
  PROVE  \E h : FoldOf(h, N, F, St, base)
<1> DEFINE Folds(n, h) == FoldOf(h, n, F, St, base)
           Bad == {n \in 0 .. N : ~\E h : Folds(n, h)}
<1>1. \E h : Folds(0, h)
  <2>1. 1 .. 0 = {} /\ SUBSET {} = {{}}
    OBVIOUS
  <2> DEFINE h == [s \in {{}} |-> base]
  <2>2. Folds(0, h)
    BY <2>1 DEF FoldOf
  <2> QED
    BY <2>2
<1>2. ASSUME NEW n \in 0 .. N, n + 1 \in 0 .. N, NEW g, Folds(n, g) PROVE \E h : Folds(n + 1, h)
  <2> DEFINE h == [s \in SUBSET (1 .. n + 1) |->
                     IF n + 1 \in s THEN F[n + 1][g[s \ {n + 1}]] ELSE g[s]]
  <2>0. \A k \in 1 .. n + 1 : k # n + 1 => k \in 1 .. n
    OBVIOUS
  <2>1. \A s \in SUBSET (1 .. n + 1) : s \ {n + 1} \in SUBSET (1 .. n)
    BY <2>0
  <2>2. \A s \in SUBSET (1 .. n + 1) : n + 1 \notin s => s \in SUBSET (1 .. n)
    BY <2>0
  <2>3. \A s \in SUBSET (1 .. n) : g[s] \in St
    BY <1>2 DEF FoldOf
  <2>4. n + 1 \in 1 .. N
    BY <1>2
  <2>5. F[n + 1] \in [St -> St]
    BY <2>4
  <2>6. h \in [SUBSET (1 .. n + 1) -> St]
    BY <2>1, <2>2, <2>3, <2>5
  <2>7. ASSUME NEW s \in SUBSET (1 .. n + 1)
        PROVE  h[s] = IF s = {} THEN base ELSE F[Max(s)][h[s \ {Max(s)}]]
    <3>1. CASE n + 1 \in s
      <4>1. Max(s) = n + 1
        <5>1. n + 1 \in s /\ \A y \in s : n + 1 >= y /\ y \in Int
          BY <3>1
        <5>2. \A x \in s : (\A y \in s : x >= y) => x = n + 1
          BY <5>1
        <5> HIDE DEF h
        <5> QED
          BY <5>1, <5>2 DEF Max
      <4>2. n + 1 \notin s \ {n + 1} /\ s \ {n + 1} \in SUBSET (1 .. n + 1)
        OBVIOUS
      <4>3. h[s \ {n + 1}] = g[s \ {n + 1}]
        BY <4>2
      <4>4. h[s] = F[n + 1][g[s \ {n + 1}]]
        BY <3>1
      <4> HIDE DEF h
      <4> QED
        BY <3>1, <4>1, <4>3, <4>4
    <3>2. CASE n + 1 \notin s /\ s # {}
      <4>1. s \in SUBSET (1 .. n) /\ s \subseteq 0 .. n /\ n \in Nat
        BY <2>2, <3>2
      <4>2. PICK k \in s : \A m \in s : m <= k
        BY <3>2, <4>1, HighestExists
      <4>3. Max(s) \in s
        <5>1. \A m \in s : k >= m
          BY <4>1, <4>2
        <5> QED
          BY <4>2, <5>1 DEF Max
      <4>4. s \ {Max(s)} \in SUBSET (1 .. n) /\ s \ {Max(s)} \in SUBSET (1 .. n + 1)
              /\ n + 1 \notin s \ {Max(s)}
        BY <3>2, <4>1
      <4>5. h[s \ {Max(s)}] = g[s \ {Max(s)}] /\ h[s] = g[s]
        BY <3>2, <4>4
      <4>6. g[s] = F[Max(s)][g[s \ {Max(s)}]]
        BY <1>2, <3>2, <4>1 DEF FoldOf
      <4> HIDE DEF h
      <4> QED
        BY <3>2, <4>5, <4>6
    <3>3. CASE s = {}
      <4>1. n + 1 \notin {} /\ {} \in SUBSET (1 .. n + 1) /\ {} \in SUBSET (1 .. n)
        OBVIOUS
      <4>2. h[{}] = g[{}]
        BY <4>1
      <4>3. g[{}] = base
        BY <1>2, <4>1 DEF FoldOf
      <4> HIDE DEF h
      <4> QED
        BY <3>3, <4>2, <4>3
    <3> QED
      BY <3>1, <3>2, <3>3
  <2> HIDE DEF h
  <2>8. Folds(n + 1, h)
    BY <2>6, <2>7 DEF FoldOf
  <2> QED
    BY <2>8
<1> HIDE DEF Folds
<1>3. ASSUME Bad # {} PROVE FALSE
  <2>1. Bad \subseteq Nat
    OBVIOUS
  <2>2. PICK m \in Bad : \A k \in Bad : ~ (<<k, m>> \in OpToRel(<, Nat))
    BY <1>3, <2>1, NatLessThanWellFounded, WFMin
  <2>3. m # 0
    BY <1>1
  <2>4. m - 1 \in 0 .. N /\ m - 1 < m /\ (m - 1) + 1 = m /\ m \in 0 .. N /\ m - 1 \in Nat /\ m \in Nat
    BY <2>3
  <2>5. m - 1 \notin Bad
    BY <2>2, <2>4 DEF OpToRel
  <2>6. \E g : Folds(m - 1, g)
    BY <2>4, <2>5
  <2> QED
    BY <1>2, <2>4, <2>6
<1>4. \E h : Folds(N, h)
  BY <1>3
<1> QED
  BY <1>4 DEF Folds

\* What holds before the first step, and after a step if before it, holds all along.
LEMMA UpTo ==
  ASSUME NEW N \in Nat, NEW T, 0 \in T, \A i \in 1 .. N : i - 1 \in T => i \in T
  PROVE  \A i \in 0 .. N : i \in T
<1> DEFINE Bad == {i \in 0 .. N : i \notin T}
<1>1. ASSUME Bad # {} PROVE FALSE
  <2>1. Bad \subseteq Nat
    OBVIOUS
  <2>2. PICK m \in Bad : \A k \in Bad : ~ (<<k, m>> \in OpToRel(<, Nat))
    BY <1>1, <2>1, NatLessThanWellFounded, WFMin
  <2>3. m \in 1 .. N /\ m - 1 \in 0 .. N /\ m - 1 < m /\ m \notin T /\ m \in Nat /\ m - 1 \in Nat
    OBVIOUS
  <2>4. m - 1 \in T
    BY <2>2, <2>3 DEF OpToRel
  <2> QED
    BY <2>3, <2>4
<1> QED
  BY <1>1

LEMMA MaxOfPlaces ==
  ASSUME NEW N \in Nat
  PROVE  /\ \A s \in SUBSET (1 .. N) : s # {} =>
              Max(s) \in s /\ Max(s) \in 1 .. N /\ s \ {Max(s)} \in SUBSET (1 .. N)
         /\ \A i \in 1 .. N : /\ 1 .. i \in SUBSET (1 .. N) /\ 1 .. i # {} /\ Max(1 .. i) = i
                              /\ (1 .. i) \ {i} = 1 .. (i - 1)
<1>1. ASSUME NEW s \in SUBSET (1 .. N), s # {}
      PROVE  Max(s) \in s
  <2>1. s \in SUBSET (0 .. N)
    OBVIOUS
  <2>2. PICK k \in s : \A m \in s : m <= k
    BY <1>1, <2>1, HighestExists
  <2>3. \A m \in s : k >= m
    BY <2>1, <2>2
  <2> QED
    BY <2>2, <2>3 DEF Max
<1>2. ASSUME NEW i \in 1 .. N PROVE Max(1 .. i) = i
  <2>1. i \in 1 .. i /\ \A y \in 1 .. i : i >= y
    OBVIOUS
  <2>2. \A x \in 1 .. i : (\A y \in 1 .. i : x >= y) => x = i
    BY <2>1
  <2> QED
    BY <2>1, <2>2 DEF Max
<1>3. \A i \in 1 .. N : 1 .. i \in SUBSET (1 .. N) /\ 1 .. i # {} /\ (1 .. i) \ {i} = 1 .. (i - 1)
  OBVIOUS
<1> QED
  BY <1>1, <1>2, <1>3

\* What a fold over all places comes to, from place to place.
FoldsBy(f, n, F, St, base) ==
  /\ f[{}] = base
  /\ \A s \in SUBSET (1 .. n) : s # {} /\ f[s \ {Max(s)}] \in St => f[s] = F[Max(s)][f[s \ {Max(s)}]]
StepsOf(A, n, F, St, base) ==
  A \in [0 .. n -> St] /\ A[0] = base /\ \A i \in 1 .. n : A[i] = F[i][A[i - 1]]

LEMMA FoldSteps ==
  ASSUME NEW St, NEW base \in St, NEW N \in Nat, NEW F \in [1 .. N -> [St -> St]],
         NEW f, FoldsBy(f, N, F, St, base)
  PROVE  \E A : StepsOf(A, N, F, St, base) /\ A[N] = f[1 .. N]
<1> DEFINE T == {i \in 0 .. N : f[1 .. i] \in St}
           A == [i \in 0 .. N |-> f[1 .. i]]
<1>1. 1 .. 0 = {} /\ 0 \in 0 .. N /\ N \in 0 .. N
  OBVIOUS
<1>2. ASSUME NEW i \in 1 .. N, f[1 .. (i - 1)] \in St
      PROVE  f[1 .. i] = F[i][f[1 .. (i - 1)]] /\ f[1 .. i] \in St
  <2>1. 1 .. i \in SUBSET (1 .. N) /\ 1 .. i # {} /\ Max(1 .. i) = i /\ (1 .. i) \ {i} = 1 .. (i - 1)
    BY MaxOfPlaces
  <2>2. f[1 .. i] = F[i][f[1 .. (i - 1)]]
    BY <1>2, <2>1 DEF FoldsBy
  <2> QED
    BY <1>2, <2>2
<1>3. \A i \in 0 .. N : f[1 .. i] \in St
  <2>1. 0 \in T
    BY <1>1 DEF FoldsBy
  <2>2. \A i \in 1 .. N : i - 1 \in T => i \in T
    BY <1>2
  <2> HIDE DEF T
  <2>3. \A i \in 0 .. N : i \in T
    BY <2>1, <2>2, UpTo
  <2> QED
    BY <2>3 DEF T
<1>4. \A i \in 1 .. N : i \in 0 .. N /\ i - 1 \in 0 .. N
  OBVIOUS
<1>5. A \in [0 .. N -> St] /\ A[0] = base /\ A[N] = f[1 .. N]
  BY <1>1, <1>3 DEF FoldsBy
<1>6. \A i \in 1 .. N : A[i] = F[i][A[i - 1]]
  BY <1>2, <1>3, <1>4
<1> QED
  BY <1>5, <1>6 DEF StepsOf

-----------------------------------------------------------------------------
(* The board, step by step *)

Saying == [event : Sayings, n : QuadNumbers]
BoardSaying == {x \in Saying : x.event.board = Channel}
BoardStates ==
  [board : {NoEvent, Channel}, status : {"none", "active", "closed"}, restricted : {TRUE} \cup {e.restricted : e \in Sayings},
   members : SUBSET {e.member : e \in Sayings}, posts : Seq(Sayings)]

\* What one event does to each part of the board.
Counts(s, x) == ValidEvent(x.event) /\ x.event.kind = "post" /\ Accepts(s, x.event)
Does(s, x, t) ==
  /\ t.board \in {NoEvent, Channel}
  /\ t.status = IF ValidEvent(x.event) /\ x.event.kind \in {"created", "active"} THEN "active"
                ELSE IF ValidEvent(x.event) /\ x.event.kind = "closed" THEN "closed" ELSE s.status
  /\ t.restricted = IF ValidEvent(x.event) /\ x.event.kind = "flags" THEN x.event.restricted ELSE s.restricted
  /\ t.members = IF ValidEvent(x.event) /\ x.event.kind = "admitted" THEN s.members \cup {x.event.member}
                 ELSE IF ValidEvent(x.event) /\ x.event.kind = "removed" THEN s.members \ {x.event.member}
                 ELSE s.members
  /\ t.posts = IF Counts(s, x) THEN Append(s.posts, x.event) ELSE s.posts

LEMMA ApplyDoes ==
  ASSUME NEW s \in BoardStates, NEW x, x.event \in Sayings, x.event.board = Channel
  PROVE  Apply(s, x) \in BoardStates /\ Does(s, x, Apply(s, x))
<1> DEFINE e == x.event
           t == Apply(s, x)
<1>1. /\ s.board \in {NoEvent, Channel} /\ e.board = Channel
      /\ s.status \in {"none", "active", "closed"} /\ s.members \subseteq {d.member : d \in Sayings}
      /\ s.posts \in Seq(Sayings) /\ e.member \in {d.member : d \in Sayings}
      /\ e.restricted \in {TRUE} \cup {d.restricted : d \in Sayings}
  BY DEF BoardStates
<1>2. CASE ~ValidEvent(e)
  <2>1. t = s
    BY <1>2 DEF Apply
  <2> QED
    BY <1>1, <1>2, <2>1 DEF Does, Counts
<1>3. CASE ValidEvent(e) /\ e.kind = "created"
  <2>1. t = [s EXCEPT !.board = Channel, !.status = "active"]
    BY <1>1, <1>3 DEF Apply
  <2> QED
    BY <1>1, <1>3, <2>1 DEF Does, Counts, BoardStates
<1>10. CASE ValidEvent(e) /\ e.kind = "active"
  <2>1. t = [s EXCEPT !.status = "active"]
    BY <1>10 DEF Apply
  <2> QED
    BY <1>1, <1>10, <2>1 DEF Does, Counts, BoardStates
<1>4. CASE ValidEvent(e) /\ e.kind = "closed"
  <2>1. t = [s EXCEPT !.status = "closed"]
    BY <1>4 DEF Apply
  <2> QED
    BY <1>1, <1>4, <2>1 DEF Does, Counts, BoardStates
<1>5. CASE ValidEvent(e) /\ e.kind = "flags"
  <2>1. t = [s EXCEPT !.restricted = e.restricted]
    BY <1>5 DEF Apply
  <2> QED
    BY <1>1, <1>5, <2>1 DEF Does, Counts, BoardStates
<1>6. CASE ValidEvent(e) /\ e.kind = "admitted"
  <2>1. t = [s EXCEPT !.members = @ \cup {e.member}]
    BY <1>6 DEF Apply
  <2>2. s.members \cup {e.member} \subseteq {d.member : d \in Sayings}
    BY <1>1
  <2> QED
    BY <1>1, <1>6, <2>1, <2>2 DEF Does, Counts, BoardStates
<1>7. CASE ValidEvent(e) /\ e.kind = "removed"
  <2>1. t = [s EXCEPT !.members = @ \ {e.member}]
    BY <1>7 DEF Apply
  <2>2. s.members \ {e.member} \subseteq {d.member : d \in Sayings}
    BY <1>1
  <2> QED
    BY <1>1, <1>7, <2>1, <2>2 DEF Does, Counts, BoardStates
<1>8. CASE ValidEvent(e) /\ e.kind = "post" /\ Accepts(s, e)
  <2>1. t = [s EXCEPT !.posts = Append(@, e)]
    BY <1>8 DEF Apply
  <2>2. Append(s.posts, e) \in Seq(Sayings)
    BY <1>1
  <2> QED
    BY <1>1, <1>8, <2>1, <2>2 DEF Does, Counts, BoardStates
<1>9. CASE /\ ValidEvent(e) /\ e.kind \notin {"created", "active", "closed", "flags", "admitted", "removed"}
           /\ ~(e.kind = "post" /\ Accepts(s, e))
  <2>1. t = s
    BY <1>9 DEF Apply
  <2> QED
    BY <1>1, <1>9, <2>1 DEF Does, Counts
<1> QED
  BY <1>2, <1>3, <1>10, <1>4, <1>5, <1>6, <1>7, <1>8, <1>9

\* The board after each event; the last is what the fold is.
BoardSteps(q, B) ==
  /\ B \in [0 .. Len(q) -> BoardStates]
  /\ B[0] = EmptyBoard
  /\ \A i \in 1 .. Len(q) : B[i] = Apply(B[i - 1], q[i])

LEMMA EmptyBoardIs == EmptyBoard \in BoardStates
<1>1. <<>> \in Seq(Sayings) /\ {} \in SUBSET {e.member : e \in Sayings}
  OBVIOUS
<1>2. TRUE \in {TRUE} \cup {e.restricted : e \in Sayings}
  OBVIOUS
<1> QED
  BY <1>1, <1>2 DEF EmptyBoard, BoardStates

LEMMA BoardFolds ==
  ASSUME NEW q \in Seq(BoardSaying)
  PROVE  \E B : BoardSteps(q, B) /\ FoldLeft(Apply, EmptyBoard, q) = B[Len(q)]
<1> DEFINE N == Len(q)
           F == [i \in 1 .. N |-> [s \in BoardStates |-> Apply(s, q[i])]]
           IsFold(f) == f = [s \in SUBSET (DOMAIN q) |->
                               IF s = {} THEN EmptyBoard ELSE Apply(f[s \ {Max(s)}], q[Max(s)])]
           fold == CHOOSE f : IsFold(f)
<1>1. N \in Nat /\ DOMAIN q = 1 .. N /\ \A i \in 1 .. N : q[i].event \in Sayings /\ q[i].event.board = Channel
  <2>1. N \in Nat /\ DOMAIN q = 1 .. N /\ \A i \in 1 .. N : q[i] \in BoardSaying
    OBVIOUS
  <2>2. \A x \in BoardSaying : x.event \in Sayings /\ x.event.board = Channel
    BY DEF Saying, BoardSaying
  <2> QED
    BY <2>1, <2>2
<1>2. \A i \in 1 .. N : \A s \in BoardStates : Apply(s, q[i]) \in BoardStates
  BY <1>1, ApplyDoes
<1>3. F \in [1 .. N -> [BoardStates -> BoardStates]]
  BY <1>2
<1>4. \A i \in 1 .. N : \A s \in BoardStates : F[i][s] = Apply(s, q[i])
  OBVIOUS
<1> HIDE DEF N, F
<1>5. PICK h : FoldOf(h, N, F, BoardStates, EmptyBoard)
  <2>1. N \in Nat
    BY <1>1
  <2>2. EmptyBoard \in BoardStates
    BY EmptyBoardIs
  <2> QED
    BY <1>3, <2>1, <2>2, FoldExists
<1>6. IsFold(h)
  <2>1. ASSUME NEW s \in SUBSET (1 .. N), s # {}
        PROVE  h[s] = Apply(h[s \ {Max(s)}], q[Max(s)])
    <3>1. Max(s) \in 1 .. N /\ s \ {Max(s)} \in SUBSET (1 .. N)
      BY <1>1, <2>1, MaxOfPlaces
    <3>2. h[s \ {Max(s)}] \in BoardStates
      BY <1>5, <3>1 DEF FoldOf
    <3> QED
      BY <1>4, <1>5, <2>1, <3>1, <3>2 DEF FoldOf
  <2>2. h[{}] = EmptyBoard
    BY <1>5 DEF FoldOf
  <2>3. h = [s \in SUBSET (DOMAIN q) |-> h[s]]
    BY <1>1, <1>5 DEF FoldOf
  <2> QED
    BY <1>1, <2>1, <2>2, <2>3
<1>7. IsFold(fold)
  BY <1>6
<1>8. FoldLeft(Apply, EmptyBoard, q) = fold[DOMAIN q]
  BY DEF FoldLeft, MapThenFoldSet
<1> HIDE DEF fold
<1>9. FoldsBy(fold, N, F, BoardStates, EmptyBoard)
  <2>1. fold[{}] = EmptyBoard
    BY <1>7
  <2>2. \A s \in SUBSET (1 .. N) : s # {} /\ fold[s \ {Max(s)}] \in BoardStates =>
          fold[s] = F[Max(s)][fold[s \ {Max(s)}]]
    <3> TAKE s \in SUBSET (1 .. N)
    <3> HAVE s # {} /\ fold[s \ {Max(s)}] \in BoardStates
    <3>1. fold[s] = Apply(fold[s \ {Max(s)}], q[Max(s)])
      BY <1>1, <1>7
    <3>2. Max(s) \in 1 .. N
      BY <1>1, MaxOfPlaces
    <3> QED
      BY <1>4, <3>1, <3>2
  <2> HIDE DEF IsFold
  <2> QED
    BY <2>1, <2>2 DEF FoldsBy
<1>10. PICK B : StepsOf(B, N, F, BoardStates, EmptyBoard) /\ B[N] = fold[1 .. N]
  <2>1. N \in Nat /\ EmptyBoard \in BoardStates
    BY <1>1, EmptyBoardIs
  <2> HIDE DEF IsFold
  <2> QED
    BY <1>3, <1>9, <2>1, FoldSteps
<1>11. \A i \in 1 .. N : B[i] = Apply(B[i - 1], q[i])
  <2>1. \A i \in 1 .. N : i - 1 \in 0 .. N
    BY <1>1
  <2> QED
    BY <1>4, <1>10, <2>1 DEF StepsOf
<1> QED
  BY <1>1, <1>8, <1>10, <1>11 DEF BoardSteps, StepsOf, N

-----------------------------------------------------------------------------
(* What is read *)

\* A lab says under its own name only.
OwnWords ==
  /\ \A l \in Lab, n \in QuadNumbers : quads[l][n] # NoQuad => quads[l][n].event.lab = l
  /\ \A l \in Lab : preparing[l] # BoardIdle => preparing[l].event.lab = l

LEMMA OwnFirst == BoardInit => OwnWords
BY DEF BoardInit, OwnWords

\* A quad of l's own is put, or nothing is.
LEMMA OwnPut ==
  ASSUME PostInv, OwnWords, NEW l \in Lab, NEW n \in QuadNumbers, NEW e \in Sayings, e.lab = l,
         NEW files \in {"part", "whole"}, quads' = [quads EXCEPT ![l][n] = [event |-> e, files |-> files]],
         \A k \in Lab : preparing'[k] # BoardIdle => preparing'[k].event.lab = k
  PROVE  OwnWords'
<1>1. PICK x : x = [event |-> e, files |-> files]
  OBVIOUS
<1>2. x \in QuadSet /\ x.event = e
  <2>1. e \in EventOr
    BY DEF EventOr
  <2> QED
    BY <1>1, <2>1 DEF QuadSet
<1>3. PutQuad(l, n, x)
  BY <1>1 DEF PutQuad
<1>4. quads'[l][n] = x /\ \A k \in Lab, m \in QuadNumbers : k # l \/ m # n => quads'[k][m] = quads[k][m]
  BY <1>2, <1>3, QuadPut DEF PostInv
<1>5. ASSUME NEW k \in Lab, NEW m \in QuadNumbers, quads'[k][m] # NoQuad
      PROVE  quads'[k][m].event.lab = k
  <2>1. CASE k = l /\ m = n
    BY <1>2, <1>4, <2>1
  <2>2. CASE k # l \/ m # n
    BY <1>4, <1>5, <2>2 DEF OwnWords
  <2> QED
    BY <2>1, <2>2
<1> QED
  BY <1>5 DEF OwnWords

LEMMA OwnPrepareStep ==
  ASSUME PostInv, OwnWords, NEW l \in Lab, PrepareStep(l)
  PROVE  OwnWords'
<1>0. PICK n, e, pc : n = preparing[l].n /\ e = preparing[l].event /\ pc = preparing[l].pc
  OBVIOUS
<1>1. preparing[l] # BoardIdle
  BY DEF PrepareStep
<1>2. n \in QuadNumbers /\ e \in Sayings /\ e.lab = l
  BY <1>0, <1>1, PreparingIs DEF PostInv, OwnWords
<1>3. ASSUME NEW q \in {"envelope", "record"}, preparing' = [preparing EXCEPT ![l].pc = q]
      PROVE  \A k \in Lab : preparing'[k] # BoardIdle => preparing'[k].event.lab = k
  <2>1. /\ preparing'[l].event = preparing[l].event
        /\ \A k \in Lab : k # l => preparing'[k] = preparing[k]
    BY <1>1, <1>3, PreparingMoves DEF PostInv
  <2> QED
    BY <1>1, <2>1 DEF OwnWords
<1>4. CASE pc = "export"
  <2>1. /\ quads' = [quads EXCEPT ![l][n] = [event |-> e, files |-> "part"]]
        /\ preparing' = [preparing EXCEPT ![l].pc = "envelope"]
    BY <1>0, <1>4 DEF PrepareStep
  <2> QED
    BY <1>2, <1>3, <2>1, OwnPut
<1>5. CASE pc = "envelope"
  <2>1. /\ quads' = [quads EXCEPT ![l][n] = [event |-> e, files |-> "whole"]]
        /\ preparing' = [preparing EXCEPT ![l].pc = "record"]
    BY <1>0, <1>5 DEF PrepareStep
  <2> QED
    BY <1>2, <1>3, <2>1, OwnPut
<1>6. CASE pc \notin {"export", "envelope"}
  <2>1. quads' = quads /\ preparing' = [preparing EXCEPT ![l] = BoardIdle]
    BY <1>0, <1>6 DEF PrepareStep
  <2>2. \A k \in Lab : preparing'[k] = IF k = l THEN BoardIdle ELSE preparing[k]
    BY <2>1 DEF PostInv, PostTypes
  <2> QED
    BY <2>1, <2>2 DEF OwnWords
<1> QED
  BY <1>4, <1>5, <1>6

LEMMA OwnRaw ==
  ASSUME PostInv, OwnWords, NEW l \in Lab, NEW e \in Sayings, RawPost(l, e)
  PROVE  OwnWords'
<1>0. PICK n : n = NextQuad(l)
  OBVIOUS
<1>1. /\ preparing' = preparing /\ e.lab = l
      /\ quads' = [quads EXCEPT ![l][n] = [event |-> e, files |-> "whole"]]
  BY <1>0 DEF RawPost
<1>2. n \in QuadNumbers
  BY <1>0, NextIsFree DEF RawPost
<1>3. \A k \in Lab : preparing'[k] # BoardIdle => preparing'[k].event.lab = k
  BY <1>1 DEF OwnWords
<1> QED
  BY <1>1, <1>2, <1>3, OwnPut

LEMMA OwnAside ==
  ASSUME OwnWords, quads' = quads, preparing' = preparing
  PROVE  OwnWords'
BY DEF OwnWords

LEMMA OwnNext ==
  ASSUME PostInv, OwnWords, [BoardNext]_boardAll
  PROVE  OwnWords'
<1>1. ASSUME NEW l \in Lab, NEW e \in Prepared, Prepare(l, e) PROVE OwnWords'
  <2>1. PICK n : n = NextQuad(l)
    OBVIOUS
  <2>2. PICK x : x = [pc |-> "export", event |-> e, n |-> n]
    OBVIOUS
  <2>3. quads' = quads /\ e.lab = l /\ (preparing' = [preparing EXCEPT ![l] = BoardIdle] \/ preparing' = [preparing EXCEPT ![l] = x])
    BY <1>1, <2>1, <2>2 DEF Prepare
  <2>4. x.event = e
    BY <2>2
  <2>5. \A k \in Lab : preparing'[k] = IF k = l THEN preparing'[l] ELSE preparing[k]
    BY <2>3 DEF PostInv, PostTypes
  <2>6. preparing'[l] = BoardIdle \/ preparing'[l] = x
    BY <2>3 DEF PostInv, PostTypes
  <2> QED
    BY <2>3, <2>4, <2>5, <2>6 DEF OwnWords
<1>2. ASSUME NEW l \in Lab, PrepareEnds(l) PROVE OwnWords'
  <2>1. quads' = quads /\ preparing' = [preparing EXCEPT ![l] = BoardIdle]
    BY <1>2 DEF PrepareEnds
  <2>2. \A k \in Lab : preparing'[k] = IF k = l THEN BoardIdle ELSE preparing[k]
    BY <2>1 DEF PostInv, PostTypes
  <2> QED
    BY <2>1, <2>2 DEF OwnWords
<1>3. ASSUME NEW l \in Lab,
             PullDoor(l) \/ \E n \in QuadNumbers : ShelfDamage(l, n) \/ \E p \in Pusher : PushRead(p, l, n)
      PROVE  quads' = quads /\ preparing' = preparing
  BY <1>3 DEF PullDoor, ShelfDamage, PushRead
<1>4. ASSUME NEW p \in Pusher, PushSend(p) \/ PushSave(p) PROVE quads' = quads /\ preparing' = preparing
  BY <1>4 DEF PushSend, PushSave
<1>5. ASSUME RoundStarts \/ RoundEnds \/ RoundCut PROVE quads' = quads /\ preparing' = preparing
  BY <1>5 DEF RoundStarts, RoundEnds, RoundCut
<1>6. ASSUME UNCHANGED boardAll PROVE quads' = quads /\ preparing' = preparing
  BY <1>6 DEF boardAll, boardVars
<1> QED
  BY <1>1, <1>2, <1>3, <1>4, <1>5, <1>6, OwnAside, OwnPrepareStep, OwnRaw DEF BoardNext

\* What is read is what labs said, it is finite, and it is in one order.
LEMMA LoadedWell ==
  ASSUME PostInv, RoundInv, OwnWords
  PROVE  Loaded \in SUBSET Saying /\ IsFiniteSet(Loaded) /\ InLine(Loaded)
<1> DEFINE P == {q \in Lab \X QuadNumbers : shelf[q[1]][q[2]] = "whole"}
           letter(ln) == [event |-> wall[ln[1]][ln[2]], n |-> ln[2]]
<1>1. ASSUME NEW l \in Lab, NEW n \in QuadNumbers, shelf[l][n] = "whole"
      PROVE  wall[l][n] \in Sayings /\ wall[l][n].lab = l
  <2>1. n \in There(shelf[l])
    BY <1>1 DEF There
  <2>2. wall[l][n] # NoEvent
    BY <2>1 DEF RoundInv, DoorOrder
  <2>3. wall[l][n] = quads[l][n].event
    BY <2>2 DEF PostInv, OneEvent
  <2>4. quads[l][n] # NoQuad
    BY <2>2, <2>3 DEF NoQuad
  <2>5. quads[l][n].event \in Sayings
    BY <2>4 DEF PostInv, OneEvent
  <2> QED
    BY <2>3, <2>4, <2>5 DEF OwnWords
<1>2. Loaded = {letter(ln) : ln \in P}
  BY DEF Loaded
<1>3. ASSUME NEW x \in Loaded
      PROVE  \E l \in Lab, n \in QuadNumbers :
               /\ x = [event |-> wall[l][n], n |-> n] /\ wall[l][n] \in Sayings /\ wall[l][n].lab = l
  <2>1. PICK ln \in P : x = letter(ln)
    BY <1>2
  <2>2. ln[1] \in Lab /\ ln[2] \in QuadNumbers /\ shelf[ln[1]][ln[2]] = "whole"
    OBVIOUS
  <2> QED
    BY <1>1, <2>1, <2>2
<1>4. Loaded \in SUBSET Saying
  <2>1. ASSUME NEW x \in Loaded PROVE x \in Saying
    <3>1. PICK l \in Lab, n \in QuadNumbers : x = [event |-> wall[l][n], n |-> n] /\ wall[l][n] \in Sayings
      BY <1>3
    <3> QED
      BY <3>1 DEF Saying
  <2> QED
    BY <2>1
<1>5. IsFiniteSet(Loaded)
  <2>1. IsFiniteSet(QuadNumbers)
    BY BoardAssumption, FS_Interval DEF QuadNumbers
  <2>2. IsFiniteSet(Lab \X QuadNumbers)
    BY <2>1, BoardAssumption, FS_Product
  <2>3. IsFiniteSet(P)
    <3>1. P \in SUBSET (Lab \X QuadNumbers)
      OBVIOUS
    <3> QED
      BY <2>2, <3>1, FS_Subset
  <2>4. [ln \in P |-> letter(ln)] \in Surjection(P, Loaded)
    BY <1>2 DEF Surjection
  <2> HIDE DEF P, letter
  <2> QED
    BY <2>3, <2>4, FS_Surjection
<1>6. \A x \in Loaded : x.event.at \in Nat /\ x.event.lab \in Nat /\ x.n \in Nat
  <2> TAKE x \in Loaded
  <2>1. PICK l \in Lab, n \in QuadNumbers :
          x = [event |-> wall[l][n], n |-> n] /\ wall[l][n] \in Sayings /\ wall[l][n].lab = l
    BY <1>3
  <2> QED
    BY <2>1, BoardAssumption DEF QuadNumbers
<1>7. \A x, y \in Loaded : x.event.lab = y.event.lab /\ x.n = y.n => x = y
  <2> TAKE x, y \in Loaded
  <2>1. PICK l \in Lab, n \in QuadNumbers : x = [event |-> wall[l][n], n |-> n] /\ wall[l][n].lab = l
    BY <1>3
  <2>2. PICK k \in Lab, m \in QuadNumbers : y = [event |-> wall[k][m], n |-> m] /\ wall[k][m].lab = k
    BY <1>3
  <2> QED
    BY <2>1, <2>2
<1> HIDE DEF P, letter
<1>8. InLine(Loaded)
  <2>1. \A x \in Loaded : ~Earlier(x, x)
    BY <1>6 DEF Earlier
  <2>2. \A x, y \in Loaded : x # y => Earlier(x, y) \/ Earlier(y, x)
    BY <1>6, <1>7 DEF Earlier
  <2>3. \A x, y, z \in Loaded : Earlier(x, y) /\ Earlier(y, z) => Earlier(x, z)
    BY <1>6 DEF Earlier
  <2> QED
    BY <2>1, <2>2, <2>3 DEF InLine
<1> QED
  BY <1>4, <1>5, <1>8

\* So it is with a part of it.
LEMMA PartInLine ==
  ASSUME NEW S, NEW R \in SUBSET S, S \in SUBSET Saying, IsFiniteSet(S), InLine(S)
  PROVE  R \in SUBSET Saying /\ IsFiniteSet(R) /\ InLine(R) /\ Sorted(InOrder(R), R) /\ InOrder(R) \in Seq(Saying)
<1>1. IsFiniteSet(R) /\ InLine(R) /\ R \in SUBSET Saying
  BY FS_Subset DEF InLine
<1>2. Sorted(InOrder(R), R)
  BY <1>1, InOrderSorts
<1>3. InOrder(R) \in Seq(Saying)
  BY <1>1, <1>2 DEF Sorted
<1> QED
  BY <1>1, <1>2, <1>3

-----------------------------------------------------------------------------
(* What the last one before says *)

NoneIn(q, K, i) == \A h \in 1 .. i : q[h] \notin K
LastIn(q, K, i, j) == j \in 1 .. i /\ q[j] \in K /\ \A h \in 1 .. i : h > j => q[h] \notin K

\* v is set by the elements of K, and by nothing else.
SetBy(q, K, v, w) == \A i \in 1 .. Len(q) : v[i] = IF q[i] \in K THEN w[i] ELSE v[i - 1]

\* What is set holds until it is set again.
LEMMA HoldsUntil ==
  ASSUME NEW N \in Nat, NEW q, Len(q) = N, NEW K, NEW v, NEW w, SetBy(q, K, v, w)
  PROVE  \A i \in 0 .. N : \/ NoneIn(q, K, i) /\ v[i] = v[0]
                           \/ \E j \in 1 .. i : LastIn(q, K, i, j) /\ v[i] = w[j]
<1> DEFINE Held(i) == \/ NoneIn(q, K, i) /\ v[i] = v[0]
                      \/ \E j \in 1 .. i : LastIn(q, K, i, j) /\ v[i] = w[j]
           T == {i \in 0 .. N : Held(i)}
<1>1. 0 \in T
  BY DEF NoneIn
<1>2. ASSUME NEW i \in 1 .. N, i - 1 \in T PROVE i \in T
  <2>1. v[i] = IF q[i] \in K THEN w[i] ELSE v[i - 1]
    BY DEF SetBy
  <2>2. CASE q[i] \in K
    <3>1. LastIn(q, K, i, i) /\ v[i] = w[i] /\ i \in 1 .. i
      BY <2>1, <2>2 DEF LastIn
    <3> QED
      BY <3>1
  <2>3. CASE q[i] \notin K /\ NoneIn(q, K, i - 1) /\ v[i - 1] = v[0]
    <3>1. \A h \in 1 .. i : h \in 1 .. (i - 1) \/ h = i
      OBVIOUS
    <3>2. NoneIn(q, K, i) /\ v[i] = v[0]
      BY <2>1, <2>3, <3>1 DEF NoneIn
    <3> QED
      BY <3>2
  <2>4. ASSUME q[i] \notin K, NEW j \in 1 .. (i - 1), LastIn(q, K, i - 1, j), v[i - 1] = w[j]
        PROVE  i \in T
    <3>1. (\A h \in 1 .. i : h \in 1 .. (i - 1) \/ h = i) /\ j \in 1 .. i
      OBVIOUS
    <3>2. LastIn(q, K, i, j) /\ v[i] = w[j]
      BY <2>1, <2>4, <3>1 DEF LastIn
    <3> QED
      BY <3>1, <3>2
  <2> QED
    BY <1>2, <2>2, <2>3, <2>4
<1> HIDE DEF T
<1>3. \A i \in 0 .. N : i \in T
  BY <1>1, <1>2, UpTo
<1> QED
  BY <1>3 DEF T

LEMMA LastIsPrior ==
  ASSUME NEW S, InLine(S), NEW q, Sorted(q, S), NEW K \in SUBSET S, NEW k \in 1 .. Len(q)
  PROVE  /\ NoneIn(q, K, k - 1) => ~HasPrior(K, q[k])
         /\ \A j \in 1 .. (k - 1) : LastIn(q, K, k - 1, j) => HasPrior(K, q[k]) /\ PriorOf(K, q[k]) = q[j]
<1>1. /\ Len(q) \in Nat /\ \A i \in 1 .. Len(q) : q[i] \in S
      /\ \A x \in S : \E i \in 1 .. Len(q) : q[i] = x
      /\ \A i, j \in 1 .. Len(q) : Earlier(q[i], q[j]) <=> i < j
  BY DEF Sorted
<1>2. ASSUME NEW y \in K, Earlier(y, q[k])
      PROVE  \E i \in 1 .. (k - 1) : q[i] = y
  <2>1. PICK i \in 1 .. Len(q) : q[i] = y
    BY <1>1
  <2>2. i < k
    BY <1>1, <1>2, <2>1
  <2> QED
    BY <2>1, <2>2
<1>3. NoneIn(q, K, k - 1) => ~HasPrior(K, q[k])
  BY <1>2 DEF NoneIn, HasPrior
<1>4. ASSUME NEW j \in 1 .. (k - 1), LastIn(q, K, k - 1, j)
      PROVE  HasPrior(K, q[k]) /\ PriorOf(K, q[k]) = q[j]
  <2>1. j \in 1 .. Len(q) /\ q[j] \in K /\ Earlier(q[j], q[k])
    BY <1>1, <1>4 DEF LastIn
  <2>2. ASSUME NEW z \in K, Earlier(z, q[k]) PROVE z = q[j] \/ Earlier(z, q[j])
    <3>1. PICK i \in 1 .. (k - 1) : q[i] = z
      BY <1>2, <2>2
    <3>2. ~(i > j) /\ i \in 1 .. Len(q)
      BY <1>1, <1>4, <3>1 DEF LastIn
    <3>3. i = j \/ i < j
      BY <3>2
    <3> QED
      BY <1>1, <2>1, <3>1, <3>2, <3>3
  <2>3. HasPrior(K, q[k])
    BY <2>1, <2>2 DEF HasPrior
  <2>4. ASSUME NEW y \in K, Earlier(y, q[k]), \A z \in K : Earlier(z, q[k]) => z = y \/ Earlier(z, y)
        PROVE  y = q[j]
    <3>1. y = q[j] \/ Earlier(y, q[j])
      BY <2>2, <2>4
    <3>2. q[j] = y \/ Earlier(q[j], y)
      BY <2>1, <2>4
    <3> QED
      BY <2>1, <3>1, <3>2 DEF InLine
  <2>5. q[j] \in K /\ Earlier(q[j], q[k]) /\ \A z \in K : Earlier(z, q[k]) => z = q[j] \/ Earlier(z, q[j])
    BY <2>1, <2>2
  <2>6. PriorOf(K, q[k]) = q[j]
    BY <2>4, <2>5 DEF PriorOf
  <2> QED
    BY <2>3, <2>6
<1> QED
  BY <1>3, <1>4

\* So v says what the last element of K before q[k] has set, if there is one.
SaysPrior(q, K, v, w, k) ==
  \/ ~HasPrior(K, q[k]) /\ v[k - 1] = v[0]
  \/ /\ HasPrior(K, q[k])
     /\ \E j \in 1 .. Len(q) : q[j] \in K /\ PriorOf(K, q[k]) = q[j] /\ v[k - 1] = w[j]

LEMMA SetByPrior ==
  ASSUME NEW S, InLine(S), NEW q, Sorted(q, S), NEW K \in SUBSET S, NEW v, NEW w, SetBy(q, K, v, w),
         NEW k \in 1 .. Len(q)
  PROVE  SaysPrior(q, K, v, w, k)
<1>1. Len(q) \in Nat /\ k - 1 \in 0 .. Len(q)
  BY DEF Sorted
<1>2. \/ NoneIn(q, K, k - 1) /\ v[k - 1] = v[0]
      \/ \E j \in 1 .. (k - 1) : LastIn(q, K, k - 1, j) /\ v[k - 1] = w[j]
  BY <1>1, HoldsUntil
<1>3. CASE NoneIn(q, K, k - 1) /\ v[k - 1] = v[0]
  BY <1>3, LastIsPrior DEF SaysPrior
<1>4. ASSUME NEW j \in 1 .. (k - 1), LastIn(q, K, k - 1, j), v[k - 1] = w[j]
      PROVE  /\ HasPrior(K, q[k])
             /\ \E i \in 1 .. Len(q) : q[i] \in K /\ PriorOf(K, q[k]) = q[i] /\ v[k - 1] = w[i]
  <2>1. HasPrior(K, q[k]) /\ PriorOf(K, q[k]) = q[j]
    BY <1>4, LastIsPrior
  <2>2. j \in 1 .. Len(q) /\ q[j] \in K
    BY <1>1, <1>4 DEF LastIn
  <2> QED
    BY <1>4, <2>1, <2>2
<1> QED
  BY <1>2, <1>3, <1>4 DEF SaysPrior

-----------------------------------------------------------------------------
(* The contract of a board *)

BoardWords == {x \in Loaded : OfBoard(x.event)}

LEMMA KindsAmong ==
  ASSUME NEW kinds, kinds \subseteq BoardKinds
  PROVE  OfKinds(kinds) \in SUBSET BoardWords
BY DEF OfKinds, BoardWords, OfBoard

\* The board as the events before the k-th leave it: open, restricted, who is a member.
LEMMA OpenThen ==
  ASSUME NEW S, S = BoardWords, InLine(S), S \subseteq BoardSaying, NEW q, Sorted(q, S),
         NEW B, BoardSteps(q, B), NEW k \in 1 .. Len(q)
  PROVE  B[k - 1].status # "closed" <=> OpenAt(q[k])
<1> DEFINE K == OfKinds({"created", "active", "closed"})
           v == [i \in 0 .. Len(q) |-> B[i].status]
           w == [i \in 1 .. Len(q) |-> IF q[i].event.kind = "closed" THEN "closed" ELSE "active"]
<1>1. Len(q) \in Nat /\ \A i \in 1 .. Len(q) : q[i] \in S /\ q[i].event \in Sayings /\ q[i].event.board = Channel
  BY DEF Sorted, Saying, BoardSaying
<1>2. K \in SUBSET S
  BY KindsAmong DEF BoardKinds
<1>3. SetBy(q, K, v, w)
  <2>1. ASSUME NEW i \in 1 .. Len(q) PROVE v[i] = IF q[i] \in K THEN w[i] ELSE v[i - 1]
    <3>1. i \in 0 .. Len(q) /\ i - 1 \in 0 .. Len(q)
      BY <1>1
    <3>2. B[i - 1] \in BoardStates /\ B[i] = Apply(B[i - 1], q[i])
      BY <3>1 DEF BoardSteps
    <3>3. Does(B[i - 1], q[i], B[i])
      BY <1>1, <3>2, ApplyDoes
    <3>4. q[i] \in K <=> ValidEvent(q[i].event) /\ q[i].event.kind \in {"created", "active", "closed"}
      BY <1>1 DEF OfKinds, BoardWords
    <3> QED
      BY <3>1, <3>3, <3>4 DEF Does
  <2> QED
    BY <2>1 DEF SetBy
<1>4. v[0] = "none" /\ v[k - 1] = B[k - 1].status
  BY <1>1 DEF BoardSteps, EmptyBoard
<1>5. \A i \in 1 .. Len(q) : w[i] = IF q[i].event.kind = "closed" THEN "closed" ELSE "active"
  OBVIOUS
<1> HIDE DEF K, v, w
<1>6. \/ ~HasPrior(K, q[k]) /\ v[k - 1] = v[0]
      \/ /\ HasPrior(K, q[k])
         /\ \E j \in 1 .. Len(q) : q[j] \in K /\ PriorOf(K, q[k]) = q[j] /\ v[k - 1] = w[j]
  <2>1. SaysPrior(q, K, v, w, k)
    BY <1>2, <1>3, SetByPrior
  <2> QED
    BY <2>1 DEF SaysPrior
<1>7. OpenAt(q[k]) <=> (HasPrior(K, q[k]) => PriorOf(K, q[k]).event.kind # "closed")
  BY DEF OpenAt, K
<1> QED
  BY <1>4, <1>5, <1>6, <1>7

LEMMA RestrictedThen ==
  ASSUME NEW S, S = BoardWords, InLine(S), S \subseteq BoardSaying, NEW q, Sorted(q, S),
         NEW B, BoardSteps(q, B), NEW k \in 1 .. Len(q)
  PROVE  B[k - 1].restricted <=> RestrictedAt(q[k])
<1> DEFINE K == OfKinds({"flags"})
           v == [i \in 0 .. Len(q) |-> B[i].restricted]
           w == [i \in 1 .. Len(q) |-> q[i].event.restricted]
<1>1. Len(q) \in Nat /\ \A i \in 1 .. Len(q) : q[i] \in S /\ q[i].event \in Sayings /\ q[i].event.board = Channel
  BY DEF Sorted, Saying, BoardSaying
<1>2. K \in SUBSET S
  BY KindsAmong DEF BoardKinds
<1>3. SetBy(q, K, v, w)
  <2>1. ASSUME NEW i \in 1 .. Len(q) PROVE v[i] = IF q[i] \in K THEN w[i] ELSE v[i - 1]
    <3>1. i \in 0 .. Len(q) /\ i - 1 \in 0 .. Len(q)
      BY <1>1
    <3>2. B[i - 1] \in BoardStates /\ B[i] = Apply(B[i - 1], q[i])
      BY <3>1 DEF BoardSteps
    <3>3. Does(B[i - 1], q[i], B[i])
      BY <1>1, <3>2, ApplyDoes
    <3>4. q[i] \in K <=> ValidEvent(q[i].event) /\ q[i].event.kind = "flags"
      BY <1>1 DEF OfKinds, BoardWords
    <3> QED
      BY <3>1, <3>3, <3>4 DEF Does
  <2> QED
    BY <2>1 DEF SetBy
<1>4. v[0] = TRUE /\ v[k - 1] = B[k - 1].restricted
  BY <1>1 DEF BoardSteps, EmptyBoard
<1>5. \A i \in 1 .. Len(q) : w[i] = q[i].event.restricted
  OBVIOUS
<1> HIDE DEF K, v, w
<1>6. \/ ~HasPrior(K, q[k]) /\ v[k - 1] = v[0]
      \/ /\ HasPrior(K, q[k])
         /\ \E j \in 1 .. Len(q) : q[j] \in K /\ PriorOf(K, q[k]) = q[j] /\ v[k - 1] = w[j]
  <2>1. SaysPrior(q, K, v, w, k)
    BY <1>2, <1>3, SetByPrior
  <2> QED
    BY <2>1 DEF SaysPrior
<1>7. RestrictedAt(q[k]) <=> (HasPrior(K, q[k]) => PriorOf(K, q[k]).event.restricted)
  BY DEF RestrictedAt, K
<1>8. CASE ~HasPrior(K, q[k]) /\ v[k - 1] = v[0]
  BY <1>4, <1>7, <1>8
<1>9. CASE HasPrior(K, q[k]) /\ PriorOf(K, q[k]).event.restricted = B[k - 1].restricted
  BY <1>7, <1>9
<1> QED
  BY <1>4, <1>5, <1>6, <1>8, <1>9

LEMMA MemberThen ==
  ASSUME NEW S, S = BoardWords, InLine(S), S \subseteq BoardSaying, NEW q, Sorted(q, S),
         NEW B, BoardSteps(q, B), NEW k \in 1 .. Len(q)
  PROVE  q[k].event.member \in B[k - 1].members <=> MemberAt(q[k])
<1> DEFINE m == q[k].event.member
           K == {y \in OfKinds({"admitted", "removed"}) : y.event.member = m}
           v == [i \in 0 .. Len(q) |-> IF m \in B[i].members THEN "in" ELSE "out"]
           w == [i \in 1 .. Len(q) |-> IF q[i].event.kind = "admitted" THEN "in" ELSE "out"]
<1>1. Len(q) \in Nat /\ \A i \in 1 .. Len(q) : q[i] \in S /\ q[i].event \in Sayings /\ q[i].event.board = Channel
  BY DEF Sorted, Saying, BoardSaying
<1>2. K \in SUBSET S
  BY KindsAmong DEF BoardKinds
<1>3. SetBy(q, K, v, w)
  <2>1. ASSUME NEW i \in 1 .. Len(q) PROVE v[i] = IF q[i] \in K THEN w[i] ELSE v[i - 1]
    <3>1. i \in 0 .. Len(q) /\ i - 1 \in 0 .. Len(q)
      BY <1>1
    <3>2. B[i - 1] \in BoardStates /\ B[i] = Apply(B[i - 1], q[i])
      BY <3>1 DEF BoardSteps
    <3>3. Does(B[i - 1], q[i], B[i])
      BY <1>1, <3>2, ApplyDoes
    <3>4. q[i] \in K <=> /\ ValidEvent(q[i].event) /\ q[i].event.kind \in {"admitted", "removed"}
                         /\ q[i].event.member = m
      BY <1>1 DEF OfKinds, BoardWords
    <3>5. B[i].members = IF ValidEvent(q[i].event) /\ q[i].event.kind = "admitted"
                           THEN B[i - 1].members \cup {q[i].event.member}
                         ELSE IF ValidEvent(q[i].event) /\ q[i].event.kind = "removed"
                           THEN B[i - 1].members \ {q[i].event.member}
                         ELSE B[i - 1].members
      BY <3>3 DEF Does
    <3>6. /\ v[i] = IF m \in B[i].members THEN "in" ELSE "out"
          /\ v[i - 1] = IF m \in B[i - 1].members THEN "in" ELSE "out"
          /\ w[i] = IF q[i].event.kind = "admitted" THEN "in" ELSE "out"
      BY <3>1
    <3> HIDE DEF K, v, w, m
    <3>7. CASE q[i] \in K
      BY <3>4, <3>5, <3>6, <3>7
    <3>8. CASE q[i] \notin K
      BY <3>4, <3>5, <3>6, <3>8
    <3> QED
      BY <3>7, <3>8
  <2> QED
    BY <2>1 DEF SetBy
<1>4. v[0] = "out" /\ v[k - 1] = IF m \in B[k - 1].members THEN "in" ELSE "out"
  <2>1. B[0].members = {} /\ 0 \in 0 .. Len(q) /\ k - 1 \in 0 .. Len(q)
    BY <1>1 DEF BoardSteps, EmptyBoard
  <2> QED
    BY <2>1
<1>5. \A i \in 1 .. Len(q) : w[i] = IF q[i].event.kind = "admitted" THEN "in" ELSE "out"
  OBVIOUS
<1>6. MemberAt(q[k]) <=> HasPrior(K, q[k]) /\ PriorOf(K, q[k]).event.kind = "admitted"
  BY DEF MemberAt
<1> HIDE DEF K, v, w
<1>7. \/ ~HasPrior(K, q[k]) /\ v[k - 1] = v[0]
      \/ /\ HasPrior(K, q[k])
         /\ \E j \in 1 .. Len(q) : q[j] \in K /\ PriorOf(K, q[k]) = q[j] /\ v[k - 1] = w[j]
  <2>1. SaysPrior(q, K, v, w, k)
    BY <1>2, <1>3, SetByPrior
  <2> QED
    BY <2>1 DEF SaysPrior
<1> QED
  BY <1>4, <1>5, <1>6, <1>7

\* The posts after i events are those that count among them, in their order.
PostsOf(q, B, i) ==
  /\ ToSet(B[i].posts) = {q[j].event : j \in {h \in 1 .. i : Counts(B[h - 1], q[h])}}
  /\ \A a, b \in DOMAIN B[i].posts : a < b => B[i].posts[a].at <= B[i].posts[b].at

LEMMA InAppended ==
  ASSUME NEW X, NEW s \in Seq(X), NEW x \in X
  PROVE  ToSet(Append(s, x)) = ToSet(s) \cup {x}
<1>1. /\ Len(s) \in Nat /\ DOMAIN s = 1 .. Len(s) /\ DOMAIN Append(s, x) = 1 .. Len(s) + 1
      /\ Append(s, x)[Len(s) + 1] = x /\ \A i \in 1 .. Len(s) : Append(s, x)[i] = s[i]
  OBVIOUS
<1>2. ASSUME NEW y \in ToSet(Append(s, x)) PROVE y \in ToSet(s) \cup {x}
  <2>1. PICK i \in 1 .. Len(s) + 1 : Append(s, x)[i] = y
    BY <1>1 DEF ToSet
  <2>2. i \in 1 .. Len(s) \/ i = Len(s) + 1
    BY <1>1
  <2> QED
    BY <1>1, <2>1, <2>2 DEF ToSet
<1>3. ASSUME NEW y \in ToSet(s) \cup {x} PROVE y \in ToSet(Append(s, x))
  <2>1. CASE y = x
    <3>1. Len(s) + 1 \in 1 .. Len(s) + 1
      BY <1>1
    <3> QED
      BY <1>1, <2>1, <3>1 DEF ToSet
  <2>2. CASE y \in ToSet(s)
    <3>1. PICK i \in 1 .. Len(s) : s[i] = y
      BY <1>1, <2>2 DEF ToSet
    <3>2. i \in 1 .. Len(s) + 1
      BY <1>1
    <3> QED
      BY <1>1, <3>1, <3>2 DEF ToSet
  <2> QED
    BY <1>3, <2>1, <2>2
<1> QED
  BY <1>2, <1>3

LEMMA PostsInOrder ==
  ASSUME NEW S, S \subseteq BoardSaying, NEW q, Sorted(q, S), NEW B, BoardSteps(q, B)
  PROVE  PostsOf(q, B, Len(q))
<1> DEFINE N == Len(q)
           T == {i \in 0 .. N : PostsOf(q, B, i)}
<1>1. /\ N \in Nat
      /\ \A i \in 1 .. N : q[i].event \in Sayings /\ q[i].event.board = Channel /\ q[i].event.at \in Nat
  BY BoardAssumption DEF Sorted, Saying, BoardSaying
<1>2. 0 \in T
  <2>1. B[0].posts = <<>>
    BY DEF BoardSteps, EmptyBoard
  <2>2. ToSet(B[0].posts) = {} /\ DOMAIN B[0].posts = {}
    BY <2>1 DEF ToSet
  <2> QED
    BY <1>1, <2>2 DEF PostsOf
<1>3. ASSUME NEW i \in 1 .. N, i - 1 \in T PROVE i \in T
  <2> DEFINE p == B[i - 1].posts
             e == q[i].event
             C(n) == {h \in 1 .. n : Counts(B[h - 1], q[h])}
  <2>1. i - 1 \in 0 .. N /\ i \in 0 .. N /\ i \in Nat
    BY <1>1
  <2>2. B[i - 1] \in BoardStates /\ B[i] = Apply(B[i - 1], q[i]) /\ p \in Seq(Sayings)
    BY <2>1 DEF BoardSteps, BoardStates
  <2>3. B[i].posts = IF Counts(B[i - 1], q[i]) THEN Append(p, e) ELSE p
    <3>1. Does(B[i - 1], q[i], B[i])
      BY <1>1, <2>2, ApplyDoes
    <3> QED
      BY <3>1 DEF Does
  <2>4. /\ ToSet(p) = {q[j].event : j \in C(i - 1)}
        /\ \A a, b \in DOMAIN p : a < b => p[a].at <= p[b].at
    BY <1>3 DEF PostsOf
  <2>5. \A h \in 1 .. i : h \in 1 .. (i - 1) \/ h = i
    OBVIOUS
  <2>6. CASE ~Counts(B[i - 1], q[i])
    <3>1. C(i) = C(i - 1)
      BY <2>5, <2>6
    <3>2. B[i].posts = p
      BY <2>3, <2>6
    <3>3. PostsOf(q, B, i)
      BY <2>4, <3>1, <3>2 DEF PostsOf
    <3> QED
      BY <2>1, <3>3
  <2>7. CASE Counts(B[i - 1], q[i])
    <3>1. C(i) = C(i - 1) \cup {i}
      BY <2>5, <2>7
    <3>2. B[i].posts = Append(p, e) /\ e \in Sayings
      BY <1>1, <2>3, <2>7
    <3>3. ToSet(Append(p, e)) = ToSet(p) \cup {e}
      BY <2>2, <3>2, InAppended
    <3>4. {q[j].event : j \in C(i)} = {q[j].event : j \in C(i - 1)} \cup {e}
      BY <3>1
    <3>5. \A d \in ToSet(p) : d.at <= e.at
      <4> TAKE d \in ToSet(p)
      <4>1. PICK j \in C(i - 1) : d = q[j].event
        BY <2>4
      <4>2. j \in 1 .. N /\ j < i
        BY <1>1
      <4>3. Earlier(q[j], q[i])
        BY <4>2 DEF Sorted
      <4>4. q[j].event.at \in Nat /\ q[i].event.at \in Nat
        BY <1>1, <4>2
      <4> QED
        BY <4>1, <4>3, <4>4 DEF Earlier
    <3> HIDE DEF p, e, C
    <3>6. /\ Len(p) \in Nat /\ DOMAIN p = 1 .. Len(p) /\ DOMAIN Append(p, e) = 1 .. Len(p) + 1
          /\ Append(p, e)[Len(p) + 1] = e /\ \A a \in 1 .. Len(p) : Append(p, e)[a] = p[a]
      BY <2>2, <3>2
    <3>7. \A a, b \in 1 .. Len(p) + 1 : a < b => a \in 1 .. Len(p) /\ (b \in 1 .. Len(p) \/ b = Len(p) + 1)
      BY <3>6
    <3>8. \A a \in 1 .. Len(p) : p[a] \in ToSet(p)
      BY <3>6 DEF ToSet
    <3>9. \A a, b \in 1 .. Len(p) + 1 : a < b => Append(p, e)[a].at <= Append(p, e)[b].at
      <4> TAKE a, b \in 1 .. Len(p) + 1
      <4> HAVE a < b
      <4>1. a \in 1 .. Len(p) /\ Append(p, e)[a] = p[a]
        BY <3>6, <3>7
      <4>2. CASE b = Len(p) + 1
        BY <3>5, <3>6, <3>8, <4>1, <4>2
      <4>3. CASE b \in 1 .. Len(p)
        BY <2>4, <3>6, <4>1, <4>3
      <4> QED
        BY <3>7, <4>2, <4>3
    <3>10. PostsOf(q, B, i)
      BY <2>4, <3>2, <3>3, <3>4, <3>6, <3>9 DEF PostsOf, C
    <3> QED
      BY <2>1, <3>10
  <2> QED
    BY <2>6, <2>7
<1> HIDE DEF T
<1>4. \A i \in 0 .. N : i \in T
  BY <1>1, <1>2, <1>3, UpTo
<1>5. N \in T
  BY <1>1, <1>4
<1> QED
  BY <1>5 DEF T

LEMMA ContractFollowed ==
  ASSUME Loaded \in SUBSET Saying, IsFiniteSet(Loaded), InLine(Loaded)
  PROVE  PostsFollowContract /\ ProjectBoard.posts \in Seq(Sayings)
<1> DEFINE S == BoardWords
           q == InOrder(S)
           posts == ProjectBoard.posts
<1>1. S \in SUBSET Loaded /\ \A x \in S : x.event.board = Channel
  BY DEF BoardWords, OfBoard
<1> HIDE DEF S
<1>2. S \in SUBSET BoardSaying /\ InLine(S) /\ Sorted(q, S) /\ q \in Seq(BoardSaying)
  <2>1. S \in SUBSET Saying /\ InLine(S) /\ Sorted(q, S)
    BY <1>1, PartInLine
  <2>2. S \in SUBSET BoardSaying
    BY <1>1, <2>1 DEF BoardSaying
  <2> QED
    BY <2>1, <2>2 DEF Sorted
<1>3. ProjectBoard = FoldLeft(Apply, EmptyBoard, q)
  BY DEF ProjectBoard, LoadedBoard, S, BoardWords
<1> HIDE DEF q
<1>4. PICK B : BoardSteps(q, B) /\ FoldLeft(Apply, EmptyBoard, q) = B[Len(q)]
  BY <1>2, BoardFolds
<1>5. Len(q) \in Nat /\ \A k \in 1 .. Len(q) : q[k] \in S
  BY <1>2 DEF Sorted
<1>6. ProjectBoard = B[Len(q)] /\ B[Len(q)] \in BoardStates
  BY <1>3, <1>4, <1>5 DEF BoardSteps
<1>7. PostsOf(q, B, Len(q))
  BY <1>2, <1>4, PostsInOrder
<1>8. ASSUME NEW k \in 1 .. Len(q)
      PROVE  Counts(B[k - 1], q[k]) <=>
               q[k] \in OfKinds({"post"}) /\ OpenAt(q[k]) /\ (RestrictedAt(q[k]) => MemberAt(q[k]))
  <2>1. S = BoardWords
    BY DEF S
  <2>2. B[k - 1].status # "closed" <=> OpenAt(q[k])
    BY <1>2, <1>4, <2>1, OpenThen
  <2>3. B[k - 1].restricted <=> RestrictedAt(q[k])
    BY <1>2, <1>4, <2>1, RestrictedThen
  <2>4. q[k].event.member \in B[k - 1].members <=> MemberAt(q[k])
    BY <1>2, <1>4, <2>1, MemberThen
  <2>5. q[k] \in OfKinds({"post"}) <=> q[k].event.kind = "post" /\ ValidEvent(q[k].event)
    BY <1>1, <1>5 DEF OfKinds
  <2>6. Counts(B[k - 1], q[k]) <=>
          /\ ValidEvent(q[k].event) /\ q[k].event.kind = "post" /\ B[k - 1].status # "closed"
          /\ (B[k - 1].restricted => q[k].event.member \in B[k - 1].members)
    <3>1. B[k - 1].board \in {NoEvent, Channel} /\ q[k].event.board = Channel
      <4>1. k - 1 \in 0 .. Len(q) /\ q[k] \in BoardSaying
        BY <1>2, <1>5
      <4> QED
        BY <1>4, <4>1 DEF BoardSteps, BoardStates, BoardSaying
    <3> QED
      BY <3>1 DEF Counts, Accepts
  <2> QED
    BY <2>2, <2>3, <2>4, <2>5, <2>6
<1>9. ToSet(posts) = {x.event : x \in {y \in OfKinds({"post"}) : OpenAt(y) /\ (RestrictedAt(y) => MemberAt(y))}}
  <2> DEFINE good == {y \in OfKinds({"post"}) : OpenAt(y) /\ (RestrictedAt(y) => MemberAt(y))}
             counting == {h \in 1 .. Len(q) : Counts(B[h - 1], q[h])}
  <2>1. ToSet(posts) = {q[j].event : j \in counting}
    BY <1>6, <1>7 DEF PostsOf
  <2>2. \A j \in counting : q[j] \in good
    BY <1>8
  <2>3. ASSUME NEW y \in good PROVE \E j \in counting : q[j] = y
    <3>1. y \in S
      BY DEF S, BoardWords, OfBoard, OfKinds, BoardKinds
    <3>2. PICK j \in 1 .. Len(q) : q[j] = y
      BY <1>2, <3>1 DEF Sorted
    <3> QED
      BY <1>8, <3>2
  <2> HIDE DEF good, counting
  <2> QED
    BY <2>1, <2>2, <2>3 DEF good
<1>10. \A i, j \in DOMAIN posts : i < j => posts[i].at <= posts[j].at
  BY <1>6, <1>7 DEF PostsOf
<1> QED
  BY <1>6, <1>9, <1>10 DEF PostsFollowContract, BoardStates

-----------------------------------------------------------------------------
(* The directory, step by step *)

\* Functions on some of D.
SomeOf(D, R) == UNION {[E -> R] : E \in SUBSET D}

IsWith(g, f, a, b) == DOMAIN g = DOMAIN f \cup {a} /\ g[a] = b /\ \A c \in DOMAIN f : c # a => g[c] = f[c]

LEMMA WithIn ==
  ASSUME NEW D, NEW R, NEW f \in SomeOf(D, R), NEW a \in D, NEW b \in R
  PROVE  WithEntry(f, a, b) \in SomeOf(D, R) /\ IsWith(WithEntry(f, a, b), f, a, b)
<1>1. PICK E \in SUBSET D : f \in [E -> R]
  BY DEF SomeOf
<1>2. WithEntry(f, a, b) = [c \in E \cup {a} |-> IF c = a THEN b ELSE f[c]]
  BY <1>1 DEF WithEntry
<1>3. WithEntry(f, a, b) \in [E \cup {a} -> R] /\ E \cup {a} \in SUBSET D
  BY <1>1, <1>2
<1>4. WithEntry(f, a, b) \in SomeOf(D, R)
  BY <1>3 DEF SomeOf
<1> QED
  BY <1>1, <1>2, <1>4 DEF IsWith

LEMMA SomeIs ==
  ASSUME NEW D, NEW R, NEW f \in SomeOf(D, R)
  PROVE  DOMAIN f \subseteq D /\ \A a \in DOMAIN f : f[a] \in R
BY DEF SomeOf

LEMMA NoneOf ==
  ASSUME NEW D, NEW R
  PROVE  <<>> \in SomeOf(D, R)
<1>1. <<>> \in [{} -> R] /\ {} \in SUBSET D
  OBVIOUS
<1> QED
  BY <1>1 DEF SomeOf

Names == {e.member : e \in Sayings}
RowValues == [first : Nat, last : Nat]
ProfileStates == [rows : SomeOf(Names, RowValues), withdrawn : SUBSET Names]

\* What an event of one kind or the other does.
RowOf(s, x) == [first |-> KeepFirst(s.rows, x.event), last |-> x.event.at]
Tells(s, x, t) ==
  LET m == x.event.member IN
  IF ~SpeaksFor(x.event) THEN t.rows = s.rows /\ t.withdrawn = s.withdrawn
  ELSE IF x.event.kind = "withdrawn" THEN t.rows = s.rows /\ t.withdrawn = s.withdrawn \cup {m}
  ELSE t.rows = WithEntry(s.rows, m, RowOf(s, x)) /\ t.withdrawn = s.withdrawn \ {m}

\* Who may speak for a subject is who validate_profile_event lets speak.
LEMMA ValidSpeaks ==
  ASSUME NEW e
  PROVE  ValidProfile(e) <=> SpeaksFor(e)
BY DEF ValidProfile, SpeaksFor

LEMMA ProfileTells ==
  ASSUME NEW s \in ProfileStates, NEW x, x.event \in Sayings
  PROVE  /\ Profile(s, x) \in ProfileStates /\ Tells(s, x, Profile(s, x))
         /\ RowOf(s, x) \in RowValues
<1> DEFINE m == x.event.member
           t == Profile(s, x)
<1>1. m \in Names /\ x.event.at \in Nat /\ s.rows \in SomeOf(Names, RowValues) /\ s.withdrawn \in SUBSET Names
  BY BoardAssumption DEF Names, ProfileStates
<1>2. RowOf(s, x) \in RowValues
  <2>1. \A k \in DOMAIN s.rows : s.rows[k] \in RowValues
    BY <1>1, SomeIs
  <2>2. KeepFirst(s.rows, x.event) \in Nat
    BY <1>1, <2>1 DEF KeepFirst, RowValues
  <2> QED
    BY <1>1, <2>2 DEF RowOf, RowValues
<1>0. ValidProfile(x.event) <=> SpeaksFor(x.event)
  BY ValidSpeaks
<1>5. CASE ~SpeaksFor(x.event)
  <2>1. t = s
    BY <1>0, <1>5 DEF Profile
  <2> QED
    BY <1>2, <1>5, <2>1 DEF Tells
<1>3. CASE SpeaksFor(x.event) /\ x.event.kind = "withdrawn"
  <2>1. t = [s EXCEPT !.withdrawn = @ \cup {m}]
    BY <1>0, <1>3 DEF Profile
  <2>2. s.withdrawn \cup {m} \in SUBSET Names
    BY <1>1
  <2> QED
    BY <1>2, <1>3, <2>1, <2>2 DEF Tells, ProfileStates
<1>4. CASE SpeaksFor(x.event) /\ x.event.kind # "withdrawn"
  <2>1. t = [rows |-> WithEntry(s.rows, m, RowOf(s, x)), withdrawn |-> s.withdrawn \ {m}]
    BY <1>0, <1>4 DEF Profile, RowOf
  <2>2. WithEntry(s.rows, m, RowOf(s, x)) \in SomeOf(Names, RowValues) /\ s.withdrawn \ {m} \in SUBSET Names
    BY <1>1, <1>2, WithIn
  <2> QED
    BY <1>2, <1>4, <2>1, <2>2 DEF Tells, ProfileStates
<1> QED
  BY <1>3, <1>4, <1>5

\* The directory after each event; the last is what the fold is.
ProfileSteps(q, A) ==
  /\ A \in [0 .. Len(q) -> ProfileStates]
  /\ A[0] = EmptyRows
  /\ \A i \in 1 .. Len(q) : A[i] = Profile(A[i - 1], q[i])

LEMMA NoRowsIs == EmptyRows \in ProfileStates /\ DOMAIN EmptyRows.rows = {}
<1>1. {} \in SUBSET Names
  OBVIOUS
<1>2. <<>> \in SomeOf(Names, RowValues)
  BY NoneOf
<1> QED
  BY <1>1, <1>2 DEF EmptyRows, ProfileStates

LEMMA ProfileFolds ==
  ASSUME NEW q \in Seq(Saying)
  PROVE  \E A : ProfileSteps(q, A) /\ FoldLeft(Profile, EmptyRows, q) = A[Len(q)]
<1> DEFINE N == Len(q)
           F == [i \in 1 .. N |-> [s \in ProfileStates |-> Profile(s, q[i])]]
           IsFold(f) == f = [s \in SUBSET (DOMAIN q) |->
                               IF s = {} THEN EmptyRows ELSE Profile(f[s \ {Max(s)}], q[Max(s)])]
           fold == CHOOSE f : IsFold(f)
<1>1. N \in Nat /\ DOMAIN q = 1 .. N /\ \A i \in 1 .. N : q[i].event \in Sayings
  <2>1. N \in Nat /\ DOMAIN q = 1 .. N /\ \A i \in 1 .. N : q[i] \in Saying
    OBVIOUS
  <2>2. \A x \in Saying : x.event \in Sayings
    BY DEF Saying
  <2> QED
    BY <2>1, <2>2
<1>2. \A i \in 1 .. N : \A s \in ProfileStates : Profile(s, q[i]) \in ProfileStates
  BY <1>1, ProfileTells
<1>3. F \in [1 .. N -> [ProfileStates -> ProfileStates]]
  BY <1>2
<1>4. \A i \in 1 .. N : \A s \in ProfileStates : F[i][s] = Profile(s, q[i])
  OBVIOUS
<1> HIDE DEF N, F
<1>5. PICK h : FoldOf(h, N, F, ProfileStates, EmptyRows)
  <2>1. N \in Nat /\ EmptyRows \in ProfileStates
    BY <1>1, NoRowsIs
  <2> HIDE DEF IsFold, fold
  <2> QED
    BY <1>3, <2>1, FoldExists
<1>6. IsFold(h)
  <2>1. ASSUME NEW s \in SUBSET (1 .. N), s # {}
        PROVE  h[s] = Profile(h[s \ {Max(s)}], q[Max(s)])
    <3>1. Max(s) \in 1 .. N /\ s \ {Max(s)} \in SUBSET (1 .. N)
      BY <1>1, <2>1, MaxOfPlaces
    <3>2. h[s \ {Max(s)}] \in ProfileStates
      BY <1>5, <3>1 DEF FoldOf
    <3> QED
      BY <1>4, <1>5, <2>1, <3>1, <3>2 DEF FoldOf
  <2>2. h[{}] = EmptyRows
    BY <1>5 DEF FoldOf
  <2>3. h = [s \in SUBSET (DOMAIN q) |-> h[s]]
    BY <1>1, <1>5 DEF FoldOf
  <2> QED
    BY <1>1, <2>1, <2>2, <2>3
<1>7. IsFold(fold)
  BY <1>6
<1>8. FoldLeft(Profile, EmptyRows, q) = fold[DOMAIN q]
  BY DEF FoldLeft, MapThenFoldSet
<1> HIDE DEF fold
<1>9. FoldsBy(fold, N, F, ProfileStates, EmptyRows)
  <2>1. fold[{}] = EmptyRows
    BY <1>7
  <2>2. \A s \in SUBSET (1 .. N) : s # {} /\ fold[s \ {Max(s)}] \in ProfileStates =>
          fold[s] = F[Max(s)][fold[s \ {Max(s)}]]
    <3> TAKE s \in SUBSET (1 .. N)
    <3> HAVE s # {} /\ fold[s \ {Max(s)}] \in ProfileStates
    <3>1. fold[s] = Profile(fold[s \ {Max(s)}], q[Max(s)])
      BY <1>1, <1>7
    <3>2. Max(s) \in 1 .. N
      BY <1>1, MaxOfPlaces
    <3> QED
      BY <1>4, <3>1, <3>2
  <2> HIDE DEF IsFold
  <2> QED
    BY <2>1, <2>2 DEF FoldsBy
<1>10. PICK A : StepsOf(A, N, F, ProfileStates, EmptyRows) /\ A[N] = fold[1 .. N]
  <2>1. N \in Nat /\ EmptyRows \in ProfileStates
    BY <1>1, NoRowsIs
  <2> HIDE DEF IsFold
  <2> QED
    BY <1>3, <1>9, <2>1, FoldSteps
<1>11. \A i \in 1 .. N : A[i] = Profile(A[i - 1], q[i])
  <2>1. \A i \in 1 .. N : i - 1 \in 0 .. N
    BY <1>1
  <2> QED
    BY <1>4, <1>10, <2>1 DEF StepsOf
<1> QED
  BY <1>1, <1>8, <1>10, <1>11 DEF ProfileSteps, StepsOf, N

-----------------------------------------------------------------------------
(* First and last words *)

FirstIn(q, K, j) == q[j] \in K /\ \A h \in 1 .. (j - 1) : q[h] \notin K

\* v is set by the first element of K that finds it as it was.
SetOnceBy(q, K, v, w) ==
  /\ \A i \in 1 .. Len(q) : v[i] = IF q[i] \in K /\ v[i - 1] = v[0] THEN w[i] ELSE v[i - 1]
  /\ \A i \in 1 .. Len(q) : w[i] # v[0]

LEMMA HoldsFromFirst ==
  ASSUME NEW N \in Nat, NEW q, Len(q) = N, NEW K, NEW v, NEW w, SetOnceBy(q, K, v, w)
  PROVE  \A i \in 0 .. N : \/ NoneIn(q, K, i) /\ v[i] = v[0]
                           \/ \E j \in 1 .. i : FirstIn(q, K, j) /\ v[i] = w[j]
<1> DEFINE Held(i) == \/ NoneIn(q, K, i) /\ v[i] = v[0]
                      \/ \E j \in 1 .. i : FirstIn(q, K, j) /\ v[i] = w[j]
           T == {i \in 0 .. N : Held(i)}
<1>1. 0 \in T
  BY DEF NoneIn
<1>2. ASSUME NEW i \in 1 .. N, i - 1 \in T PROVE i \in T
  <2>1. v[i] = IF q[i] \in K /\ v[i - 1] = v[0] THEN w[i] ELSE v[i - 1]
    BY DEF SetOnceBy
  <2>2. CASE q[i] \in K /\ NoneIn(q, K, i - 1) /\ v[i - 1] = v[0]
    <3>1. FirstIn(q, K, i) /\ v[i] = w[i] /\ i \in 1 .. i
      BY <2>1, <2>2 DEF FirstIn, NoneIn
    <3> QED
      BY <3>1
  <2>3. CASE q[i] \notin K /\ NoneIn(q, K, i - 1) /\ v[i - 1] = v[0]
    <3>1. \A h \in 1 .. i : h \in 1 .. (i - 1) \/ h = i
      OBVIOUS
    <3>2. NoneIn(q, K, i) /\ v[i] = v[0]
      BY <2>1, <2>3, <3>1 DEF NoneIn
    <3> QED
      BY <3>2
  <2>4. ASSUME NEW j \in 1 .. (i - 1), FirstIn(q, K, j), v[i - 1] = w[j]
        PROVE  i \in T
    <3>1. j \in 1 .. i /\ j \in 1 .. N
      OBVIOUS
    <3>2. v[i] = w[j]
      BY <2>1, <2>4, <3>1 DEF SetOnceBy
    <3> QED
      BY <2>4, <3>1, <3>2
  <2> QED
    BY <1>2, <2>2, <2>3, <2>4
<1> HIDE DEF T
<1>3. \A i \in 0 .. N : i \in T
  BY <1>1, <1>2, UpTo
<1> QED
  BY <1>3 DEF T

ProfileWords == {x \in Loaded : x.event.kind \in ProfileKinds}
WordsOf(m) == {x \in Loaded : x.event.kind \in ProfileKinds /\ x.event.member = m /\ SpeaksFor(x.event)}
FirstWord(m) == CHOOSE x \in WordsOf(m) : /\ x.event.kind = "announced"
                                          /\ \A y \in WordsOf(m) : y.event.kind = "announced" => x = y \/ Earlier(x, y)
FinalWord(m) == CHOOSE x \in WordsOf(m) : \A y \in WordsOf(m) : x = y \/ Earlier(y, x)
AnnouncedOf(m) == {x \in WordsOf(m) : x.event.kind = "announced"}

LEMMA EndsOfWords ==
  ASSUME NEW S, S = ProfileWords, InLine(S), NEW q, Sorted(q, S), NEW m
  PROVE  /\ \A j : LastIn(q, WordsOf(m), Len(q), j) => FinalWord(m) = q[j]
         /\ \A j \in 1 .. Len(q) : FirstIn(q, AnnouncedOf(m), j) => FirstWord(m) = q[j]
<1>1. /\ Len(q) \in Nat /\ \A i \in 1 .. Len(q) : q[i] \in S
      /\ \A x \in S : \E i \in 1 .. Len(q) : q[i] = x
      /\ \A i, j \in 1 .. Len(q) : Earlier(q[i], q[j]) <=> i < j
  BY DEF Sorted
<1>2. WordsOf(m) \subseteq S
  BY DEF WordsOf, ProfileWords
<1>3. ASSUME NEW j, LastIn(q, WordsOf(m), Len(q), j) PROVE FinalWord(m) = q[j]
  <2>1. j \in 1 .. Len(q) /\ q[j] \in WordsOf(m)
    BY <1>3 DEF LastIn
  <2>2. ASSUME NEW y \in WordsOf(m) PROVE q[j] = y \/ Earlier(y, q[j])
    <3>1. PICK i \in 1 .. Len(q) : q[i] = y
      BY <1>1, <1>2
    <3>2. ~(i > j)
      BY <1>3, <3>1 DEF LastIn
    <3>3. i = j \/ i < j
      BY <1>1, <2>1, <3>2
    <3> QED
      BY <1>1, <2>1, <3>1, <3>3
  <2>3. ASSUME NEW x \in WordsOf(m), \A y \in WordsOf(m) : x = y \/ Earlier(y, x) PROVE x = q[j]
    <3>1. (x = q[j] \/ Earlier(q[j], x)) /\ (q[j] = x \/ Earlier(x, q[j]))
      BY <2>1, <2>2, <2>3
    <3> QED
      BY <1>2, <2>1, <3>1 DEF InLine
  <2> QED
    BY <2>1, <2>2, <2>3 DEF FinalWord
<1>4. ASSUME NEW j \in 1 .. Len(q), FirstIn(q, AnnouncedOf(m), j) PROVE FirstWord(m) = q[j]
  <2> DEFINE IsFirst(x) == /\ x.event.kind = "announced"
                           /\ \A y \in WordsOf(m) : y.event.kind = "announced" => x = y \/ Earlier(x, y)
  <2>1. q[j] \in WordsOf(m) /\ q[j].event.kind = "announced"
    BY <1>4 DEF FirstIn, AnnouncedOf
  <2>2. ASSUME NEW y \in WordsOf(m), y.event.kind = "announced" PROVE q[j] = y \/ Earlier(q[j], y)
    <3>1. PICK i \in 1 .. Len(q) : q[i] = y
      BY <1>1, <1>2
    <3>2. i \notin 1 .. (j - 1)
      BY <1>4, <2>2, <3>1 DEF FirstIn, AnnouncedOf
    <3>3. i = j \/ j < i
      BY <1>1, <3>2
    <3> QED
      BY <1>1, <3>1, <3>3
  <2>3. ASSUME NEW x \in WordsOf(m), IsFirst(x) PROVE x = q[j]
    <3>1. (x = q[j] \/ Earlier(x, q[j])) /\ (q[j] = x \/ Earlier(q[j], x))
      BY <2>1, <2>2, <2>3
    <3> QED
      BY <1>2, <2>1, <3>1 DEF InLine
  <2>4. IsFirst(q[j])
    BY <2>1, <2>2
  <2> HIDE DEF IsFirst
  <2>5. (CHOOSE x \in WordsOf(m) : IsFirst(x)) = q[j]
    BY <2>1, <2>3, <2>4
  <2> QED
    BY <2>5 DEF FirstWord, IsFirst
<1> QED
  BY <1>3, <1>4

\* What the directory has of m in the end: by m's last word, and since m's first.
LEMMA LastWordHeld ==
  ASSUME NEW S, S = ProfileWords, InLine(S), S \subseteq Saying, NEW q, Sorted(q, S),
         NEW A, ProfileSteps(q, A), NEW m, NEW R, R = A[Len(q)]
  PROVE  \/ NoneIn(q, WordsOf(m), Len(q)) /\ m \notin DOMAIN R.rows
         \/ /\ FinalWord(m) \in WordsOf(m)
            /\ m \in R.withdrawn <=> FinalWord(m).event.kind = "withdrawn"
            /\ FinalWord(m).event.kind # "withdrawn" => m \in DOMAIN R.rows /\ R.rows[m].last = FinalWord(m).event.at
<1> DEFINE K == WordsOf(m)
           has(s) == IF m \in s.withdrawn THEN <<"out", 0>>
                     ELSE IF m \in DOMAIN s.rows THEN <<"in", s.rows[m].last>> ELSE <<"none", 0>>
           v == [i \in 0 .. Len(q) |-> has(A[i])]
           w == [i \in 1 .. Len(q) |-> IF q[i].event.kind = "withdrawn" THEN <<"out", 0>> ELSE <<"in", q[i].event.at>>]
<1>1. Len(q) \in Nat /\ \A i \in 1 .. Len(q) : q[i] \in S /\ q[i].event \in Sayings
  BY DEF Sorted, Saying
<1>2. SetBy(q, K, v, w)
  <2>1. ASSUME NEW i \in 1 .. Len(q) PROVE v[i] = IF q[i] \in K THEN w[i] ELSE v[i - 1]
    <3>1. i \in 0 .. Len(q) /\ i - 1 \in 0 .. Len(q)
      BY <1>1
    <3>2. A[i - 1] \in ProfileStates /\ A[i] = Profile(A[i - 1], q[i])
      BY <3>1 DEF ProfileSteps
    <3>3. Tells(A[i - 1], q[i], A[i]) /\ RowOf(A[i - 1], q[i]) \in RowValues
      BY <1>1, <3>2, ProfileTells
    <3>4. q[i] \in K <=> q[i].event.member = m /\ SpeaksFor(q[i].event)
      BY <1>1 DEF WordsOf, ProfileWords
    <3>5. v[i] = has(A[i]) /\ v[i - 1] = has(A[i - 1])
          /\ w[i] = IF q[i].event.kind = "withdrawn" THEN <<"out", 0>> ELSE <<"in", q[i].event.at>>
      BY <3>1
    <3> HIDE DEF K, v, w
    <3>9. CASE ~SpeaksFor(q[i].event)
      <4>1. A[i].rows = A[i - 1].rows /\ A[i].withdrawn = A[i - 1].withdrawn
        BY <3>3, <3>9 DEF Tells
      <4> QED
        BY <3>4, <3>5, <3>9, <4>1
    <3>6. CASE SpeaksFor(q[i].event) /\ q[i].event.kind = "withdrawn"
      <4>1. A[i].rows = A[i - 1].rows /\ A[i].withdrawn = A[i - 1].withdrawn \cup {q[i].event.member}
        BY <3>3, <3>6 DEF Tells
      <4>2. CASE q[i].event.member = m
        BY <3>4, <3>5, <3>6, <4>1, <4>2
      <4>3. CASE q[i].event.member # m
        BY <3>4, <3>5, <3>6, <4>1, <4>3
      <4> QED
        BY <4>2, <4>3
    <3>7. CASE SpeaksFor(q[i].event) /\ q[i].event.kind # "withdrawn"
      <4>1. /\ A[i].rows = WithEntry(A[i - 1].rows, q[i].event.member, RowOf(A[i - 1], q[i]))
            /\ A[i].withdrawn = A[i - 1].withdrawn \ {q[i].event.member}
        BY <3>3, <3>7 DEF Tells
      <4>2. A[i - 1].rows \in SomeOf(Names, RowValues) /\ q[i].event.member \in Names
        BY <1>1, <3>2 DEF ProfileStates, Names
      <4>3. /\ DOMAIN A[i].rows = DOMAIN A[i - 1].rows \cup {q[i].event.member}
            /\ A[i].rows[q[i].event.member] = RowOf(A[i - 1], q[i])
            /\ \A k \in DOMAIN A[i - 1].rows : k # q[i].event.member => A[i].rows[k] = A[i - 1].rows[k]
        <5>1. IsWith(A[i].rows, A[i - 1].rows, q[i].event.member, RowOf(A[i - 1], q[i]))
          BY <3>3, <4>1, <4>2, WithIn
        <5> QED
          BY <5>1 DEF IsWith
      <4>4. CASE q[i].event.member = m
        <5>1. A[i].rows[m].last = q[i].event.at
          BY <4>3, <4>4 DEF RowOf
        <5> QED
          BY <3>4, <3>5, <3>7, <4>1, <4>3, <4>4, <5>1
      <4>5. CASE q[i].event.member # m
        BY <3>4, <3>5, <3>7, <4>1, <4>3, <4>5
      <4> QED
        BY <4>4, <4>5
    <3> QED
      BY <3>6, <3>7, <3>9
  <2> QED
    BY <2>1 DEF SetBy
<1>3. v[0] = <<"none", 0>> /\ v[Len(q)] = has(R)
  <2>1. A[0] = EmptyRows /\ 0 \in 0 .. Len(q) /\ Len(q) \in 0 .. Len(q)
    BY <1>1 DEF ProfileSteps
  <2>2. DOMAIN EmptyRows.rows = {} /\ EmptyRows.withdrawn = {}
    BY NoRowsIs DEF EmptyRows
  <2> QED
    BY <2>1, <2>2
<1>4. \A j \in 1 .. Len(q) : w[j] = IF q[j].event.kind = "withdrawn" THEN <<"out", 0>> ELSE <<"in", q[j].event.at>>
  OBVIOUS
<1> HIDE DEF v, w
<1>5. \/ NoneIn(q, K, Len(q)) /\ v[Len(q)] = v[0]
      \/ \E j \in 1 .. Len(q) : LastIn(q, K, Len(q), j) /\ v[Len(q)] = w[j]
  <2>1. Len(q) \in 0 .. Len(q)
    BY <1>1
  <2> HIDE DEF K
  <2> QED
    BY <1>1, <1>2, <2>1, HoldsUntil
<1>6. CASE NoneIn(q, K, Len(q)) /\ v[Len(q)] = v[0]
  <2>1. NoneIn(q, AnnouncedOf(m), Len(q))
    BY <1>6 DEF NoneIn, AnnouncedOf
  <2>2. m \notin DOMAIN R.rows
    <3>1. has(R) = <<"none", 0>>
      BY <1>3, <1>6
    <3>2. m \notin R.withdrawn
      BY <3>1
    <3> QED
      BY <3>1, <3>2
  <2> QED
    BY <1>6, <2>2
<1>7. ASSUME NEW j \in 1 .. Len(q), LastIn(q, K, Len(q), j), v[Len(q)] = w[j]
      PROVE  /\ FinalWord(m) \in WordsOf(m)
             /\ m \in R.withdrawn <=> FinalWord(m).event.kind = "withdrawn"
             /\ FinalWord(m).event.kind # "withdrawn" => m \in DOMAIN R.rows /\ R.rows[m].last = FinalWord(m).event.at
  <2>1. FinalWord(m) = q[j] /\ q[j] \in WordsOf(m)
    BY <1>7, EndsOfWords DEF LastIn
  <2>2. has(R) = IF q[j].event.kind = "withdrawn" THEN <<"out", 0>> ELSE <<"in", q[j].event.at>>
    BY <1>3, <1>4, <1>7
  <2>3. CASE q[j].event.kind = "withdrawn"
    <3>1. has(R) = <<"out", 0>>
      BY <2>2, <2>3
    <3>2. m \in R.withdrawn
      BY <3>1
    <3> QED
      BY <2>1, <2>3, <3>2
  <2>4. CASE q[j].event.kind # "withdrawn"
    <3>1. has(R) = <<"in", q[j].event.at>>
      BY <2>2, <2>4
    <3>2. m \notin R.withdrawn
      BY <3>1
    <3>3. m \in DOMAIN R.rows
      BY <3>1, <3>2
    <3>4. R.rows[m].last = q[j].event.at
      BY <3>1, <3>2, <3>3
    <3> QED
      BY <2>1, <2>4, <3>2, <3>3, <3>4
  <2> QED
    BY <2>3, <2>4
<1> QED
  BY <1>5, <1>6, <1>7

LEMMA FirstWordHeld ==
  ASSUME NEW S, S = ProfileWords, InLine(S), S \subseteq Saying, NEW q, Sorted(q, S),
         NEW A, ProfileSteps(q, A), NEW m, NEW R, R = A[Len(q)]
  PROVE  \/ NoneIn(q, AnnouncedOf(m), Len(q)) /\ m \notin DOMAIN R.rows
         \/ m \in DOMAIN R.rows /\ FirstWord(m) \in AnnouncedOf(m) /\ R.rows[m].first = FirstWord(m).event.at
<1> DEFINE K == AnnouncedOf(m)
           has(s) == IF m \in DOMAIN s.rows THEN <<"in", s.rows[m].first>> ELSE <<"none", 0>>
           v == [i \in 0 .. Len(q) |-> has(A[i])]
           w == [i \in 1 .. Len(q) |-> <<"in", q[i].event.at>>]
<1>1. Len(q) \in Nat /\ \A i \in 1 .. Len(q) : q[i] \in S /\ q[i].event \in Sayings
  BY DEF Sorted, Saying
<1>2. v[0] = <<"none", 0>> /\ v[Len(q)] = has(R)
  <2>1. A[0] = EmptyRows /\ 0 \in 0 .. Len(q) /\ Len(q) \in 0 .. Len(q)
    BY <1>1 DEF ProfileSteps
  <2> QED
    BY <2>1, NoRowsIs
<1>3. \A j \in 1 .. Len(q) : w[j] = <<"in", q[j].event.at>>
  OBVIOUS
<1>4. ASSUME NEW i \in 1 .. Len(q)
      PROVE  v[i] = IF q[i] \in K /\ v[i - 1] = v[0] THEN w[i] ELSE v[i - 1]
  <2>1. i \in 0 .. Len(q) /\ i - 1 \in 0 .. Len(q)
    BY <1>1
  <2>2. A[i - 1] \in ProfileStates /\ A[i] = Profile(A[i - 1], q[i])
    BY <2>1 DEF ProfileSteps
  <2>3. Tells(A[i - 1], q[i], A[i]) /\ RowOf(A[i - 1], q[i]) \in RowValues
    BY <1>1, <2>2, ProfileTells
  <2>4. q[i] \in K <=> q[i].event.kind # "withdrawn" /\ q[i].event.member = m /\ SpeaksFor(q[i].event)
    BY <1>1 DEF AnnouncedOf, WordsOf, ProfileWords, ProfileKinds
  <2>5. v[i] = has(A[i]) /\ v[i - 1] = has(A[i - 1]) /\ v[0] = <<"none", 0>> /\ w[i] = <<"in", q[i].event.at>>
    BY <1>2, <2>1
  <2> HIDE DEF K, v, w
  <2>6. CASE ~SpeaksFor(q[i].event) \/ q[i].event.kind = "withdrawn"
    <3>1. A[i].rows = A[i - 1].rows
      BY <2>3, <2>6 DEF Tells
    <3> QED
      BY <2>4, <2>5, <2>6, <3>1
  <2>7. CASE SpeaksFor(q[i].event) /\ q[i].event.kind # "withdrawn"
    <3>1. A[i].rows = WithEntry(A[i - 1].rows, q[i].event.member, RowOf(A[i - 1], q[i]))
      BY <2>3, <2>7 DEF Tells
    <3>2. A[i - 1].rows \in SomeOf(Names, RowValues) /\ q[i].event.member \in Names
      BY <1>1, <2>2 DEF ProfileStates, Names
    <3>3. /\ DOMAIN A[i].rows = DOMAIN A[i - 1].rows \cup {q[i].event.member}
          /\ A[i].rows[q[i].event.member] = RowOf(A[i - 1], q[i])
          /\ \A k \in DOMAIN A[i - 1].rows : k # q[i].event.member => A[i].rows[k] = A[i - 1].rows[k]
      <4>1. IsWith(A[i].rows, A[i - 1].rows, q[i].event.member, RowOf(A[i - 1], q[i]))
        BY <2>3, <3>1, <3>2, WithIn
      <4> QED
        BY <4>1 DEF IsWith
    <3>4. CASE q[i].event.member = m
      <4>1. A[i].rows[m].first = IF m \in DOMAIN A[i - 1].rows THEN A[i - 1].rows[m].first ELSE q[i].event.at
        BY <3>3, <3>4 DEF RowOf, KeepFirst
      <4>2. v[i] = <<"in", A[i].rows[m].first>>
        BY <2>5, <3>3, <3>4
      <4>3. CASE m \in DOMAIN A[i - 1].rows
        <5>1. v[i - 1] = <<"in", A[i - 1].rows[m].first>>
          BY <2>5, <4>3
        <5> QED
          BY <2>5, <4>1, <4>2, <4>3, <5>1
      <4>4. CASE m \notin DOMAIN A[i - 1].rows
        <5>1. v[i - 1] = <<"none", 0>>
          BY <2>5, <4>4
        <5> QED
          BY <2>4, <2>5, <2>7, <3>4, <4>1, <4>2, <4>4, <5>1
      <4> QED
        BY <4>3, <4>4
    <3>5. CASE q[i].event.member # m
      BY <2>4, <2>5, <3>3, <3>5
    <3> QED
      BY <3>4, <3>5
  <2> QED
    BY <2>6, <2>7
<1>5. SetOnceBy(q, K, v, w)
  <2>1. \A i \in 1 .. Len(q) : w[i] # v[0]
    BY <1>2, <1>3
  <2> HIDE DEF K, v, w
  <2> QED
    BY <1>4, <2>1 DEF SetOnceBy
<1> HIDE DEF v, w
<1>6. \/ NoneIn(q, K, Len(q)) /\ v[Len(q)] = v[0]
      \/ \E j \in 1 .. Len(q) : FirstIn(q, K, j) /\ v[Len(q)] = w[j]
  <2>1. Len(q) \in 0 .. Len(q)
    BY <1>1
  <2> HIDE DEF K
  <2> QED
    BY <1>1, <1>5, <2>1, HoldsFromFirst
<1>7. CASE NoneIn(q, K, Len(q)) /\ v[Len(q)] = v[0]
  <2>1. has(R) = <<"none", 0>>
    BY <1>2, <1>7
  <2>2. m \notin DOMAIN R.rows
    BY <2>1
  <2> QED
    BY <1>7, <2>2
<1>8. ASSUME NEW j \in 1 .. Len(q), FirstIn(q, K, j), v[Len(q)] = w[j]
      PROVE  m \in DOMAIN R.rows /\ FirstWord(m) \in AnnouncedOf(m) /\ R.rows[m].first = FirstWord(m).event.at
  <2>1. FirstWord(m) = q[j] /\ q[j] \in AnnouncedOf(m)
    BY <1>8, EndsOfWords DEF FirstIn
  <2>2. has(R) = <<"in", q[j].event.at>>
    BY <1>2, <1>3, <1>8
  <2>3. m \in DOMAIN R.rows
    BY <2>2
  <2>4. R.rows[m].first = q[j].event.at
    BY <2>2, <2>3
  <2> QED
    BY <2>1, <2>3, <2>4
<1> QED
  BY <1>6, <1>7, <1>8

LEMMA DirectoryRight ==
  ASSUME Loaded \in SUBSET Saying, IsFiniteSet(Loaded), InLine(Loaded)
  PROVE  LastWordCounts
<1> DEFINE S == ProfileWords
           q == InOrder(S)
           subjects == {x.event.member : x \in {y \in Loaded : y.event.kind = "announced" /\ SpeaksFor(y.event)}}
           listed == {s \in subjects : FinalWord(s).event.kind = "announced"}
<1>1. S \in SUBSET Loaded
  BY DEF ProfileWords
<1>2. S = ProfileWords
  OBVIOUS
<1> HIDE DEF S
<1>3. S \in SUBSET Saying /\ InLine(S) /\ Sorted(q, S) /\ q \in Seq(Saying)
  BY <1>1, PartInLine
<1>4. ProjectProfiles = FoldLeft(Profile, EmptyRows, q)
  BY <1>2 DEF ProjectProfiles, LoadedProfiles, ProfileWords
<1> HIDE DEF q
<1>5. PICK A : ProfileSteps(q, A) /\ FoldLeft(Profile, EmptyRows, q) = A[Len(q)]
  BY <1>3, ProfileFolds
<1>6. PICK R : R = ProjectProfiles
  OBVIOUS
<1>7. /\ R = A[Len(q)] /\ \A x \in S : \E i \in 1 .. Len(q) : q[i] = x
      /\ R \in ProfileStates
  <2>1. Len(q) \in 0 .. Len(q)
    BY <1>3
  <2> QED
    BY <1>3, <1>4, <1>5, <1>6, <2>1 DEF Sorted, ProfileSteps
<1>8. ASSUME NEW m, NEW x \in WordsOf(m)
      PROVE  /\ FinalWord(m) \in WordsOf(m)
             /\ m \in R.withdrawn <=> FinalWord(m).event.kind = "withdrawn"
             /\ FinalWord(m).event.kind # "withdrawn" => m \in DOMAIN R.rows /\ R.rows[m].last = FinalWord(m).event.at
  <2>1. x \in S
    BY <1>2 DEF WordsOf, ProfileWords
  <2>2. ~NoneIn(q, WordsOf(m), Len(q))
    BY <1>7, <2>1 DEF NoneIn
  <2> QED
    BY <1>2, <1>3, <1>5, <1>7, <2>2, LastWordHeld
<1>9. ASSUME NEW m \in DOMAIN R.rows
      PROVE  FirstWord(m) \in AnnouncedOf(m) /\ R.rows[m].first = FirstWord(m).event.at
  BY <1>2, <1>3, <1>5, <1>7, FirstWordHeld
<1>10. DOMAIN R.rows \ R.withdrawn = listed
  <2>1. ASSUME NEW m \in DOMAIN R.rows \ R.withdrawn PROVE m \in listed
    <3>1. PICK x : x \in AnnouncedOf(m)
      BY <1>9
    <3>2. /\ x \in WordsOf(m) /\ x \in Loaded /\ SpeaksFor(x.event)
          /\ x.event.kind = "announced" /\ x.event.member = m
      BY <3>1 DEF AnnouncedOf, WordsOf
    <3>3. FinalWord(m) \in WordsOf(m) /\ FinalWord(m).event.kind # "withdrawn"
      BY <1>8, <2>1, <3>2
    <3>4. FinalWord(m).event.kind = "announced"
      BY <3>3 DEF WordsOf, ProfileKinds
    <3> QED
      BY <3>2, <3>4
  <2>2. ASSUME NEW m \in listed PROVE m \in DOMAIN R.rows \ R.withdrawn
    <3>1. PICK x \in Loaded : x.event.kind = "announced" /\ x.event.member = m /\ SpeaksFor(x.event)
      OBVIOUS
    <3>2. x \in WordsOf(m) /\ FinalWord(m).event.kind = "announced"
      BY <3>1 DEF WordsOf, ProfileKinds
    <3> QED
      BY <1>8, <3>2
  <2> QED
    BY <2>1, <2>2
<1>11. ASSUME NEW m \in listed
       PROVE  R.rows[m] = [first |-> FirstWord(m).event.at, last |-> FinalWord(m).event.at]
  <2>1. m \in DOMAIN R.rows /\ FinalWord(m).event.kind # "withdrawn"
    BY <1>10
  <2>2. PICK x : x \in WordsOf(m)
    BY <1>9, <2>1 DEF AnnouncedOf
  <2>3. R.rows[m].first = FirstWord(m).event.at /\ R.rows[m].last = FinalWord(m).event.at
    BY <1>8, <1>9, <2>1, <2>2
  <2>4. R.rows[m] \in RowValues
    <3>1. R.rows \in SomeOf(Names, RowValues)
      BY <1>7 DEF ProfileStates
    <3> QED
      BY <2>1, <3>1, SomeIs
  <2> QED
    BY <2>3, <2>4 DEF RowValues
<1>12. Directory = [m \in listed |-> [first |-> FirstWord(m).event.at, last |-> FinalWord(m).event.at]]
  <2>1. Directory = [m \in DOMAIN R.rows \ R.withdrawn |-> R.rows[m]]
    BY <1>6 DEF Directory
  <2> HIDE DEF listed
  <2> QED
    BY <1>10, <1>11, <2>1
<1> QED
  BY <1>12 DEF LastWordCounts, FirstWord, FinalWord, WordsOf

-----------------------------------------------------------------------------
(* The threads, step by step *)

Ids == {e.id : e \in Sayings}
Refs == Ids \cup {e.reply : e \in Sayings}
ThreadStates == [lists : SomeOf(Refs, Seq(Ids)), root : SomeOf(Refs, Refs)]
NoThreads == [lists |-> <<>>, root |-> <<>>]

\* What a post does to the threads.
Hung(t, e) == Append(IF RootOf(t, e) \in DOMAIN t.lists THEN t.lists[RootOf(t, e)] ELSE <<>>, e.id)
Hangs(t, e, u) ==
  IF e.reply = NoEvent
  THEN u.lists = WithEntry(t.lists, e.id, <<>>) /\ u.root = WithEntry(t.root, e.id, e.id)
  ELSE u.lists = WithEntry(t.lists, RootOf(t, e), Hung(t, e)) /\ u.root = WithEntry(t.root, e.id, RootOf(t, e))

LEMMA ThreadHangs ==
  ASSUME NEW t \in ThreadStates, NEW e \in Sayings
  PROVE  /\ Thread(t, e) \in ThreadStates /\ Hangs(t, e, Thread(t, e))
         /\ e.id \in Refs /\ RootOf(t, e) \in Refs /\ Hung(t, e) \in Seq(Ids) /\ <<>> \in Seq(Ids)
         /\ t.lists \in SomeOf(Refs, Seq(Ids)) /\ t.root \in SomeOf(Refs, Refs)
<1>1. t.lists \in SomeOf(Refs, Seq(Ids)) /\ t.root \in SomeOf(Refs, Refs)
  BY DEF ThreadStates
<1>2. e.id \in Ids /\ e.id \in Refs /\ e.reply \in Refs
  BY DEF Ids, Refs
<1>3. RootOf(t, e) \in Refs
  BY <1>1, <1>2, SomeIs DEF RootOf
<1>4. Hung(t, e) \in Seq(Ids) /\ <<>> \in Seq(Ids)
  <2> DEFINE list == IF RootOf(t, e) \in DOMAIN t.lists THEN t.lists[RootOf(t, e)] ELSE <<>>
  <2>1. list \in Seq(Ids)
    BY <1>1, SomeIs
  <2> HIDE DEF list
  <2>2. Append(list, e.id) \in Seq(Ids)
    BY <1>2, <2>1
  <2> QED
    BY <2>2 DEF Hung, list
<1>5. CASE e.reply = NoEvent
  <2>1. Thread(t, e) = [lists |-> WithEntry(t.lists, e.id, <<>>), root |-> WithEntry(t.root, e.id, e.id)]
    BY <1>5 DEF Thread
  <2>2. /\ WithEntry(t.lists, e.id, <<>>) \in SomeOf(Refs, Seq(Ids))
        /\ WithEntry(t.root, e.id, e.id) \in SomeOf(Refs, Refs)
    BY <1>1, <1>2, <1>4, WithIn
  <2> QED
    BY <1>1, <1>2, <1>3, <1>4, <1>5, <2>1, <2>2 DEF Hangs, ThreadStates
<1>6. CASE e.reply # NoEvent
  <2>1. Thread(t, e) = [lists |-> WithEntry(t.lists, RootOf(t, e), Hung(t, e)),
                        root |-> WithEntry(t.root, e.id, RootOf(t, e))]
    BY <1>6 DEF Thread, Hung
  <2>2. /\ WithEntry(t.lists, RootOf(t, e), Hung(t, e)) \in SomeOf(Refs, Seq(Ids))
        /\ WithEntry(t.root, e.id, RootOf(t, e)) \in SomeOf(Refs, Refs)
    BY <1>1, <1>2, <1>3, <1>4, WithIn
  <2> QED
    BY <1>1, <1>2, <1>3, <1>4, <1>6, <2>1, <2>2 DEF Hangs, ThreadStates
<1> QED
  BY <1>5, <1>6

\* The threads after each post; the last is what the fold is.
ThreadSteps(posts, A) ==
  /\ A \in [0 .. Len(posts) -> ThreadStates]
  /\ A[0] = NoThreads
  /\ \A i \in 1 .. Len(posts) : A[i] = Thread(A[i - 1], posts[i])

LEMMA ThreadFolds ==
  ASSUME NEW q \in Seq(Sayings)
  PROVE  \E A : ThreadSteps(q, A) /\ Threads(q) = A[Len(q)].lists
<1> DEFINE N == Len(q)
           F == [i \in 1 .. N |-> [s \in ThreadStates |-> Thread(s, q[i])]]
           IsFold(f) == f = [s \in SUBSET (DOMAIN q) |->
                               IF s = {} THEN NoThreads ELSE Thread(f[s \ {Max(s)}], q[Max(s)])]
           fold == CHOOSE f : IsFold(f)
<1>1. N \in Nat /\ DOMAIN q = 1 .. N /\ \A i \in 1 .. N : q[i] \in Sayings
  OBVIOUS
<1>2. \A i \in 1 .. N : \A s \in ThreadStates : Thread(s, q[i]) \in ThreadStates
  BY <1>1, ThreadHangs
<1>3. F \in [1 .. N -> [ThreadStates -> ThreadStates]]
  BY <1>2
<1>4. \A i \in 1 .. N : \A s \in ThreadStates : F[i][s] = Thread(s, q[i])
  OBVIOUS
<1>0. NoThreads \in ThreadStates
  <2>1. <<>> \in SomeOf(Refs, Seq(Ids)) /\ <<>> \in SomeOf(Refs, Refs)
    BY NoneOf
  <2> QED
    BY <2>1 DEF NoThreads, ThreadStates
<1> HIDE DEF N, F
<1>5. PICK h : FoldOf(h, N, F, ThreadStates, NoThreads)
  <2>1. N \in Nat
    BY <1>1
  <2> HIDE DEF IsFold, fold
  <2> QED
    BY <1>0, <1>3, <2>1, FoldExists
<1>6. IsFold(h)
  <2>1. ASSUME NEW s \in SUBSET (1 .. N), s # {}
        PROVE  h[s] = Thread(h[s \ {Max(s)}], q[Max(s)])
    <3>1. Max(s) \in 1 .. N /\ s \ {Max(s)} \in SUBSET (1 .. N)
      BY <1>1, <2>1, MaxOfPlaces
    <3>2. h[s \ {Max(s)}] \in ThreadStates
      BY <1>5, <3>1 DEF FoldOf
    <3> QED
      BY <1>4, <1>5, <2>1, <3>1, <3>2 DEF FoldOf
  <2>2. h[{}] = NoThreads
    BY <1>5 DEF FoldOf
  <2>3. h = [s \in SUBSET (DOMAIN q) |-> h[s]]
    BY <1>1, <1>5 DEF FoldOf
  <2> QED
    BY <1>1, <2>1, <2>2, <2>3
<1>7. IsFold(fold)
  BY <1>6
<1>8. Threads(q) = fold[DOMAIN q].lists
  BY DEF Threads, FoldLeft, MapThenFoldSet, NoThreads
<1> HIDE DEF fold
<1>9. FoldsBy(fold, N, F, ThreadStates, NoThreads)
  <2>1. fold[{}] = NoThreads
    BY <1>7
  <2>2. \A s \in SUBSET (1 .. N) : s # {} /\ fold[s \ {Max(s)}] \in ThreadStates =>
          fold[s] = F[Max(s)][fold[s \ {Max(s)}]]
    <3> TAKE s \in SUBSET (1 .. N)
    <3> HAVE s # {} /\ fold[s \ {Max(s)}] \in ThreadStates
    <3>1. fold[s] = Thread(fold[s \ {Max(s)}], q[Max(s)])
      BY <1>1, <1>7
    <3>2. Max(s) \in 1 .. N
      BY <1>1, MaxOfPlaces
    <3> QED
      BY <1>4, <3>1, <3>2
  <2> HIDE DEF IsFold
  <2> QED
    BY <2>1, <2>2 DEF FoldsBy
<1>10. PICK A : StepsOf(A, N, F, ThreadStates, NoThreads) /\ A[N] = fold[1 .. N]
  <2>1. N \in Nat
    BY <1>1
  <2> HIDE DEF IsFold
  <2> QED
    BY <1>0, <1>3, <1>9, <2>1, FoldSteps
<1>11. \A i \in 1 .. N : A[i] = Thread(A[i - 1], q[i])
  <2>1. \A i \in 1 .. N : i - 1 \in 0 .. N
    BY <1>1
  <2> QED
    BY <1>4, <1>10, <2>1 DEF StepsOf
<1> QED
  BY <1>1, <1>8, <1>10, <1>11 DEF ThreadSteps, StepsOf, N

-----------------------------------------------------------------------------
(* Where a reply goes back to *)

OriginTo(posts, o, n) ==
  /\ o \in [1 .. n -> Nat]
  /\ \A j \in 1 .. n : o[j] = IF j \in FirstPosts(posts) THEN j ELSE o[Nearest(posts, j)]

LEMMA NearestIs ==
  ASSUME NEW posts \in Seq(Sayings), RepliesFollow(posts), NEW j \in 1 .. Len(posts), j \notin FirstPosts(posts)
  PROVE  /\ Nearest(posts, j) \in 1 .. (j - 1) /\ posts[Nearest(posts, j)].id = posts[j].reply
         /\ \A h \in 1 .. Len(posts) : posts[h].id = posts[j].reply => h <= Nearest(posts, j)
<1>1. DOMAIN posts = 1 .. Len(posts) /\ Len(posts) \in Nat
  OBVIOUS
<1>2. AnsweredBy(posts, j) # {} /\ \A i \in AnsweredBy(posts, j) : i < j
  BY <1>1 DEF RepliesFollow
<1>3. \E i \in AnsweredBy(posts, j) : \A h \in AnsweredBy(posts, j) : h <= i
  <2>1. AnsweredBy(posts, j) \in SUBSET (0 .. Len(posts))
    BY <1>1 DEF AnsweredBy
  <2> QED
    BY <1>1, <1>2, <2>1, HighestExists
<1>4. Nearest(posts, j) \in AnsweredBy(posts, j) /\ \A h \in AnsweredBy(posts, j) : h <= Nearest(posts, j)
  BY <1>3 DEF Nearest
<1> QED
  BY <1>1, <1>2, <1>4 DEF AnsweredBy

LEMMA OriginIs ==
  ASSUME NEW posts \in Seq(Sayings), RepliesFollow(posts)
  PROVE  OriginTo(posts, Origin(posts), Len(posts))
<1> DEFINE N == Len(posts)
           T == {n \in 0 .. N : \E o : OriginTo(posts, o, n)}
           IsOrigin(o) == o = [j \in DOMAIN posts |-> IF j \in FirstPosts(posts) THEN j ELSE o[Nearest(posts, j)]]
<1>1. DOMAIN posts = 1 .. N /\ N \in Nat
  OBVIOUS
<1>2. 0 \in T
  <2>1. OriginTo(posts, [j \in {} |-> 0], 0)
    BY DEF OriginTo
  <2> QED
    BY <1>1, <2>1
<1>3. ASSUME NEW n \in 1 .. N, n - 1 \in T PROVE n \in T
  <2>1. PICK g : OriginTo(posts, g, n - 1)
    BY <1>3
  <2>2. \A j \in 1 .. n : j \notin FirstPosts(posts) => Nearest(posts, j) \in 1 .. (j - 1)
    <3> TAKE j \in 1 .. n
    <3>1. j \in 1 .. Len(posts)
      BY <1>1
    <3> QED
      BY <3>1, NearestIs
  <2>3. \A j \in 1 .. n : j \in 1 .. (n - 1) \/ j = n
    BY <1>1
  <2>4. \A j \in 1 .. n : j \notin FirstPosts(posts) => Nearest(posts, j) \in 1 .. (n - 1)
    BY <1>1, <2>2
  <2>5. PICK o : o = [j \in 1 .. n |-> IF j = n THEN IF n \in FirstPosts(posts) THEN n ELSE g[Nearest(posts, n)] ELSE g[j]]
    OBVIOUS
  <2>6. \A j \in 1 .. (n - 1) : j \in 1 .. n /\ j # n /\ o[j] = g[j] /\ g[j] \in Nat
    BY <1>1, <2>1, <2>5 DEF OriginTo
  <2>7. n \in 1 .. n /\ n \in Nat /\ o[n] = IF n \in FirstPosts(posts) THEN n ELSE g[Nearest(posts, n)]
    BY <1>1, <2>5
  <2>8. \A j \in 1 .. n : o[j] = IF j \in FirstPosts(posts) THEN j ELSE o[Nearest(posts, j)]
    <3> TAKE j \in 1 .. n
    <3>1. CASE j = n
      BY <2>4, <2>6, <2>7, <3>1
    <3>2. CASE j \in 1 .. (n - 1)
      <4>1. g[j] = IF j \in FirstPosts(posts) THEN j ELSE g[Nearest(posts, j)]
        BY <2>1, <3>2 DEF OriginTo
      <4> QED
        BY <2>4, <2>6, <3>2, <4>1
    <3> QED
      BY <2>3, <3>1, <3>2
  <2>9. \A j \in 1 .. n : o[j] \in Nat
    BY <2>3, <2>4, <2>6, <2>7
  <2>10. OriginTo(posts, o, n)
    BY <2>5, <2>8, <2>9 DEF OriginTo
  <2> QED
    BY <1>1, <2>10
<1> HIDE DEF T
<1>4. \A n \in 0 .. N : n \in T
  BY <1>1, <1>2, <1>3, UpTo
<1>5. N \in T
  BY <1>1, <1>4
<1>6. PICK o : OriginTo(posts, o, N)
  BY <1>5 DEF T
<1>7. IsOrigin(o)
  BY <1>1, <1>6 DEF OriginTo
<1>8. Origin(posts) = CHOOSE f : IsOrigin(f)
  BY DEF Origin
<1>9. IsOrigin(Origin(posts))
  BY <1>7, <1>8
<1> DEFINE f == Origin(posts)
<1>10. \A j \in 1 .. N : f[j] = IF j \in FirstPosts(posts) THEN j ELSE f[Nearest(posts, j)]
  BY <1>1, <1>9
<1>11. f = [j \in 1 .. N |-> f[j]]
  BY <1>1, <1>9
<1> HIDE DEF f, IsOrigin
<1>12. \A j \in 1 .. N : f[j] \in Nat
  <2> DEFINE U == {n \in 0 .. N : \A j \in 1 .. n : f[j] \in Nat}
  <2>1. 0 \in U
    BY <1>1
  <2>2. ASSUME NEW n \in 1 .. N, n - 1 \in U PROVE n \in U
    <3>1. \A j \in 1 .. n : j \in 1 .. (n - 1) \/ j = n
      BY <1>1
    <3>2. n \notin FirstPosts(posts) => Nearest(posts, n) \in 1 .. (n - 1)
      BY NearestIs
    <3>3. f[n] \in Nat
      BY <1>1, <1>10, <2>2, <3>2
    <3> QED
      BY <1>1, <2>2, <3>1, <3>3
  <2> HIDE DEF U
  <2>3. \A n \in 0 .. N : n \in U
    BY <1>1, <2>1, <2>2, UpTo
  <2>4. N \in U
    BY <1>1, <2>3
  <2> QED
    BY <2>4 DEF U
<1> QED
  BY <1>10, <1>11, <1>12 DEF OriginTo, f

\* A reply goes back to a first post before it, and those of the same name are before it too.
LEMMA OriginWell ==
  ASSUME NEW posts \in Seq(Sayings), RepliesFollow(posts), NEW f, f = Origin(posts)
  PROVE  /\ \A j \in 1 .. Len(posts) : f[j] \in FirstPosts(posts) /\ f[j] \in 1 .. j
         /\ \A j \in 1 .. Len(posts), i \in FirstPosts(posts) :
              j \notin FirstPosts(posts) /\ posts[i].id = posts[f[j]].id => i < j
<1> DEFINE N == Len(posts)
           Good(j) == /\ f[j] \in FirstPosts(posts) /\ f[j] \in 1 .. j
                      /\ \A i \in FirstPosts(posts) :
                           j \notin FirstPosts(posts) /\ posts[i].id = posts[f[j]].id => i < j
           T == {n \in 0 .. N : \A j \in 1 .. n : Good(j)}
<1>1. DOMAIN posts = 1 .. N /\ N \in Nat /\ FirstPosts(posts) \subseteq 1 .. N /\ \A j \in 1 .. N : posts[j] \in Sayings
  BY DEF FirstPosts
<1>2. \A j \in 1 .. N : f[j] = IF j \in FirstPosts(posts) THEN j ELSE f[Nearest(posts, j)]
  BY OriginIs DEF OriginTo
<1>3. 0 \in T
  BY <1>1
<1>4. ASSUME NEW n \in 1 .. N, n - 1 \in T PROVE n \in T
  <2>1. \A j \in 1 .. n : j \in 1 .. (n - 1) \/ j = n
    BY <1>1
  <2>2. \A j \in 1 .. (n - 1) : Good(j)
    BY <1>4
  <2>3. CASE n \in FirstPosts(posts)
    <3>1. f[n] = n /\ n \in 1 .. n
      BY <1>1, <1>2, <2>3
    <3> QED
      BY <1>1, <2>1, <2>2, <2>3, <3>1
  <2>4. CASE n \notin FirstPosts(posts)
    <3>1. PICK p : p = Nearest(posts, n)
      OBVIOUS
    <3>2. p \in 1 .. (n - 1) /\ posts[p].id = posts[n].reply /\ f[n] = f[p]
      BY <1>2, <2>4, <3>1, NearestIs
    <3>3. f[p] \in FirstPosts(posts) /\ f[p] \in 1 .. p
      BY <2>2, <3>2
    <3>4. f[n] \in FirstPosts(posts) /\ f[n] \in 1 .. n
      BY <1>1, <3>2, <3>3
    <3>5. ASSUME NEW i \in FirstPosts(posts), posts[i].id = posts[f[n]].id PROVE i < n
      <4>1. CASE p \in FirstPosts(posts)
        <5>1. f[p] = p
          BY <1>1, <1>2, <4>1
        <5>2. i \in AnsweredBy(posts, n)
          BY <1>1, <3>2, <3>5, <5>1 DEF AnsweredBy
        <5> QED
          BY <1>1, <2>4, <5>2 DEF RepliesFollow
      <4>2. CASE p \notin FirstPosts(posts)
        <5>1. i < p
          BY <2>2, <3>2, <3>5, <4>2
        <5> QED
          BY <1>1, <3>2, <5>1
      <4> QED
        BY <4>1, <4>2
    <3>6. Good(n)
      BY <3>4, <3>5
    <3> QED
      BY <1>1, <2>1, <2>2, <3>6
  <2> QED
    BY <2>3, <2>4
<1> HIDE DEF T
<1>5. \A n \in 0 .. N : n \in T
  BY <1>1, <1>3, <1>4, UpTo
<1>6. N \in T
  BY <1>1, <1>5
<1>7. \A j \in 1 .. N : Good(j)
  BY <1>6 DEF T
<1> QED
  BY <1>7

-----------------------------------------------------------------------------
(* The list of a thread *)

UpIn(mine, j) == {i \in mine : i <= j}

\* Each place has a rank of its own among mine.
Ranked(mine) ==
  /\ IsFiniteSet(mine) /\ mine \subseteq Nat
  /\ \A k \in 1 .. Cardinality(mine) : \E j \in mine : Cardinality(UpIn(mine, j)) = k
  /\ \A i, j \in mine : Cardinality(UpIn(mine, i)) = Cardinality(UpIn(mine, j)) => i = j
  /\ \A j \in mine : Cardinality(UpIn(mine, j)) <= Cardinality(mine)

LEMMA NoneListed ==
  ASSUME NEW posts
  PROVE  Ranked({}) /\ ListOf(posts, {}) = <<>>
<1>1. Cardinality({}) = 0 /\ IsFiniteSet({}) /\ 1 .. 0 = {}
  BY FS_EmptySet
<1>2. Ranked({})
  BY <1>1 DEF Ranked
<1>3. ListOf(posts, {}) = [k \in 1 .. 0 |-> posts[CHOOSE j \in {} : Cardinality({i \in {} : i <= j}) = k].id]
  BY <1>1 DEF ListOf
<1>4. ListOf(posts, {}) = <<>>
  BY <1>1, <1>3
<1> QED
  BY <1>2, <1>4

\* A place after all of mine is the last of the list.
LEMMA OneMoreListed ==
  ASSUME NEW posts, NEW mine, Ranked(mine), NEW n \in Nat, \A j \in mine : j < n
  PROVE  Ranked(mine \cup {n}) /\ ListOf(posts, mine \cup {n}) = Append(ListOf(posts, mine), posts[n].id)
<1> DEFINE more == mine \cup {n}
           c == Cardinality(mine)
           at(k) == CHOOSE j \in mine : Cardinality(UpIn(mine, j)) = k
           up(k) == CHOOSE j \in more : Cardinality(UpIn(more, j)) = k
<1>1. n \notin mine /\ IsFiniteSet(mine) /\ mine \subseteq Nat
  BY DEF Ranked
<1>2. c \in Nat /\ IsFiniteSet(more) /\ Cardinality(more) = c + 1
  BY <1>1, FS_CardinalityType, FS_AddElement
<1>0. \A i \in mine : i \in Nat /\ i < n
  BY <1>1
<1>3. UpIn(more, n) = more
  BY <1>0 DEF UpIn
<1>4. \A j \in mine : UpIn(more, j) = UpIn(mine, j)
  BY <1>0 DEF UpIn
<1>5. \A j \in mine : Cardinality(UpIn(mine, j)) \in Nat /\ Cardinality(UpIn(mine, j)) <= c
  <2> TAKE j \in mine
  <2>1. UpIn(mine, j) \in SUBSET mine
    BY DEF UpIn
  <2> QED
    BY <1>1, <2>1, FS_Subset, FS_CardinalityType DEF Ranked
<1>6. \A k \in 1 .. c : at(k) \in mine /\ Cardinality(UpIn(mine, at(k))) = k
  BY DEF Ranked
<1> HIDE DEF c, more
<1>7. \A j \in more : j \in mine \/ j = n
  BY DEF more
<1>8. n \in more /\ \A j \in mine : j \in more
  BY DEF more
<1>9. \A j \in mine : Cardinality(UpIn(more, j)) = Cardinality(UpIn(mine, j))
  BY <1>4
<1>10. Cardinality(UpIn(more, n)) = c + 1
  BY <1>2, <1>3
<1>11. \A i, j \in more : Cardinality(UpIn(more, i)) = Cardinality(UpIn(more, j)) => i = j
  <2> SUFFICES ASSUME NEW i \in more, NEW j \in more, Cardinality(UpIn(more, i)) = Cardinality(UpIn(more, j))
               PROVE  i = j
    OBVIOUS
  <2>1. CASE i \in mine /\ j \in mine
    BY <1>9, <2>1 DEF Ranked
  <2>2. CASE i = n /\ j \in mine
    <3>1. Cardinality(UpIn(more, j)) <= c /\ Cardinality(UpIn(more, j)) \in Nat
      BY <1>5, <1>9, <2>2
    <3>2. Cardinality(UpIn(more, j)) = c + 1
      BY <1>10, <2>2
    <3> QED
      BY <1>2, <3>1, <3>2
  <2>3. CASE i \in mine /\ j = n
    BY <1>2, <1>5, <1>9, <1>10, <2>3
  <2> QED
    BY <1>7, <2>1, <2>2, <2>3
<1>12. \A k \in 1 .. c + 1 : k \in 1 .. c \/ k = c + 1
  BY <1>2
<1>13. \A k \in 1 .. c + 1 : \E j \in more : Cardinality(UpIn(more, j)) = k
  <2> TAKE k \in 1 .. c + 1
  <2>1. CASE k \in 1 .. c
    BY <1>6, <1>8, <1>9, <2>1
  <2>2. CASE k = c + 1
    BY <1>8, <1>10, <2>2
  <2> QED
    BY <1>12, <2>1, <2>2
<1>14. Ranked(more)
  <2>1. more \subseteq Nat
    BY <1>1, <1>7
  <2>2. \A j \in more : Cardinality(UpIn(more, j)) <= c + 1
    BY <1>2, <1>5, <1>7, <1>9, <1>10
  <2> QED
    BY <1>2, <1>11, <1>13, <2>1, <2>2 DEF Ranked
<1>15. \A k \in 1 .. c + 1 : up(k) \in more /\ Cardinality(UpIn(more, up(k))) = k
  BY <1>13
<1>16. ASSUME NEW k \in 1 .. c PROVE up(k) = at(k)
  <2>1. k \in 1 .. c + 1 /\ at(k) \in more /\ Cardinality(UpIn(more, at(k))) = k
    BY <1>2, <1>6, <1>8, <1>9
  <2>2. up(k) \in more /\ Cardinality(UpIn(more, up(k))) = k
    BY <1>15, <2>1
  <2> HIDE DEF up, at
  <2> QED
    BY <1>11, <2>1, <2>2
<1>17. up(c + 1) = n
  <2>1. c + 1 \in 1 .. c + 1
    BY <1>2
  <2>2. up(c + 1) \in more /\ Cardinality(UpIn(more, up(c + 1))) = c + 1
    BY <1>15, <2>1
  <2> HIDE DEF up
  <2> QED
    BY <1>8, <1>10, <1>11, <2>2
<1>18. ListOf(posts, mine) = [k \in 1 .. c |-> posts[at(k)].id]
  BY DEF ListOf, UpIn, c
<1>19. ListOf(posts, more) = [k \in 1 .. c + 1 |-> posts[up(k)].id]
  BY <1>2 DEF ListOf, UpIn
<1> HIDE DEF up, at
<1>20. Append(ListOf(posts, mine), posts[n].id) = [k \in 1 .. c + 1 |-> IF k = c + 1 THEN posts[n].id ELSE posts[at(k)].id]
  <2> DEFINE X == {posts[at(k)].id : k \in 1 .. c}
  <2>1. ListOf(posts, mine) \in Seq(X) /\ Len(ListOf(posts, mine)) = c
    BY <1>2, <1>18
  <2>2. PICK s : s = ListOf(posts, mine)
    OBVIOUS
  <2>3. \A k \in 1 .. c : s[k] = posts[at(k)].id
    BY <1>18, <2>2
  <2>4. Append(s, posts[n].id) = [k \in 1 .. Len(s) + 1 |-> IF k = Len(s) + 1 THEN posts[n].id ELSE s[k]]
    BY <2>1, <2>2 
  <2> QED
    BY <1>2, <1>12, <2>1, <2>2, <2>3, <2>4
<1>21. \A k \in 1 .. c + 1 : posts[up(k)].id = IF k = c + 1 THEN posts[n].id ELSE posts[at(k)].id
  BY <1>2, <1>12, <1>16, <1>17
<1>22. ListOf(posts, more) = Append(ListOf(posts, mine), posts[n].id)
  BY <1>19, <1>20, <1>21
<1> QED
  BY <1>14, <1>22 DEF more

\* The threads after n posts: where the last post of each name goes back to, and the list of
\* each first post.
Mine(posts, f, r, n) == {j \in 1 .. n : j \notin FirstPosts(posts) /\ posts[f[j]].id = r}
FirstsTo(posts, n) == {j \in 1 .. n : j \in FirstPosts(posts)}
LastNamed(posts, n, j) == \A h \in 1 .. n : posts[h].id = posts[j].id => h <= j
HungTo(posts, f, t, n) ==
  /\ DOMAIN t.root = {posts[j].id : j \in 1 .. n}
  /\ \A j \in 1 .. n : LastNamed(posts, n, j) => t.root[posts[j].id] = posts[f[j]].id
  /\ DOMAIN t.lists = {posts[j].id : j \in FirstsTo(posts, n)}
  /\ \A r \in DOMAIN t.lists : Ranked(Mine(posts, f, r, n)) /\ t.lists[r] = ListOf(posts, Mine(posts, f, r, n))

LEMMA HungFirst ==
  ASSUME NEW posts \in Seq(Sayings), RepliesFollow(posts), NEW f, f = Origin(posts),
         NEW n \in 1 .. Len(posts), NEW t \in ThreadStates, HungTo(posts, f, t, n - 1),
         posts[n].reply = NoEvent
  PROVE  HungTo(posts, f, Thread(t, posts[n]), n)
<1> DEFINE e == posts[n]
           u == Thread(t, e)
<1>1. e \in Sayings /\ DOMAIN posts = 1 .. Len(posts) /\ Len(posts) \in Nat /\ n \in FirstPosts(posts)
  BY DEF FirstPosts
<1>2. /\ Hangs(t, e, u) /\ e.id \in Refs /\ <<>> \in Seq(Ids)
      /\ t.lists \in SomeOf(Refs, Seq(Ids)) /\ t.root \in SomeOf(Refs, Refs)
  BY <1>1, ThreadHangs
<1>3. u.lists = WithEntry(t.lists, e.id, <<>>) /\ u.root = WithEntry(t.root, e.id, e.id)
  BY <1>2 DEF Hangs
<1>4. IsWith(u.lists, t.lists, e.id, <<>>)
  <2>1. PICK none : none = <<>>
    OBVIOUS
  <2>2. none \in Seq(Ids) /\ u.lists = WithEntry(t.lists, e.id, none)
    BY <1>2, <1>3, <2>1
  <2>3. IsWith(u.lists, t.lists, e.id, none)
    BY <1>2, <2>2, WithIn
  <2> QED
    BY <2>1, <2>3
<1>5. IsWith(u.root, t.root, e.id, e.id)
  BY <1>2, <1>3, WithIn
<1>6. \A j \in 1 .. n : j \in 1 .. (n - 1) \/ j = n
  BY <1>1
<1>7. \A j \in 1 .. (n - 1) : j \in 1 .. n
  BY <1>1
<1>8. n \in 1 .. n /\ f[n] = n
  BY <1>1, OriginIs DEF OriginTo
<1> HIDE DEF u
<1>9. DOMAIN u.root = {posts[j].id : j \in 1 .. n}
  BY <1>5, <1>6, <1>7, <1>8 DEF HungTo, IsWith
<1>10. \A j \in 1 .. n : LastNamed(posts, n, j) => u.root[posts[j].id] = posts[f[j]].id
  <2> SUFFICES ASSUME NEW j \in 1 .. n, LastNamed(posts, n, j) PROVE u.root[posts[j].id] = posts[f[j]].id
    OBVIOUS
  <2>1. CASE posts[j].id = e.id
    <3>1. j = n
      BY <1>6, <1>8, <2>1 DEF LastNamed
    <3> QED
      BY <1>5, <1>8, <3>1 DEF IsWith
  <2>2. CASE posts[j].id # e.id
    <3>1. j \in 1 .. (n - 1)
      BY <1>6, <2>2
    <3>2. LastNamed(posts, n - 1, j)
      BY <1>7 DEF LastNamed
    <3>3. posts[j].id \in DOMAIN t.root /\ t.root[posts[j].id] = posts[f[j]].id
      BY <3>1, <3>2 DEF HungTo
    <3> QED
      BY <1>5, <2>2, <3>3 DEF IsWith
  <2> QED
    BY <2>1, <2>2
<1>11. DOMAIN u.lists = {posts[j].id : j \in FirstsTo(posts, n)}
  <2>1. FirstsTo(posts, n) = FirstsTo(posts, n - 1) \cup {n}
    BY <1>1, <1>6, <1>7, <1>8 DEF FirstsTo
  <2>2. DOMAIN t.lists = {posts[j].id : j \in FirstsTo(posts, n - 1)}
    BY DEF HungTo
  <2>3. DOMAIN u.lists = DOMAIN t.lists \cup {posts[n].id}
    BY <1>4 DEF IsWith
  <2> QED
    BY <2>1, <2>2, <2>3
<1>12. \A r : Mine(posts, f, r, n) = Mine(posts, f, r, n - 1)
  BY <1>1, <1>6, <1>7 DEF Mine
<1>13. ASSUME NEW r \in DOMAIN u.lists
       PROVE  Ranked(Mine(posts, f, r, n)) /\ u.lists[r] = ListOf(posts, Mine(posts, f, r, n))
  <2>1. CASE r = e.id
    <3>1. ASSUME NEW j \in Mine(posts, f, r, n - 1) PROVE FALSE
      <4>1. j \in 1 .. Len(posts) /\ j < n /\ j \notin FirstPosts(posts) /\ posts[f[j]].id = posts[n].id
        BY <1>1, <2>1 DEF Mine
      <4>2. n < j
        BY <1>1, <4>1, OriginWell
      <4> QED
        BY <4>1, <4>2
    <3>2. Mine(posts, f, r, n) = {}
      BY <1>12, <3>1
    <3>3. u.lists[r] = <<>>
      BY <1>4, <2>1 DEF IsWith
    <3> QED
      BY <3>2, <3>3, NoneListed
  <2>2. CASE r # e.id
    <3>1. r \in DOMAIN t.lists /\ u.lists[r] = t.lists[r]
      BY <1>4, <2>2 DEF IsWith
    <3> QED
      BY <1>12, <3>1 DEF HungTo
  <2> QED
    BY <2>1, <2>2
<1> QED
  BY <1>9, <1>10, <1>11, <1>13 DEF HungTo, u

LEMMA HungReply ==
  ASSUME NEW posts \in Seq(Sayings), RepliesFollow(posts), NEW f, f = Origin(posts),
         NEW n \in 1 .. Len(posts), NEW t \in ThreadStates, HungTo(posts, f, t, n - 1),
         posts[n].reply # NoEvent
  PROVE  HungTo(posts, f, Thread(t, posts[n]), n)
<1> DEFINE e == posts[n]
           u == Thread(t, e)
           s == posts[f[n]].id
<1>1. e \in Sayings /\ DOMAIN posts = 1 .. Len(posts) /\ Len(posts) \in Nat /\ n \notin FirstPosts(posts)
  BY DEF FirstPosts
<1>2. /\ Hangs(t, e, u) /\ e.id \in Refs /\ RootOf(t, e) \in Refs /\ Hung(t, e) \in Seq(Ids)
      /\ t.lists \in SomeOf(Refs, Seq(Ids)) /\ t.root \in SomeOf(Refs, Refs)
  BY <1>1, ThreadHangs
<1>3. u.lists = WithEntry(t.lists, RootOf(t, e), Hung(t, e)) /\ u.root = WithEntry(t.root, e.id, RootOf(t, e))
  BY <1>2 DEF Hangs
<1>4. IsWith(u.lists, t.lists, RootOf(t, e), Hung(t, e))
  BY <1>2, <1>3, WithIn
<1>5. IsWith(u.root, t.root, e.id, RootOf(t, e))
  BY <1>2, <1>3, WithIn
<1>6. \A j \in 1 .. n : j \in 1 .. (n - 1) \/ j = n
  BY <1>1
<1>7. (\A j \in 1 .. (n - 1) : j \in 1 .. n) /\ n \in 1 .. n /\ n \in Nat
  BY <1>1
<1>8. PICK p : p = Nearest(posts, n)
  OBVIOUS
<1>9. p \in 1 .. (n - 1) /\ posts[p].id = e.reply /\ f[n] = f[p]
  <2>1. f[n] = f[p]
    BY <1>1, <1>8, OriginIs DEF OriginTo
  <2> QED
    BY <1>1, <1>8, <2>1, NearestIs
<1> HIDE DEF u
<1>10. RootOf(t, e) = s
  <2>0. LastNamed(posts, n - 1, p)
    <3>1. \A h \in 1 .. Len(posts) : posts[h].id = posts[n].reply => h <= p
      BY <1>1, <1>8, NearestIs
    <3> QED
      BY <1>1, <1>9, <3>1 DEF LastNamed
  <2>1. e.reply \in DOMAIN t.root /\ t.root[e.reply] = posts[f[p]].id
    BY <1>9, <2>0 DEF HungTo
  <2> QED
    BY <1>9, <2>1 DEF RootOf
<1>11. s \in DOMAIN t.lists
  <2>1. p \in 1 .. Len(posts)
    BY <1>1, <1>9
  <2>2. f[p] \in FirstPosts(posts) /\ f[p] \in 1 .. p
    BY <2>1, OriginWell
  <2>3. f[p] \in FirstsTo(posts, n - 1)
    BY <1>1, <1>9, <2>2 DEF FirstsTo
  <2> QED
    BY <1>9, <2>3 DEF HungTo
<1>12. Hung(t, e) = Append(t.lists[s], e.id)
  BY <1>10, <1>11 DEF Hung
<1>13. DOMAIN u.root = {posts[j].id : j \in 1 .. n}
  BY <1>5, <1>6, <1>7 DEF HungTo, IsWith
<1>14. \A j \in 1 .. n : LastNamed(posts, n, j) => u.root[posts[j].id] = posts[f[j]].id
  <2> SUFFICES ASSUME NEW j \in 1 .. n, LastNamed(posts, n, j) PROVE u.root[posts[j].id] = posts[f[j]].id
    OBVIOUS
  <2>1. CASE posts[j].id = e.id
    <3>1. j = n
      BY <1>6, <1>7, <2>1 DEF LastNamed
    <3> QED
      BY <1>5, <1>10, <3>1 DEF IsWith
  <2>2. CASE posts[j].id # e.id
    <3>1. j \in 1 .. (n - 1)
      BY <1>6, <2>2
    <3>2. LastNamed(posts, n - 1, j)
      BY <1>7 DEF LastNamed
    <3>3. posts[j].id \in DOMAIN t.root /\ t.root[posts[j].id] = posts[f[j]].id
      BY <3>1, <3>2 DEF HungTo
    <3> QED
      BY <1>5, <2>2, <3>3 DEF IsWith
  <2> QED
    BY <2>1, <2>2
<1>15. DOMAIN u.lists = {posts[j].id : j \in FirstsTo(posts, n)}
  <2>1. FirstsTo(posts, n) = FirstsTo(posts, n - 1)
    BY <1>1, <1>6, <1>7 DEF FirstsTo
  <2>2. DOMAIN u.lists = DOMAIN t.lists
    BY <1>4, <1>10, <1>11 DEF IsWith
  <2> QED
    BY <2>1, <2>2 DEF HungTo
<1>16. ASSUME NEW r \in DOMAIN u.lists
       PROVE  Ranked(Mine(posts, f, r, n)) /\ u.lists[r] = ListOf(posts, Mine(posts, f, r, n))
  <2>1. r \in DOMAIN t.lists
    BY <1>4, <1>10, <1>11 DEF IsWith
  <2>2. PICK mine : mine = Mine(posts, f, r, n - 1)
    OBVIOUS
  <2>3. Ranked(mine) /\ t.lists[r] = ListOf(posts, mine)
    BY <2>1, <2>2 DEF HungTo
  <2>4. CASE r = s
    <3>1. Mine(posts, f, r, n) = mine \cup {n}
      BY <1>1, <1>6, <1>7, <2>2, <2>4 DEF Mine
    <3>2. \A j \in mine : j < n
      BY <1>7, <2>2 DEF Mine
    <3>3. u.lists[r] = Append(t.lists[r], posts[n].id)
      BY <1>4, <1>10, <1>12, <2>4 DEF IsWith
    <3>4. Ranked(mine \cup {n}) /\ ListOf(posts, mine \cup {n}) = Append(ListOf(posts, mine), posts[n].id)
      BY <1>7, <2>3, <3>2, OneMoreListed
    <3> QED
      BY <2>3, <3>1, <3>3, <3>4
  <2>5. CASE r # s
    <3>1. Mine(posts, f, r, n) = mine
      BY <1>6, <1>7, <2>2, <2>5 DEF Mine
    <3>2. u.lists[r] = t.lists[r]
      BY <1>4, <1>10, <2>1, <2>5 DEF IsWith
    <3> QED
      BY <2>3, <3>1, <3>2
  <2> QED
    BY <2>4, <2>5
<1> QED
  BY <1>13, <1>14, <1>15, <1>16 DEF HungTo, u

LEMMA ThreadsRight ==
  ASSUME ProjectBoard.posts \in Seq(Sayings)
  PROVE  ThreadsGoBack
<1>1. PICK posts : posts = ProjectBoard.posts
  OBVIOUS
<1>2. SUFFICES ASSUME RepliesFollow(posts)
      PROVE  Threads(posts) = [r \in {posts[i].id : i \in FirstPosts(posts)} |-> ListOf(posts, RepliesTo(posts, r))]
  BY <1>1 DEF ThreadsGoBack
<1>3. posts \in Seq(Sayings)
  BY <1>1
<1>4. PICK A : ThreadSteps(posts, A) /\ Threads(posts) = A[Len(posts)].lists
  BY <1>3, ThreadFolds
<1>5. PICK f : f = Origin(posts)
  OBVIOUS
<1> DEFINE N == Len(posts)
           T == {n \in 0 .. N : HungTo(posts, f, A[n], n)}
<1>6. N \in Nat /\ DOMAIN posts = 1 .. N /\ A \in [0 .. N -> ThreadStates]
  BY <1>3, <1>4 DEF ThreadSteps
<1>7. 0 \in T
  <2>1. DOMAIN A[0].root = {} /\ DOMAIN A[0].lists = {} /\ 1 .. 0 = {}
    BY <1>4 DEF ThreadSteps, NoThreads
  <2>2. FirstsTo(posts, 0) = {}
    BY <2>1 DEF FirstsTo
  <2>3. HungTo(posts, f, A[0], 0)
    BY <2>1, <2>2 DEF HungTo
  <2> QED
    BY <1>6, <2>3
<1>8. ASSUME NEW n \in 1 .. N, n - 1 \in T PROVE n \in T
  <2>1. n \in 0 .. N /\ n - 1 \in 0 .. N /\ A[n] = Thread(A[n - 1], posts[n])
    BY <1>4, <1>6 DEF ThreadSteps
  <2>2. A[n - 1] \in ThreadStates /\ HungTo(posts, f, A[n - 1], n - 1)
    BY <1>6, <1>8, <2>1
  <2>3. HungTo(posts, f, Thread(A[n - 1], posts[n]), n)
    BY <1>2, <1>3, <1>5, <2>2, HungFirst, HungReply
  <2> QED
    BY <2>1, <2>3
<1> HIDE DEF T
<1>9. \A n \in 0 .. N : n \in T
  BY <1>6, <1>7, <1>8, UpTo
<1>10. N \in T
  BY <1>6, <1>9
<1>11. HungTo(posts, f, A[N], N)
  BY <1>10 DEF T
<1>12. FirstsTo(posts, N) = FirstPosts(posts) /\ \A r : Mine(posts, f, r, N) = RepliesTo(posts, r)
  BY <1>5, <1>6 DEF FirstsTo, FirstPosts, Mine, RepliesTo
<1>13. A[N].lists \in SomeOf(Refs, Seq(Ids))
  <2>1. A[N] \in ThreadStates
    BY <1>6
  <2> QED
    BY <2>1 DEF ThreadStates
<1>14. A[N].lists = [r \in DOMAIN A[N].lists |-> A[N].lists[r]]
  BY <1>13 DEF SomeOf
<1> QED
  BY <1>4, <1>11, <1>12, <1>14 DEF HungTo

-----------------------------------------------------------------------------

\* What a board, its threads and its directory say is what the labs said under the
\* contract: posts of members while it was open, replies where they go back to, subjects
\* by their last word; in whatever order the letters came, were lost or were pulled again
\* (project_board, threads, project_profiles).
THEOREM BoardAlwaysSaysWhatWasSaid == BoardSpec => []BoardSaysWhatWasSaid
<1>1. BoardInit => PostInv /\ RoundInv /\ OwnWords
  BY PostFirst, RoundFirst, OwnFirst
<1>2. PostInv /\ RoundInv /\ OwnWords /\ [BoardNext]_boardAll => PostInv' /\ RoundInv' /\ OwnWords'
  BY PostNext, RoundNext, OwnNext
<1>3. PostInv /\ RoundInv /\ OwnWords => BoardSaysWhatWasSaid
  BY LoadedWell, ContractFollowed, ThreadsRight, DirectoryRight DEF BoardSaysWhatWasSaid
<1> QED
  BY <1>1, <1>2, <1>3, PTL DEF BoardSpec, boardAll

-----------------------------------------------------------------------------
(* Types *)

\* A number comes to a door once, a door has the numbers that came, and a round pulls
\* what it planned.
CameOnce(R, W) == IsInjective(R) /\ ToSet(R) = {n \in QuadNumbers : W[n] # NoEvent}
DoorsInv ==
  /\ \A l \in Lab : CameOnce(raised[l], wall[l])
  /\ DOMAIN round.results \subseteq round.planned

LEMMA DoorsFirst == BoardInit => DoorsInv
<1> SUFFICES ASSUME BoardInit PROVE DoorsInv
  OBVIOUS
<1>1. ASSUME NEW l \in Lab PROVE CameOnce(raised[l], wall[l])
  <2>1. raised[l] = <<>> /\ \A n \in QuadNumbers : wall[l][n] = NoEvent
    BY DEF BoardInit
  <2>2. DOMAIN raised[l] = {}
    BY <2>1
  <2> QED
    BY <2>1, <2>2 DEF CameOnce, IsInjective, ToSet
<1>2. DOMAIN round.results = {}
  BY DEF BoardInit, NoRound
<1> QED
  BY <1>1, <1>2 DEF DoorsInv

LEMMA CameAppended ==
  ASSUME NEW R \in Seq(QuadNumbers), NEW W, NEW V, CameOnce(R, W), NEW n \in QuadNumbers, W[n] = NoEvent,
         V[n] # NoEvent, \A m \in QuadNumbers : m # n => V[m] = W[m]
  PROVE  CameOnce(Append(R, n), V)
<1>1. /\ Len(R) \in Nat /\ DOMAIN R = 1 .. Len(R) /\ DOMAIN Append(R, n) = 1 .. Len(R) + 1
      /\ Append(R, n)[Len(R) + 1] = n /\ \A i \in 1 .. Len(R) : Append(R, n)[i] = R[i]
  OBVIOUS
<1>2. \A i \in 1 .. Len(R) : R[i] # n
  BY <1>1 DEF CameOnce, ToSet
<1>3. \A i \in 1 .. Len(R) + 1 : i \in 1 .. Len(R) \/ i = Len(R) + 1
  BY <1>1
<1>4. IsInjective(Append(R, n))
  BY <1>1, <1>2, <1>3 DEF CameOnce, IsInjective
<1>5. ToSet(Append(R, n)) = ToSet(R) \cup {n}
  BY InAppended
<1> QED
  BY <1>4, <1>5 DEF CameOnce

LEMMA DoorsRaise ==
  ASSUME RoundInv, DoorsInv, NEW l \in Lab, NEW n \in QuadNumbers, NEW e \in Sayings, Raise(l, n, e), round' = round
  PROVE  DoorsInv'
<1>1. CASE wall[l][n] = NoEvent
  <2>1. wall' = [wall EXCEPT ![l][n] = e] /\ raised' = [raised EXCEPT ![l] = Append(@, n)]
    BY <1>1 DEF Raise
  <2>2. wall \in [Lab -> [QuadNumbers -> EventOr]] /\ raised \in [Lab -> Seq(QuadNumbers)] /\ e \in EventOr /\ e # NoEvent
    BY BoardAssumption DEF RoundInv, RoundTypes, EventOr
  <2>3. wall'[l][n] = e /\ \A k \in Lab, m \in QuadNumbers : k # l \/ m # n => wall'[k][m] = wall[k][m]
    BY <2>1, <2>2, PutAt
  <2>4. raised'[l] = Append(raised[l], n) /\ \A k \in Lab : k # l => raised'[k] = raised[k]
    BY <2>1, <2>2
  <2>5. CameOnce(raised'[l], wall'[l])
    <3>1. CameOnce(raised[l], wall[l]) /\ raised[l] \in Seq(QuadNumbers)
      BY <2>2 DEF DoorsInv
    <3>2. wall'[l][n] # NoEvent /\ \A m \in QuadNumbers : m # n => wall'[l][m] = wall[l][m]
      BY <2>2, <2>3
    <3>3. CameOnce(Append(raised[l], n), wall'[l])
      BY <1>1, <3>1, <3>2, CameAppended
    <3> QED
      BY <2>4, <3>3
  <2>6. ASSUME NEW k \in Lab, k # l PROVE CameOnce(raised'[k], wall'[k])
    BY <2>3, <2>4, <2>6 DEF DoorsInv, CameOnce
  <2> QED
    BY <2>5, <2>6 DEF DoorsInv
<1>2. CASE wall[l][n] # NoEvent
  BY <1>2 DEF Raise, DoorsInv
<1> QED
  BY <1>1, <1>2

LEMMA DoorsAside ==
  ASSUME DoorsInv, UNCHANGED <<wall, raised>>, DOMAIN round'.results \subseteq round'.planned
  PROVE  DoorsInv'
BY DEF DoorsInv

LEMMA DoorsNext ==
  ASSUME PostInv, RoundInv, DoorsInv, [BoardNext]_boardAll
  PROVE  DoorsInv'
<1>1. ASSUME NEW l \in Lab,
             \/ (\E e \in Prepared : Prepare(l, e)) \/ PrepareStep(l) \/ PrepareEnds(l)
             \/ \E n \in QuadNumbers : ShelfDamage(l, n) \/ \E p \in Pusher : PushRead(p, l, n)
      PROVE  UNCHANGED <<wall, raised, round>>
  BY <1>1 DEF Prepare, PrepareStep, PrepareEnds, ShelfDamage, PushRead
<1>2. ASSUME NEW p \in Pusher, PushSave(p) PROVE UNCHANGED <<wall, raised, round>>
  BY <1>2 DEF PushSave
<1>3. ASSUME RoundCut \/ UNCHANGED boardAll PROVE UNCHANGED <<wall, raised, round>>
  BY <1>3 DEF RoundCut, boardAll, boardVars
<1>4. ASSUME UNCHANGED <<wall, raised, round>> PROVE DoorsInv'
  BY <1>4, DoorsAside DEF DoorsInv
<1>5. ASSUME NEW l \in Lab, NEW e \in Sayings, RawPost(l, e) PROVE DoorsInv'
  <2>1. Raise(l, NextQuad(l), e) /\ round' = round /\ NextQuad(l) <= MaxQuad
    BY <1>5 DEF RawPost
  <2> QED
    BY <2>1, NextIsFree, DoorsRaise
<1>6. ASSUME NEW p \in Pusher, PushSend(p) PROVE DoorsInv'
  <2>0. PICK l, n, e : l = pushing[p].lab /\ n = pushing[p].n /\ e = quads[l][n].event
    OBVIOUS
  <2>1. round' = round /\ pushing[p].pc = "send"
    BY <1>6 DEF PushSend
  <2>2. pushing[p] # BoardIdle
    BY <2>1 DEF BoardIdle
  <2>3. l \in Lab /\ n \in QuadNumbers
    BY <2>0, <2>2, PushingIs DEF PostInv
  <2>4. e \in Sayings
    BY <2>0, <2>2, <2>3 DEF PostInv, Knows, OneEvent
  <2>5. Raise(l, n, e) \/ UNCHANGED <<wall, raised>>
    BY <1>6, <2>0 DEF PushSend
  <2> QED
    BY <1>4, <2>1, <2>3, <2>4, <2>5, DoorsRaise
<1>7. ASSUME NEW l \in Lab, PullDoor(l) PROVE DoorsInv'
  <2>1. UNCHANGED <<wall, raised>> /\ l \in Untried
    BY <1>7 DEF PullDoor
  <2>2. PICK results, there :
          /\ DOMAIN results = DOMAIN round.results \cup {l}
          /\ round' = [round EXCEPT !.results = results, !.there = there]
    BY <1>7 DEF PullDoor
  <2>3. round = [status |-> round.status, planned |-> round.planned, results |-> round.results, there |-> round.there]
    BY DEF RoundInv, RoundTypes
  <2>4. round'.results = results /\ round'.planned = round.planned
    BY <2>2, <2>3
  <2> QED
    BY <2>1, <2>2, <2>4, DoorsAside DEF DoorsInv, Untried
<1>8. ASSUME RoundStarts PROVE DoorsInv'
  <2>1. UNCHANGED <<wall, raised>> /\ round'.results = <<>>
    BY <1>8 DEF RoundStarts
  <2>2. DOMAIN round'.results = {}
    BY <2>1
  <2> QED
    BY <2>1, <2>2, DoorsAside
<1>9. ASSUME RoundEnds PROVE DoorsInv'
  <2>1. UNCHANGED <<wall, raised>> /\ round' = [round EXCEPT !.status = "complete"]
    BY <1>9 DEF RoundEnds
  <2>2. round = [status |-> round.status, planned |-> round.planned, results |-> round.results, there |-> round.there]
    BY DEF RoundInv, RoundTypes
  <2>3. round'.results = round.results /\ round'.planned = round.planned
    BY <2>1, <2>2
  <2> QED
    BY <2>1, <2>3, DoorsAside DEF DoorsInv
<1> QED
  BY <1>1, <1>2, <1>3, <1>4, <1>5, <1>6, <1>7, <1>8, <1>9 DEF BoardNext

\* What is at a door was said, a reader has nothing of a number that no door has, a number
\* comes to a door once, and a round has results of doors that it planned.
THEOREM BoardTypesAlways == BoardSpec => []BoardTypeOK
<1>1. BoardInit => PostInv /\ RoundInv /\ DoorsInv
  BY PostFirst, RoundFirst, DoorsFirst
<1>2. PostInv /\ RoundInv /\ DoorsInv /\ [BoardNext]_boardAll => PostInv' /\ RoundInv' /\ DoorsInv'
  BY PostNext, RoundNext, DoorsNext
<1>3. RoundInv /\ DoorsInv => BoardTypeOK
  <2> SUFFICES ASSUME RoundInv, DoorsInv PROVE BoardTypeOK
    OBVIOUS
  <2>1. ASSUME NEW l \in Lab, NEW n \in QuadNumbers
        PROVE  /\ wall[l][n] \in Sayings \cup {NoEvent}
               /\ shelf[l][n] \in {"none", "part", "damaged", "whole"}
               /\ shelf[l][n] # "none" => wall[l][n] # NoEvent
    BY DEF RoundInv, RoundTypes, EventOr, ShelfStates, DoorOrder, There
  <2>2. \A l \in Lab : IsInjective(raised[l]) /\ ToSet(raised[l]) = OnWall(l)
    BY DEF DoorsInv, CameOnce, OnWall
  <2> QED
    BY <2>1, <2>2 DEF BoardTypeOK, DoorsInv
<1> QED
  BY <1>1, <1>2, <1>3, PTL DEF BoardSpec, boardAll
=============================================================================
