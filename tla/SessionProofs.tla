---------------------------- MODULE SessionProofs ----------------------------
(***************************************************************************)
(* For any cells, processes and roles: what is written stands; a cell      *)
(* whose commands come one after the other has one open session, reads     *)
(* from it on, and what it declares it has declared in that; an alarm that *)
(* can be seen is that of somebody who might sound it, and who is said to  *)
(* be at work is; an inbox gives what was sent to this holder of an        *)
(* address, and all of it.  At the end, the types of a workspace.          *)
(***************************************************************************)
EXTENDS WorkspaceProofs

-----------------------------------------------------------------------------
(* Which steps touch the sessions *)

\* Who begins while another process of its cell is under way makes the cell raced.
Enters(p) == /\ raced \subseteq raced'
             /\ at[p] # Idle \/ Others(p) = {} \/ CellOf[p] \in raced'

\* A step of p that has nothing to do with the file of a session.
Quiet(p) == /\ files' = files
            /\ Enters(p)
            /\ \E s : s.pc \notin {"start", "write", "note", "end"} /\ at' = [at EXCEPT ![p] = s]

SessionMove(p) ==
  \/ Quiet(p)
  \/ \E cmd, role, address : Gate(p, cmd, role, address)
  \/ ChooseSid(p)
  \/ WriteSession(p)
  \/ \E cmd \in {"note", "end"} : Load(p, cmd)
  \/ Save(p)

LEMMA BeginsEnters ==
  ASSUME NEW p, Begins(p)
  PROVE  Enters(p)
<1> QED
  BY DEF Begins, Enters

LEMMA GateMoves ==
  ASSUME NEW p, NEW cmd, NEW role, NEW address, Gate(p, cmd, role, address)
  PROVE  /\ files' = files /\ Enters(p)
         /\ ~Refused(CellOf[p], role)
         /\ \E s : /\ at' = [at EXCEPT ![p] = s]
                   /\ s.pc \in {"cursor", "idle", "start"}
                   /\ s.pc = "start" => ~Continues(CellOf[p], role)
<1>1. CASE Continues(CellOf[p], role)
  <2>1. CASE cmd = "join"
    <3> DEFINE s == [pc |-> "cursor", started |-> FALSE, address |-> address]
    <3>1. s.pc = "cursor" /\ at' = [at EXCEPT ![p] = s]
      BY <1>1, <2>1 DEF Gate, Go
    <3> HIDE DEF s
    <3> QED
      BY <3>1, BeginsEnters DEF Gate
  <2>2. CASE cmd # "join"
    <3>1. Idle.pc = "idle" /\ at' = [at EXCEPT ![p] = Idle]
      BY <1>1, <2>2 DEF Gate, Go, Idle
    <3> QED
      BY <3>1, BeginsEnters DEF Gate
  <2> QED
    BY <2>1, <2>2
<1>2. CASE ~Continues(CellOf[p], role)
  <2> DEFINE s == [pc |-> "start", cmd |-> cmd, role |-> role, address |-> address]
  <2>1. s.pc = "start" /\ at' = [at EXCEPT ![p] = s]
    BY <1>2 DEF Gate, Go
  <2> HIDE DEF s
  <2> QED
    BY <1>2, <2>1, BeginsEnters DEF Gate
<1> QED
  BY <1>1, <1>2

LEMMA SessionSteps ==
  ASSUME [Next]_workspaceVars
  PROVE  \/ \E p \in Process : SessionMove(p)
         \/ UNCHANGED <<files, at, raced>>
<1>1. CASE UNCHANGED sessionVars
  BY <1>1 DEF sessionVars
<1>2. CASE SessionStep
  <2> SUFFICES ASSUME NEW p \in Process,
                      \/ \E j \in Joins : Gate(p, "join", j.role, j.address)
                      \/ \E role \in Role : Gate(p, "start", role, NoOne)
                      \/ ChooseSid(p) \/ WriteSession(p) \/ SetCursor(p) \/ Forget(p)
                      \/ \E brain \in {"model", NoOne} : ReadPresence(p, brain)
                      \/ WritePresence(p)
                      \/ Load(p, "note") \/ Load(p, "end") \/ Save(p)
                      \/ ProcessDies(p)
               PROVE  SessionMove(p)
    BY <1>2 DEF SessionStep
  <2>1. CASE SetCursor(p) \/ Forget(p)
    BY <2>1 DEF SetCursor, Forget, GoOn, Go, Idle, SessionMove, Quiet, Enters
  <2>2. ASSUME NEW brain, ReadPresence(p, brain)
        PROVE  Quiet(p)
    <3>1. Enters(p)
      BY <2>2, BeginsEnters DEF ReadPresence, Enters, Idle
    <3>2. \E x, y, z : at' = [at EXCEPT ![p] = [pc |-> "present", started |-> x, address |-> y, entry |-> z]]
      BY <2>2, Zenon DEF ReadPresence, Go
    <3> QED
      BY <2>2, <3>1, <3>2 DEF ReadPresence, Quiet
  <2>3. CASE WritePresence(p)
    BY <2>3 DEF WritePresence, GoOn, Go, Idle, SessionMove, Quiet, Enters
  <2>4. CASE ProcessDies(p)
    BY <2>4 DEF ProcessDies, Go, Idle, SessionMove, Quiet, Enters
  <2> QED
    BY <2>1, <2>2, <2>3, <2>4 DEF SessionMove
<1>3. CASE HubStep
  <2>1. ASSUME NEW p \in Process, ReadRegistry(p)
        PROVE  Quiet(p)
    <3>1. \/ at' = [at EXCEPT ![p] = Idle]
          \/ \E x, y : at' = [at EXCEPT ![p] = [pc |-> "enter", started |-> x, entry |-> y]]
      BY <2>1, Zenon DEF ReadRegistry, Go
    <3> QED
      BY <2>1, <3>1 DEF ReadRegistry, Idle, Quiet, Enters
  <2>2. ASSUME NEW p \in Process, WriteRegistry(p) \/ JoinHub(p)
        PROVE  Quiet(p)
    BY <2>2 DEF WriteRegistry, JoinHub, Go, Idle, Quiet, Enters
  <2>3. ASSUME NEW c \in Cell, Leave(c) \/ ReadPage(c) \/ \E l \in live : HubRead(c, l)
        PROVE  UNCHANGED sessionVars
    BY <2>3 DEF Leave, ReadPage, HubRead
  <2>4. ASSUME NEW m, HubSend(m.from, m.to, m.body, m.key)
        PROVE  UNCHANGED sessionVars
    BY <2>4 DEF HubSend
  <2> QED
    BY <1>1, <1>3, <2>1, <2>2, <2>3, <2>4 DEF HubStep, SessionMove
<1>4. ASSUME NEW m, Sound(m.from, m.to, m.body)
      PROVE  UNCHANGED sessionVars
  BY <1>4 DEF Sound
<1>5. CASE UNCHANGED workspaceVars
  BY <1>5 DEF workspaceVars, sessionVars
<1> QED
  BY <1>1, <1>2, <1>3, <1>4, <1>5 DEF Next

-----------------------------------------------------------------------------
(* The files of a cell *)

\* A cell that is not raced has one process under way; what that has read of the
\* sessions is still so.
SessInv ==
  /\ at = [p \in Process |-> at[p]]
  /\ IsFiniteSet(DOMAIN files)
  /\ \A p, q \in Process :
       CellOf[p] = CellOf[q] /\ CellOf[p] \notin raced /\ at[p] # Idle /\ at[q] # Idle => p = q
  /\ \A p \in Process : at[p].pc \in {"note", "end"} =>
       at[p].id \in DOMAIN files /\ at[p].id[1] = Own(CellOf[p])
  /\ \A p \in Process : CellOf[p] \notin raced =>
       /\ at[p].pc \in {"start", "write"} => OpenOf(CellOf[p]) = {}
       /\ at[p].pc = "write" => <<Own(CellOf[p]), at[p].sid>> \notin DOMAIN files
       /\ at[p].pc \in {"note", "end"} => files[at[p].id].open
  /\ \A c \in Cell \ raced : \A i, j \in OpenOf(c) : i = j

\* A name that no file has is found.
LEMMA FreeSidIsFree ==
  ASSUME IsFiniteSet(DOMAIN files), NEW soma
  PROVE  /\ <<soma, FreeSid(soma)>> \notin DOMAIN files
         /\ FreeSid(soma)[1] = second /\ FreeSid(soma)[2] \in Nat
<1> DEFINE D == DOMAIN files
           M == Cardinality(D)
           S == 1 .. (M + 1)
           f == [n \in S |-> <<soma, <<second, n>>>>]
           Free == {n \in S : f[n] \notin D}
<1>1. M \in Nat
  BY FS_CardinalityType
<1>2. IsFiniteSet(S) /\ Cardinality(S) = M + 1
  <2>1. 1 \in Int /\ M + 1 \in Int /\ ~(1 > M + 1)
    BY <1>1
  <2> HIDE DEF M
  <2> QED
    BY <1>1, <2>1, FS_Interval
<1>3. \A m, n \in S : f[m] = f[n] => m = n
  OBVIOUS
<1>4. Free # {}
  <2> SUFFICES ASSUME \A n \in S : f[n] \in D
               PROVE  FALSE
    OBVIOUS
  <2>1. f \in [S -> D]
    OBVIOUS
  <2>2. M < Cardinality(S)
    BY <1>1, <1>2
  <2> HIDE DEF f, S, D
  <2>3. \E m, n \in S : m # n /\ f[m] = f[n]
    BY <1>2, <2>1, <2>2, FS_PigeonHole DEF D
  <2> QED
    BY <1>3, <2>3
<1>5. Free \in SUBSET Nat
  BY <1>1
<1> HIDE DEF M
<1>6. PICK n \in Free : \A k \in Free : n <= k
  <2> HIDE DEF Free
  <2> QED
    BY <1>4, <1>5, LowestExists
<1>7. \A m \in 1 .. (n - 1) : f[m] \in D
  BY <1>1, <1>6
<1> DEFINE Sids == {<<second, m>> : m \in S}
           Good(s) == /\ <<soma, s>> \notin DOMAIN files
                      /\ \A m \in 1 .. (s[2] - 1) : <<soma, <<second, m>>>> \in DOMAIN files
<1>8. \A m \in 1 .. (n - 1) : <<soma, <<second, m>>>> \in DOMAIN files
  BY <1>1, <1>6, <1>7
<1>9. <<second, n>> \in Sids /\ Good(<<second, n>>)
  BY <1>6, <1>8
<1>10. FreeSid(soma) = CHOOSE s \in Sids : Good(s)
  BY DEF FreeSid, M
<1>11. \A s \in Sids : s[1] = second /\ s[2] \in Nat
  OBVIOUS
<1> HIDE DEF Sids
<1>12. Good(FreeSid(soma)) /\ FreeSid(soma) \in Sids
  BY <1>9, <1>10
<1> QED
  BY <1>11, <1>12

\* The file of one cell is no other's.
Within(c) ==
  /\ DOMAIN files \subseteq DOMAIN files'
  /\ \A k : k[1] # Own(c) => /\ k \in DOMAIN files' <=> k \in DOMAIN files
                             /\ k \in DOMAIN files => files'[k] = files[k]

LEMMA Elsewhere ==
  ASSUME NEW c, NEW d, c # d, Within(c)
  PROVE  /\ OpenOf(d)' = OpenOf(d)
         /\ \A k : k[1] = Own(d) => /\ k \in DOMAIN files' <=> k \in DOMAIN files
                                    /\ k \in DOMAIN files => files'[k] = files[k]
<1>1. Own(d) # Own(c) /\ Old(d) # Own(c)
  BY DEF Own, Old
<1>2. OpenIn(Own(d))' = OpenIn(Own(d)) /\ OpenIn(Old(d))' = OpenIn(Old(d))
  BY <1>1 DEF OpenIn, Within, Own, Old
<1> QED
  BY <1>1, <1>2 DEF OpenOf, Within

LEMMA AloneStep ==
  ASSUME SessInv, NEW p \in Process, NEW s, Enters(p), at' = [at EXCEPT ![p] = s]
  PROVE  /\ at' = [q \in Process |-> at'[q]]
         /\ at'[p] = s
         /\ \A q \in Process \ {p} : at'[q] = at[q]
         /\ \A q, r \in Process :
              CellOf[q] = CellOf[r] /\ CellOf[q] \notin raced' /\ at'[q] # Idle /\ at'[r] # Idle => q = r
<1>1. /\ at' = [q \in Process |-> at'[q]]
      /\ at'[p] = s
      /\ \A q \in Process \ {p} : at'[q] = at[q]
  BY DEF SessInv
<1>2. ASSUME NEW q \in Process \ {p}, CellOf[q] = CellOf[p], CellOf[q] \notin raced', at'[q] # Idle
      PROVE  FALSE
  <2>1. at[q] # Idle /\ q \in Others(p)
    BY <1>1, <1>2 DEF Others
  <2>2. at[p] # Idle
    BY <1>2, <2>1 DEF Enters
  <2>3. CellOf[q] \notin raced
    BY <1>2 DEF Enters
  <2> QED
    BY <1>2, <2>1, <2>2, <2>3 DEF SessInv
<1>3. ASSUME NEW q \in Process \ {p}, NEW r \in Process \ {p}, CellOf[q] = CellOf[r],
             CellOf[q] \notin raced', at'[q] # Idle, at'[r] # Idle
      PROVE  q = r
  <2>1. CellOf[q] \notin raced /\ at[q] # Idle /\ at[r] # Idle
    BY <1>1, <1>3 DEF Enters
  <2> QED
    BY <1>3, <2>1 DEF SessInv
<1> QED
  BY <1>1, <1>2, <1>3

\* A step that leaves the files alone, and after which its process holds only what is so.
LEMMA SameFiles ==
  ASSUME SessInv, NEW p \in Process, NEW s, Enters(p), at' = [at EXCEPT ![p] = s], files' = files,
         s.pc \in {"note", "end"} => s.id \in DOMAIN files /\ s.id[1] = Own(CellOf[p]),
         CellOf[p] \notin raced' =>
           /\ s.pc \in {"start", "write"} => OpenOf(CellOf[p]) = {}
           /\ s.pc = "write" => <<Own(CellOf[p]), s.sid>> \notin DOMAIN files
           /\ s.pc \in {"note", "end"} => files[s.id].open
  PROVE  SessInv'
<1>1. raced \subseteq raced' /\ \A c : OpenOf(c)' = OpenOf(c)
  BY DEF Enters, OpenOf, OpenIn
<1>2. \A q \in Process : at'[q].pc \in {"note", "end"} =>
        at'[q].id \in DOMAIN files' /\ at'[q].id[1] = Own(CellOf[q])
  BY AloneStep DEF SessInv
<1>3. \A q \in Process : CellOf[q] \notin raced' =>
        /\ at'[q].pc \in {"start", "write"} => OpenOf(CellOf[q])' = {}
        /\ at'[q].pc = "write" => <<Own(CellOf[q]), at'[q].sid>> \notin DOMAIN files'
        /\ at'[q].pc \in {"note", "end"} => files'[at'[q].id].open
  <2> SUFFICES ASSUME NEW q \in Process, CellOf[q] \notin raced'
               PROVE  /\ at'[q].pc \in {"start", "write"} => OpenOf(CellOf[q]) = {}
                      /\ at'[q].pc = "write" => <<Own(CellOf[q]), at'[q].sid>> \notin DOMAIN files
                      /\ at'[q].pc \in {"note", "end"} => files[at'[q].id].open
    BY <1>1
  <2>1. CASE q = p
    BY <2>1, AloneStep
  <2>2. CASE q # p
    BY <1>1, <2>2, AloneStep DEF SessInv
  <2> QED
    BY <2>1, <2>2
<1>4. \A c \in Cell \ raced' : \A i, j \in OpenOf(c)' : i = j
  BY <1>1 DEF SessInv
<1> QED
  BY <1>2, <1>3, <1>4, AloneStep DEF SessInv

OneIn(c, f) == \A i, j \in DOMAIN f :
  i[1] \in {Own(c), Old(c)} /\ j[1] \in {Own(c), Old(c)} /\ f[i].open /\ f[j].open => i = j

LEMMA OneInIsOne ==
  ASSUME NEW c
  PROVE  OneIn(c, files') <=> \A i, j \in OpenOf(c)' : i = j
<1> QED
  BY DEF OneIn, OpenOf, OpenIn

\* A step that writes a file of its cell, and ends with nothing held.
LEMMA OneFile ==
  ASSUME SessInv, NEW p \in Process, at[p] # Idle, raced' = raced,
         at' = [at EXCEPT ![p] = at'[p]], at'[p].pc \in {"idle", "cursor"},
         Within(CellOf[p]), IsFiniteSet(DOMAIN files'),
         CellOf[p] \notin raced => OneIn(CellOf[p], files')
  PROVE  SessInv'
<1>3. Enters(p)
  BY DEF Enters
<1>4. \A q \in Process : at'[q].pc \in {"note", "end"} =>
        at'[q].id \in DOMAIN files' /\ at'[q].id[1] = Own(CellOf[q])
  BY <1>3, AloneStep DEF SessInv, Within
<1>5. ASSUME NEW q \in Process, CellOf[q] \notin raced
      PROVE  /\ at'[q].pc \in {"start", "write"} => OpenOf(CellOf[q])' = {}
             /\ at'[q].pc = "write" => <<Own(CellOf[q]), at'[q].sid>> \notin DOMAIN files'
             /\ at'[q].pc \in {"note", "end"} => files'[at'[q].id].open
  <2>1. CASE q = p
    BY <1>3, <2>1, AloneStep
  <2>2. CASE q # p /\ CellOf[q] = CellOf[p]
    <3>1. at[q] = Idle /\ at'[q] = at[q]
      BY <1>3, <1>5, <2>2, AloneStep DEF SessInv
    <3> QED
      BY <3>1 DEF Idle
  <2>3. CASE CellOf[q] # CellOf[p]
    <3>1. at'[q] = at[q]
      BY <1>3, <2>3, AloneStep
    <3>2. /\ OpenOf(CellOf[q])' = OpenOf(CellOf[q])
          /\ \A k : k[1] = Own(CellOf[q]) => /\ k \in DOMAIN files' <=> k \in DOMAIN files
                                             /\ k \in DOMAIN files => files'[k] = files[k]
      BY <2>3, Elsewhere
    <3>3. <<Own(CellOf[q]), at[q].sid>>[1] = Own(CellOf[q])
      OBVIOUS
    <3>4. /\ at[q].pc \in {"start", "write"} => OpenOf(CellOf[q]) = {}
          /\ at[q].pc = "write" => <<Own(CellOf[q]), at[q].sid>> \notin DOMAIN files
          /\ at[q].pc \in {"note", "end"} =>
               files[at[q].id].open /\ at[q].id \in DOMAIN files /\ at[q].id[1] = Own(CellOf[q])
      BY <1>5 DEF SessInv
    <3>5. at[q].pc \in {"start", "write"} => OpenOf(CellOf[q])' = {}
      BY <3>2, <3>4
    <3>6. at[q].pc = "write" => <<Own(CellOf[q]), at[q].sid>> \notin DOMAIN files'
      BY <3>2, <3>3, <3>4
    <3>7. at[q].pc \in {"note", "end"} => files'[at[q].id].open
      BY <3>2, <3>4
    <3> QED
      BY <3>1, <3>5, <3>6, <3>7
  <2> QED
    BY <2>1, <2>2, <2>3
<1>6. \A c \in Cell \ raced : \A i, j \in OpenOf(c)' : i = j
  <2> SUFFICES ASSUME NEW c \in Cell \ raced, c # CellOf[p]
               PROVE  \A i, j \in OpenOf(c)' : i = j
    BY OneInIsOne
  <2>1. OpenOf(c)' = OpenOf(c)
    BY Elsewhere
  <2> QED
    BY <2>1 DEF SessInv
<1> QED
  BY <1>3, <1>4, <1>5, <1>6, AloneStep DEF SessInv

-----------------------------------------------------------------------------
(* The names of the files *)

\* A session is named for a second that has been.
NameInv ==
  /\ \A i \in DOMAIN files : i = <<i[1], i[2]>> /\ i[2][1] \in 0 .. second /\ i[2][2] \in Nat
  /\ \A p \in Process : at[p].pc = "write" => at[p].sid[1] \in 0 .. second /\ at[p].sid[2] \in Nat

LEMMA SecondSteps ==
  ASSUME [Next]_workspaceVars
  PROVE  second' \in {second, second + 1}
<1>1. ASSUME NEW d, Post(d)
      PROVE  second' = second
  BY <1>1 DEF Post
<1>2. ASSUME NEW p \in Poster, Link(p) \/ Die(p)
      PROVE  second' = second
  BY <1>2 DEF Link, Die
<1>3. ASSUME NEW l \in live, Archive(l)
      PROVE  second' = second
  BY <1>3 DEF Archive
<1> QED
  BY MailSteps, <1>1, <1>2, <1>3

LEMMA FirstOpenIsOpen ==
  ASSUME NameInv, second \in Nat, NEW soma, OpenIn(soma) # {}
  PROVE  FirstOpen(soma) \in OpenIn(soma)
<1> DEFINE S == OpenIn(soma)
           Seconds == {i[2][1] : i \in S}
<1>1. \A i \in S : i[2][1] \in Nat /\ i[2][2] \in Nat
  BY DEF OpenIn, NameInv
<1>2. PICK t \in Seconds : \A u \in Seconds : t <= u
  <2>1. Seconds \in SUBSET Nat /\ Seconds # {}
    BY <1>1
  <2> HIDE DEF Seconds
  <2> QED
    BY <2>1, LowestExists
<1> DEFINE Of == {i \in S : i[2][1] = t}
           Numbers == {i[2][2] : i \in Of}
<1>3. PICK n \in Numbers : \A m \in Numbers : n <= m
  <2>1. Numbers \in SUBSET Nat /\ Numbers # {}
    BY <1>1
  <2> HIDE DEF Numbers
  <2> QED
    BY <2>1, LowestExists
<1>4. PICK i \in Of : i[2][2] = n
  OBVIOUS
<1>5. \A k \in S : t <= k[2][1] /\ (k[2][1] = t => n <= k[2][2])
  BY <1>2, <1>3
<1>6. \A k \in S : i[2][1] < k[2][1] \/ (i[2][1] = k[2][1] /\ i[2][2] <= k[2][2])
  BY <1>1, <1>4, <1>5
<1> HIDE DEF S
<1>7. i \in S
  BY <1>4
<1> QED
  BY <1>6, <1>7 DEF FirstOpen, S

-----------------------------------------------------------------------------
(* One step *)

LEMMA SessStep ==
  ASSUME SessInv, NameInv, second \in Nat, [Next]_workspaceVars
  PROVE  SessInv'
<1>1. ASSUME NEW p \in Process, Quiet(p)
      PROVE  SessInv'
  <2>1. PICK s : s.pc \notin {"start", "write", "note", "end"} /\ at' = [at EXCEPT ![p] = s]
    BY <1>1 DEF Quiet
  <2> QED
    BY <1>1, <2>1, SameFiles DEF Quiet
<1>2. ASSUME NEW p \in Process, NEW cmd, NEW role, NEW address, Gate(p, cmd, role, address)
      PROVE  SessInv'
  <2>1. /\ files' = files /\ Enters(p) /\ ~Refused(CellOf[p], role)
        /\ \E s : /\ at' = [at EXCEPT ![p] = s]
                  /\ s.pc \in {"cursor", "idle", "start"}
                  /\ s.pc = "start" => ~Continues(CellOf[p], role)
    BY <1>2, GateMoves
  <2>2. PICK s : /\ at' = [at EXCEPT ![p] = s]
                 /\ s.pc \in {"cursor", "idle", "start"}
                 /\ s.pc = "start" => ~Continues(CellOf[p], role)
    BY <2>1
  <2>3. s.pc = "start" => OpenOf(CellOf[p]) = {}
    BY <2>1, <2>2 DEF Refused
  <2> QED
    BY <2>1, <2>2, <2>3, SameFiles
<1>3. ASSUME NEW p \in Process, ChooseSid(p)
      PROVE  SessInv'
  <2> DEFINE soma == Own(CellOf[p])
  <2>1. at[p].pc = "start" /\ files' = files /\ raced' = raced /\ Enters(p)
    BY <1>3 DEF ChooseSid, Enters, Idle
  <2>2. CASE OpenIn(soma) # {}
    <3>1. at' = [at EXCEPT ![p] = Idle] /\ Idle.pc = "idle"
      BY <1>3, <2>2 DEF ChooseSid, Go, Idle
    <3> QED
      BY <2>1, <3>1, SameFiles
  <2>3. CASE OpenIn(soma) = {}
    <3> DEFINE s == [pc |-> "write", cmd |-> at[p].cmd, role |-> at[p].role,
                     address |-> at[p].address, sid |-> FreeSid(soma)]
    <3>1. at' = [at EXCEPT ![p] = s] /\ s.pc = "write" /\ s.sid = FreeSid(soma)
      BY <1>3, <2>3 DEF ChooseSid, Go
    <3> HIDE DEF s
    <3>2. <<soma, s.sid>> \notin DOMAIN files
      BY <3>1, FreeSidIsFree DEF SessInv
    <3>3. CellOf[p] \notin raced' => OpenOf(CellOf[p]) = {}
      BY <2>1 DEF SessInv
    <3> QED
      BY <2>1, <3>1, <3>2, <3>3, SameFiles
  <2> QED
    BY <2>2, <2>3
<1>4. ASSUME NEW p \in Process, WriteSession(p)
      PROVE  SessInv'
  <2> DEFINE n == <<Own(CellOf[p]), at[p].sid>>
             rec == [role |-> at[p].role, open |-> TRUE, last |-> at[p].sid[1], via |-> at[p].cmd]
  <2>1. /\ at[p].pc = "write" /\ at[p] # Idle /\ raced' = raced
        /\ files' = Put(files, n, rec)
    BY <1>4 DEF WriteSession, Idle
  <2> DEFINE s == IF at[p].cmd = "join"
                  THEN [pc |-> "cursor", started |-> TRUE, address |-> at[p].address] ELSE Idle
  <2>2. at' = [at EXCEPT ![p] = s]
    BY <1>4, Zenon DEF WriteSession, Go
  <2>6. s.pc \in {"idle", "cursor"}
    BY DEF Idle
  <2> HIDE DEF s
  <2> HIDE DEF rec
  <2>3. ASSUME CellOf[p] \notin raced
        PROVE  OpenOf(CellOf[p])' \subseteq {n}
    <3>1. OpenOf(CellOf[p]) = {}
      BY <2>1, <2>3 DEF SessInv
    <3> HIDE DEF n
    <3> QED
      BY <2>1, <3>1 DEF Put, OpenOf, OpenIn
  <2>4. CellOf[p] \notin raced => OneIn(CellOf[p], files')
    BY <2>3, OneInIsOne
  <2>5. /\ DOMAIN files' = DOMAIN files \cup {n}
        /\ \A k \in DOMAIN files : k # n => files'[k] = files[k]
    BY <2>1 DEF Put
  <2>7. n[1] = Own(CellOf[p])
    OBVIOUS
  <2> HIDE DEF n
  <2>8. Within(CellOf[p])
    BY <2>5, <2>7 DEF Within
  <2>9. IsFiniteSet(DOMAIN files')
    BY <2>5, FS_AddElement DEF SessInv
  <2>10. at' = [at EXCEPT ![p] = at'[p]] /\ at'[p] = s
    BY <2>2 DEF SessInv
  <2> QED
    BY <2>1, <2>4, <2>6, <2>8, <2>9, <2>10, OneFile
<1>5. ASSUME NEW p \in Process, NEW cmd \in {"note", "end"}, Load(p, cmd)
      PROVE  SessInv'
  <2> DEFINE i == FirstOpen(Own(CellOf[p]))
             s == [pc |-> cmd, id |-> i, rec |-> files[i]]
  <2>1. i \in OpenIn(Own(CellOf[p]))
    BY <1>5, FirstOpenIsOpen DEF Load
  <2> HIDE DEF i
  <2>2. i \in DOMAIN files /\ i[1] = Own(CellOf[p]) /\ files[i].open
    BY <2>1 DEF OpenIn
  <2>3. at' = [at EXCEPT ![p] = s] /\ s.pc = cmd /\ s.id = i
    BY <1>5 DEF Load, Go, i
  <2> HIDE DEF s
  <2> QED
    BY <1>5, <2>2, <2>3, SameFiles, BeginsEnters DEF Load
<1>6. ASSUME NEW p \in Process, Save(p)
      PROVE  SessInv'
  <2> DEFINE id == at[p].id
             rec == IF at[p].pc = "note" THEN Noted(at[p].rec) ELSE Ended(at[p].rec)
  <2>1. /\ at[p].pc \in {"note", "end"} /\ at[p] # Idle /\ raced' = raced
        /\ files' = Put(files, id, rec)
        /\ at' = [at EXCEPT ![p] = Idle] /\ Idle.pc = "idle"
    BY <1>6 DEF Save, Go, Idle
  <2> HIDE DEF rec
  <2>2. id \in DOMAIN files /\ id[1] = Own(CellOf[p])
    BY <2>1 DEF SessInv
  <2>3. ASSUME CellOf[p] \notin raced
        PROVE  OneIn(CellOf[p], files')
    <3>1. id \in OpenOf(CellOf[p])
      BY <2>1, <2>2, <2>3 DEF SessInv, OpenOf, OpenIn
    <3>2. OpenOf(CellOf[p])' \subseteq OpenOf(CellOf[p])
      BY <2>1, <2>2, <3>1 DEF Put, OpenOf, OpenIn
    <3>3. CellOf[p] \in Cell
      BY SessionAssumption
    <3> QED
      BY <2>3, <3>2, <3>3, OneInIsOne DEF SessInv
  <2>4. /\ DOMAIN files' = DOMAIN files
        /\ \A k \in DOMAIN files : k # id => files'[k] = files[k]
    BY <2>1, <2>2 DEF Put
  <2>5. Within(CellOf[p])
    BY <2>2, <2>4 DEF Within
  <2>6. IsFiniteSet(DOMAIN files')
    BY <2>4 DEF SessInv
  <2>7. at' = [at EXCEPT ![p] = at'[p]] /\ at'[p] = Idle
    BY <2>1 DEF SessInv
  <2> QED
    BY <2>1, <2>3, <2>5, <2>6, <2>7, OneFile
<1>7. CASE UNCHANGED <<files, at, raced>>
  BY <1>7 DEF SessInv, OpenOf, OpenIn
<1> QED
  BY SessionSteps, <1>1, <1>2, <1>3, <1>4, <1>5, <1>6, <1>7 DEF SessionMove

LEMMA NameStep ==
  ASSUME SessInv, NameInv, second \in Nat, [Next]_workspaceVars
  PROVE  NameInv'
<1>1. second' \in Nat /\ second <= second'
  BY SecondSteps
<1>2. ASSUME NEW p \in Process, NEW s, at' = [at EXCEPT ![p] = s], files' = files, s.pc # "write"
      PROVE  NameInv'
  <2>1. \A q \in Process : at'[q].pc = "write" => at'[q] = at[q]
    BY <1>2 DEF SessInv
  <2> QED
    BY <1>1, <1>2, <2>1 DEF NameInv
<1>3. ASSUME NEW p \in Process, Quiet(p)
      PROVE  NameInv'
  BY <1>2, <1>3 DEF Quiet
<1>4. ASSUME NEW p \in Process, NEW cmd, NEW role, NEW address, Gate(p, cmd, role, address)
      PROVE  NameInv'
  BY <1>2, <1>4, GateMoves
<1>5. ASSUME NEW p \in Process, ChooseSid(p)
      PROVE  NameInv'
  <2> DEFINE soma == Own(CellOf[p])
             s == [pc |-> "write", cmd |-> at[p].cmd, role |-> at[p].role,
                   address |-> at[p].address, sid |-> FreeSid(soma)]
  <2>1. CASE OpenIn(soma) # {}
    <3>1. at' = [at EXCEPT ![p] = Idle] /\ Idle.pc = "idle" /\ files' = files
      BY <1>5, <2>1 DEF ChooseSid, Go, Idle
    <3> QED
      BY <1>2, <3>1
  <2>2. CASE OpenIn(soma) = {}
    <3>1. at' = [at EXCEPT ![p] = s] /\ files' = files /\ s.sid = FreeSid(soma)
      BY <1>5, <2>2 DEF ChooseSid, Go
    <3>2. s.sid[1] = second /\ s.sid[2] \in Nat
      BY <3>1, FreeSidIsFree DEF SessInv
    <3> HIDE DEF s
    <3>3. \A q \in Process : at'[q] = s \/ at'[q] = at[q]
      BY <3>1 DEF SessInv
    <3> QED
      BY <1>1, <3>1, <3>2, <3>3 DEF NameInv
  <2> QED
    BY <2>1, <2>2
<1>6. ASSUME NEW p \in Process, WriteSession(p)
      PROVE  NameInv'
  <2> DEFINE n == <<Own(CellOf[p]), at[p].sid>>
             rec == [role |-> at[p].role, open |-> TRUE, last |-> at[p].sid[1], via |-> at[p].cmd]
             s == IF at[p].cmd = "join"
                  THEN [pc |-> "cursor", started |-> TRUE, address |-> at[p].address] ELSE Idle
  <2>1. at[p].pc = "write" /\ files' = Put(files, n, rec)
    BY <1>6 DEF WriteSession
  <2>2. at' = [at EXCEPT ![p] = s]
    BY <1>6, Zenon DEF WriteSession, Go
  <2>3. s.pc # "write"
    BY DEF Idle
  <2> HIDE DEF s, rec
  <2>4. DOMAIN files' = DOMAIN files \cup {n}
    BY <2>1 DEF Put
  <2>5. n = <<n[1], n[2]>> /\ n[2] = at[p].sid /\ n[2][1] \in 0 .. second /\ n[2][2] \in Nat
    BY <2>1 DEF NameInv
  <2> HIDE DEF n
  <2>6. \A q \in Process : at'[q].pc = "write" => at'[q] = at[q]
    BY <2>2, <2>3 DEF SessInv
  <2> QED
    BY <1>1, <2>4, <2>5, <2>6 DEF NameInv
<1>7. ASSUME NEW p \in Process, NEW cmd \in {"note", "end"}, Load(p, cmd)
      PROVE  NameInv'
  <2> DEFINE i == FirstOpen(Own(CellOf[p]))
             s == [pc |-> cmd, id |-> i, rec |-> files[i]]
  <2>1. at' = [at EXCEPT ![p] = s] /\ s.pc = cmd /\ files' = files
    BY <1>7 DEF Load, Go
  <2> HIDE DEF s
  <2> QED
    BY <1>2, <2>1
<1>8. ASSUME NEW p \in Process, Save(p)
      PROVE  NameInv'
  <2> DEFINE rec == IF at[p].pc = "note" THEN Noted(at[p].rec) ELSE Ended(at[p].rec)
  <2>1. at[p].pc \in {"note", "end"} /\ files' = Put(files, at[p].id, rec)
    BY <1>8 DEF Save
  <2>2. at' = [at EXCEPT ![p] = Idle] /\ Idle.pc = "idle"
    BY <1>8 DEF Save, Go, Idle
  <2> HIDE DEF rec
  <2>3. DOMAIN files' = DOMAIN files
    BY <2>1 DEF Put, SessInv
  <2>4. \A q \in Process : at'[q].pc = "write" => at'[q] = at[q]
    BY <2>2 DEF SessInv
  <2> QED
    BY <1>1, <2>3, <2>4 DEF NameInv
<1>9. CASE UNCHANGED <<files, at, raced>>
  BY <1>1, <1>9 DEF NameInv
<1> QED
  BY SessionSteps, <1>3, <1>4, <1>5, <1>6, <1>7, <1>8, <1>9 DEF SessionMove

LEMMA SessInit ==
  ASSUME Init
  PROVE  SessInv /\ NameInv
<1> DEFINE D == {<<Old(c), <<0, 1>>>> : c \in Legacy}
           f == [c \in Legacy |-> <<Old(c), <<0, 1>>>>]
<1>1. DOMAIN files = D /\ at = [p \in Process |-> Idle] /\ raced = {} /\ second = 0
  BY DEF Init, SessionInit, FieldInit
<1>2. IsFiniteSet(DOMAIN files)
  <2>1. f \in Surjection(Legacy, D)
    BY DEF Surjection
  <2> HIDE DEF f, D
  <2> QED
    BY <1>1, <2>1, FS_Surjection, SessionAssumption
<1>3. \A c : \A i, j \in OpenOf(c) : i = j
  BY <1>1 DEF OpenOf, OpenIn, Own, Old
<1>4. \A p \in Process : at[p] = Idle /\ at[p].pc = "idle"
  BY <1>1 DEF Idle
<1>5. \A i \in DOMAIN files : i = <<i[1], i[2]>> /\ i[2][1] \in 0 .. second /\ i[2][2] \in Nat
  BY <1>1
<1> HIDE DEF D
<1>6. at = [p \in Process |-> at[p]]
  BY <1>1
<1> QED
  BY <1>2, <1>3, <1>4, <1>5, <1>6 DEF SessInv, NameInv

-----------------------------------------------------------------------------
(* What follows *)

\* An ended session is no session that a process of its cell has under way.
LEMMA EndedStep ==
  ASSUME SessInv, NameInv, [Next]_workspaceVars,
         NEW i \in DOMAIN files, ~files[i].open, i[1][1] \notin raced'
  PROVE  i \in DOMAIN files' /\ files'[i] = files[i]
<1>1. ASSUME NEW p \in Process, WriteSession(p)
      PROVE  i \in DOMAIN files' /\ files'[i] = files[i]
  <2> DEFINE n == <<Own(CellOf[p]), at[p].sid>>
             rec == [role |-> at[p].role, open |-> TRUE, last |-> at[p].sid[1], via |-> at[p].cmd]
  <2>1. at[p].pc = "write" /\ files' = Put(files, n, rec) /\ raced' = raced
    BY <1>1 DEF WriteSession
  <2> HIDE DEF rec
  <2>2. i # n
    <3>1. n[1][1] = CellOf[p]
      BY DEF Own
    <3>2. CellOf[p] \notin raced => n \notin DOMAIN files
      BY <2>1 DEF SessInv
    <3> QED
      BY <2>1, <3>1, <3>2
  <2> QED
    BY <2>1, <2>2 DEF Put
<1>2. ASSUME NEW p \in Process, Save(p)
      PROVE  i \in DOMAIN files' /\ files'[i] = files[i]
  <2> DEFINE rec == IF at[p].pc = "note" THEN Noted(at[p].rec) ELSE Ended(at[p].rec)
  <2>1. at[p].pc \in {"note", "end"} /\ files' = Put(files, at[p].id, rec) /\ raced' = raced
    BY <1>2 DEF Save
  <2> HIDE DEF rec
  <2>2. i # at[p].id
    <3>1. at[p].id[1][1] = CellOf[p]
      BY <2>1 DEF SessInv, Own
    <3>2. CellOf[p] \notin raced => files[at[p].id].open
      BY <2>1 DEF SessInv
    <3> QED
      BY <2>1, <3>1, <3>2
  <2> QED
    BY <2>1, <2>2 DEF Put
<1>3. ASSUME NEW p \in Process, NEW cmd, NEW role, NEW address, Gate(p, cmd, role, address)
      PROVE  files' = files
  BY <1>3, GateMoves
<1>4. ASSUME NEW p \in Process, NEW cmd, Load(p, cmd)
      PROVE  files' = files
  BY <1>4 DEF Load
<1>5. ASSUME NEW p \in Process, Quiet(p) \/ ChooseSid(p)
      PROVE  files' = files
  BY <1>5 DEF Quiet, ChooseSid
<1> QED
  BY SessionSteps, <1>1, <1>2, <1>3, <1>4, <1>5 DEF SessionMove

LEMMA OneIsOpen ==
  ASSUME SessInv
  PROVE  OneOpenSession
<1> SUFFICES ASSUME NEW c \in Cell \ raced
             PROVE  Cardinality(OpenOf(c)) <= 1
  BY DEF OneOpenSession
<1>1. CASE OpenOf(c) = {}
  BY <1>1, FS_EmptySet
<1>2. CASE OpenOf(c) # {}
  <2>1. PICK i \in OpenOf(c) : TRUE
    BY <1>2
  <2>2. OpenOf(c) = {i}
    BY <2>1 DEF SessInv
  <2> QED
    BY <2>2, FS_Singleton
<1> QED
  BY <1>1, <1>2

AllInv == PlaceInv /\ SessInv /\ NameInv

LEMMA AllInvAlways == Spec => []AllInv
<1>1. Init => AllInv
  BY PlaceInit, SessInit DEF AllInv
<1>2. AllInv /\ [Next]_workspaceVars => AllInv'
  <2>1. AllInv => second \in Nat
    BY DEF AllInv, PlaceInv
  <2> QED
    BY <2>1, PlaceStep, SessStep, NameStep DEF AllInv
<1> QED
  BY <1>1, <1>2, PTL DEF Spec

\* What is written stands: no letter is lost or changed, the goal does not go back, and
\* a session that has ended is not written again.
THEOREM WhatIsWrittenStandsAlways == Spec => WhatIsWrittenStands
<1>1. AllInv /\ AllInv' /\ [Next]_workspaceVars =>
        [\A l \in live \cup archived : Gone(l) =>
           /\ l \in archived
           /\ \E k \in live \ live' : k \in archived' /\ Name(k) = Name(l)]_letters
  BY StandStep DEF AllInv
<1>2. AllInv /\ AllInv' /\ [Next]_workspaceVars =>
        [LET g == Goal IN Goals # {} /\ g \in live' => Goals' # {} /\ NewerGoal(Goal', g)]_live
  BY GoalStep DEF AllInv
<1>3. AllInv /\ AllInv' /\ [Next]_workspaceVars =>
        [\A i \in DOMAIN files :
           ~files[i].open /\ i[1][1] \notin raced' => i \in DOMAIN files' /\ files'[i] = files[i]]_files
  BY EndedStep DEF AllInv
<1> QED
  BY <1>1, <1>2, <1>3, AllInvAlways, PTL
     DEF Spec, WhatIsWrittenStands, LettersStand, GoalNeverGoesBack, EndedStaysEnded

JoinFields == {"relay", "agora"}

-----------------------------------------------------------------------------
(* Which steps touch what a cell has joined as *)

CellMove(p) ==
  \/ \E cmd, address : \E role \in Role : Gate(p, cmd, role, address)
  \/ ChooseSid(p) \/ WriteSession(p) \/ SetCursor(p) \/ Forget(p)
  \/ \E brain \in {"model", NoOne} : ReadPresence(p, brain)
  \/ WritePresence(p)
  \/ \E cmd \in {"note", "end"} : Load(p, cmd)
  \/ Save(p) \/ ProcessDies(p)
  \/ ReadRegistry(p) \/ WriteRegistry(p) \/ JoinHub(p)

LEMMA CellSteps ==
  ASSUME [Next]_workspaceVars
  PROVE  \/ \E p \in Process : CellMove(p)
         \/ \E f \in Watched, c \in Cell : JoinField(f, c) /\ UNCHANGED sessionVars
         \/ UNCHANGED <<sessionVars, join>>
<1>1. ASSUME NEW d, Post(d)
      PROVE  join' = join
  BY <1>1 DEF Post, readers
<1>2. CASE FieldStep /\ UNCHANGED sessionVars
  <2>1. CASE Letters
    BY <1>1, <1>2, <2>1 DEF Letters
  <2>2. CASE Reading
    BY <1>2, <2>2 DEF Reading, Poll, ShowNext, MarkRead, StopWatching
  <2>3. ASSUME NEW p \in Poster, Link(p) \/ Die(p)
        PROVE  join' = join
    BY <2>3 DEF Link, Die, readers
  <2>4. ASSUME NEW l \in live, Archive(l)
        PROVE  join' = join
    BY <2>4 DEF Archive, readers
  <2>5. CASE Tick
    BY <1>2, <2>5 DEF Tick, readers
  <2> QED
    BY <1>2, <2>1, <2>2, <2>3, <2>4, <2>5 DEF FieldStep
<1>3. CASE SessionStep
  BY <1>3, WorkspaceAssumption DEF SessionStep, CellMove
<1>4. CASE HubStep
  <2>1. ASSUME NEW p \in Process, ReadRegistry(p) \/ WriteRegistry(p) \/ JoinHub(p)
        PROVE  CellMove(p)
    BY <2>1 DEF CellMove
  <2>2. ASSUME NEW c \in Cell, Leave(c) \/ ReadPage(c) \/ \E l \in live : HubRead(c, l)
        PROVE  UNCHANGED <<sessionVars, join>>
    BY <2>2 DEF Leave, ReadPage, HubRead, fieldVars, readers
  <2>3. ASSUME NEW m, HubSend(m.from, m.to, m.body, m.key)
        PROVE  UNCHANGED <<sessionVars, join>>
    BY <1>1, <2>3 DEF HubSend
  <2> QED
    BY <1>4, <2>1, <2>2, <2>3 DEF HubStep
<1>5. ASSUME NEW m, Sound(m.from, m.to, m.body)
      PROVE  UNCHANGED <<sessionVars, join>>
  BY <1>1, <1>5 DEF Sound
<1>6. CASE UNCHANGED workspaceVars
  BY <1>6 DEF workspaceVars, fieldVars, readers
<1> QED
  BY <1>2, <1>3, <1>4, <1>5, <1>6 DEF Next

\* A command of p moves p alone, and who begins is alone or makes its cell raced.
LEMMA CellMoveIs ==
  ASSUME SessInv, NEW p \in Process, CellMove(p)
  PROVE  /\ at' = [at EXCEPT ![p] = at'[p]]
         /\ Enters(p) /\ torn \subseteq torn'
<1> USE DEF SessInv
<1>1. ASSUME NEW cmd, NEW role, NEW address, Gate(p, cmd, role, address)
      PROVE  at' = [at EXCEPT ![p] = at'[p]] /\ Enters(p) /\ torn \subseteq torn'
  <2>1. PICK s : at' = [at EXCEPT ![p] = s]
    BY <1>1, GateMoves
  <2> QED
    BY <1>1, <2>1, GateMoves DEF Gate
<1>2. ASSUME NEW brain, ReadPresence(p, brain)
      PROVE  at' = [at EXCEPT ![p] = at'[p]] /\ Enters(p) /\ torn \subseteq torn'
  <2>1. at' = [at EXCEPT ![p] = at'[p]]
    BY <1>2 DEF ReadPresence, Go
  <2>2. Enters(p)
    BY <1>2, BeginsEnters DEF ReadPresence, Enters, Idle
  <2> QED
    BY <1>2, <2>1, <2>2 DEF ReadPresence
<1>3. ASSUME NEW cmd, Load(p, cmd)
      PROVE  at' = [at EXCEPT ![p] = at'[p]] /\ Enters(p) /\ torn \subseteq torn'
  BY <1>3, BeginsEnters DEF Load, Go
<1>4. CASE ChooseSid(p) \/ WriteSession(p) \/ SetCursor(p) \/ Forget(p) \/ WritePresence(p)
           \/ Save(p) \/ ProcessDies(p) \/ ReadRegistry(p) \/ WriteRegistry(p) \/ JoinHub(p)
  <2>1. at[p] # Idle /\ raced' = raced /\ torn \subseteq torn'
    BY <1>4 DEF ChooseSid, WriteSession, SetCursor, Forget, WritePresence, Save, ProcessDies,
                ReadRegistry, WriteRegistry, JoinHub, Idle
  <2>2. at' = [at EXCEPT ![p] = at'[p]]
    BY <1>4 DEF ChooseSid, WriteSession, SetCursor, Forget, WritePresence, Save, ProcessDies,
                ReadRegistry, WriteRegistry, JoinHub, Go, GoOn
  <2> QED
    BY <2>1, <2>2 DEF Enters
<1> QED
  BY <1>1, <1>2, <1>3, <1>4 DEF CellMove

-----------------------------------------------------------------------------
(* Shapes *)

Shaped(r) == r = [role |-> r.role, open |-> r.open, last |-> r.last, via |-> r.via]

ShapeInv ==
  /\ join \in [Fields -> [Cell -> Nat \cup {-1}]]
  /\ presence \in [Cell -> Declared \cup {NoOne}]
  /\ \A i \in DOMAIN files : Shaped(files[i])
  /\ \A p \in Process :
       /\ at[p].pc = "present" => at[p].entry \in Declared
       /\ at[p].pc \in {"note", "end"} => Shaped(at[p].rec)

LEMMA NotedIs ==
  ASSUME NEW r, Shaped(r)
  PROVE  /\ Shaped(Noted(r)) /\ Noted(r).open = r.open /\ Noted(r).via = r.via
         /\ Shaped(Ended(r)) /\ ~Ended(r).open
         /\ Noted(r).role = r.role /\ Ended(r).role = r.role /\ Ended(r).open \in BOOLEAN
<1> DEFINE n == [role |-> r.role, open |-> r.open, last |-> second, via |-> r.via]
           e == [role |-> r.role, open |-> FALSE, last |-> r.last, via |-> r.via]
<1>1. n.open = r.open /\ n.via = r.via /\ n.role = r.role /\ n.last = second
  OBVIOUS
<1>2. e.via = r.via /\ e.role = r.role /\ e.last = r.last
  OBVIOUS
<1>3. ~e.open
  OBVIOUS
<1>4. Noted(r) = n
  BY DEF Noted, Shaped
<1>5. Ended(r) = e
  <2> DEFINE no == FALSE
             was == [role |-> r.role, open |-> r.open, last |-> r.last, via |-> r.via]
  <2> HIDE DEF no
  <2>1. [was EXCEPT !.open = no] = [role |-> r.role, open |-> no, last |-> r.last, via |-> r.via]
    OBVIOUS
  <2>2. r = was
    BY DEF Shaped
  <2> HIDE DEF was
  <2>3. [r EXCEPT !.open = no] = [role |-> r.role, open |-> no, last |-> r.last, via |-> r.via]
    BY <2>1, <2>2, Zenon
  <2> QED
    BY <2>3, Zenon DEF Ended, no
<1>6. e.open \in BOOLEAN
  OBVIOUS
<1> QED
  BY <1>1, <1>2, <1>3, <1>4, <1>5, <1>6 DEF Shaped

-----------------------------------------------------------------------------
(* Where each command stands after its step *)

LEMMA GateThen ==
  ASSUME SessInv, NEW p \in Process, NEW cmd, NEW role, NEW address, Gate(p, cmd, role, address)
  PROVE  /\ UNCHANGED <<files, presence, join, torn>>
         /\ at[p] = Idle /\ at'[p].pc \in {"idle", "cursor", "start"}
         /\ at'[p].pc = "cursor" => ~at'[p].started
         /\ at'[p].pc = "start" => at'[p].role = role
<1>1. at[p] = Idle /\ UNCHANGED <<files, presence, join, torn>>
  BY DEF Gate, fieldVars, readers
<1>2. CASE Continues(CellOf[p], role) /\ cmd = "join"
  <2>1. at'[p] = [pc |-> "cursor", started |-> FALSE, address |-> address]
    BY <1>2 DEF Gate, Go, SessInv
  <2> QED
    BY <1>1, <2>1
<1>3. CASE Continues(CellOf[p], role) /\ cmd # "join"
  <2>1. at'[p] = [pc |-> "idle"]
    BY <1>3 DEF Gate, Go, Idle, SessInv
  <2> QED
    BY <1>1, <2>1
<1>4. CASE ~Continues(CellOf[p], role)
  <2>1. at'[p] = [pc |-> "start", cmd |-> cmd, role |-> role, address |-> address]
    BY <1>4 DEF Gate, Go, SessInv
  <2> QED
    BY <1>1, <2>1
<1> QED
  BY <1>2, <1>3, <1>4

LEMMA ChooseThen ==
  ASSUME SessInv, NEW p \in Process, ChooseSid(p)
  PROVE  /\ UNCHANGED <<files, presence, join, torn>>
         /\ at[p].pc = "start" /\ at'[p].pc \in {"idle", "write"}
         /\ at'[p].pc = "write" => at'[p].role = at[p].role
<1>1. at[p].pc = "start" /\ UNCHANGED <<files, presence, join, torn>>
  BY DEF ChooseSid, fieldVars, readers
<1>2. CASE OpenIn(Own(CellOf[p])) # {}
  BY <1>1, <1>2 DEF ChooseSid, Go, Idle, SessInv
<1>3. CASE OpenIn(Own(CellOf[p])) = {}
  <2>1. at'[p] = [pc |-> "write", cmd |-> at[p].cmd, role |-> at[p].role,
                  address |-> at[p].address, sid |-> FreeSid(Own(CellOf[p]))]
    BY <1>3 DEF ChooseSid, Go, SessInv
  <2> QED
    BY <1>1, <2>1
<1> QED
  BY <1>2, <1>3

Written(p) == [role |-> at[p].role, open |-> TRUE, last |-> at[p].sid[1], via |-> at[p].cmd]

LEMMA WriteThen ==
  ASSUME SessInv, NEW p \in Process, WriteSession(p)
  PROVE  /\ UNCHANGED <<presence, join, torn>>
         /\ at[p].pc = "write" /\ files' = Put(files, <<Own(CellOf[p]), at[p].sid>>, Written(p))
         /\ at'[p].pc \in {"idle", "cursor"}
         /\ at[p].cmd = "join" => at'[p].pc = "cursor" /\ at'[p].started
<1>1. /\ at[p].pc = "write" /\ files' = Put(files, <<Own(CellOf[p]), at[p].sid>>, Written(p))
      /\ UNCHANGED <<presence, join, torn>>
  BY DEF WriteSession, Written, fieldVars, readers
<1> DEFINE s == IF at[p].cmd = "join"
                THEN [pc |-> "cursor", started |-> TRUE, address |-> at[p].address] ELSE Idle
<1>2. at' = [at EXCEPT ![p] = s]
  BY Zenon DEF WriteSession, Go
<1>3. at'[p] = s
  <2> HIDE DEF s
  <2> QED
    BY <1>2 DEF SessInv
<1>4. CASE at[p].cmd = "join"
  <2>1. at'[p] = [pc |-> "cursor", started |-> TRUE, address |-> at[p].address]
    BY <1>3, <1>4, Zenon
  <2> QED
    BY <1>1, <2>1
<1>5. CASE at[p].cmd # "join"
  <2>1. at'[p] = [pc |-> "idle"]
    BY <1>3, <1>5, Zenon DEF Idle
  <2> QED
    BY <1>1, <1>5, <2>1
<1> QED
  BY <1>4, <1>5

LEMMA CursorThen ==
  ASSUME SessInv, NEW p \in Process, SetCursor(p)
  PROVE  /\ UNCHANGED <<files, presence, torn>>
         /\ at[p].pc = "cursor" /\ at'[p].started = at[p].started
         /\ at'[p].pc = IF at[p].started THEN "forget" ELSE "declare"
<1>1. at[p].pc = "cursor" /\ UNCHANGED <<files, presence, torn>>
  BY DEF SetCursor
<1>2. at'[p] = [pc |-> IF at[p].started THEN "forget" ELSE "declare",
                started |-> at[p].started, address |-> at[p].address]
  BY DEF SetCursor, GoOn, Go, SessInv
<1> QED
  BY <1>1, <1>2

LEMMA ForgetThen ==
  ASSUME SessInv, NEW p \in Process, Forget(p)
  PROVE  /\ UNCHANGED <<files, join, torn>>
         /\ at[p].pc = "forget" /\ at'[p].started = at[p].started /\ at'[p].pc = "declare"
         /\ presence' = [presence EXCEPT ![CellOf[p]] = NoOne]
<1>1. at'[p] = [pc |-> "declare", started |-> at[p].started, address |-> at[p].address]
  BY DEF Forget, GoOn, Go, SessInv
<1> QED
  BY <1>1 DEF Forget, fieldVars, readers

Entry(p, brain) ==
  IF brain # NoOne THEN [brain |-> brain, since |-> second]
  ELSE IF presence[CellOf[p]] # NoOne THEN presence[CellOf[p]]
  ELSE [brain |-> NoOne, since |-> second]

LEMMA ReadThen ==
  ASSUME SessInv, NEW p \in Process, NEW brain, ReadPresence(p, brain)
  PROVE  /\ UNCHANGED <<files, presence, join, torn>>
         /\ at[p].pc \in {"idle", "declare"}
         /\ at'[p].pc = "present" /\ at'[p].entry = Entry(p, brain)
<1>1. at[p].pc \in {"idle", "declare"} /\ UNCHANGED <<files, presence, join, torn>>
  BY DEF ReadPresence, Idle, fieldVars, readers
<1> DEFINE started == at[p] # Idle /\ at[p].started
           address == IF at[p] = Idle THEN NoOne ELSE at[p].address
           s == [pc |-> "present", started |-> started, address |-> address, entry |-> Entry(p, brain)]
<1>2. at' = [at EXCEPT ![p] = s]
  BY Zenon DEF ReadPresence, Go, Entry
<1> HIDE DEF started, address
<1>3. s.pc = "present" /\ s.entry = Entry(p, brain)
  OBVIOUS
<1> HIDE DEF s
<1>4. at'[p] = s
  BY <1>2 DEF SessInv
<1> QED
  BY <1>1, <1>3, <1>4

LEMMA PresenceThen ==
  ASSUME SessInv, NEW p \in Process, WritePresence(p)
  PROVE  /\ UNCHANGED <<files, join, torn>>
         /\ at[p].pc = "present" /\ at'[p].pc \in {"idle", "register"}
         /\ presence' = [presence EXCEPT ![CellOf[p]] = at[p].entry]
<1>1. /\ at[p].pc = "present" /\ UNCHANGED <<files, join, torn>>
      /\ presence' = [presence EXCEPT ![CellOf[p]] = at[p].entry]
  BY DEF WritePresence, fieldVars, readers
<1>2. \/ at'[p] = [pc |-> "idle"]
      \/ at'[p] = [pc |-> "register", started |-> at[p].started, address |-> at[p].address]
  BY DEF WritePresence, GoOn, Go, Idle, SessInv
<1> QED
  BY <1>1, <1>2

LEMMA LoadThen ==
  ASSUME SessInv, NEW p \in Process, NEW cmd \in {"note", "end"}, Load(p, cmd)
  PROVE  /\ UNCHANGED <<files, presence, join, torn>>
         /\ at[p] = Idle /\ at'[p].pc = cmd /\ at'[p].rec = files[at'[p].id]
         /\ OpenIn(Own(CellOf[p])) # {} /\ at'[p].id = FirstOpen(Own(CellOf[p]))
<1> DEFINE i == FirstOpen(Own(CellOf[p]))
<1>1. at'[p] = [pc |-> cmd, id |-> i, rec |-> files[i]]
  BY DEF Load, Go, SessInv
<1> HIDE DEF i
<1>2. at'[p].pc = cmd /\ at'[p].rec = files[at'[p].id] /\ at'[p].id = i
  BY <1>1
<1> QED
  BY <1>2 DEF Load, fieldVars, readers, i

LEMMA SaveThen ==
  ASSUME SessInv, NEW p \in Process, Save(p)
  PROVE  /\ UNCHANGED <<presence, join, torn>>
         /\ at[p].pc \in {"note", "end"} /\ at'[p].pc = "idle"
         /\ files' = Put(files, at[p].id, IF at[p].pc = "note" THEN Noted(at[p].rec) ELSE Ended(at[p].rec))
<1>1. at'[p] = [pc |-> "idle"]
  BY DEF Save, Go, Idle, SessInv
<1> QED
  BY <1>1 DEF Save, fieldVars, readers

LEMMA DiesThen ==
  ASSUME SessInv, NEW p \in Process, ProcessDies(p)
  PROVE  /\ UNCHANGED <<files, presence, join>>
         /\ CellOf[p] \in torn' /\ at'[p].pc = "idle"
<1>1. at'[p] = [pc |-> "idle"]
  BY DEF ProcessDies, Go, Idle, SessInv
<1> QED
  BY <1>1 DEF ProcessDies, fieldVars, readers

LEMMA HubThen ==
  ASSUME SessInv, ShapeInv, NEW p \in Process, ReadRegistry(p) \/ WriteRegistry(p) \/ JoinHub(p)
  PROVE  /\ UNCHANGED <<files, presence, torn>>
         /\ at[p].pc \in {"register", "enter", "hubcursor"}
         /\ at'[p].pc \in {"idle", "enter", "hubcursor"}
         /\ \A f \in JoinFields : join'[f] = join[f]
<1>1. CASE ReadRegistry(p)
  <2>1. \/ at' = [at EXCEPT ![p] = Idle]
        \/ \E x, y : at' = [at EXCEPT ![p] = [pc |-> "enter", started |-> x, entry |-> y]]
    BY <1>1, Zenon DEF ReadRegistry, Go
  <2>2. at'[p].pc \in {"idle", "enter"}
    BY <2>1 DEF Idle, SessInv
  <2> QED
    BY <1>1, <2>2 DEF ReadRegistry, fieldVars, readers
<1>2. CASE WriteRegistry(p)
  <2>1. at'[p] = [pc |-> "hubcursor", started |-> at[p].started]
    BY <1>2 DEF WriteRegistry, Go, SessInv
  <2> QED
    BY <1>2, <2>1 DEF WriteRegistry, fieldVars, readers
<1>3. CASE JoinHub(p)
  <2>1. at'[p] = [pc |-> "idle"]
    BY <1>3 DEF JoinHub, Go, Idle, SessInv
  <2>2. \A f \in JoinFields : join'[f] = join[f]
    BY <1>3 DEF JoinHub, ShapeInv, JoinFields, Fields
  <2> QED
    BY <1>3, <2>1, <2>2 DEF JoinHub
<1> QED
  BY <1>1, <1>2, <1>3

LEMMA ShapeStep ==
  ASSUME SessInv, NameInv, ShapeInv, second \in Nat, [Next]_workspaceVars
  PROVE  ShapeInv'
<1>1. ASSUME NEW p \in Process, CellMove(p)
      PROVE  /\ \A i \in DOMAIN files' : Shaped(files'[i])
             /\ presence' \in [Cell -> Declared \cup {NoOne}]
             /\ at'[p].pc = "present" => at'[p].entry \in Declared
             /\ at'[p].pc \in {"note", "end"} => Shaped(at'[p].rec)
  <2> DEFINE Good == /\ \A i \in DOMAIN files' : Shaped(files'[i])
                     /\ presence' \in [Cell -> Declared \cup {NoOne}]
                     /\ at'[p].pc = "present" => at'[p].entry \in Declared
                     /\ at'[p].pc \in {"note", "end"} => Shaped(at'[p].rec)
  <2>1. ASSUME NEW cmd, NEW role, NEW address, Gate(p, cmd, role, address)
        PROVE  Good
    BY <2>1, GateThen DEF ShapeInv
  <2>2. CASE ChooseSid(p)
    BY <2>2, ChooseThen DEF ShapeInv
  <2>3. CASE WriteSession(p)
    <3>1. Shaped(Written(p))
      <4>1. \A a, b, c, d : Shaped([role |-> a, open |-> b, last |-> c, via |-> d])
        BY DEF Shaped
      <4> QED
        BY <4>1, Zenon DEF Written
    <3> DEFINE n == <<Own(CellOf[p]), at[p].sid>>
    <3>3. files' = Put(files, n, Written(p))
      BY <2>3, WriteThen
    <3> HIDE DEF n
    <3>2. \A i \in DOMAIN files' : files'[i] = Written(p) \/ (i \in DOMAIN files /\ files'[i] = files[i])
      BY <3>3 DEF Put
    <3> QED
      BY <2>3, <3>1, <3>2, WriteThen DEF ShapeInv
  <2>4. CASE SetCursor(p)
    BY <2>4, CursorThen DEF ShapeInv
  <2>5. CASE Forget(p)
    BY <2>5, ForgetThen DEF ShapeInv
  <2>6. ASSUME NEW brain \in {"model", NoOne}, ReadPresence(p, brain)
        PROVE  Good
    <3>1. Entry(p, brain) \in Declared
      <4>1. CellOf[p] \in Cell
        BY SessionAssumption
      <4> QED
        BY <4>1 DEF ShapeInv, Entry, Declared
    <3> QED
      BY <2>6, <3>1, ReadThen DEF ShapeInv
  <2>7. CASE WritePresence(p)
    BY <2>7, PresenceThen DEF ShapeInv
  <2>8. ASSUME NEW cmd \in {"note", "end"}, Load(p, cmd)
        PROVE  Good
    <3>1. at'[p].id \in DOMAIN files
      BY <2>8, LoadThen, FirstOpenIsOpen DEF OpenIn
    <3> QED
      BY <2>8, <3>1, LoadThen DEF ShapeInv
  <2>9. CASE Save(p)
    <3> DEFINE rec == IF at[p].pc = "note" THEN Noted(at[p].rec) ELSE Ended(at[p].rec)
    <3>1. Shaped(rec)
      BY <2>9, SaveThen, NotedIs DEF ShapeInv
    <3>2. files' = Put(files, at[p].id, rec)
      BY <2>9, SaveThen
    <3> HIDE DEF rec
    <3>3. \A i \in DOMAIN files' : files'[i] = rec \/ (i \in DOMAIN files /\ files'[i] = files[i])
      BY <3>2 DEF Put
    <3> QED
      BY <2>9, <3>1, <3>3, SaveThen DEF ShapeInv
  <2>10. CASE ProcessDies(p)
    BY <2>10, DiesThen DEF ShapeInv
  <2>11. CASE ReadRegistry(p) \/ WriteRegistry(p) \/ JoinHub(p)
    BY <2>11, HubThen DEF ShapeInv
  <2> QED
    BY <1>1, <2>1, <2>2, <2>3, <2>4, <2>5, <2>6, <2>7, <2>8, <2>9, <2>10, <2>11 DEF CellMove
<1>2. join' \in [Fields -> [Cell -> Nat \cup {-1}]]
  <2>1. \A f \in Fields, c \in Cell : \A r : Joined(f, c, r) \in Nat \cup {-1}
    BY DEF Joined, ShapeInv
  <2>2. ASSUME NEW f \in Fields, NEW c \in Cell, NEW j \in Nat \cup {-1}, join' = [join EXCEPT ![f][c] = j]
        PROVE  join' \in [Fields -> [Cell -> Nat \cup {-1}]]
    BY <2>2 DEF ShapeInv
  <2>3. ASSUME NEW f \in Watched, NEW c \in Cell, JoinField(f, c)
        PROVE  join' \in [Fields -> [Cell -> Nat \cup {-1}]]
    <3>1. f \in Fields
      BY DEF Watched, Fields
    <3> QED
      BY <2>1, <2>2, <2>3, <3>1 DEF JoinField
  <2>4. ASSUME NEW p \in Process, JoinHub(p)
        PROVE  join' \in [Fields -> [Cell -> Nat \cup {-1}]]
    <3>1. "hub" \in Fields /\ CellOf[p] \in Cell
      BY SessionAssumption DEF Fields
    <3> QED
      BY <2>1, <2>2, <2>4, <3>1 DEF JoinHub
  <2>5. ASSUME NEW p \in Process, SetCursor(p)
        PROVE  join' \in [Fields -> [Cell -> Nat \cup {-1}]]
    <3>1. CellOf[p] \in Cell
      BY SessionAssumption
    <3> QED
      BY <2>1, <2>5, <3>1 DEF SetCursor, ShapeInv
  <2>6. ASSUME NEW p \in Process, CellMove(p), ~SetCursor(p), ~JoinHub(p)
        PROVE  join' = join
    BY <2>6, GateThen, ChooseThen, WriteThen, ForgetThen, ReadThen, PresenceThen, LoadThen, SaveThen,
       DiesThen DEF CellMove, ReadRegistry, WriteRegistry, fieldVars, readers
  <2> QED
    BY CellSteps, <2>3, <2>4, <2>5, <2>6 DEF ShapeInv
<1>3. ASSUME NEW p \in Process, CellMove(p)
      PROVE  \A q \in Process \ {p} : at'[q] = at[q]
  BY <1>3, CellMoveIs DEF SessInv
<1>4. CASE UNCHANGED sessionVars
  BY <1>2, <1>4 DEF ShapeInv, sessionVars
<1> QED
  BY CellSteps, <1>1, <1>2, <1>3, <1>4 DEF ShapeInv

-----------------------------------------------------------------------------
(* What a joined session still has to come *)

CursorDue(p) == at[p].pc = "cursor" /\ at[p].started
PresenceDue(p) ==
  \/ at[p].pc \in {"cursor", "forget"} /\ at[p].started
  \/ at[p].pc = "declare" /\ at[p].started /\ presence[CellOf[p]] = NoOne
  \/ at[p].pc = "present"

\* What holds of a process when it is the only one of its cell under way.
Holds(p) ==
  /\ at[p].pc = "forget" => at[p].started
  /\ at[p].pc \in {"note", "end"} => at[p].rec = files[at[p].id]
  /\ at[p].pc = "present" => \A i \in JoinedSessions(CellOf[p]) : at[p].entry.since >= i[2][1]

ReadsIt(c, i) == \A f \in JoinFields : join[f][c] >= i[2][1]
DeclaredInIt(c, i) == presence[c] # NoOne /\ presence[c].since >= i[2][1]

JoinedCell(c) ==
  /\ \A p \in Process : CellOf[p] = c => Holds(p)
  /\ \A i \in JoinedSessions(c) :
       /\ ReadsIt(c, i) \/ \E p \in Process : CellOf[p] = c /\ CursorDue(p)
       /\ DeclaredInIt(c, i) \/ \E p \in Process : CellOf[p] = c /\ PresenceDue(p)

JoinInv == \A c \in Cell \ (raced \cup torn) : JoinedCell(c)

\* The same for a cell of which only p may be under way.
Solo(p) ==
  /\ Holds(p)
  /\ \A i \in JoinedSessions(CellOf[p]) :
       /\ ReadsIt(CellOf[p], i) \/ CursorDue(p)
       /\ DeclaredInIt(CellOf[p], i) \/ PresenceDue(p)

LEMMA SoloStep ==
  ASSUME SessInv, NameInv, ShapeInv, ShapeInv', second \in Nat,
         NEW p \in Process, CellMove(p), Solo(p), CellOf[p] \notin raced', CellOf[p] \notin torn'
  PROVE  Solo(p)'
<1> DEFINE c == CellOf[p]
<1>1. c \in Cell /\ c \notin raced /\ c \notin torn
  BY CellMoveIs, SessionAssumption DEF Enters
<1>2. \A i \in JoinedSessions(c) : i[2][1] \in Nat /\ i[2][1] <= second
  BY DEF JoinedSessions, OpenOf, OpenIn, NameInv
<1>3. ASSUME files' = files
      PROVE  JoinedSessions(c)' = JoinedSessions(c)
  BY <1>3 DEF JoinedSessions, OpenOf, OpenIn
<1>4. ASSUME NEW cmd, NEW role, NEW address, Gate(p, cmd, role, address)
      PROVE  Solo(p)'
  <2>1. at[p].pc = "idle"
    BY <1>4, GateThen DEF Idle
  <2> QED
    BY <1>3, <1>4, <2>1, GateThen
       DEF Solo, Holds, CursorDue, PresenceDue, ReadsIt, DeclaredInIt
<1>5. CASE ChooseSid(p)
  BY <1>3, <1>5, ChooseThen DEF Solo, Holds, CursorDue, PresenceDue, ReadsIt, DeclaredInIt
<1>6. CASE WriteSession(p)
  <2> DEFINE n == <<Own(c), at[p].sid>>
  <2>1. OpenOf(c) = {}
    BY <1>1, <1>6, WriteThen DEF SessInv
  <2>2. files' = Put(files, n, Written(p)) /\ Written(p).via = at[p].cmd
    BY <1>6, WriteThen DEF Written
  <2>3. JoinedSessions(c)' \subseteq {n} /\ (at[p].cmd # "join" => JoinedSessions(c)' = {})
    <3> HIDE DEF n
    <3>1. \A i \in OpenOf(c)' : i = n /\ files'[i] = Written(p)
      BY <2>1, <2>2 DEF Put, OpenOf, OpenIn
    <3> QED
      BY <2>2, <3>1 DEF JoinedSessions
  <2> HIDE DEF n
  <2> QED
    BY <1>6, <2>3, WriteThen DEF Solo, Holds, CursorDue, PresenceDue
<1>7. CASE SetCursor(p)
  <2>1. \A f \in JoinFields : join'[f][c] = Joined(f, c, at[p].started)
    BY <1>1, <1>7 DEF SetCursor, Reset, JoinFields, Fields, ShapeInv
  <2>2. \A f \in JoinFields : join[f][c] \in Int
    BY <1>1 DEF ShapeInv, JoinFields, Fields
  <2>3. \A i \in JoinedSessions(c) : ReadsIt(c, i)'
    <3>1. CASE at[p].started
      BY <1>2, <2>1, <3>1 DEF Joined, ReadsIt
    <3>2. CASE ~at[p].started
      BY <1>2, <2>1, <2>2, <3>2 DEF Joined, ReadsIt, Solo, CursorDue
    <3> QED
      BY <3>1, <3>2
  <2>4. \A i \in JoinedSessions(c) : DeclaredInIt(c, i)' \/ PresenceDue(p)'
    BY <1>7, CursorThen DEF Solo, PresenceDue, DeclaredInIt
  <2>5. Holds(p)'
    BY <1>7, CursorThen DEF Holds
  <2> QED
    BY <1>3, <1>7, <2>3, <2>4, <2>5, CursorThen DEF Solo
<1>8. CASE Forget(p)
  <2>1. presence'[c] = NoOne
    BY <1>1, <1>8, ForgetThen DEF ShapeInv
  <2>2. PresenceDue(p)'
    BY <1>8, <2>1, ForgetThen DEF Solo, Holds, PresenceDue
  <2>3. \A i \in JoinedSessions(c) : ReadsIt(c, i)'
    BY <1>8, ForgetThen DEF Solo, CursorDue, ReadsIt
  <2>4. Holds(p)'
    BY <1>8, ForgetThen DEF Holds
  <2> QED
    BY <1>3, <1>8, <2>2, <2>3, <2>4, ForgetThen DEF Solo
<1>9. ASSUME NEW brain \in {"model", NoOne}, ReadPresence(p, brain)
      PROVE  Solo(p)'
  <2>1. \A i \in JoinedSessions(c) : Entry(p, brain).since >= i[2][1]
    <3> SUFFICES ASSUME NEW i \in JoinedSessions(c)
                 PROVE  Entry(p, brain).since >= i[2][1]
      OBVIOUS
    <3>1. presence[c] # NoOne => presence[c].since >= i[2][1]
      BY <1>9, ReadThen DEF Solo, PresenceDue, DeclaredInIt
    <3> QED
      BY <1>2, <3>1 DEF Entry
  <2>2. PresenceDue(p)' /\ Holds(p)'
    BY <1>3, <1>9, <2>1, ReadThen DEF PresenceDue, Holds
  <2>3. \A i \in JoinedSessions(c) : ReadsIt(c, i)'
    BY <1>9, ReadThen DEF Solo, CursorDue, ReadsIt
  <2> QED
    BY <1>3, <1>9, <2>2, <2>3, ReadThen DEF Solo
<1>10. CASE WritePresence(p)
  <2>1. presence'[c] = at[p].entry /\ at[p].entry \in Declared
    BY <1>1, <1>10, PresenceThen DEF ShapeInv
  <2>2. \A i \in JoinedSessions(c) : DeclaredInIt(c, i)'
    BY <1>10, <2>1, PresenceThen, NobodyDeclared DEF Solo, Holds, DeclaredInIt
  <2>3. \A i \in JoinedSessions(c) : ReadsIt(c, i)'
    BY <1>10, PresenceThen DEF Solo, CursorDue, ReadsIt
  <2>4. Holds(p)'
    BY <1>10, PresenceThen DEF Holds
  <2> QED
    BY <1>3, <1>10, <2>2, <2>3, <2>4, PresenceThen DEF Solo
<1>11. ASSUME NEW cmd \in {"note", "end"}, Load(p, cmd)
      PROVE  Solo(p)'
  <2>1. at[p].pc = "idle"
    BY <1>11, LoadThen DEF Idle
  <2> QED
    BY <1>3, <1>11, <2>1, LoadThen
       DEF Solo, Holds, CursorDue, PresenceDue, ReadsIt, DeclaredInIt
<1>12. CASE Save(p)
  <2> DEFINE rec == IF at[p].pc = "note" THEN Noted(at[p].rec) ELSE Ended(at[p].rec)
             id == at[p].id
  <2>1. /\ files' = Put(files, id, rec) /\ id \in DOMAIN files
        /\ files[id] = at[p].rec
    BY <1>12, SaveThen DEF SessInv, Solo, Holds
  <2>2. rec.open => rec.via = files[id].via
    BY <1>12, <2>1, SaveThen, NotedIs DEF ShapeInv
  <2>3. files[id].open
    BY <1>1, <1>12, SaveThen DEF SessInv
  <2> HIDE DEF rec, id
  <2>4. JoinedSessions(c)' \subseteq JoinedSessions(c)
    BY <2>1, <2>2, <2>3 DEF JoinedSessions, OpenOf, OpenIn, Put
  <2> QED
    BY <1>12, <2>4, SaveThen DEF Solo, Holds, CursorDue, PresenceDue, ReadsIt, DeclaredInIt
<1>13. CASE ProcessDies(p)
  BY <1>13, DiesThen
<1>14. CASE ReadRegistry(p) \/ WriteRegistry(p) \/ JoinHub(p)
  BY <1>3, <1>14, HubThen DEF Solo, Holds, CursorDue, PresenceDue, ReadsIt, DeclaredInIt
<1> QED
  BY <1>4, <1>5, <1>6, <1>7, <1>8, <1>9, <1>10, <1>11, <1>12, <1>13, <1>14 DEF CellMove

-----------------------------------------------------------------------------
(* Cells do not touch each other *)

LEMMA MoveWithin ==
  ASSUME SessInv, ShapeInv, NEW p \in Process, CellMove(p)
  PROVE  Within(CellOf[p])
<1>1. files' = files => Within(CellOf[p])
  BY DEF Within
<1>2. ASSUME NEW i, NEW rec, i[1] = Own(CellOf[p]), files' = Put(files, i, rec)
      PROVE  Within(CellOf[p])
  BY <1>2 DEF Within, Put
<1>3. CASE WriteSession(p)
  <2> DEFINE n == <<Own(CellOf[p]), at[p].sid>>
  <2>1. n[1] = Own(CellOf[p]) /\ files' = Put(files, n, Written(p))
    BY <1>3, WriteThen
  <2> QED
    BY <1>2, <2>1
<1>4. CASE Save(p)
  <2>1. at[p].id[1] = Own(CellOf[p])
    BY <1>4, SaveThen DEF SessInv
  <2> QED
    BY <1>2, <1>4, <2>1, SaveThen
<1> QED
  BY <1>1, <1>3, <1>4, GateThen, ChooseThen, CursorThen, ForgetThen, ReadThen, PresenceThen,
     LoadThen, DiesThen, HubThen DEF CellMove

LEMMA MoveElsewhere ==
  ASSUME SessInv, ShapeInv, NEW p \in Process, CellMove(p), NEW c \in Cell, c # CellOf[p]
  PROVE  /\ JoinedSessions(c)' = JoinedSessions(c)
         /\ presence'[c] = presence[c]
         /\ \A f \in JoinFields : join'[f][c] = join[f][c]
         /\ \A q \in Process : CellOf[q] = c /\ at[q].pc \in {"note", "end"} =>
              files'[at[q].id] = files[at[q].id]
<1>1. Own(c) # Own(CellOf[p]) /\ Old(c) # Own(CellOf[p])
  BY DEF Own, Old
<1>2. JoinedSessions(c)' = JoinedSessions(c)
  <2>1. OpenOf(c)' = OpenOf(c)
    BY MoveWithin, Elsewhere
  <2>2. \A i \in OpenOf(c) : files'[i] = files[i]
    BY <1>1, MoveWithin DEF Within, OpenOf, OpenIn
  <2> QED
    BY <2>1, <2>2 DEF JoinedSessions
<1>3. presence'[c] = presence[c]
  BY GateThen, ChooseThen, WriteThen, CursorThen, ForgetThen, ReadThen, PresenceThen,
     LoadThen, SaveThen, DiesThen, HubThen DEF CellMove, ShapeInv
<1>4. \A f \in JoinFields : join'[f][c] = join[f][c]
  <2>1. CASE SetCursor(p)
    BY <2>1 DEF SetCursor, JoinFields, Fields, ShapeInv
  <2> QED
    BY <2>1, GateThen, ChooseThen, WriteThen, ForgetThen, ReadThen, PresenceThen,
       LoadThen, SaveThen, DiesThen, HubThen DEF CellMove
<1>5. \A q \in Process : CellOf[q] = c /\ at[q].pc \in {"note", "end"} =>
        files'[at[q].id] = files[at[q].id]
  BY <1>1, MoveWithin DEF Within, SessInv
<1> QED
  BY <1>2, <1>3, <1>4, <1>5

-----------------------------------------------------------------------------
(* The invariant *)

LEMMA OwnMove ==
  ASSUME SessInv, NameInv, ShapeInv, ShapeInv', second \in Nat, NEW p \in Process, CellMove(p),
         CellOf[p] \notin raced', CellOf[p] \notin torn', JoinedCell(CellOf[p])
  PROVE  JoinedCell(CellOf[p])'
<1> DEFINE c == CellOf[p]
<1>1. \A q \in Process \ {p} : CellOf[q] = c => at[q] = Idle /\ at'[q] = at[q]
  <2> SUFFICES ASSUME NEW q \in Process \ {p}, CellOf[q] = c
               PROVE  at[q] = Idle /\ at'[q] = at[q]
    OBVIOUS
  <2>1. Enters(p) /\ at' = [at EXCEPT ![p] = at'[p]]
    BY CellMoveIs
  <2>2. c \notin raced
    BY <2>1 DEF Enters
  <2>3. CASE at[p] # Idle
    BY <2>1, <2>2, <2>3 DEF SessInv
  <2>4. CASE Others(p) = {}
    BY <2>1, <2>4 DEF Others, SessInv
  <2> QED
    BY <2>1, <2>3, <2>4 DEF Enters
<1>2. Idle.pc = "idle"
  BY DEF Idle
<1>3. \A q \in Process \ {p} : CellOf[q] = c =>
        /\ ~CursorDue(q) /\ ~PresenceDue(q) /\ Holds(q)'
  BY <1>1, <1>2 DEF CursorDue, PresenceDue, Holds
<1>4. Solo(p)
  BY <1>3 DEF JoinedCell, Solo
<1>5. Solo(p)'
  BY <1>4, SoloStep
<1> QED
  BY <1>3, <1>5 DEF JoinedCell, Solo

LEMMA OtherMove ==
  ASSUME SessInv, ShapeInv, NEW p \in Process, CellMove(p),
         NEW c \in Cell, c # CellOf[p], JoinedCell(c)
  PROVE  JoinedCell(c)'
<1>1. \A q \in Process : CellOf[q] = c => at'[q] = at[q]
  BY CellMoveIs DEF SessInv
<1>2. \A q \in Process : CellOf[q] = c =>
        Holds(q)' /\ CursorDue(q)' = CursorDue(q) /\ PresenceDue(q)' = PresenceDue(q)
  BY <1>1, MoveElsewhere DEF JoinedCell, Holds, CursorDue, PresenceDue
<1>3. \A i : ReadsIt(c, i)' = ReadsIt(c, i) /\ DeclaredInIt(c, i)' = DeclaredInIt(c, i)
  BY MoveElsewhere DEF ReadsIt, DeclaredInIt
<1> QED
  BY <1>2, <1>3, MoveElsewhere DEF JoinedCell

LEMMA JoinFieldKeeps ==
  ASSUME SessInv, NameInv, ShapeInv, second \in Nat, UNCHANGED sessionVars,
         NEW c \in Cell, JoinedCell(c),
         \A f \in JoinFields : join'[f][c] = join[f][c] \/ join'[f][c] = Joined(f, c, FALSE)
  PROVE  JoinedCell(c)'
<1>1. \A q \in Process : /\ Holds(q)' = Holds(q) /\ CursorDue(q)' = CursorDue(q)
                         /\ PresenceDue(q)' = PresenceDue(q)
  BY DEF Holds, CursorDue, PresenceDue, sessionVars, JoinedSessions, OpenOf, OpenIn
<1>2. \A i : DeclaredInIt(c, i)' = DeclaredInIt(c, i)
  BY DEF DeclaredInIt, sessionVars
<1>3. JoinedSessions(c)' = JoinedSessions(c)
  BY DEF JoinedSessions, OpenOf, OpenIn, sessionVars
<1>4. \A i \in JoinedSessions(c) : i[2][1] \in Nat /\ i[2][1] <= second
  BY DEF JoinedSessions, OpenOf, OpenIn, NameInv
<1>5. \A i \in JoinedSessions(c) : ReadsIt(c, i) => ReadsIt(c, i)'
  BY <1>4 DEF ReadsIt, Joined, JoinFields, Fields, ShapeInv
<1> QED
  BY <1>1, <1>2, <1>3, <1>5 DEF JoinedCell

LEMMA JoinStep ==
  ASSUME SessInv, NameInv, ShapeInv, ShapeInv', second \in Nat, JoinInv, [Next]_workspaceVars
  PROVE  JoinInv'
<1> SUFFICES ASSUME NEW c \in Cell, c \notin raced', c \notin torn'
             PROVE  JoinedCell(c)'
  BY DEF JoinInv
<1>1. ASSUME NEW p \in Process, CellMove(p)
      PROVE  JoinedCell(c)'
  <2>1. c \notin raced /\ c \notin torn
    BY <1>1, CellMoveIs DEF Enters
  <2>2. JoinedCell(c)
    BY <2>1 DEF JoinInv
  <2> QED
    BY <1>1, <2>2, OwnMove, OtherMove
<1>2. ASSUME UNCHANGED sessionVars,
             \A f \in JoinFields : join'[f][c] = join[f][c] \/ join'[f][c] = Joined(f, c, FALSE)
      PROVE  JoinedCell(c)'
  <2>1. c \notin raced /\ c \notin torn
    BY <1>2 DEF sessionVars
  <2>2. JoinedCell(c)
    BY <2>1 DEF JoinInv
  <2> QED
    BY <1>2, <2>2, JoinFieldKeeps
<1>3. ASSUME NEW f \in Watched, NEW d \in Cell, JoinField(f, d), UNCHANGED sessionVars
      PROVE  JoinedCell(c)'
  <2>1. \A g \in JoinFields : join'[g][c] = join[g][c] \/ join'[g][c] = Joined(g, c, FALSE)
    BY <1>3 DEF JoinField, JoinFields, Watched, Fields, ShapeInv
  <2> QED
    BY <1>2, <1>3, <2>1
<1>4. CASE UNCHANGED <<sessionVars, join>>
  BY <1>2, <1>4
<1> QED
  BY CellSteps, <1>1, <1>3, <1>4

-----------------------------------------------------------------------------
(* What follows *)

LEMMA JoinInit ==
  ASSUME Init
  PROVE  ShapeInv /\ JoinInv
<1>1. /\ join = [f \in Fields |-> [c \in Cell |-> -1]]
      /\ presence = [c \in Cell |-> NoOne]
      /\ at = [p \in Process |-> Idle]
      /\ DOMAIN files = {<<Old(c), <<0, 1>>>> : c \in Legacy}
      /\ \A i \in DOMAIN files : files[i] = [role |-> "worker", open |-> TRUE, last |-> 0, via |-> "start"]
  BY DEF Init, FieldInit, SessionInit
<1>2. \A p \in Process : at[p].pc = "idle"
  BY <1>1 DEF Idle
<1>3. \A i \in DOMAIN files : Shaped(files[i]) /\ files[i].via = "start"
  <2> SUFFICES ASSUME NEW i \in DOMAIN files
               PROVE  Shaped(files[i]) /\ files[i].via = "start"
    OBVIOUS
  <2> DEFINE r == [role |-> "worker", open |-> TRUE, last |-> 0, via |-> "start"]
  <2>1. Shaped(r) /\ r.via = "start"
    BY DEF Shaped
  <2>2. files[i] = r
    BY <1>1
  <2> HIDE DEF r
  <2> QED
    BY <2>1, <2>2
<1>4. ShapeInv
  BY <1>1, <1>2, <1>3 DEF ShapeInv
<1>5. \A c : JoinedSessions(c) = {}
  BY <1>3 DEF JoinedSessions, OpenOf, OpenIn
<1>6. JoinInv
  BY <1>2, <1>5 DEF JoinInv, JoinedCell, Holds
<1> QED
  BY <1>4, <1>6

LEMMA JoinHolds ==
  ASSUME JoinInv
  PROVE  CursorOfSession /\ PresenceOfSession
<1> SUFFICES ASSUME NEW c \in Cell, Through(c), NEW i \in JoinedSessions(c)
             PROVE  ReadsIt(c, i) /\ DeclaredInIt(c, i)
  BY DEF CursorOfSession, PresenceOfSession, ReadsIt, DeclaredInIt, JoinFields
<1>1. JoinedCell(c)
  BY DEF JoinInv, Through
<1>2. \A p \in Process : CellOf[p] = c => at[p].pc = "idle"
  BY DEF Through, Idle
<1>3. \A p \in Process : CellOf[p] = c => ~CursorDue(p) /\ ~PresenceDue(p)
  BY <1>2 DEF CursorDue, PresenceDue
<1> QED
  BY <1>1, <1>3 DEF JoinedCell

\* What a session is, for a cell whose commands come one after the other: there is one,
\* and what is read and declared in it is its own, and no earlier session's.
THEOREM SessionsHoldAlways == Spec => []SessionsHold
<1>1. Init => ShapeInv /\ JoinInv
  BY JoinInit
<1>2. ShapeInv /\ JoinInv /\ AllInv /\ AllInv' /\ [Next]_workspaceVars => (ShapeInv /\ JoinInv)'
  <2>1. AllInv => second \in Nat
    BY DEF AllInv, PlaceInv
  <2> QED
    BY <2>1, ShapeStep, JoinStep DEF AllInv
<1>3. ShapeInv /\ JoinInv /\ AllInv => SessionsHold
  BY JoinHolds, OneIsOpen DEF AllInv, SessionsHold
<1> QED
  BY <1>1, <1>2, <1>3, AllInvAlways, PTL DEF Spec

-----------------------------------------------------------------------------
(* Who sounds an alarm *)

Grounded(l, heard) == l.field = "alarm" /\ l.from # NoOne =>
  \E s \in heard : s[1] = l.at /\ "chief" \in s[2]

AlarmInv ==
  /\ \A l \in live : Grounded(l, sounded)
  /\ \A p \in Poster : posting[p] # NoOne => Grounded(posting[p], sounded)

LEMMA AlarmSteps ==
  ASSUME [Next]_workspaceVars
  PROVE  \/ \E d : Post(d) /\ d.field # "alarm" /\ sounded' = sounded
         \/ \E p, to, body : Sound(p, to, body)
         \/ \E p \in Poster : (Link(p) \/ Die(p)) /\ sounded' = sounded
         \/ \E l \in live : Archive(l) /\ sounded' = sounded
         \/ UNCHANGED <<live, posting, sounded>>
<1>1. CASE FieldStep /\ sounded' = sounded
  <2>1. CASE Letters
    <3>1. \A f, c, to, topic, body, key, reply, extra :
            Draft(f, c, to, topic, body, key, reply, extra).field = f
      BY DEF Draft
    <3> QED
      BY <1>1, <2>1, <3>1 DEF Letters
  <2>2. CASE Reading
    BY <1>1, <2>2 DEF Reading, Poll, ShowNext, MarkRead, StopWatching, letters
  <2>3. ASSUME NEW f \in Watched, NEW c \in Cell, JoinField(f, c)
        PROVE  UNCHANGED <<live, posting>>
    BY <2>3 DEF JoinField, letters
  <2>4. CASE Tick
    BY <1>1, <2>4 DEF Tick, letters
  <2> QED
    BY <1>1, <2>1, <2>2, <2>3, <2>4 DEF FieldStep
<1>2. CASE SessionStep /\ sounded' = sounded
  <2>1. UNCHANGED <<live, posting>>
    BY <1>2 DEF SessionStep, Gate, ChooseSid, WriteSession, SetCursor, Forget, ReadPresence,
                WritePresence, Load, Save, ProcessDies, fieldVars, letters
  <2> QED
    BY <1>2, <2>1
<1>3. CASE HubStep /\ sounded' = sounded
  <2>1. ASSUME NEW p \in Process, ReadRegistry(p) \/ WriteRegistry(p) \/ JoinHub(p)
        PROVE  UNCHANGED <<live, posting>>
    BY <2>1 DEF ReadRegistry, WriteRegistry, JoinHub, fieldVars, letters
  <2>2. ASSUME NEW c \in Cell, Leave(c) \/ ReadPage(c) \/ \E l \in live : HubRead(c, l)
        PROVE  UNCHANGED <<live, posting>>
    BY <2>2 DEF Leave, ReadPage, HubRead, fieldVars, letters
  <2>3. ASSUME NEW m, HubSend(m.from, m.to, m.body, m.key)
        PROVE  \E d : Post(d) /\ d.field # "alarm"
    <3>1. \A f, c, to, topic, body, key, reply, extra :
            Draft(f, c, to, topic, body, key, reply, extra).field = f
      BY DEF Draft
    <3> QED
      BY <2>3, <3>1 DEF HubSend
  <2> QED
    BY <1>3, <2>1, <2>2, <2>3 DEF HubStep
<1>4. CASE UNCHANGED workspaceVars
  BY <1>4 DEF workspaceVars, fieldVars, letters
<1> QED
  BY <1>1, <1>2, <1>3, <1>4 DEF Next

LEMMA AlarmStep ==
  ASSUME AlarmInv, NameInv, PlaceInv, [Next]_workspaceVars
  PROVE  AlarmInv'
<1>1. ASSUME sounded \subseteq sounded', NEW l, Grounded(l, sounded)
      PROVE  Grounded(l, sounded')
  BY <1>1 DEF Grounded
<1>2. ASSUME NEW d, Post(d), sounded \subseteq sounded',
             d.field = "alarm" /\ d.from # NoOne => \E s \in sounded' : s[1] = written /\ "chief" \in s[2]
      PROVE  AlarmInv'
  <2>1. live' = live
    BY <1>2 DEF Post, letters
  <2>2. CASE posting' = posting
    BY <1>1, <1>2, <2>1, <2>2 DEF AlarmInv
  <2>3. CASE WriteLetter(d)
    <3>1. posting' = [posting EXCEPT ![d.from] = Stamped(d)]
      BY <2>3 DEF WriteLetter
    <3>2. Stamped(d).field = d.field /\ Stamped(d).from = d.from /\ Stamped(d).at = written
      BY DEF Stamped
    <3> HIDE DEF Stamped
    <3>3. Grounded(Stamped(d), sounded')
      BY <1>2, <3>1, <3>2 DEF Grounded, Stamped
    <3>4. \A p \in Poster : posting'[p] = posting[p] \/ posting'[p] = Stamped(d)
      BY <3>1 DEF PlaceInv
    <3> QED
      BY <1>1, <1>2, <2>1, <3>3, <3>4 DEF AlarmInv, Grounded
  <2> QED
    BY <1>2, <2>2, <2>3 DEF Post
<1>3. ASSUME NEW p, NEW to, NEW body, Sound(p, to, body)
      PROVE  AlarmInv'
  <2> DEFINE roles == {files[i].role : i \in OpenIn(Own(p))}
  <2>1. PICK d : Post(d) /\ d.from = p
    <3>1. \A f, to_, topic, text, key, reply, extra :
            Draft(f, p, to_, topic, text, key, reply, extra).from = p
      BY DEF Draft
    <3> QED
      BY <1>3, <3>1 DEF Sound
  <2>2. sounded' = sounded \cup {<<written, IF p = NoOne THEN {} ELSE roles>>}
    BY <1>3 DEF Sound
  <2>3. p # NoOne => "chief" \in roles
    <3>1. p # NoOne => FirstOpen(Own(p)) \in OpenIn(Own(p)) /\ files[FirstOpen(Own(p))].role = "chief"
      BY <1>3, FirstOpenIsOpen DEF Sound, CanSound, PlaceInv
    <3> QED
      BY <3>1
  <2> HIDE DEF roles
  <2>4. p # NoOne => \E s \in sounded' : s[1] = written /\ "chief" \in s[2]
    <3>1. \A r : <<written, r>>[1] = written /\ <<written, r>>[2] = r
      OBVIOUS
    <3>2. p # NoOne => <<written, roles>> \in sounded'
      BY <2>2
    <3> QED
      BY <2>3, <3>1, <3>2, Zenon
  <2>5. sounded \subseteq sounded'
    BY <2>2
  <2>6. d.field = "alarm" /\ d.from # NoOne => \E s \in sounded' : s[1] = written /\ "chief" \in s[2]
    BY <2>1, <2>4
  <2> QED
    BY <1>2, <2>1, <2>5, <2>6
<1>4. ASSUME NEW p \in Poster, Link(p), sounded' = sounded
      PROVE  AlarmInv'
  <2> DEFINE l == Linked(posting[p])
  <2>1. l.field = posting[p].field /\ l.from = posting[p].from /\ l.at = posting[p].at
    BY DEF Linked, Numbered
  <2>2. /\ posting[p] # NoOne /\ posting' = [posting EXCEPT ![p] = NoOne]
        /\ live' = {k \in live : Name(k) # Name(l)} \cup {l}
    BY <1>4 DEF Link
  <2> HIDE DEF l
  <2>3. Grounded(l, sounded)
    BY <2>1, <2>2 DEF AlarmInv, Grounded
  <2>4. \A q \in Poster : posting'[q] # NoOne => posting'[q] = posting[q]
    BY <2>2 DEF PlaceInv
  <2> QED
    BY <1>4, <2>2, <2>3, <2>4 DEF AlarmInv, Grounded
<1>5. ASSUME NEW p \in Poster, Die(p), sounded' = sounded
      PROVE  AlarmInv'
  <2>1. live' = live /\ posting' = [posting EXCEPT ![p] = NoOne]
    BY <1>5 DEF Die, letters
  <2>2. \A q \in Poster : posting'[q] # NoOne => posting'[q] = posting[q]
    BY <2>1 DEF PlaceInv
  <2> QED
    BY <1>5, <2>1, <2>2 DEF AlarmInv, Grounded
<1>6. ASSUME NEW l \in live, Archive(l), sounded' = sounded
      PROVE  AlarmInv'
  BY <1>6 DEF Archive, AlarmInv, Grounded
<1>7. CASE UNCHANGED <<live, posting, sounded>>
  BY <1>7 DEF AlarmInv, Grounded
<1> QED
  BY AlarmSteps, <1>2, <1>3, <1>4, <1>5, <1>6, <1>7

LEMMA RosterHolds == RosterSaysWhatIsSeen
<1> SUFFICES ASSUME NEW c \in Cell, NEW observed \in BOOLEAN, NEW moving \in BOOLEAN
             PROVE  LET s == CoordState(c, observed, moving) IN
                    /\ s = "engaged" => \/ \E l \in live : l.from = c /\ second - l.second <= Window
                                        \/ \E i \in DOMAIN files :
                                             i[1][1] = c /\ second - files[i].last <= Window
                    /\ presence[c] = NoOne => s \in {"unattributed", "absent"}
  BY DEF RosterSaysWhatIsSeen
<1> DEFINE s == CoordState(c, observed, moving)
<1>1. s = "engaged" => FieldLive(c)
  BY DEF CoordState
<1>2. ASSUME FieldLive(c)
      PROVE  \/ \E l \in live : l.from = c /\ second - l.second <= Window
             \/ \E i \in DOMAIN files : i[1][1] = c /\ second - files[i].last <= Window
  <2>1. \A i \in OpenOf(c) : i \in DOMAIN files /\ i[1][1] = c
    BY DEF OpenOf, OpenIn, Own, Old
  <2> QED
    BY <1>2, <2>1 DEF FieldLive, Acts, In
<1>3. presence[c] = NoOne => s \in {"unattributed", "absent"}
  BY DEF CoordState
<1> QED
  BY <1>1, <1>2, <1>3

\* Every alarm that can be seen is a person's or that of a cell which was chief when it
\* sounded it, and who is said to be engaged has posted or noted something lately.
THEOREM ClaimsHaveGroundAlways == Spec => []ClaimsHaveGround
<1>1. Init => AlarmInv
  BY DEF Init, FieldInit, AlarmInv
<1>2. AlarmInv /\ AllInv /\ [Next]_workspaceVars => AlarmInv'
  BY AlarmStep DEF AllInv
<1>3. AlarmInv => ClaimsHaveGround
  BY RosterHolds DEF AlarmInv, Grounded, In, AlarmsAreOfChiefs, ClaimsHaveGround
<1> QED
  BY <1>1, <1>2, <1>3, AllInvAlways, PTL DEF Spec

-----------------------------------------------------------------------------
(* Which steps touch the hub *)

LEMMA BearSteps ==
  ASSUME SessInv, [Next]_workspaceVars
  PROVE  \/ \E d : Post(d) /\ d.field # "hub" /\ UNCHANGED <<at, registry, epochs>>
         \/ \E from, to, body, key : HubSend(from, to, body, key)
         \/ \E p \in Poster : (Link(p) \/ Die(p)) /\ UNCHANGED <<at, registry, epochs>>
         \/ \E l \in live : Archive(l) /\ UNCHANGED <<at, registry, epochs>>
         \/ \E p \in Process : /\ at' = [at EXCEPT ![p] = at'[p]] /\ at'[p].pc # "enter"
                               /\ UNCHANGED <<live, posting, registry, epochs>>
         \/ \E p \in Process : ReadRegistry(p) \/ WriteRegistry(p)
         \/ \E c \in Cell : Leave(c)
         \/ UNCHANGED <<live, posting, at, registry, epochs>>
<1>1. CASE FieldStep /\ UNCHANGED <<sessionVars, hubVars>>
  <2>1. UNCHANGED <<at, registry, epochs>>
    BY <1>1 DEF sessionVars, hubVars
  <2>2. CASE Letters
    <3>1. \A f, c, to, topic, body, key, reply, extra :
            Draft(f, c, to, topic, body, key, reply, extra).field = f
      BY DEF Draft
    <3> QED
      BY <2>1, <2>2, <3>1 DEF Letters
  <2>3. CASE Reading
    BY <2>1, <2>3 DEF Reading, Poll, ShowNext, MarkRead, StopWatching, letters
  <2>4. ASSUME NEW f \in Watched, NEW c \in Cell, JoinField(f, c)
        PROVE  UNCHANGED <<live, posting>>
    BY <2>4 DEF JoinField, letters
  <2>5. CASE Tick
    BY <2>1, <2>5 DEF Tick, letters
  <2> QED
    BY <1>1, <2>1, <2>2, <2>3, <2>4, <2>5 DEF FieldStep
<1>2. CASE SessionStep /\ UNCHANGED hubVars
  <2>1. PICK p \in Process :
          \/ \E j \in Joins : Gate(p, "join", j.role, j.address)
          \/ \E role \in Role : Gate(p, "start", role, NoOne)
          \/ ChooseSid(p) \/ WriteSession(p) \/ SetCursor(p) \/ Forget(p)
          \/ \E brain \in {"model", NoOne} : ReadPresence(p, brain)
          \/ WritePresence(p)
          \/ Load(p, "note") \/ Load(p, "end") \/ Save(p)
          \/ ProcessDies(p)
    BY <1>2 DEF SessionStep
  <2>2. CellMove(p)
    BY <2>1, WorkspaceAssumption DEF CellMove
  <2>3. UNCHANGED <<live, posting>>
    BY <2>1 DEF Gate, ChooseSid, WriteSession, SetCursor, Forget, ReadPresence,
                WritePresence, Load, Save, ProcessDies, fieldVars, letters
  <2>4. at'[p].pc # "enter"
    BY <2>1, GateThen, ChooseThen, WriteThen, CursorThen, ForgetThen, ReadThen, PresenceThen,
       LoadThen, SaveThen, DiesThen
  <2>5. at' = [at EXCEPT ![p] = at'[p]]
    BY <2>2, CellMoveIs
  <2> QED
    BY <1>2, <2>3, <2>4, <2>5 DEF hubVars
<1>3. CASE HubStep
  <2>1. ASSUME NEW p \in Process, JoinHub(p)
        PROVE  /\ at' = [at EXCEPT ![p] = at'[p]] /\ at'[p].pc # "enter"
               /\ UNCHANGED <<live, posting, registry, epochs>>
    <3>1. CellMove(p)
      BY <2>1 DEF CellMove
    <3>2. at'[p].pc = "idle"
      BY <2>1 DEF JoinHub, Go, Idle, SessInv
    <3> QED
      BY <2>1, <3>1, <3>2, CellMoveIs DEF JoinHub, letters, hubVars
  <2>2. ASSUME NEW c \in Cell, ReadPage(c) \/ \E l \in live : HubRead(c, l)
        PROVE  UNCHANGED <<live, posting, at, registry, epochs>>
    BY <2>2 DEF ReadPage, HubRead, letters, sessionVars, hubVars
  <2> QED
    BY <1>3, <2>1, <2>2 DEF HubStep
<1>4. ASSUME NEW m, Sound(m.from, m.to, m.body)
      PROVE  \E d : Post(d) /\ d.field # "hub" /\ UNCHANGED <<at, registry, epochs>>
  <2>1. \A f, c, to, topic, body, key, reply, extra :
          Draft(f, c, to, topic, body, key, reply, extra).field = f
    BY DEF Draft
  <2> QED
    BY <1>4, <2>1 DEF Sound, sessionVars, hubVars
<1>5. CASE UNCHANGED workspaceVars
  BY <1>5 DEF workspaceVars, fieldVars, letters, sessionVars, hubVars
<1> QED
  BY <1>1, <1>2, <1>3, <1>4, <1>5 DEF Next

LEMMA PagingSteps ==
  ASSUME [Next]_workspaceVars
  PROVE  \/ \E c \in Cell : ReadPage(c)
         \/ UNCHANGED <<paging, received>>
<1>1. CASE HubStep
  <2>1. ASSUME NEW p \in Process, ReadRegistry(p) \/ WriteRegistry(p) \/ JoinHub(p)
        PROVE  UNCHANGED <<paging, received>>
    BY <2>1 DEF ReadRegistry, WriteRegistry, JoinHub, hubVars
  <2>2. ASSUME NEW c \in Cell, Leave(c) \/ \E l \in live : HubRead(c, l)
        PROVE  UNCHANGED <<paging, received>>
    BY <2>2 DEF Leave, HubRead, hubVars
  <2>3. ASSUME NEW m, HubSend(m.from, m.to, m.body, m.key)
        PROVE  UNCHANGED <<paging, received>>
    BY <2>3 DEF HubSend, hubVars
  <2> QED
    BY <1>1, <2>1, <2>2, <2>3 DEF HubStep
<1>2. ASSUME NEW m, Sound(m.from, m.to, m.body)
      PROVE  UNCHANGED <<paging, received>>
  BY <1>2 DEF Sound, hubVars
<1> QED
  BY <1>1, <1>2 DEF Next, hubVars, workspaceVars

-----------------------------------------------------------------------------
(* Who goes by which address *)

\* Everything that says under which address and epoch a cell goes: the registry, an
\* entry that is about to be written, the letters that are there or under way.
Bearing ==
  {registry[c] : c \in {d \in Cell : registry[d] # NoOne}}
    \cup {at[p].entry : p \in {q \in Process : at[q].pc = "enter"}}
    \cup {l.extra : l \in In("hub")}
    \cup {posting[p].extra : p \in {q \in Poster : posting[q] # NoOne /\ posting[q].field = "hub"}}

\* An epoch belongs to one address.
BearInv ==
  /\ epochs \in Nat
  /\ registry = [c \in Cell |-> registry[c]]
  /\ \A r \in Bearing : r.epoch \in 1 .. epochs
  /\ \A r, s \in Bearing : r.epoch = s.epoch => r.address = s.address

Alike(r, s) == r.epoch = s.epoch /\ r.address = s.address

LEMMA BearKeeps ==
  ASSUME BearInv, epochs' = epochs, registry' = [c \in Cell |-> registry'[c]],
         \A r \in Bearing' : \E s \in Bearing : Alike(r, s)
  PROVE  BearInv'
<1> QED
  BY DEF BearInv, Alike

LEMMA BearNew ==
  ASSUME BearInv, NEW n, n.epoch = epochs + 1, epochs' = epochs + 1, registry' = registry,
         \A r \in Bearing' : r = n \/ r \in Bearing
  PROVE  BearInv'
<1>1. \A r \in Bearing : r.epoch \in 1 .. epochs
  BY DEF BearInv
<1>2. epochs \in Nat
  BY DEF BearInv
<1>3. \A r \in Bearing' : r.epoch \in 1 .. epochs'
  BY <1>1, <1>2
<1>4. \A r, s \in Bearing' : r.epoch = s.epoch => r.address = s.address
  <2> SUFFICES ASSUME NEW r \in Bearing', NEW s \in Bearing', r.epoch = s.epoch
               PROVE  r.address = s.address
    OBVIOUS
  <2>1. CASE r = n /\ s = n
    BY <2>1
  <2>2. r = n => s = n
    BY <1>1, <1>2
  <2>3. s = n => r = n
    BY <1>1, <1>2
  <2>4. CASE r \in Bearing /\ s \in Bearing
    BY <2>4 DEF BearInv
  <2> QED
    BY <2>1, <2>2, <2>3, <2>4
<1> QED
  BY <1>2, <1>3, <1>4 DEF BearInv

\* A step that adds at most one letter under way.
LEMMA BearPost ==
  ASSUME BearInv, KeyInv, NEW d, Post(d), UNCHANGED <<at, registry, epochs>>,
         d.field = "hub" => \E s \in Bearing : Alike(d.extra, s)
  PROVE  BearInv'
<1>1. live' = live
  BY DEF Post, letters
<1>2. Stamped(d).field = d.field /\ Stamped(d).extra = d.extra
  BY DEF Stamped
<1>3. \A p \in Poster : posting'[p] = posting[p] \/ posting'[p] = Stamped(d)
  BY DEF Post, WriteLetter, KeyInv
<1> HIDE DEF Stamped
<1>4. ASSUME NEW r \in Bearing'
      PROVE  \E s \in Bearing : Alike(r, s)
  <2>1. CASE r \in Bearing
    BY <2>1 DEF Alike
  <2>2. CASE r \notin Bearing
    <3>1. PICK p \in Poster : posting'[p] # NoOne /\ posting'[p].field = "hub" /\ r = posting'[p].extra
      BY <1>1, <1>4, <2>2 DEF Bearing, In
    <3>2. posting'[p] = Stamped(d)
      BY <1>3, <2>2, <3>1 DEF Bearing
    <3> QED
      BY <1>2, <3>1, <3>2
  <2> QED
    BY <2>1, <2>2
<1> QED
  BY <1>4, BearKeeps DEF BearInv

LEMMA BearLink ==
  ASSUME BearInv, PlaceInv, NEW c \in Poster, Link(c), UNCHANGED <<at, registry, epochs>>
  PROVE  BearInv'
<1> DEFINE l == Linked(posting[c])
<1>1. l.field = posting[c].field /\ l.extra = posting[c].extra
  BY DEF Linked, Numbered
<1>2. live' = live \cup {l} /\ posting[c] # NoOne /\ posting' = [posting EXCEPT ![c] = NoOne]
  BY PlaceLink DEF Link
<1> HIDE DEF l
<1>3. \A q \in Poster : posting'[q] # NoOne => posting'[q] = posting[q]
  BY <1>2 DEF PlaceInv
<1>4. ASSUME NEW r \in Bearing'
      PROVE  r \in Bearing
  BY <1>1, <1>2, <1>3 DEF Bearing, In
<1> QED
  BY <1>4, BearKeeps DEF BearInv, Alike

LEMMA BearStep ==
  ASSUME BearInv, SessInv, KeyInv, PlaceInv, [Next]_workspaceVars
  PROVE  BearInv'
<1>1. ASSUME NEW from, NEW to, NEW body, NEW key, HubSend(from, to, body, key)
      PROVE  BearInv'
  <2>1. PICK c \in Holders(to) :
          Post(Draft("hub", from, c, "letter", body, key, NoOne,
                     [address |-> registry[c].address, epoch |-> registry[c].epoch]))
    BY <1>1 DEF HubSend
  <2> DEFINE extra == [address |-> registry[c].address, epoch |-> registry[c].epoch]
             d == Draft("hub", from, c, "letter", body, key, NoOne, extra)
  <2>2. registry[c] \in Bearing
    BY DEF Holders, Bearing
  <2>3. Alike(extra, registry[c])
    BY DEF Alike
  <2>4. d.extra = extra
    BY DEF Draft
  <2>5. Post(d) /\ UNCHANGED <<at, registry, epochs>>
    BY <1>1, <2>1 DEF HubSend, sessionVars, hubVars
  <2> HIDE DEF d, extra
  <2> QED
    BY <2>2, <2>3, <2>4, <2>5, BearPost
<1>2. ASSUME NEW p \in Poster, Die(p), UNCHANGED <<at, registry, epochs>>
      PROVE  BearInv'
  <2>1. live' = live /\ \A q \in Poster : posting'[q] # NoOne => posting'[q] = posting[q]
    BY <1>2 DEF Die, letters, PlaceInv
  <2>2. Bearing' \subseteq Bearing
    BY <1>2, <2>1 DEF Bearing, In
  <2> QED
    BY <1>2, <2>2, BearKeeps DEF BearInv, Alike
<1>3. ASSUME NEW l \in live, Archive(l), UNCHANGED <<at, registry, epochs>>
      PROVE  BearInv'
  <2>1. live' \subseteq live /\ posting' = posting
    BY <1>3 DEF Archive
  <2>2. Bearing' \subseteq Bearing
    BY <1>3, <2>1 DEF Bearing, In
  <2> QED
    BY <1>3, <2>2, BearKeeps DEF BearInv, Alike
<1>4. ASSUME NEW p \in Process, at' = [at EXCEPT ![p] = at'[p]], at'[p].pc # "enter",
             UNCHANGED <<live, posting, registry, epochs>>
      PROVE  BearInv'
  <2>1. \A q \in Process : at'[q].pc = "enter" => at'[q] = at[q]
    BY <1>4 DEF SessInv
  <2>2. Bearing' \subseteq Bearing
    BY <1>4, <2>1 DEF Bearing, In
  <2> QED
    BY <1>4, <2>2, BearKeeps DEF BearInv, Alike
<1>5. ASSUME NEW p \in Process, ReadRegistry(p)
      PROVE  BearInv'
  <2> DEFINE c == CellOf[p]
             entry == [address |-> at[p].address,
                       epoch |-> IF registry[c] = NoOne THEN NextEpoch ELSE registry[c].epoch]
             s == [pc |-> "enter", started |-> at[p].started, entry |-> entry]
  <2>1. UNCHANGED <<live, posting, registry>> /\ c \in Cell
    BY <1>5, SessionAssumption DEF ReadRegistry, fieldVars, letters
  <2>2. CASE Rebinds(registry[c], at[p].address)
    <3>1. at' = [at EXCEPT ![p] = Idle] /\ epochs' = epochs /\ Idle.pc = "idle"
      BY <1>5, <2>2 DEF ReadRegistry, Go, Idle
    <3>2. at' = [at EXCEPT ![p] = at'[p]] /\ at'[p].pc # "enter"
      BY <3>1 DEF SessInv
    <3> QED
      BY <1>4, <2>1, <3>1, <3>2
  <2>3. CASE ~Rebinds(registry[c], at[p].address)
    <3>1. /\ at' = [at EXCEPT ![p] = s]
          /\ epochs' = IF registry[c] = NoOne THEN epochs + 1 ELSE epochs
      BY <1>5, <2>3, Zenon DEF ReadRegistry, Go
    <3>2. s.pc = "enter" /\ s.entry = entry
      OBVIOUS
    <3>3. /\ entry.address = at[p].address
          /\ registry[c] = NoOne => entry.epoch = epochs + 1
          /\ registry[c] # NoOne => entry.epoch = registry[c].epoch
      BY DEF NextEpoch
    <3> HIDE DEF s, entry
    <3>4. \A q \in Process : at'[q] = at[q] \/ (at'[q] = s /\ at'[q].pc = "enter")
      BY <3>1, <3>2 DEF SessInv
    <3>5. \A r \in Bearing' : r = entry \/ r \in Bearing
      BY <2>1, <3>2, <3>4 DEF Bearing, In
    <3>6. CASE registry[c] = NoOne
      BY <2>1, <3>1, <3>3, <3>5, <3>6, BearNew
    <3>7. CASE registry[c] # NoOne
      <4>1. registry[c] \in Bearing /\ Alike(entry, registry[c])
        BY <2>1, <2>3, <3>3, <3>7 DEF Bearing, Alike, Rebinds
      <4> QED
        BY <2>1, <3>1, <3>5, <3>7, <4>1, BearKeeps DEF BearInv, Alike
    <3> QED
      BY <3>6, <3>7
  <2> QED
    BY <2>2, <2>3
<1>6. ASSUME NEW p \in Process, WriteRegistry(p)
      PROVE  BearInv'
  <2> DEFINE s == [pc |-> "hubcursor", started |-> at[p].started]
  <2>1. /\ at[p].pc = "enter" /\ UNCHANGED <<live, posting, epochs>>
        /\ registry' = [registry EXCEPT ![CellOf[p]] = at[p].entry]
        /\ at' = [at EXCEPT ![p] = s] /\ s.pc = "hubcursor"
    BY <1>6 DEF WriteRegistry, Go, fieldVars, letters
  <2> HIDE DEF s
  <2>2. at[p].entry \in Bearing
    BY <2>1 DEF Bearing
  <2>3. \A q \in Process : at'[q].pc = "enter" => at'[q] = at[q]
    BY <2>1 DEF SessInv
  <2>4. /\ \A d \in Cell : registry'[d] = registry[d] \/ registry'[d] = at[p].entry
        /\ registry' = [d \in Cell |-> registry'[d]]
    BY <2>1 DEF BearInv
  <2>5. Bearing' \subseteq Bearing
    BY <2>1, <2>2, <2>3, <2>4 DEF Bearing, In
  <2> QED
    BY <2>1, <2>4, <2>5, BearKeeps DEF Alike
<1>7. ASSUME NEW c \in Cell, Leave(c)
      PROVE  BearInv'
  <2>1. UNCHANGED <<live, posting, at, epochs>> /\ registry' = [registry EXCEPT ![c] = NoOne]
    BY <1>7 DEF Leave, fieldVars, letters, sessionVars
  <2>2. /\ \A d \in Cell : registry'[d] = registry[d] \/ registry'[d] = NoOne
        /\ registry' = [d \in Cell |-> registry'[d]]
    BY <2>1 DEF BearInv
  <2>3. Bearing' \subseteq Bearing
    BY <2>1, <2>2 DEF Bearing, In
  <2> QED
    BY <2>1, <2>2, <2>3, BearKeeps DEF Alike
<1>8. CASE UNCHANGED <<live, posting, at, registry, epochs>>
  <2>1. Bearing' = Bearing
    BY <1>8 DEF Bearing, In
  <2> QED
    BY <1>8, <2>1 DEF BearInv
<1> QED
  BY BearSteps, BearPost, BearLink, <1>1, <1>2, <1>3, <1>4, <1>5, <1>6, <1>7, <1>8

LEMMA BearInit ==
  ASSUME Init
  PROVE  BearInv
<1>1. /\ registry = [c \in Cell |-> NoOne] /\ epochs = 0 /\ live = {}
      /\ posting = [p \in Poster |-> NoOne] /\ at = [p \in Process |-> Idle]
  BY DEF Init, HubInit, FieldInit, SessionInit
<1>2. Bearing = {}
  BY <1>1 DEF Bearing, In, Idle
<1> QED
  BY <1>1, <1>2 DEF BearInv

-----------------------------------------------------------------------------
(* What a page has *)

\* What does not fit on a page comes after all that does.
LEMMA PageIs ==
  ASSUME NEW S, IsFiniteSet(S), NEW N \in Nat, \A l \in S : l.at \in 0 .. N
  PROVE  /\ PageOf(S) \subseteq S
         /\ PageOf(S) # S => \A l \in S \ PageOf(S) : l.at > Cursor(S, PageOf(S)).at
<1> DEFINE Before(l) == {k \in S : k.at < l.at}
           page == PageOf(S)
<1>1. \A l \in S : IsFiniteSet(Before(l)) /\ Cardinality(Before(l)) \in Nat
  <2>1. \A l : Before(l) \subseteq S
    OBVIOUS
  <2> HIDE DEF Before
  <2> QED
    BY <2>1, FS_Subset, FS_CardinalityType
<1>2. page = {l \in S : Cardinality(Before(l)) < PageLimit}
  BY DEF PageOf
<1> HIDE DEF page
<1>3. \A l \in S \ page, k \in page : l.at > k.at
  <2> SUFFICES ASSUME NEW l \in S \ page, NEW k \in page, l.at <= k.at
               PROVE  FALSE
    BY <1>2
  <2>1. Before(l) \subseteq Before(k)
    BY <1>2
  <2>2. Cardinality(Before(l)) <= Cardinality(Before(k))
    <3> HIDE DEF Before
    <3> QED
      BY <1>1, <1>2, <2>1, FS_Subset
  <2> HIDE DEF Before
  <2>3. Cardinality(Before(k)) < PageLimit /\ ~(Cardinality(Before(l)) < PageLimit)
    BY <1>2
  <2> QED
    BY <1>1, <1>2, <2>2, <2>3, HubAssumption
<1>4. S # {} => page # {}
  <2> SUFFICES ASSUME S # {}
               PROVE  page # {}
    OBVIOUS
  <2> DEFINE Places == {l.at : l \in S}
  <2>1. PICK a \in Places : \A b \in Places : a <= b
    <3>1. Places \in SUBSET Nat /\ Places # {}
      OBVIOUS
    <3> HIDE DEF Places
    <3> QED
      BY <3>1, LowestExists
  <2>2. PICK l \in S : l.at = a
    OBVIOUS
  <2>3. Before(l) = {}
    BY <2>1, <2>2
  <2> HIDE DEF Before
  <2> QED
    BY <1>2, <2>2, <2>3, FS_EmptySet, HubAssumption
<1>5. page \subseteq S
  BY <1>2
<1>6. ASSUME page # {}
      PROVE  Cursor(S, page) \in page
  <2> DEFINE Places == {l.at : l \in page}
  <2>1. PICK a \in Places : \A b \in Places : b <= a
    <3>1. Places \in SUBSET (0 .. N) /\ Places # {}
      BY <1>5, <1>6
    <3> HIDE DEF Places
    <3> QED
      BY <3>1, HighestExists
  <2>2. PICK l \in page : l.at = a
    OBVIOUS
  <2>3. \A k \in page : k.at <= l.at
    BY <2>1, <2>2
  <2> QED
    BY <2>2, <2>3 DEF Cursor
<1> QED
  BY <1>3, <1>4, <1>5, <1>6 DEF page

-----------------------------------------------------------------------------
(* What a reading has got, and what is still to come *)

\* What c may read, under whichever registration.
Due(c) == {l \in In("hub") : /\ l.to = c /\ l.second >= join["hub"][c]
                             /\ l.from # c /\ <<c, Name(l)>> \notin read}

\* A letter that was there: none that is under way will have its place.
Placed(l) == /\ l.at \in 0 .. (written - 1)
             /\ \A p \in Poster : posting[p] # NoOne => posting[p].at # l.at

\* A letter of the first page was for the registration of the first page; a reading that
\* is undisturbed has it, or has not come to its place yet.
ReadingInv(c) ==
  /\ \A l \in paging[c].first : Placed(l)
  /\ paging[c].steady =>
       /\ \A l \in paging[c].first :
            /\ paging[c].under # NoOne /\ l.extra.epoch = paging[c].under.epoch
            /\ l \in Due(c) => \/ l \in paging[c].got
                               \/ paging[c].open /\ l.at > paging[c].cursor.at

PagingInv ==
  /\ IsFiniteSet(live)
  /\ paging = [c \in Cell |-> paging[c]]
  /\ \A c \in Cell : join["hub"][c] <= second
  /\ \A c \in Cell : ReadingInv(c)

\* A reading concerns its own cell only.
LEMMA OnePaging ==
  ASSUME paging = [d \in Cell |-> paging[d]], NEW c \in Cell,
         NEW cursor, NEW open, NEW first, NEW got, NEW under, NEW steady,
         paging' = [paging EXCEPT ![c] = [cursor |-> cursor, open |-> open, first |-> first,
                                          got |-> got, under |-> under, steady |-> steady]]
  PROVE  /\ paging' = [d \in Cell |-> paging'[d]]
         /\ paging'[c].cursor = cursor /\ paging'[c].open = open /\ paging'[c].first = first
         /\ paging'[c].got = got /\ paging'[c].under = under /\ paging'[c].steady = steady
         /\ \A d \in Cell \ {c} : paging'[d] = paging[d]
<1> DEFINE r == [cursor |-> cursor, open |-> open, first |-> first,
                 got |-> got, under |-> under, steady |-> steady]
<1>1. /\ r.cursor = cursor /\ r.open = open /\ r.first = first
      /\ r.got = got /\ r.under = under /\ r.steady = steady
  OBVIOUS
<1> HIDE DEF r
<1>2. paging' = [paging EXCEPT ![c] = r]
  BY DEF r
<1>3. /\ paging' = [d \in Cell |-> paging'[d]]
      /\ paging'[c] = r
      /\ \A d \in Cell \ {c} : paging'[d] = paging[d]
  BY <1>2
<1> QED
  BY <1>1, <1>3

LEMMA JoinKeeps ==
  ASSUME SessInv, ShapeInv, PagingInv, second \in Nat, [Next]_workspaceVars
  PROVE  \A c \in Cell : join'["hub"][c] <= second' /\ join["hub"][c] <= join'["hub"][c]
<1> SUFFICES ASSUME NEW c \in Cell
             PROVE  join'["hub"][c] <= second' /\ join["hub"][c] <= join'["hub"][c]
  OBVIOUS
<1>1. second' \in Nat /\ second <= second'
  BY SecondSteps
<1>2. join["hub"][c] \in Int /\ join["hub"][c] <= second
  BY DEF ShapeInv, Fields, PagingInv
<1>3. ASSUME join'["hub"] = join["hub"]
      PROVE  join'["hub"][c] <= second' /\ join["hub"][c] <= join'["hub"][c]
  BY <1>1, <1>2, <1>3
<1>4. ASSUME NEW p \in Process, JoinHub(p)
      PROVE  join'["hub"][c] <= second' /\ join["hub"][c] <= join'["hub"][c]
  <2> DEFINE j == Joined("hub", CellOf[p], Reset(at[p].started))
  <2>1. join' = [join EXCEPT !["hub"][CellOf[p]] = j] /\ second' = second
    BY <1>4 DEF JoinHub
  <2>2. j = second \/ j = join["hub"][CellOf[p]]
    BY DEF Joined
  <2> HIDE DEF j
  <2>3. join'["hub"][c] = join["hub"][c] \/ (c = CellOf[p] /\ join'["hub"][c] = j)
    BY <2>1 DEF ShapeInv, Fields
  <2> QED
    BY <1>1, <1>2, <2>1, <2>2, <2>3
<1>5. ASSUME NEW p \in Process, SetCursor(p)
      PROVE  join'["hub"] = join["hub"]
  BY <1>5 DEF SetCursor, Fields
<1>6. ASSUME NEW f \in Watched, NEW d \in Cell, JoinField(f, d)
      PROVE  join'["hub"] = join["hub"]
  BY <1>6 DEF JoinField, Watched, ShapeInv, Fields
<1>7. ASSUME NEW p \in Process, CellMove(p), ~SetCursor(p), ~JoinHub(p)
      PROVE  join' = join
  BY <1>7, GateThen, ChooseThen, WriteThen, ForgetThen, ReadThen, PresenceThen, LoadThen, SaveThen,
     DiesThen DEF CellMove, ReadRegistry, WriteRegistry, fieldVars, readers
<1> QED
  BY CellSteps, <1>3, <1>4, <1>5, <1>6, <1>7

\* No letter comes back, and what is read stays read.
LEMMA DueShrinks ==
  ASSUME SessInv, ShapeInv, ShapeInv', PlaceInv, PagingInv, [Next]_workspaceVars,
         NEW c \in Cell, NEW l, Placed(l)
  PROVE  Placed(l)' /\ (l \in Due(c)' => l \in Due(c))
<1>1. read \subseteq read'
  BY ReadingSteps DEF Poll, ShowNext, Show, MarkRead, NoteRead, StopWatching, ReadPage, HubRead, reading
<1>2. join'["hub"][c] \in Int /\ join["hub"][c] \in Int /\ join["hub"][c] <= join'["hub"][c]
  BY JoinKeeps DEF ShapeInv, Fields, PlaceInv
<1>3. written \in Nat
  BY DEF PlaceInv
<1>4. Placed(l)' /\ (l \in live' => l \in live)
  <2>1. ASSUME NEW d, Post(d)
        PROVE  Placed(l)' /\ live' = live
    <3>1. Stamped(d).at = written
      BY DEF Stamped
    <3> HIDE DEF Stamped
    <3>2. \/ UNCHANGED <<written, posting>>
          \/ written' = written + 1 /\ \A p \in Poster : posting'[p] = posting[p] \/ posting'[p] = Stamped(d)
      BY <2>1 DEF Post, WriteLetter, PlaceInv
    <3>3. Placed(l)'
      BY <1>3, <3>1, <3>2 DEF Placed
    <3> QED
      BY <2>1, <3>3 DEF Post, letters
  <2>2. ASSUME NEW p \in Poster, Link(p)
        PROVE  Placed(l)' /\ (l \in live' => l \in live)
    <3>1. Linked(posting[p]).at = posting[p].at
      BY DEF Linked, Numbered
    <3>2. /\ live' = live \cup {Linked(posting[p])} /\ posting[p] # NoOne /\ written' = written
          /\ posting' = [posting EXCEPT ![p] = NoOne]
      BY <2>2, PlaceLink DEF Link
    <3> HIDE DEF Linked
    <3>3. l \in live' => l \in live
      BY <3>1, <3>2 DEF Placed
    <3>4. \A q \in Poster : posting'[q] # NoOne => posting'[q] = posting[q]
      BY <3>2 DEF PlaceInv
    <3> QED
      BY <3>2, <3>3, <3>4 DEF Placed
  <2>3. ASSUME NEW p \in Poster, Die(p)
        PROVE  Placed(l)' /\ live' = live
    <3>1. \A q \in Poster : posting'[q] # NoOne => posting'[q] = posting[q]
      BY <2>3 DEF Die, PlaceInv
    <3> QED
      BY <2>3, <3>1 DEF Die, letters, Placed
  <2>4. ASSUME NEW k \in live, Archive(k)
        PROVE  Placed(l)' /\ live' \subseteq live
    BY <2>4 DEF Archive, Placed
  <2>5. CASE UNCHANGED mail
    BY <2>5 DEF mail, letters, Placed
  <2> QED
    BY MailSteps, <2>1, <2>2, <2>3, <2>4, <2>5
<1>5. ASSUME l \in Due(c)'
      PROVE  l \in Due(c)
  <2>1. l \in live /\ l.second \in Nat
    BY <1>4, <1>5 DEF Due, In, PlaceInv
  <2> QED
    BY <1>1, <1>2, <1>5, <2>1 DEF Due, In
<1> QED
  BY <1>4, <1>5

\* Whoever reads a page has it, and what is left comes after its cursor.
LEMMA ReadingReads ==
  ASSUME PlaceInv, PagingInv, NEW c \in Cell, ReadPage(c)
  PROVE  /\ paging' = [d \in Cell |-> paging'[d]]
         /\ \A d \in Cell \ {c} : paging'[d] = paging[d]
         /\ ReadingInv(c)'
<1> DEFINE fresh == ~paging[c].open
           S == IF fresh THEN Matched(c) ELSE After(c, paging[c].cursor)
           page == PageOf(S)
           more == page # S
           cursor == IF more THEN Cursor(S, page) ELSE NoOne
           first == IF fresh THEN S ELSE paging[c].first
           got == (IF fresh THEN {} ELSE paging[c].got) \cup page
           under == IF fresh THEN registry[c] ELSE paging[c].under
           steady == fresh \/ Steady(c)
<1>1. /\ S # {} \/ ~fresh
      /\ UNCHANGED <<letters, written, posting, read, join>>
      /\ paging' = [paging EXCEPT ![c] = [cursor |-> cursor, open |-> more, first |-> first,
                                          got |-> got, under |-> under, steady |-> steady]]
  BY Zenon DEF ReadPage
<1>2. S \subseteq Matched(c)
  BY DEF After
<1>3. \A l \in Matched(c) : l \in live /\ SameEpoch(c, l)
  BY DEF Matched, In
<1>4. Due(c)' = Due(c)
  BY <1>1 DEF Due, In, letters
<1>5. \A l : Placed(l)' = Placed(l)
  BY <1>1 DEF Placed
<1>6. \A l \in live : Placed(l)
  BY DEF PlaceInv, Placed
<1>7. /\ page \subseteq S
      /\ more => \A l \in S \ page : l.at > cursor.at
  <2>1. written \in Nat /\ \A l \in S : l.at \in 0 .. written
    BY <1>2, <1>3 DEF PlaceInv
  <2>2. IsFiniteSet(S)
    BY <1>2, <1>3, FS_Subset DEF PagingInv
  <2> HIDE DEF S
  <2> QED
    BY <2>1, <2>2, PageIs
<1>8. ASSUME steady, NEW l \in first
      PROVE  /\ under # NoOne /\ l.extra.epoch = under.epoch
             /\ l \in Due(c) => l \in got \/ l \in S \ page
  <2>1. CASE fresh
    <3>1. l \in S
      BY <1>8, <2>1
    <3> HIDE DEF S, page
    <3> QED
      BY <1>2, <1>3, <2>1, <3>1 DEF SameEpoch
  <2>2. CASE ~fresh
    <3>1. /\ Steady(c) /\ l \in paging[c].first /\ under = paging[c].under
          /\ S = After(c, paging[c].cursor) /\ got = paging[c].got \cup page
      BY <1>8, <2>2
    <3>2. paging[c].steady /\ registry[c] = paging[c].under
          /\ \A k \in In("hub") : Name(k) = Name(paging[c].cursor) => k = paging[c].cursor
      BY <3>1 DEF Steady
    <3>3. /\ under # NoOne /\ l.extra.epoch = under.epoch
          /\ l \in Due(c) => l \in paging[c].got \/ l.at > paging[c].cursor.at
      BY <3>1, <3>2 DEF PagingInv, ReadingInv
    <3>4. l \in Due(c) => l \in Matched(c)
      BY <3>1, <3>2, <3>3 DEF Due, Matched, SameEpoch
    <3>5. l \in Due(c) => l \in paging[c].got \/ l \in S
      BY <3>1, <3>2, <3>3, <3>4 DEF After
    <3> HIDE DEF S, page, under, got
    <3> QED
      BY <3>1, <3>3, <3>5
  <2> QED
    BY <2>1, <2>2
<1>9. \A l \in first : Placed(l)
  <2>1. CASE fresh
    BY <1>2, <1>3, <1>6, <2>1
  <2>2. CASE ~fresh
    BY <2>2 DEF PagingInv, ReadingInv
  <2> QED
    BY <2>1, <2>2
<1>10. \A l \in S \ page : more
  OBVIOUS
<1> HIDE DEF fresh, S, page, more, cursor, first, got, under, steady
<1>11. /\ paging' = [d \in Cell |-> paging'[d]]
       /\ paging'[c].cursor = cursor /\ paging'[c].open = more /\ paging'[c].first = first
       /\ paging'[c].got = got /\ paging'[c].under = under /\ paging'[c].steady = steady
       /\ \A d \in Cell \ {c} : paging'[d] = paging[d]
  BY <1>1, OnePaging DEF PagingInv
<1>12. ReadingInv(c)'
  <2>1. \A l \in first : Placed(l)'
    BY <1>5, <1>9
  <2>2. ASSUME steady, NEW l \in first
        PROVE  /\ under # NoOne /\ l.extra.epoch = under.epoch
               /\ l \in Due(c)' => l \in got \/ (more /\ l.at > cursor.at)
    BY <1>4, <1>7, <1>8, <1>10, <2>2
  <2> QED
    BY <1>11, <2>1, <2>2 DEF ReadingInv
<1> QED
  BY <1>11, <1>12

LEMMA PagingStep ==
  ASSUME SessInv, ShapeInv, ShapeInv', PlaceInv, PagingInv, [Next]_workspaceVars
  PROVE  PagingInv'
<1>1. \A c \in Cell : join'["hub"][c] <= second'
  BY JoinKeeps DEF PlaceInv
<1>2. IsFiniteSet(live')
  <2>1. ASSUME NEW d, Post(d)
        PROVE  live' = live
    BY <2>1 DEF Post, letters
  <2>2. ASSUME NEW p \in Poster, Link(p)
        PROVE  IsFiniteSet(live')
    BY <2>2, PlaceLink, FS_AddElement DEF PagingInv
  <2>3. ASSUME NEW p \in Poster, Die(p)
        PROVE  live' = live
    BY <2>3 DEF Die, letters
  <2>4. ASSUME NEW l \in live, Archive(l)
        PROVE  IsFiniteSet(live')
    BY <2>4, FS_RemoveElement DEF Archive, PagingInv
  <2>5. ASSUME UNCHANGED mail
        PROVE  live' = live
    BY <2>5 DEF mail, letters
  <2> QED
    BY MailSteps, <2>1, <2>2, <2>3, <2>4, <2>5 DEF PagingInv
<1>3. ASSUME NEW c \in Cell, paging'[c] = paging[c]
      PROVE  ReadingInv(c)'
  <2>1. \A l \in paging[c].first : Placed(l)' /\ (l \in Due(c)' => l \in Due(c))
    BY DueShrinks DEF PagingInv, ReadingInv
  <2>2. ReadingInv(c)
    BY DEF PagingInv
  <2> QED
    BY <1>3, <2>1, <2>2 DEF ReadingInv
<1>4. ASSUME NEW c \in Cell, ReadPage(c)
      PROVE  paging' = [d \in Cell |-> paging'[d]] /\ \A d \in Cell : ReadingInv(d)'
  BY <1>3, <1>4, ReadingReads
<1>5. ASSUME UNCHANGED <<paging, received>>
      PROVE  paging' = [d \in Cell |-> paging'[d]] /\ \A d \in Cell : ReadingInv(d)'
  BY <1>3, <1>5 DEF PagingInv
<1> QED
  BY PagingSteps, <1>1, <1>2, <1>4, <1>5 DEF PagingInv

LEMMA PagingInit ==
  ASSUME Init
  PROVE  PagingInv
<1>1. /\ live = {} /\ paging = [c \in Cell |-> NotPaging]
      /\ join = [f \in Fields |-> [c \in Cell |-> -1]] /\ second = 0
  BY DEF Init, HubInit, FieldInit
<1>2. NotPaging.first = {}
  BY DEF NotPaging
<1>3. \A c \in Cell : ReadingInv(c)
  BY <1>1, <1>2 DEF ReadingInv
<1> QED
  BY <1>1, <1>3, FS_EmptySet DEF PagingInv, Fields

LEMMA ReceivedStep ==
  ASSUME BearInv, ReceivedUnderItsName, [Next]_workspaceVars
  PROVE  ReceivedUnderItsName'
<1>1. ASSUME NEW c \in Cell, ReadPage(c)
      PROVE  ReceivedUnderItsName'
  <2> DEFINE S == IF ~paging[c].open THEN Matched(c) ELSE After(c, paging[c].cursor)
             page == PageOf(S)
  <2>1. received' = received \cup {<<c, l, registry[c]>> : l \in page}
    BY <1>1 DEF ReadPage
  <2>2. page \subseteq Matched(c)
    BY DEF PageOf, After
  <2> HIDE DEF page
  <2>3. ASSUME NEW l \in page
        PROVE  registry[c] # NoOne /\ registry[c].address = l.extra.address
    <3>1. registry[c] # NoOne /\ registry[c].epoch = l.extra.epoch /\ l \in In("hub")
      BY <2>2 DEF Matched, SameEpoch
    <3>2. registry[c] \in Bearing /\ l.extra \in Bearing
      BY <3>1 DEF Bearing
    <3> QED
      BY <3>1, <3>2 DEF BearInv
  <2>4. \A l \in page : LET r == <<c, l, registry[c]>> IN r[3] # NoOne /\ r[3].address = r[2].extra.address
    BY <2>3
  <2> QED
    BY <2>1, <2>4 DEF ReceivedUnderItsName
<1> QED
  BY PagingSteps, <1>1 DEF ReceivedUnderItsName

InboxInv == ShapeInv /\ JoinInv /\ KeyInv /\ BearInv /\ PagingInv /\ ReceivedUnderItsName

LEMMA InboxInvAlways == Spec => []InboxInv
<1>1. Init => InboxInv
  BY JoinInit, KeyInit, BearInit, PagingInit DEF Init, HubInit, ReceivedUnderItsName, InboxInv
<1>2. InboxInv /\ AllInv /\ AllInv' /\ [Next]_workspaceVars => InboxInv'
  <2> SUFFICES ASSUME InboxInv, AllInv, [Next]_workspaceVars
               PROVE  InboxInv'
    OBVIOUS
  <2> USE DEF InboxInv
  <2>1. SessInv /\ NameInv /\ PlaceInv /\ second \in Nat
    BY DEF AllInv, PlaceInv
  <2>2. ShapeInv'
    BY <2>1, ShapeStep
  <2>3. JoinInv'
    BY <2>1, <2>2, JoinStep
  <2>4. KeyInv' /\ BearInv' /\ ReceivedUnderItsName'
    BY <2>1, KeyStep, BearStep, ReceivedStep
  <2>5. PagingInv'
    BY <2>1, <2>2, PagingStep
  <2> QED
    BY <2>2, <2>3, <2>4, <2>5
<1> QED
  BY <1>1, <1>2, AllInvAlways, PTL DEF Spec

\* An inbox gives what was sent to this holder of the address, however often the cell
\* leaves and comes back and whoever has the address next; whoever reads it to the
\* last page, undisturbed, has got every letter that was there at the first.
THEOREM InboxAlwaysHolds == Spec => []InboxHolds
<1>1. InboxInv => InboxHolds
  <2> SUFFICES ASSUME InboxInv, NEW c \in Cell, ~paging[c].open, paging[c].steady,
                      NEW l \in paging[c].first \cap Matched(c)
               PROVE  l \in paging[c].got
    BY DEF InboxHolds, PagesMissNothing, InboxInv
  <2>1. l \in Due(c)
    BY DEF Due, Matched
  <2> QED
    BY <2>1 DEF InboxInv, PagingInv, ReadingInv
<1> QED
  BY <1>1, InboxInvAlways, PTL

-----------------------------------------------------------------------------
(* Types *)

\* Letters, those that are put away and those that are under way.
LettersInv ==
  /\ \A l \in live \cup archived : LetterOK(l)
  /\ \A p \in Poster : posting[p] # NoOne => LetterOK(posting[p])

LEMMA LettersStep ==
  ASSUME PlaceInv, LettersInv, [Next]_workspaceVars
  PROVE  LettersInv'
<1>1. ASSUME NEW d, Post(d), LetterOK(d)
      PROVE  LettersInv'
  <2>1. live' = live /\ archived' = archived
    BY <1>1 DEF Post, letters
  <2>2. LetterOK(Stamped(d))
    BY <1>1 DEF LetterOK, Stamped
  <2>3. \A p \in Poster : posting'[p] = posting[p] \/ posting'[p] = Stamped(d)
    BY <1>1 DEF Post, WriteLetter, PlaceInv
  <2> HIDE DEF Stamped
  <2> QED
    BY <2>1, <2>2, <2>3 DEF LettersInv
<1>2. ASSUME NEW p \in Poster, Link(p)
      PROVE  LettersInv'
  <2> DEFINE l == Linked(posting[p])
  <2>1. l.field = posting[p].field /\ l.from = posting[p].from /\ l.body = posting[p].body
    BY DEF Linked, Numbered
  <2>2. /\ live' = live \cup {l} /\ archived' = archived
        /\ posting[p] # NoOne /\ posting' = [posting EXCEPT ![p] = NoOne]
    BY <1>2, PlaceLink DEF Link
  <2> HIDE DEF l
  <2>3. LetterOK(l)
    BY <2>1, <2>2 DEF LettersInv, LetterOK
  <2>4. \A q \in Poster : posting'[q] # NoOne => posting'[q] = posting[q]
    BY <2>2 DEF PlaceInv
  <2> QED
    BY <2>2, <2>3, <2>4 DEF LettersInv
<1>3. ASSUME NEW p \in Poster, Die(p)
      PROVE  LettersInv'
  <2>1. live' = live /\ archived' = archived
    BY <1>3 DEF Die, letters
  <2>2. \A q \in Poster : posting'[q] # NoOne => posting'[q] = posting[q]
    BY <1>3 DEF Die, PlaceInv
  <2> QED
    BY <2>1, <2>2 DEF LettersInv
<1>4. ASSUME NEW l \in live, Archive(l)
      PROVE  LettersInv'
  BY <1>4 DEF Archive, LettersInv
<1>5. CASE UNCHANGED mail
  BY <1>5 DEF mail, letters, LettersInv
<1> QED
  BY MailSteps, <1>1, <1>2, <1>3, <1>4, <1>5

\* Session files, and what a command has in its hands of them.
FileOK(r) == r.role \in Role /\ r.open \in BOOLEAN
SessTypes ==
  /\ \A i \in DOMAIN files : FileOK(files[i])
  /\ raced \subseteq Cell /\ torn \subseteq Cell
  /\ \A p \in Process :
       /\ at[p].pc \in {"start", "write"} => at[p].role \in Role
       /\ at[p].pc \in {"note", "end"} => FileOK(at[p].rec)

LEMMA RacedIs ==
  ASSUME NEW p \in Process, CellMove(p)
  PROVE  raced' \subseteq raced \cup {CellOf[p]} /\ torn' \subseteq torn \cup {CellOf[p]}
<1>1. Begins(p) => raced' \subseteq raced \cup {CellOf[p]}
  BY DEF Begins
<1>2. ASSUME NEW cmd, NEW role, NEW address, Gate(p, cmd, role, address)
      PROVE  Begins(p) /\ torn' = torn
  BY <1>2 DEF Gate
<1>3. ASSUME NEW brain, ReadPresence(p, brain)
      PROVE  (Begins(p) \/ raced' = raced) /\ torn' = torn
  BY <1>3 DEF ReadPresence
<1>4. ASSUME NEW cmd, Load(p, cmd)
      PROVE  Begins(p) /\ torn' = torn
  BY <1>4 DEF Load
<1>5. CASE ProcessDies(p)
  BY <1>5 DEF ProcessDies
<1>6. CASE ChooseSid(p) \/ WriteSession(p) \/ SetCursor(p) \/ Forget(p) \/ WritePresence(p)
           \/ Save(p) \/ ReadRegistry(p) \/ WriteRegistry(p) \/ JoinHub(p)
  BY <1>6 DEF ChooseSid, WriteSession, SetCursor, Forget, WritePresence, Save, ReadRegistry,
              WriteRegistry, JoinHub
<1> QED
  BY <1>1, <1>2, <1>3, <1>4, <1>5, <1>6 DEF CellMove

\* A file that is put is put in the place of one, or is new.
LEMMA FilesPut ==
  ASSUME SessTypes, NEW n, NEW rec, FileOK(rec), files' = Put(files, n, rec)
  PROVE  \A i \in DOMAIN files' : FileOK(files'[i])
<1>1. \A i \in DOMAIN files' : files'[i] = rec \/ (i \in DOMAIN files /\ files'[i] = files[i])
  BY DEF Put
<1> QED
  BY <1>1 DEF SessTypes

LEMMA SessTypesStep ==
  ASSUME SessInv, NameInv, ShapeInv, second \in Nat, SessTypes, [Next]_workspaceVars
  PROVE  SessTypes'
<1>1. ASSUME NEW p \in Process, CellMove(p)
      PROVE  /\ \A i \in DOMAIN files' : FileOK(files'[i])
             /\ at'[p].pc \in {"start", "write"} => at'[p].role \in Role
             /\ at'[p].pc \in {"note", "end"} => FileOK(at'[p].rec)
  <2> DEFINE Good == /\ \A i \in DOMAIN files' : FileOK(files'[i])
                     /\ at'[p].pc \in {"start", "write"} => at'[p].role \in Role
                     /\ at'[p].pc \in {"note", "end"} => FileOK(at'[p].rec)
  <2>1. ASSUME NEW cmd, NEW role \in Role, NEW address, Gate(p, cmd, role, address)
        PROVE  Good
    BY <2>1, GateThen DEF SessTypes
  <2>2. CASE ChooseSid(p)
    BY <2>2, ChooseThen DEF SessTypes
  <2>3. CASE WriteSession(p)
    <3>1. \A a, c, d : a \in Role => FileOK([role |-> a, open |-> TRUE, last |-> c, via |-> d])
      BY DEF FileOK
    <3>2. FileOK(Written(p))
      BY <2>3, <3>1, WriteThen, Zenon DEF Written, SessTypes
    <3>3. files' = Put(files, <<Own(CellOf[p]), at[p].sid>>, Written(p))
      BY <2>3, WriteThen
    <3> QED
      BY <2>3, <3>2, <3>3, WriteThen, FilesPut
  <2>4. CASE SetCursor(p)
    BY <2>4, CursorThen DEF SessTypes
  <2>5. CASE Forget(p)
    BY <2>5, ForgetThen DEF SessTypes
  <2>6. ASSUME NEW brain, ReadPresence(p, brain)
        PROVE  Good
    BY <2>6, ReadThen DEF SessTypes
  <2>7. CASE WritePresence(p)
    BY <2>7, PresenceThen DEF SessTypes
  <2>8. ASSUME NEW cmd \in {"note", "end"}, Load(p, cmd)
        PROVE  Good
    <3>1. at'[p].id \in DOMAIN files
      BY <2>8, LoadThen, FirstOpenIsOpen DEF OpenIn
    <3> QED
      BY <2>8, <3>1, LoadThen DEF SessTypes
  <2>9. CASE Save(p)
    <3> DEFINE rec == IF at[p].pc = "note" THEN Noted(at[p].rec) ELSE Ended(at[p].rec)
    <3>1. /\ at[p].pc \in {"note", "end"} /\ at'[p].pc = "idle"
          /\ files' = Put(files, at[p].id, rec)
      BY <2>9, SaveThen
    <3>2. FileOK(at[p].rec) /\ Shaped(at[p].rec)
      BY <3>1 DEF SessTypes, ShapeInv
    <3>3. FileOK(Noted(at[p].rec)) /\ FileOK(Ended(at[p].rec))
      BY <3>2, NotedIs DEF FileOK
    <3>4. FileOK(rec)
      BY <3>3
    <3> HIDE DEF rec
    <3> QED
      BY <3>1, <3>4, FilesPut
  <2>10. CASE ProcessDies(p)
    BY <2>10, DiesThen DEF SessTypes
  <2>11. CASE ReadRegistry(p) \/ WriteRegistry(p) \/ JoinHub(p)
    BY <2>11, HubThen DEF SessTypes
  <2> QED
    BY <1>1, <2>1, <2>2, <2>3, <2>4, <2>5, <2>6, <2>7, <2>8, <2>9, <2>10, <2>11 DEF CellMove
<1>2. ASSUME NEW p \in Process, CellMove(p)
      PROVE  raced' \subseteq Cell /\ torn' \subseteq Cell
  <2>1. CellOf[p] \in Cell
    BY SessionAssumption
  <2> QED
    BY <1>2, <2>1, RacedIs DEF SessTypes
<1>3. ASSUME NEW p \in Process, CellMove(p)
      PROVE  \A q \in Process \ {p} : at'[q] = at[q]
  BY <1>3, CellMoveIs DEF SessInv
<1>4. CASE UNCHANGED sessionVars
  BY <1>4 DEF SessTypes, sessionVars
<1> QED
  BY CellSteps, <1>1, <1>2, <1>3, <1>4 DEF SessTypes

\* A reading is open if there is a next page.
PagesOpen == \A c \in Cell : paging[c].open \in BOOLEAN

LEMMA PagesOpenStep ==
  ASSUME PagingInv, PagesOpen, [Next]_workspaceVars
  PROVE  PagesOpen'
<1>1. ASSUME NEW c \in Cell, ReadPage(c)
      PROVE  PagesOpen'
  <2> DEFINE fresh == ~paging[c].open
             S == IF fresh THEN Matched(c) ELSE After(c, paging[c].cursor)
             page == PageOf(S)
             more == page # S
             cursor == IF more THEN Cursor(S, page) ELSE NoOne
             first == IF fresh THEN S ELSE paging[c].first
             got == (IF fresh THEN {} ELSE paging[c].got) \cup page
             under == IF fresh THEN registry[c] ELSE paging[c].under
             steady == fresh \/ Steady(c)
  <2>1. more \in BOOLEAN
    OBVIOUS
  <2>2. paging' = [paging EXCEPT ![c] = [cursor |-> cursor, open |-> more, first |-> first,
                                         got |-> got, under |-> under, steady |-> steady]]
    BY <1>1, Zenon DEF ReadPage
  <2> HIDE DEF fresh, S, page, more, cursor, first, got, under, steady
  <2>3. paging'[c].open = more /\ \A d \in Cell \ {c} : paging'[d] = paging[d]
    BY <2>2, OnePaging DEF PagingInv
  <2>4. ASSUME NEW d \in Cell
        PROVE  paging'[d].open \in BOOLEAN
    <3>1. CASE d = c
      BY <2>1, <2>3, <3>1, Zenon
    <3>2. CASE d # c
      BY <2>3, <3>2, Zenon DEF PagesOpen
    <3> QED
      BY <3>1, <3>2
  <2> QED
    BY <2>4, Zenon DEF PagesOpen
<1>2. CASE UNCHANGED <<paging, received>>
  BY <1>2 DEF PagesOpen
<1> QED
  BY PagingSteps, <1>1, <1>2

WorkspaceTypes == ShownInv /\ LettersInv /\ SessTypes /\ PagesOpen

LEMMA TypesFirst ==
  ASSUME Init
  PROVE  WorkspaceTypes
<1>1. /\ live = {} /\ archived = {} /\ posting = [p \in Poster |-> NoOne] /\ raced = {} /\ torn = {}
      /\ at = [p \in Process |-> Idle] /\ paging = [c \in Cell |-> NotPaging]
      /\ files = [i \in {<<Old(c), <<0, 1>>>> : c \in Legacy} |->
                    [role |-> "worker", open |-> TRUE, last |-> 0, via |-> "start"]]
  BY DEF Init, FieldInit, SessionInit, HubInit
<1>2. LettersInv
  BY <1>1 DEF LettersInv
<1>3. SessTypes
  <2>1. FileOK([role |-> "worker", open |-> TRUE, last |-> 0, via |-> "start"])
    BY SessionAssumption DEF FileOK
  <2>2. \A i \in DOMAIN files : FileOK(files[i])
    BY <1>1, <2>1
  <2>3. Idle.pc = "idle"
    BY DEF Idle
  <2> QED
    BY <1>1, <2>2, <2>3 DEF SessTypes
<1>4. PagesOpen
  <2>1. NotPaging.open \in BOOLEAN
    BY DEF NotPaging
  <2> QED
    BY <1>1, <2>1 DEF PagesOpen
<1> QED
  BY <1>2, <1>3, <1>4, ShownInit DEF WorkspaceTypes

\* Letters, sessions, registry and readings have their types, also what a process has
\* in its hands between two steps.
THEOREM WorkspaceTypesAlways == Spec => [](FieldTypeOK /\ SessionTypeOK /\ HubTypeOK)
<1>1. Init => WorkspaceTypes
  BY TypesFirst
<1>2. WorkspaceTypes /\ AllInv /\ InboxInv /\ [Next]_workspaceVars => WorkspaceTypes'
  <2>1. AllInv => second \in Nat
    BY DEF AllInv, PlaceInv
  <2> QED
    BY <2>1, ShownStep, LettersStep, SessTypesStep, PagesOpenStep DEF WorkspaceTypes, AllInv, InboxInv
<1>3. WorkspaceTypes /\ AllInv /\ InboxInv => FieldTypeOK /\ SessionTypeOK /\ HubTypeOK
  <2> SUFFICES ASSUME WorkspaceTypes, AllInv, InboxInv
               PROVE  FieldTypeOK /\ SessionTypeOK /\ HubTypeOK
    OBVIOUS
  <2>1. FieldTypeOK
    BY DEF FieldTypeOK, WorkspaceTypes, LettersInv, LetterOK, ShownInv, Printed, AllInv, PlaceInv,
           InboxInv, ShapeInv
  <2>2. SessionTypeOK
    BY DEF SessionTypeOK, WorkspaceTypes, SessTypes, FileOK, InboxInv, ShapeInv
  <2>3. ASSUME NEW c \in Cell, registry[c] # NoOne
        PROVE  registry[c].epoch \in 1 .. epochs
    <3>1. registry[c] \in Bearing
      BY <2>3 DEF Bearing
    <3> QED
      BY <3>1 DEF InboxInv, BearInv
  <2>4. HubTypeOK
    BY <2>3 DEF HubTypeOK, WorkspaceTypes, PagesOpen
  <2> QED
    BY <2>1, <2>2, <2>4
<1> QED
  BY <1>1, <1>2, <1>3, AllInvAlways, InboxInvAlways, PTL DEF Spec
=============================================================================
