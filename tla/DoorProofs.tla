------------------------------ MODULE DoorProofs ------------------------------
(***************************************************************************)
(* For any letters, outboxes, doors, readers, token files and limits: what *)
(* a quad is stays the same on its way, what a pull misses came late, and  *)
(* the limiter keeps what it promises.                                     *)
(***************************************************************************)
EXTENDS Door, TLAPS, WellFoundedInduction, FiniteSetTheorems, SequenceTheorems

doorAll == <<doorVars, budget>>

-----------------------------------------------------------------------------
(* Numbers and files *)

LEMMA LowestExists ==
  ASSUME NEW S \in SUBSET Nat, S # {}
  PROVE  \E n \in S : \A k \in S : n <= k
<1>1. PICK n \in S : \A k \in S : ~ (<<k, n>> \in OpToRel(<, Nat))
  BY NatLessThanWellFounded, WFMin
<1>2. \A k \in S : ~ (k < n)
  BY <1>1 DEF OpToRel
<1> QED
  BY <1>2

LEMMA HighestExists ==
  ASSUME NEW N \in Nat, NEW S \in SUBSET (0 .. N), S # {}
  PROVE  \E n \in S : \A k \in S : k <= n
<1> DEFINE T == {N - n : n \in S}
<1>1. T \subseteq Nat /\ T # {}
  <2>1. \A n \in S : N - n \in Nat /\ N - n \in T
    OBVIOUS
  <2> QED
    BY <2>1
<1>2. PICK m \in T : \A k \in T : m <= k
  BY <1>1, LowestExists
<1>3. PICK n \in S : m = N - n
  OBVIOUS
<1>4. \A k \in S : N - n <= N - k
  BY <1>2, <1>3
<1> QED
  BY <1>4

Sigs == {q.sig : q \in Letters}
Envs == {q.env : q \in Letters}
Bodies == {q.body : q \in Letters} \ {NoBody}
FileSet == [sig : Sigs \cup {NoFile}, bodies : SUBSET Bodies, env : Envs \cup {NoFile}]
QuadSet == [env : Envs, sig : Sigs, body : Bodies \cup {NoBody}]

\* The files that a whole quad has besides signature and envelope.
BodiesOf(q) == IF q.body = NoBody THEN {} ELSE {q.body}
Whole(q) == [sig |-> q.sig, bodies |-> BodiesOf(q), env |-> q.env]

LEMMA LettersAreQuads ==
  ASSUME NEW q \in Letters
  PROVE  q \in QuadSet
<1>1. q = [env |-> q.env, sig |-> q.sig, body |-> q.body]
  BY DoorAssumption
<1>2. q.env \in Envs /\ q.sig \in Sigs /\ q.body \in Bodies \cup {NoBody}
  BY DEF Envs, Sigs, Bodies
<1> QED
  BY <1>1, <1>2 DEF QuadSet

LEMMA NoneIsMissing ==
  /\ NoFile \notin Envs /\ NoFile \notin Sigs /\ NoBody \notin Bodies
  /\ \A b \in Bodies : b[1] \in Nat
<1>1. \A q \in Letters : q.env # NoFile /\ q.sig # NoFile /\ (q.body # NoBody => q.body[1] \in Nat)
  BY DoorAssumption
<1> QED
  BY <1>1 DEF Envs, Sigs, Bodies

\* The body that a quad shows is one that it has.
LEMMA FirstBodyIsThere ==
  ASSUME NEW B \in SUBSET Bodies, B # {}
  PROVE  FirstBody(B) \in B
<1> DEFINE S == {b[1] : b \in B}
<1>1. S \subseteq Nat /\ S # {}
  BY NoneIsMissing
<1>2. PICK n \in S : \A k \in S : n <= k
  BY <1>1, LowestExists
<1>3. PICK b \in B : b[1] = n
  OBVIOUS
<1>4. \A c \in B : b[1] <= c[1]
  BY <1>2, <1>3
<1> QED
  BY <1>4 DEF FirstBody

LEMMA OneBody ==
  ASSUME NEW q \in QuadSet
  PROVE  FirstBody(BodiesOf(q)) = q.body /\ BodiesOf(q) \in SUBSET Bodies
<1>1. q.body \in Bodies \cup {NoBody}
  BY DEF QuadSet
<1>2. CASE q.body = NoBody
  BY <1>2 DEF BodiesOf, FirstBody
<1>3. CASE q.body # NoBody
  <2>1. BodiesOf(q) = {q.body} /\ q.body \in Bodies
    BY <1>1, <1>3 DEF BodiesOf
  <2>2. FirstBody({q.body}) \in {q.body}
    BY <2>1, FirstBodyIsThere
  <2> QED
    BY <2>1, <2>2
<1> QED
  BY <1>2, <1>3

LEMMA WholeShows ==
  ASSUME NEW q \in QuadSet
  PROVE  Quad(Whole(q)) = q
<1>1. q = [env |-> q.env, sig |-> q.sig, body |-> q.body]
  BY DEF QuadSet
<1> QED
  BY <1>1, OneBody DEF Quad, Whole

LEMMA FilesAfter ==
  ASSUME NEW f \in FileSet, NEW q \in QuadSet
  PROVE  /\ WithSig(f, q) = [sig |-> q.sig, bodies |-> f.bodies, env |-> f.env]
         /\ WithEnv(f, q) = [sig |-> f.sig, bodies |-> f.bodies, env |-> q.env]
         /\ WithBody(f, q).sig = f.sig /\ WithBody(f, q).env = f.env
         /\ \A b \in WithBody(f, q).bodies : b \in f.bodies \/ b = q.body
         /\ BodiesOf(q) \subseteq WithBody(f, q).bodies
         /\ (f.bodies \subseteq BodiesOf(q) => WithBody(f, q).bodies = BodiesOf(q))
         /\ WithSig(f, q) \in FileSet /\ WithEnv(f, q) \in FileSet /\ WithBody(f, q) \in FileSet
<1> DEFINE B == {b \in f.bodies : b[1] # q.body[1]} \cup {q.body}
<1>1. f = [sig |-> f.sig, bodies |-> f.bodies, env |-> f.env]
  BY DEF FileSet
<1>2. /\ f.sig \in Sigs \cup {NoFile} /\ f.bodies \subseteq Bodies /\ f.env \in Envs \cup {NoFile}
      /\ q.sig \in Sigs /\ q.env \in Envs /\ q.body \in Bodies \cup {NoBody}
  BY DEF FileSet, QuadSet
<1>3. /\ WithSig(f, q) = [sig |-> q.sig, bodies |-> f.bodies, env |-> f.env]
      /\ WithEnv(f, q) = [sig |-> f.sig, bodies |-> f.bodies, env |-> q.env]
  BY <1>1 DEF WithSig, WithEnv
<1>4. CASE q.body = NoBody
  <2>1. WithBody(f, q) = f /\ BodiesOf(q) = {}
    BY <1>4 DEF WithBody, BodiesOf
  <2> QED
    BY <2>1, <1>3, <1>2 DEF FileSet
<1>5. CASE q.body # NoBody
  <2>1. WithBody(f, q) = [sig |-> f.sig, bodies |-> B, env |-> f.env] /\ BodiesOf(q) = {q.body}
    BY <1>1, <1>5 DEF WithBody, BodiesOf
  <2>2. B \subseteq Bodies
    BY <1>2, <1>5
  <2>3. f.bodies \subseteq {q.body} => B = {q.body}
    OBVIOUS
  <2> HIDE DEF B
  <2>4. WithBody(f, q) \in FileSet
    BY <2>1, <2>2, <1>2 DEF FileSet
  <2>5. \A b \in B : b \in f.bodies \/ b = q.body
    BY DEF B
  <2>6. q.body \in B
    BY DEF B
  <2> QED
    BY <2>1, <2>3, <2>4, <2>5, <2>6, <1>3, <1>2 DEF FileSet
<1> QED
  BY <1>4, <1>5

LEMMA WholeParts ==
  ASSUME NEW q \in QuadSet
  PROVE  /\ Whole(q).env = q.env /\ Whole(q).sig = q.sig /\ Whole(q).bodies = BodiesOf(q)
         /\ q.env # NoFile /\ q.sig # NoFile /\ q.env \in Envs /\ q.sig \in Sigs
         /\ Whole(q) \in FileSet
<1>1. q.env \in Envs /\ q.sig \in Sigs
  BY DEF QuadSet
<1>2. BodiesOf(q) \in SUBSET Bodies
  BY OneBody
<1> QED
  BY <1>1, <1>2, NoneIsMissing DEF Whole, FileSet

-----------------------------------------------------------------------------
(* The outbox *)

ExporterSet == {Nothing} \cup
  [pc : {"sig", "body", "env"}, box : Outboxes, n : Numbers, quad : Letters]

\* An exporter that has written the signature has the number for itself.
Claimed(x) == exporter[x].pc \in {"body", "env"}
Half(x) == [sig |-> exporter[x].quad.sig,
            bodies |-> IF exporter[x].pc = "env" THEN BodiesOf(exporter[x].quad) ELSE {},
            env |-> NoFile]
BoxInv ==
  /\ outbox \in [Outboxes -> [Numbers -> FileSet]]
  /\ exporter \in [Exporter -> ExporterSet]
  /\ \A o \in Outboxes, n \in Numbers :
       /\ outbox[o][n].sig = NoFile => outbox[o][n] = Files
       /\ outbox[o][n].env # NoFile => \E q \in Letters : outbox[o][n] = Whole(q)
  /\ \A x \in Exporter : Claimed(x) => outbox[exporter[x].box][exporter[x].n] = Half(x)
  /\ \A x, y \in Exporter :
       Claimed(x) /\ Claimed(y) /\ exporter[x].box = exporter[y].box /\ exporter[x].n = exporter[y].n => x = y

LEMMA BoxSteps ==
  ASSUME [DoorNext]_doorAll
  PROVE  \/ UNCHANGED <<outbox, exporter>>
         \/ \E x \in Exporter :
              \/ \E o \in Outboxes, q \in Letters : ExportStart(x, o, q)
              \/ ExportStep(x) \/ ExportEnds(x)
<1>1. ASSUME ServerNext PROVE UNCHANGED <<outbox, exporter>>
  BY <1>1 DEF ServerNext, ServerStarts, ServerStops, Tick, TokensChange, Refused401, Refused429,
     Channels, Index, Refused403, quadVars
<1>2. ASSUME PushNext PROVE UNCHANGED <<outbox, exporter>>
  BY <1>2 DEF PushNext, Post, PostStep
<1>3. ASSUME PullNext PROVE UNCHANGED <<outbox, exporter>>
  BY <1>3 DEF PullNext, PullStart, PullPage, PullQuad, PullWrite, Repair, PullOn, PullEnds, FileLost
<1>4. ASSUME UNCHANGED doorAll PROVE UNCHANGED <<outbox, exporter>>
  BY <1>4 DEF doorAll, doorVars, quadVars
<1> QED
  BY <1>1, <1>2, <1>3, <1>4 DEF DoorNext, ExportNext

LEMMA NextNumberType ==
  ASSUME NEW o \in Outboxes, BoxInv
  PROVE  NextNumber(o) \in Nat \ {0}
<1>1. CASE Numbered(outbox[o]) = {}
  BY <1>1 DEF NextNumber
<1>2. CASE Numbered(outbox[o]) # {}
  <2>1. MaxNumber \in Nat /\ Numbered(outbox[o]) \in SUBSET (0 .. MaxNumber)
    BY DoorAssumption DEF Numbered, Numbers
  <2>2. \E n \in Numbered(outbox[o]) : \A m \in Numbered(outbox[o]) : m <= n
    BY <1>2, <2>1, HighestExists
  <2>3. (CHOOSE n \in Numbered(outbox[o]) : \A m \in Numbered(outbox[o]) : m <= n) \in Nat
    BY <2>1, <2>2
  <2> QED
    BY <1>2, <2>3 DEF NextNumber
<1> QED
  BY <1>1, <1>2

LEMMA BoxInit ==
  ASSUME DoorInit
  PROVE  BoxInv
<1>1. Files \in FileSet /\ Files.sig = NoFile /\ Files.env = NoFile
  BY DEF Files, FileSet
<1>2. outbox = [o \in Outboxes |-> Empty] /\ Empty = [n \in Numbers |-> Files]
  BY DEF DoorInit, Empty
<1>3. exporter = [x \in Exporter |-> Nothing] /\ Nothing \in ExporterSet /\ Nothing.pc = "none"
  BY DEF DoorInit, ExporterSet, Nothing
<1> HIDE DEF Files
<1>4. \A x \in Exporter : ~Claimed(x)
  BY <1>3 DEF Claimed
<1> QED
  BY <1>1, <1>2, <1>3, <1>4 DEF BoxInv

LEMMA BoxStart ==
  ASSUME BoxInv, NEW x \in Exporter, NEW o \in Outboxes, NEW q \in Letters, ExportStart(x, o, q)
  PROVE  BoxInv'
<1> DEFINE e == [pc |-> "sig", box |-> o, n |-> NextNumber(o), quad |-> q]
<1>1. outbox' = outbox /\ exporter' = [exporter EXCEPT ![x] = e] /\ NextNumber(o) <= MaxNumber
  BY DEF ExportStart
<1>2. NextNumber(o) \in Numbers
  BY <1>1, NextNumberType, DoorAssumption DEF Numbers
<1>3. e \in ExporterSet /\ e.pc = "sig"
  BY <1>2 DEF ExporterSet
<1> HIDE DEF e
<1>4. exporter' \in [Exporter -> ExporterSet] /\ exporter'[x] = e /\ \A y \in Exporter : y # x => exporter'[y] = exporter[y]
  BY <1>1, <1>3 DEF BoxInv
<1>5. \A y \in Exporter : exporter'[y].pc \in {"body", "env"} => exporter'[y] = exporter[y]
  BY <1>3, <1>4
<1> QED
  BY <1>1, <1>4, <1>5 DEF BoxInv, Claimed, Half

LEMMA BoxEnds ==
  ASSUME BoxInv, NEW x \in Exporter, outbox' = outbox, exporter' = [exporter EXCEPT ![x] = Nothing]
  PROVE  BoxInv'
<1>3. Nothing \in ExporterSet /\ Nothing.pc = "none"
  BY DEF ExporterSet, Nothing
<1>4. exporter' \in [Exporter -> ExporterSet] /\ exporter'[x] = Nothing /\ \A y \in Exporter : y # x => exporter'[y] = exporter[y]
  BY <1>3 DEF BoxInv
<1>5. \A y \in Exporter : exporter'[y].pc \in {"body", "env"} => exporter'[y] = exporter[y]
  BY <1>3, <1>4
<1> QED
  BY <1>4, <1>5 DEF BoxInv, Claimed, Half

\* A file is written where a number is this exporter's, or nobody's.
LEMMA BoxPut ==
  ASSUME BoxInv, NEW x \in Exporter, exporter[x] # Nothing,
         NEW f \in FileSet, NEW e \in ExporterSet,
         outbox' = [outbox EXCEPT ![exporter[x].box][exporter[x].n] = f],
         exporter' = [exporter EXCEPT ![x] = e],
         Claimed(x) \/ outbox[exporter[x].box][exporter[x].n].sig = NoFile,
         f.sig # NoFile,
         f.env # NoFile => \E q \in Letters : f = Whole(q),
         e # Nothing =>
           /\ e.pc \in {"body", "env"} /\ e.box = exporter[x].box /\ e.n = exporter[x].n
           /\ f = [sig |-> e.quad.sig, bodies |-> IF e.pc = "env" THEN BodiesOf(e.quad) ELSE {}, env |-> NoFile]
  PROVE  BoxInv'
<1> DEFINE o == exporter[x].box
           n == exporter[x].n
<1>1. o \in Outboxes /\ n \in Numbers
  BY DEF BoxInv, ExporterSet
<1>2. /\ outbox' \in [Outboxes -> [Numbers -> FileSet]]
      /\ outbox'[o][n] = f
      /\ \A p \in Outboxes, m \in Numbers : p # o \/ m # n => outbox'[p][m] = outbox[p][m]
  BY <1>1 DEF BoxInv
<1>3. exporter' \in [Exporter -> ExporterSet] /\ exporter'[x] = e /\ \A y \in Exporter : y # x => exporter'[y] = exporter[y]
  BY DEF BoxInv
<1>4. \A y \in Exporter : y # x /\ Claimed(y) => exporter[y].box # o \/ exporter[y].n # n
  <2>1. CASE Claimed(x)
    BY <2>1 DEF BoxInv
  <2>2. CASE outbox[o][n].sig = NoFile
    <3> SUFFICES ASSUME NEW y \in Exporter, Claimed(y), exporter[y].box = o, exporter[y].n = n
                 PROVE  FALSE
      OBVIOUS
    <3>1. outbox[o][n] = Half(y) /\ exporter[y].quad \in Letters
      BY DEF BoxInv, Claimed, ExporterSet, Nothing
    <3>2. exporter[y].quad.sig # NoFile
      BY <3>1, DoorAssumption
    <3> QED
      BY <3>1, <3>2, <2>2 DEF Half
  <2> QED
    BY <2>1, <2>2
<1>5. \A p \in Outboxes, m \in Numbers :
        /\ outbox'[p][m].sig = NoFile => outbox'[p][m] = Files
        /\ outbox'[p][m].env # NoFile => \E q \in Letters : outbox'[p][m] = Whole(q)
  BY <1>2 DEF BoxInv
<1>6. \A y \in Exporter : y # x => (Claimed(y)' <=> Claimed(y)) /\ Half(y)' = Half(y)
  BY <1>3 DEF Claimed, Half
<1>7. \A y \in Exporter : Claimed(y) => exporter[y].box \in Outboxes /\ exporter[y].n \in Numbers
  BY DEF BoxInv, Claimed, ExporterSet, Nothing
<1>8. Claimed(x)' => e # Nothing
  BY <1>3 DEF Claimed, Nothing
<1>9. \A y \in Exporter : Claimed(y)' => outbox'[exporter'[y].box][exporter'[y].n] = Half(y)'
  <2> TAKE y \in Exporter
  <2> HAVE Claimed(y)'
  <2>1. CASE y = x
    <3>1. outbox'[e.box][e.n] = f
      BY <2>1, <1>2, <1>8
    <3> QED
      BY <3>1, <2>1, <1>3, <1>8 DEF Half
  <2>2. CASE y # x
    <3>1. Claimed(y) /\ exporter'[y] = exporter[y] /\ Half(y)' = Half(y)
      BY <2>2, <1>6, <1>3
    <3>2. outbox'[exporter[y].box][exporter[y].n] = outbox[exporter[y].box][exporter[y].n]
      BY <2>2, <3>1, <1>2, <1>4, <1>7
    <3> QED
      BY <3>1, <3>2 DEF BoxInv
  <2> QED
    BY <2>1, <2>2
<1>10. \A y, z \in Exporter :
       Claimed(y)' /\ Claimed(z)' /\ exporter'[y].box = exporter'[z].box /\ exporter'[y].n = exporter'[z].n => y = z
  BY <1>3, <1>4, <1>6, <1>8 DEF BoxInv
<1> QED
  BY <1>2, <1>3, <1>5, <1>9, <1>10 DEF BoxInv

LEMMA BoxStep ==
  ASSUME BoxInv, NEW x \in Exporter, ExportStep(x)
  PROVE  BoxInv'
<1> DEFINE o == exporter[x].box
           n == exporter[x].n
           q == exporter[x].quad
           f == outbox[o][n]
           On(pc) == [pc |-> pc, box |-> o, n |-> n, quad |-> q]
<1>1. /\ exporter[x] # Nothing
      /\ exporter[x] \in [pc : {"sig", "body", "env"}, box : Outboxes, n : Numbers, quad : Letters]
  BY DEF ExportStep, BoxInv, ExporterSet
<1>2. o \in Outboxes /\ n \in Numbers /\ q \in Letters /\ q \in QuadSet /\ f \in FileSet
  BY <1>1, LettersAreQuads DEF BoxInv
<1>3. \A pc \in {"body", "env"} :
        [exporter[x] EXCEPT !.pc = pc] = On(pc) /\ On(pc) \in ExporterSet /\ On(pc).pc = pc
        /\ On(pc).box = o /\ On(pc).n = n /\ On(pc).quad = q
  BY <1>1, <1>2 DEF ExporterSet
<1>4. \A pc \in {"body", "env"} : \A g : Put(x, g, pc) =>
        /\ outbox' = [outbox EXCEPT ![o][n] = g]
        /\ exporter' = [exporter EXCEPT ![x] = On(pc)]
  BY <1>3 DEF Put
<1>5. /\ WithSig(f, q) \in FileSet /\ WithBody(f, q) \in FileSet /\ WithEnv(f, q) \in FileSet
      /\ WithSig(f, q) = [sig |-> q.sig, bodies |-> f.bodies, env |-> f.env]
      /\ WithBody(f, q).sig = f.sig /\ WithBody(f, q).env = f.env
      /\ f.bodies \subseteq BodiesOf(q) => WithBody(f, q).bodies = BodiesOf(q)
      /\ WithEnv(f, q) = [sig |-> f.sig, bodies |-> f.bodies, env |-> q.env]
  BY <1>2, FilesAfter
<1>6. q.sig # NoFile /\ q.env # NoFile
  BY <1>2, DoorAssumption
<1> HIDE DEF o, n, q, f, On
<1>7. CASE exporter[x].pc = "sig" /\ Untaken(f)
  <2>1. Put(x, WithSig(f, q), "body")
    BY <1>7, Zenon DEF ExportStep, q, f, o, n
  <2>2. f.sig = NoFile /\ f = Files
    BY <1>7, <1>2 DEF Untaken, BoxInv, f
  <2>3. WithSig(f, q) = [sig |-> q.sig, bodies |-> {}, env |-> NoFile]
    BY <2>2, <1>5 DEF Files
  <2> DEFINE g == WithSig(f, q)
  <2>4. g.sig # NoFile /\ g.env = NoFile
    BY <2>3, <1>6
  <2> HIDE DEF g
  <2>5. outbox' = [outbox EXCEPT ![o][n] = g] /\ exporter' = [exporter EXCEPT ![x] = On("body")]
    BY <2>1, <1>4 DEF g
  <2>6. g = [sig |-> On("body").quad.sig,
             bodies |-> IF On("body").pc = "env" THEN BodiesOf(On("body").quad) ELSE {}, env |-> NoFile]
    BY <2>3, <1>3 DEF g
  <2> QED
    BY <2>2, <2>4, <2>5, <2>6, <1>1, <1>3, <1>5, BoxPut DEF g, o, n, f
<1>8. CASE exporter[x].pc = "sig" /\ ~Untaken(f)
  <2>1. outbox' = outbox /\ exporter' = [exporter EXCEPT ![x] = Nothing]
    BY <1>8 DEF ExportStep, q, f, o, n
  <2> QED
    BY <2>1, BoxEnds
<1>9. CASE exporter[x].pc = "body"
  <2>1. Put(x, WithBody(f, q), "env")
    BY <1>9 DEF ExportStep, q, f, o, n
  <2>2. Claimed(x) /\ f = [sig |-> q.sig, bodies |-> {}, env |-> NoFile]
    BY <1>9 DEF Claimed, BoxInv, Half, f, o, n, q
  <2> DEFINE g == WithBody(f, q)
  <2>3. g = [sig |-> q.sig, bodies |-> BodiesOf(q), env |-> NoFile] /\ g \in FileSet
    BY <2>2, <1>5 DEF FileSet
  <2> HIDE DEF g
  <2>5. outbox' = [outbox EXCEPT ![o][n] = g] /\ exporter' = [exporter EXCEPT ![x] = On("env")]
    BY <2>1, <1>4 DEF g
  <2>6. g = [sig |-> On("env").quad.sig,
             bodies |-> IF On("env").pc = "env" THEN BodiesOf(On("env").quad) ELSE {}, env |-> NoFile]
    BY <2>3, <1>3
  <2>7. g.sig # NoFile /\ g.env = NoFile
    BY <2>3, <1>6
  <2> QED
    BY <2>2, <2>3, <2>5, <2>6, <2>7, <1>1, <1>3, BoxPut DEF o, n, f
<1>10. CASE exporter[x].pc = "env"
  <2>1. Put(x, WithEnv(f, q), "done")
    BY <1>10 DEF ExportStep, q, f, o, n
  <2>2. Claimed(x) /\ f = [sig |-> q.sig, bodies |-> BodiesOf(q), env |-> NoFile]
    BY <1>10 DEF Claimed, BoxInv, Half, f, o, n, q
  <2> DEFINE g == WithEnv(f, q)
  <2>3. g = Whole(q) /\ g \in FileSet
    BY <2>2, <1>5 DEF Whole
  <2> HIDE DEF g
  <2>4. outbox' = [outbox EXCEPT ![o][n] = g] /\ exporter' = [exporter EXCEPT ![x] = Nothing]
    BY <2>1 DEF g, Put, o, n
  <2>5. g.sig # NoFile
    BY <2>3, <1>6 DEF Whole
  <2>6. Nothing \in ExporterSet
    BY DEF ExporterSet
  <2> QED
    BY <2>2, <2>3, <2>4, <2>5, <2>6, <1>1, <1>2, BoxPut DEF o, n, f
<1> QED
  BY <1>1, <1>7, <1>8, <1>9, <1>10

LEMMA BoxNext ==
  ASSUME BoxInv, [DoorNext]_doorAll
  PROVE  BoxInv'
<1>1. CASE UNCHANGED <<outbox, exporter>>
  BY <1>1 DEF BoxInv, Claimed, Half
<1>2. ASSUME NEW x \in Exporter, NEW o \in Outboxes, NEW q \in Letters, ExportStart(x, o, q)
      PROVE  BoxInv'
  BY <1>2, BoxStart
<1>3. ASSUME NEW x \in Exporter, ExportEnds(x)
      PROVE  BoxInv'
  BY <1>3, BoxEnds DEF ExportEnds
<1> QED
  BY <1>1, <1>2, <1>3, BoxStep, BoxSteps

\* OutboxWhole: what an outbox shows as a quad is a letter (export_quad).
LEMMA BoxIsWhole ==
  ASSUME BoxInv
  PROVE  OutboxWhole
<1> SUFFICES ASSUME NEW o \in Outboxes, NEW n \in Numbers, outbox[o][n].env # NoFile
             PROVE  Quad(outbox[o][n]) \in Letters
  BY DEF OutboxWhole
<1>1. PICK q \in Letters : outbox[o][n] = Whole(q)
  BY DEF BoxInv
<1> QED
  BY <1>1, LettersAreQuads, WholeShows

-----------------------------------------------------------------------------
(* The doors and the POST that the server is at *)

PostingSet == {Nothing} \cup
  [pc : {"sig", "body", "env"}, door : Doors, n : Numbers, quad : QuadSet]

Kept(a) ==
  /\ a.door \in Doors /\ a.n \in Numbers /\ a.quad.env # NoFile
  /\ door[a.door][a.n].env = a.quad.env /\ door[a.door][a.n].sig = a.quad.sig
  /\ a.quad.body # NoBody => a.quad.body \in door[a.door][a.n].bodies
Ordered(d, n) == \E i \in DOMAIN order[d] : order[d][i] = n

\* A number that is complete is in the order of its door, and shows a quad.  A POST is at
\* a number that is not complete; what it has written is there.
DoorInv ==
  /\ door \in [Doors -> [Numbers -> FileSet]]
  /\ order \in [Doors -> Seq(Numbers)]
  /\ posting \in PostingSet
  /\ \A d \in Doors, n \in Numbers :
       /\ door[d][n].env # NoFile => door[d][n].sig # NoFile
       /\ door[d][n].env # NoFile <=> Ordered(d, n)
  /\ posting # Nothing =>
       /\ door[posting.door][posting.n].env = NoFile
       /\ posting.pc \in {"body", "env"} => door[posting.door][posting.n].sig = posting.quad.sig
       /\ posting.pc = "env" => BodiesOf(posting.quad) \subseteq door[posting.door][posting.n].bodies
  /\ \A a \in answers : Accepted(a) => Kept(a)

Note(t, status, d, n, q) ==
  [token |-> t, status |-> status, at |-> now, no |-> Cardinality(answers), server |-> servers,
   door |-> d, n |-> n, quad |-> q, again |-> IF status = 429 THEN now + RetryAfter(t) ELSE now]

LEMMA NotedAdds ==
  ASSUME NEW t, NEW status, NEW d, NEW n, NEW q, Noted(t, status, d, n, q)
  PROVE  answers' = answers \cup {Note(t, status, d, n, q)}
BY DEF Noted, Note

\* What is not about a POST does not touch a door, and accepts nothing.
Elsewhere ==
  /\ UNCHANGED <<door, order>> /\ posting' \in {posting, Nothing}
  /\ \/ cut' = cut /\ posting' = posting
     \/ cut' = IF posting.pc = "env" THEN cut \cup {posting} ELSE cut
  /\ \A a \in answers' : a \in answers \/ ~Accepted(a)

LEMMA DoorSteps ==
  ASSUME [DoorNext]_doorAll
  PROVE  \/ Elsewhere
         \/ \E o \in Outboxes, n \in Numbers, d \in Doors, foreign \in BOOLEAN : Post(o, n, d, foreign)
         \/ PostStep
<1> DEFINE Same == UNCHANGED <<door, order, posting, cut, answers>>
<1>1. Same => Elsewhere
  BY DEF Elsewhere
<1>2. ASSUME ExportNext PROVE Same
  BY <1>2 DEF ExportNext, ExportStart, ExportStep, ExportEnds, accessVars
<1>3. ASSUME UNCHANGED doorAll PROVE Same
  BY <1>3 DEF doorAll, doorVars, quadVars, accessVars
<1>4. ASSUME NEW t, NEW status, NEW d, NEW n, NEW q, Noted(t, status, d, n, q), status # 200 \/ n = 0,
             UNCHANGED <<door, order, posting, cut>>
      PROVE  Elsewhere
  <2>1. ~Accepted(Note(t, status, d, n, q))
    BY <1>4 DEF Note, Accepted
  <2> QED
    BY <2>1, <1>4, NotedAdds DEF Elsewhere
<1>5. ASSUME ServerNext PROVE Elsewhere
  <2>1. ASSUME NEW limit, ServerStarts(limit) PROVE Same
    BY <2>1 DEF ServerStarts, quadVars
  <2>2. ASSUME ServerStops PROVE Elsewhere
    BY <2>2 DEF ServerStops, Elsewhere
  <2>3. ASSUME Tick \/ \E file : TokensChange(file) PROVE Same
    BY <2>3 DEF Tick, TokensChange, quadVars
  <2>4. ASSUME NEW t, Refused401(t) PROVE Elsewhere
    <3>1. UNCHANGED <<door, order, posting, cut>> /\ (answers' = answers \/ Noted(t, 401, NoFile, 0, NoFile))
      BY <2>4 DEF Refused401, quadVars
    <3> QED
      BY <3>1, <1>1, <1>4
  <2>5. ASSUME NEW t, Refused429(t) PROVE Elsewhere
    <3>1. UNCHANGED <<door, order, posting, cut>> /\ Noted(t, 429, NoFile, 0, NoFile)
      BY <2>5 DEF Refused429, quadVars
    <3> QED
      BY <3>1, <1>4
  <2>6. ASSUME NEW t, Channels(t) PROVE Elsewhere
    <3>1. UNCHANGED <<door, order, posting, cut>> /\ Noted(t, 200, Visible(t), 0, NoFile)
      BY <2>6 DEF Channels, quadVars
    <3> QED
      BY <3>1, <1>4
  <2>7. ASSUME NEW t, NEW d, Index(t, d) PROVE Elsewhere
    <3>1. /\ UNCHANGED <<door, order, posting, cut>>
          /\ Noted(t, 200, d, 0, [n \in Page(Fresh(d, 0)) |-> Quad(door[d][n])])
      BY <2>7 DEF Index, quadVars
    <3> QED
      BY <3>1, <1>4
  <2>8. ASSUME NEW t, NEW axis, NEW d, Refused403(t, axis, d) PROVE Elsewhere
    <3>1. UNCHANGED <<door, order, posting, cut>> /\ Noted(t, 403, d, 0, NoFile)
      BY <2>8 DEF Refused403, quadVars
    <3> QED
      BY <3>1, <1>4
  <2> QED
    BY <1>1, <1>5, <2>1, <2>2, <2>3, <2>4, <2>5, <2>6, <2>7, <2>8 DEF ServerNext
<1>6. ASSUME PullNext PROVE Elsewhere
  <2>1. ASSUME NEW r, PullPage(r) PROVE Elsewhere
    <3>1. UNCHANGED <<door, order, posting, cut>> /\ Noted(MemberToken, 200, ReadsAt[r], 0, NoFile)
      BY <2>1 DEF PullPage
    <3> QED
      BY <3>1, <1>4
  <2>2. ASSUME NEW r, NEW since, PullStart(r, since) PROVE Same
    BY <2>2 DEF PullStart, accessVars
  <2>3. ASSUME NEW r, PullQuad(r) \/ PullWrite(r) \/ Repair(r) \/ PullOn(r) \/ PullEnds(r) PROVE Same
    BY <2>3 DEF PullQuad, PullWrite, Repair, PullOn, PullEnds, accessVars
  <2>4. ASSUME NEW r, NEW n, FileLost(r, n) PROVE Same
    BY <2>4 DEF FileLost, accessVars
  <2> QED
    BY <1>1, <1>6, <2>1, <2>2, <2>3, <2>4 DEF PullNext
<1> QED
  BY <1>1, <1>2, <1>3, <1>5, <1>6 DEF DoorNext, PushNext

LEMMA DoorFirst ==
  ASSUME DoorInit
  PROVE  DoorInv
<1>1. Files \in FileSet /\ Files.sig = NoFile /\ Files.env = NoFile
  BY DEF Files, FileSet
<1>2. door = [d \in Doors |-> Empty] /\ Empty = [n \in Numbers |-> Files]
  BY DEF DoorInit, Empty
<1>3. order = [d \in Doors |-> <<>>] /\ posting = Nothing /\ answers = {}
  BY DEF DoorInit
<1> HIDE DEF Files
<1>4. \A d \in Doors, n \in Numbers : ~Ordered(d, n)
  BY <1>3 DEF Ordered
<1>5. Nothing \in PostingSet
  BY DEF PostingSet
<1>6. <<>> \in Seq(Numbers)
  OBVIOUS
<1> QED
  BY <1>1, <1>2, <1>3, <1>4, <1>5, <1>6 DEF DoorInv

LEMMA DoorElsewhere ==
  ASSUME DoorInv, Elsewhere
  PROVE  DoorInv'
<1>1. UNCHANGED <<door, order>> /\ posting' \in {posting, Nothing}
  BY DEF Elsewhere
<1>2. Nothing \in PostingSet
  BY DEF PostingSet
<1>3. \A a \in answers' : Accepted(a) => Kept(a)'
  BY <1>1 DEF Elsewhere, DoorInv, Kept
<1> QED
  BY <1>1, <1>2, <1>3 DEF DoorInv, Ordered

LEMMA PostedIsQuad ==
  ASSUME BoxInv, NEW o \in Outboxes, NEW n \in Numbers, NEW d, NEW foreign, CanPush(o, n, d, foreign)
  PROVE  Quad(outbox[o][n]) \in QuadSet
<1>1. outbox[o][n].env # NoFile
  BY DEF CanPush, Complete
<1> QED
  BY <1>1, BoxIsWhole, LettersAreQuads DEF OutboxWhole

LEMMA DoorPost ==
  ASSUME BoxInv, DoorInv, NEW o \in Outboxes, NEW n \in Numbers, NEW d \in Doors, NEW foreign,
         Post(o, n, d, foreign)
  PROVE  DoorInv'
<1> DEFINE q == Quad(outbox[o][n])
           f == door[d][n]
<1>1. q \in QuadSet /\ f \in FileSet
  BY PostedIsQuad DEF Post, DoorInv
<1>2. UNCHANGED <<door, order>>
  BY DEF Post
<1>3. CASE Taken(f, q)
  <2>1. posting' = posting /\ Noted(MemberToken, IF Quad(f) = q THEN 200 ELSE 409, d, n, q)
    BY <1>3 DEF Post
  <2> DEFINE status == IF Quad(f) = q THEN 200 ELSE 409
             a == Note(MemberToken, status, d, n, q)
  <2>2. answers' = answers \cup {a}
    BY <2>1, NotedAdds
  <2>3. a.door = d /\ a.n = n /\ a.quad = q /\ a.status = status
    BY DEF Note
  <2>4. ASSUME Accepted(a) PROVE Kept(a)
    <3>1. Quad(f) = q
      BY <2>4, <2>3 DEF Accepted
    <3>2. f.env = q.env /\ f.sig = q.sig /\ FirstBody(f.bodies) = q.body
      BY <3>1 DEF Quad
    <3>3. f.bodies \in SUBSET Bodies
      BY <1>1 DEF FileSet
    <3>4. q.body # NoBody => q.body \in f.bodies
      BY <3>2, <3>3, FirstBodyIsThere DEF FirstBody
    <3> HIDE DEF q, a
    <3>5. f.env # NoFile
      BY <1>3 DEF Taken
    <3> QED
      BY <2>3, <3>2, <3>4, <3>5 DEF Kept
  <2> HIDE DEF a
  <2>5. \A b \in answers' : Accepted(b) => Kept(b)'
    BY <2>2, <2>4, <1>2 DEF DoorInv, Kept
  <2> QED
    BY <1>2, <2>1, <2>5 DEF DoorInv, Ordered
<1>4. CASE ~Taken(f, q)
  <2>1. posting' = [pc |-> "sig", door |-> d, n |-> n, quad |-> q] /\ answers' = answers
    BY <1>4 DEF Post
  <2> HIDE DEF q
  <2>2. /\ posting' \in PostingSet /\ posting'.door = d /\ posting'.n = n /\ posting'.quad = q
        /\ posting'.pc = "sig"
    BY <2>1, <1>1 DEF PostingSet
  <2>3. f.env = NoFile
    BY <1>4 DEF Taken
  <2>4. \A b \in answers' : Accepted(b) => Kept(b)'
    BY <2>1, <1>2 DEF DoorInv, Kept
  <2> QED
    BY <1>2, <2>2, <2>3, <2>4 DEF DoorInv, Ordered
<1> QED
  BY <1>3, <1>4

\* A step of a POST fills the files of the number that it is at, which is not complete.
LEMMA StepFills ==
  ASSUME DoorInv, PostStep
  PROVE  \E f \in FileSet :
           /\ posting # Nothing
           /\ posting \in [pc : {"sig", "body", "env"}, door : Doors, n : Numbers, quad : QuadSet]
           /\ door' = [door EXCEPT ![posting.door][posting.n] = f]
           /\ f.sig = posting.quad.sig
           /\ \A b \in f.bodies : \/ b \in door[posting.door][posting.n].bodies
                                \/ (posting.pc = "body" /\ b = posting.quad.body)
           /\ \/ /\ posting.pc = "sig" /\ f.env = NoFile
                 /\ posting' = [posting EXCEPT !.pc = "body"] /\ UNCHANGED <<order, answers>>
              \/ /\ posting.pc = "body" /\ f.env = NoFile /\ BodiesOf(posting.quad) \subseteq f.bodies
                 /\ posting' = [posting EXCEPT !.pc = "env"] /\ UNCHANGED <<order, answers>>
              \/ /\ posting.pc = "env" /\ f.env = posting.quad.env /\ BodiesOf(posting.quad) \subseteq f.bodies
                 /\ posting' = Nothing
                 /\ order' = [order EXCEPT ![posting.door] = Append(@, posting.n)]
                 /\ Noted(MemberToken, 200, posting.door, posting.n, posting.quad)
<1> DEFINE q == posting.quad
           f == door[posting.door][posting.n]
<1>1. /\ posting # Nothing
      /\ posting \in [pc : {"sig", "body", "env"}, door : Doors, n : Numbers, quad : QuadSet]
  BY DEF PostStep, DoorInv, PostingSet
<1>2. q \in QuadSet /\ f \in FileSet /\ f.env = NoFile
      /\ (posting.pc \in {"body", "env"} => f.sig = q.sig)
      /\ (posting.pc = "env" => BodiesOf(q) \subseteq f.bodies)
  BY <1>1 DEF DoorInv
<1>3. /\ WithSig(f, q) \in FileSet /\ WithBody(f, q) \in FileSet /\ WithEnv(f, q) \in FileSet
      /\ WithSig(f, q) = [sig |-> q.sig, bodies |-> f.bodies, env |-> f.env]
      /\ WithBody(f, q).sig = f.sig /\ WithBody(f, q).env = f.env
      /\ BodiesOf(q) \subseteq WithBody(f, q).bodies
      /\ \A b \in WithBody(f, q).bodies : b \in f.bodies \/ b = q.body
      /\ WithEnv(f, q) = [sig |-> f.sig, bodies |-> f.bodies, env |-> q.env]
  BY <1>2, FilesAfter
<1>4. CASE posting.pc = "sig"
  <2>1. Filled(WithSig(f, q), "body") /\ UNCHANGED <<order, answers>>
    BY <1>4 DEF PostStep
  <2>2. WithSig(f, q).sig = q.sig /\ WithSig(f, q).env = NoFile /\ WithSig(f, q).bodies = f.bodies
    BY <1>2, <1>3
  <2> HIDE DEF f, q
  <2>3. door' = [door EXCEPT ![posting.door][posting.n] = WithSig(f, q)] /\ posting' = [posting EXCEPT !.pc = "body"]
    BY <2>1 DEF Filled
  <2> QED
    BY <1>1, <1>3, <1>4, <2>1, <2>2, <2>3 DEF q, f
<1>5. CASE posting.pc = "body"
  <2>1. Filled(WithBody(f, q), "env") /\ UNCHANGED <<order, answers>>
    BY <1>5 DEF PostStep
  <2>2. WithBody(f, q).sig = q.sig /\ WithBody(f, q).env = NoFile
    BY <1>2, <1>3, <1>5
  <2> HIDE DEF f, q
  <2>3. door' = [door EXCEPT ![posting.door][posting.n] = WithBody(f, q)] /\ posting' = [posting EXCEPT !.pc = "env"]
    BY <2>1 DEF Filled
  <2> QED
    BY <1>1, <1>3, <1>5, <2>1, <2>2, <2>3 DEF q, f
<1>6. CASE posting.pc = "env"
  <2>1. /\ door' = [door EXCEPT ![posting.door][posting.n] = WithEnv(f, q)]
        /\ order' = [order EXCEPT ![posting.door] = Append(@, posting.n)]
        /\ Noted(MemberToken, 200, posting.door, posting.n, q)
        /\ posting' = Nothing
    BY <1>6 DEF PostStep
  <2>2. WithEnv(f, q).sig = q.sig /\ WithEnv(f, q).env = q.env /\ WithEnv(f, q).bodies = f.bodies
    BY <1>2, <1>3, <1>6
  <2> HIDE DEF f
  <2> QED
    BY <1>1, <1>2, <1>3, <1>6, <2>1, <2>2 DEF f
<1> QED
  BY <1>1, <1>4, <1>5, <1>6

LEMMA DoorStep ==
  ASSUME DoorInv, PostStep
  PROVE  DoorInv'
<1>0. PICK d, n, q : d = posting.door /\ n = posting.n /\ q = posting.quad
  OBVIOUS
<1> USE <1>0
<1>1. PICK f \in FileSet :
        /\ posting # Nothing
        /\ posting \in [pc : {"sig", "body", "env"}, door : Doors, n : Numbers, quad : QuadSet]
        /\ door' = [door EXCEPT ![d][n] = f]
        /\ f.sig = q.sig
        /\ \/ /\ posting.pc = "sig" /\ f.env = NoFile
              /\ posting' = [posting EXCEPT !.pc = "body"] /\ UNCHANGED <<order, answers>>
           \/ /\ posting.pc = "body" /\ f.env = NoFile /\ BodiesOf(q) \subseteq f.bodies
              /\ posting' = [posting EXCEPT !.pc = "env"] /\ UNCHANGED <<order, answers>>
           \/ /\ posting.pc = "env" /\ f.env = q.env /\ BodiesOf(q) \subseteq f.bodies
              /\ posting' = Nothing
              /\ order' = [order EXCEPT ![d] = Append(@, n)]
              /\ Noted(MemberToken, 200, d, n, q)
  BY StepFills
<1>2. d \in Doors /\ n \in Numbers /\ q \in QuadSet /\ q.env # NoFile /\ q.sig # NoFile
  BY <1>1, WholeParts
<1>3. /\ door' \in [Doors -> [Numbers -> FileSet]]
      /\ door'[d][n] = f
      /\ \A c \in Doors, m \in Numbers : c # d \/ m # n => door'[c][m] = door[c][m]
  BY <1>1, <1>2 DEF DoorInv
<1>4. door[d][n].env = NoFile
  BY <1>1 DEF DoorInv
<1>5. \A a \in answers : Accepted(a) => Kept(a)'
  BY <1>3, <1>4 DEF DoorInv, Kept
<1>6. \A c \in Doors, m \in Numbers : door'[c][m].env # NoFile => door'[c][m].sig # NoFile
  BY <1>1, <1>2, <1>3 DEF DoorInv
<1>7. CASE posting.pc \in {"sig", "body"}
  <2>1. PICK pc \in {"body", "env"} : posting' = [posting EXCEPT !.pc = pc] /\ f.env = NoFile
          /\ UNCHANGED <<order, answers>> /\ (pc = "env" => BodiesOf(q) \subseteq f.bodies)
    BY <1>1, <1>7
  <2>2. /\ posting' \in PostingSet /\ posting'.pc = pc /\ posting'.door = d /\ posting'.n = n
        /\ posting'.quad = q
    BY <2>1, <1>1 DEF PostingSet
  <2>3. \A c \in Doors, m \in Numbers : door'[c][m].env # NoFile <=> Ordered(c, m)'
    BY <2>1, <1>3, <1>4 DEF DoorInv, Ordered
  <2>4. \A a \in answers' : Accepted(a) => Kept(a)'
    BY <2>1, <1>5
  <2> QED
    BY <1>1, <1>3, <1>6, <2>1, <2>2, <2>3, <2>4 DEF DoorInv
<1>8. CASE posting.pc = "env"
  <2>1. /\ f.env = q.env /\ BodiesOf(q) \subseteq f.bodies
        /\ posting' = Nothing
        /\ order' = [order EXCEPT ![d] = Append(@, n)]
        /\ Noted(MemberToken, 200, d, n, q)
    BY <1>1, <1>8
  <2>2. Nothing \in PostingSet
    BY DEF PostingSet
  <2>3. order' \in [Doors -> Seq(Numbers)] /\ order'[d] = Append(order[d], n)
        /\ \A c \in Doors : c # d => order'[c] = order[c]
    BY <2>1, <1>2 DEF DoorInv
  <2>4. \A m : Ordered(d, m)' <=> Ordered(d, m) \/ m = n
    <3>1. order[d] \in Seq(Numbers)
      BY <1>2 DEF DoorInv
    <3>2. Len(order[d]) \in Nat /\ DOMAIN order[d] = 1 .. Len(order[d])
          /\ DOMAIN Append(order[d], n) = 1 .. (Len(order[d]) + 1)
          /\ Append(order[d], n)[Len(order[d]) + 1] = n
          /\ \A i \in 1 .. Len(order[d]) : Append(order[d], n)[i] = order[d][i]
      BY <3>1, <1>2
    <3> QED
      BY <3>2, <2>3 DEF Ordered
  <2>5. \A c \in Doors, m \in Numbers : door'[c][m].env # NoFile <=> Ordered(c, m)'
    <3> TAKE c \in Doors, m \in Numbers
    <3>1. CASE c = d /\ m = n
      BY <3>1, <1>2, <1>3, <2>1, <2>4
    <3>2. CASE c = d /\ m # n
      BY <3>2, <1>3, <2>4 DEF DoorInv
    <3>3. CASE c # d
      BY <3>3, <1>3, <2>3 DEF DoorInv, Ordered
    <3> QED
      BY <3>1, <3>2, <3>3
  <2>6. PICK a : answers' = answers \cup {a} /\ a.door = d /\ a.n = n /\ a.quad = q
    <3> DEFINE b == Note(MemberToken, 200, d, n, q)
    <3>1. answers' = answers \cup {b}
      BY <2>1, NotedAdds
    <3>2. b.door = d /\ b.n = n /\ b.quad = q
      BY DEF Note
    <3> HIDE DEF b
    <3> QED
      BY <3>1, <3>2
  <2>7. q.body # NoBody => q.body \in f.bodies
    BY <2>1 DEF BodiesOf
  <2>8. Kept(a)'
    BY <1>1, <1>2, <1>3, <2>1, <2>6, <2>7 DEF Kept
  <2>9. \A b \in answers' : Accepted(b) => Kept(b)'
    BY <2>6, <2>8, <1>5
  <2> QED
    BY <1>3, <1>6, <2>1, <2>2, <2>3, <2>5, <2>9 DEF DoorInv
<1> QED
  BY <1>1, <1>7, <1>8

LEMMA DoorNextInv ==
  ASSUME BoxInv, DoorInv, [DoorNext]_doorAll
  PROVE  DoorInv'
<1>1. ASSUME NEW o \in Outboxes, NEW n \in Numbers, NEW d \in Doors, NEW foreign \in BOOLEAN, Post(o, n, d, foreign)
      PROVE  DoorInv'
  BY <1>1, DoorPost
<1> QED
  BY <1>1, DoorSteps, DoorElsewhere, DoorStep

\* What lies of a number that is not complete was left by a POST that was cut off, or is of the
\* one under way; and what is accepted are letters.
LeftThere(d, n, b) ==
  \/ \E c \in cut : c.door = d /\ c.n = n /\ b = c.quad.body
  \/ posting.pc = "env" /\ posting.door = d /\ posting.n = n /\ b = posting.quad.body
CutInv ==
  /\ posting # Nothing => posting.quad \in Letters
  /\ \A d \in Doors, n \in Numbers :
       door[d][n].env = NoFile => \A b \in door[d][n].bodies : LeftThere(d, n, b)
  /\ AcceptedShown
  /\ DoorWhole

\* Nothing is cut off under a number that is complete.
LEMMA CutStays ==
  ASSUME DoorInv, CutInv, UNCHANGED door, posting' \in {posting, Nothing},
         \/ cut' = cut /\ posting' = posting
         \/ cut' = IF posting.pc = "env" THEN cut \cup {posting} ELSE cut,
         \A a \in answers' : Accepted(a) =>
           \/ a \in answers
           \/ /\ a.quad \in Letters /\ Quad(door[a.door][a.n]) = a.quad
  PROVE  CutInv'
<1>1. \A c \in cut' : c \in cut \/ (c = posting /\ posting # Nothing)
  BY DEF Nothing
<1>2. \A c \in cut : c \in cut'
  OBVIOUS
<1>3. ASSUME NEW d \in Doors, NEW n \in Numbers, door'[d][n].env = NoFile, NEW b \in door'[d][n].bodies
      PROVE  LeftThere(d, n, b)'
  <2>1. LeftThere(d, n, b)
    BY <1>3 DEF CutInv
  <2>2. CASE \E c \in cut : c.door = d /\ c.n = n /\ b = c.quad.body
    BY <1>2, <2>2 DEF LeftThere
  <2>3. CASE posting.pc = "env" /\ posting.door = d /\ posting.n = n /\ b = posting.quad.body
    BY <2>3 DEF LeftThere
  <2> QED
    BY <2>1, <2>2, <2>3 DEF LeftThere
<1>4. ASSUME NEW a \in answers', Accepted(a)
      PROVE  a.quad \in Letters /\ (OfAnother(a)' \/ Quad(door'[a.door][a.n]) = a.quad)
  <2>1. CASE a \in answers
    <3>1. a.quad \in Letters /\ (OfAnother(a) \/ Quad(door[a.door][a.n]) = a.quad)
      BY <1>4, <2>1 DEF CutInv, AcceptedShown
    <3>2. OfAnother(a) => OfAnother(a)'
      BY <1>2 DEF OfAnother
    <3> QED
      BY <3>1, <3>2
  <2>2. CASE a \notin answers
    BY <1>4, <2>2
  <2> QED
    BY <2>1, <2>2
<1>5. ASSUME NEW d \in Doors, NEW n \in Numbers, door'[d][n].env # NoFile, ~CutOff(d, n)'
      PROVE  Quad(door'[d][n]) \in Letters
  <2>1. ~CutOff(d, n)
    BY <1>2, <1>5 DEF CutOff
  <2> QED
    BY <1>5, <2>1 DEF CutInv, DoorWhole
<1>6. posting' # Nothing => posting'.quad \in Letters
  BY DEF CutInv
<1>7. AcceptedShown'
  BY <1>4 DEF AcceptedShown, Accepted
<1>8. DoorWhole'
  BY <1>5 DEF DoorWhole
<1> QED
  BY <1>3, <1>6, <1>7, <1>8 DEF CutInv

\* Who posts has a letter of its outbox, and is told that it is there if it is shown.
LEMMA CutPost ==
  ASSUME BoxInv, DoorInv, CutInv, NEW o \in Outboxes, NEW n \in Numbers, NEW d \in Doors, NEW foreign,
         Post(o, n, d, foreign)
  PROVE  CutInv'
<1> DEFINE q == Quad(outbox[o][n])
           f == door[d][n]
<1>1. q \in Letters
  BY BoxIsWhole DEF Post, CanPush, Complete, OutboxWhole
<1>2. UNCHANGED <<door, cut>>
  BY DEF Post
<1>3. CASE Taken(f, q)
  <2>1. posting' = posting /\ Noted(MemberToken, IF Quad(f) = q THEN 200 ELSE 409, d, n, q)
    BY <1>3 DEF Post
  <2> DEFINE status == IF Quad(f) = q THEN 200 ELSE 409
             a == Note(MemberToken, status, d, n, q)
  <2>2. answers' = answers \cup {a}
    BY <2>1, NotedAdds
  <2>3. a.door = d /\ a.n = n /\ a.quad = q /\ a.status = status
    BY DEF Note
  <2>4. Accepted(a) => a.quad \in Letters /\ Quad(door[a.door][a.n]) = a.quad
    BY <1>1, <2>3 DEF Accepted
  <2> HIDE DEF a
  <2> QED
    BY <1>2, <2>1, <2>2, <2>4, CutStays
<1>4. CASE ~Taken(f, q)
  <2>1. posting' = [pc |-> "sig", door |-> d, n |-> n, quad |-> q] /\ answers' = answers
    BY <1>4 DEF Post
  <2>2. posting = Nothing
    BY DEF Post, Authorized, Idle
  <2> HIDE DEF q
  <2>3. posting'.quad \in Letters
    BY <1>1, <2>1
  <2>4. \A e \in Doors, m \in Numbers :
          door'[e][m].env = NoFile => \A b \in door'[e][m].bodies : LeftThere(e, m, b)'
    <3>1. posting.pc # "env"
      BY <2>2 DEF Nothing
    <3> QED
      BY <1>2, <3>1 DEF CutInv, LeftThere
  <2>5. AcceptedShown' /\ DoorWhole'
    BY <1>2, <2>1 DEF CutInv, AcceptedShown, OfAnother, DoorWhole, CutOff
  <2> QED
    BY <2>3, <2>4, <2>5 DEF CutInv
<1> QED
  BY <1>3, <1>4

\* The files of a POST are all that there is under its number, if none was cut off there.
LEMMA CutStep ==
  ASSUME DoorInv, CutInv, PostStep
  PROVE  CutInv'
<1>0. PICK d, n, q : d = posting.door /\ n = posting.n /\ q = posting.quad
  OBVIOUS
<1> USE <1>0
<1>1. PICK f \in FileSet :
        /\ posting # Nothing
        /\ posting \in [pc : {"sig", "body", "env"}, door : Doors, n : Numbers, quad : QuadSet]
        /\ door' = [door EXCEPT ![d][n] = f]
        /\ f.sig = q.sig
        /\ \A b \in f.bodies : b \in door[d][n].bodies \/ (posting.pc = "body" /\ b = q.body)
        /\ \/ /\ posting.pc = "sig" /\ f.env = NoFile
              /\ posting' = [posting EXCEPT !.pc = "body"] /\ UNCHANGED <<order, answers>>
           \/ /\ posting.pc = "body" /\ f.env = NoFile /\ BodiesOf(q) \subseteq f.bodies
              /\ posting' = [posting EXCEPT !.pc = "env"] /\ UNCHANGED <<order, answers>>
           \/ /\ posting.pc = "env" /\ f.env = q.env /\ BodiesOf(q) \subseteq f.bodies
              /\ posting' = Nothing
              /\ order' = [order EXCEPT ![d] = Append(@, n)]
              /\ Noted(MemberToken, 200, d, n, q)
  BY StepFills
<1>2. d \in Doors /\ n \in Numbers /\ q \in QuadSet /\ q \in Letters /\ cut' = cut
  BY <1>1 DEF CutInv, PostStep
<1>3. /\ door'[d][n] = f
      /\ \A e \in Doors, m \in Numbers : e # d \/ m # n => door'[e][m] = door[e][m]
  BY <1>1, <1>2 DEF DoorInv
<1>4. door[d][n].env = NoFile
  BY <1>1 DEF DoorInv
<1>5. \A a \in answers : Accepted(a) => /\ a.door \in Doors /\ a.n \in Numbers
                                        /\ a.door # d \/ a.n # n
  BY <1>4 DEF DoorInv, Kept
<1>6. \A a \in answers : Accepted(a) =>
        /\ a.quad \in Letters
        /\ OfAnother(a)' \/ Quad(door'[a.door][a.n]) = a.quad
  BY <1>2, <1>3, <1>5 DEF CutInv, AcceptedShown, OfAnother
<1>7. CASE posting.pc \in {"sig", "body"}
  <2>1. PICK pc \in {"body", "env"} :
          /\ posting' = [posting EXCEPT !.pc = pc] /\ f.env = NoFile
          /\ answers' = answers
          /\ (posting.pc = "body" => pc = "env")
    BY <1>1, <1>7
  <2>2. /\ posting'.pc = pc /\ posting'.door = d /\ posting'.n = n /\ posting'.quad = q
    <3>1. posting \in [pc : {"sig", "body", "env"}, door : Doors, n : Numbers, quad : QuadSet]
      BY <1>1
    <3>2. posting' = [posting EXCEPT !.pc = pc]
      BY <2>1
    <3> QED
      BY <3>1, <3>2
  <2>a. answers' = answers /\ f.env = NoFile /\ (posting.pc = "body" => pc = "env")
    BY <2>1
  <2>3. \A e \in Doors, m \in Numbers :
          door'[e][m].env = NoFile => \A b \in door'[e][m].bodies : LeftThere(e, m, b)'
    <3> TAKE e \in Doors, m \in Numbers
    <3> HAVE door'[e][m].env = NoFile
    <3> TAKE b \in door'[e][m].bodies
    <3>1. CASE b \in door[e][m].bodies /\ door[e][m].env = NoFile
      BY <3>1, <1>2, <1>7 DEF CutInv, LeftThere
    <3>2. CASE e = d /\ m = n /\ posting.pc = "body" /\ b = q.body
      <4>1. posting'.pc = "env" /\ posting'.door = e /\ posting'.n = m /\ b = posting'.quad.body
        BY <3>2, <2>a, <2>2
      <4> QED
        BY <4>1 DEF LeftThere
    <3> QED
      BY <3>1, <3>2, <1>1, <1>3, <1>4
  <2>4. AcceptedShown'
    BY <1>6, <2>a DEF AcceptedShown, Accepted
  <2>5. DoorWhole'
    BY <1>2, <1>3, <2>a DEF CutInv, DoorWhole, CutOff
  <2> QED
    BY <1>2, <2>2, <2>3, <2>4, <2>5 DEF CutInv
<1>8. CASE posting.pc = "env"
  <2>1. /\ f.env = q.env /\ BodiesOf(q) \subseteq f.bodies
        /\ posting' = Nothing
        /\ Noted(MemberToken, 200, d, n, q)
    BY <1>1, <1>8
  <2>2. \A b \in f.bodies : \/ b = q.body
                           \/ \E c \in cut : c.door = d /\ c.n = n /\ b = c.quad.body
    BY <1>1, <1>2, <1>4, <1>8 DEF CutInv, LeftThere
  <2>3. ASSUME \A c \in cut : c.door = d /\ c.n = n => c.quad = q
        PROVE  Quad(f) = q
    <3>1. \A b \in f.bodies : b = q.body
      BY <2>2, <2>3
    <3>2. f.bodies \subseteq Bodies /\ NoBody \notin Bodies
      BY NoneIsMissing DEF FileSet
    <3>3. f.bodies = BodiesOf(q)
      BY <2>1, <3>1, <3>2 DEF BodiesOf
    <3>4. q = [env |-> q.env, sig |-> q.sig, body |-> q.body]
      BY <1>2 DEF QuadSet
    <3>5. FirstBody(f.bodies) = q.body /\ f.env = q.env /\ f.sig = q.sig
      BY <1>1, <1>2, <2>1, <3>3, OneBody
    <3> QED
      BY <3>4, <3>5 DEF Quad
  <2>4. PICK a : answers' = answers \cup {a} /\ a.door = d /\ a.n = n /\ a.quad = q
    <3> DEFINE b == Note(MemberToken, 200, d, n, q)
    <3>1. answers' = answers \cup {b}
      BY <2>1, NotedAdds
    <3>2. b.door = d /\ b.n = n /\ b.quad = q
      BY DEF Note
    <3> HIDE DEF b
    <3> QED
      BY <3>1, <3>2
  <2>5. OfAnother(a)' \/ Quad(door'[a.door][a.n]) = a.quad
    BY <1>2, <1>3, <2>3, <2>4 DEF OfAnother
  <2>6. AcceptedShown'
    BY <1>2, <1>6, <2>4, <2>5 DEF AcceptedShown, Accepted
  <2>7. DoorWhole'
    <3>1. ~CutOff(d, n) => Quad(f) = q
      BY <2>3 DEF CutOff
    <3> QED
      BY <1>2, <1>3, <3>1 DEF CutInv, DoorWhole, CutOff
  <2>8. \A e \in Doors, m \in Numbers :
          door'[e][m].env = NoFile => \A b \in door'[e][m].bodies : LeftThere(e, m, b)'
    <3>1. f.env # NoFile
      BY <1>2, <2>1, WholeParts
    <3> QED
      BY <1>2, <1>3, <1>8, <3>1 DEF CutInv, LeftThere
  <2> QED
    BY <2>1, <2>6, <2>7, <2>8 DEF CutInv
<1> QED
  BY <1>1, <1>7, <1>8

LEMMA CutNext ==
  ASSUME BoxInv, DoorInv, CutInv, [DoorNext]_doorAll
  PROVE  CutInv'
<1>1. ASSUME NEW o \in Outboxes, NEW n \in Numbers, NEW d \in Doors, NEW foreign \in BOOLEAN, Post(o, n, d, foreign)
      PROVE  CutInv'
  BY <1>1, CutPost
<1>2. CASE Elsewhere
  <2>1. \A a \in answers' : Accepted(a) => a \in answers
    BY <1>2 DEF Elsewhere
  <2> QED
    BY <1>2, <2>1, CutStays DEF Elsewhere
<1> QED
  BY <1>1, <1>2, DoorSteps, CutStep

LEMMA CutFirst ==
  ASSUME DoorInit
  PROVE  CutInv
<1>1. \A d \in Doors, n \in Numbers : door[d][n].env = NoFile /\ door[d][n].bodies = {}
  BY DEF DoorInit, Empty, Files
<1> QED
  BY <1>1 DEF DoorInit, CutInv, AcceptedShown, DoorWhole

\* What is complete at a door stays as it is, and its order only grows.
LEMMA DoorGrows ==
  ASSUME DoorInv, [DoorNext]_doorAll
  PROVE  \A d \in Doors, n \in Numbers :
           /\ door[d][n].env # NoFile => door'[d][n] = door[d][n]
           /\ \A m \in Numbers : Before(d, m, n) => Before(d, m, n)'
           /\ door'[d][n].env # NoFile /\ door[d][n].env = NoFile =>
                \A m \in Numbers : door[d][m].env # NoFile => Before(d, m, n)'
<1>1. ASSUME UNCHANGED <<door, order>>
      PROVE  \A d \in Doors, n \in Numbers :
           /\ door[d][n].env # NoFile => door'[d][n] = door[d][n]
           /\ \A m \in Numbers : Before(d, m, n) => Before(d, m, n)'
           /\ ~(door'[d][n].env # NoFile /\ door[d][n].env = NoFile)
  BY <1>1 DEF Before
<1>2. ASSUME NEW o, NEW n, NEW d, NEW foreign, Post(o, n, d, foreign)
      PROVE  UNCHANGED <<door, order>>
  BY <1>2 DEF Post
<1>3. CASE PostStep
  <2> TAKE d \in Doors, n \in Numbers
  <2>1. PICK f \in FileSet :
           /\ posting # Nothing
           /\ posting.door \in Doors /\ posting.n \in Numbers
           /\ door' = [door EXCEPT ![posting.door][posting.n] = f]
           /\ \/ f.env = NoFile /\ order' = order
              \/ order' = [order EXCEPT ![posting.door] = Append(@, posting.n)]
    BY <1>3, StepFills
  <2>2. door[posting.door][posting.n].env = NoFile
    BY <2>1 DEF DoorInv
  <2>3. /\ door'[posting.door][posting.n] = f
        /\ d # posting.door \/ n # posting.n => door'[d][n] = door[d][n]
    BY <2>1 DEF DoorInv
  <2>4. door[d][n].env # NoFile => door'[d][n] = door[d][n]
    BY <2>2, <2>3
  <2>5. CASE order' = order /\ f.env = NoFile
    BY <2>3, <2>4, <2>5 DEF Before
  <2>6. CASE order' = [order EXCEPT ![posting.door] = Append(@, posting.n)]
    <3>1. order[d] \in Seq(Numbers)
      BY DEF DoorInv
    <3> DEFINE k == Len(order[d])
               s == Append(order[d], posting.n)
    <3>2. /\ k \in Nat /\ DOMAIN order[d] = 1 .. k
          /\ DOMAIN s = 1 .. (k + 1) /\ s[k + 1] = posting.n
          /\ \A i \in 1 .. k : s[i] = order[d][i]
      BY <3>1, <2>1
    <3>3. order'[d] = order[d] \/ (d = posting.door /\ order'[d] = s)
      BY <2>1, <2>6 DEF DoorInv
    <3> HIDE DEF k, s
    <3>4. \A m \in Numbers : Before(d, m, n) => Before(d, m, n)'
      BY <3>2, <3>3 DEF Before
    <3>5. ASSUME door'[d][n].env # NoFile, door[d][n].env = NoFile, NEW m \in Numbers, door[d][m].env # NoFile
          PROVE  Before(d, m, n)'
      <4>1. d = posting.door /\ n = posting.n
        BY <3>5, <2>3
      <4>2. order'[d] = s
        BY <2>6, <4>1 DEF DoorInv, s
      <4>3. PICK i \in DOMAIN order[d] : order[d][i] = m
        BY <3>5 DEF DoorInv, Ordered
      <4>4. i \in DOMAIN order'[d] /\ k + 1 \in DOMAIN order'[d] /\ i < k + 1
            /\ order'[d][i] = m /\ order'[d][k + 1] = n
        BY <4>1, <4>2, <4>3, <3>2
      <4> QED
        BY <4>4 DEF Before
    <3> QED
      BY <2>4, <3>4, <3>5
  <2> QED
    BY <2>1, <2>5, <2>6
<1> QED
  BY <1>1, <1>2, <1>3, DoorSteps DEF Elsewhere

-----------------------------------------------------------------------------
(* The mailbox and the pull of a reader *)

Shown(r, n) == Quad(door[ReadsAt[r]][n])
Arrived(r, n) == door[ReadsAt[r]][n].env # NoFile
LowestOf(Q) == CHOOSE p \in Q : \A q \in Q : p.n <= q.n

PullSet == {Nothing} \cup
  [pc : {"ask", "next", "sig", "body", "env", "repair", "end"}, since : Nat,
   quads : SUBSET [n : Numbers, quad : QuadSet], more : BOOLEAN]

\* The files of a mailbox are of the quad that the door shows, and all of them if it is
\* complete and no file was lost.
OfShown(f, r, n) ==
  /\ Arrived(r, n)
  /\ f.sig \in {NoFile, Shown(r, n).sig} /\ f.env \in {NoFile, Shown(r, n).env}
  /\ f.bodies \subseteq BodiesOf(Shown(r, n))
HasAll(f, r, n) == f.sig = Shown(r, n).sig /\ f.bodies = BodiesOf(Shown(r, n))
MailFiles(r) ==
  \A n \in Numbers :
    /\ mailbox[r][n] = Files \/ OfShown(mailbox[r][n], r, n)
    /\ mailbox[r][n].env # NoFile /\ <<r, n>> \notin lost => HasAll(mailbox[r][n], r, n)

\* What a pull knows of the door stays so; what it has written of a letter is there.
Underway(p, f, q) ==
  /\ p.pc \in {"sig", "body", "env"} => f.env = NoFile
  /\ p.pc \in {"body", "env"} => f.sig = q.sig
  /\ p.pc = "env" => f.bodies = BodiesOf(q)
  /\ p.pc \in {"repair", "end"} => f.env # NoFile
MailPull(r) ==
  pulling[r] # Nothing =>
    /\ \A p \in pulling[r].quads : Arrived(r, p.n) /\ p.quad = Shown(r, p.n) /\ p.n > pulling[r].since
    /\ pulling[r].since = 0 \/ pulling[r].since \in Have(r)
    /\ pulling[r].pc \notin {"ask", "next"} =>
         /\ pulling[r].quads # {}
         /\ Underway(pulling[r], mailbox[r][LowestOf(pulling[r].quads).n], LowestOf(pulling[r].quads).quad)

\* What is not on a page that a pull is at, and below a letter of it, became complete after that.
Late(r, m, n) == Before(ReadsAt[r], m, n)
Missing(r, n) == n \in Fresh(ReadsAt[r], 0) \ Have(r)
MailLate(r) ==
  /\ pulling[r] # Nothing =>
       \A p \in pulling[r].quads, n \in Numbers :
         /\ Missing(r, n) /\ n > pulling[r].since /\ n < p.n
         /\ \A q \in pulling[r].quads : q.n # n
         => Late(r, p.n, n)
  /\ \A n \in Numbers, m \in Have(r) :
       Missing(r, n) /\ n < m => \E k \in Have(r) : k > n /\ Late(r, k, n)

ReaderInv(r) == MailFiles(r) /\ MailPull(r) /\ MailLate(r)
MailInv ==
  /\ mailbox \in [Reader -> [Numbers -> FileSet]]
  /\ pulling \in [Reader -> PullSet]
  /\ \A r \in Reader : ReaderInv(r)

LEMMA LowestIsThere ==
  ASSUME NEW Q, Q \subseteq [n : Numbers, quad : QuadSet], Q # {}
  PROVE  LowestOf(Q) \in Q /\ \A q \in Q : LowestOf(Q).n <= q.n
<1> DEFINE S == {p.n : p \in Q}
<1>1. S \subseteq Nat /\ S # {}
  BY DEF Numbers
<1>2. PICK n \in S : \A k \in S : n <= k
  BY <1>1, LowestExists
<1>3. PICK p \in Q : p.n = n
  OBVIOUS
<1>4. \A q \in Q : p.n <= q.n
  BY <1>2, <1>3
<1> QED
  BY <1>4 DEF LowestOf

LEMMA ShownIsQuad ==
  ASSUME DoorInv, NEW r \in Reader, NEW n \in Numbers, Arrived(r, n)
  PROVE  Shown(r, n) \in QuadSet
<1> DEFINE f == door[ReadsAt[r]][n]
<1>1. f \in FileSet /\ f.env # NoFile /\ f.sig # NoFile
  BY DoorAssumption DEF DoorInv, Arrived
<1>2. f.env \in Envs /\ f.sig \in Sigs /\ f.bodies \in SUBSET Bodies
  BY <1>1 DEF FileSet
<1>3. FirstBody(f.bodies) \in Bodies \cup {NoBody}
  BY <1>2, FirstBodyIsThere DEF FirstBody
<1> HIDE DEF f
<1>4. [env |-> f.env, sig |-> f.sig, body |-> FirstBody(f.bodies)] \in QuadSet
  BY <1>2, <1>3 DEF QuadSet
<1> QED
  BY <1>4 DEF Shown, Quad, f

LEMMA MailFirst ==
  ASSUME DoorInit
  PROVE  MailInv
<1>1. Files \in FileSet /\ Files.sig = NoFile /\ Files.env = NoFile
  BY DEF Files, FileSet
<1>2. mailbox = [r \in Reader |-> Empty] /\ Empty = [n \in Numbers |-> Files]
  BY DEF DoorInit, Empty
<1>3. pulling = [r \in Reader |-> Nothing] /\ Nothing \in PullSet
  BY DEF DoorInit, PullSet
<1> HIDE DEF Files
<1>4. ASSUME NEW r \in Reader PROVE Have(r) = {} /\ ReaderInv(r)
  <2>1. Have(r) = {}
    BY <1>1, <1>2 DEF Have
  <2>2. MailFiles(r)
    BY <1>1, <1>2 DEF MailFiles
  <2> QED
    BY <2>1, <2>2, <1>3 DEF ReaderInv, MailPull, MailLate
<1> QED
  BY <1>1, <1>2, <1>3, <1>4 DEF MailInv

\* What happens at the door alone keeps what a reader may rely on.
LEMMA MailAside ==
  ASSUME DoorInv, MailInv, [DoorNext]_doorAll, NEW r \in Reader,
         mailbox'[r] = mailbox[r], pulling'[r] = pulling[r],
         \A n : <<r, n>> \in lost' <=> <<r, n>> \in lost
  PROVE  ReaderInv(r)'
<1>1. ReadsAt[r] \in Doors /\ ReaderInv(r) /\ pulling[r] \in PullSet
  BY DoorAssumption DEF MailInv
<1>2. \A n \in Numbers :
        /\ Arrived(r, n) => Arrived(r, n)' /\ Shown(r, n)' = Shown(r, n)
        /\ \A m \in Numbers : Late(r, m, n) => Late(r, m, n)'
        /\ Arrived(r, n)' /\ ~Arrived(r, n) => \A m \in Numbers : Arrived(r, m) => Late(r, m, n)'
  BY <1>1, DoorGrows DEF Arrived, Shown, Late
<1>3. \A n \in Numbers : \A f : OfShown(f, r, n) => OfShown(f, r, n)'
  BY <1>2 DEF OfShown
<1>4. MailFiles(r)'
  <2> SUFFICES ASSUME NEW n \in Numbers
               PROVE  /\ mailbox'[r][n] = Files \/ OfShown(mailbox[r][n], r, n)'
                      /\ mailbox'[r][n].env # NoFile /\ <<r, n>> \notin lost' => HasAll(mailbox[r][n], r, n)'
    BY DEF MailFiles, OfShown, HasAll, Arrived, Shown
  <2>1. mailbox[r][n] = Files \/ OfShown(mailbox[r][n], r, n)
    BY <1>1 DEF ReaderInv, MailFiles
  <2>2. ASSUME mailbox[r][n].env # NoFile, <<r, n>> \notin lost
        PROVE  HasAll(mailbox[r][n], r, n)'
    <3>1. HasAll(mailbox[r][n], r, n)
      BY <2>2, <1>1 DEF ReaderInv, MailFiles
    <3>2. Arrived(r, n)
      BY <2>1, <2>2 DEF OfShown, Files
    <3> QED
      BY <3>1, <3>2, <1>2 DEF HasAll
  <2> QED
    BY <2>1, <2>2, <1>3
<1>5. Have(r)' = Have(r)
  BY DEF Have
<1>6. pulling[r] # Nothing => pulling[r].quads \subseteq [n : Numbers, quad : QuadSet]
  BY <1>1 DEF PullSet
<1>7. MailPull(r)'
  BY <1>1, <1>2, <1>5, <1>6 DEF ReaderInv, MailPull
<1>8. \A m \in Have(r) : m \in Numbers /\ Arrived(r, m)
  <2> TAKE m \in Have(r)
  <2>1. m \in Numbers /\ mailbox[r][m].env # NoFile
    BY DEF Have
  <2>2. mailbox[r][m] = Files \/ OfShown(mailbox[r][m], r, m)
    BY <1>1, <2>1 DEF ReaderInv, MailFiles
  <2> QED
    BY <2>1, <2>2 DEF OfShown, Files
<1>9. \A n \in Numbers : Missing(r, n)' => Missing(r, n) \/ (Arrived(r, n)' /\ ~Arrived(r, n))
  BY <1>5 DEF Missing, Fresh, Arrived
<1>10. MailLate(r)'
  <2>1. ASSUME pulling[r] # Nothing, NEW p \in pulling[r].quads, NEW n \in Numbers,
               Missing(r, n)', n > pulling[r].since, n < p.n, \A q \in pulling[r].quads : q.n # n
        PROVE  Late(r, p.n, n)'
    <3>1. p.n \in Numbers /\ Arrived(r, p.n)
      BY <2>1, <1>1, <1>6 DEF ReaderInv, MailPull
    <3>2. CASE Missing(r, n)
      BY <3>1, <3>2, <2>1, <1>1, <1>2 DEF ReaderInv, MailLate
    <3>3. CASE Arrived(r, n)' /\ ~Arrived(r, n)
      BY <3>1, <3>3, <1>2
    <3> QED
      BY <3>2, <3>3, <2>1, <1>9
  <2>2. ASSUME NEW n \in Numbers, NEW m \in Have(r), Missing(r, n)', n < m
        PROVE  \E k \in Have(r) : k > n /\ Late(r, k, n)'
    <3>1. CASE Missing(r, n)
      BY <3>1, <2>2, <1>1, <1>2, <1>8 DEF ReaderInv, MailLate
    <3>2. CASE Arrived(r, n)' /\ ~Arrived(r, n)
      BY <3>2, <2>2, <1>2, <1>8 DEF Numbers
    <3> QED
      BY <3>1, <3>2, <2>2, <1>9
  <2> QED
    BY <2>1, <2>2, <1>5 DEF MailLate
<1> QED
  BY <1>4, <1>7, <1>10 DEF ReaderInv

LEMMA PageClosed ==
  ASSUME NEW d, NEW since, NEW n \in Fresh(d, since), NEW p \in Page(Fresh(d, since)), n < p
  PROVE  n \in Page(Fresh(d, since))
<1> DEFINE S == Fresh(d, since)
           L(k) == {m \in S : m <= k}
<1>1. S \subseteq 1 .. MaxNumber /\ MaxNumber \in Nat /\ p \in S
  BY DoorAssumption DEF Fresh, Numbers, Page
<1>2. IsFiniteSet(S)
  <2>1. IsFiniteSet(1 .. MaxNumber)
    BY <1>1, FS_Interval, 1 \in Int
  <2> QED
    BY <1>1, <2>1, FS_Subset
<1>3. L(n) \subseteq L(p) /\ L(p) \subseteq S
  BY <1>1
<1>4. IsFiniteSet(L(p))
  BY <1>2, <1>3, FS_Subset
<1>5. Cardinality(L(n)) <= Cardinality(L(p)) /\ Cardinality(L(n)) \in Nat /\ Cardinality(L(p)) \in Nat
  <2> HIDE DEF L
  <2>1. IsFiniteSet(L(n))
    BY <1>3, <1>4, FS_Subset
  <2> QED
    BY <2>1, <1>3, <1>4, FS_Subset, FS_CardinalityType
<1>6. Cardinality(L(p)) <= PageSize /\ PageSize \in Nat
  BY DoorAssumption DEF Page
<1> HIDE DEF S
<1>7. Cardinality(L(n)) <= PageSize
  BY <1>5, <1>6
<1> QED
  BY <1>7 DEF Page, S

LEMMA LatestType ==
  ASSUME NEW r
  PROVE  Latest(r) \in Nat /\ (Latest(r) = 0 \/ Latest(r) \in Have(r))
         /\ \A m \in Have(r) : m <= Latest(r)
<1>1. CASE Have(r) = {}
  BY <1>1 DEF Latest
<1>2. CASE Have(r) # {}
  <2>1. MaxNumber \in Nat /\ Have(r) \in SUBSET (0 .. MaxNumber)
    BY DoorAssumption DEF Have, Numbers
  <2>2. \E n \in Have(r) : \A m \in Have(r) : m <= n
    BY <1>2, <2>1, HighestExists
  <2>3. Latest(r) = CHOOSE n \in Have(r) : \A m \in Have(r) : m <= n
    BY <1>2 DEF Latest
  <2>4. Latest(r) \in Have(r) /\ \A m \in Have(r) : m <= Latest(r)
    BY <2>2, <2>3
  <2> QED
    BY <2>1, <2>4
<1> QED
  BY <1>1, <1>2

DoorStands == door' = door /\ order' = order

LEMMA StandsSame ==
  ASSUME DoorStands, NEW r \in Reader, NEW n
  PROVE  /\ Arrived(r, n)' = Arrived(r, n) /\ Shown(r, n)' = Shown(r, n)
         /\ \A m : Late(r, m, n)' = Late(r, m, n)
         /\ \A f : OfShown(f, r, n)' = OfShown(f, r, n) /\ HasAll(f, r, n)' = HasAll(f, r, n)
BY DEF DoorStands, Arrived, Shown, Late, Before, OfShown, HasAll

\* A step that writes nothing: the pull stands elsewhere.
LEMMA PullMoves ==
  ASSUME DoorStands, NEW r \in Reader, ReaderInv(r),
         mailbox'[r] = mailbox[r], \A n : <<r, n>> \in lost' <=> <<r, n>> \in lost,
         NEW e, e = pulling'[r],
         e # Nothing =>
           /\ \A p \in e.quads : Arrived(r, p.n) /\ p.quad = Shown(r, p.n) /\ p.n > e.since
           /\ e.since = 0 \/ e.since \in Have(r)
           /\ e.pc \notin {"ask", "next"} =>
                e.quads # {} /\ Underway(e, mailbox[r][LowestOf(e.quads).n], LowestOf(e.quads).quad)
           /\ \A p \in e.quads, n \in Numbers :
                Missing(r, n) /\ n > e.since /\ n < p.n /\ (\A q \in e.quads : q.n # n) => Late(r, p.n, n)
  PROVE  ReaderInv(r)'
<1>1. Have(r)' = Have(r)
  BY DEF Have
<1>2. \A n : Missing(r, n)' = Missing(r, n)
  BY <1>1 DEF Missing, Fresh, DoorStands
<1>3. MailFiles(r)'
  BY StandsSame DEF ReaderInv, MailFiles
<1>4. MailPull(r)'
  BY <1>1, StandsSame DEF MailPull
<1>5. MailLate(r)'
  BY <1>1, <1>2, StandsSame DEF MailLate, ReaderInv
<1> QED
  BY <1>3, <1>4, <1>5 DEF ReaderInv

LEMMA ReadPullStart ==
  ASSUME NEW r \in Reader, MailInv, ReaderInv(r), NEW since \in {0, Latest(r)}, PullStart(r, since)
  PROVE  pulling' \in [Reader -> PullSet] /\ ReaderInv(r)'
<1>1. PICK e : e = [pc |-> "ask", since |-> since, quads |-> {}, more |-> FALSE]
  OBVIOUS
<1>2. since \in Nat /\ (since = 0 \/ since \in Have(r))
  BY LatestType
<1>3. e.pc = "ask" /\ e.since = since /\ e.quads = {} /\ e \in PullSet
  BY <1>1, <1>2 DEF PullSet
<1>4. pulling' = [pulling EXCEPT ![r] = e] /\ mailbox' = mailbox /\ lost' = lost /\ DoorStands
  BY <1>1 DEF PullStart, DoorStands
<1>5. pulling' \in [Reader -> PullSet] /\ pulling'[r] = e
  BY <1>3, <1>4 DEF MailInv
<1> QED
  BY <1>2, <1>3, <1>4, <1>5, PullMoves

LEMMA ReadPullPage ==
  ASSUME NEW r \in Reader, DoorInv, MailInv, ReaderInv(r), PullPage(r)
  PROVE  pulling' \in [Reader -> PullSet] /\ ReaderInv(r)'
<1> DEFINE o == pulling[r]
           d == ReadsAt[r]
           S == Page(Fresh(d, o.since))
           Q == {[n |-> n, quad |-> Quad(door[d][n])] : n \in S}
           more == S # Fresh(d, o.since)
<1>1. o # Nothing /\ o \in PullSet /\ o.pc = "ask"
  <2>1. o.pc = "ask" /\ o \in PullSet
    BY DEF PullPage, MailInv
  <2> QED
    BY <2>1 DEF Nothing
<1>3. mailbox' = mailbox /\ lost' = lost /\ DoorStands
  BY DEF PullPage, DoorStands
<1>4. Answered(d, o.since).quads = Q /\ Answered(d, o.since).more = more
  BY DEF Answered
<1>5. pulling' = [pulling EXCEPT ![r].pc = "next", ![r].quads = Q, ![r].more = more]
  BY <1>4 DEF PullPage
<1>6. S \subseteq Numbers /\ \A n \in S : Arrived(r, n) /\ n > o.since
  BY DEF Page, Fresh, Arrived
<1>7. Q \subseteq [n : Numbers, quad : QuadSet]
  BY <1>6, ShownIsQuad DEF Shown
<1>8. \A p \in Q : p.n \in S /\ p.quad = Shown(r, p.n)
  BY DEF Shown
<1>9. \A n \in S : \E p \in Q : p.n = n
  <2> TAKE n \in S
  <2>1. [n |-> n, quad |-> Quad(door[d][n])] \in Q
    OBVIOUS
  <2>2. [n |-> n, quad |-> Quad(door[d][n])].n = n
    OBVIOUS
  <2> QED
    BY <2>1, <2>2
<1>10. more \in BOOLEAN
  BY Zenon
<1>11. \A p \in Q, n \in Numbers : Missing(r, n) /\ n > o.since /\ n < p.n => n \in S
  BY <1>8, PageClosed DEF Missing, Fresh
<1> HIDE DEF Q, S, more
<1>12. PICK e : e = [o EXCEPT !.pc = "next", !.quads = Q, !.more = more]
  OBVIOUS
<1>13. pulling' = [pulling EXCEPT ![r] = e]
  BY <1>5, <1>12
<1> HIDE DEF o
<1>14. e.pc = "next" /\ e.since = o.since /\ e.quads = Q /\ e \in PullSet
  BY <1>1, <1>7, <1>10, <1>12 DEF PullSet
<1>16. pulling' \in [Reader -> PullSet] /\ pulling'[r] = e
  BY <1>13, <1>14 DEF MailInv
<1>17. o.since = 0 \/ o.since \in Have(r)
  BY <1>1 DEF o, ReaderInv, MailPull
<1> QED
  BY <1>3, <1>6, <1>8, <1>9, <1>11, <1>14, <1>16, <1>17, PullMoves

\* A step that writes the files of the letter that the pull is at.
LEMMA PullWrites ==
  ASSUME MailInv, DoorStands, NEW r \in Reader, ReaderInv(r),
         pulling[r] # Nothing, pulling[r].quads # {},
         NEW p, p = LowestOf(pulling[r].quads),
         NEW g \in FileSet, mailbox' = [mailbox EXCEPT ![r][p.n] = g],
         NEW e, e = pulling'[r], e # Nothing, e.quads = pulling[r].quads, e.since = pulling[r].since,
         e.pc \notin {"ask", "next"}, Underway(e, g, p.quad),
         OfShown(g, r, p.n), g.env # NoFile /\ <<r, p.n>> \notin lost' => HasAll(g, r, p.n),
         mailbox[r][p.n].env # NoFile => g.env # NoFile,
         \A n : n # p.n => (<<r, n>> \in lost' <=> <<r, n>> \in lost)
  PROVE  mailbox' \in [Reader -> [Numbers -> FileSet]] /\ ReaderInv(r)'
<1> DEFINE Q == pulling[r].quads
<1>1. Q \subseteq [n : Numbers, quad : QuadSet] /\ pulling[r].since \in Nat
  BY DEF MailInv, PullSet
<1>2. p \in Q /\ p.n \in Numbers /\ \A q \in Q : p.n <= q.n
  BY <1>1, LowestIsThere
<1>3. /\ mailbox' \in [Reader -> [Numbers -> FileSet]]
      /\ mailbox'[r][p.n] = g
      /\ \A n \in Numbers : n # p.n => mailbox'[r][n] = mailbox[r][n]
  BY <1>2 DEF MailInv
<1>4. Have(r) \subseteq Have(r)' /\ Have(r)' \subseteq Have(r) \cup {p.n}
  BY <1>2, <1>3 DEF Have
<1>5. MailFiles(r)'
  <2> SUFFICES ASSUME NEW n \in Numbers
               PROVE  /\ mailbox'[r][n] = Files \/ OfShown(mailbox'[r][n], r, n)
                      /\ mailbox'[r][n].env # NoFile /\ <<r, n>> \notin lost' => HasAll(mailbox'[r][n], r, n)
    BY StandsSame DEF MailFiles
  <2>1. CASE n = p.n
    BY <2>1, <1>3
  <2>2. CASE n # p.n
    BY <2>2, <1>3 DEF ReaderInv, MailFiles
  <2> QED
    BY <2>1, <2>2
<1>6. MailPull(r)'
  <2>1. \A q \in Q : Arrived(r, q.n)' /\ q.quad = Shown(r, q.n)' /\ q.n > pulling[r].since
    BY StandsSame DEF ReaderInv, MailPull
  <2>2. pulling[r].since = 0 \/ pulling[r].since \in Have(r)'
    BY <1>4 DEF ReaderInv, MailPull
  <2>3. Underway(e, mailbox'[r][LowestOf(e.quads).n], LowestOf(e.quads).quad)
    BY <1>3
  <2> QED
    BY <2>1, <2>2, <2>3 DEF MailPull
<1>7. \A n \in Numbers : Missing(r, n)' => Missing(r, n)
  BY <1>4 DEF Missing, Fresh, DoorStands
<1>8. MailLate(r)'
  <2>1. ASSUME NEW q \in Q, NEW n \in Numbers,
               Missing(r, n)', n > pulling[r].since, n < q.n, \A k \in Q : k.n # n
        PROVE  Late(r, q.n, n)'
    BY <2>1, <1>7, StandsSame DEF ReaderInv, MailLate
  <2>2. ASSUME NEW n \in Numbers, NEW m \in Have(r)', Missing(r, n)', n < m
        PROVE  \E k \in Have(r)' : k > n /\ Late(r, k, n)'
    <3>1. ASSUME NEW k \in Have(r), n < k
          PROVE  \E j \in Have(r)' : j > n /\ Late(r, j, n)'
      <4>1. PICK j \in Have(r) : j > n /\ Late(r, j, n)
        BY <3>1, <2>2, <1>7 DEF ReaderInv, MailLate
      <4> QED
        BY <4>1, <1>4, StandsSame
    <3>2. CASE m \in Have(r)
      BY <3>1, <3>2, <2>2
    <3>3. CASE m = p.n /\ n > pulling[r].since
      <4>1. \A k \in Q : k.n # n
        BY <3>3, <2>2, <1>1, <1>2 DEF Numbers
      <4>2. Late(r, p.n, n)'
        BY <4>1, <3>3, <2>1, <2>2, <1>2
      <4> QED
        BY <4>2, <3>3, <2>2
    <3>4. CASE m = p.n /\ ~(n > pulling[r].since)
      <4>1. pulling[r].since = 0 \/ pulling[r].since \in Have(r)
        BY DEF ReaderInv, MailPull
      <4>2. n # 0 /\ n \in Nat
        BY DEF Numbers
      <4>3. n \notin Have(r)
        BY <2>2, <1>7 DEF Missing
      <4>4. pulling[r].since \in Have(r) /\ n < pulling[r].since
        BY <4>1, <4>2, <4>3, <3>4, <1>1
      <4> QED
        BY <4>4, <3>1
    <3> QED
      BY <3>2, <3>3, <3>4, <2>2, <1>4
  <2> QED
    BY <2>1, <2>2 DEF MailLate
<1> QED
  BY <1>3, <1>5, <1>6, <1>8 DEF ReaderInv

\* What a pull that is at a letter knows of it.
LEMMA PullAt ==
  ASSUME DoorInv, MailInv, NEW r \in Reader, ReaderInv(r), pulling[r] # Nothing, pulling[r].quads # {},
         NEW p, p = This(r), NEW f, f = mailbox[r][p.n], NEW q, q = p.quad
  PROVE  /\ p = LowestOf(pulling[r].quads) /\ p.n \in Numbers /\ q \in QuadSet /\ f \in FileSet
         /\ Arrived(r, p.n) /\ q = Shown(r, p.n)
         /\ f = Files \/ OfShown(f, r, p.n)
         /\ f.env # NoFile => OfShown(f, r, p.n)
         /\ f.bodies \subseteq BodiesOf(q) /\ f.sig \in {NoFile, q.sig}
         /\ f.env # NoFile /\ <<r, p.n>> \notin lost => HasAll(f, r, p.n)
         /\ pulling[r].pc \notin {"ask", "next"} => Underway(pulling[r], f, q)
<1>1. p = LowestOf(pulling[r].quads)
  BY DEF This, LowestOf
<1>2. pulling[r].quads \subseteq [n : Numbers, quad : QuadSet]
  BY DEF MailInv, PullSet
<1>3. p \in pulling[r].quads /\ p.n \in Numbers /\ q \in QuadSet
  BY <1>1, <1>2, LowestIsThere
<1>4. f \in FileSet
  BY <1>3 DEF MailInv
<1>5. Arrived(r, p.n) /\ q = Shown(r, p.n)
  BY <1>3 DEF ReaderInv, MailPull
<1>6. /\ f = Files \/ OfShown(f, r, p.n)
      /\ f.env # NoFile /\ <<r, p.n>> \notin lost => HasAll(f, r, p.n)
  BY <1>3 DEF ReaderInv, MailFiles
<1>7. f.env # NoFile => OfShown(f, r, p.n)
  BY <1>6 DEF Files
<1>8. f.bodies \subseteq BodiesOf(q) /\ f.sig \in {NoFile, q.sig}
  BY <1>5, <1>6 DEF Files, OfShown
<1>9. pulling[r].pc \notin {"ask", "next"} => Underway(pulling[r], f, q)
  BY <1>1 DEF ReaderInv, MailPull
<1> QED
  BY <1>1, <1>3, <1>4, <1>5, <1>6, <1>7, <1>8, <1>9

\* A pull that only goes on to another step.
LEMMA PullOfPc ==
  ASSUME MailInv, NEW r \in Reader, pulling[r] # Nothing,
         NEW pc \in {"ask", "next", "sig", "body", "env", "repair", "end"}, PullGoes(r, pc)
  PROVE  /\ pulling' \in [Reader -> PullSet]
         /\ pulling'[r] # Nothing /\ pulling'[r].pc = pc
         /\ pulling'[r].quads = pulling[r].quads /\ pulling'[r].since = pulling[r].since
<1>1. pulling[r] \in PullSet
  BY DEF MailInv
<1>2. PICK e : e = [pulling[r] EXCEPT !.pc = pc]
  OBVIOUS
<1>3. e \in PullSet /\ e.pc = pc /\ e.quads = pulling[r].quads /\ e.since = pulling[r].since
  BY <1>1, <1>2 DEF PullSet
<1>4. e # Nothing
  BY <1>3 DEF Nothing
<1>5. pulling' = [pulling EXCEPT ![r] = e]
  BY <1>2 DEF PullGoes
<1> QED
  BY <1>3, <1>4, <1>5 DEF MailInv

\* The same, when nothing is written.
LEMMA PullWaits ==
  ASSUME MailInv, DoorStands, NEW r \in Reader, ReaderInv(r), pulling[r] # Nothing, pulling[r].quads # {},
         mailbox' = mailbox, lost' = lost, NEW p, p = LowestOf(pulling[r].quads),
         NEW pc \in {"sig", "repair", "end"}, PullGoes(r, pc),
         pc = "sig" => mailbox[r][p.n].env = NoFile,
         pc # "sig" => mailbox[r][p.n].env # NoFile
  PROVE  pulling' \in [Reader -> PullSet] /\ ReaderInv(r)'
<1>1. /\ pulling' \in [Reader -> PullSet]
      /\ pulling'[r] # Nothing /\ pulling'[r].pc = pc
      /\ pulling'[r].quads = pulling[r].quads /\ pulling'[r].since = pulling[r].since
  BY PullOfPc
<1>2. PICK e : e = pulling'[r]
  OBVIOUS
<1>3. Underway(e, mailbox[r][p.n], p.quad)
  BY <1>1, <1>2 DEF Underway
<1>4. /\ \A k \in e.quads : Arrived(r, k.n) /\ k.quad = Shown(r, k.n) /\ k.n > e.since
      /\ e.since = 0 \/ e.since \in Have(r)
      /\ \A k \in e.quads, n \in Numbers :
           Missing(r, n) /\ n > e.since /\ n < k.n /\ (\A q \in e.quads : q.n # n) => Late(r, k.n, n)
  BY <1>1, <1>2 DEF ReaderInv, MailPull, MailLate
<1>5. e.quads # {} /\ Underway(e, mailbox[r][LowestOf(e.quads).n], LowestOf(e.quads).quad)
  BY <1>1, <1>2, <1>3
<1> QED
  BY <1>1, <1>2, <1>4, <1>5, PullMoves

LEMMA PullOver ==
  ASSUME MailInv, DoorStands, NEW r \in Reader, ReaderInv(r),
         mailbox' = mailbox, \A n : <<r, n>> \in lost' <=> <<r, n>> \in lost,
         pulling' = [pulling EXCEPT ![r] = Nothing]
  PROVE  pulling' \in [Reader -> PullSet] /\ ReaderInv(r)'
<1>1. Nothing \in PullSet
  BY DEF PullSet
<1>2. pulling' \in [Reader -> PullSet] /\ pulling'[r] = Nothing
  BY <1>1 DEF MailInv
<1> QED
  BY <1>2, PullMoves

LEMMA ReadPullQuad ==
  ASSUME NEW r \in Reader, DoorInv, MailInv, ReaderInv(r), PullQuad(r)
  PROVE  pulling' \in [Reader -> PullSet] /\ ReaderInv(r)'
<1>1. pulling[r] # Nothing /\ pulling[r].quads # {}
  BY DEF PullQuad, Nothing
<1>2. PICK p, f, q : p = This(r) /\ f = mailbox[r][p.n] /\ q = p.quad
  OBVIOUS
<1>3. p = LowestOf(pulling[r].quads)
  BY <1>1, <1>2, PullAt
<1>4. DoorStands /\ mailbox' = mailbox /\ lost' = lost
  BY DEF PullQuad, DoorStands
<1>5. \/ f.env = NoFile /\ PullGoes(r, "sig")
      \/ f.env # NoFile /\ PullGoes(r, "end")
      \/ f.env # NoFile /\ PullGoes(r, "repair")
      \/ pulling' = [pulling EXCEPT ![r] = Nothing]
  BY <1>2 DEF PullQuad, Local
<1> QED
  BY <1>1, <1>2, <1>3, <1>4, <1>5, PullWaits, PullOver

LEMMA ReadPullWrite ==
  ASSUME NEW r \in Reader, DoorInv, MailInv, ReaderInv(r), PullWrite(r)
  PROVE  /\ mailbox' \in [Reader -> [Numbers -> FileSet]]
         /\ pulling' \in [Reader -> PullSet] /\ ReaderInv(r)'
<1>1. pulling[r].pc \in {"sig", "body", "env"}
  BY DEF PullWrite, WriteOrder, EnvelopeLast
<1>2. pulling[r] # Nothing /\ pulling[r].quads # {}
  BY <1>1 DEF Nothing, ReaderInv, MailPull
<1>3. PICK p, f, q : p = This(r) /\ f = mailbox[r][p.n] /\ q = p.quad
  OBVIOUS
<1>4. /\ p = LowestOf(pulling[r].quads) /\ p.n \in Numbers /\ q \in QuadSet /\ f \in FileSet
      /\ Arrived(r, p.n) /\ q = Shown(r, p.n)
      /\ f.bodies \subseteq BodiesOf(q) /\ f.sig \in {NoFile, q.sig}
      /\ Underway(pulling[r], f, q)
  BY <1>1, <1>2, <1>3, PullAt
<1>5. f.env = NoFile
  BY <1>1, <1>4 DEF Underway
<1>6. DoorStands /\ lost' = lost
  BY DEF PullWrite, DoorStands
<1>7. /\ WithSig(f, q) \in FileSet /\ WithBody(f, q) \in FileSet /\ WithEnv(f, q) \in FileSet
      /\ WithSig(f, q) = [sig |-> q.sig, bodies |-> f.bodies, env |-> f.env]
      /\ WithBody(f, q).sig = f.sig /\ WithBody(f, q).env = f.env
      /\ WithBody(f, q).bodies = BodiesOf(q)
      /\ WithEnv(f, q) = [sig |-> f.sig, bodies |-> f.bodies, env |-> q.env]
  BY <1>4, FilesAfter
<1>8. q.env # NoFile /\ q.sig # NoFile
  BY <1>4, WholeParts
<1>9. PICK g \in FileSet, pc \in {"body", "env", "end"} :
        /\ mailbox' = [mailbox EXCEPT ![r][p.n] = g] /\ PullGoes(r, pc)
        /\ g.sig = q.sig /\ g.bodies \subseteq BodiesOf(q)
        /\ pc # "body" => g.bodies = BodiesOf(q)
        /\ pc # "end" => g.env = NoFile
        /\ pc = "end" => g.env = q.env
  <2>1. CASE pulling[r].pc = "sig"
    <3>1. mailbox' = [mailbox EXCEPT ![r][p.n] = WithSig(f, q)] /\ PullGoes(r, "body")
      BY <1>3, <2>1 DEF PullWrite, WriteOrder, EnvelopeLast, Written, Local
    <3>2. WithSig(f, q).sig = q.sig /\ WithSig(f, q).bodies = f.bodies /\ WithSig(f, q).env = NoFile
      BY <1>5, <1>7
    <3> QED
      BY <3>1, <3>2, <1>4, <1>7
  <2>2. CASE pulling[r].pc = "body"
    <3>1. mailbox' = [mailbox EXCEPT ![r][p.n] = WithBody(f, q)] /\ PullGoes(r, "env")
      BY <1>3, <2>2 DEF PullWrite, WriteOrder, EnvelopeLast, Written, Local
    <3>2. f.sig = q.sig
      BY <2>2, <1>4 DEF Underway
    <3> QED
      BY <3>1, <3>2, <1>5, <1>7
  <2>3. CASE pulling[r].pc = "env"
    <3>1. mailbox' = [mailbox EXCEPT ![r][p.n] = WithEnv(f, q)] /\ PullGoes(r, "end")
      BY <1>3, <2>3 DEF PullWrite, WriteOrder, EnvelopeLast, Written, Local
    <3>2. f.sig = q.sig /\ f.bodies = BodiesOf(q)
      BY <2>3, <1>4 DEF Underway
    <3>3. WithEnv(f, q).sig = q.sig /\ WithEnv(f, q).bodies = BodiesOf(q) /\ WithEnv(f, q).env = q.env
      BY <3>2, <1>7
    <3> QED
      BY <3>1, <3>3, <1>7
  <2> QED
    BY <1>1, <2>1, <2>2, <2>3
<1>10. /\ pulling' \in [Reader -> PullSet]
       /\ pulling'[r] # Nothing /\ pulling'[r].pc = pc
       /\ pulling'[r].quads = pulling[r].quads /\ pulling'[r].since = pulling[r].since
  BY <1>2, <1>9, PullOfPc
<1>11. PICK e : e = pulling'[r]
  OBVIOUS
<1>12. Underway(e, g, p.quad)
  BY <1>3, <1>8, <1>9, <1>10, <1>11 DEF Underway
<1>13. OfShown(g, r, p.n)
  BY <1>4, <1>9 DEF OfShown
<1>14. g.env # NoFile => HasAll(g, r, p.n)
  BY <1>4, <1>9 DEF HasAll
<1> QED
  BY <1>2, <1>3, <1>4, <1>5, <1>6, <1>9, <1>10, <1>11, <1>12, <1>13, <1>14, PullWrites

LEMMA ReadRepair ==
  ASSUME NEW r \in Reader, DoorInv, MailInv, ReaderInv(r), Repair(r)
  PROVE  /\ mailbox' \in [Reader -> [Numbers -> FileSet]]
         /\ pulling' \in [Reader -> PullSet] /\ ReaderInv(r)'
<1>1. pulling[r].pc = "repair"
  BY DEF Repair
<1>2. pulling[r] # Nothing /\ pulling[r].quads # {}
  BY <1>1 DEF Nothing, ReaderInv, MailPull
<1>3. PICK p, f, q : p = This(r) /\ f = mailbox[r][p.n] /\ q = p.quad
  OBVIOUS
<1>4. /\ p = LowestOf(pulling[r].quads) /\ p.n \in Numbers /\ q \in QuadSet /\ f \in FileSet
      /\ Arrived(r, p.n) /\ q = Shown(r, p.n)
      /\ f.env # NoFile => OfShown(f, r, p.n)
      /\ f.bodies \subseteq BodiesOf(q) /\ f.sig \in {NoFile, q.sig}
      /\ f.env # NoFile /\ <<r, p.n>> \notin lost => HasAll(f, r, p.n)
      /\ Underway(pulling[r], f, q)
  BY <1>1, <1>2, <1>3, PullAt
<1>5. f.env # NoFile
  BY <1>1, <1>4 DEF Underway
<1>6. DoorStands
  BY DEF Repair, DoorStands
<1>7. /\ WithSig(f, q) \in FileSet /\ WithBody(f, q) \in FileSet
      /\ WithSig(f, q) = [sig |-> q.sig, bodies |-> f.bodies, env |-> f.env]
      /\ WithBody(f, q).sig = f.sig /\ WithBody(f, q).env = f.env
      /\ WithBody(f, q).bodies = BodiesOf(q)
  BY <1>4, FilesAfter
<1>8. q.env # NoFile /\ q.sig # NoFile
  BY <1>4, WholeParts
<1>9. CASE f.sig = NoFile
  <2>1. /\ mailbox' = [mailbox EXCEPT ![r][p.n] = WithSig(f, q)] /\ UNCHANGED <<pulling, lost>>
    BY <1>3, <1>9 DEF Repair, Written, Local
  <2>2. PICK g \in FileSet : g = WithSig(f, q)
    BY <1>7
  <2>3. g.sig = q.sig /\ g.bodies = f.bodies /\ g.env = f.env
    BY <2>2, <1>7
  <2>4. OfShown(g, r, p.n)
    BY <2>3, <1>4, <1>5 DEF OfShown
  <2>5. <<r, p.n>> \in lost
    BY <1>4, <1>5, <1>8, <1>9 DEF HasAll
  <2>6. PICK e : e = pulling'[r]
    OBVIOUS
  <2>7. e = pulling[r] /\ Underway(e, g, p.quad)
    BY <2>1, <2>3, <2>6, <1>1, <1>5 DEF Underway
  <2>8. mailbox' = [mailbox EXCEPT ![r][p.n] = g]
    BY <2>1, <2>2
  <2>9. lost' = lost /\ pulling' = pulling /\ e.pc = "repair" /\ g.env # NoFile
    BY <2>1, <2>3, <2>7, <1>1, <1>5
  <2>10. mailbox' \in [Reader -> [Numbers -> FileSet]] /\ ReaderInv(r)'
    BY <1>2, <1>3, <1>4, <1>6, <2>4, <2>5, <2>6, <2>7, <2>8, <2>9, PullWrites
  <2> QED
    BY <2>9, <2>10 DEF MailInv
<1>10. CASE f.sig # NoFile
  <2>1. /\ mailbox' = [mailbox EXCEPT ![r][p.n] = WithBody(f, q)] /\ PullGoes(r, "end")
        /\ lost' = lost \ {<<r, p.n>>}
    BY <1>3, <1>10 DEF Repair, Written, Local
  <2>2. PICK g \in FileSet : g = WithBody(f, q)
    BY <1>7
  <2>3. g.sig = q.sig /\ g.bodies = BodiesOf(q) /\ g.env = f.env
    BY <2>2, <1>4, <1>7, <1>10
  <2>4. OfShown(g, r, p.n) /\ HasAll(g, r, p.n)
    BY <2>3, <1>4, <1>5 DEF OfShown, HasAll
  <2>5. /\ pulling' \in [Reader -> PullSet]
        /\ pulling'[r] # Nothing /\ pulling'[r].pc = "end"
        /\ pulling'[r].quads = pulling[r].quads /\ pulling'[r].since = pulling[r].since
    BY <2>1, <1>2, PullOfPc
  <2>6. PICK e : e = pulling'[r]
    OBVIOUS
  <2>7. Underway(e, g, p.quad)
    BY <2>3, <2>5, <2>6, <1>5 DEF Underway
  <2>8. mailbox' = [mailbox EXCEPT ![r][p.n] = g]
    BY <2>1, <2>2
  <2>9. \A n : n # p.n => (<<r, n>> \in lost' <=> <<r, n>> \in lost)
    BY <2>1
  <2>10. mailbox[r][p.n].env # NoFile => g.env # NoFile
    BY <2>3, <1>5
  <2> QED
    BY <1>2, <1>3, <1>4, <1>6, <2>4, <2>5, <2>6, <2>7, <2>8, <2>9, <2>10, PullWrites
<1> QED
  BY <1>9, <1>10

LEMMA ReadPullOn ==
  ASSUME NEW r \in Reader, DoorInv, MailInv, ReaderInv(r), PullOn(r)
  PROVE  pulling' \in [Reader -> PullSet] /\ ReaderInv(r)'
<1> DEFINE o == pulling[r]
<1>1. o # Nothing /\ o \in PullSet /\ mailbox' = mailbox /\ lost' = lost /\ DoorStands
  <2>1. o.pc \in {"end", "next"} /\ mailbox' = mailbox /\ lost' = lost /\ DoorStands
    BY DEF PullOn, DoorStands
  <2> QED
    BY <2>1 DEF Nothing, MailInv
<1>2. o \in [pc : {"ask", "next", "sig", "body", "env", "repair", "end"}, since : Nat,
             quads : SUBSET [n : Numbers, quad : QuadSet], more : BOOLEAN]
  BY <1>1 DEF PullSet
<1>3. /\ \A k \in o.quads : Arrived(r, k.n) /\ k.quad = Shown(r, k.n) /\ k.n > o.since
      /\ o.since = 0 \/ o.since \in Have(r)
      /\ \A k \in o.quads, n \in Numbers :
           Missing(r, n) /\ n > o.since /\ n < k.n /\ (\A q \in o.quads : q.n # n) => Late(r, k.n, n)
  BY <1>1 DEF ReaderInv, MailPull, MailLate
<1>4. CASE o.pc = "end"
  <2>1. o.quads # {}
    BY <1>1, <1>4 DEF ReaderInv, MailPull
  <2>2. PICK p : p = This(r)
    OBVIOUS
  <2>3. p = LowestOf(o.quads) /\ p.n \in Numbers /\ Underway(o, mailbox[r][p.n], p.quad)
    BY <1>1, <1>4, <2>1, <2>2, PullAt
  <2>4. p \in o.quads /\ \A q \in o.quads : p.n <= q.n
    BY <1>2, <2>1, <2>3, LowestIsThere
  <2>5. p.n \in Have(r)
    BY <1>4, <2>3 DEF Underway, Have
  <2>6. pulling' = [pulling EXCEPT ![r].pc = "next", ![r].since = p.n, ![r].quads = o.quads \ {p}]
    BY <1>4, <2>2 DEF PullOn
  <2>7. PICK e : e = [o EXCEPT !.pc = "next", !.since = p.n, !.quads = o.quads \ {p}]
    OBVIOUS
  <2>8. pulling' = [pulling EXCEPT ![r] = e]
    BY <2>6, <2>7
  <2>9. p.n \in Nat
    BY <2>3 DEF Numbers
  <2>10. \A k \in o.quads : k.n \in Numbers
    BY <1>2
  <2>11. e \in PullSet /\ e.pc = "next" /\ e.since = p.n /\ e.quads = o.quads \ {p}
    <3> HIDE DEF o
    <3> QED
      BY <1>2, <2>7, <2>9 DEF PullSet
  <2>12. \A k \in o.quads : k.n = p.n => k = p
    <3> TAKE k \in o.quads
    <3> HAVE k.n = p.n
    <3>1. k.quad = p.quad
      BY <1>3, <2>4
    <3>2. k = [n |-> k.n, quad |-> k.quad] /\ p = [n |-> p.n, quad |-> p.quad]
      BY <1>2, <2>4
    <3> QED
      BY <3>1, <3>2
  <2>13. \A k \in e.quads : Arrived(r, k.n) /\ k.quad = Shown(r, k.n) /\ k.n > e.since
    BY <1>3, <2>4, <2>9, <2>10, <2>11, <2>12 DEF Numbers
  <2>14. \A k \in e.quads, n \in Numbers :
           Missing(r, n) /\ n > e.since /\ n < k.n /\ (\A q \in e.quads : q.n # n) => Late(r, k.n, n)
    <3> TAKE k \in e.quads, n \in Numbers
    <3> HAVE Missing(r, n) /\ n > e.since /\ n < k.n /\ (\A q \in e.quads : q.n # n)
    <3>1. n > o.since
      BY <1>2, <1>3, <2>4, <2>9, <2>11 DEF Numbers
    <3>2. \A q \in o.quads : q.n # n
      BY <2>9, <2>11 DEF Numbers
    <3> QED
      BY <1>3, <2>11, <3>1, <3>2
  <2>15. pulling' \in [Reader -> PullSet] /\ e = pulling'[r]
    BY <2>8, <2>11 DEF MailInv
  <2> QED
    BY <1>1, <2>5, <2>11, <2>13, <2>14, <2>15, PullMoves
<1>5. CASE o.pc = "next" /\ o.quads = {} /\ o.more
  <2>1. PullGoes(r, "ask")
    BY <1>5 DEF PullOn, PullGoes
  <2>2. /\ pulling' \in [Reader -> PullSet]
        /\ pulling'[r] # Nothing /\ pulling'[r].pc = "ask"
        /\ pulling'[r].quads = o.quads /\ pulling'[r].since = o.since
    BY <1>1, <2>1, PullOfPc
  <2>3. PICK e : e = pulling'[r]
    OBVIOUS
  <2> QED
    BY <1>1, <1>3, <1>5, <2>2, <2>3, PullMoves
<1>6. CASE o.pc = "next" /\ o.quads = {} /\ ~o.more
  <2>1. pulling' = [pulling EXCEPT ![r] = Nothing]
    BY <1>6 DEF PullOn
  <2> QED
    BY <1>1, <2>1, PullOver
<1> QED
  BY <1>4, <1>5, <1>6 DEF PullOn

LEMMA ReadFileLost ==
  ASSUME NEW r \in Reader, NEW n \in Numbers, DoorInv, MailInv, ReaderInv(r), FileLost(r, n)
  PROVE  mailbox' \in [Reader -> [Numbers -> FileSet]] /\ ReaderInv(r)'
<1> DEFINE f == mailbox[r][n]
<1>1. DoorStands /\ pulling' = pulling /\ pulling[r] = Nothing /\ lost' = lost \cup {<<r, n>>} /\ f.env # NoFile
  BY DEF FileLost, DoorStands, Complete
<1>2. f = [sig |-> f.sig, bodies |-> f.bodies, env |-> f.env] /\ f \in FileSet
  BY DEF MailInv, FileSet
<1>3. OfShown(f, r, n)
  <2>1. mailbox[r][n] = Files \/ OfShown(mailbox[r][n], r, n)
    BY DEF ReaderInv, MailFiles
  <2> QED
    BY <1>1, <2>1 DEF Files
<1>4. PICK g \in FileSet : /\ mailbox' = [mailbox EXCEPT ![r][n] = g]
                           /\ g.env = f.env /\ g.sig \in {NoFile, f.sig} /\ g.bodies \subseteq f.bodies
  <2>1. \/ mailbox' = [mailbox EXCEPT ![r][n].sig = NoFile]
        \/ mailbox' = [mailbox EXCEPT ![r][n].bodies = {}]
    BY DEF FileLost
  <2>2. \/ mailbox' = [mailbox EXCEPT ![r][n] = [f EXCEPT !.sig = NoFile]]
        \/ mailbox' = [mailbox EXCEPT ![r][n] = [f EXCEPT !.bodies = {}]]
    BY <2>1
  <2> HIDE DEF f
  <2>3. PICK g, h : g = [f EXCEPT !.sig = NoFile] /\ h = [f EXCEPT !.bodies = {}]
    OBVIOUS
  <2>4. g \in FileSet /\ g.env = f.env /\ g.sig = NoFile /\ g.bodies = f.bodies
    BY <1>2, <2>3 DEF FileSet
  <2>5. h \in FileSet /\ h.env = f.env /\ h.sig = f.sig /\ h.bodies = {}
    BY <1>2, <2>3 DEF FileSet
  <2> QED
    BY <2>2, <2>3, <2>4, <2>5
<1>5. /\ mailbox' \in [Reader -> [Numbers -> FileSet]]
      /\ mailbox'[r][n] = g
      /\ \A m \in Numbers : m # n => mailbox'[r][m] = mailbox[r][m]
  BY <1>4 DEF MailInv
<1>6. OfShown(g, r, n)
  BY <1>3, <1>4 DEF OfShown
<1>7. Have(r)' = Have(r)
  BY <1>1, <1>4, <1>5 DEF Have
<1>8. MailFiles(r)'
  <2> SUFFICES ASSUME NEW m \in Numbers
               PROVE  /\ mailbox'[r][m] = Files \/ OfShown(mailbox'[r][m], r, m)
                      /\ mailbox'[r][m].env # NoFile /\ <<r, m>> \notin lost' => HasAll(mailbox'[r][m], r, m)
    BY <1>1, StandsSame DEF MailFiles
  <2>1. CASE m = n
    BY <2>1, <1>1, <1>5, <1>6
  <2>2. CASE m # n
    BY <2>2, <1>1, <1>5 DEF ReaderInv, MailFiles
  <2> QED
    BY <2>1, <2>2
<1>9. \A m : Missing(r, m)' = Missing(r, m)
  BY <1>1, <1>7 DEF Missing, Fresh, DoorStands
<1>10. MailLate(r)'
  BY <1>1, <1>7, <1>9, StandsSame DEF MailLate, ReaderInv
<1>11. MailPull(r)'
  BY <1>1 DEF MailPull
<1> QED
  BY <1>5, <1>8, <1>10, <1>11 DEF ReaderInv

LEMMA MailSteps ==
  ASSUME [DoorNext]_doorAll
  PROVE  UNCHANGED <<mailbox, pulling, lost>> \/ PullNext
<1>1. ASSUME ServerNext PROVE UNCHANGED <<mailbox, pulling, lost>>
  BY <1>1 DEF ServerNext, ServerStarts, ServerStops, Tick, TokensChange, Refused401, Refused429,
     Channels, Index, Refused403, quadVars
<1>2. ASSUME PushNext PROVE UNCHANGED <<mailbox, pulling, lost>>
  BY <1>2 DEF PushNext, Post, PostStep
<1>3. ASSUME ExportNext PROVE UNCHANGED <<mailbox, pulling, lost>>
  BY <1>3 DEF ExportNext, ExportStart, ExportStep, ExportEnds
<1>4. ASSUME UNCHANGED doorAll PROVE UNCHANGED <<mailbox, pulling, lost>>
  BY <1>4 DEF doorAll, doorVars, quadVars
<1> QED
  BY <1>1, <1>2, <1>3, <1>4 DEF DoorNext

LEMMA MailNext ==
  ASSUME DoorInv, MailInv, [DoorNext]_doorAll
  PROVE  MailInv'
<1>1. CASE UNCHANGED <<mailbox, pulling, lost>>
  BY <1>1, MailAside DEF MailInv
<1>2. CASE PullNext
  <2>1. PICK r \in Reader :
          \/ \E since \in {0, Latest(r)} : PullStart(r, since)
          \/ PullPage(r) \/ PullQuad(r) \/ PullWrite(r) \/ Repair(r) \/ PullOn(r) \/ PullEnds(r)
          \/ \E n \in Numbers : FileLost(r, n)
    BY <1>2 DEF PullNext
  <2>2. ReaderInv(r)
    BY DEF MailInv
  <2>3. ASSUME PullEnds(r)
        PROVE  pulling' \in [Reader -> PullSet] /\ ReaderInv(r)'
    BY <2>2, <2>3, PullOver DEF PullEnds, DoorStands
  <2>4. \/ mailbox' = mailbox
        \/ \E n, g : mailbox' = [mailbox EXCEPT ![r][n] = g]
    <3>1. ASSUME PullWrite(r) \/ Repair(r)
          PROVE  \E n, g : mailbox' = [mailbox EXCEPT ![r][n] = g]
      BY <3>1 DEF PullWrite, WriteOrder, EnvelopeLast, Repair, Written
    <3>2. ASSUME NEW n, FileLost(r, n)
          PROVE  \E m, g : mailbox' = [mailbox EXCEPT ![r][m] = g]
      <4>1. \/ mailbox' = [mailbox EXCEPT ![r][n] = [mailbox[r][n] EXCEPT !.sig = NoFile]]
            \/ mailbox' = [mailbox EXCEPT ![r][n] = [mailbox[r][n] EXCEPT !.bodies = {}]]
        BY <3>2 DEF FileLost
      <4> QED
        BY <4>1
    <3> QED
      BY <2>1, <3>1, <3>2 DEF PullStart, PullPage, PullQuad, PullOn, PullEnds
  <2>5. \/ pulling' = pulling
        \/ \E e : pulling' = [pulling EXCEPT ![r] = e]
    BY <2>1 DEF PullStart, PullPage, PullQuad, PullOn, PullEnds, PullWrite, WriteOrder, EnvelopeLast,
       Repair, PullGoes, FileLost
  <2>6. \A s, n : s # r => (<<s, n>> \in lost' <=> <<s, n>> \in lost)
    BY <2>1 DEF PullStart, PullPage, PullQuad, PullOn, PullEnds, PullWrite, Repair, FileLost
  <2>7. \A s \in Reader : s # r => mailbox'[s] = mailbox[s] /\ pulling'[s] = pulling[s]
    BY <2>4, <2>5 DEF MailInv
  <2>8. \A s \in Reader : s # r => ReaderInv(s)'
    BY <2>6, <2>7, MailAside
  <2>9. /\ ReaderInv(r)'
        /\ mailbox' \in [Reader -> [Numbers -> FileSet]] \/ mailbox' = mailbox
        /\ pulling' \in [Reader -> PullSet] \/ pulling' = pulling
    <3>1. ASSUME NEW since \in {0, Latest(r)}, PullStart(r, since)
          PROVE  /\ pulling' \in [Reader -> PullSet] /\ ReaderInv(r)'
                 /\ mailbox' = mailbox
      BY <3>1, <2>2, ReadPullStart DEF PullStart
    <3>2. ASSUME PullPage(r) \/ PullQuad(r) \/ PullOn(r) \/ PullEnds(r)
          PROVE  /\ pulling' \in [Reader -> PullSet] /\ ReaderInv(r)'
                 /\ mailbox' = mailbox
      <4>1. mailbox' = mailbox
        BY <3>2 DEF PullPage, PullQuad, PullOn, PullEnds
      <4> QED
        BY <3>2, <4>1, <2>2, <2>3, ReadPullPage, ReadPullQuad, ReadPullOn
    <3>3. ASSUME PullWrite(r) \/ Repair(r)
          PROVE  /\ mailbox' \in [Reader -> [Numbers -> FileSet]]
                 /\ pulling' \in [Reader -> PullSet] /\ ReaderInv(r)'
      BY <3>3, <2>2, ReadPullWrite, ReadRepair
    <3>4. ASSUME NEW n \in Numbers, FileLost(r, n)
          PROVE  /\ mailbox' \in [Reader -> [Numbers -> FileSet]] /\ ReaderInv(r)'
                 /\ pulling' = pulling
      BY <3>4, <2>2, ReadFileLost DEF FileLost
    <3> QED
      BY <2>1, <3>1, <3>2, <3>3, <3>4
  <2> QED
    BY <2>8, <2>9 DEF MailInv
<1> QED
  BY <1>1, <1>2, MailSteps

-----------------------------------------------------------------------------

\* PulledWhole: what is complete in a mailbox is the quad that the door shows (pull_quads).
LEMMA MailIsWhole ==
  ASSUME DoorInv, MailInv
  PROVE  PulledWhole
<1> SUFFICES ASSUME NEW r \in Reader, NEW n \in Numbers,
                    mailbox[r][n].env # NoFile, <<r, n>> \notin lost
             PROVE  Quad(mailbox[r][n]) = Quad(door[ReadsAt[r]][n])
  BY DEF PulledWhole
<1>1. PICK f, q : f = mailbox[r][n] /\ q = Shown(r, n)
  OBVIOUS
<1>2. /\ f = Files \/ OfShown(f, r, n)
      /\ HasAll(f, r, n)
  BY <1>1 DEF MailInv, ReaderInv, MailFiles
<1>3. OfShown(f, r, n)
  BY <1>1, <1>2 DEF Files
<1>4. q \in QuadSet
  BY <1>1, <1>3, ShownIsQuad DEF OfShown
<1>5. f.env = q.env /\ f.sig = q.sig /\ f.bodies = BodiesOf(q)
  BY <1>1, <1>2, <1>3 DEF OfShown, HasAll
<1>6. q = [env |-> q.env, sig |-> q.sig, body |-> q.body]
  BY <1>4 DEF QuadSet
<1>7. Quad(f) = q
  BY <1>4, <1>5, <1>6, OneBody DEF Quad
<1> QED
  BY <1>1, <1>7 DEF Shown

LEMMA MissedAreLate ==
  ASSUME MailInv
  PROVE  MissedOnlyIfLate
<1> SUFFICES ASSUME NEW r \in Reader, NEW n \in Fresh(ReadsAt[r], 0) \ Have(r), n < Latest(r)
             PROVE  \E m \in Have(r) : m > n /\ Before(ReadsAt[r], m, n)
  BY DEF MissedOnlyIfLate
<1>1. n \in Numbers /\ n > 0 /\ Missing(r, n)
  BY DEF Fresh, Missing
<1>2. Latest(r) \in Have(r)
  BY <1>1, LatestType DEF Numbers
<1> QED
  BY <1>1, <1>2 DEF MailInv, ReaderInv, MailLate, Late

QuadInv == BoxInv /\ DoorInv /\ CutInv /\ MailInv

LEMMA QuadsInv == DoorSpec => []QuadInv
<1>1. DoorInit => QuadInv
  BY BoxInit, DoorFirst, CutFirst, MailFirst DEF QuadInv
<1>2. QuadInv /\ [DoorNext]_doorAll => QuadInv'
  BY BoxNext, DoorNextInv, CutNext, MailNext DEF QuadInv
<1> QED
  BY <1>1, <1>2, PTL DEF DoorSpec, doorAll

\* A complete quad of an outbox is one letter under exports that race and end half-way
\* (export_quad).  What a door has accepted is a letter and stays, whoever posts under its number,
\* and the door shows that letter if no POST of another quad was cut off there (do_POST).  A
\* mailbox has what the door shows, after any crash of a pull (pull_quads).
THEOREM QuadsAlwaysWhole == DoorSpec => []QuadsWhole
<1>1. QuadInv => QuadsWhole
  <2> SUFFICES ASSUME QuadInv PROVE QuadsWhole
    OBVIOUS
  <2>1. AcceptedStays
    BY DEF QuadInv, DoorInv, AcceptedStays, Accepted, Kept
  <2> QED
    BY <2>1, BoxIsWhole, MailIsWhole DEF QuadInv, CutInv, QuadsWhole
<1> QED
  BY <1>1, QuadsInv, PTL

\* What a pull that goes on from its highest number has missed became complete at the door
\* after a higher one that it has (pull_quads, the cursor "since").
THEOREM MissedAlwaysLate == DoorSpec => []MissedOnlyIfLate
<1>1. QuadInv => MissedOnlyIfLate
  BY MissedAreLate DEF QuadInv
<1> QED
  BY <1>1, QuadsInv, PTL

-----------------------------------------------------------------------------
(* The limiter.  The answers that one server gave on a token fall into those of its
   window and those before; k is the number from which on they are of the window.  A
   POST that is under way has been counted and is not answered. *)

Of(A, t, s) == {b \in A : b.token = t /\ b.status \notin {401, 429} /\ b.server = s}
Within1(S, k) == {b \in S : b.no >= k}
Before1(S, k, w) == {b \in S : b.no < k /\ b.at > w.start - Window}
Held(S, w, k, pend, m) ==
  /\ Cardinality(Within1(S, k)) + pend = w.count
  /\ \A b \in S : (b.no >= k => b.at >= w.start) /\ (b.no < k => b.at <= w.start)
  /\ Cardinality(Before1(S, k, w)) <= m
During(S, u) == {b \in S : u <= b.at /\ b.at < u + Window}
Two(S, m) == \A u \in Nat : Cardinality(During(S, u)) <= 2 * m

Stamps(S) == \A b \in S : b.no \in Nat /\ b.at \in Nat

LEMMA HeldOneMore ==
  ASSUME NEW S, IsFiniteSet(S), NEW k \in Nat, NEW w, w.start \in Nat, w.count \in Nat, NEW m \in Nat,
         NEW b, b \notin S, b.no \in Nat, b.at \in Nat, b.no >= k, b.at >= w.start,
         Held(S, w, k, 1, m)
  PROVE  Held(S \cup {b}, w, k, 0, m)
<1>1. Within1(S \cup {b}, k) = Within1(S, k) \cup {b} /\ b \notin Within1(S, k)
  BY DEF Within1
<1>2. IsFiniteSet(Within1(S, k))
  BY FS_Subset DEF Within1
<1>3. Cardinality(Within1(S, k)) \in Nat
        /\ Cardinality(Within1(S, k) \cup {b}) = Cardinality(Within1(S, k)) + 1
  BY <1>1, <1>2, FS_AddElement, FS_CardinalityType
<1>4. Before1(S \cup {b}, k, w) = Before1(S, k, w)
  BY DEF Before1
<1> QED
  BY <1>1, <1>3, <1>4 DEF Held

LEMMA HeldAnew ==
  ASSUME NEW S, IsFiniteSet(S), Stamps(S), NEW k \in Nat, NEW w, w.start \in Nat, w.count \in Nat,
         NEW m \in Nat, w.count <= m, Held(S, w, k, 0, m),
         NEW v, v.start \in Nat, v.count = 0, v.start >= w.start + Window,
         NEW j \in Nat, \A b \in S : b.no < j /\ b.at <= v.start
  PROVE  Held(S, v, j, 0, m)
<1>1. Within1(S, j) = {}
  BY DEF Within1, Stamps
<1>2. Before1(S, j, v) \subseteq Within1(S, k)
  BY DoorAssumption DEF Before1, Within1, Held, Stamps
<1>3. IsFiniteSet(Within1(S, k))
  BY FS_Subset DEF Within1
<1>4. /\ Cardinality(Before1(S, j, v)) \in Nat /\ Cardinality(Within1(S, k)) \in Nat
      /\ Cardinality(Before1(S, j, v)) <= Cardinality(Within1(S, k))
  BY <1>2, <1>3, FS_Subset, FS_CardinalityType
<1>5. Cardinality(Before1(S, j, v)) <= m
  BY <1>4 DEF Held
<1> QED
  BY <1>1, <1>5, FS_EmptySet DEF Held, Stamps

LEMMA TwoOneMore ==
  ASSUME NEW S, IsFiniteSet(S), Stamps(S), NEW k \in Nat, NEW w, w.start \in Nat, w.count \in Nat,
         NEW m \in Nat, w.count <= m, Held(S, w, k, 0, m),
         NEW b \in S, \A c \in S : c.at <= b.at, b.at >= w.start, Two(S \ {b}, m)
  PROVE  Two(S, m)
<1> SUFFICES ASSUME NEW u \in Nat
             PROVE  Cardinality(During(S, u)) <= 2 * m
  BY DEF Two
<1>0. Window \in Nat /\ b.at \in Nat
  BY DoorAssumption DEF Stamps
<1>1. CASE ~(u <= b.at /\ b.at < u + Window)
  <2>1. During(S, u) = During(S \ {b}, u)
    BY <1>1 DEF During
  <2> QED
    BY <2>1 DEF Two
<1>2. CASE u <= b.at /\ b.at < u + Window
  <2>1. During(S, u) \subseteq Within1(S, k) \cup Before1(S, k, w)
    BY <1>0, <1>2 DEF During, Within1, Before1, Stamps
  <2>2. IsFiniteSet(Within1(S, k)) /\ IsFiniteSet(Before1(S, k, w))
    BY FS_Subset DEF Within1, Before1
  <2>3. Within1(S, k) \cap Before1(S, k, w) = {}
    BY DEF Within1, Before1, Stamps
  <2>4. IsFiniteSet(Within1(S, k) \cup Before1(S, k, w))
        /\ Cardinality(Within1(S, k) \cup Before1(S, k, w))
             = Cardinality(Within1(S, k)) + Cardinality(Before1(S, k, w))
    <3>1. Cardinality({}) = 0
      BY FS_EmptySet
    <3>2. Cardinality(Within1(S, k)) \in Nat /\ Cardinality(Before1(S, k, w)) \in Nat
      BY <2>2, FS_CardinalityType
    <3>3. ASSUME NEW X, NEW Y, IsFiniteSet(X), IsFiniteSet(Y), X \cap Y = {},
                 Cardinality(X) \in Nat, Cardinality(Y) \in Nat
          PROVE  IsFiniteSet(X \cup Y) /\ Cardinality(X \cup Y) = Cardinality(X) + Cardinality(Y)
      <4>1. IsFiniteSet(X \cup Y)
              /\ Cardinality(X \cup Y) = Cardinality(X) + Cardinality(Y) - Cardinality(X \cap Y)
        BY <3>3, FS_Union
      <4>2. Cardinality(X \cap Y) = 0
        BY <3>1, <3>3, Zenon
      <4> QED
        BY <4>1, <4>2, <3>3
    <3> QED
      BY <2>2, <2>3, <3>2, <3>3
  <2>5. Cardinality(During(S, u)) <= Cardinality(Within1(S, k) \cup Before1(S, k, w))
        /\ IsFiniteSet(During(S, u))
    BY <2>1, <2>4, FS_Subset
  <2>6. Cardinality(During(S, u)) \in Nat /\ Cardinality(Within1(S, k)) \in Nat
        /\ Cardinality(Before1(S, k, w)) \in Nat
    BY <2>2, <2>5, FS_CardinalityType
  <2>7. Cardinality(Within1(S, k)) <= m /\ Cardinality(Before1(S, k, w)) <= m
    BY <2>6 DEF Held
  <2> HIDE DEF Within1
  <2> QED
    BY <2>4, <2>5, <2>6, <2>7
<1> QED
  BY <1>1, <1>2

LEMMA FinitePart ==
  ASSUME NEW A, IsFiniteSet(A), NEW t, NEW s
  PROVE  IsFiniteSet(Of(A, t, s))
BY FS_Subset DEF Of

Here(t) == Of(answers, t, servers)
Pend(t) == IF posting # Nothing /\ t = MemberToken THEN 1 ELSE 0
Later(a) == {b \in answers : b.token = a.token /\ b.status \notin {401, 429} /\ b.no >= a.no}
Earlier(a) == {b \in Of(answers, a.token, a.server) : b.no < a.no /\ b.at > a.at - Window}

WindowSet == [start : Nat, count : Nat]
StampInv ==
  /\ now \in Nat /\ servers \in Nat /\ perMinute \in Nat
  /\ IsFiniteSet(answers)
  /\ \A a \in answers :
       /\ a.no \in Nat /\ a.no < Cardinality(answers)
       /\ a.at \in Nat /\ a.at <= now
       /\ a.server \in Nat /\ a.server <= servers
       /\ a.again \in Int
WindowInv ==
  /\ windows \in [DOMAIN windows -> WindowSet]
  /\ \A t \in DOMAIN windows : windows[t].start <= now /\ windows[t].count \in 1 .. perMinute
  /\ lines = {} => DOMAIN windows = {} /\ posting = Nothing
  /\ perMinute = 0 => DOMAIN windows = {}
  /\ posting # Nothing /\ perMinute # 0 => MemberToken \in DOMAIN windows
CountInv ==
  /\ \A t \in DOMAIN windows : \E k \in Nat :
       k <= Cardinality(answers) /\ Held(Here(t), windows[t], k, Pend(t), perMinute)
  /\ lines # {} /\ perMinute # 0 => \A t : t \notin DOMAIN windows => Here(t) = {}
  /\ perMinute # 0 => \A t : Two(Here(t), perMinute)
WaitInv ==
  \A a \in answers : a.status = 429 =>
    /\ a.server = servers => Cardinality(Earlier(a)) >= perMinute
    /\ Later(a) = {} /\ (posting = Nothing \/ a.token # MemberToken) =>
         a.token \notin DOMAIN windows \/ windows[a.token].start + Window <= a.again
LimInv == StampInv /\ WindowInv /\ CountInv /\ WaitInv

Answer(t, status) == \E d, n, q : Noted(t, status, d, n, q)
Still == UNCHANGED <<now, servers, perMinute, lines>>
Calm == Still /\ UNCHANGED windows /\ (posting' = Nothing <=> posting = Nothing)

\* What a step is to the limiter.
Turned(t) == Calm /\ Idle /\ ~Within(t) /\ Answer(t, 429)
Unknown(t) == Calm /\ Answer(t, 401)
Served1(t, status) == Still /\ posting' = posting /\ Idle /\ Within(t) /\ Count(t) /\ Answer(t, status)
Taking == /\ Still /\ answers' = answers /\ posting' # Nothing
          /\ Idle /\ Within(MemberToken) /\ Count(MemberToken)
Done == Still /\ UNCHANGED windows /\ posting # Nothing /\ posting' = Nothing /\ Answer(MemberToken, 200)

LEMMA LimSteps ==
  ASSUME [DoorNext]_doorAll, posting \in PostingSet
  PROVE  \/ Calm /\ answers' = answers
         \/ Tick
         \/ \E limit \in Limits : ServerStarts(limit)
         \/ ServerStops
         \/ \E t : Turned(t) \/ Unknown(t)
         \/ \E t : \E status \in {200, 403, 409} : Served1(t, status)
         \/ Taking \/ Done
<1> DEFINE Same == Calm /\ answers' = answers
<1>1. ASSUME UNCHANGED <<posting, lines, perMinute, windows, now, answers, servers>>
      PROVE  Same
  BY <1>1 DEF Calm, Still
<1>2. ASSUME ExportNext PROVE Same
  BY <1>1, <1>2 DEF ExportNext, ExportStart, ExportStep, ExportEnds, accessVars
<1>3. ASSUME UNCHANGED doorAll PROVE Same
  BY <1>1, <1>3 DEF doorAll, doorVars, quadVars, accessVars
<1>4. ASSUME NEW t, NEW status \in {200, 403, 409}, NEW d, NEW n, NEW q,
             Idle, Within(t), Count(t), Noted(t, status, d, n, q),
             UNCHANGED <<posting, lines, now, servers, perMinute>>
      PROVE  \E u : \E s \in {200, 403, 409} : Served1(u, s)
  BY <1>4 DEF Served1, Still, Answer
<1>5. ASSUME NEW t, Refused401(t) PROVE Same \/ Unknown(t)
  <2>1. /\ UNCHANGED <<posting, lines, now, servers, perMinute, windows>>
        /\ answers' = answers \/ Noted(t, 401, NoFile, 0, NoFile)
    BY <1>5 DEF Refused401, quadVars
  <2> QED
    BY <2>1 DEF Unknown, Calm, Still, Answer
<1>6. ASSUME NEW t, Refused429(t) PROVE Turned(t)
  <2>1. /\ UNCHANGED <<posting, lines, now, servers, perMinute, windows>>
        /\ Noted(t, 429, NoFile, 0, NoFile) /\ Idle /\ ~Within(t)
    BY <1>6 DEF Refused429, quadVars
  <2> QED
    BY <2>1 DEF Turned, Calm, Still, Answer
<1>7. ASSUME NEW t, NEW d, NEW axis, Channels(t) \/ Index(t, d) \/ Refused403(t, axis, d)
      PROVE  \E u : \E s \in {200, 403, 409} : Served1(u, s)
  <2>1. CASE Channels(t)
    <3>1. /\ Idle /\ Within(t) /\ Count(t) /\ Noted(t, 200, Visible(t), 0, NoFile)
          /\ UNCHANGED <<posting, lines, now, servers, perMinute>>
      BY <2>1 DEF Channels, quadVars
    <3> QED
      BY <3>1, <1>4
  <2>2. CASE Index(t, d)
    <3>1. /\ Idle /\ Within(t) /\ Count(t)
          /\ Noted(t, 200, d, 0, [n \in Page(Fresh(d, 0)) |-> Quad(door[d][n])])
          /\ UNCHANGED <<posting, lines, now, servers, perMinute>>
      BY <2>2 DEF Index, Authorized, quadVars
    <3> QED
      BY <3>1, <1>4
  <2>3. CASE Refused403(t, axis, d)
    <3>1. /\ Idle /\ Within(t) /\ Count(t) /\ Noted(t, 403, d, 0, NoFile)
          /\ UNCHANGED <<posting, lines, now, servers, perMinute>>
      BY <2>3 DEF Refused403, quadVars
    <3> QED
      BY <3>1, <1>4
  <2> QED
    BY <1>7, <2>1, <2>2, <2>3
<1>8. ASSUME ServerNext
      PROVE  \/ Same \/ Tick \/ (\E limit \in Limits : ServerStarts(limit)) \/ ServerStops
             \/ \E t : Turned(t) \/ Unknown(t)
             \/ \E t : \E status \in {200, 403, 409} : Served1(t, status)
  <2>1. ASSUME NEW file, TokensChange(file) PROVE Same
    BY <1>1, <2>1 DEF TokensChange, quadVars
  <2> QED
    BY <1>5, <1>6, <1>7, <1>8, <2>1 DEF ServerNext
<1>9. ASSUME NEW o, NEW n, NEW d, NEW foreign, Post(o, n, d, foreign)
      PROVE  Taking \/ \E t : \E status \in {200, 403, 409} : Served1(t, status)
  <2> DEFINE q == Quad(outbox[o][n])
  <2>1. /\ Idle /\ Within(MemberToken) /\ Count(MemberToken)
        /\ UNCHANGED <<lines, now, servers, perMinute>>
    BY <1>9 DEF Post, Authorized
  <2>2. CASE Taken(door[d][n], q)
    <3>1. \/ Noted(MemberToken, 200, d, n, q)
          \/ Noted(MemberToken, 409, d, n, q)
      BY <1>9, <2>2 DEF Post
    <3>2. posting' = posting
      BY <1>9, <2>2 DEF Post
    <3> QED
      BY <2>1, <3>1, <3>2, <1>4
  <2>3. CASE ~Taken(door[d][n], q)
    <3>1. posting' = [pc |-> "sig", door |-> d, n |-> n, quad |-> q] /\ answers' = answers
      BY <1>9, <2>3 DEF Post
    <3>2. posting' # Nothing
      BY <3>1 DEF Nothing
    <3> QED
      BY <2>1, <3>1, <3>2 DEF Taking, Still
  <2> QED
    BY <2>2, <2>3
<1>10. ASSUME PostStep PROVE Same \/ Done
  <2>1. posting # Nothing /\ UNCHANGED <<lines, windows, now, servers, perMinute>>
    BY <1>10 DEF PostStep
  <2>2. posting \in [pc : {"sig", "body", "env"}, door : Doors, n : Numbers, quad : QuadSet]
    BY <2>1 DEF PostingSet
  <2>3. \/ \E pc \in {"body", "env"} : posting' = [posting EXCEPT !.pc = pc] /\ answers' = answers
        \/ posting' = Nothing /\ Noted(MemberToken, 200, posting.door, posting.n, posting.quad)
    BY <1>10 DEF PostStep, Filled
  <2>4. ASSUME NEW pc \in {"body", "env"}, posting' = [posting EXCEPT !.pc = pc]
        PROVE  posting' # Nothing
    <3>1. posting'.pc = pc
      BY <2>2, <2>4
    <3> QED
      BY <3>1 DEF Nothing
  <2> QED
    BY <2>1, <2>3, <2>4 DEF Calm, Still, Done, Answer
<1>11. ASSUME PullNext PROVE Same \/ \E t : \E status \in {200, 403, 409} : Served1(t, status)
  <2>1. ASSUME NEW r, PullPage(r)
        PROVE  \E t : \E status \in {200, 403, 409} : Served1(t, status)
    <3>1. /\ Idle /\ Within(MemberToken) /\ Count(MemberToken)
          /\ Noted(MemberToken, 200, ReadsAt[r], 0, NoFile)
          /\ UNCHANGED <<posting, lines, now, servers, perMinute>>
      BY <2>1 DEF PullPage, Authorized
    <3> QED
      BY <3>1, <1>4
  <2>2. ASSUME NEW r, NEW since, PullStart(r, since) PROVE Same
    BY <1>1, <2>2 DEF PullStart, accessVars
  <2>3. ASSUME NEW r, PullQuad(r) \/ PullWrite(r) \/ Repair(r) \/ PullOn(r) \/ PullEnds(r) PROVE Same
    BY <1>1, <2>3 DEF PullQuad, PullWrite, Repair, PullOn, PullEnds, accessVars
  <2>4. ASSUME NEW r, NEW n, FileLost(r, n) PROVE Same
    BY <1>1, <2>4 DEF FileLost, accessVars
  <2> QED
    BY <1>11, <2>1, <2>2, <2>3, <2>4 DEF PullNext
<1> QED
  BY <1>2, <1>3, <1>8, <1>9, <1>10, <1>11 DEF DoorNext, PushNext

\* An answer gets the next number.
LEMMA Answering ==
  ASSUME StampInv, NEW t, NEW status, Answer(t, status), Still
  PROVE  \E b :
           /\ answers' = answers \cup {b} /\ b \notin answers
           /\ b.token = t /\ b.status = status /\ b.at = now /\ b.no = Cardinality(answers)
           /\ b.server = servers /\ b.again = IF status = 429 THEN now + RetryAfter(t) ELSE now
           /\ \A a \in answers : a.no < b.no
           /\ IsFiniteSet(answers') /\ Cardinality(answers') = Cardinality(answers) + 1
           /\ Cardinality(answers) \in Nat
<1>1. PICK d, n, q : Noted(t, status, d, n, q)
  BY DEF Answer
<1> DEFINE b == Note(t, status, d, n, q)
<1>2. answers' = answers \cup {b}
  BY <1>1, NotedAdds
<1>3. /\ b.token = t /\ b.status = status /\ b.at = now /\ b.no = Cardinality(answers)
      /\ b.server = servers /\ b.again = IF status = 429 THEN now + RetryAfter(t) ELSE now
  BY DEF Note
<1> HIDE DEF b
<1>4. \A a \in answers : a.no < b.no
  BY <1>3 DEF StampInv
<1>5. Cardinality(answers) \in Nat
  BY FS_CardinalityType DEF StampInv
<1>6. b \notin answers
  BY <1>3, <1>4, <1>5
<1>7. IsFiniteSet(answers') /\ Cardinality(answers') = Cardinality(answers) + 1
  BY <1>2, <1>6, FS_AddElement DEF StampInv
<1> QED
  BY <1>2, <1>3, <1>4, <1>5, <1>6, <1>7

LEMMA HereStamps ==
  ASSUME StampInv, NEW t, NEW s
  PROVE  IsFiniteSet(Of(answers, t, s)) /\ Stamps(Of(answers, t, s))
         /\ \A b \in Of(answers, t, s) : b.at <= now /\ b.no < Cardinality(answers)
<1>1. IsFiniteSet(Of(answers, t, s))
  BY FinitePart DEF StampInv
<1>2. \A b \in Of(answers, t, s) : b \in answers
  BY DEF Of
<1> QED
  BY <1>1, <1>2 DEF StampInv, Stamps

LEMMA StartIs ==
  ASSUME StampInv, WindowInv, NEW t
  PROVE  /\ Start(t).start \in Nat /\ Start(t).count \in Nat
         /\ Start(t).start <= now /\ now - Start(t).start < Window
         /\ \/ t \in DOMAIN windows /\ Start(t) = windows[t]
            \/ /\ Start(t) = [start |-> now, count |-> 0]
               /\ t \notin DOMAIN windows \/ windows[t].start + Window <= now
<1>1. Window \in Nat \ {0} /\ now \in Nat
  BY DoorAssumption DEF StampInv
<1>2. CASE t \in DOMAIN windows /\ now - windows[t].start < Window
  <2>1. Start(t) = windows[t]
    BY <1>2 DEF Start, KeyOf
  <2>2. windows[t] \in WindowSet /\ windows[t].start <= now
    BY <1>2 DEF WindowInv
  <2> QED
    BY <1>2, <2>1, <2>2 DEF WindowSet
<1>3. CASE ~(t \in DOMAIN windows /\ now - windows[t].start < Window)
  <2>1. Start(t) = [start |-> now, count |-> 0]
    BY <1>3 DEF Start, KeyOf
  <2>2. t \in DOMAIN windows => windows[t].start \in Nat
    BY DEF WindowInv, WindowSet
  <2>3. Start(t).start = now /\ Start(t).count = 0
    BY <2>1
  <2>4. t \notin DOMAIN windows \/ windows[t].start + Window <= now
    BY <1>1, <1>3, <2>2
  <2> QED
    BY <1>1, <2>1, <2>3, <2>4
<1> QED
  BY <1>2, <1>3

\* A request that is counted is in the window of its token, with what was answered in it.
LEMMA Counting ==
  ASSUME StampInv, WindowInv, CountInv, NEW t, Idle, Within(t), Count(t), perMinute # 0
  PROVE  /\ windows' \in [DOMAIN windows' -> WindowSet]
         /\ DOMAIN windows' = DOMAIN windows \cup {t}
         /\ windows'[t].start <= now /\ windows'[t].count \in 1 .. perMinute
         /\ \A u \in DOMAIN windows : u # t => windows'[u] = windows[u]
         /\ \E k \in Nat : k <= Cardinality(answers) /\ Held(Here(t), windows'[t], k, 1, perMinute)
<1> DEFINE n == Cardinality(answers)
<1>1. PICK w : w = Start(t)
  OBVIOUS
<1>2. /\ w.start \in Nat /\ w.count \in Nat /\ w.start <= now
      /\ \/ t \in DOMAIN windows /\ w = windows[t]
         \/ /\ w = [start |-> now, count |-> 0]
            /\ t \notin DOMAIN windows \/ windows[t].start + Window <= now
  BY <1>1, StartIs
<1>3. w = [start |-> w.start, count |-> w.count]
  BY <1>2 DEF WindowInv, WindowSet
<1>4. PICK v : v = [start |-> w.start, count |-> w.count + 1]
  OBVIOUS
<1>5. v \in WindowSet /\ v.start = w.start /\ v.count = w.count + 1
  BY <1>2, <1>4 DEF WindowSet
<1>6. windows' = [u \in DOMAIN windows \cup {t} |-> IF u = t THEN v ELSE windows[u]]
  <2>1. [w EXCEPT !.count = @ + 1] = v
    BY <1>3, <1>4
  <2> QED
    BY <1>1, <2>1 DEF Count, KeyOf
<1>7. /\ DOMAIN windows' = DOMAIN windows \cup {t}
      /\ windows'[t] = v
      /\ \A u \in DOMAIN windows : u # t => windows'[u] = windows[u]
  BY <1>6
<1>8. windows' \in [DOMAIN windows' -> WindowSet]
  BY <1>5, <1>6, <1>7 DEF WindowInv
<1>9. w.count < perMinute /\ perMinute \in Nat
  BY <1>1 DEF Within, StampInv
<1>10. posting = Nothing /\ lines # {} /\ Pend(t) = 0
  BY DEF Idle, Pend
<1>11. n \in Nat
  BY FS_CardinalityType DEF StampInv
<1>12. IsFiniteSet(Here(t)) /\ Stamps(Here(t)) /\ \A b \in Here(t) : b.at <= now /\ b.no < n
  BY HereStamps DEF Here
<1>13. \A k : Held(Here(t), w, k, 0, perMinute) => Held(Here(t), v, k, 1, perMinute)
  <2> TAKE k
  <2> HAVE Held(Here(t), w, k, 0, perMinute)
  <2>1. IsFiniteSet(Within1(Here(t), k))
    BY <1>12, FS_Subset DEF Within1
  <2>2. Cardinality(Within1(Here(t), k)) \in Nat
    BY <2>1, FS_CardinalityType
  <2>3. Before1(Here(t), k, v) = Before1(Here(t), k, w)
    BY <1>5 DEF Before1
  <2> QED
    BY <1>2, <1>5, <2>2, <2>3 DEF Held
<1>14. \E k \in Nat : k <= n /\ Held(Here(t), w, k, 0, perMinute)
  <2>1. CASE t \in DOMAIN windows /\ w = windows[t]
    BY <2>1, <1>10 DEF CountInv
  <2>2. CASE w = [start |-> now, count |-> 0] /\ t \notin DOMAIN windows
    <3>1. Here(t) = {} /\ w.count = 0
      BY <2>2, <1>10 DEF CountInv
    <3>2. Within1({}, n) = {} /\ Before1({}, n, w) = {}
      BY DEF Within1, Before1
    <3>3. Held({}, w, n, 0, perMinute)
      BY <3>1, <3>2, <1>9, FS_EmptySet DEF Held
    <3> QED
      BY <3>1, <3>3, <1>11
  <2>3. CASE w = [start |-> now, count |-> 0] /\ t \in DOMAIN windows /\ windows[t].start + Window <= now
    <3>1. PICK k \in Nat : Held(Here(t), windows[t], k, 0, perMinute)
      BY <2>3, <1>10 DEF CountInv
    <3>2. windows[t].start \in Nat /\ windows[t].count \in Nat /\ windows[t].count <= perMinute
      BY <2>3, <1>9 DEF WindowInv, WindowSet
    <3>3. w.start = now /\ w.count = 0
      BY <2>3
    <3>4. Held(Here(t), w, n, 0, perMinute)
      BY <1>2, <1>9, <1>11, <1>12, <2>3, <3>1, <3>2, <3>3, HeldAnew
    <3> QED
      BY <3>4, <1>11
  <2> QED
    BY <1>2, <2>1, <2>2, <2>3
<1> QED
  BY <1>2, <1>5, <1>7, <1>8, <1>9, <1>13, <1>14

LEMMA LimFirst ==
  ASSUME DoorInit
  PROVE  LimInv
<1>1. /\ now = 0 /\ servers = 0 /\ perMinute = 0 /\ answers = {} /\ lines = {} /\ posting = Nothing
      /\ windows = <<>>
  BY DEF DoorInit
<1>2. DOMAIN windows = {} /\ windows \in [DOMAIN windows -> WindowSet]
  <2>1. DOMAIN windows = {}
    BY <1>1
  <2> QED
    BY <1>1, <2>1
<1>3. StampInv
  BY <1>1, FS_EmptySet DEF StampInv
<1> QED
  BY <1>1, <1>2, <1>3 DEF LimInv, WindowInv, CountInv, WaitInv

LEMMA LimCalm ==
  ASSUME LimInv, Calm, answers' = answers
  PROVE  LimInv'
<1>1. /\ UNCHANGED <<now, servers, perMinute, lines, windows, answers>>
      /\ posting' = Nothing <=> posting = Nothing
  BY DEF Calm, Still
<1>2. \A t : Here(t)' = Here(t) /\ Pend(t)' = Pend(t)
  BY <1>1 DEF Here, Pend
<1>3. \A a : Earlier(a)' = Earlier(a) /\ Later(a)' = Later(a)
  BY <1>1 DEF Earlier, Later
<1>4. StampInv'
  BY <1>1 DEF LimInv, StampInv
<1>5. WindowInv'
  BY <1>1 DEF LimInv, WindowInv
<1>6. CountInv'
  BY <1>1, <1>2 DEF LimInv, CountInv
<1>7. WaitInv'
  BY <1>1, <1>3 DEF LimInv, WaitInv
<1> QED
  BY <1>4, <1>5, <1>6, <1>7 DEF LimInv

LEMMA LimTick ==
  ASSUME LimInv, Tick
  PROVE  LimInv'
<1>1. /\ UNCHANGED <<servers, perMinute, lines, windows, answers, posting>>
      /\ now' = now + 1 /\ now \in Nat
  BY DEF Tick, quadVars, LimInv, StampInv
<1>2. \A t : Here(t)' = Here(t) /\ Pend(t)' = Pend(t)
  BY <1>1 DEF Here, Pend
<1>3. \A a : Earlier(a)' = Earlier(a) /\ Later(a)' = Later(a)
  BY <1>1 DEF Earlier, Later
<1>4. StampInv'
  BY <1>1 DEF LimInv, StampInv
<1>5. WindowInv'
  <2>1. \A t \in DOMAIN windows : windows[t].start \in Nat
    BY DEF LimInv, WindowInv, WindowSet
  <2> QED
    BY <1>1, <2>1 DEF LimInv, WindowInv
<1>6. CountInv'
  BY <1>1, <1>2 DEF LimInv, CountInv
<1>7. WaitInv'
  BY <1>1, <1>3 DEF LimInv, WaitInv
<1> QED
  BY <1>4, <1>5, <1>6, <1>7 DEF LimInv

LEMMA LimStarts ==
  ASSUME LimInv, NEW limit \in Limits, ServerStarts(limit)
  PROVE  LimInv'
<1>1. /\ lines = {} /\ windows' = <<>> /\ perMinute' = limit /\ servers' = servers + 1
      /\ UNCHANGED <<now, answers, posting>> /\ limit \in Nat /\ servers \in Nat
  BY DoorAssumption DEF ServerStarts, quadVars, LimInv, StampInv
<1>2. DOMAIN windows' = {} /\ windows' \in [DOMAIN windows' -> WindowSet]
  <2>1. DOMAIN windows' = {}
    BY <1>1
  <2> QED
    BY <1>1, <2>1
<1>3. posting' = Nothing
  BY <1>1 DEF LimInv, WindowInv
<1>4. StampInv'
  BY <1>1 DEF LimInv, StampInv
<1>5. \A t : Here(t)' = {}
  BY <1>1 DEF Here, Of, LimInv, StampInv
<1>6. \A m \in Nat : Two({}, m)
  <2>1. \A u : During({}, u) = {}
    BY DEF During
  <2> QED
    BY <2>1, FS_EmptySet DEF Two
<1>7. CountInv'
  BY <1>1, <1>2, <1>5, <1>6 DEF CountInv
<1>8. WindowInv'
  BY <1>2, <1>3 DEF WindowInv
<1>9. WaitInv'
  BY <1>1, <1>2 DEF WaitInv, LimInv, StampInv
<1> QED
  BY <1>4, <1>7, <1>8, <1>9 DEF LimInv

LEMMA LimStops ==
  ASSUME LimInv, ServerStops
  PROVE  LimInv'
<1>1. /\ lines' = {} /\ windows' = <<>> /\ posting' = Nothing
      /\ UNCHANGED <<now, answers, servers, perMinute>>
  BY DEF ServerStops
<1>2. DOMAIN windows' = {} /\ windows' \in [DOMAIN windows' -> WindowSet]
  <2>1. DOMAIN windows' = {}
    BY <1>1
  <2> QED
    BY <1>1, <2>1
<1>3. \A t : Here(t)' = Here(t)
  BY <1>1 DEF Here
<1>4. \A a : Earlier(a)' = Earlier(a)
  BY <1>1 DEF Earlier
<1>5. StampInv'
  BY <1>1 DEF LimInv, StampInv
<1>6. WindowInv'
  BY <1>1, <1>2 DEF WindowInv
<1>7. CountInv'
  BY <1>1, <1>2, <1>3 DEF CountInv, LimInv
<1>8. WaitInv'
  BY <1>1, <1>2, <1>4 DEF WaitInv, LimInv
<1> QED
  BY <1>5, <1>6, <1>7, <1>8 DEF LimInv

\* What an answer adds to the sets that the properties count.
LEMMA Adding ==
  ASSUME StampInv, Still, NEW b, answers' = answers \cup {b}, b \notin answers,
         \A a \in answers : a.no < b.no, b.no = Cardinality(answers), b.server = servers
  PROVE  /\ b.no \in Nat
         /\ \A t : Here(t)' = IF b.token = t /\ b.status \notin {401, 429} THEN Here(t) \cup {b} ELSE Here(t)
         /\ \A t : b \notin Here(t)
         /\ \A a \in answers : Earlier(a)' = Earlier(a)
         /\ \A a \in answers : Later(a) \subseteq Later(a)'
         /\ \A a \in answers : b.status \notin {401, 429} /\ b.token = a.token => Later(a)' # {}
<1>1. b.no \in Nat
  BY FS_CardinalityType DEF StampInv
<1>2. \A t : Here(t)' = IF b.token = t /\ b.status \notin {401, 429} THEN Here(t) \cup {b} ELSE Here(t)
  BY DEF Here, Of, Still
<1>3. \A t : b \notin Here(t)
  BY DEF Here, Of
<1>4. \A a \in answers : Earlier(a)' = Earlier(a)
  <2> TAKE a \in answers
  <2>1. a.no \in Nat /\ a.no < b.no
    BY DEF StampInv
  <2>2. ~(b.no < a.no)
    BY <1>1, <2>1
  <2> QED
    BY <2>2 DEF Earlier, Of
<1>5. \A a \in answers : Later(a) \subseteq Later(a)'
  BY DEF Later
<1>6. \A a \in answers : b.status \notin {401, 429} /\ b.token = a.token => b \in Later(a)'
  <2> TAKE a \in answers
  <2>1. a.no \in Nat /\ b.no >= a.no
    BY <1>1 DEF StampInv
  <2> QED
    BY <2>1 DEF Later
<1> QED
  BY <1>1, <1>2, <1>3, <1>4, <1>5, <1>6

LEMMA StampAfter ==
  ASSUME StampInv, Still, NEW b, answers' = answers \cup {b},
         b.no = Cardinality(answers), b.at = now, b.server = servers, b.again \in Int,
         IsFiniteSet(answers'), Cardinality(answers') = Cardinality(answers) + 1
  PROVE  StampInv'
<1>1. Cardinality(answers) \in Nat
  BY FS_CardinalityType DEF StampInv
<1> QED
  BY <1>1 DEF StampInv, Still

\* Who is turned away has been served a window's worth, and is told when it ends.
LEMMA LimTurned ==
  ASSUME LimInv, NEW t, Turned(t)
  PROVE  LimInv'
<1>1. /\ Still /\ windows' = windows /\ (posting' = Nothing <=> posting = Nothing)
      /\ Idle /\ ~Within(t) /\ posting = Nothing /\ lines # {}
  BY DEF Turned, Calm, Idle
<1>2. PICK b :
           /\ answers' = answers \cup {b} /\ b \notin answers
           /\ b.token = t /\ b.status = 429 /\ b.at = now /\ b.no = Cardinality(answers)
           /\ b.server = servers /\ b.again = now + RetryAfter(t)
           /\ \A a \in answers : a.no < b.no
           /\ IsFiniteSet(answers') /\ Cardinality(answers') = Cardinality(answers) + 1
           /\ Cardinality(answers) \in Nat
  BY <1>1, Answering DEF Turned, LimInv
<1>3. /\ perMinute # 0 /\ perMinute \in Nat /\ ~(Start(t).count < perMinute) /\ now \in Nat /\ Window \in Nat
  BY <1>1, DoorAssumption DEF Within, LimInv, StampInv
<1>4. t \in DOMAIN windows /\ Start(t) = windows[t] /\ windows[t].start \in Nat /\ windows[t].count \in Nat
      /\ windows[t].start <= now /\ now - windows[t].start < Window
  <2>1. ~(Start(t) = [start |-> now, count |-> 0])
    BY <1>3
  <2> QED
    BY <2>1, StartIs DEF LimInv
<1>5. b.again = windows[t].start + Window
  BY <1>2, <1>3, <1>4 DEF RetryAfter
<1>6. StampInv'
  <2>1. b.again \in Int
    BY <1>3, <1>4, <1>5
  <2> QED
    BY <1>1, <1>2, <2>1, StampAfter DEF LimInv
<1>7. /\ b.no \in Nat
      /\ \A u : Here(u)' = Here(u)
      /\ \A a \in answers : Earlier(a)' = Earlier(a) /\ Later(a) \subseteq Later(a)'
  BY <1>1, <1>2, Adding DEF LimInv
<1>8. \A u : Pend(u)' = Pend(u)
  BY <1>1 DEF Pend
<1>9. WindowInv'
  BY <1>1 DEF LimInv, WindowInv, Still
<1>10. CountInv'
  BY <1>1, <1>2, <1>7, <1>8 DEF LimInv, CountInv, Still
<1>11. Cardinality(Earlier(b)') >= perMinute
  <2>1. PICK k \in Nat : Held(Here(t), windows[t], k, 0, perMinute)
    BY <1>1, <1>4 DEF LimInv, CountInv, Pend
  <2>2. IsFiniteSet(Here(t)) /\ Stamps(Here(t)) /\ \A c \in Here(t) : c.no < Cardinality(answers)
    BY HereStamps DEF Here, LimInv
  <2>3. PICK A, E : A = answers' /\ E = {c \in Of(A, t, servers) : c.no < b.no /\ c.at > b.at - Window}
    OBVIOUS
  <2>4. Earlier(b)' = E
    BY <1>2, <2>3 DEF Earlier
  <2>5. Within1(Here(t), k) \subseteq E
    <3> SUFFICES ASSUME NEW c \in Within1(Here(t), k)
                 PROVE  c \in E
      OBVIOUS
    <3>1. c \in Here(t) /\ c.no >= k
      BY DEF Within1
    <3>2. c.at >= windows[t].start /\ c.no < b.no /\ c.at \in Nat
      BY <1>2, <2>1, <2>2, <3>1 DEF Held, Stamps
    <3>3. c.at > b.at - Window
      BY <1>2, <1>3, <1>4, <3>2
    <3>4. c \in Of(A, t, servers)
      BY <1>2, <2>3, <3>1 DEF Here, Of
    <3> QED
      BY <2>3, <3>2, <3>3, <3>4
  <2>6. IsFiniteSet(A)
    BY <1>2, <2>3
  <2>7. IsFiniteSet(E) /\ IsFiniteSet(Within1(Here(t), k))
    <3>1. IsFiniteSet(Of(A, t, servers))
      BY <2>6, FinitePart
    <3>2. E \subseteq Of(A, t, servers) /\ Within1(Here(t), k) \subseteq Here(t)
      BY <2>3 DEF Within1
    <3> QED
      BY <2>2, <3>1, <3>2, FS_Subset
  <2>8. /\ Cardinality(Within1(Here(t), k)) <= Cardinality(E)
        /\ Cardinality(Within1(Here(t), k)) \in Nat /\ Cardinality(E) \in Nat
    BY <2>5, <2>7, FS_Subset, FS_CardinalityType
  <2>9. Cardinality(Within1(Here(t), k)) = windows[t].count
    BY <2>1, <2>8 DEF Held
  <2> QED
    BY <1>3, <1>4, <2>4, <2>8, <2>9
<1>12. WaitInv'
  <2>1. ASSUME NEW a \in answers, a.status = 429
        PROVE  /\ a.server = servers => Cardinality(Earlier(a)') >= perMinute
               /\ Later(a)' = {} /\ (posting' = Nothing \/ a.token # MemberToken) =>
                    a.token \notin DOMAIN windows \/ windows[a.token].start + Window <= a.again
    BY <1>1, <1>7, <2>1 DEF LimInv, WaitInv
  <2>2. windows[t].start + Window <= b.again
    BY <1>3, <1>4, <1>5
  <2>3. answers' = answers \cup {b} /\ b.token = t
    BY <1>2
  <2> QED
    BY <1>1, <1>11, <2>1, <2>2, <2>3 DEF WaitInv, Still
<1> QED
  BY <1>6, <1>9, <1>10, <1>12 DEF LimInv

LEMMA LimUnknown ==
  ASSUME LimInv, NEW t, Unknown(t)
  PROVE  LimInv'
<1>1. /\ Still /\ windows' = windows /\ (posting' = Nothing <=> posting = Nothing)
  BY DEF Unknown, Calm
<1>2. PICK b :
           /\ answers' = answers \cup {b} /\ b \notin answers
           /\ b.token = t /\ b.status = 401 /\ b.at = now /\ b.no = Cardinality(answers)
           /\ b.server = servers /\ b.again = now
           /\ \A a \in answers : a.no < b.no
           /\ IsFiniteSet(answers') /\ Cardinality(answers') = Cardinality(answers) + 1
           /\ Cardinality(answers) \in Nat
  BY <1>1, Answering DEF Unknown, LimInv
<1>3. StampInv'
  <2>1. b.again \in Int
    BY <1>2 DEF LimInv, StampInv
  <2> QED
    BY <1>1, <1>2, <2>1, StampAfter DEF LimInv
<1>4. /\ \A u : Here(u)' = Here(u)
      /\ \A a \in answers : Earlier(a)' = Earlier(a) /\ Later(a) \subseteq Later(a)'
  BY <1>1, <1>2, Adding DEF LimInv
<1>5. \A u : Pend(u)' = Pend(u)
  BY <1>1 DEF Pend
<1>6. WindowInv'
  BY <1>1 DEF LimInv, WindowInv, Still
<1>7. CountInv'
  BY <1>1, <1>2, <1>4, <1>5 DEF LimInv, CountInv, Still
<1>8. WaitInv'
  <2>1. ASSUME NEW a \in answers, a.status = 429
        PROVE  /\ a.server = servers => Cardinality(Earlier(a)') >= perMinute
               /\ Later(a)' = {} /\ (posting' = Nothing \/ a.token # MemberToken) =>
                    a.token \notin DOMAIN windows \/ windows[a.token].start + Window <= a.again
    BY <1>1, <1>4, <2>1 DEF LimInv, WaitInv
  <2> QED
    BY <1>1, <1>2, <2>1 DEF WaitInv, Still
<1> QED
  BY <1>3, <1>6, <1>7, <1>8 DEF LimInv

\* A request that was counted is answered.
LEMMA AnsweredOneMore ==
  ASSUME NEW S, IsFiniteSet(S), Stamps(S), NEW k \in Nat, NEW w, w.start \in Nat, w.count \in Nat,
         NEW m \in Nat, w.count <= m, Held(S, w, k, 1, m), Two(S, m),
         NEW b, b \notin S, b.no \in Nat, b.at \in Nat, b.no >= k, b.at >= w.start,
         \A c \in S : c.at <= b.at
  PROVE  Held(S \cup {b}, w, k, 0, m) /\ Two(S \cup {b}, m)
<1>1. Held(S \cup {b}, w, k, 0, m)
  BY HeldOneMore
<1>2. IsFiniteSet(S \cup {b}) /\ Stamps(S \cup {b}) /\ (S \cup {b}) \ {b} = S
  BY FS_AddElement DEF Stamps
<1>3. \A c \in S \cup {b} : c.at <= b.at
  OBVIOUS
<1>4. Two(S \cup {b}, m)
  BY <1>1, <1>2, <1>3, TwoOneMore
<1> QED
  BY <1>1, <1>4

LEMMA LimServed ==
  ASSUME LimInv, NEW t, NEW status \in {200, 403, 409}, Served1(t, status)
  PROVE  LimInv'
<1>1. /\ Still /\ posting' = posting /\ Idle /\ Within(t) /\ Count(t) /\ posting = Nothing /\ lines # {}
      /\ Answer(t, status)
  BY DEF Served1, Idle
<1>2. PICK b :
           /\ answers' = answers \cup {b} /\ b \notin answers
           /\ b.token = t /\ b.status = status /\ b.at = now /\ b.no = Cardinality(answers)
           /\ b.server = servers /\ b.again = now
           /\ \A a \in answers : a.no < b.no
           /\ IsFiniteSet(answers') /\ Cardinality(answers') = Cardinality(answers) + 1
           /\ Cardinality(answers) \in Nat
  BY <1>1, Answering DEF LimInv
<1>3. StampInv'
  <2>1. b.again \in Int
    BY <1>2 DEF LimInv, StampInv
  <2> QED
    BY <1>1, <1>2, <2>1, StampAfter DEF LimInv
<1>4. /\ b.no \in Nat
      /\ \A u : Here(u)' = IF t = u THEN Here(u) \cup {b} ELSE Here(u)
      /\ \A u : b \notin Here(u)
      /\ \A a \in answers : Earlier(a)' = Earlier(a) /\ Later(a) \subseteq Later(a)'
      /\ \A a \in answers : a.token = t => Later(a)' # {}
  BY <1>1, <1>2, Adding DEF LimInv
<1>5. \A u : Pend(u)' = 0 /\ Pend(u) = 0
  BY <1>1 DEF Pend
<1>6. IsFiniteSet(Here(t)) /\ Stamps(Here(t)) /\ \A c \in Here(t) : c.at <= now
  BY HereStamps DEF Here, LimInv
<1>7. perMinute' = perMinute /\ servers' = servers /\ now' = now /\ lines' = lines /\ perMinute \in Nat
      /\ now \in Nat
  BY <1>1 DEF Still, LimInv, StampInv
<1>8. /\ WindowInv' /\ CountInv'
      /\ \A u : u # t => (u \in DOMAIN windows' <=> u \in DOMAIN windows)
                         /\ (u \in DOMAIN windows => windows'[u] = windows[u])
  <2>1. CASE perMinute = 0
    <3>1. windows' = windows /\ DOMAIN windows = {}
      BY <1>1, <2>1 DEF Count, LimInv, WindowInv
    <3>2. WindowInv'
      BY <3>1, <1>1, <1>7 DEF LimInv, WindowInv
    <3>3. CountInv'
      BY <3>1, <2>1, <1>7 DEF CountInv
    <3> QED
      BY <3>1, <3>2, <3>3
  <2>2. CASE perMinute # 0
    <3>0. StampInv /\ WindowInv /\ CountInv
      BY DEF LimInv
    <3>1. /\ windows' \in [DOMAIN windows' -> WindowSet]
          /\ DOMAIN windows' = DOMAIN windows \cup {t}
          /\ windows'[t].start <= now /\ windows'[t].count \in 1 .. perMinute
          /\ \A u \in DOMAIN windows : u # t => windows'[u] = windows[u]
      <4>1. Idle /\ Within(t) /\ Count(t)
        BY <1>1
      <4>2. windows' \in [DOMAIN windows' -> WindowSet]
        BY <2>2, <3>0, <4>1, Counting
      <4>3. DOMAIN windows' = DOMAIN windows \cup {t}
        BY <2>2, <3>0, <4>1, Counting, Zenon
      <4>4. windows'[t].start <= now /\ windows'[t].count \in 1 .. perMinute
        BY <2>2, <3>0, <4>1, Counting
      <4>5. ASSUME NEW u \in DOMAIN windows, u # t PROVE windows'[u] = windows[u]
        BY <2>2, <4>1, <4>5 DEF Count, KeyOf
      <4> QED
        BY <4>2, <4>3, <4>4, <4>5
    <3>2. PICK k \in Nat : k <= Cardinality(answers) /\ Held(Here(t), windows'[t], k, 1, perMinute)
      <4>1. \E k \in Nat : k <= Cardinality(answers) /\ Held(Here(t), windows'[t], k, 1, perMinute)
        BY <1>1, <2>2, <3>0, Counting, Zenon
      <4> QED
        BY <4>1
    <3>3. WindowInv'
      BY <3>1, <2>2, <1>1, <1>7 DEF LimInv, WindowInv
    <3>4. Held(Here(t)', windows'[t], k, 0, perMinute) /\ Two(Here(t)', perMinute)
      <4>1. PICK w : w = windows'[t]
        OBVIOUS
      <4>2. w.start \in Nat /\ w.count \in Nat /\ w.count <= perMinute /\ w.start <= now
        BY <3>1, <1>7, <4>1 DEF WindowSet
      <4>3. Two(Here(t), perMinute)
        BY <2>2 DEF LimInv, CountInv
      <4>4. b.at >= w.start /\ b.at \in Nat /\ b.no >= k /\ b.no \in Nat /\ b \notin Here(t)
            /\ \A c \in Here(t) : c.at <= b.at
        BY <1>2, <1>4, <1>6, <1>7, <3>2, <4>2
      <4>5. Held(Here(t) \cup {b}, w, k, 0, perMinute) /\ Two(Here(t) \cup {b}, perMinute)
        BY <3>2, <4>1, <4>2, <4>3, <4>4, <1>6, <1>7, AnsweredOneMore
      <4> QED
        BY <1>4, <4>1, <4>5
    <3>5. CountInv'
      <4>1. k <= Cardinality(answers')
        BY <1>2, <3>2
      <4>2. \A u \in DOMAIN windows' : \E j \in Nat :
               j <= Cardinality(answers') /\ Held(Here(u)', windows'[u], j, 0, perMinute)
        <5> TAKE u \in DOMAIN windows'
        <5>1. CASE u = t
          BY <5>1, <3>4, <4>1
        <5>2. CASE u # t
          <6>1. u \in DOMAIN windows /\ windows'[u] = windows[u] /\ Here(u)' = Here(u)
            BY <5>2, <3>1, <1>4
          <6>2. PICK j \in Nat : j <= Cardinality(answers) /\ Held(Here(u), windows[u], j, 0, perMinute)
            BY <6>1, <1>5 DEF LimInv, CountInv
          <6>3. j <= Cardinality(answers')
            BY <6>2, <1>2
          <6> QED
            BY <6>1, <6>2, <6>3
        <5> QED
          BY <5>1, <5>2
      <4>3. \A u : u \notin DOMAIN windows' => Here(u)' = {}
        BY <2>2, <3>1, <1>1, <1>4 DEF LimInv, CountInv
      <4>4. \A u : Two(Here(u)', perMinute)
        BY <2>2, <3>4, <1>4 DEF LimInv, CountInv
      <4> QED
        BY <4>2, <4>3, <4>4, <1>5, <1>7 DEF CountInv
    <3> QED
      BY <3>1, <3>3, <3>5
  <2> QED
    BY <2>1, <2>2
<1>9. WaitInv'
  <2>1. ASSUME NEW a \in answers, a.status = 429
        PROVE  /\ a.server = servers => Cardinality(Earlier(a)') >= perMinute
               /\ Later(a)' = {} /\ (posting' = Nothing \/ a.token # MemberToken) =>
                    a.token \notin DOMAIN windows' \/ windows'[a.token].start + Window <= a.again
    BY <1>1, <1>4, <1>8, <2>1 DEF LimInv, WaitInv
  <2>2. b.status # 429 /\ answers' = answers \cup {b}
    BY <1>2
  <2> QED
    BY <1>7, <2>1, <2>2 DEF WaitInv
<1> QED
  BY <1>3, <1>8, <1>9 DEF LimInv

LEMMA LimTaking ==
  ASSUME LimInv, Taking
  PROVE  LimInv'
<1> DEFINE t == MemberToken
<1>1. /\ Still /\ answers' = answers /\ Idle /\ Within(t) /\ Count(t) /\ posting' # Nothing
      /\ posting = Nothing /\ lines # {}
  BY DEF Taking, Idle
<1> HIDE DEF t
<1>2. perMinute' = perMinute /\ servers' = servers /\ now' = now /\ lines' = lines /\ perMinute \in Nat
      /\ now \in Nat
  BY <1>1 DEF Still, LimInv, StampInv
<1>3. \A u : Here(u)' = Here(u) /\ Pend(u) = 0 /\ Pend(u)' = IF u = t THEN 1 ELSE 0
  BY <1>1, <1>2 DEF Here, Pend, t
<1>4. \A a : Earlier(a)' = Earlier(a) /\ Later(a)' = Later(a)
  BY <1>1 DEF Earlier, Later
<1>5. StampInv'
  BY <1>1, <1>2 DEF LimInv, StampInv
<1>6. /\ WindowInv' /\ CountInv'
      /\ \A u : u # t => (u \in DOMAIN windows' <=> u \in DOMAIN windows)
                         /\ (u \in DOMAIN windows => windows'[u] = windows[u])
  <2>1. CASE perMinute = 0
    <3>1. windows' = windows /\ DOMAIN windows = {}
      BY <1>1, <2>1 DEF Count, LimInv, WindowInv
    <3>2. WindowInv'
      BY <3>1, <1>1, <1>2, <2>1 DEF LimInv, WindowInv
    <3>3. CountInv'
      BY <3>1, <2>1, <1>2 DEF CountInv
    <3> QED
      BY <3>1, <3>2, <3>3
  <2>2. CASE perMinute # 0
    <3>1. /\ windows' \in [DOMAIN windows' -> WindowSet]
          /\ DOMAIN windows' = DOMAIN windows \cup {t}
          /\ windows'[t].start <= now /\ windows'[t].count \in 1 .. perMinute
          /\ \A u \in DOMAIN windows : u # t => windows'[u] = windows[u]
      BY <1>1, <2>2, Counting DEF LimInv
    <3>2. PICK k \in Nat : k <= Cardinality(answers) /\ Held(Here(t), windows'[t], k, 1, perMinute)
      BY <1>1, <2>2, Counting DEF LimInv
    <3>3. WindowInv'
      BY <3>1, <2>2, <1>1, <1>2 DEF LimInv, WindowInv, t
    <3>4. \A u \in DOMAIN windows' : \E j \in Nat :
            j <= Cardinality(answers) /\ Held(Here(u), windows'[u], j, IF u = t THEN 1 ELSE 0, perMinute)
      <4> TAKE u \in DOMAIN windows'
      <4>1. CASE u = t
        BY <4>1, <3>2
      <4>2. CASE u # t
        <5>1. u \in DOMAIN windows /\ windows'[u] = windows[u]
          BY <4>2, <3>1
        <5>2. PICK j \in Nat : j <= Cardinality(answers) /\ Held(Here(u), windows[u], j, 0, perMinute)
          BY <5>1, <1>3 DEF LimInv, CountInv
        <5> QED
          BY <4>2, <5>1, <5>2
      <4> QED
        BY <4>1, <4>2
    <3>5. CountInv'
      <4>1. \A u : u \notin DOMAIN windows' => Here(u)' = {}
        BY <2>2, <3>1, <1>1, <1>3 DEF LimInv, CountInv
      <4>2. \A u : Two(Here(u)', perMinute)
        BY <2>2, <1>3 DEF LimInv, CountInv
      <4> QED
        BY <3>4, <4>1, <4>2, <1>1, <1>2, <1>3 DEF CountInv
    <3> QED
      BY <3>1, <3>3, <3>5
  <2> QED
    BY <2>1, <2>2
<1>7. WaitInv'
  BY <1>1, <1>2, <1>4, <1>6 DEF LimInv, WaitInv, t
<1> QED
  BY <1>5, <1>6, <1>7 DEF LimInv

LEMMA LimDone ==
  ASSUME LimInv, Done
  PROVE  LimInv'
<1> DEFINE t == MemberToken
<1>1. /\ Still /\ windows' = windows /\ posting # Nothing /\ posting' = Nothing /\ Answer(t, 200)
  BY DEF Done
<1>2. perMinute' = perMinute /\ servers' = servers /\ now' = now /\ lines' = lines /\ perMinute \in Nat
      /\ now \in Nat
  BY <1>1 DEF Still, LimInv, StampInv
<1>3. \A u : Pend(u)' = 0 /\ Pend(u) = IF u = t THEN 1 ELSE 0
  BY <1>1 DEF Pend
<1>4. perMinute # 0 => t \in DOMAIN windows
  BY <1>1 DEF LimInv, WindowInv
<1> HIDE DEF t
<1>5. PICK b :
           /\ answers' = answers \cup {b} /\ b \notin answers
           /\ b.token = t /\ b.status = 200 /\ b.at = now /\ b.no = Cardinality(answers)
           /\ b.server = servers /\ b.again = now
           /\ \A a \in answers : a.no < b.no
           /\ IsFiniteSet(answers') /\ Cardinality(answers') = Cardinality(answers) + 1
           /\ Cardinality(answers) \in Nat
  BY <1>1, Answering DEF LimInv
<1>6. StampInv'
  <2>1. b.again \in Int
    BY <1>5, <1>2
  <2> QED
    BY <1>1, <1>5, <2>1, StampAfter DEF LimInv
<1>7. /\ b.no \in Nat
      /\ \A u : Here(u)' = IF t = u THEN Here(u) \cup {b} ELSE Here(u)
      /\ \A u : b \notin Here(u)
      /\ \A a \in answers : Earlier(a)' = Earlier(a) /\ Later(a) \subseteq Later(a)'
      /\ \A a \in answers : a.token = t => Later(a)' # {}
  BY <1>1, <1>5, Adding DEF LimInv
<1>8. IsFiniteSet(Here(t)) /\ Stamps(Here(t)) /\ \A c \in Here(t) : c.at <= now
  BY HereStamps DEF Here, LimInv
<1>9. WindowInv'
  BY <1>1, <1>2 DEF LimInv, WindowInv
<1>10. CountInv'
  <2>1. CASE perMinute = 0
    <3>1. DOMAIN windows' = {} /\ perMinute' = 0
      BY <1>1, <1>2, <2>1 DEF LimInv, WindowInv
    <3> QED
      BY <3>1 DEF CountInv
  <2>2. CASE perMinute # 0
    <3>1. PICK w : w = windows[t]
      OBVIOUS
    <3>2. PICK k \in Nat : k <= Cardinality(answers) /\ Held(Here(t), w, k, 1, perMinute)
      BY <1>3, <1>4, <2>2, <3>1 DEF LimInv, CountInv
    <3>3. w.start \in Nat /\ w.count \in Nat /\ w.count <= perMinute /\ w.start <= now
      BY <1>2, <1>4, <2>2, <3>1 DEF LimInv, WindowInv, WindowSet
    <3>4. Two(Here(t), perMinute)
      BY <2>2 DEF LimInv, CountInv
    <3>5. b.at >= w.start /\ b.at \in Nat /\ b.no >= k /\ b.no \in Nat /\ b \notin Here(t)
          /\ \A c \in Here(t) : c.at <= b.at
      BY <1>2, <1>5, <1>7, <1>8, <3>2, <3>3
    <3>6. Held(Here(t) \cup {b}, w, k, 0, perMinute) /\ Two(Here(t) \cup {b}, perMinute)
      BY <3>2, <3>3, <3>4, <3>5, <1>2, <1>8, AnsweredOneMore
    <3>7. Held(Here(t)', windows[t], k, 0, perMinute) /\ Two(Here(t)', perMinute)
      BY <1>7, <3>1, <3>6
    <3>8. k <= Cardinality(answers')
      BY <1>5, <3>2
    <3>9. \A u \in DOMAIN windows : \E j \in Nat :
             j <= Cardinality(answers') /\ Held(Here(u)', windows[u], j, 0, perMinute)
      <4> TAKE u \in DOMAIN windows
      <4>1. CASE u = t
        BY <4>1, <3>7, <3>8
      <4>2. CASE u # t
        <5>1. Here(u)' = Here(u)
          BY <4>2, <1>7
        <5>2. PICK j \in Nat : j <= Cardinality(answers) /\ Held(Here(u), windows[u], j, 0, perMinute)
          BY <4>2, <1>3 DEF LimInv, CountInv
        <5>3. j <= Cardinality(answers')
          BY <5>2, <1>5
        <5> QED
          BY <5>1, <5>2, <5>3
      <4> QED
        BY <4>1, <4>2
    <3>10. lines # {} => \A u : u \notin DOMAIN windows => Here(u)' = {}
      BY <2>2, <1>4, <1>7 DEF LimInv, CountInv
    <3>11. \A u : Two(Here(u)', perMinute)
      BY <2>2, <3>7, <1>7 DEF LimInv, CountInv
    <3> QED
      BY <3>9, <3>10, <3>11, <1>1, <1>2, <1>3 DEF CountInv
  <2> QED
    BY <2>1, <2>2
<1>11. WaitInv'
  <2>1. ASSUME NEW a \in answers, a.status = 429
        PROVE  /\ a.server = servers => Cardinality(Earlier(a)') >= perMinute
               /\ Later(a)' = {} =>
                    a.token \notin DOMAIN windows \/ windows[a.token].start + Window <= a.again
    BY <1>7, <2>1 DEF LimInv, WaitInv, t
  <2>2. b.status # 429 /\ answers' = answers \cup {b}
    BY <1>5
  <2> QED
    BY <1>1, <1>2, <2>1, <2>2 DEF WaitInv
<1> QED
  BY <1>6, <1>9, <1>10, <1>11 DEF LimInv

LEMMA LimNext ==
  ASSUME LimInv, [DoorNext]_doorAll, posting \in PostingSet
  PROVE  LimInv'
BY LimSteps, LimCalm, LimTick, LimStarts, LimStops, LimTurned, LimUnknown, LimServed, LimTaking, LimDone

\* RetryAfterHolds: when the time comes the window of who stayed quiet is over.
LEMMA RetryHolds ==
  ASSUME LimInv
  PROVE  RetryAfterHolds
<1> SUFFICES ASSUME NEW a \in answers, a.status = 429, now >= a.again, posting = Nothing,
                    \A b \in Served(a.token) : b.no < a.no
             PROVE  Within(a.token)
  BY DEF RetryAfterHolds
<1> DEFINE t == a.token
<1>1. /\ now \in Nat /\ perMinute \in Nat /\ a.again \in Int /\ a.no \in Nat
      /\ \A b \in answers : b.no \in Nat
  BY DEF LimInv, StampInv
<1>2. Later(a) = {}
  BY <1>1 DEF Later, Served
<1>3. t \notin DOMAIN windows \/ windows[t].start + Window <= a.again
  BY <1>2 DEF LimInv, WaitInv
<1>4. CASE perMinute = 0
  BY <1>4 DEF Within
<1>5. CASE perMinute # 0
  <2>1. Start(t) = [start |-> now, count |-> 0]
    <3>1. t \in DOMAIN windows => windows[t].start \in Nat
      BY DEF LimInv, WindowInv, WindowSet
    <3> QED
      BY <1>1, <1>3, <3>1, DoorAssumption DEF Start, KeyOf
  <2>2. Start(t).count = 0
    BY <2>1
  <2> QED
    BY <1>1, <1>5, <2>2 DEF Within
<1> QED
  BY <1>4, <1>5

\* AtMostTwoWindows: the end of one window and the start of the next.
LEMMA TwoWindows ==
  ASSUME LimInv
  PROVE  AtMostTwoWindows
<1> SUFFICES ASSUME NEW a \in answers, perMinute # 0, a.server = servers
             PROVE  Cardinality({b \in Served(a.token) :
                        b.server = a.server /\ b.at >= a.at /\ b.at < a.at + Window}) <= 2 * perMinute
  BY DEF AtMostTwoWindows
<1>1. a.at \in Nat /\ \A b \in answers : b.at \in Nat
  BY DEF LimInv, StampInv
<1>2. {b \in Served(a.token) : b.server = a.server /\ b.at >= a.at /\ b.at < a.at + Window}
        = During(Here(a.token), a.at)
  BY <1>1, DoorAssumption DEF Served, Here, Of, During
<1>3. Two(Here(a.token), perMinute)
  BY DEF LimInv, CountInv
<1> QED
  BY <1>1, <1>2, <1>3 DEF Two

LEMMA Reasons ==
  ASSUME LimInv
  PROVE  WaitsHaveReason
<1> SUFFICES ASSUME NEW a \in answers, a.status = 429, a.server = servers
             PROVE  Cardinality({b \in Served(a.token) :
                        b.server = a.server /\ b.no < a.no /\ b.at > a.at - Window}) >= perMinute
  BY DEF WaitsHaveReason
<1>1. {b \in Served(a.token) : b.server = a.server /\ b.no < a.no /\ b.at > a.at - Window} = Earlier(a)
  BY DEF Served, Earlier, Of
<1> QED
  BY <1>1 DEF LimInv, WaitInv

LEMMA LimsInv == DoorSpec => []LimInv
<1>1. DoorInit => LimInv
  BY LimFirst
<1>2. QuadInv /\ LimInv /\ [DoorNext]_doorAll => LimInv'
  BY LimNext DEF QuadInv, DoorInv
<1> QED
  BY <1>1, <1>2, QuadsInv, PTL DEF DoorSpec, doorAll

\* Who is told to wait was served a window's worth of late, and is served again when the
\* time comes and it was quiet; nobody has more than two windows in the time of one,
\* whatever strangers ask and however servers come and go (RateLimiter, _auth).
THEOREM LimiterAlwaysFair == DoorSpec => []LimiterIsFair
<1>1. LimInv => LimiterIsFair
  BY RetryHolds, TwoWindows, Reasons DEF LimiterIsFair
<1> QED
  BY <1>1, LimsInv, PTL

-----------------------------------------------------------------------------
(* Types *)

\* A server runs with lines of a token file, and counts for tokens of such lines only.
KeysInv == tokens \in TokenFiles /\ lines \subseteq UNION TokenFiles /\ DOMAIN windows \subseteq AllTokens

LEMMA KeysFirst == DoorInit => KeysInv
<1> SUFFICES ASSUME DoorInit PROVE KeysInv
  OBVIOUS
<1>1. DOMAIN windows = {} /\ lines = {} /\ tokens \in TokenFiles
  BY DoorAssumption DEF DoorInit
<1> QED
  BY <1>1 DEF KeysInv

LEMMA KeysCount ==
  ASSUME KeysInv, UNCHANGED <<tokens, lines>>, NEW t, Member(t), Count(t)
  PROVE  KeysInv'
<1>1. t \in AllTokens
  <2>1. PICK e \in lines : e.token = t
    BY DEF Member, LineOf
  <2> QED
    BY <2>1 DEF KeysInv, AllTokens
<1>2. DOMAIN windows' \subseteq DOMAIN windows \cup {t}
  BY DEF Count, KeyOf
<1> QED
  BY <1>1, <1>2 DEF KeysInv

LEMMA KeysAside ==
  ASSUME KeysInv, UNCHANGED <<tokens, lines, windows>>
  PROVE  KeysInv'
BY DEF KeysInv

LEMMA KeysNext ==
  ASSUME KeysInv, [DoorNext]_doorAll
  PROVE  KeysInv'
<1>1. ASSUME ExportNext PROVE UNCHANGED <<tokens, lines, windows>>
  BY <1>1 DEF ExportNext, ExportStart, ExportStep, ExportEnds, accessVars
<1>2. ASSUME UNCHANGED doorAll PROVE UNCHANGED <<tokens, lines, windows>>
  BY <1>2 DEF doorAll, doorVars, accessVars
<1>3. ASSUME PushNext PROVE KeysInv'
  <2>1. ASSUME NEW o \in Outboxes, NEW n \in Numbers, NEW d \in Doors, NEW foreign \in BOOLEAN, Post(o, n, d, foreign)
        PROVE  KeysInv'
    <3>1. UNCHANGED <<tokens, lines>> /\ Authorized(MemberToken, "write", d)
      BY <2>1 DEF Post
    <3> QED
      BY <3>1, KeysCount DEF Authorized
  <2>2. ASSUME PostStep PROVE UNCHANGED <<tokens, lines, windows>>
    BY <2>2 DEF PostStep
  <2> QED
    BY <1>3, <2>1, <2>2, KeysAside DEF PushNext
<1>4. ASSUME NEW r \in Reader,
             \/ \E since \in {0, Latest(r)} : PullStart(r, since)
             \/ PullQuad(r) \/ PullWrite(r) \/ Repair(r) \/ PullOn(r) \/ PullEnds(r)
             \/ \E n \in Numbers : FileLost(r, n)
      PROVE  UNCHANGED <<tokens, lines, windows>>
  BY <1>4 DEF PullStart, PullQuad, PullWrite, Repair, PullOn, PullEnds, FileLost, accessVars
<1>5. ASSUME NEW r \in Reader, PullPage(r) PROVE KeysInv'
  <2>1. UNCHANGED <<tokens, lines>> /\ Authorized(MemberToken, "read", ReadsAt[r])
    BY <1>5 DEF PullPage
  <2> QED
    BY <2>1, KeysCount DEF Authorized
<1>6. ASSUME ServerNext PROVE KeysInv'
  <2>1. ASSUME NEW limit \in Limits, ServerStarts(limit) PROVE KeysInv'
    <3>1. lines' = tokens /\ tokens' = tokens /\ windows' = <<>>
      BY <2>1 DEF ServerStarts
    <3>2. DOMAIN windows' = {}
      BY <3>1
    <3> QED
      BY <3>1, <3>2 DEF KeysInv
  <2>2. ASSUME ServerStops PROVE KeysInv'
    <3>1. lines' = {} /\ tokens' = tokens /\ windows' = <<>>
      BY <2>2 DEF ServerStops
    <3>2. DOMAIN windows' = {}
      BY <3>1
    <3> QED
      BY <3>1, <3>2 DEF KeysInv
  <2>3. ASSUME NEW file \in TokenFiles, TokensChange(file) PROVE KeysInv'
    BY <2>3 DEF TokensChange, KeysInv
  <2>4. ASSUME NEW t, Tick \/ Refused401(t) \/ Refused429(t) PROVE UNCHANGED <<tokens, lines, windows>>
    BY <2>4 DEF Tick, Refused401, Refused429
  <2>5. ASSUME NEW t, NEW d, NEW axis, Channels(t) \/ Index(t, d) \/ Refused403(t, axis, d) PROVE KeysInv'
    <3>1. UNCHANGED <<tokens, lines>> /\ Member(t) /\ Count(t)
      BY <2>5 DEF Channels, Index, Authorized, Refused403
    <3> QED
      BY <3>1, KeysCount
  <2> QED
    BY <1>6, <2>1, <2>2, <2>3, <2>4, <2>5, KeysAside DEF ServerNext
<1> QED
  BY <1>1, <1>2, <1>3, <1>4, <1>5, <1>6, KeysAside DEF DoorNext, PullNext

LEMMA FilesAreOK == ASSUME NEW f \in FileSet PROVE FilesOK(f)
BY DEF FileSet, Envs, Sigs, FilesOK

\* Every file at an outbox, a door and a mailbox is of a letter of the lab, and the limiter
\* counts for its members only, no more than it lets through, from no time to come.
THEOREM DoorTypesAlways == DoorSpec => []DoorTypeOK
<1>1. DoorInit => KeysInv
  BY KeysFirst
<1>2. KeysInv /\ [DoorNext]_doorAll => KeysInv'
  BY KeysNext
<1>3. QuadInv /\ LimInv /\ KeysInv => DoorTypeOK
  <2> SUFFICES ASSUME QuadInv, LimInv, KeysInv PROVE DoorTypeOK
    OBVIOUS
  <2>1. \A o \in Outboxes, n \in Numbers : FilesOK(outbox[o][n])
    BY FilesAreOK DEF QuadInv, BoxInv
  <2>2. \A d \in Doors, n \in Numbers : FilesOK(door[d][n])
    BY FilesAreOK DEF QuadInv, DoorInv
  <2>3. \A r \in Reader, n \in Numbers : FilesOK(mailbox[r][n])
    BY FilesAreOK DEF QuadInv, MailInv
  <2>4. ASSUME NEW t \in DOMAIN windows PROVE windows[t].count \in 1 .. perMinute /\ windows[t].start \in 0 .. now
    <3>1. windows[t] \in WindowSet /\ windows[t].start <= now /\ windows[t].count \in 1 .. perMinute /\ now \in Nat
      BY DEF LimInv, WindowInv, StampInv
    <3> QED
      BY <3>1 DEF WindowSet
  <2> QED
    BY <2>1, <2>2, <2>3, <2>4 DEF DoorTypeOK, KeysInv
<1>4. DoorSpec => []KeysInv
  BY <1>1, <1>2, PTL DEF DoorSpec, doorAll
<1> QED
  BY <1>3, <1>4, QuadsInv, LimsInv, PTL
=============================================================================
