--------------------------- MODULE MailSendProofs ----------------------------
(***************************************************************************)
(* For any number of drafts, persons, calls and hosts: whoever was told    *)
(* how a draft was decided, or that it was sent, can rely on it; a draft   *)
(* becomes one letter, sent in its turn and in the words that were         *)
(* approved; and drafts do not pile up unread.                             *)
(***************************************************************************)
EXTENDS MailSend, TLAPS, WellFoundedInduction, FiniteSetTheorems, SequenceTheorems

\* What the steps preserve: with the answers, that there is one only where there
\* is a decision, and that what a person is about to put is a decision.
AnswerInv ==
  /\ decision \in [Draft -> Decisions \cup {None}]
  /\ deciding \in [Person -> (Draft \X Decisions) \cup {None}]
  /\ told \subseteq Draft \X Decisions
  /\ AnswersStand

answerVars == <<decision, deciding, told>>

\* Only what persons do touches decisions and answers.
LEMMA OthersLeaveAnswers ==
  ASSUME Next \/ UNCHANGED vars, ~PersonStep
  PROVE  UNCHANGED answerVars
<1>1. ASSUME FrontStep PROVE UNCHANGED answerVars
  BY <1>1 DEF FrontStep, StartPlacing, Place, store, clock, answerVars
<1>2. ASSUME TimeStep PROVE UNCHANGED answerVars
  BY <1>2 DEF TimeStep, End, Lapse, Damage, store, clock, answerVars
<1>3. ASSUME HostStep PROVE UNCHANGED answerVars
  BY <1>3 DEF HostStep, LoseDisk, OpenLedger, draftVars, store, answerVars
<1>4. ASSUME DropStep PROVE UNCHANGED answerVars
  BY <1>4 DEF DropStep, Arrive, Mirror, PutBack, PutSlotBack, Redeploy, draftVars, store, answerVars
<1>5. ASSUME NEW w \in Worker, WorkerStep(w) PROVE UNCHANGED answerVars
  <2>1. \/ \E d \in Draft \cup {None} : Call(w, d)
        \/ Export(w) \/ CannotExport(w) \/ ReadDoor(w) \/ Save(w) \/ SaveUnseen(w)
        \/ Push(w) \/ ReadBack(w) \/ Drained(w) \/ Sign(w) \/ GiveUp(w)
        => UNCHANGED draftVars
    BY DEF Call, Export, CannotExport, ReadDoor, Save, SaveUnseen, Push, ReadBack, Drained,
           Sign, GiveUp
  <2>2. (\E n \in DOMAIN box[HostOf[w]] : Report(w, n)) \/ Refuse(w) => UNCHANGED answerVars
    BY DEF Report, Refuse, answerVars
  <2> QED
    BY <1>5, <2>1, <2>2 DEF WorkerStep, draftVars, store, answerVars
<1> QED
  BY <1>1, <1>2, <1>3, <1>4, <1>5 DEF Next, StoreStep, vars, draftVars, store, answerVars

LEMMA PersonsKeepAnswers ==
  ASSUME AnswerInv, PersonStep
  PROVE  AnswerInv'
<1>1. PICK p \in Person :
        \/ \E d \in Draft, x \in Decisions : Confirm(p, d, x) \/ StartDeciding(p, d, x)
        \/ Decide(p)
  BY DEF PersonStep
<1>2. ASSUME NEW d \in Draft, NEW x \in Decisions, Confirm(p, d, x)
      PROVE  AnswerInv'
  BY <1>2 DEF Confirm, AnswerInv, AnswersStand, store
<1>3. ASSUME NEW d \in Draft, NEW x \in Decisions, StartDeciding(p, d, x)
      PROVE  AnswerInv'
  BY <1>3 DEF StartDeciding, AnswerInv, AnswersStand, store
<1>4. CASE Decide(p)
  <2> DEFINE d == deciding[p][1]
             x == deciding[p][2]
  <2>1. d \in Draft /\ x \in Decisions
    BY <1>4 DEF Decide, AnswerInv
  <2>2. decision' = IF decision[d] = None THEN [decision EXCEPT ![d] = x] ELSE decision
    BY <1>4 DEF Decide
  <2>3. told' \in {told, told \cup {<<d, x>>}} /\ (told' # told => decision'[d] = x)
    BY <1>4 DEF Decide, Told
  <2>4. deciding' = [deciding EXCEPT ![p] = None]
    BY <1>4 DEF Decide
  <2>5. ASSUME NEW t \in told PROVE decision'[t[1]] = t[2]
    \* who has an answer has it of a decision, and a decision stays
    <3>1. t[1] \in Draft /\ t[2] \in Decisions /\ decision[t[1]] = t[2]
      BY <2>5 DEF AnswerInv, AnswersStand
    <3>2. decision[t[1]] # None
      BY <3>1, DraftAssumption DEF Decisions
    <3> QED
      BY <2>1, <2>2, <3>1, <3>2 DEF AnswerInv
  <2>6. AnswersStand'
    BY <2>1, <2>3, <2>5 DEF AnswersStand
  <2> QED
    BY <2>1, <2>2, <2>3, <2>4, <2>6 DEF AnswerInv
<1> QED
  BY <1>1, <1>2, <1>3, <1>4

LEMMA AnswerInvSteps == AnswerInv /\ [Next]_vars => AnswerInv'
<1> SUFFICES ASSUME AnswerInv, Next \/ UNCHANGED vars PROVE AnswerInv'
  OBVIOUS
<1>1. CASE PersonStep
  BY <1>1, PersonsKeepAnswers
<1>2. CASE ~PersonStep
  BY <1>2, OthersLeaveAnswers DEF answerVars, AnswerInv, AnswersStand
<1> QED
  BY <1>1, <1>2

LEMMA AnswerInvInit == Init => AnswerInv
BY DEF Init, DraftInit, AnswerInv, AnswersStand

\* Of two screens that decide at the same time only one is told its own decision,
\* and what it was told stays (decide in hub_send.py, put_decision of the store).
THEOREM AnswersAlwaysStand == Spec => []AnswersStand
<1>1. AnswerInv => AnswersStand
  BY DEF AnswerInv
<1> QED
  BY <1>1, AnswerInvInit, AnswerInvSteps, PTL DEF Spec

-----------------------------------------------------------------------------
(* What was reported as sent is stored outside *)

\* What a worker read at the door as stored outside, is.
ViewHolds(w) ==
  At(w, "read") =>
    \A n \in DOMAIN run[w].remote :
      run[w].remote[n].mirrored =>
        n \in DOMAIN mirror /\ mirror[n] = run[w].remote[n].quad

KeptInv ==
  /\ run = [w \in Worker |-> run[w]]
  /\ result = [d \in Draft |-> result[d]]
  /\ \A w \in Worker : ViewHolds(w)
  /\ SentIsKept

\* The outside copy of the quads only grows.
MirrorGrows == \A n \in DOMAIN mirror : n \in DOMAIN mirror' /\ mirror'[n] = mirror[n]

\* Steps that neither write results nor let a worker go on.
Elsewhere == MirrorGrows /\ result' = result /\ run' = run

LEMMA ElsewhereKeeps ==
  ASSUME KeptInv, Elsewhere
  PROVE  KeptInv'
BY DEF KeptInv, Elsewhere, MirrorGrows, ViewHolds, At, SentIsKept

LEMMA StoreElsewhere ==
  ASSUME StoreStep
  PROVE  Elsewhere
<1>1. FrontStep => result' = result
  BY DEF FrontStep, StartPlacing, Place, store
<1>2. PersonStep => result' = result
  BY DEF PersonStep, Confirm, StartDeciding, Decide, store
<1>3. TimeStep => result' = result
  BY DEF TimeStep, End, Lapse, Damage, store
<1>4. run' = run /\ mirror' = mirror
  BY DEF StoreStep, sendVars, drop
<1> QED
  BY <1>1, <1>2, <1>3, <1>4 DEF StoreStep, Elsewhere, MirrorGrows

LEMMA DropElsewhere ==
  ASSUME DropStep
  PROVE  Elsewhere
<1>1. result' = result /\ run' = run
  BY DEF DropStep, Arrive, Mirror, PutBack, PutSlotBack, Redeploy, draftVars, store
<1>2. MirrorGrows
  BY DEF DropStep, Arrive, Mirror, PutBack, PutSlotBack, Redeploy, PutAt, MirrorGrows
<1> QED
  BY <1>1, <1>2 DEF Elsewhere

\* A step of the hosts or of a worker that writes no result: a worker rests, is
\* somewhere else than reading, goes on with what it read, or reads the index.
Moves(w) ==
  /\ mirror' = mirror
  /\ result' = result
  /\ \E r : /\ run' = [run EXCEPT ![w] = r]
            /\ r.pc = "read" => r = run[w] \/ r.remote = Index

LEMMA MovesKeep ==
  ASSUME NEW w \in Worker, KeptInv, Moves(w)
  PROVE  KeptInv'
<1>1. PICK r : /\ run' = [run EXCEPT ![w] = r]
               /\ r.pc = "read" => r = run[w] \/ r.remote = Index
  BY DEF Moves
<1>2. SentIsKept'
  BY DEF KeptInv, Moves, SentIsKept
<1>3. ASSUME NEW v \in Worker PROVE ViewHolds(v)'
  <2>1. CASE v # w \/ r = run[w]
    <3>1. run'[v] = run[v]
      BY <1>1, <2>1 DEF KeptInv
    <3> QED
      BY <3>1 DEF KeptInv, Moves, ViewHolds, At
  <2>2. CASE v = w /\ r # run[w]
    <3>1. run'[v] = r
      BY <1>1, <2>2 DEF KeptInv
    <3>2. ASSUME r.pc = "read", NEW n \in DOMAIN r.remote, r.remote[n].mirrored
          PROVE  n \in DOMAIN mirror /\ mirror[n] = r.remote[n].quad
      <4>1. r.remote = Index
        BY <1>1, <2>2, <3>2
      <4>2. n \in DOMAIN door /\ Index[n].mirrored /\ Index[n].quad = door[n]
        BY <3>2, <4>1 DEF Index
      <4>3. Index[n].mirrored = (n \in DOMAIN mirror /\ mirror[n] = door[n])
        BY <4>2, Zenon DEF Index
      <4> QED
        BY <4>1, <4>2, <4>3
    <3> QED
      BY <3>1, <3>2 DEF Moves, ViewHolds, At
  <2> QED
    BY <2>1, <2>2
<1> QED
  BY <1>1, <1>2, <1>3 DEF KeptInv, Moves

LEMMA MovesTo ==
  ASSUME NEW w \in Worker, NEW r, mirror' = mirror, result' = result,
         run' = [run EXCEPT ![w] = r],
         r.pc = "read" => r = run[w] \/ r.remote = Index
  PROVE  Moves(w)
BY DEF Moves

LEMMA WorkerMoves ==
  ASSUME NEW w \in Worker, KeptInv,
         \/ \E d \in Draft \cup {None} : Call(w, d)
         \/ Export(w) \/ CannotExport(w) \/ ReadDoor(w) \/ Save(w) \/ SaveUnseen(w)
         \/ Push(w) \/ ReadBack(w) \/ Drained(w) \/ Sign(w) \/ GiveUp(w)
  PROVE  Moves(w)
<1> DEFINE To(r) == run' = [run EXCEPT ![w] = r]
<1>1. mirror' = mirror /\ result' = result
  BY DEF Call, Export, CannotExport, ReadDoor, Save, SaveUnseen, Push, ReadBack, Drained,
         Sign, GiveUp, draftVars, store, drop
<1>2. ASSUME Return(w) PROVE Moves(w)
  <2>1. To(Rest) /\ Rest.pc # "read"
    BY <1>2 DEF Return, Rest
  <2> QED
    BY <1>1, <2>1, MovesTo
<1>3. ASSUME NEW d \in Draft \cup {None}, Call(w, d) PROVE Moves(w)
  <2> DEFINE r == [pc |-> "place", draft |-> d, signed |-> FALSE]
  <2>1. To(r) /\ r.pc # "read"
    BY <1>3 DEF Call
  <2> HIDE DEF r
  <2> QED
    BY <1>1, <2>1, MovesTo
<1>4. ASSUME Export(w) PROVE Moves(w)
  <2>1. CASE run' = run
    <3>1. To(run[w])
      BY <2>1 DEF KeptInv
    <3> QED
      BY <1>1, <3>1, MovesTo
  <2> QED
    BY <1>2, <1>4, <2>1 DEF Export
<1>5. ASSUME CannotExport(w) \/ SaveUnseen(w) \/ GiveUp(w) PROVE Moves(w)
  BY <1>2, <1>5 DEF CannotExport, SaveUnseen, GiveUp
<1>6. ASSUME ReadDoor(w) PROVE Moves(w)
  <2> DEFINE h == HostOf[w]
             absent == DOMAIN box[h] \ DOMAIN door
             r == IF ~Agree(h) THEN Rest
                  ELSE IF absent = {}
                    THEN [pc |-> "read", draft |-> run[w].draft, signed |-> run[w].signed,
                          remote |-> Index]
                    ELSE [pc |-> "save", draft |-> run[w].draft, signed |-> run[w].signed,
                          todo |-> absent]
  <2>1. To(r)
    BY <1>6 DEF ReadDoor, KeptInv
  <2>2. r.pc = "read" => r.remote = Index
    BY DEF Rest
  <2> HIDE DEF r
  <2> QED
    BY <1>1, <2>1, <2>2, MovesTo
<1>7. ASSUME NEW t, To(Pushing(run[w], t)) PROVE Moves(w)
  <2>1. Pushing(run[w], t).pc # "read"
    BY DEF Pushing
  <2> QED
    BY <1>1, <1>7, <2>1, MovesTo
<1>8. ASSUME Save(w) \/ Push(w) PROVE Moves(w)
  <2>1. Return(w) \/ \E t : To(Pushing(run[w], t))
    BY <1>8 DEF Save, Push, KeptInv
  <2> QED
    BY <1>2, <1>7, <2>1
<1>9. ASSUME ReadBack(w) PROVE Moves(w)
  <2> DEFINE r == [pc |-> "read", draft |-> run[w].draft, signed |-> run[w].signed,
                   remote |-> Index]
  <2>1. To(r) /\ r.remote = Index
    BY <1>9 DEF ReadBack, KeptInv
  <2> HIDE DEF r
  <2> QED
    BY <1>1, <2>1, MovesTo
<1>10. ASSUME Drained(w) PROVE Moves(w)
  <2> DEFINE r == [pc |-> "sign", draft |-> run[w].draft]
  <2>1. Return(w) \/ To(r)
    BY <1>10 DEF Drained, Return, KeptInv
  <2>2. r.pc # "read"
    OBVIOUS
  <2> HIDE DEF r
  <2> QED
    BY <1>1, <1>2, <2>1, <2>2, MovesTo
<1>11. ASSUME Sign(w) PROVE Moves(w)
  <2> DEFINE r == [pc |-> "place", draft |-> run[w].draft, signed |-> TRUE]
  <2>1. To(r) /\ r.pc # "read"
    BY <1>11 DEF Sign
  <2> HIDE DEF r
  <2> QED
    BY <1>1, <2>1, MovesTo
<1> QED
  BY <1>3, <1>4, <1>5, <1>6, <1>7, <1>8, <1>9, <1>10, <1>11

LEMMA ResultsKeep ==
  ASSUME NEW w \in Worker, KeptInv,
         (\E n \in DOMAIN box[HostOf[w]] : Report(w, n)) \/ Refuse(w)
  PROVE  KeptInv'
<1>1. ASSUME NEW n \in DOMAIN box[HostOf[w]], Report(w, n) PROVE KeptInv'
  <2> DEFINE q == box[HostOf[w]][n]
             d == q.letter.draft
  <2>1. run' = run /\ mirror' = mirror
    BY <1>1 DEF Report, sendVars, drop
  <2>2. n \in DOMAIN mirror /\ mirror[n] = q
    BY <1>1 DEF Report, Shown, KeptInv, ViewHolds
  <2>3. result' = [result EXCEPT ![d] = SentRecord(n, q)]
    BY <1>1 DEF Report, PutResult
  <2>4. SentRecord(n, q).n = n /\ SentRecord(n, q).quad = q
    BY DEF SentRecord
  <2>5. ASSUME NEW e \in Draft, result'[e] # None, result'[e].status = "sent"
        PROVE  result'[e].n \in DOMAIN mirror /\ mirror[result'[e].n] = result'[e].quad
    <3>1. CASE e = d
      <4>1. result'[e] = SentRecord(n, q)
        BY <2>3, <3>1 DEF KeptInv
      <4> QED
        BY <2>2, <2>4, <4>1
    <3>2. CASE e # d
      <4>1. result'[e] = result[e]
        BY <2>3, <3>2 DEF KeptInv
      <4> QED
        BY <2>5, <4>1 DEF KeptInv, SentIsKept
    <3> QED
      BY <3>1, <3>2
  <2> QED
    BY <2>1, <2>3, <2>5 DEF KeptInv, SentIsKept, ViewHolds, At
<1>2. ASSUME Refuse(w) PROVE KeptInv'
  <2> DEFINE d == run[w].draft
  <2>1. run' = [run EXCEPT ![w] = Rest] /\ mirror' = mirror
    BY <1>2 DEF Refuse, Return, drop
  <2>2. result' = result \/ result' = [result EXCEPT ![d] = Failed]
    BY <1>2 DEF Refuse, PutResult
  <2>3. Failed.status # "sent"
    BY DEF Failed
  <2>4. ASSUME NEW e \in Draft, result'[e] # None, result'[e].status = "sent"
        PROVE  result'[e] = result[e]
    BY <2>2, <2>3, <2>4 DEF KeptInv
  <2>5. SentIsKept'
    BY <2>1, <2>4 DEF KeptInv, SentIsKept
  <2>6. ASSUME NEW v \in Worker PROVE ViewHolds(v)'
    <3>1. run'[v] = run[v] \/ run'[v].pc = "rest"
      BY <2>1 DEF KeptInv, Rest
    <3> QED
      BY <2>1, <3>1 DEF KeptInv, ViewHolds, At
  <2> QED
    BY <2>1, <2>2, <2>5, <2>6 DEF KeptInv
<1> QED
  BY <1>1, <1>2

LEMMA HostsKeep ==
  ASSUME KeptInv, HostStep
  PROVE  KeptInv'
<1>1. mirror' = mirror /\ result' = result
  BY DEF HostStep, LoseDisk, OpenLedger, draftVars, store, drop
<1>2. /\ run' = [w \in Worker |-> run'[w]]
      /\ \A w \in Worker : run'[w] = run[w] \/ run'[w].pc = "rest"
  BY DEF HostStep, LoseDisk, OpenLedger, KeptInv, Rest
<1>3. ASSUME NEW w \in Worker PROVE ViewHolds(w)'
  BY <1>1, <1>2 DEF KeptInv, ViewHolds, At
<1> QED
  BY <1>1, <1>2, <1>3 DEF KeptInv, SentIsKept

LEMMA KeptInvInit == Init => KeptInv
BY DEF Init, DraftInit, KeptInv, SentIsKept, ViewHolds, At, Rest

LEMMA KeptInvSteps == KeptInv /\ [Next]_vars => KeptInv'
<1> SUFFICES ASSUME KeptInv, [Next]_vars PROVE KeptInv'
  OBVIOUS
<1>1. CASE StoreStep \/ DropStep
  BY <1>1, StoreElsewhere, DropElsewhere, ElsewhereKeeps
<1>2. CASE HostStep
  BY <1>2, HostsKeep
<1>3. ASSUME NEW w \in Worker, WorkerStep(w) PROVE KeptInv'
  BY <1>3, WorkerMoves, MovesKeep, ResultsKeep DEF WorkerStep
<1>4. CASE UNCHANGED vars
  <2>1. Elsewhere
    BY <1>4 DEF vars, draftVars, store, sendVars, drop, Elsewhere, MirrorGrows
  <2> QED
    BY <2>1, ElsewhereKeeps
<1> QED
  BY <1>1, <1>2, <1>3, <1>4 DEF Next

\* A letter is reported as sent only when it is stored outside, however old what
\* the worker read at the door is when it writes the result, and it stays there
\* (_drain_once in hub_send.py).
THEOREM SentAlwaysKept == Spec => []SentIsKept
<1>1. KeptInv => SentIsKept
  BY DEF KeptInv
<1> QED
  BY <1>1, KeptInvInit, KeptInvSteps, PTL DEF Spec

-----------------------------------------------------------------------------
(* Ledgers and outboxes *)

\* The outbox B has the first letters of the ledger E, in their order and in the words
\* placed; a draft is in the ledger once.
Fine(E, B) ==
  /\ E \in Seq(Letter)
  /\ \E m \in 0 .. Len(E) : DOMAIN B = 1 .. m
  /\ \A n \in DOMAIN B : B[n] = Quad(E[n], "placed")
  /\ \A i \in DOMAIN E : E[i].text = "placed"
  /\ \A i, j \in DOMAIN E : E[i].draft = E[j].draft => i = j

\* F and C continue E and B.
PartOf(E, B, F, C) ==
  /\ Len(E) <= Len(F)
  /\ \A i \in DOMAIN E : F[i] = E[i]
  /\ DOMAIN B \subseteq DOMAIN C

HostOK(h) ==
  /\ Fine(events[h], box[h])
  /\ Fine(base[h].events, base[h].box)
  /\ PartOf(base[h].events, base[h].box, events[h], box[h])
  /\ scraps[h] \subseteq Nat \ {0}

LedgerInv ==
  /\ events = [h \in Host |-> events[h]] /\ box = [h \in Host |-> box[h]]
  /\ base = [h \in Host |-> base[h]] /\ scraps = [h \in Host |-> scraps[h]]
  /\ open \in [Host -> BOOLEAN]
  /\ \A h \in Host : HostOK(h)
  /\ Fine(kept.events, kept.box)

\* One copy is replaced by what continues it: there is one ledger, or the slot is never
\* empty.
Orderly == Alone \/ MaxRedeploys = 0

InKept(n, q) ==
  /\ n \in Nat \ {0} /\ q \in QuadType
  /\ Orderly => n \in DOMAIN kept.box /\ kept.box[n] = q

\* Whatever left for the door is in the outside copy under its number.
OutIsKept ==
  /\ \A p \in arrived \cup flying : p = <<p[1], p[2]>> /\ InKept(p[1], p[2])
  /\ \A n \in DOMAIN door : <<n, door[n]>> \in arrived
  /\ \A n \in DOMAIN mirror : <<n, mirror[n]>> \in arrived

\* What a worker has in its hands is in the outbox of its host, and what it pushes in the
\* outside copy.
Hands(w) ==
  /\ run[w] # Rest => open[HostOf[w]]
  /\ run[w].pc = "save" => run[w].todo \subseteq DOMAIN box[HostOf[w]]
  /\ run[w].pc = "push" =>
       \A n \in run[w].todo : /\ n \in DOMAIN box[HostOf[w]]
                              /\ InKept(n, box[HostOf[w]][n])

\* What the slot shows.
SlotInv ==
  /\ redeploys \in Nat
  /\ \A copy \in slot : Fine(copy.events, copy.box)
  /\ Orderly => slot \subseteq {kept}
  /\ MaxRedeploys = 0 => slot # {}
  /\ Alone => /\ \A g, h \in Host : open[g] /\ open[h] => g = h
              /\ \A h \in Host : open[h] => base[h] = kept

SaveInv ==
  /\ LedgerInv
  /\ OutIsKept
  /\ run = [w \in Worker |-> run[w]]
  /\ \A w \in Worker : Hands(w)

\* What is in the outside copy has its shape.
LEMMA KeptHasQuads ==
  ASSUME NEW E, NEW B, Fine(E, B), NEW n \in DOMAIN B
  PROVE  n \in Nat \ {0} /\ B[n] \in QuadType
<1>1. n \in DOMAIN E /\ n \in Nat \ {0} /\ E[n] \in Letter
  BY DEF Fine
<1>2. B[n] = [letter |-> E[n], body |-> "placed"]
  BY DEF Fine, Quad
<1> QED BY <1>1, <1>2 DEF QuadType

LEMMA PartOfSelf == ASSUME NEW E, NEW B, Fine(E, B) PROVE PartOf(E, B, E, B)
BY DEF PartOf, Fine

LEMMA EmptyIsFine ==
  /\ Fine(<<>>, NoQuads)
  /\ \A F, C : Fine(F, C) => PartOf(<<>>, NoQuads, F, C)
<1>1. Len(<<>>) = 0 /\ DOMAIN <<>> = {} /\ DOMAIN NoQuads = {} /\ <<>> \in Seq(Letter)
  BY DEF NoQuads
<1>2. 0 \in 0 .. 0 /\ 1 .. 0 = {}
  OBVIOUS
<1>3. Fine(<<>>, NoQuads)
  BY <1>1, <1>2 DEF Fine
<1>4. ASSUME NEW F, NEW C, Fine(F, C)
      PROVE  PartOf(<<>>, NoQuads, F, C)
  <2>1. Len(F) \in Nat
    BY <1>4 DEF Fine
  <2> QED BY <1>1, <2>1 DEF PartOf
<1> QED BY <1>3, <1>4

\* A continuation has the same quads, and perhaps more.
LEMMA PartHasQuads ==
  ASSUME NEW E, NEW B, NEW F, NEW C, Fine(E, B), Fine(F, C), PartOf(E, B, F, C),
         NEW n \in DOMAIN B
  PROVE  n \in DOMAIN C /\ C[n] = B[n]
<1>1. n \in DOMAIN C /\ n \in DOMAIN E
  BY DEF PartOf, Fine
<1> QED BY <1>1 DEF PartOf, Fine

LEMMA PartTransitive ==
  ASSUME NEW E, NEW B, NEW F, NEW C, NEW G, NEW D,
         Fine(E, B), Fine(F, C), Fine(G, D), PartOf(E, B, F, C), PartOf(F, C, G, D)
  PROVE  PartOf(E, B, G, D)
<1>1. Len(E) \in Nat /\ Len(F) \in Nat /\ Len(G) \in Nat
      /\ DOMAIN E = 1 .. Len(E) /\ DOMAIN F = 1 .. Len(F)
  BY DEF Fine
<1>2. DOMAIN E \subseteq DOMAIN F
  BY <1>1 DEF PartOf
<1> QED BY <1>1, <1>2 DEF PartOf

-----------------------------------------------------------------------------
(* Letters are placed and signed *)

LEMMA QuadIs == ASSUME NEW l, NEW b PROVE Quad(l, b).letter = l /\ Quad(l, b).body = b
BY DEF Quad

\* A set of numbers below a bound has a highest one, and a lowest one.
LEMMA HighestExists ==
  ASSUME NEW N \in Nat, NEW S \in SUBSET (0 .. N), S # {}
  PROVE  \E n \in S : \A k \in S : k <= n
<1> DEFINE T == {N - n : n \in S}
<1>1. T \subseteq Nat /\ T # {}
  <2>1. PICK n \in S : TRUE
    OBVIOUS
  <2>2. N - n \in T
    BY <2>1
  <2>3. \A k \in S : N - k \in Nat
    OBVIOUS
  <2> QED BY <2>2, <2>3
<1>2. PICK m \in T : \A k \in T : ~ (<<k, m>> \in OpToRel(<, Nat))
  BY <1>1, NatLessThanWellFounded, WFMin
<1>3. \A k \in T : ~ (k < m)
  BY <1>1, <1>2 DEF OpToRel
<1>4. PICK n \in S : m = N - n
  OBVIOUS
<1>5. \A k \in S : k <= n
  <2> TAKE k \in S
  <2>1. N - k \in T
    OBVIOUS
  <2>2. ~ (N - k < N - n)
    BY <2>1, <1>3, <1>4
  <2> QED BY <2>2
<1> QED BY <1>5

LEMMA LowestExists ==
  ASSUME NEW S \in SUBSET Nat, S # {}
  PROVE  \E n \in S : \A k \in S : n <= k
<1>1. PICK m \in S : \A k \in S : ~ (<<k, m>> \in OpToRel(<, Nat))
  BY NatLessThanWellFounded, WFMin
<1>2. \A k \in S : ~ (k < m)
  BY <1>1 DEF OpToRel
<1> QED BY <1>2

LEMMA HighestOf ==
  ASSUME NEW m \in Nat
  PROVE  Highest(1 .. m) = m
<1>1. CASE m = 0
  <2>1. 1 .. m = {}
    BY <1>1
  <2> QED BY <1>1, <2>1 DEF Highest
<1>2. CASE m # 0
  <2>1. m \in 1 .. m /\ \A k \in 1 .. m : k <= m
    BY <1>2
  <2>2. \A n \in 1 .. m : (\A k \in 1 .. m : k <= n) => n = m
    BY <2>1
  <2>3. \E n \in 1 .. m : \A k \in 1 .. m : k <= n
    BY <2>1
  <2>4. (CHOOSE n \in 1 .. m : \A k \in 1 .. m : k <= n) = m
    BY <2>2, <2>3
  <2> QED BY <2>1, <2>4 DEF Highest
<1> QED BY <1>1, <1>2

\* The letters that are not in the outbox are the last ones; the first of them gets the
\* next number.
LEMMA UnplacedIs ==
  ASSUME NEW h, Fine(events[h], box[h]), NEW m \in 0 .. Len(events[h]), DOMAIN box[h] = 1 .. m
  PROVE  /\ Unplaced(h) = (m + 1) .. Len(events[h])
         /\ Unplaced(h) # {} => FirstUnplaced(h) = events[h][m + 1]
         /\ NextNumber(h) = m + 1
<1> DEFINE E == events[h]
           B == box[h]
<1>1. DOMAIN E = 1 .. Len(E) /\ Len(E) \in Nat /\ m \in Nat
  BY DEF Fine
<1>2. \A n \in 1 .. m : B[n].letter = E[n]
  BY QuadIs DEF Fine
<1>3. Unplaced(h) = {i \in 1 .. Len(E) : \A n \in 1 .. m : B[n].letter # E[i]}
  BY <1>1 DEF Unplaced
<1>4. \A i, j \in DOMAIN E : E[i] = E[j] => i = j
  BY DEF Fine
<1> HIDE DEF E, B
<1>5. ASSUME NEW i \in 1 .. Len(E)
      PROVE  (\A n \in 1 .. m : B[n].letter # E[i]) <=> i \in (m + 1) .. Len(E)
  <2>1. CASE i <= m
    <3>1. i \in 1 .. m /\ B[i].letter = E[i]
      BY <1>1, <1>2, <2>1
    <3> QED BY <1>1, <2>1, <3>1
  <2>2. CASE ~ (i <= m)
    <3>1. i \in (m + 1) .. Len(E)
      BY <1>1, <2>2
    <3>2. ASSUME NEW n \in 1 .. m
          PROVE  B[n].letter # E[i]
      <4>1. n \in 1 .. Len(E) /\ n # i
        BY <1>1, <2>2 DEF E
      <4>2. E[n] # E[i]
        BY <1>1, <1>4, <4>1
      <4> QED BY <1>2, <4>2
    <3> QED BY <3>1, <3>2
  <2> QED BY <2>1, <2>2
<1>6. Unplaced(h) = (m + 1) .. Len(E)
  BY <1>1, <1>3, <1>5
<1>7. ASSUME Unplaced(h) # {}
      PROVE  FirstUnplaced(h) = E[m + 1]
  <2>1. m + 1 \in Unplaced(h) /\ \A k \in Unplaced(h) : m + 1 <= k
    BY <1>1, <1>6, <1>7
  <2>2. \A i \in Unplaced(h) : (\A k \in Unplaced(h) : i <= k) => i = m + 1
    BY <1>1, <1>6, <2>1
  <2>3. (CHOOSE i \in Unplaced(h) : \A k \in Unplaced(h) : i <= k) = m + 1
    BY <2>1, <2>2
  <2> QED BY <2>3 DEF FirstUnplaced, E
<1>8. NextNumber(h) = m + 1
  <2>1. DOMAIN box[h] \cup Scraps(h) = 1 .. m
    BY DEF Scraps
  <2> QED BY <1>1, <2>1, HighestOf DEF NextNumber
<1> QED BY <1>6, <1>7, <1>8 DEF E

\* The outbox after one more letter of the ledger.
LEMMA ExportIsFine ==
  ASSUME NEW h, Fine(events[h], box[h]), Unplaced(h) # {},
         NEW q, q = Quad(FirstUnplaced(h), bytes[FirstUnplaced(h).draft]),
         BodyFits(FirstUnplaced(h)),
         NEW B, B = PutAt(box[h], NextNumber(h), q)
  PROVE  /\ Fine(events[h], B)
         /\ PartOf(events[h], box[h], events[h], B)
         /\ NextNumber(h) \in Nat \ {0}
<1> DEFINE E == events[h]
<1>1. PICK m \in 0 .. Len(E) : DOMAIN box[h] = 1 .. m
  BY DEF Fine
<1>2. /\ Unplaced(h) = (m + 1) .. Len(E)
      /\ FirstUnplaced(h) = E[m + 1]
      /\ NextNumber(h) = m + 1
  BY <1>1, UnplacedIs
<1>3. Len(E) \in Nat /\ m \in Nat /\ DOMAIN E = 1 .. Len(E)
  BY DEF Fine
<1>4. m + 1 \in DOMAIN E /\ m + 1 \in 0 .. Len(E)
  BY <1>2, <1>3
<1>5. q = Quad(E[m + 1], "placed")
  <2>1. E[m + 1].text = "placed"
    BY <1>4 DEF Fine
  <2> QED BY <1>2, <2>1 DEF BodyFits
<1>6. /\ DOMAIN B = 1 .. m \cup {m + 1}
      /\ \A k \in DOMAIN B : B[k] = IF k = m + 1 THEN q ELSE box[h][k]
  BY <1>1, <1>2 DEF PutAt
<1>7. 1 .. m \cup {m + 1} = 1 .. (m + 1)
  BY <1>3
<1>8. \A k \in DOMAIN B : B[k] = Quad(E[k], "placed")
  <2> TAKE k \in DOMAIN B
  <2>1. CASE k = m + 1
    BY <1>5, <1>6, <2>1
  <2>2. CASE k # m + 1
    <3>1. k \in DOMAIN box[h] /\ B[k] = box[h][k]
      BY <1>1, <1>6, <2>2
    <3> QED BY <3>1 DEF Fine
  <2> QED BY <2>1, <2>2
<1>9. Fine(E, B)
  BY <1>4, <1>6, <1>7, <1>8 DEF Fine
<1>10. PartOf(E, box[h], E, B)
  BY <1>1, <1>3, <1>6 DEF PartOf
<1> QED BY <1>2, <1>3, <1>9, <1>10

\* The ledger after one more letter.
LEMMA SignIsFine ==
  ASSUME NEW E, NEW B, Fine(E, B), NEW l \in Letter, l.text = "placed",
         \A i \in DOMAIN E : E[i].draft # l.draft
  PROVE  Fine(Append(E, l), B) /\ PartOf(E, B, Append(E, l), B)
<1> DEFINE F == Append(E, l)
<1>1. /\ E \in Seq(Letter) /\ Len(E) \in Nat /\ DOMAIN E = 1 .. Len(E)
      /\ F \in Seq(Letter) /\ Len(F) = Len(E) + 1 /\ DOMAIN F = 1 .. (Len(E) + 1)
      /\ F[Len(E) + 1] = l
  BY DEF Fine
<1>2. \A i \in DOMAIN E : F[i] = E[i]
  BY DEF Fine
<1> HIDE DEF F
<1>3. PartOf(E, B, F, B)
  BY <1>1, <1>2 DEF PartOf
<1>4. \E m \in 0 .. Len(F) : DOMAIN B = 1 .. m
  BY <1>1 DEF Fine
<1>5. \A n \in DOMAIN B : B[n] = Quad(F[n], "placed")
  <2> TAKE n \in DOMAIN B
  <2>1. n \in DOMAIN E
    BY <1>1 DEF Fine
  <2> QED BY <1>2, <2>1 DEF Fine
<1>6. \A i \in DOMAIN F : i \in DOMAIN E \/ i = Len(E) + 1
  BY <1>1
<1>7. \A i \in DOMAIN F : F[i].text = "placed"
  BY <1>1, <1>2, <1>6 DEF Fine
<1>8. \A i, j \in DOMAIN F : F[i].draft = F[j].draft => i = j
  BY <1>1, <1>2, <1>6 DEF Fine
<1>9. Fine(F, B)
  BY <1>1, <1>4, <1>5, <1>7, <1>8 DEF Fine
<1> QED BY <1>3, <1>9 DEF F

-----------------------------------------------------------------------------
(* Saved before sent *)

LEMMA HostThen ==
  ASSUME LedgerInv, NEW u \in Host, NEW E, NEW B, NEW c, NEW s,
         events' = [events EXCEPT ![u] = E], box' = [box EXCEPT ![u] = B],
         base' = [base EXCEPT ![u] = c], scraps' = [scraps EXCEPT ![u] = s],
         open' \in [Host -> BOOLEAN],
         Fine(E, B), Fine(c.events, c.box), PartOf(c.events, c.box, E, B), s \subseteq Nat \ {0},
         Fine(kept'.events, kept'.box)
  PROVE  /\ LedgerInv'
         /\ \A h \in Host : h # u => events'[h] = events[h] /\ box'[h] = box[h] /\ base'[h] = base[h]
         /\ events'[u] = E /\ box'[u] = B /\ base'[u] = c
<1>1. DOMAIN events = Host /\ DOMAIN box = Host /\ DOMAIN base = Host /\ DOMAIN scraps = Host
  BY DEF LedgerInv
<1>2. /\ events' = [h \in Host |-> events'[h]] /\ box' = [h \in Host |-> box'[h]]
      /\ base' = [h \in Host |-> base'[h]] /\ scraps' = [h \in Host |-> scraps'[h]]
  BY <1>1
<1>3. events'[u] = E /\ box'[u] = B /\ base'[u] = c /\ scraps'[u] = s
  BY <1>1
<1>4. \A h \in Host : h # u => /\ events'[h] = events[h] /\ box'[h] = box[h]
                               /\ base'[h] = base[h] /\ scraps'[h] = scraps[h]
  BY <1>1
<1>5. ASSUME NEW h \in Host PROVE HostOK(h)'
  <2>1. CASE h = u
    BY <1>3, <2>1 DEF HostOK
  <2>2. CASE h # u
    <3>1. HostOK(h)
      BY DEF LedgerInv
    <3> QED BY <1>4, <2>2, <3>1 DEF HostOK
  <2> QED BY <2>1, <2>2
<1>6. Fine(kept.events, kept.box)'
  BY DEF Fine
<1>7. open' \in [Host -> BOOLEAN]
  OBVIOUS
<1>8. LedgerInv'
  BY <1>2, <1>5, <1>6, <1>7 DEF LedgerInv
<1> QED BY <1>3, <1>4, <1>8

\* Nothing happens to ledgers and outboxes.
LEMMA LedgerStays ==
  ASSUME LedgerInv, UNCHANGED <<open, events, box, base, kept>>,
         scraps' = [h \in Host |-> scraps'[h]], \A h \in Host : scraps'[h] \subseteq Nat \ {0}
  PROVE  LedgerInv'
<1>1. ASSUME NEW h \in Host PROVE HostOK(h)'
  BY DEF LedgerInv, HostOK, Fine, PartOf
<1> QED BY <1>1 DEF LedgerInv, Fine

KeptGrows == Orderly => PartOf(kept.events, kept.box, kept'.events, kept'.box)

LEMMA InKeptStays ==
  ASSUME Fine(kept.events, kept.box), Fine(kept'.events, kept'.box), KeptGrows,
         NEW n, NEW q, InKept(n, q)
  PROVE  InKept(n, q)'
BY PartHasQuads DEF InKept, KeptGrows

LEMMA OutStays ==
  ASSUME OutIsKept, Fine(kept.events, kept.box), Fine(kept'.events, kept'.box), KeptGrows,
         UNCHANGED <<door, mirror, arrived>>, flying' \subseteq flying
  PROVE  OutIsKept'
<1>1. \A p \in arrived \cup flying : p = <<p[1], p[2]>> /\ InKept(p[1], p[2])'
  BY InKeptStays DEF OutIsKept
<1> QED BY <1>1 DEF OutIsKept

LEMMA HandsStay ==
  ASSUME NEW w \in Worker, Hands(w), run'[w] = run[w],
         open[HostOf[w]] => open'[HostOf[w]],
         \A n \in DOMAIN box[HostOf[w]] :
           n \in DOMAIN box'[HostOf[w]] /\ box'[HostOf[w]][n] = box[HostOf[w]][n],
         Fine(kept.events, kept.box), Fine(kept'.events, kept'.box), KeptGrows
  PROVE  Hands(w)'
<1>1. run'[w] # Rest => open'[HostOf[w]]
  BY DEF Hands
<1>2. run'[w].pc = "save" => run'[w].todo \subseteq DOMAIN box'[HostOf[w]]
  BY DEF Hands
<1>3. ASSUME run'[w].pc = "push", NEW n \in run'[w].todo
      PROVE  n \in DOMAIN box'[HostOf[w]] /\ InKept(n, box[HostOf[w]][n])'
  <2>1. n \in DOMAIN box[HostOf[w]] /\ InKept(n, box[HostOf[w]][n])
    BY <1>3 DEF Hands
  <2>2. PICK q : q = box[HostOf[w]][n]
    OBVIOUS
  <2>3. InKept(n, q)'
    BY <2>1, <2>2, InKeptStays
  <2>4. n \in DOMAIN box'[HostOf[w]] /\ box'[HostOf[w]][n] = q
    BY <2>1, <2>2
  <2> QED BY <2>3, <2>4 DEF InKept
<1> QED BY <1>1, <1>2, <1>3 DEF Hands

LEMMA RestHands == ASSUME NEW w, run[w] = Rest PROVE Hands(w)
<1>1. Rest.pc = "rest"
  BY DEF Rest
<1> QED BY <1>1 DEF Hands

\* A worker goes on and changes neither ledgers nor outboxes nor the door.
Walks(w) ==
  /\ UNCHANGED <<open, events, box, base, kept, drop>>
  /\ scraps' = [h \in Host |-> scraps'[h]]
  /\ \A h \in Host : scraps'[h] \subseteq Nat \ {0}
  /\ \E r : /\ run' = [run EXCEPT ![w] = r]
            /\ \/ r = Rest
               \/ /\ open[HostOf[w]]
                  /\ r.pc # "push"
                  /\ r.pc = "save" => r.todo \subseteq DOMAIN box[HostOf[w]]

LEMMA WalksTo ==
  ASSUME NEW w \in Worker, LedgerInv, NEW r,
         UNCHANGED <<open, events, box, base, kept, drop>>,
         scraps' = scraps \/ scraps' = [scraps EXCEPT ![HostOf[w]] = {}],
         run' = [run EXCEPT ![w] = r],
         \/ r = Rest
         \/ /\ open[HostOf[w]]
            /\ r.pc # "push"
            /\ r.pc = "save" => r.todo \subseteq DOMAIN box[HostOf[w]]
  PROVE  Walks(w)
<1>1. scraps = [h \in Host |-> scraps[h]] /\ \A h \in Host : scraps[h] \subseteq Nat \ {0}
  BY DEF LedgerInv, HostOK
<1>2. HostOf[w] \in Host
  BY SendAssumption
<1>3. scraps' = [h \in Host |-> scraps'[h]] /\ \A h \in Host : scraps'[h] \subseteq Nat \ {0}
  BY <1>1, <1>2
<1> QED BY <1>3 DEF Walks

LEMMA ActionWalks ==
  ASSUME SaveInv, NEW w \in Worker,
         \/ \E d \in Draft \cup {None} : Call(w, d)
         \/ CannotExport(w) \/ ReadDoor(w) \/ ReadBack(w)
         \/ \E n \in DOMAIN box[HostOf[w]] : Report(w, n)
         \/ Drained(w) \/ Refuse(w) \/ GiveUp(w)
  PROVE  Walks(w)
<1> DEFINE h == HostOf[w]
           To(r) == run' = [run EXCEPT ![w] = r]
<1>1. UNCHANGED <<open, events, box, base, kept, drop>>
  BY DEF Call, CannotExport, ReadDoor, ReadBack, Report, Drained, Refuse, GiveUp, disk, sendVars
<1>2. scraps' = scraps \/ scraps' = [scraps EXCEPT ![h] = {}]
  BY DEF Call, CannotExport, ReadDoor, ReadBack, Report, Drained, Refuse, GiveUp, disk, sendVars,
         Scraps
<1>3. LedgerInv /\ run = [v \in Worker |-> run[v]] /\ Hands(w)
  BY DEF SaveInv
<1>4. ASSUME Return(w) PROVE Walks(w)
  BY <1>1, <1>2, <1>3, <1>4, WalksTo DEF Return
<1>5. run[w].pc # "rest" => open[h]
  BY <1>3 DEF Hands, Rest
<1>6. ASSUME NEW d \in Draft \cup {None}, Call(w, d) PROVE Walks(w)
  <2> DEFINE r == [pc |-> "place", draft |-> d, signed |-> FALSE]
  <2>1. To(r) /\ open[h] /\ r.pc = "place"
    BY <1>6 DEF Call
  <2> HIDE DEF r
  <2> QED BY <1>1, <1>2, <1>3, <2>1, WalksTo
<1>7. CASE CannotExport(w) \/ Refuse(w) \/ GiveUp(w)
  BY <1>4, <1>7 DEF CannotExport, Refuse, GiveUp
<1>8. CASE ReadDoor(w)
  <2> DEFINE absent == DOMAIN box[h] \ DOMAIN door
             r == IF ~Agree(h) THEN Rest
                  ELSE IF absent = {}
                    THEN [pc |-> "read", draft |-> run[w].draft, signed |-> run[w].signed,
                          remote |-> Index]
                    ELSE [pc |-> "save", draft |-> run[w].draft, signed |-> run[w].signed,
                          todo |-> absent]
  <2>1. To(r)
    BY <1>3, <1>8 DEF ReadDoor
  <2>2. open[h]
    BY <1>5, <1>8 DEF ReadDoor, At
  <2>3. r.pc # "push" /\ (r.pc = "save" => r.todo \subseteq DOMAIN box[h])
    BY DEF Rest
  <2> HIDE DEF r
  <2> QED BY <1>1, <1>2, <1>3, <2>1, <2>2, <2>3, WalksTo
<1>9. CASE ReadBack(w)
  <2> DEFINE r == [pc |-> "read", draft |-> run[w].draft, signed |-> run[w].signed,
                   remote |-> Index]
  <2>1. To(r) /\ r.pc = "read"
    BY <1>3, <1>9 DEF ReadBack
  <2>2. open[h]
    BY <1>5, <1>9 DEF ReadBack, At
  <2> HIDE DEF r
  <2> QED BY <1>1, <1>2, <1>3, <2>1, <2>2, WalksTo
<1>10. ASSUME NEW n \in DOMAIN box[h], Report(w, n) PROVE Walks(w)
  <2>1. To(run[w]) /\ run[w].pc = "read"
    BY <1>3, <1>10 DEF Report, At, sendVars
  <2>2. open[h]
    BY <1>5, <2>1
  <2> QED BY <1>1, <1>2, <1>3, <2>1, <2>2, WalksTo
<1>11. CASE Drained(w)
  <2> DEFINE r == [pc |-> "sign", draft |-> run[w].draft]
  <2>1. Return(w) \/ To(r)
    BY <1>3, <1>11 DEF Drained, Return
  <2>2. open[h] /\ r.pc = "sign"
    BY <1>5, <1>11 DEF Drained, At
  <2> HIDE DEF r
  <2> QED BY <1>1, <1>2, <1>3, <1>4, <2>1, <2>2, WalksTo
<1> QED BY <1>6, <1>7, <1>8, <1>9, <1>10, <1>11

LEMMA WalksSave ==
  ASSUME SaveInv, NEW u \in Worker, Walks(u)
  PROVE  SaveInv'
<1>1. PICK r : /\ run' = [run EXCEPT ![u] = r]
               /\ \/ r = Rest
                  \/ /\ open[HostOf[u]]
                     /\ r.pc # "push"
                     /\ r.pc = "save" => r.todo \subseteq DOMAIN box[HostOf[u]]
  BY DEF Walks
<1>2. UNCHANGED <<open, events, box, base, kept, door, mirror, arrived, flying>>
  BY DEF Walks, drop
<1>3. LedgerInv'
  BY <1>2, LedgerStays DEF SaveInv, Walks
<1>4. Fine(kept.events, kept.box) /\ Fine(kept'.events, kept'.box) /\ KeptGrows
  BY <1>2, PartOfSelf DEF SaveInv, LedgerInv, KeptGrows
<1>5. OutIsKept'
  BY <1>2, <1>4, OutStays DEF SaveInv
<1>6. run' = [w \in Worker |-> run'[w]] /\ run'[u] = r /\ \A w \in Worker : w # u => run'[w] = run[w]
  BY <1>1 DEF SaveInv
<1>7. ASSUME NEW w \in Worker PROVE Hands(w)'
  <2>1. CASE w # u
    BY <1>2, <1>4, <1>6, <2>1, HandsStay DEF SaveInv
  <2>2. CASE w = u
    <3>1. Rest.pc = "rest"
      BY DEF Rest
    <3> QED BY <1>1, <1>2, <1>6, <2>2, <3>1 DEF Hands
  <2> QED BY <2>1, <2>2
<1> QED BY <1>3, <1>5, <1>6, <1>7 DEF SaveInv

\* What a worker may have in its hands after a step.
HasAfter(w, r) ==
  \/ r = run[w]
  \/ r = Rest
  \/ open'[HostOf[w]] /\ r.pc = "place"
  \/ /\ open'[HostOf[w]]
     /\ r.pc = "push"
     /\ \A n \in r.todo : n \in DOMAIN box'[HostOf[w]] /\ InKept(n, box[HostOf[w]][n])'

BoxesGrow ==
  \A h \in Host : \A n \in DOMAIN box[h] : n \in DOMAIN box'[h] /\ box'[h][n] = box[h][n]

\* A step of a worker after which every outbox has what it had.
LEMMA GoesOnSave ==
  ASSUME SaveInv, NEW u \in Worker, LedgerInv', KeptGrows, OutIsKept', BoxesGrow, open' = open,
         NEW r, run' = [run EXCEPT ![u] = r], HasAfter(u, r)
  PROVE  SaveInv'
<1>1. Fine(kept.events, kept.box) /\ Fine(kept'.events, kept'.box)
  BY DEF SaveInv, LedgerInv, Fine
<1>2. run' = [w \in Worker |-> run'[w]] /\ run'[u] = r /\ \A w \in Worker : w # u => run'[w] = run[w]
  BY DEF SaveInv
<1>3. ASSUME NEW w \in Worker, run'[w] = run[w] PROVE Hands(w)'
  <2>1. HostOf[w] \in Host
    BY SendAssumption
  <2>2. \A n \in DOMAIN box[HostOf[w]] :
          n \in DOMAIN box'[HostOf[w]] /\ box'[HostOf[w]][n] = box[HostOf[w]][n]
    BY <2>1 DEF BoxesGrow
  <2> QED BY <1>1, <1>3, <2>2, HandsStay DEF SaveInv
<1>4. ASSUME r # run[u] PROVE Hands(u)'
  <2>1. Rest.pc = "rest"
    BY DEF Rest
  <2>2. CASE r = Rest
    BY <1>2, <2>1, <2>2 DEF Hands
  <2>3. CASE open'[HostOf[u]] /\ r.pc = "place"
    BY <1>2, <2>3 DEF Hands
  <2>4. CASE /\ open'[HostOf[u]]
             /\ r.pc = "push"
             /\ \A n \in r.todo : n \in DOMAIN box'[HostOf[u]] /\ InKept(n, box[HostOf[u]][n])'
    BY <1>2, <2>4 DEF Hands
  <2> QED BY <1>4, <2>2, <2>3, <2>4 DEF HasAfter
<1>5. ASSUME NEW w \in Worker PROVE Hands(w)'
  BY <1>2, <1>3, <1>4
<1> QED BY <1>2, <1>5 DEF SaveInv

LEMMA ExportSaves ==
  ASSUME SaveInv, NEW w \in Worker, Export(w)
  PROVE  SaveInv'
<1> DEFINE h == HostOf[w]
           l == FirstUnplaced(h)
           B == PutAt(box[h], NextNumber(h), Quad(l, bytes[l.draft]))
<1>1. h \in Host /\ LedgerInv /\ HostOK(h) /\ run = [v \in Worker |-> run[v]] /\ Hands(w)
  BY SendAssumption DEF SaveInv, LedgerInv
<1>2. UNCHANGED <<open, events, base, kept, slot, door, mirror, arrived, flying>>
  BY DEF Export, drop
<1>3. Unplaced(h) # {} /\ BodyFits(l)
  BY DEF Export
<1>4. /\ Fine(events[h], box[h]) /\ Fine(base[h].events, base[h].box)
      /\ PartOf(base[h].events, base[h].box, events[h], box[h])
  BY <1>1 DEF HostOK
<1> HIDE DEF l, B
<1>5. /\ Fine(events[h], B)
      /\ PartOf(events[h], box[h], events[h], B)
      /\ NextNumber(h) \in Nat \ {0}
  BY <1>3, <1>4, ExportIsFine DEF l, B
<1>6. CASE /\ box' = [box EXCEPT ![h] = B]
           /\ scraps' = [scraps EXCEPT ![h] = {}]
           /\ run' = run
  <2>1. PartOf(base[h].events, base[h].box, events[h], B)
    BY <1>4, <1>5, PartTransitive
  <2>2. events' = [events EXCEPT ![h] = events[h]] /\ base' = [base EXCEPT ![h] = base[h]]
    BY <1>1, <1>2 DEF LedgerInv
  <2>3. Fine(kept'.events, kept'.box) /\ open' \in [Host -> BOOLEAN] /\ {} \subseteq Nat \ {0}
    BY <1>1, <1>2 DEF LedgerInv
  <2>4. PICK s, c : s = {} /\ c = base[h]
    OBVIOUS
  <2>9. /\ LedgerInv'
        /\ \A g \in Host : g # h => box'[g] = box[g]
        /\ box'[h] = B
    <3>1. s \subseteq Nat \ {0} /\ scraps' = [scraps EXCEPT ![h] = s] /\ base' = [base EXCEPT ![h] = c]
      BY <1>6, <2>2, <2>4
    <3>2. Fine(c.events, c.box) /\ PartOf(c.events, c.box, events[h], B)
      BY <1>4, <2>1, <2>4
    <3>3. LedgerInv'
      BY <1>1, <1>5, <1>6, <2>2, <2>3, <3>1, <3>2, HostThen
    <3>4. DOMAIN box = Host
      BY <1>1 DEF LedgerInv
    <3> QED BY <1>1, <1>6, <3>3, <3>4
  <2>5. BoxesGrow
    BY <1>4, <1>5, <2>9, PartHasQuads DEF BoxesGrow
  <2>6. Fine(kept.events, kept.box) /\ KeptGrows
    BY <1>1, <1>2, PartOfSelf DEF LedgerInv, KeptGrows
  <2>7. OutIsKept'
    BY <1>2, <2>3, <2>6, OutStays DEF SaveInv
  <2>8. run' = [run EXCEPT ![w] = run[w]] /\ HasAfter(w, run[w])
    BY <1>1, <1>6 DEF HasAfter
  <2> QED BY <1>2, <2>9, <2>5, <2>6, <2>7, <2>8, GoesOnSave
<1>7. CASE /\ scraps' = [scraps EXCEPT ![h] = {NextNumber(h)}]
           /\ box' = box
           /\ Return(w)
  <2>1. scraps = [g \in Host |-> scraps[g]] /\ \A g \in Host : scraps[g] \subseteq Nat \ {0}
    BY <1>1 DEF LedgerInv, HostOK
  <2>2. {NextNumber(h)} \subseteq Nat \ {0}
    BY <1>5
  <2>3. scraps' = [g \in Host |-> scraps'[g]] /\ \A g \in Host : scraps'[g] \subseteq Nat \ {0}
    BY <1>7, <2>1, <2>2
  <2>4. Walks(w)
    BY <1>2, <1>7, <2>3 DEF Walks, Return, drop
  <2> QED BY <2>4, WalksSave
<1> QED BY <1>6, <1>7 DEF Export, l, B, Scraps

LEMMA SaveSaves ==
  ASSUME SaveInv, SlotInv, NEW w \in Worker, Save(w) \/ SaveUnseen(w)
  PROVE  SaveInv' /\ SlotInv'
<1> DEFINE h == HostOf[w]
           c == Content(h)
<1>1. h \in Host /\ LedgerInv /\ HostOK(h) /\ run = [v \in Worker |-> run[v]] /\ Hands(w)
  BY SendAssumption DEF SaveInv, LedgerInv
<1>2. UNCHANGED <<open, events, box, scraps, door, mirror, arrived, flying, redeploys>>
  BY DEF Save, SaveUnseen
<1>3. /\ slot \subseteq {base[h]} /\ slot' = {c} /\ base' = [base EXCEPT ![h] = c]
      /\ kept' \in {kept, c} /\ (base[h] = kept => kept' = c) /\ run[w].pc = "save"
  BY DEF Save, SaveUnseen, PutOutside, NewestAfter, Continues, Saved, At
<1>4. c.events = events[h] /\ c.box = box[h]
  BY DEF Content
<1> HIDE DEF c
<1>5. /\ Fine(events[h], box[h]) /\ Fine(base[h].events, base[h].box)
      /\ PartOf(base[h].events, base[h].box, events[h], box[h]) /\ scraps[h] \subseteq Nat \ {0}
  BY <1>1 DEF HostOK
<1>10. open[h] /\ run[w].todo \subseteq DOMAIN box[h]
  <2>1. Rest.pc = "rest"
    BY DEF Rest
  <2> QED BY <1>1, <1>3, <2>1 DEF Hands
\* who is saved in order continues the newest copy
<1>15. Orderly => base[h] = kept /\ kept' = c
  <2>1. Alone => base[h] = kept
    BY <1>1, <1>10 DEF SlotInv
  <2>2. MaxRedeploys = 0 => base[h] = kept
    BY <1>3 DEF SlotInv, Orderly
  <2> QED BY <1>3, <2>1, <2>2 DEF Orderly
<1>6. KeptGrows /\ Fine(kept.events, kept.box) /\ Fine(kept'.events, kept'.box)
  BY <1>1, <1>3, <1>4, <1>5, <1>15 DEF KeptGrows, LedgerInv
<1>7. LedgerInv'
  <2>1. /\ events' = [events EXCEPT ![h] = events[h]] /\ box' = [box EXCEPT ![h] = box[h]]
        /\ scraps' = [scraps EXCEPT ![h] = scraps[h]] /\ base' = [base EXCEPT ![h] = c]
        /\ open' \in [Host -> BOOLEAN]
    BY <1>1, <1>2, <1>3 DEF LedgerInv
  <2>2. PartOf(c.events, c.box, events[h], box[h])
    BY <1>4, <1>5, PartOfSelf
  <2>3. Fine(c.events, c.box) /\ Fine(kept'.events, kept'.box)
    BY <1>4, <1>5, <1>6
  <2>4. PICK E, B, s : E = events[h] /\ B = box[h] /\ s = scraps[h]
    OBVIOUS
  <2>5. /\ events' = [events EXCEPT ![h] = E] /\ box' = [box EXCEPT ![h] = B]
        /\ scraps' = [scraps EXCEPT ![h] = s]
        /\ Fine(E, B) /\ PartOf(c.events, c.box, E, B) /\ s \subseteq Nat \ {0}
    BY <1>5, <2>1, <2>2, <2>4
  <2> QED BY <1>1, <2>1, <2>3, <2>5, HostThen
<1>8. OutIsKept'
  BY <1>2, <1>6, OutStays DEF SaveInv
<1>9. BoxesGrow
  BY <1>2 DEF BoxesGrow
<1>16. SlotInv'
  <2>1. DOMAIN base = Host
    BY <1>1 DEF LedgerInv
  <2>2. Alone => \A g \in Host : open'[g] => base'[g] = kept'
    <3> SUFFICES ASSUME Alone, NEW g \in Host, open'[g] PROVE base'[g] = kept'
      OBVIOUS
    <3>1. g = h
      BY <1>1, <1>2, <1>10 DEF SlotInv
    <3> QED BY <1>1, <1>3, <1>15, <2>1, <3>1 DEF Orderly
  <2> QED BY <1>2, <1>3, <1>4, <1>5, <1>15, <2>2 DEF SlotInv
<1>17. ASSUME NEW n \in run[w].todo PROVE n \in DOMAIN box[h] /\ InKept(n, box[h][n])'
  <2>1. n \in DOMAIN box[h] /\ n \in Nat \ {0} /\ box[h][n] \in QuadType
    BY <1>5, <1>10, KeptHasQuads
  <2> QED BY <1>2, <1>4, <1>15, <2>1 DEF InKept
<1>11. CASE run' = [run EXCEPT ![w] = Pushing(run[w], run[w].todo)]
  <2>1. PICK r : r = Pushing(run[w], run[w].todo)
    OBVIOUS
  <2>2. r.pc = "push" /\ r.todo = run[w].todo
    BY <2>1 DEF Pushing
  <2>3. HasAfter(w, r)
    BY <1>2, <1>10, <1>17, <2>2 DEF HasAfter
  <2> QED BY <1>2, <1>6, <1>7, <1>8, <1>9, <1>11, <1>16, <2>1, <2>3, GoesOnSave
<1>12. CASE run' = [run EXCEPT ![w] = Rest]
  <2>1. HasAfter(w, Rest)
    BY DEF HasAfter
  <2> QED BY <1>2, <1>6, <1>7, <1>8, <1>9, <1>12, <1>16, <2>1, GoesOnSave
<1>13. Save(w) => run' = [run EXCEPT ![w] = Pushing(run[w], run[w].todo)]
  BY <1>1 DEF Save
<1>14. SaveUnseen(w) => run' = [run EXCEPT ![w] = Rest]
  BY DEF SaveUnseen, Return
<1> QED BY <1>11, <1>12, <1>13, <1>14, <1>16

\* One more quad at the door, of those that are in the outside copy.
LEMMA TakeStaysKept ==
  ASSUME OutIsKept, NEW n, NEW q, InKept(n, q), UNCHANGED <<kept, mirror>>,
         flying' \subseteq flying \cup {<<n, q>>},
         Take(n, q) \/ UNCHANGED <<door, arrived>>
  PROVE  OutIsKept'
<1>1. arrived' \subseteq arrived \cup {<<n, q>>} /\ arrived \subseteq arrived'
  BY DEF Take
<1>2. ASSUME NEW k \in DOMAIN door' PROVE <<k, door'[k]>> \in arrived'
  <2>1. CASE k \in DOMAIN door /\ door'[k] = door[k]
    BY <1>1, <2>1 DEF OutIsKept
  <2>2. CASE ~ (k \in DOMAIN door /\ door'[k] = door[k])
    <3>1. door' = PutAt(door, n, q) /\ arrived' = arrived \cup {<<n, q>>}
      BY <1>2, <2>2 DEF Take
    <3>2. k = n /\ door'[k] = q
      BY <1>2, <2>2, <3>1 DEF PutAt
    <3> QED BY <3>1, <3>2
  <2> QED BY <2>1, <2>2
<1>3. ASSUME NEW p \in arrived' \cup flying'
      PROVE  p = <<p[1], p[2]>> /\ InKept(p[1], p[2])'
  <2>1. CASE p \in arrived \cup flying
    BY <2>1 DEF OutIsKept, InKept
  <2>2. CASE p = <<n, q>>
    BY <2>2 DEF InKept
  <2> QED BY <1>1, <2>1, <2>2
<1>4. \A k \in DOMAIN mirror' : <<k, mirror'[k]>> \in arrived'
  BY <1>1 DEF OutIsKept
<1> QED BY <1>2, <1>3, <1>4 DEF OutIsKept

\* What is to be pushed has a lowest number.
LEMMA NextOf ==
  ASSUME NEW S \in SUBSET Nat, S # {}
  PROVE  (CHOOSE k \in S : \A m \in S : k <= m) \in S
<1>1. \E k \in S : \A m \in S : k <= m
  BY LowestExists
<1> QED BY <1>1

LEMMA PushSaves ==
  ASSUME SaveInv, NEW w \in Worker, Push(w)
  PROVE  SaveInv'
<1> DEFINE h == HostOf[w]
<1>1. h \in Host /\ LedgerInv /\ HostOK(h) /\ run = [v \in Worker |-> run[v]] /\ Hands(w)
  BY SendAssumption DEF SaveInv, LedgerInv
<1>2. UNCHANGED <<open, events, box, scraps, base, kept, mirror>>
  BY DEF Push, disk
<1>3. run[w].pc = "push" /\ run[w].todo # {}
  BY DEF Push, At
<1>4. \A k \in run[w].todo : k \in DOMAIN box[h] /\ InKept(k, box[h][k])
  BY <1>1, <1>3 DEF Hands
<1>5. run[w].todo \subseteq Nat
  BY <1>1, <1>4 DEF HostOK, Fine
<1>6. PICK n, q : n = (CHOOSE k \in run[w].todo : \A m \in run[w].todo : k <= m) /\ q = box[h][n]
  OBVIOUS
<1>7. n \in run[w].todo /\ InKept(n, q)
  BY <1>3, <1>4, <1>5, <1>6, NextOf
<1>8. /\ flying' \subseteq flying \cup {<<n, q>>}
      /\ Take(n, q) \/ UNCHANGED <<door, arrived>>
  BY <1>6, Zenon DEF Push
<1>9. OutIsKept'
  BY <1>2, <1>7, <1>8, TakeStaysKept DEF SaveInv
<1>10. LedgerInv'
  <2>1. scraps' = [g \in Host |-> scraps'[g]] /\ \A g \in Host : scraps'[g] \subseteq Nat \ {0}
    BY <1>1, <1>2 DEF LedgerInv, HostOK
  <2> QED BY <1>1, <1>2, <2>1, LedgerStays
<1>11. KeptGrows /\ BoxesGrow
  BY <1>1, <1>2, PartOfSelf DEF LedgerInv, KeptGrows, BoxesGrow
<1>12. PICK r : r = Pushing(run[w], run[w].todo \ {n})
  OBVIOUS
<1>13. run' = [run EXCEPT ![w] = r] \/ run' = [run EXCEPT ![w] = Rest]
  BY <1>6, <1>12 DEF Push, Return
<1>14. HasAfter(w, Rest)
  BY DEF HasAfter
<1>15. HasAfter(w, r)
  <2>1. r.pc = "push" /\ r.todo = run[w].todo \ {n}
    BY <1>12 DEF Pushing
  <2>2. open[h]
    <3>1. Rest.pc = "rest"
      BY DEF Rest
    <3> QED BY <1>1, <1>3, <3>1 DEF Hands
  <2> QED BY <1>2, <1>4, <2>1, <2>2 DEF HasAfter, InKept
<1> QED BY <1>2, <1>9, <1>10, <1>11, <1>13, <1>14, <1>15, GoesOnSave

\* Whose draft a call is about.
About(r) ==
  \/ r = Rest
  \/ /\ r.draft \in Draft \cup {None}
     /\ r.pc = "sign" => r.draft \in Draft

LEMMA SignSaves ==
  ASSUME SaveInv, NEW w \in Worker, About(run[w]), Sign(w)
  PROVE  SaveInv'
<1> DEFINE h == HostOf[w]
           d == run[w].draft
<1>1. h \in Host /\ LedgerInv /\ HostOK(h) /\ run = [v \in Worker |-> run[v]] /\ Hands(w)
  BY SendAssumption DEF SaveInv, LedgerInv
<1>2. UNCHANGED <<open, box, scraps, base, kept, door, mirror, arrived, flying>>
  BY DEF Sign, drop
<1>3. run[w].pc = "sign" /\ Rest.pc = "rest"
  BY DEF Sign, At, Rest
<1>4. d \in Draft /\ open[h]
  BY <1>1, <1>3 DEF About, Hands
<1>5. /\ Fine(events[h], box[h]) /\ Fine(base[h].events, base[h].box)
      /\ PartOf(base[h].events, base[h].box, events[h], box[h]) /\ scraps[h] \subseteq Nat \ {0}
  BY <1>1 DEF HostOK
<1>6. PICK r : r = [pc |-> "place", draft |-> d, signed |-> TRUE]
  OBVIOUS
<1>7. HasAfter(w, r)
  BY <1>2, <1>4, <1>6 DEF HasAfter
<1>8. run' = [run EXCEPT ![w] = r]
  BY <1>6 DEF Sign
<1>9. KeptGrows /\ BoxesGrow
  BY <1>1, <1>2, PartOfSelf DEF LedgerInv, KeptGrows, BoxesGrow
<1>10. OutIsKept'
  BY <1>2 DEF SaveInv, OutIsKept, InKept
<1>11. CASE events' = events
  <2>1. scraps' = [g \in Host |-> scraps'[g]] /\ \A g \in Host : scraps'[g] \subseteq Nat \ {0}
    BY <1>1, <1>2 DEF LedgerInv, HostOK
  <2>2. LedgerInv'
    BY <1>1, <1>2, <1>11, <2>1, LedgerStays
  <2> QED BY <1>2, <1>7, <1>8, <1>9, <1>10, <2>2, GoesOnSave
<1>12. CASE events' # events
  <2>1. Prior(h, d) = {} /\ bytes[d] = "placed"
    BY <1>12 DEF Sign, Refused
  <2>2. PICK s \in Stamp :
          events' = [events EXCEPT ![h] = Append(@, [draft |-> d, text |-> bytes[d], stamp |-> s])]
    BY <1>12 DEF Sign
  <2>3. PICK l, F : l = [draft |-> d, text |-> bytes[d], stamp |-> s] /\ F = Append(events[h], l)
    OBVIOUS
  <2>4. l \in Letter /\ l.text = "placed" /\ l.draft = d
    BY <1>4, <2>1, <2>3 DEF Letter
  <2>5. \A i \in DOMAIN events[h] : events[h][i].draft # l.draft
    <3>1. \A i \in DOMAIN events[h] : events[h][i] \in ToSet(events[h]) /\ events[h][i].text = "placed"
      BY <1>5 DEF ToSet, Fine
    <3> QED BY <2>1, <2>4, <3>1 DEF Prior
  <2>6. Fine(F, box[h]) /\ PartOf(events[h], box[h], F, box[h])
    BY <1>5, <2>3, <2>4, <2>5, SignIsFine
  <2>7. PartOf(base[h].events, base[h].box, F, box[h])
    BY <1>5, <2>6, PartTransitive
  <2>8. /\ events' = [events EXCEPT ![h] = F] /\ box' = [box EXCEPT ![h] = box[h]]
        /\ base' = [base EXCEPT ![h] = base[h]] /\ scraps' = [scraps EXCEPT ![h] = scraps[h]]
    BY <1>1, <1>2, <2>2, <2>3 DEF LedgerInv
  <2>9. Fine(kept'.events, kept'.box) /\ open' \in [Host -> BOOLEAN]
    BY <1>1, <1>2 DEF LedgerInv
  <2>10. PICK c, s1 : c = base[h] /\ s1 = scraps[h]
    OBVIOUS
  <2>11. /\ base' = [base EXCEPT ![h] = c] /\ scraps' = [scraps EXCEPT ![h] = s1]
         /\ Fine(c.events, c.box) /\ PartOf(c.events, c.box, F, box[h]) /\ s1 \subseteq Nat \ {0}
    BY <1>5, <2>7, <2>8, <2>10
  <2>12. LedgerInv'
    BY <1>1, <2>6, <2>8, <2>9, <2>11, HostThen
  <2> QED BY <1>2, <1>7, <1>8, <1>9, <1>10, <2>12, GoesOnSave
<1> QED BY <1>11, <1>12

LEMMA LossSaves ==
  ASSUME SaveInv, NEW u \in Host, LoseDisk(u)
  PROVE  SaveInv'
<1>1. PICK E, B, c, s : E = <<>> /\ B = NoQuads /\ c = [events |-> E, box |-> B] /\ s = {}
  OBVIOUS
<1>2. /\ events' = [events EXCEPT ![u] = E] /\ box' = [box EXCEPT ![u] = B]
      /\ base' = [base EXCEPT ![u] = c] /\ scraps' = [scraps EXCEPT ![u] = s]
      /\ open' = [open EXCEPT ![u] = FALSE]
      /\ UNCHANGED <<kept, door, mirror, arrived, flying>>
  BY <1>1 DEF LoseDisk, drop
<1>3. LedgerInv /\ OutIsKept
  BY DEF SaveInv
<1>4. /\ Fine(E, B) /\ c.events = E /\ c.box = B /\ PartOf(E, B, E, B) /\ s \subseteq Nat \ {0}
  BY <1>1, EmptyIsFine
<1>5. open' \in [Host -> BOOLEAN] /\ Fine(kept'.events, kept'.box)
  BY <1>2, <1>3 DEF LedgerInv
<1>6. /\ LedgerInv'
      /\ \A h \in Host : h # u => events'[h] = events[h] /\ box'[h] = box[h] /\ base'[h] = base[h]
  <2>1. /\ Fine(E, B) /\ Fine(c.events, c.box) /\ PartOf(c.events, c.box, E, B)
        /\ s \subseteq Nat \ {0}
    BY <1>4
  <2>2. /\ events' = [events EXCEPT ![u] = E] /\ box' = [box EXCEPT ![u] = B]
        /\ base' = [base EXCEPT ![u] = c] /\ scraps' = [scraps EXCEPT ![u] = s]
    BY <1>2
  <2> QED BY <1>3, <1>5, <2>1, <2>2, HostThen
<1>7. OutIsKept'
  BY <1>2, <1>3 DEF OutIsKept, InKept
<1>8. /\ run' = [w \in Worker |-> run'[w]]
      /\ \A w \in Worker : run'[w] = IF HostOf[w] = u THEN Rest ELSE run[w]
  BY DEF LoseDisk
<1>9. ASSUME NEW w \in Worker PROVE Hands(w)'
  <2>1. CASE HostOf[w] = u
    <3>1. run'[w] = Rest /\ Rest.pc = "rest"
      BY <1>8, <2>1 DEF Rest
    <3> QED BY <3>1 DEF Hands
  <2>2. CASE HostOf[w] # u
    <3>1. HostOf[w] \in Host
      BY SendAssumption
    <3>2. open'[HostOf[w]] = open[HostOf[w]] /\ box'[HostOf[w]] = box[HostOf[w]]
      BY <1>2, <1>3, <1>6, <2>2, <3>1 DEF LedgerInv
    <3>3. KeptGrows /\ Fine(kept.events, kept.box)
      BY <1>2, <1>3, PartOfSelf DEF LedgerInv, KeptGrows
    <3> QED BY <1>5, <1>8, <2>2, <3>2, <3>3, HandsStay DEF SaveInv
  <2> QED BY <2>1, <2>2
<1> QED BY <1>6, <1>7, <1>8, <1>9 DEF SaveInv

LEMMA OpenSaves ==
  ASSUME SaveInv, SlotInv, NEW u \in Host, OpenLedger(u)
  PROVE  SaveInv' /\ SlotInv'
<1>9. PICK copy \in slot : /\ events' = [events EXCEPT ![u] = copy.events]
                          /\ box' = [box EXCEPT ![u] = copy.box]
                          /\ base' = [base EXCEPT ![u] = copy]
  BY DEF OpenLedger
<1>1. PICK E, B, c, s : E = copy.events /\ B = copy.box /\ c = copy /\ s = scraps[u]
  OBVIOUS
<1>2. LedgerInv /\ OutIsKept
  BY DEF SaveInv
<1>3. /\ events' = [events EXCEPT ![u] = E] /\ box' = [box EXCEPT ![u] = B]
      /\ base' = [base EXCEPT ![u] = c] /\ scraps' = [scraps EXCEPT ![u] = s]
      /\ open' = [open EXCEPT ![u] = TRUE] /\ ~open[u]
      /\ UNCHANGED <<kept, slot, run, door, mirror, arrived, flying, redeploys>>
  BY <1>1, <1>2, <1>9 DEF OpenLedger, drop, LedgerInv
<1>4. /\ Fine(E, B) /\ c.events = E /\ c.box = B /\ PartOf(E, B, E, B) /\ s \subseteq Nat \ {0}
  BY <1>1, <1>2, PartOfSelf DEF LedgerInv, HostOK, SlotInv
<1>5. open' \in [Host -> BOOLEAN] /\ Fine(kept'.events, kept'.box)
  BY <1>2, <1>3 DEF LedgerInv
<1>6. /\ LedgerInv'
      /\ \A h \in Host : h # u => events'[h] = events[h] /\ box'[h] = box[h] /\ base'[h] = base[h]
  BY <1>2, <1>3, <1>4, <1>5, HostThen
<1>7. OutIsKept'
  BY <1>2, <1>3 DEF OutIsKept, InKept
<1>8. ASSUME NEW w \in Worker PROVE Hands(w)'
  <2>1. CASE HostOf[w] = u
    <3>1. run'[w] = Rest /\ Rest.pc = "rest"
      BY <1>3, <2>1 DEF Rest, SaveInv, Hands
    <3> QED BY <3>1 DEF Hands
  <2>2. CASE HostOf[w] # u
    <3>1. HostOf[w] \in Host
      BY SendAssumption
    <3>2. open'[HostOf[w]] = open[HostOf[w]] /\ box'[HostOf[w]] = box[HostOf[w]]
      BY <1>2, <1>3, <1>6, <2>2, <3>1 DEF LedgerInv
    <3>3. KeptGrows /\ Fine(kept.events, kept.box) /\ run'[w] = run[w]
      BY <1>2, <1>3, PartOfSelf DEF LedgerInv, KeptGrows
    <3> QED BY <1>5, <3>2, <3>3, HandsStay DEF SaveInv
  <2> QED BY <2>1, <2>2
<1>10. SlotInv'
  <2>1. Alone => /\ \A g, h \in Host : open'[g] /\ open'[h] => g = h
                 /\ \A h \in Host : open'[h] => base'[h] = kept'
    <3> SUFFICES ASSUME Alone, NEW h \in Host, open'[h] PROVE h = u /\ base'[h] = kept'
      OBVIOUS
    <3>1. h = u
      BY <1>2, <1>3 DEF OpenLedger, LedgerInv
    <3>2. base'[u] = copy /\ copy = kept
      BY <1>2, <1>9 DEF LedgerInv, SlotInv, Orderly
    <3> QED BY <1>3, <3>1, <3>2
  <2> QED BY <1>3, <2>1 DEF SlotInv, Fine
<1> QED BY <1>3, <1>6, <1>7, <1>8, <1>10 DEF SaveInv

\* Nothing happens to the slot.
LEMMA SlotStays ==
  ASSUME LedgerInv, SlotInv, UNCHANGED <<slot, kept, base, redeploys>>,
         \A h \in Host : open'[h] => open[h]
  PROVE  SlotInv'
BY DEF SlotInv, Fine

LEMMA HostsSlot ==
  ASSUME LedgerInv, SlotInv, NEW u \in Host, LoseDisk(u)
  PROVE  SlotInv'
<1>1. /\ UNCHANGED <<slot, kept, redeploys>> /\ open' = [open EXCEPT ![u] = FALSE]
      /\ \E c : base' = [base EXCEPT ![u] = c]
  BY DEF LoseDisk, drop
<1>2. open \in [Host -> BOOLEAN] /\ base = [h \in Host |-> base[h]]
  BY DEF LedgerInv
<1>3. ASSUME NEW h \in Host, open'[h] PROVE open[h] /\ base'[h] = base[h]
  BY <1>1, <1>2, <1>3
<1> QED BY <1>1, <1>3 DEF SlotInv, Fine

LEMMA DropSlot ==
  ASSUME LedgerInv, SlotInv, DropStep
  PROVE  SlotInv'
<1>1. CASE PutSlotBack
  BY <1>1 DEF PutSlotBack, SlotInv, LedgerInv, disk, Fine
<1>2. CASE Redeploy
  BY <1>2, SendAssumption DEF Redeploy, SlotInv, LedgerInv, disk
<1>3. CASE ~PutSlotBack /\ ~Redeploy
  <2>1. UNCHANGED <<slot, kept, base, open, redeploys>>
    BY <1>3 DEF DropStep, Arrive, Mirror, PutBack, disk
  <2> QED BY <2>1, SlotStays
<1> QED BY <1>1, <1>2, <1>3

LEMMA WorkersSlot ==
  ASSUME SaveInv, SlotInv, NEW w \in Worker, WorkerStep(w), ~Save(w), ~SaveUnseen(w)
  PROVE  SlotInv'
<1>1. UNCHANGED <<slot, kept, base, open, redeploys>>
  BY DEF WorkerStep, Call, Export, CannotExport, ReadDoor, Push, ReadBack, Report, Drained, Sign,
         Refuse, GiveUp, sendVars, disk, drop
<1> QED BY <1>1, SlotStays DEF SaveInv

\* Ledgers, outboxes and workers stay as they are.
LEMMA OutsideSaves ==
  ASSUME SaveInv, UNCHANGED <<disk, kept, run>>, OutIsKept'
  PROVE  SaveInv'
<1>1. LedgerInv'
  <2>1. LedgerInv /\ UNCHANGED <<open, events, box, base, kept, scraps>>
    BY DEF SaveInv, disk
  <2>2. scraps' = [h \in Host |-> scraps'[h]] /\ \A h \in Host : scraps'[h] \subseteq Nat \ {0}
    BY <2>1 DEF LedgerInv, HostOK
  <2> QED BY <2>1, <2>2, LedgerStays
<1>2. \A w \in Worker : Hands(w)'
  BY DEF SaveInv, disk, Hands, InKept
<1> QED BY <1>1, <1>2 DEF SaveInv

LEMMA DropSaves ==
  ASSUME SaveInv, DropStep
  PROVE  SaveInv'
<1>1. OutIsKept /\ UNCHANGED <<disk, kept, run>>
  BY DEF SaveInv, DropStep, Arrive, Mirror, PutBack, PutSlotBack, Redeploy
<1>2. ASSUME NEW p \in flying, Arrive(p) PROVE OutIsKept'
  <2>1. PICK n, q : n = p[1] /\ q = p[2]
    OBVIOUS
  <2>2. InKept(n, q)
    BY <1>1, <2>1 DEF OutIsKept
  <2>3. UNCHANGED <<kept, mirror>> /\ flying' \subseteq flying \cup {<<n, q>>} /\ Take(n, q)
    BY <1>2, <2>1 DEF Arrive
  <2> QED BY <1>1, <2>2, <2>3, TakeStaysKept
<1>3. ASSUME NEW n \in DOMAIN door, Mirror(n) PROVE OutIsKept'
  <2>1. UNCHANGED <<door, arrived, flying>> /\ mirror' = PutAt(mirror, n, door[n])
    BY <1>3 DEF Mirror
  <2>2. \A k \in DOMAIN mirror' : <<k, mirror'[k]>> \in arrived'
    BY <1>1, <2>1 DEF OutIsKept, PutAt
  <2> QED BY <1>1, <2>1, <2>2 DEF OutIsKept, InKept
<1>4. ASSUME NEW n \in DOMAIN mirror, PutBack(n) PROVE OutIsKept'
  <2>1. UNCHANGED <<mirror, arrived, flying>> /\ door' = PutAt(door, n, mirror[n])
    BY <1>4 DEF PutBack
  <2>2. \A k \in DOMAIN door' : <<k, door'[k]>> \in arrived'
    BY <1>1, <2>1 DEF OutIsKept, PutAt
  <2> QED BY <1>1, <2>1, <2>2 DEF OutIsKept, InKept
<1>6. ASSUME PutSlotBack PROVE OutIsKept'
  BY <1>1, <1>6 DEF PutSlotBack, OutIsKept, InKept
<1>5. ASSUME Redeploy PROVE OutIsKept'
  <2>1. UNCHANGED <<mirror, arrived>> /\ flying' = {} /\ DOMAIN door' = {} /\ kept' = kept
    BY <1>1, <1>5 DEF Redeploy, NoQuads
  <2>2. \A p \in arrived' \cup flying' : p = <<p[1], p[2]>> /\ InKept(p[1], p[2])'
    BY <1>1, <2>1 DEF OutIsKept, InKept
  <2>3. \A n \in DOMAIN mirror' : <<n, mirror'[n]>> \in arrived'
    BY <1>1, <2>1 DEF OutIsKept
  <2>4. \A n \in DOMAIN door' : <<n, door'[n]>> \in arrived'
    BY <2>1
  <2> QED BY <2>2, <2>3, <2>4 DEF OutIsKept
<1> QED BY <1>1, <1>2, <1>3, <1>4, <1>5, <1>6, OutsideSaves DEF DropStep

-----------------------------------------------------------------------------
(* What calls are about *)

\* What runs has its shape, and is about a draft of the store or about none.
RunInv == \A w \in Worker : RunOK(run[w]) /\ About(run[w])

LEMMA DoorHasQuads ==
  ASSUME SaveInv
  PROVE  /\ \A n \in DOMAIN door : n \in Nat \ {0} /\ door[n] \in QuadType
         /\ \A n \in DOMAIN mirror : n \in Nat \ {0} /\ mirror[n] \in QuadType
         /\ \A p \in arrived \cup flying :
              p = <<p[1], p[2]>> /\ p[1] \in Nat \ {0} /\ p[2] \in QuadType
<1>1. OutIsKept
  BY DEF SaveInv
<1>2. \A p \in arrived \cup flying :
        p = <<p[1], p[2]>> /\ p[1] \in Nat \ {0} /\ p[2] \in QuadType
  BY <1>1 DEF OutIsKept, InKept
<1>3. \A n \in DOMAIN door : n \in Nat \ {0} /\ door[n] \in QuadType
  <2> TAKE n \in DOMAIN door
  <2>1. PICK p : p = <<n, door[n]>> /\ p \in arrived
    BY <1>1 DEF OutIsKept
  <2> QED BY <1>2, <2>1
<1>4. \A n \in DOMAIN mirror : n \in Nat \ {0} /\ mirror[n] \in QuadType
  <2> TAKE n \in DOMAIN mirror
  <2>1. PICK p : p = <<n, mirror[n]>> /\ p \in arrived
    BY <1>1 DEF OutIsKept
  <2> QED BY <1>2, <2>1
<1> QED BY <1>2, <1>3, <1>4

LEMMA IndexShows == ASSUME SaveInv PROVE Shows(Index)
<1>1. \A n \in DOMAIN door : n \in Nat \ {0} /\ door[n] \in QuadType
  BY DoorHasQuads
<1>2. DOMAIN Index = DOMAIN door
  BY DEF Index
<1>3. ASSUME NEW n \in DOMAIN door
      PROVE  Index[n] \in [quad : QuadType, mirrored : BOOLEAN]
  <2>1. PICK b : b = (n \in DOMAIN mirror /\ mirror[n] = door[n])
    OBVIOUS
  <2>2. b \in BOOLEAN
    BY <2>1, Zenon
  <2>3. Index[n] = [quad |-> door[n], mirrored |-> b]
    BY <2>1, Zenon DEF Index
  <2> QED BY <1>1, <2>2, <2>3
<1> QED BY <1>1, <1>2, <1>3 DEF Shows

LEMMA PlacesOK ==
  ASSUME NEW d \in Draft \cup {None}, NEW s \in BOOLEAN, NEW r,
         r = [pc |-> "place", draft |-> d, signed |-> s]
  PROVE  RunOK(r) /\ About(r)
BY DEF RunOK, About

LEMMA SendsOK ==
  ASSUME NEW r, r.pc = "save" \/ r.pc = "push", r.todo \subseteq Nat \ {0}, r.draft \in Draft \cup {None}
  PROVE  RunOK(r) /\ About(r)
BY DEF RunOK, About

LEMMA ReadsOK ==
  ASSUME NEW r, r.pc = "read", Shows(r.remote), r.draft \in Draft \cup {None}
  PROVE  RunOK(r) /\ About(r)
BY DEF RunOK, About

LEMMA SignsOK ==
  ASSUME NEW d \in Draft, NEW r, r = [pc |-> "sign", draft |-> d]
  PROVE  RunOK(r) /\ About(r)
BY DEF RunOK, About

LEMMA RestOK == RunOK(Rest) /\ About(Rest)
BY DEF RunOK, About

LEMMA RunsTo ==
  ASSUME SaveInv, RunInv, NEW u \in Worker, NEW r, run' = [run EXCEPT ![u] = r],
         RunOK(r) /\ About(r)
  PROVE  RunInv'
<1>1. run'[u] = r /\ \A w \in Worker : w # u => run'[w] = run[w]
  BY DEF SaveInv
<1> QED BY <1>1 DEF RunInv

\* What a call that is past "rest" is about, and where it may be.
LEMMA Busy ==
  ASSUME SaveInv, RunInv, NEW w \in Worker, run[w] # Rest
  PROVE  /\ run[w].draft \in Draft \cup {None}
         /\ run[w].pc = "sign" => run[w].draft \in Draft
         /\ run[w].pc \in {"save", "push"} => run[w].todo \subseteq Nat \ {0}
BY DEF RunInv, About, RunOK

LEMMA WorkersRun ==
  ASSUME SaveInv, RunInv, NEW w \in Worker, WorkerStep(w)
  PROVE  RunInv'
<1> DEFINE h == HostOf[w]
           To(r) == run' = [run EXCEPT ![w] = r]
<1>1. run = [v \in Worker |-> run[v]] /\ Rest.pc = "rest" /\ RunOK(run[w]) /\ About(run[w])
  BY DEF SaveInv, Rest, RunInv
<1>2. ASSUME Return(w) PROVE RunInv'
  <2>1. To(Rest)
    BY <1>2 DEF Return
  <2> QED BY <2>1, RestOK, RunsTo
<1>3. ASSUME run' = run PROVE RunInv'
  BY <1>3 DEF RunInv
<1>4. ASSUME NEW d \in Draft \cup {None}, Call(w, d) PROVE RunInv'
  <2>1. PICK r : r = [pc |-> "place", draft |-> d, signed |-> FALSE]
    OBVIOUS
  <2>2. To(r)
    BY <1>4, <2>1 DEF Call
  <2> QED BY <2>1, <2>2, PlacesOK, RunsTo
<1>5. CASE Export(w)
  BY <1>2, <1>3, <1>5 DEF Export
<1>6. CASE CannotExport(w) \/ SaveUnseen(w) \/ GiveUp(w) \/ Refuse(w)
  BY <1>2, <1>6 DEF CannotExport, SaveUnseen, GiveUp, Refuse
<1>7. CASE ReadDoor(w)
  <2>1. PICK absent, r :
          /\ absent = DOMAIN box[h] \ DOMAIN door
          /\ r = IF ~Agree(h) THEN Rest
                 ELSE IF absent = {}
                   THEN [pc |-> "read", draft |-> run[w].draft, signed |-> run[w].signed,
                         remote |-> Index]
                   ELSE [pc |-> "save", draft |-> run[w].draft, signed |-> run[w].signed,
                         todo |-> absent]
    OBVIOUS
  <2>2. To(r)
    BY <1>1, <1>7, <2>1 DEF ReadDoor
  <2>3. run[w].draft \in Draft \cup {None}
    BY <1>1, <1>7, Busy DEF ReadDoor, At
  <2>4. Shows(Index)
    BY IndexShows
  <2>5. absent \subseteq Nat \ {0}
    <3>1. Fine(events[h], box[h])
      BY SendAssumption DEF SaveInv, LedgerInv, HostOK
    <3> QED BY <2>1, <3>1, KeptHasQuads
  <2>6. \/ r = Rest
        \/ r.pc = "read" /\ r.draft = run[w].draft /\ r.remote = Index
        \/ r.pc = "save" /\ r.draft = run[w].draft /\ r.todo = absent
    BY <2>1
  <2>7. RunOK(r) /\ About(r)
    <3>1. CASE r = Rest
      BY <3>1, RestOK
    <3>2. CASE r.pc = "read" /\ r.draft = run[w].draft /\ r.remote = Index
      BY <2>3, <2>4, <3>2, ReadsOK
    <3>3. CASE r.pc = "save" /\ r.draft = run[w].draft /\ r.todo = absent
      BY <2>3, <2>5, <3>3, SendsOK
    <3> QED BY <2>6, <3>1, <3>2, <3>3
  <2> QED BY <2>2, <2>7, RunsTo
<1>8. ASSUME NEW t, t \subseteq Nat \ {0}, run[w] # Rest, To(Pushing(run[w], t)) PROVE RunInv'
  <2>1. PICK r : r = Pushing(run[w], t)
    OBVIOUS
  <2>2. r.pc = "push" /\ r.todo = t /\ r.draft = run[w].draft
    BY <2>1 DEF Pushing
  <2>3. RunOK(r) /\ About(r)
    BY <1>8, <2>2, Busy, SendsOK
  <2> QED BY <1>8, <2>1, <2>3, RunsTo
<1>9. CASE Save(w)
  <2>1. run[w].pc = "save" /\ To(Pushing(run[w], run[w].todo))
    BY <1>1, <1>9 DEF Save, At
  <2>2. run[w] # Rest /\ run[w].todo \subseteq Nat \ {0}
    BY <1>1, <2>1, Busy
  <2> QED BY <1>8, <2>1, <2>2
<1>10. CASE Push(w)
  <2>1. run[w].pc = "push"
    BY <1>10 DEF Push, At
  <2>2. run[w] # Rest /\ run[w].todo \subseteq Nat \ {0}
    BY <1>1, <2>1, Busy
  <2>3. Return(w) \/ \E t \in SUBSET run[w].todo : To(Pushing(run[w], t))
    BY <1>1, <1>10 DEF Push
  <2> QED BY <1>2, <1>8, <2>2, <2>3
<1>11. CASE ReadBack(w)
  <2>1. PICK r : r = [pc |-> "read", draft |-> run[w].draft, signed |-> run[w].signed,
                      remote |-> Index]
    OBVIOUS
  <2>2. To(r)
    BY <1>1, <1>11, <2>1 DEF ReadBack
  <2>3. run[w].draft \in Draft \cup {None}
    BY <1>1, <1>11, Busy DEF ReadBack, At
  <2>4. RunOK(r) /\ About(r)
    BY <2>1, <2>3, IndexShows, ReadsOK
  <2> QED BY <2>2, <2>4, RunsTo
<1>12. ASSUME NEW n \in DOMAIN box[h], Report(w, n) PROVE RunInv'
  BY <1>3, <1>12 DEF Report, sendVars
<1>13. CASE Drained(w)
  <2>1. PICK r : r = [pc |-> "sign", draft |-> run[w].draft]
    OBVIOUS
  <2>2. run[w].draft \in Draft \cup {None}
    BY <1>1, <1>13, Busy DEF Drained, At
  <2>3. CASE ~run[w].signed /\ run[w].draft # None /\ Clear(w) /\ result[run[w].draft] = None
    <3>1. To(r)
      BY <1>1, <1>13, <2>1, <2>3 DEF Drained
    <3> QED BY <2>1, <2>2, <2>3, <3>1, SignsOK, RunsTo
  <2>4. CASE ~(~run[w].signed /\ run[w].draft # None /\ Clear(w) /\ result[run[w].draft] = None)
    <3>1. Return(w)
      BY <1>1, <1>13, <2>4 DEF Drained, Return
    <3> QED BY <1>2, <3>1
  <2> QED BY <2>3, <2>4
<1>14. CASE Sign(w)
  <2>1. PICK r, s : s = TRUE /\ r = [pc |-> "place", draft |-> run[w].draft, signed |-> s]
    OBVIOUS
  <2>2. To(r)
    BY <1>14, <2>1 DEF Sign
  <2>3. run[w].draft \in Draft
    BY <1>1, <1>14, Busy DEF Sign, At
  <2> QED BY <2>1, <2>2, <2>3, PlacesOK, RunsTo
<1> QED BY <1>4, <1>5, <1>6, <1>7, <1>9, <1>10, <1>11, <1>12, <1>13, <1>14 DEF WorkerStep

LEMMA WorkersSave ==
  ASSUME SaveInv, RunInv, SlotInv, NEW w \in Worker, WorkerStep(w)
  PROVE  SaveInv' /\ SlotInv'
<1>1. About(run[w])
  BY DEF RunInv
<1>2. SaveInv'
  BY <1>1, ActionWalks, WalksSave, ExportSaves, SaveSaves, PushSaves, SignSaves DEF WorkerStep
<1> QED
  BY <1>2, SaveSaves, WorkersSlot

\* Nothing but the store changes.
LEMMA StoreSaves ==
  ASSUME SaveInv, UNCHANGED sendVars
  PROVE  SaveInv'
<1>1. UNCHANGED <<disk, kept, run>> /\ OutIsKept'
  BY DEF SaveInv, OutIsKept, InKept, sendVars, drop
<1> QED BY <1>1, OutsideSaves

LEMMA SaveInvInit == Init => SaveInv /\ RunInv /\ SlotInv
<1> SUFFICES ASSUME Init PROVE SaveInv /\ RunInv /\ SlotInv
  OBVIOUS
<1>1. PICK E, B, c : E = <<>> /\ B = NoQuads /\ c = [events |-> E, box |-> B]
  OBVIOUS
<1>2. /\ events = [h \in Host |-> E] /\ box = [h \in Host |-> B] /\ base = [h \in Host |-> c]
      /\ scraps = [h \in Host |-> {}] /\ open = [h \in Host |-> h = Founder] /\ kept = c
      /\ run = [w \in Worker |-> Rest] /\ door = B /\ mirror = B /\ arrived = {} /\ flying = {}
  BY <1>1 DEF Init
<1>3. Fine(E, B) /\ PartOf(E, B, E, B) /\ c.events = E /\ c.box = B /\ DOMAIN B = {}
  BY <1>1, EmptyIsFine DEF NoQuads
<1>4. ASSUME NEW h \in Host PROVE HostOK(h)
  BY <1>2, <1>3 DEF HostOK
<1>5. open \in [Host -> BOOLEAN]
  BY <1>2
<1>6. LedgerInv
  BY <1>2, <1>3, <1>4, <1>5 DEF LedgerInv
<1>7. OutIsKept
  BY <1>2, <1>3 DEF OutIsKept
<1>8. \A w \in Worker : run[w] = Rest
  BY <1>2
<1>9. \A w \in Worker : Hands(w)
  BY <1>8, RestHands
<1>10. RunInv
  BY <1>8, RestOK DEF RunInv
<1>11. slot = {c} /\ redeploys = 0
  BY <1>1 DEF Init
<1>12. SlotInv
  BY <1>2, <1>3, <1>11 DEF SlotInv
<1> QED BY <1>2, <1>6, <1>7, <1>9, <1>10, <1>12 DEF SaveInv

LEMMA SaveInvSteps == SaveInv /\ RunInv /\ SlotInv /\ [Next]_vars => (SaveInv /\ RunInv /\ SlotInv)'
<1> SUFFICES ASSUME SaveInv, RunInv, SlotInv, [Next]_vars PROVE SaveInv' /\ RunInv' /\ SlotInv'
  OBVIOUS
<1>6. LedgerInv
  BY DEF SaveInv
<1>1. CASE StoreStep
  <2>1. UNCHANGED sendVars /\ run' = run
    BY <1>1 DEF StoreStep, sendVars
  <2>2. SlotInv'
    BY <1>6, <2>1, SlotStays DEF sendVars, disk, drop
  <2> QED BY <2>1, <2>2, StoreSaves DEF RunInv
<1>2. CASE DropStep
  <2>1. run' = run
    BY <1>2 DEF DropStep, Arrive, Mirror, PutBack, PutSlotBack, Redeploy
  <2> QED BY <1>2, <1>6, <2>1, DropSaves, DropSlot DEF RunInv
<1>3. ASSUME NEW h \in Host, LoseDisk(h) \/ OpenLedger(h) PROVE SaveInv' /\ RunInv' /\ SlotInv'
  <2>1. \A w \in Worker : run'[w] = run[w] \/ run'[w] = Rest
    BY <1>3 DEF LoseDisk, OpenLedger
  <2>2. RunInv'
    BY <2>1, RestOK DEF RunInv
  <2> QED BY <1>3, <1>6, <2>2, LossSaves, OpenSaves, HostsSlot
<1>4. ASSUME NEW w \in Worker, WorkerStep(w) PROVE SaveInv' /\ RunInv' /\ SlotInv'
  BY <1>4, WorkersSave, WorkersRun
<1>5. CASE UNCHANGED vars
  <2>1. UNCHANGED sendVars /\ run' = run
    BY <1>5 DEF vars, sendVars
  <2>2. SlotInv'
    BY <1>6, <2>1, SlotStays DEF sendVars, disk, drop
  <2> QED BY <2>1, <2>2, StoreSaves DEF RunInv
<1> QED BY <1>1, <1>2, <1>3, <1>4, <1>5 DEF Next, HostStep

\* One draft becomes one letter under one number (send_approved, _place_signed and
\* _drain_once in hub_send.py), whatever dies, repeats or is signed again after a lost
\* disk: what leaves is in the outside copy first, and only who continues that copy may
\* replace it.  That holds for any number of redeployments of the drop as long as there
\* is one ledger, and for any number of ledgers as long as the drop is not redeployed.
THEOREM OneLetterAlways ==
  ASSUME Alone \/ MaxRedeploys = 0
  PROVE  Spec => []OneLetterPerDraft
<1>1. SaveInv => OneLetterPerDraft
  <2> SUFFICES ASSUME SaveInv, NEW p \in arrived, NEW q \in arrived,
                      p[1] = q[1] \/ p[2].letter.draft = q[2].letter.draft
               PROVE  p = q
    BY DEF OneLetterPerDraft
  <2>1. Fine(kept.events, kept.box)
    BY DEF SaveInv, LedgerInv
  <2>2. /\ p = <<p[1], p[2]>> /\ p[1] \in DOMAIN kept.box /\ p[2] = kept.box[p[1]]
        /\ q = <<q[1], q[2]>> /\ q[1] \in DOMAIN kept.box /\ q[2] = kept.box[q[1]]
    BY DEF SaveInv, OutIsKept, InKept, Orderly
  <2>3. /\ p[1] \in DOMAIN kept.events /\ p[2].letter = kept.events[p[1]]
        /\ q[1] \in DOMAIN kept.events /\ q[2].letter = kept.events[q[1]]
    BY <2>1, <2>2, QuadIs DEF Fine
  <2>4. p[1] = q[1]
    BY <2>1, <2>3 DEF Fine
  <2> QED BY <2>2, <2>4
<1> QED BY <1>1, SaveInvInit, SaveInvSteps, PTL DEF Spec

-----------------------------------------------------------------------------
(* Shapes *)

Bodies == {"placed", "changed", "gone"}

StoreInv ==
  /\ placed \in Seq(Draft)
  /\ since \in [Draft -> Nat]
  /\ bytes \in [Draft -> Bodies]
  /\ result \in [Draft -> Results]
  /\ placing \in [Caller -> (Draft \X Nat) \cup {None}]

LEMMA FrontStores ==
  ASSUME StoreInv, FrontStep
  PROVE  StoreInv'
<1>1. PICK c \in Caller : (\E d \in Draft : StartPlacing(c, d)) \/ Place(c)
  BY DEF FrontStep
<1>2. ASSUME NEW d \in Draft, StartPlacing(c, d) PROVE StoreInv'
  <2>1. Len(placed) \in Nat
    BY DEF StoreInv
  <2> QED BY <1>2, <2>1 DEF StartPlacing, StoreInv, store
<1>3. CASE Place(c)
  <2>1. PICK d, n : d = placing[c][1] /\ n = placing[c][2]
    OBVIOUS
  <2>2. d \in Draft /\ n \in Nat
    BY <1>3, <2>1 DEF Place, StoreInv
  <2>3. \/ placed' = placed /\ since' = since
        \/ placed' = Append(placed, d) /\ since' = [since EXCEPT ![d] = n]
    BY <1>3, <2>1 DEF Place, store
  <2>4. UNCHANGED <<bytes, result>> /\ placing' = [placing EXCEPT ![c] = None]
    BY <1>3 DEF Place, store
  <2>5. placed' \in Seq(Draft)
    <3>1. placed \in Seq(Draft)
      BY DEF StoreInv
    <3>2. Append(placed, d) \in Seq(Draft)
      BY <2>2, <3>1
    <3> QED BY <2>3, <3>1, <3>2
  <2>6. since' \in [Draft -> Nat]
    BY <2>2, <2>3 DEF StoreInv
  <2> QED BY <2>4, <2>5, <2>6 DEF StoreInv
<1> QED BY <1>1, <1>2, <1>3

LEMMA ResultsStored ==
  ASSUME SaveInv, StoreInv, NEW w \in Worker,
         (\E n \in DOMAIN box[HostOf[w]] : Report(w, n)) \/ Refuse(w)
  PROVE  StoreInv'
<1>1. UNCHANGED <<placed, since, bytes, placing>>
  BY DEF Report, Refuse
<1>2. ASSUME NEW r \in Results, NEW d, PutResult(d, r) PROVE result' \in [Draft -> Results]
  BY <1>2 DEF PutResult, StoreInv
<1>3. ASSUME NEW n \in DOMAIN box[HostOf[w]], Report(w, n)
      PROVE  result' \in [Draft -> Results]
  <2>1. PICK q : q = box[HostOf[w]][n]
    OBVIOUS
  <2>2. Fine(events[HostOf[w]], box[HostOf[w]])
    BY SendAssumption DEF SaveInv, LedgerInv, HostOK
  <2>3. n \in Nat \ {0} /\ q \in QuadType
    BY <2>1, <2>2, KeptHasQuads
  <2>4. PICK r : r = SentRecord(n, q)
    OBVIOUS
  <2>5. r \in Results
    BY <2>3, <2>4 DEF SentRecord, Results, ResultRecord
  <2>6. PutResult(q.letter.draft, r)
    BY <1>3, <2>1, <2>4 DEF Report
  <2> QED BY <1>2, <2>5, <2>6
<1>4. ASSUME Refuse(w) PROVE result' \in [Draft -> Results]
  <2>1. Failed \in Results /\ PutResult(run[w].draft, Failed)
    BY <1>4 DEF Refuse, Results, ResultRecord
  <2> QED BY <1>2, <2>1
<1> QED BY <1>1, <1>3, <1>4 DEF StoreInv

LEMMA StoreInvSteps == SaveInv /\ StoreInv /\ [Next]_vars => StoreInv'
<1> SUFFICES ASSUME SaveInv, StoreInv, [Next]_vars PROVE StoreInv'
  OBVIOUS
<1>1. ASSUME UNCHANGED draftVars PROVE StoreInv'
  BY <1>1 DEF StoreInv, draftVars, store
<1>2. CASE FrontStep
  BY <1>2, FrontStores
<1>3. CASE PersonStep
  BY <1>3 DEF PersonStep, Confirm, StartDeciding, Decide, store, StoreInv
<1>4. CASE TimeStep
  <2>1. UNCHANGED <<placed, since, result, placing>>
    BY <1>4 DEF TimeStep, End, Lapse, Damage, store
  <2>2. bytes' = bytes \/ \E d \in Draft, b \in Bodies : bytes' = [bytes EXCEPT ![d] = b]
    BY <1>4 DEF TimeStep, End, Lapse, Damage, store, Bodies
  <2> QED BY <2>1, <2>2 DEF StoreInv
<1>5. CASE HostStep
  BY <1>1, <1>5 DEF HostStep, LoseDisk, OpenLedger
<1>6. CASE DropStep
  BY <1>1, <1>6 DEF DropStep, Arrive, Mirror, PutBack, PutSlotBack, Redeploy
<1>7. ASSUME NEW w \in Worker, WorkerStep(w) PROVE StoreInv'
  <2>1. \/ \E d \in Draft \cup {None} : Call(w, d)
        \/ Export(w) \/ CannotExport(w) \/ ReadDoor(w) \/ Save(w) \/ SaveUnseen(w)
        \/ Push(w) \/ ReadBack(w) \/ Drained(w) \/ Sign(w) \/ GiveUp(w)
        => UNCHANGED draftVars
    BY DEF Call, Export, CannotExport, ReadDoor, Save, SaveUnseen, Push, ReadBack, Drained,
           Sign, GiveUp
  <2> QED BY <1>1, <1>7, <2>1, ResultsStored DEF WorkerStep
<1>8. CASE UNCHANGED vars
  BY <1>1, <1>8 DEF vars
<1> QED BY <1>2, <1>3, <1>4, <1>5, <1>6, <1>7, <1>8 DEF Next, StoreStep

LEMMA StoreInvInit == Init => StoreInv
<1>1. None \in Results
  BY DEF Results
<1> QED BY <1>1 DEF Init, DraftInit, StoreInv, Bodies

\* Store, ledger, outbox, door and the calls that run have their shape, and numbers
\* start at 1: what is read at the door, or comes back from the outside copy, is what
\* a call once put there (hub_send.py).
THEOREM SendTypesHold == Spec => []SendTypeOK
<1>1. SaveInv /\ RunInv /\ SlotInv /\ StoreInv /\ AnswerInv => SendTypeOK
  <2> SUFFICES ASSUME SaveInv, RunInv, SlotInv, StoreInv, AnswerInv PROVE SendTypeOK
    OBVIOUS
  <2>1. ASSUME NEW c, Fine(c.events, c.box) PROVE ContentOK(c)
    <3>1. \A n \in DOMAIN c.box : n \in Nat \ {0} /\ c.box[n] \in QuadType
      BY <2>1, KeptHasQuads
    <3>2. c.events \in Seq(Letter)
      BY <2>1 DEF Fine
    <3> QED BY <3>1, <3>2 DEF ContentOK, QuadsOK
  <2>2. ASSUME NEW h \in Host
        PROVE  ContentOK(Content(h)) /\ ContentOK(base[h]) /\ scraps[h] \subseteq Nat \ {0}
    <3>1. HostOK(h) /\ Content(h).events = events[h] /\ Content(h).box = box[h]
      BY DEF SaveInv, LedgerInv, Content
    <3> QED BY <2>1, <3>1 DEF HostOK
  <2>3. (\A copy \in slot \cup {kept} : ContentOK(copy)) /\ open \in [Host -> BOOLEAN]
    BY <2>1 DEF SaveInv, LedgerInv, SlotInv
  <2>4. /\ QuadsOK(door) /\ QuadsOK(mirror)
        /\ arrived \cup flying \subseteq (Nat \ {0}) \X QuadType
    BY DoorHasQuads DEF QuadsOK
  <2>5. \A w \in Worker : RunOK(run[w])
    BY DEF RunInv
  <2>6. ToSet(placed) \subseteq Draft
    BY DEF StoreInv, ToSet
  <2> QED BY <2>2, <2>3, <2>4, <2>5, <2>6 DEF SendTypeOK, StoreInv, Bodies, AnswerInv
<1> QED
  BY <1>1, SaveInvInit, SaveInvSteps, StoreInvInit, StoreInvSteps, AnswerInvInit, AnswerInvSteps,
     PTL DEF Spec

-----------------------------------------------------------------------------
(* What waits to be read *)

Unread == {d \in Draft : Waiting(d) /\ ~Overtaken(d)}
InHand == {c \in Caller : placing[c] # None}
Once == \A i, j \in DOMAIN placed : placed[i] = placed[j] => i = j

LEMMA StoredIsFinite ==
  ASSUME StoreInv, NEW S, \A d \in S : Stored(d)
  PROVE  IsFiniteSet(S) /\ Cardinality(S) \in Nat
<1> DEFINE T == {placed[i] : i \in 1 .. Len(placed)}
           f == [i \in 1 .. Len(placed) |-> placed[i]]
<1>1. Len(placed) \in Nat /\ DOMAIN placed = 1 .. Len(placed)
  BY DEF StoreInv
<1>2. IsFiniteSet(1 .. Len(placed))
  BY <1>1, FS_Interval
<1>3. f \in Surjection(1 .. Len(placed), T)
  BY DEF Surjection
<1>4. S \subseteq T
  BY <1>1 DEF Stored, ToSet
<1> HIDE DEF f, T
<1>5. IsFiniteSet(T)
  BY <1>2, <1>3, FS_Surjection
<1> QED BY <1>4, <1>5, FS_Subset, FS_CardinalityType

\* If the store lists few enough, few enough wait: of the undecided drafts that it does
\* not list each is older than PendingMax listed ones, of which one has ended.
LEMMA RoomIsThere ==
  ASSUME StoreInv, Once, Room
  PROVE  Cardinality(Unread) < PendingMax
<1> DEFINE U == UndecidedAt
           L == {d \in Listed : Waiting(d)}
           Behind(i) == {k \in U : i < k}
           Late == {i \in U : ~(Cardinality(Behind(i)) < PendingMax)}
<1>1. Len(placed) \in Nat /\ DOMAIN placed = 1 .. Len(placed) /\ U \subseteq 1 .. Len(placed)
  BY DEF StoreInv, UndecidedAt
<1>2. IsFiniteSet(L) /\ Cardinality(L) \in Nat
  BY StoredIsFinite DEF Waiting
<1>3. Cardinality(L) < PendingMax
  BY DEF Room
<1>4. IsFiniteSet(Unread) /\ Cardinality(Unread) \in Nat
  BY StoredIsFinite DEF Unread, Waiting
<1>5. \A i \in U \ Late : placed[i] \in Listed
  BY DEF Listed
<1>6. CASE Unread \subseteq L
  <2> HIDE DEF L
  <2>1. Cardinality(Unread) <= Cardinality(L)
    BY <1>2, <1>6, FS_Subset
  <2> QED BY <1>2, <1>3, <1>4, <2>1, DraftAssumption
<1>7. CASE ~(Unread \subseteq L)
  <2>1. PICK d \in Unread : d \notin L
    BY <1>7
  <2>2. PICK i \in DOMAIN placed : placed[i] = d
    BY <2>1 DEF Unread, Waiting, Stored, ToSet
  <2>3. i \in Late
    BY <1>5, <2>1, <2>2 DEF Unread, Waiting, UndecidedAt
  <2>4. PICK j \in Late : \A k \in Late : k <= j
    <3>1. Late \subseteq U
      OBVIOUS
    <3> HIDE DEF Late
    <3>2. Late \in SUBSET (0 .. Len(placed)) /\ Late # {}
      BY <1>1, <2>3, <3>1
    <3> QED BY <1>1, <3>2, HighestExists
  <2>5. ASSUME NEW k \in Behind(j)
        PROVE  placed[k] \in L
    <3>1. k \in U /\ i < k /\ k \notin Late
      <4>1. Late \subseteq U
        OBVIOUS
      <4>2. k \in U /\ j < k
        BY <2>5
      <4> HIDE DEF Late
      <4> QED BY <1>1, <2>3, <2>4, <4>1, <4>2
    <3>2. placed[k] \in Listed
      BY <1>5, <3>1
    <3>3. placed[k] \notin ended
      BY <1>1, <2>1, <2>2, <3>1 DEF Unread, Overtaken
    <3>4. Stored(placed[k]) /\ Undecided(placed[k])
      BY <1>1, <3>1 DEF UndecidedAt, Stored, ToSet
    <3> QED BY <3>2, <3>3, <3>4 DEF Waiting
  <2> DEFINE f == [k \in Behind(j) |-> placed[k]]
  <2>6. f \in Injection(Behind(j), L)
    <3>1. \A k, m \in Behind(j) : placed[k] = placed[m] => k = m
      BY <1>1 DEF Once
    <3> HIDE DEF L, Behind
    <3> QED BY <2>5, <3>1 DEF Injection, IsInjective
  <2>7. Cardinality(Behind(j)) <= Cardinality(L) /\ Cardinality(Behind(j)) \in Nat
    <3> HIDE DEF f, L, Behind
    <3> QED BY <1>2, <2>6, FS_Injection, FS_CardinalityType
  <2>8. ~(Cardinality(Behind(j)) < PendingMax)
    BY <2>4
  <2> HIDE DEF L, Behind
  <2> QED BY <1>2, <1>3, <2>7, <2>8, DraftAssumption
<1> QED BY <1>6, <1>7

\* What no step of a worker, a person or the time adds to.
LEMMA NoMoreUnread ==
  ASSUME IsFiniteSet(Caller), StoreInv, Once, WaitingBounded, UNCHANGED <<placed, placing>>,
         \A d \in Draft : Undecided(d)' => Undecided(d), ended \subseteq ended'
  PROVE  Once' /\ WaitingBounded'
<1>1. Once'
  BY DEF Once
<1>2. Unread' \subseteq Unread /\ InHand' = InHand
  BY DEF Unread, InHand, Waiting, Stored, Overtaken
<1>3. IsFiniteSet(Unread) /\ Cardinality(Unread) \in Nat
  BY StoredIsFinite DEF Unread, Waiting
<1>4. Cardinality(Unread') <= Cardinality(Unread) /\ Cardinality(Unread') \in Nat
  BY <1>2, <1>3, FS_Subset, FS_CardinalityType
<1>5. IsFiniteSet(InHand) /\ Cardinality(InHand) \in Nat
  BY FS_Subset, FS_CardinalityType DEF InHand
<1>6. Cardinality(Caller) \in Nat
  BY FS_CardinalityType
<1>7. Cardinality(Unread) + Cardinality(InHand) < PendingMax + Cardinality(Caller)
  BY DEF WaitingBounded, Unread, InHand
<1>8. Cardinality(Unread') + Cardinality(InHand') < PendingMax + Cardinality(Caller)
  BY <1>2, <1>3, <1>4, <1>5, <1>6, <1>7, DraftAssumption
<1> QED BY <1>1, <1>8 DEF WaitingBounded, Unread, InHand

\* What a sequence of drafts holds after one more was appended.
LEMMA Appended ==
  ASSUME NEW s \in Seq(Draft), NEW d \in Draft, NEW t, t = Append(s, d)
  PROVE  /\ \A i \in 1 .. Len(t) : (i \in 1 .. Len(s) /\ t[i] = s[i]) \/ (i = Len(s) + 1 /\ t[i] = d)
         /\ \A i \in 1 .. Len(s) : i \in 1 .. Len(t) /\ t[i] = s[i]
<1>1. PICK n \in Nat : n = Len(s)
  OBVIOUS
<1>2. Len(t) = n + 1 /\ t[n + 1] = d /\ \A i \in 1 .. n : t[i] = s[i]
  BY <1>1
<1>3. \A i \in 1 .. n + 1 : i \in 1 .. n \/ i = n + 1
  OBVIOUS
<1>4. \A i \in 1 .. n : i \in 1 .. n + 1
  OBVIOUS
<1> QED BY <1>1, <1>2, <1>3, <1>4, Zenon

LEMMA FrontBounds ==
  ASSUME IsFiniteSet(Caller), StoreInv, Once, WaitingBounded, FrontStep
  PROVE  Once' /\ WaitingBounded'
<1>1. PICK c \in Caller : (\E d \in Draft : StartPlacing(c, d)) \/ Place(c)
  BY DEF FrontStep
<1>2. IsFiniteSet(Unread) /\ Cardinality(Unread) \in Nat
  BY StoredIsFinite DEF Unread, Waiting
<1>3. IsFiniteSet(InHand) /\ Cardinality(InHand) \in Nat
  BY FS_Subset, FS_CardinalityType DEF InHand
<1>4. Cardinality(Caller) \in Nat
  BY FS_CardinalityType
<1>5. Cardinality(Unread) + Cardinality(InHand) < PendingMax + Cardinality(Caller)
  BY DEF WaitingBounded, Unread, InHand
<1>6. ASSUME NEW d \in Draft, StartPlacing(c, d)
      PROVE  Once' /\ WaitingBounded'
  <2>1. UNCHANGED <<store, clock>> /\ Room
    BY <1>6 DEF StartPlacing
  <2>2. Once' /\ Unread' = Unread
    BY <2>1 DEF Once, store, clock, Unread, Waiting, Stored, Undecided, Overtaken
  <2>3. Cardinality(Unread) < PendingMax
    BY <2>1, RoomIsThere
  <2>4. Cardinality(InHand') <= Cardinality(Caller) /\ Cardinality(InHand') \in Nat
    <3>1. InHand' \subseteq Caller
      BY DEF InHand
    <3> QED BY <3>1, FS_Subset, FS_CardinalityType
  <2>5. Cardinality(Unread') + Cardinality(InHand') < PendingMax + Cardinality(Caller)
    BY <1>2, <1>4, <2>2, <2>3, <2>4, DraftAssumption
  <2> QED BY <2>2, <2>5 DEF WaitingBounded, Unread, InHand
<1>7. CASE Place(c)
  <2>1. PICK d : d = placing[c][1]
    OBVIOUS
  <2>2. /\ c \in InHand /\ placing' = [placing EXCEPT ![c] = None]
        /\ UNCHANGED <<decision, result, ended>>
        /\ placed' = placed \/ (~Stored(d) /\ placed' = Append(placed, d))
    BY <1>7, <2>1 DEF Place, InHand, store, clock
  <2>3. placed \in Seq(Draft) /\ d \in Draft
    BY <1>7, <2>1 DEF Place, StoreInv
  <2>4. InHand' = InHand \ {c}
    BY <2>2 DEF InHand, StoreInv
  <2>5. Cardinality(InHand') = Cardinality(InHand) - 1
    BY <1>3, <2>2, <2>4, FS_RemoveElement
  <2>6. /\ \A i \in 1 .. Len(placed') :
             (i \in 1 .. Len(placed) /\ placed'[i] = placed[i]) \/ (i = Len(placed) + 1 /\ placed'[i] = d)
        /\ \A i \in 1 .. Len(placed) : i \in 1 .. Len(placed') /\ placed'[i] = placed[i]
    <3>1. CASE placed' = placed
      BY <3>1
    <3>2. CASE placed' = Append(placed, d)
      BY <2>3, <3>2, Appended
    <3> QED BY <2>2, <3>1, <3>2
  <2>7. /\ placed' \in Seq(Draft) /\ Len(placed) \in Nat
        /\ DOMAIN placed = 1 .. Len(placed) /\ DOMAIN placed' = 1 .. Len(placed')
    BY <2>2, <2>3
  <2>8. Once'
    <3>1. CASE placed' = placed
      BY <3>1 DEF Once
    <3>2. CASE placed' # placed
      <4>1. \A i \in 1 .. Len(placed) : placed[i] # d
        BY <2>2, <2>7, <3>2 DEF Stored, ToSet
      <4>2. \A i, j \in 1 .. Len(placed) : placed[i] = placed[j] => i = j
        BY <2>7 DEF Once
      <4>3. \A i, j \in 1 .. Len(placed') : placed'[i] = placed'[j] => i = j
        BY <2>6, <4>1, <4>2, Zenon
      <4> QED BY <2>7, <4>3 DEF Once
    <3> QED BY <3>1, <3>2
  <2>9. Unread' \subseteq Unread \cup {d}
    <3>3. \A e : Stored(e)' => Stored(e) \/ e = d
      BY <2>6, <2>7 DEF Stored, ToSet
    <3>4. \A e : Overtaken(e) => Overtaken(e)'
      BY <2>2, <2>6, <2>7 DEF Overtaken
    <3> QED BY <2>2, <3>3, <3>4 DEF Unread, Waiting, Undecided
  <2>10. IsFiniteSet(Unread \cup {d}) /\ Cardinality(Unread \cup {d}) <= Cardinality(Unread) + 1
    <3>1. /\ IsFiniteSet(Unread \cup {d})
          /\ Cardinality(Unread \cup {d}) = IF d \in Unread THEN Cardinality(Unread) ELSE Cardinality(Unread) + 1
      BY <1>2, FS_AddElement, Zenon
    <3> HIDE DEF Unread
    <3> QED BY <1>2, <3>1
  <2>11. Cardinality(Unread') <= Cardinality(Unread \cup {d}) /\ Cardinality(Unread') \in Nat
    BY <2>9, <2>10, FS_Subset, FS_CardinalityType
  <2>12. Cardinality(Unread \cup {d}) \in Nat
    BY <2>10, FS_CardinalityType
  <2>13. Cardinality(Unread') + Cardinality(InHand') < PendingMax + Cardinality(Caller)
    BY <1>2, <1>3, <1>4, <1>5, <2>5, <2>10, <2>11, <2>12, DraftAssumption
  <2> QED BY <2>8, <2>13 DEF WaitingBounded, Unread, InHand
<1> QED BY <1>1, <1>6, <1>7

LEMMA BoundSteps ==
  ASSUME IsFiniteSet(Caller), StoreInv, AnswerInv, Once, WaitingBounded, [Next]_vars
  PROVE  Once' /\ WaitingBounded'
<1>1. ASSUME UNCHANGED draftVars PROVE Once' /\ WaitingBounded'
  BY <1>1, NoMoreUnread DEF draftVars, store, clock, Undecided
<1>2. CASE PersonStep
  <2>1. UNCHANGED <<placed, placing, result, ended>>
    BY <1>2 DEF PersonStep, Confirm, StartDeciding, Decide, store, clock
  <2>2. ASSUME NEW d \in Draft PROVE decision'[d] = None => decision[d] = None
    <3>1. \/ decision' = decision
          \/ \E e, x : decision[e] = None /\ decision' = [decision EXCEPT ![e] = x]
      BY <1>2 DEF PersonStep, Confirm, StartDeciding, Decide, store
    <3> QED BY <2>2, <3>1 DEF AnswerInv
  <2> QED BY <2>1, <2>2, NoMoreUnread DEF Undecided
<1>3. CASE TimeStep
  <2>1. UNCHANGED <<placed, placing, decision, result>> /\ ended \subseteq ended'
    BY <1>3 DEF TimeStep, End, Lapse, Damage, store, clock
  <2> QED BY <2>1, NoMoreUnread DEF Undecided
<1>4. CASE HostStep \/ DropStep
  BY <1>1, <1>4 DEF HostStep, LoseDisk, OpenLedger, DropStep, Arrive, Mirror, PutBack, PutSlotBack, Redeploy
<1>5. ASSUME NEW w \in Worker, WorkerStep(w) PROVE Once' /\ WaitingBounded'
  <2>1. \/ \E d \in Draft \cup {None} : Call(w, d)
        \/ Export(w) \/ CannotExport(w) \/ ReadDoor(w) \/ Save(w) \/ SaveUnseen(w)
        \/ Push(w) \/ ReadBack(w) \/ Drained(w) \/ Sign(w) \/ GiveUp(w)
        => UNCHANGED draftVars
    BY DEF Call, Export, CannotExport, ReadDoor, Save, SaveUnseen, Push, ReadBack, Drained,
           Sign, GiveUp
  <2>2. ASSUME (\E n \in DOMAIN box[HostOf[w]] : Report(w, n)) \/ Refuse(w)
        PROVE  Once' /\ WaitingBounded'
    <3>1. UNCHANGED <<placed, placing, decision, ended>> /\ \E d, r : PutResult(d, r)
      BY <2>2 DEF Report, Refuse, clock
    <3>2. \A d \in Draft : result'[d] = None => result[d] = None
      BY <3>1 DEF PutResult, StoreInv
    <3> QED BY <3>1, <3>2, NoMoreUnread DEF Undecided
  <2> QED BY <1>1, <1>5, <2>1, <2>2 DEF WorkerStep
<1>6. CASE UNCHANGED vars
  BY <1>1, <1>6 DEF vars
<1> QED BY FrontBounds, <1>2, <1>3, <1>4, <1>5, <1>6 DEF Next, StoreStep

\* Drafts do not pile up unread, however many calls look at the store at the same
\* time: of those that were not overtaken by the end of a later one, at most as many
\* wait as are allowed and as there were calls under way (mail_draft in hub_draft.py).
THEOREM WaitingAlwaysBounded ==
  ASSUME IsFiniteSet(Caller)
  PROVE  Spec => []WaitingBounded
<1>1. Init => Once /\ WaitingBounded
  <2> SUFFICES ASSUME Init PROVE Once /\ WaitingBounded
    OBVIOUS
  <2>1. placed = <<>> /\ placing = [c \in Caller |-> None]
    BY DEF Init, DraftInit
  <2>2. Unread = {} /\ InHand = {}
    BY <2>1 DEF Unread, InHand, Waiting, Stored, ToSet
  <2>3. Cardinality(Unread) = 0 /\ Cardinality(InHand) = 0
    BY <2>2, FS_EmptySet
  <2>4. Cardinality(Caller) \in Nat
    BY FS_CardinalityType
  <2>5. Once
    BY <2>1 DEF Once
  <2> QED BY <2>3, <2>4, <2>5, DraftAssumption DEF WaitingBounded, Unread, InHand
<1>2. /\ StoreInv /\ AnswerInv /\ Once /\ WaitingBounded /\ [Next]_vars
      => (Once /\ WaitingBounded)'
  BY BoundSteps
<1> QED
  BY <1>1, <1>2, SaveInvInit, SaveInvSteps, StoreInvInit, StoreInvSteps, AnswerInvInit, AnswerInvSteps,
     PTL DEF Spec

-----------------------------------------------------------------------------
(* The next letter waits *)

\* The send lock of a host.
OneAtATime ==
  \A v, w \in Worker : HostOf[v] = HostOf[w] /\ run[v] # Rest /\ run[w] # Rest => v = w

AllPlaced(h) == DOMAIN events[h] \subseteq DOMAIN box[h]
AllStored(h) == \A i \in DOMAIN events[h] : \E n \in DOMAIN mirror : mirror[n].letter = events[h][i]

\* A call that has read the door has placed every letter of its ledger, and one that is
\* about to sign has seen all of them stored outside.
Stands(w) ==
  /\ run[w].pc \in {"save", "push", "read"} => AllPlaced(HostOf[w])
  /\ run[w].pc = "sign" => AllStored(HostOf[w])

WaitInv == OneAtATime /\ \A w \in Worker : Stands(w)

\* What a step of u leaves to the other hosts.
OwnHostOnly(u) ==
  \A h \in Host : h # HostOf[u] => events'[h] = events[h] /\ box'[h] = box[h]

LEMMA WorkerWaits ==
  ASSUME SaveInv, WaitInv, NEW u \in Worker, NEW r, run' = [run EXCEPT ![u] = r],
         OwnHostOnly(u), MirrorGrows, run[u] # Rest \/ Free(HostOf[u]),
         r.pc \in {"save", "push", "read"} => AllPlaced(HostOf[u])',
         r.pc = "sign" => AllStored(HostOf[u])'
  PROVE  WaitInv'
<1>1. run'[u] = r /\ \A w \in Worker : w # u => run'[w] = run[w]
  BY DEF SaveInv
<1>2. ASSUME NEW w \in Worker, w # u, HostOf[w] = HostOf[u] PROVE run'[w] = Rest
  BY <1>1, <1>2 DEF WaitInv, OneAtATime, Free
<1>3. OneAtATime'
  <2> SUFFICES ASSUME NEW v \in Worker, NEW w \in Worker, HostOf[v] = HostOf[w],
                      run'[v] # Rest, run'[w] # Rest
               PROVE  v = w
    BY DEF OneAtATime
  <2>1. CASE v = u \/ w = u
    BY <1>2, <2>1
  <2>2. CASE v # u /\ w # u
    BY <1>1, <2>2 DEF WaitInv, OneAtATime
  <2> QED BY <2>1, <2>2
<1>4. ASSUME NEW w \in Worker PROVE Stands(w)'
  <2>1. CASE w = u
    BY <1>1, <2>1 DEF Stands
  <2>2. CASE w # u /\ HostOf[w] = HostOf[u]
    <3>1. run'[w] = Rest /\ Rest.pc = "rest"
      BY <1>2, <2>2 DEF Rest
    <3> QED BY <3>1 DEF Stands
  <2>3. CASE w # u /\ HostOf[w] # HostOf[u]
    <3>1. HostOf[w] \in Host
      BY SendAssumption
    <3>2. run'[w] = run[w] /\ events'[HostOf[w]] = events[HostOf[w]] /\ box'[HostOf[w]] = box[HostOf[w]]
      BY <1>1, <2>3, <3>1 DEF OwnHostOnly
    <3>3. Stands(w)
      BY DEF WaitInv
    <3>4. run'[w].pc \in {"save", "push", "read"} => AllPlaced(HostOf[w])'
      BY <3>2, <3>3 DEF Stands, AllPlaced
    <3>5. run'[w].pc = "sign" => AllStored(HostOf[w])'
      BY <3>2, <3>3 DEF Stands, AllStored, MirrorGrows
    <3> QED BY <3>4, <3>5 DEF Stands
  <2> QED BY <2>1, <2>2, <2>3
<1> QED BY <1>3, <1>4 DEF WaitInv

LEMMA AllPlacedStays ==
  ASSUME NEW h, UNCHANGED <<events, box>>, AllPlaced(h)
  PROVE  AllPlaced(h)'
BY DEF AllPlaced

\* Nothing is left to be placed.
LEMMA NoneUnplaced ==
  ASSUME NEW h, Fine(events[h], box[h]), Unplaced(h) = {}
  PROVE  AllPlaced(h)
<1>1. PICK m \in 0 .. Len(events[h]) : DOMAIN box[h] = 1 .. m
  BY DEF Fine
<1>2. Unplaced(h) = (m + 1) .. Len(events[h])
  BY <1>1, UnplacedIs
<1>3. DOMAIN events[h] = 1 .. Len(events[h]) /\ Len(events[h]) \in Nat
  BY DEF Fine
<1>4. m = Len(events[h])
  BY <1>2, <1>3
<1> QED BY <1>1, <1>3, <1>4 DEF AllPlaced

\* Everything of the outbox was shown with its mark.
LEMMA ClearIsStored ==
  ASSUME SaveInv, KeptInv, NEW w \in Worker, run[w].pc = "read", Clear(w), AllPlaced(HostOf[w])
  PROVE  AllStored(HostOf[w])
<1> DEFINE h == HostOf[w]
<1>1. Fine(events[h], box[h])
  BY SendAssumption DEF SaveInv, LedgerInv, HostOK
<1>2. ASSUME NEW i \in DOMAIN events[h]
      PROVE  \E n \in DOMAIN mirror : mirror[n].letter = events[h][i]
  <2>1. i \in DOMAIN box[h] /\ box[h][i].letter = events[h][i]
    BY <1>1, QuadIs DEF Fine, AllPlaced
  <2>2. i \in DOMAIN run[w].remote /\ run[w].remote[i].quad = box[h][i] /\ run[w].remote[i].mirrored
    BY <2>1 DEF Clear, Shown
  <2>3. i \in DOMAIN mirror /\ mirror[i] = box[h][i]
    BY <2>2 DEF KeptInv, ViewHolds, At
  <2> QED BY <2>1, <2>3
<1> QED BY <1>2 DEF AllStored

LEMMA WorkersOwnHost ==
  ASSUME SaveInv, NEW w \in Worker, WorkerStep(w)
  PROVE  OwnHostOnly(w)
<1>1. events = [g \in Host |-> events[g]] /\ box = [g \in Host |-> box[g]]
  BY DEF SaveInv, LedgerInv
<1>2. \/ UNCHANGED <<events, box>>
      \/ \E B : box' = [box EXCEPT ![HostOf[w]] = B] /\ events' = events
      \/ \E E : events' = [events EXCEPT ![HostOf[w]] = E] /\ box' = box
  BY DEF WorkerStep, Call, Export, CannotExport, ReadDoor, Save, SaveUnseen, Push, ReadBack,
         Report, Drained, Sign, Refuse, GiveUp, disk, sendVars
<1> QED BY <1>1, <1>2 DEF OwnHostOnly

LEMMA WorkersWait ==
  ASSUME SaveInv, KeptInv, WaitInv, NEW w \in Worker, WorkerStep(w)
  PROVE  WaitInv'
<1> DEFINE h == HostOf[w]
           To(r) == run' = [run EXCEPT ![w] = r]
<1>1. /\ run = [v \in Worker |-> run[v]] /\ Rest.pc = "rest" /\ Stands(w) /\ h \in Host
      /\ events = [g \in Host |-> events[g]] /\ box = [g \in Host |-> box[g]]
  BY SendAssumption DEF SaveInv, LedgerInv, Rest, WaitInv
<1>2. MirrorGrows
  BY DEF WorkerStep, Call, Export, CannotExport, ReadDoor, Save, SaveUnseen, Push, ReadBack, Report,
         Drained, Sign, Refuse, GiveUp, drop, sendVars, MirrorGrows
<1>3. OwnHostOnly(w)
  BY WorkersOwnHost
<1>4. ASSUME NEW r, To(r), run[w] # Rest \/ Free(h),
             r.pc \in {"save", "push", "read"} => AllPlaced(h)',
             r.pc = "sign" => AllStored(h)'
      PROVE  WaitInv'
  BY <1>2, <1>3, <1>4, WorkerWaits
<1>5. ASSUME Return(w), run[w] # Rest PROVE WaitInv'
  BY <1>1, <1>4, <1>5 DEF Return
<1>6. ASSUME NEW d \in Draft \cup {None}, Call(w, d) PROVE WaitInv'
  <2>1. PICK r : r = [pc |-> "place", draft |-> d, signed |-> FALSE]
    OBVIOUS
  <2>2. To(r) /\ Free(h) /\ r.pc = "place"
    BY <1>6, <2>1 DEF Call
  <2> QED BY <1>4, <2>2
<1>7. CASE Export(w)
  <2>1. run[w].pc = "place"
    BY <1>7 DEF Export, At
  <2>2. run' = run \/ Return(w)
    BY <1>7 DEF Export
  <2>3. To(run[w]) \/ Return(w)
    BY <1>1, <2>2
  <2> QED BY <1>1, <1>4, <1>5, <2>1, <2>3
<1>8. CASE CannotExport(w) \/ SaveUnseen(w) \/ GiveUp(w) \/ Refuse(w)
  <2>1. Return(w) /\ run[w] # Rest
    BY <1>1, <1>8 DEF CannotExport, SaveUnseen, GiveUp, Refuse, At
  <2> QED BY <1>5, <2>1
<1>9. CASE ReadDoor(w)
  <2>1. PICK absent, r :
          /\ absent = DOMAIN box[h] \ DOMAIN door
          /\ r = IF ~Agree(h) THEN Rest
                 ELSE IF absent = {}
                   THEN [pc |-> "read", draft |-> run[w].draft, signed |-> run[w].signed,
                         remote |-> Index]
                   ELSE [pc |-> "save", draft |-> run[w].draft, signed |-> run[w].signed,
                         todo |-> absent]
    OBVIOUS
  <2>4. To(r)
    BY <1>1, <1>9, <2>1 DEF ReadDoor
  <2>5. r.pc # "sign"
    BY <1>1, <2>1
  <2>2. Fine(events[h], box[h]) /\ Unplaced(h) = {} /\ UNCHANGED <<events, box>> /\ run[w] # Rest
    BY <1>1, <1>9 DEF ReadDoor, SaveInv, LedgerInv, HostOK, At
  <2>3. AllPlaced(h)'
    BY <2>2, NoneUnplaced, AllPlacedStays
  <2> QED BY <1>4, <2>2, <2>3, <2>4, <2>5
<1>10. CASE Save(w) \/ Push(w) \/ ReadBack(w)
  <2>1. run[w].pc \in {"save", "push", "read"} /\ UNCHANGED <<events, box>>
    BY <1>10 DEF Save, Push, ReadBack, At, disk
  <2>2. AllPlaced(h)'
    BY <1>1, <2>1, AllPlacedStays DEF Stands
  <2>3. \/ Return(w)
        \/ \E t : To(Pushing(run[w], t))
        \/ \E x : To([pc |-> "read", draft |-> run[w].draft, signed |-> run[w].signed, remote |-> x])
    BY <1>1, <1>10 DEF Save, Push, ReadBack
  <2>4. \E r : To(r) /\ r.pc # "sign"
    BY <1>1, <2>3 DEF Return, Pushing
  <2> QED BY <1>1, <1>4, <2>1, <2>2, <2>4
<1>11. ASSUME NEW n \in DOMAIN box[h], Report(w, n) PROVE WaitInv'
  <2>1. To(run[w]) /\ run[w].pc = "read" /\ UNCHANGED <<events, box>>
    BY <1>1, <1>11 DEF Report, At, sendVars, disk
  <2>2. AllPlaced(h)'
    BY <1>1, <2>1, AllPlacedStays DEF Stands
  <2> QED BY <1>1, <1>4, <2>1, <2>2
<1>12. CASE Drained(w)
  <2>1. run[w].pc = "read" /\ UNCHANGED <<events, box, mirror>>
    BY <1>12 DEF Drained, At, disk, drop
  <2>2. CASE Clear(w)
    <3>1. AllStored(h)
      BY <1>1, <2>1, <2>2, ClearIsStored DEF Stands
    <3>2. AllStored(h)'
      BY <2>1, <3>1 DEF AllStored
    <3>3. PICK r : r = [pc |-> "sign", draft |-> run[w].draft]
      OBVIOUS
    <3>4. Return(w) \/ To(r)
      BY <1>1, <1>12, <3>3 DEF Drained, Return
    <3>5. r.pc = "sign"
      BY <3>3
    <3> QED BY <1>1, <1>4, <1>5, <2>1, <3>2, <3>4, <3>5
  <2>3. CASE ~Clear(w)
    <3>1. Return(w)
      BY <1>1, <1>12, <2>3 DEF Drained, Return
    <3> QED BY <1>1, <1>5, <2>1, <3>1
  <2> QED BY <2>2, <2>3
<1>13. CASE Sign(w)
  <2>1. PICK r : r = [pc |-> "place", draft |-> run[w].draft, signed |-> TRUE]
    OBVIOUS
  <2>2. run[w] # Rest /\ To(r)
    BY <1>1, <1>13, <2>1 DEF Sign, At
  <2>3. r.pc = "place"
    BY <2>1
  <2> QED BY <1>4, <2>2, <2>3
<1> QED
  BY <1>6, <1>7, <1>8, <1>9, <1>10, <1>11, <1>12, <1>13 DEF WorkerStep

\* The mirror grows, and calls go on where they are or rest.
LEMMA OthersWait ==
  ASSUME WaitInv, MirrorGrows, \A w \in Worker : \/ run'[w] = Rest
                                                 \/ /\ run'[w] = run[w]
                                                    /\ events'[HostOf[w]] = events[HostOf[w]]
                                                    /\ box'[HostOf[w]] = box[HostOf[w]]
  PROVE  WaitInv'
<1>1. OneAtATime'
  BY DEF WaitInv, OneAtATime
<1>2. ASSUME NEW w \in Worker PROVE Stands(w)'
  <2>1. CASE run'[w] = Rest
    <3>1. Rest.pc = "rest"
      BY DEF Rest
    <3> QED BY <2>1, <3>1 DEF Stands
  <2>2. CASE /\ run'[w] = run[w]
             /\ events'[HostOf[w]] = events[HostOf[w]]
             /\ box'[HostOf[w]] = box[HostOf[w]]
    <3>1. Stands(w)
      BY DEF WaitInv
    <3>2. run'[w].pc \in {"save", "push", "read"} => AllPlaced(HostOf[w])'
      BY <2>2, <3>1 DEF Stands, AllPlaced
    <3>3. run'[w].pc = "sign" => AllStored(HostOf[w])'
      BY <2>2, <3>1 DEF Stands, AllStored, MirrorGrows
    <3> QED BY <3>2, <3>3 DEF Stands
  <2> QED BY <2>1, <2>2
<1> QED BY <1>1, <1>2 DEF WaitInv

LEMMA WaitInvSteps == SaveInv /\ KeptInv /\ WaitInv /\ [Next]_vars => WaitInv'
<1> SUFFICES ASSUME SaveInv, KeptInv, WaitInv, [Next]_vars PROVE WaitInv'
  OBVIOUS
<1>1. CASE StoreStep \/ UNCHANGED vars
  <2>1. UNCHANGED <<mirror, run, events, box>>
    BY <1>1 DEF StoreStep, vars, sendVars, disk, drop
  <2> QED BY <2>1, OthersWait DEF MirrorGrows
<1>2. CASE DropStep
  <2>1. UNCHANGED <<run, events, box>> /\ MirrorGrows
    BY <1>2, DropElsewhere DEF DropStep, Arrive, Mirror, PutBack, PutSlotBack, Redeploy, disk, Elsewhere
  <2> QED BY <2>1, OthersWait
<1>3. ASSUME NEW u \in Host, LoseDisk(u) \/ OpenLedger(u) PROVE WaitInv'
  <2>1. MirrorGrows
    BY <1>3 DEF LoseDisk, OpenLedger, drop, MirrorGrows
  <2>2. ASSUME NEW w \in Worker, HostOf[w] = u PROVE run'[w] = Rest
    BY <1>3, <2>2 DEF LoseDisk, OpenLedger, SaveInv, Hands
  <2>3. ASSUME NEW w \in Worker, HostOf[w] # u
        PROVE  /\ run'[w] = run[w]
               /\ events'[HostOf[w]] = events[HostOf[w]]
               /\ box'[HostOf[w]] = box[HostOf[w]]
    <3>1. HostOf[w] \in DOMAIN events /\ HostOf[w] \in DOMAIN box
      BY SendAssumption DEF SaveInv, LedgerInv
    <3> QED BY <1>3, <2>3, <3>1 DEF LoseDisk, OpenLedger
  <2> QED BY <2>1, <2>2, <2>3, OthersWait
<1>4. ASSUME NEW w \in Worker, WorkerStep(w) PROVE WaitInv'
  BY <1>4, WorkersWait
<1> QED BY <1>1, <1>2, <1>3, <1>4 DEF Next, HostStep

LEMMA WaitInvInit == Init => WaitInv
<1>1. Rest.pc = "rest"
  BY DEF Rest
<1> QED BY <1>1 DEF Init, WaitInv, OneAtATime, Stands

\* A ledger that is open gets longer only where a letter is signed.
LEMMA LongerIsSigned ==
  ASSUME SaveInv, Next, NEW h \in Host, open[h], Len(events[h]) < Len(events'[h])
  PROVE  \E w \in Worker : HostOf[w] = h /\ run[w].pc = "sign"
<1>1. Len(events[h]) \in Nat /\ DOMAIN events = Host
  BY DEF SaveInv, LedgerInv, HostOK, Fine
<1>2. events'[h] # events[h]
  BY <1>1
<1>3. ASSUME NEW u \in Host, LoseDisk(u) \/ OpenLedger(u) PROVE FALSE
  <2>1. CASE OpenLedger(u)
    <3>1. ~open[u] /\ events' = [events EXCEPT ![u] = kept.events]
      BY <2>1 DEF OpenLedger
    <3> QED BY <1>1, <1>2, <3>1
  <2>2. CASE LoseDisk(u)
    <3>1. events' = [events EXCEPT ![u] = <<>>]
      BY <2>2 DEF LoseDisk
    <3>2. events'[h] = <<>>
      BY <1>1, <1>2, <3>1
    <3>3. Len(events'[h]) = 0
      BY <3>2
    <3> QED BY <1>1, <3>3
  <2> QED BY <1>3, <2>1, <2>2
<1>4. ASSUME NEW w \in Worker, WorkerStep(w)
      PROVE  HostOf[w] = h /\ run[w].pc = "sign"
  <2>1. Sign(w) \/ UNCHANGED events
    BY <1>4 DEF WorkerStep, Call, Export, CannotExport, ReadDoor, Save, SaveUnseen, Push, ReadBack,
                Report, Drained, Refuse, GiveUp, disk, sendVars
  <2>2. Sign(w)
    BY <1>2, <2>1
  <2>3. PICK E : events' = [events EXCEPT ![HostOf[w]] = E]
    BY <1>2, <2>2 DEF Sign
  <2>4. HostOf[w] = h
    BY <1>1, <1>2, <2>3
  <2> QED BY <2>2, <2>4 DEF Sign, At
<1>5. DropStep \/ StoreStep => UNCHANGED events
  BY DEF DropStep, Arrive, Mirror, PutBack, PutSlotBack, Redeploy, StoreStep, disk, sendVars
<1> QED BY <1>2, <1>3, <1>4, <1>5 DEF Next, HostStep

\* No letter is signed while an earlier one of the same ledger is not stored outside:
\* what is given up at the door leaves no gap in the numbers (send_approved in
\* hub_send.py: drain first, sign when everything was shown).
THEOREM NextAlwaysWaits == Spec => NextWaits
<1> DEFINE Waits ==
      \A h \in Host :
        open[h] /\ Len(events[h]) < Len(events'[h]) =>
          \A l \in ToSet(events[h]) : \E n \in DOMAIN mirror : mirror[n].letter = l
<1>1. SaveInv /\ WaitInv /\ [Next]_vars => [Waits]_vars
  <2> SUFFICES ASSUME SaveInv, WaitInv, Next, NEW h \in Host, open[h],
                      Len(events[h]) < Len(events'[h]), NEW l \in ToSet(events[h])
               PROVE  \E n \in DOMAIN mirror : mirror[n].letter = l
    OBVIOUS
  <2>1. PICK w \in Worker : HostOf[w] = h /\ run[w].pc = "sign"
    BY LongerIsSigned
  <2>2. AllStored(h)
    BY <2>1 DEF WaitInv, Stands
  <2>3. PICK i \in DOMAIN events[h] : l = events[h][i]
    BY DEF ToSet
  <2> QED BY <2>2, <2>3 DEF AllStored
<1> QED
  BY <1>1, SaveInvInit, SaveInvSteps, KeptInvInit, KeptInvSteps, WaitInvInit, WaitInvSteps,
     PTL DEF Spec, NextWaits

-----------------------------------------------------------------------------
(* One ledger at a time *)

\* With decisions D and results R, a letter of the draft d may leave.
DueDraft(d, D, R) == D[d] = "approved" /\ (R[d] = None \/ R[d].status = "sent")

\* Of the ledger E with the outbox B, all but the last letter were at the door already
\* (A), and all are due.
InOrder(E, B, A, D, R) ==
  \A i \in DOMAIN E :
    /\ i < Len(E) => i \in DOMAIN B /\ <<i, B[i]>> \in A
    /\ DueDraft(E[i].draft, D, R)

HostInOrder(h) == InOrder(events[h], box[h], arrived, decision, result)
KeptInOrder == InOrder(kept.events, kept.box, arrived, decision, result)

\* Calls are for approved drafts; a draft about to be signed has no result and no letter.
Fits(r) ==
  /\ r # Rest /\ r.draft # None => decision[r.draft] = "approved"
  /\ r.pc = "sign" => result[r.draft] = None

Unsigned(w) ==
  run[w].pc = "sign" =>
    \A i \in DOMAIN events[HostOf[w]] : events[HostOf[w]][i].draft # run[w].draft

AloneInv ==
  /\ Alone
  /\ \A g, h \in Host : open[g] /\ open[h] => g = h
  /\ \A h \in Host : IF open[h] THEN base[h] = kept /\ HostInOrder(h) ELSE events[h] = <<>>
  /\ KeptInOrder
  /\ \A w \in Worker : Fits(run[w]) /\ Unsigned(w)

\* An approval stays.
LEMMA ApprovalStays ==
  ASSUME AnswerInv, [Next]_vars, NEW d, decision[d] = "approved"
  PROVE  decision'[d] = "approved"
<1>1. CASE PersonStep
  <2>1. PICK p \in Person :
          \/ \E e \in Draft, x \in Decisions : Confirm(p, e, x) \/ StartDeciding(p, e, x)
          \/ Decide(p)
    BY <1>1 DEF PersonStep
  <2>2. CASE Decide(p)
    <3>1. PICK e, x : decision' = IF decision[e] = None THEN [decision EXCEPT ![e] = x] ELSE decision
      BY <2>2 DEF Decide
    <3>2. None # "approved"
      BY DraftAssumption
    <3>3. CASE d \in Draft
      BY <3>1, <3>2, <3>3 DEF AnswerInv
    <3>4. CASE d \notin Draft
      BY <3>1, <3>2, <3>4 DEF AnswerInv
    <3> QED BY <3>3, <3>4
  <2>3. CASE \E e \in Draft, x \in Decisions : Confirm(p, e, x) \/ StartDeciding(p, e, x)
    BY <2>3 DEF Confirm, StartDeciding, store
  <2> QED BY <2>1, <2>2, <2>3
<1>2. CASE ~PersonStep
  BY <1>2, OthersLeaveAnswers DEF answerVars
<1> QED BY <1>1, <1>2

LEMMA InOrderStays ==
  ASSUME NEW E, NEW B, NEW C, NEW A, NEW Z, NEW D, NEW F, NEW R, NEW S,
         InOrder(E, B, A, D, R), Fine(E, B), Fine(E, C), DOMAIN B \subseteq DOMAIN C, A \subseteq Z,
         \A i \in DOMAIN E : DueDraft(E[i].draft, D, R) => DueDraft(E[i].draft, F, S)
  PROVE  InOrder(E, C, Z, F, S)
<1>1. \A n \in DOMAIN B : n \in DOMAIN C /\ C[n] = B[n]
  BY DEF Fine
<1> QED BY <1>1 DEF InOrder

\* A call that is past "rest", or is about to begin, is the only one.
LEMMA OnlyOne ==
  ASSUME SaveInv, WaitInv, AloneInv, NEW u \in Worker, open[HostOf[u]],
         run[u] # Rest \/ Free(HostOf[u]), NEW w \in Worker, w # u
  PROVE  run[w] = Rest
<1>1. HostOf[u] \in Host /\ HostOf[w] \in Host
  BY SendAssumption
<1>2. CASE HostOf[w] = HostOf[u]
  BY <1>2 DEF WaitInv, OneAtATime, Free
<1>3. CASE HostOf[w] # HostOf[u]
  <2>1. ~open[HostOf[w]]
    BY <1>1, <1>3 DEF AloneInv
  <2> QED BY <2>1 DEF SaveInv, Hands
<1> QED BY <1>2, <1>3

\* A step of a call: the ledger of its host, the outside copy and the call itself are
\* all there is to look at.
LEMMA AloneAfter ==
  ASSUME SaveInv, WaitInv, AloneInv, NEW u \in Worker, open[HostOf[u]],
         run[u] # Rest \/ Free(HostOf[u]), NEW r, run' = [run EXCEPT ![u] = r],
         open' = open, OwnHostOnly(u), base'[HostOf[u]] = kept',
         HostInOrder(HostOf[u])', KeptInOrder', r = Rest \/ Fits(r)', Unsigned(u)'
  PROVE  AloneInv'
<1>1. HostOf[u] \in Host /\ Rest.pc = "rest"
  BY SendAssumption DEF Rest
<1>2. run'[u] = r /\ \A w \in Worker : w # u => run'[w] = Rest
  BY OnlyOne DEF SaveInv
<1>3. ASSUME NEW h \in Host
      PROVE  IF open'[h] THEN base'[h] = kept' /\ HostInOrder(h)' ELSE events'[h] = <<>>
  <2>1. CASE h = HostOf[u]
    BY <2>1
  <2>2. CASE h # HostOf[u]
    <3>1. ~open[h] /\ events'[h] = events[h]
      BY <1>1, <2>2 DEF AloneInv, OwnHostOnly
    <3> QED BY <3>1 DEF AloneInv
  <2> QED BY <2>1, <2>2
<1>4. ASSUME NEW w \in Worker PROVE Fits(run[w])' /\ Unsigned(w)'
  <2>1. CASE w = u /\ r # Rest
    <3>1. Fits(r)' /\ run'[w] = r
      BY <1>2, <2>1
    <3>2. Fits(run[w])'
      BY <3>1 DEF Fits
    <3> QED BY <2>1, <3>2
  <2>2. CASE run'[w] = Rest
    BY <1>1, <2>2 DEF Fits, Unsigned
  <2> QED BY <1>2, <2>1, <2>2
<1>5. \A g, h \in Host : open'[g] /\ open'[h] => g = h
  BY DEF AloneInv
<1> QED BY <1>3, <1>4, <1>5 DEF AloneInv

\* Ledgers, outboxes and the outside copy stay; what is due stays due.
LEMMA OrdersStay ==
  ASSUME SaveInv, AloneInv, UNCHANGED <<events, box, kept>>, arrived \subseteq arrived',
         NEW h \in Host, open[h],
         \A i \in DOMAIN events[h] :
           DueDraft(events[h][i].draft, decision, result)
             => DueDraft(events[h][i].draft, decision', result')
  PROVE  HostInOrder(h)' /\ KeptInOrder'
<1>1. base[h] = kept /\ HostInOrder(h) /\ KeptInOrder
  BY DEF AloneInv
<1>2. /\ Fine(events[h], box[h]) /\ Fine(kept.events, kept.box)
      /\ PartOf(kept.events, kept.box, events[h], box[h])
  BY <1>1 DEF SaveInv, LedgerInv, HostOK
<1>3. PICK E, B, F, C : E = events[h] /\ B = box[h] /\ F = kept.events /\ C = kept.box
  OBVIOUS
<1>4. \A i \in DOMAIN F : i \in DOMAIN E /\ F[i] = E[i]
  <2>1. Len(E) \in Nat /\ Len(F) \in Nat /\ DOMAIN E = 1 .. Len(E) /\ DOMAIN F = 1 .. Len(F)
    BY <1>2, <1>3 DEF Fine
  <2> QED BY <1>2, <1>3, <2>1 DEF PartOf
<1>5. InOrder(E, B, arrived', decision', result')
  BY <1>1, <1>2, <1>3, InOrderStays DEF HostInOrder
<1>6. \A i \in DOMAIN F : DueDraft(F[i].draft, decision, result) => DueDraft(F[i].draft, decision', result')
  BY <1>3, <1>4
<1>7. InOrder(F, C, arrived', decision', result')
  BY <1>1, <1>2, <1>3, <1>6, InOrderStays DEF KeptInOrder
<1> QED BY <1>3, <1>5, <1>7 DEF HostInOrder, KeptInOrder

\* Nothing but decisions, arrivals and the store's own data change.
LEMMA AloneStays ==
  ASSUME SaveInv, AloneInv, UNCHANGED <<open, events, box, base, kept, run>>,
         arrived \subseteq arrived', result' = result,
         \A d : decision[d] = "approved" => decision'[d] = "approved"
  PROVE  AloneInv'
<1>1. \A d : DueDraft(d, decision, result) => DueDraft(d, decision', result')
  BY DEF DueDraft
<1>2. ASSUME NEW h \in Host
      PROVE  IF open'[h] THEN base'[h] = kept' /\ HostInOrder(h)' ELSE events'[h] = <<>>
  <2>1. CASE open[h]
    <3>1. HostInOrder(h)'
      BY <1>1, <2>1, OrdersStay
    <3> QED BY <2>1, <3>1 DEF AloneInv
  <2>2. CASE ~open[h]
    BY <2>2 DEF AloneInv
  <2> QED BY <2>1, <2>2
<1>3. KeptInOrder'
  <2>1. PICK F, C : F = kept.events /\ C = kept.box
    OBVIOUS
  <2>2. Fine(F, C) /\ InOrder(F, C, arrived, decision, result)
    BY <2>1 DEF SaveInv, LedgerInv, AloneInv, KeptInOrder
  <2>3. InOrder(F, C, arrived', decision', result')
    BY <1>1, <2>2, InOrderStays
  <2> QED BY <2>1, <2>3 DEF KeptInOrder
<1>4. \A w \in Worker : Fits(run[w])' /\ Unsigned(w)'
  BY DEF AloneInv, Fits, Unsigned
<1>5. \A g, h \in Host : open'[g] /\ open'[h] => g = h
  BY DEF AloneInv
<1> QED BY <1>2, <1>3, <1>4, <1>5 DEF AloneInv

\* A step of a call that leaves ledgers and outboxes as they are.
LEMMA QuietAlone ==
  ASSUME SaveInv, WaitInv, AloneInv, NEW u \in Worker, open[HostOf[u]],
         run[u] # Rest \/ Free(HostOf[u]), NEW r, run' = [run EXCEPT ![u] = r],
         UNCHANGED <<open, events, box, base, kept>>, arrived \subseteq arrived',
         \A i \in DOMAIN events[HostOf[u]] :
           DueDraft(events[HostOf[u]][i].draft, decision, result)
             => DueDraft(events[HostOf[u]][i].draft, decision', result'),
         r = Rest \/ Fits(r)', Unsigned(u)'
  PROVE  AloneInv'
<1>1. HostOf[u] \in Host
  BY SendAssumption
<1>2. HostInOrder(HostOf[u])' /\ KeptInOrder'
  BY <1>1, OrdersStay
<1>3. base'[HostOf[u]] = kept' /\ OwnHostOnly(u)
  BY <1>1 DEF AloneInv, OwnHostOnly
<1> QED BY <1>2, <1>3, AloneAfter

\* A draft of the ledger that has been sent or is still to be sent is not about to be signed.
LEMMA DrainedUnsigned ==
  ASSUME SaveInv, AloneInv, WaitInv, NEW w \in Worker, run[w].pc = "read", Reported(w), Clear(w),
         result[run[w].draft] = None, NEW i \in DOMAIN events[HostOf[w]]
  PROVE  events[HostOf[w]][i].draft # run[w].draft
<1> DEFINE h == HostOf[w]
<1>1. Fine(events[h], box[h]) /\ AllPlaced(h)
  BY SendAssumption DEF SaveInv, LedgerInv, HostOK, WaitInv, Stands
<1>2. i \in DOMAIN box[h] /\ box[h][i].letter = events[h][i]
  BY <1>1, QuadIs DEF Fine, AllPlaced
<1>3. result[box[h][i].letter.draft] # None
  BY <1>2 DEF Clear, Reported
<1> QED BY <1>2, <1>3

LEMMA QuietCalls ==
  ASSUME SaveInv, WaitInv, AloneInv, NEW w \in Worker,
         \/ \E d \in Draft \cup {None} : Call(w, d)
         \/ CannotExport(w) \/ ReadDoor(w) \/ Push(w) \/ ReadBack(w) \/ Drained(w) \/ GiveUp(w)
  PROVE  AloneInv'
<1> DEFINE h == HostOf[w]
           To(r) == run' = [run EXCEPT ![w] = r]
<1>1. /\ run = [v \in Worker |-> run[v]] /\ Rest.pc = "rest" /\ Fits(run[w])
      /\ run[w] # Rest => open[h]
  BY DEF SaveInv, Rest, AloneInv, Hands
<1>2. UNCHANGED <<open, events, box, base, kept, decision, result>> /\ arrived \subseteq arrived'
  <2>1. Push(w) => arrived \subseteq arrived'
    BY DEF Push, Take
  <2> QED BY <2>1 DEF Call, CannotExport, ReadDoor, Push, ReadBack, Drained, GiveUp, disk, drop,
                      draftVars, store
<1>3. ASSUME NEW r, To(r), open[h], run[w] # Rest \/ Free(h), r = Rest \/ Fits(r), r.pc # "sign"
      PROVE  AloneInv'
  <2>1. Unsigned(w)'
    BY <1>1, <1>3 DEF Unsigned
  <2>2. r = Rest \/ Fits(r)'
    BY <1>2, <1>3 DEF Fits
  <2>3. \A i \in DOMAIN events[h] :
          DueDraft(events[h][i].draft, decision, result)
            => DueDraft(events[h][i].draft, decision', result')
    BY <1>2
  <2> QED BY <1>2, <1>3, <2>1, <2>2, <2>3, QuietAlone
<1>4. ASSUME Return(w), run[w] # Rest PROVE AloneInv'
  BY <1>1, <1>3, <1>4 DEF Return
<1>5. ASSUME NEW r, To(r), run[w] # Rest, r.draft = run[w].draft, r.pc # "sign" PROVE AloneInv'
  <2>1. r = Rest \/ Fits(r)
    BY <1>1, <1>5 DEF Fits
  <2> QED BY <1>1, <1>3, <1>5, <2>1
<1>6. ASSUME NEW d \in Draft \cup {None}, Call(w, d) PROVE AloneInv'
  <2>1. PICK r : r = [pc |-> "place", draft |-> d, signed |-> FALSE]
    OBVIOUS
  <2>2. To(r) /\ open[h] /\ Free(h) /\ r.pc = "place" /\ r.draft = d
    BY <1>6, <2>1 DEF Call
  <2>3. Fits(r)
    BY <1>6, <2>2 DEF Call, Fits
  <2> QED BY <1>3, <2>2, <2>3
<1>7. CASE CannotExport(w) \/ GiveUp(w)
  <2>1. Return(w) /\ run[w] # Rest
    BY <1>1, <1>7 DEF CannotExport, GiveUp, At
  <2> QED BY <1>4, <2>1
<1>8. CASE ReadDoor(w)
  <2>1. PICK absent, r :
          /\ absent = DOMAIN box[h] \ DOMAIN door
          /\ r = IF ~Agree(h) THEN Rest
                 ELSE IF absent = {}
                   THEN [pc |-> "read", draft |-> run[w].draft, signed |-> run[w].signed,
                         remote |-> Index]
                   ELSE [pc |-> "save", draft |-> run[w].draft, signed |-> run[w].signed,
                         todo |-> absent]
    OBVIOUS
  <2>2. To(r) /\ run[w] # Rest
    BY <1>1, <1>8, <2>1 DEF ReadDoor, At
  <2>3. r = Rest \/ (r.draft = run[w].draft /\ r.pc # "sign")
    BY <2>1
  <2> QED BY <1>4, <1>5, <2>2, <2>3 DEF Return
<1>9. CASE Push(w)
  <2>1. run[w] # Rest /\ (Return(w) \/ \E t : To(Pushing(run[w], t)))
    BY <1>1, <1>9 DEF Push, At
  <2>2. ASSUME NEW t, To(Pushing(run[w], t)) PROVE AloneInv'
    <3>1. PICK r : r = Pushing(run[w], t)
      OBVIOUS
    <3>2. r.draft = run[w].draft /\ r.pc # "sign"
      BY <3>1 DEF Pushing
    <3> QED BY <1>5, <2>1, <2>2, <3>1, <3>2
  <2> QED BY <1>4, <2>1, <2>2
<1>10. CASE ReadBack(w)
  <2>1. PICK r : r = [pc |-> "read", draft |-> run[w].draft, signed |-> run[w].signed,
                      remote |-> Index]
    OBVIOUS
  <2>2. To(r) /\ run[w] # Rest
    BY <1>1, <1>10, <2>1 DEF ReadBack, At
  <2>3. r.draft = run[w].draft /\ r.pc # "sign"
    BY <2>1
  <2> QED BY <1>5, <2>2, <2>3
<1>11. CASE Drained(w)
  <2>1. run[w].pc = "read" /\ run[w] # Rest /\ Reported(w)
    BY <1>1, <1>11 DEF Drained, At
  <2>2. CASE ~run[w].signed /\ run[w].draft # None /\ Clear(w) /\ result[run[w].draft] = None
    <3>1. PICK r : r = [pc |-> "sign", draft |-> run[w].draft]
      OBVIOUS
    <3>2. To(r) /\ r.draft = run[w].draft /\ run'[w] = r
      BY <1>1, <1>11, <2>2, <3>1 DEF Drained
    <3>3. Fits(r)'
      BY <1>1, <1>2, <2>1, <2>2, <3>2 DEF Fits
    <3>4. \A i \in DOMAIN events[h] : events[h][i].draft # run[w].draft
      BY <2>1, <2>2, DrainedUnsigned
    <3>5. Unsigned(w)'
      BY <1>2, <3>2, <3>4 DEF Unsigned
    <3>6. \A i \in DOMAIN events[h] :
            DueDraft(events[h][i].draft, decision, result)
              => DueDraft(events[h][i].draft, decision', result')
      BY <1>2
    <3> QED BY <1>1, <1>2, <2>1, <3>2, <3>3, <3>5, <3>6, QuietAlone
  <2>3. CASE ~(~run[w].signed /\ run[w].draft # None /\ Clear(w) /\ result[run[w].draft] = None)
    <3>1. Return(w)
      BY <1>1, <1>11, <2>3 DEF Drained, Return
    <3> QED BY <1>4, <2>1, <3>1
  <2> QED BY <2>2, <2>3
<1> QED BY <1>6, <1>7, <1>8, <1>9, <1>10, <1>11

LEMMA ResultsAlone ==
  ASSUME SaveInv, KeptInv, WaitInv, AloneInv, NEW w \in Worker,
         (\E n \in DOMAIN box[HostOf[w]] : Report(w, n)) \/ Refuse(w)
  PROVE  AloneInv'
<1> DEFINE h == HostOf[w]
<1>1. /\ run = [v \in Worker |-> run[v]] /\ Rest.pc = "rest" /\ Fits(run[w]) /\ Unsigned(w)
      /\ result = [d \in Draft |-> result[d]]
      /\ run[w] # Rest => open[h]
  BY DEF SaveInv, Rest, AloneInv, Hands, KeptInv
<1>2. UNCHANGED <<open, events, box, base, kept, decision>> /\ arrived \subseteq arrived'
  BY DEF Report, Refuse, disk, drop, sendVars
<1>3. ASSUME NEW i \in DOMAIN events[h] PROVE events[h][i].draft \in Draft
  <2>1. events[h] \in Seq(Letter)
    BY SendAssumption DEF SaveInv, LedgerInv, HostOK, Fine
  <2>2. PICK s : s = events[h]
    OBVIOUS
  <2>3. s \in Seq(Letter) /\ i \in DOMAIN s
    BY <1>3, <2>1, <2>2
  <2>4. s[i] \in Letter
    BY <2>3
  <2>5. s[i].draft \in Draft
    BY <2>4 DEF Letter
  <2> QED BY <2>2, <2>5
<1>4. ASSUME NEW n \in DOMAIN box[h], Report(w, n) PROVE AloneInv'
  <2>1. PICK q, d, r : q = box[h][n] /\ d = q.letter.draft /\ r = SentRecord(n, q)
    OBVIOUS
  <2>2. result[d] = None /\ result' = [result EXCEPT ![d] = r] /\ r.status = "sent"
    BY <1>4, <2>1 DEF Report, PutResult, SentRecord
  <2>3. \A e \in Draft : DueDraft(e, decision, result) => DueDraft(e, decision', result')
    BY <1>1, <1>2, <2>2 DEF DueDraft
  <2>4. run' = [run EXCEPT ![w] = run[w]] /\ run[w].pc = "read"
    BY <1>1, <1>4 DEF Report, At, sendVars
  <2>5. Fits(run[w]) /\ run'[w] = run[w]
    BY <1>1, <2>4
  <2>6. PICK s : s = run[w]
    OBVIOUS
  <2>7. Fits(s)' /\ Unsigned(w)'
    BY <1>2, <2>4, <2>5, <2>6 DEF Fits, Unsigned
  <2> QED BY <1>1, <1>2, <1>3, <2>3, <2>4, <2>6, <2>7, QuietAlone
<1>5. CASE Refuse(w)
  <2>1. PICK d : d = run[w].draft
    OBVIOUS
  <2>2. run[w].pc = "sign" /\ run' = [run EXCEPT ![w] = Rest] /\ run'[w] = Rest
    BY <1>1, <1>5 DEF Refuse, At, Return
  <2>3. result' = result \/ result' = [result EXCEPT ![d] = Failed]
    BY <1>5, <2>1 DEF Refuse, PutResult
  <2>4. \A e \in Draft : e # d => result'[e] = result[e]
    BY <1>1, <2>3
  <2>5. \A i \in DOMAIN events[h] : events[h][i].draft # d
    BY <1>1, <2>1, <2>2 DEF Unsigned
  <2>6. \A i \in DOMAIN events[h] :
          DueDraft(events[h][i].draft, decision, result)
            => DueDraft(events[h][i].draft, decision', result')
    BY <1>2, <1>3, <2>4, <2>5 DEF DueDraft
  <2>7. Unsigned(w)'
    BY <1>1, <2>2 DEF Unsigned
  <2> QED BY <1>1, <1>2, <2>2, <2>6, <2>7, QuietAlone
<1> QED BY <1>4, <1>5

LEMMA ExportAlone ==
  ASSUME SaveInv, SaveInv', WaitInv, AloneInv, NEW w \in Worker, Export(w), OwnHostOnly(w)
  PROVE  AloneInv'
<1> DEFINE h == HostOf[w]
<1>1. /\ run = [v \in Worker |-> run[v]] /\ Rest.pc = "rest" /\ Fits(run[w]) /\ h \in Host
      /\ run[w].pc = "place" /\ open[h] /\ box = [g \in Host |-> box[g]]
  BY SendAssumption DEF SaveInv, Rest, AloneInv, Hands, Export, At, LedgerInv
<1>2. UNCHANGED <<open, events, base, kept, decision, result, arrived>>
  BY DEF Export, drop, draftVars, store
<1>3. base[h] = kept /\ HostInOrder(h) /\ KeptInOrder
  BY <1>1 DEF AloneInv
<1>4. DOMAIN box[h] \subseteq DOMAIN box'[h]
  BY <1>1 DEF Export, PutAt
<1>5. Fine(events[h], box[h]) /\ Fine(events'[h], box'[h])
  <2>1. HostOK(h) /\ HostOK(h)'
    BY <1>1 DEF SaveInv, LedgerInv
  <2> QED BY <2>1 DEF HostOK, Fine
<1>6. PICK E, B, C : E = events[h] /\ B = box[h] /\ C = box'[h]
  OBVIOUS
<1>7. Fine(E, B) /\ Fine(E, C) /\ InOrder(E, B, arrived, decision, result)
  BY <1>2, <1>3, <1>5, <1>6 DEF HostInOrder
<1>8. InOrder(E, C, arrived, decision, result)
  BY <1>4, <1>6, <1>7, InOrderStays
<1>9. HostInOrder(h)'
  BY <1>2, <1>6, <1>8 DEF HostInOrder
<1>10. KeptInOrder'
  BY <1>2, <1>3 DEF KeptInOrder
<1>11. PICK r : run' = [run EXCEPT ![w] = r] /\ (r = Rest \/ r = run[w])
  <2>1. run' = run \/ run' = [run EXCEPT ![w] = Rest]
    BY DEF Export, Return
  <2>2. run = [run EXCEPT ![w] = run[w]]
    BY <1>1
  <2> QED BY <2>1, <2>2
<1>12. r = Rest \/ Fits(r)'
  BY <1>1, <1>2, <1>11 DEF Fits
<1>13. Unsigned(w)'
  <2>1. run'[w] = r
    BY <1>1, <1>11
  <2> QED BY <1>1, <1>11, <2>1 DEF Unsigned
<1>14. run[w] # Rest
  BY <1>1
<1> QED BY <1>1, <1>2, <1>3, <1>9, <1>10, <1>11, <1>12, <1>13, <1>14, AloneAfter

LEMMA SaveAlone ==
  ASSUME SaveInv, SlotInv, WaitInv, AloneInv, NEW w \in Worker, Save(w) \/ SaveUnseen(w),
         OwnHostOnly(w)
  PROVE  AloneInv'
<1> DEFINE h == HostOf[w]
<1>1. /\ run = [v \in Worker |-> run[v]] /\ Rest.pc = "rest" /\ Fits(run[w]) /\ h \in Host
      /\ run[w].pc = "save" /\ open[h] /\ base = [g \in Host |-> base[g]]
  BY SendAssumption DEF SaveInv, Rest, AloneInv, Hands, Save, SaveUnseen, At, LedgerInv
<1>2. UNCHANGED <<open, events, box, decision, result, arrived>>
  BY DEF Save, SaveUnseen, drop, draftVars, store
<1>3. HostInOrder(h)
  BY <1>1 DEF AloneInv
<1>4. kept' = Content(h) /\ base' = [base EXCEPT ![h] = Content(h)]
  <2>1. base[h] = kept
    BY <1>1 DEF SlotInv, AloneInv
  <2> QED BY <2>1 DEF Save, SaveUnseen, PutOutside, NewestAfter, Saved
<1>5. base'[h] = kept' /\ kept'.events = events[h] /\ kept'.box = box[h]
  BY <1>1, <1>4 DEF Content
<1>6. HostInOrder(h)'
  BY <1>2, <1>3 DEF HostInOrder
<1>7. KeptInOrder'
  BY <1>2, <1>3, <1>5 DEF HostInOrder, KeptInOrder
<1>8. PICK r : r = Pushing(run[w], run[w].todo)
  OBVIOUS
<1>9. r.pc = "push" /\ r.draft = run[w].draft
  BY <1>8 DEF Pushing
<1>10. run' = [run EXCEPT ![w] = r] \/ run' = [run EXCEPT ![w] = Rest]
  BY <1>1, <1>8 DEF Save, SaveUnseen, Return
<1>11. Fits(r)' /\ run[w] # Rest
  BY <1>1, <1>2, <1>9 DEF Fits
<1>12. Unsigned(w)'
  <2>1. run'[w] = r \/ run'[w] = Rest
    BY <1>1, <1>10
  <2> QED BY <1>1, <1>9, <2>1 DEF Unsigned
<1>13. CASE run' = [run EXCEPT ![w] = r]
  BY <1>1, <1>2, <1>5, <1>6, <1>7, <1>11, <1>12, <1>13, AloneAfter
<1>14. CASE run' = [run EXCEPT ![w] = Rest]
  BY <1>1, <1>2, <1>5, <1>6, <1>7, <1>11, <1>12, <1>14, AloneAfter
<1> QED BY <1>10, <1>13, <1>14

\* A letter that is stored outside has been at the door, from this outbox.
LEMMA StoredArrived ==
  ASSUME SaveInv, Alone, NEW h \in Host, base[h] = kept, AllStored(h), NEW i \in DOMAIN events[h]
  PROVE  i \in DOMAIN box[h] /\ <<i, box[h][i]>> \in arrived
<1>1. PICK n \in DOMAIN mirror : mirror[n].letter = events[h][i]
  BY DEF AllStored
<1>2. <<n, mirror[n]>> \in arrived
  BY DEF SaveInv, OutIsKept
<1>3. n \in DOMAIN kept.box /\ kept.box[n] = mirror[n]
  <2>1. PICK p : p = <<n, mirror[n]>>
    OBVIOUS
  <2>2. InKept(p[1], p[2]) /\ p[1] = n /\ p[2] = mirror[n]
    BY <1>2, <2>1 DEF SaveInv, OutIsKept
  <2> QED BY <2>2 DEF InKept, Orderly
<1>4. /\ Fine(events[h], box[h]) /\ Fine(kept.events, kept.box)
      /\ PartOf(kept.events, kept.box, events[h], box[h])
  BY DEF SaveInv, LedgerInv, HostOK
<1>5. n \in DOMAIN box[h] /\ box[h][n] = mirror[n]
  BY <1>3, <1>4, PartHasQuads
<1>6. n \in DOMAIN events[h] /\ box[h][n].letter = events[h][n]
  BY <1>4, <1>5, QuadIs DEF Fine
<1>7. n = i
  BY <1>1, <1>4, <1>5, <1>6 DEF Fine
<1> QED BY <1>2, <1>5, <1>7

LEMMA SignAlone ==
  ASSUME SaveInv, WaitInv, AloneInv, RunInv, NEW w \in Worker, Sign(w), OwnHostOnly(w)
  PROVE  AloneInv'
<1> DEFINE h == HostOf[w]
           d == run[w].draft
<1>1. /\ run = [v \in Worker |-> run[v]] /\ Rest.pc = "rest" /\ Fits(run[w]) /\ h \in Host
      /\ run[w].pc = "sign" /\ open[h] /\ events = [g \in Host |-> events[g]]
  BY SendAssumption DEF SaveInv, Rest, AloneInv, Hands, Sign, At, LedgerInv
<1>2. UNCHANGED <<open, box, base, kept, decision, result, arrived>>
  BY DEF Sign, drop, draftVars, store
<1>3. base[h] = kept /\ HostInOrder(h) /\ KeptInOrder
  BY <1>1 DEF AloneInv
<1>4. KeptInOrder'
  BY <1>2, <1>3 DEF KeptInOrder
<1>5. d \in Draft /\ decision[d] = "approved" /\ result[d] = None
  <2>1. run[w] # Rest
    BY <1>1
  <2>2. d \in Draft
    BY <1>1, <2>1, Busy
  <2>3. d # None
    BY <2>2, DraftAssumption
  <2> QED BY <1>1, <2>1, <2>2, <2>3 DEF Fits
<1>6. PICK E, B : E = events[h] /\ B = box[h]
  OBVIOUS
<1>7. Fine(E, B) /\ InOrder(E, B, arrived, decision, result)
  BY <1>1, <1>3, <1>6 DEF SaveInv, LedgerInv, HostOK, HostInOrder
<1>8. \A i \in DOMAIN E : i \in DOMAIN B /\ <<i, B[i]>> \in arrived
  <2>1. AllStored(h)
    BY <1>1 DEF WaitInv, Stands
  <2> QED BY <1>1, <1>3, <1>6, <2>1, StoredArrived DEF AloneInv
<1>9. PICK F : events'[h] = F /\ (F = E \/ \E l : F = Append(E, l) /\ l.draft = d)
  <2>1. CASE events' = events
    BY <1>6, <2>1
  <2>2. CASE events' # events
    <3>1. PICK s \in Stamp :
            events' = [events EXCEPT ![h] = Append(@, [draft |-> d, text |-> bytes[d], stamp |-> s])]
      BY <2>2 DEF Sign
    <3>2. PICK l : l = [draft |-> d, text |-> bytes[d], stamp |-> s]
      OBVIOUS
    <3>3. events'[h] = Append(E, l) /\ l.draft = d
      BY <1>1, <1>6, <3>1, <3>2
    <3> QED BY <3>3
  <2> QED BY <2>1, <2>2
<1>10. InOrder(F, B, arrived, decision, result)
  <2>1. CASE F = E
    BY <1>7, <2>1
  <2>2. ASSUME NEW l, F = Append(E, l), l.draft = d
        PROVE  InOrder(F, B, arrived, decision, result)
    <3>1. E \in Seq(Letter) /\ Len(E) \in Nat /\ DOMAIN E = 1 .. Len(E)
      BY <1>7 DEF Fine
    <3>2. Len(F) = Len(E) + 1 /\ DOMAIN F = 1 .. (Len(E) + 1) /\ F[Len(E) + 1] = l
          /\ \A i \in DOMAIN E : F[i] = E[i]
      BY <2>2, <3>1
    <3>3. ASSUME NEW i \in DOMAIN F
          PROVE  /\ i < Len(F) => i \in DOMAIN B /\ <<i, B[i]>> \in arrived
                 /\ DueDraft(F[i].draft, decision, result)
      <4>1. CASE i \in DOMAIN E
        BY <1>7, <1>8, <3>2, <4>1 DEF InOrder
      <4>2. CASE i = Len(E) + 1
        BY <1>5, <2>2, <3>1, <3>2, <4>2 DEF DueDraft
      <4> QED BY <3>1, <3>2, <4>1, <4>2
    <3> QED BY <3>3 DEF InOrder
  <2> QED BY <1>9, <2>1, <2>2
<1>11. HostInOrder(h)'
  BY <1>2, <1>6, <1>9, <1>10 DEF HostInOrder
<1>12. PICK r : r = [pc |-> "place", draft |-> d, signed |-> TRUE]
  OBVIOUS
<1>13. r.pc = "place" /\ r.draft = d /\ run' = [run EXCEPT ![w] = r]
  BY <1>12 DEF Sign
<1>14. Fits(r)'
  BY <1>2, <1>5, <1>13 DEF Fits
<1>15. Unsigned(w)' /\ run[w] # Rest
  <2>1. run'[w] = r
    BY <1>1, <1>13
  <2> QED BY <1>1, <1>13, <2>1 DEF Unsigned
<1> QED BY <1>1, <1>2, <1>3, <1>4, <1>11, <1>13, <1>14, <1>15, AloneAfter

LEMMA LossAlone ==
  ASSUME SaveInv, AloneInv, NEW u \in Host, LoseDisk(u)
  PROVE  AloneInv'
<1>1. /\ open' = [open EXCEPT ![u] = FALSE] /\ events' = [events EXCEPT ![u] = <<>>]
      /\ box' = [box EXCEPT ![u] = NoQuads] /\ UNCHANGED <<kept, decision, result, arrived>>
      /\ base' = [base EXCEPT ![u] = [events |-> <<>>, box |-> NoQuads]]
      /\ \A w \in Worker : run'[w] = IF HostOf[w] = u THEN Rest ELSE run[w]
  BY DEF LoseDisk, drop, draftVars, store
<1>2. /\ open \in [Host -> BOOLEAN] /\ DOMAIN events = Host /\ DOMAIN box = Host /\ DOMAIN base = Host
      /\ Rest.pc = "rest"
  BY DEF SaveInv, LedgerInv, Rest
<1>3. ASSUME NEW h \in Host
      PROVE  IF open'[h] THEN base'[h] = kept' /\ HostInOrder(h)' ELSE events'[h] = <<>>
  <2>1. CASE h = u
    BY <1>1, <1>2, <2>1
  <2>2. CASE h # u
    <3>1. open'[h] = open[h] /\ events'[h] = events[h] /\ box'[h] = box[h] /\ base'[h] = base[h]
      BY <1>1, <1>2, <2>2
    <3>2. open[h] => HostInOrder(h)'
      BY <1>1, <3>1 DEF AloneInv, HostInOrder
    <3> QED BY <1>1, <3>1, <3>2 DEF AloneInv
  <2> QED BY <2>1, <2>2
<1>4. KeptInOrder'
  BY <1>1 DEF AloneInv, KeptInOrder
<1>5. ASSUME NEW w \in Worker PROVE Fits(run[w])' /\ Unsigned(w)'
  <2>1. CASE HostOf[w] = u
    BY <1>1, <1>2, <2>1 DEF Fits, Unsigned
  <2>2. CASE HostOf[w] # u
    <3>1. run'[w] = run[w] /\ Fits(run[w]) /\ Unsigned(w)
      BY <1>1, <2>2 DEF AloneInv
    <3>2. events'[HostOf[w]] = events[HostOf[w]]
      BY <1>1, <1>2, <2>2, SendAssumption
    <3> QED BY <1>1, <3>1, <3>2 DEF Fits, Unsigned
  <2> QED BY <2>1, <2>2
<1>6. \A g, h \in Host : open'[g] /\ open'[h] => g = h
  BY <1>1, <1>2 DEF AloneInv
<1> QED BY <1>3, <1>4, <1>5, <1>6 DEF AloneInv

LEMMA OpenAlone ==
  ASSUME SaveInv, SlotInv, AloneInv, NEW u \in Host, OpenLedger(u)
  PROVE  AloneInv'
<1>1. /\ \A h \in Host : ~open[h]
      /\ open' = [open EXCEPT ![u] = TRUE] /\ events' = [events EXCEPT ![u] = kept.events]
      /\ box' = [box EXCEPT ![u] = kept.box] /\ base' = [base EXCEPT ![u] = kept]
      /\ UNCHANGED <<kept, decision, result, arrived, run>>
  BY DEF OpenLedger, drop, draftVars, store, SlotInv, Orderly, AloneInv
<1>2. /\ open \in [Host -> BOOLEAN] /\ DOMAIN events = Host /\ DOMAIN box = Host /\ DOMAIN base = Host
      /\ Rest.pc = "rest"
  BY DEF SaveInv, LedgerInv, Rest
<1>3. KeptInOrder'
  BY <1>1 DEF AloneInv, KeptInOrder
<1>4. ASSUME NEW h \in Host
      PROVE  IF open'[h] THEN base'[h] = kept' /\ HostInOrder(h)' ELSE events'[h] = <<>>
  <2>1. CASE h = u
    <3>1. base'[h] = kept' /\ events'[h] = kept'.events /\ box'[h] = kept'.box /\ open'[h]
      BY <1>1, <1>2, <2>1
    <3>2. HostInOrder(h)'
      BY <1>3, <3>1 DEF HostInOrder, KeptInOrder
    <3> QED BY <3>1, <3>2
  <2>2. CASE h # u
    BY <1>1, <1>2, <2>2 DEF AloneInv
  <2> QED BY <2>1, <2>2
<1>5. ASSUME NEW w \in Worker PROVE Fits(run[w])' /\ Unsigned(w)'
  <2>1. run'[w] = Rest
    BY <1>1, SendAssumption DEF SaveInv, Hands
  <2> QED BY <1>2, <2>1 DEF Fits, Unsigned
<1>6. \A g, h \in Host : open'[g] /\ open'[h] => g = h
  BY <1>1, <1>2
<1> QED BY <1>3, <1>4, <1>5, <1>6 DEF AloneInv

AllInv ==
  /\ SaveInv /\ RunInv /\ SlotInv /\ KeptInv /\ WaitInv /\ AnswerInv /\ StoreInv
  /\ AloneInv

LEMMA AloneInvSteps ==
  ASSUME AllInv, SaveInv', [Next]_vars
  PROVE  AloneInv'
<1>1. SaveInv /\ RunInv /\ SlotInv /\ KeptInv /\ WaitInv /\ AnswerInv /\ AloneInv
  BY DEF AllInv
<1>2. \A d : decision[d] = "approved" => decision'[d] = "approved"
  BY <1>1, ApprovalStays
<1>3. CASE StoreStep \/ UNCHANGED vars
  <2>1. UNCHANGED <<open, events, box, base, kept, run, arrived>>
    BY <1>3 DEF StoreStep, vars, sendVars, disk, drop
  <2>2. result' = result
    BY <1>3, StoreElsewhere DEF Elsewhere, vars, draftVars, store
  <2> QED BY <1>1, <1>2, <2>1, <2>2, AloneStays
<1>4. CASE DropStep
  <2>1. UNCHANGED <<open, events, box, base, kept, run, result>>
    BY <1>4 DEF DropStep, Arrive, Mirror, PutBack, PutSlotBack, Redeploy, disk, draftVars, store
  <2>2. arrived \subseteq arrived'
    BY <1>4 DEF DropStep, Arrive, Mirror, PutBack, PutSlotBack, Redeploy, Take
  <2> QED BY <1>1, <1>2, <2>1, <2>2, AloneStays
<1>5. ASSUME NEW h \in Host, LoseDisk(h) \/ OpenLedger(h) PROVE AloneInv'
  BY <1>1, <1>5, LossAlone, OpenAlone
<1>6. ASSUME NEW w \in Worker, WorkerStep(w) PROVE AloneInv'
  <2>1. OwnHostOnly(w)
    BY <1>1, <1>6, WorkersOwnHost
  <2> QED
    BY <1>1, <1>6, <2>1, QuietCalls, ResultsAlone, ExportAlone, SaveAlone, SignAlone DEF WorkerStep
<1> QED BY <1>3, <1>4, <1>5, <1>6 DEF Next, HostStep

LEMMA AllInvInit ==
  ASSUME Alone, Init
  PROVE  AllInv
<1>1. /\ open = [h \in Host |-> h = Founder] /\ events = [h \in Host |-> <<>>]
      /\ base = [h \in Host |-> kept] /\ kept.events = <<>>
      /\ \A w \in Worker : run[w] = Rest
  BY DEF Init
<1>2. Rest.pc = "rest" /\ DOMAIN <<>> = {}
  BY DEF Rest
<1>3. KeptInOrder /\ \A h \in Host : HostInOrder(h)
  BY <1>1, <1>2 DEF KeptInOrder, HostInOrder, InOrder
<1>4. \A w \in Worker : Fits(run[w]) /\ Unsigned(w)
  BY <1>1, <1>2 DEF Fits, Unsigned
<1>5. AloneInv
  BY <1>1, <1>3, <1>4 DEF AloneInv
<1> QED
  BY <1>5, SaveInvInit, KeptInvInit, WaitInvInit, AnswerInvInit, StoreInvInit DEF AllInv

LEMMA AllInvSteps ==
  ASSUME AllInv, [Next]_vars
  PROVE  AllInv'
<1>1. /\ (SaveInv /\ RunInv /\ SlotInv)' /\ KeptInv' /\ WaitInv' /\ AnswerInv' /\ StoreInv'
  BY SaveInvSteps, KeptInvSteps, WaitInvSteps, AnswerInvSteps, StoreInvSteps DEF AllInv
<1>2. AloneInv'
  BY <1>1, AloneInvSteps
<1> QED BY <1>1, <1>2 DEF AllInv

-----------------------------------------------------------------------------
(* What is delivered is what was approved *)

\* The outside copy is due and without a gap, whoever continues it.
LEMMA KeptLetters ==
  ASSUME AllInv, NEW n, NEW q, InKept(n, q)
  PROVE  /\ q.letter.draft \in Draft
         /\ n \in Nat \ {0}
         /\ q.letter.text = "placed" /\ q.body = "placed"
         /\ DueDraft(q.letter.draft, decision, result)
         /\ \A i \in 1 .. (n - 1) : <<i, kept.box[i]>> \in arrived
<1>1. Fine(kept.events, kept.box) /\ KeptInOrder /\ n \in DOMAIN kept.box /\ kept.box[n] = q
  BY DEF AllInv, SaveInv, LedgerInv, AloneInv, InKept, Orderly
<1>2. PICK E, B : E = kept.events /\ B = kept.box
  OBVIOUS
<1>3. /\ n \in DOMAIN E /\ n \in Nat \ {0} /\ E[n] \in Letter /\ q = Quad(E[n], "placed")
      /\ E[n].text = "placed" /\ DOMAIN E = 1 .. Len(E) /\ Len(E) \in Nat
  BY <1>1, <1>2 DEF Fine
<1>4. q.letter = E[n] /\ q.body = "placed"
  BY <1>3, QuadIs
<1>5. InOrder(E, B, arrived, decision, result)
  BY <1>1, <1>2 DEF KeptInOrder
<1>6. DueDraft(E[n].draft, decision, result)
  BY <1>3, <1>5 DEF InOrder
<1>7. ASSUME NEW i \in 1 .. (n - 1) PROVE <<i, B[i]>> \in arrived
  <2>1. i \in DOMAIN E /\ i < Len(E)
    BY <1>3
  <2> QED BY <1>5, <2>1 DEF InOrder
<1>8. E[n].draft \in Draft
  BY <1>3 DEF Letter
<1> QED BY <1>2, <1>3, <1>4, <1>6, <1>7, <1>8

delivered == {Reached(p) : p \in arrived}
outcomes == [d \in Draft |-> Outcome(d)]

\* How many letters were at the door before a new one.
LEMMA CountBefore ==
  ASSUME AllInv, NEW n, NEW q, InKept(n, q), <<n, q>> \notin arrived
  PROVE  Cardinality(delivered) = n - 1
<1>1. n \in Nat \ {0} /\ \A i \in 1 .. (n - 1) : <<i, kept.box[i]>> \in arrived
  BY KeptLetters
<1>2. ASSUME NEW p \in arrived
      PROVE  /\ p = <<p[1], kept.box[p[1]]>>
             /\ p[1] \in 1 .. (n - 1)
  <2>1. p = <<p[1], p[2]>> /\ InKept(p[1], p[2])
    BY DEF AllInv, SaveInv, OutIsKept
  <2>2. p[1] \in Nat \ {0} /\ p[2] = kept.box[p[1]]
    BY <2>1, KeptLetters DEF InKept, Orderly, AllInv, AloneInv
  <2>3. p[1] # n
    BY <2>1, <2>2 DEF InKept, Orderly, AllInv, AloneInv
  <2>4. CASE n < p[1]
    <3>1. \A i \in 1 .. (p[1] - 1) : <<i, kept.box[i]>> \in arrived
      BY <2>1, KeptLetters
    <3>2. <<n, kept.box[n]>> \in arrived
      BY <1>1, <2>2, <2>4, <3>1
    <3> QED BY <3>2 DEF InKept, Orderly, AllInv, AloneInv
  <2> QED BY <1>1, <2>1, <2>2, <2>3, <2>4
<1>3. PICK f : f = [i \in 1 .. (n - 1) |-> Reached(<<i, kept.box[i]>>)]
  OBVIOUS
<1>4. \A i \in 1 .. (n - 1) : f[i].n = i
  BY <1>3 DEF Reached
<1>5. \A i \in 1 .. (n - 1) : f[i] \in delivered
  BY <1>1, <1>3 DEF delivered
<1>6. ASSUME NEW l \in delivered PROVE \E i \in 1 .. (n - 1) : f[i] = l
  <2>1. PICK p \in arrived : l = Reached(p)
    BY DEF delivered
  <2>2. f[p[1]] = Reached(p) /\ p[1] \in 1 .. (n - 1)
    BY <1>2, <1>3
  <2> QED BY <2>1, <2>2
<1>7. f \in Bijection(1 .. (n - 1), delivered)
  <2>1. f \in [1 .. (n - 1) -> delivered]
    BY <1>3, <1>5
  <2>2. f \in Injection(1 .. (n - 1), delivered)
    BY <1>4, <2>1 DEF Injection, IsInjective
  <2>3. f \in Surjection(1 .. (n - 1), delivered)
    BY <1>6, <2>1 DEF Surjection
  <2> QED BY <2>2, <2>3 DEF Bijection
<1>8. IsFiniteSet(1 .. (n - 1)) /\ Cardinality(1 .. (n - 1)) = n - 1
  <2>1. 1 \in Int /\ n - 1 \in Int
    BY <1>1
  <2> QED BY <1>1, <2>1, FS_Interval
<1>9. ExistsBijection(1 .. (n - 1), delivered)
  BY <1>7 DEF ExistsBijection
<1> QED BY <1>8, <1>9, FS_Bijection

LEMMA SameCardinality == \A S : Order!Cardinality(S) = Cardinality(S)
BY DEF Order!Cardinality, Cardinality

\* One more quad at the door is nothing new, or the delivery of its draft.
LEMMA DeliverSteps ==
  ASSUME AllInv, NEW n, NEW q, InKept(n, q), arrived' = arrived \cup {<<n, q>>},
         UNCHANGED <<decision, result>>
  PROVE  [Order!OrderNext]_(Order!orderVars)
<1> DEFINE d == q.letter.draft
<1>1. CASE <<n, q>> \in arrived
  <2>1. UNCHANGED <<arrived, decision, result>>
    BY <1>1
  <2> QED BY <2>1 DEF Order!orderVars, Outcome
<1>2. CASE <<n, q>> \notin arrived
  <2>1. /\ d \in Draft /\ n \in Nat \ {0} /\ q.letter.text = "placed" /\ q.body = "placed"
        /\ DueDraft(d, decision, result)
    BY KeptLetters
  <2>2. PICK l, p : p = <<n, q>> /\ l = Reached(p)
    OBVIOUS
  <2>3. l.n = n /\ l.draft = d /\ l.true
    BY <2>1, <2>2 DEF Reached
  <2>4. {Reached(x) : x \in arrived'} = delivered \cup {l}
    BY <2>2 DEF delivered
  <2>5. l.n = Cardinality(delivered) + 1
    BY <1>2, <2>1, <2>3, CountBefore
  <2>6. ASSUME NEW k \in delivered PROVE k.draft # d
    <3>1. PICK x \in arrived : k = Reached(x)
      BY DEF delivered
    <3>2. x = <<x[1], x[2]>> /\ InKept(x[1], x[2])
      BY DEF AllInv, SaveInv, OutIsKept
    <3>3. x[1] # n
      BY <1>2, <3>2 DEF InKept, Orderly, AllInv, AloneInv
    <3>4. Fine(kept.events, kept.box)
      BY DEF AllInv, SaveInv, LedgerInv
    <3>5. /\ n \in DOMAIN kept.events /\ q.letter = kept.events[n]
          /\ x[1] \in DOMAIN kept.events /\ x[2].letter = kept.events[x[1]]
      BY <3>2, <3>4, QuadIs DEF InKept, Fine, Orderly, AllInv, AloneInv
    <3>6. x[2].letter.draft # d
      BY <3>3, <3>4, <3>5 DEF Fine
    <3> QED BY <3>1, <3>6 DEF Reached
  <2>7. decision[d] = "approved" /\ outcomes[d] # "failed"
    <3>1. None # "failed"
      BY RecordAssumption
    <3> QED BY <2>1, <3>1 DEF DueDraft, outcomes, Outcome
  <2>8. outcomes' = outcomes /\ decision' = decision
    BY DEF outcomes, Outcome
  <2>9. Order!Deliver(d)
    <3>1. l \in {Reached(x) : x \in arrived'}
      BY <2>4
    <3>2. l.n = Order!Cardinality({Reached(x) : x \in arrived}) + 1
      BY <2>5, SameCardinality DEF delivered
    <3> QED BY <2>3, <2>4, <2>6, <2>7, <2>8, <3>1, <3>2 DEF Order!Deliver, delivered, outcomes
  <2> QED BY <2>1, <2>9 DEF Order!OrderNext
<1> QED BY <1>1, <1>2

LEMMA StutterSteps ==
  ASSUME UNCHANGED <<arrived, decision, result>>
  PROVE  [Order!OrderNext]_(Order!orderVars)
BY DEF Order!orderVars, Outcome

LEMMA PersonSteps ==
  ASSUME AllInv, PersonStep, UNCHANGED arrived
  PROVE  [Order!OrderNext]_(Order!orderVars)
<1>1. PICK p \in Person :
        \/ \E d \in Draft, x \in Decisions : Confirm(p, d, x) \/ StartDeciding(p, d, x)
        \/ Decide(p)
  BY DEF PersonStep
<1>2. CASE \E d \in Draft, x \in Decisions : Confirm(p, d, x) \/ StartDeciding(p, d, x)
  BY <1>2, StutterSteps DEF Confirm, StartDeciding, store
<1>3. CASE Decide(p)
  <2>1. PICK d, x : d = deciding[p][1] /\ x = deciding[p][2]
    OBVIOUS
  <2>2. d \in Draft /\ x \in Decisions
    BY <1>3, <2>1 DEF Decide, AllInv, AnswerInv
  <2>3. /\ decision' = IF decision[d] = None THEN [decision EXCEPT ![d] = x] ELSE decision
        /\ UNCHANGED result
    BY <1>3, <2>1 DEF Decide
  <2>4. CASE decision[d] = None
    <3>1. outcomes' = outcomes
      BY <2>3 DEF outcomes, Outcome
    <3>2. Order!Decide(d)
      BY <2>2, <2>3, <2>4, <3>1 DEF Order!Decide, Decisions, outcomes
    <3> QED BY <2>2, <3>2 DEF Order!OrderNext
  <2>5. CASE decision[d] # None
    BY <2>3, <2>5, StutterSteps
  <2> QED BY <2>4, <2>5
<1> QED BY <1>1, <1>2, <1>3

\* A result is written once, and says what happened.
LEMMA ReportSteps ==
  ASSUME AllInv, NEW d \in Draft, NEW r \in ResultRecord, decision[d] = "approved", result[d] = None,
         result' = [result EXCEPT ![d] = r], UNCHANGED <<decision, arrived>>,
         r.status = IF \E p \in arrived : p[2].letter.draft = d THEN "sent" ELSE "failed"
  PROVE  [Order!OrderNext]_(Order!orderVars)
<1>1. r # None
  BY RecordAssumption
<1>2. Order!Reached(d) <=> \E p \in arrived : p[2].letter.draft = d
  <2>1. \A p : Reached(p).draft = p[2].letter.draft
    BY DEF Reached
  <2> QED BY <2>1 DEF Order!Reached
<1>3. result \in [Draft -> Results]
  BY DEF AllInv, StoreInv
<1>4. outcomes' = [outcomes EXCEPT ![d] = r.status]
  BY <1>1, <1>3 DEF outcomes, Outcome
<1>5. outcomes[d] = None
  BY DEF outcomes, Outcome
<1>6. Order!Report(d)
  BY <1>2, <1>4, <1>5 DEF Order!Report, outcomes
<1> QED BY <1>6 DEF Order!OrderNext

LEMMA SentSteps ==
  ASSUME AllInv, NEW w \in Worker, NEW n \in DOMAIN box[HostOf[w]], Report(w, n)
  PROVE  [Order!OrderNext]_(Order!orderVars)
<1> DEFINE h == HostOf[w]
<1>1. SaveInv /\ KeptInv /\ AloneInv
  BY DEF AllInv
<1>2. PICK q, d, r : q = box[h][n] /\ d = q.letter.draft /\ r = SentRecord(n, q)
  OBVIOUS
<1>3. /\ run[w].pc = "read" /\ Shown(w, n) /\ result[d] = None
      /\ result' = [result EXCEPT ![d] = r] /\ UNCHANGED <<decision, arrived>>
  BY <1>2 DEF Report, At, PutResult, sendVars, drop
<1>4. h \in Host /\ open[h]
  <2>1. Rest.pc = "rest"
    BY DEF Rest
  <2> QED BY <1>1, <1>3, <2>1, SendAssumption DEF SaveInv, Hands
<1>5. Fine(events[h], box[h]) /\ HostInOrder(h)
  BY <1>1, <1>4 DEF SaveInv, LedgerInv, HostOK, AloneInv
<1>6. n \in DOMAIN events[h] /\ q = Quad(events[h][n], "placed") /\ q.letter = events[h][n]
  BY <1>2, <1>5, QuadIs DEF Fine
<1>7. n \in Nat \ {0} /\ q \in QuadType
  BY <1>2, <1>5, KeptHasQuads
<1>8. d \in Draft
  BY <1>2, <1>7 DEF QuadType, Letter
<1>9. decision[d] = "approved"
  BY <1>2, <1>5, <1>6 DEF HostInOrder, InOrder, DueDraft
<1>10. n \in DOMAIN mirror /\ mirror[n] = q
  BY <1>1, <1>2, <1>3 DEF Shown, KeptInv, ViewHolds, At
<1>11. \E p \in arrived : p[2].letter.draft = d
  <2>1. <<n, q>> \in arrived
    BY <1>1, <1>10 DEF SaveInv, OutIsKept
  <2>2. <<n, q>>[2] = q
    OBVIOUS
  <2> QED BY <1>2, <2>1, <2>2
<1>12. r \in ResultRecord /\ r.status = "sent"
  BY <1>2, <1>7 DEF SentRecord, ResultRecord
<1> QED BY <1>3, <1>8, <1>9, <1>11, <1>12, ReportSteps

LEMMA FailedSteps ==
  ASSUME AllInv, NEW w \in Worker, Refuse(w)
  PROVE  [Order!OrderNext]_(Order!orderVars)
<1> DEFINE h == HostOf[w]
<1>1. /\ SaveInv /\ RunInv /\ AloneInv
      /\ run[w].pc = "sign" /\ run[w] # Rest /\ UNCHANGED <<decision, arrived>>
  <2>1. Rest.pc = "rest"
    BY DEF Rest
  <2> QED BY <2>1 DEF AllInv, Refuse, At, drop
<1>2. PICK d : d = run[w].draft
  OBVIOUS
<1>3. d \in Draft
  BY <1>1, <1>2, Busy
<1>4. decision[d] = "approved" /\ result[d] = None
  <2>1. Fits(run[w]) /\ d # None
    BY <1>1, <1>3, DraftAssumption DEF AloneInv
  <2> QED BY <1>1, <1>2, <2>1 DEF Fits
<1>5. result' = [result EXCEPT ![d] = Failed]
  BY <1>2, <1>4 DEF Refuse, PutResult
<1>6. ASSUME NEW p \in arrived PROVE p[2].letter.draft # d
  <2>1. h \in Host /\ open[h] /\ base[h] = kept
    BY <1>1, SendAssumption DEF SaveInv, Hands, AloneInv
  <2>2. /\ Fine(events[h], box[h]) /\ Fine(kept.events, kept.box)
        /\ PartOf(kept.events, kept.box, events[h], box[h])
    BY <1>1, <2>1 DEF SaveInv, LedgerInv, HostOK
  <2>3. p[1] \in DOMAIN kept.box /\ kept.box[p[1]] = p[2]
    BY <1>1 DEF SaveInv, OutIsKept, InKept, Orderly, AloneInv
  <2>4. p[1] \in DOMAIN box[h] /\ box[h][p[1]] = p[2]
    BY <2>2, <2>3, PartHasQuads
  <2>5. p[1] \in DOMAIN events[h] /\ p[2].letter = events[h][p[1]]
    BY <2>2, <2>4, QuadIs DEF Fine
  <2> QED BY <1>1, <1>2, <2>5 DEF AloneInv, Unsigned
<1>7. Failed \in ResultRecord /\ Failed.status = "failed"
  BY DEF Failed, ResultRecord
<1> QED BY <1>1, <1>3, <1>4, <1>5, <1>6, <1>7, ReportSteps

LEMMA OrderSteps ==
  ASSUME AllInv, [Next]_vars
  PROVE  [Order!OrderNext]_(Order!orderVars)
<1>1. CASE StoreStep
  <2>1. UNCHANGED arrived
    BY <1>1 DEF StoreStep, sendVars, drop
  <2>2. CASE FrontStep \/ TimeStep
    <3>1. UNCHANGED <<decision, result>>
      BY <2>2 DEF FrontStep, StartPlacing, Place, TimeStep, End, Lapse, Damage, store
    <3> QED BY <2>1, <3>1, StutterSteps
  <2> QED BY <1>1, <2>1, <2>2, PersonSteps DEF StoreStep
<1>2. CASE HostStep \/ UNCHANGED vars
  <2>1. UNCHANGED <<arrived, decision, result>>
    BY <1>2 DEF HostStep, LoseDisk, OpenLedger, vars, sendVars, drop, draftVars, store
  <2> QED BY <2>1, StutterSteps
<1>3. ASSUME NEW n, NEW q, InKept(n, q), Take(n, q), UNCHANGED <<decision, result>>
      PROVE  [Order!OrderNext]_(Order!orderVars)
  <2>1. CASE n \in DOMAIN door
    BY <1>3, <2>1, StutterSteps DEF Take
  <2>2. CASE n \notin DOMAIN door
    BY <1>3, <2>2, DeliverSteps DEF Take
  <2> QED BY <2>1, <2>2
<1>4. CASE DropStep
  <2>1. UNCHANGED <<decision, result>>
    BY <1>4 DEF DropStep, Arrive, Mirror, PutBack, PutSlotBack, Redeploy, draftVars, store
  <2>2. ASSUME NEW p \in flying, Arrive(p) PROVE [Order!OrderNext]_(Order!orderVars)
    <3>1. InKept(p[1], p[2])
      BY DEF AllInv, SaveInv, OutIsKept
    <3> QED BY <1>3, <2>1, <2>2, <3>1 DEF Arrive
  <2>3. ASSUME ~\E p \in flying : Arrive(p) PROVE UNCHANGED arrived
    BY <1>4, <2>3 DEF DropStep, Mirror, PutBack, PutSlotBack, Redeploy
  <2> QED BY <2>1, <2>2, <2>3, StutterSteps
<1>5. ASSUME NEW w \in Worker, Push(w) PROVE [Order!OrderNext]_(Order!orderVars)
  <2>1. PICK n, q : /\ n = (CHOOSE k \in run[w].todo : \A m \in run[w].todo : k <= m)
                    /\ q = box[HostOf[w]][n]
    OBVIOUS
  <2>2. /\ run[w].todo # {}
        /\ \A k \in run[w].todo : k \in DOMAIN box[HostOf[w]] /\ InKept(k, box[HostOf[w]][k])
    BY <1>5 DEF AllInv, SaveInv, Hands, Push, At
  <2>3. run[w].todo \subseteq Nat
    <3>1. Fine(events[HostOf[w]], box[HostOf[w]])
      BY SendAssumption DEF AllInv, SaveInv, LedgerInv, HostOK
    <3> QED BY <2>2, <3>1, KeptHasQuads
  <2>4. InKept(n, q)
    BY <2>1, <2>2, <2>3, NextOf
  <2>5. UNCHANGED <<decision, result>>
    BY <1>5 DEF Push, draftVars, store
  <2>6. Take(n, q) \/ UNCHANGED arrived
    BY <1>5, <2>1, Zenon DEF Push
  <2> QED BY <1>3, <2>4, <2>5, <2>6, StutterSteps
<1>6. ASSUME NEW w \in Worker, WorkerStep(w), ~Push(w) PROVE [Order!OrderNext]_(Order!orderVars)
  <2>1. CASE (\E n \in DOMAIN box[HostOf[w]] : Report(w, n)) \/ Refuse(w)
    BY <2>1, SentSteps, FailedSteps
  <2>2. CASE ~((\E n \in DOMAIN box[HostOf[w]] : Report(w, n)) \/ Refuse(w))
    <3>1. UNCHANGED <<draftVars, arrived>>
      BY <1>6, <2>2 DEF WorkerStep, Call, Export, CannotExport, ReadDoor, Save, SaveUnseen, ReadBack,
                        Drained, Sign, GiveUp, drop
    <3> QED BY <3>1, StutterSteps DEF draftVars, store
  <2> QED BY <2>1, <2>2
<1> QED BY <1>1, <1>2, <1>4, <1>5, <1>6 DEF Next

\* Where a ledger is opened only when no other is open: a letter leaves once, only after
\* its approval, in the approved words and under the next number, and "sent" and "failed"
\* say what happened and stay true (hub_send.py as a whole implements MailOrder).
THEOREM AlwaysDeliversAsApproved ==
  ASSUME Alone
  PROVE  Spec => DeliversAsApproved
<1>1. Init => Order!OrderInit
  <2> SUFFICES ASSUME Init PROVE Order!OrderInit
    OBVIOUS
  <2>1. decision = [d \in Draft |-> None] /\ arrived = {} /\ \A d \in Draft : Outcome(d) = None
    BY DEF Init, DraftInit, Outcome
  <2>2. {Reached(p) : p \in arrived} = {}
    BY <2>1
  <2>3. [d \in Draft |-> Outcome(d)] = [d \in Draft |-> None]
    BY <2>1
  <2> QED BY <2>1, <2>2, <2>3 DEF Order!OrderInit
<1>2. AllInv /\ [Next]_vars => AllInv'
  BY AllInvSteps
<1>3. AllInv /\ [Next]_vars => [Order!OrderNext]_(Order!orderVars)
  BY OrderSteps
<1>4. Init => AllInv
  BY AllInvInit
<1> QED
  BY <1>1, <1>2, <1>3, <1>4, PTL DEF Spec, DeliversAsApproved, Order!OrderSpec
=============================================================================
