-------------------------- MODULE CheckpointProofs --------------------------
(***************************************************************************)
(* Facts about the generations of a slot, and proofs about Checkpoint for  *)
(* every number of holders, letters, kept generations and faults.          *)
(***************************************************************************)
EXTENDS Checkpoint, TLAPS, WellFoundedInduction, FiniteSetTheorems, SequenceTheorems

-----------------------------------------------------------------------------
(* Slots *)

\* A set of numbers below a bound has a highest one.
LEMMA HighestExists ==
  ASSUME NEW N \in Nat, NEW S \in SUBSET (0 .. N), S # {}
  PROVE  \E n \in S : \A k \in S : k <= n
<1> DEFINE T == {N - n : n \in S}
<1>1. T \subseteq Nat /\ T # {}
  <2>1. PICK n \in S : TRUE
    OBVIOUS
  <2>2. N - n \in T
    BY <2>1
  <2>3. \A k \in S : N - k \in Nat
    OBVIOUS
  <2> QED BY <2>2, <2>3
<1>2. PICK m \in T : \A k \in T : ~ (<<k, m>> \in OpToRel(<, Nat))
  BY <1>1, NatLessThanWellFounded, WFMin
<1>3. \A k \in T : ~ (k < m)
  BY <1>1, <1>2 DEF OpToRel
<1>4. PICK n \in S : m = N - n
  OBVIOUS
<1>5. \A k \in S : k <= n
  <2> TAKE k \in S
  <2>1. N - k \in T
    OBVIOUS
  <2>2. ~ (N - k < N - n)
    BY <2>1, <1>3, <1>4
  <2> QED BY <2>2
<1> QED BY <1>5

\* A slot that is not empty has a newest generation.
LEMMA NewestIsNewest ==
  ASSUME NEW S \in SUBSET File, S # {}
  PROVE  Newest(S) \in S /\ \A g \in S : g.gen <= Newest(S).gen
<1> DEFINE G == {f.gen : f \in S}
<1>1. G \in SUBSET (0 .. MaxGeneration) /\ G # {}
  BY SlotAssumption DEF File
<1>2. PICK n \in G : \A k \in G : k <= n
  BY <1>1, HighestExists, SlotAssumption
<1>3. \E f \in S : \A g \in S : g.gen <= f.gen
  BY <1>2
<1> QED BY <1>3 DEF Newest

LEMMA NewestNameType ==
  ASSUME NEW S \in SUBSET File
  PROVE  NewestName(S) \in Name
<1>1. CASE S = {}
  BY <1>1 DEF NewestName, Empty, Name
<1>2. CASE S # {}
  BY <1>2, NewestIsNewest, SlotAssumption DEF NewestName, NameOf, File, Name
<1> QED BY <1>1, <1>2

-----------------------------------------------------------------------------
(* Types *)

LEMMA FileGen == ASSUME NEW f \in File PROVE f.gen \in Nat
BY SlotAssumption DEF File

\* A call that is on its way has a request.
LEMMA SentRequest == ASSUME NEW c \in Call, c.phase = "sent" PROVE c.req \in Request
BY DEF Call, NoCall, Served, Lost

LEMMA AnsweredName == ASSUME NEW c \in Call, c.phase = "answered" PROVE c.name \in Name
BY DEF Call, NoCall, Served, Lost

LEMMA CurrentType == ASSUME SlotTypeOK PROVE Current \in Name
BY NewestNameType DEF SlotTypeOK, Current

\* A file that is scanned for carries the number of its request's successor.
LEMMA ScannedFile ==
  ASSUME SlotTypeOK, NEW r \in Request, Meets(r), NextNumber(r) <= MaxGeneration
  PROVE  [gen |-> NextNumber(r), sha |-> r.sha, prev |-> Current] \in File
<1>1. Current \in Name
  BY CurrentType
<1>2. NextNumber(r) \in 1 .. MaxGeneration
  BY <1>1, SlotAssumption DEF NextNumber, Max2, Name, Request
<1> QED BY <1>1, <1>2 DEF File, Request

LEMMA ReplyType ==
  ASSUME SlotTypeOK, NEW c \in Client \cup {Nobody}, NEW status \in {200, 400, 409},
         NEW name \in Name, Reply(c, status, name)
  PROVE  calls' \in [Client -> Call]
BY SlotAssumption DEF SlotTypeOK, Reply, Call, Answer

\* What the handler does to the directory, to its hand and to the calls.
LEMMA HandleTypes ==
  ASSUME SlotTypeOK, NEW c \in Client \cup {Nobody}, NEW r \in Request, Handle(c, r)
  PROVE  files' = files /\ hand' \in Hand /\ calls' \in [Client -> Call]
<1>1. Current \in Name
  BY CurrentType
<1>2. CASE Refuse(c, r)
  BY <1>1, <1>2, ReplyType DEF Refuse, server, SlotTypeOK
<1>3. CASE Scan(c, r)
  <2>1. [gen |-> NextNumber(r), sha |-> r.sha, prev |-> Current] \in File
    BY <1>3, ScannedFile DEF Scan
  <2>2. hand' \in Hand
    BY <1>3, <2>1 DEF Scan, Hand
  <2>3. calls' \in [Client -> Call]
    BY <1>3 DEF Scan, SlotTypeOK, Call
  <2> QED BY <1>3, <2>2, <2>3 DEF Scan
<1>4. CASE Dedup(c, r)
  BY <1>1, <1>4, ReplyType DEF Dedup, server, SlotTypeOK
<1>5. CASE Conflict(c, r)
  BY <1>1, <1>5, ReplyType DEF Conflict, server, SlotTypeOK
<1> QED BY <1>2, <1>3, <1>4, <1>5 DEF Handle

LEMMA ServerKeepsTypes == ASSUME SlotTypeOK, ServerStep PROVE SlotTypeOK'
<1>1. ASSUME NEW c \in Client, Serve(c) PROVE SlotTypeOK'
  <2>1. calls[c].req \in Request
    BY <1>1, SentRequest DEF Serve, SlotTypeOK
  <2>2. files' = files /\ hand' \in Hand /\ calls' \in [Client -> Call]
    BY <1>1, <2>1, HandleTypes DEF Serve
  <2> QED BY <1>1, <2>2 DEF Serve, SlotTypeOK, supervisor
<1>2. ASSUME NEW r \in late, ServeLate(r) PROVE SlotTypeOK'
  <2>1. r \in Request
    BY DEF SlotTypeOK
  <2>2. files' = files /\ hand' \in Hand /\ calls' \in [Client -> Call]
    BY <1>2, <2>1, HandleTypes DEF ServeLate
  <2> QED BY <1>2, <2>2 DEF ServeLate, SlotTypeOK, supervisor
<1>3. CASE Place
  <2>1. hand \in [from : Client \cup {Nobody}, file : File]
    BY <1>3 DEF Place, SlotTypeOK, Hand
  <2>2. hand.from \in Client \cup {Nobody} /\ hand.file \in File /\ NameOf(hand.file) \in Name
    BY <2>1, SlotAssumption DEF File, NameOf, Name
  <2>3. Current \in Name
    BY CurrentType
  <2>4. calls' \in [Client -> Call]
    BY <1>3, <2>2, <2>3, ReplyType DEF Place
  <2>5. files' \subseteq File
    BY <1>3, <2>2 DEF Place, SlotTypeOK, Pruned
  <2> QED BY <1>3, <2>4, <2>5 DEF Place, SlotTypeOK, supervisor, Hand
<1> QED BY <1>1, <1>2, <1>3 DEF ServerStep

LEMMA SupervisorKeepsTypes == ASSUME SlotTypeOK, SupervisorStep PROVE SlotTypeOK'
<1>1. ASSUME NEW f \in files, Mirror(f) PROVE SlotTypeOK'
  <2>1. f \in File /\ f.gen \in Nat
    BY FileGen DEF SlotTypeOK
  <2> QED BY <1>1, <2>1 DEF Mirror, SlotTypeOK, server, network
<1>2. ASSUME NEW f \in outside, PutBack(f) PROVE SlotTypeOK'
  <2>1. f \in File /\ f.gen \in Nat
    BY FileGen DEF SlotTypeOK
  <2> QED BY <1>2, <2>1 DEF PutBack, SlotTypeOK, network
<1>3. ASSUME NEW f \in old, MirrorOld(f) PROVE SlotTypeOK'
  BY <1>3 DEF MirrorOld, SlotTypeOK, server, network
<1>4. CASE StopOld
  BY <1>4 DEF StopOld, SlotTypeOK, server, network
<1>5. CASE Settle
  BY <1>5 DEF Settle, SlotTypeOK, server, network
<1>6. CASE SettleByTimeout
  BY <1>6 DEF SettleByTimeout, SlotTypeOK, server, network
<1>7. CASE Redeploy
  <2>1. calls' \in [Client -> Call]
    BY <1>7 DEF Redeploy, SlotTypeOK, Call
  <2> QED BY <1>7, <2>1 DEF Redeploy, SlotTypeOK, Hand
<1> QED BY <1>1, <1>2, <1>3, <1>4, <1>5, <1>6, <1>7 DEF SupervisorStep

-----------------------------------------------------------------------------
(* The current generation of an instance *)

LEMMA NewestNameRises ==
  ASSUME NEW S \in SUBSET File, NEW T \in SUBSET File,
         \A f \in S : \E g \in T : f.gen <= g.gen
  PROVE  NewestName(S).gen <= NewestName(T).gen
<1>1. NewestName(T).gen \in Nat
  BY NewestNameType DEF Name
<1>2. CASE S = {}
  BY <1>1, <1>2 DEF NewestName, Empty
<1>3. CASE S # {}
  <2>1. Newest(S) \in S
    BY <1>3, NewestIsNewest
  <2>2. PICK g \in T : Newest(S).gen <= g.gen
    BY <2>1
  <2>3. T # {} /\ Newest(T) \in T /\ g.gen <= Newest(T).gen
    BY <2>2, NewestIsNewest
  <2>4. Newest(S).gen \in Nat /\ g.gen \in Nat /\ Newest(T).gen \in Nat
    BY <2>1, <2>3, FileGen
  <2>5. Newest(S).gen <= Newest(T).gen
    BY <2>2, <2>3, <2>4
  <2> QED BY <1>3, <2>3, <2>5 DEF NewestName, NameOf
<1> QED BY <1>2, <1>3

\* Pruning never takes the newest generation away, whatever STATE_KEEP is.
LEMMA PrunedKeepsNewest ==
  ASSUME NEW S \in SUBSET File, NEW f \in S
  PROVE  \E g \in Pruned(S) : f.gen <= g.gen
<1>1. Newest(S) \in S /\ \A g \in S : g.gen <= Newest(S).gen
  BY NewestIsNewest
<1>2. \A g \in S : g.gen \in Nat
  BY FileGen
<1>3. {g \in S : g.gen > Newest(S).gen} = {}
  BY <1>1, <1>2
<1>4. Cardinality({g \in S : g.gen > Newest(S).gen}) = 0
  BY <1>3, FS_EmptySet
<1>5. Newest(S) \in Pruned(S)
  BY <1>1, <1>4, SlotAssumption DEF Pruned
<1> QED BY <1>1, <1>5

LEMMA CurrentRises ==
  ASSUME SlotTypeOK, ServerStep \/ SupervisorStep, redeploys' = redeploys
  PROVE  Current.gen <= Current'.gen
<1>0. files \in SUBSET File /\ files' \in SUBSET File
  BY ServerKeepsTypes, SupervisorKeepsTypes DEF SlotTypeOK
<1> SUFFICES \A f \in files : \E g \in files' : f.gen <= g.gen
  BY <1>0, NewestNameRises DEF Current
<1> SUFFICES ASSUME NEW f \in files PROVE \E g \in files' : f.gen <= g.gen
  OBVIOUS
<1>1. f.gen \in Nat
  BY <1>0, FileGen
<1>2. ASSUME f \in files' PROVE \E g \in files' : f.gen <= g.gen
  BY <1>1, <1>2
<1>3. ASSUME NEW c, NEW r, Handle(c, r) PROVE files' = files
  BY <1>3 DEF Handle, Refuse, Scan, Dedup, Conflict, server
<1>4. CASE \E c \in Client : Serve(c)
  BY <1>2, <1>3, <1>4 DEF Serve
<1>5. CASE \E r \in late : ServeLate(r)
  BY <1>2, <1>3, <1>5 DEF ServeLate
<1>6. CASE Place
  <2>1. CASE Taken(files, hand.file.gen)
    BY <1>2, <1>6, <2>1 DEF Place
  <2>2. CASE ~ Taken(files, hand.file.gen)
    <3>1. files' = Pruned(files \cup {hand.file})
      BY <1>6, <2>2 DEF Place
    <3>2. hand.file \in File
      BY <1>6 DEF Place, SlotTypeOK, Hand
    <3> QED BY <1>0, <3>1, <3>2, PrunedKeepsNewest
  <2> QED BY <2>1, <2>2
<1>7. CASE \E x \in files : Mirror(x)
  BY <1>2, <1>7 DEF Mirror, server
<1>8. CASE \E x \in outside : PutBack(x)
  BY <1>2, <1>8 DEF PutBack
<1>9. CASE \E x \in old : MirrorOld(x)
  BY <1>2, <1>9 DEF MirrorOld, server
<1>10. CASE StopOld \/ Settle \/ SettleByTimeout
  BY <1>2, <1>10 DEF StopOld, Settle, SettleByTimeout, server
<1>11. ~ Redeploy
  BY DEF Redeploy, SlotTypeOK
<1> QED BY <1>4, <1>5, <1>6, <1>7, <1>8, <1>9, <1>10, <1>11 DEF ServerStep, SupervisorStep

-----------------------------------------------------------------------------
(* Commands *)

\* A command that expects an answer has noted its attempt.
Attempting ==
  \A h \in Client : run[h].pc \in {"first", "rebase", "extend"} => pending[h] # None

Types == CheckpointTypeOK /\ Attempting

-----------------------------------------------------------------------------
(* What the helpers of checkpoint return *)

LEMMA LastNType ==
  ASSUME NEW S, NEW s \in Seq(S), NEW n \in Nat
  PROVE  LastN(s, n) \in Seq(S)
<1>1. CASE Len(s) <= n
  BY <1>1 DEF LastN
<1>2. CASE ~ (Len(s) <= n)
  <2>1. Len(s) \in Nat
    OBVIOUS
  <2>2. Len(s) - n + 1 \in 1 .. Len(s) + 1
    BY <1>2, <2>1
  <2>3. SubSeq(s, Len(s) - n + 1, Len(s)) \in Seq(S)
    BY <2>1, <2>2
  <2> QED BY <1>2, <2>3 DEF LastN
<1> QED BY <1>1, <1>2

LEMMA ContentType ==
  ASSUME CheckpointTypeOK, NEW h \in Client
  PROVE  ContentOf(h) \in Content
BY DEF CheckpointTypeOK, ContentOf, Content

LEMMA AttemptNotNone == ASSUME NEW a \in AttemptType PROVE a # None
<1> SUFFICES ASSUME a = None PROVE FALSE
  OBVIOUS
<1>1. DOMAIN a = {"phase"}
  BY DEF None
<1>2. DOMAIN a = {"expect", "floor", "sha", "content"}
  BY DEF AttemptType
<1> QED BY <1>1, <1>2

LEMMA LastAckedType ==
  ASSUME CheckpointTypeOK, NEW h \in Client, acked[h] # <<>>
  PROVE  LastAcked(h) \in RecordLine /\ LastAcked(h).name \in Name
<1>1. acked[h] \in Seq(RecordLine)
  BY DEF CheckpointTypeOK
<1>2. LastAcked(h) \in RecordLine
  BY <1>1 DEF LastAcked
<1> QED BY <1>2 DEF RecordLine

LEMMA AttemptHasType ==
  ASSUME CheckpointTypeOK, NEW h \in Client, NEW expect \in Name, NEW fl \in Nat,
         NEW over \in BOOLEAN, NEW stamp \in Stamp
  PROVE  Attempt(h, expect, fl, over, stamp) \in AttemptType
<1>1. ContentOf(h) \in Content /\ ContentOf(h).events \in Seq(Entry) /\ ContentOf(h).box \in Seq(Entry)
  BY ContentType DEF Content
<1>2. expect.gen \in Nat
  BY DEF Name
<1>3. Max2(fl, expect.gen) \in Nat /\ Max2(fl, expect.gen) + 1 \in Nat \ {0}
  BY <1>2 DEF Max2
<1>4. BundleOf(ContentOf(h), Max2(fl, expect.gen) + 1, over, stamp) \in Bundle
  BY <1>1, <1>3 DEF BundleOf, Bundle
<1> QED BY <1>1, <1>3, <1>4 DEF Attempt, AttemptType

LEMMA RequestType ==
  ASSUME NEW a \in AttemptType
  PROVE  RequestOf(a) \in Request
BY DEF RequestOf, AttemptType, Request

LEMMA SendType ==
  ASSUME CheckpointTypeOK, NEW h \in Client, NEW r \in Request, Send(h, r)
  PROVE  calls' \in [Client -> Call] /\ late' = late
BY DEF CheckpointTypeOK, SlotTypeOK, Send, Sent, Call

LEMMA AbandonType ==
  ASSUME CheckpointTypeOK, NEW h \in Client, Abandon(h)
  PROVE  calls' \in [Client -> Call] /\ late' \subseteq Request /\ hand' \in Hand
<1>1. calls' \in [Client -> Call]
  BY DEF CheckpointTypeOK, SlotTypeOK, Abandon, Call
<1>2. calls[h].phase = "sent" => calls[h].req \in Request
  BY SentRequest DEF CheckpointTypeOK, SlotTypeOK
<1>3. late' \subseteq Request
  BY <1>2 DEF CheckpointTypeOK, SlotTypeOK, Abandon
<1>4. hand' \in Hand
  <2>1. CASE hand = Idle
    <3>1. hand' = Idle
      BY <2>1, SlotAssumption DEF Abandon, Idle
    <3> QED BY <3>1 DEF Hand
  <2>2. CASE hand \in [from : Client \cup {Nobody}, file : File]
    BY <2>2 DEF Abandon, Hand
  <2> QED BY <2>1, <2>2 DEF CheckpointTypeOK, SlotTypeOK, Hand
<1> QED BY <1>1, <1>3, <1>4

\* Whatever upload() does, it leaves an attempt in the record.
LEMMA UploadType ==
  ASSUME CheckpointTypeOK, NEW h \in Client, NEW expect \in Name,
         NEW pend \in Noted, NEW fl \in Nat, NEW over \in BOOLEAN,
         NEW next \in Running, Upload(h, expect, pend, fl, over, next)
  PROVE  /\ calls' \in [Client -> Call] /\ late' = late
         /\ pending' \in [Client -> Noted]
         /\ floor' \in [Client -> Nat]
         /\ pending'[h] # None
         /\ \A k \in Client \ {h} : pending'[k] = pending[k]
<1>2. CASE MayResend(h, pend, expect)
  <2>1. pend \in AttemptType
    BY <1>2 DEF MayResend, Noted
  <2>2. /\ Send(h, RequestOf(pend))
        /\ pending' = [pending EXCEPT ![h] = pend]
        /\ floor' = [floor EXCEPT ![h] = fl]
    BY <1>2 DEF Upload
  <2>3. calls' \in [Client -> Call] /\ late' = late
    BY <2>1, <2>2, RequestType, SendType
  <2>4. pending' \in [Client -> Noted] /\ floor' \in [Client -> Nat]
    BY <2>1, <2>2 DEF CheckpointTypeOK
  <2>5. pending'[h] # None /\ \A k \in Client \ {h} : pending'[k] = pending[k]
    BY <2>1, <2>2, AttemptNotNone DEF CheckpointTypeOK
  <2> QED BY <2>3, <2>4, <2>5
<1>3. CASE ~ MayResend(h, pend, expect)
  <2>1. PICK stamp \in Stamp :
          LET a == Attempt(h, expect, fl, over, stamp)
          IN /\ pending' = [pending EXCEPT ![h] = a]
             /\ floor' = [floor EXCEPT ![h] = Max2(a.floor, a.sha.gen)]
             /\ Send(h, RequestOf(a))
    BY <1>3 DEF Upload
  <2> DEFINE a == Attempt(h, expect, fl, over, stamp)
  <2>2. a \in AttemptType
    BY AttemptHasType
  <2>3. calls' \in [Client -> Call] /\ late' = late
    BY <2>1, <2>2, RequestType, SendType
  <2>4. a.floor \in Nat /\ a.sha.gen \in Nat
    BY <2>2 DEF AttemptType, Bundle
  <2>5. Max2(a.floor, a.sha.gen) \in Nat
    BY <2>4 DEF Max2
  <2> HIDE DEF a
  <2>6. pending' \in [Client -> Noted] /\ floor' \in [Client -> Nat]
    BY <2>1, <2>2, <2>5 DEF CheckpointTypeOK, Noted, a
  <2>7. pending'[h] # None /\ \A k \in Client \ {h} : pending'[k] = pending[k]
    BY <2>1, <2>2, AttemptNotNone DEF CheckpointTypeOK, a
  <2> QED BY <2>3, <2>6, <2>7
<1> QED BY <1>2, <1>3

-----------------------------------------------------------------------------
(* Every step keeps the types *)

LEMMA TypesInit == Init => Types
<1> SUFFICES ASSUME Init PROVE Types
  OBVIOUS
<1>1. SlotTypeOK
  BY DEF Init, SlotInit, SlotTypeOK, Hand, Call
<1>2. run \in [Client -> Running]
  BY DEF Init, Running
<1>3. CheckpointTypeOK
  BY <1>1, <1>2 DEF Init, CheckpointTypeOK, Noted
<1>4. Attempting
  BY DEF Init, Attempting, Rest
<1> QED BY <1>3, <1>4 DEF Types

LEMMA TypesSlotStep == ASSUME Types, SlotStep PROVE Types'
<1>1. SlotTypeOK'
  BY ServerKeepsTypes, SupervisorKeepsTypes DEF Types, CheckpointTypeOK, SlotStep
<1> QED BY <1>1 DEF Types, CheckpointTypeOK, Attempting, SlotStep, ledger, record, bounds

\* A step that leaves the slot and the running commands alone.
LEMMA TypesLedgerStep ==
  ASSUME Types, NEW h \in Client,
         (\E e \in Entry : Write(h, e) \/ Export(h, e)) \/ LoseBox(h)
  PROVE  Types'
<1>1. ASSUME NEW e \in Entry, Write(h, e) PROVE Types'
  BY <1>1 DEF Write, Types, CheckpointTypeOK, SlotTypeOK, Attempting, slotVars, record, bounds
<1>2. ASSUME NEW e \in Entry, Export(h, e) PROVE Types'
  BY <1>2 DEF Export, Types, CheckpointTypeOK, SlotTypeOK, Attempting, slotVars, record, bounds
<1>3. CASE LoseBox(h)
  <2>1. PICK n \in 0 .. Len(box[h]) - 1 : box' = [box EXCEPT ![h] = SubSeq(@, 1, n)]
    BY <1>3 DEF LoseBox
  <2>2. box[h] \in Seq(Entry) /\ Len(box[h]) \in Nat
    BY DEF Types, CheckpointTypeOK
  <2>3. SubSeq(box[h], 1, n) \in Seq(Entry)
    BY <2>2
  <2>4. box' \in [Client -> Seq(Entry)]
    BY <2>1, <2>3 DEF Types, CheckpointTypeOK
  <2> QED BY <1>3, <2>4 DEF LoseBox, Types, CheckpointTypeOK, SlotTypeOK, Attempting, slotVars, record
<1> QED BY <1>1, <1>2, <1>3

\* A step in which a command sends its attempt.
LEMMA TypesUpload ==
  ASSUME Types, NEW h \in Client, NEW expect \in Name,
         NEW pend \in Noted, NEW fl \in Nat, NEW over \in BOOLEAN,
         NEW next \in Running, Upload(h, expect, pend, fl, over, next),
         acked' \in [Client -> Seq(RecordLine)],
         UNCHANGED <<server, supervisor, ledger, restoring, pushed, bounds>>
  PROVE  Types'
<1> CheckpointTypeOK
  BY DEF Types
<1>1. calls' \in [Client -> Call] /\ late' = late
  BY UploadType
<1>2. pending' \in [Client -> Noted] /\ floor' \in [Client -> Nat]
  BY UploadType
<1>3. pending'[h] # None /\ \A k \in Client \ {h} : pending'[k] = pending[k]
  BY UploadType
<1>4. run' = [run EXCEPT ![h] = next] /\ run' \in [Client -> Running]
  BY DEF Upload, CheckpointTypeOK
<1>5. SlotTypeOK'
  BY <1>1 DEF CheckpointTypeOK, SlotTypeOK, server, supervisor
<1>6. CheckpointTypeOK'
  <2>1. UNCHANGED <<up, events, box, written, restoring, pushed, silences, torn, wipes, boxLosses>>
    BY DEF ledger, bounds
  <2> QED BY <1>2, <1>4, <1>5, <2>1 DEF CheckpointTypeOK
<1>7. Attempting'
  <2> SUFFICES ASSUME NEW k \in Client, run'[k].pc \in {"first", "rebase", "extend"}
               PROVE  pending'[k] # None
    BY DEF Attempting
  <2>1. CASE k = h
    BY <1>3, <2>1
  <2>2. CASE k # h
    BY <1>3, <1>4, <2>2 DEF Types, CheckpointTypeOK, Attempting
  <2> QED BY <2>1, <2>2
<1> QED BY <1>6, <1>7 DEF Types

\* The commands run by a holder that has a ledger.
LEMMA TypesCheckpointStep ==
  ASSUME Types, NEW h \in Client,
         \/ StartWaiting(h) \/ StartUpload(h) \/ \E name \in OntoNames(h) : StartOnto(h, name)
         \/ Accept(h) \/ Rebase(h) \/ Stop(h) \/ GiveUp(h) \/ Break(h)
         \/ Ready(h) \/ StopWaiting(h)
  PROVE  Types'
<1>0. /\ CheckpointTypeOK /\ Attempting
      /\ acked \in [Client -> Seq(RecordLine)] /\ pending[h] \in Noted /\ floor[h] \in Nat
      /\ box[h] \in Seq(Entry) /\ run[h] \in Running /\ run \in [Client -> Running]
      /\ Current \in Name /\ Empty \in Name
  BY CurrentType DEF Types, CheckpointTypeOK, Empty, Name
<1>1. CASE StartWaiting(h)
  <2>1. [pc |-> "wait", name |-> LastAcked(h).name, todo |-> box[h]] \in Running
    BY <1>0, <1>1, LastAckedType DEF StartWaiting, Unchanged, Running
  <2>2. run' \in [Client -> Running]
    BY <1>0, <1>1, <2>1 DEF StartWaiting
  <2>3. Attempting'
    BY <1>0, <1>1, <2>2 DEF StartWaiting, Attempting, record
  <2> QED BY <1>0, <1>1, <2>2, <2>3
        DEF Types, StartWaiting, CheckpointTypeOK, SlotTypeOK, slotVars, ledger, record, bounds
<1>2. CASE StartUpload(h)
  <2> DEFINE next == [pc |-> "first", onto |-> FALSE, todo |-> box[h]]
  <2>1. PICK name \in Conditions(h) : Upload(h, name, pending[h], floor[h], FALSE, next)
    BY <1>2 DEF StartUpload
  <2>2. name \in Name
    BY <1>0, <2>1, LastAckedType DEF Conditions
  <2>3. next \in Running
    BY <1>0 DEF Running
  <2>4. acked' \in [Client -> Seq(RecordLine)]
    BY <1>0, <1>2 DEF StartUpload
  <2>5. UNCHANGED <<server, supervisor, ledger, restoring, pushed, bounds>>
    BY <1>2 DEF StartUpload
  <2> HIDE DEF next
  <2> QED BY <1>0, <2>1, <2>2, <2>3, <2>4, <2>5, TypesUpload
<1>3. ASSUME NEW name \in OntoNames(h), StartOnto(h, name) PROVE Types'
  <2> DEFINE next == [pc |-> "first", onto |-> TRUE, todo |-> box[h]]
  <2>1. Upload(h, name, pending[h], floor[h], name # Empty, next)
    BY <1>3 DEF StartOnto
  <2>2. name \in Name
    BY <1>0, <1>3 DEF OntoNames, Noted, AttemptType
  <2>3. next \in Running
    BY <1>0 DEF Running
  <2>4. acked' \in [Client -> Seq(RecordLine)]
    BY <1>0, <1>3 DEF StartOnto
  <2>5. UNCHANGED <<server, supervisor, ledger, restoring, pushed, bounds>>
    BY <1>3 DEF StartOnto
  <2> HIDE DEF next
  <2>6. (name # Empty) \in BOOLEAN
    OBVIOUS
  <2> QED BY <1>0, <2>1, <2>2, <2>3, <2>4, <2>5, <2>6, TypesUpload
<1>4. CASE Accept(h)
  <2> DEFINE name == [gen |-> calls[h].name.gen, sha |-> pending[h].sha]
             fl == Max2(floor[h], name.gen)
             next == [pc |-> "extend", todo |-> run[h].todo]
  <2>1. /\ calls[h] \in Call /\ calls[h].phase = "answered"
        /\ run[h].pc \in {"first", "rebase", "extend"}
    BY <1>0, <1>4 DEF Accept, Answered, CheckpointTypeOK, SlotTypeOK
  <2>2. calls[h].name \in Name /\ pending[h] \in AttemptType
    BY <1>0, <2>1, AnsweredName DEF Attempting, Noted
  <2>3. name \in Name /\ name.gen \in Nat /\ fl \in Nat
    BY <1>0, <2>2 DEF Name, AttemptType, Max2
  <2>4. run[h].todo \in Seq(Entry)
    BY <1>0, <2>1 DEF Running, Rest
  <2> HIDE DEF name, fl, next
  <2>5. acked' \in [Client -> Seq(RecordLine)]
    <3> DEFINE line == [name |-> name, content |-> WhatWasSent(h)]
    <3>1. line \in RecordLine
      BY <2>2, <2>3 DEF RecordLine, WhatWasSent, AttemptType
    <3>2. LastN(Append(acked[h], line), RecordKeep) \in Seq(RecordLine)
      <4> HIDE DEF line
      <4>1. Append(acked[h], line) \in Seq(RecordLine) /\ RecordKeep \in Nat
        BY <1>0, <3>1, CheckpointAssumption
      <4> QED BY <4>1, LastNType
    <3>3. acked' = [acked EXCEPT ![h] = LastN(Append(@, line), RecordKeep)]
      BY <1>4 DEF Accept, name
    <3> QED BY <1>0, <3>2, <3>3
  <2>6. UNCHANGED <<server, supervisor, ledger, restoring, pushed, bounds>>
    BY <1>4 DEF Accept
  <2>7. CASE Behind(h) /\ ~Refused(h, None, name)
    <3>1. Upload(h, name, None, fl, FALSE, next)
      BY <1>4, <2>7 DEF Accept, name, fl, next
    <3>2. next \in Running /\ None \in Noted
      BY <2>4 DEF next, Running, Noted
    <3> QED BY <2>3, <2>5, <2>6, <3>1, <3>2, TypesUpload
  <2>8. CASE ~ (Behind(h) /\ ~Refused(h, None, name))
    <3>1. /\ pending' = [pending EXCEPT ![h] = None]
          /\ floor' = [floor EXCEPT ![h] = fl]
          /\ calls' = [calls EXCEPT ![h] = NoCall]
          /\ UNCHANGED late
          /\ run' = [run EXCEPT ![h] =
               IF Behind(h) THEN Rest ELSE [pc |-> "wait", name |-> name, todo |-> @.todo]]
      BY <1>4, <2>8 DEF Accept, name, fl
    <3>2. run'[h] \in Running /\ run'[h].pc \in {"rest", "wait"}
      BY <1>0, <2>3, <2>4, <3>1 DEF Running, Rest
    <3>3. run' \in [Client -> Running] /\ \A k \in Client \ {h} : run'[k] = run[k]
      BY <1>0, <3>1, <3>2
    <3>4. pending' \in [Client -> Noted] /\ \A k \in Client \ {h} : pending'[k] = pending[k]
      BY <1>0, <3>1 DEF CheckpointTypeOK, Noted
    <3>5. Attempting'
      BY <1>0, <3>2, <3>3, <3>4 DEF Attempting
    <3>6. SlotTypeOK'
      BY <1>0, <2>6, <3>1 DEF CheckpointTypeOK, SlotTypeOK, server, supervisor, Call
    <3>7. floor' \in [Client -> Nat]
      BY <1>0, <2>3, <3>1 DEF CheckpointTypeOK
    <3> QED BY <1>0, <2>5, <2>6, <3>3, <3>4, <3>5, <3>6, <3>7
            DEF Types, CheckpointTypeOK, ledger, bounds
  <2> QED BY <2>7, <2>8
<1>5. CASE Rebase(h)
  <2> DEFINE next == [pc |-> "rebase", todo |-> run[h].todo]
  <2>1. /\ calls[h] \in Call /\ calls[h].phase = "answered"
        /\ run[h].pc = "first"
    BY <1>0, <1>5 DEF Rebase, Answered, CheckpointTypeOK, SlotTypeOK
  <2>2. calls[h].name \in Name
    BY <2>1, AnsweredName
  <2>3. next \in Running /\ None \in Noted
    BY <1>0, <2>1 DEF Running, Rest, Noted
  <2>4. Upload(h, calls[h].name, None, floor[h], FALSE, next)
    BY <1>5 DEF Rebase
  <2>5. acked' \in [Client -> Seq(RecordLine)]
    BY <1>0, <1>5 DEF Rebase
  <2>6. UNCHANGED <<server, supervisor, ledger, restoring, pushed, bounds>>
    BY <1>5 DEF Rebase
  <2> HIDE DEF next
  <2> QED BY <1>0, <2>2, <2>3, <2>4, <2>5, <2>6, TypesUpload
<1>6. ASSUME calls' = [calls EXCEPT ![h] = NoCall], late' = late,
             run' = [run EXCEPT ![h] = Rest],
             UNCHANGED <<server, supervisor, ledger, record, restoring, pushed, bounds>>
      PROVE  Types'
  <2>1. calls' \in [Client -> Call]
    BY <1>0, <1>6 DEF CheckpointTypeOK, SlotTypeOK, Call
  <2>2. run' \in [Client -> Running]
    BY <1>0, <1>6 DEF Running
  <2>3. Attempting'
    BY <1>0, <1>6 DEF Attempting, Rest, record
  <2>4. SlotTypeOK'
    BY <1>0, <1>6, <2>1 DEF CheckpointTypeOK, SlotTypeOK, server, supervisor
  <2> QED BY <1>0, <1>6, <2>2, <2>3, <2>4 DEF Types, CheckpointTypeOK, ledger, record, bounds
<1>7. CASE Stop(h)
  BY <1>6, <1>7 DEF Stop
<1>8. CASE Break(h)
  BY <1>6, <1>8 DEF Break
<1>9. CASE GiveUp(h)
  <2>1. calls' \in [Client -> Call] /\ late' \subseteq Request /\ hand' \in Hand
    BY <1>0, <1>9, AbandonType DEF GiveUp
  <2>2. run' \in [Client -> Running]
    BY <1>0, <1>9 DEF GiveUp, Running
  <2>3. Attempting'
    BY <1>0, <1>9 DEF GiveUp, Attempting, Rest, record
  <2>4. SlotTypeOK'
    BY <1>0, <1>9, <2>1 DEF GiveUp, CheckpointTypeOK, SlotTypeOK, supervisor
  <2> QED BY <1>0, <1>9, <2>2, <2>3, <2>4 DEF GiveUp, Types, CheckpointTypeOK, ledger, record
<1>10. CASE Ready(h)
  <2>1. run' \in [Client -> Running]
    BY <1>0, <1>10 DEF Ready, Running
  <2>2. Attempting'
    BY <1>0, <1>10 DEF Ready, Attempting, Rest, record
  <2>3. Numbers(run[h].todo) \subseteq (Nat \ {0}) \X Entry
    <3>1. run[h].todo \in Seq(Entry)
      BY <1>0, <1>10 DEF Ready, Running, Rest
    <3> QED BY <3>1 DEF Numbers
  <2> QED BY <1>0, <1>10, <2>1, <2>2, <2>3
        DEF Ready, Types, CheckpointTypeOK, SlotTypeOK, slotVars, ledger, record, bounds
<1>11. CASE StopWaiting(h)
  <2>1. run' \in [Client -> Running]
    BY <1>0, <1>11 DEF StopWaiting, Running
  <2>2. Attempting'
    BY <1>0, <1>11 DEF StopWaiting, Attempting, Rest, record
  <2> QED BY <1>0, <1>11, <2>1, <2>2
        DEF StopWaiting, Types, CheckpointTypeOK, SlotTypeOK, slotVars, ledger, record, bounds
<1> QED BY <1>1, <1>2, <1>3, <1>4, <1>5, <1>7, <1>8, <1>9, <1>10, <1>11

LEMMA TypesWipe == ASSUME Types, NEW h \in Client, Wipe(h) PROVE Types'
<1>0. CheckpointTypeOK /\ Attempting
  BY DEF Types
<1>1. calls' \in [Client -> Call] /\ late' \subseteq Request /\ hand' \in Hand
  BY <1>0, AbandonType DEF Wipe
<1>2. run' \in [Client -> Running]
  BY <1>0 DEF Wipe, CheckpointTypeOK, Running
<1>3. Attempting'
  BY <1>0 DEF Wipe, Attempting, CheckpointTypeOK, Rest
<1>4. SlotTypeOK'
  BY <1>0, <1>1 DEF Wipe, CheckpointTypeOK, SlotTypeOK, supervisor
<1>5. pending' \in [Client -> Noted] /\ up' \in [Client -> BOOLEAN] /\ floor' \in [Client -> Nat]
  BY <1>0 DEF Wipe, CheckpointTypeOK, Noted
<1>6. /\ events' \in [Client -> Seq(Entry)] /\ box' \in [Client -> Seq(Entry)]
      /\ acked' \in [Client -> Seq(RecordLine)]
  BY <1>0 DEF Wipe, CheckpointTypeOK
<1> QED BY <1>0, <1>2, <1>3, <1>4, <1>5, <1>6 DEF Wipe, Types, CheckpointTypeOK

LEMMA TypesRestoreStep ==
  ASSUME Types, NEW h \in Client,
         \/ Fetch(h) \/ FetchChosen(h) \/ Restore(h) \/ RestoreTorn(h) \/ AbandonRestore(h)
         \/ \E n \in 1 .. MaxGeneration : Witness(h, n)
  PROVE  Types'
<1>0. CheckpointTypeOK /\ Attempting /\ files \subseteq File
  BY DEF Types, CheckpointTypeOK, SlotTypeOK
<1>1. ASSUME restoring' \in [Client -> Fetching \cup {None}],
             UNCHANGED <<slotVars, ledger, record, run, pushed, bounds>>
      PROVE  Types'
  BY <1>0, <1>1
     DEF Types, CheckpointTypeOK, SlotTypeOK, Attempting, slotVars, ledger, record, bounds
<1>2. \A f \in files : NameOf(f) \in [gen : 1 .. MaxGeneration, sha : Bundle]
  BY <1>0 DEF NameOf, File
<1>3. \A name \in [gen : 1 .. MaxGeneration, sha : Bundle] : \A left \in SUBSET (1 .. MaxGeneration) :
         Fetched(name, left) \in Fetching
  <2>1. {f.gen : f \in files} \subseteq 1 .. MaxGeneration
    BY <1>0 DEF File
  <2> QED BY <2>1 DEF Fetched, Fetching
<1>4. CASE Fetch(h)
  <2> DEFINE left == {g.gen : g \in {g \in files : /\ g.gen # Current.gen
                                                  /\ g.gen \in marks
                                                  /\ ~Superseded(g)}}
  <2>1. left \in SUBSET (1 .. MaxGeneration)
    BY <1>0 DEF File
  <2>2. Current \in [gen : 1 .. MaxGeneration, sha : Bundle]
    BY <1>0, <1>2, <1>4, NewestIsNewest DEF Fetch, Current, NewestName
  <2>3. restoring' = [restoring EXCEPT ![h] = Fetched(Current, left)]
    BY <1>4 DEF Fetch
  <2>4. Fetched(Current, left) \in Fetching
    BY <1>3, <2>1, <2>2
  <2>5. restoring' \in [Client -> Fetching \cup {None}]
    BY <1>0, <2>3, <2>4 DEF CheckpointTypeOK
  <2> QED BY <1>1, <1>4, <2>5 DEF Fetch
<1>5. CASE FetchChosen(h)
  <2>1. PICK f \in files : restoring' = [restoring EXCEPT ![h] = Fetched(NameOf(f), {})]
    BY <1>5 DEF FetchChosen
  <2>2. Fetched(NameOf(f), {}) \in Fetching
    BY <1>2, <1>3
  <2>3. restoring' \in [Client -> Fetching \cup {None}]
    BY <1>0, <2>1, <2>2 DEF CheckpointTypeOK
  <2> QED BY <1>1, <1>5, <2>3 DEF FetchChosen
<1>6. ASSUME NEW n \in 1 .. MaxGeneration, Witness(h, n) PROVE Types'
  <2>1. restoring[h] \in Fetching
    BY <1>0, <1>6 DEF Witness, CheckpointTypeOK
  <2>2. [restoring[h] EXCEPT !.left = @ \ {n}] \in Fetching
    BY <2>1 DEF Fetching
  <2>3. restoring' \in {[restoring EXCEPT ![h].left = @ \ {n}], [restoring EXCEPT ![h] = None]}
    BY <1>6 DEF Witness
  <2>4. restoring' \in [Client -> Fetching \cup {None}]
    BY <1>0, <2>2, <2>3 DEF CheckpointTypeOK
  <2> QED BY <1>1, <1>6, <2>4 DEF Witness
<1>7. CASE AbandonRestore(h)
  <2>1. restoring' \in [Client -> Fetching \cup {None}]
    BY <1>0, <1>7 DEF AbandonRestore, CheckpointTypeOK
  <2> QED BY <1>1, <1>7, <2>1 DEF AbandonRestore
<1>8. ASSUME NEW b \in Seq(Entry), PutInPlace(h, b), torn' \in Nat,
             acked' \in [Client -> Seq(RecordLine)], floor' \in [Client -> Nat]
      PROVE  Types'
  <2>1. restoring[h] \in Fetching
    BY <1>0, <1>8 DEF PutInPlace, CheckpointTypeOK
  <2>2. restoring[h].name.sha.events \in Seq(Entry)
    BY <2>1 DEF Fetching, Bundle
  <2>3. /\ up' \in [Client -> BOOLEAN] /\ events' \in [Client -> Seq(Entry)]
        /\ box' \in [Client -> Seq(Entry)] /\ restoring' \in [Client -> Fetching \cup {None}]
    BY <1>0, <1>8, <2>2 DEF PutInPlace, CheckpointTypeOK
  <2>4. SlotTypeOK' /\ Attempting'
    BY <1>0, <1>8 DEF PutInPlace, CheckpointTypeOK, SlotTypeOK, slotVars, Attempting
  <2> QED BY <1>0, <1>8, <2>3, <2>4 DEF PutInPlace, Types, CheckpointTypeOK
<1>9. CASE Restore(h)
  <2> DEFINE all == restoring[h].kept \cup {restoring[h].name.gen}
  <2>1. restoring[h] \in Fetching
    BY <1>0, <1>9 DEF Restore, PutInPlace, CheckpointTypeOK
  <2>2. restoring[h].name \in [gen : 1 .. MaxGeneration, sha : Bundle]
    BY <2>1 DEF Fetching
  <2>3. restoring[h].name.sha \in Bundle /\ restoring[h].name \in Name
    BY <2>2, SlotAssumption DEF Name
  <2>4. Known(restoring[h].name.sha) \in Content /\ restoring[h].name.sha.box \in Seq(Entry)
    BY <2>3 DEF Known, Content, Bundle
  <2>5. acked' \in [Client -> Seq(RecordLine)]
    <3> DEFINE line == [name |-> restoring[h].name, content |-> Known(restoring[h].name.sha)]
    <3>1. line \in RecordLine
      BY <2>3, <2>4 DEF RecordLine
    <3>2. acked' = [acked EXCEPT ![h] = <<line>>]
      BY <1>9 DEF Restore
    <3> HIDE DEF line
    <3>3. <<line>> \in Seq(RecordLine)
      BY <3>1
    <3> QED BY <1>0, <3>2, <3>3 DEF CheckpointTypeOK
  <2>6. all \in SUBSET (0 .. MaxGeneration) /\ all # {}
    BY <2>1, <2>2, SlotAssumption DEF Fetching
  <2>7. \E n \in all : \A k \in all : k <= n
    BY <2>6, HighestExists, SlotAssumption
  <2>8. (CHOOSE n \in all : \A k \in all : k <= n) \in Nat
    BY <2>6, <2>7
  <2>9. floor' = [floor EXCEPT ![h] = CHOOSE n \in all : \A k \in all : k <= n]
    BY <1>9 DEF Restore
  <2> HIDE DEF all
  <2>10. floor' \in [Client -> Nat]
    BY <1>0, <2>8, <2>9 DEF CheckpointTypeOK
  <2> QED BY <1>0, <1>8, <1>9, <2>4, <2>5, <2>10 DEF Restore, CheckpointTypeOK
<1>10. CASE RestoreTorn(h)
  <2>1. PICK b \in {<<>>, restoring[h].name.sha.box} : PutInPlace(h, b)
    BY <1>10 DEF RestoreTorn
  <2>2. restoring[h] \in Fetching
    BY <1>0, <2>1 DEF PutInPlace, CheckpointTypeOK
  <2>3. restoring[h].name.sha.box \in Seq(Entry) /\ <<>> \in Seq(Entry)
    BY <2>2 DEF Fetching, Bundle
  <2>4. b \in Seq(Entry)
    BY <2>1, <2>3
  <2>5. torn' \in Nat /\ acked' \in [Client -> Seq(RecordLine)] /\ floor' \in [Client -> Nat]
    BY <1>0, <1>10 DEF RestoreTorn, CheckpointTypeOK
  <2> QED BY <1>8, <2>1, <2>4, <2>5
<1> QED BY <1>4, <1>5, <1>6, <1>7, <1>9, <1>10

LEMMA TypesStep == ASSUME Types, [Next]_vars PROVE Types'
<1>1. CASE SlotStep
  BY <1>1, TypesSlotStep
<1>2. ASSUME NEW h \in Client, HolderStep(h) PROVE Types'
  BY <1>2, TypesLedgerStep, TypesCheckpointStep, TypesWipe, TypesRestoreStep DEF HolderStep
<1>3. CASE UNCHANGED vars
  BY <1>3 DEF vars, Types, CheckpointTypeOK, SlotTypeOK, Attempting, slotVars, bounds
<1> QED BY <1>1, <1>2, <1>3 DEF Next

\* Whatever is lost, delayed, wiped, torn or redeployed, the disk of a holder, the
\* slot and the outside store keep their shape; and a checkpoint that reads an
\* answer always finds its attempt in the record, so that accept() can note it.
THEOREM CheckpointTypeCorrect == Spec => [](CheckpointTypeOK /\ Attempting)
<1>1. Init => Types
  BY TypesInit
<1>2. Types /\ [Next]_vars => Types'
  BY TypesStep
<1>3. Types <=> CheckpointTypeOK /\ Attempting
  BY DEF Types
<1> QED BY <1>1, <1>2, <1>3, PTL DEF Spec

-----------------------------------------------------------------------------
(* The number that is signed is the number that is given.  The server gives *)
(* Max2(current, floor) + 1 and only when the current generation is the     *)
(* expected one, so a request fits its bundle, wherever it is: noted, sent, *)
(* left in the backlog or scanned for.                                      *)

Fits(r) == r.sha.gen = Max2(r.expect.gen, r.floor) + 1

Predicted ==
  /\ \A h \in Client : pending[h] # None => Fits(pending[h])
  /\ \A h \in Client : calls[h].phase = "sent" => Fits(calls[h].req)
  /\ \A r \in late : Fits(r)
  /\ hand # Idle => hand.file.sha.gen = hand.file.gen
  /\ BundleKnowsItsNumber

LEMMA FitsAttempt ==
  ASSUME NEW h \in Client, NEW expect \in Name, NEW fl \in Nat, NEW over \in BOOLEAN, NEW stamp
  PROVE  Fits(Attempt(h, expect, fl, over, stamp))
<1>1. expect.gen \in Nat
  BY DEF Name
<1>2. Max2(expect.gen, Max2(fl, expect.gen)) = Max2(fl, expect.gen)
  BY <1>1 DEF Max2
<1> QED BY <1>2 DEF Fits, Attempt, BundleOf

\* What upload() notes and sends fits.
LEMMA PredictedUpload ==
  ASSUME Types, Predicted, NEW h \in Client, NEW expect \in Name,
         NEW pend, pend # None => Fits(pend), NEW fl \in Nat,
         NEW over \in BOOLEAN, NEW next, Upload(h, expect, pend, fl, over, next),
         UNCHANGED <<server, supervisor>>
  PROVE  Predicted'
<1>1. \E a : /\ Fits(a)
             /\ pending' = [pending EXCEPT ![h] = a]
             /\ Send(h, RequestOf(a))
  <2>1. CASE MayResend(h, pend, expect)
    BY <2>1 DEF Upload, MayResend
  <2>2. CASE ~ MayResend(h, pend, expect)
    <3>1. PICK stamp \in Stamp :
            LET a == Attempt(h, expect, fl, over, stamp)
            IN /\ pending' = [pending EXCEPT ![h] = a]
               /\ floor' = [floor EXCEPT ![h] = Max2(a.floor, a.sha.gen)]
               /\ Send(h, RequestOf(a))
      BY <2>2 DEF Upload
    <3> QED BY <3>1, FitsAttempt
  <2> QED BY <2>1, <2>2
<1>2. PICK a : /\ Fits(a)
               /\ pending' = [pending EXCEPT ![h] = a]
               /\ Send(h, RequestOf(a))
  BY <1>1
<1>3. Fits(RequestOf(a))
  BY <1>2 DEF Fits, RequestOf
<1>4. \A k \in Client : pending'[k] # None => Fits(pending'[k])
  BY <1>2 DEF Types, CheckpointTypeOK, Predicted
<1>5. \A k \in Client : calls'[k].phase = "sent" => Fits(calls'[k].req)
  BY <1>2, <1>3 DEF Send, Sent, Types, CheckpointTypeOK, SlotTypeOK, Predicted
<1>6. late' = late
  BY <1>2 DEF Send
<1> QED BY <1>4, <1>5, <1>6 DEF Predicted, BundleKnowsItsNumber, server, supervisor

\* The server gives a fitting request the number of its bundle.
LEMMA PredictedHandle ==
  ASSUME Types, Predicted, NEW c \in Client \cup {Nobody}, NEW r, Fits(r), Handle(c, r)
  PROVE  /\ files' = files
         /\ hand' # Idle => hand'.file.sha.gen = hand'.file.gen
         /\ \A k \in Client : calls'[k].phase = "sent" => Fits(calls'[k].req)
<1>0. calls \in [Client -> Call] /\ \A k \in Client : calls[k].phase = "sent" => Fits(calls[k].req)
  BY DEF Types, CheckpointTypeOK, SlotTypeOK, Predicted
<1>1. ASSUME NEW status, NEW name, Reply(c, status, name)
      PROVE  \A k \in Client : calls'[k].phase = "sent" => Fits(calls'[k].req)
  BY <1>0, <1>1 DEF Reply, Answer
<1>2. CASE Scan(c, r)
  <2>1. r.expect = Current /\ hand'.file.gen = NextNumber(r) /\ hand'.file.sha = r.sha
    BY <1>2 DEF Scan, Meets
  <2>2. hand'.file.sha.gen = hand'.file.gen
    BY <2>1 DEF NextNumber, Fits
  <2>3. \A k \in Client : calls'[k].phase = "sent" => Fits(calls'[k].req)
    BY <1>0, <1>2 DEF Scan, Served
  <2> QED BY <1>2, <2>2, <2>3 DEF Scan
<1>3. CASE Refuse(c, r)
  BY <1>1, <1>3 DEF Refuse, server, Predicted
<1>4. CASE Dedup(c, r)
  BY <1>1, <1>4 DEF Dedup, server, Predicted
<1>5. CASE Conflict(c, r)
  BY <1>1, <1>5 DEF Conflict, server, Predicted
<1> QED BY <1>2, <1>3, <1>4, <1>5 DEF Handle

LEMMA PredictedSlotStep == ASSUME Types, Predicted, SlotStep PROVE Predicted'
<1>0. pending' = pending
  BY DEF SlotStep, record
<1>1. ASSUME NEW c \in Client, Serve(c) PROVE Predicted'
  <2>1. Fits(calls[c].req)
    BY <1>1 DEF Serve, Predicted
  <2>2. /\ files' = files
        /\ hand' # Idle => hand'.file.sha.gen = hand'.file.gen
        /\ \A k \in Client : calls'[k].phase = "sent" => Fits(calls'[k].req)
    BY <1>1, <2>1, PredictedHandle DEF Serve
  <2> QED BY <1>0, <1>1, <2>2 DEF Serve, Predicted, BundleKnowsItsNumber, supervisor
<1>2. ASSUME NEW r \in late, ServeLate(r) PROVE Predicted'
  <2>1. Fits(r)
    BY DEF Predicted
  <2>2. /\ files' = files
        /\ hand' # Idle => hand'.file.sha.gen = hand'.file.gen
        /\ \A k \in Client : calls'[k].phase = "sent" => Fits(calls'[k].req)
    BY <1>2, <2>1, PredictedHandle DEF ServeLate
  <2> QED BY <1>0, <1>2, <2>2 DEF ServeLate, Predicted, BundleKnowsItsNumber, supervisor
<1>3. CASE Place
  <2>1. files' \subseteq files \cup {hand.file} /\ hand' = Idle
    BY <1>3 DEF Place, Pruned
  <2>2. \A k \in Client : calls'[k].phase = "sent" => Fits(calls'[k].req)
    <3>1. calls \in [Client -> Call] /\ \A k \in Client : calls[k].phase = "sent" => Fits(calls[k].req)
      BY DEF Types, CheckpointTypeOK, SlotTypeOK, Predicted
    <3>2. CASE Taken(files, hand.file.gen)
      BY <1>3, <3>1, <3>2 DEF Place, Reply, Answer
    <3>3. CASE ~ Taken(files, hand.file.gen)
      BY <1>3, <3>1, <3>3 DEF Place, Reply, Answer
    <3> QED BY <3>2, <3>3
  <2> QED BY <1>0, <1>3, <2>1, <2>2 DEF Place, Predicted, BundleKnowsItsNumber, supervisor
<1>4. CASE SupervisorStep
  <2>1. files' \cup outside' \cup old' \subseteq files \cup outside \cup old
    <3>1. CASE \E f \in files : Mirror(f)
      BY <3>1 DEF Mirror, server
    <3>2. CASE \E f \in outside : PutBack(f)
      BY <3>2 DEF PutBack
    <3>3. CASE \E f \in old : MirrorOld(f)
      BY <3>3 DEF MirrorOld, server
    <3>4. CASE StopOld \/ Settle \/ SettleByTimeout \/ Redeploy
      BY <3>4 DEF StopOld, Settle, SettleByTimeout, Redeploy, server
    <3> QED BY <1>4, <3>1, <3>2, <3>3, <3>4 DEF SupervisorStep
  <2>2. hand' \in {hand, Idle} /\ late' \subseteq late
    BY <1>4 DEF SupervisorStep, Mirror, PutBack, MirrorOld, StopOld, Settle, SettleByTimeout,
                Redeploy, server, network
  <2>3. calls' = calls \/ calls' = [c \in Client |->
                 IF calls[c].phase \in {"sent", "served"} THEN Lost ELSE calls[c]]
    BY <1>4 DEF SupervisorStep, Mirror, PutBack, MirrorOld, StopOld, Settle, SettleByTimeout,
                Redeploy, network
  <2>4. \A k \in Client : calls'[k].phase = "sent" => Fits(calls'[k].req)
    BY <2>3 DEF Lost, Predicted
  <2> QED BY <1>0, <2>1, <2>2, <2>4 DEF Predicted, BundleKnowsItsNumber
<1> QED BY <1>1, <1>2, <1>3, <1>4 DEF SlotStep, ServerStep

LEMMA PredictedHolderStep ==
  ASSUME Types, Predicted, NEW h \in Client, HolderStep(h)
  PROVE  Predicted'
<1>0. /\ pending[h] \in Noted /\ floor[h] \in Nat /\ Current \in Name /\ Empty \in Name
      /\ pending \in [Client -> Noted] /\ calls \in [Client -> Call]
      /\ pending[h] # None => Fits(pending[h])
  BY CurrentType DEF Types, CheckpointTypeOK, SlotTypeOK, Predicted, Empty, Name
<1>1. ASSUME UNCHANGED <<slotVars, pending>> PROVE Predicted'
  BY <1>1 DEF Predicted, BundleKnowsItsNumber, slotVars
<1>2. ASSUME UNCHANGED <<files, outside, old>>,
             pending' = pending \/ pending' = [pending EXCEPT ![h] = None],
             \/ Abandon(h)
             \/ calls' = [calls EXCEPT ![h] = NoCall] /\ UNCHANGED <<hand, late>>
      PROVE  Predicted'
  <2>1. \A k \in Client : pending'[k] # None => Fits(pending'[k])
    BY <1>0, <1>2 DEF Predicted
  <2>2. \A k \in Client : calls'[k].phase = "sent" => Fits(calls'[k].req)
    BY <1>0, <1>2 DEF Predicted, Abandon, NoCall
  <2>3. \A r \in late' : Fits(r)
    BY <1>0, <1>2 DEF Predicted, Abandon
  <2>4. hand' # Idle => hand'.file.sha.gen = hand'.file.gen
    <3>1. hand' = hand \/ (hand' = [hand EXCEPT !.from = Nobody] /\ hand.from = h)
      BY <1>2 DEF Abandon
    <3>2. CASE hand' = [hand EXCEPT !.from = Nobody] /\ hand.from = h
      <4>1. hand \in [from : Client \cup {Nobody}, file : File]
        BY <3>2, SlotAssumption DEF Types, CheckpointTypeOK, SlotTypeOK, Hand, Idle
      <4>2. hand # Idle
        BY <3>2, SlotAssumption DEF Idle
      <4>3. hand'.file = hand.file
        BY <3>2, <4>1
      <4> QED BY <4>2, <4>3 DEF Predicted
    <3> QED BY <3>1, <3>2 DEF Predicted
  <2> QED BY <1>2, <2>1, <2>2, <2>3, <2>4 DEF Predicted, BundleKnowsItsNumber
<1>3. CASE \E e \in Entry : Write(h, e) \/ Export(h, e)
  BY <1>1, <1>3 DEF Write, Export, record
<1>4. CASE LoseBox(h) \/ StartWaiting(h) \/ Ready(h) \/ StopWaiting(h)
  BY <1>1, <1>4 DEF LoseBox, StartWaiting, Ready, StopWaiting, record
<1>5. CASE StartUpload(h)
  <2>1. PICK name \in Conditions(h) :
          Upload(h, name, pending[h], floor[h], FALSE, [pc |-> "first", onto |-> FALSE, todo |-> box[h]])
    BY <1>5 DEF StartUpload
  <2>2. name \in Name
    BY <1>0, <2>1, LastAckedType DEF Conditions, Types
  <2> QED BY <1>0, <1>5, <2>1, <2>2, PredictedUpload DEF StartUpload
<1>6. ASSUME NEW name \in OntoNames(h), StartOnto(h, name) PROVE Predicted'
  <2>1. name \in Name
    BY <1>0 DEF OntoNames, Noted, AttemptType
  <2>2. (name # Empty) \in BOOLEAN
    OBVIOUS
  <2> QED BY <1>0, <1>6, <2>1, <2>2, PredictedUpload DEF StartOnto
<1>7. CASE Accept(h)
  <2> DEFINE name == [gen |-> calls[h].name.gen, sha |-> pending[h].sha]
             fl == Max2(floor[h], name.gen)
             next == [pc |-> "extend", todo |-> run[h].todo]
  <2>1. calls[h].name \in Name /\ pending[h] \in AttemptType
    BY <1>0, <1>7, AnsweredName DEF Accept, Answered, Types, Attempting, Noted
  <2>2. name \in Name /\ fl \in Nat
    BY <1>0, <2>1 DEF Name, AttemptType, Max2
  <2> HIDE DEF name, fl, next
  <2>3. CASE Behind(h) /\ ~Refused(h, None, name)
    <3>1. Upload(h, name, None, fl, FALSE, next) /\ UNCHANGED <<server, supervisor>>
      BY <1>7, <2>3 DEF Accept, name, fl, next
    <3> QED BY <2>2, <3>1, PredictedUpload
  <2>4. CASE ~ (Behind(h) /\ ~Refused(h, None, name))
    BY <1>2, <1>7, <2>4 DEF Accept, server, supervisor, name
  <2> QED BY <2>3, <2>4
<1>8. CASE Rebase(h)
  <2>1. calls[h].name \in Name
    BY <1>0, <1>8, AnsweredName DEF Rebase, Answered
  <2> QED BY <1>0, <1>8, <2>1, PredictedUpload DEF Rebase
<1>9. CASE Stop(h) \/ Break(h)
  BY <1>2, <1>9 DEF Stop, Break, server, supervisor, record
<1>10. CASE GiveUp(h)
  BY <1>2, <1>10 DEF GiveUp, supervisor, record
<1>11. CASE Wipe(h)
  BY <1>2, <1>11 DEF Wipe, supervisor
<1>12. CASE Fetch(h) \/ FetchChosen(h) \/ AbandonRestore(h)
            \/ \E n \in 1 .. MaxGeneration : Witness(h, n)
  BY <1>1, <1>12 DEF Fetch, FetchChosen, AbandonRestore, Witness, record
<1>13. CASE Restore(h) \/ RestoreTorn(h)
  BY <1>1, <1>13 DEF Restore, RestoreTorn, PutInPlace
<1> QED BY <1>3, <1>4, <1>5, <1>6, <1>7, <1>8, <1>9, <1>10, <1>11, <1>12, <1>13 DEF HolderStep

LEMMA PredictedInit == Init => Predicted
BY DEF Init, SlotInit, Predicted, BundleKnowsItsNumber, NoCall

LEMMA PredictedStep == ASSUME Types, Predicted, [Next]_vars PROVE Predicted'
<1>1. CASE SlotStep
  BY <1>1, PredictedSlotStep
<1>2. ASSUME NEW h \in Client, HolderStep(h) PROVE Predicted'
  BY <1>2, PredictedHolderStep
<1>3. CASE UNCHANGED vars
  BY <1>3 DEF vars, slotVars, Predicted, BundleKnowsItsNumber
<1> QED BY <1>1, <1>2, <1>3 DEF Next

\* The number that checkpoint predicts and signs into the manifest is the number
\* under which the bundle is kept, in the slot and outside - with every floor,
\* resend, rebase, rollback and delayed request.  The restore needs it:
\* _verify_bundle refuses a bundle that is served under another number.
THEOREM NumbersArePredicted == Spec => []BundleKnowsItsNumber
<1>1. Init => Types /\ Predicted
  BY TypesInit, PredictedInit
<1>2. Types /\ Predicted /\ [Next]_vars => (Types /\ Predicted)'
  BY TypesStep, PredictedStep
<1>3. Predicted => BundleKnowsItsNumber
  BY DEF Predicted
<1> QED BY <1>1, <1>2, <1>3, PTL DEF Spec

-----------------------------------------------------------------------------
(* What a client sees of a living instance *)

\* As long as an instance lives, the generation it shows never goes back: what
\* the supervisor puts into the directory while an upload is half way through,
\* and what pruning takes out, do not hide the newest generation.
THEOREM CurrentIsMonotone == Spec => CurrentNeverGoesBack
<1>1. ASSUME Types, [Next]_vars
      PROVE  redeploys' = redeploys => Current.gen <= Current'.gen
  <2>1. CASE files' = files
    <3>1. Current' = Current /\ Current.gen \in Nat
      BY <1>1, <2>1, CurrentType DEF Current, Types, CheckpointTypeOK, Name
    <3> QED BY <3>1
  <2>2. CASE SlotStep
    BY <1>1, <2>2, CurrentRises DEF SlotStep, Types, CheckpointTypeOK
  <2>3. ASSUME NEW h \in Client, HolderStep(h) PROVE files' = files
    <3>1. CASE \/ \E e \in Entry : Write(h, e) \/ Export(h, e)
               \/ LoseBox(h) \/ StartWaiting(h) \/ Ready(h) \/ StopWaiting(h)
      BY <3>1 DEF Write, Export, LoseBox, StartWaiting, Ready, StopWaiting, slotVars
    <3>2. CASE \/ StartUpload(h) \/ \E name \in OntoNames(h) : StartOnto(h, name)
               \/ Accept(h) \/ Rebase(h)
      BY <3>2 DEF StartUpload, StartOnto, Accept, Rebase, server
    <3>3. CASE Stop(h) \/ GiveUp(h) \/ Break(h) \/ Wipe(h)
      BY <3>3 DEF Stop, GiveUp, Break, Wipe, server
    <3>4. CASE \/ Fetch(h) \/ FetchChosen(h) \/ Restore(h) \/ RestoreTorn(h) \/ AbandonRestore(h)
               \/ \E n \in 1 .. MaxGeneration : Witness(h, n)
      BY <3>4 DEF Fetch, FetchChosen, Restore, RestoreTorn, AbandonRestore, Witness, PutInPlace,
                  slotVars
    <3> QED BY <2>3, <3>1, <3>2, <3>3, <3>4 DEF HolderStep
  <2>4. CASE UNCHANGED vars
    BY <2>1, <2>4 DEF vars, slotVars
  <2> QED BY <1>1, <2>1, <2>2, <2>3, <2>4 DEF Next
<1>2. Init => Types
  BY TypesInit
<1>3. Types /\ [Next]_vars => Types'
  BY TypesStep
<1>4. Types /\ [Next]_vars => [redeploys' = redeploys => Current.gen <= Current'.gen]_vars
  BY <1>1
<1> QED BY <1>2, <1>3, <1>4, PTL DEF Spec, CurrentNeverGoesBack

-----------------------------------------------------------------------------
(* What the abstract promise is worth *)

\* A checkpoint that implements DurableOutbox never lets two records leave for
\* the door under one number: readers of the door may go by the number.
THEOREM OneRecordPerNumber == SavedBeforeSent => []Durable!OneLetterPerNumber
<1> DEFINE Inv == pushed \subseteq StoredPairs /\ Durable!OneEach(StoredPairs)
<1>1. Durable!DurableInit => Inv
  BY DEF Durable!DurableInit, Durable!OneEach
<1>2. Inv /\ [Durable!DurableNext]_(Durable!durableVars) => Inv'
  BY DEF Durable!DurableNext, Durable!Store, Durable!Push, Durable!durableVars, Durable!OneEach
<1>3. Inv => Durable!OneLetterPerNumber
  BY DEF Durable!OneLetterPerNumber, Durable!OneEach
<1> QED BY <1>1, <1>2, <1>3, PTL DEF SavedBeforeSent, Durable!DurableSpec
-----------------------------------------------------------------------------
(* What continues what *)

LEMMA PrefixIs ==
  ASSUME NEW S, NEW s \in Seq(S), NEW t \in Seq(S)
  PROVE  IsPrefix(s, t) <=> Len(s) <= Len(t) /\ \A i \in 1 .. Len(s) : s[i] = t[i]
<1>0. Len(s) \in Nat /\ Len(t) \in Nat
  OBVIOUS
<1>1. SubSeq(s, 1, Len(s)) = s
  OBVIOUS
<1>2. CASE Len(s) <= Len(t)
  <2>1. /\ SubSeq(t, 1, Len(s)) \in Seq(S)
        /\ Len(SubSeq(t, 1, Len(s))) = Len(s)
        /\ \A i \in 1 .. Len(s) : SubSeq(t, 1, Len(s))[i] = t[i]
    BY <1>0, <1>2
  <2>2. ASSUME \A i \in 1 .. Len(s) : s[i] = t[i] PROVE s = SubSeq(t, 1, Len(s))
    BY <2>1, <2>2, SeqEqual
  <2> QED BY <1>1, <1>2, <2>1, <2>2 DEF IsPrefix
<1> QED BY <1>2 DEF IsPrefix

HasContent(x) == x.events \in Seq(Entry) /\ x.box \in Seq(Entry)

LEMMA ExtendsIs ==
  ASSUME NEW x, NEW y, HasContent(x), HasContent(y)
  PROVE  Extends(y, x) <=>
           /\ Len(x.events) <= Len(y.events) /\ \A i \in 1 .. Len(x.events) : x.events[i] = y.events[i]
           /\ Len(x.box) <= Len(y.box) /\ \A i \in 1 .. Len(x.box) : x.box[i] = y.box[i]
<1>1. PICK xe, xb, ye, yb : xe = x.events /\ xb = x.box /\ ye = y.events /\ yb = y.box
  OBVIOUS
<1>2. xe \in Seq(Entry) /\ xb \in Seq(Entry) /\ ye \in Seq(Entry) /\ yb \in Seq(Entry)
  BY <1>1 DEF HasContent
<1>3. IsPrefix(xe, ye) <=> Len(xe) <= Len(ye) /\ \A i \in 1 .. Len(xe) : xe[i] = ye[i]
  BY <1>2, PrefixIs
<1>4. IsPrefix(xb, yb) <=> Len(xb) <= Len(yb) /\ \A i \in 1 .. Len(xb) : xb[i] = yb[i]
  BY <1>2, PrefixIs
<1> QED BY <1>1, <1>3, <1>4 DEF Extends

LEMMA ExtendsItself == ASSUME NEW x, HasContent(x) PROVE Extends(x, x)
<1>1. Len(x.events) \in Nat /\ Len(x.box) \in Nat
  BY DEF HasContent
<1> QED BY <1>1, ExtendsIs

LEMMA ExtendsThrough ==
  ASSUME NEW x, NEW y, NEW z, HasContent(x), HasContent(y), HasContent(z),
         Extends(y, x), Extends(z, y)
  PROVE  Extends(z, x)
<1>1. /\ Len(x.events) \in Nat /\ Len(y.events) \in Nat /\ Len(z.events) \in Nat
      /\ Len(x.box) \in Nat /\ Len(y.box) \in Nat /\ Len(z.box) \in Nat
  BY DEF HasContent
<1> QED BY <1>1, ExtendsIs

LEMMA ExtendsCovers ==
  ASSUME NEW x, NEW y, HasContent(x), HasContent(y), Extends(y, x)
  PROVE  Numbers(x.box) \subseteq Numbers(y.box)
<1>1. PICK s, t : s = x.box /\ t = y.box
  OBVIOUS
<1>2. s \in Seq(Entry) /\ t \in Seq(Entry)
  BY <1>1 DEF HasContent
<1>3. Len(s) <= Len(t) /\ \A i \in 1 .. Len(s) : s[i] = t[i]
  BY <1>1, ExtendsIs
<1>4. DOMAIN s = 1 .. Len(s) /\ DOMAIN t = 1 .. Len(t) /\ Len(s) \in Nat /\ Len(t) \in Nat
  BY <1>2
<1>5. Numbers(s) \subseteq Numbers(t)
  BY <1>3, <1>4 DEF Numbers
<1> QED BY <1>1, <1>5

LEMMA KnownIs ==
  ASSUME NEW x, HasContent(x)
  PROVE  /\ HasContent(Known(x)) /\ Known(x).events = x.events /\ Known(x).box = x.box
         /\ \A y : Extends(y, Known(x)) <=> Extends(y, x)
         /\ \A y : Extends(Known(x), y) <=> Extends(x, y)
<1>1. PICK k : k = Known(x)
  OBVIOUS
<1>2. k.events = x.events /\ k.box = x.box
  BY <1>1 DEF Known
<1> QED BY <1>1, <1>2 DEF HasContent, Extends
LEMMA LastNIsPart ==
  ASSUME NEW S, NEW s \in Seq(S), NEW n \in Nat
  PROVE  ToSet(LastN(s, n)) \subseteq ToSet(s)
<1>1. CASE Len(s) <= n
  BY <1>1 DEF LastN
<1>2. CASE ~ (Len(s) <= n)
  <2>1. Len(s) \in Nat /\ DOMAIN s = 1 .. Len(s)
    OBVIOUS
  <2>2. PICK m, k : m = Len(s) - n + 1 /\ k = Len(s)
    OBVIOUS
  <2>3. m \in 1 .. k + 1 /\ k \in Nat
    BY <1>2, <2>1, <2>2
  <2>4. PICK t : t = SubSeq(s, m, k)
    OBVIOUS
  <2>5. t \in Seq(S) /\ DOMAIN t = 1 .. (k - m + 1) /\ \A i \in 1 .. (k - m + 1) : t[i] = s[m + i - 1]
    BY <2>2, <2>3, <2>4
  <2>6. \A i \in 1 .. (k - m + 1) : m + i - 1 \in DOMAIN s
    BY <2>1, <2>2, <2>3
  <2>7. ToSet(t) \subseteq ToSet(s)
    BY <2>5, <2>6 DEF ToSet
  <2> QED BY <1>2, <2>2, <2>4, <2>7 DEF LastN
<1> QED BY <1>1, <1>2

LEMMA ToSetAppended ==
  ASSUME NEW S, NEW s \in Seq(S), NEW e \in S
  PROVE  ToSet(Append(s, e)) = ToSet(s) \cup {e}
<1>1. PICK t : t = Append(s, e)
  OBVIOUS
<1>2. /\ Len(s) \in Nat /\ DOMAIN s = 1 .. Len(s) /\ DOMAIN t = 1 .. Len(s) + 1
      /\ t[Len(s) + 1] = e /\ \A i \in 1 .. Len(s) : t[i] = s[i]
  BY <1>1
<1>3. ToSet(t) \subseteq ToSet(s) \cup {e}
  <2> SUFFICES ASSUME NEW i \in 1 .. Len(s) + 1 PROVE t[i] \in ToSet(s) \cup {e}
    BY <1>2 DEF ToSet
  <2>1. i \in 1 .. Len(s) \/ i = Len(s) + 1
    BY <1>2
  <2> QED BY <1>2, <2>1 DEF ToSet
<1>4. ToSet(s) \subseteq ToSet(t)
  <2> SUFFICES ASSUME NEW i \in 1 .. Len(s) PROVE s[i] \in ToSet(t)
    BY <1>2 DEF ToSet
  <2>1. i \in DOMAIN t /\ t[i] = s[i]
    BY <1>2
  <2> QED BY <2>1 DEF ToSet
<1>5. e \in ToSet(t)
  <2>1. Len(s) + 1 \in DOMAIN t
    BY <1>2
  <2> QED BY <1>2, <2>1 DEF ToSet
<1> QED BY <1>1, <1>3, <1>4, <1>5

-----------------------------------------------------------------------------
(* Uploads: a bundle and the condition on which it is sent.  They are in a  *)
(* record file, on the wire, in the backlog, in the server's hands and in   *)
(* files; only a holder makes a new one.                                    *)

Upl(sha, name) == [sha |-> sha, name |-> name]

Noting == {Upl(pending[h].sha, pending[h].expect) : h \in {k \in Client : pending[k] # None}}
OnTheWay == {Upl(calls[h].req.sha, calls[h].req.expect) : h \in {k \in Client : calls[k].phase = "sent"}}
Delayed == {Upl(r.sha, r.expect) : r \in late}
Filed == {Upl(f.sha, f.prev) : f \in files \cup outside \cup old}
Held == IF hand = Idle THEN {} ELSE {Upl(hand.file.sha, hand.file.prev)}

Uploads == Noting \cup OnTheWay \cup Delayed \cup Filed \cup Held

LEMMA HandFile == ASSUME SlotTypeOK, hand # Idle PROVE hand \in [from : Client \cup {Nobody}, file : File]
BY DEF SlotTypeOK, Hand

LEMMA UploadsType ==
  ASSUME Types, NEW u \in Uploads
  PROVE  u.sha \in Bundle /\ HasContent(u.sha) /\ u.sha.gen \in Nat \ {0} /\ u.name \in Name
<1> SUFFICES u.sha \in Bundle /\ u.name \in Name
  BY DEF Bundle, HasContent
<1>1. \A a \in AttemptType \cup Request : Upl(a.sha, a.expect).sha \in Bundle /\ Upl(a.sha, a.expect).name \in Name
  BY DEF Upl, AttemptType, Request
<1>2. \A f \in File : Upl(f.sha, f.prev).sha \in Bundle /\ Upl(f.sha, f.prev).name \in Name
  BY DEF Upl, File
<1>3. ASSUME u \in Noting PROVE u.sha \in Bundle /\ u.name \in Name
  BY <1>1, <1>3 DEF Noting, Types, CheckpointTypeOK, Noted
<1>4. ASSUME u \in OnTheWay PROVE u.sha \in Bundle /\ u.name \in Name
  BY <1>1, <1>4, SentRequest DEF OnTheWay, Types, CheckpointTypeOK, SlotTypeOK
<1>5. ASSUME u \in Delayed PROVE u.sha \in Bundle /\ u.name \in Name
  BY <1>1, <1>5 DEF Delayed, Types, CheckpointTypeOK, SlotTypeOK
<1>6. ASSUME u \in Filed PROVE u.sha \in Bundle /\ u.name \in Name
  BY <1>2, <1>6 DEF Filed, Types, CheckpointTypeOK, SlotTypeOK
<1>7. ASSUME u \in Held PROVE u.sha \in Bundle /\ u.name \in Name
  BY <1>2, <1>7, HandFile DEF Held, Types, CheckpointTypeOK
<1> QED BY <1>3, <1>4, <1>5, <1>6, <1>7 DEF Uploads
\* What the server answers at once makes no upload.
LEMMA UploadsReply ==
  ASSUME Types, NEW c \in Client \cup {Nobody}, NEW status, NEW name, Reply(c, status, name)
  PROVE  OnTheWay' \subseteq OnTheWay
<1>1. \A k \in Client : calls'[k].phase = "sent" => calls'[k] = calls[k]
  BY DEF Reply, Answer, Types, CheckpointTypeOK, SlotTypeOK
<1> QED BY <1>1 DEF OnTheWay

LEMMA UploadsHandle ==
  ASSUME Types, NEW c \in Client \cup {Nobody}, NEW r \in Request, Handle(c, r)
  PROVE  /\ OnTheWay' \subseteq OnTheWay
         /\ Held' \subseteq Held \cup {Upl(r.sha, r.expect)}
<1>1. CASE Scan(c, r)
  <2>1. PICK f : f = [gen |-> NextNumber(r), sha |-> r.sha, prev |-> Current]
    OBVIOUS
  <2>2. hand' = [from |-> c, file |-> f]
    BY <1>1, <2>1 DEF Scan
  <2>3. f.sha = r.sha /\ f.prev = r.expect
    BY <1>1, <2>1 DEF Scan, Meets
  <2>4. Held' \subseteq {Upl(r.sha, r.expect)}
    BY <2>2, <2>3 DEF Held
  <2>5. \A k \in Client : calls'[k].phase = "sent" => calls'[k] = calls[k]
    BY <1>1 DEF Scan, Served, Types, CheckpointTypeOK, SlotTypeOK
  <2> QED BY <2>4, <2>5 DEF OnTheWay
<1>2. CASE Refuse(c, r) \/ Dedup(c, r) \/ Conflict(c, r)
  <2>1. hand' = hand /\ \E status, name : Reply(c, status, name)
    BY <1>2 DEF Refuse, Dedup, Conflict, server
  <2> QED BY <2>1, UploadsReply DEF Held
<1> QED BY <1>1, <1>2 DEF Handle

LEMMA UploadsSlot ==
  ASSUME Types, SlotStep
  PROVE  Uploads' \subseteq Uploads
<1>0. Noting' = Noting
  BY DEF SlotStep, record, Noting
<1>1. ASSUME NEW c \in Client, Serve(c) PROVE Uploads' \subseteq Uploads
  <2>1. calls[c].req \in Request
    BY <1>1, SentRequest DEF Serve, Types, CheckpointTypeOK, SlotTypeOK
  <2>2. OnTheWay' \subseteq OnTheWay /\ Held' \subseteq Held \cup {Upl(calls[c].req.sha, calls[c].req.expect)}
    BY <1>1, <2>1, UploadsHandle DEF Serve
  <2>3. Upl(calls[c].req.sha, calls[c].req.expect) \in OnTheWay
    BY <1>1 DEF Serve, OnTheWay
  <2>4. Filed' = Filed /\ Delayed' = Delayed
    BY <1>1 DEF Serve, supervisor, Handle, Refuse, Scan, Dedup, Conflict, server, Filed, Delayed
  <2> QED BY <1>0, <2>2, <2>3, <2>4 DEF Uploads
<1>2. ASSUME NEW r \in late, ServeLate(r) PROVE Uploads' \subseteq Uploads
  <2>1. r \in Request
    BY DEF Types, CheckpointTypeOK, SlotTypeOK
  <2>2. OnTheWay' \subseteq OnTheWay /\ Held' \subseteq Held \cup {Upl(r.sha, r.expect)}
    BY <1>2, <2>1, UploadsHandle DEF ServeLate
  <2>3. Upl(r.sha, r.expect) \in Delayed
    BY DEF Delayed
  <2>4. Filed' = Filed
    BY <1>2 DEF ServeLate, supervisor, Handle, Refuse, Scan, Dedup, Conflict, server, Filed
  <2>5. Delayed' \subseteq Delayed
    BY <1>2 DEF ServeLate, Delayed
  <2> QED BY <1>0, <2>2, <2>3, <2>4, <2>5 DEF Uploads
<1>3. CASE Place
  <2>1. hand.from \in Client \cup {Nobody}
    BY <1>3, HandFile DEF Place, Types, CheckpointTypeOK
  <2>2. \E status, name : Reply(hand.from, status, name)
    BY <1>3 DEF Place
  <2>3. OnTheWay' \subseteq OnTheWay
    BY <2>1, <2>2, UploadsReply
  <2>4. files' \subseteq files \cup {hand.file} /\ hand # Idle /\ hand' = Idle
    BY <1>3 DEF Place, Pruned
  <2>5. Held' = {}
    BY <2>4 DEF Held
  <2>6. Filed' \subseteq Filed \cup Held
    BY <1>3, <2>4 DEF Place, supervisor, Filed, Held
  <2>7. Delayed' = Delayed
    BY <1>3 DEF Place, Delayed
  <2> QED BY <1>0, <2>3, <2>5, <2>6, <2>7 DEF Uploads
<1>4. CASE SupervisorStep
  <2>1. files' \cup outside' \cup old' \subseteq files \cup outside \cup old
    <3>1. CASE \E f \in files : Mirror(f)
      BY <3>1 DEF Mirror, server
    <3>2. CASE \E f \in outside : PutBack(f)
      BY <3>2 DEF PutBack
    <3>3. CASE \E f \in old : MirrorOld(f)
      BY <3>3 DEF MirrorOld, server
    <3>4. CASE StopOld \/ Settle \/ SettleByTimeout \/ Redeploy
      BY <3>4 DEF StopOld, Settle, SettleByTimeout, Redeploy, server
    <3> QED BY <1>4, <3>1, <3>2, <3>3, <3>4 DEF SupervisorStep
  <2>2. hand' \in {hand, Idle} /\ late' \subseteq late
    BY <1>4 DEF SupervisorStep, Mirror, PutBack, MirrorOld, StopOld, Settle, SettleByTimeout,
                Redeploy, server, network
  <2>3. calls' = calls \/ calls' = [c \in Client |->
                 IF calls[c].phase \in {"sent", "served"} THEN Lost ELSE calls[c]]
    BY <1>4 DEF SupervisorStep, Mirror, PutBack, MirrorOld, StopOld, Settle, SettleByTimeout,
                Redeploy, network
  <2>4. \A k \in Client : calls'[k].phase = "sent" => calls'[k] = calls[k]
    BY <2>3 DEF Lost
  <2>5. OnTheWay' \subseteq OnTheWay
    BY <2>4 DEF OnTheWay
  <2>6. Filed' \subseteq Filed
    BY <2>1 DEF Filed
  <2>7. Held' \subseteq Held
    BY <2>2 DEF Held
  <2>8. Delayed' \subseteq Delayed
    BY <2>2 DEF Delayed
  <2> QED BY <1>0, <2>5, <2>6, <2>7, <2>8 DEF Uploads
<1> QED BY <1>1, <1>2, <1>3, <1>4 DEF SlotStep, ServerStep
\* upload() sends the attempt of the record again, or a new one.
SendsAgain(h) ==
  /\ pending[h] # None
  /\ pending' = pending /\ floor' = floor
  /\ calls' = [calls EXCEPT ![h] = Sent(RequestOf(pending[h]))]

SendsNew(h, name, fl, over, stamp) ==
  /\ pending' = [pending EXCEPT ![h] = Attempt(h, name, fl, over, stamp)]
  /\ floor' = [floor EXCEPT ![h] = Attempt(h, name, fl, over, stamp).sha.gen]
  /\ calls' = [calls EXCEPT ![h] = Sent(RequestOf(Attempt(h, name, fl, over, stamp)))]

LEMMA AttemptIs ==
  ASSUME Types, NEW h \in Client, NEW name \in Name, NEW fl \in Nat, NEW over \in BOOLEAN, NEW stamp \in Stamp,
         NEW a, a = Attempt(h, name, fl, over, stamp)
  PROVE  /\ a \in AttemptType /\ a # None
         /\ a.expect = name /\ a.content = ContentOf(h) /\ Known(a.sha) = a.content
         /\ a.sha.events = events[h] /\ a.sha.box = box[h]
         /\ a.sha.gen = Max2(fl, name.gen) + 1 /\ a.sha.gen > fl
         /\ Max2(a.floor, a.sha.gen) = a.sha.gen
         /\ RequestOf(a).sha = a.sha /\ RequestOf(a).expect = a.expect
<1>1. a \in AttemptType /\ a # None
  BY AttemptHasType, AttemptNotNone DEF Types
<1>2. name.gen \in Nat
  BY DEF Name
<1>3. PICK b : b = BundleOf(ContentOf(h), Max2(fl, name.gen) + 1, over, stamp)
  OBVIOUS
<1>4. /\ a.expect = name /\ a.content = ContentOf(h) /\ a.sha = b /\ a.floor = Max2(fl, name.gen)
  BY <1>3 DEF Attempt
<1>5. b.events = events[h] /\ b.box = box[h] /\ b.gen = Max2(fl, name.gen) + 1
  BY <1>3 DEF BundleOf, ContentOf
<1>6. Known(b) = ContentOf(h)
  BY <1>5 DEF Known, ContentOf
<1>7. Max2(fl, name.gen) \in Nat /\ Max2(fl, name.gen) >= fl
  BY <1>2 DEF Max2
<1>8. b.gen > fl /\ Max2(a.floor, b.gen) = b.gen
  BY <1>4, <1>5, <1>7 DEF Max2
<1> QED BY <1>1, <1>4, <1>5, <1>6, <1>8 DEF RequestOf

LEMMA UploadIs ==
  ASSUME Types, NEW h \in Client, NEW name \in Name, NEW pend, NEW fl \in Nat, NEW over \in BOOLEAN, NEW next,
         \/ pend = None
         \/ pend = pending[h] /\ fl = floor[h],
         Upload(h, name, pend, fl, over, next)
  PROVE  /\ run' = [run EXCEPT ![h] = next] /\ late' = late
         /\ \/ SendsAgain(h) /\ pend # None /\ pending[h].expect = name
            \/ \E stamp \in Stamp : SendsNew(h, name, fl, over, stamp)
<1>0. pending = [k \in Client |-> pending[k]] /\ floor = [k \in Client |-> floor[k]]
  BY DEF Types, CheckpointTypeOK
<1>1. run' = [run EXCEPT ![h] = next] /\ late' = late
  BY DEF Upload, Send
<1>2. CASE MayResend(h, pend, name)
  <2>1. pend = pending[h] /\ fl = floor[h] /\ pend # None /\ pend.expect = name
    BY <1>2 DEF MayResend
  <2>2. /\ pending' = [pending EXCEPT ![h] = pend]
        /\ floor' = [floor EXCEPT ![h] = fl]
        /\ Send(h, RequestOf(pend))
    BY <1>2 DEF Upload
  <2>3. pending' = pending /\ floor' = floor
    BY <1>0, <2>1, <2>2
  <2> QED BY <1>1, <2>1, <2>2, <2>3 DEF SendsAgain, Send
<1>3. CASE ~MayResend(h, pend, name)
  <2>1. PICK stamp \in Stamp :
          LET a == Attempt(h, name, fl, over, stamp)
          IN /\ pending' = [pending EXCEPT ![h] = a]
             /\ floor' = [floor EXCEPT ![h] = Max2(a.floor, a.sha.gen)]
             /\ Send(h, RequestOf(a))
    BY <1>3 DEF Upload
  <2>2. PICK a : a = Attempt(h, name, fl, over, stamp)
    OBVIOUS
  <2>3. /\ pending' = [pending EXCEPT ![h] = a]
        /\ floor' = [floor EXCEPT ![h] = Max2(a.floor, a.sha.gen)]
        /\ Send(h, RequestOf(a))
    BY <2>1, <2>2
  <2>4. Max2(a.floor, a.sha.gen) = a.sha.gen
    BY <2>2, AttemptIs
  <2> QED BY <1>1, <2>2, <2>3, <2>4 DEF SendsNew, Send
<1> QED BY <1>2, <1>3

\* The ground on which a holder puts a new generation.
Ground(h, name) ==
  \/ name = Empty
  \/ WasAcked(h, name)
  \/ name.sha \in Bundle /\ Extends(ContentOf(h), Known(name.sha))
  \/ pending[h] # None /\ name = pending[h].expect
  \/ pending[h] # None /\ name.sha = pending[h].sha

\* What a command leaves alone.
Aside == UNCHANGED <<server, late, supervisor, ledger, restoring, pushed, bounds>>

LEMMA LastAckedIn ==
  ASSUME Types, NEW h \in Client, acked[h] # <<>>
  PROVE  LastAcked(h) \in ToSet(acked[h]) /\ LastAcked(h) \in RecordLine
<1>1. acked[h] \in Seq(RecordLine)
  BY DEF Types, CheckpointTypeOK
<1>2. Len(acked[h]) \in DOMAIN acked[h]
  BY <1>1
<1> QED BY <1>1, <1>2 DEF LastAcked, ToSet
Starts(h) == StartUpload(h) \/ \E name \in OntoNames(h) : StartOnto(h, name)

LEMMA StartsIs ==
  ASSUME Types, NEW h \in Client, Starts(h)
  PROVE  /\ Aside /\ acked' = acked /\ up[h] /\ run[h] = Rest
         /\ \E onto \in BOOLEAN :
              run' = [run EXCEPT ![h] = [pc |-> "first", onto |-> onto, todo |-> box[h]]]
         /\ \/ SendsAgain(h)
            \/ \E name \in Name, over \in BOOLEAN, stamp \in Stamp :
                 SendsNew(h, name, floor[h], over, stamp) /\ Ground(h, name)
<1>0. floor[h] \in Nat /\ Current \in Name /\ Empty \in Name /\ pending[h] \in Noted
  BY CurrentType DEF Types, CheckpointTypeOK, Empty, Name
<1>1. CASE StartUpload(h)
  <2>0. PICK next : next = [pc |-> "first", onto |-> FALSE, todo |-> box[h]]
    OBVIOUS
  <2>1. PICK name \in Conditions(h) : Upload(h, name, pending[h], floor[h], FALSE, next)
    BY <1>1, <2>0 DEF StartUpload
  <2>2. name = Empty \/ (acked[h] # <<>> /\ name = LastAcked(h).name)
    BY <2>1 DEF Conditions
  <2>3. name \in Name /\ Ground(h, name)
    BY <1>0, <2>2, LastAckedIn DEF Ground, WasAcked, RecordLine
  <2>4. /\ run' = [run EXCEPT ![h] = next] /\ late' = late
        /\ \/ SendsAgain(h)
           \/ \E stamp \in Stamp : SendsNew(h, name, floor[h], FALSE, stamp)
    <3>1. PICK pend, fl, over : pend = pending[h] /\ fl = floor[h] /\ over = FALSE
      OBVIOUS
    <3>2. Upload(h, name, pend, fl, over, next) /\ fl \in Nat /\ over \in BOOLEAN
      BY <1>0, <2>1, <3>1
    <3>3. run' = [run EXCEPT ![h] = next] /\ late' = late
      BY <3>2 DEF Upload, Send
    <3>4. SendsAgain(h) \/ \E stamp \in Stamp : SendsNew(h, name, fl, over, stamp)
      BY <2>3, <3>1, <3>2, UploadIs
    <3> QED BY <3>1, <3>3, <3>4
  <2>5. acked' = acked /\ up[h] /\ run[h] = Rest
    BY <1>1 DEF StartUpload, Unlocked
  <2>6. Aside
    BY <1>1, <2>4 DEF StartUpload, Aside
  <2>7. \E onto \in BOOLEAN :
              run' = [run EXCEPT ![h] = [pc |-> "first", onto |-> onto, todo |-> box[h]]]
    BY <2>0, <2>4
  <2> QED BY <2>3, <2>4, <2>5, <2>6, <2>7
<1>2. ASSUME NEW name \in OntoNames(h), StartOnto(h, name)
      PROVE  /\ Aside /\ acked' = acked /\ up[h] /\ run[h] = Rest
             /\ \E onto \in BOOLEAN :
                  run' = [run EXCEPT ![h] = [pc |-> "first", onto |-> onto, todo |-> box[h]]]
             /\ \/ SendsAgain(h)
                \/ \E over \in BOOLEAN, stamp \in Stamp :
                     SendsNew(h, name, floor[h], over, stamp)
             /\ name \in Name /\ Ground(h, name)
  <2>1. PICK next, over :
          /\ next = [pc |-> "first", onto |-> TRUE, todo |-> box[h]]
          /\ over = (name # Empty)
          /\ Upload(h, name, pending[h], floor[h], over, next)
    BY <1>2 DEF StartOnto
  <2>2. name \in Name /\ over \in BOOLEAN
    BY <1>0, <2>1 DEF OntoNames, Noted, AttemptType
  <2>3. Ground(h, name)
    <3>1. Current # Empty
      BY <1>2 DEF StartOnto
    <3>2. files # {} /\ files \subseteq File
      BY <3>1 DEF Current, NewestName, Types, CheckpointTypeOK, SlotTypeOK
    <3>3. Current.sha \in Bundle
      BY <3>2, NewestIsNewest DEF Current, NewestName, NameOf, File
    <3> QED BY <1>2, <3>3 DEF StartOnto, OntoNames, Ground
  <2>4. /\ run' = [run EXCEPT ![h] = next] /\ late' = late
        /\ \/ SendsAgain(h)
           \/ \E stamp \in Stamp : SendsNew(h, name, floor[h], over, stamp)
    <3>1. PICK pend, fl : pend = pending[h] /\ fl = floor[h]
      OBVIOUS
    <3>2. Upload(h, name, pend, fl, over, next) /\ fl \in Nat
      BY <1>0, <2>1, <3>1
    <3>3. run' = [run EXCEPT ![h] = next] /\ late' = late
      BY <3>2 DEF Upload, Send
    <3>4. SendsAgain(h) \/ \E stamp \in Stamp : SendsNew(h, name, fl, over, stamp)
      <4>1. CASE over = TRUE
        BY <2>2, <3>1, <3>2, <4>1, UploadIs
      <4>2. CASE over = FALSE
        BY <2>2, <3>1, <3>2, <4>2, UploadIs
      <4> QED BY <2>2, <4>1, <4>2
    <3> QED BY <3>1, <3>3, <3>4
  <2>5. acked' = acked /\ up[h] /\ run[h] = Rest
    BY <1>2 DEF StartOnto, Unlocked
  <2>6. Aside
    BY <1>2, <2>4 DEF StartOnto, Aside
  <2>7. \E onto \in BOOLEAN :
              run' = [run EXCEPT ![h] = [pc |-> "first", onto |-> onto, todo |-> box[h]]]
    BY <2>1, <2>4
  <2> QED BY <2>2, <2>3, <2>4, <2>5, <2>6, <2>7
<1> QED BY <1>1, <1>2 DEF Starts

LEMMA RebaseIs ==
  ASSUME Types, NEW h \in Client, Rebase(h)
  PROVE  /\ Aside /\ acked' = acked /\ run[h].pc = "first" /\ pending[h] # None
         /\ calls[h].phase = "answered"
         /\ run' = [run EXCEPT ![h] = [pc |-> "rebase", todo |-> run[h].todo]]
         /\ \E name \in Name, stamp \in Stamp :
              SendsNew(h, name, floor[h], FALSE, stamp) /\ Ground(h, name)
<1>1. calls[h].phase = "answered" /\ run[h].pc = "first" /\ pending[h] # None /\ acked' = acked
  BY DEF Rebase, Answered, Types, Attempting
<1>2. PICK name : name = calls[h].name
  OBVIOUS
<1>3. name \in Name
  BY <1>1, <1>2, AnsweredName DEF Types, CheckpointTypeOK, SlotTypeOK
<1>4. Ground(h, name)
  BY <1>2 DEF Rebase, Explains, Ground
<1>5. PICK next : /\ next = [pc |-> "rebase", todo |-> run[h].todo]
                  /\ Upload(h, name, None, floor[h], FALSE, next)
  BY <1>2 DEF Rebase
<1>6. floor[h] \in Nat
  BY DEF Types, CheckpointTypeOK
<1>7. /\ run' = [run EXCEPT ![h] = next] /\ late' = late
      /\ \E stamp \in Stamp : SendsNew(h, name, floor[h], FALSE, stamp)
  <2>1. PICK pend, fl, over : pend = None /\ fl = floor[h] /\ over = FALSE
    OBVIOUS
  <2>2. Upload(h, name, pend, fl, over, next) /\ fl \in Nat /\ over \in BOOLEAN
    BY <1>5, <1>6, <2>1
  <2> QED BY <1>3, <2>1, <2>2, UploadIs
<1>8. Aside
  BY <1>7 DEF Rebase, Aside
<1> QED BY <1>1, <1>3, <1>4, <1>5, <1>7, <1>8

AcceptedName(h) == [gen |-> calls[h].name.gen, sha |-> pending[h].sha]

LEMMA AcceptIs ==
  ASSUME Types, NEW h \in Client, Accept(h)
  PROVE  /\ Aside /\ run[h].pc \in {"first", "rebase", "extend"} /\ pending[h] \in AttemptType
         /\ calls[h].phase = "answered" /\ calls[h].status = 200
         /\ calls[h].name \in Name /\ AcceptedName(h) \in Name
         /\ acked' = [acked EXCEPT ![h] =
              LastN(Append(acked[h], [name |-> AcceptedName(h), content |-> pending[h].content]), RecordKeep)]
         /\ \/ /\ run' = [run EXCEPT ![h] = [pc |-> "extend", todo |-> run[h].todo]]
               /\ \E stamp \in Stamp :
                    SendsNew(h, AcceptedName(h), Max2(floor[h], calls[h].name.gen), FALSE, stamp)
            \/ /\ pending' = [pending EXCEPT ![h] = None]
               /\ floor' = [floor EXCEPT ![h] = Max2(floor[h], calls[h].name.gen)]
               /\ calls' = [calls EXCEPT ![h] = NoCall]
               /\ run' = [run EXCEPT ![h] =
                    IF Behind(h) THEN Rest
                    ELSE [pc |-> "wait", name |-> AcceptedName(h), todo |-> run[h].todo]]
<1>0. floor[h] \in Nat /\ run \in [Client -> Running] /\ acked \in [Client -> Seq(RecordLine)]
  BY DEF Types, CheckpointTypeOK
<1>1. /\ calls[h].phase = "answered" /\ calls[h].status = 200
      /\ run[h].pc \in {"first", "rebase", "extend"}
      /\ pending[h] # None
  BY DEF Accept, Answered, Types, Attempting
<1>2. pending[h] \in AttemptType /\ calls[h].name \in Name
  BY <1>1, AnsweredName DEF Types, CheckpointTypeOK, SlotTypeOK, Noted
<1>3. PICK name, fl : name = AcceptedName(h) /\ fl = Max2(floor[h], calls[h].name.gen)
  OBVIOUS
<1>4. name.gen = calls[h].name.gen /\ name \in Name /\ fl \in Nat
  BY <1>0, <1>2, <1>3 DEF AcceptedName, Name, AttemptType, Max2
<1>5. acked' = [acked EXCEPT ![h] =
              LastN(Append(acked[h], [name |-> name, content |-> pending[h].content]), RecordKeep)]
  BY <1>0, <1>3 DEF Accept, WhatWasSent, AcceptedName
<1>6. CASE Behind(h) /\ ~Refused(h, None, name)
  <2>1. PICK next : /\ next = [pc |-> "extend", todo |-> run[h].todo]
                    /\ Upload(h, name, None, fl, FALSE, next)
    BY <1>3, <1>4, <1>6 DEF Accept, AcceptedName
  <2>2. /\ run' = [run EXCEPT ![h] = next] /\ late' = late
        /\ \E stamp \in Stamp : SendsNew(h, name, fl, FALSE, stamp)
    <3>1. PICK pend, over : pend = None /\ over = FALSE
      OBVIOUS
    <3>2. Upload(h, name, pend, fl, over, next) /\ over \in BOOLEAN
      BY <2>1, <3>1
    <3> QED BY <1>4, <3>1, <3>2, UploadIs
  <2>3. Aside
    BY <2>2 DEF Accept, Aside
  <2> QED BY <1>1, <1>2, <1>3, <1>4, <1>5, <2>1, <2>2, <2>3
<1>7. CASE ~(Behind(h) /\ ~Refused(h, None, name))
  <2>1. /\ pending' = [pending EXCEPT ![h] = None]
        /\ floor' = [floor EXCEPT ![h] = fl]
        /\ calls' = [calls EXCEPT ![h] = NoCall]
        /\ UNCHANGED late
        /\ run' = [run EXCEPT ![h] =
             IF Behind(h) THEN Rest ELSE [pc |-> "wait", name |-> name, todo |-> @.todo]]
    BY <1>3, <1>4, <1>7 DEF Accept, AcceptedName
  <2>2. Aside
    BY <2>1 DEF Accept, Aside
  <2>3. run' = [run EXCEPT ![h] =
             IF Behind(h) THEN Rest ELSE [pc |-> "wait", name |-> name, todo |-> run[h].todo]]
    BY <1>0, <2>1
  <2> QED BY <1>1, <1>2, <1>3, <1>4, <1>5, <2>1, <2>2, <2>3
<1> QED BY <1>6, <1>7
LEMMA UploadsAside ==
  ASSUME Aside
  PROVE  Filed' = Filed /\ Held' = Held /\ Delayed' = Delayed
BY DEF Aside, server, supervisor, Filed, Held, Delayed

LEMMA UploadsAgain ==
  ASSUME Types, NEW h \in Client, SendsAgain(h), Aside
  PROVE  Uploads' \subseteq Uploads
<1>1. Noting' = Noting
  BY DEF SendsAgain, Noting
<1>2. PICK a, r : a = pending[h] /\ r = RequestOf(a)
  OBVIOUS
<1>3. r.sha = a.sha /\ r.expect = a.expect
  BY <1>2 DEF RequestOf
<1>4. Upl(r.sha, r.expect) \in Noting
  BY <1>2, <1>3 DEF SendsAgain, Noting
<1>5. calls' = [calls EXCEPT ![h] = Sent(r)]
  BY <1>2 DEF SendsAgain
<1>6. \A k \in Client : calls'[k].phase = "sent" => calls'[k] = calls[k] \/ calls'[k].req = r
  BY <1>5 DEF Sent, Types, CheckpointTypeOK, SlotTypeOK
<1>7. OnTheWay' \subseteq OnTheWay \cup Noting
  BY <1>4, <1>6 DEF OnTheWay
<1> QED BY <1>1, <1>7, UploadsAside DEF Uploads

\* A holder makes an upload: on a ground, under a number above its floor.
Makes(h, name, fl, over, stamp) ==
  /\ name \in Name /\ fl \in Nat /\ fl >= floor[h]
  /\ over \in BOOLEAN /\ stamp \in Stamp
  /\ Ground(h, name)
  /\ SendsNew(h, name, fl, over, stamp)
  /\ Aside

LEMMA UploadsNew ==
  ASSUME Types, NEW h \in Client, NEW name, NEW fl, NEW over, NEW stamp, Makes(h, name, fl, over, stamp)
  PROVE  Uploads' \subseteq Uploads \cup {Upl(Attempt(h, name, fl, over, stamp).sha, name)}
<1>1. PICK a, r : a = Attempt(h, name, fl, over, stamp) /\ r = RequestOf(a)
  OBVIOUS
<1>2. a.expect = name /\ r.sha = a.sha /\ r.expect = a.expect
  <2>1. /\ a.expect = name /\ a.content = ContentOf(h) /\ Known(a.sha) = a.content
        /\ RequestOf(a).sha = a.sha /\ RequestOf(a).expect = a.expect
    <3>1. name \in Name /\ fl \in Nat /\ over \in BOOLEAN /\ stamp \in Stamp
      BY DEF Makes
    <3> QED BY <1>1, <3>1, AttemptIs
  <2> QED BY <1>1, <2>1
<1>3. pending' = [pending EXCEPT ![h] = a] /\ calls' = [calls EXCEPT ![h] = Sent(r)]
  BY <1>1 DEF Makes, SendsNew
<1>4. Noting' \subseteq Noting \cup {Upl(a.sha, name)}
  <2>1. \A k \in Client : pending'[k] = pending[k] \/ pending'[k] = a
    BY <1>3 DEF Types, CheckpointTypeOK
  <2> QED BY <1>2, <2>1 DEF Noting
<1>5. OnTheWay' \subseteq OnTheWay \cup {Upl(a.sha, name)}
  <2>1. \A k \in Client : calls'[k].phase = "sent" => calls'[k] = calls[k] \/ calls'[k].req = r
    BY <1>3 DEF Sent, Types, CheckpointTypeOK, SlotTypeOK
  <2> QED BY <1>2, <2>1 DEF OnTheWay
<1> QED BY <1>1, <1>4, <1>5, UploadsAside DEF Uploads, Makes

\* A command that ends, or a disk that is lost.
LEMMA UploadsLess ==
  ASSUME Types, NEW h \in Client,
         UNCHANGED <<files, outside, old>>,
         pending' = pending \/ pending' = [pending EXCEPT ![h] = None],
         \/ Abandon(h)
         \/ calls' = [calls EXCEPT ![h] = NoCall] /\ UNCHANGED <<hand, late>>
  PROVE  Uploads' \subseteq Uploads
<1>1. Noting' \subseteq Noting
  BY DEF Noting, Types, CheckpointTypeOK
<1>2. calls' = [calls EXCEPT ![h] = NoCall]
  BY DEF Abandon
<1>3. \A k \in Client : calls'[k].phase = "sent" => calls'[k] = calls[k]
  BY <1>2 DEF NoCall, Types, CheckpointTypeOK, SlotTypeOK
<1>4. OnTheWay' \subseteq OnTheWay
  BY <1>3 DEF OnTheWay
<1>5. Delayed' \subseteq Delayed \cup OnTheWay
  <2>1. late' = late \/ (calls[h].phase = "sent" /\ late' = late \cup {calls[h].req})
    BY DEF Abandon
  <2> QED BY <2>1 DEF Delayed, OnTheWay
<1>6. Held' \subseteq Held
  <2>1. CASE hand = Idle
    <3>1. hand' = Idle
      BY <2>1, SlotAssumption DEF Abandon, Idle
    <3> QED BY <3>1 DEF Held
  <2>2. CASE hand # Idle
    <3>1. hand \in [from : Client \cup {Nobody}, file : File]
      BY <2>2, HandFile DEF Types, CheckpointTypeOK
    <3>2. hand' = hand \/ hand' = [hand EXCEPT !.from = Nobody]
      BY DEF Abandon
    <3>3. hand'.file = hand.file
      BY <3>1, <3>2
    <3> QED BY <2>2, <3>3 DEF Held
  <2> QED BY <2>1, <2>2
<1>7. Filed' = Filed
  BY DEF Filed
<1> QED BY <1>1, <1>4, <1>5, <1>6, <1>7 DEF Uploads

\* What a holder does: it makes an upload, or its step makes none.
LEMMA HolderMakes ==
  ASSUME Types, NEW h \in Client, HolderStep(h)
  PROVE  Uploads' \subseteq Uploads \/ \E name, fl, over, stamp : Makes(h, name, fl, over, stamp)
<1>0. floor[h] \in Nat
  BY DEF Types, CheckpointTypeOK
<1>1. ASSUME UNCHANGED <<slotVars, pending>> PROVE Uploads' = Uploads
  BY <1>1 DEF Uploads, Noting, OnTheWay, Delayed, Filed, Held, slotVars
<1>2. CASE \/ \E e \in Entry : Write(h, e) \/ Export(h, e)
           \/ LoseBox(h) \/ StartWaiting(h) \/ Ready(h) \/ StopWaiting(h)
           \/ Fetch(h) \/ FetchChosen(h) \/ Restore(h) \/ RestoreTorn(h) \/ AbandonRestore(h)
           \/ \E n \in 1 .. MaxGeneration : Witness(h, n)
  BY <1>1, <1>2 DEF Write, Export, LoseBox, StartWaiting, Ready, StopWaiting, Fetch, FetchChosen,
     Restore, RestoreTorn, AbandonRestore, Witness, PutInPlace, record
<1>3. CASE Stop(h) \/ Break(h) \/ GiveUp(h) \/ Wipe(h)
  BY <1>3, UploadsLess DEF Stop, Break, GiveUp, Wipe, server, supervisor, record
<1>4. CASE Starts(h)
  <2>1. CASE SendsAgain(h)
    BY <1>4, <2>1, StartsIs, UploadsAgain
  <2>2. CASE \E name \in Name, over \in BOOLEAN, stamp \in Stamp :
                SendsNew(h, name, floor[h], over, stamp) /\ Ground(h, name)
    <3>1. PICK fl : fl = floor[h]
      OBVIOUS
    <3>2. \E name \in Name, over \in BOOLEAN, stamp \in Stamp : Makes(h, name, fl, over, stamp)
      BY <1>0, <1>4, <2>2, <3>1, StartsIs DEF Makes
    <3> QED BY <3>2
  <2> QED BY <1>4, <2>1, <2>2, StartsIs
<1>5. CASE Rebase(h)
  <2>1. PICK fl, over : fl = floor[h] /\ over = FALSE
    OBVIOUS
  <2>2. \E name \in Name, stamp \in Stamp : Makes(h, name, fl, over, stamp)
    <3>1. PICK name \in Name, stamp \in Stamp :
             SendsNew(h, name, floor[h], FALSE, stamp) /\ Ground(h, name)
      BY <1>5, RebaseIs
    <3>2. Aside
      BY <1>5, RebaseIs
    <3>3. over \in BOOLEAN
      BY <2>1, Zenon
    <3>4. SendsNew(h, name, fl, over, stamp)
      BY <2>1, <3>1, Zenon
    <3>5. fl \in Nat /\ fl >= floor[h]
      BY <1>0, <2>1
    <3>6. Makes(h, name, fl, over, stamp)
      BY <3>1, <3>2, <3>3, <3>4, <3>5 DEF Makes
    <3> QED BY <3>6
  <2> QED BY <2>2
<1>6. CASE Accept(h)
  <2>1. CASE \E stamp \in Stamp :
                SendsNew(h, AcceptedName(h), Max2(floor[h], calls[h].name.gen), FALSE, stamp)
    <3>1. PICK name, fl, over : /\ name = AcceptedName(h) /\ over = FALSE
                                /\ fl = Max2(floor[h], calls[h].name.gen)
      OBVIOUS
    <3>2. calls[h].name.gen \in Nat /\ name \in Name
      BY <1>6, <3>1, AcceptIs DEF Name
    <3>3. fl \in Nat /\ fl >= floor[h]
      BY <1>0, <3>1, <3>2 DEF Max2
    <3>4. Ground(h, name)
      <4>1. pending[h] # None
        BY <1>6 DEF Accept, Answered, Types, Attempting
      <4> QED BY <3>1, <4>1 DEF Ground, AcceptedName
    <3>5. \E stamp \in Stamp : Makes(h, name, fl, over, stamp)
      BY <1>6, <2>1, <3>1, <3>2, <3>3, <3>4, AcceptIs DEF Makes
    <3> QED BY <3>5
  <2>2. CASE /\ pending' = [pending EXCEPT ![h] = None]
             /\ calls' = [calls EXCEPT ![h] = NoCall]
    <3>1. Aside
      BY <1>6, AcceptIs
    <3> QED BY <2>2, <3>1, UploadsLess DEF Aside, server, supervisor
  <2> QED BY <1>6, <2>1, <2>2, AcceptIs
<1> QED BY <1>2, <1>3, <1>4, <1>5, <1>6 DEF HolderStep, Starts
\* The steps of a holder leave the ledgers, records and commands of others alone.
LEMMA OthersStay ==
  ASSUME Types, NEW h \in Client, HolderStep(h), NEW k \in Client, k # h
  PROVE  /\ up'[k] = up[k] /\ events'[k] = events[k] /\ box'[k] = box[k]
         /\ acked'[k] = acked[k] /\ pending'[k] = pending[k] /\ floor'[k] = floor[k]
         /\ run'[k] = run[k] /\ restoring'[k] = restoring[k] /\ calls'[k] = calls[k]
<1>0. /\ up = [c \in Client |-> up[c]] /\ events = [c \in Client |-> events[c]]
      /\ box = [c \in Client |-> box[c]] /\ acked = [c \in Client |-> acked[c]]
      /\ pending = [c \in Client |-> pending[c]] /\ floor = [c \in Client |-> floor[c]]
      /\ run = [c \in Client |-> run[c]] /\ restoring = [c \in Client |-> restoring[c]]
      /\ calls = [c \in Client |-> calls[c]]
  BY DEF Types, CheckpointTypeOK, SlotTypeOK
<1>1. CASE \/ \E e \in Entry : Write(h, e) \/ Export(h, e)
           \/ LoseBox(h) \/ StartWaiting(h) \/ Ready(h) \/ StopWaiting(h)
  BY <1>0, <1>1 DEF Write, Export, LoseBox, StartWaiting, Ready, StopWaiting, slotVars, record, ledger
<1>2. CASE \/ Fetch(h) \/ FetchChosen(h) \/ AbandonRestore(h)
           \/ \E n \in 1 .. MaxGeneration : Witness(h, n)
  BY <1>0, <1>2 DEF Fetch, FetchChosen, AbandonRestore, Witness, slotVars, record, ledger
<1>3. CASE Restore(h) \/ RestoreTorn(h)
  BY <1>0, <1>3 DEF Restore, RestoreTorn, PutInPlace, slotVars
<1>4. CASE Stop(h) \/ Break(h) \/ GiveUp(h)
  BY <1>0, <1>4 DEF Stop, Break, GiveUp, Abandon, record, ledger
<1>5. CASE Wipe(h)
  BY <1>0, <1>5 DEF Wipe, Abandon
<1>6. ASSUME Aside,
             SendsAgain(h) \/ \E name, fl, over, stamp : SendsNew(h, name, fl, over, stamp),
             acked'[k] = acked[k], \E next : run' = [run EXCEPT ![h] = next]
      PROVE  /\ up'[k] = up[k] /\ events'[k] = events[k] /\ box'[k] = box[k]
             /\ acked'[k] = acked[k] /\ pending'[k] = pending[k] /\ floor'[k] = floor[k]
             /\ run'[k] = run[k] /\ restoring'[k] = restoring[k] /\ calls'[k] = calls[k]
  <2>1. pending'[k] = pending[k] /\ floor'[k] = floor[k] /\ calls'[k] = calls[k]
    BY <1>0, <1>6 DEF SendsAgain, SendsNew
  <2>2. run'[k] = run[k]
    BY <1>0, <1>6
  <2> QED BY <1>6, <2>1, <2>2 DEF Aside, ledger
<1>7. CASE Starts(h)
  BY <1>6, <1>7, StartsIs
<1>8. CASE Rebase(h)
  BY <1>6, <1>8, RebaseIs
<1>9. CASE Accept(h)
  <2>1. acked'[k] = acked[k]
    <3>1. PICK s : s = LastN(Append(acked[h], [name |-> AcceptedName(h), content |-> pending[h].content]), RecordKeep)
      OBVIOUS
    <3>2. acked' = [acked EXCEPT ![h] = s]
      BY <1>9, <3>1, AcceptIs
    <3> QED BY <1>0, <3>2
  <2>5. \E next : run' = [run EXCEPT ![h] = next]
    <3>1. PICK a, b : /\ a = [pc |-> "extend", todo |-> run[h].todo]
                      /\ b = IF Behind(h) THEN Rest
                             ELSE [pc |-> "wait", name |-> AcceptedName(h), todo |-> run[h].todo]
      OBVIOUS
    <3>2. run' = [run EXCEPT ![h] = a] \/ run' = [run EXCEPT ![h] = b]
      BY <1>9, <3>1, AcceptIs
    <3> QED BY <3>2
  <2>2. Aside
    BY <1>9, AcceptIs
  <2>3. CASE \E stamp \in Stamp :
                SendsNew(h, AcceptedName(h), Max2(floor[h], calls[h].name.gen), FALSE, stamp)
    <3>2. \E name, fl, over, stamp : SendsNew(h, name, fl, over, stamp)
      BY <2>3
    <3> QED BY <1>6, <2>1, <2>2, <2>5, <3>2
  <2>4. CASE /\ pending' = [pending EXCEPT ![h] = None]
             /\ floor' = [floor EXCEPT ![h] = Max2(floor[h], calls[h].name.gen)]
             /\ calls' = [calls EXCEPT ![h] = NoCall]
    <3> QED BY <1>0, <2>1, <2>2, <2>4, <2>5 DEF Aside, ledger
  <2> QED BY <1>9, <2>3, <2>4, AcceptIs
<1> QED BY <1>1, <1>2, <1>3, <1>4, <1>5, <1>7, <1>8, <1>9 DEF HolderStep, Starts
-----------------------------------------------------------------------------
(* A generation continues the one it was put on, as long as no outbox is    *)
(* set back: a ledger only grows, and what its record says of a generation  *)
(* is what is in the bundle.                                                *)

Onto(u) == u.name = Empty \/ (u.name.sha \in Bundle /\ Extends(u.sha, u.name.sha))

OntoInv == \A u \in Uploads : Onto(u)

LineHolds(h, a) ==
  /\ a.name.sha \in Bundle
  /\ a.content = Known(a.name.sha)
  /\ Extends(ContentOf(h), a.content)

RecordHolds(h) ==
  /\ ~up[h] => acked[h] = <<>> /\ pending[h] = None
  /\ restoring[h] # None => ~up[h]
  /\ pending[h] # None => /\ pending[h].content = Known(pending[h].sha)
                          /\ Extends(ContentOf(h), pending[h].content)
  /\ \A a \in ToSet(acked[h]) : LineHolds(h, a)

RecordInv == \A h \in Client : RecordHolds(h)

LEMMA OntoInit == Init => OntoInv /\ RecordInv
<1> SUFFICES ASSUME Init PROVE OntoInv /\ RecordInv
  OBVIOUS
<1>1. Uploads = {}
  BY DEF Init, SlotInit, Uploads, Noting, OnTheWay, Delayed, Filed, Held, NoCall
<1>2. \A h \in Client : acked[h] = <<>> /\ pending[h] = None /\ restoring[h] = None
  BY DEF Init
<1>3. ToSet(<<>>) = {}
  BY DEF ToSet
<1> QED BY <1>1, <1>2, <1>3 DEF OntoInv, RecordInv, RecordHolds

LEMMA BundleHasContent == ASSUME NEW b \in Bundle PROVE HasContent(b)
BY DEF Bundle, HasContent

LEMMA KnownType == ASSUME NEW b \in Bundle PROVE Known(b) \in Content /\ HasContent(Known(b))
BY DEF Bundle, Known, Content, HasContent

\* A ledger and an outbox grow, unless a disk is lost or an outbox set back.
LEMMA ContentGrows ==
  ASSUME Types, MaxBoxLosses = 0, NEW h \in Client, HolderStep(h),
         ~Wipe(h), ~Restore(h), ~RestoreTorn(h)
  PROVE  HasContent(ContentOf(h)) /\ HasContent(ContentOf(h)') /\ Extends(ContentOf(h)', ContentOf(h))
<1>1. /\ events \in [Client -> Seq(Entry)] /\ box \in [Client -> Seq(Entry)]
      /\ events' \in [Client -> Seq(Entry)] /\ box' \in [Client -> Seq(Entry)]
  BY TypesStep DEF Types, CheckpointTypeOK, Next
<1>2. PICK e, b, e2, b2 : e = events[h] /\ b = box[h] /\ e2 = events'[h] /\ b2 = box'[h]
  OBVIOUS
<1>3. e \in Seq(Entry) /\ b \in Seq(Entry) /\ e2 \in Seq(Entry) /\ b2 \in Seq(Entry)
  BY <1>1, <1>2
<1>4. PICK x, y : x = [events |-> e, box |-> b] /\ y = [events |-> e2, box |-> b2]
  OBVIOUS
<1>5. x = ContentOf(h) /\ y = ContentOf(h)' /\ HasContent(x) /\ HasContent(y)
  BY <1>2, <1>3, <1>4 DEF ContentOf, HasContent
<1>6. x.events = e /\ x.box = b /\ y.events = e2 /\ y.box = b2
  BY <1>4
<1>7. e2 = e \/ \E l \in Entry : e2 = Append(e, l)
  BY <1>1, <1>2 DEF HolderStep, Write, Export, LoseBox, StartWaiting, StartUpload, StartOnto, Accept,
     Rebase, Stop, GiveUp, Break, Ready, StopWaiting, Fetch, FetchChosen, AbandonRestore, Witness, ledger
<1>8. b2 = b \/ \E l \in Entry : b2 = Append(b, l)
  <2>1. ~LoseBox(h)
    BY DEF LoseBox, Types, CheckpointTypeOK
  <2> QED BY <1>1, <1>2, <2>1 DEF HolderStep, Write, Export, StartWaiting, StartUpload, StartOnto, Accept,
     Rebase, Stop, GiveUp, Break, Ready, StopWaiting, Fetch, FetchChosen, AbandonRestore, Witness, ledger
<1>9. \A s \in Seq(Entry) : \A l \in Entry :
        Len(s) <= Len(Append(s, l)) /\ \A i \in 1 .. Len(s) : s[i] = Append(s, l)[i]
  OBVIOUS
<1>10. Len(e) <= Len(e2) /\ \A i \in 1 .. Len(e) : e[i] = e2[i]
  <2>1. Len(e) \in Nat
    BY <1>3
  <2> QED BY <1>3, <1>7, <1>9, <2>1
<1>11. Len(b) <= Len(b2) /\ \A i \in 1 .. Len(b) : b[i] = b2[i]
  <2>1. Len(b) \in Nat
    BY <1>3
  <2> QED BY <1>3, <1>8, <1>9, <2>1
<1>12. Extends(y, x)
  BY <1>5, <1>6, <1>10, <1>11, ExtendsIs
<1> QED BY <1>5, <1>12
LEMMA OntoMakes ==
  ASSUME Types, OntoInv, RecordInv,
         NEW h \in Client, NEW name, NEW fl, NEW over, NEW stamp, Makes(h, name, fl, over, stamp)
  PROVE  Onto(Upl(Attempt(h, name, fl, over, stamp).sha, name))
<1>1. PICK b : b = Attempt(h, name, fl, over, stamp).sha
  OBVIOUS
<1>2. name \in Name /\ fl \in Nat /\ over \in BOOLEAN /\ stamp \in Stamp /\ Ground(h, name)
  BY DEF Makes
<1>3. PICK c : c = ContentOf(h)
  OBVIOUS
<1>4. c.events = events[h] /\ c.box = box[h] /\ b.events = events[h] /\ b.box = box[h]
  <2>1. Attempt(h, name, fl, over, stamp).sha.events = events[h] /\ Attempt(h, name, fl, over, stamp).sha.box = box[h]
    BY <1>2, AttemptIs
  <2> QED BY <1>1, <1>3, <2>1 DEF ContentOf
<1>5. \A y : Extends(b, y) <=> Extends(c, y)
  BY <1>4 DEF Extends
<1>6. HasContent(c)
  BY <1>3, ContentType DEF Content, HasContent, Types
<1>7. \A y : Extends(c, Known(y)) => Extends(c, y)
  BY DEF Extends, Known
<1>8. CASE name # Empty
  <2>1. CASE WasAcked(h, name)
    <3>1. PICK a \in ToSet(acked[h]) : a.name = name
      BY <2>1 DEF WasAcked
    <3>2. a.name.sha \in Bundle /\ a.content = Known(a.name.sha) /\ Extends(c, a.content)
      BY <1>3 DEF RecordInv, RecordHolds, LineHolds
    <3> QED BY <1>1, <1>5, <1>7, <3>1, <3>2 DEF Onto, Upl
  <2>2. CASE name.sha \in Bundle /\ Extends(ContentOf(h), Known(name.sha))
    BY <1>1, <1>3, <1>5, <1>7, <2>2 DEF Onto, Upl
  <2>3. ASSUME pending[h] # None
        PROVE  /\ pending[h].sha \in Bundle /\ Extends(c, pending[h].sha)
               /\ Upl(pending[h].sha, pending[h].expect) \in Uploads
    <3>1. pending[h] \in AttemptType
      BY <2>3 DEF Types, CheckpointTypeOK, Noted
    <3>2. Extends(c, Known(pending[h].sha))
      BY <1>3, <2>3 DEF RecordInv, RecordHolds
    <3>3. Upl(pending[h].sha, pending[h].expect) \in Noting
      BY <2>3 DEF Noting
    <3> QED BY <1>7, <3>1, <3>2, <3>3 DEF AttemptType, Uploads
  <2>4. CASE pending[h] # None /\ name = pending[h].expect
    <3>1. PICK u : u = Upl(pending[h].sha, name)
      OBVIOUS
    <3>2. u \in Uploads /\ u.sha = pending[h].sha /\ u.name = name
      BY <2>3, <2>4, <3>1 DEF Upl
    <3>3. name.sha \in Bundle /\ Extends(u.sha, name.sha)
      BY <1>8, <3>2 DEF OntoInv, Onto
    <3>4. PICK p, q : p = u.sha /\ q = name.sha
      OBVIOUS
    <3>5. p \in Bundle /\ q \in Bundle /\ Extends(p, q) /\ Extends(c, p)
      BY <2>3, <2>4, <3>2, <3>3, <3>4
    <3>6. Extends(c, q)
      BY <1>6, <3>5, BundleHasContent, ExtendsThrough
    <3> QED BY <1>1, <1>5, <3>4, <3>5, <3>6 DEF Onto, Upl
  <2>5. CASE pending[h] # None /\ name.sha = pending[h].sha
    BY <1>1, <1>5, <2>3, <2>5 DEF Onto, Upl
  <2> QED BY <1>2, <1>8, <2>1, <2>2, <2>4, <2>5 DEF Ground
<1>9. CASE name = Empty
  BY <1>9 DEF Onto, Upl
<1> QED BY <1>8, <1>9

LEMMA OntoStep ==
  ASSUME Types, OntoInv, RecordInv, [Next]_vars
  PROVE  OntoInv'
<1>1. ASSUME Uploads' \subseteq Uploads PROVE OntoInv'
  <2>1. \A u : Onto(u)' <=> Onto(u)
    BY DEF Onto
  <2> QED BY <1>1, <2>1 DEF OntoInv
<1>2. CASE SlotStep
  BY <1>1, <1>2, UploadsSlot
<1>3. ASSUME NEW h \in Client, HolderStep(h) PROVE OntoInv'
  <2>1. ASSUME NEW name, NEW fl, NEW over, NEW stamp, Makes(h, name, fl, over, stamp) PROVE OntoInv'
    <3>1. PICK u : u = Upl(Attempt(h, name, fl, over, stamp).sha, name)
      OBVIOUS
    <3>2. Uploads' \subseteq Uploads \cup {u} /\ Onto(u)
      BY <2>1, <3>1, UploadsNew, OntoMakes
    <3> QED BY <3>2 DEF OntoInv, Onto
  <2> QED BY <1>1, <1>3, <2>1, HolderMakes
<1>4. CASE UNCHANGED vars
  <2>1. Uploads' = Uploads
    BY <1>4 DEF vars, slotVars, Uploads, Noting, OnTheWay, Delayed, Filed, Held
  <2> QED BY <1>1, <2>1
<1> QED BY <1>2, <1>3, <1>4 DEF Next
LEMMA AckedContent ==
  ASSUME Types, NEW h \in Client, NEW a \in ToSet(acked[h])
  PROVE  a \in RecordLine /\ HasContent(a.content)
<1>1. acked[h] \in Seq(RecordLine)
  BY DEF Types, CheckpointTypeOK
<1>2. a \in RecordLine
  BY <1>1 DEF ToSet
<1> QED BY <1>2 DEF RecordLine, Content, HasContent

\* What is known stays a part of a ledger that grows.
LEMMA RecordGrows ==
  ASSUME Types, MaxBoxLosses = 0, RecordInv, NEW h \in Client, HolderStep(h),
         ~Wipe(h), ~Restore(h), ~RestoreTorn(h)
  PROVE  /\ pending[h] # None => Extends(ContentOf(h)', pending[h].content)
         /\ \A a \in ToSet(acked[h]) : Extends(ContentOf(h)', a.content)
         /\ Extends(ContentOf(h)', ContentOf(h))
<1>1. PICK x, y : x = ContentOf(h) /\ y = ContentOf(h)'
  OBVIOUS
<1>2. HasContent(x) /\ HasContent(y) /\ Extends(y, x)
  BY <1>1, ContentGrows
<1>3. ASSUME NEW c, HasContent(c), Extends(x, c) PROVE Extends(y, c)
  BY <1>2, <1>3, ExtendsThrough
<1>4. ASSUME pending[h] # None PROVE HasContent(pending[h].content) /\ Extends(x, pending[h].content)
  <2>1. pending[h] \in AttemptType
    BY <1>4 DEF Types, CheckpointTypeOK, Noted
  <2> QED BY <1>1, <1>4, <2>1 DEF AttemptType, Content, HasContent, RecordInv, RecordHolds
<1>5. ASSUME NEW a \in ToSet(acked[h]) PROVE HasContent(a.content) /\ Extends(x, a.content)
  BY <1>1, AckedContent DEF RecordInv, RecordHolds, LineHolds
<1> QED BY <1>1, <1>2, <1>3, <1>4, <1>5

\* accept() adds one line to the record file.
LEMMA AcceptedLines ==
  ASSUME Types, NEW h \in Client, Accept(h), NEW a \in ToSet(acked'[h])
  PROVE  \/ a \in ToSet(acked[h])
         \/ a = [name |-> AcceptedName(h), content |-> pending[h].content]
<1>1. PICK line, n : line = [name |-> AcceptedName(h), content |-> pending[h].content] /\ n = RecordKeep
  OBVIOUS
<1>2. acked' = [acked EXCEPT ![h] = LastN(Append(acked[h], line), n)]
  BY <1>1, AcceptIs
<1>3. acked[h] \in Seq(RecordLine) /\ acked \in [Client -> Seq(RecordLine)] /\ n \in Nat
  BY <1>1, CheckpointAssumption DEF Types, CheckpointTypeOK
<1>4. line \in RecordLine
  <2>1. pending[h] \in AttemptType /\ AcceptedName(h) \in Name
    BY AcceptIs
  <2> QED BY <1>1, <2>1 DEF AttemptType, RecordLine
<1>5. PICK s : s = Append(acked[h], line)
  OBVIOUS
<1>6. s \in Seq(RecordLine) /\ ToSet(s) = ToSet(acked[h]) \cup {line}
  BY <1>3, <1>4, <1>5, ToSetAppended
<1>7. acked'[h] = LastN(s, n)
  BY <1>2, <1>3, <1>5
<1>8. ToSet(LastN(s, n)) \subseteq ToSet(s)
  BY <1>3, <1>6, LastNIsPart
<1> QED BY <1>1, <1>6, <1>7, <1>8

LEMMA RecordAccept ==
  ASSUME Types, RecordInv, NEW h \in Client, Accept(h)
  PROVE  /\ up'[h] /\ restoring'[h] = restoring[h] /\ pending[h] # None
         /\ \A a \in ToSet(acked'[h]) :
              \/ a \in ToSet(acked[h])
              \/ a = [name |-> AcceptedName(h), content |-> pending[h].content]
<1>1. pending[h] # None
  BY DEF Accept, Answered, Types, Attempting
<1>2. up'[h] /\ restoring'[h] = restoring[h]
  BY <1>1, AcceptIs DEF RecordInv, RecordHolds, Aside, ledger
<1> QED BY <1>1, <1>2, AcceptedLines

LEMMA RecordStep ==
  ASSUME Types, MaxBoxLosses = 0, RecordInv, [Next]_vars
  PROVE  RecordInv'
<1>1. ASSUME NEW k \in Client,
             up'[k] = up[k], events'[k] = events[k], box'[k] = box[k],
             acked'[k] = acked[k], pending'[k] = pending[k], restoring'[k] = restoring[k]
      PROVE  RecordHolds(k)'
  BY <1>1 DEF RecordInv, RecordHolds, LineHolds, ContentOf
<1>2. CASE SlotStep
  BY <1>1, <1>2 DEF SlotStep, ledger, record, RecordInv
<1>3. CASE UNCHANGED vars
  BY <1>1, <1>3 DEF vars, RecordInv
<1>4. ASSUME NEW h \in Client, HolderStep(h) PROVE RecordHolds(h)'
  <2>0. /\ RecordHolds(h)
        /\ up = [c \in Client |-> up[c]] /\ events = [c \in Client |-> events[c]]
        /\ box = [c \in Client |-> box[c]] /\ acked = [c \in Client |-> acked[c]]
        /\ pending = [c \in Client |-> pending[c]] /\ restoring = [c \in Client |-> restoring[c]]
        /\ ToSet(<<>>) = {}
    BY DEF Types, CheckpointTypeOK, RecordInv, ToSet
  <2>1. CASE Wipe(h)
    <3>1. up'[h] = FALSE /\ acked'[h] = <<>> /\ pending'[h] = None
      BY <2>0, <2>1 DEF Wipe
    <3> QED BY <2>0, <3>1 DEF RecordHolds
  <2>2. CASE Restore(h) \/ RestoreTorn(h)
    <3>1. restoring[h] # None /\ pending' = pending /\ up' = [up EXCEPT ![h] = TRUE]
          /\ restoring' = [restoring EXCEPT ![h] = None]
      BY <2>2 DEF Restore, RestoreTorn, PutInPlace
    <3>2. up'[h] /\ restoring'[h] = None
      BY <2>0, <3>1
    <3>3. ~up[h] /\ acked[h] = <<>> /\ pending'[h] = None
      BY <2>0, <3>1 DEF RecordHolds
    <3>4. ASSUME NEW a \in ToSet(acked'[h]) PROVE LineHolds(h, a)'
      <4>1. CASE RestoreTorn(h)
        BY <2>0, <3>3, <3>4, <4>1 DEF RestoreTorn
      <4>2. CASE Restore(h)
        <5>1. PICK b : b = restoring[h].name.sha
          OBVIOUS
        <5>2. restoring[h] \in Fetching
          BY <3>1 DEF Types, CheckpointTypeOK
        <5>3. b \in Bundle
          BY <5>1, <5>2 DEF Fetching
        <5>4. acked'[h] = <<[name |-> restoring[h].name, content |-> Known(b)]>>
          BY <2>0, <4>2, <5>1 DEF Restore
        <5>5. a.name = restoring[h].name /\ a.content = Known(b)
          BY <3>4, <5>4 DEF ToSet
        <5>6. events'[h] = b.events /\ box'[h] = b.box
          BY <2>0, <4>2, <5>1 DEF Restore, PutInPlace
        <5>7. ContentOf(h)' = Known(b)
          BY <5>6 DEF ContentOf, Known
        <5>8. Extends(Known(b), Known(b))
          BY <5>3, KnownType, ExtendsItself
        <5> QED BY <5>1, <5>3, <5>5, <5>7, <5>8 DEF LineHolds
      <4> QED BY <2>2, <4>1, <4>2
    <3> QED BY <3>2, <3>3, <3>4 DEF RecordHolds
  <2>3. ASSUME ~Wipe(h), ~Restore(h), ~RestoreTorn(h)
        PROVE  RecordHolds(h)'
    <3>1. /\ pending[h] # None => Extends(ContentOf(h)', pending[h].content)
          /\ \A a \in ToSet(acked[h]) : Extends(ContentOf(h)', a.content)
          /\ Extends(ContentOf(h)', ContentOf(h))
      BY <1>4, <2>3, RecordGrows
    <3>2. ASSUME up'[h] = up[h], acked'[h] = acked[h], pending'[h] = pending[h] \/ pending'[h] = None,
                 restoring'[h] # None => ~up[h]
          PROVE  RecordHolds(h)'
      <4>1. ~up'[h] => acked'[h] = <<>> /\ pending'[h] = None
        BY <2>0, <3>2 DEF RecordHolds
      <4>2. pending'[h] # None => /\ pending'[h].content = Known(pending'[h].sha)
                                  /\ Extends(ContentOf(h)', pending'[h].content)
        BY <2>0, <3>1, <3>2 DEF RecordHolds
      <4>3. \A a \in ToSet(acked'[h]) : LineHolds(h, a)'
        BY <2>0, <3>1, <3>2 DEF RecordHolds, LineHolds
      <4> QED BY <3>2, <4>1, <4>2, <4>3 DEF RecordHolds
    <3>3. CASE \/ \E e \in Entry : Write(h, e) \/ Export(h, e)
               \/ LoseBox(h) \/ StartWaiting(h) \/ Ready(h) \/ StopWaiting(h)
               \/ Stop(h) \/ Break(h) \/ GiveUp(h)
      BY <2>0, <3>2, <3>3 DEF Write, Export, LoseBox, StartWaiting, Ready, StopWaiting, Stop, Break, GiveUp,
         ledger, record, RecordHolds
    <3>4. CASE Fetch(h) \/ FetchChosen(h)
      BY <2>0, <3>2, <3>4 DEF Fetch, FetchChosen, MayRestore, ledger, record
    <3>5. CASE AbandonRestore(h) \/ \E n \in 1 .. MaxGeneration : Witness(h, n)
      BY <2>0, <3>2, <3>5 DEF AbandonRestore, Witness, ledger, record, RecordHolds
    <3>6. ASSUME Aside, acked'[h] = acked[h], up[h],
                 \/ SendsAgain(h)
                 \/ \E name \in Name, fl \in Nat, over \in BOOLEAN, stamp \in Stamp : SendsNew(h, name, fl, over, stamp)
          PROVE  RecordHolds(h)'
      <4>1. up'[h] /\ restoring'[h] = restoring[h] /\ up'[h] = up[h]
        BY <3>6 DEF Aside, ledger
      <4>2. CASE SendsAgain(h)
        BY <2>0, <3>2, <3>6, <4>1, <4>2 DEF SendsAgain, RecordHolds
      <4>3. CASE \E name \in Name, fl \in Nat, over \in BOOLEAN, stamp \in Stamp : SendsNew(h, name, fl, over, stamp)
        <5>1. PICK name \in Name, fl \in Nat, over \in BOOLEAN, stamp \in Stamp : SendsNew(h, name, fl, over, stamp)
          BY <4>3
        <5>2. pending'[h] = Attempt(h, name, fl, over, stamp)
          BY <2>0, <5>1 DEF SendsNew
        <5>3. pending'[h].content = Known(pending'[h].sha) /\ pending'[h].content = ContentOf(h)
          BY <5>2, AttemptIs
        <5>4. \A a \in ToSet(acked'[h]) : LineHolds(h, a)'
          BY <2>0, <3>1, <3>6 DEF RecordHolds, LineHolds
        <5> QED BY <2>0, <3>1, <4>1, <5>3, <5>4 DEF RecordHolds
      <4> QED BY <3>6, <4>2, <4>3
    <3>7. CASE Starts(h)
      <4>1. \/ SendsAgain(h)
            \/ \E name \in Name, fl \in Nat, over \in BOOLEAN, stamp \in Stamp : SendsNew(h, name, fl, over, stamp)
        <5>1. PICK fl : fl = floor[h]
          OBVIOUS
        <5>2. fl \in Nat
          BY <5>1 DEF Types, CheckpointTypeOK
        <5> QED BY <3>7, <5>1, <5>2, StartsIs
      <4> QED BY <3>6, <3>7, <4>1, StartsIs
    <3>8. CASE Rebase(h)
      <4>1. \E name \in Name, fl \in Nat, over \in BOOLEAN, stamp \in Stamp : SendsNew(h, name, fl, over, stamp)
        <5>1. PICK fl, over : fl = floor[h] /\ over = FALSE
          OBVIOUS
        <5>2. fl \in Nat
          BY <5>1 DEF Types, CheckpointTypeOK
        <5>3. over \in BOOLEAN
          BY <5>1, Zenon
        <5>4. \E name \in Name, stamp \in Stamp : SendsNew(h, name, fl, over, stamp)
          BY <3>8, <5>1, RebaseIs, Zenon
        <5> QED BY <5>2, <5>3, <5>4
      <4>2. up[h]
        BY <2>0, <3>8, RebaseIs DEF RecordHolds
      <4> QED BY <3>6, <3>8, <4>1, <4>2, RebaseIs
    <3>9. CASE Accept(h)
      <4>1. /\ up'[h] /\ restoring'[h] = restoring[h] /\ pending[h] # None
            /\ \A a \in ToSet(acked'[h]) :
                  \/ a \in ToSet(acked[h])
                  \/ a = [name |-> AcceptedName(h), content |-> pending[h].content]
        BY <3>9, RecordAccept
      <4>2. pending[h].sha \in Bundle
        BY <3>9, AcceptIs DEF AttemptType
      <4>3. ASSUME NEW a, a = [name |-> AcceptedName(h), content |-> pending[h].content] PROVE LineHolds(h, a)'
        <5>1. a.name.sha = pending[h].sha /\ a.content = pending[h].content
          BY <4>3 DEF AcceptedName
        <5> QED BY <2>0, <3>1, <4>1, <4>2, <5>1 DEF RecordHolds, LineHolds
      <4>4. \A a \in ToSet(acked'[h]) : LineHolds(h, a)'
        BY <2>0, <3>1, <4>1, <4>3 DEF RecordHolds, LineHolds
      <4>5. restoring'[h] # None => ~up'[h]
        BY <2>0, <3>9, <4>1, AcceptIs DEF RecordHolds
      <4>6. ASSUME pending'[h] # None
            PROVE  /\ pending'[h].content = Known(pending'[h].sha)
                   /\ Extends(ContentOf(h)', pending'[h].content)
        <5>1. PICK name, fl, over : /\ name = AcceptedName(h) /\ over = FALSE
                                    /\ fl = Max2(floor[h], calls[h].name.gen)
          OBVIOUS
        <5>2. \E stamp \in Stamp : SendsNew(h, name, fl, over, stamp)
          <6>1. \E stamp \in Stamp :
                  SendsNew(h, AcceptedName(h), Max2(floor[h], calls[h].name.gen), FALSE, stamp)
            <7>1. pending' # [pending EXCEPT ![h] = None]
              BY <2>0, <4>6
            <7> QED BY <3>9, <7>1, AcceptIs
          <6> QED BY <5>1, <6>1, Zenon
        <5>3. PICK stamp \in Stamp : pending'[h] = Attempt(h, name, fl, over, stamp)
          BY <2>0, <5>2 DEF SendsNew
        <5>4. name \in Name /\ fl \in Nat
          <6>1. calls[h].name.gen \in Nat /\ name \in Name /\ floor[h] \in Nat
            BY <3>9, <5>1, AcceptIs DEF Name, Types, CheckpointTypeOK
          <6> QED BY <5>1, <6>1 DEF Max2
        <5>5. over \in BOOLEAN
          BY <5>1, Zenon
        <5>6. pending'[h].content = Known(pending'[h].sha) /\ pending'[h].content = ContentOf(h)
          <6>1. PICK a : a = Attempt(h, name, fl, over, stamp)
            OBVIOUS
          <6>2. Known(a.sha) = a.content /\ a.content = ContentOf(h)
            BY <5>4, <5>5, <6>1, AttemptIs
          <6> QED BY <5>3, <6>1, <6>2
        <5> QED BY <3>1, <5>6
      <4> QED BY <4>1, <4>4, <4>5, <4>6 DEF RecordHolds
    <3> QED BY <1>4, <2>3, <3>3, <3>4, <3>5, <3>7, <3>8, <3>9 DEF HolderStep, Starts
  <2> QED BY <2>1, <2>2, <2>3
<1> QED BY <1>2, <1>3, <1>4, <1>1, OthersStay DEF Next, RecordInv
LEMMA FiledOnto ==
  ASSUME Types, OntoInv, NEW f \in files \cup outside \cup old, NEW g \in File, f.prev = NameOf(g)
  PROVE  Extends(f.sha, g.sha)
<1>1. PICK u : u = Upl(f.sha, f.prev)
  OBVIOUS
<1>2. u \in Uploads /\ u.sha = f.sha /\ u.name = f.prev
  BY <1>1 DEF Upl, Uploads, Filed
<1>3. g.gen \in Nat \ {0} /\ f.prev.gen = g.gen /\ f.prev.sha = g.sha
  BY DEF NameOf, File
<1>4. f.prev # Empty
  BY <1>3 DEF Empty
<1> QED BY <1>2, <1>3, <1>4 DEF OntoInv, Onto

\* What _check_extension promises holds as long as no outbox is set back: a generation
\* continues the one it was put on, in its ledger and in its numbers, for any number of
\* holders, lost disks, torn restores, redeployments and delayed requests, also when a
\* person helped with --onto.  (When an outbox is set back it does not: see README.md.)
THEOREM AlwaysPutOnExtends ==
  ASSUME MaxBoxLosses = 0
  PROVE  Spec => []PutOnExtends
<1>1. Init => Types /\ OntoInv /\ RecordInv
  BY TypesInit, OntoInit
<1>2. Types /\ OntoInv /\ RecordInv /\ [Next]_vars => (Types /\ OntoInv /\ RecordInv)'
  BY TypesStep, OntoStep, RecordStep
<1>3. Types /\ OntoInv => PutOnExtends
  <2> SUFFICES ASSUME Types, OntoInv, NEW f \in files \cup outside, NEW g \in files \cup outside, f.prev = NameOf(g)
               PROVE  Extends(f.sha, g.sha)
    BY DEF PutOnExtends
  <2>1. g \in File
    BY DEF Types, CheckpointTypeOK, SlotTypeOK
  <2> QED BY <2>1, FiledOnto
<1> QED BY <1>1, <1>2, <1>3, PTL DEF Spec
-----------------------------------------------------------------------------
(* An answer is the answer to the attempt in the record.  A command that is *)
(* at rest or waits for a mark has no call, and while a call is open the    *)
(* attempt stays.                                                           *)

NamedAs(sha) == [gen |-> sha.gen, sha |-> sha]

CallHolds(h) ==
  /\ run[h].pc \in {"rest", "wait"} => calls[h] = NoCall
  /\ calls[h].phase = "sent" => pending[h] # None /\ calls[h].req = RequestOf(pending[h])
  /\ hand.from = h => calls[h] = Served /\ pending[h] # None /\ hand.file.sha = pending[h].sha
  /\ calls[h].phase = "answered" /\ calls[h].status = 200 =>
       pending[h] # None /\ calls[h].name = NamedAs(pending[h].sha)
  /\ pending[h] # None => pending[h].content = Known(pending[h].sha)

CallInv == \A h \in Client : CallHolds(h)

LEMMA CallInit == Init => CallInv
<1> SUFFICES ASSUME Init, NEW h \in Client PROVE CallHolds(h)
  BY DEF CallInv
<1>1. calls[h] = NoCall /\ pending[h] = None /\ hand.from # h
  BY SlotAssumption DEF Init, SlotInit, Idle
<1>2. NoCall.phase = "none"
  BY DEF NoCall
<1> QED BY <1>1, <1>2 DEF CallHolds

LEMMA Phases ==
  /\ NoCall.phase = "none" /\ Served.phase = "served" /\ Lost.phase = "lost" /\ Idle.from = Nobody
  /\ \A r : Sent(r).phase = "sent" /\ Sent(r).req = r
  /\ \A status, name : /\ Answer(status, name).phase = "answered"
                       /\ Answer(status, name).status = status
                       /\ Answer(status, name).name = name
BY DEF NoCall, Served, Lost, Sent, Answer, Idle

\* The newest generation is shown under the number in its bundle.
LEMMA CurrentNamed ==
  ASSUME Types, Predicted, files # {}
  PROVE  Current = NamedAs(Current.sha)
<1>1. Newest(files) \in files
  BY NewestIsNewest DEF Types, CheckpointTypeOK, SlotTypeOK
<1>2. Newest(files).sha.gen = Newest(files).gen
  BY <1>1 DEF Predicted, BundleKnowsItsNumber
<1> QED BY <1>2 DEF Current, NewestName, NameOf, NamedAs

LEMMA CallHandle ==
  ASSUME Types, Predicted, CallInv, hand = Idle, NEW c \in Client \cup {Nobody}, NEW r, Handle(c, r),
         c \in Client => calls[c].phase = "sent" /\ calls[c].req = r,
         pending' = pending, run' = run
  PROVE  CallInv'
<1>0. calls = [k \in Client |-> calls[k]] /\ Nobody \notin Client
  BY SlotAssumption DEF Types, CheckpointTypeOK, SlotTypeOK
<1>1. ASSUME c \in Client
      PROVE  pending[c] # None /\ r.sha = pending[c].sha /\ run[c].pc \notin {"rest", "wait"}
  <2>1. CallHolds(c) /\ calls[c].phase = "sent" /\ calls[c].req = r
    BY <1>1 DEF CallInv
  <2>2. PICK p : p = pending[c]
    OBVIOUS
  <2>3. p # None /\ r = RequestOf(p)
    BY <2>1, <2>2 DEF CallHolds
  <2>4. r.sha = p.sha
    BY <2>3 DEF RequestOf
  <2>5. calls[c] # NoCall
    BY <2>1, Phases
  <2>6. run[c].pc \notin {"rest", "wait"}
    BY <2>1, <2>5 DEF CallHolds
  <2> QED BY <2>2, <2>3, <2>4, <2>6
<1>2. CASE Scan(c, r)
  <2>1. hand'.from = c /\ hand'.file.sha = r.sha
    BY <1>2 DEF Scan
  <2>2. \A k \in Client : k # c => calls'[k] = calls[k]
    BY <1>0, <1>2 DEF Scan
  <2>3. c \in Client => calls'[c] = Served
    BY <1>0, <1>2 DEF Scan
  <2>4. ASSUME NEW k \in Client, k = c PROVE CallHolds(k)'
    BY <1>1, <2>1, <2>3, <2>4, Phases DEF CallInv, CallHolds
  <2>5. ASSUME NEW k \in Client, k # c PROVE CallHolds(k)'
    BY <2>1, <2>2, <2>5, Phases DEF CallInv, CallHolds
  <2> QED BY <2>4, <2>5 DEF CallInv
<1>3. ASSUME NEW status, NEW name, Reply(c, status, name), hand' = hand,
             status = 200 /\ c \in Client => name = NamedAs(pending[c].sha)
      PROVE  CallInv'
  <2>1. \A k \in Client : k # c => calls'[k] = calls[k]
    BY <1>0, <1>3 DEF Reply
  <2>2. c \in Client => calls'[c] = Answer(status, name)
    BY <1>0, <1>3 DEF Reply
  <2>3. \A k \in Client : hand'.from # k
    BY <1>0, <1>3, Phases
  <2>4. ASSUME NEW k \in Client, k = c PROVE CallHolds(k)'
    BY <1>1, <1>3, <2>2, <2>3, <2>4, Phases DEF CallInv, CallHolds
  <2>5. ASSUME NEW k \in Client, k # c PROVE CallHolds(k)'
    BY <2>1, <2>3, <2>5 DEF CallInv, CallHolds
  <2> QED BY <2>4, <2>5 DEF CallInv
<1>4. CASE Refuse(c, r)
  BY <1>3, <1>4 DEF Refuse, server
<1>5. CASE Conflict(c, r)
  BY <1>3, <1>5 DEF Conflict, server
<1>6. CASE Dedup(c, r)
  <2>1. files # {} /\ r.sha = Current.sha /\ Reply(c, 200, Current) /\ hand' = hand
    BY <1>6 DEF Dedup, Repeats, server
  <2>2. c \in Client => Current = NamedAs(pending[c].sha)
    BY <1>1, <2>1, CurrentNamed
  <2> QED BY <1>3, <2>1, <2>2
<1> QED BY <1>2, <1>4, <1>5, <1>6 DEF Handle

LEMMA CallSlotStep ==
  ASSUME Types, Predicted, CallInv, SlotStep
  PROVE  CallInv'
<1>0. /\ pending' = pending /\ run' = run
      /\ calls = [k \in Client |-> calls[k]] /\ Nobody \notin Client
  BY SlotAssumption DEF SlotStep, record, Types, CheckpointTypeOK, SlotTypeOK
<1>1. ASSUME NEW c \in Client, Serve(c) PROVE CallInv'
  BY <1>0, <1>1, CallHandle DEF Serve
<1>2. ASSUME NEW r \in late, ServeLate(r) PROVE CallInv'
  BY <1>0, <1>2, CallHandle DEF ServeLate
<1>3. CASE Place
  <2>1. PICK c : c = hand.from
    OBVIOUS
  <2>2. c \in Client \cup {Nobody} /\ hand # Idle /\ hand' = Idle
    BY <1>3, <2>1, HandFile DEF Place, Types, CheckpointTypeOK
  <2>3. PICK status, name : Reply(c, status, name) /\ (status = 200 => name = NameOf(hand.file))
    BY <1>3, <2>1 DEF Place
  <2>4. NameOf(hand.file) = NamedAs(hand.file.sha)
    BY <2>2 DEF Predicted, NameOf, NamedAs
  <2>5. \A k \in Client : k # c => calls'[k] = calls[k]
    BY <1>0, <2>3 DEF Reply
  <2>6. c \in Client => calls'[c] = Answer(status, name)
    BY <1>0, <2>3 DEF Reply
  <2>7. \A k \in Client : hand'.from # k
    BY <1>0, <2>2, Phases
  <2>8. ASSUME NEW k \in Client, k = c PROVE CallHolds(k)'
    <3>1. CallHolds(k) /\ hand.from = k
      BY <2>1, <2>8 DEF CallInv
    <3>2. calls[k] = Served /\ pending[k] # None /\ hand.file.sha = pending[k].sha
      BY <3>1 DEF CallHolds
    <3>3. run[k].pc \notin {"rest", "wait"}
      BY <3>1, <3>2, Phases DEF CallHolds
    <3> QED BY <1>0, <2>3, <2>4, <2>6, <2>7, <2>8, <3>1, <3>2, <3>3, Phases DEF CallHolds
  <2>9. ASSUME NEW k \in Client, k # c PROVE CallHolds(k)'
    BY <1>0, <2>5, <2>7, <2>9 DEF CallInv, CallHolds
  <2> QED BY <2>8, <2>9 DEF CallInv
<1>4. CASE SupervisorStep
  <2>1. \/ calls' = calls /\ hand' = hand
        \/ hand' = Idle /\ calls' = [c \in Client |->
                 IF calls[c].phase \in {"sent", "served"} THEN Lost ELSE calls[c]]
    BY <1>4 DEF SupervisorStep, Mirror, PutBack, MirrorOld, StopOld, Settle, SettleByTimeout,
                Redeploy, network, server
  <2>2. CASE calls' = calls /\ hand' = hand
    BY <1>0, <2>2 DEF CallInv, CallHolds
  <2>3. CASE hand' = Idle /\ calls' = [c \in Client |->
                 IF calls[c].phase \in {"sent", "served"} THEN Lost ELSE calls[c]]
    BY <1>0, <2>3, Phases DEF CallInv, CallHolds
  <2> QED BY <2>1, <2>2, <2>3
<1> QED BY <1>1, <1>2, <1>3, <1>4 DEF SlotStep, ServerStep

LEMMA CallHolderStep ==
  ASSUME Types, CallInv, NEW h \in Client, HolderStep(h)
  PROVE  CallInv'
<1>0. /\ CallHolds(h) /\ calls = [k \in Client |-> calls[k]] /\ pending = [k \in Client |-> pending[k]]
      /\ run = [k \in Client |-> run[k]] /\ Nobody \notin Client
  BY SlotAssumption DEF CallInv, Types, CheckpointTypeOK, SlotTypeOK
<1>1. ASSUME NEW k \in Client, k # h, hand'.from = k => hand.from = k /\ hand'.file = hand.file PROVE CallHolds(k)'
  BY <1>1, OthersStay DEF CallInv, CallHolds
<1>2. ASSUME \A k \in Client : hand'.from = k => hand.from = k /\ hand'.file = hand.file, CallHolds(h)'
      PROVE  CallInv'
  BY <1>1, <1>2 DEF CallInv
<1>3. ASSUME calls' = calls, pending' = pending, hand' = hand,
             run'[h].pc \in {"rest", "wait"} => run[h].pc \in {"rest", "wait"}
      PROVE  CallInv'
  <2>1. CallHolds(h)'
    BY <1>0, <1>3 DEF CallHolds
  <2> QED BY <1>2, <1>3, <2>1
<1>4. ASSUME calls' = [calls EXCEPT ![h] = NoCall],
             pending' = pending \/ pending' = [pending EXCEPT ![h] = None],
             \A k \in Client : hand'.from = k => k # h /\ hand.from = k /\ hand'.file = hand.file
      PROVE  CallInv'
  <2>1. calls'[h] = NoCall /\ (pending'[h] = None \/ pending'[h] = pending[h])
    BY <1>0, <1>4
  <2>2. CallHolds(h)'
    BY <1>0, <1>4, <2>1, Phases DEF CallHolds
  <2> QED BY <1>2, <1>4, <2>2
<1>5. ASSUME NEW a, a # None, a.content = Known(a.sha), calls' = [calls EXCEPT ![h] = Sent(RequestOf(a))],
             pending'[h] = a, hand' = hand, calls[h] # Served,
             run'[h].pc \notin {"rest", "wait"}
      PROVE  CallInv'
  <2>1. calls'[h] = Sent(RequestOf(a)) /\ hand.from # h
    BY <1>0, <1>5 DEF CallHolds
  <2>2. CallHolds(h)'
    BY <1>5, <2>1, Phases DEF CallHolds
  <2> QED BY <1>2, <1>5, <2>2
<1>6. ASSUME Aside, calls[h] # Served, run'[h].pc \notin {"rest", "wait"},
             \/ SendsAgain(h)
             \/ \E name \in Name, fl \in Nat, over \in BOOLEAN, stamp \in Stamp : SendsNew(h, name, fl, over, stamp)
      PROVE  CallInv'
  <2>1. hand' = hand
    BY <1>6 DEF Aside, server
  <2>2. CASE SendsAgain(h)
    <3>1. PICK a : a = pending[h]
      OBVIOUS
    <3>2. a # None /\ calls' = [calls EXCEPT ![h] = Sent(RequestOf(a))] /\ pending'[h] = a
      BY <2>2, <3>1 DEF SendsAgain
    <3>3. a.content = Known(a.sha)
      BY <1>0, <3>1, <3>2 DEF CallHolds
    <3> QED BY <1>5, <1>6, <2>1, <3>2, <3>3
  <2>3. ASSUME NEW name \in Name, NEW fl \in Nat, NEW over \in BOOLEAN, NEW stamp \in Stamp,
               SendsNew(h, name, fl, over, stamp)
        PROVE  CallInv'
    <3>1. PICK a : a = Attempt(h, name, fl, over, stamp)
      OBVIOUS
    <3>2. calls' = [calls EXCEPT ![h] = Sent(RequestOf(a))] /\ pending'[h] = a
      BY <1>0, <2>3, <3>1 DEF SendsNew
    <3>3. a # None /\ a.content = Known(a.sha)
      BY <3>1, AttemptIs
    <3> QED BY <1>5, <1>6, <2>1, <3>2, <3>3
  <2> QED BY <1>6, <2>2, <2>3
<1>7. CASE \/ \E e \in Entry : Write(h, e) \/ Export(h, e)
           \/ LoseBox(h)
           \/ Fetch(h) \/ FetchChosen(h) \/ Restore(h) \/ RestoreTorn(h) \/ AbandonRestore(h)
           \/ \E n \in 1 .. MaxGeneration : Witness(h, n)
  BY <1>3, <1>7 DEF Write, Export, LoseBox, Fetch, FetchChosen, Restore, RestoreTorn, AbandonRestore,
     Witness, PutInPlace, record, slotVars
<1>8. CASE StartWaiting(h) \/ Ready(h) \/ StopWaiting(h)
  <2>1. run[h].pc \in {"rest", "wait"}
    BY <1>8 DEF StartWaiting, Ready, StopWaiting, Rest
  <2> QED BY <1>3, <1>8, <2>1 DEF StartWaiting, Ready, StopWaiting, slotVars, record
<1>9. CASE Stop(h) \/ Break(h)
  <2>1. calls[h] # Served
    BY <1>9, Phases DEF Stop, Break, Answered
  <2>2. hand.from # h
    BY <1>0, <2>1 DEF CallHolds
  <2> QED BY <1>4, <1>9, <2>2 DEF Stop, Break, server, record
<1>10. CASE GiveUp(h) \/ Wipe(h)
  <2>1. Abandon(h) /\ (pending' = pending \/ pending' = [pending EXCEPT ![h] = None])
    BY <1>10 DEF GiveUp, Wipe, record
  <2>2. calls' = [calls EXCEPT ![h] = NoCall]
    BY <2>1 DEF Abandon
  <2>3. CASE hand = Idle
    <3>1. hand' = Idle
      BY <1>0, <2>1, <2>3, Phases DEF Abandon
    <3> QED BY <1>0, <1>4, <2>1, <2>2, <3>1, Phases
  <2>4. CASE hand # Idle
    <3>1. hand \in [from : Client \cup {Nobody}, file : File]
      BY <2>4, HandFile DEF Types, CheckpointTypeOK
    <3>2. \A k \in Client : hand'.from = k => k # h /\ hand.from = k /\ hand'.file = hand.file
      BY <1>0, <2>1, <3>1 DEF Abandon
    <3> QED BY <1>4, <2>1, <2>2, <3>2
  <2> QED BY <2>3, <2>4
<1>11. CASE Starts(h)
  <2>1. calls[h] = NoCall
    <3>1. run[h].pc = "rest"
      BY <1>11, StartsIs DEF Rest
    <3> QED BY <1>0, <3>1 DEF CallHolds
  <2>2. run'[h].pc = "first"
    <3>1. PICK onto \in BOOLEAN : run' = [run EXCEPT ![h] = [pc |-> "first", onto |-> onto, todo |-> box[h]]]
      BY <1>11, StartsIs
    <3> QED BY <1>0, <3>1
  <2>3. PICK fl : fl = floor[h]
    OBVIOUS
  <2>4. fl \in Nat
    BY <2>3 DEF Types, CheckpointTypeOK
  <2>5. \/ SendsAgain(h)
        \/ \E name \in Name, over \in BOOLEAN, stamp \in Stamp : SendsNew(h, name, fl, over, stamp)
    BY <1>11, <2>3, StartsIs
  <2>6. Aside
    BY <1>11, StartsIs
  <2> QED BY <1>6, <2>1, <2>2, <2>4, <2>5, <2>6, Phases
<1>12. CASE Rebase(h)
  <2>1. calls[h] # Served /\ run'[h].pc = "rebase"
    <3>1. PICK next : next = [pc |-> "rebase", todo |-> run[h].todo]
      OBVIOUS
    <3>2. run' = [run EXCEPT ![h] = next] /\ calls[h].phase = "answered"
      BY <1>12, <3>1, RebaseIs
    <3> QED BY <1>0, <3>1, <3>2, Phases
  <2>2. PICK fl, over : fl = floor[h] /\ over = FALSE
    OBVIOUS
  <2>3. fl \in Nat
    BY <2>2 DEF Types, CheckpointTypeOK
  <2>4. over \in BOOLEAN
    BY <2>2, Zenon
  <2>5. \E name \in Name, stamp \in Stamp : SendsNew(h, name, fl, over, stamp)
    <3>1. PICK name \in Name, stamp \in Stamp :
             SendsNew(h, name, floor[h], FALSE, stamp) /\ Ground(h, name)
      BY <1>12, RebaseIs
    <3> QED BY <2>2, <3>1, Zenon
  <2>6. Aside
    BY <1>12, RebaseIs
  <2> QED BY <1>6, <2>1, <2>3, <2>4, <2>5, <2>6
<1>13. CASE Accept(h)
  <2>1. calls[h] # Served /\ Aside
    BY <1>13, AcceptIs, Phases
  <2>2. CASE /\ run' = [run EXCEPT ![h] = [pc |-> "extend", todo |-> run[h].todo]]
             /\ \E stamp \in Stamp :
                  SendsNew(h, AcceptedName(h), Max2(floor[h], calls[h].name.gen), FALSE, stamp)
    <3>1. run'[h].pc = "extend"
      <4>1. PICK next : next = [pc |-> "extend", todo |-> run[h].todo]
        OBVIOUS
      <4> QED BY <1>0, <2>2, <4>1
    <3>2. PICK name, fl, over : /\ name = AcceptedName(h) /\ over = FALSE
                                /\ fl = Max2(floor[h], calls[h].name.gen)
      OBVIOUS
    <3>3. calls[h].name.gen \in Nat /\ name \in Name /\ floor[h] \in Nat
      BY <1>13, <3>2, AcceptIs DEF Name, Types, CheckpointTypeOK
    <3>4. fl \in Nat
      BY <3>2, <3>3 DEF Max2
    <3>5. over \in BOOLEAN
      BY <3>2, Zenon
    <3>6. \E stamp \in Stamp : SendsNew(h, name, fl, over, stamp)
      BY <2>2, <3>2, Zenon
    <3> QED BY <1>6, <2>1, <3>1, <3>3, <3>4, <3>5, <3>6
  <2>3. CASE /\ pending' = [pending EXCEPT ![h] = None]
             /\ calls' = [calls EXCEPT ![h] = NoCall]
    <3>1. hand' = hand /\ hand.from # h
      BY <1>0, <2>1 DEF CallHolds, Aside, server
    <3> QED BY <1>4, <2>3, <3>1
  <2> QED BY <1>13, <2>2, <2>3, AcceptIs
<1> QED BY <1>7, <1>8, <1>9, <1>10, <1>11, <1>12, <1>13 DEF HolderStep, Starts

LEMMA CallStep == ASSUME Types, Predicted, CallInv, [Next]_vars PROVE CallInv'
<1>1. CASE UNCHANGED vars
  BY <1>1 DEF vars, slotVars, CallInv, CallHolds
<1> QED BY <1>1, CallSlotStep, CallHolderStep DEF Next

-----------------------------------------------------------------------------
(* What a command holds: the outbox it took its snapshot of is the outbox   *)
(* as it is, while the lock of the hub is held, and the outbox of the       *)
(* generation for whose mark it waits.  A generation that is marked is      *)
(* stored outside.                                                          *)

RunHolds(h) ==
  /\ restoring[h] # None => ~up[h]
  /\ ~up[h] => run[h] = Rest /\ pending[h] = None
  /\ run[h].pc = "wait" => run[h].todo = run[h].name.sha.box
  /\ run[h].pc \in {"first", "rebase", "extend"} => run[h].todo = box[h]
  /\ run[h].pc \in {"rebase", "extend"} => pending[h].content = ContentOf(h)
  /\ \A a \in ToSet(acked[h]) : a.content = Known(a.name.sha)

RunInv == \A h \in Client : RunHolds(h)

Marked == \A n \in marks : Taken(outside, n)

LEMMA RunInit == Init => RunInv /\ Marked
<1> SUFFICES ASSUME Init PROVE RunInv /\ Marked
  OBVIOUS
<1>1. \A h \in Client : acked[h] = <<>> /\ pending[h] = None /\ restoring[h] = None /\ run[h] = Rest
  BY DEF Init
<1>2. ToSet(<<>>) = {} /\ Rest.pc = "rest"
  BY DEF ToSet, Rest
<1>3. marks = {}
  BY DEF Init, SlotInit
<1> QED BY <1>1, <1>2, <1>3 DEF RunInv, RunHolds, Marked

LEMMA OutsideGrows ==
  ASSUME [Next]_vars
  PROVE  outside \subseteq outside'
<1>1. CASE SlotStep
  BY <1>1 DEF SlotStep, ServerStep, SupervisorStep, Serve, ServeLate, Place, Mirror, PutBack, MirrorOld,
     StopOld, Settle, SettleByTimeout, Redeploy, supervisor
<1>2. ASSUME NEW h \in Client, HolderStep(h) PROVE outside' = outside
  BY <1>2 DEF HolderStep, Write, Export, LoseBox, StartWaiting, StartUpload, StartOnto, Accept,
     Rebase, Stop, GiveUp, Break, Ready, StopWaiting, Wipe, Fetch, FetchChosen, Restore, RestoreTorn,
     PutInPlace, AbandonRestore, Witness, slotVars, supervisor
<1>3. CASE UNCHANGED vars
  BY <1>3 DEF vars, slotVars
<1> QED BY <1>1, <1>2, <1>3 DEF Next

LEMMA MarkedStep ==
  ASSUME Types, Marked, [Next]_vars
  PROVE  Marked'
<1>1. ASSUME marks' \subseteq marks PROVE Marked'
  BY <1>1, OutsideGrows DEF Marked, Taken
<1>2. CASE SlotStep
  <2>1. CASE ServerStep
    BY <1>1, <2>1 DEF ServerStep, Serve, ServeLate, Place, supervisor
  <2>2. ASSUME NEW f \in files, Mirror(f) PROVE Marked'
    <3>1. f \in outside'
      BY <2>2 DEF Mirror
    <3> QED BY <2>2, <3>1, OutsideGrows DEF Marked, Taken, Mirror
  <2>3. ASSUME NEW f \in outside, PutBack(f) PROVE Marked'
    BY <2>3 DEF Marked, Taken, PutBack
  <2>4. CASE Redeploy \/ StopOld \/ Settle \/ SettleByTimeout \/ \E f \in old : MirrorOld(f)
    BY <1>1, <2>4 DEF Redeploy, StopOld, Settle, SettleByTimeout, MirrorOld
  <2> QED BY <1>2, <2>1, <2>2, <2>3, <2>4 DEF SlotStep, SupervisorStep
<1>3. ASSUME NEW h \in Client, HolderStep(h) PROVE marks' = marks
  BY <1>3 DEF HolderStep, Write, Export, LoseBox, StartWaiting, StartUpload, StartOnto, Accept,
     Rebase, Stop, GiveUp, Break, Ready, StopWaiting, Wipe, Fetch, FetchChosen, Restore, RestoreTorn,
     PutInPlace, AbandonRestore, Witness, slotVars, supervisor
<1>4. CASE UNCHANGED vars
  BY <1>1, <1>4 DEF vars, slotVars
<1> QED BY <1>1, <1>2, <1>3, <1>4 DEF Next

LEMMA RunHolderStep ==
  ASSUME Types, CallInv, RunInv, NEW h \in Client, HolderStep(h)
  PROVE  RunHolds(h)'
<1>0. /\ RunHolds(h) /\ ToSet(<<>>) = {} /\ Rest.pc = "rest"
      /\ up = [k \in Client |-> up[k]] /\ box = [k \in Client |-> box[k]]
      /\ acked = [k \in Client |-> acked[k]] /\ pending = [k \in Client |-> pending[k]]
      /\ run = [k \in Client |-> run[k]] /\ restoring = [k \in Client |-> restoring[k]]
  BY DEF RunInv, Types, CheckpointTypeOK, ToSet, Rest
<1>1. CASE \/ \E e \in Entry : Write(h, e) \/ Export(h, e)
           \/ LoseBox(h)
  <2>1. up[h] /\ run[h].pc \in {"rest", "wait"}
    BY <1>1 DEF Write, Export, LoseBox, Unlocked
  <2>2. UNCHANGED <<up, acked, pending, run, restoring>>
    BY <1>1 DEF Write, Export, LoseBox, record
  <2> QED BY <1>0, <2>1, <2>2 DEF RunHolds
<1>2. CASE StartWaiting(h)
  <2>1. PICK next : next = [pc |-> "wait", name |-> LastAcked(h).name, todo |-> box[h]]
    OBVIOUS
  <2>2. /\ up[h] /\ acked[h] # <<>> /\ ContentOf(h) = LastAcked(h).content
        /\ run' = [run EXCEPT ![h] = next]
        /\ UNCHANGED <<up, acked, pending, restoring>>
    BY <1>2, <2>1 DEF StartWaiting, Unlocked, Unchanged, ledger, record
  <2>3. LastAcked(h).content = Known(LastAcked(h).name.sha)
    BY <1>0, <2>2, LastAckedIn DEF RunHolds
  <2>4. box[h] = LastAcked(h).name.sha.box
    BY <2>2, <2>3 DEF ContentOf, Known
  <2>5. run'[h].pc = "wait" /\ run'[h].todo = run'[h].name.sha.box
    BY <1>0, <2>1, <2>2, <2>4
  <2> QED BY <1>0, <2>2, <2>5 DEF RunHolds
<1>3. CASE \/ Stop(h) \/ Break(h) \/ GiveUp(h) \/ Ready(h) \/ StopWaiting(h)
  <2>1. run' = [run EXCEPT ![h] = Rest] /\ UNCHANGED <<up, acked, pending, restoring>>
    BY <1>3 DEF Stop, Break, GiveUp, Ready, StopWaiting, ledger, record
  <2>2. run'[h] = Rest
    BY <1>0, <2>1
  <2> QED BY <1>0, <2>1, <2>2 DEF RunHolds
<1>4. CASE Wipe(h)
  <2>1. up'[h] = FALSE /\ acked'[h] = <<>> /\ pending'[h] = None /\ run'[h] = Rest
    BY <1>0, <1>4 DEF Wipe
  <2> QED BY <1>0, <2>1 DEF RunHolds
<1>5. CASE Fetch(h) \/ FetchChosen(h)
  BY <1>0, <1>5 DEF Fetch, FetchChosen, MayRestore, ledger, record, RunHolds, ContentOf
<1>6. CASE AbandonRestore(h) \/ \E n \in 1 .. MaxGeneration : Witness(h, n)
  <2>1. restoring[h] # None /\ UNCHANGED <<up, events, box, acked, pending, run>>
    BY <1>6 DEF AbandonRestore, Witness, ledger, record
  <2> QED BY <1>0, <2>1 DEF RunHolds, ContentOf
<1>7. CASE Restore(h) \/ RestoreTorn(h)
  <2>1. /\ restoring[h] # None /\ pending' = pending /\ run' = run /\ up' = [up EXCEPT ![h] = TRUE]
        /\ restoring' = [restoring EXCEPT ![h] = None]
    BY <1>7 DEF Restore, RestoreTorn, PutInPlace
  <2>2. up'[h] /\ restoring'[h] = None /\ run'[h] = Rest
    BY <1>0, <2>1 DEF RunHolds
  <2>3. ASSUME NEW a \in ToSet(acked'[h]) PROVE a.content = Known(a.name.sha)
    <3>1. CASE RestoreTorn(h)
      BY <1>0, <2>3, <3>1 DEF RestoreTorn, RunHolds
    <3>2. CASE Restore(h)
      <4>1. PICK r : r = restoring[h].name
        OBVIOUS
      <4>2. acked'[h] = <<[name |-> r, content |-> Known(r.sha)]>>
        BY <1>0, <3>2, <4>1 DEF Restore
      <4>3. a.name = r /\ a.content = Known(r.sha)
        BY <2>3, <4>2 DEF ToSet
      <4> QED BY <4>3
    <3> QED BY <1>7, <3>1, <3>2
  <2> QED BY <1>0, <2>2, <2>3 DEF RunHolds
<1>8. CASE Starts(h)
  <2>1. PICK onto \in BOOLEAN : run' = [run EXCEPT ![h] = [pc |-> "first", onto |-> onto, todo |-> box[h]]]
    BY <1>8, StartsIs
  <2>2. run'[h].pc = "first" /\ run'[h].todo = box[h]
    BY <1>0, <2>1
  <2>3. up[h] /\ acked' = acked /\ UNCHANGED <<up, box, restoring>>
    BY <1>8, StartsIs DEF Aside, ledger
  <2> QED BY <1>0, <2>2, <2>3 DEF RunHolds
<1>9. ASSUME Aside, NEW name \in Name, NEW fl \in Nat, NEW over \in BOOLEAN, NEW stamp \in Stamp,
             SendsNew(h, name, fl, over, stamp)
      PROVE  pending'[h].content = ContentOf(h)' /\ box'[h] = box[h] /\ up' = up /\ restoring' = restoring
  <2>1. PICK a : a = Attempt(h, name, fl, over, stamp)
    OBVIOUS
  <2>2. pending'[h] = a /\ a.content = ContentOf(h)
    BY <1>0, <1>9, <2>1, AttemptIs DEF SendsNew
  <2> QED BY <1>9, <2>2 DEF Aside, ledger, ContentOf
<1>10. CASE Rebase(h)
  <2>1. run'[h].pc = "rebase" /\ run'[h].todo = box[h] /\ acked' = acked /\ Aside /\ up[h]
    <3>1. PICK next : next = [pc |-> "rebase", todo |-> run[h].todo]
      OBVIOUS
    <3>2. run' = [run EXCEPT ![h] = next] /\ acked' = acked /\ Aside /\ run[h].pc = "first"
      BY <1>10, <3>1, RebaseIs
    <3> QED BY <1>0, <3>1, <3>2 DEF RunHolds
  <2>2. PICK fl, over : fl = floor[h] /\ over = FALSE
    OBVIOUS
  <2>3. fl \in Nat
    BY <2>2 DEF Types, CheckpointTypeOK
  <2>4. over \in BOOLEAN
    BY <2>2, Zenon
  <2>5. \E name \in Name, stamp \in Stamp : SendsNew(h, name, fl, over, stamp)
    <3>1. PICK name \in Name, stamp \in Stamp :
             SendsNew(h, name, floor[h], FALSE, stamp) /\ Ground(h, name)
      BY <1>10, RebaseIs
    <3> QED BY <2>2, <3>1, Zenon
  <2>6. pending'[h].content = ContentOf(h)' /\ box'[h] = box[h] /\ up' = up /\ restoring' = restoring
    BY <1>9, <2>1, <2>3, <2>4, <2>5
  <2> QED BY <1>0, <2>1, <2>6 DEF RunHolds
<1>11. CASE Accept(h)
  <2>1. Aside /\ up[h] /\ UNCHANGED <<up, box, restoring>>
    BY <1>0, <1>11, AcceptIs DEF Aside, ledger, RunHolds
  <2>2. pending[h].content = Known(pending[h].sha)
    BY <1>11, AcceptIs, AttemptNotNone DEF CallInv, CallHolds
  <2>3. ASSUME NEW a \in ToSet(acked'[h]) PROVE a.content = Known(a.name.sha)
    <3>1. CASE a \in ToSet(acked[h])
      BY <1>0, <3>1 DEF RunHolds
    <3>2. CASE a = [name |-> AcceptedName(h), content |-> pending[h].content]
      <4>1. a.content = pending[h].content /\ a.name.sha = pending[h].sha
        BY <3>2 DEF AcceptedName
      <4> QED BY <2>2, <4>1
    <3> QED BY <1>11, <2>3, <3>1, <3>2, AcceptedLines
  <2>4. run[h].todo = box[h]
    BY <1>0, <1>11, AcceptIs DEF RunHolds
  <2>5. CASE /\ run' = [run EXCEPT ![h] = [pc |-> "extend", todo |-> run[h].todo]]
             /\ \E stamp \in Stamp :
                  SendsNew(h, AcceptedName(h), Max2(floor[h], calls[h].name.gen), FALSE, stamp)
    <3>1. run'[h].pc = "extend" /\ run'[h].todo = box[h]
      <4>1. PICK next : next = [pc |-> "extend", todo |-> run[h].todo]
        OBVIOUS
      <4> QED BY <1>0, <2>4, <2>5, <4>1
    <3>2. PICK name, fl, over : /\ name = AcceptedName(h) /\ over = FALSE
                                /\ fl = Max2(floor[h], calls[h].name.gen)
      OBVIOUS
    <3>3. calls[h].name.gen \in Nat /\ name \in Name /\ floor[h] \in Nat
      BY <1>11, <3>2, AcceptIs DEF Name, Types, CheckpointTypeOK
    <3>4. fl \in Nat
      BY <3>2, <3>3 DEF Max2
    <3>5. over \in BOOLEAN
      BY <3>2, Zenon
    <3>6. \E stamp \in Stamp : SendsNew(h, name, fl, over, stamp)
      BY <2>5, <3>2, Zenon
    <3>7. pending'[h].content = ContentOf(h)'
      BY <1>9, <2>1, <3>3, <3>4, <3>5, <3>6
    <3> QED BY <1>0, <2>1, <2>3, <3>1, <3>7 DEF RunHolds
  <2>6. CASE run' = [run EXCEPT ![h] =
                    IF Behind(h) THEN Rest
                    ELSE [pc |-> "wait", name |-> AcceptedName(h), todo |-> run[h].todo]]
    <3>1. PICK next : next = [pc |-> "wait", name |-> AcceptedName(h), todo |-> run[h].todo]
      OBVIOUS
    <3>2. next.pc = "wait" /\ next.name.sha = pending[h].sha /\ next.todo = box[h]
      BY <2>4, <3>1 DEF AcceptedName
    <3>3. ASSUME ~Behind(h) PROVE box[h] = pending[h].sha.box
      <4>1. pending[h].content = ContentOf(h)
        BY <1>0, <3>3 DEF Behind, RunHolds
      <4> QED BY <2>2, <4>1 DEF ContentOf, Known
    <3>4. run'[h] = Rest \/ (run'[h] = next /\ ~Behind(h))
      BY <1>0, <2>6, <3>1
    <3>5. run'[h] = Rest \/ (run'[h].pc = "wait" /\ run'[h].todo = run'[h].name.sha.box)
      BY <3>2, <3>3, <3>4
    <3> QED BY <1>0, <2>1, <2>3, <3>5 DEF RunHolds
  <2> QED BY <1>11, <2>5, <2>6, AcceptIs
<1> QED BY <1>1, <1>2, <1>3, <1>4, <1>5, <1>6, <1>7, <1>8, <1>10, <1>11 DEF HolderStep, Starts

LEMMA RunStep ==
  ASSUME Types, CallInv, RunInv, [Next]_vars
  PROVE  RunInv'
<1>1. ASSUME NEW k \in Client,
             up'[k] = up[k], events'[k] = events[k], box'[k] = box[k], run'[k] = run[k],
             acked'[k] = acked[k], pending'[k] = pending[k], restoring'[k] = restoring[k]
      PROVE  RunHolds(k)'
  BY <1>1 DEF RunInv, RunHolds, ContentOf
<1>2. CASE SlotStep
  BY <1>1, <1>2 DEF SlotStep, ledger, record, RunInv
<1>3. CASE UNCHANGED vars
  BY <1>1, <1>3 DEF vars, RunInv
<1> QED BY <1>1, <1>2, <1>3, RunHolderStep, OthersStay DEF Next, RunInv

-----------------------------------------------------------------------------
(* Saved before sent: what the steps need to implement DurableOutbox        *)

Ordered == \A f, g \in files \cup outside : f.gen <= g.gen => Extends(g.sha, f.sha)
SentIsStored == pushed \subseteq StoredPairs

LEMMA NumbersArePairs ==
  ASSUME NEW s \in Seq(Entry)
  PROVE  Numbers(s) \subseteq Durable!Pairs /\ Durable!OneEach(Numbers(s))
<1>1. DOMAIN s = 1 .. Len(s) /\ Len(s) \in Nat
  OBVIOUS
<1>2. \A n \in DOMAIN s : n \in Nat \ {0} /\ s[n] \in Entry
  BY <1>1
<1> QED BY <1>2 DEF Numbers, Durable!Pairs, Durable!OneEach

LEMMA NewestCovers ==
  ASSUME NEW T \in SUBSET File, NEW f \in T,
         \A x, y \in T : x.gen <= y.gen => Extends(y.sha, x.sha)
  PROVE  Numbers(f.sha.box) \subseteq Numbers(Newest(T).sha.box)
<1>1. PICK g : g = Newest(T)
  OBVIOUS
<1>2. g \in T /\ f.gen <= g.gen
  BY <1>1, NewestIsNewest
<1>3. Extends(g.sha, f.sha)
  BY <1>2
<1>4. PICK x, y : x = f.sha /\ y = g.sha
  OBVIOUS
<1>5. x \in Bundle /\ y \in Bundle
  BY <1>2, <1>4 DEF File
<1>6. HasContent(x) /\ HasContent(y)
  BY <1>5, BundleHasContent
<1>7. Numbers(x.box) \subseteq Numbers(y.box)
  BY <1>3, <1>4, <1>6, ExtendsCovers
<1> QED BY <1>1, <1>4, <1>7

LEMMA StoredType ==
  ASSUME NEW S \in SUBSET File, NEW P, P = IF S = {} THEN {} ELSE Numbers(Newest(S).sha.box)
  PROVE  P \subseteq Durable!Pairs /\ Durable!OneEach(P)
<1>1. CASE S = {}
  BY <1>1 DEF Durable!OneEach
<1>2. CASE S # {}
  <2>1. PICK f, s : f = Newest(S) /\ s = f.sha.box
    OBVIOUS
  <2>2. f \in File
    BY <1>2, <2>1, NewestIsNewest
  <2>3. f.sha \in Bundle
    BY <2>2 DEF File
  <2>4. s \in Seq(Entry)
    BY <2>1, <2>3 DEF Bundle
  <2> QED BY <1>2, <2>1, <2>4, NumbersArePairs
<1> QED BY <1>1, <1>2

LEMMA StoredGrows ==
  ASSUME Types, Types', Ordered', outside \subseteq outside'
  PROVE  StoredPairs \subseteq StoredPairs'
<1>1. CASE outside = {}
  BY <1>1 DEF StoredPairs
<1>2. CASE outside # {}
  <2>1. PICK f, T : f = Newest(outside) /\ T = outside'
    OBVIOUS
  <2>2. f \in T /\ T \in SUBSET File /\ T # {}
    BY <1>2, <2>1, NewestIsNewest DEF Types, CheckpointTypeOK, SlotTypeOK
  <2>3. \A x, y \in T : x.gen <= y.gen => Extends(y.sha, x.sha)
    BY <2>1 DEF Ordered
  <2>4. Numbers(f.sha.box) \subseteq Numbers(Newest(T).sha.box)
    BY <2>2, <2>3, NewestCovers
  <2> QED BY <1>2, <2>1, <2>2, <2>4 DEF StoredPairs
<1> QED BY <1>1, <1>2

\* A checkpoint that is ready to push finds its letters in the outside copy.
LEMMA ReadyIsStored ==
  ASSUME Types, Marked, Ordered, GenerationNamesOneBundle, RunInv, NEW h \in Client, Ready(h)
  PROVE  Numbers(run[h].todo) \subseteq StoredPairs
<1>0. files \in SUBSET File /\ outside \in SUBSET File
  BY DEF Types, CheckpointTypeOK, SlotTypeOK
<1>1. PICK n : n = Current
  OBVIOUS
<1>2. run[h].pc = "wait" /\ run[h].name = n /\ n.gen \in marks
  BY <1>1 DEF Ready
<1>3. PICK f \in outside : f.gen = n.gen
  BY <1>2 DEF Marked, Taken
<1>4. f.gen # 0
  BY <1>0 DEF File
<1>5. files # {}
  BY <1>1, <1>3, <1>4 DEF Current, NewestName, Empty
<1>6. Newest(files) \in files /\ n = NameOf(Newest(files))
  BY <1>0, <1>1, <1>5, NewestIsNewest DEF Current, NewestName
<1>7. f = Newest(files)
  BY <1>3, <1>6 DEF NameOf, GenerationNamesOneBundle
<1>8. n.sha = f.sha
  BY <1>6, <1>7 DEF NameOf
<1>9. run[h].todo = f.sha.box
  BY <1>2, <1>8 DEF RunInv, RunHolds
<1>10. \A x, y \in outside : x.gen <= y.gen => Extends(y.sha, x.sha)
  BY DEF Ordered
<1>11. Numbers(f.sha.box) \subseteq Numbers(Newest(outside).sha.box)
  BY <1>0, <1>10, NewestCovers
<1>12. outside # {}
  BY <1>3
<1> QED BY <1>9, <1>11, <1>12 DEF StoredPairs

LEMMA SavedStep ==
  ASSUME Types, Marked, Ordered, GenerationNamesOneBundle, RunInv, SentIsStored, [Next]_vars, Ordered'
  PROVE  [Durable!DurableNext]_(Durable!durableVars) /\ SentIsStored'
<1>0. Types' /\ outside \subseteq outside'
  BY TypesStep, OutsideGrows
<1>1. StoredPairs \subseteq StoredPairs'
  BY <1>0, StoredGrows
<1>2. ASSUME pushed' = pushed PROVE Durable!Store /\ SentIsStored'
  <2>1. StoredPairs' \subseteq Durable!Pairs /\ Durable!OneEach(StoredPairs')
    <3>1. PICK S, P : S = outside' /\ P = StoredPairs'
      OBVIOUS
    <3>2. S \in SUBSET File
      BY <1>0, <3>1 DEF Types, CheckpointTypeOK, SlotTypeOK
    <3>3. P = IF S = {} THEN {} ELSE Numbers(Newest(S).sha.box)
      BY <3>1 DEF StoredPairs
    <3>4. P \subseteq Durable!Pairs /\ Durable!OneEach(P)
      BY <3>2, <3>3, StoredType
    <3> QED BY <3>1, <3>4
  <2> QED BY <1>1, <1>2, <2>1 DEF Durable!Store, SentIsStored
<1>3. ASSUME NEW h \in Client, Ready(h) PROVE Durable!Push /\ SentIsStored'
  <2>1. pushed' = pushed \cup Numbers(run[h].todo) /\ outside' = outside
    BY <1>3 DEF Ready, slotVars
  <2>2. StoredPairs' = StoredPairs
    BY <2>1 DEF StoredPairs
  <2> QED BY <1>3, <2>1, <2>2, ReadyIsStored DEF Durable!Push, SentIsStored
<1>4. ASSUME NEW h \in Client, HolderStep(h), ~Ready(h) PROVE pushed' = pushed
  BY <1>4 DEF HolderStep, Write, Export, LoseBox, StartWaiting, StartUpload, StartOnto, Accept,
     Rebase, Stop, GiveUp, Break, StopWaiting, Wipe, Fetch, FetchChosen, Restore, RestoreTorn,
     PutInPlace, AbandonRestore, Witness
<1>5. CASE SlotStep \/ UNCHANGED vars
  BY <1>2, <1>5 DEF SlotStep, vars, Durable!DurableNext
<1> QED BY <1>2, <1>3, <1>4, <1>5 DEF Next, Durable!DurableNext

LEMMA SavedInit == Init => Durable!DurableInit /\ SentIsStored /\ Ordered
<1> SUFFICES ASSUME Init PROVE Durable!DurableInit /\ SentIsStored /\ Ordered
  OBVIOUS
<1>1. outside = {} /\ files = {} /\ pushed = {}
  BY DEF Init, SlotInit
<1> QED BY <1>1 DEF Durable!DurableInit, SentIsStored, StoredPairs, Ordered

-----------------------------------------------------------------------------
(* As long as an instance lives: every generation gets a number above all   *)
(* the others, whoever sends it, and is put on the one before.              *)

LEMMA HolderKeepsSlot ==
  ASSUME Types, NEW h \in Client, HolderStep(h)
  PROVE  /\ UNCHANGED <<files, marks, settled, outside, old, redeploys>>
         /\ hand' # Idle => hand # Idle /\ hand'.file = hand.file
<1>1. ASSUME Abandon(h) PROVE hand' # Idle => hand # Idle /\ hand'.file = hand.file
  <2>1. CASE hand = Idle
    BY <1>1, <2>1, SlotAssumption DEF Abandon, Idle
  <2>2. CASE hand # Idle
    <3>1. hand \in [from : Client \cup {Nobody}, file : File]
      BY <2>2, HandFile DEF Types, CheckpointTypeOK
    <3> QED BY <1>1, <2>2, <3>1 DEF Abandon
  <2> QED BY <2>1, <2>2
<1>2. CASE GiveUp(h) \/ Wipe(h)
  BY <1>1, <1>2 DEF GiveUp, Wipe, supervisor
<1>3. CASE ~GiveUp(h) /\ ~Wipe(h)
  BY <1>3 DEF HolderStep, Write, Export, LoseBox, StartWaiting, StartUpload, StartOnto, Accept,
     Rebase, Stop, Break, Ready, StopWaiting, Fetch, FetchChosen, Restore, RestoreTorn,
     PutInPlace, AbandonRestore, Witness, slotVars, server, supervisor
<1> QED BY <1>2, <1>3

LiveInv ==
  /\ settled = "yes" /\ old = {} /\ redeploys = 0
  /\ \A f \in files \cup outside : f.gen <= Current.gen
  /\ \A f, g \in files \cup outside : f.gen = g.gen => f = g
  /\ hand # Idle => hand.file.prev = Current /\ hand.file.gen > Current.gen

\* The directory gets the file in hand, or stays and some of it is mirrored.
Lands(f) ==
  /\ hand # Idle /\ f = hand.file /\ hand' = Idle
  /\ f \in files' /\ files' \subseteq files \cup {f}
  /\ outside' = outside

Mirrors ==
  /\ files' = files
  /\ outside \subseteq outside' /\ outside' \subseteq files \cup outside
  /\ hand' # Idle => \/ hand # Idle /\ hand'.file = hand.file
                     \/ hand'.file.prev = Current /\ hand'.file.gen > Current.gen

LEMMA HandleLive ==
  ASSUME Types, NEW c, NEW r \in Request, Handle(c, r)
  PROVE  files' = files /\ (hand' = hand \/ (hand'.file.prev = Current /\ hand'.file.gen > Current.gen))
<1>1. CASE Scan(c, r)
  <2>1. Current.gen \in Nat /\ r.floor \in Nat
    BY CurrentType DEF Types, CheckpointTypeOK, Name, Request
  <2>2. NextNumber(r) > Current.gen
    BY <2>1 DEF NextNumber, Max2
  <2>3. PICK f : f = [gen |-> NextNumber(r), sha |-> r.sha, prev |-> Current]
    OBVIOUS
  <2>4. hand' = [from |-> c, file |-> f] /\ files' = files
    BY <1>1, <2>3 DEF Scan
  <2> QED BY <2>2, <2>3, <2>4
<1>2. CASE Refuse(c, r) \/ Dedup(c, r) \/ Conflict(c, r)
  BY <1>2 DEF Refuse, Dedup, Conflict, server
<1> QED BY <1>1, <1>2 DEF Handle

\* The newest file is never pruned.
LEMMA PlacedStays ==
  ASSUME NEW S \in SUBSET File, NEW f \in File, \A g \in S : g.gen < f.gen
  PROVE  f \in Pruned(S \cup {f})
<1>1. PICK T : T = S \cup {f}
  OBVIOUS
<1>2. T \in SUBSET File /\ f \in T
  BY <1>1
<1>3. PICK g \in Pruned(T) : f.gen <= g.gen
  BY <1>2, PrunedKeepsNewest
<1>4. g \in T
  BY DEF Pruned
<1>5. g.gen \in Nat /\ f.gen \in Nat
  BY <1>2, <1>4, FileGen
<1>6. g = f
  BY <1>1, <1>3, <1>4, <1>5
<1> QED BY <1>1, <1>3, <1>6

LEMMA LiveStep ==
  ASSUME Types, MaxRedeploys = 0, LiveInv, [Next]_vars
  PROVE  /\ Mirrors \/ Lands(hand.file)
         /\ settled' = "yes" /\ old' = {} /\ redeploys' = 0
<1>0. files \in SUBSET File /\ outside \in SUBSET File
  BY DEF Types, CheckpointTypeOK, SlotTypeOK
<1>1. ASSUME NEW h \in Client, HolderStep(h) PROVE Mirrors /\ settled' = "yes" /\ old' = {} /\ redeploys' = 0
  BY <1>1, HolderKeepsSlot DEF Mirrors, LiveInv
<1>2. CASE UNCHANGED vars
  BY <1>2 DEF vars, slotVars, Mirrors, LiveInv
<1>3. CASE SlotStep
  <2>1. ASSUME NEW c \in Client, Serve(c) PROVE Mirrors /\ settled' = "yes" /\ old' = {} /\ redeploys' = 0
    <3>1. calls[c].req \in Request
      BY <2>1, SentRequest DEF Serve, Types, CheckpointTypeOK, SlotTypeOK
    <3>2. files' = files /\ (hand' = hand \/ (hand'.file.prev = Current /\ hand'.file.gen > Current.gen))
      BY <2>1, <3>1, HandleLive DEF Serve
    <3> QED BY <2>1, <3>2 DEF Serve, supervisor, Mirrors, LiveInv
  <2>2. ASSUME NEW r \in late, ServeLate(r) PROVE Mirrors /\ settled' = "yes" /\ old' = {} /\ redeploys' = 0
    <3>1. r \in Request
      BY DEF Types, CheckpointTypeOK, SlotTypeOK
    <3>2. files' = files /\ (hand' = hand \/ (hand'.file.prev = Current /\ hand'.file.gen > Current.gen))
      BY <2>2, <3>1, HandleLive DEF ServeLate
    <3> QED BY <2>2, <3>2 DEF ServeLate, supervisor, Mirrors, LiveInv
  <2>3. CASE Place
    <3>1. PICK f : f = hand.file
      OBVIOUS
    <3>2. hand # Idle /\ f \in File /\ f.gen > Current.gen
      <4>1. hand \in [from : Client \cup {Nobody}, file : File] /\ hand # Idle
        BY <2>3, HandFile DEF Place, Types, CheckpointTypeOK
      <4> QED BY <3>1, <4>1 DEF LiveInv
    <3>3. \A g \in files : g.gen < f.gen
      <4>1. Current.gen \in Nat /\ \A g \in files : g.gen \in Nat
        BY <1>0, FileGen, CurrentType DEF Types, CheckpointTypeOK, Name
      <4>2. f.gen \in Nat
        BY <3>2, FileGen
      <4> QED BY <3>2, <4>1, <4>2 DEF LiveInv
    <3>4. ~Taken(files, f.gen)
      <4>1. f.gen \in Nat
        BY <3>2, FileGen
      <4> QED BY <3>3, <4>1 DEF Taken
    <3>5. files' = Pruned(files \cup {f}) /\ hand' = Idle /\ UNCHANGED supervisor
      BY <2>3, <3>1, <3>4 DEF Place
    <3>6. f \in files'
      BY <1>0, <3>2, <3>3, <3>5, PlacedStays
    <3>7. files' \subseteq files \cup {f}
      BY <3>5 DEF Pruned
    <3> QED BY <3>1, <3>2, <3>5, <3>6, <3>7 DEF Lands, supervisor, LiveInv
  <2>4. CASE \E f \in files : Mirror(f)
    BY <2>4 DEF Mirror, server, Mirrors, LiveInv
  <2>5. ~(\E f \in outside : PutBack(f)) /\ ~(\E f \in old : MirrorOld(f))
        /\ ~StopOld /\ ~Settle /\ ~SettleByTimeout /\ ~Redeploy
    BY DEF LiveInv, PutBack, MirrorOld, StopOld, Settle, SettleByTimeout, Redeploy
  <2> QED BY <1>3, <2>1, <2>2, <2>3, <2>4, <2>5 DEF SlotStep, ServerStep, SupervisorStep
<1> QED BY <1>1, <1>2, <1>3 DEF Next

\* What lands is the new current generation.
LEMMA LandsCurrent ==
  ASSUME Types, Types', LiveInv, Lands(hand.file)
  PROVE  /\ hand.file \in File /\ hand.file.prev = Current /\ Current' = NameOf(hand.file)
         /\ Current'.gen = hand.file.gen
         /\ \A g \in files \cup outside : g.gen < hand.file.gen
<1>1. PICK f, n, S : f = hand.file /\ n = Current /\ S = files'
  OBVIOUS
<1>2. f \in File /\ f.gen \in Nat /\ f.prev = n /\ f.gen > n.gen
  <2>1. hand \in [from : Client \cup {Nobody}, file : File] /\ hand # Idle
    BY HandFile DEF Lands, Types, CheckpointTypeOK
  <2> QED BY <1>1, <2>1, FileGen DEF LiveInv
<1>3. \A g \in files \cup outside : g.gen < f.gen
  <2>1. n.gen \in Nat /\ \A g \in files \cup outside : g.gen \in Nat
    BY <1>1, FileGen, CurrentType DEF Types, CheckpointTypeOK, SlotTypeOK, Name
  <2> QED BY <1>1, <1>2, <2>1 DEF LiveInv
<1>4. f \in S /\ S \subseteq files \cup {f} /\ S \in SUBSET File
  BY <1>1 DEF Lands, Types, CheckpointTypeOK, SlotTypeOK
<1>5. Newest(S) \in S /\ f.gen <= Newest(S).gen
  BY <1>4, NewestIsNewest
<1>6. Newest(S) = f
  <2>1. Newest(S).gen \in Nat
    BY <1>4, <1>5, FileGen
  <2> QED BY <1>2, <1>3, <1>4, <1>5, <2>1
<1>7. Current' = NameOf(f)
  BY <1>1, <1>4, <1>6 DEF Current, NewestName
<1> QED BY <1>1, <1>2, <1>3, <1>7 DEF NameOf

LEMMA LiveKeeps ==
  ASSUME Types, MaxRedeploys = 0, LiveInv, [Next]_vars
  PROVE  LiveInv'
<1>0. Types' /\ settled' = "yes" /\ old' = {} /\ redeploys' = 0
  BY TypesStep, LiveStep
<1>1. CASE Mirrors
  <2>1. Current' = Current /\ files' \cup outside' = files \cup outside
    BY <1>1 DEF Mirrors, Current
  <2> QED BY <1>0, <1>1, <2>1 DEF Mirrors, LiveInv
<1>2. CASE Lands(hand.file)
  <2>1. PICK f, m : f = hand.file /\ m = f.gen
    OBVIOUS
  <2>2. /\ files' \cup outside' \subseteq files \cup outside \cup {f} /\ Current'.gen = m
        /\ \A g \in files \cup outside : g.gen < m
    BY <1>0, <1>2, <2>1, LandsCurrent DEF Lands
  <2>3. m \in Nat /\ \A g \in files \cup outside : g.gen \in Nat
    <3>1. f \in File
      BY <1>0, <1>2, <2>1, LandsCurrent
    <3> QED BY <2>1, <3>1, FileGen DEF Types, CheckpointTypeOK, SlotTypeOK
  <2>4. \A g \in files' \cup outside' : g.gen <= m
    BY <2>1, <2>2, <2>3
  <2>5. \A x, y \in files' \cup outside' : x.gen = y.gen => x = y
    BY <2>1, <2>2, <2>3 DEF LiveInv
  <2>6. hand' = Idle
    BY <1>2 DEF Lands
  <2> QED BY <1>0, <2>2, <2>4, <2>5, <2>6 DEF LiveInv
<1> QED BY <1>1, <1>2, LiveStep

LEMMA LiveInit == Init => LiveInv
BY DEF Init, SlotInit, LiveInv

LEMMA LiveOrdered ==
  ASSUME Types, MaxRedeploys = 0, LiveInv, OntoInv, Ordered, [Next]_vars
  PROVE  Ordered'
<1>0. Types'
  BY TypesStep
<1>1. CASE Mirrors
  <2>1. files' \cup outside' = files \cup outside
    BY <1>1 DEF Mirrors
  <2> QED BY <2>1 DEF Ordered
<1>2. CASE Lands(hand.file)
  <2>1. PICK f, n : f = hand.file /\ n = Current
    OBVIOUS
  <2>2. /\ f \in File /\ f.prev = n /\ files' \cup outside' \subseteq files \cup outside \cup {f}
        /\ \A g \in files \cup outside : g.gen < f.gen
    BY <1>0, <1>2, <2>1, LandsCurrent DEF Lands
  <2>3. f.gen \in Nat /\ f.sha \in Bundle /\ \A g \in files \cup outside : g \in File /\ g.gen \in Nat /\ g.sha \in Bundle
    BY <2>2, FileGen DEF Types, CheckpointTypeOK, SlotTypeOK, File
  <2>4. n = Empty \/ (n.sha \in Bundle /\ Extends(f.sha, n.sha))
    <3>1. PICK u : u = Upl(f.sha, n)
      OBVIOUS
    <3>2. u \in Uploads /\ u.name = n /\ u.sha = f.sha
      BY <1>2, <2>1, <2>2, <3>1 DEF Lands, Uploads, Held, Upl
    <3> QED BY <3>2 DEF OntoInv, Onto
  <2>5. ASSUME NEW g \in files \cup outside PROVE Extends(f.sha, g.sha)
    <3>1. g.gen <= n.gen /\ g.gen # 0
      BY <2>1 DEF LiveInv, Types, CheckpointTypeOK, SlotTypeOK, File
    <3>2. n # Empty
      BY <2>3, <3>1 DEF Empty
    <3>3. files # {}
      BY <2>1, <3>2 DEF Current, NewestName
    <3>4. PICK w \in files : n = NameOf(w)
      BY <2>1, <3>3, NewestIsNewest DEF Current, NewestName, Types, CheckpointTypeOK, SlotTypeOK
    <3>5. n.gen = w.gen /\ n.sha = w.sha
      BY <3>4 DEF NameOf
    <3>6. Extends(w.sha, g.sha)
      BY <3>1, <3>5 DEF Ordered
    <3>7. PICK x, y, z : x = g.sha /\ y = w.sha /\ z = f.sha
      OBVIOUS
    <3>8. x \in Bundle /\ y \in Bundle /\ z \in Bundle /\ Extends(y, x) /\ Extends(z, y)
      BY <2>3, <2>4, <3>2, <3>5, <3>6, <3>7
    <3>9. Extends(z, x)
      BY <3>8, BundleHasContent, ExtendsThrough
    <3> QED BY <3>7, <3>9
  <2>6. Extends(f.sha, f.sha)
    BY <2>3, BundleHasContent, ExtendsItself
  <2>7. ASSUME NEW x \in files' \cup outside', NEW y \in files' \cup outside', x.gen <= y.gen PROVE Extends(y.sha, x.sha)
    <3>1. CASE x \in files \cup outside /\ y \in files \cup outside
      BY <2>7, <3>1 DEF Ordered
    <3>2. CASE y = f
      BY <2>2, <2>5, <2>6, <3>2
    <3>3. CASE x = f /\ y # f
      BY <2>2, <2>3, <2>7, <3>3
    <3> QED BY <2>2, <3>1, <3>2, <3>3
  <2> QED BY <2>7 DEF Ordered
<1> QED BY <1>1, <1>2, LiveStep

\* What is known of a generation while the instance lives.
KnownIn(n, gen, S) == n.gen <= gen /\ \A f \in S : f.gen = n.gen => f.sha = n.sha
KnownName(n) == KnownIn(n, Current.gen, files \cup outside)
KnownAfter(n) == KnownIn(n, Current'.gen, files' \cup outside')

AckedInv ==
  \A h \in Client :
    /\ \A a \in ToSet(acked[h]) : KnownName(a.name)
    /\ restoring[h] # None => KnownName(restoring[h].name)
    /\ calls[h].phase = "answered" /\ calls[h].status = 200 => KnownName(calls[h].name)

LEMMA KnownStays ==
  ASSUME Types, MaxRedeploys = 0, LiveInv, [Next]_vars, NEW n, n.gen \in Nat, KnownName(n)
  PROVE  KnownAfter(n)
<1>0. Types'
  BY TypesStep
<1>1. CASE Mirrors
  <2>1. Current' = Current /\ files' \cup outside' = files \cup outside
    BY <1>1 DEF Mirrors, Current
  <2> QED BY <2>1 DEF KnownIn, KnownName, KnownAfter
<1>2. CASE Lands(hand.file)
  <2>1. PICK f, m : f = hand.file /\ m = Current.gen
    OBVIOUS
  <2>2. /\ f \in File /\ f.gen > m /\ files' \cup outside' \subseteq files \cup outside \cup {f}
        /\ Current'.gen = f.gen
    BY <1>0, <1>2, <2>1, LandsCurrent DEF Lands, LiveInv
  <2>3. m \in Nat /\ f.gen \in Nat
    BY <2>1, <2>2, FileGen, CurrentType DEF Types, CheckpointTypeOK, Name
  <2>4. n.gen <= m
    BY <2>1 DEF KnownIn, KnownName, KnownAfter
  <2>5. n.gen < f.gen
    BY <2>2, <2>3, <2>4
  <2> QED BY <2>2, <2>3, <2>5 DEF KnownIn, KnownName, KnownAfter
<1> QED BY <1>1, <1>2, LiveStep

\* A generation in the directory is known.
LEMMA FileKnown ==
  ASSUME Types, LiveInv, NEW f \in files
  PROVE  KnownName(NameOf(f))
BY DEF LiveInv, KnownIn, KnownName, NameOf

LEMMA CurrentKnown ==
  ASSUME Types, LiveInv
  PROVE  KnownName(Current)
<1>1. CASE files = {}
  <2>1. Current.gen = 0 /\ Current.gen \in Nat
    BY <1>1 DEF Current, NewestName, Empty
  <2>2. \A f \in files \cup outside : f.gen # 0
    BY DEF Types, CheckpointTypeOK, SlotTypeOK, File
  <2> QED BY <2>1, <2>2 DEF KnownIn, KnownName, KnownAfter
<1>2. CASE files # {}
  <2>1. PICK f \in files : Current = NameOf(f)
    BY <1>2, NewestIsNewest DEF Current, NewestName, Types, CheckpointTypeOK, SlotTypeOK
  <2> QED BY <2>1, FileKnown
<1> QED BY <1>1, <1>2

\* An answer 200 names a generation that is there.
LEMMA AnswersKnown ==
  ASSUME Types, MaxRedeploys = 0, LiveInv, AckedInv, [Next]_vars,
         NEW h \in Client, calls'[h].phase = "answered", calls'[h].status = 200
  PROVE  KnownAfter(calls'[h].name)
<1>0. Types' /\ calls = [k \in Client |-> calls[k]]
  BY TypesStep DEF Types, CheckpointTypeOK, SlotTypeOK
<1>1. ASSUME calls'[h] = calls[h] PROVE KnownAfter(calls'[h].name)
  <2>1. PICK n : n = calls[h].name
    OBVIOUS
  <2>2. n.gen \in Nat
    BY <1>1, <2>1, AnsweredName DEF Types, CheckpointTypeOK, SlotTypeOK, Name
  <2>3. KnownName(n)
    BY <1>1, <2>1 DEF AckedInv
  <2>4. KnownAfter(n)
    BY <2>2, <2>3, KnownStays
  <2> QED BY <1>1, <2>1, <2>4
<1>2. ASSUME NEW c, NEW r, Handle(c, r) PROVE KnownAfter(calls'[h].name)
  <2>1. PICK n : n = Current
    OBVIOUS
  <2>2. n.gen \in Nat /\ KnownName(n)
    BY <2>1, CurrentType, CurrentKnown DEF Types, CheckpointTypeOK, Name
  <2>3. KnownAfter(n)
    BY <2>2, KnownStays
  <2>4. calls'[h] = calls[h] \/ calls'[h] = Served \/ \E status : calls'[h] = Answer(status, n)
    BY <1>0, <1>2, <2>1 DEF Handle, Refuse, Scan, Dedup, Conflict, Reply
  <2>5. CASE \E status : calls'[h] = Answer(status, n)
    BY <2>3, <2>5, Phases
  <2> QED BY <1>1, <2>4, <2>5, Phases
<1>3. CASE SlotStep
  <2>1. CASE (\E c \in Client : Serve(c)) \/ (\E r \in late : ServeLate(r))
    BY <1>2, <2>1 DEF Serve, ServeLate
  <2>2. CASE Place
    <3>1. PICK f, c : f = hand.file /\ c = hand.from
      OBVIOUS
    <3>2. hand # Idle /\ f \in File
      <4>1. hand \in [from : Client \cup {Nobody}, file : File] /\ hand # Idle
        BY <2>2, HandFile DEF Place, Types, CheckpointTypeOK
      <4> QED BY <3>1, <4>1
    <3>3. CASE Taken(files, f.gen)
      <4>1. Reply(c, 409, Current)
        BY <2>2, <3>1, <3>3 DEF Place
      <4>2. calls'[h] = calls[h] \/ calls'[h] = Answer(409, Current)
        BY <1>0, <4>1 DEF Reply
      <4> QED BY <1>1, <4>2, Phases
    <3>4. CASE ~Taken(files, f.gen)
      <4>1. PICK n : n = NameOf(f)
        OBVIOUS
      <4>2. Reply(c, 200, n) /\ files' = Pruned(files \cup {f}) /\ hand' = Idle /\ outside' = outside
        BY <2>2, <3>1, <3>4, <4>1 DEF Place, supervisor
      <4>3. calls'[h] = calls[h] \/ calls'[h] = Answer(200, n)
        BY <1>0, <4>2 DEF Reply
      <4>4. \A g \in files : g.gen < f.gen
        <5>1. Current.gen \in Nat /\ \A g \in files : g.gen \in Nat
          BY FileGen, CurrentType DEF Types, CheckpointTypeOK, SlotTypeOK, Name
        <5>2. f.gen \in Nat /\ f.gen > Current.gen
          BY <3>1, <3>2, FileGen DEF LiveInv
        <5> QED BY <5>1, <5>2 DEF LiveInv
      <4>5. f \in files'
        BY <3>2, <4>2, <4>4, PlacedStays DEF Types, CheckpointTypeOK, SlotTypeOK
      <4>6. LiveInv'
        BY LiveKeeps
      <4>7. \A g \in files' \cup outside' : g.gen = n.gen => g.sha = n.sha
        BY <4>1, <4>5, <4>6 DEF LiveInv, NameOf
      <4>8. n.gen <= Current'.gen
        BY <4>1, <4>5, <4>6 DEF LiveInv, NameOf
      <4>9. KnownAfter(n)
        BY <4>7, <4>8 DEF KnownIn, KnownAfter
      <4> QED BY <1>1, <4>3, <4>9, Phases
    <3> QED BY <3>3, <3>4
  <2>3. CASE SupervisorStep
    <3>1. calls' = calls
      BY <2>3 DEF SupervisorStep, Mirror, PutBack, MirrorOld, StopOld, Settle, SettleByTimeout,
                  Redeploy, network, LiveInv
    <3> QED BY <1>1, <3>1
  <2> QED BY <1>3, <2>1, <2>2, <2>3 DEF SlotStep, ServerStep
<1>4. ASSUME NEW k \in Client, HolderStep(k) PROVE calls'[h] = calls[h]
  <2>1. CASE k # h
    BY <1>4, <2>1, OthersStay
  <2>2. CASE k = h
    <3>1. calls' = calls \/ calls' = [calls EXCEPT ![h] = NoCall] \/ \E r : calls' = [calls EXCEPT ![h] = Sent(r)]
      BY <1>4, <2>2 DEF HolderStep, Write, Export, LoseBox, StartWaiting, StartUpload, StartOnto, Accept,
         Rebase, Stop, GiveUp, Break, Ready, StopWaiting, Wipe, Fetch, FetchChosen, Restore, RestoreTorn,
         PutInPlace, AbandonRestore, Witness, slotVars, Upload, Send, Abandon
    <3> QED BY <1>0, <3>1, Phases
  <2> QED BY <2>1, <2>2
<1>5. CASE UNCHANGED vars
  BY <1>1, <1>5 DEF vars, slotVars
<1> QED BY <1>1, <1>3, <1>4, <1>5 DEF Next

LEMMA AckedStep ==
  ASSUME Types, CallInv, MaxRedeploys = 0, LiveInv, AckedInv, [Next]_vars
  PROVE  AckedInv'
<1>0. /\ acked = [k \in Client |-> acked[k]] /\ restoring = [k \in Client |-> restoring[k]]
      /\ ToSet(<<>>) = {} /\ files \in SUBSET File
  BY DEF Types, CheckpointTypeOK, SlotTypeOK, ToSet
<1>1. ASSUME NEW n, n.gen \in Nat, KnownName(n) PROVE KnownAfter(n)
  BY <1>1, KnownStays
<1>2. ASSUME NEW h \in Client, NEW a \in ToSet(acked[h]) PROVE KnownName(a.name) /\ a.name.gen \in Nat
  <2>1. a.name \in Name
    BY AckedContent DEF RecordLine
  <2> QED BY <2>1 DEF AckedInv, Name
<1>3. ASSUME NEW h \in Client, restoring[h] # None
      PROVE  KnownName(restoring[h].name) /\ restoring[h].name.gen \in Nat
  <2>1. restoring[h] \in Fetching
    BY <1>3 DEF Types, CheckpointTypeOK
  <2> QED BY <1>3, <2>1 DEF AckedInv, Fetching
<1>4. ASSUME NEW h \in Client, acked'[h] = acked[h] \/ acked'[h] = <<>>, NEW a \in ToSet(acked'[h])
      PROVE  KnownAfter(a.name)
  <2>1. a \in ToSet(acked[h])
    BY <1>0, <1>4
  <2> QED BY <1>1, <1>2, <2>1
<1>5. ASSUME NEW h \in Client, NEW a \in ToSet(acked'[h]) PROVE KnownAfter(a.name)
  <2>1. CASE SlotStep \/ UNCHANGED vars
    BY <1>4, <1>5, <2>1 DEF SlotStep, record, vars
  <2>2. ASSUME NEW k \in Client, k # h, HolderStep(k) PROVE KnownAfter(a.name)
    BY <1>4, <1>5, <2>2, OthersStay
  <2>3. ASSUME HolderStep(h), ~Accept(h), ~Restore(h) PROVE KnownAfter(a.name)
    <3>1. acked' = acked \/ acked' = [acked EXCEPT ![h] = <<>>]
      BY <2>3 DEF HolderStep, Write, Export, LoseBox, StartWaiting, StartUpload, StartOnto,
         Rebase, Stop, GiveUp, Break, Ready, StopWaiting, Wipe, Fetch, FetchChosen, RestoreTorn,
         PutInPlace, AbandonRestore, Witness, record
    <3> QED BY <1>0, <1>4, <1>5, <3>1
  <2>4. CASE Accept(h)
    <3>1. CASE a \in ToSet(acked[h])
      BY <1>1, <1>2, <3>1
    <3>2. CASE a = [name |-> AcceptedName(h), content |-> pending[h].content]
      <4>1. /\ calls[h].phase = "answered" /\ calls[h].status = 200 /\ calls[h].name \in Name
            /\ pending[h] # None
        BY <2>4, AcceptIs, AttemptNotNone
      <4>2. PICK n : n = calls[h].name
        OBVIOUS
      <4>3. n = NamedAs(pending[h].sha)
        BY <4>1, <4>2 DEF CallInv, CallHolds
      <4>4. AcceptedName(h) = n
        BY <4>2, <4>3 DEF AcceptedName, NamedAs
      <4>5. KnownName(n) /\ n.gen \in Nat
        BY <4>1, <4>2 DEF AckedInv, Name
      <4>6. KnownAfter(n)
        BY <1>1, <4>5
      <4>7. a.name = n
        BY <3>2, <4>4
      <4> QED BY <4>6, <4>7
    <3> QED BY <1>5, <2>4, <3>1, <3>2, AcceptedLines
  <2>5. CASE Restore(h)
    <3>1. PICK n, c : n = restoring[h].name /\ c = Known(n.sha)
      OBVIOUS
    <3>2. acked'[h] = <<[name |-> n, content |-> c]>> /\ restoring[h] # None
      BY <1>0, <2>5, <3>1 DEF Restore, PutInPlace
    <3>3. a.name = n
      BY <1>5, <3>2 DEF ToSet
    <3>4. KnownAfter(n)
      BY <1>1, <1>3, <3>1, <3>2
    <3> QED BY <3>3, <3>4
  <2> QED BY <2>1, <2>2, <2>3, <2>4, <2>5 DEF Next
<1>6. ASSUME NEW h \in Client, restoring'[h] # None PROVE KnownAfter(restoring'[h].name)
  <2>1. ASSUME restoring[h] # None, restoring'[h].name = restoring[h].name PROVE KnownAfter(restoring'[h].name)
    <3>1. PICK n : n = restoring[h].name
      OBVIOUS
    <3>2. KnownAfter(n)
      BY <1>1, <1>3, <2>1, <3>1
    <3> QED BY <2>1, <3>1, <3>2
  <2>2. ASSUME NEW f \in files, restoring'[h].name = NameOf(f) PROVE KnownAfter(restoring'[h].name)
    <3>1. PICK n : n = NameOf(f)
      OBVIOUS
    <3>2. KnownName(n) /\ n.gen \in Nat
      BY <1>0, <3>1, FileKnown, FileGen DEF NameOf
    <3>3. KnownAfter(n)
      BY <1>1, <3>2
    <3> QED BY <2>2, <3>1, <3>3
  <2>3. CASE SlotStep \/ UNCHANGED vars
    BY <1>6, <2>1, <2>3 DEF SlotStep, vars
  <2>4. ASSUME NEW k \in Client, k # h, HolderStep(k) PROVE KnownAfter(restoring'[h].name)
    BY <1>6, <2>1, <2>4, OthersStay
  <2>5. CASE HolderStep(h)
    <3>1. CASE Fetch(h)
      <4>1. PICK left : restoring' = [restoring EXCEPT ![h] = Fetched(Current, left)]
        BY <3>1 DEF Fetch
      <4>2. restoring'[h].name = Current
        BY <1>0, <4>1 DEF Fetched
      <4>3. Current = NameOf(Newest(files)) /\ Newest(files) \in files
        BY <1>0, <3>1, NewestIsNewest DEF Fetch, Current, NewestName
      <4> QED BY <2>2, <4>2, <4>3
    <3>2. CASE FetchChosen(h)
      <4>1. PICK f \in files : restoring' = [restoring EXCEPT ![h] = Fetched(NameOf(f), {})]
        BY <3>2 DEF FetchChosen
      <4>2. restoring'[h].name = NameOf(f)
        BY <1>0, <4>1 DEF Fetched
      <4> QED BY <2>2, <4>2
    <3>3. ASSUME NEW n \in 1 .. MaxGeneration, Witness(h, n) PROVE KnownAfter(restoring'[h].name)
      <4>1. restoring[h] # None /\ restoring' = [restoring EXCEPT ![h].left = @ \ {n}]
        BY <1>0, <1>6, <3>3 DEF Witness
      <4>2. restoring[h] \in Fetching
        BY <4>1 DEF Types, CheckpointTypeOK
      <4>3. restoring'[h].name = restoring[h].name
        BY <1>0, <4>1, <4>2 DEF Fetching
      <4> QED BY <2>1, <4>1, <4>3
    <3>4. CASE Restore(h) \/ RestoreTorn(h) \/ AbandonRestore(h)
      BY <1>0, <1>6, <3>4 DEF Restore, RestoreTorn, PutInPlace, AbandonRestore
    <3>5. ASSUME HolderStep(h), ~Fetch(h), ~FetchChosen(h), ~Restore(h), ~RestoreTorn(h), ~AbandonRestore(h),
                 ~(\E n \in 1 .. MaxGeneration : Witness(h, n))
          PROVE  restoring' = restoring
      BY <3>5 DEF HolderStep, Write, Export, LoseBox, StartWaiting, StartUpload, StartOnto, Accept,
         Rebase, Stop, GiveUp, Break, Ready, StopWaiting, Wipe
    <3> QED BY <1>6, <2>1, <2>5, <3>1, <3>2, <3>3, <3>4, <3>5
  <2> QED BY <2>3, <2>4, <2>5 DEF Next
<1> QED BY <1>5, <1>6, AnswersKnown DEF AckedInv, KnownName, KnownAfter

LEMMA AckedInit == Init => AckedInv
<1> SUFFICES ASSUME Init, NEW h \in Client PROVE acked[h] = <<>> /\ restoring[h] = None /\ calls[h] = NoCall
  BY Phases DEF AckedInv, ToSet
<1> QED BY DEF Init, SlotInit

-----------------------------------------------------------------------------
(* One holder whose disk is not lost.  Every number it sends is above all   *)
(* the numbers it has ever sent, whatever happens to the instance, so a     *)
(* number names one upload, wherever that is.                               *)

FounderInv ==
  /\ up[Founder]
  /\ \A k \in Client : restoring[k] = None
  /\ \A k \in Client \ {Founder} : ~up[k] /\ acked[k] = <<>>

LEMMA OnlyFounderMoves ==
  ASSUME Types, CallInv, RunInv, SoleHolder, MaxWipes = 0, FounderInv, NEW h \in Client, HolderStep(h)
  PROVE  /\ h = Founder
         /\ ~Wipe(h) /\ ~Fetch(h) /\ ~FetchChosen(h) /\ ~Restore(h) /\ ~RestoreTorn(h) /\ ~AbandonRestore(h)
         /\ ~(\E n \in 1 .. MaxGeneration : Witness(h, n))
<1>0. Founder \in Client
  BY CheckpointAssumption
<1>1. ~Wipe(h)
  BY DEF Wipe, Types, CheckpointTypeOK
<1>2. ~MayRestore(h)
  <2>1. CASE h = Founder
    BY <2>1 DEF MayRestore, FounderInv
  <2>2. CASE h # Founder
    <3>1. Founder \in Others(h) /\ up[Founder]
      BY <1>0, <2>2 DEF Others, FounderInv
    <3> QED BY <3>1 DEF MayRestore
  <2> QED BY <2>1, <2>2
<1>3. restoring[h] = None
  BY DEF FounderInv
<1>4. /\ ~Fetch(h) /\ ~FetchChosen(h) /\ ~Restore(h) /\ ~RestoreTorn(h) /\ ~AbandonRestore(h)
      /\ ~(\E n \in 1 .. MaxGeneration : Witness(h, n))
  BY <1>2, <1>3 DEF Fetch, FetchChosen, Restore, RestoreTorn, PutInPlace, AbandonRestore, Witness
<1>5. ASSUME h # Founder PROVE FALSE
  <2>1. ~up[h] /\ run[h] = Rest
    BY <1>5 DEF FounderInv, RunInv, RunHolds
  <2>2. run[h].pc = "rest"
    BY <2>1 DEF Rest
  <2>3. calls[h].phase = "none"
    BY <2>2, Phases DEF CallInv, CallHolds
  <2> QED BY <1>1, <1>4, <2>1, <2>2, <2>3
          DEF HolderStep, Write, Export, LoseBox, StartWaiting, StartUpload, StartOnto, Accept,
              Rebase, Stop, GiveUp, Break, Ready, StopWaiting, Unlocked, Answered
<1> QED BY <1>1, <1>4, <1>5

LEMMA FounderStep ==
  ASSUME Types, CallInv, RunInv, SoleHolder, MaxWipes = 0, FounderInv, [Next]_vars
  PROVE  FounderInv'
<1>1. ASSUME UNCHANGED <<up, restoring>>, \A k \in Client \ {Founder} : acked'[k] = acked[k] PROVE FounderInv'
  BY <1>1 DEF FounderInv
<1>2. ASSUME NEW h \in Client, HolderStep(h) PROVE FounderInv'
  <2>1. /\ h = Founder
        /\ ~Wipe(h) /\ ~Fetch(h) /\ ~FetchChosen(h) /\ ~Restore(h) /\ ~RestoreTorn(h) /\ ~AbandonRestore(h)
        /\ ~(\E n \in 1 .. MaxGeneration : Witness(h, n))
    BY <1>2, OnlyFounderMoves
  <2>2. UNCHANGED <<up, restoring>>
    BY <1>2, <2>1 DEF HolderStep, Write, Export, LoseBox, StartWaiting, StartUpload, StartOnto, Accept,
       Rebase, Stop, GiveUp, Break, Ready, StopWaiting, ledger
  <2>3. \A k \in Client \ {Founder} : acked'[k] = acked[k]
    BY <1>2, <2>1, OthersStay
  <2> QED BY <1>1, <2>2, <2>3
<1>3. CASE SlotStep \/ UNCHANGED vars
  BY <1>1, <1>3 DEF SlotStep, ledger, record, vars
<1> QED BY <1>2, <1>3 DEF Next

LEMMA FounderInit == Init => FounderInv
BY CheckpointAssumption DEF Init, FounderInv

\* A holder that keeps its disk never lowers its floor.
LEMMA FloorGrows ==
  ASSUME Types, NEW h \in Client, HolderStep(h), ~Wipe(h), ~Restore(h)
  PROVE  floor'[h] >= floor[h]
<1>0. floor = [k \in Client |-> floor[k]] /\ floor[h] \in Nat
  BY DEF Types, CheckpointTypeOK
<1>1. ASSUME floor' = floor PROVE floor'[h] >= floor[h]
  BY <1>0, <1>1
<1>2. ASSUME NEW name \in Name, NEW fl \in Nat, NEW over \in BOOLEAN, NEW stamp \in Stamp,
             fl >= floor[h], SendsNew(h, name, fl, over, stamp)
      PROVE  floor'[h] >= floor[h]
  <2>1. PICK a : a = Attempt(h, name, fl, over, stamp)
    OBVIOUS
  <2>2. a.sha.gen > fl /\ a \in AttemptType
    BY <2>1, AttemptIs
  <2>3. a.sha.gen \in Nat
    BY <2>2 DEF AttemptType, Bundle
  <2>4. floor'[h] = a.sha.gen
    BY <1>0, <1>2, <2>1 DEF SendsNew
  <2> QED BY <1>0, <1>2, <2>2, <2>3, <2>4
<1>3. CASE Starts(h)
  <2>1. CASE SendsAgain(h)
    BY <1>1, <2>1 DEF SendsAgain
  <2>2. CASE \E name \in Name, over \in BOOLEAN, stamp \in Stamp : SendsNew(h, name, floor[h], over, stamp)
    <3>1. PICK fl : fl = floor[h]
      OBVIOUS
    <3>2. fl \in Nat /\ fl >= floor[h]
      BY <1>0, <3>1
    <3> QED BY <1>2, <2>2, <3>1, <3>2
  <2> QED BY <1>3, <2>1, <2>2, StartsIs
<1>4. CASE Rebase(h)
  <2>1. PICK fl, over : fl = floor[h] /\ over = FALSE
    OBVIOUS
  <2>2. fl \in Nat /\ fl >= floor[h]
    BY <1>0, <2>1
  <2>3. over \in BOOLEAN
    BY <2>1, Zenon
  <2>4. \E name \in Name, stamp \in Stamp : SendsNew(h, name, fl, over, stamp)
    <3>1. PICK name \in Name, stamp \in Stamp :
             SendsNew(h, name, floor[h], FALSE, stamp) /\ Ground(h, name)
      BY <1>4, RebaseIs
    <3> QED BY <2>1, <3>1, Zenon
  <2> QED BY <1>2, <2>2, <2>3, <2>4
<1>5. CASE Accept(h)
  <2>1. PICK name, fl, over : /\ name = AcceptedName(h) /\ over = FALSE
                              /\ fl = Max2(floor[h], calls[h].name.gen)
    OBVIOUS
  <2>2. calls[h].name.gen \in Nat /\ name \in Name
    BY <1>5, <2>1, AcceptIs DEF Name
  <2>3. fl \in Nat /\ fl >= floor[h]
    BY <1>0, <2>1, <2>2 DEF Max2
  <2>4. over \in BOOLEAN
    BY <2>1, Zenon
  <2>5. CASE \E stamp \in Stamp :
                SendsNew(h, AcceptedName(h), Max2(floor[h], calls[h].name.gen), FALSE, stamp)
    <3>1. \E stamp \in Stamp : SendsNew(h, name, fl, over, stamp)
      BY <2>1, <2>5, Zenon
    <3> QED BY <1>2, <2>2, <2>3, <2>4, <3>1
  <2>6. CASE floor' = [floor EXCEPT ![h] = Max2(floor[h], calls[h].name.gen)]
    BY <1>0, <2>1, <2>3, <2>6
  <2> QED BY <1>5, <2>5, <2>6, AcceptIs
<1>6. CASE ~Starts(h) /\ ~Rebase(h) /\ ~Accept(h)
  <2>1. floor' = floor
    BY <1>6 DEF HolderStep, Starts, Write, Export, LoseBox, StartWaiting, Stop, GiveUp, Break, Ready,
       StopWaiting, Fetch, FetchChosen, RestoreTorn, AbandonRestore, Witness, record
  <2> QED BY <1>1, <2>1
<1> QED BY <1>3, <1>4, <1>5, <1>6

UniqueInv ==
  /\ \A u, v \in Uploads : u.sha.gen = v.sha.gen => u = v
  /\ \A u \in Uploads : u.sha.gen <= floor[Founder]

\* What one step of the holder does to its uploads and its floor.
LEMMA FounderMakes ==
  ASSUME Types, CallInv, RunInv, SoleHolder, MaxWipes = 0, FounderInv, UniqueInv, [Next]_vars
  PROVE  /\ floor[Founder] \in Nat /\ floor'[Founder] \in Nat /\ floor'[Founder] >= floor[Founder]
         /\ \/ Uploads' \subseteq Uploads
            \/ \E u : /\ Uploads' \subseteq Uploads \cup {u}
                      /\ u.sha.gen = floor'[Founder] /\ u.sha.gen > floor[Founder]
                      /\ u.sha \in Bundle
                      /\ u.sha.events = events'[Founder] /\ u.sha.box = box'[Founder]
<1>0. Founder \in Client /\ floor[Founder] \in Nat /\ floor'[Founder] \in Nat
  BY TypesStep, CheckpointAssumption DEF Types, CheckpointTypeOK
<1>1. CASE SlotStep
  BY <1>0, <1>1, UploadsSlot DEF SlotStep, record
<1>2. CASE UNCHANGED vars
  <2>1. Uploads' = Uploads /\ floor' = floor
    BY <1>2 DEF vars, slotVars, record, Uploads, Noting, OnTheWay, Delayed, Filed, Held
  <2> QED BY <1>0, <2>1
<1>3. ASSUME NEW h \in Client, HolderStep(h)
      PROVE  /\ floor'[Founder] >= floor[Founder]
             /\ \/ Uploads' \subseteq Uploads
                \/ \E u : /\ Uploads' \subseteq Uploads \cup {u}
                          /\ u.sha.gen = floor'[Founder] /\ u.sha.gen > floor[Founder]
                          /\ u.sha \in Bundle
                          /\ u.sha.events = events'[Founder] /\ u.sha.box = box'[Founder]
  <2>1. h = Founder /\ ~Wipe(h) /\ ~Restore(h)
    BY <1>3, OnlyFounderMoves
  <2>2. floor'[Founder] >= floor[Founder]
    BY <1>3, <2>1, FloorGrows
  <2>3. ASSUME NEW name, NEW fl, NEW over, NEW stamp, Makes(h, name, fl, over, stamp)
        PROVE  \E u : /\ Uploads' \subseteq Uploads \cup {u}
                      /\ u.sha.gen = floor'[h] /\ u.sha.gen > floor[h]
                      /\ u.sha \in Bundle
                      /\ u.sha.events = events'[h] /\ u.sha.box = box'[h]
    <3>1. PICK a, u : a = Attempt(h, name, fl, over, stamp) /\ u = Upl(a.sha, name)
      OBVIOUS
    <3>2. /\ name \in Name /\ fl \in Nat /\ over \in BOOLEAN /\ stamp \in Stamp /\ fl >= floor[h]
          /\ SendsNew(h, name, fl, over, stamp) /\ Aside
      BY <2>3 DEF Makes
    <3>3. Uploads' \subseteq Uploads \cup {u}
      BY <2>3, <3>1, UploadsNew
    <3>4. a \in AttemptType /\ a.sha.gen > fl /\ a.sha.events = events[h] /\ a.sha.box = box[h]
      BY <3>1, <3>2, AttemptIs
    <3>5. floor'[h] = a.sha.gen
      BY <3>1, <3>2 DEF SendsNew, Types, CheckpointTypeOK
    <3>6. a.sha \in Bundle /\ a.sha.gen \in Nat /\ floor[h] \in Nat
      BY <3>4 DEF AttemptType, Bundle, Types, CheckpointTypeOK
    <3>7. a.sha.gen > floor[h]
      BY <3>2, <3>4, <3>6
    <3>8. u.sha = a.sha /\ events' = events /\ box' = box
      BY <3>1, <3>2 DEF Upl, Aside, ledger
    <3> QED BY <3>3, <3>4, <3>5, <3>6, <3>7, <3>8
  <2> QED BY <1>3, <2>1, <2>2, <2>3, HolderMakes
<1> QED BY <1>0, <1>1, <1>2, <1>3 DEF Next

LEMMA UniqueStep ==
  ASSUME Types, CallInv, RunInv, SoleHolder, MaxWipes = 0, FounderInv, UniqueInv, [Next]_vars
  PROVE  UniqueInv'
<1>0. floor[Founder] \in Nat /\ floor'[Founder] \in Nat /\ floor'[Founder] >= floor[Founder]
  BY FounderMakes
<1>1. \A u \in Uploads : u.sha.gen \in Nat /\ u.sha.gen <= floor[Founder]
  BY UploadsType DEF UniqueInv
<1>2. CASE Uploads' \subseteq Uploads
  BY <1>0, <1>1, <1>2 DEF UniqueInv
<1>3. ASSUME NEW u, Uploads' \subseteq Uploads \cup {u}, u.sha.gen = floor'[Founder], u.sha.gen > floor[Founder]
      PROVE  UniqueInv'
  <2>1. \A v \in Uploads : v.sha.gen < u.sha.gen
    BY <1>0, <1>1, <1>3
  <2>2. \A v, w \in Uploads' : v.sha.gen = w.sha.gen => v = w
    BY <1>0, <1>1, <1>3, <2>1 DEF UniqueInv
  <2>3. \A v \in Uploads' : v.sha.gen <= floor'[Founder]
    BY <1>0, <1>1, <1>3, <2>1
  <2> QED BY <2>2, <2>3 DEF UniqueInv
<1> QED BY <1>2, <1>3, FounderMakes

LEMMA NoUploadsYet == Init => Uploads = {}
BY DEF Init, SlotInit, Uploads, Noting, OnTheWay, Delayed, Filed, Held, NoCall

LEMMA UniqueIsOne ==
  ASSUME Types, Predicted, UniqueInv
  PROVE  GenerationNamesOneBundle
<1> SUFFICES ASSUME NEW f \in files \cup outside \cup old, NEW g \in files \cup outside \cup old, f.gen = g.gen
             PROVE  f = g
  BY DEF GenerationNamesOneBundle
<1>1. f.sha.gen = f.gen /\ g.sha.gen = g.gen
  BY DEF Predicted, BundleKnowsItsNumber
<1>2. PICK u, v : u = Upl(f.sha, f.prev) /\ v = Upl(g.sha, g.prev)
  OBVIOUS
<1>3. u \in Uploads /\ v \in Uploads /\ u.sha = f.sha /\ v.sha = g.sha /\ u.name = f.prev /\ v.name = g.prev
  BY <1>2 DEF Upl, Uploads, Filed
<1>4. u = v
  BY <1>1, <1>3 DEF UniqueInv
<1>5. f.sha = g.sha /\ f.prev = g.prev
  BY <1>3, <1>4
<1>6. f \in File /\ g \in File
  BY DEF Types, CheckpointTypeOK, SlotTypeOK
<1>7. f.gen = g.gen
  OBVIOUS
<1> QED BY <1>5, <1>6, <1>7 DEF File

\* What the record says was accepted: lines, among uploads, below a floor.
LineKnown(a, U, fl) ==
  /\ a.name = NamedAs(a.name.sha) /\ a.name.gen \in Nat /\ a.name.gen <= fl
  /\ \A u \in U : u.sha.gen = a.name.gen => u.sha = a.name.sha

LinesInv == \A a \in ToSet(acked[Founder]) : LineKnown(a, Uploads, floor[Founder])

LEMMA LinesStep ==
  ASSUME Types, CallInv, RunInv, SoleHolder, MaxWipes = 0, FounderInv, UniqueInv, LinesInv, [Next]_vars
  PROVE  LinesInv'
<1>0. /\ floor[Founder] \in Nat /\ floor'[Founder] \in Nat /\ floor'[Founder] >= floor[Founder]
      /\ \/ Uploads' \subseteq Uploads
         \/ \E u : /\ Uploads' \subseteq Uploads \cup {u}
                   /\ u.sha.gen = floor'[Founder] /\ u.sha.gen > floor[Founder]
  BY FounderMakes
<1>1. ASSUME NEW a, LineKnown(a, Uploads, floor[Founder]) PROVE LineKnown(a, Uploads', floor'[Founder])
  <2>1. a.name.gen \in Nat /\ a.name.gen <= floor'[Founder]
    BY <1>0, <1>1 DEF LineKnown
  <2>2. ASSUME NEW u \in Uploads', u.sha.gen = a.name.gen PROVE u \in Uploads
    BY <1>0, <1>1, <2>2 DEF LineKnown
  <2>3. a.name = NamedAs(a.name.sha) /\ \A u \in Uploads : u.sha.gen = a.name.gen => u.sha = a.name.sha
    BY <1>1 DEF LineKnown
  <2> QED BY <2>1, <2>2, <2>3 DEF LineKnown
<1>2. ASSUME NEW a \in ToSet(acked'[Founder]) PROVE LineKnown(a, Uploads, floor[Founder])
  <2>1. ASSUME a \in ToSet(acked[Founder]) PROVE LineKnown(a, Uploads, floor[Founder])
    BY <2>1 DEF LinesInv
  <2>2. CASE SlotStep \/ UNCHANGED vars
    BY <1>2, <2>1, <2>2 DEF SlotStep, record, vars
  <2>3. ASSUME NEW h \in Client, HolderStep(h) PROVE LineKnown(a, Uploads, floor[Founder])
    <3>1. h = Founder /\ ~Wipe(h) /\ ~Restore(h) /\ ~RestoreTorn(h)
      BY <2>3, OnlyFounderMoves
    <3>2. CASE ~Accept(h)
      <4>1. acked' = acked
        BY <2>3, <3>1, <3>2 DEF HolderStep, Write, Export, LoseBox, StartWaiting, StartUpload, StartOnto,
           Rebase, Stop, GiveUp, Break, Ready, StopWaiting, Fetch, FetchChosen, AbandonRestore, Witness, record
      <4> QED BY <1>2, <2>1, <4>1
    <3>3. CASE Accept(h)
      <4>1. a \in ToSet(acked[h]) \/ a = [name |-> AcceptedName(h), content |-> pending[h].content]
        BY <1>2, <3>1, <3>3, AcceptedLines
      <4>2. CASE a = [name |-> AcceptedName(h), content |-> pending[h].content]
        <5>1. PICK p : p = pending[h]
          OBVIOUS
        <5>2. /\ calls[h].phase = "answered" /\ calls[h].status = 200 /\ p \in AttemptType /\ p # None
          BY <3>3, <5>1, AcceptIs, AttemptNotNone
        <5>3. calls[h].name = NamedAs(p.sha)
          BY <5>1, <5>2 DEF CallInv, CallHolds
        <5>4. a.name = NamedAs(p.sha)
          <6>1. a.name = AcceptedName(h)
            BY <4>2
          <6>2. AcceptedName(h) = NamedAs(p.sha)
            BY <5>1, <5>3 DEF AcceptedName, NamedAs
          <6> QED BY <6>1, <6>2
        <5>5. a.name.sha = p.sha /\ a.name.gen = p.sha.gen
          BY <5>4 DEF NamedAs
        <5>6. PICK u : u = Upl(p.sha, p.expect)
          OBVIOUS
        <5>7. u \in Uploads /\ u.sha = p.sha
          BY <5>1, <5>2, <5>6 DEF Upl, Uploads, Noting
        <5>8. u.sha.gen \in Nat /\ u.sha.gen <= floor[Founder]
          BY <5>7, UploadsType DEF UniqueInv
        <5>9. \A v \in Uploads : v.sha.gen = a.name.gen => v.sha = a.name.sha
          BY <5>5, <5>7 DEF UniqueInv
        <5> QED BY <5>4, <5>5, <5>7, <5>8, <5>9 DEF LineKnown
      <4> QED BY <2>1, <3>1, <4>1, <4>2
    <3> QED BY <3>2, <3>3
  <2> QED BY <2>2, <2>3 DEF Next
<1> QED BY <1>1, <1>2 DEF LinesInv

\* All uploads are parts of one history, at whose end is the ledger of the holder.
HistoryInv ==
  /\ \A u, v \in Uploads : u.sha.gen <= v.sha.gen => Extends(v.sha, u.sha)
  /\ \A u \in Uploads : Extends(ContentOf(Founder), u.sha)

LEMMA HistoryStep ==
  ASSUME Types, CallInv, RunInv, SoleHolder, MaxWipes = 0, MaxBoxLosses = 0, FounderInv, UniqueInv, HistoryInv,
         [Next]_vars
  PROVE  HistoryInv'
<1>0. Founder \in Client /\ Types'
  BY CheckpointAssumption, TypesStep
<1>1. PICK x, y : x = ContentOf(Founder) /\ y = ContentOf(Founder)'
  OBVIOUS
<1>2. HasContent(x) /\ HasContent(y) /\ Extends(y, x)
  <2>1. CASE SlotStep \/ UNCHANGED vars
    <3>1. y = x
      BY <1>1, <2>1 DEF SlotStep, ledger, vars, ContentOf
    <3>2. HasContent(x)
      BY <1>0, <1>1, ContentType DEF Types, Content, HasContent
    <3> QED BY <3>1, <3>2, ExtendsItself
  <2>2. ASSUME NEW h \in Client, HolderStep(h) PROVE HasContent(x) /\ HasContent(y) /\ Extends(y, x)
    <3>1. h = Founder /\ ~Wipe(h) /\ ~Restore(h) /\ ~RestoreTorn(h)
      BY <2>2, OnlyFounderMoves
    <3> QED BY <1>1, <2>2, <3>1, ContentGrows
  <2> QED BY <2>1, <2>2 DEF Next
<1>3. \A u \in Uploads : HasContent(u.sha) /\ Extends(y, u.sha) /\ u.sha.gen \in Nat /\ u.sha.gen <= floor[Founder]
  <2> SUFFICES ASSUME NEW u \in Uploads
               PROVE  HasContent(u.sha) /\ Extends(y, u.sha) /\ u.sha.gen \in Nat /\ u.sha.gen <= floor[Founder]
    OBVIOUS
  <2>1. PICK b : b = u.sha
    OBVIOUS
  <2>2. HasContent(b) /\ b.gen \in Nat /\ b.gen <= floor[Founder] /\ Extends(x, b)
    BY <1>1, <2>1, UploadsType DEF UniqueInv, HistoryInv
  <2>3. Extends(y, b)
    BY <1>2, <2>2, ExtendsThrough
  <2> QED BY <2>1, <2>2, <2>3
<1>4. CASE Uploads' \subseteq Uploads
  BY <1>1, <1>3, <1>4 DEF HistoryInv
<1>5. ASSUME NEW u, Uploads' \subseteq Uploads \cup {u},
             u.sha.gen = floor'[Founder], u.sha.gen > floor[Founder], u.sha \in Bundle,
             u.sha.events = events'[Founder], u.sha.box = box'[Founder]
      PROVE  HistoryInv'
  <2>1. PICK b : b = u.sha
    OBVIOUS
  <2>2. b \in Bundle /\ b.gen \in Nat /\ b.events = y.events /\ b.box = y.box
    BY <1>1, <1>5, <2>1 DEF ContentOf, Bundle
  <2>3. \A c : Extends(b, c) <=> Extends(y, c)
    BY <2>2 DEF Extends
  <2>4. Extends(b, b) /\ Extends(y, b)
    <3>1. HasContent(b)
      BY <2>2, BundleHasContent
    <3> QED BY <2>3, <3>1, ExtendsItself
  <2>5. floor[Founder] \in Nat
    BY FounderMakes
  <2>6. \A v \in Uploads : v.sha.gen < b.gen /\ Extends(b, v.sha)
    BY <1>3, <1>5, <2>1, <2>2, <2>3, <2>5
  <2>7. ASSUME NEW v \in Uploads', NEW w \in Uploads', v.sha.gen <= w.sha.gen PROVE Extends(w.sha, v.sha)
    <3>1. CASE v \in Uploads /\ w \in Uploads
      BY <2>7, <3>1 DEF HistoryInv
    <3>2. CASE w = u
      BY <1>5, <2>1, <2>4, <2>6, <3>2
    <3>3. CASE v = u /\ w # u
      BY <1>3, <1>5, <2>1, <2>2, <2>6, <2>7, <3>3
    <3> QED BY <1>5, <3>1, <3>2, <3>3
  <2>8. \A v \in Uploads' : Extends(y, v.sha)
    BY <1>3, <1>5, <2>1, <2>4
  <2> QED BY <1>1, <2>7, <2>8 DEF HistoryInv
<1> QED BY <1>4, <1>5, FounderMakes

LEMMA HistoryOrders ==
  ASSUME Types, Predicted, HistoryInv
  PROVE  Ordered
<1> SUFFICES ASSUME NEW f \in files \cup outside, NEW g \in files \cup outside, f.gen <= g.gen
             PROVE  Extends(g.sha, f.sha)
  BY DEF Ordered
<1>1. f.sha.gen = f.gen /\ g.sha.gen = g.gen
  BY DEF Predicted, BundleKnowsItsNumber
<1>2. PICK u, v : u = Upl(f.sha, f.prev) /\ v = Upl(g.sha, g.prev)
  OBVIOUS
<1>3. u \in Uploads /\ v \in Uploads /\ u.sha = f.sha /\ v.sha = g.sha
  BY <1>2 DEF Upl, Uploads, Filed
<1> QED BY <1>1, <1>3 DEF HistoryInv

-----------------------------------------------------------------------------
(* What holds of one holder that keeps its disk, and of one instance.       *)

\* What holds in any case.
Standing == Types /\ Predicted /\ CallInv /\ RunInv /\ Marked

LEMMA StandingInit == Init => Standing
BY TypesInit, PredictedInit, CallInit, RunInit DEF Standing

LEMMA StandingStep == ASSUME Standing, [Next]_vars PROVE Standing'
BY TypesStep, PredictedStep, CallStep, RunStep, MarkedStep DEF Standing

SoleInv == Standing /\ FounderInv /\ UniqueInv /\ LinesInv
InstanceInv == Standing /\ LiveInv /\ AckedInv

LEMMA SoleInit == Init => SoleInv
<1> SUFFICES ASSUME Init PROVE SoleInv
  OBVIOUS
<1>1. Founder \in Client
  BY CheckpointAssumption
<1>2. acked[Founder] = <<>> /\ ToSet(<<>>) = {} /\ Uploads = {}
  BY <1>1, NoUploadsYet DEF Init, ToSet
<1> QED BY <1>2, StandingInit, FounderInit DEF SoleInv, UniqueInv, LinesInv

LEMMA SoleStep ==
  ASSUME SoleHolder, MaxWipes = 0, SoleInv, [Next]_vars
  PROVE  SoleInv'
<1>1. Standing'
  BY StandingStep DEF SoleInv
<1>2. Types /\ CallInv /\ RunInv /\ FounderInv /\ UniqueInv /\ LinesInv
  BY DEF SoleInv, Standing
<1>3. FounderInv'
  BY <1>2, FounderStep
<1>4. UniqueInv'
  BY <1>2, UniqueStep
<1>5. LinesInv'
  BY <1>2, LinesStep
<1> QED BY <1>1, <1>3, <1>4, <1>5 DEF SoleInv

LEMMA InstanceInit == Init => InstanceInv
BY StandingInit, LiveInit, AckedInit DEF InstanceInv

LEMMA InstanceStep ==
  ASSUME MaxRedeploys = 0, InstanceInv, [Next]_vars
  PROVE  InstanceInv'
<1>1. Standing'
  BY StandingStep DEF InstanceInv
<1>2. LiveInv' /\ AckedInv'
  BY LiveKeeps, AckedStep DEF InstanceInv, Standing
<1> QED BY <1>1, <1>2 DEF InstanceInv

LEMMA LiveIsOne == ASSUME LiveInv PROVE GenerationNamesOneBundle
BY DEF LiveInv, GenerationNamesOneBundle

\* A number names one bundle, in the drop, at its predecessor and outside: as long as the
\* instance lives, for any number of holders, lost disks and delayed requests; and for any
\* number of redeployments, delayed requests and unanswered calls, if there is one holder
\* and its disk is not lost.  The floor that is sent with an upload is why.
THEOREM GenerationAlwaysNamesOne ==
  ASSUME MaxRedeploys = 0 \/ (SoleHolder /\ MaxWipes = 0)
  PROVE  Spec => []GenerationNamesOneBundle
<1>1. CASE MaxRedeploys = 0
  <2>1. Init => InstanceInv
    BY InstanceInit
  <2>2. InstanceInv /\ [Next]_vars => InstanceInv'
    BY <1>1, InstanceStep
  <2>3. InstanceInv => GenerationNamesOneBundle
    BY LiveIsOne DEF InstanceInv
  <2> QED BY <2>1, <2>2, <2>3, PTL DEF Spec
<1>2. CASE SoleHolder /\ MaxWipes = 0
  <2>1. Init => SoleInv
    BY SoleInit
  <2>2. SoleInv /\ [Next]_vars => SoleInv'
    BY <1>2, SoleStep
  <2>3. SoleInv => GenerationNamesOneBundle
    BY UniqueIsOne DEF SoleInv, Standing
  <2> QED BY <2>1, <2>2, <2>3, PTL DEF Spec
<1> QED BY <1>1, <1>2

\* What the record file says was accepted under a number is what is kept under that
\* number, in the drop and outside, and with the content that was sent.
THEOREM AckedIsAlwaysStored ==
  ASSUME MaxRedeploys = 0 \/ (SoleHolder /\ MaxWipes = 0)
  PROVE  Spec => []AckedIsStored
<1>0. ASSUME RunInv, NEW h \in Client, NEW a \in ToSet(acked[h]), NEW f, f.sha = a.name.sha
      PROVE  Known(f.sha) = a.content
  BY <1>0 DEF RunInv, RunHolds
<1>1. CASE MaxRedeploys = 0
  <2>1. Init => InstanceInv
    BY InstanceInit
  <2>2. InstanceInv /\ [Next]_vars => InstanceInv'
    BY <1>1, InstanceStep
  <2>3. InstanceInv => AckedIsStored
    <3> SUFFICES ASSUME InstanceInv, NEW h \in Client, NEW a \in ToSet(acked[h]), NEW f \in files \cup outside,
                        f.gen = a.name.gen
                 PROVE  f.sha = a.name.sha
      BY <1>0 DEF AckedIsStored, InstanceInv, Standing
    <3> QED BY DEF InstanceInv, AckedInv, KnownName, KnownIn
  <2> QED BY <2>1, <2>2, <2>3, PTL DEF Spec
<1>2. CASE SoleHolder /\ MaxWipes = 0
  <2>1. Init => SoleInv
    BY SoleInit
  <2>2. SoleInv /\ [Next]_vars => SoleInv'
    BY <1>2, SoleStep
  <2>3. SoleInv => AckedIsStored
    <3> SUFFICES ASSUME SoleInv, NEW h \in Client, NEW a \in ToSet(acked[h]), NEW f \in files \cup outside,
                        f.gen = a.name.gen
                 PROVE  f.sha = a.name.sha
      BY <1>0 DEF AckedIsStored, SoleInv, Standing
    <3>1. h = Founder
      BY DEF SoleInv, FounderInv, ToSet
    <3>2. LineKnown(a, Uploads, floor[Founder])
      BY <3>1 DEF SoleInv, LinesInv
    <3>3. f.sha.gen = f.gen
      BY DEF SoleInv, Standing, Predicted, BundleKnowsItsNumber
    <3>4. Upl(f.sha, f.prev) \in Uploads /\ Upl(f.sha, f.prev).sha = f.sha
      BY DEF Upl, Uploads, Filed
    <3> QED BY <3>2, <3>3, <3>4 DEF LineKnown
  <2> QED BY <2>1, <2>2, <2>3, PTL DEF Spec
<1> QED BY <1>1, <1>2

\* A checkpoint implements DurableOutbox: what may be on the door is in the newest
\* generation outside, and no later one loses it or names another record by its number.
\* As long as the instance lives, for any number of holders, lost disks, torn restores and
\* delayed requests, also with --onto; and for any number of redeployments, if there is
\* one holder and its disk is not lost.  (Set back outboxes are left to the runs.)
THEOREM AlwaysSavedBeforeSent ==
  ASSUME MaxBoxLosses = 0,
         MaxRedeploys = 0 \/ (SoleHolder /\ MaxWipes = 0)
  PROVE  Spec => SavedBeforeSent
<1>1. CASE MaxRedeploys = 0
  <2> DEFINE Inv == InstanceInv /\ OntoInv /\ RecordInv /\ Ordered /\ SentIsStored
  <2>1. Init => Inv /\ Durable!DurableInit
    BY InstanceInit, OntoInit, SavedInit
  <2>2. Inv /\ [Next]_vars => Inv' /\ [Durable!DurableNext]_(Durable!durableVars)
    <3> SUFFICES ASSUME Inv, [Next]_vars PROVE Inv' /\ [Durable!DurableNext]_(Durable!durableVars)
      OBVIOUS
    <3>1. Types /\ RunInv /\ Marked /\ LiveInv
      BY DEF InstanceInv, Standing
    <3>2. InstanceInv'
      BY <1>1, InstanceStep
    <3>3. OntoInv' /\ RecordInv'
      BY <3>1, OntoStep, RecordStep
    <3>4. Ordered'
      BY <1>1, <3>1, LiveOrdered
    <3>5. [Durable!DurableNext]_(Durable!durableVars) /\ SentIsStored'
      BY <3>1, <3>4, LiveIsOne, SavedStep
    <3> QED BY <3>2, <3>3, <3>4, <3>5
  <2> HIDE DEF Inv
  <2> QED BY <2>1, <2>2, PTL DEF Spec, SavedBeforeSent, Durable!DurableSpec
<1>2. CASE SoleHolder /\ MaxWipes = 0
  <2> DEFINE Inv == SoleInv /\ HistoryInv
  <2>1. Init => Inv /\ SentIsStored /\ Durable!DurableInit
    BY SoleInit, NoUploadsYet, SavedInit DEF HistoryInv
  <2>2. Inv /\ [Next]_vars => Inv'
    BY <1>2, SoleStep, HistoryStep DEF SoleInv, Standing
  <2>3. Inv => Ordered
    BY HistoryOrders DEF SoleInv, Standing
  <2>4. Inv /\ SentIsStored /\ [Next]_vars /\ Ordered' =>
          SentIsStored' /\ [Durable!DurableNext]_(Durable!durableVars)
    <3> SUFFICES ASSUME Inv, SentIsStored, [Next]_vars, Ordered'
                 PROVE  SentIsStored' /\ [Durable!DurableNext]_(Durable!durableVars)
      OBVIOUS
    <3>1. Types /\ RunInv /\ Marked /\ Ordered /\ GenerationNamesOneBundle
      BY <2>3, UniqueIsOne DEF SoleInv, Standing
    <3> QED BY <3>1, SavedStep
  <2> HIDE DEF Inv
  <2> QED BY <2>1, <2>2, <2>3, <2>4, PTL DEF Spec, SavedBeforeSent, Durable!DurableSpec
<1> QED BY <1>1, <1>2

-----------------------------------------------------------------------------
(* A ledger comes back with all that was pushed                             *)

\* Only one place holds the ledger or is getting it back, and what it gets back has
\* every number that may be on the door: nobody pushes in the meantime.
Alone ==
  \A h, k \in Client : (up[h] \/ restoring[h] # None) /\ (up[k] \/ restoring[k] # None) => h = k
Restorable ==
  \A h \in Client : restoring[h] # None => Covers(restoring[h].name.sha.box, pushed)

LEMMA RestorableInit == Init => Alone /\ Restorable
BY DEF Init, Alone, Restorable

\* A marked current generation is the newest one outside.
LEMMA MarkedCovers ==
  ASSUME Types, Marked, LiveInv, SentIsStored, files # {}, Current.gen \in marks
  PROVE  Covers(Current.sha.box, pushed)
<1>1. files \in SUBSET File /\ outside \in SUBSET File
  BY DEF Types, CheckpointTypeOK, SlotTypeOK
<1>2. PICK f : f = Newest(files)
  OBVIOUS
<1>3. f \in files /\ Current = NameOf(f)
  BY <1>1, <1>2, NewestIsNewest DEF Current, NewestName
<1>4. Current.gen = f.gen /\ Current.sha = f.sha
  BY <1>3 DEF NameOf
<1>5. f \in outside
  BY <1>3, <1>4 DEF Marked, Taken, LiveInv
<1>6. Newest(outside) \in outside /\ f.gen <= Newest(outside).gen
  BY <1>1, <1>5, NewestIsNewest
<1>7. Newest(outside) = f
  <2>1. Newest(outside).gen <= f.gen
    BY <1>4, <1>6 DEF LiveInv
  <2>2. Newest(outside).gen \in Nat /\ f.gen \in Nat
    BY <1>1, <1>5, <1>6, FileGen
  <2> QED BY <1>5, <1>6, <2>1, <2>2 DEF LiveInv
<1>8. pushed \subseteq Numbers(f.sha.box)
  BY <1>5, <1>7 DEF SentIsStored, StoredPairs
<1> QED BY <1>4, <1>8 DEF Numbers, Covers

LEMMA RestorableHolderStep ==
  ASSUME SoleHolder, Types, Marked, LiveInv, RunInv, SentIsStored, Alone, Restorable,
         NEW h \in Client, HolderStep(h)
  PROVE  Alone' /\ Restorable'
<1>0. /\ up = [k \in Client |-> up[k]] /\ restoring = [k \in Client |-> restoring[k]]
      /\ RunHolds(h)
  BY DEF Types, CheckpointTypeOK, RunInv
<1>1. CASE \/ \E e \in Entry : Write(h, e) \/ Export(h, e)
           \/ LoseBox(h) \/ StartWaiting(h) \/ StartUpload(h)
           \/ \E name \in OntoNames(h) : StartOnto(h, name)
           \/ Accept(h) \/ Rebase(h) \/ Stop(h) \/ GiveUp(h) \/ Break(h) \/ StopWaiting(h)
  <2>1. UNCHANGED <<up, restoring, pushed>>
    BY <1>1 DEF Write, Export, LoseBox, StartWaiting, StartUpload, StartOnto, Accept, Rebase,
       Stop, GiveUp, Break, StopWaiting, ledger
  <2> QED BY <2>1 DEF Alone, Restorable
<1>2. CASE Ready(h)
  <2>1. up[h] /\ UNCHANGED <<up, restoring>>
    BY <1>0, <1>2 DEF Ready, ledger, RunHolds, Rest
  <2>2. \A k \in Client : restoring[k] = None
    BY <2>1, <1>0 DEF Alone, RunHolds
  <2> QED BY <2>1, <2>2 DEF Alone, Restorable
<1>3. CASE Wipe(h)
  <2>1. restoring' = restoring /\ pushed' = pushed /\ \A k \in Client : up'[k] => up[k]
    BY <1>0, <1>3 DEF Wipe
  <2> QED BY <2>1 DEF Alone, Restorable
<1>4. CASE Fetch(h) \/ FetchChosen(h)
  <2>1. MayRestore(h) /\ up' = up /\ pushed' = pushed
    BY <1>4 DEF Fetch, FetchChosen, ledger
  <2>2. \A k \in Client \ {h} : ~up[k] /\ restoring[k] = None /\ restoring'[k] = None
    BY <1>0, <1>4, <2>1 DEF MayRestore, Others, Fetch, FetchChosen
  <2>3. Covers(restoring'[h].name.sha.box, pushed)
    <3>1. CASE Fetch(h)
      <4>1. PICK left : restoring' = [restoring EXCEPT ![h] = Fetched(Current, left)]
        BY <3>1 DEF Fetch
      <4>2. restoring'[h].name = Current
        BY <1>0, <4>1 DEF Fetched
      <4>3. Covers(Current.sha.box, pushed)
        BY <3>1, MarkedCovers DEF Fetch
      <4> QED BY <4>2, <4>3
    <3>2. CASE FetchChosen(h)
      <4>1. PICK f \in files : /\ Covers(f.sha.box, pushed)
                               /\ restoring' = [restoring EXCEPT ![h] = Fetched(NameOf(f), {})]
        BY <3>2 DEF FetchChosen
      <4>2. restoring'[h].name = NameOf(f)
        BY <1>0, <4>1 DEF Fetched
      <4> QED BY <4>1, <4>2 DEF NameOf
    <3> QED BY <1>4, <3>1, <3>2
  <2>4. Alone'
    BY <2>1, <2>2 DEF Alone
  <2> QED BY <2>1, <2>2, <2>3, <2>4 DEF Restorable
<1>5. CASE AbandonRestore(h) \/ Restore(h) \/ RestoreTorn(h)
  <2>1. /\ restoring[h] # None /\ restoring' = [restoring EXCEPT ![h] = None] /\ pushed' = pushed
        /\ \A k \in Client \ {h} : up'[k] = up[k]
    BY <1>0, <1>5 DEF AbandonRestore, Restore, RestoreTorn, PutInPlace, ledger
  <2>2. restoring'[h] = None /\ \A k \in Client \ {h} : restoring'[k] = restoring[k]
    BY <1>0, <2>1
  <2> QED BY <2>1, <2>2 DEF Alone, Restorable
<1>6. ASSUME NEW n \in 1 .. MaxGeneration, Witness(h, n) PROVE Alone' /\ Restorable'
  <2>1. /\ restoring[h] # None /\ restoring[h] \in Fetching
        /\ up' = up /\ pushed' = pushed
    BY <1>6 DEF Witness, ledger, Types, CheckpointTypeOK
  <2>2. \/ restoring' = [restoring EXCEPT ![h].left = @ \ {n}]
        \/ restoring' = [restoring EXCEPT ![h] = None]
    BY <1>6 DEF Witness
  <2>3. \A k \in Client \ {h} : restoring'[k] = restoring[k]
    BY <1>0, <2>2
  <2>4. restoring'[h] = None \/ restoring'[h].name = restoring[h].name
    BY <1>0, <2>1, <2>2 DEF Fetching
  <2>5. Alone'
    BY <2>1, <2>3 DEF Alone
  <2>6. Restorable'
    BY <2>1, <2>3, <2>4 DEF Restorable
  <2> QED BY <2>5, <2>6
<1> QED BY <1>1, <1>2, <1>3, <1>4, <1>5, <1>6 DEF HolderStep

LEMMA RestorableStep ==
  ASSUME SoleHolder, Types, Marked, LiveInv, RunInv, SentIsStored, Alone, Restorable, [Next]_vars
  PROVE  Alone' /\ Restorable'
<1>1. CASE SlotStep \/ UNCHANGED vars
  <2>1. UNCHANGED <<up, restoring, pushed>>
    BY <1>1 DEF SlotStep, vars, ledger
  <2> QED BY <2>1 DEF Alone, Restorable
<1> QED BY <1>1, RestorableHolderStep DEF Next

\* Only a restore brings a ledger back with a record, and it brings what it fetched.
LEMMA RestoreBrings ==
  ASSUME Types, RecordInv, Restorable, [Next]_vars,
         NEW h \in Client, ~up[h], up'[h], acked'[h] # <<>>
  PROVE  Covers(box'[h], pushed)
<1>0. /\ up = [k \in Client |-> up[k]] /\ box = [k \in Client |-> box[k]]
      /\ RecordHolds(h)
  BY DEF Types, CheckpointTypeOK, RecordInv
<1>1. up' # up
  OBVIOUS
<1>2. PICK k \in Client : HolderStep(k)
  BY <1>1 DEF Next, SlotStep, vars, ledger
<1>3. Restore(k) \/ RestoreTorn(k) \/ Wipe(k)
  BY <1>1, <1>2 DEF HolderStep, Write, Export, LoseBox, StartWaiting, StartUpload, StartOnto, Accept,
     Rebase, Stop, GiveUp, Break, Ready, StopWaiting, Fetch, FetchChosen, AbandonRestore, Witness, ledger
<1>4. ~Wipe(k)
  BY <1>0 DEF Wipe
<1>5. ~RestoreTorn(k)
  <2>1. acked[h] = <<>>
    BY <1>0 DEF RecordHolds
  <2> QED BY <2>1 DEF RestoreTorn
<1>6. Restore(k)
  BY <1>3, <1>4, <1>5
<1>7. up' = [up EXCEPT ![k] = TRUE] /\ box' = [box EXCEPT ![k] = restoring[k].name.sha.box]
      /\ restoring[k] # None
  BY <1>6 DEF Restore, PutInPlace
<1>8. k = h
  BY <1>0, <1>7
<1> QED BY <1>0, <1>7, <1>8 DEF Restorable

\* A ledger that comes back from the slot with its record has every number that may be
\* on the door - with torn restores, unanswered calls, delayed requests and a person who
\* names the generation: a witness or a mark shows only what is outside, and
\* ready_to_push is said only of what is there.  (One holder at a time, as SoleHolder says;
\* a redeployed instance is left to the runs.)
THEOREM RestoreAlwaysKeepsPushed ==
  ASSUME SoleHolder, MaxBoxLosses = 0, MaxRedeploys = 0
  PROVE  Spec => RestoreKeepsPushed
<1> DEFINE Inv == /\ InstanceInv /\ OntoInv /\ RecordInv /\ Ordered /\ SentIsStored
                  /\ Alone /\ Restorable
           Keeps == \A h \in Client : ~up[h] /\ up'[h] /\ acked'[h] # <<>> => Covers(box'[h], pushed)
<1>1. Init => Inv
  BY InstanceInit, OntoInit, SavedInit, RestorableInit
<1>2. Inv /\ [Next]_vars => Inv' /\ [Keeps]_vars
  <2> SUFFICES ASSUME Inv, [Next]_vars PROVE Inv' /\ Keeps
    OBVIOUS
  <2>1. Types /\ RunInv /\ Marked /\ LiveInv
    BY DEF InstanceInv, Standing
  <2>2. InstanceInv' /\ OntoInv' /\ RecordInv'
    BY <2>1, InstanceStep, OntoStep, RecordStep
  <2>3. Ordered'
    BY <2>1, LiveOrdered
  <2>4. SentIsStored'
    BY <2>1, <2>3, LiveIsOne, SavedStep
  <2>5. Alone' /\ Restorable'
    BY <2>1, RestorableStep
  <2>6. Keeps
    BY <2>1, RestoreBrings
  <2> QED BY <2>2, <2>3, <2>4, <2>5, <2>6
<1> HIDE DEF Inv
<1> QED BY <1>1, <1>2, PTL DEF Spec, RestoreKeepsPushed
=============================================================================
