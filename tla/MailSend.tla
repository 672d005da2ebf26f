------------------------------ MODULE MailSend -------------------------------
(***************************************************************************)
(* The sending of approved drafts (hub_send.py): sign, put into the        *)
(* ledger, place in the outbox, checkpoint, push to the door, read back,   *)
(* write the result.  Each call of send_approved or drain is a worker on a *)
(* host; the send lock of the host admits one at a time, and a worker may  *)
(* die anywhere.  A host may lose its disk; the ledger comes back from the *)
(* outside copy.  The drop may lose what is not mirrored, answer late or   *)
(* not at all.                                                             *)
(*                                                                         *)
(* A checkpoint is taken as one step with the promise of DurableOutbox,    *)
(* which Checkpoint is shown to keep: the outside copy is replaced by the  *)
(* ledger and outbox that continue it, or nothing is pushed.  After a      *)
(* redeployment the state slot is empty until the supervisor puts the      *)
(* newest copy back, and then a ledger that does not continue that copy    *)
(* may be saved too (hub_state.py, line 843).                              *)
(***************************************************************************)
EXTENDS Drafts

CONSTANTS
  Host,
  Founder,     \* the host whose ledger is open at first
  Worker,
  HostOf,      \* HostOf[w]: where w runs
  Stamp,       \* what a second signing of a letter has different: its time
  Alone,       \* TRUE: a ledger is opened only when no other is open
  MaxLosses,   \* bound: disks lost
  MaxRedeploys,\* bound: redeployments of the drop
  MaxLate      \* bound: pushes on their way whose client gave up

ASSUME SendAssumption ==
  /\ Founder \in Host
  /\ HostOf \in [Worker -> Host]
  /\ Alone \in BOOLEAN
  /\ MaxLosses \in Nat
  /\ MaxRedeploys \in Nat
  /\ MaxLate \in Nat

VARIABLES
  open,      \* open[h]: is there a ledger at h?
  events,    \* events[h]: the letters in the ledger, in order
  box,       \* box[h]: the complete quads of the outbox, by number
  scraps,    \* scraps[h]: numbers of quads that were not finished
  base,      \* base[h]: the outside copy that h continues
  kept,      \* the newest outside copy of ledger and outbox
  slot,      \* what the state slot shows: one copy, or none
  run,       \* run[w]: where worker w stands
  door,      \* the quads at the door, by number
  mirror,    \* the quads of the door that are stored outside
  arrived,   \* <<n, q>>: every quad that ever was at the door
  flying,    \* pushes whose client gave up and that may still arrive
  losses, redeploys  \* what has been used of the bounds

disk == <<open, events, box, scraps, base>>
drop == <<slot, door, mirror, arrived, flying>>
sendVars == <<disk, kept, run, drop, losses, redeploys>>
vars == <<draftVars, sendVars>>

-----------------------------------------------------------------------------
(* Letters *)

\* A signed letter: its draft, the text whose fingerprint it carries, its time.
Letter == [draft : Draft, text : {"placed", "changed"}, stamp : Stamp]

\* A quad: a signed letter with a body.
Quad(l, body) == [letter |-> l, body |-> body]

\* The idempotency key is made of what the letter says, not of its time.
Prior(h, d) == {l \in ToSet(events[h]) : l.draft = d /\ l.text = bytes[d]}

PutAt(f, n, q) == [k \in DOMAIN f \cup {n} |-> IF k = n THEN q ELSE f[k]]
NoQuads == [n \in {} |-> 0]
Highest(S) == IF S = {} THEN 0 ELSE CHOOSE n \in S : \A k \in S : k <= n

-----------------------------------------------------------------------------
(* Workers *)

Rest == [pc |-> "rest"]

\* The send lock is the host's: the one who is past "rest" holds it.
Free(h) == \A w \in Worker : HostOf[w] = h => run[w] = Rest

Return(w) == run' = [run EXCEPT ![w] = Rest]

\* send_approved for the draft d, or drain for None.  The record of the draft is
\* read under the lock.
Call(w, d) ==
  /\ open[HostOf[w]]
  /\ Free(HostOf[w])
  /\ d # None => Stored(d) /\ result[d] = None /\ decision[d] = "approved"
  /\ run' = [run EXCEPT ![w] = [pc |-> "place", draft |-> d, signed |-> FALSE]]
  /\ UNCHANGED <<draftVars, disk, kept, drop, losses, redeploys>>

At(w, pc) == run[w].pc = pc

-----------------------------------------------------------------------------
(* _place_signed *)

\* The letters of the ledger that are in no complete quad, by their place in it.
Unplaced(h) == {i \in DOMAIN events[h] : \A n \in DOMAIN box[h] : box[h][n].letter # events[h][i]}
FirstUnplaced(h) == events[h][CHOOSE i \in Unplaced(h) : \A k \in Unplaced(h) : i <= k]

\* _clean_incomplete comes first; what is left of an unfinished quad would
\* otherwise take its number away.
ScrapsLeft(h) == scraps[h]  \* mutant: nothing is removed
Scraps(h) == {}
NumberTaken(h) == Highest(DOMAIN box[h] \cup Scraps(h))  \* mutant: one too low
NextNumber(h) == Highest(DOMAIN box[h] \cup Scraps(h)) + 1

\* The body comes from the store once more and must be the one that was signed.
BodyFits(l) == bytes[l.draft] = l.text

Export(w) ==
  LET h == HostOf[w] IN
  /\ At(w, "place")
  /\ Unplaced(h) # {}
  /\ LET l == FirstUnplaced(h) IN
     /\ BodyFits(l)
     /\ \/ /\ box' = [box EXCEPT ![h] = PutAt(@, NextNumber(h), Quad(l, bytes[l.draft]))]
           /\ scraps' = [scraps EXCEPT ![h] = Scraps(h)]
           /\ run' = run
        \/ \* the process dies before the envelope is written
           /\ scraps' = [scraps EXCEPT ![h] = Scraps(h) \cup {NextNumber(h)}]
           /\ box' = box
           /\ Return(w)
  /\ UNCHANGED <<draftVars, open, events, base, kept, drop, losses, redeploys>>

\* SendStopped: the body is gone or another one.
CannotExport(w) ==
  LET h == HostOf[w] IN
  /\ At(w, "place")
  /\ Unplaced(h) # {}
  /\ ~BodyFits(FirstUnplaced(h))
  /\ scraps' = [scraps EXCEPT ![h] = Scraps(h)]
  /\ Return(w)
  /\ UNCHANGED <<draftVars, open, events, box, base, kept, drop, losses, redeploys>>

-----------------------------------------------------------------------------
(* _drain_once *)

\* The index of the door: what is there, and whether it is stored outside.
Index == [n \in DOMAIN door |->
            [quad |-> door[n], mirrored |-> n \in DOMAIN mirror /\ mirror[n] = door[n]]]

\* _compare: the outbox may have letters that the door does not have, not the
\* other way round.
AgreeFully(h) == door = box[h]  \* mutant: a letter that has not arrived stops the call
Agree(h) ==
  /\ \A n \in DOMAIN box[h] \cap DOMAIN door : door[n] = box[h][n]
  /\ DOMAIN door \subseteq DOMAIN box[h]

ReadDoor(w) ==
  LET h == HostOf[w]
      absent == DOMAIN box[h] \ DOMAIN door
  IN
  /\ At(w, "place")
  /\ Unplaced(h) = {}
  /\ scraps' = [scraps EXCEPT ![h] = Scraps(h)]
  /\ run' = [run EXCEPT ![w] =
       IF ~Agree(h) THEN Rest
       ELSE IF absent = {}
         THEN [pc |-> "read", draft |-> @.draft, signed |-> @.signed, remote |-> Index]
         ELSE [pc |-> "save", draft |-> @.draft, signed |-> @.signed, todo |-> absent]]
  /\ UNCHANGED <<draftVars, open, events, box, base, kept, drop, losses, redeploys>>

Content(h) == [events |-> events[h], box |-> box[h]]

\* checkpoint: the slot shows the copy that this host continues, or nothing, and then
\* the host rebases on the empty slot by itself.  Only the answer ready_to_push lets the
\* letters go.
ContinuesAny(h) == TRUE  \* mutant
Continues(h) == slot \subseteq {base[h]}
SavedNothing(h) == kept  \* mutant: the letters go before they are stored outside
Saved(h) == Content(h)

\* Generations are numbered above all that the host knows.  Who does not continue the
\* newest copy does not know its number, and may come to stand below it or above it.
NewestAfter(h) == IF base[h] = kept THEN {Saved(h)} ELSE {kept, Saved(h)}

PutOutside(h) ==
  /\ Continues(h)
  /\ slot' = {Saved(h)}
  /\ kept' \in NewestAfter(h)
  /\ base' = [base EXCEPT ![h] = Saved(h)]

Pushing(r, todo) == [pc |-> "push", draft |-> r.draft, signed |-> r.signed, todo |-> todo]

Save(w) ==
  /\ At(w, "save")
  /\ PutOutside(HostOf[w])
  /\ run' = [run EXCEPT ![w] = Pushing(@, @.todo)]
  /\ UNCHANGED <<draftVars, open, events, box, scraps, door, mirror, arrived, flying,
                 losses, redeploys>>

\* It was stored outside, but no answer or mark was seen in time.
SaveUnseen(w) ==
  /\ At(w, "save")
  /\ PutOutside(HostOf[w])
  /\ Return(w)
  /\ UNCHANGED <<draftVars, open, events, box, scraps, door, mirror, arrived, flying,
                 losses, redeploys>>

\* The drop's part of push_quad: the first quad of a number stays.
Take(n, q) ==
  IF n \in DOMAIN door
    THEN UNCHANGED <<door, arrived>>
    ELSE /\ door' = PutAt(door, n, q)
         /\ arrived' = arrived \cup {<<n, q>>}

Push(w) ==
  LET h == HostOf[w]
      n == CHOOSE k \in run[w].todo : \A m \in run[w].todo : k <= m
      q == box[h][n]
      next == [run EXCEPT ![w] = Pushing(@, @.todo \ {n})]
  IN
  /\ At(w, "push")
  /\ run[w].todo # {}
  /\ \/ \* taken, or found to be there already; another letter there stops the call
        /\ Take(n, q)
        /\ \/ (n \in DOMAIN door => door[n] = q) /\ run' = next
           \/ Return(w)  \* refused, or the answer is lost
        /\ UNCHANGED flying
     \/ \* no answer: the request is still on its way
        /\ Cardinality(flying \cup {<<n, q>>}) <= MaxLate
        /\ flying' = flying \cup {<<n, q>>}
        /\ Return(w)
        /\ UNCHANGED <<door, arrived>>
  /\ UNCHANGED <<draftVars, disk, kept, slot, mirror, losses, redeploys>>

ReadBack(w) ==
  /\ \/ At(w, "push") /\ run[w].todo = {}
     \/ /\ At(w, "read")
        /\ \E n \in DOMAIN box[HostOf[w]] \cap DOMAIN run[w].remote : ~run[w].remote[n].mirrored
  /\ run' = [run EXCEPT ![w] =
       [pc |-> "read", draft |-> @.draft, signed |-> @.signed, remote |-> Index]]
  /\ UNCHANGED <<draftVars, disk, kept, drop, losses, redeploys>>

\* A letter counts as sent when the door showed it with its mark.
ShownUnmarked(w, n) == n \in DOMAIN run[w].remote /\ run[w].remote[n].quad = box[HostOf[w]][n]  \* mutant
Shown(w, n) ==
  /\ n \in DOMAIN run[w].remote
  /\ run[w].remote[n].quad = box[HostOf[w]][n]
  /\ run[w].remote[n].mirrored

SentRecord(n, q) == [status |-> "sent", n |-> n, quad |-> q]
Failed == [status |-> "failed"]

\* One result is written after the other.
Report(w, n) ==
  LET q == box[HostOf[w]][n]
      d == q.letter.draft
  IN
  /\ At(w, "read")
  /\ Shown(w, n)
  /\ result[d] = None
  /\ PutResult(d, SentRecord(n, q))
  /\ UNCHANGED <<placed, since, bytes, decision, clock, placing, deciding, told, damages, sendVars>>

\* drain is over.  clear: every letter of the outbox was shown.  Only then a
\* draft that has no result yet is signed.
ClearUnread(w) == TRUE  \* mutant: an unsent letter does not hold back the next one
Clear(w) == \A n \in DOMAIN box[HostOf[w]] : Shown(w, n)
Reported(w) ==
  \A n \in DOMAIN box[HostOf[w]] : Shown(w, n) => result[box[HostOf[w]][n].letter.draft] # None

Drained(w) ==
  /\ At(w, "read")
  /\ Reported(w)
  /\ run' = [run EXCEPT ![w] =
       IF ~@.signed /\ @.draft # None /\ Clear(w) /\ result[@.draft] = None
         THEN [pc |-> "sign", draft |-> @.draft]
         ELSE Rest]
  /\ UNCHANGED <<draftVars, disk, kept, drop, losses, redeploys>>

-----------------------------------------------------------------------------
(* _sign *)

\* Nothing is checked again once the letter is signed.
Refused(h, d) == Prior(h, d) = {} /\ (bytes[d] # "placed" \/ d \in lapsed)

Sign(w) ==
  LET h == HostOf[w]
      d == run[w].draft
  IN
  /\ At(w, "sign")
  /\ bytes[d] # "gone"
  /\ ~Refused(h, d)
  /\ IF Prior(h, d) # {}
       THEN events' = events
       ELSE \E s \in Stamp :
              events' = [events EXCEPT ![h] =
                           Append(@, [draft |-> d, text |-> bytes[d], stamp |-> s])]
  /\ run' = [run EXCEPT ![w] = [pc |-> "place", draft |-> d, signed |-> TRUE]]
  /\ UNCHANGED <<draftVars, open, box, scraps, base, kept, drop, losses, redeploys>>

\* Refused: no number is used.
Refuse(w) ==
  LET d == run[w].draft IN
  /\ At(w, "sign")
  /\ bytes[d] # "gone"
  /\ Refused(HostOf[w], d)
  /\ PutResult(d, Failed)
  /\ Return(w)
  /\ UNCHANGED <<placed, since, bytes, decision, clock, placing, deciding, told, damages,
                 disk, kept, drop, losses, redeploys>>

\* The process dies, the drop does not answer, or a body cannot be read.
GiveUp(w) ==
  /\ run[w] # Rest
  /\ Return(w)
  /\ UNCHANGED <<draftVars, disk, kept, drop, losses, redeploys>>

-----------------------------------------------------------------------------
(* A lost disk, and open_ledger *)

LoseDisk(h) ==
  /\ open[h]
  /\ losses < MaxLosses
  /\ losses' = losses + 1
  /\ open' = [open EXCEPT ![h] = FALSE]
  /\ events' = [events EXCEPT ![h] = <<>>]
  /\ box' = [box EXCEPT ![h] = NoQuads]
  /\ scraps' = [scraps EXCEPT ![h] = {}]
  /\ base' = [base EXCEPT ![h] = [events |-> <<>>, box |-> NoQuads]]
  /\ run' = [w \in Worker |-> IF HostOf[w] = h THEN Rest ELSE run[w]]
  /\ UNCHANGED <<draftVars, kept, drop, redeploys>>

OpenLedger(h) ==
  /\ ~open[h]
  /\ Alone => \A k \in Host : ~open[k]
  /\ open' = [open EXCEPT ![h] = TRUE]
  /\ \E copy \in slot :
       /\ events' = [events EXCEPT ![h] = copy.events]
       /\ box' = [box EXCEPT ![h] = copy.box]
       /\ base' = [base EXCEPT ![h] = copy]
  /\ UNCHANGED <<draftVars, scraps, kept, run, drop, losses, redeploys>>

-----------------------------------------------------------------------------
(* The drop by itself *)

Arrive(p) ==
  /\ p \in flying
  /\ flying' = flying \ {p}
  /\ Take(p[1], p[2])
  /\ UNCHANGED <<draftVars, disk, kept, slot, run, mirror, losses, redeploys>>

\* The supervisor (external) copies quads outside and puts them back.
Mirror(n) ==
  /\ n \in DOMAIN door \ DOMAIN mirror
  /\ mirror' = PutAt(mirror, n, door[n])
  /\ UNCHANGED <<draftVars, disk, kept, slot, run, door, arrived, flying, losses, redeploys>>

PutBack(n) ==
  /\ n \in DOMAIN mirror \ DOMAIN door
  /\ door' = PutAt(door, n, mirror[n])
  /\ UNCHANGED <<draftVars, disk, kept, slot, run, mirror, arrived, flying, losses, redeploys>>

\* It puts the generations of the slot back as well; that they come one after the
\* other, and when, is in Checkpoint.
PutSlotBack ==
  /\ slot # {kept}
  /\ slot' = {kept}
  /\ UNCHANGED <<draftVars, disk, kept, run, door, mirror, arrived, flying, losses, redeploys>>

Redeploy ==
  /\ redeploys < MaxRedeploys
  /\ redeploys' = redeploys + 1
  /\ slot' = {}
  /\ door' = NoQuads
  /\ flying' = {}
  /\ UNCHANGED <<draftVars, disk, kept, run, mirror, arrived, losses>>

-----------------------------------------------------------------------------
Init ==
  /\ DraftInit
  /\ open = [h \in Host |-> h = Founder]
  /\ events = [h \in Host |-> <<>>]
  /\ box = [h \in Host |-> NoQuads]
  /\ scraps = [h \in Host |-> {}]
  /\ base = [h \in Host |-> [events |-> <<>>, box |-> NoQuads]]
  /\ kept = [events |-> <<>>, box |-> NoQuads]
  /\ slot = {kept}
  /\ run = [w \in Worker |-> Rest]
  /\ door = NoQuads
  /\ mirror = NoQuads
  /\ arrived = {}
  /\ flying = {}
  /\ losses = 0
  /\ redeploys = 0

WorkerStep(w) ==
  \/ \E d \in Draft \cup {None} : Call(w, d)
  \/ Export(w) \/ CannotExport(w)
  \/ ReadDoor(w) \/ Save(w) \/ SaveUnseen(w) \/ Push(w) \/ ReadBack(w)
  \/ \E n \in DOMAIN box[HostOf[w]] : Report(w, n)
  \/ Drained(w)
  \/ Sign(w) \/ Refuse(w)
  \/ GiveUp(w)

HostStep == \E h \in Host : LoseDisk(h) \/ OpenLedger(h)

DropStep ==
  \/ \E p \in flying : Arrive(p)
  \/ \E n \in DOMAIN door : Mirror(n)
  \/ \E n \in DOMAIN mirror : PutBack(n)
  \/ PutSlotBack
  \/ Redeploy

StoreStep == (FrontStep \/ PersonStep \/ TimeStep) /\ UNCHANGED sendVars

Next == StoreStep \/ HostStep \/ DropStep \/ \E w \in Worker : WorkerStep(w)

Spec == Init /\ [][Next]_vars

\* One step of a call that is neither cut off nor left without an answer.
GoesOn(w) ==
  \/ Export(w) /\ run' = run
  \/ CannotExport(w) \/ ReadDoor(w) \/ Save(w)
  \/ Push(w) /\ run'[w] # Rest
  \/ At(w, "push") /\ ReadBack(w)
  \/ \E n \in DOMAIN box[HostOf[w]] : Report(w, n)
  \/ Drained(w) \/ Sign(w) \/ Refuse(w)

\* resume takes the approved drafts one after the other, and goes no further than
\* the first one that does not get its result.
Resume(w) ==
  LET todo == {d \in Draft : decision[d] = "approved" /\ result[d] = None}
  IN todo # {} /\ Call(w, CHOOSE d \in todo : TRUE)

\* resume comes again and again (at each start, and each time the screen is opened);
\* the supervisor mirrors and puts the slot back; a lost ledger is opened again; every call ends, and from
\* some time on no call that could go on is cut off or left without an answer.
Uninterrupted ==
  \A w \in Worker : run[w] # Rest /\ run'[w] # run[w] /\ ENABLED GoesOn(w) => GoesOn(w)

FairSpec ==
  /\ Spec
  /\ \A w \in Worker : WF_vars(GoesOn(w) \/ GiveUp(w))
  /\ \A w \in Worker : SF_vars(Resume(w))
  /\ <>[][Uninterrupted]_vars
  /\ \A n \in 1 .. Cardinality(Draft) : WF_vars(n \in DOMAIN door /\ Mirror(n))
  /\ WF_vars(PutSlotBack)
  /\ \A h \in Host : WF_vars(OpenLedger(h))

-----------------------------------------------------------------------------
(* Properties *)

QuadType == [letter : Letter, body : {"placed", "changed"}]
QuadsOK(f) == DOMAIN f \subseteq Nat \ {0} /\ \A n \in DOMAIN f : f[n] \in QuadType
ContentOK(c) == c.events \in Seq(Letter) /\ QuadsOK(c.box)

ResultRecord == [status : {"sent"}, n : Nat \ {0}, quad : QuadType] \cup {Failed}
Results == ResultRecord \cup {None}

\* A result that is there is told from one that is not.
ASSUME RecordAssumption == None \notin ResultRecord \cup {"sent", "failed"}

Shows(r) == DOMAIN r \subseteq Nat \ {0}
              /\ \A n \in DOMAIN r : r[n] \in [quad : QuadType, mirrored : BOOLEAN]

RunOK(r) ==
  \/ r = Rest
  \/ r \in [pc : {"place"}, draft : Draft \cup {None}, signed : BOOLEAN]
  \/ r \in [pc : {"sign"}, draft : Draft]
  \/ /\ r.pc \in {"save", "push"}
     /\ r.todo \subseteq Nat \ {0}
  \/ /\ r.pc = "read"
     /\ Shows(r.remote)

\* The shape of store, ledger, outbox, door and of the calls that run; numbers
\* start at 1.
SendTypeOK ==
  /\ ToSet(placed) \subseteq Draft /\ since \in [Draft -> Nat]
  /\ bytes \in [Draft -> {"placed", "changed", "gone"}]
  /\ decision \in [Draft -> Decisions \cup {None}]
  /\ result \in [Draft -> Results]
  /\ open \in [Host -> BOOLEAN]
  /\ \A h \in Host : ContentOK(Content(h)) /\ ContentOK(base[h]) /\ scraps[h] \subseteq Nat \ {0}
  /\ \A copy \in slot \cup {kept} : ContentOK(copy)
  /\ \A w \in Worker : RunOK(run[w])
  /\ QuadsOK(door) /\ QuadsOK(mirror)
  /\ arrived \cup flying \subseteq (Nat \ {0}) \X QuadType

\* One draft becomes one letter under one number (send_approved, _place_signed,
\* _drain_once), whatever dies, repeats or is signed again after a lost disk.  Of two
\* hosts that hold a ledger this is claimed if the drop is not redeployed meanwhile: on an
\* empty slot the ledger that stayed behind may be saved, and then its letters leave.
OneLetterPerDraft ==
  \A p, q \in arrived :
    p[1] = q[1] \/ p[2].letter.draft = q[2].letter.draft => p = q

Outcome(d) == IF result[d] = None THEN None ELSE result[d].status
Reached(p) == [n |-> p[1], draft |-> p[2].letter.draft, stamp |-> p[2].letter.stamp,
               true |-> p[2].letter.text = "placed" /\ p[2].body = "placed"]

Order == INSTANCE MailOrder WITH
  decided <- decision,
  delivered <- {Reached(p) : p \in arrived},
  outcome <- [d \in Draft |-> Outcome(d)]

\* A letter leaves once, only after its approval, in the approved words and under
\* the next number; "sent" and "failed" say what happened and stay true.
DeliversAsApproved == Order!OrderSpec

\* What was reported as sent outlives the drop's disk.
SentIsKept ==
  \A d \in Draft :
    result[d] # None /\ result[d].status = "sent" =>
      result[d].n \in DOMAIN mirror /\ mirror[result[d].n] = result[d].quad

\* No letter is signed while an earlier one of the same ledger is not stored
\* outside: what is given up at the door leaves no gap in the numbers.
NextWaits ==
  [][\A h \in Host :
       open[h] /\ Len(events[h]) < Len(events'[h]) =>
         \A l \in ToSet(events[h]) : \E n \in DOMAIN mirror : mirror[n].letter = l]_vars

\* An approved draft gets its result: no crash leaves letter, outbox and door in a
\* state in which every later call stops.
ApprovedIsAnswered == \A d \in Draft : decision[d] = "approved" ~> result[d] # None

=============================================================================
