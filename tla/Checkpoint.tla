----------------------------- MODULE Checkpoint ------------------------------
(***************************************************************************)
(* A lab's ledger and outbox, and the protocol by which they are saved in  *)
(* the state slot before a letter is pushed to the drop (hub_state.py:     *)
(* checkpoint, _wait_mark, restore_from_slot).                             *)
(*                                                                         *)
(* A holder is a place - a directory on some machine - that can hold the   *)
(* ledger.  Its disk can be lost; the ledger then comes back from the slot *)
(* to that place or to another.  More than one holder at a time is a       *)
(* mistake of operation that the protocol is meant to survive.             *)
(*                                                                         *)
(* A definition marked "mutant" is not part of the model: it is the next   *)
(* one with a mistake in it that a run must notice (see README.md).        *)
(***************************************************************************)
EXTENDS StateSlot

CONSTANTS
  Founder,        \* the holder at which the hub was created
  RecordKeep,     \* RECORD_KEEP, how many accepted generations a holder remembers
  SoleHolder,     \* TRUE: a ledger is restored only where no other is left
  AcceptTimeout,  \* TRUE: restores are run with --accept-timeout
  Human,          \* TRUE: a person may use --onto and --generation
  MaxNumbers,     \* bound: numbers of an outbox
  MaxFloor,       \* bound: a holder whose floor is here begins no upload
  MaxSilences,    \* bound: answers a holder does not wait for, or does not live to see
  MaxTorn,        \* bound: restores that die half way
  MaxWipes,       \* bound: lost disks in a behaviour
  MaxBoxLosses,   \* bound: outboxes set back to an older copy
  MaxFaults,      \* bound: lost disks and outboxes set back, together
  MixFaults       \* bound: FALSE: what is damaged otherwise than by a lost disk is not redeployed too

ASSUME CheckpointAssumption ==
  /\ Founder \in Client
  /\ RecordKeep \in Nat \ {0}
  /\ SoleHolder \in BOOLEAN
  /\ AcceptTimeout \in BOOLEAN
  /\ Human \in BOOLEAN
  /\ MaxNumbers \in Nat
  /\ MaxFloor \in Nat
  /\ MaxSilences \in Nat
  /\ MaxTorn \in Nat
  /\ MaxWipes \in Nat
  /\ MaxBoxLosses \in Nat
  /\ MaxFaults \in Nat
  /\ MixFaults \in BOOLEAN

VARIABLES
  up,         \* up[h]: is there a ledger at h?
  events,     \* events[h]: the records of the ledger, in order
  box,        \* box[h]: the records of the outbox, in the order of their numbers
  acked,      \* acked[h]: the record file's list of generations answered with 200
  pending,    \* pending[h]: its last attempt, or None
  floor,      \* floor[h]: its highest number ever sent
  run,        \* run[h]: the checkpoint command running at h, or Rest
  restoring,  \* restoring[h]: the restore command running at h, or None
  written,    \* records ever written to a ledger
  pushed,     \* <<n, record>>: what may be on the door under the number n
  silences, torn, wipes, boxLosses  \* what has been used of the bounds

record == <<acked, pending, floor>>
ledger == <<up, events, box, written>>
bounds == <<silences, torn, wipes, boxLosses>>
vars == <<slotVars, up, events, box, acked, pending, floor, run, restoring,
          written, pushed, bounds>>

-----------------------------------------------------------------------------
(* The record file *)

None == [phase |-> "none"]
ContentOf(h) == [events |-> events[h], box |-> box[h]]

LastAcked(h) == acked[h][Len(acked[h])]
WasAcked(h, name) == \E a \in ToSet(acked[h]) : a.name = name

LastN(s, n) == IF Len(s) <= n THEN s ELSE SubSeq(s, Len(s) - n + 1, Len(s))

-----------------------------------------------------------------------------
(* Running commands *)

Rest == [pc |-> "rest"]

\* The write lock of the hub is held by a checkpoint until it waits for the mark.
Unlocked(h) == up[h] /\ run[h].pc \in {"rest", "wait"}

\* A behaviour has a redeployment, or damage of another kind than a lost disk, and has both
\* only if faults may mix (see the README, section 6).
NotReplaced == MixFaults \/ redeploys = 0
NotDamaged == MixFaults \/ (silences = 0 /\ torn = 0 /\ boxLosses = 0 /\ written \cap Note = {})

\* Message and other records enter the ledger.
Write(h, e) ==
  /\ Unlocked(h)
  /\ e \notin written
  /\ e \in Note => NotReplaced
  /\ events' = [events EXCEPT ![h] = Append(@, e)]
  /\ written' = written \cup {e}
  /\ UNCHANGED <<slotVars, up, box, record, run, restoring, pushed, bounds>>

\* A record of the ledger gets the next number of the outbox.  A record may be
\* exported again, and then has two numbers.
Export(h, e) ==
  /\ Unlocked(h)
  /\ e \in ToSet(events[h])
  /\ Len(box[h]) < MaxNumbers
  /\ box' = [box EXCEPT ![h] = Append(@, e)]
  /\ UNCHANGED <<slotVars, up, events, written, record, run, restoring, pushed, bounds>>

\* The outbox directory alone is set back to an older copy.
LoseBox(h) ==
  /\ Unlocked(h)
  /\ boxLosses < MaxBoxLosses /\ wipes + boxLosses < MaxFaults /\ NotReplaced
  /\ boxLosses' = boxLosses + 1
  /\ \E n \in 0 .. Len(box[h]) - 1 : box' = [box EXCEPT ![h] = SubSeq(@, 1, n)]
  /\ UNCHANGED <<slotVars, up, events, written, record, run, restoring, pushed, silences, torn, wipes>>

-----------------------------------------------------------------------------
(* checkpoint *)

\* The attempt that upload() makes on a condition: the bytes noted for the same
\* condition and the same ledger are sent again; otherwise a snapshot is taken
\* and its number is noted before it is sent.
MayResend(h, pend, expect) ==
  /\ pend # None
  /\ pend.expect = expect
  /\ pend.content.events = events[h]

AttemptNumbered(h, expect, fl, over, stamp) ==  \* mutant: the number predicted is one too low
  [expect |-> expect,
   floor |-> Max2(fl, expect.gen),
   sha |-> BundleOf(ContentOf(h), Max2(fl, expect.gen), over, stamp),
   content |-> ContentOf(h)]

AttemptNoFloor(h, expect, fl, over, stamp) ==  \* mutant: the floor is not sent
  [expect |-> expect,
   floor |-> expect.gen,
   sha |-> BundleOf(ContentOf(h), expect.gen + 1, over, stamp),
   content |-> ContentOf(h)]

Attempt(h, expect, fl, over, stamp) ==
  [expect |-> expect,
   floor |-> Max2(fl, expect.gen),
   sha |-> BundleOf(ContentOf(h), Max2(fl, expect.gen) + 1, over, stamp),
   content |-> ContentOf(h)]

RequestOf(a) == [expect |-> a.expect, floor |-> a.floor, sha |-> a.sha]

\* upload(), with the record as the caller left it: pend and fl.
Upload(h, expect, pend, fl, over, next) ==
  /\ \/ /\ MayResend(h, pend, expect)
        /\ pending' = [pending EXCEPT ![h] = pend]
        /\ floor' = [floor EXCEPT ![h] = fl]
        /\ Send(h, RequestOf(pend))
     \/ /\ ~MayResend(h, pend, expect)
        /\ Complete(ContentOf(h))
        /\ \E stamp \in Stamp :
             LET a == Attempt(h, expect, fl, over, stamp)
             IN /\ pending' = [pending EXCEPT ![h] = a]
                /\ floor' = [floor EXCEPT ![h] = Max2(a.floor, a.sha.gen)]
                /\ Send(h, RequestOf(a))
  /\ run' = [run EXCEPT ![h] = next]

\* Would upload() be refused by snapshot()?
Refused(h, pend, expect) == ~MayResend(h, pend, expect) /\ ~Complete(ContentOf(h))

Extended(h) == acked[h] # <<>> => Extends(ContentOf(h), LastAcked(h).content)

\* Nothing has changed since the last accepted generation and the slot still
\* shows it: go on waiting for its mark.
Unchanged(h) ==
  /\ acked[h] # <<>>
  /\ ContentOf(h) = LastAcked(h).content
  /\ Current = LastAcked(h).name

StartWaiting(h) ==
  /\ Unlocked(h) /\ run[h] = Rest
  /\ Unchanged(h)
  /\ run' = [run EXCEPT ![h] = [pc |-> "wait", name |-> LastAcked(h).name, todo |-> box[h]]]
  /\ UNCHANGED <<slotVars, ledger, record, restoring, pushed, bounds>>

\* The condition is the last generation of the record; without a record only an
\* empty slot is uploaded to.
ConditionsUnread(h) == IF acked[h] = <<>> THEN {Current} ELSE {LastAcked(h).name}  \* mutant
Conditions(h) == IF acked[h] = <<>> THEN {Current} \cap {Empty} ELSE {LastAcked(h).name}

StartUpload(h) ==
  /\ Unlocked(h) /\ run[h] = Rest
  /\ floor[h] < MaxFloor
  /\ Extended(h)
  /\ ~Unchanged(h)
  /\ \E name \in Conditions(h) :
       Upload(h, name, pending[h], floor[h], FALSE,
              [pc |-> "first", onto |-> FALSE, todo |-> box[h]])
  /\ UNCHANGED <<server, supervisor, ledger, acked, restoring, pushed, bounds>>

\* checkpoint --onto: the slot shows a generation that the record does not
\* explain.  A person has compared it with the ledger and found it to be a part
\* of it, or repeats the condition of an attempt that was not answered.
StartOnto(h, name) ==
  /\ Human
  /\ Unlocked(h) /\ run[h] = Rest
  /\ floor[h] < MaxFloor
  /\ Extended(h)
  /\ Current # Empty /\ ~WasAcked(h, Current)
  /\ name = Current => Extends(ContentOf(h), Known(name.sha))
  /\ Upload(h, name, pending[h], floor[h], name # Empty,
            [pc |-> "first", onto |-> TRUE, todo |-> box[h]])
  /\ UNCHANGED <<server, supervisor, ledger, acked, restoring, pushed, bounds>>

OntoNames(h) == {Current} \cup {p.expect : p \in {pending[h]} \ {None}}

Answered(h, pcs, status) ==
  /\ run[h].pc \in pcs
  /\ calls[h].phase = "answered"
  /\ calls[h].status = status

\* accept(): the generation goes into the record with what was sent, not with
\* what the disk holds now.
SentNow(h) == ContentOf(h)  \* mutant
WhatWasSent(h) == pending[h].content

\* Extended after a resend: the present state is put on top of what was sent.
NeverBehind(h) == FALSE  \* mutant
Behind(h) == run[h].pc # "extend" /\ pending[h].content # ContentOf(h)

Accept(h) ==
  /\ Answered(h, {"first", "rebase", "extend"}, 200)
  /\ LET name == [gen |-> calls[h].name.gen, sha |-> pending[h].sha]
         fl == Max2(floor[h], name.gen)
     IN /\ acked' = [acked EXCEPT ![h] =
                       LastN(Append(@, [name |-> name, content |-> WhatWasSent(h)]), RecordKeep)]
        /\ IF Behind(h) /\ ~Refused(h, None, name)
             THEN Upload(h, name, None, fl, FALSE, [pc |-> "extend", todo |-> run[h].todo])
             ELSE /\ pending' = [pending EXCEPT ![h] = None]
                  /\ floor' = [floor EXCEPT ![h] = fl]
                  /\ calls' = [calls EXCEPT ![h] = NoCall]
                  /\ UNCHANGED late
                  /\ run' = [run EXCEPT ![h] =
                       IF Behind(h) THEN Rest ELSE [pc |-> "wait", name |-> name, todo |-> @.todo]]
  /\ UNCHANGED <<server, supervisor, ledger, restoring, pushed, bounds>>

\* A 409 that the record explains: the slot went back to a generation this
\* holder has in its record, or to the empty slot.  Upload again on top of it.
ExplainsFilled(h, name) == WasAcked(h, name)  \* mutant: not the empty slot
ExplainsAny(h, name) == TRUE  \* mutant: every 409 is followed by a rebase
Explains(h, name) == name = Empty \/ WasAcked(h, name)

Rebase(h) ==
  /\ Answered(h, {"first"}, 409)
  /\ ~run[h].onto
  /\ Explains(h, calls[h].name)
  /\ Complete(ContentOf(h))
  /\ Upload(h, calls[h].name, None, floor[h], FALSE, [pc |-> "rebase", todo |-> run[h].todo])
  /\ UNCHANGED <<server, supervisor, ledger, acked, restoring, pushed, bounds>>

\* Every other answer stops the command; the attempt stays in the record.
Stop(h) ==
  /\ \/ Answered(h, {"first", "rebase", "extend"}, 400)
     \/ Answered(h, {"rebase", "extend"}, 409)
     \/ /\ Answered(h, {"first"}, 409)
        /\ \/ run[h].onto
           \/ ~Explains(h, calls[h].name)
           \/ ~Complete(ContentOf(h))
  /\ calls' = [calls EXCEPT ![h] = NoCall]
  /\ run' = [run EXCEPT ![h] = Rest]
  /\ UNCHANGED <<server, late, supervisor, ledger, record, restoring, pushed, bounds>>

\* No answer, or the process dies.
GiveUp(h) ==
  /\ run[h].pc \in {"first", "rebase", "extend"}
  /\ silences < MaxSilences /\ NotReplaced
  /\ silences' = silences + 1
  /\ Abandon(h)
  /\ run' = [run EXCEPT ![h] = Rest]
  /\ UNCHANGED <<files, supervisor, ledger, record, restoring, pushed, torn, wipes, boxLosses>>

\* The connection breaks with the instance at its other end.
Break(h) ==
  /\ calls[h].phase = "lost"
  /\ calls' = [calls EXCEPT ![h] = NoCall]
  /\ run' = [run EXCEPT ![h] = Rest]
  /\ UNCHANGED <<server, late, supervisor, ledger, record, restoring, pushed, bounds>>

\* _wait_mark sees the generation as the slot's current one, with its mark:
\* ready_to_push.  From here on the letters may arrive at the door at any time.
Ready(h) ==
  /\ run[h].pc = "wait"
  /\ Current = run[h].name
  /\ Current.gen \in marks
  /\ pushed' = pushed \cup Numbers(run[h].todo)
  /\ run' = [run EXCEPT ![h] = Rest]
  /\ UNCHANGED <<slotVars, ledger, record, restoring, bounds>>

\* The slot shows another generation, or the time is over.
StopWaiting(h) ==
  /\ run[h].pc = "wait"
  /\ run' = [run EXCEPT ![h] = Rest]
  /\ UNCHANGED <<slotVars, ledger, record, restoring, pushed, bounds>>

-----------------------------------------------------------------------------
(* A lost disk, and restore_from_slot *)

Wipe(h) ==
  /\ up[h]
  /\ wipes < MaxWipes /\ wipes + boxLosses < MaxFaults
  /\ wipes' = wipes + 1
  /\ up' = [up EXCEPT ![h] = FALSE]
  /\ events' = [events EXCEPT ![h] = <<>>]
  /\ box' = [box EXCEPT ![h] = <<>>]
  /\ acked' = [acked EXCEPT ![h] = <<>>]
  /\ pending' = [pending EXCEPT ![h] = None]
  /\ floor' = [floor EXCEPT ![h] = 0]
  /\ run' = [run EXCEPT ![h] = Rest]
  /\ Abandon(h)
  /\ UNCHANGED <<files, supervisor, restoring, written, pushed, silences, torn, boxLosses>>

Others(h) == Client \ {h}

MayRestoreUnsettled(h) ==  \* mutant: an instance that has just come up is believed
  /\ ~up[h] /\ restoring[h] = None
  /\ SoleHolder => \A k \in Others(h) : ~up[k] /\ restoring[k] = None

MayRestore(h) ==
  /\ ~up[h] /\ restoring[h] = None
  /\ SoleHolder => \A k \in Others(h) : ~up[k] /\ restoring[k] = None
  /\ settled = "yes" \/ (AcceptTimeout /\ settled = "timeout")

\* _verify_bundle: a bundle must name the number under which it is served.
Verified(f) == f.sha.gen = f.gen

Superseded(g) == Newest(files).sha.over /\ g.sha = Newest(files).prev.sha

Fetched(name, left) ==
  [phase |-> "fetched", name |-> name, kept |-> {f.gen : f \in files}, left |-> left]

\* One answer carries the newest bundle, its mark, the signal that the instance
\* has settled, and the list of the generations kept.  Those with a mark that
\* the bundle does not supersede are its witnesses.
Fetch(h) ==
  /\ MayRestore(h)
  /\ files # {}
  /\ Current.gen \in marks
  /\ Verified(Newest(files))
  /\ restoring' = [restoring EXCEPT ![h] =
       Fetched(Current, {g.gen : g \in {g \in files : /\ g.gen # Current.gen
                                                     /\ g.gen \in marks
                                                     /\ ~Superseded(g)}})]
  /\ UNCHANGED <<slotVars, ledger, record, run, pushed, bounds>>

\* restore --generation: a person has compared the generations kept with the
\* door and names the one to go on from; it needs no witnesses.
FetchChosen(h) ==
  /\ Human
  /\ MayRestore(h)
  /\ \E f \in files :
       /\ f.gen \in marks
       /\ Verified(f)
       /\ Covers(f.sha.box, pushed)
       /\ restoring' = [restoring EXCEPT ![h] = Fetched(NameOf(f), {})]
  /\ UNCHANGED <<slotVars, ledger, record, run, pushed, bounds>>

\* A witness is fetched and must be a part of the bundle; one that is no longer
\* kept is passed over; one that is not a part ends the restore.
Witness(h, n) ==
  /\ restoring[h] # None
  /\ n \in restoring[h].left
  /\ restoring' =
       IF \A f \in files : f.gen = n =>
            Verified(f) /\ Extends(Known(restoring[h].name.sha), Known(f.sha))
         THEN [restoring EXCEPT ![h].left = @ \ {n}]
         ELSE [restoring EXCEPT ![h] = None]
  /\ UNCHANGED <<slotVars, ledger, record, run, pushed, bounds>>

\* restore() moves the ledger and then the outbox to the empty place.
PutInPlace(h, b) ==
  /\ restoring[h] # None
  /\ restoring[h].left = {}
  /\ up' = [up EXCEPT ![h] = TRUE]
  /\ events' = [events EXCEPT ![h] = restoring[h].name.sha.events]
  /\ box' = [box EXCEPT ![h] = b]
  /\ restoring' = [restoring EXCEPT ![h] = None]
  /\ UNCHANGED <<slotVars, pending, run, written, pushed, silences, wipes, boxLosses>>

\* ... and the generation becomes the first line of the record, whose floor is
\* the highest number that the slot listed.
Restore(h) ==
  /\ PutInPlace(h, restoring[h].name.sha.box)
  /\ LET r == restoring[h]
         all == r.kept \cup {r.name.gen}
     IN /\ acked' = [acked EXCEPT ![h] = <<[name |-> r.name, content |-> Known(r.name.sha)]>>]
        /\ floor' = [floor EXCEPT ![h] = CHOOSE n \in all : \A k \in all : k <= n]
  /\ UNCHANGED torn

\* The process dies between the moves, or before the record is written.
RestoreTorn(h) ==
  /\ restoring[h] # None
  /\ torn < MaxTorn /\ NotReplaced
  /\ torn' = torn + 1
  /\ \E b \in {<<>>, restoring[h].name.sha.box} : PutInPlace(h, b)
  /\ UNCHANGED <<acked, floor>>

AbandonRestore(h) ==
  /\ restoring[h] # None
  /\ restoring' = [restoring EXCEPT ![h] = None]
  /\ UNCHANGED <<slotVars, ledger, record, run, pushed, bounds>>

-----------------------------------------------------------------------------
Init ==
  /\ SlotInit
  /\ up = [h \in Client |-> h = Founder]
  /\ events = [h \in Client |-> <<>>]
  /\ box = [h \in Client |-> <<>>]
  /\ acked = [h \in Client |-> <<>>]
  /\ pending = [h \in Client |-> None]
  /\ floor = [h \in Client |-> 0]
  /\ run = [h \in Client |-> Rest]
  /\ restoring = [h \in Client |-> None]
  /\ written = {}
  /\ pushed = {}
  /\ silences = 0
  /\ torn = 0
  /\ wipes = 0
  /\ boxLosses = 0

HolderStep(h) ==
  \/ \E e \in Entry : Write(h, e) \/ Export(h, e)
  \/ LoseBox(h)
  \/ StartWaiting(h) \/ StartUpload(h) \/ \E name \in OntoNames(h) : StartOnto(h, name)
  \/ Accept(h) \/ Rebase(h) \/ Stop(h) \/ GiveUp(h) \/ Break(h)
  \/ Ready(h) \/ StopWaiting(h)
  \/ Wipe(h)
  \/ Fetch(h) \/ FetchChosen(h) \/ Restore(h) \/ RestoreTorn(h) \/ AbandonRestore(h)
  \/ \E n \in 1 .. MaxGeneration : Witness(h, n)

SlotStep ==
  /\ ServerStep \/ SupervisorStep
  /\ redeploys' = redeploys \/ NotDamaged
  /\ UNCHANGED <<ledger, record, run, restoring, pushed, bounds>>

Next == SlotStep \/ \E h \in Client : HolderStep(h)

Spec == Init /\ [][Next]_vars

\* The operator exports what was written and calls checkpoint again and again;
\* when it stops on a generation it cannot explain, a person looks at it.  The
\* mark of a generation appears while some call still waits for it.  The server
\* and the supervisor go on working; nothing forces a fault or a late request.
HolderFairness(h) ==
  /\ \A e \in Entry : WF_vars(e \notin ToSet(box[h]) /\ Export(h, e))
  /\ SF_vars(StartWaiting(h)) /\ SF_vars(StartUpload(h)) /\ SF_vars(StartOnto(h, Current))
  /\ WF_vars(Accept(h)) /\ WF_vars(Rebase(h)) /\ WF_vars(Stop(h)) /\ WF_vars(Break(h))
  /\ WF_vars(StopWaiting(h)) /\ SF_vars(Ready(h))

SlotFairness ==
  /\ WF_vars(SlotStep /\ \E c \in Client : Serve(c))
  /\ WF_vars(SlotStep /\ Place)
  /\ WF_vars(SlotStep /\ \E f \in files : Mirror(f))
  /\ WF_vars(SlotStep /\ \E f \in outside : PutBack(f))

FairSpec == Spec /\ SlotFairness /\ \A h \in Client : HolderFairness(h)

-----------------------------------------------------------------------------
(* Properties *)

RecordLine == [name : Name, content : Content]
AttemptType == [expect : Name, floor : Nat, sha : Bundle, content : Content]
Noted == AttemptType \cup {None}
Running == {Rest}
             \cup [pc : {"first"}, onto : BOOLEAN, todo : Seq(Entry)]
             \cup [pc : {"rebase", "extend"}, todo : Seq(Entry)]
             \cup [pc : {"wait"}, name : Name, todo : Seq(Entry)]
Fetching == [phase : {"fetched"}, name : [gen : 1 .. MaxGeneration, sha : Bundle],
             kept : SUBSET (1 .. MaxGeneration), left : SUBSET (1 .. MaxGeneration)]

\* The shape of what the hub keeps on its disk and of the commands that run: in
\* particular, what comes back from the slot is a ledger, an outbox and a floor.
CheckpointTypeOK ==
  /\ SlotTypeOK
  /\ up \in [Client -> BOOLEAN]
  /\ events \in [Client -> Seq(Entry)]
  /\ box \in [Client -> Seq(Entry)]
  /\ acked \in [Client -> Seq(RecordLine)]
  /\ pending \in [Client -> Noted]
  /\ floor \in [Client -> Nat]
  /\ run \in [Client -> Running]
  /\ restoring \in [Client -> Fetching \cup {None}]
  /\ written \subseteq Entry
  /\ pushed \subseteq (Nat \ {0}) \X Entry
  /\ silences \in Nat /\ torn \in Nat /\ wipes \in Nat /\ boxLosses \in Nat

StoredPairs == IF outside = {} THEN {} ELSE Numbers(Newest(outside).sha.box)
Durable == INSTANCE DurableOutbox WITH Letter <- Entry, stored <- StoredPairs, sent <- pushed

\* "Save before you push": a letter goes to the door only when the newest
\* generation outside the drop has it under its number, and no later generation
\* there loses it or gives its number to another record - whatever answers are
\* lost, requests delayed and instances replaced between snapshot and push.
SavedBeforeSent == Durable!DurableSpec

\* The number that checkpoint predicts and signs into the manifest is the one
\* the server gives: _verify_bundle refuses any other bundle at restore.
BundleKnowsItsNumber == \A f \in files \cup outside \cup old : f.sha.gen = f.gen

\* What _check_extension promises: a generation put on another one continues it,
\* in its ledger and in its numbers, also after a resend or a rebase.
PutOnExtends ==
  \A f, g \in files \cup outside : f.prev = NameOf(g) => Extends(f.sha, g.sha)

\* The floor sent with an upload keeps a new instance, whose slot is empty or
\* behind, from giving a number out again: mark and mirror go by number alone.
GenerationNamesOneBundle ==
  \A f, g \in files \cup outside \cup old : f.gen = g.gen => f = g

\* What the record file says was accepted under a number is what the drop or the
\* outside store keeps under that number, if they keep it: accept() writes down
\* what was sent, also when the answer is the one to an earlier attempt.
AckedIsStored ==
  \A h \in Client : \A a \in ToSet(acked[h]) : \A f \in files \cup outside :
     f.gen = a.name.gen => f.sha = a.name.sha /\ Known(f.sha) = a.content

\* A ledger that comes back from the slot, with its record, knows every number
\* that may be on the door.
RestoreKeepsPushed ==
  [][\A h \in Client : ~up[h] /\ up'[h] /\ acked'[h] # <<>> => Covers(box'[h], pushed)]_vars

\* While an instance lives its current generation does not go back, whatever the
\* supervisor puts into the directory and whatever pruning takes out of it.
CurrentNeverGoesBack ==
  [][redeploys' = redeploys => Current.gen <= Current'.gen]_vars

\* Every number of the outbox is on the door in the end, if faults stop.
NumbersAreSent ==
  \A h \in Client : \A n \in 1 .. MaxNumbers :
    n \in DOMAIN box[h] ~> \E p \in pushed : p[1] = n

\* The docstring of checkpoint: it uploads again by itself only on a generation
\* that is in its own record.
RebasesOnRecord ==
  [][\A h \in Client : run[h].pc = "first" /\ run'[h].pc = "rebase"
                         => WasAcked(h, calls[h].name)]_vars
=============================================================================
