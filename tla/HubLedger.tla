------------------------------ MODULE HubLedger ------------------------------
(***************************************************************************)
(* The ledger of a lab (hub_envelope.py, hub_ops.py, hub_wire.py and the   *)
(* commands of hub_cli.py).  A file of lines is all there is: every        *)
(* command takes the write lock, replays the lines into an index, admits   *)
(* at most one envelope more, and appends its line.  The index decides who *)
(* may speak: keys come and go by envelopes that are themselves in the     *)
(* log, and whether a key was valid is a question about a place in it.     *)
(*                                                                         *)
(* An envelope is a record, and is its own digest: an envelope that names  *)
(* another holds it.  A signature is genuine or it is not.  The root of    *)
(* the log over its first n lines is the sequence of these lines.          *)
(***************************************************************************)
EXTENDS Budget, Integers, FiniteSets, SequencesExt

CONSTANTS
  Signer,
  KeyName,   \* a key id with its epoch
  Pubkey,
  NoOne,     \* nothing: null
  Home,      \* the lab that source_domain names
  Declared,  \* TRUE: as "lab:x"; FALSE: by its bare name
  Claims,    \* the claim registry: type -> [space, report, subjects, levels, capture]
  Rules,     \* the registered rules: rule -> what is seen when a canary passes
  Policies,  \* the registered permission policies
  Provisioned,  \* keys that were registered before: a set of [pub, signer, name]
  Registrations,  \* keys that may be registered: a set of the same
  Traffic,   \* what is signed or comes in: [event, pub, wire, genuine]
  Writer

\* The binding of a key: to whom, and from which place to which.
Binding == [signer : Signer, name : KeyName, from : Nat, until : Int]

ASSUME LedgerAssumption ==
  /\ Declared \in BOOLEAN
  /\ NoOne \notin Signer \cup KeyName \cup Pubkey \cup Writer \cup Binding
  /\ Provisioned \cup Registrations \subseteq [pub : Pubkey, signer : Signer, name : KeyName]

\* An envelope has a signer, and names keys where it speaks of keys (the validators of
\* payloads).
ASSUME TrafficAssumption ==
  \A s \in Traffic :
    /\ s.pub \in Pubkey /\ s.event.signer \in Signer
    /\ s.event.kind \in {"rotated", "introduced"} =>
         s.event.p.pub \in Pubkey /\ s.event.p.name \in KeyName
    /\ s.event.kind = "introduced" => s.event.p.signer \in Signer

VARIABLES
  log,        \* the index of the writer: what is admitted, [event, pub, wire, projected]
  keys,       \* keys[k]: the binding [signer, name, from, until] of a key, or NoOne
  stored,     \* the lines of events.jsonl: [event, pub, wire]
  bootstrap,  \* hub.json: the keys that were there before the log
  pins,       \* hub.json: lifecycle_pins
  writer,     \* who holds the lock, and where that command stands
  receipts,   \* the receipts that were given
  audits      \* <<k, n, v>>: was-valid said v of key k at place n

indexVars == <<log, keys>>
ledgerVars == <<indexVars, stored, bootstrap, pins, writer, receipts, audits>>

Never == -1
Next1 == Len(log) + 1  \* the place that would be assigned

-----------------------------------------------------------------------------
(* KeyRegistry *)

WasValid(k, n) ==
  /\ keys[k] # NoOne
  /\ n >= keys[k].from
  /\ keys[k].until = Never \/ n < keys[k].until

KeysOf(s) == {k \in Pubkey : keys[k] # NoOne /\ keys[k].signer = s}
Named(s, name) == {k \in KeysOf(s) : keys[k].name = name}

BindUnset(f, k, s, name, from) ==  \* mutant: no place to count from
  [f EXCEPT ![k] = [signer |-> s, name |-> name, until |-> Never]]
Bind(f, k, s, name, from) ==
  [f EXCEPT ![k] = [signer |-> s, name |-> name, from |-> from, until |-> Never]]

\* What an admitted envelope at place n does to the keys.  It counts from the next
\* place on: the key that signs its own end is valid where it signs.
AtOnce(n) == n  \* mutant
Following(n) == n + 1
Revoke(s, name, n) ==
  [k \in Pubkey |-> IF k \in Named(s, name) /\ keys[k].until = Never
                    THEN [keys[k] EXCEPT !.until = n] ELSE keys[k]]
Lifecycle(e, n) ==
  CASE e.kind = "rotated"    -> Bind(keys, e.p.pub, e.signer, e.p.name, Following(n))
    [] e.kind = "introduced" -> Bind(keys, e.p.pub, e.p.signer, e.p.name, Following(n))
    [] e.kind = "revoked"    -> Revoke(e.signer, e.p.name, Following(n))
    [] OTHER                 -> keys

\* The lab that may let others in: the one that the hub says it is, or, of a bare
\* name, the lab of that name if it was there before the log.
Operator(s) ==
  /\ s = Home
  /\ Declared \/ \E k \in KeysOf(s) : keys[k].from = 0

-----------------------------------------------------------------------------
(* validate_envelope, validators of payloads *)

Evidence == {"attested", "observed", "canary", "anchor", "rotated", "revoked", "introduced",
             "launch", "completed"}
Kinds == Evidence \cup {"posted", "read", "ack"}
Levels == {"emission", "execution_gated", "bracketed"}
Bases == {"accepted_seq", "anchor", "event_ref"}

\* The fields that are not null.
Required ==
  [kind \in Kinds |->
     CASE kind = "attested"   -> {"claim", "scope", "subject"}
       [] kind = "observed"   -> {"digest", "version"}
       [] kind = "canary"     -> {"of", "rule", "policy"}
       [] kind = "rotated"    -> {"name", "pub"}
       [] kind = "revoked"    -> {"name"}
       [] kind = "introduced" -> {"signer", "name", "pub"}
       [] kind = "launch"     -> {"anchor", "canary"}
       [] kind = "completed"  -> {"gate", "after"}
       [] kind = "posted"     -> {"lab", "cell"}
       [] OTHER               -> {}]

Schema(e) ==
  /\ e.kind \in Kinds
  /\ \A f \in Required[e.kind] : e.p[f] # NoOne
  /\ e.kind \in {"attested", "launch", "completed"} => e.p.level \in Levels
  /\ e.kind = "launch" => e.p.basis \in Bases
  /\ e.kind = "ack" => e.p.outcome \in {"applied", "deferred", "rejected"}
  /\ "lab" \in DOMAIN e.p => e.kind \in {"posted", "ack"}

-----------------------------------------------------------------------------
(* HubIndex: what is there already *)

\* The places of an envelope, and the place at which it counts as authority.
Places(e) == {i \in DOMAIN log : log[i].event = e}
Authority(e) == {i \in Places(e) : log[i].projected}

Scope(e) == <<e.signer, e.kind, e.idem>>
Prior(e) == {i \in DOMAIN log : Scope(log[i].event) = Scope(e)}

\* The same bytes under the same key: the first answer is given again, whatever became
\* of the key.
Again(s) == \E i \in Prior(s.event) : log[i].event = s.event /\ log[i].pub = s.pub

\* _binding_problems
Bound(s) ==
  /\ WasValid(s.pub, Next1)
  /\ keys[s.pub].signer = s.event.signer
  /\ keys[s.pub].name = s.event.name

\* _lifecycle_pin_problems: from the place of a pin on, who is pinned speaks of its
\* keys with these alone.
RotationsOnly == {"rotated"}  \* mutant
OfKeys == {"rotated", "revoked"}
Pinned(s) ==
  LET mine == {p \in pins : p.signer = s.event.signer /\ p.from <= Next1}
  IN s.event.kind \in OfKeys /\ mine # {} => \E p \in mine : p.pub = s.pub /\ p.name = s.event.name

\* What envelopes say of the files they rest on: <<file, "version" or "time", value>>.
Said(e) ==
  {<<c.digest, "version", c.value>> : c \in IF e.cli = NoOne THEN {} ELSE {e.cli}}
    \cup IF e.kind # "observed" THEN {} ELSE
         {<<e.p.digest, "version", e.p.version>>}
           \cup {<<i.digest, "time", i.value>> : i \in IF e.p.install = NoOne THEN {} ELSE {e.p.install}}
Known == UNION {Said(log[i].event) : i \in DOMAIN log}
Agree(S) == \A c, d \in S : c[1] = d[1] /\ c[2] = d[2] => c[3] = d[3]
BelievesAll(e) == TRUE  \* mutant
Consistent(e) == Agree(Known \cup Said(e))

-----------------------------------------------------------------------------
(* _policy *)

\* A claim that is revoked is the own lab's, of the same space and scope.
MayRevoke(e) ==
  LET t == e.p.revokes IN
  /\ Authority(t) # {}
  /\ t.kind = "attested"
  /\ Claims[t.p.claim].space = Claims[e.p.claim].space
  /\ t.p.scope = e.p.scope
  /\ t.signer = e.signer

Unknown(e) == e.kind = "attested" /\ e.p.claim \notin DOMAIN Claims

ClaimOK(e) ==
  ~Unknown(e) =>
    LET spec == Claims[e.p.claim] IN
    /\ e.p.subject \in spec.subjects
    /\ e.p.level \in spec.levels
    /\ spec.report => e.p.after # NoOne /\ Authority(e.p.after) # {}
    /\ e.p.revokes # NoOne => MayRevoke(e)
    /\ spec.capture => e.p.capture

RotationOK(e) == keys[e.p.pub] = NoOne /\ Named(e.signer, e.p.name) = {}
RevocationOK(e) == \E k \in Named(e.signer, e.p.name) : keys[k].until = Never
AnyPeer(e) == keys[e.p.pub] = NoOne /\ KeysOf(e.p.signer) = {}  \* mutant: who is in lets in
IntroductionOK(e) ==
  /\ Operator(e.signer)
  /\ e.p.signer # e.signer
  /\ KeysOf(e.p.signer) = {}
  /\ keys[e.p.pub] = NoOne

\* passed is derived again from what was seen, under a rule that is registered.
CanaryOK(e) ==
  /\ Authority(e.p.of) # {}
  /\ e.p.of.kind = "observed"
  /\ e.p.rule \in DOMAIN Rules
  /\ e.p.passed = (e.p.seen = Rules[e.p.rule])
  /\ e.p.policy \in Policies

AnyOrder(e) == TRUE  \* mutant
Brackets(e) == \A i \in Authority(e.p.anchor), j \in Authority(e.p.canary) : j > i
LaunchOK(e) ==
  /\ Authority(e.p.anchor) = {e.p.seq}
  /\ e.p.anchor.kind = "anchor"
  /\ Authority(e.p.canary) # {}
  /\ e.p.canary.kind = "canary"
  /\ e.p.level = "bracketed" => Brackets(e)
CompletedOK(e) ==
  /\ Authority(e.p.gate) # {}
  /\ e.p.gate.kind = "launch"
  /\ e.p.after = e.p.gate
  /\ e.p.level = "bracketed" => e.p.gate.p.level = "bracketed"

Policy(e) ==
  /\ Consistent(e)
  /\ CASE e.kind = "attested"   -> ClaimOK(e)
       [] e.kind = "rotated"    -> RotationOK(e)
       [] e.kind = "revoked"    -> RevocationOK(e)
       [] e.kind = "introduced" -> IntroductionOK(e)
       [] e.kind = "canary"     -> CanaryOK(e)
       [] e.kind = "launch"     -> LaunchOK(e)
       [] e.kind = "completed"  -> CompletedOK(e)
       [] OTHER                 -> TRUE

\* The guard, in its order: signature, schema, then policy.  Nothing that is refused
\* changes the index.
Genuine(s) == s.genuine /\ Schema(s.event)
Admissible(s) ==
  /\ Genuine(s)
  /\ ~Again(s)
  /\ Bound(s)
  /\ Prior(s.event) = {}
  /\ Policy(s.event)
  /\ Pinned(s)

Admit(s) ==
  /\ log' = Append(log, [event |-> s.event, pub |-> s.pub, wire |-> s.wire,
                         projected |-> ~Unknown(s.event)])
  /\ keys' = Lifecycle(s.event, Next1)

\* _issue_receipt: the place, and the root of the log up to it.
Events(l) == [i \in DOMAIN l |-> l[i].event]
ReceiptNow(i) == [event |-> log[i].event, wire |-> log[i].wire, seq |-> i,  \* mutant
                  root |-> Events(log)]
Receipt(i) == [event |-> log[i].event, wire |-> log[i].wire, seq |-> i,
               root |-> Events(SubSeq(log, 1, i))]

-----------------------------------------------------------------------------
(* hub_writer, load_hub, and the commands *)

Free == [who |-> NoOne, pc |-> "free"]
Holds(p, pc) == writer.who = p /\ writer.pc = pc
Goes(p, pc) == writer' = [who |-> p, pc |-> pc]

FirstKeys == [k \in Pubkey |->
  IF \E b \in bootstrap : b.pub = k
  THEN LET b == CHOOSE b \in bootstrap : b.pub = k
       IN [signer |-> b.signer, name |-> b.name, from |-> 0, until |-> Never]
  ELSE NoOne]

\* The lock, then an empty index with the keys of hub.json, then line after line.
Open(p) ==
  /\ writer = Free
  /\ Spend("open")
  /\ Goes(p, "replay")
  /\ log' = <<>>
  /\ keys' = FirstKeys
  /\ UNCHANGED <<stored, bootstrap, pins, receipts, audits>>

Line(i) == [event |-> stored[i].event, pub |-> stored[i].pub, wire |-> stored[i].wire,
            genuine |-> TRUE]

Replay(p) ==
  /\ Holds(p, "replay")
  /\ Len(log) < Len(stored)
  /\ IF Admissible(Line(Next1))
     THEN Admit(Line(Next1)) /\ UNCHANGED writer
     ELSE Goes(p, "damaged") /\ UNCHANGED indexVars
  /\ UNCHANGED <<stored, bootstrap, pins, receipts, audits, budget>>

Ready(p) == Holds(p, "replay") /\ Len(log) = Len(stored)

\* admit and wire-in of an envelope of others; and what an own command builds, which
\* is not signed again if its scope is taken.
\* Of a letter that others sent, admit asks whether it is for this lab, unless it is
\* told to be a witness.
ForUs(e) == "lab" \in DOMAIN e.p => Operator(e.p.lab)

AdmitNew(p, s, how) ==
  /\ Ready(p)
  /\ how = "admit" => ForUs(s.event)
  /\ Admissible(s)
  /\ Spend(s.event.kind)
  /\ Admit(s)
  /\ Goes(p, "append")
  /\ UNCHANGED <<stored, bootstrap, pins, receipts, audits>>

AnswerAgain(p, s, own) ==
  /\ Ready(p)
  /\ IF own THEN Prior(s.event) # {} ELSE Genuine(s) /\ Again(s)
  /\ Spend("again")
  /\ receipts' = receipts \cup {Receipt(i) : i \in Prior(s.event)}
  /\ writer' = Free
  /\ UNCHANGED <<indexVars, stored, bootstrap, pins, audits>>

\* The line is written before the answer is given.
AppendLine(p) ==
  /\ Holds(p, "append")
  /\ LET r == log[Len(log)] IN
     stored' = Append(stored, [event |-> r.event, pub |-> r.pub, wire |-> r.wire])
  /\ Goes(p, "answer")
  /\ UNCHANGED <<indexVars, bootstrap, pins, receipts, audits, budget>>

Answer(p) ==
  /\ Holds(p, "answer")
  /\ receipts' = receipts \cup {Receipt(Len(log))}
  /\ writer' = Free
  /\ UNCHANGED <<indexVars, stored, bootstrap, pins, audits, budget>>

\* register-key: only while the log is empty.
AnyTime == TRUE  \* mutant: also later
LogEmpty == log = <<>>
RegisterKey(p, k, s, name) ==
  /\ Ready(p)
  /\ LogEmpty
  /\ keys[k] = NoOne
  /\ Named(s, name) = {}
  /\ Spend("register")
  /\ bootstrap' = bootstrap \cup {[pub |-> k, signer |-> s, name |-> name]}
  /\ writer' = Free
  /\ UNCHANGED <<indexVars, stored, pins, receipts, audits>>

\* pin-lifecycle: a key that is valid now, from the next place on.  A pin that is there
\* already stays.
FromTheStart == 1  \* mutant
PinFrom == Next1
Pin(p, k) ==
  /\ Ready(p)
  /\ keys[k] # NoOne
  /\ keys[k].until = Never /\ keys[k].from <= Next1
  /\ ~\E q \in pins : q.pub = k
  /\ Spend("pin")
  /\ pins' = pins \cup {[signer |-> keys[k].signer, name |-> keys[k].name, pub |-> k, from |-> PinFrom]}
  /\ writer' = Free
  /\ UNCHANGED <<indexVars, stored, bootstrap, receipts, audits>>

\* was-valid, of every place that is taken.
Audit(p) ==
  /\ Ready(p)
  /\ Spend("audit")
  /\ audits' = audits \cup {<<k, n, WasValid(k, n)>> : k \in Pubkey, n \in 1..Len(log)}
  /\ writer' = Free
  /\ UNCHANGED <<indexVars, stored, bootstrap, pins, receipts>>

\* The process ends without more; the lock is gone with it.
WriterEnds(p) ==
  /\ writer.who = p
  /\ writer.pc # "damaged"
  /\ Spend("crash")
  /\ writer' = Free
  /\ UNCHANGED <<indexVars, stored, bootstrap, pins, receipts, audits>>

LedgerInit ==
  /\ log = <<>>
  /\ keys = [k \in Pubkey |-> NoOne]
  /\ stored = <<>>
  /\ bootstrap = Provisioned
  /\ pins = {}
  /\ writer = Free
  /\ receipts = {}
  /\ audits = {}

LedgerTypeOK ==
  /\ keys \in [Pubkey -> Binding \cup {NoOne}]
  /\ \A i \in DOMAIN log : log[i].pub \in Pubkey
  /\ writer.who \in Writer \cup {NoOne}
  /\ \A p \in pins : p.pub \in Pubkey /\ p.from \in Nat

LedgerNext ==
  \E p \in Writer :
    \/ Open(p) \/ Replay(p)
    \/ \E s \in Traffic : \/ \E how \in {"own", "admit", "witness"} : AdmitNew(p, s, how)
                         \/ \E own \in BOOLEAN : AnswerAgain(p, s, own)
    \/ AppendLine(p) \/ Answer(p)
    \/ \E b \in Registrations : RegisterKey(p, b.pub, b.signer, b.name)
    \/ \E k \in Pubkey : Pin(p, k)
    \/ Audit(p)
    \/ WriterEnds(p)

LedgerSpec == LedgerInit /\ BudgetInit /\ [][LedgerNext]_<<ledgerVars, budget>>

-----------------------------------------------------------------------------
(* Properties *)

\* Whoever signed what is admitted had a valid key at that very place, and still has,
\* whatever became of the key later (_apply_key_lifecycle).
AdmittedWereValid == \A i \in DOMAIN log : WasValid(log[i].pub, i)

\* What was-valid said of a place it says forever, also after the log was read anew:
\* no key is valid, or loses its validity, with effect for the past.
AuditsAgree == \A a, b \in audits : a[1] = b[1] /\ a[2] = b[2] => a[3] = b[3]

\* A log that was written can be replayed, whatever was pinned, revoked or introduced.
ReplayNeverFails == writer.pc # "damaged"

\* An envelope has one receipt: a retry over another wire, after a crash, or with a key
\* that was revoked since, is given the first.
OneReceiptPerEvent == \A r, q \in receipts : r.event = q.event => r = q

\* Every key that was not there before the log was let in by an envelope right before
\* it counts: one of the same lab, or one of the hub's own lab for a lab without keys.
KeysTraceBack ==
  \A k \in Pubkey : keys[k] # NoOne /\ keys[k].from > 0 =>
    /\ keys[k].from - 1 \in DOMAIN log
    /\ LET e == log[keys[k].from - 1].event IN
       /\ e.p.pub = k
       /\ \/ e.kind = "rotated" /\ e.signer = keys[k].signer
          \/ e.kind = "introduced" /\ e.signer = Home

\* After a pin, nobody but the pinned keys speaks of the keys of that lab.
PinsHold ==
  \A p \in pins, i \in DOMAIN log :
    log[i].event.signer = p.signer /\ i >= p.from /\ log[i].event.kind \in {"rotated", "revoked"} =>
      \E q \in pins : q.signer = p.signer /\ q.pub = log[i].pub

\* A completed run that calls itself bracketed has its plan, its canary, its launch and
\* its report in this order in the log.
EvidenceChain ==
  \A i \in DOMAIN log : log[i].event.kind = "completed" /\ log[i].event.p.level = "bracketed" =>
    \E a, c, l \in DOMAIN log :
      /\ a < c /\ c < l /\ l < i
      /\ log[l].event = log[i].event.p.gate
      /\ log[a].event = log[l].event.p.anchor /\ log[c].event = log[l].event.p.canary

\* One file has one version and one time, whoever speaks of it.
OneValuePerCapture == \A c, d \in Known : c[1] = d[1] /\ c[2] = d[2] => c[3] = d[3]

\* The keys of the log: each was let in by who may do so, signs only where it is valid,
\* and is spoken of by nobody but the pinned keys once there are such.
KeysInOrder == AdmittedWereValid /\ KeysTraceBack /\ PinsHold

\* The evidence in the log: in its order, and of one voice.
EvidenceHolds == EvidenceChain /\ OneValuePerCapture

\* The file says what the index said: it is replayed as it was admitted, and was-valid
\* answers the same after it.
ReplayAgrees == ReplayNeverFails /\ AuditsAgree
=============================================================================
