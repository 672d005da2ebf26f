--------------------------- MODULE HubLedgerProofs ---------------------------
(***************************************************************************)
(* For any labs, keys, registries and traffic: what a ledger has admitted  *)
(* stays justified.                                                        *)
(***************************************************************************)
EXTENDS HubLedger, TLAPS

ledger == <<ledgerVars, budget>>

\* What may stand in the index, on disk, and in hub.json.
Entry == {[event |-> s.event, pub |-> s.pub, wire |-> s.wire, projected |-> b] :
            s \in Traffic, b \in BOOLEAN}
LineOnDisk == {[event |-> s.event, pub |-> s.pub, wire |-> s.wire] : s \in Traffic}
KeyRecord == [pub : Pubkey, signer : Signer, name : KeyName]
PinRecord == [signer : Signer, name : KeyName, pub : Pubkey, from : Nat]
Phases == {"free", "replay", "append", "answer", "damaged"}

\* What is admitted: something signed, or a line that is read again.
Signed == Traffic \cup {[event |-> r.event, pub |-> r.pub, wire |-> r.wire, genuine |-> TRUE] :
                          r \in LineOnDisk}

TypeInv ==
  /\ log \in Seq(Entry)
  /\ keys \in [Pubkey -> Binding \cup {NoOne}]
  /\ stored \in Seq(LineOnDisk)
  /\ bootstrap \subseteq KeyRecord
  /\ pins \subseteq PinRecord
  /\ writer \in [who : Writer \cup {NoOne}, pc : Phases]
  /\ writer.pc \in {"append", "answer"} => log # <<>>

-----------------------------------------------------------------------------
(* How the index changes *)

\* A key that an envelope brings in was not bound before, and an envelope that ends
\* keys ends those that had no end; either counts from the next place on.
Enters(e, k) ==
  /\ keys[k] = NoOne
  /\ keys'[k] \in Binding
  /\ keys'[k].from = Next1 + 1 /\ keys'[k].until = Never
  /\ e.p.pub = k
  /\ \/ e.kind = "rotated" /\ e.signer = keys'[k].signer
     \/ e.kind = "introduced" /\ e.signer = Home
EndsHere(k) ==
  /\ keys[k] # NoOne /\ keys[k].until = Never
  /\ keys'[k] = [keys[k] EXCEPT !.until = Next1 + 1]

LEMMA SignedHasType ==
  ASSUME NEW s \in Signed
  PROVE  /\ s.pub \in Pubkey /\ s.event.signer \in Signer
         /\ s.event.kind \in {"rotated", "introduced"} =>
              s.event.p.pub \in Pubkey /\ s.event.p.name \in KeyName
         /\ s.event.kind = "introduced" => s.event.p.signer \in Signer
         /\ \A b \in BOOLEAN :
              [event |-> s.event, pub |-> s.pub, wire |-> s.wire, projected |-> b] \in Entry
<1>1. PICK t \in Traffic : t.event = s.event /\ t.pub = s.pub /\ t.wire = s.wire
  BY DEF Signed, LineOnDisk
<1>2. \A b \in BOOLEAN :
         [event |-> t.event, pub |-> t.pub, wire |-> t.wire, projected |-> b] \in Entry
  BY DEF Entry
<1> QED
  BY <1>1, <1>2, TrafficAssumption

LEMMA KeysAfter ==
  ASSUME TypeInv, NEW s \in Signed, Admissible(s), Admit(s)
  PROVE  /\ keys' \in [Pubkey -> Binding \cup {NoOne}]
         /\ \A k \in Pubkey : keys'[k] = keys[k] \/ Enters(s.event, k) \/ EndsHere(k)
<1> DEFINE e == s.event
           n == Next1
<1>1. n \in Nat /\ n + 1 \in Nat /\ Never \in Int
  BY DEF TypeInv, Next1, Never
<1>2. Policy(e) /\ keys' = Lifecycle(e, n)
  BY DEF Admissible, Admit
<1>3. CASE e.kind = "rotated"
  <2>1. keys[e.p.pub] = NoOne
    BY <1>2, <1>3 DEF Policy, RotationOK
  <2>2. keys' = [keys EXCEPT ![e.p.pub] = [signer |-> e.signer, name |-> e.p.name,
                                           from |-> n + 1, until |-> Never]]
    BY <1>2, <1>3 DEF Lifecycle, Bind, Following
  <2>3. [signer |-> e.signer, name |-> e.p.name, from |-> n + 1, until |-> Never] \in Binding
    BY <1>1, <1>3, SignedHasType DEF Binding
  <2> QED
    BY <2>1, <2>2, <2>3, <1>3, SignedHasType DEF TypeInv, Enters
<1>4. CASE e.kind = "introduced"
  <2>1. keys[e.p.pub] = NoOne /\ e.signer = Home
    BY <1>2, <1>4 DEF Policy, IntroductionOK, Operator
  <2>2. keys' = [keys EXCEPT ![e.p.pub] = [signer |-> e.p.signer, name |-> e.p.name,
                                           from |-> n + 1, until |-> Never]]
    BY <1>2, <1>4 DEF Lifecycle, Bind, Following
  <2>3. [signer |-> e.p.signer, name |-> e.p.name, from |-> n + 1, until |-> Never] \in Binding
    BY <1>1, <1>4, SignedHasType DEF Binding
  <2> QED
    BY <2>1, <2>2, <2>3, <1>4, SignedHasType DEF TypeInv, Enters
<1>5. CASE e.kind = "revoked"
  <2>1. keys' = Revoke(e.signer, e.p.name, n + 1)
    BY <1>2, <1>5 DEF Lifecycle, Following
  <2>2. ASSUME NEW k \in Pubkey
        PROVE  keys'[k] = keys[k] \/ EndsHere(k)
    BY <2>1 DEF Revoke, Named, KeysOf, EndsHere
  <2>3. ASSUME NEW k \in Pubkey
        PROVE  keys'[k] \in Binding \cup {NoOne}
    <3>1. keys[k] \in Binding \cup {NoOne} /\ Next1 + 1 \in Int
      BY <1>1 DEF TypeInv
    <3>2. CASE EndsHere(k)
      <4>1. keys[k] \in Binding
        BY <3>1, <3>2 DEF EndsHere
      <4> QED
        BY <3>1, <3>2, <4>1 DEF EndsHere, Binding
    <3> QED
      BY <2>2, <3>1, <3>2
  <2>4. keys' = [k \in Pubkey |-> keys'[k]]
    BY <2>1 DEF Revoke
  <2> QED
    BY <2>2, <2>3, <2>4
<1>6. CASE e.kind \notin {"rotated", "introduced", "revoked"}
  BY <1>2, <1>6 DEF Lifecycle, TypeInv
<1> QED
  BY <1>3, <1>4, <1>5, <1>6

\* The index stays, begins anew, or takes one more.
LEMMA IndexSteps ==
  ASSUME TypeInv, [LedgerNext]_ledger
  PROVE  \/ UNCHANGED indexVars
         \/ log' = <<>> /\ keys' = FirstKeys
         \/ \E s \in Signed : Admissible(s) /\ Admit(s)
<1>1. CASE UNCHANGED ledger
  BY <1>1 DEF ledger, ledgerVars
<1>2. ASSUME NEW p \in Writer, Open(p) PROVE log' = <<>> /\ keys' = FirstKeys
  BY <1>2 DEF Open
<1>3. ASSUME NEW p \in Writer, Replay(p)
      PROVE  UNCHANGED indexVars \/ \E s \in Signed : Admissible(s) /\ Admit(s)
  <2>1. Len(log) + 1 \in 1 .. Len(stored)
    BY <1>3 DEF Replay, TypeInv
  <2>2. stored[Next1] \in LineOnDisk
    BY <2>1 DEF TypeInv, Next1
  <2>3. Line(Next1) \in Signed
    BY <2>2 DEF Line, Signed
  <2> QED
    BY <1>3, <2>3 DEF Replay
<1>4. ASSUME NEW p \in Writer, NEW s \in Traffic, NEW how, AdmitNew(p, s, how)
      PROVE  s \in Signed /\ Admissible(s) /\ Admit(s)
  BY <1>4 DEF AdmitNew, Signed
<1>5. ASSUME NEW p \in Writer,
             \/ \E s \in Traffic, own \in BOOLEAN : AnswerAgain(p, s, own)
             \/ AppendLine(p) \/ Answer(p)
             \/ \E b \in Registrations : RegisterKey(p, b.pub, b.signer, b.name)
             \/ \E k \in Pubkey : Pin(p, k)
             \/ Audit(p) \/ WriterEnds(p)
      PROVE  UNCHANGED indexVars
  BY <1>5 DEF AnswerAgain, AppendLine, Answer, RegisterKey, Pin, Audit, WriterEnds
<1> QED
  BY <1>1, <1>2, <1>3, <1>4, <1>5 DEF LedgerNext

LEMMA LogAfter ==
  ASSUME TypeInv, NEW s \in Signed, Admit(s)
  PROVE  /\ log' \in Seq(Entry)
         /\ Next1 = Len(log) + 1 /\ Next1 \in Nat \ {0}
         /\ DOMAIN log = 1 .. Len(log) /\ DOMAIN log' = 1 .. Next1
         /\ Len(log') = Next1
         /\ \A i \in DOMAIN log : log'[i] = log[i]
         /\ log'[Next1].event = s.event /\ log'[Next1].pub = s.pub
         /\ log'[Next1].wire = s.wire
<1> DEFINE r == [event |-> s.event, pub |-> s.pub, wire |-> s.wire, projected |-> ~Unknown(s.event)]
<1>1. r \in Entry
  <2>1. CASE Unknown(s.event)
    BY <2>1, SignedHasType, (~Unknown(s.event)) = FALSE
  <2>2. CASE ~Unknown(s.event)
    BY <2>2, SignedHasType, (~Unknown(s.event)) = TRUE
  <2> QED
    BY <2>1, <2>2
<1>2. log' = Append(log, r)
  BY DEF Admit
<1>3. log \in Seq(Entry)
  BY DEF TypeInv
<1> QED
  BY <1>1, <1>2, <1>3 DEF Next1

LEMMA FirstKeysOK == TypeInv => FirstKeys \in [Pubkey -> Binding \cup {NoOne}]
<1> SUFFICES ASSUME TypeInv, NEW k \in Pubkey, \E b \in bootstrap : b.pub = k
             PROVE  LET b == CHOOSE b \in bootstrap : b.pub = k
                    IN [signer |-> b.signer, name |-> b.name, from |-> 0, until |-> Never] \in Binding
  BY DEF FirstKeys
<1> DEFINE b == CHOOSE b \in bootstrap : b.pub = k
<1>1. b \in KeyRecord
  BY DEF TypeInv
<1>2. Never \in Int /\ 0 \in Nat
  BY DEF Never
<1> QED
  BY <1>1, <1>2 DEF KeyRecord, Binding

LEMMA TypeStep == TypeInv /\ [LedgerNext]_ledger => TypeInv'
<1> SUFFICES ASSUME TypeInv, [LedgerNext]_ledger PROVE TypeInv'
  OBVIOUS
<1>1. log' \in Seq(Entry) /\ keys' \in [Pubkey -> Binding \cup {NoOne}]
  <2>1. ASSUME NEW s \in Signed, Admissible(s), Admit(s) PROVE <1>1!1 /\ <1>1!2
    BY <2>1, LogAfter, KeysAfter
  <2>2. <<>> \in Seq(Entry)
    OBVIOUS
  <2> QED
    BY <2>1, <2>2, IndexSteps, FirstKeysOK DEF TypeInv, indexVars
<1>2. CASE UNCHANGED ledger
  BY <1>2 DEF ledger, ledgerVars, indexVars, TypeInv
<1> DEFINE DiskOK == stored' \in Seq(LineOnDisk) /\ bootstrap' \subseteq KeyRecord
                       /\ pins' \subseteq PinRecord
           WriterOK == writer' \in [who : Writer \cup {NoOne}, pc : Phases]
                         /\ (writer'.pc \in {"append", "answer"} => log' # <<>>)
<1>3. Free \in [who : Writer \cup {NoOne}, pc : Phases] /\ Free.pc = "free"
  BY DEF Free, Phases
<1>4. ASSUME NEW p \in Writer, NEW pc \in Phases, Goes(p, pc),
             pc \in {"append", "answer"} => log' # <<>>
      PROVE  WriterOK
  BY <1>4 DEF Goes
<1>5. ASSUME NEW s, Admit(s) PROVE log' # <<>>
  <2>1. log \in Seq(Entry)
    BY DEF TypeInv
  <2> QED
    BY <1>1, <1>5, <2>1 DEF Admit
<1>6. ASSUME NEW p \in Writer, Open(p) PROVE DiskOK /\ WriterOK
  BY <1>4, <1>6 DEF Open, Phases, TypeInv
<1>7. ASSUME NEW p \in Writer, Replay(p) PROVE DiskOK /\ WriterOK
  <2>1. DiskOK
    BY <1>7 DEF Replay, TypeInv
  <2>2. CASE Goes(p, "damaged")
    BY <1>4, <2>1, <2>2 DEF Phases
  <2>3. CASE UNCHANGED writer
    BY <1>7, <2>1, <2>3 DEF Replay, Holds, TypeInv
  <2> QED
    BY <1>7, <2>1, <2>2, <2>3 DEF Replay
<1>8. ASSUME NEW p \in Writer, NEW s \in Traffic, NEW how, AdmitNew(p, s, how)
      PROVE  DiskOK /\ WriterOK
  <2>1. DiskOK
    BY <1>8 DEF AdmitNew, TypeInv
  <2>2. Goes(p, "append") /\ log' # <<>>
    BY <1>5, <1>8 DEF AdmitNew
  <2> QED
    BY <1>4, <2>1, <2>2 DEF Phases
<1>9. ASSUME NEW p \in Writer, AppendLine(p) PROVE DiskOK /\ WriterOK
  <2>1. log # <<>> /\ log \in Seq(Entry)
    BY <1>9 DEF AppendLine, Holds, TypeInv
  <2>2. Len(log) \in 1 .. Len(log) /\ log[Len(log)] \in Entry
    BY <2>1
  <2>3. [event |-> log[Len(log)].event, pub |-> log[Len(log)].pub, wire |-> log[Len(log)].wire]
          \in LineOnDisk
    BY <2>2 DEF Entry, LineOnDisk
  <2>4. DiskOK
    BY <1>9, <2>3 DEF AppendLine, TypeInv
  <2>5. Goes(p, "answer") /\ log' # <<>>
    BY <1>9, <2>1 DEF AppendLine, indexVars
  <2> QED
    BY <1>4, <2>4, <2>5 DEF Phases
<1>10. ASSUME NEW p \in Writer, NEW k \in Pubkey, Pin(p, k) PROVE DiskOK /\ WriterOK
  <2>1. keys[k] \in Binding /\ PinFrom \in Nat
    BY <1>10 DEF Pin, PinFrom, Next1, TypeInv
  <2>2. [signer |-> keys[k].signer, name |-> keys[k].name, pub |-> k, from |-> PinFrom] \in PinRecord
    BY <2>1 DEF Binding, PinRecord
  <2> QED
    BY <1>3, <1>10, <2>2 DEF Pin, TypeInv
<1>11. ASSUME NEW p \in Writer, NEW b \in Registrations, RegisterKey(p, b.pub, b.signer, b.name)
       PROVE  DiskOK /\ WriterOK
  <2>1. [pub |-> b.pub, signer |-> b.signer, name |-> b.name] \in KeyRecord
    BY LedgerAssumption DEF KeyRecord
  <2> QED
    BY <1>3, <1>11, <2>1 DEF RegisterKey, TypeInv
<1>12. ASSUME NEW p \in Writer,
              \/ \E s \in Traffic, own \in BOOLEAN : AnswerAgain(p, s, own)
              \/ Answer(p) \/ Audit(p) \/ WriterEnds(p)
       PROVE  DiskOK /\ WriterOK
  BY <1>3, <1>12 DEF AnswerAgain, Answer, Audit, WriterEnds, TypeInv
<1>13. CASE LedgerNext
  BY <1>6, <1>7, <1>8, <1>9, <1>10, <1>11, <1>12, <1>13, <1>1 DEF LedgerNext, TypeInv
<1> QED
  BY <1>2, <1>13

LEMMA TypeAtStart == LedgerInit /\ BudgetInit => TypeInv
<1> SUFFICES ASSUME LedgerInit PROVE TypeInv
  OBVIOUS
<1>1. log \in Seq(Entry) /\ stored \in Seq(LineOnDisk)
  BY DEF LedgerInit
<1>2. bootstrap \subseteq KeyRecord
  BY LedgerAssumption DEF LedgerInit, KeyRecord
<1> QED
  BY <1>1, <1>2 DEF LedgerInit, TypeInv, Free, Phases

LEMMA TypeAlways == LedgerSpec => []TypeInv
  BY TypeAtStart, TypeStep, PTL DEF LedgerSpec, ledger

\* Keys, pins and the index have their shapes, whatever is replayed or registered.
THEOREM LedgerTypeCorrect == LedgerSpec => []LedgerTypeOK
<1>1. TypeInv => LedgerTypeOK
  <2> SUFFICES ASSUME TypeInv PROVE LedgerTypeOK
    OBVIOUS
  <2>1. ASSUME NEW i \in DOMAIN log PROVE log[i].pub \in Pubkey
    <3>1. log[i] \in Entry
      BY DEF TypeInv
    <3> QED
      BY <3>1, TrafficAssumption DEF Entry
  <2>2. ASSUME NEW p \in pins PROVE p.pub \in Pubkey /\ p.from \in Nat
    BY DEF TypeInv, PinRecord
  <2> QED
    BY <2>1, <2>2 DEF TypeInv, LedgerTypeOK
<1> QED
  BY <1>1, TypeAlways, PTL

-----------------------------------------------------------------------------
(* Keys *)

\* What is admitted takes no validity away from the places that are taken.
LEMMA ValidityStays ==
  ASSUME TypeInv, NEW s \in Signed, Admissible(s), Admit(s),
         NEW k \in Pubkey, NEW i \in 1 .. Next1, WasValid(k, i)
  PROVE  WasValid(k, i)'
<1>1. keys'[k] = keys[k] \/ EndsHere(k)
  BY KeysAfter DEF WasValid, Enters
<1>2. keys[k] \in Binding /\ Next1 \in Nat /\ NoOne # keys[k]
  BY LogAfter DEF WasValid, TypeInv
<1>3. CASE keys'[k] = keys[k]
  BY <1>3 DEF WasValid
<1>4. CASE EndsHere(k)
  <2>1. keys'[k] \in Binding /\ keys'[k].from = keys[k].from /\ keys'[k].until = Next1 + 1
    BY <1>2, <1>4 DEF EndsHere, Binding
  <2>2. keys'[k] # NoOne
    BY <2>1, LedgerAssumption
  <2> QED
    BY <1>2, <2>1, <2>2 DEF WasValid
<1> QED
  BY <1>1, <1>3, <1>4

LEMMA ValidStep == TypeInv /\ AdmittedWereValid /\ [LedgerNext]_ledger => AdmittedWereValid'
<1> SUFFICES ASSUME TypeInv, AdmittedWereValid, [LedgerNext]_ledger PROVE AdmittedWereValid'
  OBVIOUS
<1>1. CASE UNCHANGED indexVars
  BY <1>1 DEF indexVars, AdmittedWereValid, WasValid
<1>2. CASE log' = <<>>
  BY <1>2 DEF AdmittedWereValid
<1>3. ASSUME NEW s \in Signed, Admissible(s), Admit(s) PROVE AdmittedWereValid'
  <2>1. ASSUME NEW i \in DOMAIN log', NEW k \in Pubkey, k = log'[i].pub
        PROVE  WasValid(k, i)'
    <3>1. CASE i \in DOMAIN log
      BY <1>3, <2>1, <3>1, LogAfter, ValidityStays DEF AdmittedWereValid
    <3>2. CASE i = Next1
      BY <1>3, <2>1, <3>2, LogAfter, ValidityStays DEF Admissible, Bound
    <3> QED
      BY <1>3, <2>1, <3>1, <3>2, LogAfter
  <2>2. ASSUME NEW i \in DOMAIN log' PROVE log'[i].pub \in Pubkey
    <3>1. log'[i] \in Entry
      BY <1>3, <2>2, LogAfter
    <3> QED
      BY <3>1, TrafficAssumption DEF Entry
  <2> QED
    BY <2>1, <2>2 DEF AdmittedWereValid, WasValid
<1> QED
  BY <1>1, <1>2, <1>3, IndexSteps

\* Nothing in the log rests on a key that was not valid at that place: of what is
\* revoked, rotated or introduced later, nothing reaches back (admit,
\* _apply_key_lifecycle).
THEOREM AdmittedStayValid == LedgerSpec => []AdmittedWereValid
<1>1. LedgerInit => AdmittedWereValid
  BY DEF LedgerInit, AdmittedWereValid
<1> QED
  BY <1>1, ValidStep, TypeAlways, PTL DEF LedgerSpec, ledger

LEMMA TraceStep == TypeInv /\ KeysTraceBack /\ [LedgerNext]_ledger => KeysTraceBack'
<1> SUFFICES ASSUME TypeInv, KeysTraceBack, [LedgerNext]_ledger PROVE KeysTraceBack'
  OBVIOUS
<1>1. CASE UNCHANGED indexVars
  BY <1>1 DEF indexVars, KeysTraceBack
<1>2. CASE log' = <<>> /\ keys' = FirstKeys
  BY <1>2 DEF KeysTraceBack, FirstKeys
<1>3. ASSUME NEW s \in Signed, Admissible(s), Admit(s) PROVE KeysTraceBack'
  <2> SUFFICES ASSUME NEW k \in Pubkey, keys'[k] # NoOne, keys'[k].from > 0
               PROVE  /\ keys'[k].from - 1 \in DOMAIN log'
                      /\ LET e == log'[keys'[k].from - 1].event IN
                         /\ e.p.pub = k
                         /\ \/ e.kind = "rotated" /\ e.signer = keys'[k].signer
                            \/ e.kind = "introduced" /\ e.signer = Home
    BY DEF KeysTraceBack
  <2>1. CASE keys'[k] = keys[k]
    BY <1>3, <2>1, LogAfter DEF KeysTraceBack
  <2>2. CASE EndsHere(k)
    <3>1. keys[k] \in Binding
      BY <2>2 DEF EndsHere, TypeInv
    <3>2. keys[k] # NoOne /\ keys'[k].from = keys[k].from /\ keys'[k].signer = keys[k].signer
      BY <2>2, <3>1 DEF EndsHere, Binding
    <3> QED
      BY <1>3, <3>1, <3>2, LogAfter DEF KeysTraceBack
  <2>3. CASE Enters(s.event, k)
    BY <1>3, <2>3, LogAfter DEF Enters
  <2> QED
    BY <1>3, <2>1, <2>2, <2>3, KeysAfter
<1> QED
  BY <1>1, <1>2, <1>3, IndexSteps

\* No key counts that the lab's own log does not account for: each came in by a key of
\* the same lab or by the hub's own lab, right before its first place
\* (_policy_key_rotated, _policy_signer_introduced).
THEOREM KeysAlwaysTraceBack == LedgerSpec => []KeysTraceBack
<1>1. LedgerInit => KeysTraceBack
  BY DEF LedgerInit, KeysTraceBack
<1> QED
  BY <1>1, TraceStep, TypeAlways, PTL DEF LedgerSpec, ledger

-----------------------------------------------------------------------------
(* Pins *)

\* A new pin counts from a place that is not taken yet, and what is read again meets it.
LEMMA PinsStep == TypeInv /\ PinsHold /\ [LedgerNext]_ledger => PinsHold'
<1> SUFFICES ASSUME TypeInv, PinsHold, [LedgerNext]_ledger PROVE PinsHold'
  OBVIOUS
<1>1. ASSUME NEW p \in Writer, NEW k \in Pubkey, Pin(p, k) PROVE PinsHold'
  <2>1. log' = log /\ DOMAIN log = 1 .. Len(log) /\ Len(log) \in Nat
    BY <1>1 DEF Pin, indexVars, TypeInv
  <2>2. pins' = pins \cup {[signer |-> keys[k].signer, name |-> keys[k].name, pub |-> k, from |-> Len(log) + 1]}
    BY <1>1 DEF Pin, PinFrom, Next1
  <2> QED
    BY <2>1, <2>2 DEF PinsHold
<1>2. pins' = pins \/ \E p \in Writer, k \in Pubkey : Pin(p, k)
  BY DEF LedgerNext, Open, Replay, AdmitNew, AnswerAgain, AppendLine, Answer, RegisterKey, Audit,
         WriterEnds, ledger, ledgerVars
<1>3. CASE pins' = pins
  <2>1. CASE UNCHANGED indexVars
    BY <1>3, <2>1 DEF indexVars, PinsHold
  <2>2. CASE log' = <<>>
    BY <2>2 DEF PinsHold
  <2>3. ASSUME NEW s \in Signed, Admissible(s), Admit(s) PROVE PinsHold'
    <3> SUFFICES ASSUME NEW p \in pins, NEW i \in DOMAIN log', i >= p.from,
                        log'[i].event.signer = p.signer,
                        log'[i].event.kind \in {"rotated", "revoked"}
                 PROVE  \E q \in pins : q.signer = p.signer /\ q.pub = log'[i].pub
      BY <1>3 DEF PinsHold
    <3>1. CASE i \in DOMAIN log
      BY <2>3, <3>1, LogAfter DEF PinsHold
    <3>2. CASE i = Next1
      BY <2>3, <3>2, LogAfter DEF Admissible, Pinned, OfKeys
    <3> QED
      BY <2>3, <3>1, <3>2, LogAfter
  <2> QED
    BY <2>1, <2>2, <2>3, IndexSteps
<1> QED
  BY <1>1, <1>2, <1>3

\* Who is pinned cannot lose its keys to anybody but the pinned keys themselves
\* (_lifecycle_pin_problems).
THEOREM PinsAlwaysHold == LedgerSpec => []PinsHold
<1>1. LedgerInit => PinsHold
  BY DEF LedgerInit, PinsHold
<1> QED
  BY <1>1, PinsStep, TypeAlways, PTL DEF LedgerSpec, ledger

-----------------------------------------------------------------------------
(* Evidence *)

LEMMA ValuesStep == TypeInv /\ OneValuePerCapture /\ [LedgerNext]_ledger => OneValuePerCapture'
<1> SUFFICES ASSUME TypeInv, OneValuePerCapture, [LedgerNext]_ledger PROVE OneValuePerCapture'
  OBVIOUS
<1>1. CASE UNCHANGED indexVars
  BY <1>1 DEF indexVars, OneValuePerCapture, Known
<1>2. CASE log' = <<>>
  BY <1>2 DEF OneValuePerCapture, Known
<1>3. ASSUME NEW s \in Signed, Admissible(s), Admit(s) PROVE OneValuePerCapture'
  <2>1. ASSUME NEW c \in Known' PROVE c \in Known \cup Said(s.event)
    <3>1. PICK i \in DOMAIN log' : c \in Said(log'[i].event)
      BY <2>1 DEF Known
    <3>2. CASE i \in DOMAIN log
      BY <1>3, <3>1, <3>2, LogAfter DEF Known
    <3>3. CASE i = Next1
      BY <1>3, <3>1, <3>3, LogAfter
    <3> QED
      BY <1>3, <3>1, <3>2, <3>3, LogAfter
  <2>2. Agree(Known \cup Said(s.event))
    BY <1>3 DEF Admissible, Policy, Consistent
  <2> QED
    BY <2>1, <2>2 DEF Agree, OneValuePerCapture
<1> QED
  BY <1>1, <1>2, <1>3, IndexSteps

\* What envelopes of different kinds say of one file never differs, in whatever order
\* they come (_capture_consistency).
THEOREM CapturesAlwaysAgree == LedgerSpec => []OneValuePerCapture
<1>1. LedgerInit => OneValuePerCapture
  BY DEF LedgerInit, OneValuePerCapture, Known
<1> QED
  BY <1>1, ValuesStep, TypeAlways, PTL DEF LedgerSpec, ledger

\* The strengthening: every bracketed launch has its plan and its canary before it.
BracketedLaunch(e, i) ==
  \E a, c \in DOMAIN log : a < c /\ c < i /\ log[a].event = e.p.anchor /\ log[c].event = e.p.canary
LaunchChain ==
  \A i \in DOMAIN log : log[i].event.kind = "launch" /\ log[i].event.p.level = "bracketed" =>
    BracketedLaunch(log[i].event, i)

LEMMA ChainStep ==
  TypeInv /\ LaunchChain /\ EvidenceChain /\ [LedgerNext]_ledger => LaunchChain' /\ EvidenceChain'
<1> SUFFICES ASSUME TypeInv, LaunchChain, EvidenceChain, [LedgerNext]_ledger
             PROVE  LaunchChain' /\ EvidenceChain'
  OBVIOUS
<1>1. CASE UNCHANGED indexVars
  BY <1>1 DEF indexVars, LaunchChain, BracketedLaunch, EvidenceChain
<1>2. CASE log' = <<>>
  BY <1>2 DEF LaunchChain, EvidenceChain
<1>3. ASSUME NEW s \in Signed, Admissible(s), Admit(s) PROVE LaunchChain' /\ EvidenceChain'
  <2> DEFINE e == s.event
  <2>1. ASSUME NEW i \in DOMAIN log', log'[i].event.kind = "launch",
               log'[i].event.p.level = "bracketed"
        PROVE  \E a, c \in DOMAIN log' : /\ a < c /\ c < i
                                         /\ log'[a].event = log'[i].event.p.anchor
                                         /\ log'[c].event = log'[i].event.p.canary
    <3>1. CASE i \in DOMAIN log
      BY <1>3, <2>1, <3>1, LogAfter DEF LaunchChain, BracketedLaunch
    <3>2. CASE i = Next1
      <4>1. LaunchOK(e) /\ e.p.level = "bracketed"
        BY <1>3, <2>1, <3>2, LogAfter DEF Admissible, Policy
      <4>2. PICK a \in Authority(e.p.anchor), c \in Authority(e.p.canary) : a < c
        <5>1. e.p.seq \in Authority(e.p.anchor) /\ Authority(e.p.canary) # {}
          BY <4>1 DEF LaunchOK
        <5>2. PICK c \in Authority(e.p.canary) : c > e.p.seq
          BY <4>1, <5>1 DEF LaunchOK, Brackets
        <5>3. c \in Nat /\ e.p.seq \in Nat
          BY <1>3, <5>1, <5>2, LogAfter DEF Authority, Places
        <5> QED
          BY <5>1, <5>2, <5>3
      <4>3. /\ a \in DOMAIN log /\ c \in DOMAIN log
            /\ log[a].event = e.p.anchor /\ log[c].event = e.p.canary
        BY DEF Authority, Places
      <4> QED
        BY <1>3, <3>2, <4>2, <4>3, LogAfter
    <3> QED
      BY <1>3, <3>1, <3>2, LogAfter
  <2>2. LaunchChain'
    BY <2>1 DEF LaunchChain, BracketedLaunch
  <2>3. ASSUME NEW i \in DOMAIN log', log'[i].event.kind = "completed",
               log'[i].event.p.level = "bracketed"
        PROVE  \E a, c, l \in DOMAIN log' :
                 /\ a < c /\ c < l /\ l < i
                 /\ log'[l].event = log'[i].event.p.gate
                 /\ log'[a].event = log'[l].event.p.anchor /\ log'[c].event = log'[l].event.p.canary
    <3>1. CASE i \in DOMAIN log
      BY <1>3, <2>3, <3>1, LogAfter DEF EvidenceChain
    <3>2. CASE i = Next1
      <4>1. CompletedOK(e) /\ e.p.level = "bracketed" /\ log'[i].event = e
        BY <1>3, <2>3, <3>2, LogAfter DEF Admissible, Policy
      <4>2. PICK l \in Authority(e.p.gate) : TRUE
        BY <4>1 DEF CompletedOK
      <4>3. l \in DOMAIN log /\ log[l].event = e.p.gate
        BY DEF Authority, Places
      <4>4. log[l].event.kind = "launch" /\ log[l].event.p.level = "bracketed"
        BY <4>1, <4>3 DEF CompletedOK
      <4>5. PICK a, c \in DOMAIN log : /\ a < c /\ c < l
                                        /\ log[a].event = log[l].event.p.anchor
                                        /\ log[c].event = log[l].event.p.canary
        BY <4>3, <4>4 DEF LaunchChain, BracketedLaunch
      <4> QED
        BY <1>3, <3>2, <4>1, <4>3, <4>5, LogAfter
    <3> QED
      BY <1>3, <3>1, <3>2, LogAfter
  <2> QED
    BY <2>2, <2>3 DEF EvidenceChain
<1> QED
  BY <1>1, <1>2, <1>3, IndexSteps

\* Who calls a completed run bracketed has its plan, canary and launch in the log, in
\* this order (_policy_gate, _policy_completed).
THEOREM EvidenceAlwaysChained == LedgerSpec => []EvidenceChain
<1>1. LedgerInit => LaunchChain /\ EvidenceChain
  BY DEF LedgerInit, LaunchChain, EvidenceChain
<1> QED
  BY <1>1, ChainStep, TypeAlways, PTL DEF LedgerSpec, ledger

\* Whatever comes in, the keys of the log are in order: nobody enters unless let in by one
\* who may, nobody signs where its key does not count, and pins are met.
THEOREM KeysAlwaysInOrder == LedgerSpec => []KeysInOrder
<1> QED
  BY AdmittedStayValid, KeysAlwaysTraceBack, PinsAlwaysHold, PTL DEF KeysInOrder

\* Whatever comes in, the evidence in the log is in its order and of one voice.
THEOREM EvidenceAlwaysHolds == LedgerSpec => []EvidenceHolds
<1> QED
  BY EvidenceAlwaysChained, CapturesAlwaysAgree, PTL DEF EvidenceHolds

-----------------------------------------------------------------------------
(* Receipts *)

\* The receipt that the lines on disk give for place i.
OnDisk(i) == [event |-> stored[i].event, wire |-> stored[i].wire, seq |-> i,
              root |-> [j \in 1 .. i |-> stored[j].event]]

\* The index says what the lines say: the strengthening that makes receipts repeatable
\* after a crash.  Only between admission and the written line has it one more, whose
\* envelope is on no line yet.
Mirrors(n) == \A i \in 1 .. n : log[i].event = stored[i].event /\ log[i].wire = stored[i].wire
IndexIsDisk ==
  /\ writer.pc = "replay" => Len(log) <= Len(stored) /\ Mirrors(Len(log))
  /\ writer.pc = "answer" => Len(log) = Len(stored) /\ Mirrors(Len(log))
  /\ writer.pc = "append" =>
       /\ Len(log) = Len(stored) + 1 /\ Mirrors(Len(stored))
       /\ \A i \in 1 .. Len(stored) : stored[i].event # log[Len(log)].event
EachOnce == \A i, j \in 1 .. Len(stored) : stored[i].event = stored[j].event => i = j
ReceiptsFromDisk == \A r \in receipts : \E i \in 1 .. Len(stored) : r = OnDisk(i)
ReceiptInv == IndexIsDisk /\ EachOnce /\ ReceiptsFromDisk

LEMMA ReceiptIsFromDisk ==
  ASSUME TypeInv, NEW i \in 1 .. Len(log), Len(log) <= Len(stored), Mirrors(Len(log))
  PROVE  Receipt(i) = OnDisk(i)
<1>1. log \in Seq(Entry) /\ i \in Nat /\ i <= Len(log) /\ Len(log) \in Nat
  BY DEF TypeInv
<1>2. /\ DOMAIN SubSeq(log, 1, i) = 1 .. i
      /\ \A j \in 1 .. i : SubSeq(log, 1, i)[j] = log[j]
  BY <1>1
<1>3. Events(SubSeq(log, 1, i)) = [j \in 1 .. i |-> stored[j].event]
  <2>1. \A j \in 1 .. i : SubSeq(log, 1, i)[j].event = stored[j].event
    BY <1>1, <1>2 DEF Mirrors
  <2> QED
    BY <1>2, <2>1 DEF Events
<1> QED
  BY <1>3 DEF Receipt, OnDisk, Mirrors

LEMMA ReceiptStep == TypeInv /\ ReceiptInv /\ [LedgerNext]_ledger => ReceiptInv'
<1> SUFFICES ASSUME TypeInv, ReceiptInv, [LedgerNext]_ledger PROVE ReceiptInv'
  OBVIOUS
<1>1. /\ log \in Seq(Entry) /\ stored \in Seq(LineOnDisk)
      /\ Len(log) \in Nat /\ Len(stored) \in Nat /\ DOMAIN log = 1 .. Len(log)
  BY DEF TypeInv
<1>2. ASSUME stored' = stored, receipts' = receipts
      PROVE  EachOnce' /\ ReceiptsFromDisk'
  BY <1>2 DEF ReceiptInv, EachOnce, ReceiptsFromDisk, OnDisk
<1>3. CASE UNCHANGED ledger
  BY <1>2, <1>3 DEF ledger, ledgerVars, indexVars, ReceiptInv, IndexIsDisk, Mirrors
<1>4. ASSUME NEW p \in Writer, Open(p) PROVE ReceiptInv'
  <2>1. log' = <<>> /\ Len(log') = 0 /\ writer'.pc = "replay" /\ Len(stored') \in Nat
    BY <1>1, <1>4 DEF Open, Goes
  <2>2. IndexIsDisk'
    BY <2>1 DEF IndexIsDisk, Mirrors
  <2> QED
    BY <1>2, <1>4, <2>2 DEF Open, ReceiptInv
<1>5. ASSUME NEW p \in Writer, Replay(p) PROVE ReceiptInv'
  <2>1. CASE Goes(p, "damaged") /\ UNCHANGED indexVars
    BY <1>2, <1>5, <2>1 DEF Replay, Goes, ReceiptInv, IndexIsDisk
  <2>2. CASE Admit(Line(Next1)) /\ UNCHANGED writer
    <3>1. Next1 = Len(log) + 1 /\ Next1 <= Len(stored) /\ writer.pc = "replay"
      BY <1>1, <1>5 DEF Replay, Holds, Next1
    <3>2. /\ Len(log') = Next1
          /\ \A i \in 1 .. Len(log) : log'[i] = log[i]
          /\ log'[Next1].event = stored[Next1].event /\ log'[Next1].wire = stored[Next1].wire
      BY <1>1, <2>2, <3>1 DEF Admit, Line
    <3>3. (Len(log) <= Len(stored) /\ Mirrors(Len(log)))'
      BY <1>1, <1>5, <3>1, <3>2 DEF Replay, ReceiptInv, IndexIsDisk, Mirrors
    <3> QED
      BY <1>2, <1>5, <2>2, <3>1, <3>3 DEF Replay, ReceiptInv, IndexIsDisk
  <2> QED
    BY <1>5, <2>1, <2>2 DEF Replay
<1>6. ASSUME NEW p \in Writer, NEW s \in Traffic, NEW how, AdmitNew(p, s, how) PROVE ReceiptInv'
  <2>1. Len(log) = Len(stored) /\ writer.pc = "replay" /\ writer'.pc = "append"
    BY <1>6 DEF AdmitNew, Ready, Holds, Goes
  <2>2. /\ Len(log') = Len(log) + 1
        /\ \A i \in 1 .. Len(log) : log'[i] = log[i]
        /\ log'[Len(log) + 1].event = s.event
    BY <1>1, <1>6 DEF AdmitNew, Admit
  <2>3. \A i \in 1 .. Len(log) : log[i].event # s.event
    BY <1>1, <1>6 DEF AdmitNew, Admissible, Prior
  <2>4. IndexIsDisk'
    BY <1>1, <1>6, <2>1, <2>2, <2>3 DEF AdmitNew, ReceiptInv, IndexIsDisk, Mirrors
  <2> QED
    BY <1>2, <1>6, <2>4 DEF AdmitNew, ReceiptInv
<1>7. ASSUME NEW p \in Writer, AppendLine(p) PROVE ReceiptInv'
  <2>1. /\ writer.pc = "append" /\ writer'.pc = "answer" /\ log' = log /\ receipts' = receipts
        /\ Len(log) = Len(stored) + 1 /\ Mirrors(Len(stored))
    BY <1>7 DEF AppendLine, Holds, Goes, indexVars, ReceiptInv, IndexIsDisk
  <2>2. /\ Len(stored') = Len(log)
        /\ \A i \in 1 .. Len(stored) : stored'[i] = stored[i]
        /\ stored'[Len(log)].event = log[Len(log)].event
        /\ stored'[Len(log)].wire = log[Len(log)].wire
    BY <1>1, <1>7, <2>1 DEF AppendLine
  <2>3. IndexIsDisk'
    BY <1>1, <2>1, <2>2 DEF IndexIsDisk, Mirrors
  <2>4. EachOnce'
    BY <1>1, <2>1, <2>2 DEF ReceiptInv, IndexIsDisk, EachOnce
  <2>5. ASSUME NEW i \in 1 .. Len(stored) PROVE i \in 1 .. Len(stored') /\ OnDisk(i)' = OnDisk(i)
    <3>1. i \in Nat /\ Len(stored') = Len(stored) + 1 /\ stored'[i] = stored[i]
      BY <1>1, <2>1, <2>2
    <3>2. \A j \in 1 .. i : stored'[j] = stored[j]
      BY <1>1, <2>2, <3>1
    <3>3. [j \in 1 .. i |-> stored'[j].event] = [j \in 1 .. i |-> stored[j].event]
      BY <3>2
    <3> QED
      BY <1>1, <3>1, <3>3 DEF OnDisk
  <2> QED
    BY <2>1, <2>3, <2>4, <2>5 DEF ReceiptInv, ReceiptsFromDisk
<1>8. ASSUME stored' = stored, log' = log, Len(log) = Len(stored), Mirrors(Len(log)),
             writer' = Free, NEW I \in SUBSET (1 .. Len(log)),
             receipts' = receipts \cup {Receipt(i) : i \in I}
      PROVE  ReceiptInv'
  <2>1. IndexIsDisk' /\ EachOnce'
    BY <1>8 DEF ReceiptInv, IndexIsDisk, EachOnce, Free
  <2>2. ASSUME NEW r \in receipts' PROVE \E i \in 1 .. Len(stored) : r = OnDisk(i)
    BY <1>1, <1>8, <2>2, ReceiptIsFromDisk DEF ReceiptInv, ReceiptsFromDisk
  <2> QED
    BY <1>8, <2>1, <2>2 DEF ReceiptInv, ReceiptsFromDisk, OnDisk
<1>9. ASSUME NEW p \in Writer, NEW s \in Traffic, NEW own \in BOOLEAN, AnswerAgain(p, s, own)
      PROVE  ReceiptInv'
  <2>1. Len(log) = Len(stored) /\ Mirrors(Len(log))
    BY <1>1, <1>9 DEF AnswerAgain, Ready, Holds, ReceiptInv, IndexIsDisk
  <2>2. Prior(s.event) \in SUBSET (1 .. Len(log))
    BY <1>1 DEF Prior
  <2> QED
    BY <1>8, <1>9, <2>1, <2>2 DEF AnswerAgain, indexVars
<1>10. ASSUME NEW p \in Writer, Answer(p) PROVE ReceiptInv'
  <2>1. Len(log) = Len(stored) /\ Mirrors(Len(log)) /\ log # <<>>
    BY <1>10 DEF Answer, Holds, ReceiptInv, IndexIsDisk, TypeInv
  <2>2. {Len(log)} \in SUBSET (1 .. Len(log))
    BY <1>1, <2>1
  <2>3. receipts' = receipts \cup {Receipt(i) : i \in {Len(log)}}
    BY <1>10 DEF Answer
  <2> QED
    BY <1>8, <1>10, <2>1, <2>2, <2>3 DEF Answer, indexVars
<1>11. ASSUME NEW p \in Writer,
              \/ \E b \in Registrations : RegisterKey(p, b.pub, b.signer, b.name)
              \/ \E k \in Pubkey : Pin(p, k)
              \/ Audit(p) \/ WriterEnds(p)
       PROVE  ReceiptInv'
  <2>1. stored' = stored /\ receipts' = receipts /\ writer'.pc = "free"
    BY <1>11 DEF RegisterKey, Pin, Audit, WriterEnds, Free
  <2> QED
    BY <1>2, <2>1 DEF ReceiptInv, IndexIsDisk
<1> QED
  BY <1>3, <1>4, <1>5, <1>6, <1>7, <1>9, <1>10, <1>11 DEF LedgerNext

\* A retry is given the first receipt, word for word, however often the log was read
\* anew in between and whatever became of the key (_issue_receipt, hub_writer).
THEOREM OneReceiptAlways == LedgerSpec => []OneReceiptPerEvent
<1>1. LedgerInit => ReceiptInv
  BY DEF LedgerInit, ReceiptInv, IndexIsDisk, EachOnce, ReceiptsFromDisk, Free
<1>2. ReceiptInv => OneReceiptPerEvent
  BY DEF ReceiptInv, EachOnce, ReceiptsFromDisk, OnDisk, OneReceiptPerEvent
<1> QED
  BY <1>1, <1>2, ReceiptStep, TypeAlways, PTL DEF LedgerSpec, ledger

-----------------------------------------------------------------------------
(* What an index and keys of an earlier moment would have said *)

\* The operators of the ledger, of an index l and keys ks that need not be those of now.

ValidIn(ks, k, n) ==
  /\ ks[k] # NoOne
  /\ n >= ks[k].from
  /\ ks[k].until = Never \/ n < ks[k].until
KeysOfIn(ks, s) == {k \in Pubkey : ks[k] # NoOne /\ ks[k].signer = s}
NamedIn(ks, s, name) == {k \in KeysOfIn(ks, s) : ks[k].name = name}
RevokeIn(ks, s, name, n) ==
  [k \in Pubkey |-> IF k \in NamedIn(ks, s, name) /\ ks[k].until = Never
                    THEN [ks[k] EXCEPT !.until = n] ELSE ks[k]]
LifecycleIn(ks, e, n) ==
  CASE e.kind = "rotated"    -> Bind(ks, e.p.pub, e.signer, e.p.name, Following(n))
    [] e.kind = "introduced" -> Bind(ks, e.p.pub, e.p.signer, e.p.name, Following(n))
    [] e.kind = "revoked"    -> RevokeIn(ks, e.signer, e.p.name, Following(n))
    [] OTHER                 -> ks
OperatorIn(ks, s) == s = Home /\ (Declared \/ \E k \in KeysOfIn(ks, s) : ks[k].from = 0)

PlacesIn(l, e) == {i \in DOMAIN l : l[i].event = e}
AuthorityIn(l, e) == {i \in PlacesIn(l, e) : l[i].projected}
PriorIn(l, e) == {i \in DOMAIN l : Scope(l[i].event) = Scope(e)}
AgainIn(l, s) == \E i \in PriorIn(l, s.event) : l[i].event = s.event /\ l[i].pub = s.pub
BoundIn(l, ks, s) ==
  /\ ValidIn(ks, s.pub, Len(l) + 1)
  /\ ks[s.pub].signer = s.event.signer
  /\ ks[s.pub].name = s.event.name
PinnedIn(ps, n, s) ==
  LET mine == {p \in ps : p.signer = s.event.signer /\ p.from <= n}
  IN s.event.kind \in OfKeys /\ mine # {} => \E p \in mine : p.pub = s.pub /\ p.name = s.event.name
KnownIn(l) == UNION {Said(l[i].event) : i \in DOMAIN l}
ConsistentIn(l, e) == Agree(KnownIn(l) \cup Said(e))

MayRevokeIn(l, e) ==
  LET t == e.p.revokes IN
  /\ AuthorityIn(l, t) # {}
  /\ t.kind = "attested"
  /\ Claims[t.p.claim].space = Claims[e.p.claim].space
  /\ t.p.scope = e.p.scope
  /\ t.signer = e.signer
ClaimOKIn(l, e) ==
  ~Unknown(e) =>
    LET spec == Claims[e.p.claim] IN
    /\ e.p.subject \in spec.subjects
    /\ e.p.level \in spec.levels
    /\ spec.report => e.p.after # NoOne /\ AuthorityIn(l, e.p.after) # {}
    /\ e.p.revokes # NoOne => MayRevokeIn(l, e)
    /\ spec.capture => e.p.capture
RotationOKIn(ks, e) == ks[e.p.pub] = NoOne /\ NamedIn(ks, e.signer, e.p.name) = {}
RevocationOKIn(ks, e) == \E k \in NamedIn(ks, e.signer, e.p.name) : ks[k].until = Never
IntroductionOKIn(ks, e) ==
  /\ OperatorIn(ks, e.signer)
  /\ e.p.signer # e.signer
  /\ KeysOfIn(ks, e.p.signer) = {}
  /\ ks[e.p.pub] = NoOne
CanaryOKIn(l, e) ==
  /\ AuthorityIn(l, e.p.of) # {}
  /\ e.p.of.kind = "observed"
  /\ e.p.rule \in DOMAIN Rules
  /\ e.p.passed = (e.p.seen = Rules[e.p.rule])
  /\ e.p.policy \in Policies
BracketsIn(l, e) == \A i \in AuthorityIn(l, e.p.anchor), j \in AuthorityIn(l, e.p.canary) : j > i
LaunchOKIn(l, e) ==
  /\ AuthorityIn(l, e.p.anchor) = {e.p.seq}
  /\ e.p.anchor.kind = "anchor"
  /\ AuthorityIn(l, e.p.canary) # {}
  /\ e.p.canary.kind = "canary"
  /\ e.p.level = "bracketed" => BracketsIn(l, e)
CompletedOKIn(l, e) ==
  /\ AuthorityIn(l, e.p.gate) # {}
  /\ e.p.gate.kind = "launch"
  /\ e.p.after = e.p.gate
  /\ e.p.level = "bracketed" => e.p.gate.p.level = "bracketed"
PolicyIn(l, ks, e) ==
  /\ ConsistentIn(l, e)
  /\ CASE e.kind = "attested"   -> ClaimOKIn(l, e)
       [] e.kind = "rotated"    -> RotationOKIn(ks, e)
       [] e.kind = "revoked"    -> RevocationOKIn(ks, e)
       [] e.kind = "introduced" -> IntroductionOKIn(ks, e)
       [] e.kind = "canary"     -> CanaryOKIn(l, e)
       [] e.kind = "launch"     -> LaunchOKIn(l, e)
       [] e.kind = "completed"  -> CompletedOKIn(l, e)
       [] OTHER                 -> TRUE
AdmissibleIn(l, ks, ps, s) ==
  /\ Genuine(s)
  /\ ~AgainIn(l, s)
  /\ BoundIn(l, ks, s)
  /\ PriorIn(l, s.event) = {}
  /\ PolicyIn(l, ks, s.event)
  /\ PinnedIn(ps, Len(l) + 1, s)

LEMMA KeysThenAndNow ==
  /\ \A k, n : ValidIn(keys, k, n) = WasValid(k, n)
  /\ \A s, name : NamedIn(keys, s, name) = Named(s, name)
  /\ \A s : KeysOfIn(keys, s) = KeysOf(s)
  /\ \A s : OperatorIn(keys, s) <=> Operator(s)
  /\ \A e, n : LifecycleIn(keys, e, n) = Lifecycle(e, n)
BY DEF ValidIn, WasValid, NamedIn, Named, KeysOfIn, KeysOf, OperatorIn, Operator, LifecycleIn,
       Lifecycle, RevokeIn, Revoke

LEMMA PolicyThenAndNow == \A e : PolicyIn(log, keys, e) <=> Policy(e)
BY DEF NamedIn, Named, KeysOfIn, KeysOf, OperatorIn, Operator, PolicyIn, Policy, ConsistentIn,
       Consistent, KnownIn, Known, ClaimOKIn, ClaimOK, MayRevokeIn, MayRevoke, RotationOKIn,
       RotationOK, RevocationOKIn, RevocationOK, IntroductionOKIn, IntroductionOK, CanaryOKIn,
       CanaryOK, LaunchOKIn, LaunchOK, BracketsIn, Brackets, CompletedOKIn, CompletedOK,
       AuthorityIn, Authority, PlacesIn, Places

\* Of the index and the keys of now it is the verdict of the guard.
LEMMA VerdictThenAndNow == \A s : AdmissibleIn(log, keys, pins, s) <=> Admissible(s)
BY PolicyThenAndNow
   DEF AdmissibleIn, Admissible, AgainIn, Again, PriorIn, Prior, BoundIn, Bound, ValidIn, WasValid,
       PinnedIn, Pinned, Next1

-----------------------------------------------------------------------------
(* The lines can be read again *)

\* What the index has of a line, and of the first n of the lines S; and a line as it is
\* read.
IndexedAs(r) == [event |-> r.event, pub |-> r.pub, wire |-> r.wire, projected |-> ~Unknown(r.event)]
Indexed(S, n) == [i \in 1 .. n |-> IndexedAs(S[i])]
AsRead(r) == [event |-> r.event, pub |-> r.pub, wire |-> r.wire, genuine |-> TRUE]

\* Line r is admissible as the n-th, after the first n - 1 of the lines S, under the pins
\* ps and the keys ks, which it turns into kt.
TakenAs(S, ps, n, ks, r, kt) ==
  /\ AdmissibleIn(Indexed(S, n - 1), ks, ps, AsRead(r))
  /\ kt = LifecycleIn(ks, r.event, n)

\* The keys before the first line and after each: every line was admissible where it
\* stands, and brought about the keys after it.
KeyHistory(H) ==
  /\ H \in [1 .. Len(stored) + 1 -> [Pubkey -> Binding \cup {NoOne}]]
  /\ H[1] = FirstKeys
  /\ \A n \in 1 .. Len(stored) : TakenAs(stored, pins, n, H[n], stored[n], H[n + 1])

\* Where a writer stands in this history, and what was-valid said by it.
Replaying(H) ==
  writer.pc = "replay" =>
    /\ Len(log) <= Len(stored) /\ log = Indexed(stored, Len(log))
    /\ keys = H[Len(log) + 1]
Appending(H) ==
  writer.pc = "append" =>
    \E r \in LineOnDisk :
      /\ log = Append(Indexed(stored, Len(stored)), IndexedAs(r))
      /\ TakenAs(stored, pins, Len(stored) + 1, H[Len(stored) + 1], r, keys)
AuditsFromHistory(H) ==
  \A a \in audits : \E k \in Pubkey : \E n \in 1 .. Len(stored) :
    a = <<k, n, ValidIn(H[Len(stored) + 1], k, n)>>
HistoryOK(H) == KeyHistory(H) /\ Replaying(H) /\ Appending(H) /\ AuditsFromHistory(H)

HistoryInv == ReplayNeverFails /\ \E H : HistoryOK(H)

LEMMA IndexGrows ==
  ASSUME NEW S, NEW n \in Nat
  PROVE  /\ Indexed(S, n) \in Seq({IndexedAs(S[i]) : i \in 1 .. n}) /\ Len(Indexed(S, n)) = n
         /\ Indexed(S, 0) = <<>>
         /\ Append(Indexed(S, n), IndexedAs(S[n + 1])) = Indexed(S, n + 1)
<1> DEFINE f == Indexed(S, n)
           g == Indexed(S, n + 1)
           T == {IndexedAs(S[i]) : i \in 1 .. n + 1}
           y == IndexedAs(S[n + 1])
           h == Append(f, y)
<1>1. f \in Seq({IndexedAs(S[i]) : i \in 1 .. n}) /\ f \in Seq(T) /\ Len(f) = n
  BY DEF Indexed
<1>2. g \in Seq(T) /\ Len(g) = n + 1
  BY DEF Indexed
<1>3. y \in T
  OBVIOUS
<1>4. \A i \in 1 .. n : g[i] = f[i]
  BY DEF Indexed
<1>5. g[n + 1] = y
  BY DEF Indexed
<1> HIDE DEF f, g, T, y
<1>6. /\ h \in Seq(T) /\ Len(h) = n + 1 /\ h[n + 1] = y
      /\ \A i \in 1 .. n : h[i] = f[i]
  BY <1>1, <1>3
<1>7. h = g
  BY <1>2, <1>4, <1>5, <1>6
<1>8. Indexed(S, 0) = <<>>
  BY DEF Indexed
<1> QED
  BY <1>1, <1>7, <1>8 DEF f, g, y

LEMMA IndexOfPrefix ==
  ASSUME NEW R, NEW S \in Seq(R), NEW r \in R, NEW n \in 0 .. Len(S)
  PROVE  Indexed(Append(S, r), n) = Indexed(S, n)
<1>1. \A i \in 1 .. n : Append(S, r)[i] = S[i]
  OBVIOUS
<1> QED
  BY <1>1 DEF Indexed

\* Of what was signed the verdict needs the envelope and its key alone.
LEMMA ReadAsSigned ==
  ASSUME NEW l, NEW ks, NEW ps, NEW s, NEW r, AdmissibleIn(l, ks, ps, s),
         s.event = r.event, s.pub = r.pub
  PROVE  AdmissibleIn(l, ks, ps, AsRead(r))
<1> DEFINE t == AsRead(r)
<1>1. t.event = s.event /\ t.pub = s.pub /\ t.genuine
  BY DEF AsRead
<1> HIDE DEF t
<1>2. Genuine(t) /\ ~AgainIn(l, t)
  BY <1>1 DEF AdmissibleIn, Genuine, AgainIn
<1>3. BoundIn(l, ks, t) /\ PriorIn(l, t.event) = {} /\ PolicyIn(l, ks, t.event)
  BY <1>1 DEF AdmissibleIn, BoundIn
<1>4. PinnedIn(ps, Len(l) + 1, t)
  BY <1>1 DEF AdmissibleIn, PinnedIn
<1> QED
  BY <1>2, <1>3, <1>4 DEF t, AdmissibleIn

\* A pin that counts from a later place changes no verdict of an earlier one.
LEMMA LaterPin ==
  ASSUME NEW l, NEW ks, NEW ps, NEW s, NEW q, ~(q.from <= Len(l) + 1)
  PROVE  AdmissibleIn(l, ks, ps \cup {q}, s) <=> AdmissibleIn(l, ks, ps, s)
<1>1. {p \in ps \cup {q} : p.signer = s.event.signer /\ p.from <= Len(l) + 1}
        = {p \in ps : p.signer = s.event.signer /\ p.from <= Len(l) + 1}
  OBVIOUS
<1>2. PinnedIn(ps \cup {q}, Len(l) + 1, s) <=> PinnedIn(ps, Len(l) + 1, s)
  BY <1>1 DEF PinnedIn
<1> QED
  BY <1>2 DEF AdmissibleIn

\* What line n does to the keys changes nothing of the places up to n, for better or
\* worse.
LEMMA PastIsFixed ==
  ASSUME NEW ks \in [Pubkey -> Binding \cup {NoOne}], NEW kt \in [Pubkey -> Binding \cup {NoOne}],
         NEW n \in Nat, NEW e, NEW l, PolicyIn(l, ks, e), kt = LifecycleIn(ks, e, n),
         NEW k \in Pubkey, NEW i \in 1 .. n
  PROVE  ValidIn(kt, k, i) = ValidIn(ks, k, i)
<1>1. Never \in Int /\ ~(i >= n + 1) /\ i < n + 1 /\ i \in Nat
  BY DEF Never
<1>2. CASE kt[k] = ks[k]
  BY <1>2 DEF ValidIn
<1>3. ASSUME ks[k] = NoOne, kt[k] \in Binding, kt[k].from = n + 1
      PROVE  ValidIn(kt, k, i) = ValidIn(ks, k, i)
  <2>1. ~ValidIn(ks, k, i)
    BY <1>3 DEF ValidIn
  <2>2. ~ValidIn(kt, k, i)
    BY <1>1, <1>3 DEF ValidIn
  <2>3. ValidIn(ks, k, i) \in BOOLEAN /\ ValidIn(kt, k, i) \in BOOLEAN
    BY DEF ValidIn
  <2> QED
    BY <2>1, <2>2, <2>3
<1>4. ASSUME ks[k] # NoOne, ks[k].until = Never, kt[k] = [ks[k] EXCEPT !.until = n + 1]
      PROVE  ValidIn(kt, k, i) = ValidIn(ks, k, i)
  <2>1. ks[k] \in Binding /\ kt[k] \in Binding
    BY <1>4 DEF Binding
  <2>2. kt[k].from = ks[k].from /\ kt[k].until = n + 1
    BY <1>4, <2>1 DEF Binding
  <2>3. kt[k] # NoOne
    BY <2>1, LedgerAssumption
  <2>4. ValidIn(kt, k, i) <=> i >= ks[k].from
    BY <1>1, <2>2, <2>3 DEF ValidIn
  <2>5. ValidIn(ks, k, i) <=> i >= ks[k].from
    BY <1>4 DEF ValidIn
  <2>6. ValidIn(ks, k, i) \in BOOLEAN /\ ValidIn(kt, k, i) \in BOOLEAN
    BY DEF ValidIn
  <2> QED
    BY <2>4, <2>5, <2>6
<1>5. ASSUME NEW m, NEW s, NEW name, ks[m] = NoOne,
             kt = Bind(ks, m, s, name, n + 1)
      PROVE  ValidIn(kt, k, i) = ValidIn(ks, k, i)
  <2>1. CASE k = m
    <3>1. kt[k] = [signer |-> s, name |-> name, from |-> n + 1, until |-> Never]
      BY <1>5, <2>1 DEF Bind
    <3>2. kt[k].from = n + 1
      BY <3>1
    <3> QED
      BY <1>2, <1>3, <1>5, <2>1, <3>2
  <2>2. CASE k # m
    BY <1>2, <1>5, <2>2 DEF Bind
  <2> QED
    BY <2>1, <2>2
<1>6. CASE e.kind = "rotated"
  BY <1>5, <1>6 DEF PolicyIn, RotationOKIn, LifecycleIn, Following
<1>7. CASE e.kind = "introduced"
  BY <1>5, <1>7 DEF PolicyIn, IntroductionOKIn, LifecycleIn, Following
<1>8. CASE e.kind = "revoked"
  <2>1. kt = RevokeIn(ks, e.signer, e.p.name, n + 1)
    BY <1>8 DEF LifecycleIn, Following
  <2>2. \/ kt[k] = ks[k]
        \/ ks[k] # NoOne /\ ks[k].until = Never /\ kt[k] = [ks[k] EXCEPT !.until = n + 1]
    BY <2>1 DEF RevokeIn, NamedIn, KeysOfIn
  <2> QED
    BY <1>2, <1>4, <2>2
<1>9. CASE e.kind \notin {"rotated", "introduced", "revoked"}
  BY <1>2, <1>9 DEF LifecycleIn
<1> QED
  BY <1>6, <1>7, <1>8, <1>9

LEMMA OneMoreIndexed ==
  ASSUME NEW S, NEW n \in Nat, NEW y
  PROVE  Len(Append(Indexed(S, n), y)) = n + 1 /\ Append(Indexed(S, n), y)[n + 1] = y
<1> DEFINE f == Indexed(S, n)
           T == {IndexedAs(S[i]) : i \in 1 .. n} \cup {y}
<1>1. f \in Seq(T) /\ Len(f) = n
  BY DEF Indexed
<1>2. y \in T
  OBVIOUS
<1> HIDE DEF f, T
<1>3. Len(Append(f, y)) = n + 1 /\ Append(f, y)[n + 1] = y
  BY <1>1, <1>2
<1> QED
  BY <1>3 DEF f

FirstKeysTyped == FirstKeys \in [Pubkey -> Binding \cup {NoOne}]
LEMMA FirstKeysOKThen == TypeInv' => FirstKeys' \in [Pubkey -> Binding \cup {NoOne}]
<1>1. TypeInv => FirstKeysTyped
  BY FirstKeysOK DEF FirstKeysTyped
<1>2. TypeInv' => FirstKeysTyped'
  BY <1>1, PTL
<1> QED
  BY <1>2 DEF FirstKeysTyped

LEMMA HistoryStep == TypeInv /\ TypeInv' /\ HistoryInv /\ [LedgerNext]_ledger => HistoryInv'
<1> SUFFICES ASSUME TypeInv, TypeInv', ReplayNeverFails, NEW H, HistoryOK(H), [LedgerNext]_ledger
             PROVE  HistoryInv'
  BY DEF HistoryInv
<1> DEFINE L == Len(stored)
           Same == stored' = stored /\ bootstrap' = bootstrap /\ pins' = pins
<1>1. /\ log \in Seq(Entry) /\ Len(log) \in Nat
      /\ stored \in Seq(LineOnDisk) /\ L \in Nat /\ L + 1 \in Nat
      /\ \A n \in 1 .. L : stored[n] \in LineOnDisk
  BY DEF TypeInv
<1>2. KeyHistory(H) /\ Replaying(H) /\ Appending(H) /\ AuditsFromHistory(H)
  BY DEF HistoryOK
<1>3. ASSUME Same PROVE KeyHistory(H)'
  BY <1>2, <1>3 DEF KeyHistory, FirstKeys
<1>4. ASSUME Same, audits' = audits PROVE KeyHistory(H)' /\ AuditsFromHistory(H)'
  BY <1>2, <1>3, <1>4 DEF AuditsFromHistory
<1>5. ASSUME KeyHistory(H)', AuditsFromHistory(H)', writer'.pc \in {"free", "answer"}
      PROVE  HistoryInv'
  BY <1>5 DEF HistoryInv, HistoryOK, Replaying, Appending, ReplayNeverFails
<1>6. CASE UNCHANGED ledger
  <2>1. Same /\ audits' = audits /\ writer' = writer /\ log' = log /\ keys' = keys
    BY <1>6 DEF ledger, ledgerVars, indexVars
  <2>2. Replaying(H)' /\ Appending(H)' /\ ReplayNeverFails'
    BY <1>2, <2>1 DEF Replaying, Appending, ReplayNeverFails
  <2> QED
    BY <1>4, <2>1, <2>2 DEF HistoryInv, HistoryOK
<1>7. ASSUME NEW p \in Writer, Open(p) PROVE HistoryInv'
  <2>1. Same /\ audits' = audits /\ writer'.pc = "replay" /\ log' = <<>> /\ keys' = FirstKeys
    BY <1>7 DEF Open, Goes
  <2>2. Len(log') = 0 /\ log' = Indexed(stored, Len(log')) /\ H[Len(log') + 1] = keys'
    <3>1. Indexed(stored, 0) = <<>>
      BY IndexGrows, 0 \in Nat
    <3>2. Len(log') = 0 /\ 0 + 1 = 1
      BY <2>1
    <3> QED
      BY <1>2, <2>1, <3>1, <3>2 DEF KeyHistory
  <2>3. Replaying(H)' /\ Appending(H)' /\ ReplayNeverFails'
    BY <1>1, <2>1, <2>2 DEF Replaying, Appending, ReplayNeverFails
  <2> QED
    BY <1>4, <2>1, <2>3 DEF HistoryInv, HistoryOK
<1>8. ASSUME NEW p \in Writer, Replay(p) PROVE HistoryInv'
  <2> DEFINE n == Len(log) + 1
             s == Line(n)
  <2>1. /\ Same /\ audits' = audits /\ writer.pc = "replay" /\ Next1 = n /\ n \in 1 .. L
        /\ n - 1 = Len(log) /\ n \in Nat /\ n - 1 \in Nat
    BY <1>1, <1>8 DEF Replay, Holds, Next1
  <2>2. log = Indexed(stored, n - 1) /\ keys = H[n]
    BY <1>2, <2>1 DEF Replaying
  <2>3. s = AsRead(stored[n]) /\ s.event = stored[n].event /\ s.pub = stored[n].pub
          /\ s.wire = stored[n].wire
    BY DEF Line, AsRead
  <2>4. TakenAs(stored, pins, n, H[n], stored[n], H[n + 1])
    BY <1>2, <2>1 DEF KeyHistory
  <2>5. Admissible(s)
    <3>1. AdmissibleIn(log, keys, pins, s)
      BY <2>2, <2>3, <2>4 DEF TakenAs
    <3> QED
      BY <3>1, VerdictThenAndNow
  <2>6. Admit(s) /\ writer' = writer
    BY <1>8, <2>1, <2>5 DEF Replay
  <2>7. log' = Indexed(stored, n)
    <3>1. log' = Append(log, IndexedAs(stored[n]))
      BY <2>3, <2>6 DEF Admit, IndexedAs
    <3> QED
      BY <2>1, <2>2, <3>1, IndexGrows
  <2>8. Len(log') = n
    BY <2>1, <2>7, IndexGrows
  <2>9. keys' = H[n + 1]
    <3>1. keys' = LifecycleIn(keys, stored[n].event, n)
      BY <2>1, <2>3, <2>6, KeysThenAndNow DEF Admit
    <3> QED
      BY <2>2, <2>4, <3>1 DEF TakenAs
  <2>10. Replaying(H)' /\ Appending(H)' /\ ReplayNeverFails'
    BY <2>1, <2>6, <2>7, <2>8, <2>9 DEF Replaying, Appending, ReplayNeverFails
  <2> QED
    BY <1>4, <2>1, <2>10 DEF HistoryInv, HistoryOK
<1>9. ASSUME NEW p \in Writer, Ready(p)
      PROVE  Len(log) = L /\ log = Indexed(stored, L) /\ keys = H[L + 1]
  BY <1>1, <1>2, <1>9 DEF Ready, Holds, Replaying
<1>10. ASSUME NEW p \in Writer, NEW s \in Traffic, NEW how, AdmitNew(p, s, how) PROVE HistoryInv'
  <2> DEFINE r == [event |-> s.event, pub |-> s.pub, wire |-> s.wire]
  <2>1. /\ Same /\ audits' = audits /\ writer'.pc = "append" /\ Admissible(s) /\ Admit(s)
        /\ Ready(p)
    BY <1>10 DEF AdmitNew, Goes
  <2>2. r \in LineOnDisk /\ r.event = s.event /\ r.pub = s.pub /\ r.wire = s.wire
    BY DEF LineOnDisk
  <2>3. Len(log) = L /\ log = Indexed(stored, L) /\ keys = H[L + 1] /\ Next1 = L + 1
    BY <1>9, <2>1 DEF Next1
  <2>4. log' = Append(Indexed(stored, L), IndexedAs(r))
    BY <2>1, <2>2, <2>3 DEF Admit, IndexedAs
  <2>5. AdmissibleIn(log, keys, pins, s)
    BY <2>1, VerdictThenAndNow
  <2>6. AdmissibleIn(log, keys, pins, AsRead(r))
    BY <2>2, <2>5, ReadAsSigned
  <2>7. keys' = LifecycleIn(keys, r.event, L + 1)
    BY <2>1, <2>2, <2>3, KeysThenAndNow DEF Admit
  <2>8. TakenAs(stored, pins, L + 1, H[L + 1], r, keys')
    <3>1. (L + 1) - 1 = L
      BY <1>1
    <3> QED
      BY <2>3, <2>6, <2>7, <3>1 DEF TakenAs
  <2>9. Replaying(H)' /\ Appending(H)' /\ ReplayNeverFails'
    BY <2>1, <2>2, <2>4, <2>8 DEF Replaying, Appending, ReplayNeverFails
  <2> QED
    BY <1>4, <2>1, <2>9 DEF HistoryInv, HistoryOK
<1>11. ASSUME NEW p \in Writer, AppendLine(p) PROVE HistoryInv'
  <2>1. PICK r \in LineOnDisk : /\ log = Append(Indexed(stored, L), IndexedAs(r))
                                /\ TakenAs(stored, pins, L + 1, H[L + 1], r, keys)
    BY <1>2, <1>11 DEF AppendLine, Holds, Appending
  <2>0. PICK G : G = [n \in 1 .. L + 2 |-> IF n = L + 2 THEN keys ELSE H[n]]
    OBVIOUS
  <2>2. /\ bootstrap' = bootstrap /\ pins' = pins /\ audits' = audits
        /\ writer'.pc = "answer"
    BY <1>11 DEF AppendLine, Goes
  <2>3. stored' = Append(stored, r)
    <3>1. Len(log) = L + 1 /\ log[L + 1] = IndexedAs(r)
      BY <1>1, <2>1, OneMoreIndexed
    <3>2. r = [event |-> r.event, pub |-> r.pub, wire |-> r.wire]
      BY DEF LineOnDisk
    <3>3. IndexedAs(r).event = r.event /\ IndexedAs(r).pub = r.pub /\ IndexedAs(r).wire = r.wire
      BY DEF IndexedAs
    <3> QED
      BY <1>11, <3>1, <3>2, <3>3 DEF AppendLine
  <2>4. /\ Len(stored') = L + 1 /\ stored'[L + 1] = r
        /\ \A n \in 1 .. L : stored'[n] = stored[n]
    BY <1>1, <2>3
  <2>5. ASSUME NEW n \in 1 .. L + 1 PROVE Indexed(stored', n - 1) = Indexed(stored, n - 1)
    BY <1>1, <2>3, IndexOfPrefix
  <2>6. /\ G[L + 2] = keys /\ \A n \in 1 .. L + 1 : G[n] = H[n]
        /\ G[1] = FirstKeys
    BY <1>1, <1>2, <2>0 DEF KeyHistory
  <2>7. KeyHistory(G)'
    <3>1. G \in [1 .. Len(stored') + 1 -> [Pubkey -> Binding \cup {NoOne}]]
      <4>1. keys \in [Pubkey -> Binding \cup {NoOne}]
        BY DEF TypeInv
      <4>2. \A n \in 1 .. L + 1 : H[n] \in [Pubkey -> Binding \cup {NoOne}]
        BY <1>2 DEF KeyHistory
      <4>3. Len(stored') + 1 = L + 2
        BY <1>1, <2>4
      <4> QED
        BY <1>1, <2>0, <4>1, <4>2, <4>3
    <3>2. FirstKeys' = FirstKeys
      BY <2>2 DEF FirstKeys
    <3>3. ASSUME NEW n \in 1 .. L
          PROVE  TakenAs(stored', pins', n, G[n], stored'[n], G[n + 1])
      <4>1. n \in 1 .. L + 1 /\ n + 1 \in 1 .. L + 1
        BY <1>1
      <4>2. TakenAs(stored, pins, n, H[n], stored[n], H[n + 1])
        BY <1>2 DEF KeyHistory
      <4> QED
        BY <2>2, <2>4, <2>5, <2>6, <4>1, <4>2 DEF TakenAs
    <3>4. TakenAs(stored', pins', L + 1, G[L + 1], stored'[L + 1], G[(L + 1) + 1])
      <4>1. L + 1 \in 1 .. L + 1 /\ (L + 1) + 1 = L + 2
        BY <1>1
      <4> QED
        BY <2>1, <2>2, <2>4, <2>5, <2>6, <4>1 DEF TakenAs
    <3>5. ASSUME NEW n \in 1 .. Len(stored')
          PROVE  TakenAs(stored', pins', n, G[n], stored'[n], G[n + 1])
      <4>1. n \in 1 .. L \/ n = L + 1
        BY <1>1, <2>4
      <4> QED
        BY <3>3, <3>4, <4>1
    <3> QED
      BY <2>6, <3>1, <3>2, <3>5 DEF KeyHistory
  <2>8. AuditsFromHistory(G)'
    <3>1. ASSUME NEW a \in audits, NEW k \in Pubkey, NEW n \in 1 .. L,
                 a = <<k, n, ValidIn(H[L + 1], k, n)>>
          PROVE  n \in 1 .. Len(stored') /\ a = <<k, n, ValidIn(G[Len(stored') + 1], k, n)>>
      <4>0. n \in 1 .. L + 1 /\ n \in 1 .. Len(stored') /\ Len(stored') + 1 = L + 2
        BY <1>1, <2>4
      <4>1. /\ H[L + 1] \in [Pubkey -> Binding \cup {NoOne}]
            /\ keys \in [Pubkey -> Binding \cup {NoOne}]
        <5>1. L + 1 \in 1 .. Len(stored) + 1
          BY <1>1
        <5>2. H[L + 1] \in [Pubkey -> Binding \cup {NoOne}]
          BY <1>2, <5>1 DEF KeyHistory
        <5> QED
          BY <5>2 DEF TypeInv
      <4>2. PolicyIn(Indexed(stored, (L + 1) - 1), H[L + 1], AsRead(r).event)
              /\ keys = LifecycleIn(H[L + 1], r.event, L + 1)
        BY <2>1 DEF TakenAs, AdmissibleIn
      <4>3. AsRead(r).event = r.event
        BY DEF AsRead
      <4>4. ValidIn(keys, k, n) = ValidIn(H[L + 1], k, n)
        BY <1>1, <4>0, <4>1, <4>2, <4>3, PastIsFixed
      <4> QED
        BY <2>6, <3>1, <4>0, <4>4
    <3> QED
      BY <1>2, <2>2, <3>1 DEF AuditsFromHistory
  <2> QED
    BY <2>2, <2>7, <2>8 DEF HistoryInv, HistoryOK, Replaying, Appending, ReplayNeverFails
<1>12. ASSUME NEW p \in Writer, Audit(p) PROVE HistoryInv'
  <2>1. /\ Same /\ writer'.pc = "free" /\ Ready(p)
        /\ audits' = audits \cup {<<k, n, WasValid(k, n)>> : k \in Pubkey, n \in 1 .. Len(log)}
    BY <1>12 DEF Audit, Free
  <2>2. Len(log) = L /\ keys = H[L + 1]
    BY <1>9, <2>1
  <2>3. ASSUME NEW k \in Pubkey, NEW n \in 1 .. L
        PROVE  WasValid(k, n) = ValidIn(H[L + 1], k, n)
    BY <2>2, KeysThenAndNow
  <2>4. AuditsFromHistory(H)'
    BY <1>2, <2>1, <2>2, <2>3 DEF AuditsFromHistory
  <2> QED
    BY <1>3, <1>5, <2>1, <2>4
<1>13. ASSUME NEW p \in Writer, NEW k \in Pubkey, Pin(p, k) PROVE HistoryInv'
  <2>1. PICK q \in PinRecord : q.from = Next1 /\ pins' = pins \cup {q}
    <3> DEFINE q == [signer |-> keys[k].signer, name |-> keys[k].name, pub |-> k, from |-> PinFrom]
    <3>1. q \in pins' /\ pins' = pins \cup {q} /\ q.from = Next1
      BY <1>13 DEF Pin, PinFrom
    <3> HIDE DEF q
    <3> QED
      BY <3>1 DEF TypeInv
  <2>2. /\ stored' = stored /\ bootstrap' = bootstrap /\ audits' = audits
        /\ writer'.pc = "free" /\ Ready(p)
    BY <1>13 DEF Pin, Free
  <2>3. q.from = L + 1
    BY <1>9, <2>1, <2>2 DEF Next1
  <2>4. ASSUME NEW n \in 1 .. L, TakenAs(stored, pins, n, H[n], stored[n], H[n + 1])
        PROVE  TakenAs(stored, pins', n, H[n], stored[n], H[n + 1])
    <3>1. n - 1 \in Nat
      OBVIOUS
    <3>2. Len(Indexed(stored, n - 1)) = n - 1
      BY <3>1, IndexGrows
    <3>3. ~(q.from <= Len(Indexed(stored, n - 1)) + 1)
      BY <1>1, <2>3, <3>2
    <3> QED
      BY <2>1, <2>4, <3>3, LaterPin DEF TakenAs
  <2>5. KeyHistory(H)'
    BY <1>2, <2>2, <2>4 DEF KeyHistory, FirstKeys
  <2>6. AuditsFromHistory(H)'
    BY <1>2, <2>2 DEF AuditsFromHistory
  <2> QED
    BY <1>5, <2>2, <2>5, <2>6
<1>14. ASSUME NEW p \in Writer, NEW b \in Registrations, RegisterKey(p, b.pub, b.signer, b.name)
       PROVE  HistoryInv'
  <2>0. PICK G : G = [n \in 1 .. 1 |-> FirstKeys']
    OBVIOUS
  <2>1. /\ stored' = stored /\ pins' = pins /\ audits' = audits /\ writer'.pc = "free"
        /\ Ready(p) /\ log = <<>>
    BY <1>14 DEF RegisterKey, Free, LogEmpty
  <2>2. L = 0 /\ Len(stored') = 0 /\ 1 .. L = {}
    BY <1>9, <2>1
  <2>3. FirstKeys' \in [Pubkey -> Binding \cup {NoOne}]
    BY FirstKeysOKThen
  <2>4. KeyHistory(G)'
    <3>1. G \in [1 .. Len(stored') + 1 -> [Pubkey -> Binding \cup {NoOne}]] /\ G[1] = FirstKeys'
      BY <2>0, <2>2, <2>3
    <3>2. 1 .. Len(stored') = {}
      BY <2>2
    <3> QED
      BY <3>1, <3>2 DEF KeyHistory
  <2>5. AuditsFromHistory(G)'
    BY <1>2, <2>1, <2>2 DEF AuditsFromHistory
  <2> QED
    BY <2>1, <2>4, <2>5 DEF HistoryInv, HistoryOK, Replaying, Appending, ReplayNeverFails
<1>15. ASSUME NEW p \in Writer,
              (\E s \in Traffic, own \in BOOLEAN : AnswerAgain(p, s, own)) \/ Answer(p) \/ WriterEnds(p)
       PROVE  HistoryInv'
  <2>1. Same /\ audits' = audits /\ writer'.pc = "free"
    BY <1>15 DEF AnswerAgain, Answer, WriterEnds, Free
  <2> QED
    BY <1>4, <1>5, <2>1
<1> QED
  BY <1>6, <1>7, <1>8, <1>10, <1>11, <1>12, <1>13, <1>14, <1>15 DEF LedgerNext

\* The file says what the index said (load_hub, admit): every line is admitted again where
\* it stands, whatever was pinned or revoked since, and was-valid says of a place what it
\* said before.  The lines carry their own history of keys: what a line was judged by is
\* what a replay has when it comes to it.
THEOREM ReplayAlwaysAgrees == LedgerSpec => []ReplayAgrees
<1>1. LedgerInit /\ BudgetInit => HistoryInv
  <2> SUFFICES ASSUME LedgerInit, BudgetInit PROVE HistoryInv
    OBVIOUS
  <2> DEFINE H == [n \in 1 .. 1 |-> FirstKeys]
  <2>1. Len(stored) = 0 /\ writer.pc = "free" /\ audits = {} /\ 1 .. 0 = {}
    BY DEF LedgerInit, Free
  <2>2. TypeInv
    BY TypeAtStart
  <2>3. KeyHistory(H)
    <3>1. FirstKeys \in [Pubkey -> Binding \cup {NoOne}]
      BY <2>2, FirstKeysOK
    <3>2. H \in [1 .. Len(stored) + 1 -> [Pubkey -> Binding \cup {NoOne}]] /\ H[1] = FirstKeys
      BY <2>1, <3>1
    <3> QED
      BY <2>1, <3>2 DEF KeyHistory
  <2> HIDE DEF H
  <2> QED
    BY <2>1, <2>3 DEF HistoryInv, HistoryOK, Replaying, Appending, AuditsFromHistory, ReplayNeverFails
<1>2. HistoryInv => ReplayAgrees
  <2> SUFFICES ASSUME NEW H, AuditsFromHistory(H) PROVE AuditsAgree
    BY DEF HistoryInv, HistoryOK, ReplayAgrees
  <2> SUFFICES ASSUME NEW a \in audits, NEW b \in audits, a[1] = b[1], a[2] = b[2] PROVE a[3] = b[3]
    BY DEF AuditsAgree
  <2> DEFINE V(k, n) == ValidIn(H[Len(stored) + 1], k, n)
  <2>1. PICK k, n : a = <<k, n, V(k, n)>>
    BY DEF AuditsFromHistory
  <2>2. PICK j, m : b = <<j, m, V(j, m)>>
    BY DEF AuditsFromHistory
  <2> HIDE DEF V
  <2> QED
    BY <2>1, <2>2
<1> QED
  BY <1>1, <1>2, TypeAtStart, TypeStep, HistoryStep, PTL DEF LedgerSpec, ledger
=============================================================================
