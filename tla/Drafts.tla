------------------------------- MODULE Drafts --------------------------------
(***************************************************************************)
(* The store of drafts, the front at which a model places them             *)
(* (hub_draft.py), and the decision a person takes on each (hub_send.py,   *)
(* decide).  The front keeps nothing between calls and calls run at the    *)
(* same time; the store offers creation only: what is placed first stays.  *)
(*                                                                         *)
(* The name of a draft is made of its content, so a draft is its own       *)
(* content.  Who may place what (grants, sizes, recipients) is left out:   *)
(* the drafts here are those that pass these checks.                       *)
(***************************************************************************)
EXTENDS Integers, SequencesExt, FiniteSets

CONSTANTS
  Draft,
  Caller,      \* calls of the front that run at the same time
  Person,      \* persons, or screens, that decide
  PendingMax,  \* DRAFT_PENDING_MAX
  None,
  MaxDamages   \* bound: changes to a stored body behind the back of the program

ASSUME DraftAssumption ==
  /\ PendingMax \in Nat \ {0}
  /\ MaxDamages \in Nat
  /\ None \notin Draft \cup {"approved", "rejected"}

VARIABLES
  placed,    \* the drafts in the store, in the order in which they were placed
  since,     \* since[d]: how many drafts there were when the call that placed d began
  bytes,     \* bytes[d]: the stored body: as placed, changed, or gone
  decision,  \* decision[d]: the decision record, or None
  result,    \* result[d]: the result record, or None
  ended,     \* drafts whose time to be decided is over
  lapsed,    \* drafts whose approval is over
  placing,   \* placing[c]: <<d, n>>: call c, begun at n drafts, is about to place d; or None
  deciding,  \* deciding[p]: the decision that p has checked and is about to put, or None
  told,      \* <<d, x>>: some person was told that d is decided as x
  damages    \* how many bodies were changed (bounds the model)

store == <<placed, since, bytes, decision, result>>
clock == <<ended, lapsed>>
draftVars == <<store, clock, placing, deciding, told, damages>>

Decisions == {"approved", "rejected"}
Stored(d) == d \in ToSet(placed)

\* status_of: a draft waits as long as nothing is recorded and its time is not over.
Undecided(d) == decision[d] = None /\ result[d] = None
Waiting(d) == Stored(d) /\ Undecided(d) /\ d \notin ended

-----------------------------------------------------------------------------
(* mail_draft *)

\* The store lists at most PendingMax undecided drafts, newest first.  Drafts
\* whose time is over are among them, and are not counted afterwards.
UndecidedAt == {i \in DOMAIN placed : Undecided(placed[i])}
OldestListed ==  \* mutant
  {placed[i] : i \in {i \in UndecidedAt : Cardinality({k \in UndecidedAt : k < i}) < PendingMax}}
Listed ==
  {placed[i] : i \in {i \in UndecidedAt : Cardinality({k \in UndecidedAt : i < k}) < PendingMax}}

Room == Cardinality({d \in Listed : Waiting(d)}) < PendingMax

\* A draft that is not in the store is placed if few enough wait.
StartPlacing(c, d) ==
  /\ placing[c] = None
  /\ ~Stored(d)
  /\ Room
  /\ placing' = [placing EXCEPT ![c] = <<d, Len(placed)>>]
  /\ UNCHANGED <<store, clock, deciding, told, damages>>

\* put_draft: only if it is not there.
Place(c) ==
  /\ placing[c] # None
  /\ LET d == placing[c][1] IN
     IF Stored(d) THEN UNCHANGED store
     ELSE /\ placed' = Append(placed, d)
          /\ since' = [since EXCEPT ![d] = placing[c][2]]
          /\ UNCHANGED <<bytes, decision, result>>
  /\ placing' = [placing EXCEPT ![c] = None]
  /\ UNCHANGED <<clock, deciding, told, damages>>

-----------------------------------------------------------------------------
(* decide *)

\* The same decision again is answered with the one that is there.
Confirm(p, d, x) ==
  /\ deciding[p] = None
  /\ Stored(d)
  /\ decision[d] = x
  /\ told' = told \cup {<<d, x>>}
  /\ UNCHANGED <<store, clock, placing, deciding, damages>>

\* A draft is approved by its fingerprint: the stored body must be the one that
\* was placed and reviewed.  A rejection does not read the body.
StartDeciding(p, d, x) ==
  /\ deciding[p] = None
  /\ Stored(d)
  /\ Undecided(d)
  /\ x = "approved" => Waiting(d) /\ bytes[d] = "placed"
  /\ deciding' = [deciding EXCEPT ![p] = <<d, x>>]
  /\ UNCHANGED <<store, clock, placing, told, damages>>

\* put_decision: the first decision stays.  What is in the store is compared
\* with what was put, and only the one whose decision is there is told so.
ToldUnread(d, x) == told \cup {<<d, x>>}  \* mutant: what was put is taken for what is there
Told(d, x) == IF decision'[d] = x THEN told \cup {<<d, x>>} ELSE told

Decide(p) ==
  /\ deciding[p] # None
  /\ LET d == deciding[p][1]
         x == deciding[p][2]
     IN /\ decision' = IF decision[d] = None THEN [decision EXCEPT ![d] = x] ELSE decision
        /\ told' = Told(d, x)
  /\ deciding' = [deciding EXCEPT ![p] = None]
  /\ UNCHANGED <<placed, since, bytes, result, clock, placing, damages>>

-----------------------------------------------------------------------------
(* Time, and the store (external) *)

\* All drafts get the same time from the begin of their calls on: one ends after
\* those that were there before its call, and in any order with the others.
End(d) ==
  /\ Stored(d)
  /\ d \notin ended
  /\ \A e \in ToSet(SubSeq(placed, 1, since[d])) : e \in ended
  /\ ended' = ended \cup {d}
  /\ UNCHANGED <<store, lapsed, placing, deciding, told, damages>>

Lapse(d) ==
  /\ decision[d] = "approved"
  /\ d \notin lapsed
  /\ lapsed' = lapsed \cup {d}
  /\ UNCHANGED <<store, ended, placing, deciding, told, damages>>

\* The body in the store changes, is lost, or comes back.
Damage(d, b) ==
  /\ Stored(d)
  /\ bytes[d] # b
  /\ damages < MaxDamages
  /\ damages' = damages + 1
  /\ bytes' = [bytes EXCEPT ![d] = b]
  /\ UNCHANGED <<placed, since, decision, result, clock, placing, deciding, told>>

\* put_result: only if there is none.
PutResult(d, r) == result' = IF result[d] = None THEN [result EXCEPT ![d] = r] ELSE result

-----------------------------------------------------------------------------
DraftInit ==
  /\ placed = <<>>
  /\ since = [d \in Draft |-> 0]
  /\ bytes = [d \in Draft |-> "placed"]
  /\ decision = [d \in Draft |-> None]
  /\ result = [d \in Draft |-> None]
  /\ ended = {}
  /\ lapsed = {}
  /\ placing = [c \in Caller |-> None]
  /\ deciding = [p \in Person |-> None]
  /\ told = {}
  /\ damages = 0

FrontStep == \E c \in Caller : (\E d \in Draft : StartPlacing(c, d)) \/ Place(c)

PersonStep ==
  \E p \in Person :
    \/ \E d \in Draft, x \in Decisions : Confirm(p, d, x) \/ StartDeciding(p, d, x)
    \/ Decide(p)

TimeStep ==
  \E d \in Draft :
    End(d) \/ Lapse(d) \/ \E b \in {"placed", "changed", "gone"} : Damage(d, b)

-----------------------------------------------------------------------------
(* Properties *)

\* Whoever is told that a draft is approved, or rejected, can rely on it: of two
\* screens that decide at the same time only one hears its own decision.
AnswersStand == \A t \in told : decision[t[1]] = t[2]

\* Calls that look at the store at the same time may each place a draft; beyond
\* that, drafts do not pile up unread.  Not counted are those overtaken: a draft
\* placed after them, by a call begun before, has ended.
Overtaken(d) ==
  \E i, j \in DOMAIN placed : i < j /\ placed[i] = d /\ placed[j] \in ended

WaitingBounded ==
  Cardinality({d \in Draft : Waiting(d) /\ ~Overtaken(d)})
    + Cardinality({c \in Caller : placing[c] # None}) < PendingMax + Cardinality(Caller)
=============================================================================
