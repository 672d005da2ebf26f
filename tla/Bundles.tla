------------------------------- MODULE Bundles -------------------------------
(***************************************************************************)
(* What the state slot stores: a snapshot of a hub's ledger and outbox     *)
(* (hub_state.py).  The ledger is the sequence of its records; the outbox  *)
(* is the sequence of the records exported to it, and the n-th of them is  *)
(* the quad with the number n.  Bodies, doors, and the encoding are left   *)
(* out.  sha256 is taken to be injective: a bundle is its own fingerprint. *)
(***************************************************************************)
EXTENDS Integers, SequencesExt

CONSTANTS
  Letter,  \* records of kind message.posted, signed by the lab that owns the hub
  Note,    \* records of other kinds: an outbox may hold them or not
  Stamp,   \* what distinguishes the bytes of two bundles of the same state
  NoSha    \* the fingerprint "" of the empty slot

Entry == Letter \cup Note

\* What a bundle knows of the hub; also the summary kept in the record file.
Content == [events : Seq(Entry), box : Seq(Entry)]

\* A bundle: its content; the number its maker expects it to get; whether a
\* person put it on a generation with --onto, so that it names that generation
\* as superseded; the rest of the manifest.
Bundle == [events : Seq(Entry), box : Seq(Entry), gen : Nat \ {0},
           over : BOOLEAN, stamp : Stamp]

BundleOf(content, gen, over, stamp) ==
  [events |-> content.events, box |-> content.box, gen |-> gen, over |-> over, stamp |-> stamp]
Known(b) == [events |-> b.events, box |-> b.box]

\* _extends and _check_extension: the ledger starts with the old ledger, no
\* number was taken back and every old number still names the same record.
ExtendsLedger(new, o) == IsPrefix(o.events, new.events)  \* mutant: numbers not compared
Extends(new, o) == IsPrefix(o.events, new.events) /\ IsPrefix(o.box, new.box)

\* snapshot refuses a letter that is in the ledger and in no outbox.
Complete(content) == \A l \in ToSet(content.events) \cap Letter : l \in ToSet(content.box)

\* An outbox as pairs of a number and the record it names.
Numbers(box) == {<<n, box[n]>> : n \in DOMAIN box}
Covers(box, pairs) == \A p \in pairs : p[1] \in DOMAIN box /\ box[p[1]] = p[2]

ASSUME BundleAssumption ==
  /\ Letter \cap Note = {}
  /\ \A s \in Stamp : NoSha # s
=============================================================================
