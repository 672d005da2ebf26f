---------------------------- MODULE MCWorkspace ------------------------------
(***************************************************************************)
(* The values with which TLC checks Workspace and StateDir.  The state     *)
(* directory shares no state with the rest here, so the two are not        *)
(* multiplied: the budget of a behaviour names calls of the one or of the  *)
(* other.                                                                  *)
(***************************************************************************)
EXTENDS Workspace, StateDir

CONSTANTS a, b, p1, p2, p3, x, y, k, i1, i2, w1, w2, n1, n2

\* p1 and p2 run for a, p3 for b.
TwoForOne == p1 :> a @@ p2 :> a @@ p3 :> b

Say(f, from, to, topic, body, key) ==
  [field |-> f, from |-> from, to |-> to, topic |-> topic, body |-> body, key |-> key]

Sayings == {
  Say("relay", a, b, "letter", x, k), Say("relay", a, b, "letter", y, k),
  Say("relay", b, "all", "letter", x, NoOne),
  Say("agora", a, "field", "goal", x, NoOne), Say("agora", b, "field", "goal", y, NoOne),
  Say("alarm", a, "all", "pause", x, NoOne), Say("alarm", NoOne, "all", "pause", x, NoOne),
  Say("hub", b, n1, "letter", x, k), Say("hub", b, n1, "letter", y, NoOne),
  Say("hub", b, a, "letter", x, NoOne)
}

Ways == {[role |-> "worker", address |-> NoOne], [role |-> "chief", address |-> n1],
         [role |-> "chief", address |-> n2]}

\* One mixture of calls per line.
WorkspaceBudgets == {
  [relay |-> 2, die |-> 1, archive |-> 2, tick |-> 1],
  [relay |-> 3, stop |-> 1],
  [relay |-> 1, cursor |-> 1, tick |-> 1],
  [agora |-> 3, archive |-> 1, tick |-> 1],
  [join |-> 2, start |-> 1, crash |-> 1, tick |-> 1],
  [join |-> 1, start |-> 1, note |-> 1, end |-> 1, tick |-> 1],
  [join |-> 2, end |-> 1, tick |-> 2],
  [join |-> 1, me |-> 2, tick |-> 2],
  [join |-> 1, start |-> 1, alarm |-> 1, end |-> 1],
  [join |-> 2, leave |-> 1, hub |-> 1, page |-> 1],
  [join |-> 1, hub |-> 3, page |-> 2, ack |-> 1, archive |-> 1]
}
StateBudgets == {
  [refuse |-> 4, remember |-> 2, crash |-> 1],
  [reflect |-> 3, refuse |-> 1, remember |-> 1],
  [migrate |-> 2, backup |-> 1, restore |-> 1, crash |-> 1, second |-> 1],
  [migrate |-> 1, restore |-> 3, crash |-> 1, second |-> 1]
}
AllBudgets == WorkspaceBudgets \cup StateBudgets

MCInit == Init /\ StateInit
MCNext == \/ Next /\ UNCHANGED stateVars
          \/ StateNext /\ UNCHANGED <<fieldVars, sessionVars, hubVars, sounded>>
TypeOK == FieldTypeOK /\ SessionTypeOK /\ HubTypeOK /\ StateDirTypeOK

MCVars == <<workspaceVars, stateVars>>
MCSpec == MCInit /\ [][MCNext]_MCVars

\* FairSpec of Workspace, over all the variables of the run.
Alone == UNCHANGED <<sessionVars, hubVars, sounded, stateVars>>
MCFairSpec ==
  /\ MCSpec
  /\ \A c \in Watcher :
       /\ \A f \in Watched : WF_MCVars(Poll(f, c) /\ Alone)
       /\ WF_MCVars(ShowNext(c) /\ Alone)
       /\ WF_MCVars(MarkRead(c) /\ Alone)
=============================================================================
