-------------------------------- MODULE MCHub --------------------------------
(***************************************************************************)
(* The values with which TLC checks what a lab keeps and what it exchanges.*)
(***************************************************************************)
EXTENDS HubLedger, Door, MerkleLog, Board, Drafts

CONSTANTS x1, x2, ra, ta, tb, tc, da, db, lab1, lab2, lab3, k1, k2, a1, a2, b1, b2, f1, v1, v2, p1, p2, w1, w2, ann, ben, d1, d2, d3, c1, c2

Env(signer, name, kind, idem, p) ==
  [signer |-> signer, name |-> name, kind |-> kind, idem |-> idem, stamp |-> 0, cli |-> NoOne, p |-> p]
Sent(e, k) == [event |-> e, pub |-> k, wire |-> NoOne, genuine |-> TRUE]

Registered == {[pub |-> a1, signer |-> lab1, name |-> k1]}
Later == {[pub |-> b1, signer |-> lab2, name |-> k1]}

ClaimTypes ==
  "core:frozen" :> [space |-> "core", report |-> FALSE, subjects |-> {"artifact"},
                    levels |-> {"emission"}, capture |-> FALSE] @@
  "lab:report" :> [space |-> "lab", report |-> TRUE, subjects |-> {"run", "artifact"},
                   levels |-> {"emission"}, capture |-> TRUE]
CanaryRules == "rule" :> "alive"

\* Keys: lab1 turns to a second key, ends the first, and lets lab2 in, which tries to
\* let in a third.
ByHome == Env(lab1, k1, "posted", 1, [lab |-> lab2, cell |-> 1])
Turns == Env(lab1, k1, "rotated", 1, [name |-> k2, pub |-> a2])
TurnsBack == Env(lab1, k2, "rotated", 2, [name |-> k1, pub |-> b2])
Ends == Env(lab1, k1, "revoked", 1, [name |-> k1])
EndsByNew == Env(lab1, k2, "revoked", 2, [name |-> k1])
LetsIn == Env(lab1, k1, "introduced", 1, [signer |-> lab2, name |-> k1, pub |-> b1])
LetsItselfIn == Env(lab2, k1, "introduced", 1, [signer |-> lab3, name |-> k2, pub |-> b2])
ByLab == Env(lab2, k1, "posted", 1, [lab |-> lab1, cell |-> 1])
KeyTraffic == {Sent(e, a1) : e \in {ByHome, Turns, Ends, LetsIn}}
                \cup {Sent(e, a2) : e \in {ByHome, EndsByNew, TurnsBack}}
                \cup {Sent(e, b1) : e \in {ByLab, LetsItselfIn}}
                \cup {[Sent(ByHome, a1) EXCEPT !.wire = w] : w \in {1, 2}}
                \cup {[Sent(ByHome, a1) EXCEPT !.event.stamp = 1], [Sent(ByLab, b1) EXCEPT !.genuine = FALSE]}

\* Claims.
Claim(signer, idem, type, after, revokes) ==
  Env(signer, k1, "attested", idem,
      [claim |-> type, scope |-> "s", subject |-> "artifact", level |-> "emission",
       after |-> after, revokes |-> revokes, capture |-> TRUE])
Frozen == Claim(lab1, 1, "core:frozen", NoOne, NoOne)
Odd == Claim(lab1, 2, "odd:claim", NoOne, NoOne)
ClaimTraffic == {Sent(e, a1) : e \in {Frozen, Odd, Claim(lab1, 3, "core:frozen", NoOne, Frozen),
                                      Claim(lab1, 4, "lab:report", Odd, NoOne),
                                      Claim(lab1, 5, "lab:report", Frozen, NoOne)}}
                  \cup {Sent(Claim(lab2, 1, "core:frozen", NoOne, Frozen), b1)}

\* Runs.
Tool(idem, version) ==
  Env(lab1, k1, "observed", idem, [digest |-> f1, version |-> version,
                                install |-> [digest |-> f1, value |-> idem]])
Anchor == Env(lab1, k1, "anchor", 1, [root |-> 0])
Canary == Env(lab1, k1, "canary", 1, [of |-> Tool(1, v1), rule |-> "rule", seen |-> "alive",
                                   passed |-> TRUE, policy |-> "policy"])
Launch(n, level) == Env(lab1, k1, "launch", n, [anchor |-> Anchor, seq |-> n, canary |-> Canary,
                                             level |-> level, basis |-> "accepted_seq"])
Done(n) == Env(lab1, k1, "completed", n, [gate |-> Launch(n, "bracketed"), after |-> Launch(n, "bracketed"),
                                       level |-> "bracketed"])
RunTraffic == {Sent(e, a1) : e \in {Anchor, Canary, Tool(1, v1)}
                 \cup {Launch(n, "bracketed") : n \in 1..3} \cup {Done(n) : n \in 1..3}}
FileTraffic == {Sent(e, a1) : e \in {Tool(1, v1), Tool(2, v2), Tool(3, v1),
                                     [ByHome EXCEPT !.cli = [digest |-> f1, value |-> v2]],
                                     [ByHome EXCEPT !.p.lab = NoOne]}}

AllTraffic == KeyTraffic \cup ClaimTraffic \cup RunTraffic \cup FileTraffic

LedgerBudgets == {
  [open |-> 5, posted |-> 2, rotated |-> 1, revoked |-> 1, again |-> 1, crash |-> 1],
  [open |-> 5, rotated |-> 2, revoked |-> 1, pin |-> 1, crash |-> 1],
  [open |-> 5, introduced |-> 1, posted |-> 1, register |-> 1, audit |-> 2],
  [open |-> 4, introduced |-> 2, register |-> 1, posted |-> 1],
  [open |-> 4, rotated |-> 1, revoked |-> 1, audit |-> 2],
  [open |-> 3, attested |-> 3],
  [open |-> 5, anchor |-> 1, observed |-> 1, canary |-> 1, launch |-> 1, completed |-> 1],
  [open |-> 3, observed |-> 2, posted |-> 1]
}

-----------------------------------------------------------------------------
\* Letters of the lab of door da, with no body or with one, of two names.
LetterSet == {[env |-> "a", sig |-> "a", body |-> <<1, "a">>], [env |-> "b", sig |-> "b", body |-> <<2, "b">>],
              [env |-> "c", sig |-> "c", body |-> NoOne]}
DoorsOf == [e \in {"a", "b", "c"} |-> da]
ReadsDoor == [r \in {ra} |-> da]
Entry(t, id, write, read, revoked) == [token |-> t, id |-> id, write |-> write, read |-> read, revoked |-> revoked]
Tokens1 == {Entry(ta, 1, NoOne, NoOne, FALSE), Entry(tb, 2, NoOne, {db}, FALSE), Entry(tc, 3, {da}, NoOne, TRUE)}
Tokens2 == {Entry(ta, 1, {da}, {da}, FALSE), Entry(tb, 1, NoOne, NoOne, FALSE)}
Tokens3 == {Entry(ta, 1, NoOne, NoOne, TRUE), Entry(tb, 2, {"*"}, NoOne, FALSE)}
Files3 == {Tokens1, Tokens2, Tokens3}

DoorBudgets == {
  [export |-> 3, crash |-> 1],
  [export |-> 2, push |-> 2, stop |-> 1],
  [export |-> 1, push |-> 3, stop |-> 1],
  [export |-> 2, push |-> 2, pull |-> 2],
  [export |-> 1, push |-> 1, pull |-> 3, crash |-> 1, lose |-> 2],
  [channels |-> 6, refused |-> 1, tick |-> 3],
  [channels |-> 2, index |-> 1, foreign |-> 1, refused |-> 1, tick |-> 2],
  [channels |-> 2, index |-> 1, stranger |-> 1, refused |-> 1, stop |-> 1, tokens |-> 1],
  [export |-> 1, push |-> 2, tokens |-> 1, stop |-> 1]
}

-----------------------------------------------------------------------------
\* Two labs and what they may say; ann is of lab 1, ben of lab 2, whose clock is behind.
\* Two posts bear the name 5; one is for another board; ann speaks for ben (26), her lab
\* lets him speak (27), and only once is that said to be on a delegation (28).
Says(id, kind, at, lab, member) ==
  [kind |-> kind, id |-> id, board |-> "plaza", at |-> at, lab |-> lab, member |-> member,
   home |-> IF member = ben THEN 2 ELSE 1, author |-> member, agent |-> lab, delegated |-> FALSE,
   reply |-> NoOne, restricted |-> FALSE, fit |-> TRUE]
Reply(id, at, lab, member, to) == [Says(id, "post", at, lab, member) EXCEPT !.reply = to]
BoardEvents == {
  Says(1, "created", 1, 1, NoOne), Says(2, "admitted", 2, 1, ann), Says(3, "admitted", 2, 1, ben),
  Says(4, "post", 3, 1, ann), Reply(5, 4, 2, ben, 4), Reply(6, 7, 1, ann, 5),
  Reply(7, 1, 2, ben, 4), Says(8, "removed", 4, 1, ben), Says(9, "closed", 5, 1, NoOne),
  Says(10, "flags", 1, 1, NoOne), [Says(11, "admitted", 1, 2, ben) EXCEPT !.agent = 1],
  Says(5, "post", 6, 2, ben),
  [Says(14, "post", 3, 1, ann) EXCEPT !.board = "market"]}
ProfileEvents == {
  Says(21, "announced", 1, 2, ben), Says(22, "withdrawn", 2, 2, ben), Says(23, "announced", 3, 2, ben),
  Says(24, "withdrawn", 2, 1, ann), Says(25, "announced", 4, 1, ann),
  [Says(26, "withdrawn", 4, 1, ben) EXCEPT !.author = ann], Says(27, "announced", 1, 1, ben),
  [Says(28, "announced", 4, 1, ben) EXCEPT !.author = ann, !.delegated = TRUE]}
ByBbs == {e \in BoardEvents : e.id \in {1, 4}}
AllEvents == BoardEvents \cup ProfileEvents

BoardBudgets == {
  [prepare |-> 3, crash |-> 2, push |-> 1, created |-> 1],
  [prepare |-> 2, push |-> 3, lost |-> 2],
  [prepare |-> 2, push |-> 2, round |-> 2],
  [created |-> 1, post |-> 1, round |-> 3, fault |-> 1, crash |-> 1, damage |-> 1],
  [created |-> 1, admitted |-> 1, removed |-> 1, post |-> 1, closed |-> 1, round |-> 1],
  [admitted |-> 1, post |-> 3, round |-> 1],
  [flags |-> 1, post |-> 4, round |-> 1],
  [announced |-> 2, withdrawn |-> 2, round |-> 1]
}
MerkleBudgets == {
  [leaf |-> 6, twin |-> 5]
}
DraftBudgets == {
  [front |-> 6, time |-> 2],
  [front |-> 3, person |-> 5, time |-> 2]
}
AllBudgets == LedgerBudgets \cup DoorBudgets \cup MerkleBudgets \cup BoardBudgets \cup DraftBudgets

\* The front, the persons and the time of the store of drafts.
DraftStep ==
  \/ FrontStep /\ Spend("front")
  \/ PersonStep /\ Spend("person")
  \/ TimeStep /\ Spend("time")

MCInit == LedgerInit /\ DoorInit /\ MerkleInit /\ BoardInit /\ DraftInit /\ BudgetInit
MCNext ==
  \/ LedgerNext /\ UNCHANGED <<doorVars, merkleVars, boardVars, draftVars>>
  \/ DoorNext /\ UNCHANGED <<ledgerVars, merkleVars, boardVars, draftVars>>
  \/ MerkleNext /\ UNCHANGED <<ledgerVars, doorVars, boardVars, draftVars>>
  \/ BoardNext /\ UNCHANGED <<ledgerVars, doorVars, merkleVars, draftVars>>
  \/ DraftStep /\ UNCHANGED <<ledgerVars, doorVars, merkleVars, boardVars>>
MCVars == <<ledgerVars, doorVars, merkleVars, boardVars, draftVars, budget>>
MCSpec == MCInit /\ [][MCNext]_MCVars

\* The values of the variables of ledger, door and board.
TypeOK == LedgerTypeOK /\ DoorTypeOK /\ BoardTypeOK
=============================================================================
