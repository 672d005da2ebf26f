----------------------------- MODULE MachineHub ------------------------------
(***************************************************************************)
(* Letters between the workspaces of one machine (hub.py).  A cell that    *)
(* joins under an address (persona@workspace) is registered with an epoch  *)
(* of its own; a letter is sent to an address or a cell, and the sender    *)
(* fixes cell and epoch in it.  The inbox is read page by page with the    *)
(* last letter of a page as the cursor, while letters arrive, are read and *)
(* are put away.                                                           *)
(***************************************************************************)
EXTENDS Sessions

CONSTANTS
  Address,
  PageLimit

ASSUME HubAssumption == PageLimit \in Nat \ {0} /\ NoOne \notin Address

VARIABLES
  registry,  \* registry[c]: [address, epoch], or NoOne
  epochs,    \* how many epochs were given
  paging,    \* paging[c]: a reading of the inbox, page by page
  received   \* <<c, l, r>>: l was given to c, which was then registered as r

hubVars == <<registry, epochs, paging, received>>

-----------------------------------------------------------------------------
(* register, deregister *)

\* A cell is not registered anew under another address; it has to leave first.
RebindSilently(old, address) == FALSE  \* mutant
Rebinds(old, address) == old # NoOne /\ old.address # address

\* A cell that is registered anew gets an epoch that no other ever had.
SameEpochAgain == epochs  \* mutant
NextEpoch == epochs + 1

\* The entry is read, and written in a step of its own.  A cell that comes back
\* under its address keeps its epoch.  A join that is refused here stops; its session
\* stays open.
ReadRegistry(p) ==
  LET c == CellOf[p] IN
  /\ at[p].pc = "register"
  /\ IF Rebinds(registry[c], at[p].address)
     THEN Go(p, Idle) /\ UNCHANGED epochs
     ELSE /\ Go(p, [pc |-> "enter", started |-> at[p].started,
                    entry |-> [address |-> at[p].address,
                               epoch |-> IF registry[c] = NoOne THEN NextEpoch
                                         ELSE registry[c].epoch]])
          /\ epochs' = IF registry[c] = NoOne THEN epochs + 1 ELSE epochs
  /\ UNCHANGED <<fieldVars, files, presence, raced, torn, registry, paging, received, budget>>

WriteRegistry(p) ==
  /\ at[p].pc = "enter"
  /\ registry' = [registry EXCEPT ![CellOf[p]] = at[p].entry]
  /\ Go(p, [pc |-> "hubcursor", started |-> at[p].started])
  /\ UNCHANGED <<fieldVars, files, presence, raced, torn, epochs, paging, received, budget>>

JoinHub(p) ==
  /\ at[p].pc = "hubcursor"
  /\ join' = [join EXCEPT !["hub"][CellOf[p]] = Joined("hub", CellOf[p], Reset(at[p].started))]
  /\ Go(p, Idle)
  /\ UNCHANGED <<letters, second, written, posting, read, watching, shown, told,
                 files, presence, raced, torn, hubVars, budget>>

Leave(c) ==
  /\ registry[c] # NoOne
  /\ Spend("leave")
  /\ registry' = [registry EXCEPT ![c] = NoOne]
  /\ UNCHANGED <<fieldVars, sessionVars, epochs, paging, received>>

-----------------------------------------------------------------------------
(* _resolve_target, send *)

\* An address must belong to one registered cell, and a cell must be registered.
Holders(to) == {c \in Cell : registry[c] # NoOne /\ (c = to \/ registry[c].address = to)}

HubSend(from, to, body, key) ==
  /\ Cardinality(Holders(to)) = 1
  /\ \E c \in Holders(to) :
       Post(Draft("hub", from, c, "letter", body, key, NoOne,
                  [address |-> registry[c].address, epoch |-> registry[c].epoch]))
  /\ UNCHANGED <<sessionVars, hubVars>>

-----------------------------------------------------------------------------
(* inbox *)

\* The letters for c under its present registration that it has not read.
AnyEpoch(c, l) == TRUE  \* mutant: only the cell is compared
SameEpoch(c, l) == registry[c] # NoOne /\ registry[c].epoch = l.extra.epoch
Matched(c) == {l \in In("hub") : /\ l.to = c
                                 /\ SameEpoch(c, l)
                                 /\ l.second >= join["hub"][c]
                                 /\ l.from # c
                                 /\ <<c, Name(l)>> \notin read}

\* What comes after the cursor, the name of a file.  Of a cursor whose file is gone
\* nothing is known: reading starts from the beginning.
After(c, cursor) == {l \in Matched(c) : \A k \in In("hub") : Name(k) = Name(cursor) => l.at > k.at}

\* The oldest letters, as many as fit.
PageOf(S) == {l \in S : Cardinality({k \in S : k.at < l.at}) < PageLimit}

\* inbox with the cursor of the page before; there is a next page if more letters match
\* than fit.
NextUp(S, page) ==  \* mutant: the cursor is the first of the next page
  CHOOSE l \in S \ page : \A k \in S \ page : l.at <= k.at
Cursor(S, page) == CHOOSE l \in page : \A k \in page : k.at <= l.at

\* Is a reading undisturbed?  The cell goes by the registration of the first page, and no
\* other letter got the name of the cursor's file, which then was put away.
Steady(c) == /\ paging[c].steady
             /\ registry[c] = paging[c].under
             /\ \A k \in In("hub") : Name(k) = Name(paging[c].cursor) => k = paging[c].cursor

NotPaging == [cursor |-> NoOne, open |-> FALSE, first |-> {}, got |-> {}, under |-> NoOne, steady |-> TRUE]

ReadPage(c) ==
  LET fresh == ~paging[c].open
      S == IF fresh THEN Matched(c) ELSE After(c, paging[c].cursor)
      page == PageOf(S)
      more == page # S
  IN /\ S # {} \/ ~fresh
     /\ Spend("page")
     /\ received' = received \cup {<<c, l, registry[c]>> : l \in page}
     /\ shown' = shown \cup {<<c, l>> : l \in page}
     /\ paging' = [paging EXCEPT ![c] =
                     [cursor |-> IF more THEN Cursor(S, page) ELSE NoOne,
                      open |-> more,
                      first |-> IF fresh THEN S ELSE @.first,
                      got |-> (IF fresh THEN {} ELSE @.got) \cup page,
                      under |-> IF fresh THEN registry[c] ELSE @.under,
                      steady |-> fresh \/ Steady(c)]]
     /\ UNCHANGED <<letters, second, written, posting, read, join, watching, told,
                    sessionVars, registry, epochs>>

\* mark_read of one letter: it must be for this cell under its present epoch.
HubRead(c, l) ==
  /\ l \in In("hub")
  /\ l.to = c
  /\ SameEpoch(c, l)
  /\ \E r \in received : r[1] = c /\ r[2] = l
  /\ <<c, Name(l)>> \notin read
  /\ Spend("ack")
  /\ NoteRead(c, l)
  /\ UNCHANGED <<letters, second, written, posting, join, watching, shown, told,
                 sessionVars, hubVars>>

-----------------------------------------------------------------------------
HubInit ==
  /\ registry = [c \in Cell |-> NoOne]
  /\ epochs = 0
  /\ paging = [c \in Cell |-> NotPaging]
  /\ received = {}

HubTypeOK ==
  /\ \A c \in Cell : registry[c] # NoOne => registry[c].epoch \in 1..epochs
  /\ \A c \in Cell : paging[c].open \in BOOLEAN

-----------------------------------------------------------------------------
(* Properties *)

\* A letter is given only to the cell to which the address belonged when it was sent,
\* and while that cell goes by that address: neither who has the address later nor
\* what the cell is called later gets it.
ReceivedUnderItsName ==
  \A r \in received : r[3] # NoOne /\ r[3].address = r[2].extra.address

\* Whoever reads to the last page, undisturbed, has got every letter that was there at
\* the first and still is to be read, whatever arrived, was read or was put away in between.
PagesMissNothing ==
  \A c \in Cell :
    ~paging[c].open /\ paging[c].steady => paging[c].first \cap Matched(c) \subseteq paging[c].got

\* An inbox gives what was sent to this holder of the address, and all of it.
InboxHolds == ReceivedUnderItsName /\ PagesMissNothing
=============================================================================
