--------------------------- MODULE WorkspaceProofs ---------------------------
(***************************************************************************)
(* For any cells, letters and keys: whoever posts, watches, tidies up and  *)
(* dies at the same time, no letter is skipped, posted twice under one     *)
(* key, or lost.                                                           *)
(***************************************************************************)
EXTENDS Workspace, WellFoundedInduction, FiniteSetTheorems, TLAPS

-----------------------------------------------------------------------------
(* Which steps touch what *)

mail == <<letters, written, posting, told>>
reading == <<read, watching, shown, received>>

\* A letter is of a field, of a cell or a person, and says something.
LetterOK(l) == l.field \in Fields /\ l.from \in Poster /\ l.body \in Body

LEMMA DraftOK ==
  ASSUME NEW f \in Fields, NEW c \in Poster, NEW body \in Body, NEW to, NEW topic, NEW key,
         NEW reply, NEW extra
  PROVE  LetterOK(Draft(f, c, to, topic, body, key, reply, extra))
BY DEF Draft, LetterOK

LEMMA MailSteps ==
  ASSUME [Next]_workspaceVars
  PROVE  \/ \E d : Post(d) /\ LetterOK(d)
         \/ \E p \in Poster : Link(p) \/ Die(p)
         \/ \E l \in live : Archive(l)
         \/ UNCHANGED mail /\ second' \in {second, second + 1}
<1> USE DEF mail
<1>1. CASE FieldStep
  <2>1. CASE Letters
    <3>1. PICK m \in Menu :
            \/ /\ m.field = "relay"
               /\ \E reply \in {NoOne} \cup {Name(l) : l \in In("relay")} :
                    Post(Draft("relay", m.from, m.to, m.topic, m.body, m.key, reply, NoOne))
            \/ /\ m.field = "agora"
               /\ Post(Draft("agora", m.from, m.to, m.topic, m.body, m.key, NoOne, NoOne))
      BY <2>1 DEF Letters
    <3>2. m.from \in Poster /\ m.body \in Body /\ "relay" \in Fields /\ "agora" \in Fields
      BY WorkspaceAssumption DEF Fields
    <3>3. CASE \E reply \in {NoOne} \cup {Name(l) : l \in In("relay")} :
                 Post(Draft("relay", m.from, m.to, m.topic, m.body, m.key, reply, NoOne))
      BY <3>2, <3>3, DraftOK
    <3>4. CASE Post(Draft("agora", m.from, m.to, m.topic, m.body, m.key, NoOne, NoOne))
      BY <3>2, <3>4, DraftOK
    <3> QED
      BY <3>1, <3>3, <3>4
  <2>2. CASE Reading
    BY <2>2 DEF Reading, Poll, ShowNext, MarkRead, StopWatching, letters
  <2>3. ASSUME NEW f \in Watched, NEW c \in Cell, JoinField(f, c)
        PROVE  UNCHANGED mail /\ second' \in {second, second + 1}
    BY <2>3 DEF JoinField, letters
  <2>4. CASE Tick
    BY <2>4 DEF Tick, letters
  <2> QED
    BY <1>1, <2>1, <2>2, <2>3, <2>4 DEF FieldStep
<1>2. CASE SessionStep
  <2> SUFFICES ASSUME NEW p \in Process,
                      \/ \E j \in Joins : Gate(p, "join", j.role, j.address)
                      \/ \E role \in Role : Gate(p, "start", role, NoOne)
                      \/ ChooseSid(p) \/ WriteSession(p) \/ SetCursor(p) \/ Forget(p)
                      \/ \E brain \in {"model", NoOne} : ReadPresence(p, brain)
                      \/ WritePresence(p)
                      \/ Load(p, "note") \/ Load(p, "end") \/ Save(p)
                      \/ ProcessDies(p)
               PROVE  UNCHANGED mail /\ second' \in {second, second + 1}
    BY <1>2 DEF SessionStep
  <2> QED
    BY DEF Gate, ChooseSid, WriteSession, SetCursor, Forget, ReadPresence, WritePresence, Load,
           Save, ProcessDies, fieldVars, letters
<1>3. CASE HubStep
  <2>1. ASSUME NEW p \in Process, ReadRegistry(p) \/ WriteRegistry(p) \/ JoinHub(p)
        PROVE  UNCHANGED mail /\ second' \in {second, second + 1}
    BY <2>1 DEF ReadRegistry, WriteRegistry, JoinHub, fieldVars, letters
  <2>2. ASSUME NEW c \in Cell, Leave(c) \/ ReadPage(c) \/ \E l \in live : HubRead(c, l)
        PROVE  UNCHANGED mail /\ second' \in {second, second + 1}
    BY <2>2 DEF Leave, ReadPage, HubRead, fieldVars, letters
  <2>3. ASSUME NEW m \in Menu, HubSend(m.from, m.to, m.body, m.key)
        PROVE  \E d : Post(d) /\ LetterOK(d)
    <3>1. m.from \in Poster /\ m.body \in Body /\ "hub" \in Fields
      BY WorkspaceAssumption DEF Fields
    <3> QED
      BY <2>3, <3>1, DraftOK DEF HubSend
  <2> QED
    BY <1>3, <2>1, <2>2, <2>3 DEF HubStep
<1>4. ASSUME NEW m \in Menu, Sound(m.from, m.to, m.body)
      PROVE  \E d : Post(d) /\ LetterOK(d)
  <2>1. m.from \in Poster /\ m.body \in Body /\ "alarm" \in Fields
    BY WorkspaceAssumption DEF Fields
  <2> QED
    BY <1>4, <2>1, DraftOK DEF Sound
<1>5. CASE UNCHANGED workspaceVars
  BY <1>5 DEF workspaceVars, fieldVars, letters
<1> QED
  BY <1>1, <1>2, <1>3, <1>4, <1>5 DEF Next

LEMMA ReadingSteps ==
  ASSUME [Next]_workspaceVars
  PROVE  \/ \E c \in Cell : \/ /\ \/ \E f \in Watched : Poll(f, c)
                                  \/ ShowNext(c) \/ MarkRead(c) \/ StopWatching(c)
                               /\ received' = received
                            \/ ReadPage(c) \/ \E l \in live : HubRead(c, l)
         \/ UNCHANGED reading
<1> USE DEF reading
<1>1. ASSUME NEW d, Post(d), UNCHANGED hubVars
      PROVE  UNCHANGED reading
  BY <1>1 DEF Post, readers, hubVars
<1>2. CASE FieldStep /\ UNCHANGED <<sessionVars, hubVars, sounded>>
  <2>1. CASE Letters
    BY <1>1, <1>2, <2>1 DEF Letters
  <2>2. CASE Reading
    BY <1>2, <2>2, WorkspaceAssumption DEF Reading, hubVars
  <2>3. ASSUME NEW p \in Poster, Link(p) \/ Die(p)
        PROVE  UNCHANGED reading
    BY <1>2, <2>3 DEF Link, Die, readers, hubVars
  <2>4. ASSUME NEW f \in Watched, NEW c \in Cell, JoinField(f, c)
        PROVE  UNCHANGED reading
    BY <1>2, <2>4 DEF JoinField, hubVars
  <2>5. ASSUME NEW l \in live, Archive(l)
        PROVE  UNCHANGED reading
    BY <1>2, <2>5 DEF Archive, readers, hubVars
  <2>6. CASE Tick
    BY <1>2, <2>6 DEF Tick, readers, hubVars
  <2> QED
    BY <1>2, <2>1, <2>2, <2>3, <2>4, <2>5, <2>6 DEF FieldStep
<1>3. CASE SessionStep /\ UNCHANGED hubVars
  <2> SUFFICES ASSUME NEW p \in Process,
                      \/ \E j \in Joins : Gate(p, "join", j.role, j.address)
                      \/ \E role \in Role : Gate(p, "start", role, NoOne)
                      \/ ChooseSid(p) \/ WriteSession(p) \/ SetCursor(p) \/ Forget(p)
                      \/ \E brain \in {"model", NoOne} : ReadPresence(p, brain)
                      \/ WritePresence(p)
                      \/ Load(p, "note") \/ Load(p, "end") \/ Save(p)
                      \/ ProcessDies(p)
               PROVE  UNCHANGED reading
    BY <1>3 DEF SessionStep
  <2> QED
    BY <1>3 DEF Gate, ChooseSid, WriteSession, SetCursor, Forget, ReadPresence, WritePresence,
                Load, Save, ProcessDies, fieldVars, readers, hubVars
<1>4. CASE HubStep
  <2>1. ASSUME NEW p \in Process, ReadRegistry(p) \/ WriteRegistry(p) \/ JoinHub(p)
        PROVE  UNCHANGED reading
    BY <2>1 DEF ReadRegistry, WriteRegistry, JoinHub, fieldVars, readers, hubVars
  <2>2. ASSUME NEW c \in Cell, Leave(c)
        PROVE  UNCHANGED reading
    BY <2>2 DEF Leave, fieldVars, readers
  <2>3. ASSUME NEW m, HubSend(m.from, m.to, m.body, m.key)
        PROVE  UNCHANGED reading
    BY <1>1, <2>3 DEF HubSend
  <2> QED
    BY <1>4, <2>1, <2>2, <2>3 DEF HubStep
<1>5. ASSUME NEW m, Sound(m.from, m.to, m.body)
      PROVE  UNCHANGED reading
  BY <1>1, <1>5 DEF Sound
<1>6. CASE UNCHANGED workspaceVars
  BY <1>6 DEF workspaceVars, fieldVars, readers, hubVars
<1> QED
  BY <1>2, <1>3, <1>4, <1>5, <1>6 DEF Next

-----------------------------------------------------------------------------
(* A letter is shown before it is noted as read *)

Watchers == watching = [c \in Cell |-> [left |-> watching[c].left, printed |-> watching[c].printed]]

\* What a watcher has printed, and what a cell got from the hub, was shown.
Printed == \A c \in Cell : watching[c].printed \in BOOLEAN
PrintedShown == \A c \in Cell : watching[c].printed => <<c, Head(watching[c].left)>> \in shown
ReceivedShown == \A r \in received : <<r[1], r[2]>> \in shown

ShownInv == Watchers /\ Printed /\ PrintedShown /\ ReceivedShown /\ ReadWasShown

\* What a watcher does concerns its own cell only.
LEMMA OneWatcher ==
  ASSUME Watchers, NEW c \in Cell, NEW left, NEW printed,
         watching' = [watching EXCEPT ![c] = [left |-> left, printed |-> printed]]
  PROVE  /\ Watchers'
         /\ watching'[c].left = left /\ watching'[c].printed = printed
         /\ \A d \in Cell \ {c} : watching'[d] = watching[d]
<1>1. watching = [d \in Cell |-> watching[d]]
  BY DEF Watchers
<1>2. watching' = [d \in Cell |-> IF d = c THEN [left |-> left, printed |-> printed] ELSE watching[d]]
  BY <1>1
<1>3. /\ watching'[c] = [left |-> left, printed |-> printed]
      /\ \A d \in Cell \ {c} : watching'[d] = watching[d]
  BY <1>2
<1>4. \A d \in Cell : watching[d] = [left |-> watching[d].left, printed |-> watching[d].printed]
  BY DEF Watchers
<1>5. \A d \in Cell : watching'[d] = [left |-> watching'[d].left, printed |-> watching'[d].printed]
  BY <1>3, <1>4
<1>6. watching' = [d \in Cell |-> watching'[d]]
  BY <1>2
<1> QED
  BY <1>3, <1>5, <1>6 DEF Watchers

LEMMA OnePrinted ==
  ASSUME Watchers, Printed, NEW c \in Cell, NEW left, NEW printed \in BOOLEAN,
         watching' = [watching EXCEPT ![c] = [left |-> left, printed |-> printed]]
  PROVE  Printed'
<1>1. watching'[c].printed = printed /\ \A d \in Cell \ {c} : watching'[d] = watching[d]
  BY OneWatcher
<1>2. ASSUME NEW d \in Cell
      PROVE  watching'[d].printed \in BOOLEAN
  <2>1. CASE d = c
    BY <1>1, <2>1
  <2>2. CASE d # c
    BY <1>1, <2>2, Zenon DEF Printed
  <2> QED
    BY <2>1, <2>2
<1> QED
  BY <1>2, Zenon DEF Printed

LEMMA OneField ==
  ASSUME NEW a, NEW b, NEW x
  PROVE  LET w == [left |-> a, printed |-> b]
         IN /\ [w EXCEPT !.left = x] = [left |-> x, printed |-> b]
            /\ [w EXCEPT !.printed = x] = [left |-> a, printed |-> x]
<1> QED
  OBVIOUS

\* What was shown remains so.
LEMMA MoreShown ==
  ASSUME ReadWasShown, shown \subseteq shown', read' = read
  PROVE  ReadWasShown'
<1> QED
  BY DEF ReadWasShown

LEMMA ShownInit ==
  ASSUME Init
  PROVE  ShownInv
<1> QED
  BY DEF Init, FieldInit, HubInit, ShownInv, Watchers, Printed, PrintedShown, ReceivedShown, ReadWasShown,
         NotWatching

LEMMA ShownStep ==
  ASSUME ShownInv, [Next]_workspaceVars
  PROVE  ShownInv'
<1>1. ASSUME NEW c \in Cell, NEW f \in Watched, Poll(f, c), received' = received
      PROVE  ShownInv'
  <2> DEFINE feed == Feed(f, c)
  <2>1. /\ watching[c] = NotWatching
        /\ watching' = [watching EXCEPT ![c].left = feed]
        /\ read' = read /\ shown' = shown
    BY <1>1 DEF Poll
  <2> HIDE DEF feed
  <2>2. watching' = [watching EXCEPT ![c] = [left |-> feed, printed |-> FALSE]]
    <3>1. [NotWatching EXCEPT !.left = feed] = [left |-> feed, printed |-> FALSE]
      BY OneField, Zenon DEF NotWatching
    <3>2. watching' = [watching EXCEPT ![c] = [watching[c] EXCEPT !.left = feed]]
      BY <2>1, Zenon
    <3> QED
      BY <2>1, <3>1, <3>2, Zenon
  <2>3. Watchers' /\ ~watching'[c].printed /\ \A d \in Cell \ {c} : watching'[d] = watching[d]
    BY <2>2, OneWatcher DEF ShownInv
  <2>4. PrintedShown'
    BY <2>1, <2>3 DEF ShownInv, PrintedShown
  <2>5. ReceivedShown'
    BY <1>1, <2>1 DEF ShownInv, ReceivedShown
  <2>6. Printed'
    BY <2>2, OnePrinted DEF ShownInv
  <2> QED
    BY <2>1, <2>3, <2>4, <2>5, <2>6, MoreShown DEF ShownInv
<1>2. ASSUME NEW c \in Cell, ShowNext(c), received' = received
      PROVE  ShownInv'
  <2> DEFINE l == Head(watching[c].left)
  <2>1. /\ watching' = [watching EXCEPT ![c].printed = TRUE]
        /\ shown' = shown \cup {<<c, l>>}
        /\ read' = read
    BY <1>2 DEF ShowNext, Show
  <2>2. watching[c] = [left |-> watching[c].left, printed |-> watching[c].printed]
    BY DEF ShownInv, Watchers
  <2>3. watching' = [watching EXCEPT ![c] = [left |-> watching[c].left, printed |-> TRUE]]
    <3> DEFINE yes == TRUE
    <3> HIDE DEF yes
    <3>1. \A a, b : [[left |-> a, printed |-> b] EXCEPT !.printed = yes] = [left |-> a, printed |-> yes]
      BY OneField, Zenon
    <3> USE DEF yes
    <3>2. watching' = [watching EXCEPT ![c] = [watching[c] EXCEPT !.printed = TRUE]]
      BY <2>1, Zenon
    <3> QED
      BY <2>2, <3>1, <3>2, Zenon
  <2>4. /\ Watchers' /\ watching'[c].left = watching[c].left
        /\ \A d \in Cell \ {c} : watching'[d] = watching[d]
    BY <2>3, OneWatcher DEF ShownInv
  <2>5. PrintedShown'
    BY <2>1, <2>4 DEF ShownInv, PrintedShown
  <2>6. ReceivedShown'
    BY <1>2, <2>1 DEF ShownInv, ReceivedShown
  <2>7. Printed'
    BY <2>3, OnePrinted DEF ShownInv
  <2> QED
    BY <2>1, <2>4, <2>5, <2>6, <2>7, MoreShown DEF ShownInv
<1>3. ASSUME NEW c \in Cell, MarkRead(c), received' = received
      PROVE  ShownInv'
  <2> DEFINE l == Head(watching[c].left)
             left == Tail(watching[c].left)
  <2>1. /\ <<c, l>> \in shown /\ shown' = shown
        /\ read' = read \cup {<<c, Name(l)>>}
        /\ watching' = [watching EXCEPT ![c] = [left |-> left, printed |-> FALSE]]
    BY <1>3 DEF MarkRead, NoteRead, ShownInv, PrintedShown, Watchers
  <2> HIDE DEF l, left
  <2>2. Watchers' /\ ~watching'[c].printed /\ \A d \in Cell \ {c} : watching'[d] = watching[d]
    BY <2>1, OneWatcher DEF ShownInv
  <2>3. PrintedShown'
    BY <2>1, <2>2 DEF ShownInv, PrintedShown
  <2>4. ReceivedShown'
    BY <1>3, <2>1 DEF ShownInv, ReceivedShown
  <2>5. ReadWasShown'
    <3>1. \E s \in shown : s[1] = c /\ Name(s[2]) = Name(l)
      BY <2>1
    <3> QED
      BY <2>1, <3>1 DEF ShownInv, ReadWasShown
  <2>6. Printed'
    BY <2>1, OnePrinted DEF ShownInv
  <2> QED
    BY <2>2, <2>3, <2>4, <2>5, <2>6 DEF ShownInv
<1>4. ASSUME NEW c \in Cell, StopWatching(c), received' = received
      PROVE  ShownInv'
  <2>1. /\ watching' = [watching EXCEPT ![c] = [left |-> <<>>, printed |-> FALSE]]
        /\ read' = read /\ shown' = shown
    BY <1>4 DEF StopWatching, NotWatching
  <2>2. Watchers' /\ ~watching'[c].printed /\ \A d \in Cell \ {c} : watching'[d] = watching[d]
    BY <2>1, OneWatcher DEF ShownInv
  <2>3. PrintedShown'
    BY <2>1, <2>2 DEF ShownInv, PrintedShown
  <2>4. ReceivedShown'
    BY <1>4, <2>1 DEF ShownInv, ReceivedShown
  <2>5. Printed'
    BY <2>1, OnePrinted DEF ShownInv
  <2> QED
    BY <2>1, <2>2, <2>3, <2>4, <2>5, MoreShown DEF ShownInv
<1>5. ASSUME NEW c \in Cell, ReadPage(c)
      PROVE  ShownInv'
  <2> DEFINE S == IF ~paging[c].open THEN Matched(c) ELSE After(c, paging[c].cursor)
             page == PageOf(S)
  <2>1. /\ received' = received \cup {<<c, l, registry[c]>> : l \in page}
        /\ shown' = shown \cup {<<c, l>> : l \in page}
        /\ read' = read /\ watching' = watching
    BY <1>5 DEF ReadPage
  <2> HIDE DEF page
  <2>2. ReceivedShown'
    <3>1. \A r \in received : <<r[1], r[2]>> \in shown'
      BY <2>1 DEF ShownInv, ReceivedShown
    <3>2. \A l \in page : LET r == <<c, l, registry[c]>> IN <<r[1], r[2]>> \in shown'
      BY <2>1
    <3> QED
      BY <2>1, <3>1, <3>2 DEF ReceivedShown
  <2>3. Watchers' /\ Printed' /\ PrintedShown'
    BY <2>1 DEF ShownInv, Watchers, Printed, PrintedShown
  <2>4. ReadWasShown'
    BY <2>1, MoreShown DEF ShownInv
  <2> QED
    BY <2>2, <2>3, <2>4 DEF ShownInv
<1>6. ASSUME NEW c \in Cell, NEW l \in live, HubRead(c, l)
      PROVE  ShownInv'
  <2>1. /\ UNCHANGED <<watching, shown, received>>
        /\ read' = read \cup {<<c, Name(l)>>}
        /\ \E r \in received : r[1] = c /\ r[2] = l
    BY <1>6 DEF HubRead, NoteRead, hubVars
  <2>2. <<c, l>> \in shown
    BY <2>1 DEF ShownInv, ReceivedShown
  <2>3. \E s \in shown : s[1] = c /\ Name(s[2]) = Name(l)
    BY <2>2
  <2>4. ReadWasShown'
    BY <2>1, <2>3 DEF ShownInv, ReadWasShown
  <2> QED
    BY <2>1, <2>4 DEF ShownInv, Watchers, Printed, PrintedShown, ReceivedShown
<1>7. CASE UNCHANGED reading
  BY <1>7 DEF reading, ShownInv, Watchers, Printed, PrintedShown, ReceivedShown, ReadWasShown
<1> QED
  BY ReadingSteps, <1>1, <1>2, <1>3, <1>4, <1>5, <1>6, <1>7

-----------------------------------------------------------------------------
(* One letter for a key *)

SameKey(k, l) == k.field = l.field /\ k.from = l.from /\ k.key = l.key /\ k.key # NoOne

\* A letter that is under way under a key is the only one of its key; what a caller
\* was told is a letter of its own, under the key that it used.
KeyInv ==
  /\ posting = [p \in Poster |-> posting[p]]
  /\ \A p \in Poster : posting[p] # NoOne =>
        /\ posting[p].from = p
        /\ \A l \in live : ~SameKey(posting[p], l)
  /\ \A k, l \in live : SameKey(k, l) => k = l
  /\ \A t \in told : t = <<t[3].from, t[3].key, t[3]>> /\ t[3].key # NoOne

LEMMA KeyGivesOne ==
  ASSUME KeyInv
  PROVE  OneAnswerPerKey
<1> SUFFICES ASSUME NEW t \in told, NEW u \in told,
                    t[1] = u[1], t[2] = u[2], t[3].field = u[3].field,
                    t[3] \in live, u[3] \in live
             PROVE  t = u
  BY DEF OneAnswerPerKey
<1>1. /\ t = <<t[3].from, t[3].key, t[3]>> /\ t[3].key # NoOne
      /\ u = <<u[3].from, u[3].key, u[3]>>
  BY DEF KeyInv
<1>2. t[3].from = u[3].from /\ t[3].key = u[3].key
  BY <1>1
<1>3. t[3] = u[3]
  BY <1>1, <1>2 DEF KeyInv, SameKey
<1> QED
  BY <1>1, <1>3

LEMMA KeyInit ==
  ASSUME Init
  PROVE  KeyInv
<1> QED
  BY DEF Init, FieldInit, KeyInv

LEMMA KeyPost ==
  ASSUME KeyInv, NEW d, Post(d)
  PROVE  KeyInv'
<1> USE DEF KeyInv
<1>1. live' = live
  BY DEF Post, letters
<1>2. CASE WriteLetter(d) /\ UNCHANGED told
  <2>1. posting' = [posting EXCEPT ![d.from] = Stamped(d)]
    BY <1>2 DEF WriteLetter
  <2>2. Stamped(d).from = d.from /\ Stamped(d).field = d.field /\ Stamped(d).key = d.key
    BY DEF Stamped
  <2>3. \A l \in live : ~SameKey(Stamped(d), l)
    BY <1>2, <2>2 DEF WriteLetter, Dups, In, SameKey
  <2> HIDE DEF Stamped
  <2> QED
    BY <1>1, <1>2, <2>1, <2>2, <2>3
<1>3. CASE Repeat(d) /\ UNCHANGED <<written, posting>>
  <2> DEFINE l == FirstOfKey(d.field, d.from, d.key)
  <2>1. l \in Dups(d.field, d.from, d.key)
    BY <1>3 DEF Repeat, FirstOfKey
  <2>2. l.key = d.key /\ l.from = d.from /\ d.key # NoOne
    BY <2>1 DEF Dups
  <2>3. told' = told \cup {<<d.from, d.key, l>>}
    BY <1>3 DEF Repeat
  <2> HIDE DEF l
  <2>4. \A t \in told' : t = <<t[3].from, t[3].key, t[3]>> /\ t[3].key # NoOne
    BY <2>2, <2>3
  <2> QED
    BY <1>1, <1>3, <2>4
<1> QED
  BY <1>2, <1>3 DEF Post

LEMMA KeyLink ==
  ASSUME KeyInv, NEW c \in Poster, Link(c)
  PROVE  KeyInv'
<1> USE DEF KeyInv
<1> DEFINE p == posting[c]
           l == Linked(p)
<1>1. l.field = p.field /\ l.from = p.from /\ l.key = p.key
  BY DEF Linked, Numbered
<1>2. /\ p # NoOne
      /\ live' = {k \in live : Name(k) # Name(l)} \cup {l}
      /\ told' = told \/ (l.key # NoOne /\ told' = told \cup {<<c, l.key, l>>})
      /\ posting' = [posting EXCEPT ![c] = NoOne]
  BY DEF Link
<1>3. l.from = c
  BY <1>1, <1>2
<1> HIDE DEF l
<1>4. \A k \in live : ~SameKey(l, k) /\ ~SameKey(k, l)
  BY <1>1, <1>2 DEF SameKey
<1>5. \A j, k \in live' : SameKey(j, k) => j = k
  BY <1>2, <1>4
<1>6. \A q \in Poster : posting'[q] # NoOne =>
        /\ posting'[q].from = q
        /\ \A k \in live' : ~SameKey(posting'[q], k)
  <2> SUFFICES ASSUME NEW q \in Poster, posting'[q] # NoOne
               PROVE  /\ posting'[q].from = q
                      /\ \A k \in live' : ~SameKey(posting'[q], k)
    OBVIOUS
  <2>1. q # c /\ posting'[q] = posting[q] /\ posting[q].from = q
    BY <1>2
  <2>2. ~SameKey(posting[q], l)
    BY <1>3, <2>1 DEF SameKey
  <2> QED
    BY <1>2, <2>1, <2>2
<1>7. \A t \in told' : t = <<t[3].from, t[3].key, t[3]>> /\ t[3].key # NoOne
  BY <1>2, <1>3
<1>8. posting' = [q \in Poster |-> posting'[q]]
  BY <1>2
<1> QED
  BY <1>5, <1>6, <1>7, <1>8

LEMMA KeyStep ==
  ASSUME KeyInv, [Next]_workspaceVars
  PROVE  KeyInv'
<1>1. ASSUME NEW p \in Poster, Die(p)
      PROVE  KeyInv'
  BY <1>1 DEF Die, KeyInv, letters
<1>2. ASSUME NEW l \in live, Archive(l)
      PROVE  KeyInv'
  BY <1>2 DEF Archive, KeyInv
<1>3. CASE UNCHANGED mail
  BY <1>3 DEF mail, letters, KeyInv
<1> QED
  BY MailSteps, KeyPost, KeyLink, <1>1, <1>2, <1>3

\* Whoever dies between two steps, or asks again: what is noted as read was shown, and
\* no letter is posted twice under one key.
THEOREM NoneSkippedNoneTwiceAlways == Spec => []NoneSkippedNoneTwice
<1>1. Init => ShownInv /\ KeyInv
  BY ShownInit, KeyInit
<1>2. ShownInv /\ KeyInv /\ [Next]_workspaceVars => (ShownInv /\ KeyInv)'
  BY ShownStep, KeyStep
<1>3. ShownInv /\ KeyInv => NoneSkippedNoneTwice
  BY KeyGivesOne DEF ShownInv, NoneSkippedNoneTwice
<1> QED
  BY <1>1, <1>2, <1>3, PTL DEF Spec

-----------------------------------------------------------------------------
(* No letter replaces another *)

\* Letters that are there and letters that are under way are told apart by their place
\* in the order of writing.
PlaceInv ==
  /\ written \in Nat
  /\ posting = [p \in Poster |-> posting[p]]
  /\ second \in Nat
  /\ \A l \in live : l.at \in 0 .. (written - 1) /\ l.second \in 0 .. second
  /\ \A k, l \in live : k.at = l.at => k = l
  /\ \A p \in Poster : posting[p] # NoOne =>
        /\ posting[p].at \in 0 .. (written - 1) /\ posting[p].second \in 0 .. second
        /\ \A l \in live : l.at # posting[p].at
        /\ \A q \in Poster \ {p} : posting[q] # NoOne => posting[q].at # posting[p].at

LEMMA LowestExists ==
  ASSUME NEW S \in SUBSET Nat, S # {}
  PROVE  \E n \in S : \A k \in S : n <= k
<1>1. PICK n \in S : \A k \in S : ~ (<<k, n>> \in OpToRel(<, Nat))
  BY NatLessThanWellFounded, WFMin
<1>2. \A k \in S : ~ (k < n)
  BY <1>1 DEF OpToRel
<1> QED
  BY <1>2

\* Of more names than letters were ever written one is free.
LEMMA FreeName ==
  ASSUME PlaceInv, NEW l
  PROVE  \E n \in 1 .. (written + 1) : ~Taken(l, n)
<1> SUFFICES ASSUME \A n \in 1 .. (written + 1) : Taken(l, n)
             PROVE  FALSE
  OBVIOUS
<1> DEFINE S == 1 .. (written + 1)
           T == 0 .. (written - 1)
           holder(n) == CHOOSE k \in live : Name(k) = Name(Numbered(l, n))
           f == [n \in S |-> holder(n).at]
<1>1. written \in Nat
  BY DEF PlaceInv
<1>2. IsFiniteSet(S) /\ Cardinality(S) = written + 1
  <2>1. 1 \in Int /\ written + 1 \in Int /\ ~(1 > written + 1)
    BY <1>1
  <2> QED
    BY <1>1, <2>1, FS_Interval
<1>3. IsFiniteSet(T) /\ Cardinality(T) = written
  <2>1. 0 \in Int /\ written - 1 \in Int
    BY <1>1
  <2>2. IsFiniteSet(T) /\ Cardinality(T) = IF 0 > written - 1 THEN 0 ELSE (written - 1) - 0 + 1
    BY <2>1, FS_Interval
  <2> QED
    BY <1>1, <2>2
<1>4. \A n \in S : holder(n) \in live /\ Name(holder(n)) = Name(Numbered(l, n))
  BY DEF Taken
<1>5. \A n \in S : holder(n).n = n
  BY <1>4 DEF Name, Numbered
<1>6. f \in [S -> T]
  BY <1>4 DEF PlaceInv
<1> HIDE DEF holder
<1>7. \A m, n \in S : f[m] = f[n] => m = n
  <2> SUFFICES ASSUME NEW m \in S, NEW n \in S, f[m] = f[n]
               PROVE  m = n
    OBVIOUS
  <2>1. holder(m).at = holder(n).at
    OBVIOUS
  <2>2. holder(m) = holder(n)
    BY <1>4, <2>1 DEF PlaceInv
  <2> QED
    BY <1>5, <2>2
<1> HIDE DEF f, S, T
<1>8. Cardinality(T) < Cardinality(S)
  BY <1>1, <1>2, <1>3
<1>9. \E m, n \in S : m # n /\ f[m] = f[n]
  BY <1>2, <1>3, <1>6, <1>8, FS_PigeonHole
<1> QED
  BY <1>7, <1>9

\* A letter is linked under a name that nobody has.
LEMMA LinkedIsFree ==
  ASSUME PlaceInv, NEW l
  PROVE  \A k \in live : Name(k) # Name(Linked(l))
<1> DEFINE Free == {n \in 1 .. (written + 1) : ~Taken(l, n)}
<1>1. written \in Nat
  BY DEF PlaceInv
<1>2. Free \in SUBSET Nat /\ Free # {}
  BY <1>1, FreeName
<1>3. PICK n \in Free : \A k \in Free : n <= k
  <2> HIDE DEF Free
  <2> QED
    BY <1>2, LowestExists
<1>4. n \in 1 .. (written + 1) /\ ~Taken(l, n) /\ \A m \in 1 .. (n - 1) : Taken(l, m)
  BY <1>1, <1>3
<1>5. PICK m : ~Taken(l, m) /\ Linked(l) = Numbered(l, m)
  BY <1>4 DEF Linked
<1> QED
  BY <1>5 DEF Taken

LEMMA PlaceInit ==
  ASSUME Init
  PROVE  PlaceInv
<1> QED
  BY DEF Init, FieldInit, PlaceInv

LEMMA PlacePost ==
  ASSUME PlaceInv, NEW d, Post(d)
  PROVE  PlaceInv'
<1> USE DEF PlaceInv
<1>1. live' = live /\ second' = second
  BY DEF Post, letters
<1>2. CASE WriteLetter(d)
  <2>1. /\ posting' = [posting EXCEPT ![d.from] = Stamped(d)]
        /\ written' = written + 1
    BY <1>2 DEF WriteLetter
  <2>2. Stamped(d).at = written /\ Stamped(d).second = second
    BY DEF Stamped
  <2> HIDE DEF Stamped
  <2>3. \A l \in live : l.at \in 0 .. (written' - 1)
    BY <2>1
  <2>4. \A p \in Poster : posting'[p] # NoOne =>
          \/ p = d.from /\ posting'[p] = Stamped(d)
          \/ p # d.from /\ posting'[p] = posting[p]
    BY <2>1
  <2>5. \A p \in Poster : posting'[p] # NoOne =>
          /\ posting'[p].at \in 0 .. (written' - 1) /\ posting'[p].second \in 0 .. second
          /\ \A l \in live : l.at # posting'[p].at
          /\ \A q \in Poster \ {p} : posting'[q] # NoOne => posting'[q].at # posting'[p].at
    BY <2>1, <2>2, <2>4
  <2>6. posting' = [p \in Poster |-> posting'[p]]
    BY <2>1
  <2> QED
    BY <1>1, <2>1, <2>3, <2>5, <2>6
<1>3. CASE UNCHANGED <<written, posting>>
  BY <1>1, <1>3
<1> QED
  BY <1>2, <1>3 DEF Post

LEMMA PlaceLink ==
  ASSUME PlaceInv, NEW c \in Poster, Link(c)
  PROVE  /\ PlaceInv'
         /\ live' = live \cup {Linked(posting[c])} /\ archived' = archived
<1> USE DEF PlaceInv
<1> DEFINE p == posting[c]
           l == Linked(p)
<1>1. l.at = p.at /\ l.second = p.second
  BY DEF Linked, Numbered
<1>2. /\ p # NoOne
      /\ live' = {k \in live : Name(k) # Name(l)} \cup {l}
      /\ posting' = [posting EXCEPT ![c] = NoOne]
      /\ UNCHANGED <<archived, second, written>>
  BY DEF Link
<1>3. \A k \in live : Name(k) # Name(l)
  BY LinkedIsFree
<1> HIDE DEF l
<1>4. live' = live \cup {l}
  BY <1>2, <1>3
<1>5. \A k \in live' : k.at \in 0 .. (written - 1) /\ k.second \in 0 .. second
  BY <1>1, <1>2, <1>4
<1>6. \A j, k \in live' : j.at = k.at => j = k
  BY <1>1, <1>2, <1>4
<1>7. \A q \in Poster : posting'[q] # NoOne => q # c /\ posting'[q] = posting[q]
  BY <1>2
<1>8. \A q \in Poster : posting'[q] # NoOne =>
        /\ posting'[q].at \in 0 .. (written - 1) /\ posting'[q].second \in 0 .. second
        /\ \A k \in live' : k.at # posting'[q].at
        /\ \A r \in Poster \ {q} : posting'[r] # NoOne => posting'[r].at # posting'[q].at
  BY <1>1, <1>2, <1>4, <1>7
<1>9. posting' = [q \in Poster |-> posting'[q]]
  BY <1>2
<1> QED
  BY <1>2, <1>4, <1>5, <1>6, <1>8, <1>9 DEF l

LEMMA PlaceStep ==
  ASSUME PlaceInv, [Next]_workspaceVars
  PROVE  PlaceInv'
<1>1. ASSUME NEW p \in Poster, Die(p)
      PROVE  PlaceInv'
  BY <1>1 DEF Die, PlaceInv, letters
<1>2. ASSUME NEW l \in live, Archive(l)
      PROVE  PlaceInv'
  BY <1>2 DEF Archive, PlaceInv
<1>3. CASE UNCHANGED mail /\ second' \in {second, second + 1}
  BY <1>3 DEF mail, letters, PlaceInv
<1> QED
  BY MailSteps, PlacePost, PlaceLink, <1>1, <1>2, <1>3

\* How the letters that are there change: one comes, one is put away, or none.
LEMMA LiveSteps ==
  ASSUME PlaceInv, [Next]_workspaceVars
  PROVE  \/ live \subseteq live' /\ archived' = archived
         \/ \E l \in live : Archive(l)
<1>1. ASSUME NEW d, Post(d)
      PROVE  UNCHANGED <<live, archived>>
  BY <1>1 DEF Post, letters
<1>2. ASSUME NEW p \in Poster, Die(p)
      PROVE  UNCHANGED <<live, archived>>
  BY <1>2 DEF Die, letters
<1>3. CASE UNCHANGED mail
  BY <1>3 DEF mail, letters
<1> QED
  BY MailSteps, PlaceLink, <1>1, <1>2, <1>3

LEMMA StandStep ==
  ASSUME PlaceInv, [Next]_workspaceVars, NEW l \in live \cup archived, Gone(l)
  PROVE  /\ l \in archived
         /\ \E k \in live \ live' : k \in archived' /\ Name(k) = Name(l)
<1>1. PICK k \in live : Archive(k)
  BY LiveSteps DEF Gone
<1>2. live' = live \ {k} /\ archived' = {j \in archived : Name(j) # Name(k)} \cup {k}
  BY <1>1 DEF Archive
<1> QED
  BY <1>2 DEF Gone

-----------------------------------------------------------------------------
(* The goal does not go back *)

LEMMA HighestExists ==
  ASSUME NEW N \in Nat, NEW S \in SUBSET (0 .. N), S # {}
  PROVE  \E n \in S : \A k \in S : k <= n
<1> DEFINE T == {N - n : n \in S}
<1>1. T \in SUBSET Nat /\ T # {}
  <2>1. PICK n \in S : TRUE
    OBVIOUS
  <2>2. N - n \in T
    BY <2>1
  <2>3. \A k \in S : N - k \in Nat
    OBVIOUS
  <2> QED
    BY <2>2, <2>3
<1> HIDE DEF T
<1>2. PICK m \in T : \A k \in T : m <= k
  BY <1>1, LowestExists
<1>3. PICK n \in S : m = N - n
  BY DEF T
<1>4. \A k \in S : N - n <= N - k
  BY <1>2, <1>3 DEF T
<1> QED
  BY <1>4

LEMMA NewestExists ==
  ASSUME NEW M \in Nat, NEW N \in Nat, NEW S, S # {},
         \A l \in S : l.second \in 0 .. M /\ l.at \in 0 .. N
  PROVE  \E k \in S : \A l \in S : NewerGoal(k, l)
<1> DEFINE Seconds == {l.second : l \in S}
<1>1. PICK s \in Seconds : \A t \in Seconds : t <= s
  <2>1. Seconds \in SUBSET (0 .. M) /\ Seconds # {}
    OBVIOUS
  <2> HIDE DEF Seconds
  <2> QED
    BY <2>1, HighestExists
<1> DEFINE Of(t) == {l \in S : l.second = t}
           Places == {l.at : l \in Of(s)}
<1>2. PICK a \in Places : \A b \in Places : b <= a
  <2>1. Places \in SUBSET (0 .. N) /\ Places # {}
    OBVIOUS
  <2> HIDE DEF Places
  <2> QED
    BY <2>1, HighestExists
<1>3. PICK k \in Of(s) : k.at = a
  OBVIOUS
<1>4. \A l \in S : l.second <= s /\ (l.second = s => l.at <= a)
  BY <1>1, <1>2
<1> QED
  BY <1>1, <1>3, <1>4 DEF NewerGoal

LEMMA GoalStep ==
  ASSUME PlaceInv, PlaceInv', [Next]_workspaceVars, Goals # {}, Goal \in live'
  PROVE  Goals' # {} /\ NewerGoal(Goal', Goal)
<1>1. Goal \in Goals
  <2>1. \E k \in Goals : \A l \in Goals : NewerGoal(k, l)
    <3>1. \A l \in Goals : l.second \in 0 .. second /\ l.at \in 0 .. written
      BY DEF PlaceInv, Goals, In
    <3> QED
      BY <3>1, NewestExists DEF PlaceInv
  <2> QED
    BY <2>1 DEF Goal
<1> HIDE DEF Goal
<1>2. Goal \in Goals'
  BY <1>1 DEF Goals, In
<1>3. \E k \in Goals' : \A l \in Goals' : NewerGoal(k, l)
  <2>1. \A l \in Goals' : l.second \in 0 .. second' /\ l.at \in 0 .. written'
    BY DEF PlaceInv, Goals, In
  <2>2. second' \in Nat /\ written' \in Nat
    BY DEF PlaceInv
  <2> QED
    BY <1>2, <2>1, <2>2, NewestExists
<1>4. \A l \in Goals' : NewerGoal(Goal', l)
  BY <1>2, <1>3 DEF Goal
<1> QED
  BY <1>2, <1>4
=============================================================================
