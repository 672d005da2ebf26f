-------------------------------- MODULE Field --------------------------------
(***************************************************************************)
(* The letters of a workspace (field.py) and the three policies over them: *)
(* relay (to somebody), agora (to all) and alarm (relay.py, agora.py,      *)
(* alarm.py).  A letter is one file; there is no daemon, no lock and no    *)
(* index: each process reads the directory, writes its own file, and links *)
(* it under a name that is free.  Cells, watchers and a person who tidies  *)
(* up run at the same time, and each may die between two steps.            *)
(*                                                                         *)
(* Cells are canonical ids.  Bodies are model values.  The time of a       *)
(* letter has a second's precision, in the stamp as well as in the name.   *)
(***************************************************************************)
EXTENDS Budget, FiniteSets, SequencesExt

CONSTANTS
  Cell,
  Body,
  Key,         \* idempotency keys
  NoOne,       \* no cell, no key, no letter
  FeedLimit    \* feed looks at this many letters, the newest (200)

ASSUME FieldAssumption ==
  /\ FeedLimit \in Nat \ {0}
  /\ NoOne \notin Cell \cup Key

VARIABLES
  live,      \* the letters that lie in the directories
  archived,  \* the letters in .archive
  second,    \* the time, in seconds
  written,   \* how many letters were written: the order of modification times
  posting,   \* posting[p]: the letter that a process of p has written and not yet linked, or NoOne
  read,      \* <<c, name>>: the lines of .read-c
  join,      \* join[f][c]: the time in .join-c, or -1
  watching,  \* watching[c]: what the watcher of c has still to show, and whether the first is shown
  shown,     \* <<c, l>>: l was shown to c
  told       \* <<c, k, l>>: c, which posted under the key k, was answered with l

letters == <<live, archived>>
readers == <<read, join, watching, shown>>
fieldVars == <<letters, second, written, posting, readers, told>>

\* A person, or a caller without an id, posts as NoOne.
Poster == Cell \cup {NoOne}

Fields == {"relay", "agora", "alarm", "hub"}
Watched == {"relay", "agora", "alarm"}
Directed == {"relay", "alarm"}

\* What tells two files apart.
Name(l) == [field |-> l.field, second |-> l.second, from |-> l.from, to |-> l.to,
            topic |-> l.topic, n |-> l.n]

In(f) == {l \in live : l.field = f}

-----------------------------------------------------------------------------
(* post *)

\* The same sender (or none) and the same key.
DupsUnseen(f, c, k) == {}  \* mutant: the key is not looked up
Dups(f, c, k) == {l \in In(f) : k # NoOne /\ l.key = k /\ l.from = c}

\* A reply belongs to the conversation of its parent; a parent without one, or
\* that is not there any more, begins it.
Thread(reply) ==
  IF reply = NoOne THEN NoOne
  ELSE IF \E l \in live : Name(l) = reply /\ l.thread # NoOne
       THEN (CHOOSE l \in live : Name(l) = reply).thread
       ELSE reply

\* What a policy adds to a letter (extra) is part of what it says.
Draft(f, c, to, topic, body, key, reply, extra) ==
  [field |-> f, from |-> c, to |-> to, topic |-> topic, body |-> body, key |-> key,
   reply |-> reply, thread |-> Thread(reply), extra |-> extra]

\* The fingerprint of what is said.
Says(l) == <<l.to, l.topic, l.body, l.thread, l.reply, l.extra>>

\* A letter gets its time.
Stamped(d) ==
  [field |-> d.field, from |-> d.from, to |-> d.to, topic |-> d.topic, body |-> d.body, key |-> d.key,
   reply |-> d.reply, thread |-> d.thread, extra |-> d.extra, second |-> second, at |-> written]

\* The key is looked up, then the letter is written under a name that nobody reads.
WriteLetter(d) ==
  /\ posting[d.from] = NoOne
  /\ Dups(d.field, d.from, d.key) = {}
  /\ written' = written + 1
  /\ posting' = [posting EXCEPT ![d.from] = Stamped(d)]

\* A key that was used: the letter that is there is the answer, if it says the same.
FirstOfKey(f, c, k) == CHOOSE l \in Dups(f, c, k) : TRUE
Repeat(d) ==
  /\ posting[d.from] = NoOne
  /\ Dups(d.field, d.from, d.key) # {}
  /\ LET l == FirstOfKey(d.field, d.from, d.key) IN
     /\ Says(l) = Says(d)
     /\ told' = told \cup {<<d.from, d.key, l>>}

Post(d) ==
  /\ Spend(d.field)
  /\ \/ WriteLetter(d) /\ UNCHANGED told
     \/ Repeat(d) /\ UNCHANGED <<written, posting>>
  /\ UNCHANGED <<letters, second, readers>>

\* The first name that is free; a link never replaces a file.  The process may
\* die before its caller has heard the name.
Numbered(l, n) ==
  [field |-> l.field, from |-> l.from, to |-> l.to, topic |-> l.topic, body |-> l.body, key |-> l.key,
   reply |-> l.reply, thread |-> l.thread, extra |-> l.extra, second |-> l.second, at |-> l.at, n |-> n]
Taken(l, n) == \E k \in live : Name(k) = Name(Numbered(l, n))
LinkOver(l) == Numbered(l, 1)  \* mutant: os.replace instead of os.link
Linked(l) == Numbered(l, CHOOSE n \in 1..(written + 1) :
                             ~Taken(l, n) /\ \A m \in 1..(n - 1) : Taken(l, m))

Link(c) ==
  /\ posting[c] # NoOne
  /\ LET l == Linked(posting[c]) IN
     /\ live' = {k \in live : Name(k) # Name(l)} \cup {l}
     /\ \/ told' = told
        \/ l.key # NoOne /\ told' = told \cup {<<c, l.key, l>>}
  /\ posting' = [posting EXCEPT ![c] = NoOne]
  /\ UNCHANGED <<archived, second, written, readers, budget>>

\* The process dies; what it wrote is never seen.
Die(c) ==
  /\ posting[c] # NoOne
  /\ Spend("die")
  /\ posting' = [posting EXCEPT ![c] = NoOne]
  /\ UNCHANGED <<letters, second, written, readers, told>>

-----------------------------------------------------------------------------
(* archive *)

\* A letter is moved, never removed.  The move takes the place of a letter of the
\* same name: that is one of the same second, posted after the first had left.
Archive(l) ==
  /\ l \in live
  /\ Spend("archive")
  /\ live' = live \ {l}
  /\ archived' = {k \in archived : Name(k) # Name(l)} \cup {l}
  /\ UNCHANGED <<second, written, posting, readers, told>>

-----------------------------------------------------------------------------
(* list_all, feed *)

ByTime(S) == SetToSortSeq(S, LAMBDA k, l : k.at < l.at)
Oldest(S) == LET s == ByTime(S)  \* mutant: the order of the listing is not turned
             IN SubSeq(s, 1, IF Len(s) > FeedLimit THEN FeedLimit ELSE Len(s))
Newest(S) == LET s == ByTime(S)
             IN SubSeq(s, IF Len(s) > FeedLimit THEN Len(s) - FeedLimit + 1 ELSE 1, Len(s))

Addressed(l, c) == l.to \in {"all", c}

\* What c may see of a letter at all.
For(l, c) ==
  /\ l.second >= join[l.field][c]
  /\ l.field \in Directed => Addressed(l, c)
  /\ l.from # c

Feed(f, c) == SelectSeq(Newest(In(f)), LAMBDA l : For(l, c) /\ <<c, Name(l)>> \notin read)

\* mark_join: the first join stays, unless a new session begins.
Joined(f, c, reset) == IF reset \/ join[f][c] = -1 THEN second ELSE join[f][c]

JoinField(f, c) ==
  /\ Spend("cursor")
  /\ join' = [join EXCEPT ![f][c] = Joined(f, c, FALSE)]
  /\ UNCHANGED <<letters, second, written, posting, read, watching, shown, told>>

-----------------------------------------------------------------------------
(* watch *)

\* One look at the directory; then letter for letter is shown and, in a step of
\* its own, noted as read.
NotWatching == [left |-> <<>>, printed |-> FALSE]

Poll(f, c) ==
  /\ watching[c] = NotWatching
  /\ Feed(f, c) # <<>>
  /\ watching' = [watching EXCEPT ![c].left = Feed(f, c)]
  /\ UNCHANGED <<letters, second, written, posting, read, join, shown, told, budget>>

NoteRead(c, l) == read' = read \cup {<<c, Name(l)>>}
NoteFirst(c, l) == NoteRead(c, l) /\ shown' = shown  \* mutant: noted before it is shown
Show(c, l) == shown' = shown \cup {<<c, l>>} /\ read' = read

ShowNext(c) ==
  /\ watching[c].left # <<>>
  /\ ~watching[c].printed
  /\ Show(c, Head(watching[c].left))
  /\ watching' = [watching EXCEPT ![c].printed = TRUE]
  /\ UNCHANGED <<letters, second, written, posting, join, told, budget>>

MarkRead(c) ==
  /\ watching[c].printed
  /\ NoteRead(c, Head(watching[c].left))
  /\ watching' = [watching EXCEPT ![c] = [left |-> Tail(@.left), printed |-> FALSE]]
  /\ UNCHANGED <<letters, second, written, posting, join, shown, told, budget>>

\* The watcher is stopped, or dies.
StopWatching(c) ==
  /\ watching[c] # NotWatching
  /\ Spend("stop")
  /\ watching' = [watching EXCEPT ![c] = NotWatching]
  /\ UNCHANGED <<letters, second, written, posting, read, join, shown, told>>

Tick ==
  /\ Spend("tick")
  /\ second' = second + 1
  /\ UNCHANGED <<letters, written, posting, readers, told>>
-----------------------------------------------------------------------------
(* latest_goal *)

\* The newest letter under the topic "goal", by stamp and then by the time of
\* writing.  Joins and read marks do not matter.
Goals == {l \in In("agora") : l.topic = "goal"}
NewerGoal(k, l) == k.second > l.second \/ (k.second = l.second /\ k.at >= l.at)
GoalOfSecond == IF Goals = {} THEN NoOne  \* mutant: within a second, any
                ELSE CHOOSE k \in Goals : \A l \in Goals : k.second >= l.second
Goal == IF Goals = {} THEN NoOne
        ELSE CHOOSE k \in Goals : \A l \in Goals : NewerGoal(k, l)

-----------------------------------------------------------------------------
FieldInit ==
  /\ live = {}
  /\ archived = {}
  /\ second = 0
  /\ written = 0
  /\ posting = [p \in Poster |-> NoOne]
  /\ read = {}
  /\ join = [f \in Fields |-> [c \in Cell |-> -1]]
  /\ watching = [c \in Cell |-> NotWatching]
  /\ shown = {}
  /\ told = {}

FieldTypeOK ==
  /\ \A l \in live \cup archived : l.field \in Fields /\ l.from \in Poster /\ l.body \in Body
  /\ second \in Nat
  /\ written \in Nat
  /\ join \in [Fields -> [Cell -> Nat \cup {-1}]]
  /\ \A c \in Cell : watching[c].printed \in BOOLEAN

-----------------------------------------------------------------------------
(* Properties *)

\* No letter changes or is lost, whoever posts and tidies up at the same time.  What
\* is replaced in the archive has a namesake: of the same second, moved there later.
Gone(l) == l \in live \cup archived /\ l \notin live' \cup archived'
LettersStand ==
  [][\A l \in live \cup archived : Gone(l) =>
        /\ l \in archived
        /\ \E k \in live \ live' : k \in archived' /\ Name(k) = Name(l)]_letters

\* A letter is noted as read only if one of its name was shown, even if the watcher
\* dies between the two: a letter may be shown twice and is never skipped.
ReadWasShown == \A r \in read : \E s \in shown : s[1] = r[1] /\ Name(s[2]) = r[2]

\* Whoever repeats a call because it heard no answer is told of the letter it has
\* posted already, unless that was archived in between.
OneAnswerPerKey ==
  \A t, u \in told : t[1] = u[1] /\ t[2] = u[2] /\ t[3].field = u[3].field =>
    t = u \/ t[3] \notin live \/ u[3] \notin live

\* The goal that cells read does not go back, though letters are linked in another
\* order than that of their stamps; only an archived goal gives way to an older one.
GoalNeverGoesBack ==
  [][LET g == Goal IN Goals # {} /\ g \in live' => Goals' # {} /\ NewerGoal(Goal', g)]_live

\* What a watcher owes its cell: a letter that is there, is for it and is not noted
\* as read is shown, unless the newest letters alone are looked at and push it out.
Owed(c, l) == l \in live /\ For(l, c) /\ <<c, Name(l)>> \notin read /\ <<c, l>> \notin shown
PushedOut(l) == Cardinality({k \in In(l.field) : k.at > l.at}) >= FeedLimit
EveryLetterIsShown(Watcher) ==
  \A c \in Watcher : (\E l \in live : Owed(c, l)) ~> (\A l \in live : Owed(c, l) => PushedOut(l))
=============================================================================
