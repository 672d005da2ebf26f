------------------------------ MODULE Workspace ------------------------------
(***************************************************************************)
(* A workspace at work: letters, alarms, sessions, roster and the hub of   *)
(* the machine together, as the commands of cli.py drive them.  Cells are  *)
(* programs that call these commands; a person posts, sounds alarms and    *)
(* puts letters away.                                                      *)
(***************************************************************************)
EXTENDS MachineHub

CONSTANTS
  Window,    \* field_secs: how long a cell counts as engaged
  Menu,      \* what is posted: [field, from, to, topic, body, key]
  Joins,     \* what cells join as: [role, address]
  Watcher    \* the cells that watch

ASSUME WorkspaceAssumption ==
  /\ Window \in Nat
  /\ Watcher \subseteq Cell
  /\ \A m \in Menu : m.from \in Poster /\ m.body \in Body
  /\ \A j \in Joins : j.role \in Role

VARIABLE sounded  \* <<n, roles>>: the n-th letter is an alarm of a cell whose open sessions had these roles

workspaceVars == <<fieldVars, sessionVars, hubVars, sounded, budget>>

-----------------------------------------------------------------------------
(* alarm *)

\* A person, or a cell whose open session has the role chief, sounds an alarm.
AnySession(p) == p = NoOne \/ OpenIn(Own(p)) # {}  \* mutant: any open session will do
CanSound(p) == \/ p = NoOne
               \/ OpenIn(Own(p)) # {} /\ files[FirstOpen(Own(p))].role = "chief"

Sound(p, to, body) ==
  /\ CanSound(p)
  /\ Post(Draft("alarm", p, to, "pause", body, NoOne, NoOne, NoOne))
  /\ sounded' = sounded \cup {<<written, IF p = NoOne THEN {} ELSE
                                        {files[i].role : i \in OpenIn(Own(p))}>>}
  /\ UNCHANGED <<sessionVars, hubVars>>

\* active: the alarms that are there, for a cell those that are for it.
Active(c) == {l \in In("alarm") : Addressed(l, c)}

-----------------------------------------------------------------------------
(* roster: field_activity, merge, _coord_state *)

\* What counts as taking part: letters under the own id, and what an open session
\* noted.  A heartbeat does not.
Beats(c) == IF presence[c] = NoOne THEN {} ELSE {second}
ActsAndBeats(c) ==  \* mutant: a presence that is kept alive counts too
  {l.second : l \in {k \in In("relay") \cup In("agora") : k.from = c}}
    \cup {files[i].last : i \in OpenOf(c)} \cup Beats(c)
Acts(c) == {l.second : l \in {k \in In("relay") \cup In("agora") : k.from = c}}
             \cup {files[i].last : i \in OpenOf(c)}
FieldLive(c) == \E t \in Acts(c) : second - t <= Window

\* Two lenses: what is seen of the cell's transcript (observed, moving), and of its
\* part in the work.  Without a declaration nothing is claimed of a role.
CoordState(c, observed, moving) ==
  IF presence[c] = NoOne THEN IF observed THEN "unattributed" ELSE "absent"
  ELSE IF FieldLive(c) THEN "engaged"
  ELSE IF ~observed THEN "declared-unobserved"
  ELSE IF moving THEN "heads-down" ELSE "idle"

-----------------------------------------------------------------------------
Init ==
  /\ FieldInit
  /\ SessionInit
  /\ HubInit
  /\ sounded = {}
  /\ BudgetInit

\* relay send and agora post; a reply is to a letter that is there.
Letters ==
  \E m \in Menu :
    \/ /\ m.field = "relay"
       /\ \E reply \in {NoOne} \cup {Name(l) : l \in In("relay")} :
            Post(Draft("relay", m.from, m.to, m.topic, m.body, m.key, reply, NoOne))
    \/ /\ m.field = "agora"
       /\ Post(Draft("agora", m.from, m.to, m.topic, m.body, m.key, NoOne, NoOne))

Reading ==
  \E c \in Watcher :
    \/ \E f \in Watched : Poll(f, c)
    \/ ShowNext(c) \/ MarkRead(c) \/ StopWatching(c)

FieldStep ==
  \/ Letters
  \/ \E p \in Poster : Link(p) \/ Die(p)
  \/ \E f \in Watched, c \in Cell : JoinField(f, c)
  \/ Reading
  \/ \E l \in live : Archive(l)
  \/ Tick

SessionStep ==
  \E p \in Process :
    \/ \E j \in Joins : Gate(p, "join", j.role, j.address)
    \/ \E role \in Role : Gate(p, "start", role, NoOne)
    \/ ChooseSid(p) \/ WriteSession(p) \/ SetCursor(p) \/ Forget(p)
    \/ \E brain \in {"model", NoOne} : ReadPresence(p, brain)
    \/ WritePresence(p)
    \/ Load(p, "note") \/ Load(p, "end") \/ Save(p)
    \/ ProcessDies(p)

HubStep ==
  \/ \E p \in Process : ReadRegistry(p) \/ WriteRegistry(p) \/ JoinHub(p)
  \/ \E c \in Cell : Leave(c) \/ ReadPage(c) \/ \E l \in live : HubRead(c, l)
  \/ \E m \in Menu : m.field = "hub" /\ HubSend(m.from, m.to, m.body, m.key)

Next ==
  \/ FieldStep /\ UNCHANGED <<sessionVars, hubVars, sounded>>
  \/ SessionStep /\ UNCHANGED <<hubVars, sounded>>
  \/ HubStep /\ UNCHANGED sounded
  \/ \E m \in Menu : m.field = "alarm" /\ Sound(m.from, m.to, m.body)

Spec == Init /\ [][Next]_workspaceVars

\* Watchers are started again and again, and end each look that they began.
FairSpec ==
  /\ Spec
  /\ \A c \in Watcher :
       /\ \A f \in Watched : WF_workspaceVars(Poll(f, c) /\ UNCHANGED <<sessionVars, hubVars, sounded>>)
       /\ WF_workspaceVars(ShowNext(c) /\ UNCHANGED <<sessionVars, hubVars, sounded>>)
       /\ WF_workspaceVars(MarkRead(c) /\ UNCHANGED <<sessionVars, hubVars, sounded>>)

-----------------------------------------------------------------------------
(* Properties *)

\* What the watchers of the workspace owe their cells is shown (Field).
WatchersShowAll == EveryLetterIsShown(Watcher)

\* Every alarm that can be seen is a person's, or that of a cell which had an open
\* session as chief when it sounded it; cells obey an alarm, whoever sent it.
AlarmsAreOfChiefs ==
  \A l \in In("alarm") : l.from # NoOne =>
    \E s \in sounded : s[1] = l.at /\ "chief" \in s[2]

\* Who is said to be engaged has posted or has noted something lately; a presence that
\* is merely there says nothing.  Who has declared nothing is not given a state.
RosterSaysWhatIsSeen ==
  \A c \in Cell, observed, moving \in BOOLEAN :
    LET s == CoordState(c, observed, moving) IN
    /\ s = "engaged" => \/ \E l \in live : l.from = c /\ second - l.second <= Window
                        \/ \E i \in DOMAIN files : i[1][1] = c /\ second - files[i].last <= Window
    /\ presence[c] = NoOne => s \in {"unattributed", "absent"}

\* What is written stands: letters, the goal, and sessions that have ended.
WhatIsWrittenStands == LettersStand /\ GoalNeverGoesBack /\ EndedStaysEnded

\* Whoever dies between two steps, or asks again: no letter is skipped by the note that
\* it was read, and none is posted twice under one key.
NoneSkippedNoneTwice == ReadWasShown /\ OneAnswerPerKey

\* What others are told of a cell has its ground in what the cell did: the right to stop
\* them all, and that it is at work.
ClaimsHaveGround == AlarmsAreOfChiefs /\ RosterSaysWhatIsSeen
=============================================================================
