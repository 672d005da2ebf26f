------------------------------ MODULE Sessions -------------------------------
(***************************************************************************)
(* The sessions of the cells of a workspace (session.py), the presence     *)
(* they declare (roster.py), and the commands that begin and end them      *)
(* (cli.py: cmd_join, cmd_session).  A session is a file in the soma of    *)
(* its cell.  "One cell, one open session" is kept by looking before       *)
(* writing; a note and an end read the file, change it and write it back.  *)
(* Nothing is locked, so two processes of one cell may overtake each other *)
(* and each process may die at any step.                                   *)
(***************************************************************************)
EXTENDS Field

CONSTANTS
  Process,
  CellOf,    \* CellOf[p]: the cell for which p runs
  Role,
  Legacy     \* cells with an open session in a soma of the old form

ASSUME SessionAssumption ==
  /\ CellOf \in [Process -> Cell]
  /\ Legacy \subseteq Cell
  /\ IsFiniteSet(Legacy)
  /\ "worker" \in Role

\* What a presence declares.
Declared == [brain : {"model", NoOne}, since : Nat]
ASSUME NobodyDeclared == NoOne \notin Declared

VARIABLES
  files,     \* files[<<soma, sid>>]: the session files
  at,        \* at[p]: where a command of process p stands
  presence,  \* presence[c]: what the presence file of c declares, or NoOne
  raced,     \* cells of which two processes ever were under way at the same time
  torn       \* cells of which a process died under way

sessionVars == <<files, at, presence, raced, torn>>

\* A soma: the cell's own, or the one that it had under the old naming.
Own(c) == <<c, "own">>
Old(c) == <<c, "legacy">>

Idle == [pc |-> "idle"]
OpenIn(soma) == {i \in DOMAIN files : i[1] = soma /\ files[i].open}
OpenOf(c) == OpenIn(Own(c)) \cup OpenIn(Old(c))

Go(p, s) == at' = [at EXCEPT ![p] = s]

\* cmd_join goes on with what it found.
GoOn(p, pc) == Go(p, [pc |-> pc, started |-> at[p].started, address |-> at[p].address])

\* Who is under way together with p, for the same cell.
Others(p) == {q \in Process \ {p} : CellOf[q] = CellOf[p] /\ at[q] # Idle}
Begins(p) == raced' = IF Others(p) = {} THEN raced ELSE raced \cup {CellOf[p]}

-----------------------------------------------------------------------------
(* _site_session_gate *)

Continues(c, role) ==
  /\ Cardinality(OpenOf(c)) = 1
  /\ OpenOf(c) = OpenIn(Own(c))
  /\ \A i \in OpenOf(c) : files[i].role = role

RefusedIfSeveral(c, role) == Cardinality(OpenOf(c)) > 1  \* mutant
Refused(c, role) == OpenOf(c) # {} /\ ~Continues(c, role)

\* join and session start: refused, or continued, or a new session begins.  A refusal
\* changes nothing.
Gate(p, cmd, role, address) ==
  /\ at[p] = Idle
  /\ ~Refused(CellOf[p], role)
  /\ Spend(cmd)
  /\ Begins(p)
  /\ Go(p, IF Continues(CellOf[p], role)
           THEN IF cmd = "join" THEN [pc |-> "cursor", started |-> FALSE, address |-> address]
                ELSE Idle
           ELSE [pc |-> "start", cmd |-> cmd, role |-> role, address |-> address])
  /\ UNCHANGED <<fieldVars, files, presence, torn>>

-----------------------------------------------------------------------------
(* start *)

\* The name is the second and, if the file is there, a number.
FirstSid(soma) == <<second, 1>>  \* mutant: the name is not looked for
FreeSid(soma) == CHOOSE s \in {<<second, n>> : n \in 1..(Cardinality(DOMAIN files) + 1)} :
                   /\ <<soma, s>> \notin DOMAIN files
                   /\ \A n \in 1..(s[2] - 1) : <<soma, <<second, n>>>> \in DOMAIN files

\* The soma is asked once more for an open session; the command stops if there is one.
ChooseSid(p) ==
  /\ at[p].pc = "start"
  /\ LET soma == Own(CellOf[p]) IN
     Go(p, IF OpenIn(soma) # {} THEN Idle
           ELSE [pc |-> "write", cmd |-> at[p].cmd, role |-> at[p].role,
                 address |-> at[p].address, sid |-> FreeSid(soma)])
  /\ UNCHANGED <<fieldVars, files, presence, raced, torn, budget>>

Put(f, i, rec) == [k \in DOMAIN f \cup {i} |-> IF k = i THEN rec ELSE f[k]]

WriteSession(p) ==
  /\ at[p].pc = "write"
  /\ files' = Put(files, <<Own(CellOf[p]), at[p].sid>>,
                  [role |-> at[p].role, open |-> TRUE, last |-> at[p].sid[1], via |-> at[p].cmd])
  /\ Go(p, IF at[p].cmd = "join"
           THEN [pc |-> "cursor", started |-> TRUE, address |-> at[p].address] ELSE Idle)
  /\ UNCHANGED <<fieldVars, presence, raced, torn, budget>>

-----------------------------------------------------------------------------
(* cmd_join after the session: cursors, then presence *)

\* A new session reads from now on; a continued one keeps its place.
KeepCursor(started) == FALSE  \* mutant: the cursor of an earlier session is inherited
Reset(started) == started

SetCursor(p) ==
  /\ at[p].pc = "cursor"
  /\ join' = [f \in Fields |->
                IF f \notin {"relay", "agora"} THEN join[f]
                ELSE [join[f] EXCEPT ![CellOf[p]] = Joined(f, CellOf[p], Reset(at[p].started))]]
  /\ GoOn(p, IF at[p].started THEN "forget" ELSE "declare")
  /\ UNCHANGED <<letters, second, written, posting, read, watching, shown, told,
                 files, presence, raced, torn, budget>>

\* reset_presence: what an earlier session declared does not speak for a new one.
ForgetNothing(p) ==  \* mutant
  /\ at[p].pc = "forget"
  /\ GoOn(p, "declare")
  /\ UNCHANGED <<fieldVars, files, presence, raced, torn, budget>>
Forget(p) ==
  /\ at[p].pc = "forget"
  /\ presence' = [presence EXCEPT ![CellOf[p]] = NoOne]
  /\ GoOn(p, "declare")
  /\ UNCHANGED <<fieldVars, files, raced, torn, budget>>

\* write_presence: the file is read, changed and put back.  A command that says
\* nothing of the brain keeps what is there; since tells when it was declared.
ReadPresence(p, brain) ==
  /\ \/ at[p].pc = "declare" /\ brain = NoOne /\ UNCHANGED <<budget, raced>>
     \/ at[p] = Idle /\ Spend("me") /\ Begins(p)
  /\ Go(p, [pc |-> "present",
            started |-> at[p] # Idle /\ at[p].started,
            address |-> IF at[p] = Idle THEN NoOne ELSE at[p].address,
            entry |-> IF brain # NoOne THEN [brain |-> brain, since |-> second]
                      ELSE IF presence[CellOf[p]] # NoOne THEN presence[CellOf[p]]
                      ELSE [brain |-> NoOne, since |-> second]])
  /\ UNCHANGED <<fieldVars, files, presence, torn>>

WritePresence(p) ==
  /\ at[p].pc = "present"
  /\ presence' = [presence EXCEPT ![CellOf[p]] = at[p].entry]
  /\ IF at[p].address = NoOne THEN Go(p, Idle) ELSE GoOn(p, "register")
  /\ UNCHANGED <<fieldVars, files, raced, torn, budget>>

-----------------------------------------------------------------------------
(* note, end *)

\* The first open session of the own soma, as it is now.
FirstOpen(soma) == CHOOSE i \in OpenIn(soma) :
  \A k \in OpenIn(soma) : i[2][1] < k[2][1] \/ (i[2][1] = k[2][1] /\ i[2][2] <= k[2][2])

Load(p, cmd) ==
  /\ at[p] = Idle
  /\ OpenIn(Own(CellOf[p])) # {}
  /\ Spend(cmd)
  /\ Begins(p)
  /\ LET i == FirstOpen(Own(CellOf[p])) IN Go(p, [pc |-> cmd, id |-> i, rec |-> files[i]])
  /\ UNCHANGED <<fieldVars, files, presence, torn>>

Noted(rec) == [rec EXCEPT !.last = second]
Ended(rec) == [rec EXCEPT !.open = FALSE]

Save(p) ==
  /\ at[p].pc \in {"note", "end"}
  /\ files' = Put(files, at[p].id, IF at[p].pc = "note" THEN Noted(at[p].rec) ELSE Ended(at[p].rec))
  /\ Go(p, Idle)
  /\ UNCHANGED <<fieldVars, presence, raced, torn, budget>>

ProcessDies(p) ==
  /\ at[p] # Idle
  /\ Spend("crash")
  /\ torn' = torn \cup {CellOf[p]}
  /\ Go(p, Idle)
  /\ UNCHANGED <<fieldVars, files, presence, raced>>

-----------------------------------------------------------------------------
SessionInit ==
  /\ files = [i \in {<<Old(c), <<0, 1>>>> : c \in Legacy} |->
                [role |-> "worker", open |-> TRUE, last |-> 0, via |-> "start"]]
  /\ at = [p \in Process |-> Idle]
  /\ presence = [c \in Cell |-> NoOne]
  /\ raced = {}
  /\ torn = {}

SessionTypeOK ==
  /\ \A i \in DOMAIN files : files[i].role \in Role /\ files[i].open \in BOOLEAN
  /\ presence \in [Cell -> Declared \cup {NoOne}]
  /\ raced \subseteq Cell
  /\ torn \subseteq Cell

-----------------------------------------------------------------------------
(* Properties.  They are claimed for cells whose commands do not overlap:   *)
(* session.py locks nothing, and a note that overtakes an end opens the     *)
(* session again.                                                           *)

\* A cell has one open session, wherever it lies, and whoever died on the way.
OneOpenSession == \A c \in Cell \ raced : Cardinality(OpenOf(c)) <= 1

\* A session that was ended is a record: it is not written again, not even by a
\* session that begins in the same second.
EndedStaysEnded ==
  [][\A i \in DOMAIN files :
        ~files[i].open /\ i[1][1] \notin raced' => i \in DOMAIN files' /\ files'[i] = files[i]]_files

\* Of a cell whose join is through: it reads what came after its session began, and
\* what its presence says was declared in this session, not in an earlier one.
Through(c) == c \notin raced \cup torn /\ \A p \in Process : CellOf[p] = c => at[p] = Idle
JoinedSessions(c) == {i \in OpenOf(c) : files[i].via = "join"}

CursorOfSession ==
  \A c \in Cell : Through(c) => \A i \in JoinedSessions(c), f \in {"relay", "agora"} :
    join[f][c] >= i[2][1]

PresenceOfSession ==
  \A c \in Cell : Through(c) => \A i \in JoinedSessions(c) :
    presence[c] # NoOne /\ presence[c].since >= i[2][1]

\* What a session is, for a cell whose commands come one after the other: there is one,
\* and what is read and declared in it is its own.
SessionsHold == OneOpenSession /\ CursorOfSession /\ PresenceOfSession
=============================================================================
