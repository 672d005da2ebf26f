------------------------------ MODULE StateDir -------------------------------
(***************************************************************************)
(* What a workspace keeps (state.py, memory.py, guard.py, reflect.py,      *)
(* migrate.py and their commands in cli.py): memories and events that are  *)
(* only appended, the self file that is read, changed and written back,    *)
(* the notice about a streak of refusals, and the commands that change the *)
(* directory as a whole: backup, migrate and restore.  Commands run at the *)
(* same time without a lock, and die at any step.                          *)
(*                                                                         *)
(* The directory is a record of its parts: the formats of meta.json and of *)
(* the other versioned files (map), the steps of migration that the data   *)
(* went through, the self file, the kinds of the events and the memories,  *)
(* both in the order of insertion.                                         *)
(***************************************************************************)
EXTENDS Budget, Integers, FiniteSets, SequencesExt

CONSTANTS
  Command,       \* commands that run at the same time
  Item,          \* what a cell carries forward in its self file
  StreakN,       \* STREAK_N: refusals in a row that are noticed
  SectionLimit,  \* SECTION_LIMIT
  OldFormat,     \* the format of the directory
  NewFormat      \* FORMAT_VERSION

ASSUME StateDirAssumption ==
  /\ StreakN \in Nat \ {0}
  /\ SectionLimit \in Nat
  /\ OldFormat \in Nat /\ NewFormat \in Nat /\ OldFormat <= NewFormat

VARIABLES
  dir,       \* the directory: [meta, map, data, self, events, stored], NoDir or Broken
  archives,  \* archives[t]: the archive made in second t: a directory, or a part of one
  aside,     \* aside[t]: the directory that a restore begun in second t moved out of the way
  staged,    \* staged[t]: what restores begun in second t have extracted beside the directory
  clock,     \* the second
  cmd,       \* cmd[w]: where command w stands
  met,       \* TRUE: two commands were under way together, or one died
  crossed,   \* TRUE: a restore took a directory away from a migration that was under way, or
             \* extracted where another one of its second had files
  had,       \* what migrate and restore found before they changed it
  carried    \* items of which a reflection said that they are kept, and not resolved since

treeVars == <<archives, aside, staged>>
stateVars == <<dir, treeVars, clock, cmd, met, crossed, had, carried>>

NoDir == [meta |-> -1]
Broken == [meta |-> -2]  \* files of it are missing; nothing but restore goes on with it
There == dir \notin {NoDir, Broken}
AtRest == [pc |-> "rest"]
Step(w, s) == cmd' = [cmd EXCEPT ![w] = s]
Starts(w) == /\ cmd[w] = AtRest
             /\ met' = (met \/ \E v \in Command : cmd[v] # AtRest)

Logged(d, kinds) == [d EXCEPT !.events = @ \o kinds]

\* _writable_meta: nothing is written into a directory of another format.
Writable == There /\ dir.meta = NewFormat

-----------------------------------------------------------------------------
(* guard: the streak of refusals *)

Resets == {"remember", "reflect", "guard_flagged"}

\* The events after the last success.
SinceSuccess(s) ==
  LET S == {i \in DOMAIN s : s[i] \in Resets}
  IN SubSeq(s, IF S = {} THEN 1 ELSE 1 + CHOOSE i \in S : \A j \in S : j <= i, Len(s))
Count(s, kind) == Cardinality({i \in DOMAIN s : s[i] = kind})
StreakCount == Count(SinceSuccess(dir.events), "guard_block")
NotifiedEver == Count(dir.events, "guard_streak") > 0  \* mutant: looks past the last success
AlreadyNotified == Count(SinceSuccess(dir.events), "guard_streak") > 0

\* remember, and a reflection with an item that the guard refuses: the refusal is an
\* event; whether it is the one that makes a streak is looked up in a step of its own.
Refuse(w) ==
  /\ Starts(w)
  /\ Writable
  /\ Spend("refuse")
  /\ dir' = Logged(dir, <<"guard_block">>)
  /\ Step(w, [pc |-> "mark"])
  /\ UNCHANGED <<treeVars, clock, crossed, had, carried>>

Mark(w) ==
  /\ cmd[w].pc = "mark"
  /\ There
  /\ Step(w, IF StreakCount >= StreakN /\ ~AlreadyNotified THEN [pc |-> "notify"] ELSE AtRest)
  /\ UNCHANGED <<dir, treeVars, clock, met, crossed, had, carried, budget>>

Notify(w) ==
  /\ cmd[w].pc = "notify"
  /\ There
  /\ dir' = Logged(dir, <<"guard_streak">>)
  /\ Step(w, AtRest)
  /\ UNCHANGED <<treeVars, clock, met, crossed, had, carried, budget>>

-----------------------------------------------------------------------------
(* remember *)

\* A memory that the guard only flags is stored, and its flag is an event before it.
Remember(w, flagged) ==
  /\ Starts(w)
  /\ Writable
  /\ Spend("remember")
  /\ dir' = [Logged(dir, IF flagged THEN <<"guard_flagged">> ELSE <<>>)
               EXCEPT !.stored = Append(@, flagged)]
  /\ Step(w, [pc |-> "remembered"])
  /\ UNCHANGED <<treeVars, clock, crossed, had, carried>>

LogIt(w, pc, kind) ==
  /\ cmd[w].pc = pc
  /\ There
  /\ dir' = Logged(dir, <<kind>>)
  /\ Step(w, AtRest)
  /\ UNCHANGED <<treeVars, clock, met, crossed, had, carried, budget>>

-----------------------------------------------------------------------------
(* reflect *)

\* The self file is read; everything that can be refused is refused before it is
\* written: a question to resolve that is not there, a section that would be too long.
OnlyAdded(self, add, resolve) == add  \* mutant: what was there is not carried on
Reflected(self, add, resolve) == (self \ resolve) \cup add

Reflect(w, add, resolve) ==
  /\ Starts(w)
  /\ Writable
  /\ resolve \subseteq dir.self
  /\ Cardinality(Reflected(dir.self, add, resolve)) <= SectionLimit
  /\ Spend("reflect")
  /\ Step(w, [pc |-> "writeself", add |-> add, resolve |-> resolve,
              self |-> Reflected(dir.self, add, resolve)])
  /\ UNCHANGED <<dir, treeVars, clock, crossed, had, carried>>

WriteSelf(w) ==
  /\ cmd[w].pc = "writeself"
  /\ There
  /\ dir' = [dir EXCEPT !.self = cmd[w].self]
  /\ carried' = (carried \ cmd[w].resolve) \cup cmd[w].add
  /\ Step(w, [pc |-> "reflected"])
  /\ UNCHANGED <<treeVars, clock, met, crossed, had, budget>>

-----------------------------------------------------------------------------
(* backup *)

Full(d) == [dir |-> d, whole |-> TRUE]
Part(d) == [dir |-> d, whole |-> FALSE]
Keep(f, t, a) == [k \in DOMAIN f \cup {t} |-> IF k = t THEN a ELSE f[k]]

\* An archive is named by the second, and never written over; the process may die
\* while it writes.
Overwrites == TRUE  \* mutant: "w:gz"
NameFree == clock \notin DOMAIN archives

Backup(w, next) ==
  /\ There
  /\ NameFree
  /\ \/ archives' = Keep(archives, clock, Full(dir)) /\ Step(w, next)
     \/ Left("crash") > 0 /\ archives' = Keep(archives, clock, Part(dir)) /\ Step(w, AtRest)

BackupCommand(w) ==
  /\ Starts(w)
  /\ Spend("backup")
  /\ Backup(w, [pc |-> "backedup"])
  /\ UNCHANGED <<dir, aside, staged, clock, crossed, had, carried>>

-----------------------------------------------------------------------------
(* migrate *)

\* The backup first; then the steps from one format to the next; then the versions,
\* file by file; then the event.
ConvertFirst(w) == Step(w, [pc |-> "convert", v |-> dir.meta]) /\ UNCHANGED archives  \* mutant
BackupFirst(w) == Backup(w, [pc |-> "convert", v |-> dir.meta])

Migrate(w) ==
  /\ Starts(w)
  /\ There /\ dir.meta < NewFormat
  /\ Spend("migrate")
  /\ BackupFirst(w)
  /\ had' = IF cmd'[w] = AtRest THEN had ELSE had \cup {dir}
  /\ UNCHANGED <<dir, aside, staged, clock, crossed, carried>>

BumpedEarly(w) == [dir EXCEPT !.data = Append(@, cmd[w].v), !.meta = NewFormat]  \* mutant
Converted(w) == [dir EXCEPT !.data = Append(@, cmd[w].v)]

Convert(w) ==
  /\ cmd[w].pc = "convert"
  /\ There
  /\ IF cmd[w].v < NewFormat
     THEN /\ dir' = Converted(w)
          /\ Step(w, [pc |-> "convert", v |-> cmd[w].v + 1])
     ELSE /\ dir' = [dir EXCEPT !.meta = NewFormat]
          /\ Step(w, [pc |-> "bumpmap"])
  /\ UNCHANGED <<treeVars, clock, met, crossed, had, carried, budget>>

BumpMap(w) ==
  /\ cmd[w].pc = "bumpmap"
  /\ There
  /\ dir' = [dir EXCEPT !.map = NewFormat]
  /\ Step(w, [pc |-> "migrated"])
  /\ UNCHANGED <<treeVars, clock, met, crossed, had, carried, budget>>

-----------------------------------------------------------------------------
(* restore *)

\* The archive is extracted beside the directory, into a place that is named by the second
\* in which the command was begun; restores of one second share it.  First come the data and
\* the map, then the versions and the self file, in the order of the archive; each of the two is
\* here the archived directory that it is from.  A part of an archive fails on the way.
Nothing == [data |-> NoDir, head |-> NoDir]
Staged(t) == IF t \in DOMAIN staged THEN staged[t] ELSE Nothing

Extract(w, t) ==
  /\ Starts(w)
  /\ t \in DOMAIN archives
  /\ archives[t].dir.meta <= NewFormat
  /\ Spend("restore")
  /\ staged' = Keep(staged, clock, [Staged(clock) EXCEPT !.data = archives[t].dir])
  /\ crossed' = (crossed \/ Staged(clock) # Nothing)
  /\ Step(w, IF archives[t].whole
               THEN [pc |-> "unpack", at |-> clock, from |-> archives[t].dir]
               ELSE AtRest)
  /\ UNCHANGED <<dir, archives, aside, clock, had, carried>>

Unpack(w) ==
  /\ cmd[w].pc = "unpack"
  /\ staged' = Keep(staged, cmd[w].at, [Staged(cmd[w].at) EXCEPT !.head = cmd[w].from])
  /\ Step(w, [pc |-> "aside", at |-> cmd[w].at])
  /\ UNCHANGED <<dir, archives, aside, clock, met, crossed, had, carried, budget>>

\* The directory is moved aside, under a name of the same second.  If that is taken by another
\* restore, the command ends.
DropOld(t) == aside  \* mutant: the old directory is removed
KeepOld(t) == Keep(aside, t, dir)

MoveAside(w) ==
  /\ cmd[w].pc = "aside"
  /\ IF dir # NoDir /\ cmd[w].at \in DOMAIN aside
     THEN Step(w, AtRest) /\ UNCHANGED <<dir, aside, had, crossed>>
     ELSE /\ aside' = IF dir = NoDir THEN aside ELSE KeepOld(cmd[w].at)
          /\ had' = IF dir = NoDir THEN had ELSE had \cup {dir}
          /\ crossed' = (crossed \/ \E v \in Command : cmd[v].pc \in {"convert", "bumpmap"})
          /\ dir' = NoDir
          /\ Step(w, [pc |-> "place", at |-> cmd[w].at])
  /\ UNCHANGED <<archives, staged, clock, met, carried, budget>>

Assembled(s) ==
  IF NoDir \in {s.data, s.head} THEN Broken
  ELSE [s.data EXCEPT !.meta = s.head.meta, !.self = s.head.self]

\* What was extracted takes its place.  The rename fails if there is a directory again, or
\* if another restore of the same second has taken what was extracted.
PutInPlace(w) ==
  LET found == Staged(cmd[w].at)
      new == Assembled(found)
  IN
  /\ cmd[w].pc = "place"
  /\ IF dir = NoDir /\ found # Nothing
     THEN /\ dir' = new
          /\ staged' = Keep(staged, cmd[w].at, Nothing)
          /\ carried' = IF new = Broken THEN {} ELSE new.self
          /\ Step(w, [pc |-> "restored"])
     ELSE Step(w, AtRest) /\ UNCHANGED <<dir, staged, carried>>
  /\ UNCHANGED <<archives, aside, clock, met, crossed, had, budget>>

\* A crash, or the directory that the command writes into is gone.
CommandDies(w) ==
  /\ cmd[w] # AtRest
  /\ \/ Spend("crash")
     \/ ~There /\ cmd[w].pc \notin {"unpack", "aside", "place"} /\ UNCHANGED budget
  /\ met' = TRUE
  /\ Step(w, AtRest)
  /\ UNCHANGED <<dir, treeVars, clock, crossed, had, carried>>

NextSecond ==
  /\ Spend("second")
  /\ clock' = clock + 1
  /\ UNCHANGED <<dir, treeVars, cmd, met, crossed, had, carried>>

-----------------------------------------------------------------------------
StateInit ==
  /\ \E v \in {OldFormat, NewFormat} :
       dir = [meta |-> v, map |-> v, data |-> [i \in 1..(v - OldFormat) |-> OldFormat + i - 1],
              self |-> {}, events |-> <<>>, stored |-> <<>>]
  /\ archives = [t \in {} |-> 0]
  /\ aside = [t \in {} |-> 0]
  /\ staged = [t \in {} |-> 0]
  /\ clock = 0
  /\ cmd = [w \in Command |-> AtRest]
  /\ met = FALSE
  /\ crossed = FALSE
  /\ had = {}
  /\ carried = {}

StateNext ==
  \/ \E w \in Command :
       \/ Refuse(w) \/ Mark(w) \/ Notify(w)
       \/ \E flagged \in BOOLEAN : Remember(w, flagged)
       \/ \E add \in {{i} : i \in Item}, resolve \in SUBSET Item :
            Cardinality(resolve) <= 1 /\ Reflect(w, add, resolve)
       \/ WriteSelf(w)
       \/ LogIt(w, "remembered", "remember") \/ LogIt(w, "reflected", "reflect")
       \/ LogIt(w, "backedup", "backup") \/ LogIt(w, "migrated", "migrate")
       \/ LogIt(w, "restored", "restore")
       \/ BackupCommand(w)
       \/ Migrate(w) \/ Convert(w) \/ BumpMap(w)
       \/ \E t \in DOMAIN archives : Extract(w, t)
       \/ Unpack(w) \/ MoveAside(w) \/ PutInPlace(w)
       \/ CommandDies(w)
  \/ NextSecond

StateSpec == StateInit /\ BudgetInit /\ [][StateNext]_<<stateVars, budget>>

StateDirTypeOK ==
  /\ There => dir.self \subseteq Item /\ dir.meta \in OldFormat..NewFormat
  /\ clock \in Nat
  /\ {met, crossed} \subseteq BOOLEAN
  /\ carried \subseteq Item

-----------------------------------------------------------------------------
(* Properties *)

Quiet == ~met /\ There /\ \A w \in Command : cmd[w] = AtRest

\* Among commands that come one after the other: a streak of refusals is told exactly
\* once, and a notice never outlives the success that ended its streak.
NoticesMatchStreaks ==
  Quiet => LET s == SinceSuccess(dir.events) IN
           /\ (Count(s, "guard_streak") > 0) = (Count(s, "guard_block") >= StreakN)
           /\ Count(s, "guard_streak") <= 1

\* What a reflection was told to keep stays in the self file until it is resolved.
CarriedStays == Quiet => carried \subseteq dir.self

\* A directory of the new format has been through every step, also when a migration
\* died on the way and was begun again, if no restore was in the way of a migration or of
\* another restore: nobody may take the directory away from a migration that is under way, and
\* of two restores of one second the versions may be of one and the data of the other.
FormatMeansConverted ==
  There /\ dir.meta = NewFormat /\ ~crossed => OldFormat..(NewFormat - 1) \subseteq ToSet(dir.data)

\* What migrate and restore replaced exists as a whole: in an archive that nobody
\* writes over, or aside.
NothingIsLost ==
  \A d \in had : \/ \E t \in DOMAIN aside : aside[t] = d
                \/ \E t \in DOMAIN archives : archives[t] = Full(d)

\* Of commands that come one after the other: notices and the self file are as they say.
InTurnHolds == NoticesMatchStreaks /\ CarriedStays

\* Of commands at the same time that die on the way: the format of meta.json means that the
\* data has it, unless restores were in the way, and what was there before is there still.
\* It says nothing of the versions in the other files.
ChangesAreSafe == FormatMeansConverted /\ NothingIsLost

\* migrate.py (line 6) says that the versioned files always move together.  This is not so:
\* a migration that dies between meta.json and the map leaves them apart, and the next
\* one, which looks at meta.json only, finds nothing to do.  No configuration lists it.
VersionsMoveTogether == There /\ (\A w \in Command : cmd[w] = AtRest) => dir.map = dir.meta
=============================================================================
