--------------------------- MODULE StateDirProofs ---------------------------
(***************************************************************************)
(* Proofs about StateDir for any commands, items, formats and limits.      *)
(***************************************************************************)
EXTENDS StateDir, TLAPS, WellFoundedInduction, FiniteSetTheorems, SequenceTheorems

Format == OldFormat .. NewFormat

Kind == {"guard_block", "guard_streak", "guard_flagged", "remember", "reflect", "backup",
         "migrate", "restore"}

Dir == [meta : Format, map : Format, data : Seq(Nat), self : SUBSET Item,
        events : Seq(Kind), stored : Seq(BOOLEAN)]

\* What a command that is under way has in its hands.
CmdTypes(w) ==
  /\ cmd[w].pc = "convert" => cmd[w].v \in Format
  /\ cmd[w].pc = "unpack" => cmd[w].from \in Dir
  /\ cmd[w].pc = "writeself" => /\ cmd[w].self \subseteq Item
                                /\ cmd[w].add \subseteq Item
                                /\ cmd[w].resolve \subseteq Item

\* What is extracted under one second: each of the two parts is of an archived directory.
Parts == [data : Dir \cup {NoDir}, head : Dir \cup {NoDir}]
StagedTypes == \A t \in DOMAIN staged : staged[t] \in Parts

DirTypes ==
  /\ dir \in Dir \cup {NoDir, Broken}
  /\ \A t \in DOMAIN archives : archives[t].dir \in Dir
  /\ StagedTypes
  /\ cmd = [w \in Command |-> cmd[w]]
  /\ \A w \in Command : CmdTypes(w)
  /\ clock \in Nat
  /\ {met, crossed} \subseteq BOOLEAN
  /\ carried \subseteq Item

-----------------------------------------------------------------------------
(* What a write leaves of a directory *)

LEMMA DirIsThere == ASSUME NEW d \in Dir PROVE d \notin {NoDir, Broken}
<1>1. d.meta \in Nat /\ NoDir.meta = -1 /\ Broken.meta = -2
  BY StateDirAssumption DEF Dir, NoDir, Broken, Format
<1> QED BY <1>1

LEMMA ThereIs == ASSUME DirTypes PROVE There <=> dir \in Dir
BY DirIsThere DEF DirTypes, There

LEMMA LoggedIs ==
  ASSUME NEW d \in Dir, NEW k \in Seq(Kind)
  PROVE  /\ Logged(d, k) \in Dir
         /\ Logged(d, k).meta = d.meta /\ Logged(d, k).map = d.map
         /\ Logged(d, k).data = d.data /\ Logged(d, k).self = d.self
         /\ Logged(d, k).events = d.events \o k
         /\ Logged(d, k).stored = d.stored
<1>1. d.events \o k \in Seq(Kind)
  BY DEF Dir
<1> QED BY <1>1 DEF Logged, Dir

LEMMA StoredIs ==
  ASSUME NEW d \in Dir, NEW f \in BOOLEAN, NEW e,
         e = [d EXCEPT !.stored = Append(@, f)]
  PROVE  /\ e \in Dir
         /\ e.meta = d.meta /\ e.data = d.data /\ e.self = d.self /\ e.events = d.events
<1>1. Append(d.stored, f) \in Seq(BOOLEAN)
  BY DEF Dir
<1> QED BY <1>1 DEF Dir

LEMMA SelfIs ==
  ASSUME NEW d \in Dir, NEW x \in SUBSET Item, NEW e, e = [d EXCEPT !.self = x]
  PROVE  /\ e \in Dir
         /\ e.meta = d.meta /\ e.data = d.data /\ e.self = x /\ e.events = d.events
BY DEF Dir

LEMMA DataIs ==
  ASSUME NEW d \in Dir, NEW v \in Nat, NEW e, e = [d EXCEPT !.data = Append(@, v)]
  PROVE  /\ e \in Dir
         /\ e.meta = d.meta /\ e.data = Append(d.data, v)
         /\ e.self = d.self /\ e.events = d.events
<1>1. Append(d.data, v) \in Seq(Nat)
  BY DEF Dir
<1> QED BY <1>1 DEF Dir

LEMMA MetaIs ==
  ASSUME NEW d \in Dir, NEW e, e = [d EXCEPT !.meta = NewFormat]
  PROVE  /\ e \in Dir
         /\ e.meta = NewFormat /\ e.data = d.data /\ e.self = d.self /\ e.events = d.events
<1>1. NewFormat \in Format
  BY StateDirAssumption DEF Format
<1> QED BY <1>1 DEF Dir

LEMMA MapIs ==
  ASSUME NEW d \in Dir, NEW e, e = [d EXCEPT !.map = NewFormat]
  PROVE  /\ e \in Dir
         /\ e.meta = d.meta /\ e.data = d.data /\ e.self = d.self /\ e.events = d.events
<1>1. NewFormat \in Format
  BY StateDirAssumption DEF Format
<1> QED BY <1>1 DEF Dir

-----------------------------------------------------------------------------
(* Types *)

LEMMA NothingIs == Nothing \in Parts /\ Nothing.data = NoDir /\ Nothing.head = NoDir
BY DEF Nothing, Parts

LEMMA StagedIs == ASSUME StagedTypes, NEW t PROVE Staged(t) \in Parts
BY NothingIs DEF StagedTypes, Staged

LEMMA AssembledIs ==
  ASSUME NEW p \in Parts
  PROVE  /\ Assembled(p) \in Dir \cup {Broken}
         /\ Assembled(p) # Broken => /\ p.data \in Dir
                                     /\ Assembled(p).events = p.data.events
         /\ p.data # NoDir /\ p.head = p.data => Assembled(p) = p.data
<1>1. CASE NoDir \in {p.data, p.head}
  BY <1>1 DEF Assembled
<1>2. CASE NoDir \notin {p.data, p.head}
  <2>1. PICK d \in Dir, h \in Dir : p.data = d /\ p.head = h
    BY <1>2 DEF Parts
  <2>2. Assembled(p) = [d EXCEPT !.meta = h.meta, !.self = h.self]
    BY <1>2, <2>1 DEF Assembled
  <2>3. /\ Assembled(p) \in Dir /\ Assembled(p).events = d.events
        /\ (h = d => Assembled(p) = d)
    BY <2>2 DEF Dir
  <2> QED BY <2>1, <2>3
<1> QED BY <1>1, <1>2

\* A part that is extracted takes the place of what was there of it.
LEMMA StagedKeeps ==
  ASSUME StagedTypes, NEW t, NEW a \in Parts, staged' = Keep(staged, t, a)
  PROVE  StagedTypes'
<1>1. DOMAIN staged' = DOMAIN staged \cup {t} /\ staged'[t] = a
      /\ \A k \in DOMAIN staged : k # t => staged'[k] = staged[k]
  BY DEF Keep
<1> QED BY <1>1 DEF StagedTypes

LEMMA OneKind == ASSUME NEW k \in Kind PROVE <<k>> \in Seq(Kind)
OBVIOUS


\* Only its own command's step changes what a command has in its hands.
LEMMA HandsOf ==
  ASSUME DirTypes, NEW u \in Command, NEW s, Step(u, s)
  PROVE  /\ cmd' = [w \in Command |-> cmd'[w]]
         /\ cmd'[u] = s
         /\ \A w \in Command : w # u => cmd'[w] = cmd[w] /\ CmdTypes(w)'
<1>1. cmd' = [cmd EXCEPT ![u] = s] /\ DOMAIN cmd = Command
  BY DEF Step, DirTypes
<1>2. cmd' = [w \in Command |-> cmd'[w]]
  BY <1>1
<1>3. cmd'[u] = s
  BY <1>1
<1>4. ASSUME NEW w \in Command, w # u
      PROVE  cmd'[w] = cmd[w] /\ CmdTypes(w)'
  <2>1. cmd'[w] = cmd[w]
    BY <1>1, <1>4
  <2>2. CmdTypes(w)
    BY DEF DirTypes
  <2> QED BY <2>1, <2>2 DEF CmdTypes
<1> QED BY <1>2, <1>3, <1>4

\* A command writes into the directory: nothing that is versioned changes, and the
\* command has nothing in its hands afterwards.
Plain == {"rest", "mark", "notify", "remembered", "reflected", "backedup", "bumpmap", "migrated",
          "restored"}

Writes(w) ==
  /\ dir \in Dir /\ dir' \in Dir
  /\ dir'.meta = dir.meta /\ dir'.data = dir.data
  /\ UNCHANGED <<treeVars, clock, crossed, had>>
  /\ carried' \subseteq Item
  /\ met' \in BOOLEAN
  /\ \E s : Step(w, s) /\ s.pc \in Plain

LEMMA RefuseWrites ==
  ASSUME DirTypes, NEW w \in Command, Refuse(w)
  PROVE  Writes(w) /\ dir'.self = dir.self /\ dir'.events = Append(dir.events, "guard_block")
<1>1. dir \in Dir
  BY ThereIs DEF Refuse, Writable
<1>2. <<"guard_block">> \in Seq(Kind) /\ dir' = Logged(dir, <<"guard_block">>)
  <2>1. "guard_block" \in Kind
    BY DEF Kind
  <2> QED BY <2>1, OneKind DEF Refuse
<1>3. dir' \in Dir /\ dir'.meta = dir.meta /\ dir'.data = dir.data /\ dir'.self = dir.self
      /\ dir'.events = dir.events \o <<"guard_block">>
  BY <1>1, <1>2, LoggedIs
<1>4. dir.events \in Seq(Kind)
  BY <1>1 DEF Dir
<1>5. dir'.events = Append(dir.events, "guard_block")
  BY <1>3, <1>4
<1>6. met' \in BOOLEAN /\ carried' \subseteq Item
  BY DEF Refuse, Starts, DirTypes
<1>7. [pc |-> "mark"].pc \in Plain
  BY DEF Plain
<1> QED BY <1>1, <1>3, <1>5, <1>6, <1>7 DEF Refuse, Writes

LEMMA NotifyWrites ==
  ASSUME DirTypes, NEW w \in Command, Notify(w)
  PROVE  Writes(w) /\ dir'.self = dir.self /\ dir'.events = Append(dir.events, "guard_streak")
<1>1. dir \in Dir
  BY ThereIs DEF Notify
<1>2. <<"guard_streak">> \in Seq(Kind) /\ dir' = Logged(dir, <<"guard_streak">>)
  <2>1. "guard_streak" \in Kind
    BY DEF Kind
  <2> QED BY <2>1, OneKind DEF Notify
<1>3. dir' \in Dir /\ dir'.meta = dir.meta /\ dir'.data = dir.data /\ dir'.self = dir.self
      /\ dir'.events = dir.events \o <<"guard_streak">>
  BY <1>1, <1>2, LoggedIs
<1>4. dir.events \in Seq(Kind)
  BY <1>1 DEF Dir
<1>5. dir'.events = Append(dir.events, "guard_streak")
  BY <1>3, <1>4
<1>6. met' \in BOOLEAN /\ carried' \subseteq Item
  BY DEF Notify, DirTypes
<1>7. AtRest.pc \in Plain
  BY DEF Plain, AtRest
<1> QED BY <1>1, <1>3, <1>5, <1>6, <1>7 DEF Notify, Writes

LEMMA LogItWrites ==
  ASSUME DirTypes, NEW w \in Command, NEW pc, NEW kind \in Kind, LogIt(w, pc, kind)
  PROVE  Writes(w) /\ dir'.self = dir.self /\ dir'.events = Append(dir.events, kind)
<1>1. dir \in Dir
  BY ThereIs DEF LogIt
<1>2. <<kind>> \in Seq(Kind) /\ dir' = Logged(dir, <<kind>>)
  BY DEF LogIt
<1>3. dir' \in Dir /\ dir'.meta = dir.meta /\ dir'.data = dir.data /\ dir'.self = dir.self
      /\ dir'.events = dir.events \o <<kind>>
  BY <1>1, <1>2, LoggedIs
<1>4. dir.events \in Seq(Kind)
  BY <1>1 DEF Dir
<1>5. dir'.events = Append(dir.events, kind)
  BY <1>3, <1>4
<1>6. met' \in BOOLEAN /\ carried' \subseteq Item
  BY DEF LogIt, DirTypes
<1>7. AtRest.pc \in Plain
  BY DEF Plain, AtRest
<1> QED BY <1>1, <1>3, <1>5, <1>6, <1>7 DEF LogIt, Writes

LEMMA RememberWrites ==
  ASSUME DirTypes, NEW w \in Command, NEW flagged \in BOOLEAN, Remember(w, flagged)
  PROVE  /\ Writes(w) /\ dir'.self = dir.self
         /\ dir'.events = IF flagged THEN Append(dir.events, "guard_flagged") ELSE dir.events
<1>1. dir \in Dir
  BY ThereIs DEF Remember, Writable
<1> DEFINE k == IF flagged THEN <<"guard_flagged">> ELSE <<>>
<1>2. k \in Seq(Kind)
  <2>1. "guard_flagged" \in Kind /\ <<>> \in Seq(Kind)
    BY DEF Kind
  <2> QED BY <2>1, OneKind
<1> HIDE DEF k
<1>3. PICK l : l = Logged(dir, k)
  OBVIOUS
<1>4. l \in Dir /\ l.meta = dir.meta /\ l.data = dir.data /\ l.self = dir.self
      /\ l.events = dir.events \o k
  BY <1>1, <1>2, <1>3, LoggedIs
<1>5. dir' = [l EXCEPT !.stored = Append(@, flagged)]
  BY <1>3 DEF Remember, k
<1>6. dir' \in Dir /\ dir'.meta = dir.meta /\ dir'.data = dir.data /\ dir'.self = dir.self
      /\ dir'.events = dir.events \o k
  BY <1>4, <1>5, StoredIs
<1>7. dir.events \in Seq(Kind)
  BY <1>1 DEF Dir
<1>8. dir'.events = IF flagged THEN Append(dir.events, "guard_flagged") ELSE dir.events
  <2>1. CASE flagged
    BY <2>1, <1>6, <1>7 DEF k
  <2>2. CASE ~flagged
    BY <2>2, <1>6, <1>7 DEF k
  <2> QED BY <2>1, <2>2
<1>9. met' \in BOOLEAN /\ carried' \subseteq Item
  BY DEF Remember, Starts, DirTypes
<1>10. [pc |-> "remembered"].pc \in Plain
  BY DEF Plain
<1> QED BY <1>1, <1>6, <1>8, <1>9, <1>10 DEF Remember, Writes

LEMMA SelfWrites ==
  ASSUME DirTypes, NEW w \in Command, WriteSelf(w)
  PROVE  Writes(w) /\ dir'.self = cmd[w].self /\ dir'.events = dir.events
<1>1. dir \in Dir
  BY ThereIs DEF WriteSelf
<1>2. /\ cmd[w].self \in SUBSET Item /\ cmd[w].add \subseteq Item
      /\ dir' = [dir EXCEPT !.self = cmd[w].self]
  BY DEF WriteSelf, DirTypes, CmdTypes
<1>3. dir' \in Dir /\ dir'.meta = dir.meta /\ dir'.data = dir.data /\ dir'.self = cmd[w].self
      /\ dir'.events = dir.events
  BY <1>1, <1>2, SelfIs
<1>4. met' \in BOOLEAN /\ carried' \subseteq Item
  BY <1>2 DEF WriteSelf, DirTypes
<1>5. [pc |-> "reflected"].pc \in Plain
  BY DEF Plain
<1> QED BY <1>1, <1>3, <1>4, <1>5 DEF WriteSelf, Writes

LEMMA MapWrites ==
  ASSUME DirTypes, NEW w \in Command, BumpMap(w)
  PROVE  Writes(w) /\ dir'.self = dir.self /\ dir'.events = dir.events
<1>1. dir \in Dir
  BY ThereIs DEF BumpMap
<1>2. dir' = [dir EXCEPT !.map = NewFormat]
  BY DEF BumpMap
<1>3. dir' \in Dir /\ dir'.meta = dir.meta /\ dir'.data = dir.data /\ dir'.self = dir.self
      /\ dir'.events = dir.events
  BY <1>1, <1>2, MapIs
<1>4. met' \in BOOLEAN /\ carried' \subseteq Item
  BY DEF BumpMap, DirTypes
<1>5. [pc |-> "migrated"].pc \in Plain
  BY DEF Plain
<1> QED BY <1>1, <1>3, <1>4, <1>5 DEF BumpMap, Writes

LEMMA DirTypesThen ==
  ASSUME DirTypes, NEW u \in Command, NEW s, Step(u, s),
         dir' \in Dir \cup {NoDir, Broken},
         \A t \in DOMAIN archives' : archives'[t].dir \in Dir,
         StagedTypes',
         CmdTypes(u)',
         clock' \in Nat, met' \in BOOLEAN, crossed' \in BOOLEAN, carried' \subseteq Item
  PROVE  DirTypes'
<1>1. cmd' = [w \in Command |-> cmd'[w]] /\ \A w \in Command : w # u => CmdTypes(w)'
  BY HandsOf
<1>2. \A w \in Command : CmdTypes(w)'
  BY <1>1
<1> QED BY <1>1, <1>2 DEF DirTypes

\* A command that has nothing in its hands afterwards.
LEMMA PlainHands ==
  ASSUME NEW w, NEW s, cmd'[w] = s, s.pc \in Plain
  PROVE  CmdTypes(w)' /\ cmd'[w].pc \in Plain
BY DEF CmdTypes, Plain

LEMMA RestIsPlain == AtRest.pc \in Plain
BY DEF AtRest, Plain

LEMMA WritesTypes ==
  ASSUME DirTypes, NEW w \in Command, Writes(w)
  PROVE  DirTypes'
<1>1. PICK s : Step(w, s) /\ s.pc \in Plain
  BY DEF Writes
<1>2. staged' = staged /\ archives' = archives
  BY DEF Writes, treeVars
<1>3. cmd'[w] = s
  BY <1>1, <1>2, HandsOf
<1>4. CmdTypes(w)'
  BY <1>1, <1>3, PlainHands
<1>5. /\ \A t \in DOMAIN archives' : archives'[t].dir \in Dir
      /\ StagedTypes'
  BY <1>2 DEF DirTypes, StagedTypes
<1>6. clock' \in Nat /\ met' \in BOOLEAN /\ crossed' \in BOOLEAN /\ carried' \subseteq Item
      /\ dir' \in Dir \cup {NoDir, Broken}
  BY DEF Writes, DirTypes
<1> QED BY <1>1, <1>4, <1>5, <1>6, DirTypesThen

\* Nothing but where the command stands.
Rests(w) ==
  /\ UNCHANGED <<dir, treeVars, clock, crossed, had, carried>>
  /\ met' \in BOOLEAN
  /\ \E s : /\ Step(w, s)
            /\ \/ s.pc \in Plain
               \/ /\ s.pc = "writeself"
                  /\ s.self \subseteq Item /\ s.add \subseteq Item /\ s.resolve \subseteq Item

LEMMA RestsTypes ==
  ASSUME DirTypes, NEW w \in Command, Rests(w)
  PROVE  DirTypes'
<1>1. PICK s : /\ Step(w, s)
               /\ \/ s.pc \in Plain
                  \/ /\ s.pc = "writeself"
                     /\ s.self \subseteq Item /\ s.add \subseteq Item /\ s.resolve \subseteq Item
  BY DEF Rests
<1>2. staged' = staged /\ archives' = archives
  BY DEF Rests, treeVars
<1>3. cmd'[w] = s
  BY <1>1, <1>2, HandsOf
<1>4. CmdTypes(w)'
  BY <1>1, <1>3 DEF CmdTypes, Plain
<1>5. /\ \A t \in DOMAIN archives' : archives'[t].dir \in Dir
      /\ StagedTypes'
  BY <1>2 DEF DirTypes, StagedTypes
<1>6. clock' \in Nat /\ met' \in BOOLEAN /\ crossed' \in BOOLEAN /\ carried' \subseteq Item
      /\ dir' \in Dir \cup {NoDir, Broken}
  BY DEF Rests, DirTypes
<1> QED BY <1>1, <1>4, <1>5, <1>6, DirTypesThen

LEMMA MarkRests ==
  ASSUME DirTypes, NEW w \in Command, Mark(w)
  PROVE  Rests(w)
<1>1. [pc |-> "notify"].pc \in Plain /\ AtRest.pc \in Plain
  BY DEF Plain, AtRest
<1>2. \E s : Step(w, s) /\ s.pc \in Plain
  BY <1>1, Zenon DEF Mark
<1>3. met' \in BOOLEAN
  BY DEF Mark, DirTypes
<1> QED BY <1>2, <1>3 DEF Mark, Rests

LEMMA ReflectRests ==
  ASSUME DirTypes, NEW w \in Command, NEW add \in SUBSET Item, NEW resolve \in SUBSET Item,
         Reflect(w, add, resolve)
  PROVE  Rests(w) /\ dir \in Dir
<1>1. dir \in Dir
  BY ThereIs DEF Reflect, Writable
<1> DEFINE self == Reflected(dir.self, add, resolve)
<1>2. self \subseteq Item
  BY <1>1 DEF Reflected, Dir
<1> HIDE DEF self
<1> DEFINE s == [pc |-> "writeself", add |-> add, resolve |-> resolve, self |-> self]
<1>3. s.pc = "writeself" /\ s.self \subseteq Item /\ s.add \subseteq Item /\ s.resolve \subseteq Item
  BY <1>2
<1>4. Step(w, s)
  BY DEF Reflect, self
<1>5. met' \in BOOLEAN
  BY DEF Reflect, Starts, DirTypes
<1> HIDE DEF s
<1> QED BY <1>1, <1>3, <1>4, <1>5 DEF Reflect, Rests

LEMMA DiesRests ==
  ASSUME DirTypes, NEW w \in Command, CommandDies(w)
  PROVE  Rests(w)
<1>1. Step(w, AtRest) /\ AtRest.pc \in Plain
  BY DEF CommandDies, Plain, AtRest
<1> QED BY <1>1 DEF CommandDies, Rests

\* What was archived stays, and what is added is an archive of the directory.
KeepsArchives ==
  /\ \A t \in DOMAIN archives : t \in DOMAIN archives' /\ archives'[t] = archives[t]
  /\ \A t \in DOMAIN archives' : t \in DOMAIN archives \/ archives'[t].dir = dir

\* The directory is archived; who migrates has done so before the first step.
Saves(w) ==
  /\ dir \in Dir
  /\ KeepsArchives
  /\ UNCHANGED <<dir, aside, staged, clock, crossed, carried>>
  /\ met' \in BOOLEAN
  /\ \E s : Step(w, s) /\ (s.pc \in Plain \/ (s.pc = "convert" /\ s.v = dir.meta))
  /\ \/ had' = had
     \/ had' = had \cup {dir} /\ \E t \in DOMAIN archives' : archives'[t] = Full(dir)

LEMMA BackupThen ==
  ASSUME DirTypes, NEW w, NEW next, Backup(w, next)
  PROVE  /\ dir \in Dir
         /\ KeepsArchives
         /\ \/ Step(w, next) /\ \E t \in DOMAIN archives' : archives'[t] = Full(dir)
            \/ Step(w, AtRest)
<1>1. dir \in Dir
  BY ThereIs DEF Backup
<1>2. PICK a : /\ archives' = Keep(archives, clock, a)
               /\ a \in {Full(dir), Part(dir)}
               /\ \/ a = Full(dir) /\ Step(w, next)
                  \/ Step(w, AtRest)
  BY DEF Backup
<1>3. clock \notin DOMAIN archives
  BY DEF Backup, NameFree
<1>4. /\ DOMAIN archives' = DOMAIN archives \cup {clock}
      /\ \A t \in DOMAIN archives' : archives'[t] = IF t = clock THEN a ELSE archives[t]
  BY <1>2 DEF Keep
<1>5. a.dir = dir
  BY <1>2 DEF Full, Part
<1>6. KeepsArchives
  BY <1>3, <1>4, <1>5 DEF KeepsArchives
<1>7. clock \in DOMAIN archives' /\ archives'[clock] = a
  BY <1>4
<1> QED BY <1>1, <1>2, <1>6, <1>7

LEMMA BackupSaves ==
  ASSUME DirTypes, NEW w \in Command, BackupCommand(w)
  PROVE  Saves(w) /\ had' = had
<1> DEFINE next == [pc |-> "backedup"]
<1>1. Backup(w, next) /\ met' \in BOOLEAN
  BY DEF BackupCommand, Starts, DirTypes
<1>2. next.pc \in Plain /\ AtRest.pc \in Plain
  BY DEF Plain, AtRest
<1> HIDE DEF next
<1>3. dir \in Dir /\ KeepsArchives /\ (Step(w, next) \/ Step(w, AtRest))
  BY <1>1, BackupThen
<1> QED BY <1>1, <1>2, <1>3 DEF BackupCommand, Saves

LEMMA MigrateSaves ==
  ASSUME DirTypes, NEW w \in Command, Migrate(w)
  PROVE  Saves(w)
<1> DEFINE next == [pc |-> "convert", v |-> dir.meta]
<1>1. Backup(w, next) /\ met' \in BOOLEAN
  BY DEF Migrate, BackupFirst, Starts, DirTypes
<1>2. next.pc = "convert" /\ next.v = dir.meta /\ AtRest.pc \in Plain
  BY DEF Plain, AtRest
<1>3. next # AtRest
  <2>1. "convert" # "rest"
    OBVIOUS
  <2> QED BY <2>1 DEF AtRest
<1> HIDE DEF next
<1>4. /\ dir \in Dir
      /\ KeepsArchives
      /\ \/ Step(w, next) /\ \E t \in DOMAIN archives' : archives'[t] = Full(dir)
         \/ Step(w, AtRest)
  BY <1>1, BackupThen
<1>5. had' = IF cmd'[w] = AtRest THEN had ELSE had \cup {dir}
  BY DEF Migrate
<1>6. UNCHANGED <<dir, aside, staged, clock, crossed, carried>>
  BY DEF Migrate
<1>7. CASE Step(w, next) /\ \E t \in DOMAIN archives' : archives'[t] = Full(dir)
  BY <1>1, <1>2, <1>4, <1>5, <1>6, <1>7 DEF Saves
<1>8. CASE Step(w, AtRest)
  <2>1. cmd'[w] = AtRest
    BY <1>6, <1>8, HandsOf
  <2> QED BY <1>1, <1>2, <1>4, <1>5, <1>6, <1>8, <2>1 DEF Saves
<1> QED BY <1>4, <1>7, <1>8

LEMMA SavesTypes ==
  ASSUME DirTypes, NEW w \in Command, Saves(w)
  PROVE  DirTypes'
<1>1. PICK s : Step(w, s) /\ (s.pc \in Plain \/ (s.pc = "convert" /\ s.v = dir.meta))
  BY DEF Saves
<1>2. staged' = staged /\ dir' = dir /\ dir \in Dir
  BY DEF Saves
<1>3. cmd'[w] = s
  BY <1>1, <1>2, HandsOf
<1>4. dir.meta \in Format
  BY <1>2 DEF Dir
<1>5. CmdTypes(w)'
  BY <1>1, <1>3, <1>4 DEF CmdTypes, Plain
<1>6. \A t \in DOMAIN archives' : archives'[t].dir \in Dir
  BY <1>2 DEF Saves, KeepsArchives, DirTypes
<1>7. StagedTypes'
  BY <1>2 DEF DirTypes, StagedTypes
<1>8. clock' \in Nat /\ met' \in BOOLEAN /\ crossed' \in BOOLEAN /\ carried' \subseteq Item
      /\ dir' \in Dir \cup {NoDir, Broken}
  BY <1>2 DEF Saves, DirTypes
<1> QED BY <1>1, <1>5, <1>6, <1>7, <1>8, DirTypesThen

\* One step of a migration, or the format at its end.
Converts(w) ==
  /\ dir \in Dir /\ dir' \in Dir
  /\ dir'.self = dir.self /\ dir'.events = dir.events
  /\ cmd[w].pc = "convert" /\ cmd[w].v \in Format
  /\ UNCHANGED <<treeVars, clock, met, crossed, had, carried>>
  /\ \/ /\ cmd[w].v < NewFormat
        /\ dir'.meta = dir.meta /\ dir'.data = Append(dir.data, cmd[w].v)
        /\ Step(w, [pc |-> "convert", v |-> cmd[w].v + 1])
     \/ /\ cmd[w].v = NewFormat
        /\ dir'.meta = NewFormat /\ dir'.data = dir.data
        /\ Step(w, [pc |-> "bumpmap"])

LEMMA ConvertConverts ==
  ASSUME DirTypes, NEW w \in Command, Convert(w)
  PROVE  Converts(w)
<1>1. dir \in Dir /\ cmd[w].pc = "convert" /\ cmd[w].v \in Format
  BY ThereIs DEF Convert, DirTypes, CmdTypes
<1>2. cmd[w].v \in Nat /\ (~ (cmd[w].v < NewFormat) => cmd[w].v = NewFormat)
  BY <1>1, StateDirAssumption DEF Format
<1>3. CASE cmd[w].v < NewFormat
  <2>1. /\ dir' = [dir EXCEPT !.data = Append(@, cmd[w].v)]
        /\ Step(w, [pc |-> "convert", v |-> cmd[w].v + 1])
    BY <1>3 DEF Convert, Converted
  <2>2. /\ dir' \in Dir /\ dir'.meta = dir.meta /\ dir'.data = Append(dir.data, cmd[w].v)
        /\ dir'.self = dir.self /\ dir'.events = dir.events
    BY <1>1, <1>2, <2>1, DataIs
  <2> QED BY <1>1, <1>3, <2>1, <2>2 DEF Convert, Converts
<1>4. CASE ~ (cmd[w].v < NewFormat)
  <2>1. dir' = [dir EXCEPT !.meta = NewFormat] /\ Step(w, [pc |-> "bumpmap"])
    BY <1>4 DEF Convert
  <2>2. /\ dir' \in Dir /\ dir'.meta = NewFormat /\ dir'.data = dir.data
        /\ dir'.self = dir.self /\ dir'.events = dir.events
    BY <1>1, <2>1, MetaIs
  <2> QED BY <1>1, <1>2, <1>4, <2>1, <2>2 DEF Convert, Converts
<1> QED BY <1>3, <1>4

LEMMA ConvertsTypes ==
  ASSUME DirTypes, NEW w \in Command, Converts(w)
  PROVE  DirTypes'
<1>1. staged' = staged /\ archives' = archives /\ cmd[w].v \in Format
  BY DEF Converts, treeVars
<1>2. PICK s : Step(w, s) /\ (s.pc \in Plain \/ (s.pc = "convert" /\ s.v \in Format))
  <2>1. CASE cmd[w].v < NewFormat /\ Step(w, [pc |-> "convert", v |-> cmd[w].v + 1])
    <3>1. cmd[w].v + 1 \in Format
      BY <1>1, <2>1, StateDirAssumption DEF Format
    <3> QED BY <2>1, <3>1
  <2>2. CASE Step(w, [pc |-> "bumpmap"])
    <3>1. [pc |-> "bumpmap"].pc \in Plain
      BY DEF Plain
    <3> QED BY <2>2, <3>1
  <2> QED BY <2>1, <2>2 DEF Converts
<1>3. cmd'[w] = s
  BY <1>1, <1>2, HandsOf
<1>4. CmdTypes(w)'
  BY <1>2, <1>3 DEF CmdTypes, Plain
<1>5. /\ \A t \in DOMAIN archives' : archives'[t].dir \in Dir
      /\ StagedTypes'
  BY <1>1 DEF DirTypes, StagedTypes
<1>6. clock' \in Nat /\ met' \in BOOLEAN /\ crossed' \in BOOLEAN /\ carried' \subseteq Item
      /\ dir' \in Dir \cup {NoDir, Broken}
  BY DEF Converts, DirTypes
<1> QED BY <1>2, <1>4, <1>5, <1>6, DirTypesThen

\* The data and the map of an archive, or of a part of one, are extracted.
Extracts(w, t) ==
  /\ UNCHANGED <<dir, archives, aside, clock, had, carried>>
  /\ met' \in BOOLEAN
  /\ staged' = Keep(staged, clock, [Staged(clock) EXCEPT !.data = archives[t].dir])
  /\ crossed' = (crossed \/ Staged(clock) # Nothing)
  /\ \/ Step(w, [pc |-> "unpack", at |-> clock, from |-> archives[t].dir])
     \/ Step(w, AtRest)

LEMMA ExtractExtracts ==
  ASSUME DirTypes, NEW w \in Command, NEW t \in DOMAIN archives, Extract(w, t)
  PROVE  Extracts(w, t)
<1>1. met' \in BOOLEAN
  BY DEF Extract, Starts, DirTypes
<1>2. \/ Step(w, [pc |-> "unpack", at |-> clock, from |-> archives[t].dir])
      \/ Step(w, AtRest)
  BY Zenon DEF Extract
<1> QED BY <1>1, <1>2 DEF Extract, Extracts

LEMMA ExtractsTypes ==
  ASSUME DirTypes, NEW w \in Command, NEW t \in DOMAIN archives, Extracts(w, t)
  PROVE  DirTypes'
<1>1. PICK d \in Dir : d = archives[t].dir
  BY DEF DirTypes
<1>2. StagedTypes'
  <2> DEFINE p == [Staged(clock) EXCEPT !.data = d]
  <2>1. p \in Parts
    BY StagedIs DEF DirTypes, Parts
  <2>2. staged' = Keep(staged, clock, p)
    BY <1>1 DEF Extracts
  <2> HIDE DEF p
  <2> QED BY <2>1, <2>2, StagedKeeps DEF DirTypes
<1>3. PICK s : Step(w, s) /\ (s.pc \in Plain \/ (s.pc = "unpack" /\ s.from = d))
  <2> DEFINE x == [pc |-> "unpack", at |-> clock, from |-> d]
  <2>1. x.pc = "unpack" /\ x.from = d /\ AtRest.pc \in Plain
    BY RestIsPlain
  <2>2. Step(w, x) \/ Step(w, AtRest)
    BY <1>1 DEF Extracts
  <2> HIDE DEF x
  <2> QED BY <2>1, <2>2
<1>4. cmd'[w] = s
  BY <1>3, HandsOf
<1>5. CmdTypes(w)'
  BY <1>3, <1>4 DEF CmdTypes, Plain
<1>6. \A k \in DOMAIN archives' : archives'[k].dir \in Dir
  BY DEF Extracts, DirTypes
<1>7. crossed' \in BOOLEAN
  BY Zenon DEF Extracts, DirTypes
<1>8. clock' \in Nat /\ met' \in BOOLEAN /\ carried' \subseteq Item
      /\ dir' \in Dir \cup {NoDir, Broken}
  BY DEF Extracts, DirTypes
<1> QED BY <1>2, <1>3, <1>5, <1>6, <1>7, <1>8, DirTypesThen

LEMMA UnpackTypes ==
  ASSUME DirTypes, NEW w \in Command, Unpack(w)
  PROVE  DirTypes'
<1>1. PICK d \in Dir : d = cmd[w].from
  BY DEF Unpack, DirTypes, CmdTypes
<1>2. StagedTypes'
  <2> DEFINE p == [Staged(cmd[w].at) EXCEPT !.head = d]
  <2>1. p \in Parts
    BY StagedIs DEF DirTypes, Parts
  <2>2. staged' = Keep(staged, cmd[w].at, p)
    BY <1>1 DEF Unpack
  <2> HIDE DEF p
  <2> QED BY <2>1, <2>2, StagedKeeps DEF DirTypes
<1> DEFINE s == [pc |-> "aside", at |-> cmd[w].at]
<1>3. Step(w, s) /\ s.pc = "aside"
  BY DEF Unpack
<1> HIDE DEF s
<1>4. cmd'[w] = s
  BY <1>3, HandsOf
<1>5. CmdTypes(w)'
  BY <1>3, <1>4 DEF CmdTypes
<1>6. /\ \A k \in DOMAIN archives' : archives'[k].dir \in Dir
      /\ clock' \in Nat /\ met' \in BOOLEAN /\ crossed' \in BOOLEAN /\ carried' \subseteq Item
      /\ dir' \in Dir \cup {NoDir, Broken}
  BY DEF Unpack, DirTypes
<1> QED BY <1>2, <1>3, <1>5, <1>6, DirTypesThen

\* The directory goes out of the way, or the name aside is taken.
Clears(w) ==
  /\ UNCHANGED <<archives, staged, clock, met, carried>>
  /\ cmd[w].pc = "aside"
  /\ \/ UNCHANGED <<dir, aside, had, crossed>> /\ Step(w, AtRest)
     \/ /\ dir' = NoDir
        /\ crossed' = (crossed \/ \E v \in Command : cmd[v].pc \in {"convert", "bumpmap"})
        /\ \/ UNCHANGED <<aside, had>>
           \/ /\ cmd[w].at \notin DOMAIN aside
              /\ aside' = Keep(aside, cmd[w].at, dir)
              /\ had' = had \cup {dir}
        /\ Step(w, [pc |-> "place", at |-> cmd[w].at])

LEMMA MoveAsideClears ==
  ASSUME NEW w \in Command, MoveAside(w)
  PROVE  Clears(w)
<1>1. CASE dir # NoDir /\ cmd[w].at \in DOMAIN aside
  BY <1>1 DEF MoveAside, Clears
<1>2. CASE dir = NoDir
  BY <1>2 DEF MoveAside, Clears
<1>3. CASE dir # NoDir /\ cmd[w].at \notin DOMAIN aside
  BY <1>3 DEF MoveAside, Clears, KeepOld
<1> QED BY <1>1, <1>2, <1>3

LEMMA ClearsTypes ==
  ASSUME DirTypes, NEW w \in Command, Clears(w)
  PROVE  DirTypes'
<1>1. PICK s : Step(w, s) /\ s.pc \in {"rest", "place"}
  <2> DEFINE x == [pc |-> "place", at |-> cmd[w].at]
  <2>1. x.pc = "place" /\ AtRest.pc = "rest"
    BY DEF AtRest
  <2>2. Step(w, x) \/ Step(w, AtRest)
    BY DEF Clears
  <2> HIDE DEF x
  <2> QED BY <2>1, <2>2
<1>2. cmd'[w] = s
  BY <1>1, HandsOf
<1>3. CmdTypes(w)'
  BY <1>1, <1>2 DEF CmdTypes
<1>4. crossed' \in BOOLEAN
  BY Zenon DEF Clears, DirTypes
<1>5. /\ \A t \in DOMAIN archives' : archives'[t].dir \in Dir
      /\ StagedTypes'
      /\ clock' \in Nat /\ met' \in BOOLEAN /\ carried' \subseteq Item
      /\ dir' \in Dir \cup {NoDir, Broken}
  BY DEF Clears, DirTypes, StagedTypes
<1> QED BY <1>1, <1>3, <1>4, <1>5, DirTypesThen

\* What was extracted becomes the directory, or stays where it is.
Places(w) ==
  /\ UNCHANGED <<archives, aside, clock, met, crossed, had>>
  /\ cmd[w].pc = "place"
  /\ \/ /\ dir = NoDir
        /\ dir' = Assembled(Staged(cmd[w].at))
        /\ staged' = Keep(staged, cmd[w].at, Nothing)
        /\ carried' = IF dir' = Broken THEN {} ELSE dir'.self
        /\ Step(w, [pc |-> "restored"])
     \/ UNCHANGED <<dir, staged, carried>> /\ Step(w, AtRest)

LEMMA PutInPlacePlaces ==
  ASSUME NEW w \in Command, PutInPlace(w)
  PROVE  Places(w)
<1>1. CASE dir = NoDir /\ Staged(cmd[w].at) # Nothing
  BY <1>1 DEF PutInPlace, Places
<1>2. CASE ~ (dir = NoDir /\ Staged(cmd[w].at) # Nothing)
  BY <1>2 DEF PutInPlace, Places
<1> QED BY <1>1, <1>2

LEMMA PlacesTypes ==
  ASSUME DirTypes, NEW w \in Command, Places(w)
  PROVE  DirTypes'
<1>1. /\ dir' \in Dir \cup {NoDir, Broken}
      /\ StagedTypes'
      /\ carried' \subseteq Item
  <2>1. CASE /\ dir' = Assembled(Staged(cmd[w].at))
             /\ staged' = Keep(staged, cmd[w].at, Nothing)
             /\ carried' = IF dir' = Broken THEN {} ELSE dir'.self
    <3>1. dir' \in Dir \cup {Broken}
      BY <2>1, StagedIs, AssembledIs DEF DirTypes
    <3>2. StagedTypes'
      BY <2>1, NothingIs, StagedKeeps DEF DirTypes
    <3>3. carried' \subseteq Item
      BY <2>1, <3>1 DEF Dir
    <3> QED BY <3>1, <3>2, <3>3
  <2>2. CASE UNCHANGED <<dir, staged, carried>>
    BY <2>2 DEF DirTypes, StagedTypes
  <2> QED BY <2>1, <2>2 DEF Places
<1>2. PICK s : Step(w, s) /\ s.pc \in Plain
  <2>1. [pc |-> "restored"].pc \in Plain /\ AtRest.pc \in Plain
    BY DEF Plain, AtRest
  <2> QED BY <2>1 DEF Places
<1>3. cmd'[w] = s
  BY <1>2, HandsOf
<1>4. CmdTypes(w)'
  BY <1>2, <1>3, PlainHands
<1>5. /\ \A t \in DOMAIN archives' : archives'[t].dir \in Dir
      /\ clock' \in Nat /\ met' \in BOOLEAN /\ crossed' \in BOOLEAN
  BY DEF Places, DirTypes
<1> QED BY <1>1, <1>2, <1>4, <1>5, DirTypesThen

\* The second goes on, or nothing does.
Passes == UNCHANGED <<dir, treeVars, cmd, met, crossed, had, carried>> /\ clock' \in Nat

LEMMA PassesTypes ==
  ASSUME DirTypes, Passes
  PROVE  DirTypes'
BY DEF DirTypes, StagedTypes, CmdTypes, Passes, treeVars

LEMMA StateSteps ==
  ASSUME DirTypes, [StateNext]_<<stateVars, budget>>
  PROVE  \/ \E w \in Command : \/ Writes(w) \/ Rests(w) \/ Saves(w) \/ Converts(w)
                               \/ \E t \in DOMAIN archives : Extracts(w, t)
                               \/ Unpack(w) \/ Clears(w) \/ Places(w)
         \/ Passes
<1>1. ASSUME NEW w \in Command,
             \/ Refuse(w) \/ Mark(w) \/ Notify(w)
             \/ \E flagged \in BOOLEAN : Remember(w, flagged)
             \/ \E add \in {{i} : i \in Item}, resolve \in SUBSET Item :
                  Cardinality(resolve) <= 1 /\ Reflect(w, add, resolve)
             \/ WriteSelf(w)
             \/ LogIt(w, "remembered", "remember") \/ LogIt(w, "reflected", "reflect")
             \/ LogIt(w, "backedup", "backup") \/ LogIt(w, "migrated", "migrate")
             \/ LogIt(w, "restored", "restore")
      PROVE  Writes(w) \/ Rests(w)
  <2>1. \A kind \in Kind : \A pc : LogIt(w, pc, kind) => Writes(w)
    BY LogItWrites
  <2>2. {"remember", "reflect", "backup", "migrate", "restore"} \subseteq Kind
    BY DEF Kind
  <2>3. \A add \in {{i} : i \in Item}, resolve \in SUBSET Item :
          Reflect(w, add, resolve) => Rests(w)
    <3> TAKE add \in {{i} : i \in Item}, resolve \in SUBSET Item
    <3>1. add \in SUBSET Item
      OBVIOUS
    <3> QED BY <3>1, ReflectRests
  <2>4. Refuse(w) \/ Notify(w) \/ WriteSelf(w) => Writes(w)
    BY RefuseWrites, NotifyWrites, SelfWrites
  <2>5. \A flagged \in BOOLEAN : Remember(w, flagged) => Writes(w)
    BY RememberWrites
  <2>6. Mark(w) => Rests(w)
    BY MarkRests
  <2> QED BY <1>1, <2>1, <2>2, <2>3, <2>4, <2>5, <2>6
<1>2. ASSUME NEW w \in Command,
             \/ BackupCommand(w)
             \/ Migrate(w) \/ Convert(w) \/ BumpMap(w)
             \/ \E t \in DOMAIN archives : Extract(w, t)
             \/ Unpack(w) \/ MoveAside(w) \/ PutInPlace(w)
             \/ CommandDies(w)
      PROVE  \/ Writes(w) \/ Rests(w) \/ Saves(w) \/ Converts(w)
             \/ \E t \in DOMAIN archives : Extracts(w, t)
             \/ Unpack(w) \/ Clears(w) \/ Places(w)
  BY <1>2, BackupSaves, MigrateSaves, ConvertConverts, MapWrites, ExtractExtracts,
     MoveAsideClears, PutInPlacePlaces, DiesRests
<1>3. CASE NextSecond
  BY <1>3 DEF NextSecond, Passes, DirTypes
<1>4. CASE UNCHANGED <<stateVars, budget>>
  BY <1>4 DEF Passes, stateVars, treeVars, DirTypes
<1> QED BY <1>1, <1>2, <1>3, <1>4 DEF StateNext

LEMMA DirTypesStep ==
  ASSUME DirTypes, [StateNext]_<<stateVars, budget>>
  PROVE  DirTypes'
BY StateSteps, WritesTypes, RestsTypes, SavesTypes, ConvertsTypes, ExtractsTypes, UnpackTypes,
   ClearsTypes, PlacesTypes, PassesTypes

LEMMA DirTypesInit ==
  ASSUME StateInit
  PROVE  DirTypes
<1>1. PICK v \in {OldFormat, NewFormat} :
        dir = [meta |-> v, map |-> v,
               data |-> [i \in 1..(v - OldFormat) |-> OldFormat + i - 1],
               self |-> {}, events |-> <<>>, stored |-> <<>>]
  BY DEF StateInit
<1>2. v \in Format /\ v - OldFormat \in Nat
  BY StateDirAssumption DEF Format
<1>3. [i \in 1..(v - OldFormat) |-> OldFormat + i - 1] \in Seq(Nat)
  <2> DEFINE n == v - OldFormat
             s == [i \in 1..n |-> OldFormat + i - 1]
  <2>1. \A i \in 1..n : OldFormat + i - 1 \in Nat
    BY <1>2, StateDirAssumption
  <2>2. n \in Nat /\ s \in [1..n -> Nat]
    BY <1>2, <2>1
  <2> HIDE DEF n, s
  <2>3. s \in Seq(Nat)
    BY <2>2
  <2> QED BY <2>3 DEF s, n
<1>4. <<>> \in Seq(Kind) /\ <<>> \in Seq(BOOLEAN)
  OBVIOUS
<1>5. dir \in Dir
  BY <1>1, <1>2, <1>3, <1>4 DEF Dir
<1>6. \A w \in Command : cmd[w].pc = "rest"
  BY DEF StateInit, AtRest
<1>7. cmd = [w \in Command |-> cmd[w]] /\ \A w \in Command : CmdTypes(w)
  BY <1>6 DEF StateInit, CmdTypes
<1>8. StagedTypes /\ DOMAIN archives = {}
  BY DEF StateInit, StagedTypes
<1>9. clock \in Nat /\ {met, crossed} \subseteq BOOLEAN /\ carried \subseteq Item
  BY DEF StateInit
<1> QED BY <1>5, <1>7, <1>8, <1>9 DEF DirTypes

-----------------------------------------------------------------------------
(* A format means that the data has been through every step to it *)

\* The steps below format v are all there.
Reached(data, v) == OldFormat .. (v - 1) \subseteq ToSet(data)

Sound(d) == Reached(d.data, d.meta)

\* What is extracted is of one directory that is sound, as far as it is there.
OfOne(p) == (p.data # NoDir => Sound(p.data)) /\ p.head \in {NoDir, p.data}

\* What a command has in its hands: the directory that it converts has all the steps below,
\* and what it has extracted is there as it was archived.
Has(f, t) == IF t \in DOMAIN f THEN f[t] ELSE Nothing
Restoring == {"unpack", "aside", "place"}

Holding(c, f, d) ==
  /\ c.pc = "convert" => d \notin {NoDir, Broken} /\ Reached(d.data, c.v)
  /\ c.pc = "unpack" => Has(f, c.at) = [data |-> c.from, head |-> NoDir]
  /\ c.pc \in {"aside", "place"} => /\ Has(f, c.at).data # NoDir
                                   /\ Has(f, c.at).head = Has(f, c.at).data

\* While no restore was in the way of a migration or of another one of its second: the
\* directory and every copy of one are sound, and commands find what they left.
FormatInv ==
  ~crossed =>
    /\ There => Sound(dir)
    /\ \A t \in DOMAIN archives : Sound(archives[t].dir)
    /\ \A t \in DOMAIN staged : OfOne(staged[t])
    /\ \A w \in Command : Holding(cmd[w], staged, dir)
    /\ \A v, w \in Command : /\ v # w
                             /\ cmd[v].pc \in Restoring /\ cmd[w].pc \in Restoring
                             => cmd[v].at # cmd[w].at

LEMMA ReachedAppend ==
  ASSUME NEW s \in Seq(Nat), NEW x \in Nat, NEW v \in Int, Reached(s, v)
  PROVE  Reached(Append(s, x), v) /\ (x = v => Reached(Append(s, x), v + 1))
<1> DEFINE r == Append(s, x)
<1>1. ToSet(s) \subseteq ToSet(r) /\ x \in ToSet(r)
  <2>1. /\ DOMAIN s = 1 .. Len(s) /\ DOMAIN r = 1 .. Len(s) + 1 /\ Len(s) \in Nat
        /\ r[Len(s) + 1] = x
    OBVIOUS
  <2>2. \A i \in 1 .. Len(s) : r[i] = s[i]
    OBVIOUS
  <2> HIDE DEF r
  <2>3. \A i \in DOMAIN s : i \in DOMAIN r /\ r[i] = s[i]
    BY <2>1, <2>2
  <2>4. Len(s) + 1 \in DOMAIN r
    BY <2>1
  <2> QED BY <2>1, <2>3, <2>4 DEF ToSet
<1> HIDE DEF r
<1>2. Reached(r, v)
  BY <1>1 DEF Reached
<1>3. ASSUME x = v
      PROVE  Reached(r, v + 1)
  <2>1. OldFormat .. (v + 1 - 1) \subseteq (OldFormat .. (v - 1)) \cup {x}
    BY <1>3, StateDirAssumption
  <2> QED BY <1>1, <2>1 DEF Reached
<1> QED BY <1>2, <1>3 DEF r

LEMMA FormatThen ==
  ASSUME DirTypes, FormatInv, NEW u \in Command, NEW s, Step(u, s),
         ~crossed', ~crossed,
         There' => Sound(dir)',
         \A t \in DOMAIN archives' : Sound(archives'[t].dir),
         \A t \in DOMAIN staged' : OfOne(staged'[t]),
         Holding(s, staged', dir'),
         \A w \in Command : w # u => Holding(cmd[w], staged', dir'),
         s.pc \in Restoring =>
           \A w \in Command : w # u /\ cmd[w].pc \in Restoring => cmd[w].at # s.at
  PROVE  FormatInv'
<1>1. cmd'[u] = s /\ \A w \in Command : w # u => cmd'[w] = cmd[w]
  BY HandsOf
<1>2. \A w \in Command : Holding(cmd'[w], staged', dir')
  <2> TAKE w \in Command
  <2>1. CASE w = u
    BY <1>1, <2>1
  <2>2. CASE w # u
    BY <1>1, <2>2
  <2> QED BY <2>1, <2>2
<1>3. ASSUME NEW v \in Command, NEW w \in Command, v # w,
             cmd'[v].pc \in Restoring, cmd'[w].pc \in Restoring
      PROVE  cmd'[v].at # cmd'[w].at
  <2>1. CASE v = u
    BY <1>1, <1>3, <2>1
  <2>2. CASE w = u
    BY <1>1, <1>3, <2>2
  <2>3. CASE v # u /\ w # u
    BY <1>1, <1>3, <2>3 DEF FormatInv
  <2> QED BY <2>1, <2>2, <2>3
<1>4. (\A w \in Command : Holding(cmd[w], staged, dir))'
  BY <1>2 DEF Holding
<1> QED BY <1>3, <1>4 DEF FormatInv, Sound, OfOne, Reached, Restoring

\* A step that extracts nothing.
LEMMA FormatKept ==
  ASSUME DirTypes, FormatInv, NEW u \in Command, NEW s, Step(u, s),
         ~crossed', ~crossed, staged' = staged,
         There' => Sound(dir)',
         \A t \in DOMAIN archives' : Sound(archives'[t].dir),
         s.pc \notin Restoring,
         s.pc = "convert" => There' /\ Reached(dir'.data, s.v),
         \A w \in Command : cmd[w].pc = "convert" /\ w # u =>
           There' /\ Reached(dir'.data, cmd[w].v)
  PROVE  FormatInv'
<1>1. Holding(s, staged', dir')
  BY DEF Holding, Restoring, There
<1>2. \A w \in Command : w # u => Holding(cmd[w], staged', dir')
  BY DEF FormatInv, Holding, There
<1>3. \A t \in DOMAIN staged' : OfOne(staged'[t])
  BY DEF FormatInv
<1> QED BY <1>1, <1>2, <1>3, FormatThen

LEMMA PlainIsNoConvert ==
  ASSUME NEW s, s.pc \in Plain PROVE s.pc # "convert" /\ s.pc \notin Restoring
BY DEF Plain, Restoring

\* Under one second there is p now, and what there was under the others.
OnlyThere(t, p) ==
  /\ t \in DOMAIN staged' /\ staged'[t] = p /\ Has(staged', t) = p
  /\ \A k \in DOMAIN staged' : k # t => k \in DOMAIN staged /\ staged'[k] = staged[k]
  /\ \A k : k # t => Has(staged', k) = Has(staged, k)

LEMMA KeepIsOnlyThere ==
  ASSUME NEW t, NEW p, staged' = Keep(staged, t, p)
  PROVE  OnlyThere(t, p)
<1>1. DOMAIN staged' = DOMAIN staged \cup {t} /\ staged'[t] = p
      /\ \A k \in DOMAIN staged : k # t => staged'[k] = staged[k]
  BY DEF Keep
<1>2. \A k : k # t => Has(staged', k) = Has(staged, k)
  BY <1>1 DEF Has
<1> QED BY <1>1, <1>2 DEF OnlyThere, Has

\* Who restores has something there.
LEMMA HoldsSome ==
  ASSUME DirTypes, ~crossed, FormatInv, NEW v \in Command, cmd[v].pc \in Restoring
  PROVE  Has(staged, cmd[v].at).data # NoDir
<1>1. Holding(cmd[v], staged, dir)
  BY DEF FormatInv
<1>2. CASE cmd[v].pc = "unpack"
  <2>1. cmd[v].from \in Dir
    BY <1>2 DEF DirTypes, CmdTypes
  <2>2. [data |-> cmd[v].from, head |-> NoDir].data = cmd[v].from
    OBVIOUS
  <2> QED BY <1>1, <1>2, <2>1, <2>2, DirIsThere DEF Holding
<1>3. CASE cmd[v].pc \in {"aside", "place"}
  BY <1>1, <1>3 DEF Holding
<1> QED BY <1>2, <1>3 DEF Restoring

LEMMA HoldsStill ==
  ASSUME NEW c, NEW t, NEW p, OnlyThere(t, p), Holding(c, staged, dir), dir' = dir,
         c.pc \in Restoring => c.at # t
  PROVE  Holding(c, staged', dir')
BY DEF OnlyThere, Holding, Restoring

LEMMA FormatStep ==
  ASSUME DirTypes, FormatInv, DirTypes', [StateNext]_<<stateVars, budget>>
  PROVE  FormatInv'
<1> SUFFICES ASSUME ~crossed' PROVE FormatInv'
  BY DEF FormatInv, Holding, There
<1>1. ASSUME NEW w \in Command, Writes(w)
      PROVE  FormatInv'
  <2>1. PICK s : Step(w, s) /\ s.pc \in Plain
    BY <1>1 DEF Writes
  <2>2. /\ crossed' = crossed /\ archives' = archives /\ staged' = staged
        /\ dir \in Dir /\ dir' \in Dir /\ dir'.meta = dir.meta /\ dir'.data = dir.data
    BY <1>1 DEF Writes, treeVars
  <2>3. There /\ There'
    BY <2>2, DirIsThere DEF There
  <2>4. Sound(dir) /\ Sound(dir)'
    BY <2>2, <2>3 DEF FormatInv, Holding, There, Sound
  <2>5. /\ \A t \in DOMAIN archives' : Sound(archives'[t].dir)
        /\ \A v \in Command : cmd[v].pc = "convert" => There' /\ Reached(dir'.data, cmd[v].v)
    BY <2>2, <2>3 DEF FormatInv, Holding, There
  <2> QED BY <2>1, <2>2, <2>4, <2>5, FormatKept, PlainIsNoConvert
<1>2. ASSUME NEW w \in Command, Rests(w)
      PROVE  FormatInv'
  <2>1. PICK s : Step(w, s) /\ s.pc # "convert" /\ s.pc \notin Restoring
    BY <1>2 DEF Rests, Plain, Restoring
  <2>2. /\ crossed' = crossed /\ archives' = archives /\ staged' = staged /\ dir' = dir
    BY <1>2 DEF Rests, treeVars
  <2>3. /\ There' => Sound(dir)'
        /\ \A t \in DOMAIN archives' : Sound(archives'[t].dir)
        /\ \A v \in Command : cmd[v].pc = "convert" => There' /\ Reached(dir'.data, cmd[v].v)
    BY <2>2 DEF FormatInv, Holding, There, Sound
  <2> QED BY <2>1, <2>2, <2>3, FormatKept
<1>3. ASSUME NEW w \in Command, Saves(w)
      PROVE  FormatInv'
  <2>1. PICK s : Step(w, s) /\ (s.pc \in Plain \/ (s.pc = "convert" /\ s.v = dir.meta))
    BY <1>3 DEF Saves
  <2>2. /\ crossed' = crossed /\ staged' = staged /\ dir' = dir /\ There
    BY <1>3, DirIsThere DEF There, Saves
  <2>3. Sound(dir)
    BY <2>2 DEF FormatInv, Holding, There
  <2>4. \A t \in DOMAIN archives' : Sound(archives'[t].dir)
    BY <1>3, <2>2, <2>3 DEF FormatInv, Saves, KeepsArchives
  <2>5. s.pc = "convert" => There' /\ Reached(dir'.data, s.v)
    BY <2>1, <2>2, <2>3, PlainIsNoConvert DEF Sound, There
  <2>6. /\ Sound(dir)'
        /\ \A v \in Command : cmd[v].pc = "convert" => There' /\ Reached(dir'.data, cmd[v].v)
    BY <2>2, <2>3 DEF FormatInv, Holding, There, Sound
  <2>7. s.pc \notin Restoring
    BY <2>1, PlainIsNoConvert DEF Restoring
  <2> QED BY <2>1, <2>2, <2>4, <2>5, <2>6, <2>7, FormatKept
<1>4. ASSUME NEW w \in Command, Converts(w)
      PROVE  FormatInv'
  <2>1. /\ crossed' = crossed /\ archives' = archives /\ staged' = staged
        /\ dir \in Dir /\ dir' \in Dir /\ cmd[w].v \in Int /\ cmd[w].pc = "convert"
    BY <1>4, StateDirAssumption DEF Converts, treeVars, Format
  <2>2. There /\ There' /\ dir.data \in Seq(Nat) /\ dir.meta \in Int
    BY <2>1, DirIsThere DEF There, Dir, Format
  <2>3. /\ Sound(dir) /\ Reached(dir.data, cmd[w].v)
        /\ \A t \in DOMAIN archives' : Sound(archives'[t].dir)
        /\ \A v \in Command : cmd[v].pc = "convert" => Reached(dir.data, cmd[v].v)
    BY <2>1, <2>2 DEF FormatInv, Holding, There
  <2>4. \A v \in Command : cmd[v].pc = "convert" => cmd[v].v \in Int /\ cmd[v].v \in Nat
    BY StateDirAssumption DEF DirTypes, CmdTypes, Format
  <2>5. CASE /\ cmd[w].v < NewFormat
             /\ dir'.meta = dir.meta /\ dir'.data = Append(dir.data, cmd[w].v)
             /\ Step(w, [pc |-> "convert", v |-> cmd[w].v + 1])
    <3>1. Reached(dir'.data, cmd[w].v + 1)
      BY <2>1, <2>2, <2>3, <2>4, <2>5, ReachedAppend
    <3>2. Sound(dir)'
      BY <2>1, <2>2, <2>3, <2>4, <2>5, ReachedAppend DEF Sound
    <3>3. \A v \in Command : cmd[v].pc = "convert" => There' /\ Reached(dir'.data, cmd[v].v)
      BY <2>1, <2>2, <2>3, <2>4, <2>5, ReachedAppend
    <3> DEFINE s == [pc |-> "convert", v |-> cmd[w].v + 1]
    <3>4. Step(w, s) /\ Reached(dir'.data, s.v) /\ s.pc \notin Restoring
      BY <2>5, <3>1 DEF Restoring
    <3> HIDE DEF s
    <3> QED BY <2>1, <2>2, <2>3, <3>2, <3>3, <3>4, FormatKept
  <2>6. CASE /\ cmd[w].v = NewFormat
             /\ dir'.meta = NewFormat /\ dir'.data = dir.data
             /\ Step(w, [pc |-> "bumpmap"])
    <3>1. Sound(dir)'
      BY <2>3, <2>6 DEF Sound
    <3>2. \A v \in Command : cmd[v].pc = "convert" => There' /\ Reached(dir'.data, cmd[v].v)
      BY <2>2, <2>3, <2>6
    <3> DEFINE s == [pc |-> "bumpmap"]
    <3>3. Step(w, s) /\ s.pc # "convert" /\ s.pc \notin Restoring
      BY <2>6 DEF Restoring
    <3> HIDE DEF s
    <3> QED BY <2>1, <2>2, <2>3, <3>1, <3>2, <3>3, FormatKept
  <2> QED BY <1>4, <2>5, <2>6 DEF Converts
<1>5. ASSUME NEW w \in Command, NEW t \in DOMAIN archives, Extracts(w, t)
      PROVE  FormatInv'
  <2>1. PICK d \in Dir : d = archives[t].dir
    BY DEF DirTypes
  <2>2. ~crossed /\ Staged(clock) = Nothing /\ archives' = archives /\ dir' = dir
    BY <1>5 DEF Extracts
  <2>3. There' => Sound(dir)'
    BY <2>2 DEF FormatInv, There, Sound
  <2>4. \A k \in DOMAIN archives' : Sound(archives'[k].dir)
    BY <2>2 DEF FormatInv
  <2> DEFINE p == [data |-> d, head |-> NoDir]
  <2>5. staged' = Keep(staged, clock, p) /\ OfOne(p)
    <3>1. [Staged(clock) EXCEPT !.data = d] = p
      BY <2>2 DEF Nothing
    <3>2. Sound(d)
      BY <2>1, <2>2 DEF FormatInv
    <3> QED BY <1>5, <2>1, <3>1, <3>2 DEF Extracts, OfOne
  <2> HIDE DEF p
  <2>6. OnlyThere(clock, p)
    BY <2>5, KeepIsOnlyThere
  <2>7. \A v \in Command : cmd[v].pc \in Restoring => cmd[v].at # clock
    BY <2>2, HoldsSome, NothingIs DEF FormatInv, Has, Staged
  <2>8. \A v \in Command : v # w => Holding(cmd[v], staged', dir')
    BY <2>2, <2>6, <2>7, HoldsStill DEF FormatInv
  <2>9. \A k \in DOMAIN staged' : OfOne(staged'[k])
    BY <2>2, <2>5, <2>6 DEF OnlyThere, FormatInv
  <2> DEFINE x == [pc |-> "unpack", at |-> clock, from |-> d]
  <2>10. x.pc = "unpack" /\ x.at = clock /\ Holding(x, staged', dir')
    <3>1. Has(staged', clock) = [data |-> d, head |-> NoDir]
      BY <2>6 DEF OnlyThere, p
    <3> QED BY <3>1 DEF Holding
  <2>11. AtRest.pc = "rest" /\ Holding(AtRest, staged', dir')
    BY DEF AtRest, Holding
  <2> HIDE DEF x
  <2>12. CASE Step(w, x)
    BY <1>5, <2>2, <2>3, <2>4, <2>7, <2>8, <2>9, <2>10, <2>12, FormatThen
  <2>13. CASE Step(w, AtRest)
    BY <1>5, <2>2, <2>3, <2>4, <2>8, <2>9, <2>11, <2>13, FormatThen DEF Restoring
  <2> QED BY <1>5, <2>1, <2>12, <2>13 DEF Extracts, x
<1>6. ASSUME NEW w \in Command, Unpack(w)
      PROVE  FormatInv'
  <2> DEFINE a == cmd[w].at
             d == cmd[w].from
  <2>1. /\ ~crossed /\ archives' = archives /\ dir' = dir
        /\ cmd[w].pc = "unpack" /\ cmd[w].pc \in Restoring /\ d \in Dir
    BY <1>6 DEF Unpack, DirTypes, CmdTypes, Restoring
  <2>2. Has(staged, a) = [data |-> d, head |-> NoDir]
    BY <2>1 DEF FormatInv, Holding
  <2>3. There' => Sound(dir)'
    BY <2>1 DEF FormatInv, There, Sound
  <2>4. \A k \in DOMAIN archives' : Sound(archives'[k].dir)
    BY <2>1 DEF FormatInv
  <2> DEFINE p == [data |-> d, head |-> d]
  <2>5. staged' = Keep(staged, a, p) /\ OfOne(p) /\ p.data # NoDir /\ p.head = p.data
    <3>1. [Staged(a) EXCEPT !.head = d] = p
      BY <2>2 DEF Staged, Has
    <3>2. a \in DOMAIN staged /\ staged[a].data = d /\ d # NoDir
      BY <2>1, <2>2, DirIsThere DEF Has, Nothing
    <3>3. Sound(d)
      BY <2>1, <3>2 DEF FormatInv, OfOne
    <3> QED BY <1>6, <3>1, <3>2, <3>3 DEF Unpack, OfOne
  <2> HIDE DEF p
  <2>6. OnlyThere(a, p)
    BY <2>5, KeepIsOnlyThere
  <2>7. \A v \in Command : v # w /\ cmd[v].pc \in Restoring => cmd[v].at # a
    BY <2>1 DEF FormatInv
  <2> DEFINE s == [pc |-> "aside", at |-> a]
  <2>8. Step(w, s) /\ s.pc = "aside" /\ s.at = a
    BY <1>6 DEF Unpack
  <2> HIDE DEF a, d, s
  <2>9. \A v \in Command : v # w => Holding(cmd[v], staged', dir')
    BY <2>1, <2>6, <2>7, HoldsStill DEF FormatInv
  <2>10. \A k \in DOMAIN staged' : OfOne(staged'[k])
    BY <2>1, <2>5, <2>6 DEF OnlyThere, FormatInv
  <2>11. Holding(s, staged', dir')
    <3>1. Has(staged', a) = p
      BY <2>6 DEF OnlyThere
    <3> QED BY <2>5, <2>8, <3>1 DEF Holding
  <2> QED BY <2>1, <2>3, <2>4, <2>7, <2>8, <2>9, <2>10, <2>11, FormatThen
<1>7. ASSUME NEW w \in Command, Clears(w)
      PROVE  FormatInv'
  <2>1. archives' = archives /\ staged' = staged /\ cmd[w].pc = "aside"
        /\ cmd[w].pc \in Restoring
    BY <1>7 DEF Clears, Restoring
  <2>2. CASE UNCHANGED <<dir, aside, had, crossed>> /\ Step(w, AtRest)
    <3>1. AtRest.pc # "convert" /\ AtRest.pc \notin Restoring
      BY DEF AtRest, Restoring
    <3>2. /\ There' => Sound(dir)'
          /\ \A k \in DOMAIN archives' : Sound(archives'[k].dir)
          /\ \A v \in Command : cmd[v].pc = "convert" => There' /\ Reached(dir'.data, cmd[v].v)
      BY <2>1, <2>2 DEF FormatInv, Holding, There, Sound
    <3> QED BY <2>1, <2>2, <3>1, <3>2, FormatKept
  <2>3. CASE /\ dir' = NoDir
             /\ crossed' = (crossed \/ \E v \in Command : cmd[v].pc \in {"convert", "bumpmap"})
             /\ Step(w, [pc |-> "place", at |-> cmd[w].at])
    <3>1. ~crossed /\ ~There' /\ \A v \in Command : cmd[v].pc # "convert"
      BY <2>3 DEF There
    <3> DEFINE s == [pc |-> "place", at |-> cmd[w].at]
    <3>2. Step(w, s) /\ s.pc = "place" /\ s.at = cmd[w].at
      BY <2>3
    <3> HIDE DEF s
    <3>3. Holding(s, staged', dir')
      BY <2>1, <3>1, <3>2 DEF FormatInv, Holding
    <3>4. \A v \in Command : v # w => Holding(cmd[v], staged', dir')
      BY <2>1, <3>1 DEF FormatInv, Holding
    <3>5. /\ \A k \in DOMAIN archives' : Sound(archives'[k].dir)
          /\ \A k \in DOMAIN staged' : OfOne(staged'[k])
          /\ \A v \in Command : v # w /\ cmd[v].pc \in Restoring => cmd[v].at # s.at
      BY <2>1, <3>1, <3>2 DEF FormatInv
    <3> QED BY <3>1, <3>2, <3>3, <3>4, <3>5, FormatThen
  <2> QED BY <1>7, <2>2, <2>3 DEF Clears
<1>8. ASSUME NEW w \in Command, Places(w)
      PROVE  FormatInv'
  <2>1. /\ ~crossed /\ archives' = archives
        /\ cmd[w].pc = "place" /\ cmd[w].pc \in Restoring
    BY <1>8 DEF Places, Restoring
  <2>2. \A k \in DOMAIN archives' : Sound(archives'[k].dir)
    BY <2>1 DEF FormatInv
  <2>3. CASE /\ dir = NoDir
             /\ dir' = Assembled(Staged(cmd[w].at))
             /\ staged' = Keep(staged, cmd[w].at, Nothing)
             /\ Step(w, [pc |-> "restored"])
    <3> DEFINE a == cmd[w].at
    <3>1. Has(staged, a).data # NoDir /\ Has(staged, a).head = Has(staged, a).data
      BY <2>1 DEF FormatInv, Holding
    <3>2. Sound(dir)'
      <4>1. Staged(a) \in Parts /\ Staged(a) = Has(staged, a)
        BY StagedIs DEF DirTypes, Staged, Has
      <4>2. dir' = Staged(a).data
        BY <2>3, <3>1, <4>1, AssembledIs
      <4>3. a \in DOMAIN staged /\ staged[a] = Staged(a)
        BY <3>1, <4>1, NothingIs DEF Has
      <4>4. Sound(Staged(a).data)
        BY <2>1, <3>1, <4>1, <4>3 DEF FormatInv, OfOne
      <4> QED BY <4>2, <4>4 DEF Sound
    <3>3. OnlyThere(a, Nothing)
      BY <2>3, KeepIsOnlyThere
    <3>4. \A v \in Command : v # w /\ cmd[v].pc \in Restoring => cmd[v].at # a
      BY <2>1 DEF FormatInv
    <3>5. \A v \in Command : cmd[v].pc # "convert"
      BY <2>1, <2>3 DEF FormatInv, Holding
    <3> HIDE DEF a
    <3>6. \A v \in Command : v # w => Holding(cmd[v], staged', dir')
      <4> TAKE v \in Command
      <4> HAVE v # w
      <4>1. CASE cmd[v].pc \in Restoring
        <5>1. Has(staged', cmd[v].at) = Has(staged, cmd[v].at)
          BY <3>3, <3>4, <4>1 DEF OnlyThere
        <5> QED BY <2>1, <3>5, <5>1 DEF FormatInv, Holding
      <4>2. CASE cmd[v].pc \notin Restoring
        BY <3>5, <4>2 DEF Holding, Restoring
      <4> QED BY <4>1, <4>2
    <3>7. \A k \in DOMAIN staged' : OfOne(staged'[k])
      BY <2>1, <3>3, NothingIs DEF OnlyThere, FormatInv, OfOne
    <3> DEFINE s == [pc |-> "restored"]
    <3>8. Step(w, s) /\ s.pc \notin Restoring /\ Holding(s, staged', dir')
      BY <2>3 DEF Restoring, Holding
    <3> HIDE DEF s
    <3> QED BY <2>1, <2>2, <3>2, <3>6, <3>7, <3>8, FormatThen
  <2>4. CASE UNCHANGED <<dir, staged, carried>> /\ Step(w, AtRest)
    <3>1. AtRest.pc # "convert" /\ AtRest.pc \notin Restoring
      BY DEF AtRest, Restoring
    <3>2. /\ There' => Sound(dir)'
          /\ \A v \in Command : cmd[v].pc = "convert" => There' /\ Reached(dir'.data, cmd[v].v)
      BY <2>1, <2>4 DEF FormatInv, Holding, There, Sound
    <3> QED BY <2>1, <2>2, <2>4, <3>1, <3>2, FormatKept
  <2> QED BY <1>8, <2>3, <2>4 DEF Places
<1>9. CASE Passes
  BY <1>9 DEF Passes, FormatInv, Holding, OfOne, There, treeVars, Sound, Reached, Has, Restoring
<1> QED BY <1>1, <1>2, <1>3, <1>4, <1>5, <1>6, <1>7, <1>8, <1>9, StateSteps

LEMMA FormatInit ==
  ASSUME StateInit
  PROVE  FormatInv
<1>1. PICK v \in {OldFormat, NewFormat} :
        dir = [meta |-> v, map |-> v,
               data |-> [i \in 1..(v - OldFormat) |-> OldFormat + i - 1],
               self |-> {}, events |-> <<>>, stored |-> <<>>]
  BY DEF StateInit
<1>2. v \in Int /\ OldFormat \in Int
  BY StateDirAssumption
<1>3. /\ dir.meta = v
      /\ DOMAIN dir.data = 1..(v - OldFormat)
      /\ \A i \in 1..(v - OldFormat) : dir.data[i] = OldFormat + i - 1
  BY <1>1
<1>4. Sound(dir)
  <2>1. ASSUME NEW k \in OldFormat .. (v - 1)
        PROVE  k \in ToSet(dir.data)
    <3>1. k - OldFormat + 1 \in 1..(v - OldFormat) /\ OldFormat + (k - OldFormat + 1) - 1 = k
      BY <1>2
    <3>2. dir.data[k - OldFormat + 1] = k
      BY <1>3, <3>1
    <3> QED BY <1>3, <3>1, <3>2 DEF ToSet
  <2> QED BY <1>3, <2>1 DEF Sound, Reached
<1>5. \A w \in Command : cmd[w].pc = "rest"
  BY DEF StateInit, AtRest
<1>6. DOMAIN archives = {} /\ DOMAIN staged = {}
  BY DEF StateInit
<1> QED BY <1>4, <1>5, <1>6 DEF FormatInv, Holding, Restoring

-----------------------------------------------------------------------------
(* What was replaced is there *)

LEMMA LostStep ==
  ASSUME DirTypes, NothingIsLost, [StateNext]_<<stateVars, budget>>
  PROVE  NothingIsLost'
<1>1. CASE UNCHANGED <<aside, archives, had>>
  BY <1>1 DEF NothingIsLost
<1>2. ASSUME NEW w \in Command, Writes(w) \/ Rests(w) \/ Converts(w) \/ Places(w)
      PROVE  UNCHANGED <<aside, archives, had>>
  BY <1>2 DEF Writes, Rests, Converts, Places, treeVars
<1>3. CASE Passes
  BY <1>1, <1>3 DEF Passes, treeVars
<1>4. ASSUME NEW w \in Command, Saves(w)
      PROVE  NothingIsLost'
  <2>1. KeepsArchives /\ aside' = aside
    BY <1>4 DEF Saves
  <2>2. ASSUME NEW d \in had
        PROVE  \/ \E t \in DOMAIN aside' : aside'[t] = d
               \/ \E t \in DOMAIN archives' : archives'[t] = Full(d)
    BY <2>1, <2>2 DEF NothingIsLost, KeepsArchives
  <2>3. \A d \in had' : d \in had \/ \E t \in DOMAIN archives' : archives'[t] = Full(d)
    BY <1>4 DEF Saves
  <2> QED BY <2>2, <2>3 DEF NothingIsLost
<1>5. ASSUME NEW w \in Command, Unpack(w) \/ \E t \in DOMAIN archives : Extracts(w, t)
      PROVE  UNCHANGED <<aside, archives, had>>
  BY <1>5 DEF Unpack, Extracts
<1>6. ASSUME NEW w \in Command, Clears(w)
      PROVE  NothingIsLost'
  <2>1. CASE UNCHANGED <<aside, had>>
    BY <1>1, <1>6, <2>1 DEF Clears
  <2>2. CASE /\ cmd[w].at \notin DOMAIN aside
             /\ aside' = Keep(aside, cmd[w].at, dir)
             /\ had' = had \cup {dir}
    <3> DEFINE a == cmd[w].at
    <3>1. /\ DOMAIN aside' = DOMAIN aside \cup {a} /\ aside'[a] = dir
          /\ \A t \in DOMAIN aside : aside'[t] = aside[t]
      BY <2>2 DEF Keep
    <3> HIDE DEF a
    <3> QED BY <1>6, <2>2, <3>1 DEF Clears, NothingIsLost
  <2> QED BY <1>6, <2>1, <2>2 DEF Clears
<1> QED BY <1>1, <1>2, <1>3, <1>4, <1>5, <1>6, StateSteps

\* A directory whose meta.json has the new format has been through every step, also when
\* migrations ran together, died and were begun again, and copies were restored: as long as no
\* restore took the directory away from a migration (migrate.py, migrate) or was begun where
\* another one of its second had files (cli.py, cmd_restore).  And what migrate and restore
\* replaced is in an archive as a whole or aside (state.py, create_backup).
THEOREM ChangesAlwaysSafe == StateSpec => []ChangesAreSafe
<1>1. StateInit => DirTypes /\ FormatInv /\ NothingIsLost
  <2>1. StateInit => NothingIsLost
    BY DEF StateInit, NothingIsLost
  <2> QED BY <2>1, DirTypesInit, FormatInit
<1>2. DirTypes /\ FormatInv /\ NothingIsLost /\ [StateNext]_<<stateVars, budget>>
        => (DirTypes /\ FormatInv /\ NothingIsLost)'
  BY DirTypesStep, FormatStep, LostStep
<1>3. DirTypes /\ FormatInv /\ NothingIsLost => ChangesAreSafe
  <2> SUFFICES ASSUME FormatInv PROVE FormatMeansConverted
    BY DEF ChangesAreSafe
  <2>1. ASSUME There, dir.meta = NewFormat, ~crossed
        PROVE  OldFormat .. (NewFormat - 1) \subseteq ToSet(dir.data)
    BY <2>1 DEF FormatInv, Sound, Reached
  <2> QED BY <2>1 DEF FormatMeansConverted
<1> QED BY <1>1, <1>2, <1>3, PTL DEF StateSpec

\* Every state of the directory has its types.
THEOREM StateDirTypesHold == StateSpec => []StateDirTypeOK
<1>1. DirTypes => StateDirTypeOK
  BY DEF DirTypes, StateDirTypeOK, There, Dir, Format
<1> QED BY <1>1, DirTypesInit, DirTypesStep, PTL DEF StateSpec

-----------------------------------------------------------------------------
(* Events since the last success *)

Seqs == Seq(Kind)

\* A set of numbers below a bound has a highest one.
LEMMA HighestExists ==
  ASSUME NEW N \in Nat, NEW S \in SUBSET (0 .. N), S # {}
  PROVE  \E n \in S : \A k \in S : k <= n
<1> DEFINE T == {N - n : n \in S}
<1>1. T \subseteq Nat /\ T # {}
  <2>1. PICK n \in S : TRUE
    OBVIOUS
  <2>2. N - n \in T
    BY <2>1
  <2>3. \A k \in S : N - k \in Nat
    OBVIOUS
  <2> QED BY <2>2, <2>3
<1>2. PICK m \in T : \A k \in T : ~ (<<k, m>> \in OpToRel(<, Nat))
  BY <1>1, NatLessThanWellFounded, WFMin
<1>3. \A k \in T : ~ (k < m)
  BY <1>1, <1>2 DEF OpToRel
<1>4. PICK n \in S : m = N - n
  OBVIOUS
<1>5. \A k \in S : k <= n
  <2> TAKE k \in S
  <2>1. N - k \in T
    OBVIOUS
  <2>2. ~ (N - k < N - n)
    BY <2>1, <1>3, <1>4
  <2>3. k \in Int /\ n \in Int /\ N \in Int
    OBVIOUS
  <2> HIDE DEF T
  <2> QED BY <2>2, <2>3
<1> QED BY <1>5

\* Where the events since the last success begin.
Resetting(s) == {i \in DOMAIN s : s[i] \in Resets}
Begin(s) == LET S == Resetting(s)
            IN IF S = {} THEN 1 ELSE 1 + CHOOSE i \in S : \A j \in S : j <= i

LEMMA SinceIs == ASSUME NEW s PROVE SinceSuccess(s) = SubSeq(s, Begin(s), Len(s))
BY DEF SinceSuccess, Begin, Resetting

LEMMA BeginIs ==
  ASSUME NEW s \in Seqs
  PROVE  /\ Begin(s) \in 1 .. (Len(s) + 1)
         /\ Resetting(s) # {} => /\ Begin(s) - 1 \in Resetting(s)
                                 /\ \A j \in Resetting(s) : j <= Begin(s) - 1
<1> DEFINE S == Resetting(s)
<1>1. S \subseteq 1 .. Len(s) /\ Len(s) \in Nat
  BY DEF Resetting, Seqs
<1>2. CASE S = {}
  BY <1>1, <1>2 DEF Begin
<1>3. CASE S # {}
  <2>1. \E i \in S : \A j \in S : j <= i
    <3>1. S \in SUBSET (0 .. Len(s))
      BY <1>1
    <3> HIDE DEF S
    <3> QED BY <1>1, <1>3, <3>1, HighestExists
  <2> DEFINE m == CHOOSE i \in S : \A j \in S : j <= i
  <2>2. m \in S /\ \A j \in S : j <= m
    BY <2>1
  <2>3. Begin(s) = 1 + m
    BY <1>3 DEF Begin
  <2> HIDE DEF m, S
  <2>4. m \in 1 .. Len(s) /\ Begin(s) - 1 = m
    BY <1>1, <2>2, <2>3
  <2> QED BY <1>1, <2>2, <2>3, <2>4 DEF S
<1> QED BY <1>2, <1>3

LEMMA ResettingAppend ==
  ASSUME NEW s \in Seqs, NEW k \in Kind
  PROVE  Resetting(Append(s, k)) =
           IF k \in Resets THEN Resetting(s) \cup {Len(s) + 1} ELSE Resetting(s)
<1> DEFINE r == Append(s, k)
           n == Len(s)
<1>1. n \in Nat /\ DOMAIN s = 1 .. n /\ DOMAIN r = 1 .. (n + 1) /\ r[n + 1] = k
  BY DEF Seqs
<1>2. \A i \in 1 .. n : r[i] = s[i]
  BY DEF Seqs
<1> HIDE DEF r, n
<1>3. \A i : i \in Resetting(r) <=> i \in Resetting(s) \/ (i = n + 1 /\ k \in Resets)
  <2> TAKE i
  <2>1. i \in Resetting(r) <=> i \in 1 .. (n + 1) /\ r[i] \in Resets
    BY <1>1 DEF Resetting
  <2>2. i \in Resetting(s) <=> i \in 1 .. n /\ s[i] \in Resets
    BY <1>1 DEF Resetting
  <2>3. i \in 1 .. (n + 1) <=> i \in 1 .. n \/ i = n + 1
    BY <1>1
  <2>4. ~ (n + 1 \in 1 .. n)
    BY <1>1
  <2> QED BY <1>1, <1>2, <2>1, <2>2, <2>3, <2>4
<1> QED BY <1>3 DEF r, n

LEMMA SinceReset ==
  ASSUME NEW s \in Seqs, NEW k \in Kind, k \in Resets
  PROVE  SinceSuccess(Append(s, k)) = <<>>
<1> DEFINE r == Append(s, k)
           n == Len(s)
<1>1. n \in Nat /\ r \in Seqs /\ Len(r) = n + 1
  BY DEF Seqs
<1>2. Resetting(r) = Resetting(s) \cup {n + 1}
  BY ResettingAppend
<1> HIDE DEF r, n
<1>3. Begin(r) \in 1 .. (n + 2) /\ n + 1 <= Begin(r) - 1
  BY <1>1, <1>2, BeginIs
<1>4. Begin(r) = n + 2
  BY <1>1, <1>3
<1>5. SinceSuccess(r) = SubSeq(r, n + 2, n + 1)
  BY <1>1, <1>4, SinceIs
<1>6. SubSeq(r, n + 2, n + 1) = <<>>
  BY <1>1 DEF Seqs
<1> QED BY <1>5, <1>6 DEF r

LEMMA SinceGrows ==
  ASSUME NEW s \in Seqs, NEW k \in Kind, k \notin Resets
  PROVE  SinceSuccess(Append(s, k)) = Append(SinceSuccess(s), k)
<1> DEFINE r == Append(s, k)
           n == Len(s)
           b == Begin(s)
<1>1. n \in Nat /\ r \in Seqs /\ Len(r) = n + 1 /\ r[n + 1] = k
  BY DEF Seqs
<1>2. \A i \in 1 .. n : r[i] = s[i]
  BY DEF Seqs
<1>3. Resetting(r) = Resetting(s)
  BY ResettingAppend
<1>4. Begin(r) = b /\ b \in 1 .. (n + 1)
  BY <1>3, BeginIs DEF Begin
<1>5. SinceSuccess(r) = SubSeq(r, b, n + 1) /\ SinceSuccess(s) = SubSeq(s, b, n)
  BY <1>1, <1>4, SinceIs
<1> HIDE DEF r, n, b
<1>6. SubSeq(r, b, n + 1) = Append(SubSeq(s, b, n), k)
  <2> DEFINE p == SubSeq(r, b, n + 1)
             q == Append(SubSeq(s, b, n), k)
  <2>1. p \in Seq(Kind) /\ Len(p) = n + 2 - b /\ \A i \in 1 .. (n + 2 - b) : p[i] = r[b + i - 1]
    <3>1. \A i \in b .. (n + 1) : r[i] \in Kind
      BY <1>1, <1>4 DEF Seqs
    <3> QED BY <1>1, <1>4, <3>1 DEF Seqs
  <2>2. /\ SubSeq(s, b, n) \in Seq(Kind) /\ Len(SubSeq(s, b, n)) = n + 1 - b
        /\ \A i \in 1 .. (n + 1 - b) : SubSeq(s, b, n)[i] = s[b + i - 1]
    <3>1. s \in Seq(Kind) /\ n = Len(s) /\ \A i \in b .. n : s[i] \in Kind
      BY <1>4 DEF Seqs, n
    <3> QED BY <1>1, <1>4, <3>1
  <2>3. q \in Seq(Kind) /\ Len(q) = n + 2 - b /\ q[n + 2 - b] = k
        /\ \A i \in 1 .. (n + 1 - b) : q[i] = s[b + i - 1]
    <3> DEFINE m == SubSeq(s, b, n)
    <3>1. n + 1 - b \in Nat /\ n + 2 - b = (n + 1 - b) + 1
      BY <1>1, <1>4
    <3> HIDE DEF m
    <3> QED BY <2>2, <3>1 DEF m
  <2> HIDE DEF p, q
  <2>4. \A i \in 1 .. (n + 2 - b) : p[i] = q[i]
    <3> TAKE i \in 1 .. (n + 2 - b)
    <3>1. CASE i = n + 2 - b
      BY <1>1, <1>4, <2>1, <2>3, <3>1
    <3>2. CASE i # n + 2 - b
      <4>1. i \in 1 .. (n + 1 - b) /\ b + i - 1 \in 1 .. n
        BY <1>1, <1>4, <3>2
      <4> QED BY <1>2, <2>1, <2>3, <4>1
    <3> QED BY <3>1, <3>2
  <2>5. p = q
    BY <2>1, <2>3, <2>4, SeqEqual
  <2> QED BY <2>5 DEF p, q
<1> QED BY <1>5, <1>6 DEF r

LEMMA CountIs ==
  ASSUME NEW s \in Seqs, NEW kind
  PROVE  Count(s, kind) \in Nat /\ IsFiniteSet({i \in DOMAIN s : s[i] = kind})
<1> DEFINE S == {i \in DOMAIN s : s[i] = kind}
<1>1. S \subseteq 1 .. Len(s) /\ Len(s) \in Int /\ 1 \in Int
  BY DEF Seqs
<1>2. IsFiniteSet(1 .. Len(s))
  BY <1>1, FS_Interval
<1>3. IsFiniteSet(S)
  BY <1>1, <1>2, FS_Subset
<1> QED BY <1>3, FS_CardinalityType DEF Count

LEMMA CountAppend ==
  ASSUME NEW s \in Seqs, NEW k \in Kind, NEW kind
  PROVE  Count(Append(s, k), kind) = IF k = kind THEN Count(s, kind) + 1 ELSE Count(s, kind)
<1> DEFINE r == Append(s, k)
           n == Len(s)
           S == {i \in DOMAIN s : s[i] = kind}
           T == {i \in DOMAIN r : r[i] = kind}
<1>1. n \in Nat /\ DOMAIN s = 1 .. n /\ DOMAIN r = 1 .. (n + 1) /\ r[n + 1] = k
  BY DEF Seqs
<1>2. \A i \in 1 .. n : r[i] = s[i]
  BY DEF Seqs
<1>3. IsFiniteSet(S)
  BY CountIs
<1> HIDE DEF r, n
<1>4. T = IF k = kind THEN S \cup {n + 1} ELSE S
  <2>1. \A i : i \in T <=> i \in S \/ (i = n + 1 /\ k = kind)
    <3> TAKE i
    <3>1. i \in 1 .. (n + 1) <=> i \in 1 .. n \/ i = n + 1
      BY <1>1
    <3>2. ~ (n + 1 \in 1 .. n)
      BY <1>1
    <3> QED BY <1>1, <1>2, <3>1, <3>2
  <2> QED BY <2>1
<1>5. n + 1 \notin S
  BY <1>1
<1>6. Count(s, kind) = Cardinality(S) /\ Count(r, kind) = Cardinality(T)
  BY DEF Count
<1>7. Cardinality(S \cup {n + 1}) = Cardinality(S) + 1
  <2> HIDE DEF S
  <2> QED BY <1>3, <1>5, FS_AddElement
<1> HIDE DEF S, T
<1>8. Count(r, kind) = IF k = kind THEN Count(s, kind) + 1 ELSE Count(s, kind)
  BY <1>4, <1>6, <1>7
<1> QED BY <1>8 DEF r

LEMMA SinceType == ASSUME NEW s \in Seqs PROVE SinceSuccess(s) \in Seqs
<1>1. SinceSuccess(s) = SubSeq(s, Begin(s), Len(s)) /\ Begin(s) \in 1 .. (Len(s) + 1)
  BY SinceIs, BeginIs
<1>2. Len(s) \in Nat /\ \A i \in 1 .. Len(s) : s[i] \in Kind
  BY DEF Seqs
<1>3. \A i \in Begin(s) .. Len(s) : s[i] \in Kind
  BY <1>1, <1>2
<1>4. SubSeq(s, Begin(s), Len(s)) \in Seq(Kind)
  BY <1>1, <1>2, <1>3 DEF Seqs
<1> QED BY <1>1, <1>4 DEF Seqs

\* Notices and refusals since the last success.
Notices(ev) == Count(SinceSuccess(ev), "guard_streak")
Refusals(ev) == Count(SinceSuccess(ev), "guard_block")

LEMMA EventThen ==
  ASSUME NEW ev \in Seqs
  PROVE  /\ Notices(ev) \in Nat /\ Refusals(ev) \in Nat
         /\ Notices(Append(ev, "guard_block")) = Notices(ev)
         /\ Refusals(Append(ev, "guard_block")) = Refusals(ev) + 1
         /\ Notices(Append(ev, "guard_streak")) = Notices(ev) + 1
         /\ Refusals(Append(ev, "guard_streak")) = Refusals(ev)
         /\ \A k \in Resets : Notices(Append(ev, k)) = 0 /\ Refusals(Append(ev, k)) = 0
         /\ \A k \in {"backup", "migrate", "restore"} :
               Notices(Append(ev, k)) = Notices(ev) /\ Refusals(Append(ev, k)) = Refusals(ev)
<1>1. SinceSuccess(ev) \in Seqs
  BY SinceType
<1>2. Notices(ev) \in Nat /\ Refusals(ev) \in Nat
  BY <1>1, CountIs DEF Notices, Refusals
<1>3. ASSUME NEW k \in Kind, k \notin Resets
      PROVE  /\ Notices(Append(ev, k)) = IF k = "guard_streak" THEN Notices(ev) + 1 ELSE Notices(ev)
             /\ Refusals(Append(ev, k)) = IF k = "guard_block" THEN Refusals(ev) + 1 ELSE Refusals(ev)
  <2>1. SinceSuccess(Append(ev, k)) = Append(SinceSuccess(ev), k)
    BY <1>3, SinceGrows
  <2> QED BY <1>1, <2>1, CountAppend DEF Notices, Refusals
<1>4. /\ {"guard_block", "guard_streak", "backup", "migrate", "restore"} \subseteq Kind
      /\ \A k \in {"guard_block", "guard_streak", "backup", "migrate", "restore"} : k \notin Resets
      /\ Resets \subseteq Kind
  BY DEF Kind, Resets
<1>5. ASSUME NEW k \in Resets
      PROVE  Notices(Append(ev, k)) = 0 /\ Refusals(Append(ev, k)) = 0
  <2>1. SinceSuccess(Append(ev, k)) = <<>>
    BY <1>4, SinceReset
  <2>2. \A kind : Count(<<>>, kind) = 0
    <3> TAKE kind
    <3>1. {i \in DOMAIN <<>> : <<>>[i] = kind} = {}
      OBVIOUS
    <3> QED BY <3>1, FS_EmptySet DEF Count
  <2> QED BY <2>1, <2>2 DEF Notices, Refusals
<1>6. /\ Notices(Append(ev, "guard_block")) = Notices(ev)
      /\ Refusals(Append(ev, "guard_block")) = Refusals(ev) + 1
  BY <1>3, <1>4
<1>7. /\ Notices(Append(ev, "guard_streak")) = Notices(ev) + 1
      /\ Refusals(Append(ev, "guard_streak")) = Refusals(ev)
  BY <1>3, <1>4
<1>8. \A k \in {"backup", "migrate", "restore"} :
        Notices(Append(ev, k)) = Notices(ev) /\ Refusals(Append(ev, k)) = Refusals(ev)
  BY <1>3, <1>4
<1> QED BY <1>2, <1>5, <1>6, <1>7, <1>8

-----------------------------------------------------------------------------
(* Commands in turn *)

Fits(ev) == /\ Notices(ev) > 0 <=> Refusals(ev) >= StreakN
            /\ Notices(ev) <= 1

\* What a command that is under way still has to say about the streak.
Owed(pc, ev) ==
  /\ pc = "mark" => /\ Notices(ev) > 0 <=> Refusals(ev) - 1 >= StreakN
                    /\ Notices(ev) <= 1
  /\ pc = "notify" => Refusals(ev) >= StreakN /\ Notices(ev) = 0
  /\ pc \notin {"mark", "notify"} => Fits(ev)

\* The events of a directory are in its data part.
DataFits(p) == p.data # NoDir => Fits(p.data.events)

TurnInv ==
  ~met =>
    /\ \A v, w \in Command : cmd[v] # AtRest /\ cmd[w] # AtRest => v = w
    /\ \A t \in DOMAIN archives : Fits(archives[t].dir.events)
    /\ \A t \in DOMAIN staged : DataFits(staged[t])
    /\ There => /\ (\A w \in Command : cmd[w] = AtRest) => Fits(dir.events)
                /\ \A w \in Command : cmd[w] # AtRest => Owed(cmd[w].pc, dir.events)
                /\ carried \subseteq dir.self
                /\ \A w \in Command : cmd[w].pc = "writeself" =>
                     cmd[w].self = Reflected(dir.self, cmd[w].add, cmd[w].resolve)

LEMMA StartsAlone ==
  ASSUME TurnInv, met \in BOOLEAN, NEW u \in Command, Starts(u), ~met'
  PROVE  /\ ~met
         /\ \A v \in Command : cmd[v] = AtRest
         /\ There => Fits(dir.events) /\ carried \subseteq dir.self
BY DEF Starts, TurnInv

LEMMA GoesOnAlone ==
  ASSUME TurnInv, NEW u \in Command, cmd[u].pc # "rest", met' = met, ~met'
  PROVE  /\ ~met
         /\ \A v \in Command : v # u => cmd[v] = AtRest
         /\ There => Owed(cmd[u].pc, dir.events) /\ carried \subseteq dir.self
<1>1. cmd[u] # AtRest
  BY DEF AtRest
<1> QED BY <1>1 DEF TurnInv

LEMMA TurnThen ==
  ASSUME DirTypes, TurnInv, NEW u \in Command, NEW s, Step(u, s), ~met,
         \A v \in Command : v # u => cmd[v] = AtRest,
         \A t \in DOMAIN staged' : DataFits(staged'[t]),
         \A t \in DOMAIN archives' : Fits(archives'[t].dir.events),
         There' => /\ Owed(s.pc, dir'.events)
                   /\ carried' \subseteq dir'.self
                   /\ s.pc = "writeself" => s.self = Reflected(dir'.self, s.add, s.resolve)
  PROVE  TurnInv'
<1>1. cmd'[u] = s /\ \A v \in Command : v # u => cmd'[v] = AtRest
  BY HandsOf
<1>2. AtRest.pc = "rest"
  BY DEF AtRest
<1>3. \A v, w \in Command : cmd'[v] # AtRest /\ cmd'[w] # AtRest => v = w
  BY <1>1
<1>5. ASSUME There'
      PROVE  /\ (\A w \in Command : cmd'[w] = AtRest) => Fits(dir'.events)
             /\ \A w \in Command : cmd'[w] # AtRest => Owed(cmd'[w].pc, dir'.events)
  BY <1>1, <1>2, <1>5 DEF Owed
<1>6. ASSUME There'
      PROVE  \A w \in Command : cmd'[w].pc = "writeself" =>
               cmd'[w].self = Reflected(dir'.self, cmd'[w].add, cmd'[w].resolve)
  <2> TAKE w \in Command
  <2>1. CASE w = u
    BY <1>1, <1>6, <2>1
  <2>2. CASE w # u
    BY <1>1, <1>2, <2>2
  <2> QED BY <2>1, <2>2
<1> QED BY <1>3, <1>5, <1>6 DEF TurnInv, There, DataFits, Fits, Reflected

LEMMA WroteThen ==
  ASSUME DirTypes, TurnInv, NEW u \in Command, NEW s, Step(u, s), ~met,
         \A v \in Command : v # u => cmd[v] = AtRest,
         UNCHANGED treeVars,
         s.pc # "writeself",
         There' => Owed(s.pc, dir'.events) /\ carried' \subseteq dir'.self
  PROVE  TurnInv'
<1>1. archives' = archives /\ staged' = staged
  BY DEF treeVars
<1>2. /\ \A t \in DOMAIN archives' : Fits(archives'[t].dir.events)
      /\ \A t \in DOMAIN staged' : DataFits(staged'[t])
  BY <1>1 DEF TurnInv
<1> QED BY <1>1, <1>2, TurnThen

\* A notice more, or a success: the streak is told as it should be.
LEMMA SaysTurn ==
  ASSUME DirTypes, TurnInv, ~met', NEW w \in Command,
         \/ Refuse(w) \/ Mark(w) \/ Notify(w)
         \/ LogIt(w, "remembered", "remember") \/ LogIt(w, "reflected", "reflect")
         \/ LogIt(w, "backedup", "backup") \/ LogIt(w, "migrated", "migrate")
         \/ LogIt(w, "restored", "restore")
  PROVE  TurnInv'
<1> DEFINE ev == dir.events
<1>1. AtRest.pc = "rest" /\ [pc |-> "mark"].pc = "mark" /\ [pc |-> "notify"].pc = "notify"
  BY DEF AtRest
<1>2. There /\ ev \in Seqs
  BY ThereIs DEF Refuse, Writable, Mark, Notify, LogIt, Dir, Seqs
<1>3. /\ Notices(ev) \in Nat /\ Refusals(ev) \in Nat /\ StreakN \in Nat /\ StreakN > 0
  BY <1>2, EventThen, StateDirAssumption
<1>4. CASE Refuse(w)
  <2>1. Writes(w) /\ dir'.self = dir.self /\ dir'.events = Append(ev, "guard_block")
    BY <1>4, RefuseWrites
  <2>2. ~met /\ (\A v \in Command : cmd[v] = AtRest) /\ Fits(ev) /\ carried \subseteq dir.self
    BY <1>2, <1>4, StartsAlone DEF Refuse, DirTypes
  <2>3. Notices(dir'.events) = Notices(ev) /\ Refusals(dir'.events) = Refusals(ev) + 1
    BY <1>2, <2>1, EventThen
  <2>4. Owed("mark", dir'.events)
    BY <1>3, <2>2, <2>3 DEF Owed, Fits
  <2> DEFINE s == [pc |-> "mark"]
  <2>5. Step(w, s) /\ s.pc = "mark" /\ UNCHANGED treeVars /\ carried' = carried
    BY <1>4 DEF Refuse
  <2> HIDE DEF s
  <2> QED BY <2>1, <2>2, <2>4, <2>5, WroteThen
<1>5. CASE Mark(w)
  <2>1. ~met /\ (\A v \in Command : v # w => cmd[v] = AtRest) /\ Owed("mark", ev)
        /\ carried \subseteq dir.self
    <3>1. cmd[w].pc = "mark" /\ cmd[w].pc # "rest" /\ met' = met
      BY <1>5 DEF Mark
    <3> QED BY <1>2, <3>1, GoesOnAlone
  <2>2. dir' = dir /\ UNCHANGED treeVars /\ carried' = carried
    BY <1>5 DEF Mark
  <2>3. StreakCount = Refusals(ev) /\ (AlreadyNotified <=> Notices(ev) > 0)
    BY DEF StreakCount, AlreadyNotified, Refusals, Notices
  <2>4. CASE StreakCount >= StreakN /\ ~AlreadyNotified
    <3> DEFINE s == [pc |-> "notify"]
    <3>1. Step(w, s) /\ s.pc = "notify"
      BY <1>5, <2>4 DEF Mark
    <3> HIDE DEF s
    <3>2. Owed("notify", ev)
      BY <1>3, <2>3, <2>4 DEF Owed
    <3> QED BY <2>1, <2>2, <3>1, <3>2, WroteThen
  <2>5. CASE ~ (StreakCount >= StreakN /\ ~AlreadyNotified)
    <3>1. Step(w, AtRest)
      BY <1>5, <2>5, Zenon DEF Mark
    <3>2. Owed("rest", ev)
      BY <1>3, <2>1, <2>3, <2>5 DEF Owed, Fits
    <3> QED BY <1>1, <2>1, <2>2, <3>1, <3>2, WroteThen
  <2> QED BY <2>4, <2>5
<1>6. CASE Notify(w)
  <2>1. Writes(w) /\ dir'.self = dir.self /\ dir'.events = Append(ev, "guard_streak")
    BY <1>6, NotifyWrites
  <2>2. ~met /\ (\A v \in Command : v # w => cmd[v] = AtRest) /\ Owed("notify", ev)
        /\ carried \subseteq dir.self
    <3>1. cmd[w].pc = "notify" /\ cmd[w].pc # "rest" /\ met' = met
      BY <1>6 DEF Notify
    <3> QED BY <1>2, <3>1, GoesOnAlone
  <2>3. Notices(dir'.events) = Notices(ev) + 1 /\ Refusals(dir'.events) = Refusals(ev)
    BY <1>2, <2>1, EventThen
  <2>4. Owed("rest", dir'.events)
    BY <1>3, <2>2, <2>3 DEF Owed, Fits
  <2>5. Step(w, AtRest) /\ UNCHANGED treeVars /\ carried' = carried
    BY <1>6 DEF Notify
  <2> QED BY <1>1, <2>1, <2>2, <2>4, <2>5, WroteThen
<1>7. ASSUME NEW pc \in {"remembered", "reflected", "backedup", "migrated", "restored"},
             NEW kind \in {"remember", "reflect", "backup", "migrate", "restore"},
             LogIt(w, pc, kind)
      PROVE  TurnInv'
  <2>1. kind \in Kind /\ (kind \in Resets \/ kind \in {"backup", "migrate", "restore"})
    BY DEF Kind, Resets
  <2>2. Writes(w) /\ dir'.self = dir.self /\ dir'.events = Append(ev, kind)
    BY <1>7, <2>1, LogItWrites
  <2>3. ~met /\ (\A v \in Command : v # w => cmd[v] = AtRest) /\ Owed(pc, ev)
        /\ carried \subseteq dir.self
    <3>1. cmd[w].pc = pc /\ cmd[w].pc # "rest" /\ met' = met
      BY <1>7 DEF LogIt
    <3> QED BY <1>2, <3>1, GoesOnAlone
  <2>4. Fits(ev)
    BY <2>3 DEF Owed
  <2>5. Fits(dir'.events)
    <3>1. CASE kind \in Resets
      <4>1. Notices(dir'.events) = 0 /\ Refusals(dir'.events) = 0
        BY <1>2, <2>2, <3>1, EventThen
      <4> QED BY <1>3, <4>1 DEF Fits
    <3>2. CASE kind \in {"backup", "migrate", "restore"}
      <4>1. Notices(dir'.events) = Notices(ev) /\ Refusals(dir'.events) = Refusals(ev)
        BY <1>2, <2>2, <3>2, EventThen
      <4> QED BY <2>4, <4>1 DEF Fits
    <3> QED BY <2>1, <3>1, <3>2
  <2>6. Owed("rest", dir'.events)
    BY <2>5 DEF Owed
  <2>7. Step(w, AtRest) /\ UNCHANGED treeVars /\ carried' = carried
    BY <1>7 DEF LogIt
  <2> QED BY <1>1, <2>2, <2>3, <2>6, <2>7, WroteThen
<1> QED BY <1>4, <1>5, <1>6, <1>7

\* A memory, a reflection, a step of a migration.
LEMMA KeepsTurn ==
  ASSUME DirTypes, TurnInv, ~met', NEW w \in Command,
         \/ \E flagged \in BOOLEAN : Remember(w, flagged)
         \/ \E add \in SUBSET Item, resolve \in SUBSET Item : Reflect(w, add, resolve)
         \/ WriteSelf(w) \/ Convert(w) \/ BumpMap(w)
  PROVE  TurnInv'
<1> DEFINE ev == dir.events
<1>1. There /\ dir \in Dir /\ ev \in Seqs
  BY ThereIs DEF Remember, Reflect, Writable, WriteSelf, Convert, BumpMap, Dir, Seqs
<1>2. /\ Notices(ev) \in Nat /\ Refusals(ev) \in Nat /\ StreakN \in Nat /\ StreakN > 0
  BY <1>1, EventThen, StateDirAssumption
<1>3. ASSUME NEW flagged \in BOOLEAN, Remember(w, flagged)
      PROVE  TurnInv'
  <2>1. /\ Writes(w) /\ dir'.self = dir.self
        /\ dir'.events = IF flagged THEN Append(ev, "guard_flagged") ELSE ev
    BY <1>3, RememberWrites
  <2>2. ~met /\ (\A v \in Command : cmd[v] = AtRest) /\ Fits(ev) /\ carried \subseteq dir.self
    BY <1>1, <1>3, StartsAlone DEF Remember, DirTypes
  <2>3. Fits(dir'.events)
    <3>1. CASE flagged
      <4>1. "guard_flagged" \in Resets
        BY DEF Resets
      <4>2. Notices(dir'.events) = 0 /\ Refusals(dir'.events) = 0
        BY <1>1, <2>1, <3>1, <4>1, EventThen
      <4> QED BY <1>2, <4>2 DEF Fits
    <3>2. CASE ~flagged
      BY <2>1, <2>2, <3>2
    <3> QED BY <3>1, <3>2
  <2>4. Owed("remembered", dir'.events)
    BY <2>3 DEF Owed
  <2> DEFINE s == [pc |-> "remembered"]
  <2>5. Step(w, s) /\ s.pc = "remembered" /\ UNCHANGED treeVars /\ carried' = carried
    BY <1>3 DEF Remember
  <2> HIDE DEF s
  <2> QED BY <2>1, <2>2, <2>4, <2>5, WroteThen
<1>4. ASSUME NEW add \in SUBSET Item, NEW resolve \in SUBSET Item, Reflect(w, add, resolve)
      PROVE  TurnInv'
  <2>1. ~met /\ (\A v \in Command : cmd[v] = AtRest) /\ Fits(ev) /\ carried \subseteq dir.self
    BY <1>1, <1>4, StartsAlone DEF Reflect, DirTypes
  <2> DEFINE s == [pc |-> "writeself", add |-> add, resolve |-> resolve,
                   self |-> Reflected(dir.self, add, resolve)]
  <2>2. /\ Step(w, s) /\ s.pc = "writeself" /\ s.self = Reflected(dir.self, s.add, s.resolve)
        /\ dir' = dir /\ carried' = carried /\ archives' = archives /\ staged' = staged
    BY <1>4 DEF Reflect, treeVars
  <2> HIDE DEF s
  <2>3. Owed(s.pc, dir'.events) /\ carried' \subseteq dir'.self
        /\ s.self = Reflected(dir'.self, s.add, s.resolve)
    BY <2>1, <2>2 DEF Owed
  <2>4. /\ \A t \in DOMAIN archives' : Fits(archives'[t].dir.events)
        /\ \A t \in DOMAIN staged' : DataFits(staged'[t])
    BY <2>1, <2>2 DEF TurnInv
  <2> QED BY <2>1, <2>2, <2>3, <2>4, TurnThen
<1>5. CASE WriteSelf(w)
  <2>1. Writes(w) /\ dir'.self = cmd[w].self /\ dir'.events = ev
    BY <1>5, SelfWrites
  <2>2. ~met /\ (\A v \in Command : v # w => cmd[v] = AtRest) /\ Owed("writeself", ev)
        /\ carried \subseteq dir.self
        /\ cmd[w].self = Reflected(dir.self, cmd[w].add, cmd[w].resolve)
    <3>1. cmd[w].pc = "writeself" /\ cmd[w].pc # "rest" /\ met' = met
      BY <1>5 DEF WriteSelf
    <3>2. ~met /\ (\A v \in Command : v # w => cmd[v] = AtRest) /\ Owed("writeself", ev)
          /\ carried \subseteq dir.self
      BY <1>1, <3>1, GoesOnAlone
    <3> QED BY <1>1, <3>1, <3>2 DEF TurnInv
  <2>3. carried' \subseteq dir'.self
    <3>1. carried' = (carried \ cmd[w].resolve) \cup cmd[w].add
      BY <1>5 DEF WriteSelf
    <3> QED BY <2>1, <2>2, <3>1 DEF Reflected
  <2>4. Owed("reflected", dir'.events)
    BY <2>1, <2>2 DEF Owed
  <2> DEFINE s == [pc |-> "reflected"]
  <2>5. Step(w, s) /\ s.pc = "reflected" /\ UNCHANGED treeVars
    BY <1>5 DEF WriteSelf
  <2> HIDE DEF s
  <2> QED BY <2>2, <2>3, <2>4, <2>5, WroteThen
<1>6. CASE Convert(w)
  <2>1. Converts(w)
    BY <1>6, ConvertConverts
  <2>2. ~met /\ (\A v \in Command : v # w => cmd[v] = AtRest) /\ Owed("convert", ev)
        /\ carried \subseteq dir.self
    <3>1. cmd[w].pc = "convert" /\ cmd[w].pc # "rest" /\ met' = met
      BY <1>6 DEF Convert
    <3> QED BY <1>1, <3>1, GoesOnAlone
  <2>3. PICK s : Step(w, s) /\ s.pc \in {"convert", "bumpmap"}
    <3>1. [pc |-> "bumpmap"].pc = "bumpmap"
          /\ [pc |-> "convert", v |-> cmd[w].v + 1].pc = "convert"
      OBVIOUS
    <3> QED BY <2>1, <3>1, Zenon DEF Converts
  <2>4. Owed(s.pc, dir'.events) /\ s.pc # "writeself"
    BY <2>1, <2>2, <2>3 DEF Owed, Converts
  <2>5. carried' \subseteq dir'.self /\ UNCHANGED treeVars
    BY <2>1, <2>2 DEF Converts
  <2> QED BY <2>2, <2>3, <2>4, <2>5, WroteThen
<1>7. CASE BumpMap(w)
  <2>1. Writes(w) /\ dir'.self = dir.self /\ dir'.events = ev
    BY <1>7, MapWrites
  <2>2. ~met /\ (\A v \in Command : v # w => cmd[v] = AtRest) /\ Owed("bumpmap", ev)
        /\ carried \subseteq dir.self
    <3>1. cmd[w].pc = "bumpmap" /\ cmd[w].pc # "rest" /\ met' = met
      BY <1>7 DEF BumpMap
    <3> QED BY <1>1, <3>1, GoesOnAlone
  <2>3. Owed("migrated", dir'.events)
    BY <2>1, <2>2 DEF Owed
  <2> DEFINE s == [pc |-> "migrated"]
  <2>4. Step(w, s) /\ s.pc = "migrated" /\ UNCHANGED treeVars /\ carried' = carried
    BY <1>7 DEF BumpMap
  <2> HIDE DEF s
  <2> QED BY <2>1, <2>2, <2>3, <2>4, WroteThen
<1> QED BY <1>3, <1>4, <1>5, <1>6, <1>7

LEMMA FitsKeep ==
  ASSUME NEW t, NEW p, DataFits(p), \A k \in DOMAIN staged : DataFits(staged[k]),
         staged' = Keep(staged, t, p)
  PROVE  \A k \in DOMAIN staged' : DataFits(staged'[k])
BY DEF Keep

\* A copy is made between commands, so it fits; what is restored is such a copy.
LEMMA CopiesTurn ==
  ASSUME DirTypes, TurnInv, ~met', NEW w \in Command,
         \/ BackupCommand(w) \/ Migrate(w)
         \/ \E t \in DOMAIN archives : Extract(w, t)
         \/ Unpack(w) \/ MoveAside(w) \/ PutInPlace(w)
  PROVE  TurnInv'
<1>1. CASE BackupCommand(w) \/ Migrate(w)
  <2>1. Saves(w) /\ Starts(w)
    BY <1>1, BackupSaves, MigrateSaves DEF BackupCommand, Migrate
  <2>2. There /\ dir' = dir /\ staged' = staged /\ carried' = carried /\ KeepsArchives
    BY <2>1, DirIsThere DEF Saves, There
  <2>3. ~met /\ (\A v \in Command : cmd[v] = AtRest) /\ Fits(dir.events)
        /\ carried \subseteq dir.self
    BY <2>1, <2>2, StartsAlone DEF DirTypes
  <2>4. PICK s : Step(w, s) /\ s.pc \notin {"mark", "notify", "writeself"}
    <3>1. /\ [pc |-> "backedup"].pc = "backedup" /\ AtRest.pc = "rest"
          /\ [pc |-> "convert", v |-> dir.meta].pc = "convert"
      BY DEF AtRest
    <3> DEFINE b == [pc |-> "backedup"]
               c == [pc |-> "convert", v |-> dir.meta]
    <3>2. b.pc = "backedup" /\ c.pc = "convert"
      OBVIOUS
    <3>3. Step(w, b) \/ Step(w, c) \/ Step(w, AtRest)
      BY <1>1 DEF BackupCommand, Migrate, BackupFirst, Backup
    <3> HIDE DEF b, c
    <3> QED BY <3>1, <3>2, <3>3
  <2>5. /\ \A t \in DOMAIN archives' : Fits(archives'[t].dir.events)
        /\ \A t \in DOMAIN staged' : DataFits(staged'[t])
    BY <2>2, <2>3 DEF KeepsArchives, TurnInv
  <2>6. Owed(s.pc, dir'.events)
    BY <2>2, <2>3, <2>4 DEF Owed
  <2> QED BY <2>2, <2>3, <2>4, <2>5, <2>6, TurnThen
<1>2. ASSUME NEW t \in DOMAIN archives, Extract(w, t)
      PROVE  TurnInv'
  <2>1. ~met /\ (\A v \in Command : cmd[v] = AtRest)
        /\ (There => Fits(dir.events) /\ carried \subseteq dir.self)
    BY <1>2, StartsAlone DEF Extract, DirTypes
  <2>2. Extracts(w, t)
    BY <1>2, ExtractExtracts
  <2>3. /\ archives' = archives /\ dir' = dir /\ carried' = carried
    BY <2>2 DEF Extracts
  <2>4. \A k \in DOMAIN archives' : Fits(archives'[k].dir.events)
    BY <2>1, <2>3 DEF TurnInv
  <2>5. \A k \in DOMAIN staged' : DataFits(staged'[k])
    <3> DEFINE p == [Staged(clock) EXCEPT !.data = archives[t].dir]
    <3>1. staged' = Keep(staged, clock, p)
      BY <2>2 DEF Extracts
    <3>2. DataFits(p)
      <4>1. Staged(clock) \in Parts /\ Fits(archives[t].dir.events)
        BY <2>1, StagedIs DEF TurnInv, DirTypes
      <4>2. p.data = archives[t].dir
        BY <4>1 DEF Parts
      <4> HIDE DEF p
      <4> QED BY <4>1, <4>2 DEF DataFits
    <3> HIDE DEF p
    <3> QED BY <2>1, <3>1, <3>2, FitsKeep DEF TurnInv
  <2>6. PICK s : Step(w, s) /\ s.pc \in {"rest", "unpack"}
    <3> DEFINE x == [pc |-> "unpack", at |-> clock, from |-> archives[t].dir]
    <3>1. x.pc = "unpack" /\ AtRest.pc = "rest"
      BY DEF AtRest
    <3>2. Step(w, x) \/ Step(w, AtRest)
      BY <2>2 DEF Extracts
    <3> HIDE DEF x
    <3> QED BY <3>1, <3>2
  <2>7. There' => Owed(s.pc, dir'.events) /\ carried' \subseteq dir'.self
    BY <2>1, <2>3, <2>6 DEF Owed, There
  <2> QED BY <2>1, <2>4, <2>5, <2>6, <2>7, TurnThen
<1>3. CASE Unpack(w)
  <2> DEFINE a == cmd[w].at
  <2>1. ~met /\ (\A v \in Command : v # w => cmd[v] = AtRest)
        /\ (There => Owed("unpack", dir.events) /\ carried \subseteq dir.self)
    <3>1. cmd[w].pc = "unpack" /\ cmd[w].pc # "rest" /\ met' = met
      BY <1>3 DEF Unpack
    <3> QED BY <3>1, GoesOnAlone
  <2>2. archives' = archives /\ dir' = dir /\ carried' = carried
    BY <1>3 DEF Unpack
  <2>3. \A k \in DOMAIN archives' : Fits(archives'[k].dir.events)
    BY <2>1, <2>2 DEF TurnInv
  <2>4. \A k \in DOMAIN staged' : DataFits(staged'[k])
    <3> DEFINE p == [Staged(a) EXCEPT !.head = cmd[w].from]
    <3>1. staged' = Keep(staged, a, p)
      BY <1>3 DEF Unpack
    <3>2. DataFits(p)
      <4>1. Staged(a) \in Parts
        BY StagedIs DEF DirTypes
      <4>2. p.data = Staged(a).data
        BY <4>1 DEF Parts
      <4>3. DataFits(Staged(a))
        BY <2>1, NothingIs DEF TurnInv, Staged, DataFits
      <4> HIDE DEF p
      <4> QED BY <4>2, <4>3 DEF DataFits
    <3> HIDE DEF p
    <3> QED BY <2>1, <3>1, <3>2, FitsKeep DEF TurnInv
  <2> DEFINE s == [pc |-> "aside", at |-> a]
  <2>5. Step(w, s) /\ s.pc = "aside"
    BY <1>3 DEF Unpack
  <2> HIDE DEF s
  <2>6. There' => Owed(s.pc, dir'.events) /\ carried' \subseteq dir'.self
    BY <2>1, <2>2, <2>5 DEF Owed, There
  <2> QED BY <2>1, <2>3, <2>4, <2>5, <2>6, TurnThen
<1>4. CASE MoveAside(w)
  <2>1. ~met /\ (\A v \in Command : v # w => cmd[v] = AtRest)
        /\ (There => Owed("aside", dir.events) /\ carried \subseteq dir.self)
    <3>1. cmd[w].pc = "aside" /\ cmd[w].pc # "rest" /\ met' = met
      BY <1>4 DEF MoveAside
    <3> QED BY <3>1, GoesOnAlone
  <2>2. Clears(w)
    BY <1>4, MoveAsideClears
  <2>3. /\ \A k \in DOMAIN archives' : Fits(archives'[k].dir.events)
        /\ \A k \in DOMAIN staged' : DataFits(staged'[k])
    BY <2>1, <2>2 DEF Clears, TurnInv
  <2>4. CASE dir' = dir /\ Step(w, AtRest)
    <3>1. AtRest.pc = "rest" /\ carried' = carried
      BY <2>2 DEF AtRest, Clears
    <3>2. There' => Owed(AtRest.pc, dir'.events) /\ carried' \subseteq dir'.self
      BY <2>1, <2>4, <3>1 DEF Owed, There
    <3> QED BY <2>1, <2>3, <2>4, <3>1, <3>2, TurnThen
  <2>5. CASE dir' = NoDir /\ Step(w, [pc |-> "place", at |-> cmd[w].at])
    <3> DEFINE s == [pc |-> "place", at |-> cmd[w].at]
    <3>1. Step(w, s) /\ ~There'
      BY <2>5 DEF There
    <3> HIDE DEF s
    <3> QED BY <2>1, <2>3, <3>1, TurnThen
  <2> QED BY <2>2, <2>4, <2>5 DEF Clears
<1>5. CASE PutInPlace(w)
  <2>1. ~met /\ (\A v \in Command : v # w => cmd[v] = AtRest)
        /\ (There => Owed("place", dir.events) /\ carried \subseteq dir.self)
    <3>1. cmd[w].pc = "place" /\ cmd[w].pc # "rest" /\ met' = met
      BY <1>5 DEF PutInPlace
    <3> QED BY <3>1, GoesOnAlone
  <2>2. Places(w)
    BY <1>5, PutInPlacePlaces
  <2>3. \A k \in DOMAIN archives' : Fits(archives'[k].dir.events)
    BY <2>1, <2>2 DEF Places, TurnInv
  <2>4. CASE /\ dir = NoDir
             /\ dir' = Assembled(Staged(cmd[w].at))
             /\ staged' = Keep(staged, cmd[w].at, Nothing)
             /\ carried' = IF dir' = Broken THEN {} ELSE dir'.self
             /\ Step(w, [pc |-> "restored"])
    <3> DEFINE p == Staged(cmd[w].at)
    <3>1. p \in Parts /\ DataFits(p)
      BY <2>1, StagedIs, NothingIs DEF DirTypes, TurnInv, Staged, DataFits
    <3>2. There' => Fits(dir'.events) /\ carried' \subseteq dir'.self
      <4> SUFFICES ASSUME There' PROVE Fits(dir'.events) /\ carried' \subseteq dir'.self
        OBVIOUS
      <4>1. Assembled(p) = dir' /\ dir' # Broken
        BY <2>4 DEF There
      <4> HIDE DEF p
      <4>2. p.data \in Dir /\ dir'.events = p.data.events
        BY <3>1, <4>1, AssembledIs
      <4> QED BY <2>4, <3>1, <4>1, <4>2, DirIsThere DEF DataFits
    <3>3. \A k \in DOMAIN staged' : DataFits(staged'[k])
      BY <2>1, <2>4, NothingIs, FitsKeep DEF TurnInv, DataFits
    <3> DEFINE s == [pc |-> "restored"]
    <3>4. Step(w, s) /\ s.pc = "restored"
      BY <2>4
    <3> HIDE DEF s, p
    <3>5. There' => Owed(s.pc, dir'.events)
      BY <3>2, <3>4 DEF Owed
    <3> QED BY <2>1, <2>3, <3>2, <3>3, <3>4, <3>5, TurnThen
  <2>5. CASE UNCHANGED <<dir, staged, carried>> /\ Step(w, AtRest)
    <3>1. AtRest.pc = "rest" /\ \A k \in DOMAIN staged' : DataFits(staged'[k])
      BY <2>1, <2>5 DEF AtRest, TurnInv
    <3>2. There' => Owed(AtRest.pc, dir'.events) /\ carried' \subseteq dir'.self
      BY <2>1, <2>5, <3>1 DEF Owed, There
    <3> QED BY <2>1, <2>3, <2>5, <3>1, <3>2, TurnThen
  <2> QED BY <2>2, <2>4, <2>5 DEF Places
<1> QED BY <1>1, <1>2, <1>3, <1>4, <1>5

LEMMA TurnStep ==
  ASSUME DirTypes, TurnInv, [StateNext]_<<stateVars, budget>>
  PROVE  TurnInv'
<1> SUFFICES ASSUME ~met' PROVE TurnInv'
  BY DEF TurnInv
<1>1. ASSUME NEW w \in Command, CommandDies(w)
      PROVE  FALSE
  BY <1>1 DEF CommandDies
<1>2. CASE UNCHANGED <<dir, treeVars, cmd, met, carried>>
  BY <1>2 DEF TurnInv, DataFits, There, treeVars
<1>3. CASE NextSecond
  BY <1>2, <1>3 DEF NextSecond
<1>4. CASE UNCHANGED <<stateVars, budget>>
  BY <1>2, <1>4 DEF stateVars
<1>5. ASSUME NEW w \in Command,
             \E add \in {{i} : i \in Item}, resolve \in SUBSET Item :
               Cardinality(resolve) <= 1 /\ Reflect(w, add, resolve)
      PROVE  \E add \in SUBSET Item, resolve \in SUBSET Item : Reflect(w, add, resolve)
  BY <1>5
<1> QED BY <1>1, <1>3, <1>4, <1>5, SaysTurn, KeepsTurn, CopiesTurn DEF StateNext

LEMMA TurnInit ==
  ASSUME StateInit
  PROVE  TurnInv
<1>1. PICK v : dir = [meta |-> v, map |-> v,
                      data |-> [i \in 1..(v - OldFormat) |-> OldFormat + i - 1],
                      self |-> {}, events |-> <<>>, stored |-> <<>>]
  BY DEF StateInit
<1>2. dir.events = <<>> /\ dir.self = {}
  BY <1>1
<1>3. Fits(<<>>)
  <2>1. \A kind : Count(<<>>, kind) = 0
    <3> TAKE kind
    <3>1. {i \in DOMAIN <<>> : <<>>[i] = kind} = {}
      OBVIOUS
    <3> QED BY <3>1, FS_EmptySet DEF Count
  <2>2. SinceSuccess(<<>>) = <<>>
    <3>1. Resetting(<<>>) = {}
      BY DEF Resetting
    <3>2. Begin(<<>>) = 1 /\ Len(<<>>) = 0
      BY <3>1 DEF Begin
    <3>3. SubSeq(<<>>, 1, 0) = <<>>
      OBVIOUS
    <3> QED BY <3>2, <3>3, SinceIs
  <2>3. Notices(<<>>) = 0 /\ Refusals(<<>>) = 0
    BY <2>1, <2>2 DEF Notices, Refusals
  <2> QED BY <2>3, StateDirAssumption DEF Fits
<1>4. (\A w \in Command : cmd[w] = AtRest) /\ AtRest.pc = "rest"
      /\ DOMAIN archives = {} /\ DOMAIN staged = {} /\ carried = {}
  BY DEF StateInit, AtRest
<1> QED BY <1>2, <1>3, <1>4 DEF TurnInv

\* Among commands that come one after the other, also after migrations and restores: a
\* streak of refusals is told exactly once and no notice outlives the success after it
\* (guard.py, mark_streak_if_reached), and what a reflection was told to keep is in the self file
\* until it is resolved (reflect.py, apply).
THEOREM InTurnAlwaysHolds == StateSpec => []InTurnHolds
<1>1. DirTypes /\ TurnInv => InTurnHolds
  <2> SUFFICES ASSUME DirTypes, TurnInv, Quiet
               PROVE  InTurnHolds
    BY DEF InTurnHolds, NoticesMatchStreaks, CarriedStays
  <2>1. Fits(dir.events) /\ carried \subseteq dir.self
    BY DEF Quiet, TurnInv
  <2>2. NoticesMatchStreaks
    <3>1. dir.events \in Seqs
      BY ThereIs DEF Quiet, Dir, Seqs
    <3>2. /\ (Notices(dir.events) > 0) = (Refusals(dir.events) >= StreakN)
          /\ Notices(dir.events) <= 1
      <4>1. Notices(dir.events) \in Nat /\ Refusals(dir.events) \in Nat
        BY <3>1, EventThen
      <4> QED BY <2>1, <4>1 DEF Fits
    <3> QED BY <3>2 DEF NoticesMatchStreaks, Notices, Refusals
  <2> QED BY <2>1, <2>2 DEF InTurnHolds, CarriedStays
<1> QED BY <1>1, DirTypesInit, DirTypesStep, TurnInit, TurnStep, PTL DEF StateSpec
=============================================================================
