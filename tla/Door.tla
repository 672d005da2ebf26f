-------------------------------- MODULE Door --------------------------------
(***************************************************************************)
(* The way of a quad between two labs: export_quad (hub_ops.py) writes it  *)
(* to an outbox, push_quad posts it to a door of a drop, the server keeps  *)
(* it (hub_drop.py), and pull_quads writes it to the mailbox of a reader.  *)
(* A quad is a number with two or three files; the envelope comes last,    *)
(* and a number with an envelope is complete.  The server answers one      *)
(* request after the other, of members whose tokens are lines of a file    *)
(* that is read when it starts.                                            *)
(*                                                                         *)
(* A write of one small file is one step; a process may end between two.   *)
(***************************************************************************)
EXTENDS Budget, Integers, FiniteSets, SequencesExt

CONSTANTS
  Letters,     \* what labs admitted: [env, sig, body], of a body NoBody or <<name, bytes>>
  NoBody,
  NoFile,
  Outboxes,    \* directories that quads are exported to; all of one lab
  Exporter,    \* processes of it
  Doors,       \* the doors of a channel
  DoorOf,      \* the door of the lab that signs
  Reader,      \* mailboxes, each of one door
  ReadsAt,     \* reader -> door
  MaxNumber,   \* bound on the numbers of quads
  PageSize,    \* quads of an answer, at most
  TokenFiles,  \* token files: sets of [token, id, write, read, revoked], of patterns or Unscoped
  FirstTokens, \* the one that is there first
  Unscoped,
  MemberToken, \* the token that the clients here use
  Limits,      \* what a server may be told: requests per window, 0 for no limit
  Window       \* length of a window

ASSUME DoorAssumption ==
  /\ MaxNumber \in Nat \ {0} /\ PageSize \in Nat \ {0}
  /\ Limits \subseteq Nat /\ Window \in Nat \ {0}
  /\ \A q \in Letters :
       /\ q = [env |-> q.env, sig |-> q.sig, body |-> q.body]
       /\ q.env # NoFile /\ q.sig # NoFile
       /\ q.body # NoBody => q.body[1] \in Nat
  /\ \A r \in Reader : ReadsAt[r] \in Doors
  /\ FirstTokens \in TokenFiles

VARIABLES
  outbox,    \* outbox[o][n]: the files of a number
  exporter,  \* where an export stands
  door,      \* door[d][n]: the files of a number at the server
  order,     \* order[d]: the numbers in the order in which they became complete
  posting,   \* the POST that the server is at: its pc, door, number and quad
  cut,       \* POSTs that ended with a body written and no envelope
  mailbox,   \* mailbox[r][n]: the files of a number at a reader
  pulling,   \* where a pull stands
  tokens,    \* the token file as it is now
  lines,     \* the lines that the server runs with; {} while it is down
  perMinute, \* the limit of the server
  windows,   \* RateLimiter._windows: token -> [start, count]
  now,
  answers,   \* what was answered to whom, as _audit notes it, by the how-manieth server
  servers,   \* how many servers have started
  lost       \* <<r, n>>: a file of that letter was lost and is not written again

quadVars == <<outbox, exporter, door, order, posting, cut, mailbox, pulling, lost>>
accessVars == <<tokens, lines, perMinute, windows, now, answers, servers>>
doorVars == <<quadVars, accessVars>>

Numbers == 1..MaxNumber
Files == [sig |-> NoFile, bodies |-> {}, env |-> NoFile]
Empty == [n \in Numbers |-> Files]
Numbered(dir) == {n \in Numbers : dir[n] # Files}

\* Where the files of a number show as a quad: of several bodies the first by name.
\* Names of bodies are numbers.
FirstBody(bodies) ==
  IF bodies = {} THEN NoBody ELSE CHOOSE b \in bodies : \A c \in bodies : b[1] <= c[1]
Complete(f) == f.env # NoFile /\ f.sig # NoFile
Quad(f) == [env |-> f.env, sig |-> f.sig, body |-> FirstBody(f.bodies)]
WithSig(f, q) == [f EXCEPT !.sig = q.sig]
\* A body of the same name is replaced.
WithBody(f, q) ==
  IF q.body = NoBody THEN f
  ELSE [f EXCEPT !.bodies = {b \in @ : b[1] # q.body[1]} \cup {q.body}]
WithEnv(f, q) == [f EXCEPT !.env = q.env]

-----------------------------------------------------------------------------
(* export_quad: no lock, but no file is written over. *)

Nothing == [pc |-> "none"]

\* The next number is after all that any file bears, complete or not.
NextNumber(o) == 1 + (IF Numbered(outbox[o]) = {} THEN 0
                      ELSE CHOOSE n \in Numbered(outbox[o]) : \A m \in Numbered(outbox[o]) : m <= n)

ExportStart(x, o, q) ==
  /\ exporter[x] = Nothing
  /\ NextNumber(o) <= MaxNumber
  /\ Spend("export")
  /\ exporter' = [exporter EXCEPT ![x] = [pc |-> "sig", box |-> o, n |-> NextNumber(o), quad |-> q]]
  /\ UNCHANGED <<outbox, door, order, posting, cut, mailbox, pulling, lost, accessVars>>

\* _write_new: O_EXCL on the signature is what claims a number.
AnyFile(f) == TRUE  \* mutant: write over what is there
Untaken(f) == f.sig = NoFile
Put(x, f, pc) ==
  /\ outbox' = [outbox EXCEPT ![exporter[x].box][exporter[x].n] = f]
  /\ exporter' = [exporter EXCEPT ![x] = IF pc = "done" THEN Nothing ELSE [@ EXCEPT !.pc = pc]]

ExportStep(x) ==
  /\ exporter[x] # Nothing
  /\ LET q == exporter[x].quad
         f == outbox[exporter[x].box][exporter[x].n]
     IN \/ /\ exporter[x].pc = "sig"
           /\ IF Untaken(f) THEN Put(x, WithSig(f, q), "body")
              ELSE exporter' = [exporter EXCEPT ![x] = Nothing] /\ UNCHANGED outbox
        \/ exporter[x].pc = "body" /\ Put(x, WithBody(f, q), "env")
        \/ exporter[x].pc = "env" /\ Put(x, WithEnv(f, q), "done")
  /\ UNCHANGED <<door, order, posting, cut, mailbox, pulling, lost, accessVars, budget>>

ExportEnds(x) ==
  /\ exporter[x] # Nothing
  /\ Spend("crash")
  /\ exporter' = [exporter EXCEPT ![x] = Nothing]
  /\ UNCHANGED <<outbox, door, order, posting, cut, mailbox, pulling, lost, accessVars>>

-----------------------------------------------------------------------------
(* Token file, TokenEntry and RateLimiter *)

Legacy(e) == e.write = Unscoped /\ e.read = Unscoped
Patterns(e, axis) ==
  IF Legacy(e) THEN {"*"}
  ELSE IF axis = "write" THEN (IF e.write = Unscoped THEN {} ELSE e.write)
  ELSE (IF e.read = Unscoped THEN {} ELSE e.read)
Allows(e, axis, d) == Patterns(e, axis) \cap {"*", d} # {}

\* load_token_entries: what a server starts with.
Loadable(file) ==
  /\ \E e \in file : ~e.revoked
  /\ \A e, f \in file : e.token = f.token \/ e.id = f.id => e = f

LineOf(t) == {e \in lines : e.token = t}
Member(t) == \E e \in LineOf(t) : ~e.revoked

\* A window of its own for each token, fixed from the first request in it.
OneKey(t) == MemberToken  \* mutant: all in one window
KeyOf(t) == t
Start(t) == IF KeyOf(t) \in DOMAIN windows /\ now - windows[KeyOf(t)].start < Window
            THEN windows[KeyOf(t)] ELSE [start |-> now, count |-> 0]
OneMore(t) == perMinute = 0 \/ Start(t).count <= perMinute  \* mutant
Within(t) == perMinute = 0 \/ Start(t).count < perMinute
Count(t) ==
  IF perMinute = 0 THEN UNCHANGED windows
  ELSE windows' = [u \in DOMAIN windows \cup {KeyOf(t)} |->
                     IF u = KeyOf(t) THEN [Start(t) EXCEPT !.count = @ + 1] ELSE windows[u]]
Early(t) == Window - (now - Start(t).start) - 1  \* mutant: rounded down
RetryAfter(t) == Window - (now - Start(t).start)

Noted(t, status, d, n, q) ==
  answers' = answers \cup {[token |-> t, status |-> status, at |-> now, no |-> Cardinality(answers), server |-> servers,
                            door |-> d, n |-> n, quad |-> q,
                            again |-> IF status = 429 THEN now + RetryAfter(t) ELSE now]}

Idle == lines # {} /\ posting = Nothing

\* _auth: who is no member costs nothing and waits for nothing.
Refused401(t) ==
  /\ Idle
  /\ ~Member(t)
  /\ Spend("stranger")
  /\ IF LineOf(t) = {} THEN UNCHANGED answers ELSE Noted(t, 401, NoFile, 0, NoFile)
  /\ UNCHANGED <<quadVars, tokens, lines, windows, now, servers, perMinute>>

Refused429(t) ==
  /\ Idle
  /\ Member(t)
  /\ ~Within(t)
  /\ Spend("refused")
  /\ Noted(t, 429, NoFile, 0, NoFile)
  /\ UNCHANGED <<quadVars, tokens, lines, windows, now, servers, perMinute>>

Authorized(t, axis, d) ==
  /\ Idle
  /\ Member(t)
  /\ Within(t)
  /\ Count(t)
  /\ \A e \in LineOf(t) : Allows(e, axis, d)

\* _gate: the budget is spent before the scope is looked at.
Refused403(t, axis, d) ==
  /\ Idle
  /\ Member(t)
  /\ Within(t)
  /\ Count(t)
  /\ \E e \in LineOf(t) : ~Allows(e, axis, d)
  /\ Spend("foreign")
  /\ Noted(t, 403, d, 0, NoFile)
  /\ UNCHANGED <<quadVars, tokens, lines, now, servers, perMinute>>

Visible(t) == {d \in Doors : Numbered(door[d]) # {} /\ \A e \in LineOf(t) : Allows(e, "read", d)}

\* /v0/channels: the doors with a letter that the line may read.
Channels(t) ==
  /\ Idle
  /\ Member(t)
  /\ Within(t)
  /\ Count(t)
  /\ Spend("channels")
  /\ Noted(t, 200, Visible(t), 0, NoFile)
  /\ UNCHANGED <<quadVars, tokens, lines, now, servers, perMinute>>

\* make_server: the limiter starts anew.
ServerStarts(limit) ==
  /\ lines = {}
  /\ Loadable(tokens)
  /\ lines' = tokens
  /\ windows' = <<>>
  /\ perMinute' = limit
  /\ servers' = servers + 1
  /\ UNCHANGED <<quadVars, tokens, now, answers, budget>>

ServerStops ==
  /\ lines # {}
  /\ Spend("stop")
  /\ lines' = {}
  /\ posting' = Nothing
  /\ cut' = IF posting.pc = "env" THEN cut \cup {posting} ELSE cut
  /\ windows' = <<>>
  /\ UNCHANGED <<outbox, exporter, door, order, mailbox, pulling, lost, tokens, now, answers, servers, perMinute>>

TokensChange(file) ==
  /\ Spend("tokens")
  /\ tokens' = file
  /\ UNCHANGED <<quadVars, lines, windows, now, answers, servers, perMinute>>

Tick ==
  /\ Spend("tick")
  /\ now' = now + 1
  /\ UNCHANGED <<quadVars, tokens, lines, windows, answers, servers, perMinute>>

-----------------------------------------------------------------------------
(* push_quad and do_POST *)

\* A quad is pushed from an outbox, to the own door unless it is said otherwise; or,
\* with another client, from nowhere.
OwnDoor(q, d) == DoorOf[q.env] = d
CanPush(o, n, d, foreign) ==
  /\ Complete(outbox[o][n])
  /\ foreign \/ OwnDoor(Quad(outbox[o][n]), d)

\* What is complete stays: the same again is told so, anything else is refused.
\* Otherwise the files are written, the envelope last.
TakenBySame(f, q) == f.env = q.env  \* mutant: only the same is found
Taken(f, q) == f.env # NoFile

Post(o, n, d, foreign) ==
  LET q == Quad(outbox[o][n]) IN
  /\ CanPush(o, n, d, foreign)
  /\ Spend("push")
  /\ Authorized(MemberToken, "write", d)
  /\ IF Taken(door[d][n], q)
     THEN /\ Noted(MemberToken, IF Quad(door[d][n]) = q THEN 200 ELSE 409, d, n, q)
          /\ UNCHANGED posting
     ELSE /\ posting' = [pc |-> "sig", door |-> d, n |-> n, quad |-> q]
          /\ UNCHANGED answers
  /\ UNCHANGED <<outbox, exporter, door, order, cut, mailbox, pulling, lost, tokens, lines, now, servers, perMinute>>

Filled(f, pc) ==
  /\ door' = [door EXCEPT ![posting.door][posting.n] = f]
  /\ posting' = [posting EXCEPT !.pc = pc]

PostStep ==
  /\ posting # Nothing
  /\ LET q == posting.quad
         f == door[posting.door][posting.n]
     IN \/ posting.pc = "sig" /\ Filled(WithSig(f, q), "body") /\ UNCHANGED <<order, answers>>
        \/ posting.pc = "body" /\ Filled(WithBody(f, q), "env") /\ UNCHANGED <<order, answers>>
        \/ /\ posting.pc = "env"
           /\ door' = [door EXCEPT ![posting.door][posting.n] = WithEnv(f, q)]
           /\ order' = [order EXCEPT ![posting.door] = Append(@, posting.n)]
           /\ Noted(MemberToken, 200, posting.door, posting.n, q)
           /\ posting' = Nothing
  /\ UNCHANGED <<outbox, exporter, cut, mailbox, pulling, lost, tokens, lines, windows, now, servers, perMinute, budget>>

-----------------------------------------------------------------------------
(* do_GET of a door, and pull_quads *)

\* The first complete numbers after "since", and whether there are more.
LastOnes(S) == {n \in S : Cardinality({m \in S : m >= n}) <= PageSize}  \* mutant
Page(S) == {n \in S : Cardinality({m \in S : m <= n}) <= PageSize}
Fresh(d, since) == {n \in Numbers : door[d][n].env # NoFile /\ n > since}
Answered(d, since) ==
  [quads |-> {[n |-> n, quad |-> Quad(door[d][n])] : n \in Page(Fresh(d, since))},
   more |-> Page(Fresh(d, since)) # Fresh(d, since)]

\* The index of a door: prints instead of bytes, of a page.
Index(t, d) ==
  /\ Authorized(t, "read", d)
  /\ Spend("index")
  /\ Noted(t, 200, d, 0, [n \in Page(Fresh(d, 0)) |-> Quad(door[d][n])])
  /\ UNCHANGED <<quadVars, tokens, lines, now, servers, perMinute>>

Have(r) == {n \in Numbers : mailbox[r][n].env # NoFile}
Latest(r) == IF Have(r) = {} THEN 0 ELSE CHOOSE n \in Have(r) : \A m \in Have(r) : m <= n

\* A pull goes on from the highest number that it has, or from the start when told so.
PullStart(r, since) ==
  /\ pulling[r] = Nothing
  /\ Spend("pull")
  /\ pulling' = [pulling EXCEPT ![r] = [pc |-> "ask", since |-> since, quads |-> {}, more |-> FALSE]]
  /\ UNCHANGED <<outbox, exporter, door, order, posting, cut, mailbox, lost, accessVars>>

PullPage(r) ==
  /\ pulling[r].pc = "ask"
  /\ Authorized(MemberToken, "read", ReadsAt[r])
  /\ Noted(MemberToken, 200, ReadsAt[r], 0, NoFile)
  /\ LET a == Answered(ReadsAt[r], pulling[r].since) IN
     pulling' = [pulling EXCEPT ![r].pc = "next", ![r].quads = a.quads, ![r].more = a.more]
  /\ UNCHANGED <<outbox, exporter, door, order, posting, cut, mailbox, lost, tokens, lines, now, servers, perMinute, budget>>

\* The letters of an answer are taken in the order of their numbers.
This(r) == CHOOSE p \in pulling[r].quads : \A q \in pulling[r].quads : p.n <= q.n
Local(r) == mailbox[r][This(r).n]
Lacks(f, q) == f.sig = NoFile \/ (q.body # NoBody /\ ~\E b \in f.bodies : b[1] = q.body[1])
Agrees(f, q) ==
  /\ f.env = q.env
  /\ f.sig \in {NoFile, q.sig}
  /\ q.body # NoBody => \A b \in f.bodies : b[1] = q.body[1] => b = q.body
PullGoes(r, pc) == pulling' = [pulling EXCEPT ![r].pc = pc]
Written(r, f) == mailbox' = [mailbox EXCEPT ![r][This(r).n] = f]

\* What is complete is left alone; of what lacks a file, only that is written, and only
\* if the rest is what the server says.
PullQuad(r) ==
  /\ pulling[r].pc = "next"
  /\ pulling[r].quads # {}
  /\ LET f == Local(r) IN LET q == This(r).quad IN
     \/ f.env = NoFile /\ PullGoes(r, "sig")
     \/ f.env # NoFile /\ ~Lacks(f, q) /\ PullGoes(r, "end")
     \/ f.env # NoFile /\ Lacks(f, q) /\ Agrees(f, q) /\ PullGoes(r, "repair")
     \/ /\ f.env # NoFile /\ Lacks(f, q) /\ ~Agrees(f, q)
        /\ pulling' = [pulling EXCEPT ![r] = Nothing]
  /\ UNCHANGED <<outbox, exporter, door, order, posting, cut, mailbox, lost, accessVars, budget>>

\* The files of a new number in their order, the envelope last.
EnvelopeLast(r) ==
  LET f == Local(r) IN LET q == This(r).quad IN
  \/ pulling[r].pc = "sig" /\ Written(r, WithSig(f, q)) /\ PullGoes(r, "body")
  \/ pulling[r].pc = "body" /\ Written(r, WithBody(f, q)) /\ PullGoes(r, "env")
  \/ pulling[r].pc = "env" /\ Written(r, WithEnv(f, q)) /\ PullGoes(r, "end")
EnvelopeFirst(r) ==  \* mutant
  LET f == Local(r) IN LET q == This(r).quad IN
  \/ pulling[r].pc = "sig" /\ Written(r, WithEnv(f, q)) /\ PullGoes(r, "body")
  \/ pulling[r].pc = "body" /\ Written(r, WithSig(f, q)) /\ PullGoes(r, "env")
  \/ pulling[r].pc = "env" /\ Written(r, WithBody(f, q)) /\ PullGoes(r, "end")
WriteOrder(r) == EnvelopeLast(r)

PullWrite(r) ==
  /\ WriteOrder(r)
  /\ UNCHANGED <<outbox, exporter, door, order, posting, cut, lost, accessVars, budget>>

Repair(r) ==
  /\ pulling[r].pc = "repair"
  /\ LET f == Local(r) IN LET q == This(r).quad IN
     \/ f.sig = NoFile /\ Written(r, WithSig(f, q)) /\ UNCHANGED <<pulling, lost>>
     \/ /\ f.sig # NoFile
        /\ Written(r, WithBody(f, q))
        /\ lost' = lost \ {<<r, This(r).n>>}
        /\ PullGoes(r, "end")
  /\ UNCHANGED <<outbox, exporter, door, order, posting, cut, accessVars, budget>>

PullOn(r) ==
  /\ \/ /\ pulling[r].pc = "end"
        /\ pulling' = [pulling EXCEPT ![r].pc = "next", ![r].since = This(r).n, ![r].quads = @ \ {This(r)}]
     \/ /\ pulling[r].pc = "next" /\ pulling[r].quads = {}
        /\ pulling' = [pulling EXCEPT ![r] = IF pulling[r].more THEN [@ EXCEPT !.pc = "ask"] ELSE Nothing]
  /\ UNCHANGED <<outbox, exporter, door, order, posting, cut, mailbox, lost, accessVars, budget>>

PullEnds(r) ==
  /\ pulling[r] # Nothing
  /\ Spend("crash")
  /\ pulling' = [pulling EXCEPT ![r] = Nothing]
  /\ UNCHANGED <<outbox, exporter, door, order, posting, cut, mailbox, lost, accessVars>>

\* A file of a letter is lost at the reader.
FileLost(r, n) ==
  /\ pulling[r] = Nothing
  /\ Complete(mailbox[r][n])
  /\ Spend("lose")
  /\ lost' = lost \cup {<<r, n>>}
  /\ \/ mailbox' = [mailbox EXCEPT ![r][n].sig = NoFile]
     \/ mailbox[r][n].bodies # {} /\ mailbox' = [mailbox EXCEPT ![r][n].bodies = {}]
  /\ UNCHANGED <<outbox, exporter, door, order, posting, cut, pulling, accessVars>>

-----------------------------------------------------------------------------

DoorInit ==
  /\ outbox = [o \in Outboxes |-> Empty]
  /\ exporter = [x \in Exporter |-> Nothing]
  /\ door = [d \in Doors |-> Empty]
  /\ order = [d \in Doors |-> <<>>]
  /\ posting = Nothing
  /\ cut = {}
  /\ mailbox = [r \in Reader |-> Empty]
  /\ pulling = [r \in Reader |-> Nothing]
  /\ lost = {}
  /\ tokens = FirstTokens
  /\ lines = {}
  /\ perMinute = 0
  /\ windows = <<>>
  /\ now = 0
  /\ answers = {}
  /\ servers = 0

AllTokens == {e.token : e \in UNION TokenFiles}
ExportNext ==
  \E x \in Exporter :
    \/ \E o \in Outboxes, q \in Letters : ExportStart(x, o, q)
    \/ ExportStep(x)
    \/ ExportEnds(x)
ServerNext ==
  \/ \E limit \in Limits : ServerStarts(limit)
  \/ ServerStops \/ Tick
  \/ \E file \in TokenFiles : TokensChange(file)
  \/ \E t \in AllTokens :
       \/ Refused401(t) \/ Refused429(t) \/ Channels(t)
       \/ \E d \in Doors : Index(t, d) \/ \E axis \in {"read", "write"} : Refused403(t, axis, d)
PushNext ==
  \/ \E o \in Outboxes, n \in Numbers, d \in Doors, foreign \in BOOLEAN : Post(o, n, d, foreign)
  \/ PostStep
PullNext ==
  \E r \in Reader :
    \/ \E since \in {0, Latest(r)} : PullStart(r, since)
    \/ PullPage(r) \/ PullQuad(r) \/ PullWrite(r) \/ Repair(r) \/ PullOn(r) \/ PullEnds(r)
    \/ \E n \in Numbers : FileLost(r, n)
DoorNext == ExportNext \/ ServerNext \/ PushNext \/ PullNext

DoorSpec == DoorInit /\ BudgetInit /\ [][DoorNext]_<<doorVars, budget>>

FilesOK(f) == f.sig \in {q.sig : q \in Letters} \cup {NoFile} /\ f.env \in {q.env : q \in Letters} \cup {NoFile}
DoorTypeOK ==
  /\ \A o \in Outboxes, n \in Numbers : FilesOK(outbox[o][n])
  /\ \A d \in Doors, n \in Numbers : FilesOK(door[d][n])
  /\ \A r \in Reader, n \in Numbers : FilesOK(mailbox[r][n])
  /\ DOMAIN windows \subseteq AllTokens
  /\ \A t \in DOMAIN windows : windows[t].count \in 1..perMinute /\ windows[t].start \in 0..now

-----------------------------------------------------------------------------
(* Properties *)

\* A complete quad of an outbox is one letter, with its own signature and body, also if
\* exports run at the same time or end half-way (_write_new, next_quad_number).
OutboxWhole ==
  \A o \in Outboxes, n \in Numbers :
    outbox[o][n].env # NoFile => Quad(outbox[o][n]) \in Letters

\* What a server has once accepted stays there for good, whoever posts under that number,
\* and whatever server runs (do_POST: the first writer stays).  Of a POST that ended
\* half-way a body of another name may lie beside it.
Accepted(a) == a.status = 200 /\ a.n # 0
AcceptedStays ==
  \A a \in answers : Accepted(a) =>
    LET f == door[a.door][a.n] IN
    /\ f.env = a.quad.env /\ f.sig = a.quad.sig
    /\ a.quad.body # NoBody => a.quad.body \in f.bodies

\* What a server has accepted is a letter, and it is what the door shows under that number, also
\* when the same POST was cut off before, if none with another quad was cut off there.
OfAnother(a) == \E c \in cut : c.door = a.door /\ c.n = a.n /\ c.quad # a.quad
AcceptedShown ==
  \A a \in answers : Accepted(a) =>
    /\ a.quad \in Letters
    /\ OfAnother(a) \/ Quad(door[a.door][a.n]) = a.quad

\* A complete quad of a door is one letter where no POST was cut off.
CutOff(d, n) == \E c \in cut : c.door = d /\ c.n = n
DoorWhole ==
  \A d \in Doors, n \in Numbers :
    door[d][n].env # NoFile /\ ~CutOff(d, n) => Quad(door[d][n]) \in Letters

\* What was accepted is what is shown, and what the same POST again would be told.  The
\* code does not keep it: a body that a POST left behind may be shown instead.
ResendConverges ==
  \A a \in answers : Accepted(a) => Quad(door[a.door][a.n]) = a.quad

\* A number that is complete in a mailbox has what the door shows under it, be that one letter
\* or a mixture, after any crash of a pull; one that lost a file has it again when a pull came by.
PulledWhole ==
  \A r \in Reader, n \in Numbers :
    mailbox[r][n].env # NoFile /\ <<r, n>> \notin lost =>
      Quad(mailbox[r][n]) = Quad(door[ReadsAt[r]][n])

\* A pull that goes on from its highest number misses a lower one only if that became
\* complete at the door after a higher one that was pulled.
Before(d, m, n) == \E i, j \in DOMAIN order[d] : i < j /\ order[d][i] = m /\ order[d][j] = n
MissedOnlyIfLate ==
  \A r \in Reader : \A n \in Fresh(ReadsAt[r], 0) \ Have(r) :
    n < Latest(r) => \E m \in Have(r) : m > n /\ Before(ReadsAt[r], m, n)

\* Who was told to wait is served when it comes after that time, if it was quiet since
\* and the server is at no POST (which counts before it is answered).
Served(t) == {a \in answers : a.token = t /\ a.status \notin {401, 429}}
RetryAfterHolds ==
  \A a \in answers :
    (/\ a.status = 429 /\ now >= a.again /\ Member(a.token) /\ posting = Nothing
     /\ \A b \in Served(a.token) : b.no < a.no) => Within(a.token)

\* A member has at most two windows of answers in the time of one, from one server.
AtMostTwoWindows ==
  \A a \in answers : perMinute # 0 /\ a.server = servers =>
    Cardinality({b \in Served(a.token) : b.server = a.server /\ b.at >= a.at /\ b.at < a.at + Window})
      <= 2 * perMinute

\* Only who was served a window of answers is told to wait: what strangers or others ask
\* costs a member nothing.
WaitsHaveReason ==
  \A a \in answers : a.status = 429 /\ a.server = servers =>
    Cardinality({b \in Served(a.token) : b.server = a.server /\ b.no < a.no /\ b.at > a.at - Window})
      >= perMinute

\* A complete quad of an outbox is one letter.  At a door it is what was accepted and stays there;
\* the quad that is shown is that letter if no POST of another quad was cut off under that number
\* (else it may have that one's body).  A mailbox has what the door shows.
QuadsWhole == OutboxWhole /\ AcceptedStays /\ AcceptedShown /\ DoorWhole /\ PulledWhole

\* The limiter keeps its promise to a member, its bound, and strangers out of it.
LimiterIsFair == RetryAfterHolds /\ AtMostTwoWindows /\ WaitsHaveReason
=============================================================================
