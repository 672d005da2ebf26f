-------------------------------- MODULE Board --------------------------------
(***************************************************************************)
(* A bulletin board over a drop (bbs_wire.py, bbs.py).  A lab prepares an  *)
(* event under the lock of its ledger, pushes it to its own door of the    *)
(* board's channel, and keeps a record of that; a reader collects all      *)
(* doors in rounds, and what the board says is worked out from the events  *)
(* that it has, in the order of their signed times.                        *)
(*                                                                         *)
(* The board has one door per lab.  A quad is written to a door in one     *)
(* step here, and a number of a mailbox is "none", "part" (no envelope),   *)
(* "damaged" (an envelope, but not all it is bound to) or "whole".         *)
(***************************************************************************)
EXTENDS Budget, Integers, FiniteSets, SequencesExt

CONSTANTS
  Lab,
  Channel,    \* the coordinate of the board
  Sayings,    \* what labs may say: the events below
  Prepared,   \* those that are said with organum-bbs
  NoEvent,
  MaxQuad,    \* bound on the numbers of a door
  Pusher      \* processes that push

\* An event: [kind, id, board, at, lab, member, home, author, agent, delegated, reply,
\* restricted, fit].  `id` is the name of a post, which several may bear; `board` the
\* coordinate it is signed for; `lab` who signs; `member`, of the lab `home`, the author of
\* a post, whom a decision is about or the subject of a profile; `author` who speaks in a
\* profile; `agent` who acts for others and `delegated` whether that is said to be on a
\* delegation; `fit` whether its fields are all there and of the right kind
\* (shape_problems, PROFILE_FIELDS).
ASSUME BoardAssumption ==
  /\ MaxQuad \in Nat \ {0}
  /\ Prepared \subseteq Sayings /\ NoEvent \notin Sayings
  /\ Lab \subseteq Nat /\ IsFiniteSet(Lab) /\ \A e \in Sayings : e.at \in Nat

VARIABLES
  quads,      \* quads[l][n]: the quad of that number in the outbox: [event, files], or NoQuad
  records,    \* records[l][n]: [event, status] of post.json, or NoRecord
  preparing,  \* preparing[l]: where the one that has the lock of l's ledger stands
  pushing,    \* where a pusher stands
  wall,       \* wall[l][n]: the event at the door of l
  raised,     \* raised[l]: the numbers of the door, as they came
  shelf,      \* shelf[l][n]: what the reader has of it
  round,      \* .round.json or NoRound, and (for the properties) what was at a door when it was pulled
  collecting  \* whether a process is at a round

boardVars == <<quads, records, preparing, pushing, wall, raised, shelf, round, collecting>>

QuadNumbers == 1..MaxQuad
NoQuad == [event |-> NoEvent, files |-> "none"]
NoRecord == [event |-> NoEvent, status |-> "none"]
NoRound == [status |-> "none", planned |-> {}, results |-> <<>>, there |-> <<>>]
BoardIdle == [pc |-> "none"]

-----------------------------------------------------------------------------
(* prepare_post: admission, number and record under one lock. *)

BoardKinds == {"created", "flags", "admitted", "removed", "closed", "active", "post"}
ProfileKinds == {"announced", "withdrawn"}

\* validate_event: who decides of members is named, and of the lab that signs, or it is
\* said that it was delegated.
MemberDecision(e) == e.kind \in {"admitted", "removed"}
ValidEvent(e) == e.fit /\ (MemberDecision(e) => e.agent # NoEvent /\ (e.agent = e.lab \/ e.delegated))

\* validate_profile_event: who speaks is the subject, or named and delegated; who is
\* announced is of the lab that signs, or it is said that it was delegated.
AnyVoice(e) == e.fit  \* mutant
ValidProfile(e) ==
  /\ e.fit
  /\ e.author = e.member \/ (e.agent # NoEvent /\ e.delegated)
  /\ e.kind = "announced" => e.home = e.lab \/ e.delegated

Valid(e) == IF e.kind \in ProfileKinds THEN ValidProfile(e) ELSE ValidEvent(e)
OfBoard(e) == e.kind \in BoardKinds /\ e.board = Channel

TakenNumbers(l) == {n \in QuadNumbers : quads[l][n] # NoQuad}
NextByRecord(l) == 1 + Cardinality({n \in QuadNumbers : records[l][n] # NoRecord})  \* mutant
NextQuad(l) == 1 + IF TakenNumbers(l) = {} THEN 0 ELSE CHOOSE n \in TakenNumbers(l) : \A m \in TakenNumbers(l) : m <= n

FindNothing(l, e) == {}  \* mutant
FindByEvent(l, e) == {n \in QuadNumbers : records[l][n].event = e}

\* The ledger gives the same answer for the same event; a record that is there is the
\* answer.
Prepare(l, e) ==
  /\ preparing[l] = BoardIdle
  /\ e.lab = l /\ Valid(e) /\ (e.kind \in BoardKinds => OfBoard(e))
  /\ NextQuad(l) <= MaxQuad
  /\ Spend("prepare")
  /\ preparing' = [preparing EXCEPT ![l] =
       IF FindByEvent(l, e) # {} THEN BoardIdle ELSE [pc |-> "export", event |-> e, n |-> NextQuad(l)]]
  /\ UNCHANGED <<quads, records, pushing, wall, raised, shelf, round, collecting>>

\* The number is taken by its first file; then the quad is whole; then there is a record.
PrepareStep(l) ==
  /\ preparing[l] # BoardIdle
  /\ LET p == preparing[l] IN
     \/ /\ p.pc = "export"
        /\ quads' = [quads EXCEPT ![l][p.n] = [event |-> p.event, files |-> "part"]]
        /\ preparing' = [preparing EXCEPT ![l].pc = "envelope"]
        /\ UNCHANGED records
     \/ /\ p.pc = "envelope"
        /\ quads' = [quads EXCEPT ![l][p.n] = [event |-> p.event, files |-> "whole"]]
        /\ preparing' = [preparing EXCEPT ![l].pc = "record"]
        /\ UNCHANGED records
     \/ /\ p.pc = "record"
        /\ records' = [records EXCEPT ![l][p.n] = [event |-> p.event, status |-> "pending"]]
        /\ preparing' = [preparing EXCEPT ![l] = BoardIdle]
        /\ UNCHANGED quads
  /\ UNCHANGED <<pushing, wall, raised, shelf, round, collecting, budget>>

PrepareEnds(l) ==
  /\ preparing[l] # BoardIdle
  /\ Spend("crash")
  /\ preparing' = [preparing EXCEPT ![l] = BoardIdle]
  /\ UNCHANGED <<quads, records, pushing, wall, raised, shelf, round, collecting>>

-----------------------------------------------------------------------------
(* push_outbox *)

\* The door keeps what it has under a number (do_POST).
Raise(l, n, e) ==
  IF wall[l][n] = NoEvent
  THEN /\ wall' = [wall EXCEPT ![l][n] = e]
       /\ raised' = [raised EXCEPT ![l] = Append(@, n)]
  ELSE UNCHANGED <<wall, raised>>

\* The record is read, the quad is sent, the record is written: no lock is held.
PushRead(p, l, n) ==
  /\ pushing[p] = BoardIdle
  /\ records[l][n] # NoRecord
  /\ Spend("push")
  /\ pushing' = [pushing EXCEPT ![p] = [pc |-> "send", lab |-> l, n |-> n]]
  /\ UNCHANGED <<quads, records, preparing, wall, raised, shelf, round, collecting>>

\* A door refuses a token or a burst (4xx), does not answer in time or fails (5xx), or
\* answers with what it has under the number.
SayStored(same, answer) == IF same THEN "stored" ELSE "conflict"  \* mutant
PushResult(same, answer) ==
  CASE answer = "none"           -> "unknown"
    [] answer = "refused"        -> "rejected"
    [] answer = "given" /\ same  -> "stored"
    [] answer = "given" /\ ~same -> "conflict"

PushSend(p) ==
  /\ pushing[p].pc = "send"
  /\ LET l == pushing[p].lab IN LET n == pushing[p].n IN LET e == quads[l][n].event IN
     \E arrived \in BOOLEAN, answer \in {"none", "refused", "given"} :
       /\ answer = "given" => arrived
       /\ answer = "refused" => ~arrived
       /\ IF answer = "given" THEN UNCHANGED budget ELSE Spend("lost")
       /\ IF arrived THEN Raise(l, n, e) ELSE UNCHANGED <<wall, raised>>
       /\ pushing' = [pushing EXCEPT ![p] = [pc |-> "save", lab |-> l, n |-> n,
            result |-> PushResult(wall[l][n] \in {NoEvent, e}, answer)]]
  /\ UNCHANGED <<quads, records, preparing, shelf, round, collecting>>

PushSave(p) ==
  /\ pushing[p].pc = "save"
  /\ records' = [records EXCEPT ![pushing[p].lab][pushing[p].n].status = pushing[p].result]
  /\ pushing' = [pushing EXCEPT ![p] = BoardIdle]
  /\ UNCHANGED <<quads, preparing, wall, raised, shelf, round, collecting, budget>>

\* An event that was not prepared here: message, export and push of organum-hub, which
\* check nothing of a board.
RawPost(l, e) ==
  /\ e.lab = l
  /\ preparing[l] = BoardIdle
  /\ NextQuad(l) <= MaxQuad
  /\ Spend(e.kind)
  /\ quads' = [quads EXCEPT ![l][NextQuad(l)] = [event |-> e, files |-> "whole"]]
  /\ Raise(l, NextQuad(l), e)
  /\ UNCHANGED <<records, preparing, pushing, shelf, round, collecting>>

-----------------------------------------------------------------------------
(* pull_channel *)

\* door_completeness and resume_point: go on after the last whole number before the
\* first one that is not.
Incomplete(l) == {n \in QuadNumbers : shelf[l][n] \in {"part", "damaged"}}
ResumePoint(l) ==
  LET good == {n \in QuadNumbers : shelf[l][n] = "whole" /\ \A m \in Incomplete(l) : n < m}
  IN IF good = {} THEN 0 ELSE CHOOSE n \in good : \A m \in good : m <= n

TakenToo(l) == TakenNumbers(l)  \* mutant: also numbers that were taken and not used
OnWall(l) == {n \in QuadNumbers : wall[l][n] # NoEvent}
ToPull(l) == {n \in OnWall(l) : n > ResumePoint(l)}

Planned == {l \in Lab : OnWall(l) # {}}
Untried == round.planned \ DOMAIN round.results

\* The doors are asked for; then the plan is written before the first door is pulled.
RoundStarts ==
  /\ ~collecting
  /\ \/ /\ Spend("round")
        /\ collecting' = TRUE
        /\ round' = [status |-> "running", planned |-> Planned, results |-> <<>>, there |-> <<>>]
     \/ /\ Spend("fault")  \* no answer
        /\ collecting' = FALSE
        /\ round' = [status |-> "discovery-failed", planned |-> {}, results |-> <<>>, there |-> <<>>]
  /\ UNCHANGED <<quads, records, preparing, pushing, wall, raised, shelf>>

\* One door: all that is new, in order, or up to a fault; what is not whole is written
\* anew.  The result is good if all came and nothing is incomplete.
PullDoor(l) ==
  /\ collecting
  /\ l \in Untried
  /\ \E got \in SUBSET ToPull(l), part \in SUBSET ToPull(l) :
       /\ \A n \in got, m \in ToPull(l) \ got : n < m
       /\ IF got = ToPull(l) THEN part = {} /\ UNCHANGED budget
          ELSE /\ Spend("fault")
               /\ part \subseteq {n \in ToPull(l) \ got : shelf[l][n] = "none" /\ \A m \in ToPull(l) \ got : n <= m}
       /\ shelf' = [shelf EXCEPT ![l] =
            [n \in QuadNumbers |-> IF n \in got THEN "whole" ELSE IF n \in part THEN "part" ELSE @[n]]]
       /\ LET good == got = ToPull(l) /\ part = {} /\ Incomplete(l) \subseteq got
              doors == DOMAIN round.results \cup {l}
          IN round' = [round EXCEPT
               !.results = [d \in doors |-> IF d = l THEN good ELSE @[d]],
               !.there = [d \in doors |-> IF d = l THEN OnWall(l) ELSE @[d]]]
  /\ UNCHANGED <<quads, records, preparing, pushing, wall, raised, collecting>>

RoundEnds ==
  /\ collecting
  /\ Untried = {}
  /\ round' = [round EXCEPT !.status = "complete"]
  /\ collecting' = FALSE
  /\ UNCHANGED <<quads, records, preparing, pushing, wall, raised, shelf, budget>>

\* The round is cut off; its file stays as it was.
RoundCut ==
  /\ collecting
  /\ Spend("crash")
  /\ collecting' = FALSE
  /\ UNCHANGED <<quads, records, preparing, pushing, wall, raised, shelf, round>>

\* A file of a whole letter is lost.
ShelfDamage(l, n) ==
  /\ shelf[l][n] = "whole"
  /\ Spend("damage")
  /\ shelf' = [shelf EXCEPT ![l][n] = "damaged"]
  /\ UNCHANGED <<quads, records, preparing, pushing, wall, raised, round, collecting>>

\* round_problems and completeness_of
NoFailures(r) == {}  \* mutant: looks at the status alone
Failures(r) == {l \in DOMAIN r.results : ~r.results[l]}
Completeness ==
  IF round = NoRound THEN "unknown"
  ELSE IF round.status = "complete" /\ Failures(round) = {} /\ Untried = {} THEN "complete"
  ELSE "partial"

-----------------------------------------------------------------------------
(* load_channel, project_board, threads, project_profiles *)

\* What is read: whole letters, in the order of their times, then labs, which are
\* numbers here, then quads.
Loaded == {[event |-> wall[ln[1]][ln[2]], n |-> ln[2]] : ln \in
             {q \in Lab \X QuadNumbers : shelf[q[1]][q[2]] = "whole"}}
Earlier(x, y) ==
  \/ x.event.at < y.event.at
  \/ x.event.at = y.event.at /\ x.event.lab < y.event.lab
  \/ x.event.at = y.event.at /\ x.event.lab = y.event.lab /\ x.n < y.n
AllEarlier(S, x) == {y \in S : Earlier(y, x)}
InOrder(S) == [i \in 1..Cardinality(S) |-> CHOOSE x \in S : Cardinality(AllEarlier(S, x)) = i - 1]

\* What is signed for another board is not given to the board (_shape_problems).
LoadedBoard == InOrder({x \in Loaded : OfBoard(x.event)})
LoadedProfiles == InOrder({x \in Loaded : x.event.kind \in ProfileKinds})

EmptyBoard == [board |-> NoEvent, status |-> "none", restricted |-> TRUE, members |-> {}, posts |-> <<>>]

\* An event that breaks the contract changes nothing; a post counts if it is for the board
\* that was created, which is open, and, where that is restricted, its author is a member
\* at that point.
AcceptsLate(s, e) ==  \* mutant: also when closed
  (s.board # NoEvent => e.board = s.board) /\ (s.restricted => e.member \in s.members)
Accepts(s, e) ==
  /\ s.board # NoEvent => e.board = s.board
  /\ s.status # "closed"
  /\ s.restricted => e.member \in s.members
Apply(s, x) ==
  LET e == x.event IN
  IF ~ValidEvent(e) THEN s ELSE
  CASE e.kind = "created"                    -> [s EXCEPT !.board = e.board, !.status = "active"]
    [] e.kind = "active"                     -> [s EXCEPT !.status = "active"]
    [] e.kind = "closed"                     -> [s EXCEPT !.status = "closed"]
    [] e.kind = "flags"                      -> [s EXCEPT !.restricted = e.restricted]
    [] e.kind = "admitted"                   -> [s EXCEPT !.members = @ \cup {e.member}]
    [] e.kind = "removed"                    -> [s EXCEPT !.members = @ \ {e.member}]
    [] e.kind = "post" /\ Accepts(s, e)      -> [s EXCEPT !.posts = Append(@, e)]
    [] OTHER                                 -> s
ProjectBoard == FoldLeft(Apply, EmptyBoard, LoadedBoard)

\* A dict with one more entry, or with another value under its name.
WithEntry(f, a, b) == [x \in DOMAIN f \cup {a} |-> IF x = a THEN b ELSE f[x]]

\* threads: the replies of each first post; a reply to what is not there yet opens a list
\* under that name.
Parent(t, e) == e.reply  \* mutant: a list for each reply
RootOf(t, e) == IF e.reply \in DOMAIN t.root THEN t.root[e.reply] ELSE e.reply
Thread(t, e) ==
  IF e.reply = NoEvent
  THEN [lists |-> WithEntry(t.lists, e.id, <<>>), root |-> WithEntry(t.root, e.id, e.id)]
  ELSE LET root == RootOf(t, e)
           list == IF root \in DOMAIN t.lists THEN t.lists[root] ELSE <<>>
       IN [lists |-> WithEntry(t.lists, root, Append(list, e.id)), root |-> WithEntry(t.root, e.id, root)]
Threads(posts) == FoldLeft(Thread, [lists |-> <<>>, root |-> <<>>], posts).lists

\* project_profiles: the last word of a subject, and when it was first announced; what
\* breaks the contract changes nothing.
EmptyRows == [rows |-> <<>>, withdrawn |-> {}]
KeepLast(rows, e) == e.at  \* mutant
KeepFirst(rows, e) == IF e.member \in DOMAIN rows THEN rows[e.member].first ELSE e.at
Profile(s, x) ==
  LET e == x.event IN
  IF ~ValidProfile(e) THEN s
  ELSE IF e.kind = "withdrawn" THEN [s EXCEPT !.withdrawn = @ \cup {e.member}]
  ELSE [rows |-> WithEntry(s.rows, e.member, [first |-> KeepFirst(s.rows, e), last |-> e.at]),
        withdrawn |-> s.withdrawn \ {e.member}]
ProjectProfiles == FoldLeft(Profile, EmptyRows, LoadedProfiles)
Directory == [m \in DOMAIN ProjectProfiles.rows \ ProjectProfiles.withdrawn |-> ProjectProfiles.rows[m]]

-----------------------------------------------------------------------------

BoardInit ==
  /\ quads = [l \in Lab |-> [n \in QuadNumbers |-> NoQuad]]
  /\ records = [l \in Lab |-> [n \in QuadNumbers |-> NoRecord]]
  /\ preparing = [l \in Lab |-> BoardIdle]
  /\ pushing = [p \in Pusher |-> BoardIdle]
  /\ wall = [l \in Lab |-> [n \in QuadNumbers |-> NoEvent]]
  /\ raised = [l \in Lab |-> <<>>]
  /\ shelf = [l \in Lab |-> [n \in QuadNumbers |-> "none"]]
  /\ round = NoRound
  /\ collecting = FALSE

BoardNext ==
  \/ \E l \in Lab :
       \/ (\E e \in Prepared : Prepare(l, e)) \/ (\E e \in Sayings : RawPost(l, e))
       \/ PrepareStep(l) \/ PrepareEnds(l) \/ PullDoor(l)
       \/ \E n \in QuadNumbers : ShelfDamage(l, n) \/ \E p \in Pusher : PushRead(p, l, n)
  \/ \E p \in Pusher : PushSend(p) \/ PushSave(p)
  \/ RoundStarts \/ RoundEnds \/ RoundCut

BoardSpec == BoardInit /\ BudgetInit /\ [][BoardNext]_<<boardVars, budget>>

BoardTypeOK ==
  /\ \A l \in Lab, n \in QuadNumbers :
       /\ wall[l][n] \in Sayings \cup {NoEvent}
       /\ shelf[l][n] \in {"none", "part", "damaged", "whole"}
       /\ shelf[l][n] # "none" => wall[l][n] # NoEvent
  /\ \A l \in Lab : IsInjective(raised[l]) /\ ToSet(raised[l]) = OnWall(l)
  /\ DOMAIN round.results \subseteq round.planned

-----------------------------------------------------------------------------
(* Properties *)

\* An event is recorded under one number only, however often it is prepared and wherever
\* a process ended: FindByEvent looks at records, and a quad of a preparation that ended
\* before its record is left in the outbox without one (prepare_post).
OneRecordPerEvent ==
  \A l \in Lab, m, n \in QuadNumbers :
    records[l][m] # NoRecord /\ records[l][m].event = records[l][n].event => m = n

\* What is recorded as stored is at the door, and no push ever finds something else under
\* its number: one outbox numbers a door, also with quads that nobody recorded.
RecordsHold ==
  \A l \in Lab, n \in QuadNumbers : records[l][n] # NoRecord =>
    /\ records[l][n].status = "stored" => wall[l][n] = records[l][n].event
    /\ records[l][n].status # "conflict"

\* A reading that calls itself complete has every letter that was at a planned door when
\* that was pulled, but for files that were lost, of which it speaks, and for letters
\* that came after one with a higher number (completeness_of).
CameLate(l, n) ==
  \E i, j \in DOMAIN raised[l] : i < j /\ raised[l][j] = n /\ raised[l][i] > n /\ shelf[l][raised[l][i]] # "none"
CompleteMeansAll ==
  Completeness = "complete" =>
    \A l \in round.planned : \A n \in round.there[l] :
      shelf[l][n] \in {"whole", "damaged"} \/ CameLate(l, n)

\* The posts of a board are those that were signed for it while it was open, by members
\* where it was restricted, in the order of their times (project_board).
HasPrior(S, x) == \E y \in S : Earlier(y, x) /\ \A z \in S : Earlier(z, x) => z = y \/ Earlier(z, y)
PriorOf(S, x) == CHOOSE y \in S : Earlier(y, x) /\ \A z \in S : Earlier(z, x) => z = y \/ Earlier(z, y)
OfKinds(kinds) == {x \in Loaded : x.event.kind \in kinds /\ x.event.board = Channel /\ ValidEvent(x.event)}
OpenAt(x) ==
  LET S == OfKinds({"created", "active", "closed"}) IN HasPrior(S, x) => PriorOf(S, x).event.kind # "closed"
RestrictedAt(x) ==
  LET S == OfKinds({"flags"}) IN HasPrior(S, x) => PriorOf(S, x).event.restricted
MemberAt(x) ==
  LET S == {y \in OfKinds({"admitted", "removed"}) : y.event.member = x.event.member}
  IN HasPrior(S, x) /\ PriorOf(S, x).event.kind = "admitted"
PostsFollowContract ==
  LET posts == ProjectBoard.posts IN
  /\ ToSet(posts) = {x.event : x \in {y \in OfKinds({"post"}) : OpenAt(y) /\ (RestrictedAt(y) => MemberAt(y))}}
  /\ \A i, j \in DOMAIN posts : i < j => posts[i].at <= posts[j].at

\* Where every reply comes after the posts of the name that it answers, of which there is
\* one, each thread lists the replies that go back to its first post, in the order of the
\* posts.  A reply to a name that several posts bear answers the last of them (threads).
FirstPosts(posts) == {i \in DOMAIN posts : posts[i].reply = NoEvent}
AnsweredBy(posts, j) == {i \in DOMAIN posts : posts[i].id = posts[j].reply}
RepliesFollow(posts) ==
  \A j \in DOMAIN posts \ FirstPosts(posts) : AnsweredBy(posts, j) # {} /\ \A i \in AnsweredBy(posts, j) : i < j
Nearest(posts, j) == CHOOSE i \in AnsweredBy(posts, j) : \A h \in AnsweredBy(posts, j) : h <= i
Origin(posts) ==
  LET origin[j \in DOMAIN posts] == IF j \in FirstPosts(posts) THEN j ELSE origin[Nearest(posts, j)]
  IN origin
RepliesTo(posts, r) == {j \in DOMAIN posts \ FirstPosts(posts) : posts[Origin(posts)[j]].id = r}
ListOf(posts, mine) ==
  [k \in 1..Cardinality(mine) |-> posts[CHOOSE j \in mine : Cardinality({i \in mine : i <= j}) = k].id]
ThreadsGoBack ==
  LET posts == ProjectBoard.posts IN
  RepliesFollow(posts) =>
    Threads(posts) = [r \in {posts[i].id : i \in FirstPosts(posts)} |-> ListOf(posts, RepliesTo(posts, r))]

\* Every reply is in the list of a thread.  The code loses some: a first post that is
\* later in the order than a reply to it begins its list anew.
EveryReplyListed ==
  LET posts == ProjectBoard.posts IN
  \A j \in DOMAIN posts : posts[j].reply # NoEvent => posts[j].id \in UNION {ToSet(Threads(posts)[r]) : r \in DOMAIN Threads(posts)}

\* The directory lists a subject if the last word for it is not that it withdraws, with the
\* time at which it was first announced.  A word for a subject is its own, announced through
\* its own lab or on a delegation, or that of somebody named on a delegation
\* (project_profiles).
SpeaksFor(e) ==
  /\ e.fit
  /\ \/ e.delegated /\ e.agent # NoEvent
     \/ e.author = e.member /\ (e.kind = "announced" => e.home = e.lab \/ e.delegated)
LastWordCounts ==
  LET words(m) == {x \in Loaded : x.event.kind \in ProfileKinds /\ x.event.member = m /\ SpeaksFor(x.event)}
      first(m) == CHOOSE x \in words(m) : /\ x.event.kind = "announced"
                                          /\ \A y \in words(m) : y.event.kind = "announced" => x = y \/ Earlier(x, y)
      final(m) == CHOOSE x \in words(m) : \A y \in words(m) : x = y \/ Earlier(y, x)
      subjects == {x.event.member : x \in {y \in Loaded : y.event.kind = "announced" /\ SpeaksFor(y.event)}}
  IN Directory = [m \in {s \in subjects : final(s).event.kind = "announced"} |->
                    [first |-> first(m).event.at, last |-> final(m).event.at]]

\* An event that is prepared has one quad, and not two.  The code does not hold to this: a
\* process that ended between export_quad and _save_outbox has left a quad that is not
\* found when the event is prepared again.
OneQuadPerEvent ==
  \A l \in Lab, m, n \in QuadNumbers :
    /\ quads[l][m] = quads[l][n] /\ quads[l][n].files = "whole"
    /\ wall[l][m] = NoEvent /\ wall[l][n] = NoEvent
    => m = n

\* No event is recorded twice, and its record says truly what became of it.
PostsAreOnce == OneRecordPerEvent /\ RecordsHold

\* The board, its threads and its directory are what the labs said, by their contract.
BoardSaysWhatWasSaid == PostsFollowContract /\ ThreadsGoBack /\ LastWordCounts
=============================================================================
