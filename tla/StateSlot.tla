------------------------------ MODULE StateSlot ------------------------------
(***************************************************************************)
(* The state slot of the drop (hub_drop.py, since 0.8.0): one directory of *)
(* generation files per token id, to which the lab that owns the token     *)
(* uploads bundles of its ledger, and from which it restores.              *)
(*                                                                         *)
(* The server is single threaded and keeps nothing in memory between two   *)
(* requests: the current generation is read from the directory each time.  *)
(* Beside it runs a supervisor that is not part of the repository.  It     *)
(* copies generations to an outside store, writes a mark for each one that *)
(* is safely there, and after a redeployment, which starts with an empty   *)
(* directory, puts them back.  Its actions are modelled from how hub_drop  *)
(* and hub_state use what it leaves behind.                                *)
(*                                                                         *)
(* The server does not open the bundles: it handles their fingerprints.    *)
(***************************************************************************)
EXTENDS Bundles, FiniteSets

CONSTANTS
  Client,         \* those who upload
  Nobody,         \* the client of a request whose client has given up
  Keep,           \* STATE_KEEP, the number of generations kept
  MaxJump,        \* STATE_MAX_JUMP, how far a floor may exceed the current generation
  MaxGeneration,  \* STATE_GENERATION_MAX: eight digits in the file name
  MaxRedeploys,   \* bound: redeployments in a behaviour
  MaxLate         \* bound: abandoned requests still on their way

ASSUME SlotAssumption ==
  /\ Nobody \notin Client
  /\ Keep \in Nat \ {0}
  /\ MaxJump \in Nat \ {0}
  /\ MaxGeneration \in Nat \ {0}
  /\ MaxRedeploys \in Nat
  /\ MaxLate \in Nat

VARIABLES
  files,      \* the generation files in the slot's directory
  hand,       \* the file the server has scanned for and is about to link, or Idle
  calls,      \* calls[c]: where the one open request of client c stands
  late,       \* requests whose clients gave up waiting and that may still arrive
  marks,      \* marks/state/<id>/<gen>: generations seen to be stored outside
  settled,    \* marks/settled and marks/settled-by-timeout
  outside,    \* the outside store of the supervisor
  old,        \* unmirrored files of the previous instance, while it still runs
  redeploys   \* how often the instance was replaced (bounds the model)

server == <<files, hand>>
network == <<calls, late>>
supervisor == <<marks, settled, outside, old, redeploys>>
slotVars == <<files, hand, calls, late, marks, settled, outside, old, redeploys>>

-----------------------------------------------------------------------------
(* Generations *)

Max2(a, b) == IF a >= b THEN a ELSE b

\* A generation as the two sides name it: its number and its fingerprint.
Name == [gen : Nat, sha : Bundle \cup {NoSha}]
Empty == [gen |-> 0, sha |-> NoSha]

\* A generation file: the header line and the bytes of the bundle.
File == [gen : 1 .. MaxGeneration, sha : Bundle, prev : Name]
NameOf(f) == [gen |-> f.gen, sha |-> f.sha]

Newest(S) == CHOOSE f \in S : \A g \in S : g.gen <= f.gen
NewestName(S) == IF S = {} THEN Empty ELSE NameOf(Newest(S))
Current == NewestName(files)
Taken(S, n) == \E f \in S : f.gen = n

\* What is left when only the Keep newest generations stay.
OldestKept(S) == {f \in S : Cardinality({g \in S : g.gen < f.gen}) < Keep}  \* mutant
Pruned(S) == {f \in S : Cardinality({g \in S : g.gen > f.gen}) < Keep}

-----------------------------------------------------------------------------
(* Requests and answers *)

Request == [expect : Name, floor : Nat, sha : Bundle]

\* A call is not open, on its way or in the hands of the server, lost with the
\* instance, or answered with a status and the generation the answer names.
NoCall == [phase |-> "none"]
Sent(r) == [phase |-> "sent", req |-> r]
Served == [phase |-> "served"]
Lost == [phase |-> "lost"]
Answer(status, name) == [phase |-> "answered", status |-> status, name |-> name]

Idle == [from |-> Nobody]

Call == {NoCall, Served, Lost}
          \cup [phase : {"sent"}, req : Request]
          \cup [phase : {"answered"}, status : {200, 400, 409}, name : Name]
Hand == {Idle} \cup [from : Client \cup {Nobody}, file : File]

Reply(c, status, name) ==
  calls' = IF c = Nobody THEN calls ELSE [calls EXCEPT ![c] = Answer(status, name)]

-----------------------------------------------------------------------------
(* The upload handler, _state_post: it scans the directory, compares the   *)
(* condition with the current generation, and links the new file under its *)
(* name only if that name is free.  The supervisor works in the same       *)
(* directory between the scan and the link.                                *)

TooFar(r) == r.floor > Current.gen + MaxJump

\* The condition of an upload: the current generation and its fingerprint.
Meets(r) == r.expect = Current

\* A number greater than every number its sender has used.
NextWithoutFloor(r) == Current.gen + 1  \* mutant
NextNumber(r) == Max2(Current.gen, r.floor) + 1

\* The same bytes on the same condition again: a client whose answer was lost.
Repeats(r) ==
  /\ files # {}
  /\ r.expect = Newest(files).prev
  /\ r.sha = Current.sha

Refuse(c, r) ==
  /\ TooFar(r) \/ (Meets(r) /\ NextNumber(r) > MaxGeneration)
  /\ Reply(c, 400, Current)
  /\ UNCHANGED server

Scan(c, r) ==
  /\ ~TooFar(r)
  /\ Meets(r)
  /\ NextNumber(r) <= MaxGeneration
  /\ hand' = [from |-> c, file |-> [gen |-> NextNumber(r), sha |-> r.sha, prev |-> Current]]
  /\ calls' = IF c = Nobody THEN calls ELSE [calls EXCEPT ![c] = Served]
  /\ UNCHANGED files

Dedup(c, r) ==
  /\ ~TooFar(r)
  /\ ~Meets(r)
  /\ Repeats(r)
  /\ Reply(c, 200, Current)
  /\ UNCHANGED server

Conflict(c, r) ==
  /\ ~TooFar(r)
  /\ ~Meets(r)
  /\ ~Repeats(r)
  /\ Reply(c, 409, Current)
  /\ UNCHANGED server

Handle(c, r) == Refuse(c, r) \/ Scan(c, r) \/ Dedup(c, r) \/ Conflict(c, r)

\* The next request is read only when the one in hand is answered.
Serve(c) ==
  /\ hand = Idle
  /\ calls[c].phase = "sent"
  /\ Handle(c, calls[c].req)
  /\ UNCHANGED <<late, supervisor>>

ServeLate(r) ==
  /\ hand = Idle
  /\ r \in late
  /\ Handle(Nobody, r)
  /\ late' = late \ {r}
  /\ UNCHANGED supervisor

\* _state_place and what follows it: link, prune and answer, or, if the name
\* appeared since the scan, scan again and answer that the condition failed.
Place ==
  /\ hand # Idle
  /\ IF Taken(files, hand.file.gen)
       THEN /\ Reply(hand.from, 409, Current)
            /\ UNCHANGED files
       ELSE /\ files' = Pruned(files \cup {hand.file})
            /\ Reply(hand.from, 200, NameOf(hand.file))
  /\ hand' = Idle
  /\ UNCHANGED <<late, supervisor>>

-----------------------------------------------------------------------------
(* The client's end of the connection *)

Send(c, r) == calls' = [calls EXCEPT ![c] = Sent(r)] /\ UNCHANGED late

\* The answer does not come in time, or the client dies: a request that has not
\* been read yet is lost, or stays in the server's backlog.
Abandon(c) ==
  /\ calls' = [calls EXCEPT ![c] = NoCall]
  /\ \/ late' = late
     \/ /\ calls[c].phase = "sent"
        /\ Cardinality(late \cup {calls[c].req}) <= MaxLate
        /\ late' = late \cup {calls[c].req}
  /\ hand' = IF hand.from = c THEN [hand EXCEPT !.from = Nobody] ELSE hand

-----------------------------------------------------------------------------
(* The supervisor (external) *)

\* A complete file is copied outside under its number, unless other bytes are
\* stored there under that number; then the mark is written.
Mirror(f) ==
  /\ f \in files
  /\ f.gen \notin marks
  /\ f \in outside \/ ~Taken(outside, f.gen)
  /\ outside' = outside \cup {f}
  /\ marks' = marks \cup {f.gen}
  /\ UNCHANGED <<server, network, settled, old, redeploys>>

\* A generation stored outside is put back, with its mark, where its number is
\* free in the directory.
PutBack(f) ==
  /\ settled # "yes"
  /\ f \in Pruned(outside)
  /\ ~Taken(files, f.gen)
  /\ files' = files \cup {f}
  /\ marks' = marks \cup {f.gen}
  /\ UNCHANGED <<hand, network, settled, outside, old, redeploys>>

\* The previous instance, not yet stopped, still mirrors what it had accepted.
MirrorOld(f) ==
  /\ f \in old
  /\ old' = old \ {f}
  /\ outside' = IF Taken(outside, f.gen) THEN outside ELSE outside \cup {f}
  /\ UNCHANGED <<server, network, marks, settled, redeploys>>

StopOld ==
  /\ old # {}
  /\ old' = {}
  /\ UNCHANGED <<server, network, marks, settled, outside, redeploys>>

PutBackDone == \A f \in Pruned(outside) : Taken(files, f.gen)

\* settled: all is put back and the previous instance is known to have stopped;
\* settled-by-timeout: all is put back, the previous instance may still run.
Settle ==
  /\ settled # "yes"
  /\ PutBackDone
  /\ old = {}
  /\ settled' = "yes"
  /\ UNCHANGED <<server, network, marks, outside, old, redeploys>>

SettleByTimeout ==
  /\ settled = "no"
  /\ PutBackDone
  /\ old # {}
  /\ settled' = "timeout"
  /\ UNCHANGED <<server, network, marks, outside, old, redeploys>>

\* A new instance: an empty directory and no marks.  Requests travel on
\* connections to the old one and end with it.
Redeploy ==
  /\ redeploys < MaxRedeploys
  /\ redeploys' = redeploys + 1
  /\ files' = {}
  /\ hand' = Idle
  /\ calls' = [c \in Client |-> IF calls[c].phase \in {"sent", "served"} THEN Lost ELSE calls[c]]
  /\ late' = {}
  /\ marks' = {}
  /\ settled' = "no"
  /\ old' = files \ outside
  /\ UNCHANGED outside

SupervisorStep ==
  \/ \E f \in files : Mirror(f)
  \/ \E f \in outside : PutBack(f)
  \/ \E f \in old : MirrorOld(f)
  \/ StopOld
  \/ Settle
  \/ SettleByTimeout
  \/ Redeploy

ServerStep ==
  \/ \E c \in Client : Serve(c)
  \/ \E r \in late : ServeLate(r)
  \/ Place

SlotInit ==
  /\ files = {}
  /\ hand = Idle
  /\ calls = [c \in Client |-> NoCall]
  /\ late = {}
  /\ marks = {}
  /\ settled = "yes"
  /\ outside = {}
  /\ old = {}
  /\ redeploys = 0

SlotTypeOK ==
  /\ files \subseteq File
  /\ hand \in Hand
  /\ calls \in [Client -> Call]
  /\ late \subseteq Request
  /\ marks \subseteq Nat
  /\ settled \in {"no", "yes", "timeout"}
  /\ outside \subseteq File
  /\ old \subseteq File
  /\ redeploys \in Nat
=============================================================================
