# organum in TLA+

organum keeps the working state of language-model laboratories: letters between
the models of one workspace, an append-only ledger of signed envelopes per
laboratory ("hub"), and a public *drop* at which laboratories leave letters for
each other.  The drop runs on a host that loses its disk at each redeployment, so
the laboratories also save their ledgers there, in a *state slot* that a
supervisor mirrors outside.  This directory holds TLA+ modules of the program, the
configurations with which TLC checks them, and theorems about them whose proofs
TLAPS checks.  `tlc -config X.cfg M` runs a configuration, where `M` is one of
`MCCheckpoint`, `MCMailSend`, `MCWorkspace` and `MCHub` (section 4 says which), and
`tlapm CheckpointProofs.tla` checks the proofs of a module.  All paths below are under
`src/src/organum/`.

## 1. The system

| Component | State it keeps | Operations | Who it meets | What is hard, and what makes it correct |
|---|---|---|---|---|
| **State slot** (`hub_drop.py`, `/v0/state`) | generation files in one directory per token; marks and two "settled" files written by the supervisor | conditional upload, read, list, prune to `STATE_KEEP` | uploads from hubs; supervisor writes in the same directory | link races with the supervisor, redeployment empties it, late requests. *A number names one bundle; the current generation never goes back while the instance lives; a repeated upload is not a second generation.* |
| **Checkpoint and restore** (`hub_state.py`) | ledger, outbox, record file (accepted generations, pending attempt, floor) | `checkpoint` (upload, resend, rebase, `--onto`, wait for the mark), `restore_from_slot`, `restore`, `restore --generation` | state slot | lost answers, crash between steps, slot that goes back, two ledgers of one lab. *Nothing is pushed before it is saved outside; no number is ever given to a second record.* |
| **Mail drop** (`hub_drop.py`, `push_quad`, `pull_quads`; `export_quad` of `hub_ops.py`) | quads (signature, body, envelope) in outbox, door and mailbox | write each file, envelope last; POST; pages; pull with repair | exports at the same time, a POST or a pull cut off between two files, same number with other bytes, a cursor over a set that grows. *A complete quad of an outbox is one letter; what a door accepted stays, and is what it shows unless another POST was cut off there; a mailbox has what the door shows; what a pull misses became complete late.* |
| **Token scopes and rate limiter** (`hub_drop.py`) | token file, lines in memory, a window per token | 401, 403, 429 or an answer | borders of windows, restarts, order of the checks. *A wait that was told is enough; at most two windows' worth in the time of one; strangers cost a member nothing.* |
| **Hub ledger** (`hub_envelope.py`, `hub_log.py`, `hub_ops.py`, `hub_cli.py`) | lines of `events.jsonl`, keys and pins of `hub.json`; replayed into an index: envelopes, key registry, claims, captures | admit, answer again, append, register, pin, was-valid | keys that end by envelopes they sign, replay under pins made later, crashes between admission, line and receipt. *Who signed had a valid key at that place, for good; a written log replays to the same; one envelope, one receipt.* |
| **Sending** (`hub_send.py`, `hub_draft.py`) | drafts, decisions and results in a store that only creates; send lock; ledger and outbox of the hub | place, decide, sign, export, checkpoint, push, read back, report, open the ledger | hub ledger, checkpoint, mail drop | crash between any two steps, two senders, a draft changed after approval. *A letter goes out at most once, as approved, after it was saved.* |
| **Wire profile** (`hub_wire.py`) | none | envelope to carrier events and back | ledger, boards | identity of a letter through two carriers. |
| **Transparency log** (`hub_log.py`) | Merkle tree over records | root, inclusion and consistency proof | readers | off-by-one at sizes that are no power of two. |
| **Bulletin board** (`bbs.py`, `bbs_wire.py`, `bbs_cli.py`) | post records, mailbox and round file of a reader | prepare, push, pull a round, project | pushes at the same time without a lock, a preparation that ends before its record, rounds cut off, events whose signed times go back or that come from those who may not say them. *One event, one record, and a true one; complete means complete; the projection follows the contract whatever the order of arrival.* |
| **MCP front** (`hub_front.py`) | none | read letters of one lab within limits | mail drop | limits of a call. |
| **Field, relay, agora** (`field.py`, `relay.py`, `agora.py`) | one file per letter, read marks and a join mark per reader | post, archive, feed, watch, mark | processes that write at the same time without lock, die between write and link, ask again. *A letter stands, is shown before it is noted as read, and is posted once per key.* |
| **Machine hub** (`hub.py`) | registry of cells with addresses and epochs; letters of the field `hub` | register, leave, send, page through an inbox | an address that changes hands between sending and reading; a cursor over files that come and go. *Nobody reads what was sent to another holder of the address; pages miss nothing.* |
| **Sessions, roster, alarm** (`session.py`, `roster.py`, `alarm.py`, `cmd_join`) | a file per session, presence files, alarms as letters | join, start, note, end, declare, sound | looking before writing, crashes between the parts of a join. *One open session per cell; an ended one stays; what an earlier session read or declared does not speak for the next; alarms are a chief's.* |
| **State directory** (`state.py`, `memory.py`, `reflect.py`, `guard.py`, `migrate.py`) | self file, memories, events, versions, archives | remember, reflect, refuse and notify, backup, migrate, restore | crash between backup, steps and versions; a restore under a migration. *The version of `meta.json` means that the data was converted; what was replaced exists as a whole; a kept item stays until it is resolved.* |
| **Observatory** (`observatory.py`, `obs_schema.py`) | monthly shards of summaries | ingest | sessions | ingesting the same session twice. |
| **Provisioning, integrity** (`provision.py`, `integrity.py`) | copies of the annexes, hashes | provision, verify | git | failure half way. |
| **Delegation** (`delegate.py`, `distill.py`), **observation and reports** (`adapters.py`, `inspect*.py`, `bench.py`, `health.py`, `checkup.py`, `htmlreport.py`, `web.py`, `mcp.py`), **command lines** (`cli.py`, `hub_cli.py`) | none of their own | run a program; read and render; parse arguments | all | no protocol state: parsing, rendering and I/O. |
| **Signatures** (`schnorr_pure.py`) | none | sign, verify | ledger, wire | 256-bit arithmetic, out of TLC's reach; taken as unforgeable. |

The parts interact through files and HTTP only.  A hub writes its ledger under a
file lock and exports letters as numbered quads to its outbox directory.  Before
the outbox is pushed to a door, `checkpoint` uploads ledger and outbox to the state
slot of the same drop, and waits until the supervisor has marked the new generation
as mirrored.  After a lost disk `restore_from_slot` reads the newest generation,
compares it with the others that are marked (its *witnesses*), and puts ledger,
outbox and record in place.

Sending (`hub_send`) drives these for one laboratory: a model places a draft in a
store, a person decides on it, and a service signs it into the ledger, exports it,
calls `checkpoint`, pushes the quads, reads the door's index until the supervisor's
marks are there, and writes the result to the store.  It keeps no state of its own:
each call finds out from store, ledger, outbox and door how far the last one came.

## 2. What is modelled

### Modules

| Module | Stands for | Extends |
|---|---|---|
| `Bundles` | what a snapshot holds and when one continues another (`snapshot`, `_extends`, `_check_extension`) | — |
| `StateSlot` | the slot's handlers, the connection, the supervisor | `Bundles` |
| `Checkpoint` | ledger, outbox, record file, `checkpoint`, `restore_from_slot`, composed with the slot | `StateSlot` |
| `DurableOutbox` | abstract specification: what a lab may rely on when it pushes | — |
| `MCCheckpoint` | values for TLC | `Checkpoint` |
| `CheckpointProofs` | lemmas about slots, bundles and records; theorems | `Checkpoint`, `TLAPS` |
| `Drafts` | the store of drafts, the front that places them (`hub_draft`), `decide` | — |
| `MailSend` | `send_approved`, `drain`, `resume`, `open_ledger` with ledger, outbox, outside copy and door | `Drafts` |
| `MailOrder` | abstract specification: what may reach the door, and what may be reported | — |
| `MCMailSend` | values for TLC | `MailSend` |
| `MailSendProofs` | lemmas and theorems | `MailSend`, `TLAPS` |
| `Budget` | the bounds of a composed model: how many calls of each kind | — |
| `Field` | letters of a workspace with the relay, agora and alarm policies (`field.py`) | `Budget` |
| `Sessions` | sessions, presence, `cmd_join` and `cmd_session` | `Field` |
| `MachineHub` | registry and inboxes of a machine (`hub.py`) | `Sessions` |
| `Workspace` | alarm and roster, and all of these as commands drive them | `MachineHub` |
| `StateDir` | the state directory and the commands that change it | `Budget` |
| `StateDirProofs` | lemmas and theorems | `StateDir`, `TLAPS` |
| `MCWorkspace` | values for TLC | `Workspace`, `StateDir` |
| `WorkspaceProofs` | lemmas and theorems: letters, marks, keys, the goal | `Workspace`, `TLAPS` |
| `SessionProofs` | the same: sessions that are open and that have ended, what a join leaves behind, alarms and roster, the inbox of the machine hub | `WorkspaceProofs` |
| `HubLedger` | the ledger of a lab: admission, keys, pins, replay, receipts | `Budget` |
| `HubLedgerProofs` | lemmas and theorems | `HubLedger`, `TLAPS` |
| `Door` | `export_quad`, the server with its tokens and limiter, `push_quad`, `pull_quads` | `Budget` |
| `DoorProofs` | lemmas and theorems | `Door`, `TLAPS` |
| `MerkleLog` | tree, proofs, verification, `detect_fork` (recursive, TLC only) | `Budget` |
| `Board` | posts, their records, rounds, and the projection of a board | `Budget` |
| `BoardProofs` | lemmas and theorems | `Board`, `TLAPS` |
| `MCHub` | values for TLC | `HubLedger`, `Door`, `MerkleLog`, `Board`, `Drafts` |

Checkpoint and sending meet in one promise.  `Checkpoint` is shown to implement
`DurableOutbox`; `MailSend` takes a checkpoint as one step that keeps that promise
(`Save`: the outside copy is replaced by the ledger and outbox that continue it, or
nothing may be pushed).  It has also the case in which `Checkpoint` does not keep it: after a
redeployment the slot is empty, and a ledger that does not continue the newest copy
may be saved on it and be told that it may push (`Continues`, `NewestAfter`; section 6).  Composing them action by action would multiply their
states without another question being answered.

### State and actions against the code

**Bundles.**  A ledger is the sequence of its records, an outbox the sequence of the
records exported to it; the *n*-th has the quad number *n*.  A bundle is its own
fingerprint (sha256 is taken to be injective); the `Stamp` in it stands for the rest
of the manifest (time, and so on) that makes two snapshots of one state differ in
their bytes.  `Letter`s are the records that `snapshot` demands in the outbox,
`Note`s those it does not.

**StateSlot.**

| TLA+ | code |
|---|---|
| `files`, `Current` | `_scan_state`: the directory is read again for each request, nothing is cached |
| `Serve`, `ServeLate`, with `Refuse`, `Scan`, `Dedup`, `Conflict` | `_state_post` up to the link; one disjunct per way out |
| `hand`, `Place` | between `_state_post`'s scan and `_state_place`'s link the supervisor may write in the same directory, so these are two steps; the server is single-threaded, so no second request comes between |
| `Pruned` | `_state_prune` |
| `calls`, `late`, `Send`, `Abandon` | one HTTP exchange at a time per client; a client that gives up leaves a request that may still be read while the instance lives |
| `Mirror`, `PutBack`, `MirrorOld`, `StopOld`, `Settle`, `SettleByTimeout`, `Redeploy` | external: the supervisor is not in the repository.  Its behaviour is taken from what `hub_drop` and `hub_state` expect of marks, `settled` and `settled-by-timeout` |

**Checkpoint.**

| TLA+ | code |
|---|---|
| `acked`, `pending`, `floor` | the record file: the list of generations answered with 200, the pending attempt, the highest number ever sent |
| `run` | where a `checkpoint` command stands: awaiting its first answer, a rebase's, that of the upload after an accepted resend, or waiting for the mark |
| `StartWaiting`, `StartUpload`, `StartOnto` | the head of `checkpoint`; `Upload` is its inner `upload()`, with the record written before the request leaves |
| `Accept`, `Rebase`, `Stop`, `GiveUp`, `Break` | the answers: 200 (with the second upload if what was accepted is behind the disk), explained 409, every other answer, none |
| `Ready`, `StopWaiting` | `_wait_mark`.  `Ready` stands for `ready_to_push`: from there the operator's push may bring the letters to the door at any time, so `pushed` grows at once |
| `Fetch`, `FetchChosen`, `Witness`, `Restore`, `RestoreTorn`, `AbandonRestore` | `restore_from_slot`: one answer, one step per witness, then the moves and the record; a crash between the moves |
| `Write`, `Export`, `LoseBox`, `Wipe` | what happens to ledger and outbox beside checkpoints, seen from here only as growth, an older copy put back, a lost disk |

The write lock is held from the first line of `checkpoint` until the wait
(`Unlocked`), so ledger and outbox change only at `Rest` or while it waits for the
mark.

**Drafts.**

| TLA+ | code |
|---|---|
| `placed`, `since`, `bytes`, `decision`, `result` | the store (`MemoryStore`; in operation a bucket): drafts in the order of placing, when their calls began, stored bodies, decision and result records.  Creation only: the first record stays |
| `StartPlacing`, `Place` | `_mail_draft`: looking at the store and putting the draft are two steps, calls run at the same time |
| `Listed`, `Room` | `list(..., without="decision")` with the limit as its length, then those still waiting are counted |
| `Confirm`, `StartDeciding`, `Decide` | `decide`: the repeated decision; the checks; `put_decision` and the comparison of what is there with what was put |
| `End`, `Lapse` | a draft's and an approval's time are over.  All drafts get the same time from the begin of the call |
| `Damage` | external: a body of the store changes, vanishes, comes back |

**MailSend.**

| TLA+ | code |
|---|---|
| `run[w]`, `Free` | a call and where it stands; `.send.lock` of the host's ledger directory admits one |
| `Call` | `send_approved` under the lock up to its first `_drain`, or `drain` |
| `Export`, `CannotExport`, `scraps` | `_place_signed`, `export_quad`: signature and body before the envelope, so a crash leaves a number without envelope; `_clean_incomplete` comes first |
| `ReadDoor` | the index, `_compare`, and which letters are pending |
| `slot`, `Continues`, `NewestAfter`, `PutSlotBack` | what the state slot shows: the newest copy, or nothing until the supervisor puts it back; a checkpoint goes on from the copy that its host continues, or from the empty slot, and may then come to stand above or below the newest copy |
| `Save`, `SaveUnseen` | `checkpoint` answered with `ready_to_push`, or stored without that being seen; not stored is `GiveUp` |
| `Push`, `Take`, `flying`, `Arrive` | `push_quad` and `do_POST`: the answer may be lost, the request may arrive later |
| `ReadBack`, `Shown`, `Report`, `Drained` | the second half of `_drain_once` and the return to `send_approved`; what the index said is kept in `run[w].remote` and may be old when it is used |
| `Sign`, `Refuse` | `_sign`; `Refused` is the result `failed` |
| `LoseDisk`, `OpenLedger` | a host without its disk; `open_ledger` |
| `GiveUp` | a crash, no answer, or a stop that changes nothing (`SendStopped`, `_Later`) |
| `door`, `mirror`, `Mirror`, `PutBack`, `Redeploy` | the door's quads; the supervisor's copies, which are the marks of the index; external |

**Field, Sessions, MachineHub, Workspace.**  There is no daemon and no lock: a
process reads the directory, writes its own file and links it.

| TLA+ | code |
|---|---|
| `live`, `archived`, `Name` | the files of a field and those in `.archive`; two letters are one file if field, second, sender, recipient, topic and number are the same |
| `WriteLetter`, `Link`, `Die` | `post`: key looked up, stamp taken and file written under a name that nobody reads; then `os.link` to the first free name; the process may die between.  `Repeat`: the key was used |
| `Archive` | a person moves a letter; one of the same name in the archive is replaced |
| `Poll`, `ShowNext`, `MarkRead`, `StopWatching` | `watch`: one look at the newest `FeedLimit` letters, then letter for letter printed and, in a step of its own, noted in `.read-<cell>` |
| `join`, `JoinField` | `mark_join`: the first join stays, unless a new session begins |
| `Goal` | `latest_goal` |
| `Gate`, `ChooseSid`, `WriteSession` | `_site_session_gate` over both somas of a cell, then `start`, which looks again and takes a free name |
| `SetCursor`, `Forget`, `ReadPresence`, `WritePresence` | `cmd_join` after the session: `mark_join` of each field, `reset_presence`, `write_presence` (read, then put back) |
| `Load`, `Save` | `note` and `end`: the file is read, changed and put back |
| `raced`, `torn` | history: cells of which two processes were under way at once, or one died |
| `ReadRegistry`, `WriteRegistry`, `JoinHub`, `Leave` | `register` with its conflict, the end of a join, `deregister` |
| `HubSend`, `ReadPage`, `HubRead` | `send` fixes cell and epoch; `inbox` with the last letter of a page as the cursor; `mark_read` |
| `CanSound`, `Sound`, `Active` | `alarm.py` |
| `Acts`, `FieldLive`, `CoordState` | `field_activity`, `merge` and `_coord_state` of `roster.py` |

**StateDir.**  `dir` has the formats of `meta.json` and of the other versioned files,
the steps its data went through, the self file, and the kinds of events and memories.  It is `NoDir`
while a restore has it aside, and `Broken` after a restore whose files another one took away
half way: other commands fail on it.  Unpacking is two steps, one for the data and one for the versions.

| TLA+ | code |
|---|---|
| `Refuse`, `Mark`, `Notify` | a refusal of the guard is an event; whether it makes a streak, and whether that was told, is looked up after it |
| `Remember`, `LogIt` | the flag before the memory, the event after it |
| `Reflect`, `WriteSelf` | the self file is read, checked, and written back in a step of its own |
| `Backup`, `NameFree` | an archive named by the second, opened with `x`; it may be a part if the process dies |
| `Migrate`, `Convert`, `BumpMap` | backup, steps, then versions file by file, then the event |
| `Extract`, `Unpack` | `restore` extracts beside the directory, under the name of its second: data and map first, versions and self file after them, as the archive has them; restores of one second write into each other's files |
| `MoveAside`, `PutInPlace` | the directory goes aside under a name of that second, and what was extracted takes its place; a rename fails if the name is taken or the files are gone |
| `CommandDies` | a crash at any of these |

**HubLedger.**  An envelope is a record and its own digest; an envelope that names
another holds it.

| TLA+ | code |
|---|---|
| `Open`, `Replay` | `hub_writer` takes the lock, `load_hub` puts the keys of `hub.json` in an empty index and admits line after line |
| `Admissible` with `Genuine`, `Schema`, `Bound`, `Pinned`, `Policy` | `admit` in its order: signature, schema, key valid at this place, lifecycle pins, what is there already, policy by kind (claims, rotations, revocations, introductions, canaries, launches, completions), captures |
| `Admit`, `Lifecycle`, `Following` | the index and the registry after it; keys count, and cease to count, from the next place on |
| `AdmitNew`, `AppendLine`, `Answer` | an own command, `admit` or `wire-in`: into the index, then the line, then the receipt with the root of the tree up to it |
| `Again`, `AnswerAgain` | the same bytes under the same key get the first receipt, before the key is asked about |
| `RegisterKey`, `Pin`, `Audit` | `register-key` (only while the log is empty), `pin-lifecycle`, `was-valid` of every place |
| `WriterEnds` | end or crash: the lock is gone, the index with it |

**Door.**

| TLA+ | code |
|---|---|
| `outbox`, `door`, `mailbox` | per number the files that are there: signature, bodies by name, envelope |
| `ExportStart`, `ExportStep`, `ExportEnds` | `export_quad`: the next number after all that any file bears; each file with `O_EXCL`; no lock |
| `lines`, `ServerStarts`, `TokensChange`, `Loadable` | `load_token_entries`, `make_server`; a changed file counts from the next start |
| `Refused401`, `Refused429`, `Refused403`, `Authorized` | `_auth`, the limiter, `_gate`, in this order |
| `windows`, `Start`, `Within`, `RetryAfter` | `RateLimiter` |
| `Post`, `PostStep`, `Filled` | `do_POST`: what is complete stays; else signature, body, envelope |
| `ServerStops`, `cut` | the server ends, also in the middle of a POST; `cut` is history: the POSTs that left a body and no envelope |
| `Channels`, `Index`, `Answered` | `do_GET` |
| `PullStart`, `PullPage`, `PullQuad`, `PullWrite`, `Repair`, `PullOn`, `PullEnds` | `pull_quads`: since the highest number, page after page; new letters file by file; one that lacks a file is completed if the rest agrees |
| `FileLost` | external: a mailbox loses a file of a letter |
| `answers` | what `_audit` notes, with the answer; history for the limiter's properties |

**MerkleLog.**  `Root`, `InclusionProof`, `ConsistencyProof`, `VerifyInclusion`,
`VerifyConsistency` and `DetectFork` are the functions of `hub_log.py`; a hash is the
tuple of what it is taken of.  `tree` grows, and `twin`, a log of the same hub that
departs from it at some place, grows beside it; both feed each other's proofs to the
verifiers.

**Board.**

| TLA+ | code |
|---|---|
| `Prepare`, `PrepareStep`, `PrepareEnds` | `prepare_post` under the ledger's lock: check the event, find its record, take the next number of the outbox, write the quad, write `post.json`; it may end before each of these |
| `ValidEvent`, `ValidProfile` | `validate_event`, `validate_profile_event`: whose decision of members counts, who may speak for a subject; `fit` stands for the shape of the fields |
| `PushRead`, `PushSend`, `PushSave` | `push_outbox`: the record is read, the quad sent, the record written; no lock |
| `PushResult` | what the record says after it: stored, conflict, rejected (4xx), or unknown (5xx, no answer, in either case with the quad stored or not) |
| `RawPost` | message, export and push of `organum-hub`, which check nothing of a board |
| `RoundStarts`, `PullDoor`, `RoundEnds`, `RoundCut` | `pull_channel` with `.round.json`; `ResumePoint` is `resume_point` |
| `Completeness` | `round_problems`, `completeness_of` |
| `OfBoard`, `LoadedBoard`, `LoadedProfiles` | `_shape_problems` and the readers: an event signed for another board is not given to the board |
| `Accepts` | a post counts if the board is its own, is open, and has its author as a member where it is restricted |
| `ProjectBoard`, `Threads`, `ProjectProfiles`, `Directory` | `project_board`, `threads`, `project_profiles`, `read_directory`, over `Loaded` in the order of signed times |

### Simplifications

- Numbers of an outbox are contiguous.  The code can burn a number when an export
  is cut off; what matters here, that a number is not given twice, is not touched by
  a number that is never given.
- Of a bundle, bodies, and which of them it omits because the door has them, are left out.
- A request dies with the instance that its connection leads to.
- `reconcile`, which compares and reports, changes nothing and is left out, and so is
  `--received-only`.
- A person who uses `--onto` or `--generation` has compared what the messages of the
  program tell one to compare (`StartOnto`, `FetchChosen`).
- The outside store is never lost.

Of sending:

- All drafts pass the checks of grants, recipients and sizes; the ledger knows the
  key.  Letters posted by hand and older letters of the outbox, which `_place_signed`
  refuses or passes over, are left out.
- Deployments with marks only: without them `mirrored` is not in the index, and
  `received_only` is left out with them.
- A quad's mark is there as soon as the quad is stored outside; a POST to the door is
  one step; the index is read at once, not page by page; the torn last line of
  `events.jsonl` is left out.
- Results of one drain are written in any order (`Report`); in the code in that of
  the numbers.
- The outside copy is saved once, empty, before the first letter.
- The first drain of `send_approved` reports every letter of the ledger, so `Sign`
  does not meet a letter that is signed already; the branch is there because it is
  in `_sign`.

Of a workspace:

- Bodies are model values; time has a second's precision, as in names and stamps.
- The limit of 200 of a feed is `FeedLimit`; that of 60 alarms is left out.
- A name of an archived letter may be used again in the same second; the new letter is
  then hidden by the read mark of the old one.  The key of a caller is looked up among
  the letters that are not archived.  Both are in the model and in the properties.
- `session.py` locks nothing: the properties of sessions are claimed for cells whose
  commands do not overlap (`raced`), the two of a join for cells of which none died
  on the way (`torn`), since nothing takes the first half of a join back.
- A letter whose file is older than the cursor but was linked later is behind the page;
  a person's archive may take the cursor away, then reading begins anew.
- The events that sessions log, retros and what a session ships are left out: nothing
  reads them back for control.

Of the state directory: memories and events by kind only; the patterns of the guard are
a choice.  Two reflections at once lose one (read, then written back), so
`InTurnHolds` is claimed of commands that come one after the other.  A migration that
died converts again what it has converted; `data` records the steps in order.

Of the ledger: canonical bytes, digests and signatures are taken to be injective and
unforgeable; a torn last line of `events.jsonl` and a torn `hub.json`, which stop
every command, are left out.  Rules and policies of canaries are constants, as
programs that embed the library register them.

Of quads: the write of one small file is one step and survives the process, not the
disk.  Malformed requests and sizes are refused before anything is read, and left out.
The answer of a request and its line in the audit are one step.

Of a board: one channel; a quad comes to a door in one step (`Door` has the files);
notices and join requests, which the projection only lists, and the dormant status, which nothing
asks for, are left out; what fails the checks of digest and signature is a damaged number or is not
loaded; a voice verifier, which programs outside may inject, is left out.  A profile that is updated
is one that is announced again, as in the code.

## 3. Properties

| Property | What it says | Why it could fail |
|---|---|---|
| `SavedBeforeSent` | the composed system implements `DurableOutbox`: what may be on the door is, number for number, in the newest generation of the outside store, and stays there | every fault in the model aims at it |
| `BundleKnowsItsNumber` | the number the client predicts and signs is the one the server gives | floors, resends and rebases compute it on two sides |
| `GenerationNamesOneBundle` | over files, outside store and the previous instance, one number is one file | marks and mirror go by number only |
| `AckedIsStored` | what the record says was accepted under a number is what is stored under it | an answer may be that to an earlier attempt with other content |
| `PutOnExtends` | a generation continues the one it was put on | the check is made when the upload starts, on the record, not on the slot |
| `RestoreKeepsPushed` | a restored ledger knows all numbers that may be on the door | new instance, generations put back in any order, pruning during the restore |
| `CurrentNeverGoesBack` | within an instance the current generation does not go back | put-back and pruning run beside uploads |
| `NumbersAreSent` | every number of the outbox leaves in the end | a state from which every checkpoint stops |
| `CheckpointTypeOK` | types | — |
| `DeliversAsApproved` | sending implements `MailOrder`: a letter reaches the door only after its approval, once, in the approved words, under the next number; "sent" and "failed" say what happened | crashes between ledger, outbox and door; bodies that change; approvals that lapse; late pushes |
| `OneLetterPerDraft` | of all that ever reached the door, one draft is one letter and one number is one letter (two ledgers are open in one instance of the drop only) | two ledgers give numbers and sign with different times; the door forgets |
| `NextWaits` | no letter is signed while an earlier one of the ledger is not stored outside | each call must find out by itself how far the others came |
| `SentIsKept` | what was reported as sent is in the outside copy of the door | the report is written from an index read earlier |
| `ApprovedIsAnswered` | every approved draft gets its result | `resume` stops at the first letter that cannot go on |
| `AnswersStand` | who is told that a draft is approved, or rejected, can rely on it | check and write of a decision are apart |
| `WaitingBounded` | waiting drafts exceed the limit by no more than the calls that run at the same time | counting and placing are apart; ended drafts fill the list that is counted |
| `SendTypeOK` | types; numbers start at 1 | — |
| `WhatIsWrittenStands` | a letter stays as it is until it is archived; the goal never goes back but when it is archived; an ended session is not written again | links race for names of one second; stamps and links have different orders; session names of one second |
| `NoneSkippedNoneTwice` | what is noted as read was shown; who repeats a call under its key is told of the first letter | watchers and posters die between two steps |
| `WatchersShowAll` | what a watcher owes its cell is shown in the end | joins, archives and the newest letters only; liveness |
| `SessionsHold` | one open session per cell, its cursor and its presence are its own | two somas, looking before writing, crashed joins |
| `InboxHolds` | a letter goes only to the holder of the address at the time of sending, while it has it; the last page of an undisturbed reading completes the inbox | addresses change hands; a cursor over files that come, are read and go |
| `ClaimsHaveGround` | alarms come from persons or open chiefs; the roster claims no engagement without an act, and no role without a declaration | sessions end after the alarm; presence files outlive their cells |
| `InTurnHolds` | a streak of refusals is told exactly once; what a reflection keeps stays until it is resolved | notices are looked up in events of several commands |
| `ChangesAreSafe` | a directory whose `meta.json` has the new format went through all steps, unless a restore took it from a migration or met another one of its second; what migrate and restore replaced exists as a whole | crashes between backup, steps, versions, renames |
| `KeysInOrder` | every admitted envelope's key was valid at its place; each key goes back to who could let it in; pins are met | keys end and begin by envelopes of the same log |
| `EvidenceHolds` | a bracketed completion has plan, canary, launch and report in order; one file, one version and time | reports may be admitted in any order and cite each other |
| `ReplayAgrees` | a written log replays; `was-valid` never changes its answer for a place | pins and first keys are in another file than the log |
| `OneReceiptPerEvent` | every retry is given the first receipt | a retry over another wire, after a crash, with a revoked key |
| `QuadsWhole` | a complete quad of an outbox is one letter; what a door accepted is a letter, stays, and is shown under its number unless a POST of another quad was cut off there; a mailbox has what the door shows, be that a letter or, after such a POST, a mixture of two (section 6) | several files, several writers, no lock |
| `MissedOnlyIfLate` | a pull misses a number only if it became complete after a higher one that was pulled | pages and crashes of pulls |
| `LimiterIsFair` | a wait that was told is enough; two windows at most; nobody waits for another's calls | borders of windows, restarts |
| `ProofsHold` | the hub's proofs verify; what verifies is in the log; heads of one log are no fork, and heads of two are | sizes that are no power of two, proofs from another log |
| `PostsAreOnce` | one event is recorded under one number; stored means that the door has it; no push finds another letter under its number.  Not that an event has one quad (section 6) | crashes between quad and record, two pushes at once, lost answers |
| `CompleteMeansAll` | a round that calls itself complete has all that was there when a door was pulled, but letters that came after one with a higher number, and files that were lost, of which the reading speaks | rounds cut off, faults, repairs |
| `BoardSaysWhatWasSaid` | posts are those signed for the board while it was open, by members where it is restricted; threads, unless a reply comes before a post of the name that it answers, go back to their first post; the directory has the last word of those who may speak for a subject | signed times go back; events of several labs in any order, of other boards, of foreign voices; posts of one name |

A property that is a conjunction has a part for each half sentence; the parts are
definitions of their own beside it, each with a mutant.

`DurableOutbox` has two variables, the numbered records of the outside copy and
those that have left.  `Store` may replace the copy by any that holds all that has
left; `Push` lets out what the copy holds.  The refinement takes the newest
generation of the outside store for the copy and `pushed` for what has left.

`MailOrder` has the decisions, what has reached the door, and the outcomes.  `Deliver`
takes only a draft that is approved, not reported as failed and not yet delivered,
with the next number; `Report` says "sent" exactly if the letter has reached the door.
`DeliversAsApproved` maps the store's records and the quads that ever were at the door
(`arrived`) to it.  It is claimed for one host.  With two ledgers open one host may
report a draft as failed, its approval being over, while the letter of the other is on
its way; what remains with two is `OneLetterPerDraft`, as long as the drop is not redeployed with both open.

`WaitingBounded` does not count drafts that were overtaken by one that was placed
later, by a call begun earlier, and has ended: for the moment between two ends they
are hidden from the list that is counted.

## 4. Runs

The first seven runs use `MCCheckpoint`, the three of sending `MCMailSend`, `workspace`
uses `MCWorkspace` and `hub` uses `MCHub`.  Every bound is a constant, named `Max...`,
or a budget.

| Run | What it asks | Bounds that matter |
|---|---|---|
| `one_holder` | types, numbers, fingerprints, record and refinement with one ledger | 2 letters, 2 numbers, 1 redeployment, 1 answer lost, 1 late request |
| `restore` | refinement and `RestoreKeepsPushed` after a lost disk, also with a generation chosen by a person; after a restore that dies half way, with a person's `--onto`; after the outbox alone is set back to an older copy | 2 letters, no upload begun at a floor of 5; of lost disks and outboxes set back 1 (`MaxFaults`); and either 1 redeployment, or 1 torn restore, 1 lost answer, a set-back outbox and a record that is no letter, but not both (`MixFaults` FALSE, see section 6) |
| `two_holders` | refinement and `PutOnExtends` with two ledgers of one lab alive | 2 holders, 2 letters, 2 stamps, 1 lost answer |
| `limits` | `CurrentNeverGoesBack` with two ledgers, across a redeployment, at all limits | `STATE_KEEP` = 1, a record of two lines, jump 1, three generation numbers, 1 lost answer, 1 late request |
| `liveness` | `NumbersAreSent` under `FairSpec`; deadlock is checked | 1 lost answer, 1 redeployment, a person at hand |
| `extends_unchecked` | expected to fail: see finding 1 | 1 lost answer, 1 outbox set back |
| `rebase_on_empty` | expected to fail: see finding 2 | 1 redeployment |
| `send` | types, `NextWaits`, `SentIsKept` and the refinement of `MailOrder` on one host | 2 drafts, 2 times to sign with, 1 lost disk, 1 redeployment, 1 changed body, 1 late push |
| `send_two_hosts` | `OneLetterPerDraft` with two ledgers open in one instance of the drop, and with one that moves between hosts after it (`ApartSpec`) | 1 draft, 2 hosts, 2 times, 2 lost disks, 1 late push, 2 redeployments, none of them with two ledgers open (section 6) |
| `send_liveness` | `ApprovedIsAnswered` under `FairSpec` | 2 drafts, 1 lost disk, 1 redeployment, 1 late push |
| `workspace` | everything of a workspace and of the state directory, with `WatchersShowAll` under `MCFairSpec` | 2 cells with 3 processes, a feed of 2 letters, pages of one, a streak of 2, two steps of migration, 15 mixtures of calls |
| `hub` | everything of ledger, doors, Merkle tree, board, and of drafts as they are placed and decided (`AnswersStand`, `WaitingBounded`: 3 drafts, 2 calls, 2 persons, limit 1) | 28 mixtures of calls: up to 5 openings of the ledger, 3 numbers of a door and 4 of an outbox of a board, logs of 6 and 5 leaves |

One lost answer is enough for each case of the record file (the attempt is pending,
was stored or not, is repeated, changed, or explained), since the record keeps one
attempt.  One redeployment gives an instance with an empty slot, generations put back
in any order, an old instance that still mirrors, and a slot that is behind.  Two
letters and two numbers let a number be given to the wrong letter.  In the code
`STATE_KEEP` is 3, `RECORD_KEEP` 32, `STATE_MAX_JUMP` 10000 and
`STATE_GENERATION_MAX` 99999999; the runs take 1 or 2 generations and 2 or 4 lines
so that pruning and forgetting take place.

Of sending, two drafts are what lets one letter hold back, overtake or replace
another; two times of signing make a letter signed again another one.  `send_two_hosts`
has one draft, since the two hosts make two different letters of it already, and its
states grow sixtyfold with a second.  Crashes are not bounded: a worker may die at each
step, again and again.  One lost disk, one redeployment and one late push meet every
state of a letter.

The two composed runs have many kinds of calls.  A behaviour starts with one of
several budgets (`WorkspaceBudgets`, `StateBudgets`, `LedgerBudgets`, `DoorBudgets`,
`MerkleBudgets`, `BoardBudgets`, `DraftBudgets`), which say how many calls of each kind
it may contain; a kind that is not named does not happen.  Each mixture brings together the calls that
meet in a hazard: for instance exports with crashes, exports with pushes and a server
that stops, pushes with pulls; keys that rotate, end and are pinned with crashes;
migrations with backup, restore and crash.  What shares no state (the directory and the
letters; ledger, doors, tree, board, drafts) is not mixed.  All steps of the calls in a
mixture interleave.

`CHECK_DEADLOCK FALSE` stands in all configurations but `liveness`: a hub may stop
for good, by design (a ledger without a record does not upload to a slot that is not
empty, until a person acts; a store may have nothing to send), and the bounds end every
behaviour.

A definition marked *mutant* in a module is its neighbour with a plausible mistake.
Put in its place, it must make a run report the property; that is how each property
is shown to depend on the code.

**Fairness of checkpoints** (`FairSpec` of `Checkpoint`, used by `liveness` only).  Weak fairness of the server's two
steps, of mirroring and of putting back: these are loops that nothing disables.  Of the
holder: weak fairness of exporting what was written and of reading answers;
strong fairness of starting a checkpoint, since the operator (or a timer) calls it
again and again, of `--onto`, since a person looks at a slot that the record does not
explain, and of seeing a mark, since marks appear while some call still waits.  No
fault, late request, old instance or redeployment is forced; settling is not forced.

**Fairness of sending** (`FairSpec` of `MailSend`, used by `send_liveness` only).
`resume` is called at each start of the service and each time the screen is opened, so
it comes again and again; since the lock may be taken each time, its fairness is strong.
It goes no further than the first draft without a result, so the fairness is of one
approved draft, whichever, and not of each.  A call ends, since all its waits have
limits.  The supervisor mirrors and a lost ledger is opened again (weak fairness of
loops that nothing disables).  From some time on no call that could go on is cut off or
left without an answer (`Uninterrupted`): without it a process that dies each time at
the same step refutes every liveness property.  Calls that cannot go on do end.  No body
changes in this run: a letter whose body is gone holds back all others by design
(`SendStopped`), until a person acts.

**Fairness of watchers** (`MCFairSpec`, used by `workspace`).  Weak fairness of looking,
showing and noting: a watcher is started again by its cell (or loops), and a look that it began ends.
Posting, archiving, joining and dying are not forced.  That a process links what it wrote is
not assumed.

## 5. Proofs

Every theorem is about the specification of its component (`MCWorkspace` and `MCHub` run
several of these side by side), for all constants that meet the named assumptions.  Hypotheses beyond these stand in the theorem itself and are
given here with their reason.  Each invariant below is inductive: it holds at first, each
step keeps it, and it implies the property.

**Checkpoint** (`CheckpointProofs`; `BundleAssumption`, `SlotAssumption`, `CheckpointAssumption`).
Without any further hypothesis:

- `CheckpointTypeCorrect`: `Spec => [](CheckpointTypeOK /\ Attempting)`.
  `Attempting` says that a command that waits for an answer has its attempt in the
  record; without it `Accept` would read fields of an attempt that is not there, so
  the type invariant alone is not inductive.
- `NumbersArePredicted`: `Spec => []BundleKnowsItsNumber`.  `Predicted` says of every
  request, wherever it is (in a record, on the wire, late, in the server's hands), that
  its fingerprint carries the number computed from its own condition and floor (`Fits`).
  The server computes its number from the current generation and the floor only when
  condition and current generation agree, so the two numbers are equal.
- `CurrentIsMonotone`: `Spec => CurrentNeverGoesBack`, from the lemmas that pruning
  keeps the newest file and that a larger set has a newest file at least as new.
- `OneRecordPerNumber`: whatever implements `DurableOutbox` never sends two records
  under one number.

The others rest on `Uploads`, all the places at which an upload can be: noted in a record,
on the way, delayed, in the server's hand, in files, outside, or in the old instance.
`CallInv` (the answer that a command reads is the one to its attempt), `RunInv` (while the
lock is held the disk is as the command read it) and `Marked` (what is marked is outside)
hold in any case; together with the first two theorems they are `Standing`.

- `AlwaysPutOnExtends`: `Spec => []PutOnExtends`, if no outbox is set back
  (`MaxBoxLosses = 0`; with it the property is false, finding 1).  `OntoInv` says
  of every upload that it continues the one it is put on; `RecordInv` that the disk continues
  what the record lists.
- `GenerationAlwaysNamesOne` and `AckedIsAlwaysStored`, in two cases.  *While an instance lives*
  (`MaxRedeploys = 0`), for any holders, lost disks and delayed requests, by `InstanceInv`: the
  current generation is the newest there is (`LiveInv`), so a number is given once, and what a record
  says was accepted is not above it (`AckedInv`).  *For one holder whose disk is not lost*
  (`SoleHolder`, `MaxWipes = 0`), for any number of redeployments, by `SoleInv`: the
  floor is above every number it ever sent (`UniqueInv`, `LinesInv`), whatever the slot has forgotten.
- `AlwaysSavedBeforeSent`: the refinement `Spec => SavedBeforeSent`, for `MaxBoxLosses = 0`
  and the same two cases.  The newest generation outside continues all others (`Ordered`, or
  `HistoryInv`: all uploads are parts of one history that ends in the holder's ledger), so a
  step of the mirror is a `Store`, and `ready_to_push` is said of what is marked, so it is a `Push`.
- `RestoreAlwaysKeepsPushed`: `Spec => []RestoreKeepsPushed`, for `SoleHolder`,
  `MaxBoxLosses = 0` and `MaxRedeploys = 0`, with torn restores and a person's choice of a generation.
  `Restorable` says that what is fetched has every number that may be on the door;
  it stays so since nobody else holds the ledger meanwhile.

Lost disks *together with* redeployments are not in these theorems for a reason.  With one lost
disk and *two* redeployments `SavedBeforeSent` is false (a search of the same module with
`MaxWipes = 1` and `MaxRedeploys = 2` finds it).  The holder's upload rebases on a slot that is still
empty and gets number 3; before it is placed, generation 1 is put back, the disk is
lost, and a restore fetches generation 1.  Then number 3 is placed and stored outside, and the second redeployment
puts generation 1 back first: the restore ends on it with a floor of 1, the
next checkpoint gets number 2 and is told `ready_to_push`, and what then leaves is missing in the
newest generation outside, number 3.  It is not lost: the older generation 2 has it, and no restore takes
generation 3 for it (`RestoreKeepsPushed` held in that search, of 10,403,846 states), since 3 does
not continue 2, and a person must pick.  With one redeployment both properties hold in the run `restore` within its bounds.

**Sending** (`MailSendProofs`; `DraftAssumption`, `SendAssumption`, `RecordAssumption`).

- `SentAlwaysKept`: `Spec => []SentIsKept`.  `KeptInv` adds that
  what a worker read as marked is stored outside with the bytes read (`ViewHolds`);
  it stays true however long the worker waits, since the outside copy only grows
  (`MirrorGrows`).  Each step of a worker that writes no result is shown to be of one
  shape (`Moves`): the worker keeps its view, has a fresh one, or has none.
- `AnswersAlwaysStand`: `Spec => []AnswersStand`.  A person who has an answer has it of a
  decision that is in the store, and no step replaces one.
- `OneLetterAlways`: `Spec => []OneLetterPerDraft`, with any number of ledgers open as long as the instance
  lives (`MaxRedeploys = 0`), or with any number of redeployments for `Alone`; with both the property is
  false (section 6).  The run `send_two_hosts` mixes the two
  cases, which the theorem has apart.  `SlotInv` says that then the slot shows the newest copy or nothing, and that who is
  saved continues it (`Orderly`).  `SaveInv`
  says that each ledger has a draft once, that its outbox is the begin of it and that it
  continues what its host saw saved (`LedgerInv`), that all that left is in
  the saved copy under its number (`OutIsKept`), and that what a worker is about to push is
  there already (`Hands`).  So the saved copy, which has each draft once, speaks for all ledgers.
- `SendTypesHold`: `Spec => []SendTypeOK`, from `SaveInv`, `RunInv` and `StoreInv`: the type of
  what is read at the door follows only from where it came from.
- `NextAlwaysWaits`: `Spec => NextWaits`.  `WaitInv` says that of a host's calls one runs, and
  what it has found out at each place: the outbox is complete, then all of it is stored outside.
- `AlwaysDeliversAsApproved`: the refinement `Spec => DeliversAsApproved`, for `Alone` (a ledger
  is opened only when no other is open; section 3 says why).  `AloneInv` adds that the open ledger continues the
  copy saved last, that all its drafts are approved and none is reported as failed, and that all
  letters but the last were at the door before (`InOrder`).
- `WaitingAlwaysBounded`: `Spec => []WaitingBounded`, if the callers are a finite set (it counts them).
  The lemma `RoomIsThere` is the heart: an undecided draft that the store does not list is older than
  `PendingMax` listed ones, so one of these has ended, and it was overtaken, or there was no room.

**Ledger** (`HubLedgerProofs`; `LedgerAssumption`: the null value is none of the labs,
names, keys and writers, and registrations are of these; `TrafficAssumption`: envelopes
have a signer, and the key fields that the validators of payloads demand).

- `LedgerTypeCorrect`: `LedgerSpec => []LedgerTypeOK`, from `TypeInv`, which adds what a
  line, an index entry and the writer can be.
- `KeysAlwaysInOrder`: `LedgerSpec => []KeysInOrder`, from its three parts.
  `AdmittedStayValid` rests on `Following`: a revocation at place *n* ends a key from
  *n* + 1 on, so it cannot reach back to what is admitted.  `KeysAlwaysTraceBack` follows
  the binding of a key to the envelope before it, `PinsAlwaysHold` shows that a new pin counts
  from a place not taken and that replay asks the pins again.
- `EvidenceAlwaysHolds`: `LedgerSpec => []EvidenceHolds`.  `CapturesAlwaysAgree` is
  inductive as it stands; `EvidenceAlwaysChained` needs `LaunchChain`, that every
  bracketed launch has plan and canary before it.
- `OneReceiptAlways`: `LedgerSpec => []OneReceiptPerEvent`.  `ReceiptInv`
  says that the index is the lines on disk and at most one envelope more
  (`IndexIsDisk`), that an envelope is in the log once (`EachOnce`), and that every receipt given
  is the one that the lines give (`ReceiptsFromDisk`).
- `ReplayAlwaysAgrees`: `LedgerSpec => []ReplayAgrees`.  Nobody has the index between two
  processes, so `HistoryInv` speaks of one that is computed from the lines alone (`Indexed`): there is
  a history of keys, one before the first line and one after each, in which every line was
  admissible where it stands (`KeyHistory`).  The guard of `admit` is restated for such an index and
  such keys (`AdmissibleIn`), and shown to be the guard of the code for those of now (`VerdictThenAndNow`).
  A replay walks along the history, an append makes it longer by one, and a pin that is made
  later counts from a place that no line has.

**Doors** (`DoorProofs`; `DoorAssumption`).

- `QuadsAlwaysWhole` and `MissedAlwaysLate`: `DoorSpec => []QuadsWhole` and `DoorSpec =>
  []MissedOnlyIfLate`, from `QuadInv`, with as many POSTs cut off, and resent, as one likes.  `BoxInv`: who has written the signature has the number
  for itself, and what is there beside it is its own.  `DoorInv`: a number is complete
  exactly if it is in the order of its door, and a POST is at one that is not.  `CutInv`: the bodies that lie under a number that is not complete
  are those of POSTs that were cut off there, or of the one under way; so what is accepted is shown, if no other quad's POST left a body.  `MailInv`: what a
  mailbox has was shown at the door, and between two pages everything below the cursor
  is there, is still in hand, or came late.
- `LimiterAlwaysFair`: `DoorSpec => []LimiterIsFair`, from `LimInv`.  Its part `CountInv` divides the answers
  on a token into those of the window that is open and those before: the
  former are as many as its count says, and none of the latter is as late as its begin.  `WaitInv` keeps for each
  429 that the wait it told is not shorter than the window that caused it.
- `DoorTypesAlways`: `DoorSpec => []DoorTypeOK`, from both of these and `KeysInv`: a server that
  runs has lines, and windows, of tokens that some file had.

**Board** (`BoardProofs`; `BoardAssumption`: numbers of a door are bounded, the laboratories are
finitely many and have a place in the order of names, as their ids have, and signed times are numbers.
Nothing is assumed of the names of posts: several may bear one, of one laboratory or of many).

- `PostsAlwaysOnce`: `BoardSpec => []PostsAreOnce`, of records: an event may still have a second quad, without
  a record (section 6).  `PostInv` adds that the lock makes who prepares
  the only one to take a number (`HasLock`), and that a push which read "stored" still is right when
  it writes so (`Knows`), since a door keeps what it accepted; and that quads without a record count as taken,
  so that no later letter meets them at the door.
- `CompleteAlwaysMeansAll`: `BoardSpec => []CompleteMeansAll`.  `RoundInv` says of every door that the
  round has been to: a good result means that all that was there then is on the shelf, damaged, or came late;
  that stays so while the door and the shelf grow (`LateStays`).  Letters that came late under a lower number
  are excepted, as in the property.
- `BoardAlwaysSaysWhatWasSaid`: `BoardSpec => []BoardSaysWhatWasSaid`.  Its state is the shelf alone, which
  must be finite and of one place in the order per letter: a laboratory says under its
  own name (`OwnWords`), so time, signer and number tell two letters apart.  The rest is about what the code
  computes.  Each of the three folds is replaced by the list of its values (`BoardSteps`,
  `ProfileSteps`, and that of the threads), and each says after *n* letters what the property says of the first
  *n*: whether the board is open, restricted, or has the member goes back to the last letter of the
  kinds that decide it (`PriorOf`), a reply is in the list of its origin, which of several posts of one name goes by the last
  (`Nearest`), and a subject has the time of its first announcement and of its last.  The check of a profile and the
  property's own wording of who may speak (`SpeaksFor`) are shown to agree (`ValidSpeaks`).
- `BoardTypesAlways`: `BoardSpec => []BoardTypeOK`; `DoorsInv` adds that a number comes to a
  door once.

**Workspace** (`WorkspaceProofs`, `SessionProofs`; `FieldAssumption`: nobody is no cell and no key;
`SessionAssumption`: every process is that of a cell, and the sessions of the old form have a role; `WorkspaceAssumption`:
who watches is a cell, and what is posted and joined as comes from a cell or a person and has a body, or a role; `NobodyDeclared`: the value for "no presence" is none).

- `NoneSkippedNoneTwiceAlways`: `Spec => []NoneSkippedNoneTwice`.  `ReadWasShown` needs
  `ShownInv`: what a watcher has printed and what a page of the inbox gave was shown, and both are
  state between two steps.  `OneAnswerPerKey` needs `KeyInv`: a letter that is being
  linked has a key that no letter of its sender has, which the lookup in `post` grants only as long as a
  sender has one process.
- `WhatIsWrittenStandsAlways`: `Spec => WhatIsWrittenStands`.  `PlaceInv` gives every letter its own
  place in the order of writing, also while it is under way, so a link takes the name of
  no other letter and the goal is compared with newer ones only.  `SessInv` says that a
  cell that is not raced has one process under way, and that what it has read of its sessions (none
  is open; this one is) is still so when it writes; `NameInv` that sessions are named for
  seconds that have been, so the search for a free name comes to an end.
- `SessionsHoldAlways`: `Spec => []SessionsHold`.  Between two steps of a join neither the
  cursor nor the presence is that of the session.  `JoinInv` says what then is still
  due (`CursorDue`, `PresenceDue`) and who has to do it; a command that writes a presence has read one
  that is of this session (`Holds`).  One process is followed through its command
  (`SoloStep`), and cells are shown not to touch each other (`MoveElsewhere`).
- `ClaimsHaveGroundAlways`: `Spec => []ClaimsHaveGround`.  `AlarmInv` carries the role of the
  sender from sounding through posting and linking; the part about the roster follows from
  its definitions in every state.
- `InboxAlwaysHolds`: `Spec => []InboxHolds`.  `BearInv` says that an epoch belongs to one address, over all
  that bears one: the registry, an entry that is about to be written, letters that are there or under way.  `PagingInv` says
  of an undisturbed reading that each letter of its first page that is still to be read was got
  or is after the cursor; no letter comes back to a place before it (`Placed`), and the mark of a join
  only rises, so none becomes due again.
- `WorkspaceTypesAlways`: `Spec => [](FieldTypeOK /\ SessionTypeOK /\ HubTypeOK)`, from `WorkspaceTypes`,
  with letters under way and session files in the hands of a command; that an entry of the registry has an
  epoch that was given follows from `BearInv`.

**State directory** (`StateDirProofs`; `StateDirAssumption`).

- `ChangesAlwaysSafe`: `StateSpec => []ChangesAreSafe`.  `FormatInv` says, as long as no restore took the directory
  from a migration or was begun where another one of its second had files (`crossed`), that the directory, every
  archive and all that is extracted has gone through the steps that its version claims, that what a restore has
  extracted is of one archive and its own, and that who migrates works on a directory that has all the steps below.
- `InTurnAlwaysHolds`: `StateSpec => []InTurnHolds`.  `TurnInv` says that one command runs and what it still
  has to say of a streak (`Owed`): between a refusal and its notice the two do not match.
- `StateDirTypesHold`: `StateSpec => []StateDirTypeOK`, from `DirTypes`, with what a command has in its hands.

**Model-checked only.**  `ProofsHold` is about hashes that are defined by recursion over
intervals of a log: the definitions ask also for intervals that are empty, where the place to
split is the choice from an empty set, so the prover cannot be shown that such a function exists,
and sizes are split by powers of two, which no backend reasons about.
`TypeOK` of `MCHub` and of `MCWorkspace` are conjunctions over the components that run side
by side; every conjunct is proved for the specification of its component (`LedgerTypeCorrect`, `DoorTypesAlways`,
`BoardTypesAlways`, `WorkspaceTypesAlways`, `StateDirTypesHold`).  `NumbersAreSent`, `ApprovedIsAnswered` and `WatchersShowAll` are
liveness under fairness, out of the reach of the proof system.  The theorems on checkpoints leave what their hypotheses
exclude to the runs.

## 6. What the checks found

1. *The upload after an accepted resend is not checked for extension*
   (`hub_state.py:857`, run `extends_unchecked`).  `_check_extension` is called with
   the last accepted generation before the first upload; if that upload turns out to
   be the repetition of an unanswered one, the disk is uploaded on top of it without
   the check.  When the outbox was set back in between, the shorter outbox is put on
   top.
2. *A checkpoint rebases by itself on an empty slot* (`hub_state.py:843`, run
   `rebase_on_empty`), which the docstring restricts to generations of the record.

The limits of `SavedBeforeSent` follow from the second: with two ledgers alive and a
redeployment, the stale ledger can rebase on the slot while it is empty and get the
higher number.  It is therefore claimed for two holders without redeployments, and
`PutOnExtends` with them.  For the same reason `OneLetterPerDraft` is claimed of two open ledgers
only while the instance lives: the stale one, saved on the empty slot, is told that it may push, and
its letter for the same draft, signed at another time, leaves too (`send_two_hosts` with `Spec` in the place of
`ApartSpec` finds it).  `ApartSpec` is `Spec` without these behaviours: a redeployment comes only when at most one ledger is
open and goes on from the newest copy, and after it one is opened only when none is.  That the stale ledger was not
saved *before* the redeployment still matters there: else it may be the one that is left, and its letter is the
second.  A torn restore loses the floor; followed by a
redeployment the ledger could get a number that was given before, so in `restore` a
behaviour with a torn restore has no redeployment.  A disk that is lost after the outbox was set back breaks it too, through
finding 1: the unchecked upload is on its way when the disk goes, the ledger comes back
with the longer outbox and pushes, and then the shorter one is placed on top.
`restore` has one of the two in a behaviour.  And a
restore with `--accept-timeout` may find a part of the generations only and give numbers
again that a generation put back later has too;
`AcceptTimeout` is in the model and FALSE in the runs.  `GenerationNamesOneBundle` is claimed of redeployments
where no disk is lost, since the floor is on the disk (section 5).

Met while modelling, and stated by a definition that no configuration lists (it is violated when
it is added to the configuration of its module's run, `hub.cfg` if none is named):

- `push_quad` promises that sending the same again converges (`hub_drop.py:1080`), and
  after a POST that was cut off it need not: the body that it left, under a name that
  comes earlier, is shown with the letter that is accepted later under that number, and
  that letter sent again is answered with 409 (`ResendConverges` of `Door`).
- `prepare_post` promises that the same event prepared again converges to the same quad (`bbs_wire.py:590`).
  It looks for the event among the records (`_find_outbox_by_event`), and the record is
  written after the quad (lines 628-637).  A process that ends between the two leaves a quad that is not found, and the
  event prepared again gets a second one, with the same envelope under another number; the first is in the outbox
  without a record, so `push_outbox` does not take it (`OneQuadPerEvent` of `Board`).
- `threads` promises the replies of each first post in their order (`bbs.py:224`).
  A first post whose signed time is later than that of a reply to it begins its list
  anew, and the reply is in no list (`EveryReplyListed` of `Board`).
- `migrate.py` says that the files with a version of their own always move together (line 6).
  `_bump_self_versioned` writes them one after the other, `meta.json` first (lines 42-51); a migration
  that dies after it leaves the others behind, and the next `migrate` looks at `meta.json` only and
  answers "current" (line 81), so they stay behind (`VersionsMoveTogether` of `StateDir`; add it to `workspace.cfg`).

Facts of the code that the properties are worded around, none against a promise of the
documentation:

- A letter that becomes complete at a door under a lower number than one that was
  pulled is not seen by a pull that goes on from its highest number, and a round of a
  board calls itself complete without it (`MissedOnlyIfLate`, `CompleteMeansAll`).
- Reading an inbox page by page is claimed to miss nothing (`PagesMissNothing`) only for a reading
  during which the cell keeps its registration and the name of the cursor's file is not used
  again.  The cursor is a file name (`hub.py:264`): when that file is put away and a
  new letter of the same second, sender and topic gets its name, the cursor stands at the new
  letter's time, and the letters between are skipped in that reading.  They are not lost: the next
  reading begins with the first unread letter.
- A wait that a 429 tells is enough if the server is at no other POST at that moment:
  the limiter counts a request before it is answered, so a POST that is under way may
  use up the new window first (`RetryAfterHolds`; with a limit of one call it does).
- `restore` extracts into `.organum.tmp-` and its second (`cli.py:637`, `646`), without looking whether that
  is there.  Two restores of one second, or one after another that failed in that second, share the place: the
  directory may get the versions of one archive and the data of the other, or lack files that
  were extracted after it was moved.  `ChangesAreSafe` claims nothing of the format then (`crossed`).
- Two commands of one state directory at the same time may tell one streak twice, and the later writer of
  the self file drops what the other one put there: nothing locks it (`InTurnHolds` is of commands in turn).
- Two pushes of one post write its record without a lock: a later "unknown" or "rejected" may replace
  "stored", never the other way round without ground.
- A post's name is any text (`bbs.py:81`): a reply to a name that two posts bear answers the later of them,
  and a first post of a name that is there begins the list of that name anew.
- `register-key` is refused once the log has an envelope; a pinned key that is revoked
  leaves its lab unable to speak of its keys.
- A refused registration at the machine hub ends a join after its session has begun.

## 7. Plan

Done: state slot, checkpoint, sending, workspace, state directory, ledger, doors, Merkle
tree, board.  Left, in this order:

1. Proofs: one lost disk together with one redeployment (with two the property is false, section 5); an
   outbox that is set back, as long as nobody resends (finding 1).
2. A run with `AcceptTimeout`, and what it may promise.
3. Ledger and door in one model: wire identity with a mailbox that is pulled, admitted and
   receipted.

### Not modelled

- The **MCP front** reads one lab's letters within limits per call and keeps nothing; its
  placing of drafts is `Place` of `Drafts`.
- The **observatory** reads session files and rewrites shards from them in one process; it
  has no state of its own between calls.
- **Provisioning and integrity**, **delegation**, **observation and reports**: copying,
  hashing, running and rendering, without a protocol between processes.
- **Signatures** (`schnorr_pure.py`): 256-bit arithmetic is out of TLC's reach.
- Of the **command lines**, argument parsing and printing; the order in which they call
  the operations is in `Sessions`, `Workspace`, `StateDir`, `HubLedger` and `Door`.
- Of modelled components, what section 2 names under simplifications.
