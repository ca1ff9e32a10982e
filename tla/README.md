# KinoDrop: specifications, model checking and proofs

KinoDrop shares one folder of a Windows PC over SMB (`src/KinoShare.*`, C#) and lets an
iPhone send files to it and fetch files from it (`ios/KinoDrop`, Swift). This directory
holds TLA+ specifications of the parts whose correctness depends on the order of events,
TLC configurations that check them on small instances, and theorems about them that TLAPS
checks for every instance. Paths below are relative to the repository; `AppModel:158` is
line 158 of `ios/KinoDrop/AppModel.swift`.

    tlc -workers 2 -config queue_commands.cfg MCTransferQueue
    tlapm TransferQueue_proofs.tla

## 1. The system

| Component | State it keeps | Operations | What makes it correct |
|---|---|---|---|
| iOS transfer queue, `AppModel` | `transfers`, `jobs`, `pendingJobs`, `activeTask`, `activeTransferID`, the pause and background flags, `conflictContinuation`, files behind transfers | enqueue, download, cancel, cancel all, pause, retry, clear, `perform`, connect, disconnect, scene phases | one transfer at a time; none lost, duplicated or stuck; a cancel sticks; sources kept while owed |
| iOS record of the queue (UserDefaults) | owed uploads and downloads | `persistQueue`, restore at start | a restart loses and repeats nothing |
| iOS upload and download protocol, `execute` | `.part` file, metadata file, resume offset | write, resume, remove, move, check the size | the final name never holds a mixture or a hole |
| AMSMB2 (vendored; pipelined writes added locally) | requests in flight | `uploadItemPipelined` | the whole file or an error |
| libsmb2 (vendored): context | `outqueue`, `waitqueue`, the request being read, credits, message ids | asynchronous calls, their chains of commands and callbacks, timeouts, end of the context | each call answered once, with the status of what the server did; no credit or handle lost |
| libsmb2: formats | none; session keys and the hash of what was said | encode, decode, authenticate, derive keys, list shares, convert names | the other side reads what was written; both sides come to one session |
| iOS connections and browser | saved connections, `files` | connect, refresh, QR code | the list shown is that of the folder shown |
| Windows share session, `ShareManager` and view model | the share, the account, the firewall rules of Windows; `_status`, `_session` | start, stop, change password, change folder | what is shown as live is live; a failed start and a stop leave nothing; leftovers of a crash heal |
| Windows services (SMB, users, ACLs, firewall) | child processes only | one command each | used by the session as calls that happen or fail |
| Transfer monitor | known files, samples, app-copied names | poll, register, stop | each file reported once, when it is complete |
| Session view model: lists and history | active and received entries | monitor events, send file | the list matches the folder |
| Settings, credential, history stores | three JSON files | read, modify, write | no update lost, no read failure taken for emptiness |
| Console workflow | none of its own | start, wait, stop | as the session |
| Workspace, validation, generators, toasts, views, installer | none worth a model | - | - |

**How they interact.** On the phone everything but SMB runs on the main actor: handlers of
taps, of scene phases and the continuations of `perform` take turns, each atomic up to its
next `await`. They share the queue's variables with no other protection. On the PC the view
model awaits `ShareManager`, which awaits child processes one after another with one task
(the firewall) beside them; Windows keeps what they did when the process dies. Phone and PC
meet only in the shared folder: the phone writes `.part` and metadata files, the monitor
reads them. Between the two lies libsmb2: AMSMB2 queues a call's commands, polls the socket
and serves it until the call's callback has run; one context is served by one thread, and
several calls may be under way in it.

**What is hard.** Several handlers suspended at once on the phone (a `perform`, a
`cancel()` waiting for it, `disconnect()`, `connect()`), handles dropped while their task
lives on, flags read later than they are meant, an expiry that arrives by way of a queued
task; a restart between any two handlers; on the PC a call that fails or throws at any of
ten places with another task in flight, a removal that fails, a crash in the middle, and
whatever these left for the next start; in libsmb2 chains whose commands fail one by one,
share private data and compete for credits, replies that come in any order or too late, and
lengths and offsets that two sides compute separately. `PROJECT.json` lists the hazards with their lines.

## 2. Modules

| Module | Contents |
|---|---|
| `TransferQueue` | the phone's queue, its record, connection and scene phases |
| `MCTransferQueue` | model values and symmetry for TLC |
| `SequenceRanges` | lemmas on `Append`, `Tail`, `\o`, `SubSeq`, `RemoveAt` and `SetToSeqs`: elements, range and injectivity |
| `TransferQueue_proofs` | types and the handle; every transfer has exactly one owner; without `disconnect()` one transfer at a time, and the pause is honoured; the record at rest; what a session without cancelling keeps; that a cancelled transfer stays cancelled |
| `ShareSession` | a session of the Windows app and what it leaves in Windows |
| `MCShareSession` | model values and symmetry for TLC |
| `ShareSession_proofs` | the session's four invariants |
| `UploadProtocol` | one upload: `perform` and `execute` down to the requests that change the folder |
| `AtomicDelivery` | what an upload promises to a reader of the folder; `UploadProtocol` implements it |
| `UploadProtocol_proofs` | the upload's invariants, and the refinement; beside the monitor, that no file is announced twice |
| `TransferMonitor` | the poll loop of the Windows app over a folder somebody else writes |
| `UploadWatched` | the two composed: an upload into a watched folder |
| `SmbCalls` | the calls of libsmb2 that KinoDrop reaches, their chains and callbacks |
| `SmbClient` | a context of libsmb2 with its queues and credits, the wire and a server |
| `SmbWire`, `SmbRequests`, `SmbReplies`, `SmbCodec` | every command's request and reply, encoded and decoded |
| `SmbAsn1`, `SmbSpnego`, `SmbNtlm` | BER, SPNEGO envelopes and the NTLM messages of both sides |
| `SmbKeys` | the opening of a session: dialect, hash, keys, signing and sealing |
| `SmbInfo`, `SmbText` | information classes and directory lists; UTF-8 and UTF-16 |
| `SmbRpc` | the remote calls that list shares: coders, deferred pointers, fragments |
| `MCSmb` | `SmbClient` with two calls and all formats, for TLC |
| `SmbClient_proofs` | a call is told once, in order, and never lost, for any number of calls |
| `SmbCredits_proofs` | credits and message ids, for any window: the account of both sides |
| `SmbOutcomes_proofs` | what a user is told and what stays open, for any number of calls of any kinds |
| `SmbCodec_proofs` | messages for every length of their payloads, the places of their fields; the opening of a session for every password |

### TransferQueue

One action is one piece of a handler between two awaits. `perf[t]` is the Swift `Task`
running `perform(job)`; its `pc` says where it is suspended:

| `pc` | suspended in | left by |
|---|---|---|
| `check` | the look-up of the destination name (AppModel:396) | `FindConflict`, `Begin` |
| `conflict` | `waitForConflict` | `ResolveConflict` |
| `go`, `skip` | resumed with the answer, not yet run | `Begin`, `SkipTransfer` |
| `run`, `copy` | `execute()`; `copy` once a download has opened its part file | `OpenPartial`, `Complete`, `BackOff`, `GiveUp` |
| `nap` | `Task.sleep` before another attempt | `TryAgain`, `GiveUp` |
| `end` | `endLiveActivity()`, the outcome decided | `EndPerform` |

`joins` are the calls of `cancel()` and `cancelAllQueued()` suspended at
`await task?.value`, `suspended` those of `connect()` and `disconnect()`, `bgTask =
"fired"` the hop of the expiration handler to the main actor. `state` is
`TransferItem.State` with three values for a row that is not there; `local` is the file
behind a transfer. Handlers end, as in the code, with `StartNext` and `PersistQueue`;
`StartNext` has the guard and the assignments of `startNextTransfer()`.

`Inputs` names the kinds of user and system events that occur. A property that the code
keeps only without some of them is checked without them, and section 4 says what happens
with them.

Abstractions. `execute()` is one call that returns or throws. Byte counts, Live
Activity, notifications and history feed nothing back into the queue and are left out.
`Tasks` bounds the performs that are live together: a start waits for a free identity, and
one is free whenever fewer than two run. The order of rows is not modelled, so *Retry all*
and the restore append in any order. A tap on Cancel runs after continuations that were
ready before it, hence the second disjunct of `CancelOffered`. `persistQueue()` is computed
from the state after `startNextTransfer()`, which the code calls right after it and which
only moves an id within what is recorded. Two things are merged or left out: a second tap
on Disconnect during `smb.disconnect()` (an empty queue is emptied again), and a double tap
on Retry before the row is redrawn.

### ShareSession

`pc` is the await at which `StartSessionAsync` or `StopSessionAsync` is, and `pc # "idle"` is
`_isBusy`. `share`, `account` and `rule` belong to Windows and survive `Crash`; so do
`credential` and `saved`, which are files. A call has its effect, or fails with a
`KinoShareException` (`CallFails`: the rollback of `CreateShareSessionAsync` runs), or throws
something else because its child process cannot be started (`CallBreaks`: the rollback's
`catch` does not match and only the view model's does). `AllowFirewall` runs at any time
between the account's creation and the point where it is awaited; after `CallBreaks` nobody
awaits it and it becomes `stray`. `fault` and `left` are history variables of the
properties; no action reads them in a guard. `left` names the things (share, account, rule)
that an event no rollback covers has left in Windows.

Abstractions. The folder and name checks before the first call change nothing and are
part of `WorkspaceFails`. The ACL entry is granted and never revoked by the code, and not
modelled. An account that is already gone counts as removed (`net user` exits with 2,
NetUserAccountService.cs:60-63), so in the model too a removal of what is not there succeeds. No
caller passes a cancellation token. `Crash` is also the closing of the window,
which stops nothing. One process of the app: nothing in the code prevents a second one, whose
self-healing would remove the first one's share, and that is not modelled. `MaxSubs` bounds
how many failed stops may leave handlers on the monitor before no more starts are tried.

### UploadProtocol, TransferMonitor, UploadWatched

`TransferQueue` takes `execute()` for one call; `UploadProtocol` opens it for one upload that
owns the queue. Every SMB call is an await and an action, `pc` the call `perform` waits for:

| `pc` | call | code |
|---|---|---|
| `check`, `conflict` | does the final name exist; the dialog | AppModel:396-426 |
| `size` | size of the `.part` file | AppModel:489-496 |
| `meta` | the `.kinodrop-meta` manifest, created exclusively | AppModel:503-506 |
| `open`, `write`, `sync` | the pipelined writer: open, a window of writes, flush | AMSMB2 `uploadItemPipelined`, FileHandle `writePipeline` |
| `withdraw`, `rename`, `unmeta`, `verify` | remove the old file, move, remove the manifest, compare sizes | AppModel:517-523 |
| `done`, `fail`, `nap` | the end of `perform`, its catch blocks, its sleep | AppModel:434-483 |

A call is answered, refused, or cut off with or without its effect (`Call`); one made with
`try?` goes on in each case (`Tried`). Writes of the window are carried out one by one in any
order, and any subset of them when the session or the app dies. libsmb2 cuts a write to the credits in
hand and the loop counts the whole chunk whatever the answer says (FileHandle:466-468); so a chunk of
`Shortened` may be written short (`WriteShort`): it is missing, and `cut` remembers it. A file is its
size in chunks, the chunks that hold the source's bytes, a stamp that stands for its times, and that
mark. The source does not change.

`AtomicDelivery` tells the files under a final name apart by what is in them: the one of before, none, a
whole one, a holed one of full size, a short one. A name changes only from what is there to none when a
replacement is ready, and from none to that replacement; an attempt that sent a file has it ready whole, or
short if an answer was; a holed one comes only from an attempt that broke off while it was sending.

`TransferMonitor` is `FileSystemTransferMonitor` over a folder given by its environment: a scan
is one action, and every file can be read (see section 6). `UploadWatched` gives it the final name and the part of the upload.

### SmbCalls and SmbClient

`SmbCalls` has one operator per callback of `libsmb2.c`, from the status of a command and the
call's private data to what the callback does: a status remembered or told to the user, a chain
queued, the socket closed. `FirstChain` is what each call queues. `SmbClient` keeps the context: `outq` is
`outqueue` chain by chain, `waitq` is `waitqueue`, `cur` the request whose reply is being read
(it is in no queue, as in `smb2_read_data`), `credits`, `nextMid`. `ReadHeader` and `ReadBody`
are the two halves of `smb2_read_data`, between which a timeout may come. `smb2_timeout_pdus`
gives up what is older than some moment; `smb2_destroy_context` ends everything. The server
answers what it has received in any order, the replies of a chain in one frame or one each,
with an interim reply before or not, and grants what a chain used (everything on NEGOTIATE).

What the code does and the model follows, where one might expect otherwise:

- A compound given up before it was sent calls back its head only (pdu.c:1140, init.c:327); the
  user, told by its last command, never hears of it (`dropped`).
- `fstat_cb_1` reads its reply before it looks at the status (libsmb2.c:1901); behind SHUTDOWN and
  IO_TIMEOUT there is none. An optimised build may or may not crash: `link = "crashed"` is a choice.
- A timeout while a reply is half read calls back the later commands of the chain, which free
  the private data, before the half-read one (`late`); `InOrder` is claimed without timeouts.
- The reply to a request that was given up takes the rest of its frame with it, with the
  credits of the replies behind it (socket.c:557-577): `CreditsReturn` is claimed without timeouts. A
  request given up when half written breaks the stream (`garbled`).
- Reads and writes are cut to the credits in hand and sent empty when there are none
  (libsmb2.c:1505, 1624), taking a message id no credit pays for (`skipped`).
- A listing that fails halfway leaves its directory open, a list of shares its pipe;
  `readlink` ignores the status of its CLOSE, `disconnect` that of its LOGOFF.

Abstractions. A session that is up starts with message id 1 and the whole window. Payloads are
not in `SmbClient`: the formats are constants of their own, below. The socket takes a chain
whole or in two parts; when it takes the second part is free. Name resolution and trying one address after
another are part of `Connected`, a failure of all of them is `smb2_destroy_context` while
connecting.

### The formats

A message is the fields its encoder writes, with place and width, the payloads with place
and length, and how much is sent; a decoder is where it looks. `Understood` says that the
decoder refuses nothing, reads each field from where it is and finds each payload. `MessagesArrive` and
`FieldsAgree` say it of every command in both directions, and name the exceptions of the code:

- the session setup's previous session id is read at 18 (smb2-cmd-session-setup.c), the fields of
  lease breaks all at 4 (smb2-cmd-oplock-break.c:240-247, 355-364);
- an ioctl reply without output claims 48 bytes, and its input is counted twice (smb2-cmd-ioctl.c);
- a negotiate reply with contexts and without a security buffer is misread (smb2-cmd-negotiate.c:243);
- the decoder of FileFsControlInformation returns 44, which its caller takes for a failure; that of
  FileFsAttributeInformation refuses less than 20 bytes, so file systems with a name below 4 characters;
- directory lists and streams of libsmb2's own server give absolute offsets where the client
  expects relative ones: more than two entries are misread. Lists as Windows makes them are read right.

KinoDrop's PC runs the server of Windows, so none of these reaches its users. `SmbNtlm`
runs an authentication: the client's three messages and the server's check, in or out of
SPNEGO envelopes, for names and passwords of several lengths. The server always has a name, if an empty one. A hash is the tuple of its inputs. SmbSpnego's
envelopes are sequences of bytes, as their lengths decide where the decoder looks; libsmb2's
own negotiate and result blobs are refused by its decoder in two cases, after which the client
falls back to bare NTLMSSP. `SmbKeys` follows both sides through NEGOTIATE, SESSION_SETUP
and TREE_CONNECT for every version, signing, sealing and password setting, against libsmb2's
server and against another; keys are tuples of what they are derived from. libsmb2's own server seals with the
client's key (smb3-seal.c:115, 132), so sealed sessions with it are left out. `SmbRpc` lets coders write words
and read them again, with pointers deferred behind the structure they are in, and cuts answers into
fragments. `SmbText` has the two conversions of `unicode.c`, byte by byte.

## 3. Runs

| Run | Question | States |
|---|---|---|
| `queue_commands` | Cancel, Cancel all, Pause and Disconnect in any order, two performs live: is a transfer ever lost, owned twice, started from a dead handle, or off the record at rest? | 1.2 million |
| `queue_session` | Pause, background and expiry, retry, clear, crash: does a queue that may run run, one at a time, with its sources, its pause and its record? | 295 thousand |
| `queue_live` | Cancel, clear and retry: does every transfer end, and stay cancelled? | 35 thousand |
| `disconnect_two_active` | finding 1 | - |
| `pause_cancels` | finding 2 | - |
| `cleared_row_wedges` | finding 3 | - |
| `share_session` | Any call of a start, a rollback or a stop fails, throws or is cut off, any number of sessions: is what is shown as live live, does nothing stay behind, do leftovers ever make a start fail? | 117 thousand |
| `monitor_folder` | finding 4 | - |
| `upload` | One upload with every call refused, cut off or answered, writes in any order, pauses, cancels, renames, retries, crashes, a write answered short: what does a reader of the folder see, and does an attempt end? | 634 thousand |
| `watched` | The same into a polled folder: is a completed file announced, and none twice? | 353 thousand |
| `part_received` | finding 5 | - |
| `smb` | Two calls share a connection, the first of every kind: is each answered once, with the truth, and nothing lost? Do the formats carry what is put into them? | 203 thousand |

**Bounds.** Two or three jobs: an upload of a photo (private copy), one of a picked file
(scoped access) and a download; each kind has its own clean-up, and an active transfer, one
that waits and one that has ended are enough for every relation the handlers test, which are
"is active", "is in the queue" and "is the head". Two tasks: one whose handle was dropped and
one that was started after it. `MaxAttempt` is 2, the code's value, in `queue_session`, and
less where attempts only multiply states. `queue_commands` leaves the third job out because
its four commands already let two performs interleave at every await; `TransferQueue_proofs`
has its invariants for any number of jobs and tasks. Nothing bounds the number of connects,
pauses, crashes or sessions. `share_session` has two folders and two passwords, so that a
leftover may differ from what the next start asks for; `MaxSubs` = 2 lets another session
follow a stop that failed, with the handlers of both subscribed.

`upload` has three chunks and a window of two: a request in flight, one beside it and one
that comes after; one retry, so that an attempt meets what another left; two names, as one
rename is offered; a write of the last chunk may be cut short (`Shortened`), as that one
also decides the size; with an earlier chunk as well the states are more than can be checked in minutes, and
`UploadProtocol_proofs` has any set of them. `watched` has none cut short, and needs two chunks, that a stalled part may be whole or not.
`smb` pairs every kind of call with a `stat`, whose chain of three takes the whole window of
three credits: it is queued before or behind the other's chain, which finds too few credits
for itself. Kinds whose chains look like another's meet an `echo` instead. One timeout and one
directory batch. Lengths of the formats are the boundaries of their encodings: every residue of the paddings,
one and two bytes of BER length (127, 128, 255, 256), both sides of 64 KiB and of the limits below it
at which the length of a frame no longer fits 16 bits, KinoDrop's chunk of 1 MiB, and 66,060,288 bytes, the most one READ or
WRITE carries ((`MAX_CREDITS` - 16) times 64 KiB); all lengths up to that are covered by
`SmbCodec_proofs`. What is counted in 16 bits is tried as far as that goes. Names are
short or long enough that the server's just fits the buffer of a challenge (193 characters). Bytes and units of text are those where a rule of UTF-8 or UTF-16 changes, in
strings of up to four and three.

**Deadlock.** It is checked in `queue_commands`, `queue_session`, `share_session`, `monitor_folder`, `upload` and the two runs of `UploadWatched`.
It is off in `queue_live`, `pause_cancels`, `cleared_row_wedges` and `disconnect_two_active`, where every job may have
ended and the inputs left allow no further step, and in `smb`, where both calls were made and answered.

**Fairness.** `queue_live`: weak fairness of each perform, of the joins, of
`Refreshed`, `Disconnected`, `BackgroundTaskExpired` and of the answer to a conflict. The main actor runs every
continuation that is ready; an SMB call ends because AMSMB2 has a timeout; `Task.sleep`
wakes; the conflict dialog is modal, so the user answers it to go on. Nothing is assumed
of which way `execute()` ends, nor that the user ever connects, resumes or retries:
`EveryTransferEnds` supposes that the app ends up connected, in the foreground and unpaused.

`upload`: weak fairness of the steps of `perform` (each call returns: libsmb2 gives it a
timeout); none of the user, the network or which way a call ends. `watched` adds weak
fairness of the scan, which the poll loop makes every 500 ms. `smb`: weak fairness of
`Progress` as a whole: while a chain can be written, a reply read, a request answered, or a
context that is broken must end, one of these happens, as AMSMB2 polls and serves the socket while a
call waits. Nothing is assumed of timeouts, of the loss of the link, of interim replies or partial writes.

## 4. What the checks show

Findings, each with a run whose counterexample TLC prints:

1. **`disconnect()` leaves a transfer running** (`disconnect_two_active`). It drops
   `activeTask` without awaiting it (AppModel:157-159); a second perform runs beside the
   first, begun while `smb.disconnect()` is still awaited (the shortest trace) or after a reconnect, and the first one's epilogue clears the second one's handle. The
   screen says "Files are sent one at a time" and "1 active at a time". `cancelAllQueued()`
   does the same at 658-659 when the next transfer has started before it resumes.
2. **Pausing can cancel** (`pause_cancels`). `perform` decides between paused and cancelled by
   `pauseRequested` at the time it unwinds (459). Pause and Resume before that cancel the
   transfer and delete the photo's private copy.
3. **A cleared row can stop the queue for good** (`cleared_row_wedges`). Cancel, Clear
   completed and Pause in that order put an id without a job at the head of `pendingJobs`
   (465), where `startNextTransfer()` (387) returns for ever.
4. **The monitor may watch another folder** (`monitor_folder`). A failed stop leaves it
   running; the next start's `Start` returns early and the old folder is polled.

5. **A part is announced as received** (`part_received`). The monitor takes a file for complete
   after two equal samples, whatever size its manifest expects; an upload that stalls or was
   paused has its `.part` announced. The class comment says that this does not happen.

With other inputs than those of the passing runs TLC also finds the following. They are
known limits of the properties, not runs of their own:

- `EveryTransferEnds` with `background`: the expiry's queued task runs after the app became
  active again, sets `pauseRequested`, and nothing starts until the next change of scene.
- `CancelSticks` with `pause` or `crash` beside `cancel`: a transfer whose row says cancelled
  is put back as paused (finding 2's late read), or restored because it was still on record.
  With `disconnect` during the conflict check `Begin` sets a cancelled row to transferring.
- `SourceKept` with `cancel` and `pause`: the same late read puts the transfer back, and then
  `cancel()` resumes and deletes its source.
- `PauseHonoured` with `disconnect`: `disconnect()` resets `pauseRequested` but not
  `isQueuePaused`, and after a reconnect transfers start while the button says Resume queue.
- `CompletedStays` with `cancel`: a tap that was under way when the transfer completed marks
  it cancelled and deletes a downloaded file. A crash between `.completed` and the epilogue
  (448-483) sends the file again; the property exempts it.
- After a crash: a queued download without a part file is dropped although recorded
  (`restorePersistedDownloads`), and the private copy of a restored photo is deleted by nothing
  but *Clear orphaned files*, as `cleanupURLs` is not restored.
- In `ShareSession`: a failed stop leaves the handlers subscribed and events are then handled
  twice (`subs` = 2); an exception of another type skips the rollback (`left`); when the
  monitor's `Start` throws, the session is live with the status Failed; the folder in memory
  changes even when saving it fails; an unreadable credential is replaced.

- In `UploadProtocol`: the progress closure asks `Task.isCancelled` on AMSMB2's queue, where it is
  always false, so a cancel waits for the end of the writing. The resume offset is never used
  (`NeverAppends`): a part is either of full size or its leftover manifest makes every retry
  fail with a collision. A part whose last chunk was written while an earlier one failed has full
  size: the retry publishes it with a hole and reports `completed`, as only sizes are compared
  (AppModel:490, 521). A chunk before the last that was written short leaves a hole in the same way,
  in one attempt. `Delivers` therefore says *whole* only of what one attempt sent without a short
  answer; where the holed and short files come from it says exactly. When the answer to the
  rename was lost the file is there with its manifest, and every retry fails. A check of the
  destination that fails counts as "no such file" (396), and the file is replaced without asking.
- In `SmbClient`: the behaviours listed in section 2; late replies and timed out compounds are
  why `NothingLost`, `InOrder`, `CreditsReturn`, `NoLeak` and `Answered` carry their exceptions.

`NothingLeft` exempts what is in `left`, thing by thing: what a failed removal was to remove (in a
rollback or a stop); the account when `CreateTemporaryUserAsync`, which is called before the `try`
block, fails after making it; and whatever was there when an exception outside `KinoShareException`
passed the rollback by (ShareManager.cs:121), when the monitor threw at the end of a start, when a stop
failed, or when the process ended. The next session that goes live takes all of it over. What remains
claimed is that a rollback, and a stop that does not fail, leave nothing of what they meant to remove, the rule of the
firewall task in flight included. `CleanStart` and `Serving` have no exemption.

## 5. Proofs

Everything is checked by `tlapm` from the constants' assumptions alone (`QueueAssumption`:
finitely many jobs, photos among uploads among jobs, a natural retry limit;
`SessionAssumption`: some folder, some password, a positive bound; `UploadAssumption`;
`ClientAssumption`: every mix gives each call a kind, a positive window, natural bounds;
`BlocksAssumption`: a sized request asks for one to three credits; `NoneAssumption`: `None` is
no request; `LengthsAssumption`: payloads of at most 66,060,288 bytes, the data of a READ or WRITE that takes all credits; `SecretsAssumption`: passwords are
numbers, 0 for none; `WatchedAssumption`: at least one stable sample). The assumptions are evaluated by TLC in every run.

**`TransferQueue_proofs!TypeCorrect`, `HandleLiveAlways`**: `TypeOK` and `HandleLive`. `TypeInv` adds to them that
the stored continuation belongs to a perform that waits for it (`WaiterOK`), without which
`ResolveConflict` might move an ended perform. As most handlers end with `startNextTransfer()`, its
predicates take the queue as arguments: a handler's assignments give `QueueOK` of
intermediate values, `StartNextOK` carries it through the start.

**`TransferQueue_proofs!RowOwnedAlways`, `SingleOwnerAlways`**: whatever the inputs, with any
number of live performs, each transfer still to be done is in `pendingJobs` or in the hands of
an undecided perform, never in two places. Neither is inductive alone: a perform that gives
up puts its id back at the head, which keeps the queue free of duplicates only because the id
was not in it (`SingleOwner`), and takes the row from its owner only to hand it to another
(`RowOwned`). `Own` is their conjunction over arbitrary rows, queue and performs; the lemmas
before `OwnStep` say what keeps it: performs that go on, rows that are cancelled or removed, a perform
that decides, an id that joins the queue, and `startNextTransfer()`.

**`TransferQueue_proofs!OneAtATimeWhileHandleKept`**: without the inputs `disconnect` and
`cancelAll` at most one `execute()` runs. The invariant `Alone` says that the handle names the only live
perform. With finding 1 it shows that those two handlers are the only source of overlap.

**`TransferQueue_proofs!PauseHonouredWhileConnected`**: without `disconnect` no step starts a
transfer while the button says Resume queue. The button shows `isQueuePaused` and
`startNextTransfer()` reads `pauseRequested`; `PauseKept` relates them (the handlers keep it), and
`StartedUnpaused` shows that nothing but `startNextTransfer()` brings a perform to `check`.

**`DurableAtRestAlways`**: under every input, whenever nothing is suspended
UserDefaults holds every owed transfer whose source is there and no finished upload. It rests
on `Own`: at rest no perform owns a row, so each owed one is in `pendingJobs` or failed, which is what
`persistQueue()` writes; a handler that does not save leaves something suspended, or owes nothing new.

**`SourceKeptInQuiet`, `WorkConservingInQuiet`, `DurableInQuiet`, `CompletedStaysInQuiet`**
assume `Quiet`: no input `cancel`, `cancelAll` or `disconnect`. With them sources are
lost, the queue can stop and completed rows change (section 4). Neither of the first two is inductive: a perform that begins makes its row owed
again, so that the row must have been owed before; `Session` says that of each row in the queue
and in the hands of an undecided perform. `DurableInQuiet` adds `Alone`: the transfer of a live
perform is the one `activeTransferID` names, so `persistQueue()` sees it.

**`CancelSticksUnpaused`** assumes `CancelOnly`: the single Cancel, with retries and clearing, but no pause, time
in the background, disconnect, Cancel all or crash. `Marked` says that the row of a perform that has
begun is transferring, or was cancelled together with its task: a late answer then meets the mark.

**`ShareSession_proofs`**: `Serving`, `NothingLeft`, `CleanStart` and `TypeOK`, for any number
of folders and passwords. They speak of the moments between starts and stops, so the invariant `Inv` says
what holds at each await: what the start has done (`Progress`), which task is still in
flight (`Joined`), what may still be there (`Removed`), and that only a failed call leads to a rollback (`Blamed`).

**`UploadProtocol_proofs`**: `TypeOK`, `NeverAppends`, `WrittenWhole`, `KeepsAFile`, and
`UploadDelivers`: the upload implements `AtomicDelivery`, for any file, window, number of
retries, set of names and of chunks that may be written short, from `UploadAssumption`. The invariant `Inv` says what the folder holds at each call
(`Phases`, `Placed`: a part comes with its manifest, a full part precedes the removal) and what
the window of writes has done (`Windowed`: while nothing failed, every chunk below `next` that is
not in flight is in the part, or the part is marked cut). The refinement maps a name to what is in its
file (`Content`) and `ready` to the parts that may be published; each action is a step of the delivery or a stutter.

**`UploadProtocol_proofs!ToldOnceAlways`** is about `UploadWatched`, where the monitor scans at any
moment of the upload. The folder changes between two scans, so what keeps the monitor from announcing a
file twice is a fact about the upload: a name holds the same file, written on (`Grown`), until the name is
free. `FolderChange` shows that of every action, renames included; `Grown` is an order, so a file
that has changed never is again what it was. `Recalled` then says that the file last told under a name
has grown into the one that is there, and that `_reported` holds it while it is the same; it is
inductive together with the upload's `Inv`.

**`SmbClient_proofs`**: `CalledOnce`, `NothingLost` and `InOrder`, for any number of calls of any
kinds. None is inductive: whether a callback tells a user twice depends on what else of
its call is still in a queue. `CallInv` says where the requests of a call are.

| Clause | Says | Needed because |
|---|---|---|
| `Session` | the queues are empty before and after a session; it begins with the one connect | `Connected` overwrites the status of the call that connects |
| `OneChain` | a call has one chain at a time: in `outq`, or on the wire | a callback that queues another chain must not meet a rest of the last |
| `Chain` (in `Types`) | a queued chain is one call's, its last request tells, each knows the one before by its message id | what a request given up takes along is found by `prev` |
| `WireOrder` | on the wire each request of a call is linked to one before it; none follows the one that tells | the same, for chains of which a part was answered |
| `ToldLast` | told at most once, and then nothing is outstanding except a request half read | gives `CalledOnce` |
| `TellerKept` | a call made and not told still has the request that will tell it | gives `NothingLost` |

The hard step is `smb2_timeout_pdus`. It walks two queues and, for each request it gives up, frees the later
ones of its chain (`smb2_free_pdu`), whose callbacks run first. `Shape` fixes which requests go;
`GivenUp` says what their callbacks come to, told or merged; `Expired` and `OldestGone` that what stays is linked as
before, and `TimeOutEffect` is the sum. `smb2_destroy_context` is the same with all of them gone.

`CompleteAll` and `Total` are recursive functions over positions, so nothing about them is in reach of the
library's induction. `Induction` replaces it: a set of positions without a least element is empty
(`WellFoundedInduction` gives the least element), so a set of naturals that contains 0 and the successor of each
of its elements contains all. `TotalDef` and `CompleteAllDef` derive from it that the two exist and equal their definition.

**`SmbCredits_proofs`**: `TypeOK`, `WithinWindow` and `CreditsReturn`, for any window. `CreditInv` is
inductive relative to `CallInv`; TLC found it true in every state of the run `smb` before it was proved.

| Clause | Says | Needed because |
|---|---|---|
| `Affordable` | no request costs more than the window, each comes after the one it is linked to | part of `TypeOK`: a request that costs more could never be sent |
| `Opening` | before the session no credit, no message id, nothing under way | the account starts somewhere |
| `NegotiatesAlone` | NEGOTIATE travels alone and pays for itself | it is sent without a credit, and the whole window is granted on it |
| `Budget` | credits in hand, coming and owed: never more than the window, exactly it if nothing was given up | gives `CreditsReturn` |
| `Ledger` | message ids taken plus credits in hand and coming: at most what was granted, plus ids no credit paid for, plus what queued chains cost | the promise to the server, while requests still wait to be sent |
| `Room` | the ids of a queued request leave room for what is queued behind it | with `Ledger` it gives `WithinWindow` when the head is sent |
| `Rising` | message ids rise along `waitq`, then `outq` | a reply finds its request and no other |
| `Interims`, `Matched` | an interim reply is alone in its frame; without give-ups every final reply has its request waiting, once | otherwise `smb2_read_from_socket` skips the rest of a frame with its credits |

The lemmas before the steps are about sums: of a sequence with an element appended, removed or replaced, of two
behind each other, of a prefix; and `NumberedMids`, that `smb2_queue_pdu`'s numbering gives the requests of a chain
consecutive ranges of ids.

To be reasoned about, `SmbClient` writes the walk over a list of requests and the sum of a list as recursive functions; the
states are the same.

**`SmbOutcomes_proofs`**: `HonestStatus` and `NoLeak`, for any number of calls of any kinds. The two
relate a user's callback to what the server did some frames before, while between them a verdict is in a
reply, in the header being read, or merged into the private data of the call. `OutcomeInv` follows
it; it is inductive relative to `CallInv` and `CreditInv`, and TLC found it true in every state of the
run `smb` before it was proved.

| Clause | Says | Needed because |
|---|---|---|
| `Formed` | every chain has the commands of its call's kind, every request its command's callback | a callback is known by its request, and what it merges by its kind |
| `Ranked` | what is left of a compound is in the order of its commands | the CLOSE tells last, after the others were merged |
| `Older` | what the server has or has answered has smaller message ids than what waits to be sent | no answer on its way is taken for one to a later request |
| `Asking` (`Sole`) | a chain the server has not answered is its call's only one, and nothing of the call has failed | the server decides about a call as a whole, once |
| `Truthful` (`Says`) | the status in a reply or in the header being read is what the server decided | the verdict survives reordering, splitting into frames and interim replies |
| `Failures` | what can have failed by now; a status merged to `fail` has a failure behind it | gives the half of `HonestStatus` about failures |
| `Merged` (`Left`) | a status still `ok` has seen every verdict but those still on their way | gives the half about success: at the CLOSE nothing is left |
| `OpenHandles` | who can have a handle open: holders and openers, or a compound whose CLOSE failed | gives `NoLeak` |

The steps are those of `SmbClient_proofs`. Each of the callbacks that go on or tell is a case of `TellerOutcome`
or of the lemmas before it; a chain that is queued, written, answered or given up has a
lemma of its own (`QueueOutcome`, `WriteOutcome`, `AnswerOutcome`, `ExpiredOutcome`), stated over
sets of chains and requests (`InLine`, `OnWire`, `Unserved`, `Answers`) so that the order in the queues
matters only where message ids do.

**`SmbCodec_proofs!EveryMessageArrivesAlways`**: requests and replies are understood for every
length up to the data of a READ or WRITE that takes all credits, the runs' list being a sample; a
search pattern arrives exactly up to 65432 bytes, a security buffer of a reply up to 65456, the name of a CREATE
up to 65535 (`CutLength` says where the length of a frame, cut to 16 bits, falls behind its contents). Per kind of layout there is a lemma (a fixed
structure; a payload right behind it; one at an offset; two of them), from which each command follows
by arithmetic on its constants. **`EveryFieldAgreesAlways`**: each decoder looks for the fixed fields where
its encoder put them, except the fields of a session setup and of a broken lease that the property lists.
Like every property of the formats these are invariants of
constants: they are stated over `Spec` because the run checks them there.

**`SmbCodec_proofs!EverySessionOpensAlways`**: `KeysAgree` of `SmbKeys` for any set of passwords (TLC takes
those of the cfg). The proof goes through the four rounds of the handshake: after each both sides are in a
known state (`Greeted`, `Challenged`, `Judged` with `Decided`, `Ended`) or one is gone, and then
the other goes too (`LostRound`). What makes the keys equal is that at every await the client's hash is the server's and
the request on its way (`Opening`); `SigningKeys` says that different session keys give different
signatures, so that a refused signature is as certain as an accepted one. `FitSides` is what is left: the conditions met in the
four rounds are those the property states.

To be reasoned about, `SmbKeys` writes its contexts and rounds out (`ClientWith`, `Round`) where a set of records
with EXCEPT and a fold would do, and `SmbWire` does without `@@`; the values are the same.

**Only model-checked**: liveness (`EveryTransferEnds`, `AttemptsEnd`, `Announced`, `Answered`), which is outside
the prover, as is everything about ENABLED. So are `EveryLoginWorks`, `EveryInfoArrives` and `EveryShareArrives`:
BER, lists, text and remote calls are walked element by element, with RECURSIVE operators and folds over data, and what
these compute for every input would need inductions the prover cannot do. Every other invariant and action
property of a passing run is stated by a theorem.

## 6. Not modelled

The download branch of `execute` (a private file, renamed at the end), the saved connections, the QR code and the
file browser, the view model's lists and `SendFile`, the history file and the console workflow,
which calls what `ShareSession` has in the same order. Views, scanner, player, validation,
generators, network look-ups, toasts and build files have no behaviour of the kind a model
checker helps with; the repository's unit tests cover the pure functions.

Of libsmb2: name resolution and the choice of an address, Kerberos, change notification (unused,
its callback registers again whatever the status), security descriptors, reparse data, the local security
authority's calls, the loop that serves requests, the calls KinoDrop does not reach, error tables, and the
arithmetic of hashes and ciphers, which are taken to be what they are named.

The monitor's scan is one action: `Stop` running beside a scan on another thread is not
modelled, nor are the names it is told were sent by the PC. Nor are its catch blocks
(FileSystemTransferMonitor.cs:86-89, 144-147, 172-175): a file that cannot be read when the monitor starts is not
seeded, one that cannot be read in a scan is skipped and its state and its report are dropped (245-253), and a folder that cannot be listed
costs a round. So `ToldOnce` and `Announced` are claimed of a folder whose files can be read.

Of the challenge of NTLMSSP: the name of the share's server is added to a buffer with 400 bytes to spare
(ntlmssp.c:349) and its length is not compared with that (405-413). `LoginWorks` is claimed of names
that fit, up to 193 characters.

## 7. What could follow

1. Names registered by `RegisterAppCopiedFile` in `TransferMonitor`, with `SendFile` as a second writer of the folder.
2. The history file beside the lists of the view model, with failing reads and two additions at once.
3. An abstract queue (each transfer waits, runs, ends; one runs at a time) refined by
   `TransferQueue` under the inputs that keep the handle.
4. A bound for how long an expiry may be late, and with it a readlink whose CLOSE times out.
5. Failing reads in `TransferMonitor`, after which a file that was reported may be reported again.
