-------------------------- MODULE UploadProtocol --------------------------
(***************************************************************************)
(* One upload of the iOS app, from perform() and execute() of AppModel.swift *)
(* through SMBClient.swift and AMSMB2 down to the requests that change the   *)
(* shared folder: the conflict check, the manifest (.kinodrop-meta), the     *)
(* pipelined writes into a part file, its publication under the final name,  *)
(* the retries, and what a pause, a cancel, a lost connection, a refused     *)
(* request or the death of the app does in between.                          *)
(*                                                                         *)
(* Every SMB call is an await, so every call is one action; the user and the *)
(* network act between any two.  TransferQueue models how several transfers  *)
(* share the queue; here one transfer owns it.                               *)
(*                                                                         *)
(* A file is abstracted to its size in chunks, the chunks that hold the      *)
(* bytes of the source, and a stamp that stands for its NTFS times.  cut is  *)
(* history: a write into the file was answered short, so that a chunk which  *)
(* the app counts as sent is missing.  The source does not change while its  *)
(* row exists, so a part is never longer than the source (the branch of      *)
(* execute() that deletes a longer part).                                    *)
(***************************************************************************)
EXTENDS Naturals

CONSTANTS
  N,            \* chunks of the source file
  Window,       \* requests in flight, 8 in the code
  MaxAttempt,   \* retries of execute() in one perform(), 2 in the code
  Targets,      \* remote names: "name", and "copy" once the user chose to rename
  Stamps,       \* the times of files that are told apart
  Shortened,    \* bound: the chunks a write of which may be cut short, any in the code
  NoFile

Files == [size : 0..N, data : SUBSET (1..N), stamp : Stamps, cut : BOOLEAN]

ASSUME UploadAssumption ==
  /\ N \in Nat \ {0} /\ Window \in Nat \ {0} /\ MaxAttempt \in Nat
  /\ "name" \in Targets /\ Targets \subseteq {"name", "copy"}
  /\ 0 \in Stamps /\ Shortened \subseteq 1..N
  /\ NoFile \notin Files

VARIABLES
  row,          \* state of the TransferItem
  pausing,      \* pauseRequested, set and reset together with isQueuePaused
  cancelled,    \* Task.isCancelled of the task that runs perform()
  pc,           \* the call perform() is suspended at
  attempt,
  target,       \* the remote name this perform() uploads to
  next,         \* nextOffset in chunks, plus one
  active,       \* chunks whose write request is outstanding
  broken,       \* the write window has seen an error and only drains
  link,         \* the SMB session works
  remote        \* the shared folder: [final, part, meta] of each target

perform == <<cancelled, pc, attempt, target, next, active, broken>>
vars    == <<row, pausing, perform, link, remote>>

Rows == {"queued", "transferring", "paused", "failed", "cancelled", "completed"}
PCs  == {"idle", "check", "conflict", "size", "meta", "open", "write", "sync",
         "withdraw", "rename", "unmeta", "verify", "done", "fail", "nap"}

Old    == [size |-> N, data |-> {}, stamp |-> 0, cut |-> FALSE]
Whole(f) == f # NoFile /\ f.size = N /\ f.data = 1..N
Full(f)  == f # NoFile /\ f.size = N
Cut(f)   == f # NoFile /\ f.cut
Nothing == [final |-> NoFile, part |-> NoFile, meta |-> FALSE]

-----------------------------------------------------------------------------
(* What the server does with one request.                                    *)

WithFinal(f) == [remote EXCEPT ![target].final = f]
WithPart(f)  == [remote EXCEPT ![target].part = f]
WithMeta(b)  == [remote EXCEPT ![target].meta = b]

\* Times differ from those of the file that will be replaced.
NewStamp == CHOOSE s \in Stamps :
  remote[target].final = NoFile \/ s # remote[target].final.stamp \/ Stamps = {s}
Empty    == [size |-> 0, data |-> {}, stamp |-> NewStamp, cut |-> FALSE]

\* A write beyond the end extends the file; what lies between is a hole.
Extent(f, S)  == CHOOSE s \in {f.size} \cup S : \A x \in {f.size} \cup S : x <= s
Applied(f, S) == [f EXCEPT !.size = Extent(f, S), !.data = @ \cup S]

\* A write of chunk k that stops short of its end: the file reaches into the chunk at most.
CutShort(f, k) == [f EXCEPT !.size = Extent(f, {k - 1}), !.cut = TRUE]

PartWith(S) == IF S = {} THEN remote ELSE WithPart(Applied(remote[target].part, S))

(***************************************************************************)
(* One call: answered; refused or failed without an effect; or cut off by    *)
(* the loss of the session, before or after the server carried it out.       *)
(* Without a session every call fails: nothing in AMSMB2 connects again.     *)
(***************************************************************************)
Answered(new, after) == link /\ remote' = new /\ pc' = after /\ UNCHANGED link
Refused(after)       == pc' = after /\ UNCHANGED <<link, remote>>
CutOff(new, after)   == link /\ link' = FALSE /\ remote' \in {remote, new} /\ pc' = after

Call(new, after)  == Answered(new, after) \/ Refused("fail") \/ CutOff(new, "fail")
\* A call made with `try?`: perform() goes on whatever came of it.
Tried(new, after) == Answered(new, after) \/ Refused(after) \/ CutOff(new, after)

-----------------------------------------------------------------------------
(* perform()                                                                 *)

Init ==
  /\ row = "queued" /\ pausing = FALSE /\ cancelled = FALSE /\ pc = "idle"
  /\ attempt = 0 /\ target = "name" /\ next = 1 /\ active = {} /\ broken = FALSE
  /\ link = TRUE
  /\ \E f \in {NoFile, Old} :
       remote = [t \in Targets |-> IF t = "name" THEN [Nothing EXCEPT !.final = f] ELSE Nothing]

\* The locals of a perform() that has ended are gone.
Gone == /\ pc' = "idle" /\ cancelled' = FALSE /\ attempt' = 0 /\ target' = "name"
        /\ next' = 1 /\ active' = {} /\ broken' = FALSE

Begin ==
  /\ pc = "idle" /\ row \in {"queued", "paused"} /\ ~pausing
  /\ pc' = "check"
  /\ UNCHANGED <<row, pausing, cancelled, attempt, target, next, active, broken, link, remote>>

\* `(try? await smb.remoteFileSize(at: remotePath)) != nil`: a failed check is no conflict.
CheckConflict ==
  /\ pc = "check"
  /\ \/ link /\ remote[target].final # NoFile /\ pc' = "conflict" /\ UNCHANGED <<row, link>>
     \/ link /\ remote[target].final = NoFile /\ pc' = "size"
        /\ row' = "transferring" /\ UNCHANGED link
     \/ pc' = "size" /\ row' = "transferring" /\ link' \in {link, FALSE}
  /\ UNCHANGED <<pausing, cancelled, attempt, target, next, active, broken, remote>>

Overwrite ==
  /\ pc = "conflict" /\ pc' = "size" /\ row' = "transferring"
  /\ UNCHANGED <<pausing, cancelled, attempt, target, next, active, broken, link, remote>>

\* The new name holds the time, so it is a fresh one.  Bound: one rename ("copy").
RenameUpload ==
  /\ pc = "conflict" /\ "copy" \in Targets /\ remote["copy"] = Nothing
  /\ target' = "copy" /\ pc' = "size" /\ row' = "transferring"
  /\ UNCHANGED <<pausing, cancelled, attempt, next, active, broken, link, remote>>

Skip ==
  /\ pc = "conflict" /\ Gone /\ row' = "cancelled"
  /\ UNCHANGED <<pausing, link, remote>>

-----------------------------------------------------------------------------
(* execute()                                                                 *)

\* A part that has the size of the source is not written again.
ByName(part)   == part # NoFile                                \* mutant of Complete
Complete(part) == Full(part)

ReadPartSize ==
  LET part == remote[target].part IN
  /\ pc = "size"
  /\ Call(remote, IF Complete(part) THEN "withdraw" ELSE "meta")
  /\ next' = IF pc' = "meta" /\ part # NoFile THEN part.size + 1 ELSE 1
  /\ UNCHANGED <<row, pausing, cancelled, attempt, target, active, broken>>

(***************************************************************************)
(* manager.write(data:toPath:) opens the manifest with create and            *)
(* exclusiveCreate, so it fails when an earlier attempt left one.  It is     *)
(* several requests: it can fail after the file was created.                 *)
(***************************************************************************)
OpenIf(meta)    == TRUE                                         \* mutant of Creatable
Creatable(meta) == ~meta

WriteMetadata ==
  /\ pc = "meta"
  /\ \/ Creatable(remote[target].meta) /\ Call(WithMeta(TRUE), "open")
     \/ Creatable(remote[target].meta) /\ link /\ remote' = WithMeta(TRUE)
        /\ pc' = "fail" /\ UNCHANGED link
     \/ ~Creatable(remote[target].meta) /\ (Refused("fail") \/ CutOff(remote, "fail"))
  /\ UNCHANGED <<row, pausing, cancelled, attempt, target, next, active, broken>>

\* The chunks the window is filled with, from `from` on, and the chunk after them.
FirstWindow(from) == {k \in from..N : k < from + Window}
After(from)       == IF from + Window > N THEN N + 1 ELSE from + Window

\* O_CREAT|O_TRUNC at offset 0, O_CREAT otherwise.
OpenPart ==
  LET part == remote[target].part
      new  == WithPart(IF next = 1 \/ part = NoFile THEN Empty ELSE part)
  IN /\ pc = "open"
     /\ Call(new, "write")
     /\ active' = IF pc' = "write" THEN FirstWindow(next) ELSE {}
     /\ next' = IF pc' = "write" THEN After(next) ELSE 1
     /\ broken' = FALSE
     /\ UNCHANGED <<row, pausing, cancelled, attempt, target>>

(***************************************************************************)
(* writePipeline(): a completed request is replaced at once by the next      *)
(* chunk.  The progress closure asks Task.isCancelled on AMSMB2's dispatch   *)
(* queue, where there is no current task, so it never stops the loop.        *)
(***************************************************************************)
Replaced(k) ==
  /\ IF broken \/ next > N THEN active' = active \ {k} /\ next' = next
     ELSE active' = (active \ {k}) \cup {next} /\ next' = next + 1
  /\ UNCHANGED <<row, pausing, cancelled, pc, attempt, target, broken, link>>

WriteDone(k) ==
  /\ pc = "write" /\ link /\ k \in active
  /\ remote' = PartWith({k}) /\ Replaced(k)

\* libsmb2 cuts a write to the credits in hand, and the loop counts the whole chunk without
\* looking at how many bytes the answer says were written.
WriteShort(k) ==
  /\ pc = "write" /\ link /\ k \in active \cap Shortened
  /\ remote' = WithPart(CutShort(remote[target].part, k)) /\ Replaced(k)

WriteRefused(k) ==
  /\ pc = "write" /\ link /\ k \in active
  /\ active' = active \ {k} /\ broken' = TRUE
  /\ UNCHANGED <<row, pausing, cancelled, pc, attempt, target, next, link, remote>>

Unnoticed(b)  == FALSE                                         \* mutant of Failing
Failing(b)    == b

WriteEnds ==
  /\ pc = "write" /\ active = {}
  /\ pc' = IF Failing(broken) THEN "fail" ELSE "sync"
  /\ next' = 1 /\ broken' = FALSE
  /\ UNCHANGED <<row, pausing, cancelled, attempt, target, active, link, remote>>

SyncPart ==
  /\ pc = "sync" /\ Call(remote, "withdraw")
  /\ UNCHANGED <<row, pausing, cancelled, attempt, target, next, active, broken>>

\* `try? await smb.remove(remotePath: remotePath)`
Withdraw ==
  /\ pc = "withdraw" /\ Tried(WithFinal(NoFile), "rename")
  /\ UNCHANGED <<row, pausing, cancelled, attempt, target, next, active, broken>>

\* smb.move: the rename does not replace an existing file.
Publish ==
  LET r == remote[target]
      new == [remote EXCEPT ![target].final = r.part, ![target].part = NoFile]
  IN /\ pc = "rename"
     /\ IF r.part # NoFile /\ r.final = NoFile THEN Call(new, "unmeta")
        ELSE Refused("fail") \/ CutOff(remote, "fail")
     /\ UNCHANGED <<row, pausing, cancelled, attempt, target, next, active, broken>>

RemoveMetadata ==
  /\ pc = "unmeta" /\ Tried(WithMeta(FALSE), "verify")
  /\ UNCHANGED <<row, pausing, cancelled, attempt, target, next, active, broken>>

Verified(f) == Full(f)

VerifySize ==
  /\ pc = "verify" /\ Call(remote, IF Verified(remote[target].final) THEN "done" ELSE "fail")
  /\ UNCHANGED <<row, pausing, cancelled, attempt, target, next, active, broken>>

\* execute() returned; `if Task.isCancelled { throw CancellationError() }`.
Returned ==
  /\ pc = "done"
  /\ IF cancelled
     THEN pc' = "fail" /\ UNCHANGED <<row, cancelled, attempt, target, next, active, broken>>
     ELSE Gone /\ row' = "completed"
  /\ UNCHANGED <<pausing, link, remote>>

\* The two catch blocks of perform().
Endless(a) == a                                                 \* mutant of Counted
Counted(a) == a + 1

\* `guard attempt < 2 else { throw error }`
OneMore(a)  == a > MaxAttempt                                   \* mutant of UsedUp
UsedUp(a)   == a >= MaxAttempt

Caught ==
  /\ pc = "fail"
  /\ IF cancelled \/ UsedUp(attempt)
     THEN /\ Gone
          /\ row' = IF pausing THEN "paused" ELSE IF cancelled THEN "cancelled" ELSE "failed"
     ELSE /\ pc' = "nap" /\ attempt' = Counted(attempt)
          /\ UNCHANGED <<row, cancelled, target, next, active, broken>>
  /\ UNCHANGED <<pausing, link, remote>>

\* `try await Task.sleep` throws when the task is cancelled.
Nap ==
  /\ pc = "nap" /\ pc' = IF cancelled THEN "fail" ELSE "size"
  /\ UNCHANGED <<row, pausing, cancelled, attempt, target, next, active, broken, link, remote>>

-----------------------------------------------------------------------------
(* The user, the network and iOS.                                            *)

Pause ==
  /\ ~pausing /\ pausing' = TRUE
  /\ cancelled' = (pc # "idle")
  /\ UNCHANGED <<row, pc, attempt, target, next, active, broken, link, remote>>

Resume ==
  /\ pausing /\ pausing' = FALSE
  /\ UNCHANGED <<row, perform, link, remote>>

Cancel ==
  /\ pc # "idle" \/ row \in {"queued", "paused"}
  /\ row' = "cancelled" /\ cancelled' = (pc # "idle")
  /\ UNCHANGED <<pausing, pc, attempt, target, next, active, broken, link, remote>>

Retry ==
  /\ pc = "idle" /\ row = "failed" /\ row' = "queued"
  /\ UNCHANGED <<pausing, perform, link, remote>>

\* The session ends: of the outstanding writes the server has carried out any.
LinkLost ==
  /\ link /\ link' = FALSE
  /\ \E S \in SUBSET active : remote' = PartWith(S)
  /\ active' = {} /\ broken' = (broken \/ active # {})
  /\ UNCHANGED <<row, pausing, cancelled, pc, attempt, target, next>>

\* disconnect() and connect(), with no perform() alive (TransferQueue has the other case).
Reconnect ==
  /\ ~link /\ pc = "idle" /\ link' = TRUE
  /\ UNCHANGED <<row, pausing, perform, remote>>

\* The app is killed and started again: restorePersistedUploads().
Crash ==
  /\ \E S \in SUBSET active : remote' = PartWith(S)
  /\ row' = IF row \in {"cancelled", "completed"} THEN row ELSE "queued"
  /\ Gone /\ pausing' = FALSE /\ link' = FALSE

-----------------------------------------------------------------------------
Steps ==
  \/ Begin \/ CheckConflict \/ ReadPartSize \/ WriteMetadata \/ OpenPart
  \/ \E k \in active : WriteDone(k) \/ WriteShort(k) \/ WriteRefused(k)
  \/ WriteEnds \/ SyncPart \/ Withdraw \/ Publish \/ RemoveMetadata \/ VerifySize
  \/ Returned \/ Caught \/ Nap
Answers == Overwrite \/ RenameUpload \/ Skip
World   == Pause \/ Resume \/ Cancel \/ Retry \/ LinkLost \/ Reconnect \/ Crash

Next == Steps \/ Answers \/ World
Spec == Init /\ [][Next]_vars

\* Every SMB call returns: libsmb2 and AMSMB2 give each one a timeout.
FairSpec == Spec /\ WF_vars(Steps)

-----------------------------------------------------------------------------
(* The refinement: what a reader of the final names sees, by its contents.    *)

\* A part of full size without all its bytes is "holed", one that misses a chunk the app
\* counted is "short"; a part of less than full size is nothing to a reader yet.
Content(f) == IF Whole(f) THEN "whole" ELSE IF Cut(f) THEN "short"
              ELSE IF Full(f) THEN "holed" ELSE "torn"

Seen(f) == IF f = NoFile THEN "none" ELSE IF f = Old THEN "prior" ELSE Content(f)

\* The attempt is past its write loop and goes on to publish what it wrote.
Written(t) == t = target /\ pc \in {"sync", "withdraw", "rename"}

Ready(t) == LET part == remote[t].part IN
  IF Whole(part) THEN "whole"
  ELSE IF Full(part) /\ ~(t = target /\ pc = "write") THEN Content(part)
  ELSE IF Written(t) /\ Cut(part) THEN "short" ELSE "none"

Delivery == INSTANCE AtomicDelivery WITH
  names <- [t \in Targets |-> Seen(remote[t].final)],
  ready <- [t \in Targets |-> Ready(t)],
  sending <- IF pc \in {"write", "sync"} THEN {target} ELSE {},
  done <- (row = "completed")

\* The upload of a file, retried, paused, cut off or killed, changes a final name only by
\* taking the old file away when its replacement is ready and by putting that in its place, and
\* the replacement holds every byte of the source unless a write of it was answered short, or
\* an attempt that broke off left the part at full size, which a later attempt takes for done.
Delivers == Delivery!Spec

(* Properties                                                                *)

Remotes == [Targets -> [final : Files \cup {NoFile}, part : Files \cup {NoFile},
                        meta : BOOLEAN]]
TypeOK ==
  /\ row \in Rows /\ pausing \in BOOLEAN /\ cancelled \in BOOLEAN /\ pc \in PCs
  /\ attempt \in 0..MaxAttempt /\ target \in Targets /\ next \in 1..(N + 1)
  /\ active \subseteq 1..N /\ broken \in BOOLEAN /\ link \in BOOLEAN
  /\ remote \in Remotes

\* A part file is never there without its manifest, which the Windows monitor reads; and since
\* the manifest is created exclusively, no attempt ever opens a part that already holds bytes:
\* the resume offset of execute() is never put to use, an attempt writes everything or nothing.
NeverAppends ==
  /\ \A t \in Targets : remote[t].part # NoFile => remote[t].meta
  /\ pc = "open" => next = 1 /\ remote[target].part = NoFile

\* A write loop that ends without an error has put every byte of the source into the part,
\* whatever the order in which the server carried out the requests in the window, unless a
\* write was answered short.
WrittenWhole == pc = "sync" => LET part == remote[target].part IN Whole(part) \/ Cut(part)

HasFull(t) == Full(remote[t].final) \/ Full(remote[t].part)

\* remove-then-rename is not atomic, but whatever fails in between, a name that had a file of
\* full size, the old one or a new one, still has one in the folder; a replacement that is too
\* small because a write was answered short is noticed only once the old file is gone.
KeepsAFile == [][\A t \in Targets : HasFull(t) => HasFull(t)' \/ Cut(remote[t].part)]_vars

\* A perform() comes to an end, or to the conflict prompt.
AttemptsEnd == pc \notin {"idle", "conflict"} ~> pc \in {"idle", "conflict"}
=============================================================================
