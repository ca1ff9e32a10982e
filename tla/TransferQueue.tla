--------------------------- MODULE TransferQueue ---------------------------
(***************************************************************************)
(* The transfer queue of the iOS app: class AppModel of                     *)
(* ios/KinoDrop/AppModel.swift.  AppModel is @MainActor, so the code between *)
(* two awaits is atomic; every await is a point where the user, iOS or      *)
(* another suspended handler may run.  One action below is one such piece.  *)
(*                                                                         *)
(* A "task" is a Swift Task running perform(job).  Several can be live at   *)
(* once, because disconnect() and cancelAllQueued() drop the handle         *)
(* activeTask without the task having ended.  Tasks is the pool of task     *)
(* identities; its size bounds how many are live (a start waits for a free  *)
(* one), and nothing else is bounded.                                       *)
(***************************************************************************)
EXTENDS Naturals, FiniteSets, Sequences, SequencesExt

CONSTANTS
  Jobs,        \* transfers the user may create, each created once (a fresh UUID)
  Uploads,     \* those that are uploads; the others are downloads
  Photos,      \* uploads of a private copy that the queue must delete (cleanup: true)
  Tasks,       \* identities of live Task { perform(job) }
  NoJob, NoTask,
  MaxAttempt,  \* retries of execute() inside one perform; 2 in the code
  Inputs       \* which kinds of user and system events occur

AllInputs == {"cancel", "cancelAll", "clear", "pause", "background", "retry",
              "disconnect", "crash"}

ASSUME QueueAssumption ==
  /\ IsFiniteSet(Jobs)
  /\ Uploads \subseteq Jobs /\ Photos \subseteq Uploads
  /\ NoJob \notin Jobs /\ NoTask \notin Tasks
  /\ MaxAttempt \in Nat
  /\ Inputs \subseteq AllInputs

VARIABLES
  state,          \* TransferItem.State of each row, or one of NoRow
  local,          \* the local file behind each transfer, see LocalStates
  pending,        \* pendingJobs
  activeTask,     \* activeTask
  activeID,       \* activeTransferID
  perf,           \* the live performs: program counter, job, Task.isCancelled, attempt
  joins,          \* cancel() / cancelAllQueued() suspended at `await task?.value`
  waiter,         \* the perform whose conflictContinuation is stored
  pauseRequested, isQueuePaused, inBackground,
  bgTask,         \* the background task: none, armed, or its expiry hop is queued
  connection,     \* connectionState
  suspended,      \* connect() inside refreshFiles(), disconnect() inside smb.disconnect()
  persisted       \* transfers recorded in UserDefaults

queue == <<pending, activeTask, activeID, perf>>
rows  == <<state, local>>
modes == <<pauseRequested, isQueuePaused, inBackground, bgTask>>
link  == <<connection, suspended>>
vars  == <<rows, queue, joins, waiter, modes, link, persisted>>

RowStates   == {"queued", "paused", "transferring", "completed", "failed", "cancelled"}
\* No row yet, a photo still being loaded by importPhotos(), a row that was removed.
NoRow       == {"new", "picked", "gone"}
OwedStates  == {"queued", "paused", "transferring", "failed"}

(***************************************************************************)
(* local[i] of an upload: "owned" while cleanupURLs or scopedURLs has an     *)
(* entry for it, "loose" when the file is readable but has no entry (after a *)
(* restart), "none" when it was deleted or its access was given up.  Of a    *)
(* download: "partial", "final", or "none".                                 *)
(***************************************************************************)
LocalStates == {"none", "owned", "loose", "partial", "final"}

PCs  == {"idle", "check", "conflict", "go", "skip", "run", "copy", "nap", "end"}
Idle == [pc |-> "idle", job |-> NoJob, cancelled |-> FALSE, attempt |-> 0]
Started(i) == [pc |-> "check", job |-> i, cancelled |-> FALSE, attempt |-> 0]

-----------------------------------------------------------------------------
(* The private helpers of AppModel.                                          *)

HasJob(i) == state[i] \in RowStates

\* updateTransfer: a row that is gone is left alone.
SetState(S, s) == [i \in Jobs |-> IF i \in S /\ HasJob(i) THEN s ELSE state[i]]

CleanupUpload(l, S) ==
  [i \in Jobs |-> IF i \in S \cap Uploads /\ l[i] = "owned" THEN "none" ELSE l[i]]

\* The paths come from jobs[id]; without a job nothing is deleted.
CleanupDownload(l, S) ==
  [i \in Jobs |-> IF i \in S \ Uploads /\ HasJob(i) THEN "none" ELSE l[i]]

Cleanup(S) == CleanupDownload(CleanupUpload(local, S), S)

\* activeTask?.cancel()
CancelTask == [t \in Tasks |-> IF t = activeTask THEN [perf[t] EXCEPT !.cancelled = TRUE]
                                                 ELSE perf[t]]

FreeTasks(ps) == {t \in Tasks : ps[t].pc = "idle" /\ \A j \in joins : j.task # t}

(***************************************************************************)
(* startNextTransfer() after a handler that leaves the queue q, the handle   *)
(* (act, id) and the performs ps.  It reads the flags the handler has just   *)
(* assigned, hence their primes.                                             *)
(***************************************************************************)
Behind(q)    == q                                               \* mutant of AfterHead
AfterHead(q) == Tail(q)

AnyNumber(act)  == TRUE                                         \* mutant of NoneActive
NoneActive(act) == act = NoTask

StartNext(q, act, id, ps) ==
  IF /\ NoneActive(act) /\ ~pauseRequested' /\ ~inBackground' /\ connection' = "connected"
     /\ q # <<>> /\ state'[Head(q)] \in RowStates
  THEN \E t \in FreeTasks(ps) :
         /\ pending' = AfterHead(q)
         /\ activeTask' = t
         /\ activeID' = Head(q)
         /\ perf' = [ps EXCEPT ![t] = Started(Head(q))]
  ELSE /\ pending' = q /\ activeTask' = act /\ activeID' = id /\ perf' = ps

(***************************************************************************)
(* persistQueue().  The code calls it just before startNextTransfer(), which *)
(* only moves an id from pendingJobs to activeTransferID, so the record can  *)
(* be computed from the state after both.  An upload whose source is gone    *)
(* has no bookmark and is left out.                                          *)
(***************************************************************************)
PersistsPendingOnly(i) == i \in Range(pending')                \* mutant of PersistIds
PersistIds(i) == i \in Range(pending') \/ i = activeID' \/ state'[i] = "failed"

PersistQueue ==
  persisted' = {i \in Jobs :
                  /\ PersistIds(i)
                  /\ state'[i] \in OwedStates
                  /\ i \in Uploads => local'[i] # "none"}

Init ==
  /\ state = [i \in Jobs |-> "new"]
  /\ local = [i \in Jobs |-> "none"]
  /\ pending = <<>> /\ activeTask = NoTask /\ activeID = NoJob
  /\ perf = [t \in Tasks |-> Idle]
  /\ joins = {} /\ waiter = NoTask
  /\ pauseRequested = FALSE /\ isQueuePaused = FALSE /\ inBackground = FALSE
  /\ bgTask = "none"
  /\ connection = "disconnected" /\ suspended = {}
  /\ persisted = {}

-----------------------------------------------------------------------------
(* User commands.  HomeView is on screen only while connected, and the       *)
(* conflict dialog is modal over it.                                         *)

UIEnabled == connection = "connected" /\ ~inBackground /\ waiter = NoTask

\* The photo picker hands importPhotos() an item, which it loads asynchronously.
PickPhoto(i) ==
  /\ i \in Photos /\ state[i] = "new" /\ UIEnabled
  /\ state' = [state EXCEPT ![i] = "picked"]
  /\ UNCHANGED <<local, queue, joins, waiter, modes, link, persisted>>

\* A loaded photo is enqueued wherever the user is by then; picked files at once.
EnqueueUpload(i) ==
  /\ i \in Uploads
  /\ IF i \in Photos THEN state[i] = "picked" ELSE state[i] = "new" /\ UIEnabled
  /\ UNCHANGED <<joins, waiter, modes, link>>
  /\ state' = [state EXCEPT ![i] = "queued"]
  /\ local' = [local EXCEPT ![i] = "owned"]
  /\ StartNext(Append(pending, i), activeTask, activeID, perf)
  /\ PersistQueue

Download(i) ==
  /\ i \notin Uploads /\ state[i] = "new" /\ UIEnabled
  /\ UNCHANGED <<joins, waiter, modes, link, local>>
  /\ state' = [state EXCEPT ![i] = "queued"]
  /\ StartNext(Append(pending, i), activeTask, activeID, perf)
  /\ PersistQueue

\* The Cancel button is on transferring rows only; its Task runs after continuations that
\* were ready before the tap, so the row may by then have reached the end of its perform.
CancelOffered(i) ==
  /\ "cancel" \in Inputs /\ UIEnabled
  /\ \/ state[i] = "transferring"
     \/ /\ state[i] \in {"paused", "completed", "failed", "cancelled"}
        /\ \E t \in Tasks : perf[t].job = i /\ perf[t].pc = "end"

CancelActive(i) ==
  /\ CancelOffered(i) /\ activeID = i
  /\ state' = SetState({i}, "cancelled")
  /\ perf' = CancelTask
  /\ joins' = joins \cup {[kind |-> "cancel", task |-> activeTask, job |-> i]}
  /\ UNCHANGED <<local, pending, activeTask, activeID, waiter, modes, link, persisted>>

\* A waiting (or paused) row; firstIndex(of:) then remove(at:) on pendingJobs.
CancelWaiting(i) ==
  /\ CancelOffered(i) /\ activeID # i
  /\ \/ \E k \in 1..Len(pending) :
          /\ pending[k] = i /\ \A m \in 1..(k - 1) : pending[m] # i
          /\ pending' = RemoveAt(pending, k)
     \/ i \notin Range(pending) /\ state[i] = "paused" /\ pending' = pending
  /\ state' = SetState({i}, "cancelled")
  /\ local' = Cleanup({i})
  /\ UNCHANGED <<activeTask, activeID, perf, joins, waiter, modes, link>>
  /\ PersistQueue

\* cancel() resumes: its perform has ended.
CancelResumes(j) ==
  /\ j.kind = "cancel" /\ perf[j.task].pc = "idle"
  /\ joins' = joins \ {j}
  /\ local' = Cleanup({j.job})
  /\ UNCHANGED <<state, queue, waiter, modes, link>>
  /\ PersistQueue

CancelAllIdle ==
  /\ "cancelAll" \in Inputs /\ UIEnabled /\ activeID = NoJob
  /\ state' = SetState(Range(pending), "cancelled")
  /\ local' = Cleanup(Range(pending))
  /\ pending' = <<>>
  /\ UNCHANGED <<activeTask, activeID, perf, joins, waiter, modes, link>>
  /\ PersistQueue

CancelAllActive ==
  /\ "cancelAll" \in Inputs /\ UIEnabled /\ activeID # NoJob
  /\ state' = SetState({activeID}, "cancelled")
  /\ perf' = CancelTask
  /\ joins' = joins \cup {[kind |-> "cancelAll", task |-> activeTask, job |-> activeID]}
  /\ UNCHANGED <<local, pending, activeTask, activeID, waiter, modes, link, persisted>>

\* cancelAllQueued() resumes: the handle it drops may by now be another transfer's.
CancelAllResumes(j) ==
  /\ j.kind = "cancelAll" /\ perf[j.task].pc = "idle"
  /\ joins' = joins \ {j}
  /\ state' = SetState(Range(pending), "cancelled")
  /\ local' = Cleanup({j.job} \cup Range(pending))
  /\ pending' = <<>> /\ activeID' = NoJob /\ activeTask' = NoTask
  /\ UNCHANGED <<perf, waiter, modes, link>>
  /\ PersistQueue

ResumesNothing == UNCHANGED queue                              \* mutant of ResumeQueue
ResumeQueue == StartNext(pending, activeTask, activeID, perf)

TogglePause ==
  /\ "pause" \in Inputs /\ UIEnabled
  /\ isQueuePaused' = ~isQueuePaused
  /\ pauseRequested' = isQueuePaused'
  /\ UNCHANGED <<rows, joins, waiter, inBackground, bgTask, link>>
  /\ IF isQueuePaused'
     THEN perf' = CancelTask /\ UNCHANGED <<pending, activeTask, activeID>>
     ELSE ResumeQueue
  /\ PersistQueue

AnyRow(i)      == HasJob(i)                                    \* mutant of IsRetryable
IsRetryable(i) == state[i] = "failed"

Retry(i) ==
  /\ "retry" \in Inputs /\ UIEnabled /\ IsRetryable(i)
  /\ UNCHANGED <<local, joins, waiter, modes, link>>
  /\ state' = SetState({i}, "queued")
  /\ StartNext(Append(pending, i), activeTask, activeID, perf)
  /\ PersistQueue

\* The rows keep their order of creation, which is not modelled: any order.
RetryAllFailed ==
  LET failed == {i \in Jobs : state[i] = "failed" /\ i \notin Range(pending)} IN
  /\ "retry" \in Inputs /\ UIEnabled /\ failed # {}
  /\ UNCHANGED <<local, joins, waiter, modes, link>>
  /\ state' = SetState(failed, "queued")
  /\ \E q \in SetToSeqs(failed) : StartNext(pending \o q, activeTask, activeID, perf)
  /\ PersistQueue

ClearFinished ==
  LET removable == {i \in Jobs : state[i] \in {"completed", "cancelled"}} IN
  /\ "clear" \in Inputs /\ UIEnabled /\ removable # {}
  /\ state' = [i \in Jobs |-> IF i \in removable THEN "gone" ELSE state[i]]
  /\ local' = CleanupUpload(local, removable)
  /\ UNCHANGED <<queue, joins, waiter, modes, link>>
  /\ PersistQueue

\* Deletes the private copies and partial files that no job names.
ClearOrphaned ==
  LET orphans == {i \in Photos \cup (Jobs \ Uploads) :
                    ~HasJob(i) /\ local[i] \in {"owned", "loose", "partial"}} IN
  /\ "clear" \in Inputs /\ UIEnabled /\ orphans # {}
  /\ local' = [i \in Jobs |-> IF i \in orphans THEN "none" ELSE local[i]]
  /\ UNCHANGED <<state, queue, joins, waiter, modes, link, persisted>>

-----------------------------------------------------------------------------
(* perform(job), from one await to the next.                                 *)

At(t, pc) == perf[t].pc = pc
Goto(t, pc) == perf' = [perf EXCEPT ![t].pc = pc]
elsewhere == <<joins, waiter, modes, link, persisted>>

\* The destination name exists: waitForConflict() stores its continuation over any other.
FindConflict(t) ==
  /\ At(t, "check") /\ perf[t].job \in Uploads
  /\ Goto(t, "conflict")
  /\ waiter' = t
  /\ UNCHANGED <<rows, pending, activeTask, activeID, joins, modes, link, persisted>>

\* The dialog belongs to HomeView.
ResolveConflict(choice) ==
  /\ waiter # NoTask /\ connection = "connected" /\ ~inBackground
  /\ Goto(waiter, IF choice = "skip" THEN "skip" ELSE "go")
  /\ waiter' = NoTask
  /\ UNCHANGED <<rows, pending, activeTask, activeID, joins, modes, link, persisted>>

EndedInName(t) == [perf EXCEPT ![t].pc = "idle"]               \* mutant of Ended
Ended(t) == [perf EXCEPT ![t] = Idle]

\* mutant of SkipTransfer: nothing is started after it
SkipAndRest(t) ==
  /\ At(t, "skip")
  /\ UNCHANGED <<joins, waiter, modes, link, pending>>
  /\ state' = SetState({perf[t].job}, "cancelled")
  /\ local' = CleanupUpload(local, {perf[t].job})
  /\ activeTask' = NoTask /\ activeID' = NoJob /\ perf' = Ended(t)
  /\ PersistQueue

SkipTransfer(t) ==
  /\ At(t, "skip")
  /\ UNCHANGED <<joins, waiter, modes, link>>
  /\ state' = SetState({perf[t].job}, "cancelled")
  /\ local' = CleanupUpload(local, {perf[t].job})
  /\ StartNext(pending, NoTask, NoJob, Ended(t))
  /\ PersistQueue

Begin(t) ==
  /\ At(t, "check") \/ At(t, "go")
  /\ Goto(t, "run")
  /\ state' = SetState({perf[t].job}, "transferring")
  /\ UNCHANGED <<local, pending, activeTask, activeID, elsewhere>>

\* execute() of a download opens its partial file, once in each attempt.
OpenPartial(t) ==
  /\ At(t, "run") /\ perf[t].job \notin Uploads
  /\ Goto(t, "copy")
  /\ local' = [local EXCEPT ![perf[t].job] = "partial"]
  /\ UNCHANGED <<state, pending, activeTask, activeID, elsewhere>>

InAttempt(t) == perf[t].pc \in {"run", "copy"}
Executing(t) == perf[t].pc \in {"run", "copy", "nap"}

\* execute() returned (a download only with its whole file) and the task was not cancelled.
Unchecked(t)    == TRUE                                        \* mutant of NotCancelled
NotCancelled(t) == ~perf[t].cancelled

Complete(t) ==
  LET i == perf[t].job IN
  /\ NotCancelled(t)
  /\ IF i \in Uploads THEN At(t, "run") ELSE At(t, "copy") /\ local[i] = "partial"
  /\ Goto(t, "end")
  /\ state' = SetState({i}, "completed")
  /\ local' = IF i \in Uploads THEN CleanupUpload(local, {i})
                               ELSE [local EXCEPT ![i] = "final"]
  /\ UNCHANGED <<pending, activeTask, activeID, elsewhere>>

BackOff(t) ==
  /\ InAttempt(t) /\ ~perf[t].cancelled /\ perf[t].attempt < MaxAttempt
  /\ perf' = [perf EXCEPT ![t] = [@ EXCEPT !.pc = "nap", !.attempt = perf[t].attempt + 1]]
  /\ UNCHANGED <<rows, pending, activeTask, activeID, elsewhere>>

TryAgain(t) ==
  /\ At(t, "nap") /\ ~perf[t].cancelled
  /\ Goto(t, "run")
  /\ UNCHANGED <<rows, pending, activeTask, activeID, elsewhere>>

Dropped(i)  == pending                                         \* mutant of Reinsert
Reinsert(i) == <<i>> \o pending

AllReleased(i)  == Cleanup({i})                                \* mutant of AfterFailure
AfterFailure(i) == CleanupDownload(local, {i})

\* The outer catch.  pauseRequested is read now, not when the task was cancelled.
GiveUp(t) ==
  LET i == perf[t].job
      outcome == IF pauseRequested THEN "paused"
                 ELSE IF perf[t].cancelled THEN "cancelled" ELSE "failed" IN
  /\ \/ InAttempt(t) /\ (perf[t].cancelled \/ perf[t].attempt >= MaxAttempt)
     \/ At(t, "nap") /\ perf[t].cancelled
  /\ Goto(t, "end")
  /\ state' = SetState({i}, outcome)
  /\ pending' = IF outcome = "paused" THEN Reinsert(i) ELSE pending
  /\ local' = CASE outcome = "paused"    -> local
                [] outcome = "cancelled" -> Cleanup({i})
                [] OTHER                 -> AfterFailure(i)
  /\ UNCHANGED <<activeTask, activeID, elsewhere>>

\* After endLiveActivity(): the handle is dropped, whosever it is by now.
\* mutant of EndPerform: the handle outlives the task
EndKeepsHandle(t) ==
  /\ At(t, "end")
  /\ UNCHANGED <<rows, joins, waiter, modes, link>>
  /\ StartNext(pending, activeTask, activeID, Ended(t))
  /\ PersistQueue

EndPerform(t) ==
  /\ At(t, "end")
  /\ UNCHANGED <<rows, joins, waiter, modes, link>>
  /\ StartNext(pending, NoTask, NoJob, Ended(t))
  /\ PersistQueue

-----------------------------------------------------------------------------
(* The connection and iOS.                                                   *)

Connect ==
  /\ connection \in {"disconnected", "failed"} /\ ~inBackground
  /\ connection' = "connecting"
  /\ UNCHANGED <<rows, queue, joins, waiter, modes, suspended, persisted>>

Connected ==
  /\ connection = "connecting"
  /\ connection' = "connected" /\ suspended' = suspended \cup {"refresh"}
  /\ UNCHANGED <<rows, queue, joins, waiter, modes, persisted>>

ConnectFails ==
  /\ connection = "connecting"
  /\ connection' = "failed"
  /\ UNCHANGED <<rows, queue, joins, waiter, modes, suspended, persisted>>

\* refreshFiles() returned inside connect().
Refreshed ==
  /\ "refresh" \in suspended
  /\ suspended' = suspended \ {"refresh"}
  /\ UNCHANGED <<rows, joins, waiter, modes, connection, persisted>>
  /\ StartNext(pending, activeTask, activeID, perf)

Disconnect ==
  LET dropped == Range(pending) \cup {activeID} IN
  /\ "disconnect" \in Inputs /\ UIEnabled
  /\ pauseRequested' = FALSE
  /\ state' = SetState(dropped, "cancelled")
  /\ local' = Cleanup(dropped)
  /\ perf' = CancelTask
  /\ activeTask' = NoTask /\ activeID' = NoJob /\ pending' = <<>>
  /\ suspended' = suspended \cup {"hangup"}
  /\ UNCHANGED <<joins, waiter, isQueuePaused, inBackground, bgTask, connection, persisted>>

\* mutant of Disconnected: the emptied queue is not saved
DisconnectedUnsaved ==
  /\ "hangup" \in suspended
  /\ suspended' = suspended \ {"hangup"}
  /\ connection' = "disconnected"
  /\ UNCHANGED <<rows, queue, joins, waiter, modes, persisted>>

Disconnected ==
  /\ "hangup" \in suspended
  /\ suspended' = suspended \ {"hangup"}
  /\ connection' = "disconnected"
  /\ UNCHANGED <<rows, queue, joins, waiter, modes>>
  /\ PersistQueue

EnterBackground ==
  /\ "background" \in Inputs /\ ~inBackground
  /\ inBackground' = TRUE
  /\ bgTask' = IF bgTask = "none" THEN "armed" ELSE bgTask
  /\ UNCHANGED <<rows, queue, joins, waiter, pauseRequested, isQueuePaused, link, persisted>>

\* The expiration handler only queues a Task for backgroundTaskExpired().
BackgroundTimeOver ==
  /\ inBackground /\ bgTask = "armed"
  /\ bgTask' = "fired"
  /\ UNCHANGED <<rows, queue, joins, waiter, pauseRequested, isQueuePaused, inBackground,
                 link, persisted>>

BackgroundTaskExpired ==
  /\ bgTask = "fired"
  /\ bgTask' = "none"
  /\ pauseRequested' = TRUE
  /\ perf' = CancelTask
  /\ UNCHANGED <<rows, pending, activeTask, activeID, joins, waiter, isQueuePaused,
                 inBackground, link, persisted>>

Unpaused      == FALSE                                         \* mutant of PauseOnActive
PauseOnActive == isQueuePaused

BecomeActive ==
  /\ "background" \in Inputs
  /\ inBackground' = FALSE
  /\ pauseRequested' = PauseOnActive
  /\ bgTask' = IF bgTask = "armed" THEN "none" ELSE bgTask
  /\ UNCHANGED <<rows, joins, waiter, isQueuePaused, link, persisted>>
  /\ StartNext(pending, activeTask, activeID, perf)

\* restorePersistedUploads() and restorePersistedDownloads() find the files again.
Restorable == {i \in persisted : IF i \in Uploads THEN local[i] # "none"
                                                  ELSE local[i] = "partial"}

\* The process dies; a new one restores what was recorded, under a new row for the same file.
Crash ==
  /\ "crash" \in Inputs
  /\ state' = [i \in Jobs |-> IF i \in Restorable                 THEN "queued"
                              ELSE IF state[i] \in {"new", "picked"} THEN "new"
                              ELSE "gone"]
  /\ local' = [i \in Jobs |-> IF local[i] # "owned"      THEN local[i]
                              ELSE IF i \in Photos       THEN "loose"
                              ELSE IF i \in Restorable   THEN "owned" ELSE "none"]
  /\ \E q \in SetToSeqs(Restorable) : pending' = q
  /\ activeTask' = NoTask /\ activeID' = NoJob /\ perf' = [t \in Tasks |-> Idle]
  /\ joins' = {} /\ waiter' = NoTask
  /\ pauseRequested' = FALSE /\ isQueuePaused' = FALSE /\ inBackground' = FALSE
  /\ bgTask' = "none" /\ connection' = "disconnected" /\ suspended' = {}
  /\ persisted' = {i \in persisted : i \in Uploads => i \in Restorable}

-----------------------------------------------------------------------------
User ==
  \/ \E i \in Jobs : \/ PickPhoto(i) \/ EnqueueUpload(i) \/ Download(i) \/ Retry(i)
                     \/ CancelActive(i) \/ CancelWaiting(i)
  \/ CancelAllIdle \/ CancelAllActive
  \/ TogglePause \/ RetryAllFailed \/ ClearFinished \/ ClearOrphaned \/ Disconnect

Perform(t) ==
  \/ FindConflict(t) \/ SkipTransfer(t) \/ Begin(t) \/ OpenPartial(t) \/ Complete(t)
  \/ BackOff(t) \/ TryAgain(t) \/ GiveUp(t) \/ EndPerform(t)

Resume == \E j \in joins : CancelResumes(j) \/ CancelAllResumes(j)

Choose == \E choice \in {"overwrite", "rename", "skip"} : ResolveConflict(choice)

System ==
  \/ Connect \/ Connected \/ ConnectFails \/ Refreshed \/ Disconnected
  \/ EnterBackground \/ BackgroundTimeOver \/ BackgroundTaskExpired \/ BecomeActive
  \/ Crash

Next == User \/ (\E t \in Tasks : Perform(t)) \/ Resume \/ Choose \/ System

Spec == Init /\ [][Next]_vars

(***************************************************************************)
(* Fairness.  The main actor runs every continuation that is ready, SMB      *)
(* calls end (AMSMB2 has a timeout) and Task.sleep wakes up; Complete and    *)
(* GiveUp are the two ways execute() ends.  The conflict dialog is modal, so *)
(* it is answered.  Nothing is assumed of any other user or system event.    *)
(***************************************************************************)
Fairness ==
  /\ \A t \in Tasks : WF_vars(Perform(t))
  /\ WF_vars(Resume) /\ WF_vars(Choose) /\ WF_vars(Refreshed) /\ WF_vars(Disconnected)
  /\ WF_vars(BackgroundTaskExpired)

FairSpec == Spec /\ Fairness
-----------------------------------------------------------------------------
(* Properties.                                                               *)

Joins == [kind : {"cancel", "cancelAll"}, task : Tasks, job : Jobs]

\* Types of the variables; an idle task has no job and a live one has.
TypeOK ==
  /\ state \in [Jobs -> RowStates \cup NoRow]
  /\ local \in [Jobs -> LocalStates]
  /\ pending \in Seq(Jobs)
  /\ activeTask \in Tasks \cup {NoTask} /\ activeID \in Jobs \cup {NoJob}
  /\ perf \in [Tasks -> [pc : PCs, job : Jobs \cup {NoJob}, cancelled : BOOLEAN,
                         attempt : 0..MaxAttempt]]
  /\ \A t \in Tasks : perf[t].pc = "idle" <=> perf[t].job = NoJob
  /\ joins \subseteq Joins
  /\ waiter \in Tasks \cup {NoTask}
  /\ {pauseRequested, isQueuePaused, inBackground} \subseteq BOOLEAN
  /\ bgTask \in {"none", "armed", "fired"}
  /\ connection \in {"disconnected", "connecting", "connected", "failed"}
  /\ suspended \subseteq {"refresh", "hangup"}
  /\ persisted \subseteq Jobs

\* The handle and the id agree, and the handle never names a perform that has ended: an
\* epilogue that forgot it would leave startNextTransfer() waiting for a dead task for ever,
\* even though disconnect() and cancelAllQueued() take the handle away from live performs.
HandleLive ==
  /\ activeTask = NoTask <=> activeID = NoJob
  /\ activeTask # NoTask => /\ perf[activeTask].pc # "idle"
                            /\ perf[activeTask].job = activeID

\* Performs that have not yet decided the outcome of their transfer.
Deciding == {t \in Tasks : perf[t].pc \notin {"idle", "end"}}

\* Every transfer that still has to be done is in pendingJobs or in the hands of a perform,
\* whatever is paused, cancelled, retried or disconnected meanwhile: no row waits for ever.
RowOwned ==
  \A i \in Jobs : state[i] \in {"queued", "paused", "transferring"} =>
     i \in Range(pending) \/ \E t \in Deciding : perf[t].job = i

\* A transfer is in the queue at most once and never both queued and running, nor run by two
\* performs: they would write the same .part file.  It holds even when two performs are live.
SingleOwner ==
  /\ IsInjective(pending)
  /\ \A t \in Deciding : perf[t].job \notin Range(pending)
  /\ \A t, u \in Deciding : perf[t].job = perf[u].job => t = u
  /\ \A i \in Jobs : state[i] \in {"new", "picked", "failed", "completed"} =>
       i \notin Range(pending) /\ \A t \in Deciding : perf[t].job # i

\* Nothing of the queue is suspended.
AtRest == (\A t \in Tasks : perf[t].pc = "idle") /\ joins = {} /\ "hangup" \notin suspended

\* At rest UserDefaults holds every transfer still owed whose source is there, and no upload
\* that is finished: a restart loses nothing and repeats nothing.
DurableAtRest ==
  AtRest => /\ \A i \in Jobs : /\ state[i] \in OwedStates
                               /\ i \in Uploads => local[i] # "none"
                               => i \in persisted
            /\ \A i \in persisted \cap Uploads : state[i] \in OwedStates

\* "Files are sent one at a time", "1 active at a time": at most one execute() runs.
OneAtATime ==
  \A t, u \in Tasks : Executing(t) /\ Executing(u) => t = u

\* The stronger fact behind it: the live perform is the one the handle names.
Exclusive == \A t \in Tasks : perf[t].pc # "idle" => activeTask = t

\* While the Resume button is shown no transfer is started.
PauseHonoured ==
  [][\A t \in Tasks : perf'[t].pc = "check" /\ perf[t].pc # "check" => ~isQueuePaused']_vars

\* Every upload that is still owed has its source: the private copy of a photo, or the access
\* to a picked file, is given up only with the transfer itself.
SourceKept == \A i \in Uploads : state[i] \in OwedStates => local[i] # "none"

\* At every moment, so at every crash, an owed transfer whose source is there is on record.
Durable == \A i \in Jobs : state[i] \in OwedStates /\ (i \in Uploads => local[i] # "none")
                           => i \in persisted

\* A queue that may run does run: no handler that lifts a pause, returns to the foreground,
\* connects, enqueues or ends a transfer leaves work behind with nothing to start it.
WorkConserving ==
  /\ connection = "connected" /\ suspended = {}
  /\ ~pauseRequested /\ ~inBackground /\ pending # <<>>
  => activeTask # NoTask

\* A completed transfer stays completed until its row is cleared.  A crash before the queue
\* is saved does send it again (persistQueue() comes after endLiveActivity()): exempted.
CompletedStays ==
  [][\/ \A i \in Jobs : state[i] = "completed" => state'[i] \in {"completed", "gone"}
     \/ Crash]_vars

\* A cancelled transfer never comes back.
CancelSticks ==
  [][\A i \in Jobs : state[i] = "cancelled" => state'[i] \in {"cancelled", "gone"}]_vars

\* Without a cancel command only the answer Skip cancels a transfer.
OnlySkipCancels ==
  [][\A i \in Jobs : state'[i] = "cancelled" /\ state[i] # "cancelled" =>
        \E t \in Tasks : perf[t].job = i /\ perf[t].pc = "skip"]_vars

Runnable == connection = "connected" /\ ~inBackground /\ ~isQueuePaused

\* If the user stays connected, in the app and unpaused, every transfer finishes.
EveryTransferEnds ==
  <>[]Runnable => \A i \in Jobs :
     state[i] \in {"queued", "paused", "transferring"} ~>
     state[i] \in {"completed", "failed", "cancelled", "gone"}
=============================================================================
