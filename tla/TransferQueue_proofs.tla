------------------------ MODULE TransferQueue_proofs ------------------------
(***************************************************************************)
(* Proofs about TransferQueue, for every finite set of jobs, every set of    *)
(* tasks, every value of MaxAttempt and every choice of Inputs.              *)
(*                                                                         *)
(* Most handlers end with startNextTransfer().  The predicates below take    *)
(* the queue as arguments, so that a handler is reasoned about in two steps: *)
(* what it assigns, and what StartNext makes of that.                        *)
(***************************************************************************)
EXTENDS TransferQueue, SequenceRanges

-----------------------------------------------------------------------------
(* The queue's types and the handle, of any value of the four variables.     *)

Perf == [pc : PCs, job : Jobs \cup {NoJob}, cancelled : BOOLEAN, attempt : 0..MaxAttempt]

PerfOK(ps) ==
  /\ ps \in [Tasks -> Perf]
  /\ \A t \in Tasks : ps[t].pc = "idle" <=> ps[t].job = NoJob

HandleOK(act, id, ps) ==
  /\ act \in Tasks \cup {NoTask} /\ id \in Jobs \cup {NoJob}
  /\ act = NoTask <=> id = NoJob
  /\ act # NoTask => ps[act].pc # "idle" /\ ps[act].job = id

QueueOK(q, act, id, ps) == q \in Seq(Jobs) /\ PerfOK(ps) /\ HandleOK(act, id, ps)

RowsOK == state \in [Jobs -> RowStates \cup NoRow] /\ local \in [Jobs -> LocalStates]

RestOK ==
  /\ joins \subseteq Joins
  /\ {pauseRequested, isQueuePaused, inBackground} \subseteq BOOLEAN
  /\ bgTask \in {"none", "armed", "fired"}
  /\ connection \in {"disconnected", "connecting", "connected", "failed"}
  /\ suspended \subseteq {"refresh", "hangup"}
  /\ persisted \subseteq Jobs

\* The stored continuation is that of a perform which is waiting for it.
WaiterOK == waiter \in Tasks \cup {NoTask} /\ (waiter # NoTask => perf[waiter].pc = "conflict")

TypeInv == QueueOK(pending, activeTask, activeID, perf) /\ RowsOK /\ RestOK /\ WaiterOK

\* The argument-taking predicates together give the properties as the model states them.
LEMMA TypeInvImplies == TypeInv => TypeOK /\ HandleLive
BY DEF TypeInv, QueueOK, PerfOK, Perf, HandleOK, RowsOK, RestOK, WaiterOK, TypeOK, HandleLive

-----------------------------------------------------------------------------
(* What the assignments of the handlers do to these predicates.              *)

\* Starting, ending and moving a perform keep the pool of performs well formed: the field
\* job is empty exactly while no Task { perform(job) } is live.
LEMMA PerfUpdate ==
  ASSUME NEW ps, PerfOK(ps), NEW t \in Tasks
  PROVE  /\ \A i \in Jobs : PerfOK([ps EXCEPT ![t] = Started(i)])
         /\ PerfOK([ps EXCEPT ![t] = Idle])
         /\ \A c \in PCs \ {"idle"} : ps[t].pc # "idle" => PerfOK([ps EXCEPT ![t].pc = c])
<1>1. ASSUME NEW i \in Jobs PROVE PerfOK([ps EXCEPT ![t] = Started(i)])
  <2>1. Started(i) \in Perf /\ Started(i).pc # "idle" /\ Started(i).job # NoJob
    BY QueueAssumption DEF Started, Perf, PCs
  <2> QED BY <2>1 DEF PerfOK
<1>2. PerfOK([ps EXCEPT ![t] = Idle])
  <2>1. Idle \in Perf /\ Idle.pc = "idle" /\ Idle.job = NoJob
    BY QueueAssumption DEF Idle, Perf, PCs
  <2> QED BY <2>1 DEF PerfOK
<1>3. ASSUME NEW c \in PCs \ {"idle"}, ps[t].pc # "idle" PROVE PerfOK([ps EXCEPT ![t].pc = c])
  <2>1. ps[t] \in Perf  BY DEF PerfOK
  <2>2. [ps[t] EXCEPT !.pc = c] \in Perf /\ [ps[t] EXCEPT !.pc = c].pc = c
        /\ [ps[t] EXCEPT !.pc = c].job = ps[t].job
    BY <2>1 DEF Perf
  <2> QED BY <1>3, <2>2 DEF PerfOK
<1> QED BY <1>1, <1>2, <1>3

\* activeTask?.cancel() changes only Task.isCancelled.
LEMMA CancelTaskOK ==
  ASSUME PerfOK(perf)
  PROVE  /\ PerfOK(CancelTask)
         /\ \A t \in Tasks : CancelTask[t].pc = perf[t].pc /\ CancelTask[t].job = perf[t].job
<1>1. ASSUME NEW t \in Tasks
      PROVE  /\ CancelTask[t] \in Perf
             /\ CancelTask[t].pc = perf[t].pc /\ CancelTask[t].job = perf[t].job
  <2>1. perf[t] \in Perf  BY DEF PerfOK
  <2>2. [perf[t] EXCEPT !.cancelled = TRUE] \in Perf
        /\ [perf[t] EXCEPT !.cancelled = TRUE].pc = perf[t].pc
        /\ [perf[t] EXCEPT !.cancelled = TRUE].job = perf[t].job
    BY <2>1 DEF Perf
  <2> QED BY <2>1, <2>2 DEF CancelTask
<1>2. CancelTask \in [Tasks -> Perf]
  <2>1. CancelTask = [t \in Tasks |-> CancelTask[t]]  BY DEF CancelTask
  <2> QED BY <1>1, <2>1
<1> QED BY <1>1, <1>2 DEF PerfOK

\* startNextTransfer() keeps the queue well typed and the handle alive, and leaves every
\* perform that was live as it was.
LEMMA StartNextOK ==
  ASSUME NEW q, NEW act, NEW id, NEW ps,
         QueueOK(q, act, id, ps), StartNext(q, act, id, ps)
  PROVE  /\ QueueOK(pending', activeTask', activeID', perf')
         /\ \A t \in Tasks : ps[t].pc # "idle" => perf'[t] = ps[t]
<1>1. CASE pending' = q /\ activeTask' = act /\ activeID' = id /\ perf' = ps
  BY <1>1
<1>2. CASE /\ act = NoTask /\ q # <<>>
           /\ \E t \in FreeTasks(ps) :
                /\ pending' = AfterHead(q) /\ activeTask' = t /\ activeID' = Head(q)
                /\ perf' = [ps EXCEPT ![t] = Started(Head(q))]
  <2>1. PICK t \in Tasks :
          /\ ps[t].pc = "idle" /\ pending' = Tail(q) /\ activeTask' = t /\ activeID' = Head(q)
          /\ perf' = [ps EXCEPT ![t] = Started(Head(q))]
    BY <1>2 DEF FreeTasks, AfterHead
  <2>2. Head(q) \in Jobs /\ Tail(q) \in Seq(Jobs)
    BY <1>2 DEF QueueOK
  <2>3. PerfOK(perf')
    BY <2>1, <2>2, PerfUpdate DEF QueueOK
  <2>4. perf'[t] = Started(Head(q)) /\ \A u \in Tasks \ {t} : perf'[u] = ps[u]
    BY <2>1 DEF QueueOK, PerfOK
  <2>5. HandleOK(activeTask', activeID', perf')
    BY <2>1, <2>2, <2>4, QueueAssumption DEF HandleOK, Started
  <2> QED BY <2>1, <2>2, <2>3, <2>4, <2>5 DEF QueueOK
<1> QED BY <1>1, <1>2 DEF StartNext, NoneActive

\* updateTransfer() and the clean-up helpers keep the types of rows and files.
LEMMA RowUpdate ==
  ASSUME RowsOK, NEW S
  PROVE  /\ \A s \in RowStates : SetState(S, s) \in [Jobs -> RowStates \cup NoRow]
         /\ Cleanup(S) \in [Jobs -> LocalStates]
         /\ CleanupUpload(local, S) \in [Jobs -> LocalStates]
         /\ CleanupDownload(local, S) \in [Jobs -> LocalStates]
<1>1. \A l \in [Jobs -> LocalStates] : /\ CleanupUpload(l, S) \in [Jobs -> LocalStates]
                                       /\ CleanupDownload(l, S) \in [Jobs -> LocalStates]
  BY DEF CleanupUpload, CleanupDownload, LocalStates
<1> QED BY <1>1 DEF RowsOK, SetState, Cleanup

\* A fresh AppModel satisfies the invariant.
LEMMA TypeInit == Init => TypeInv
<1> SUFFICES ASSUME Init PROVE TypeInv  OBVIOUS
<1>1. PerfOK(perf)
  <2>1. Idle \in Perf /\ Idle.pc = "idle" /\ Idle.job = NoJob
    BY QueueAssumption DEF Idle, Perf, PCs
  <2> QED BY <2>1 DEF Init, PerfOK
<1>2. QueueOK(pending, activeTask, activeID, perf)
  BY <1>1 DEF Init, QueueOK, HandleOK
<1>3. RowsOK /\ RestOK /\ WaiterOK
  BY DEF Init, RowsOK, RestOK, WaiterOK, NoRow, LocalStates
<1> QED BY <1>2, <1>3 DEF TypeInv

\* A perform that goes on to another program counter keeps its job, and so the handle.
LEMMA GotoOK ==
  ASSUME QueueOK(pending, activeTask, activeID, perf),
         NEW t \in Tasks, NEW c \in PCs \ {"idle"}, perf[t].pc # "idle", Goto(t, c)
  PROVE  /\ PerfOK(perf') /\ HandleOK(activeTask, activeID, perf')
         /\ perf'[t].pc = c /\ perf'[t].job = perf[t].job
         /\ \A u \in Tasks \ {t} : perf'[u] = perf[u]
<1>1. PerfOK(perf) /\ HandleOK(activeTask, activeID, perf)
  BY DEF QueueOK
<1>2. PerfOK(perf')
  BY <1>1, PerfUpdate DEF Goto
<1>3. perf'[t].pc = c /\ perf'[t].job = perf[t].job /\ \A u \in Tasks \ {t} : perf'[u] = perf[u]
  <2>1. perf[t] \in Perf  BY <1>1 DEF PerfOK
  <2> QED BY <1>1, <2>1 DEF PerfOK, Goto
<1> QED BY <1>1, <1>2, <1>3 DEF HandleOK

\* activeTask?.cancel() keeps the handle and the stored continuation.
LEMMA CancelTaskHandle ==
  ASSUME TypeInv, perf' = CancelTask
  PROVE  /\ PerfOK(perf') /\ HandleOK(activeTask, activeID, perf')
         /\ waiter # NoTask => waiter \in Tasks /\ perf'[waiter].pc = "conflict"
BY CancelTaskOK DEF TypeInv, QueueOK, HandleOK, WaiterOK

(***************************************************************************)
(* A step keeps TypeInv.  The actions that leave the queue alone come first, *)
(* then those that only mark or move a perform, then those that end with     *)
(* startNextTransfer().                                                      *)
(***************************************************************************)
LEMMA TypeStep == TypeInv /\ [Next]_vars => TypeInv'
<1> SUFFICES ASSUME TypeInv, [Next]_vars PROVE TypeInv'  OBVIOUS
<1> USE DEF TypeInv
<1>1. ASSUME NEW i \in Jobs, PickPhoto(i) PROVE TypeInv'
  <2>1. QueueOK(pending, activeTask, activeID, perf)' /\ WaiterOK'
    BY <1>1 DEF PickPhoto, queue, WaiterOK
  <2>2. RowsOK' /\ RestOK'
    BY <1>1 DEF PickPhoto, modes, link, NoRow, RowsOK, RestOK
  <2> QED BY <2>1, <2>2
<1>2. ASSUME NEW j \in joins, CancelResumes(j) PROVE TypeInv'
  <2>1. QueueOK(pending, activeTask, activeID, perf)' /\ WaiterOK'
    BY <1>2 DEF CancelResumes, queue, WaiterOK
  <2>2. RowsOK' /\ RestOK'
    BY <1>2, RowUpdate DEF CancelResumes, modes, link, PersistQueue, RowsOK, RestOK
  <2> QED BY <2>1, <2>2
<1>3. ASSUME ClearFinished PROVE TypeInv'
  <2>1. QueueOK(pending, activeTask, activeID, perf)' /\ WaiterOK'
    BY <1>3 DEF ClearFinished, queue, WaiterOK
  <2>2. RowsOK' /\ RestOK'
    BY <1>3, RowUpdate DEF ClearFinished, modes, link, PersistQueue, NoRow, RowsOK, RestOK
  <2> QED BY <2>1, <2>2
<1>4. ASSUME ClearOrphaned PROVE TypeInv'
  <2>1. QueueOK(pending, activeTask, activeID, perf)' /\ WaiterOK'
    BY <1>4 DEF ClearOrphaned, queue, WaiterOK
  <2>2. RowsOK' /\ RestOK'
    BY <1>4 DEF ClearOrphaned, modes, link, LocalStates, RowsOK, RestOK
  <2> QED BY <2>1, <2>2
<1>5. ASSUME Connect PROVE TypeInv'
  <2>1. QueueOK(pending, activeTask, activeID, perf)' /\ WaiterOK'
    BY <1>5 DEF Connect, queue, WaiterOK
  <2>2. RowsOK' /\ RestOK'
    BY <1>5 DEF Connect, rows, modes, RowsOK, RestOK
  <2> QED BY <2>1, <2>2
<1>6. ASSUME Connected PROVE TypeInv'
  <2>1. QueueOK(pending, activeTask, activeID, perf)' /\ WaiterOK'
    BY <1>6 DEF Connected, queue, WaiterOK
  <2>2. RowsOK' /\ RestOK'
    BY <1>6 DEF Connected, rows, modes, RowsOK, RestOK
  <2> QED BY <2>1, <2>2
<1>7. ASSUME ConnectFails PROVE TypeInv'
  <2>1. QueueOK(pending, activeTask, activeID, perf)' /\ WaiterOK'
    BY <1>7 DEF ConnectFails, queue, WaiterOK
  <2>2. RowsOK' /\ RestOK'
    BY <1>7 DEF ConnectFails, rows, modes, RowsOK, RestOK
  <2> QED BY <2>1, <2>2
<1>8. ASSUME Disconnected PROVE TypeInv'
  <2>1. QueueOK(pending, activeTask, activeID, perf)' /\ WaiterOK'
    BY <1>8 DEF Disconnected, queue, WaiterOK
  <2>2. RowsOK' /\ RestOK'
    BY <1>8 DEF Disconnected, rows, modes, PersistQueue, RowsOK, RestOK
  <2> QED BY <2>1, <2>2
<1>9. ASSUME EnterBackground PROVE TypeInv'
  <2>1. QueueOK(pending, activeTask, activeID, perf)' /\ WaiterOK'
    BY <1>9 DEF EnterBackground, queue, WaiterOK
  <2>2. RowsOK' /\ RestOK'
    BY <1>9 DEF EnterBackground, rows, link, RowsOK, RestOK
  <2> QED BY <2>1, <2>2
<1>10. ASSUME BackgroundTimeOver PROVE TypeInv'
  <2>1. QueueOK(pending, activeTask, activeID, perf)' /\ WaiterOK'
    BY <1>10 DEF BackgroundTimeOver, queue, WaiterOK
  <2>2. RowsOK' /\ RestOK'
    BY <1>10 DEF BackgroundTimeOver, rows, link, RowsOK, RestOK
  <2> QED BY <2>1, <2>2
<1>11. ASSUME NEW i \in Jobs, CancelActive(i) PROVE TypeInv'
  <2>1. QueueOK(pending, activeTask, activeID, perf)' /\ WaiterOK'
    BY <1>11, CancelTaskHandle DEF CancelActive, QueueOK, WaiterOK
  <2>2. RowsOK' /\ RestOK'
    BY <1>11, RowUpdate, QueueAssumption DEF CancelActive, modes, link, Joins, RowsOK, RestOK,
      QueueOK, HandleOK, RowStates
  <2> QED BY <2>1, <2>2
<1>12. ASSUME CancelAllActive PROVE TypeInv'
  <2>1. QueueOK(pending, activeTask, activeID, perf)' /\ WaiterOK'
    BY <1>12, CancelTaskHandle DEF CancelAllActive, QueueOK, WaiterOK
  <2>2. RowsOK' /\ RestOK'
    BY <1>12, RowUpdate DEF CancelAllActive, modes, link, Joins, RowsOK, RestOK, QueueOK,
      HandleOK, RowStates
  <2> QED BY <2>1, <2>2
<1>13. ASSUME BackgroundTaskExpired PROVE TypeInv'
  <2>1. QueueOK(pending, activeTask, activeID, perf)' /\ WaiterOK'
    BY <1>13, CancelTaskHandle DEF BackgroundTaskExpired, QueueOK, WaiterOK
  <2>2. RowsOK' /\ RestOK'
    BY <1>13 DEF BackgroundTaskExpired, rows, link, RowsOK, RestOK
  <2> QED BY <2>1, <2>2
<1>14. ASSUME Disconnect PROVE TypeInv'
  <2>1. QueueOK(pending, activeTask, activeID, perf)' /\ WaiterOK'
    BY <1>14, CancelTaskHandle DEF Disconnect, QueueOK, WaiterOK, HandleOK
  <2>2. RowsOK' /\ RestOK'
    BY <1>14, RowUpdate DEF Disconnect, RowsOK, RestOK, RowStates
  <2> QED BY <2>1, <2>2
<1>15. ASSUME NEW t \in Tasks, FindConflict(t) PROVE TypeInv'
  <2>1. perf[t].pc # "idle" /\ perf[t].pc # "conflict" /\ Goto(t, "conflict")
    BY <1>15 DEF FindConflict, At, InAttempt
  <2>2. QueueOK(pending, activeTask, activeID, perf)' /\ WaiterOK'
    BY <1>15, <2>1, GotoOK DEF FindConflict, PCs, QueueOK, WaiterOK, elsewhere, queue, Reinsert
  <2>3. RowsOK' /\ RestOK'
    BY <1>15 DEF FindConflict, rows, modes, link, RowsOK, RestOK
  <2> QED BY <2>2, <2>3
<1>16. ASSUME NEW t \in Tasks, Begin(t) PROVE TypeInv'
  <2>1. perf[t].pc # "idle" /\ perf[t].pc # "conflict" /\ Goto(t, "run")
    BY <1>16 DEF Begin, At, InAttempt
  <2>2. QueueOK(pending, activeTask, activeID, perf)' /\ WaiterOK'
    BY <1>16, <2>1, GotoOK DEF Begin, PCs, QueueOK, WaiterOK, elsewhere, queue, Reinsert
  <2>3. RowsOK' /\ RestOK'
    BY <1>16, RowUpdate DEF Begin, elsewhere, modes, link, RowStates, RowsOK, RestOK
  <2> QED BY <2>2, <2>3
<1>17. ASSUME NEW t \in Tasks, OpenPartial(t) PROVE TypeInv'
  <2>1. perf[t].pc # "idle" /\ perf[t].pc # "conflict" /\ Goto(t, "copy")
    BY <1>17 DEF OpenPartial, At, InAttempt
  <2>2. QueueOK(pending, activeTask, activeID, perf)' /\ WaiterOK'
    BY <1>17, <2>1, GotoOK DEF OpenPartial, PCs, QueueOK, WaiterOK, elsewhere, queue, Reinsert
  <2>3. RowsOK' /\ RestOK'
    BY <1>17 DEF OpenPartial, elsewhere, modes, link, LocalStates, RowsOK, RestOK
  <2> QED BY <2>2, <2>3
<1>18. ASSUME NEW t \in Tasks, Complete(t) PROVE TypeInv'
  <2>1. perf[t].pc # "idle" /\ perf[t].pc # "conflict" /\ Goto(t, "end")
    BY <1>18 DEF Complete, At, InAttempt
  <2>2. QueueOK(pending, activeTask, activeID, perf)' /\ WaiterOK'
    BY <1>18, <2>1, GotoOK DEF Complete, PCs, QueueOK, WaiterOK, elsewhere, queue, Reinsert
  <2>3. RowsOK' /\ RestOK'
    BY <1>18, RowUpdate DEF Complete, elsewhere, modes, link, RowStates, LocalStates, RowsOK,
      RestOK
  <2> QED BY <2>2, <2>3
<1>19. ASSUME NEW t \in Tasks, TryAgain(t) PROVE TypeInv'
  <2>1. perf[t].pc # "idle" /\ perf[t].pc # "conflict" /\ Goto(t, "run")
    BY <1>19 DEF TryAgain, At, InAttempt
  <2>2. QueueOK(pending, activeTask, activeID, perf)' /\ WaiterOK'
    BY <1>19, <2>1, GotoOK DEF TryAgain, PCs, QueueOK, WaiterOK, elsewhere, queue, Reinsert
  <2>3. RowsOK' /\ RestOK'
    BY <1>19 DEF TryAgain, elsewhere, rows, modes, link, RowsOK, RestOK
  <2> QED BY <2>2, <2>3
<1>20. ASSUME NEW choice, ResolveConflict(choice) PROVE TypeInv'
  <2>1. waiter \in Tasks /\ perf[waiter].pc = "conflict"
    BY <1>20 DEF ResolveConflict, WaiterOK
  <2>2. PICK c \in {"skip", "go"} : Goto(waiter, c)
    BY <1>20 DEF ResolveConflict
  <2>3. QueueOK(pending, activeTask, activeID, perf)' /\ WaiterOK'
    BY <1>20, GotoOK DEF ResolveConflict, PCs, QueueOK, WaiterOK
  <2>4. RowsOK' /\ RestOK'
    BY <1>20 DEF ResolveConflict, rows, modes, link, RowsOK, RestOK
  <2> QED BY <2>3, <2>4
<1>21. ASSUME NEW t \in Tasks, BackOff(t) PROVE TypeInv'
  <2> DEFINE next == [perf[t] EXCEPT !.pc = "nap", !.attempt = perf[t].attempt + 1]
  <2>1. /\ perf[t] \in Perf /\ perf[t].pc \in {"run", "copy"} /\ perf[t].attempt < MaxAttempt
        /\ perf' = [perf EXCEPT ![t] = next] /\ perf \in [Tasks -> Perf]
    BY <1>21 DEF BackOff, InAttempt, QueueOK, PerfOK
  <2>2. next \in Perf /\ next.pc = "nap" /\ next.job = perf[t].job
    <3>1. perf[t].attempt + 1 \in 0..MaxAttempt
      BY <2>1, QueueAssumption DEF Perf
    <3>2. \A n \in 0..MaxAttempt : [perf[t] EXCEPT !.pc = "nap", !.attempt = n] \in Perf
      BY <2>1, ZenonT(30) DEF Perf, PCs
    <3>3. next \in Perf
      BY <3>1, <3>2
    <3>4. next.pc = "nap" /\ next.job = perf[t].job
      OBVIOUS
    <3> QED BY <3>3, <3>4
  <2> HIDE DEF next
  <2>3. perf'[t] = next /\ \A u \in Tasks \ {t} : perf'[u] = perf[u]
    BY <2>1
  <2>a. PerfOK(perf')
    BY <2>1, <2>2 DEF QueueOK, PerfOK
  <2>4. QueueOK(pending, activeTask, activeID, perf)' /\ WaiterOK'
    BY <1>21, <2>1, <2>a DEF BackOff, elsewhere, QueueOK, HandleOK, WaiterOK
  <2>5. RowsOK' /\ RestOK'
    BY <1>21 DEF BackOff, elsewhere, rows, modes, link, RowsOK, RestOK
  <2> QED BY <2>4, <2>5
<1>22. ASSUME NEW t \in Tasks, GiveUp(t) PROVE TypeInv'
  <2>1. perf[t].pc # "idle" /\ perf[t].pc # "conflict" /\ Goto(t, "end")
    BY <1>22 DEF GiveUp, At, InAttempt
  <2>2. perf[t].job \in Jobs
    BY <2>1 DEF QueueOK, PerfOK, Perf
  <2>3. pending' \in Seq(Jobs)
    BY <1>22, <2>2 DEF GiveUp, QueueOK, Reinsert
  <2>4. QueueOK(pending, activeTask, activeID, perf)' /\ WaiterOK'
    BY <1>22, <2>1, <2>3, GotoOK DEF GiveUp, PCs, QueueOK, WaiterOK, elsewhere
  <2>5. RowsOK' /\ RestOK'
    BY <1>22, RowUpdate DEF GiveUp, elsewhere, modes, link, RowStates, AfterFailure, RowsOK,
      RestOK
  <2> QED BY <2>4, <2>5
<1>23. ASSUME NEW i \in Jobs, CancelWaiting(i) PROVE TypeInv'
  <2>1. pending' \in Seq(Jobs)
    BY <1>23, RemoveAtRange DEF CancelWaiting, QueueOK
  <2>2. QueueOK(pending, activeTask, activeID, perf)' /\ WaiterOK'
    BY <1>23, <2>1 DEF CancelWaiting, QueueOK, WaiterOK
  <2>3. RowsOK' /\ RestOK'
    BY <1>23, RowUpdate DEF CancelWaiting, modes, link, PersistQueue, RowStates, RowsOK, RestOK
  <2> QED BY <2>2, <2>3
<1>24. ASSUME CancelAllIdle PROVE TypeInv'
  <2>1. QueueOK(pending, activeTask, activeID, perf)' /\ WaiterOK'
    BY <1>24 DEF CancelAllIdle, QueueOK, WaiterOK
  <2>2. RowsOK' /\ RestOK'
    BY <1>24, RowUpdate DEF CancelAllIdle, modes, link, PersistQueue, RowStates, RowsOK, RestOK
  <2> QED BY <2>1, <2>2
<1>25. ASSUME NEW j \in joins, CancelAllResumes(j) PROVE TypeInv'
  <2>1. QueueOK(pending, activeTask, activeID, perf)' /\ WaiterOK'
    BY <1>25 DEF CancelAllResumes, QueueOK, WaiterOK, HandleOK
  <2>2. RowsOK' /\ RestOK'
    BY <1>25, RowUpdate DEF CancelAllResumes, modes, link, PersistQueue, RowStates, RowsOK,
      RestOK
  <2> QED BY <2>1, <2>2
<1>26. ASSUME NEW i \in Jobs, EnqueueUpload(i) PROVE TypeInv'
  <2>1. QueueOK(Append(pending, i), activeTask, activeID, perf) /\ StartNext(Append(pending, i), activeTask, activeID, perf)
    BY <1>26 DEF EnqueueUpload, QueueOK
  <2>2. QueueOK(pending, activeTask, activeID, perf)'
    BY <2>1, StartNextOK
  <2>3. WaiterOK'
    BY <1>26, <2>1, StartNextOK DEF EnqueueUpload, WaiterOK
  <2>4. RowsOK' /\ RestOK'
    BY <1>26 DEF EnqueueUpload, modes, link, PersistQueue, RowStates, LocalStates, RowsOK,
      RestOK
  <2> QED BY <2>2, <2>3, <2>4
<1>27. ASSUME NEW i \in Jobs, Download(i) PROVE TypeInv'
  <2>1. QueueOK(Append(pending, i), activeTask, activeID, perf) /\ StartNext(Append(pending, i), activeTask, activeID, perf)
    BY <1>27 DEF Download, QueueOK
  <2>2. QueueOK(pending, activeTask, activeID, perf)'
    BY <2>1, StartNextOK
  <2>3. WaiterOK'
    BY <1>27, <2>1, StartNextOK DEF Download, WaiterOK
  <2>4. RowsOK' /\ RestOK'
    BY <1>27 DEF Download, modes, link, PersistQueue, RowStates, RowsOK, RestOK
  <2> QED BY <2>2, <2>3, <2>4
<1>28. ASSUME NEW i \in Jobs, Retry(i) PROVE TypeInv'
  <2>1. QueueOK(Append(pending, i), activeTask, activeID, perf) /\ StartNext(Append(pending, i), activeTask, activeID, perf)
    BY <1>28 DEF Retry, QueueOK
  <2>2. QueueOK(pending, activeTask, activeID, perf)'
    BY <2>1, StartNextOK
  <2>3. WaiterOK'
    BY <1>28, <2>1, StartNextOK DEF Retry, WaiterOK
  <2>4. RowsOK' /\ RestOK'
    BY <1>28, RowUpdate DEF Retry, modes, link, PersistQueue, RowStates, RowsOK, RestOK
  <2> QED BY <2>2, <2>3, <2>4
<1>29. ASSUME Refreshed PROVE TypeInv'
  <2>1. QueueOK(pending, activeTask, activeID, perf) /\ StartNext(pending, activeTask, activeID, perf)
    BY <1>29 DEF Refreshed
  <2>2. QueueOK(pending, activeTask, activeID, perf)'
    BY <2>1, StartNextOK
  <2>3. WaiterOK'
    BY <1>29, StartNextOK DEF Refreshed, WaiterOK
  <2>4. RowsOK' /\ RestOK'
    BY <1>29 DEF Refreshed, rows, modes, RowsOK, RestOK
  <2> QED BY <2>2, <2>3, <2>4
<1>30. ASSUME BecomeActive PROVE TypeInv'
  <2>1. QueueOK(pending, activeTask, activeID, perf) /\ StartNext(pending, activeTask, activeID, perf)
    BY <1>30 DEF BecomeActive
  <2>2. QueueOK(pending, activeTask, activeID, perf)'
    BY <2>1, StartNextOK
  <2>3. WaiterOK'
    BY <1>30, StartNextOK DEF BecomeActive, WaiterOK
  <2>4. RowsOK' /\ RestOK'
    BY <1>30 DEF BecomeActive, rows, link, PauseOnActive, RowsOK, RestOK
  <2> QED BY <2>2, <2>3, <2>4
<1>31. ASSUME TogglePause PROVE TypeInv'
  <2>1. ASSUME isQueuePaused'
        PROVE  QueueOK(pending, activeTask, activeID, perf)' /\ WaiterOK'
    BY <1>31, <2>1, CancelTaskHandle DEF TogglePause, QueueOK, WaiterOK
  <2>2. ASSUME ~isQueuePaused'
        PROVE  QueueOK(pending, activeTask, activeID, perf)' /\ WaiterOK'
    <3>1. StartNext(pending, activeTask, activeID, perf)
      BY <1>31, <2>2 DEF TogglePause, ResumeQueue
    <3>2. QueueOK(pending, activeTask, activeID, perf)'
      BY <3>1, StartNextOK
    <3>3. WaiterOK'
      BY <1>31, <3>1, StartNextOK DEF TogglePause, WaiterOK
    <3> QED BY <3>2, <3>3
  <2>3. RowsOK' /\ RestOK'
    BY <1>31 DEF TogglePause, rows, link, PersistQueue, RowsOK, RestOK
  <2>4. QueueOK(pending, activeTask, activeID, perf)' /\ WaiterOK'
    BY <2>1, <2>2
  <2> QED BY <2>3, <2>4
<1>32. ASSUME RetryAllFailed PROVE TypeInv'
  <2> DEFINE failed == {i \in Jobs : state[i] = "failed" /\ i \notin Range(pending)}
  <2>1. IsFiniteSet(failed)
    BY QueueAssumption, FS_Subset
  <2>2. PICK q \in SetToSeqs(failed) : StartNext(pending \o q, activeTask, activeID, perf)
    BY <1>32 DEF RetryAllFailed
  <2>3. q \in Seq(Jobs)
    BY <2>1, OrdersRange
  <2>4. QueueOK(pending \o q, activeTask, activeID, perf)
    BY <2>3 DEF QueueOK
  <2>5. QueueOK(pending, activeTask, activeID, perf)'
    BY <2>2, <2>4, StartNextOK
  <2>6. WaiterOK'
    BY <1>32, <2>2, <2>4, StartNextOK DEF RetryAllFailed, WaiterOK
  <2>7. RowsOK' /\ RestOK'
    BY <1>32, RowUpdate DEF RetryAllFailed, modes, link, PersistQueue, RowStates, RowsOK, RestOK
  <2> QED BY <2>5, <2>6, <2>7
<1>33. ASSUME NEW t \in Tasks, SkipTransfer(t) PROVE TypeInv'
  <2>1. perf[t].pc \notin {"idle", "conflict"} /\ StartNext(pending, NoTask, NoJob, Ended(t))
    BY <1>33 DEF SkipTransfer, At
  <2>2. PerfOK(Ended(t)) /\ \A u \in Tasks \ {t} : Ended(t)[u] = perf[u]
    BY PerfUpdate DEF Ended, QueueOK, PerfOK
  <2>3. QueueOK(pending, NoTask, NoJob, Ended(t))
    BY <2>2 DEF QueueOK, HandleOK
  <2>4. QueueOK(pending, activeTask, activeID, perf)'
    BY <2>1, <2>3, StartNextOK
  <2>5. WaiterOK'
    BY <1>33, <2>1, <2>2, <2>3, StartNextOK DEF SkipTransfer, WaiterOK
  <2>6. RowsOK' /\ RestOK'
    BY <1>33, RowUpdate DEF SkipTransfer, modes, link, PersistQueue, RowStates, RowsOK, RestOK
  <2> QED BY <2>4, <2>5, <2>6
<1>34. ASSUME NEW t \in Tasks, EndPerform(t) PROVE TypeInv'
  <2>1. perf[t].pc \notin {"idle", "conflict"} /\ StartNext(pending, NoTask, NoJob, Ended(t))
    BY <1>34 DEF EndPerform, At
  <2>2. PerfOK(Ended(t)) /\ \A u \in Tasks \ {t} : Ended(t)[u] = perf[u]
    BY PerfUpdate DEF Ended, QueueOK, PerfOK
  <2>3. QueueOK(pending, NoTask, NoJob, Ended(t))
    BY <2>2 DEF QueueOK, HandleOK
  <2>4. QueueOK(pending, activeTask, activeID, perf)'
    BY <2>1, <2>3, StartNextOK
  <2>5. WaiterOK'
    BY <1>34, <2>1, <2>2, <2>3, StartNextOK DEF EndPerform, WaiterOK
  <2>6. RowsOK' /\ RestOK'
    BY <1>34 DEF EndPerform, rows, modes, link, PersistQueue, RowsOK, RestOK
  <2> QED BY <2>4, <2>5, <2>6
<1>35. ASSUME Crash PROVE TypeInv'
  <2>1. IsFiniteSet(Restorable) /\ Restorable \subseteq Jobs
    BY QueueAssumption, FS_Subset DEF Restorable, RestOK
  <2>2. pending' \in Seq(Jobs)
    BY <1>35, <2>1, OrdersRange DEF Crash
  <2>3. Idle \in Perf /\ Idle.pc = "idle" /\ Idle.job = NoJob
    BY QueueAssumption DEF Idle, Perf, PCs
  <2>4. PerfOK(perf')
    BY <1>35, <2>3 DEF Crash, PerfOK
  <2>5. QueueOK(pending, activeTask, activeID, perf)' /\ WaiterOK'
    BY <1>35, <2>2, <2>4 DEF Crash, QueueOK, HandleOK, WaiterOK
  <2>6. RowsOK' /\ RestOK'
    BY <1>35 DEF Crash, RowStates, NoRow, LocalStates, RowsOK, RestOK
  <2> QED BY <2>5, <2>6
<1>36. ASSUME UNCHANGED vars PROVE TypeInv'
  BY <1>36 DEF vars, rows, queue, modes, link, RowsOK, RestOK, WaiterOK
<1> QED
  BY <1>1, <1>2, <1>3, <1>4, <1>5, <1>6, <1>7, <1>8, <1>9, <1>10, <1>11, <1>12, <1>13, <1>14,
    <1>15, <1>16, <1>17, <1>18, <1>19, <1>20, <1>21, <1>22, <1>23, <1>24, <1>25, <1>26, <1>27,
    <1>28, <1>29, <1>30, <1>31, <1>32, <1>33, <1>34, <1>35, <1>36 DEF Next, User, Perform,
    Resume, Choose, System

\* Every variable keeps its type under every input, and an idle task has no job.
THEOREM TypeCorrect == Spec => []TypeOK
<1>1. Init => TypeInv  BY TypeInit
<1>2. TypeInv /\ [Next]_vars => TypeInv'  BY TypeStep
<1>3. TypeInv => TypeOK  BY TypeInvImplies
<1> QED BY <1>1, <1>2, <1>3, PTL DEF Spec

\* The handle and the id agree and the handle never names a perform that has ended, although
\* disconnect() and cancelAllQueued() take it away from live ones and every epilogue drops it.
THEOREM HandleLiveAlways == Spec => []HandleLive
<1>1. Init => TypeInv  BY TypeInit
<1>2. TypeInv /\ [Next]_vars => TypeInv'  BY TypeStep
<1>3. TypeInv => HandleLive  BY TypeInvImplies
<1> QED BY <1>1, <1>2, <1>3, PTL DEF Spec

-----------------------------------------------------------------------------
(***************************************************************************)
(* Every transfer that is still to be done has exactly one owner: a place in *)
(* pendingJobs, or a perform that has not decided its outcome.  RowOwned and *)
(* SingleOwner are inductive together, given the types.  Own states them of  *)
(* any rows, queue and performs, so that a handler is followed first up to   *)
(* startNextTransfer() and then through it.                                  *)
(***************************************************************************)
Waiting == {"queued", "paused", "transferring"}
Settled == {"new", "picked", "failed", "completed"}

Decides(ps, t) == ps[t].pc \notin {"idle", "end"}

OwnedIn(st, q, ps) ==
  \A i \in Jobs : st[i] \in Waiting =>
     i \in Range(q) \/ \E t \in Tasks : Decides(ps, t) /\ ps[t].job = i

SoleIn(st, q, ps) ==
  /\ IsInjective(q)
  /\ \A t \in Tasks : Decides(ps, t) => ps[t].job \notin Range(q)
  /\ \A t, u \in Tasks : Decides(ps, t) /\ Decides(ps, u) /\ ps[t].job = ps[u].job => t = u
  /\ \A i \in Jobs : st[i] \in Settled =>
       i \notin Range(q) /\ \A t \in Tasks : Decides(ps, t) => ps[t].job # i

Own(st, q, ps) == OwnedIn(st, q, ps) /\ SoleIn(st, q, ps)

\* Own is what the two properties of the model say.
LEMMA OwnMeans == Own(state, pending, perf) => RowOwned /\ SingleOwner
BY DEF Own, OwnedIn, SoleIn, Decides, Waiting, Settled, RowOwned, SingleOwner, Deciding

-----------------------------------------------------------------------------
(* What keeps Own: performs that go on, rows that are cancelled or removed,  *)
(* a perform that decides, an id that joins or leaves the queue.             *)

\* Marking performs as cancelled, or moving them between awaits, changes no owner.
LEMMA OwnPerf ==
  ASSUME NEW st, NEW q, NEW ps, NEW ps2, Own(st, q, ps),
         \A t \in Tasks : /\ Decides(ps2, t) <=> Decides(ps, t)
                          /\ Decides(ps, t) => ps2[t].job = ps[t].job
  PROVE  Own(st, q, ps2)
<1>1. OwnedIn(st, q, ps2)
  BY DEF Own, OwnedIn
<1>2. SoleIn(st, q, ps2)
  BY DEF Own, SoleIn
<1> QED BY <1>1, <1>2 DEF Own

\* Cancelling or removing rows asks for no owner, and settles none that has one.
LEMMA OwnRows ==
  ASSUME NEW st, NEW st2, NEW q, NEW ps, Own(st, q, ps),
         \A i \in Jobs : /\ st2[i] \in Waiting => st[i] \in Waiting
                         /\ st2[i] \in Settled => st[i] \in Settled
  PROVE  Own(st2, q, ps)
BY DEF Own, OwnedIn, SoleIn

\* startNextTransfer() hands the head of the queue over to a new perform.
LEMMA OwnStartNext ==
  ASSUME NEW q, NEW act, NEW id, NEW ps, NEW st,
         QueueOK(q, act, id, ps), Own(st, q, ps), StartNext(q, act, id, ps)
  PROVE  Own(st, pending', perf')
<1>1. CASE pending' = q /\ perf' = ps
  BY <1>1
<1>2. CASE /\ q # <<>>
           /\ \E t \in FreeTasks(ps) :
                /\ pending' = AfterHead(q)
                /\ perf' = [ps EXCEPT ![t] = Started(Head(q))]
  <2>1. PICK t \in Tasks :
          /\ ps[t].pc = "idle" /\ pending' = Tail(q)
          /\ perf' = [ps EXCEPT ![t] = Started(Head(q))]
    BY <1>2 DEF FreeTasks, AfterHead
  <2>2. /\ Head(q) \in Jobs /\ Range(q) = Range(Tail(q)) \cup {Head(q)}
        /\ IsInjective(Tail(q)) /\ Head(q) \notin Range(Tail(q))
    BY <1>2, TailRange DEF QueueOK, Own, SoleIn
  <2>3. /\ perf'[t].pc = "check" /\ perf'[t].job = Head(q)
        /\ \A u \in Tasks \ {t} : perf'[u] = ps[u]
    BY <2>1 DEF QueueOK, PerfOK, Started
  <2>4. /\ Decides(perf', t) /\ perf'[t].job = Head(q) /\ ~Decides(ps, t)
        /\ \A u \in Tasks \ {t} : /\ Decides(perf', u) <=> Decides(ps, u)
                                  /\ perf'[u].job = ps[u].job
    BY <2>1, <2>3 DEF Decides
  <2>5. OwnedIn(st, pending', perf')
    <3>1. pending' = Tail(q)  BY <2>1
    <3> QED BY <3>1, <2>2, <2>4 DEF Own, OwnedIn
  <2>6. SoleIn(st, pending', perf')
    <3>1. pending' = Tail(q)  BY <2>1
    <3> QED BY <3>1, <2>2, <2>4 DEF Own, SoleIn
  <2> QED BY <2>5, <2>6 DEF Own
<1> QED BY <1>1, <1>2 DEF StartNext

\* A transfer that had no owner joins the queue.
LEMMA OwnAppend ==
  ASSUME NEW q \in Seq(Jobs), NEW i \in Jobs, QueueOK(q, activeTask, activeID, perf),
         Own(state, q, perf), state[i] \in Settled, state \in [Jobs -> RowStates \cup NoRow],
         NEW st, \A j \in Jobs \ {i} : st[j] = state[j], st[i] = "queued"
  PROVE  Own(st, Append(q, i), perf)
<1>1. /\ Range(Append(q, i)) = Range(q) \cup {i}
      /\ i \notin Range(q) => IsInjective(Append(q, i))
  BY AppendRange DEF Own, SoleIn
<1>2. i \notin Range(q) /\ \A t \in Tasks : Decides(perf, t) => perf[t].job # i
  BY DEF Own, SoleIn
<1>3. OwnedIn(st, Append(q, i), perf)
  BY <1>1 DEF Own, OwnedIn
<1>4. SoleIn(st, Append(q, i), perf)
  BY <1>1, <1>2 DEF Own, SoleIn, Settled
<1> QED BY <1>3, <1>4 DEF Own

\* A perform decides its transfer, which is not waiting afterwards.
LEMMA OwnDecided ==
  ASSUME NEW st, NEW st2, NEW q, NEW ps, NEW ps2, NEW t \in Tasks,
         Own(st, q, ps), Decides(ps, t), ~Decides(ps2, t),
         \A u \in Tasks \ {t} : ps2[u] = ps[u],
         \A i \in Jobs \ {ps[t].job} : st2[i] = st[i],
         st2[ps[t].job] \notin Waiting
  PROVE  Own(st2, q, ps2)
<1>1. \A u \in Tasks \ {t} : /\ Decides(ps2, u) <=> Decides(ps, u)
                             /\ ps2[u].job = ps[u].job
  BY DEF Decides
<1>2. OwnedIn(st2, q, ps2)
  BY <1>1 DEF Own, OwnedIn
<1>3. SoleIn(st2, q, ps2)
  BY <1>1 DEF Own, SoleIn
<1> QED BY <1>2, <1>3 DEF Own

-----------------------------------------------------------------------------
\* updateTransfer, row by row.
LEMMA RowAt ==
  ASSUME NEW S, NEW s, NEW i \in Jobs
  PROVE  SetState(S, s)[i] = IF i \in S /\ state[i] \in RowStates THEN s ELSE state[i]
BY DEF SetState, HasJob

\* The same of one row, whose new state is not a waiting one, or not a settled one.
LEMMA RowOne ==
  ASSUME NEW j \in Jobs, NEW s
  PROVE  /\ \A i \in Jobs \ {j} : SetState({j}, s)[i] = state[i]
         /\ s \notin Waiting => SetState({j}, s)[j] \notin Waiting
         /\ s \notin Settled => (SetState({j}, s)[j] \in Settled => state[j] \in Settled)
<1>1. \A i \in Jobs \ {j} : SetState({j}, s)[i] = state[i]
  BY DEF SetState
<1>2. \/ SetState({j}, s)[j] = s
      \/ SetState({j}, s)[j] = state[j] /\ state[j] \notin RowStates
  BY RowAt
<1>3. Waiting \subseteq RowStates
  BY DEF Waiting, RowStates
<1> QED BY <1>1, <1>2, <1>3

\* activeTask?.cancel() and the moves of a live perform satisfy the hypothesis of OwnPerf.
LEMMA MovesKeepOwners ==
  ASSUME TypeInv
  PROVE  /\ \A t \in Tasks : /\ Decides(CancelTask, t) <=> Decides(perf, t)
                             /\ CancelTask[t].job = perf[t].job
         /\ \A t \in Tasks, c \in PCs \ {"idle", "end"} : Decides(perf, t) /\ Goto(t, c) =>
              \A u \in Tasks : /\ Decides(perf', u) <=> Decides(perf, u)
                               /\ perf'[u].job = perf[u].job
<1>1. \A t \in Tasks : CancelTask[t].pc = perf[t].pc /\ CancelTask[t].job = perf[t].job
  BY CancelTaskOK DEF TypeInv, QueueOK
<1>2. ASSUME NEW t \in Tasks, NEW c \in PCs \ {"idle", "end"}, Decides(perf, t), Goto(t, c),
             NEW u \in Tasks
      PROVE  (Decides(perf', u) <=> Decides(perf, u)) /\ perf'[u].job = perf[u].job
  <2>1. /\ perf'[t].pc = c /\ perf'[t].job = perf[t].job
        /\ \A v \in Tasks \ {t} : perf'[v] = perf[v]
    BY <1>2, GotoOK DEF TypeInv, Decides
  <2> QED BY <1>2, <2>1 DEF Decides
<1> QED BY <1>1, <1>2 DEF Decides

\* The fresh queue owns nothing, and no row waits.
LEMMA OwnInit == Init => Own(state, pending, perf)
<1> SUFFICES ASSUME Init PROVE Own(state, pending, perf)  OBVIOUS
<1>1. Range(<<>>) = {} /\ IsInjective(<<>>)
  BY DEF Range, IsInjective
<1>2. \A t \in Tasks : ~Decides(perf, t)
  BY DEF Init, Idle, Decides
<1> QED BY <1>1, <1>2 DEF Init, Own, OwnedIn, SoleIn, Waiting

(***************************************************************************)
(* A step keeps Own.  First the actions that leave owners alone, then those  *)
(* of a perform, the queue, and startNextTransfer().                         *)
(***************************************************************************)
LEMMA OwnStep ==
  TypeInv /\ Own(state, pending, perf) /\ [Next]_vars => Own(state, pending, perf)'
<1> SUFFICES ASSUME TypeInv, Own(state, pending, perf), [Next]_vars
             PROVE  Own(state', pending', perf')
  BY DEF Own, OwnedIn, SoleIn, Decides
<1> DEFINE Goal == Own(state', pending', perf')
<1>1. /\ QueueOK(pending, activeTask, activeID, perf) /\ PerfOK(perf)
      /\ state \in [Jobs -> RowStates \cup NoRow]
  BY DEF TypeInv, QueueOK, RowsOK
<1>2. ASSUME state' = state, pending' = pending, perf' = perf  PROVE Goal
  BY <1>2
<1>3. ASSUME NEW t \in Tasks, NEW c \in PCs \ {"idle", "end"}, Decides(perf, t), Goto(t, c),
             pending' = pending,
             \A i \in Jobs : /\ state'[i] \in Waiting => state[i] \in Waiting
                             /\ state'[i] \in Settled => state[i] \in Settled
      PROVE  Goal
  <2>1. Own(state, pending, perf')
    BY <1>3, OwnPerf, MovesKeepOwners
  <2>2. Own(state', pending, perf')
    BY <1>3, <2>1, OwnRows
  <2> QED BY <1>3, <2>2
<1>4. ASSUME perf' = CancelTask, pending' = pending, state' = state  PROVE Goal
  BY <1>4, OwnPerf, MovesKeepOwners
<1>5. ASSUME NEW i \in Jobs, PickPhoto(i) PROVE Goal
  <2>1. \A j \in Jobs : /\ state'[j] \in Waiting => state[j] \in Waiting
                        /\ state'[j] \in Settled => state[j] \in Settled
    BY <1>1, <1>5 DEF PickPhoto, Waiting, Settled
  <2> QED BY <1>5, <2>1, OwnRows DEF PickPhoto, queue
<1>6. ASSUME ClearFinished PROVE Goal
  <2>1. \A j \in Jobs : /\ state'[j] \in Waiting => state[j] \in Waiting
                        /\ state'[j] \in Settled => state[j] \in Settled
    BY <1>1, <1>6 DEF ClearFinished, Waiting, Settled
  <2> QED BY <1>6, <2>1, OwnRows DEF ClearFinished, queue
<1>7. ASSUME NEW S, state' = SetState(S, "cancelled"), pending' = pending, perf' = CancelTask
      PROVE  Goal
  <2>1. \A j \in Jobs : /\ state'[j] \in Waiting => state[j] \in Waiting
                        /\ state'[j] \in Settled => state[j] \in Settled
    BY <1>7, RowAt DEF Waiting, Settled
  <2>2. Own(state, pending, perf')
    BY <1>7, OwnPerf, MovesKeepOwners
  <2> QED BY <1>7, <2>1, <2>2, OwnRows
<1>8. ASSUME NEW i \in Jobs, CancelActive(i) PROVE Goal
  BY <1>8, <1>7 DEF CancelActive
<1>9. ASSUME CancelAllActive PROVE Goal
  BY <1>9, <1>7 DEF CancelAllActive
<1>10. ASSUME NEW t \in Tasks, FindConflict(t) PROVE Goal
  BY <1>10, <1>3 DEF FindConflict, At, Decides, rows, PCs
<1>11. ASSUME NEW choice, ResolveConflict(choice) PROVE Goal
  <2>1. waiter \in Tasks /\ perf[waiter].pc = "conflict"
    BY <1>11 DEF ResolveConflict, TypeInv, WaiterOK
  <2>2. PICK c \in {"skip", "go"} : Goto(waiter, c)
    BY <1>11 DEF ResolveConflict
  <2> QED BY <1>3, <1>11, <2>1, <2>2 DEF ResolveConflict, Decides, rows, PCs
<1>12. ASSUME NEW t \in Tasks, OpenPartial(t) PROVE Goal
  BY <1>12, <1>3 DEF OpenPartial, At, Decides, PCs
<1>13. ASSUME NEW t \in Tasks, TryAgain(t) PROVE Goal
  BY <1>13, <1>3 DEF TryAgain, At, Decides, rows, PCs
<1>14. ASSUME NEW t \in Tasks, BackOff(t) PROVE Goal
  <2>1. \A u \in Tasks : (Decides(perf', u) <=> Decides(perf, u)) /\ perf'[u].job = perf[u].job
    <3>1. perf[t] \in Perf  BY <1>1 DEF PerfOK
    <3>2. perf'[t].pc = "nap" /\ perf'[t].job = perf[t].job
      BY <1>1, <1>14, <3>1 DEF BackOff, PerfOK, Perf
    <3>3. \A u \in Tasks \ {t} : perf'[u] = perf[u]
      BY <1>1, <1>14 DEF BackOff, PerfOK
    <3> QED BY <1>14, <3>2, <3>3 DEF BackOff, InAttempt, Decides
  <2> QED BY <1>14, <2>1, OwnPerf DEF BackOff, rows
<1>15. ASSUME NEW t \in Tasks, Begin(t) PROVE Goal
  <2>1. Decides(perf, t) /\ Goto(t, "run") /\ pending' = pending
        /\ state' = SetState({perf[t].job}, "transferring")
    BY <1>15 DEF Begin, At, Decides
  <2>2. Own(state, pending, perf')
    BY <2>1, OwnPerf, MovesKeepOwners DEF PCs
  <2>3. \A j \in Jobs : /\ j # perf[t].job => state'[j] = state[j]
                        /\ state'[j] \in Settled => state[j] \in Settled
    BY <2>1, RowAt DEF Settled
  <2>4. Decides(perf', t) /\ perf'[t].job = perf[t].job
    BY <2>1, MovesKeepOwners DEF PCs
  <2>5. OwnedIn(state', pending, perf')
    BY <2>2, <2>3, <2>4 DEF Own, OwnedIn
  <2>6. SoleIn(state', pending, perf')
    BY <2>2, <2>3 DEF Own, SoleIn
  <2> QED BY <2>1, <2>5, <2>6 DEF Own
<1>16. ASSUME NEW t \in Tasks, Decides(perf, t), Goto(t, "end")
       PROVE  /\ ~Decides(perf', t) /\ perf[t].job \in Jobs
              /\ \A u \in Tasks \ {t} : perf'[u] = perf[u]
  BY <1>1, <1>16, GotoOK DEF Decides, PerfOK, Perf, PCs
<1>17. ASSUME NEW t \in Tasks, Complete(t) PROVE Goal
  <2>1. Decides(perf, t) /\ Goto(t, "end") /\ pending' = pending
        /\ state' = SetState({perf[t].job}, "completed")
    BY <1>17 DEF Complete, At, Decides
  <2>2. /\ \A i \in Jobs \ {perf[t].job} : state'[i] = state[i]
        /\ state'[perf[t].job] \notin Waiting
    <3>1. "completed" \notin Waiting  BY DEF Waiting
    <3> QED BY <1>16, <2>1, <3>1, RowOne
  <2>3. ~Decides(perf', t) /\ \A u \in Tasks \ {t} : perf'[u] = perf[u]
    BY <1>16, <2>1
  <2>4. Own(state', pending, perf')
    BY <2>1, <2>2, <2>3, OwnDecided
  <2> QED BY <2>1, <2>4
<1>18. ASSUME NEW t \in Tasks, GiveUp(t) PROVE Goal
  <2> DEFINE i == perf[t].job
  <2>1. Decides(perf, t) /\ Goto(t, "end")
    BY <1>18 DEF GiveUp, At, InAttempt, Decides
  <2>2. ASSUME ~pauseRequested PROVE Goal
    <3>1. PICK s \in {"cancelled", "failed"} : state' = SetState({i}, s)
      BY <1>18, <2>2 DEF GiveUp
    <3>2. pending' = pending
      BY <1>18, <2>2 DEF GiveUp
    <3>3. /\ \A j \in Jobs \ {i} : state'[j] = state[j]
          /\ state'[i] \notin Waiting
      <4>1. s \notin Waiting  BY DEF Waiting
      <4> QED BY <1>16, <2>1, <3>1, <4>1, RowOne
    <3> QED BY <1>16, <2>1, <3>2, <3>3, OwnDecided
  <2>3. ASSUME pauseRequested PROVE Goal
    <3>1. state' = SetState({i}, "paused") /\ pending' = <<i>> \o pending
      BY <1>18, <2>3 DEF GiveUp, Reinsert
    <3>2. i \in Jobs /\ ~Decides(perf', t) /\ \A u \in Tasks \ {t} : perf'[u] = perf[u]
      BY <1>16, <2>1
    <3>3. Range(<<i>>) = {i} /\ IsInjective(<<i>>) /\ <<i>> \in Seq(Jobs)
      BY <3>2 DEF Range, IsInjective
    <3>4. i \notin Range(pending) /\ IsInjective(pending)
      BY <2>1 DEF Own, SoleIn
    <3>5. Range(pending') = {i} \cup Range(pending) /\ IsInjective(pending')
      <4>1. Range(<<i>>) \cap Range(pending) = {}
        BY <3>3, <3>4
      <4>2. pending \in Seq(Jobs)
        BY <1>1 DEF QueueOK
      <4> DEFINE front == <<i>>
      <4> HIDE DEF front
      <4>3. /\ front \in Seq(Jobs) /\ IsInjective(front) /\ Range(front) = {i}
            /\ Range(front) \cap Range(pending) = {} /\ pending' = front \o pending
        BY <3>1, <3>3, <4>1 DEF front
      <4>4. /\ Range(front \o pending) = Range(front) \cup Range(pending)
            /\ IsInjective(front \o pending)
        BY <3>4, <4>2, <4>3, ConcatRange
      <4> QED BY <4>3, <4>4
    <3>6. \A u \in Tasks \ {t} : /\ Decides(perf', u) <=> Decides(perf, u)
                                 /\ perf'[u].job = perf[u].job
      BY <3>2 DEF Decides
    <3>7. /\ \A j \in Jobs \ {i} : state'[j] = state[j]
          /\ state'[i] \in Settled => state[i] \in Settled
      <4>1. "paused" \notin Settled  BY DEF Settled
      <4> QED BY <3>1, <3>2, <4>1, RowOne
    <3>8. state[i] \notin Settled
      BY <2>1, <3>2 DEF Own, SoleIn
    <3>9. OwnedIn(state', pending', perf')
      BY <3>2, <3>5, <3>6, <3>7 DEF Own, OwnedIn
    <3>10. SoleIn(state', pending', perf')
      BY <2>1, <3>2, <3>5, <3>6, <3>7, <3>8 DEF Own, SoleIn
    <3> QED BY <3>9, <3>10 DEF Own
  <2> QED BY <2>2, <2>3
<1>19. ASSUME state' = state, StartNext(pending, activeTask, activeID, perf) PROVE Goal
  BY <1>1, <1>19, OwnStartNext
<1>20. ASSUME NEW i \in Jobs, state[i] \in Settled, state'[i] = "queued",
              \A j \in Jobs \ {i} : state'[j] = state[j],
              StartNext(Append(pending, i), activeTask, activeID, perf)
       PROVE  Goal
  <2>1. QueueOK(Append(pending, i), activeTask, activeID, perf)
    BY <1>1, AppendRange DEF QueueOK
  <2>2. pending \in Seq(Jobs)
    BY <1>1 DEF QueueOK
  <2>3. Own(state', Append(pending, i), perf)
    BY <1>1, <1>20, <2>2, OwnAppend
  <2> QED BY <1>20, <2>1, <2>3, OwnStartNext
<1>21. ASSUME NEW i \in Jobs, EnqueueUpload(i) PROVE Goal
  <2>1. state[i] \in Settled /\ state'[i] = "queued" /\ \A j \in Jobs \ {i} : state'[j] = state[j]
    BY <1>1, <1>21 DEF EnqueueUpload, Settled
  <2> QED BY <1>20, <1>21, <2>1 DEF EnqueueUpload
<1>22. ASSUME NEW i \in Jobs, Download(i) PROVE Goal
  <2>1. state[i] \in Settled /\ state'[i] = "queued" /\ \A j \in Jobs \ {i} : state'[j] = state[j]
    BY <1>1, <1>22 DEF Download, Settled
  <2> QED BY <1>20, <1>22, <2>1 DEF Download
<1>23. ASSUME NEW i \in Jobs, Retry(i) PROVE Goal
  <2>1. state[i] = "failed" /\ state' = SetState({i}, "queued")
    BY <1>23 DEF Retry, IsRetryable
  <2>2. state[i] \in Settled /\ state'[i] = "queued"
    BY <2>1, RowAt DEF Settled, RowStates
  <2>3. \A j \in Jobs \ {i} : state'[j] = state[j]
    BY <2>1, RowOne
  <2> QED BY <1>20, <1>23, <2>2, <2>3 DEF Retry
<1>24. ASSUME RetryAllFailed PROVE Goal
  <2> DEFINE failed == {i \in Jobs : state[i] = "failed" /\ i \notin Range(pending)}
  <2>1. PICK q \in SetToSeqs(failed) : StartNext(pending \o q, activeTask, activeID, perf)
    BY <1>24 DEF RetryAllFailed
  <2>2. state' = SetState(failed, "queued")
    BY <1>24 DEF RetryAllFailed
  <2>3. q \in Seq(Jobs) /\ Range(q) = failed /\ IsInjective(q)
    <3>1. IsFiniteSet(failed) /\ failed \subseteq Jobs
      BY QueueAssumption, FS_Subset
    <3>2. q \in Seq(failed) /\ Range(q) = failed /\ IsInjective(q)
      BY <3>1, OrdersRange
    <3> QED BY <3>1, <3>2, SeqMonotonic
  <2>4. /\ \A i \in Jobs : i \notin failed => state'[i] = state[i]
        /\ \A i \in failed : state[i] \in Settled /\ state'[i] = "queued"
    BY <2>2, RowAt DEF Settled, RowStates
  <2>5. pending \in Seq(Jobs) /\ IsInjective(pending) /\ Range(pending) \cap Range(q) = {}
    BY <1>1, <2>3 DEF QueueOK, Own, SoleIn
  <2>6. /\ pending \o q \in Seq(Jobs) /\ IsInjective(pending \o q)
        /\ Range(pending \o q) = Range(pending) \cup failed
    BY <2>3, <2>5, ConcatRange
  <2>7. QueueOK(pending \o q, activeTask, activeID, perf)
    BY <1>1, <2>6 DEF QueueOK
  <2>8. \A t \in Tasks : Decides(perf, t) => perf[t].job \notin failed
    BY <2>4 DEF Own, SoleIn
  <2> HIDE DEF failed
  <2> DEFINE longer == pending \o q
  <2>9. Own(state', longer, perf)
    <3> HIDE DEF longer
    <3>1. IsInjective(longer) /\ Range(longer) = Range(pending) \cup failed
      BY <2>6 DEF longer
    <3>2. OwnedIn(state', longer, perf)
      BY <2>4, <3>1 DEF Own, OwnedIn
    <3>3. \A i \in Jobs : state'[i] \in Settled => i \notin failed /\ state[i] \in Settled
      BY <2>4 DEF Settled
    <3>4. SoleIn(state', longer, perf)
      BY <2>8, <3>1, <3>3 DEF Own, SoleIn
    <3> QED BY <3>2, <3>4 DEF Own
  <2> QED BY <2>1, <2>7, <2>9, OwnStartNext
<1>25. ASSUME Refreshed PROVE Goal
  BY <1>19, <1>25 DEF Refreshed, rows
<1>26. ASSUME BecomeActive PROVE Goal
  BY <1>19, <1>26 DEF BecomeActive, rows
<1>27. ASSUME TogglePause PROVE Goal
  BY <1>4, <1>19, <1>27 DEF TogglePause, rows, ResumeQueue
<1>28. ASSUME NEW t \in Tasks, NEW st,
              perf[t].pc # "idle", Own(st, pending, Ended(t)), state' = st,
              StartNext(pending, NoTask, NoJob, Ended(t))
       PROVE  Goal
  <2>1. QueueOK(pending, NoTask, NoJob, Ended(t))
    BY <1>1, PerfUpdate DEF Ended, QueueOK, HandleOK
  <2> QED BY <1>28, <2>1, OwnStartNext
<1>29. ASSUME NEW t \in Tasks
       PROVE  ~Decides(Ended(t), t) /\ \A u \in Tasks \ {t} : Ended(t)[u] = perf[u]
  BY <1>1 DEF Ended, Idle, Decides, PerfOK
<1>30. ASSUME NEW t \in Tasks, SkipTransfer(t) PROVE Goal
  <2>1. perf[t].pc = "skip" /\ Decides(perf, t) /\ state' = SetState({perf[t].job}, "cancelled")
    BY <1>30 DEF SkipTransfer, At, Decides
  <2>2. perf[t].job \in Jobs
    BY <1>1, <2>1 DEF PerfOK, Perf
  <2>3. /\ \A i \in Jobs \ {perf[t].job} : state'[i] = state[i]
        /\ state'[perf[t].job] \notin Waiting
    <3>1. "cancelled" \notin Waiting  BY DEF Waiting
    <3> QED BY <2>1, <2>2, <3>1, RowOne
  <2> DEFINE rest == Ended(t)
  <2>a. ~Decides(rest, t) /\ \A u \in Tasks \ {t} : rest[u] = perf[u]
    BY <1>29
  <2> HIDE DEF rest
  <2>b. Own(state', pending, rest)
    BY <2>1, <2>3, <2>a, OwnDecided
  <2>4. Own(state', pending, Ended(t))
    BY <2>b DEF rest
  <2> QED BY <1>28, <1>30, <2>1, <2>4 DEF SkipTransfer
<1>31. ASSUME NEW t \in Tasks, EndPerform(t) PROVE Goal
  <2>1. perf[t].pc = "end" /\ ~Decides(perf, t)
    BY <1>31 DEF EndPerform, At, Decides
  <2>2. Own(state, pending, Ended(t))
    <3>1. \A u \in Tasks : /\ Decides(Ended(t), u) <=> Decides(perf, u)
                           /\ Decides(perf, u) => Ended(t)[u].job = perf[u].job
      BY <1>29, <2>1 DEF Decides
    <3> QED BY <3>1, OwnPerf
  <2> QED BY <1>28, <1>31, <2>1, <2>2 DEF EndPerform, rows
<1>32. ASSUME NEW S, Range(pending) \subseteq S, state' = SetState(S, "cancelled"),
              pending' = <<>>, perf' = perf \/ perf' = CancelTask
       PROVE  Goal
  <2>1. \A j \in Jobs : /\ state'[j] \in Waiting => state[j] \in Waiting /\ j \notin S
                        /\ state'[j] \in Settled => state[j] \in Settled
    BY <1>32, RowAt DEF Waiting, Settled, RowStates
  <2>2. Range(<<>>) = {} /\ IsInjective(<<>>)
    BY DEF Range, IsInjective
  <2>3. Own(state, pending, perf')
    BY <1>32, OwnPerf, MovesKeepOwners
  <2>4. OwnedIn(state', <<>>, perf')
    BY <1>32, <2>1, <2>3 DEF Own, OwnedIn
  <2>5. SoleIn(state', <<>>, perf')
    BY <2>1, <2>2, <2>3 DEF Own, SoleIn
  <2> QED BY <1>32, <2>4, <2>5 DEF Own
<1>33. ASSUME CancelAllIdle PROVE Goal
  BY <1>32, <1>33 DEF CancelAllIdle
<1>34. ASSUME NEW j \in joins, CancelAllResumes(j) PROVE Goal
  BY <1>32, <1>34 DEF CancelAllResumes
<1>35. ASSUME Disconnect PROVE Goal
  BY <1>32, <1>35 DEF Disconnect
<1>36. ASSUME NEW i \in Jobs, CancelWaiting(i) PROVE Goal
  <2>1. perf' = perf /\ state' = SetState({i}, "cancelled")
    BY <1>36 DEF CancelWaiting
  <2>2. /\ \A j \in Jobs \ {i} : state'[j] = state[j]
        /\ state'[i] \notin Waiting /\ (state'[i] \in Settled => state[i] \in Settled)
    <3>1. "cancelled" \notin Waiting /\ "cancelled" \notin Settled  BY DEF Waiting, Settled
    <3> QED BY <2>1, <3>1, RowOne
  <2>3. /\ Range(pending) \ {i} \subseteq Range(pending')
        /\ Range(pending') \subseteq Range(pending) /\ IsInjective(pending')
    <3>1. pending \in Seq(Jobs) /\ IsInjective(pending)
      BY <1>1 DEF QueueOK, Own, SoleIn
    <3>2. CASE pending' = pending
      BY <3>1, <3>2
    <3>3. CASE \E k \in 1..Len(pending) : pending[k] = i /\ pending' = RemoveAt(pending, k)
      BY <3>1, <3>3, RemoveAtRange
    <3> QED BY <1>36, <3>2, <3>3 DEF CancelWaiting
  <2>4. OwnedIn(state', pending', perf)
    BY <2>2, <2>3 DEF Own, OwnedIn
  <2>5. SoleIn(state', pending', perf)
    BY <2>2, <2>3 DEF Own, SoleIn
  <2> QED BY <2>1, <2>4, <2>5 DEF Own
<1>37. ASSUME Crash PROVE Goal
  <2>1. IsFiniteSet(Restorable) /\ Restorable \subseteq Jobs
    BY QueueAssumption, FS_Subset DEF Restorable, TypeInv, RestOK
  <2>2. Range(pending') = Restorable /\ IsInjective(pending')
    BY <1>37, <2>1, OrdersRange DEF Crash
  <2>3. \A t \in Tasks : ~Decides(perf', t)
    BY <1>37 DEF Crash, Idle, Decides
  <2>4. \A i \in Jobs : IF i \in Restorable THEN state'[i] = "queued"
                                            ELSE state'[i] \in {"new", "gone"}
    BY <1>37 DEF Crash
  <2>5. OwnedIn(state', pending', perf')
    BY <2>2, <2>4 DEF OwnedIn, Waiting
  <2>6. SoleIn(state', pending', perf')
    BY <2>2, <2>3, <2>4 DEF SoleIn, Settled
  <2> QED BY <2>5, <2>6 DEF Own
<1>38. ASSUME \/ \E j \in joins : CancelResumes(j)
              \/ ClearOrphaned \/ Connect \/ Connected \/ ConnectFails \/ Disconnected
              \/ EnterBackground \/ BackgroundTimeOver \/ UNCHANGED vars
       PROVE  Goal
  BY <1>2, <1>38 DEF CancelResumes, ClearOrphaned, Connect, Connected, ConnectFails,
     Disconnected, EnterBackground, BackgroundTimeOver, vars, rows, queue
<1>39. ASSUME BackgroundTaskExpired PROVE Goal
  BY <1>4, <1>39 DEF BackgroundTaskExpired, rows
<1> HIDE DEF Goal
<1> QED
  <2>1. Goal
    BY <1>5, <1>6, <1>8, <1>9, <1>10, <1>11, <1>12, <1>13, <1>14, <1>15, <1>17, <1>18,
       <1>21, <1>22, <1>23, <1>24, <1>25, <1>26, <1>27, <1>30, <1>31, <1>33, <1>34, <1>35,
       <1>36, <1>37, <1>38, <1>39
    DEF Next, User, Perform, Resume, Choose, System
  <2> QED BY <2>1 DEF Goal

\* Whatever is paused, cancelled, retried, disconnected or restarted, every transfer that is
\* still to be done is in pendingJobs or in the hands of a perform.
THEOREM RowOwnedAlways == Spec => []RowOwned
<1>1. Init => TypeInv /\ Own(state, pending, perf)  BY TypeInit, OwnInit
<1>2. /\ TypeInv /\ Own(state, pending, perf) /\ [Next]_vars
      => (TypeInv /\ Own(state, pending, perf))'
  BY TypeStep, OwnStep
<1>3. Own(state, pending, perf) => RowOwned  BY OwnMeans
<1> QED BY <1>1, <1>2, <1>3, PTL DEF Spec

\* No transfer is queued twice, both queued and running, or run by two performs, even while
\* two performs are live.
THEOREM SingleOwnerAlways == Spec => []SingleOwner
<1>1. Init => TypeInv /\ Own(state, pending, perf)  BY TypeInit, OwnInit
<1>2. /\ TypeInv /\ Own(state, pending, perf) /\ [Next]_vars
      => (TypeInv /\ Own(state, pending, perf))'
  BY TypeStep, OwnStep
<1>3. Own(state, pending, perf) => SingleOwner  BY OwnMeans
<1> QED BY <1>1, <1>2, <1>3, PTL DEF Spec

-----------------------------------------------------------------------------
(***************************************************************************)
(* What holds unless disconnect() comes in between.  One transfer at a time: *)
(* without disconnect() and cancelAllQueued(), the two handlers that give up *)
(* the handle of a live task, the handle names the only live perform.  (With *)
(* them it does not: run disconnect_two_active.)  And the pause is honoured. *)
(***************************************************************************)
KeepsHandle == Inputs \cap {"disconnect", "cancelAll"} = {}

OnlyLive(act, ps) == \A t \in Tasks : ps[t].pc # "idle" => act = t

Alone == OnlyLive(activeTask, perf) /\ \A j \in joins : j.kind = "cancel"

\* startNextTransfer() starts a perform only when the handle is free, so when none is live.
LEMMA StartAlone ==
  ASSUME NEW q, NEW act, NEW id, NEW ps,
         QueueOK(q, act, id, ps), OnlyLive(act, ps), StartNext(q, act, id, ps)
  PROVE  OnlyLive(activeTask', perf')
<1>1. CASE activeTask' = act /\ perf' = ps
  BY <1>1 DEF OnlyLive
<1>2. CASE /\ act = NoTask /\ q # <<>>
           /\ \E t \in FreeTasks(ps) :
                activeTask' = t /\ perf' = [ps EXCEPT ![t] = Started(Head(q))]
  <2>1. \A t \in Tasks : ps[t].pc = "idle"
    BY <1>2, QueueAssumption DEF OnlyLive
  <2> QED BY <1>2, <2>1 DEF OnlyLive, QueueOK, PerfOK, FreeTasks
<1> QED BY <1>1, <1>2 DEF StartNext, NoneActive

\* A perform that is marked as cancelled or goes on is no new one.
LEMMA MoveAlone ==
  ASSUME TypeInv, OnlyLive(activeTask, perf)
  PROVE  /\ OnlyLive(activeTask, CancelTask)
         /\ \A t \in Tasks, c \in PCs \ {"idle"} : perf[t].pc # "idle" /\ Goto(t, c) =>
              OnlyLive(activeTask, perf')
BY CancelTaskOK, GotoOK DEF TypeInv, QueueOK, OnlyLive

\* A step keeps Alone.  First the steps that keep the handle and start nothing, then those
\* that end with startNextTransfer().
LEMMA AloneStep ==
  ASSUME KeepsHandle
  PROVE  TypeInv /\ Alone /\ [Next]_vars => Alone'
<1> SUFFICES ASSUME TypeInv, Alone, [Next]_vars PROVE Alone'  OBVIOUS
<1>1. QueueOK(pending, activeTask, activeID, perf) /\ OnlyLive(activeTask, perf)
  BY DEF TypeInv, Alone
<1>2. ASSUME OnlyLive(activeTask', perf'), joins' = joins PROVE Alone'
  BY <1>2 DEF Alone, OnlyLive
<1>3. ASSUME \/ \E i \in Jobs : PickPhoto(i) \/ CancelWaiting(i)
             \/ ClearFinished \/ ClearOrphaned \/ Connect \/ Connected \/ ConnectFails
             \/ Disconnected \/ EnterBackground \/ BackgroundTimeOver \/ UNCHANGED vars
      PROVE  Alone'
  BY <1>1, <1>2, <1>3 DEF PickPhoto, CancelWaiting, ClearFinished, ClearOrphaned, Connect,
     Connected, ConnectFails, Disconnected, EnterBackground, BackgroundTimeOver, vars, rows, queue
<1>4. ASSUME NEW i \in Jobs, CancelActive(i) PROVE Alone'
  <2>1. OnlyLive(activeTask', perf')
    BY <1>1, <1>4, MoveAlone DEF CancelActive
  <2>2. \A j \in joins' : j.kind = "cancel"
    BY <1>4 DEF CancelActive, Alone
  <2> QED BY <2>1, <2>2 DEF Alone, OnlyLive
<1>5. ASSUME NEW j \in joins, CancelResumes(j) PROVE Alone'
  <2>1. OnlyLive(activeTask', perf')
    BY <1>1, <1>5 DEF CancelResumes, queue
  <2>2. \A k \in joins' : k.kind = "cancel"
    BY <1>5 DEF CancelResumes, Alone
  <2> QED BY <2>1, <2>2 DEF Alone, OnlyLive
<1>6. ASSUME BackgroundTaskExpired PROVE Alone'
  BY <1>1, <1>2, <1>6, MoveAlone DEF BackgroundTaskExpired
<1>7. ASSUME NEW t \in Tasks, NEW c \in PCs \ {"idle"}, perf[t].pc # "idle", Goto(t, c),
             activeTask' = activeTask, joins' = joins
      PROVE  Alone'
  BY <1>1, <1>2, <1>7, MoveAlone
<1>8. ASSUME NEW t \in Tasks, FindConflict(t) \/ Begin(t) \/ OpenPartial(t) \/ Complete(t)
                              \/ TryAgain(t) \/ GiveUp(t)
      PROVE  Alone'
  <2>1. perf[t].pc # "idle" /\ \E c \in PCs \ {"idle"} : Goto(t, c)
    BY <1>8 DEF FindConflict, Begin, OpenPartial, Complete, TryAgain, GiveUp, At, InAttempt, PCs
  <2>2. activeTask' = activeTask /\ joins' = joins
    BY <1>8 DEF FindConflict, Begin, OpenPartial, Complete, TryAgain, GiveUp, elsewhere
  <2> QED BY <1>7, <2>1, <2>2
<1>9. ASSUME NEW choice, ResolveConflict(choice) PROVE Alone'
  <2>1. waiter \in Tasks /\ perf[waiter].pc = "conflict"
    BY <1>9 DEF ResolveConflict, TypeInv, WaiterOK
  <2>2. \E c \in PCs \ {"idle"} : Goto(waiter, c)
    BY <1>9 DEF ResolveConflict, PCs
  <2> QED BY <1>7, <1>9, <2>1, <2>2 DEF ResolveConflict
<1>10. ASSUME NEW t \in Tasks, BackOff(t) PROVE Alone'
  <2>1. \A u \in Tasks : perf'[u].pc # "idle" => perf[u].pc # "idle"
    BY <1>1, <1>10 DEF BackOff, InAttempt, QueueOK, PerfOK
  <2> QED BY <1>1, <1>2, <1>10, <2>1 DEF BackOff, elsewhere, OnlyLive
<1>11. ASSUME NEW q \in Seq(Jobs), StartNext(q, activeTask, activeID, perf), joins' = joins
       PROVE  Alone'
  BY <1>1, <1>2, <1>11, StartAlone DEF QueueOK
<1>12. ASSUME NEW i \in Jobs, EnqueueUpload(i) \/ Download(i) \/ Retry(i) PROVE Alone'
  <2>1. Append(pending, i) \in Seq(Jobs)
    BY <1>1, AppendRange DEF QueueOK
  <2> QED BY <1>11, <1>12, <2>1 DEF EnqueueUpload, Download, Retry
<1>13. ASSUME Refreshed \/ BecomeActive PROVE Alone'
  BY <1>1, <1>11, <1>13 DEF Refreshed, BecomeActive, QueueOK
<1>14. ASSUME TogglePause PROVE Alone'
  <2>1. pending \in Seq(Jobs) /\ joins' = joins
    BY <1>1, <1>14 DEF TogglePause, QueueOK
  <2>2. CASE isQueuePaused'
    BY <1>1, <1>2, <1>14, <2>1, <2>2, MoveAlone DEF TogglePause
  <2>3. CASE ~isQueuePaused'
    BY <1>11, <1>14, <2>1, <2>3 DEF TogglePause, ResumeQueue
  <2> QED BY <2>2, <2>3
<1>15. ASSUME RetryAllFailed PROVE Alone'
  <2> DEFINE failed == {i \in Jobs : state[i] = "failed" /\ i \notin Range(pending)}
  <2>1. PICK q \in SetToSeqs(failed) : StartNext(pending \o q, activeTask, activeID, perf)
    BY <1>15 DEF RetryAllFailed
  <2>2. IsFiniteSet(failed) /\ failed \subseteq Jobs
    BY QueueAssumption, FS_Subset
  <2>3. q \in Seq(Jobs)
    BY <2>2, OrdersRange, SeqMonotonic
  <2>4. pending \o q \in Seq(Jobs)
    BY <1>1, <2>3, ConcatRange DEF QueueOK
  <2> QED BY <1>11, <1>15, <2>1, <2>4 DEF RetryAllFailed
<1>16. ASSUME NEW t \in Tasks, SkipTransfer(t) \/ EndPerform(t) PROVE Alone'
  <2>1. StartNext(pending, NoTask, NoJob, Ended(t)) /\ joins' = joins
        /\ perf[t].pc # "idle"
    BY <1>16 DEF SkipTransfer, EndPerform, At
  <2>2. QueueOK(pending, NoTask, NoJob, Ended(t))
    BY <1>1, PerfUpdate DEF Ended, QueueOK, HandleOK
  <2>3. \A u \in Tasks : Ended(t)[u].pc = "idle"
    BY <1>1, <2>1 DEF Ended, Idle, OnlyLive, QueueOK, PerfOK
  <2>4. OnlyLive(NoTask, Ended(t))
    BY <2>3 DEF OnlyLive
  <2>5. OnlyLive(activeTask', perf')
    BY <2>1, <2>2, <2>4, StartAlone
  <2> QED BY <1>2, <2>1, <2>5
<1>17. ASSUME Crash PROVE Alone'
  BY <1>17 DEF Crash, Idle, Alone, OnlyLive
<1>18. /\ ~CancelAllIdle /\ ~CancelAllActive /\ ~Disconnect
       /\ \A j \in joins : ~CancelAllResumes(j)
  BY DEF KeepsHandle, CancelAllIdle, CancelAllActive, Disconnect, CancelAllResumes, Alone
<1> QED
  BY <1>3, <1>4, <1>5, <1>6, <1>8, <1>9, <1>10, <1>12, <1>13, <1>14, <1>15, <1>16, <1>17, <1>18
  DEF Next, User, Perform, Resume, Choose, System

\* If the user never disconnects and never uses Cancel all, at most one perform is live, so
\* at most one execute() runs, under every other input, crashes included.
THEOREM OneAtATimeWhileHandleKept ==
  ASSUME KeepsHandle
  PROVE  Spec => []OneAtATime
<1>1. Init => TypeInv /\ Alone
  <2>1. Init => Alone
    BY DEF Init, Idle, Alone, OnlyLive
  <2> QED BY <2>1, TypeInit
<1>2. TypeInv /\ Alone /\ [Next]_vars => (TypeInv /\ Alone)'
  BY TypeStep, AloneStep
<1>3. Alone => OneAtATime
  BY DEF Alone, OnlyLive, OneAtATime, Executing
<1> QED BY <1>1, <1>2, <1>3, PTL DEF Spec
-----------------------------------------------------------------------------
(* The pause.  disconnect() alone lifts pauseRequested and leaves the button *)
(* at Resume queue; Cancel all is no matter here.                            *)

\* The flag that stops the queue is set while the button says Resume queue.
PauseKept == isQueuePaused => pauseRequested

\* Every handler but disconnect() assigns the two flags together or raises the first.
LEMMA PauseStep ==
  ASSUME "disconnect" \notin Inputs
  PROVE  TypeInv /\ PauseKept /\ [Next]_vars => PauseKept'
<1> SUFFICES ASSUME TypeInv, PauseKept, [Next]_vars PROVE PauseKept'  OBVIOUS
<1>1. ASSUME UNCHANGED <<isQueuePaused, pauseRequested>> PROVE PauseKept'
  BY <1>1 DEF PauseKept
<1>2. CASE TogglePause
  BY <1>2 DEF TogglePause, PauseKept
<1>3. CASE BackgroundTaskExpired
  BY <1>3 DEF BackgroundTaskExpired, PauseKept
<1>4. CASE BecomeActive
  BY <1>4 DEF BecomeActive, PauseOnActive, PauseKept
<1>5. CASE Crash
  BY <1>5 DEF Crash, PauseKept
<1>6. CASE User /\ ~TogglePause
  BY <1>1, <1>6 DEF User, PickPhoto, EnqueueUpload, Download, Retry, CancelActive, CancelWaiting,
     CancelAllIdle, CancelAllActive, RetryAllFailed, ClearFinished, ClearOrphaned, Disconnect, modes
<1>7. CASE \E t \in Tasks : Perform(t)
  BY <1>1, <1>7 DEF Perform, FindConflict, SkipTransfer, Begin, OpenPartial, Complete, BackOff,
     TryAgain, GiveUp, EndPerform, elsewhere, modes
<1>8. CASE Resume \/ Choose \/ UNCHANGED vars
  BY <1>1, <1>8 DEF Resume, CancelResumes, CancelAllResumes, Choose, ResolveConflict, vars, modes
<1>9. CASE Connect \/ Connected \/ ConnectFails \/ Refreshed \/ Disconnected \/ EnterBackground
           \/ BackgroundTimeOver
  BY <1>1, <1>9 DEF Connect, Connected, ConnectFails, Refreshed, Disconnected, EnterBackground,
     BackgroundTimeOver, modes
<1> QED
  BY <1>2, <1>3, <1>4, <1>5, <1>6, <1>7, <1>8, <1>9 DEF Next, System

NewlyStarted(t) == perf'[t].pc = "check" /\ perf[t].pc # "check"

\* startNextTransfer() starts nothing while the flag is set.
LEMMA StartHonoursPause ==
  ASSUME NEW q, NEW act, NEW id, NEW ps, StartNext(q, act, id, ps), NEW t \in Tasks,
         ps[t].pc = "check" => perf[t].pc = "check", NewlyStarted(t)
  PROVE  ~pauseRequested'
BY DEF StartNext, NewlyStarted

\* Only startNextTransfer() starts a perform.
LEMMA StartedUnpaused ==
  ASSUME TypeInv, [Next]_vars, NEW t \in Tasks, NewlyStarted(t)
  PROVE  ~pauseRequested'
<1> DEFINE Goal == ~pauseRequested'
<1>1. QueueOK(pending, activeTask, activeID, perf) /\ PerfOK(perf)
  BY DEF TypeInv, QueueOK
<1>2. perf' # perf /\ perf' # CancelTask
  BY <1>1, CancelTaskOK DEF NewlyStarted
<1>3. ASSUME NEW u \in Tasks, NEW c \in PCs \ {"idle", "check"}, perf[u].pc # "idle", Goto(u, c)
      PROVE  FALSE
  BY <1>1, <1>3, GotoOK DEF NewlyStarted
<1>4. ASSUME NEW q, StartNext(q, activeTask, activeID, perf) PROVE Goal
  BY <1>4, StartHonoursPause
<1>5. CASE User
  BY <1>2, <1>4, <1>5 DEF User, PickPhoto, EnqueueUpload, Download, Retry, CancelActive,
     CancelWaiting, CancelAllIdle, CancelAllActive, TogglePause, ResumeQueue, RetryAllFailed,
     ClearFinished, ClearOrphaned, Disconnect, queue
<1>6. ASSUME NEW u \in Tasks, FindConflict(u) \/ Begin(u) \/ OpenPartial(u) \/ Complete(u)
                              \/ TryAgain(u) \/ GiveUp(u)
      PROVE  FALSE
  <2>1. perf[u].pc # "idle" /\ \E c \in PCs \ {"idle", "check"} : Goto(u, c)
    BY <1>6 DEF FindConflict, Begin, OpenPartial, Complete, TryAgain, GiveUp, At, InAttempt, PCs
  <2> QED BY <1>3, <2>1
<1>7. ASSUME NEW u \in Tasks, BackOff(u) PROVE FALSE
  BY <1>1, <1>7 DEF BackOff, PerfOK, Perf, NewlyStarted
<1>8. ASSUME NEW u \in Tasks, SkipTransfer(u) \/ EndPerform(u) PROVE Goal
  <2>1. StartNext(pending, NoTask, NoJob, Ended(u))
    BY <1>8 DEF SkipTransfer, EndPerform
  <2>2. Ended(u)[t].pc = "check" => perf[t].pc = "check"
    BY <1>1 DEF Ended, Idle, PerfOK
  <2> QED BY <2>1, <2>2, StartHonoursPause
<1>9. CASE Choose
  <2>1. waiter \in Tasks /\ perf[waiter].pc = "conflict"
    BY <1>9 DEF Choose, ResolveConflict, TypeInv, WaiterOK
  <2>2. \E c \in PCs \ {"idle", "check"} : Goto(waiter, c)
    BY <1>9 DEF Choose, ResolveConflict, PCs
  <2> QED BY <1>3, <2>1, <2>2
<1>10. CASE Resume \/ UNCHANGED vars
  BY <1>2, <1>10 DEF Resume, CancelResumes, CancelAllResumes, vars, queue
<1>11. CASE Crash
  BY <1>11 DEF Crash, Idle, NewlyStarted
<1>12. CASE System /\ ~Crash
  BY <1>2, <1>4, <1>12 DEF System, Connect, Connected, ConnectFails, Refreshed, Disconnected,
     EnterBackground, BackgroundTimeOver, BackgroundTaskExpired, BecomeActive, queue
<1> HIDE DEF Goal
<1> QED
  <2>1. Goal
    BY <1>5, <1>6, <1>7, <1>8, <1>9, <1>10, <1>11, <1>12 DEF Next, Perform, Goal
  <2> QED BY <2>1 DEF Goal

\* Unless the user disconnects, no transfer is started while the Resume button is shown,
\* whatever is cancelled, retried, sent to the background or restarted.
THEOREM PauseHonouredWhileConnected ==
  ASSUME "disconnect" \notin Inputs
  PROVE  Spec => PauseHonoured
<1>1. Init => TypeInv /\ PauseKept
  BY TypeInit DEF Init, PauseKept
<1>2. TypeInv /\ PauseKept /\ [Next]_vars => (TypeInv /\ PauseKept)'
  BY TypeStep, PauseStep
<1>3. TypeInv /\ PauseKept /\ PauseKept' /\ [Next]_vars =>
        [\A t \in Tasks : perf'[t].pc = "check" /\ perf[t].pc # "check" => ~isQueuePaused']_vars
  BY StartedUnpaused DEF PauseKept, NewlyStarted
<1> QED BY <1>1, <1>2, <1>3, PTL DEF Spec, PauseHonoured

-----------------------------------------------------------------------------
(***************************************************************************)
(* What a restart finds, what a session without cancelling keeps, and that a *)
(* cancelled transfer stays cancelled.                                       *)
(*                                                                         *)
(* DurableAtRest holds under every input.  SourceKept, WorkConserving,       *)
(* Durable and CompletedStays are those of a session in which the user       *)
(* neither cancels nor disconnects: there a row in the queue or in the hands *)
(* of a perform is one still to be done, and Session, which says so, is      *)
(* inductive given the types and the owners.  CancelSticks needs a queue     *)
(* that is never paused: there Marked says what a cancelled row's task does. *)
(***************************************************************************)

\* A record that is saved now covers every transfer that waits in the queue or has failed.
LEMMA SavedRecord ==
  ASSUME Own(state', pending', perf'), PersistQueue
  PROVE  DurableAtRest'
<1> SUFFICES ASSUME AtRest' PROVE
         /\ \A i \in Jobs : state'[i] \in OwedStates /\ (i \in Uploads => local'[i] # "none")
                            => i \in persisted'
         /\ \A i \in persisted' \cap Uploads : state'[i] \in OwedStates
  BY DEF DurableAtRest
<1>1. \A t \in Tasks : ~Decides(perf', t)
  BY DEF AtRest, Decides
<1>2. \A i \in Jobs : state'[i] \in OwedStates => i \in Range(pending') \/ state'[i] = "failed"
  BY <1>1 DEF Own, OwnedIn, OwedStates, Waiting
<1> QED BY <1>2 DEF PersistQueue, PersistIds

\* A step that starts nothing, saves nothing and gives no transfer back its source, taken
\* at rest, leaves the record as good as it was.
LEMMA UnsavedRecord ==
  ASSUME DurableAtRest, joins' = joins, "hangup" \in suspended => "hangup" \in suspended',
         \A t \in Tasks : perf[t].pc # "idle" => perf'[t].pc # "idle",
         persisted' = persisted,
         \A i \in Jobs : state'[i] \in OwedStates <=> state[i] \in OwedStates,
         \A i \in Uploads : local'[i] # "none" => local[i] # "none",
         persisted \subseteq Jobs
  PROVE  DurableAtRest'
BY DEF DurableAtRest, AtRest

\* A step keeps DurableAtRest.  First the handlers that save, then those that leave
\* something suspended, then those that change nothing of a queue at rest, and the crash.
LEMMA RestStep ==
  TypeInv /\ DurableAtRest /\ Own(state, pending, perf)' /\ [Next]_vars => DurableAtRest'
<1> SUFFICES ASSUME TypeInv, DurableAtRest, Own(state', pending', perf'), [Next]_vars
             PROVE  DurableAtRest'
  BY DEF Own, OwnedIn, SoleIn, Decides
<1>1. QueueOK(pending, activeTask, activeID, perf) /\ RowsOK /\ persisted \subseteq Jobs
  BY DEF TypeInv, RestOK
<1>2. ASSUME \/ \E i \in Jobs : \/ EnqueueUpload(i) \/ Download(i) \/ CancelWaiting(i)
                                \/ Retry(i)
             \/ \E j \in joins : CancelResumes(j) \/ CancelAllResumes(j)
             \/ \E t \in Tasks : SkipTransfer(t) \/ EndPerform(t)
             \/ CancelAllIdle \/ TogglePause \/ RetryAllFailed \/ ClearFinished \/ Disconnected
      PROVE  DurableAtRest'
  <2>1. PersistQueue
    BY <1>2 DEF EnqueueUpload, Download, CancelWaiting, Retry, CancelResumes, CancelAllResumes,
       SkipTransfer, EndPerform, CancelAllIdle, TogglePause, RetryAllFailed, ClearFinished,
       Disconnected
  <2> QED BY <2>1, SavedRecord
<1>3. ASSUME NEW t \in Tasks, perf'[t].pc # "idle" PROVE DurableAtRest'
  BY <1>3 DEF DurableAtRest, AtRest
<1>4. ASSUME NEW t \in Tasks, FindConflict(t) \/ Begin(t) \/ OpenPartial(t) \/ Complete(t)
                              \/ TryAgain(t) \/ GiveUp(t)
      PROVE  DurableAtRest'
  <2>1. perf[t].pc # "idle" /\ \E c \in PCs \ {"idle"} : Goto(t, c)
    BY <1>4 DEF FindConflict, Begin, OpenPartial, Complete, TryAgain, GiveUp, At, InAttempt, PCs
  <2> QED BY <1>1, <1>3, <2>1, GotoOK
<1>5. ASSUME NEW t \in Tasks, BackOff(t) PROVE DurableAtRest'
  <2>1. perf'[t].pc = "nap"
    BY <1>1, <1>5 DEF BackOff, QueueOK, PerfOK, Perf
  <2> QED BY <1>3, <2>1
<1>6. ASSUME NEW choice, ResolveConflict(choice) PROVE DurableAtRest'
  <2>1. waiter \in Tasks /\ perf[waiter].pc = "conflict"
    BY <1>6 DEF ResolveConflict, TypeInv, WaiterOK
  <2>2. \E c \in PCs \ {"idle"} : Goto(waiter, c)
    BY <1>6 DEF ResolveConflict, PCs
  <2> QED BY <1>1, <1>3, <2>1, <2>2, GotoOK
<1>7. ASSUME joins' # {} \/ "hangup" \in suspended' PROVE DurableAtRest'
  BY <1>7 DEF DurableAtRest, AtRest
<1>8. ASSUME CancelAllActive \/ Disconnect \/ \E i \in Jobs : CancelActive(i)
      PROVE  DurableAtRest'
  BY <1>7, <1>8 DEF CancelAllActive, Disconnect, CancelActive
<1>9. ASSUME NEW i \in Jobs, PickPhoto(i) PROVE DurableAtRest'
  <2>1. \A j \in Jobs : state'[j] \in OwedStates <=> state[j] \in OwedStates
    BY <1>1, <1>9 DEF PickPhoto, RowsOK, OwedStates
  <2> QED BY <1>1, <1>9, <2>1, UnsavedRecord DEF PickPhoto, queue, link
<1>10. ASSUME ClearOrphaned PROVE DurableAtRest'
  <2>1. \A i \in Uploads : local'[i] # "none" => local[i] # "none"
    BY <1>1, <1>10, QueueAssumption DEF ClearOrphaned, RowsOK
  <2> QED BY <1>1, <1>10, <2>1, UnsavedRecord DEF ClearOrphaned, queue, link
<1>11. ASSUME BackgroundTaskExpired PROVE DurableAtRest'
  <2>1. \A t \in Tasks : perf'[t].pc = perf[t].pc
    BY <1>1, <1>11, CancelTaskOK DEF BackgroundTaskExpired, QueueOK
  <2> QED BY <1>1, <1>11, <2>1, UnsavedRecord DEF BackgroundTaskExpired, rows, link
<1>12. ASSUME Refreshed \/ BecomeActive PROVE DurableAtRest'
  <2>1. \A t \in Tasks : perf[t].pc # "idle" => perf'[t] = perf[t]
    BY <1>1, <1>12, StartNextOK DEF Refreshed, BecomeActive
  <2>2. \A t \in Tasks : perf[t].pc # "idle" => perf'[t].pc # "idle"
    BY <2>1
  <2> QED BY <1>1, <1>12, <2>2, UnsavedRecord DEF Refreshed, BecomeActive, rows, link
<1>13. ASSUME Connect \/ Connected \/ ConnectFails \/ EnterBackground \/ BackgroundTimeOver
              \/ UNCHANGED vars
       PROVE  DurableAtRest'
  <2>1. /\ joins' = joins /\ perf' = perf /\ persisted' = persisted
        /\ state' = state /\ local' = local
        /\ "hangup" \in suspended => "hangup" \in suspended'
    BY <1>13 DEF Connect, Connected, ConnectFails, EnterBackground, BackgroundTimeOver, vars,
       rows, queue, link
  <2> QED BY <1>1, <2>1, UnsavedRecord
<1>14. ASSUME Crash PROVE DurableAtRest'
  <2>1. \A i \in Jobs : state'[i] \in OwedStates => i \in Restorable
    BY <1>14 DEF Crash, OwedStates
  <2>2. \A i \in Jobs : i \in Restorable => state'[i] \in OwedStates
    BY <1>14 DEF Crash, OwedStates
  <2>3. \A i \in persisted' : i \in persisted /\ (i \in Uploads => i \in Restorable)
    BY <1>14 DEF Crash
  <2>4. Restorable \subseteq persisted'
    BY <1>14 DEF Crash, Restorable
  <2> QED BY <1>1, <2>1, <2>2, <2>3, <2>4 DEF DurableAtRest
<1> QED
  BY <1>2, <1>4, <1>5, <1>6, <1>8, <1>9, <1>10, <1>11, <1>12, <1>13, <1>14
  DEF Next, User, Perform, Resume, Choose, System

\* Whenever nothing is suspended, UserDefaults holds every transfer still owed whose source
\* is there, and no upload that is done: under every input, cancelling, disconnecting and
\* crashes included, a restart at rest loses nothing and repeats nothing.
THEOREM DurableAtRestAlways == Spec => []DurableAtRest
<1>1. Init => TypeInv /\ Own(state, pending, perf) /\ DurableAtRest
  <2>1. Init => DurableAtRest
    BY DEF Init, DurableAtRest, OwedStates
  <2> QED BY <2>1, TypeInit, OwnInit
<1>2. TypeInv /\ Own(state, pending, perf) /\ DurableAtRest /\ [Next]_vars
      => (TypeInv /\ Own(state, pending, perf) /\ DurableAtRest)'
  BY TypeStep, OwnStep, RestStep
<1> QED BY <1>1, <1>2, PTL DEF Spec
-----------------------------------------------------------------------------
(* A session without Cancel, Cancel all and Disconnect.                      *)

Quiet == Inputs \cap {"cancel", "cancelAll", "disconnect"} = {}

PendingOwed(st, q) == \A i \in Range(q) : st[i] \in {"queued", "paused"}

DecidersOwed(st, ps) == \A t \in Tasks : Decides(ps, t) => st[ps[t].job] \in Waiting

Session ==
  /\ joins = {}
  /\ PendingOwed(state, pending) /\ DecidersOwed(state, perf)
  /\ SourceKept /\ WorkConserving

Progress ==
  connection = "connected" /\ ~pauseRequested /\ ~inBackground /\ pending # <<>>
  => activeTask # NoTask

\* startNextTransfer() hands over an owed transfer.  The head of the queue has a row, so it
\* starts whenever it may.
LEMMA StartNextOwed ==
  ASSUME NEW q, NEW act, NEW id, NEW ps, QueueOK(q, act, id, ps), StartNext(q, act, id, ps),
         PendingOwed(state', q), DecidersOwed(state', ps)
  PROVE  PendingOwed(state', pending') /\ DecidersOwed(state', perf') /\ Progress'
<1>1. q \in Seq(Jobs) /\ PerfOK(ps) /\ NoTask \notin Tasks
  BY QueueAssumption DEF QueueOK
<1>2. ASSUME q # <<>> PROVE /\ Head(q) \in Range(q) /\ Range(Tail(q)) \subseteq Range(q)
                            /\ state'[Head(q)] \in {"queued", "paused"}
  <2>1. Range(q) = Range(Tail(q)) \cup {Head(q)}
    BY <1>1, <1>2, TailRange
  <2> QED BY <2>1 DEF PendingOwed
<1>3. ASSUME q # <<>>, NEW t \in Tasks, pending' = Tail(q), activeTask' = t,
             perf' = [ps EXCEPT ![t] = Started(Head(q))]
      PROVE  PendingOwed(state', pending') /\ DecidersOwed(state', perf') /\ Progress'
  <2>1. PendingOwed(state', pending')
    BY <1>2, <1>3 DEF PendingOwed
  <2>2. perf'[t].job = Head(q) /\ \A u \in Tasks \ {t} : perf'[u] = ps[u]
    BY <1>1, <1>3 DEF PerfOK, Started
  <2>3. DecidersOwed(state', perf')
    BY <1>2, <1>3, <2>2 DEF DecidersOwed, Decides, Waiting
  <2>4. Progress'
    BY <1>1, <1>3 DEF Progress
  <2> QED BY <2>1, <2>3, <2>4
<1>4. ASSUME pending' = q, activeTask' = act, perf' = ps,
             ~(/\ act = NoTask /\ ~pauseRequested' /\ ~inBackground'
               /\ connection' = "connected" /\ q # <<>> /\ state'[Head(q)] \in RowStates)
      PROVE  PendingOwed(state', pending') /\ DecidersOwed(state', perf') /\ Progress'
  BY <1>2, <1>4 DEF Progress, RowStates
<1> QED BY <1>3, <1>4 DEF StartNext, NoneActive, AfterHead, FreeTasks

\* A row that is still to be done and is not pending, and what becomes of it.
OwedRow(i, s) ==
  /\ i \in Jobs \ Range(pending) /\ state[i] \in Waiting
  /\ SetState({i}, s)[i] = s
  /\ \A j \in Jobs \ {i} : SetState({i}, s)[j] = state[j]

\* The row of a perform that has not decided is still to be done, and does not wait.
LEMMA DeciderRow ==
  ASSUME NEW t \in Tasks, NEW s, TypeInv, Own(state, pending, perf), Session, Decides(perf, t)
  PROVE  OwedRow(perf[t].job, s)
<1>1. perf[t].job \in Jobs
  BY DEF TypeInv, QueueOK, PerfOK, Perf, Decides
<1>2. state[perf[t].job] \in Waiting
  BY DEF Session, DecidersOwed
<1>3. perf[t].job \notin Range(pending)
  BY DEF Own, SoleIn
<1> QED BY <1>1, <1>2, <1>3 DEF OwedRow, SetState, HasJob, Waiting, RowStates

\* Nobody else has it.
LEMMA DeciderSole ==
  ASSUME NEW t \in Tasks, TypeInv, Own(state, pending, perf), Decides(perf, t)
  PROVE  \A u \in Tasks \ {t} : Decides(perf, u) => perf[u].job \in Jobs \ {perf[t].job}
<1>1. \A u \in Tasks : Decides(perf, u) => perf[u].job \in Jobs
  BY DEF TypeInv, QueueOK, PerfOK, Perf, Decides
<1>2. \A u \in Tasks \ {t} : Decides(perf, u) => perf[u].job # perf[t].job
  BY DEF Own, SoleIn
<1> QED BY <1>1, <1>2

\* A step in which a perform decides or goes on: its row gets the state s.
LEMMA DeciderStep ==
  ASSUME TypeInv, Own(state, pending, perf), Session, NEW t \in Tasks, Decides(perf, t), NEW s,
         state' = SetState({perf[t].job}, s),
         NEW ps, \A u \in Tasks \ {t} : ps[u] = perf[u],
         Decides(ps, t) => ps[t].job = perf[t].job /\ s \in Waiting,
         NEW q, Range(q) \subseteq Range(pending) \cup {perf[t].job},
         perf[t].job \in Range(q) => s \in {"queued", "paused"}
  PROVE  PendingOwed(state', q) /\ DecidersOwed(state', ps)
<1> DEFINE i == perf[t].job
<1>1. /\ i \in Jobs /\ state'[i] = s /\ \A j \in Jobs \ {i} : state'[j] = state[j]
      /\ \A u \in Tasks \ {t} : Decides(perf, u) => perf[u].job \in Jobs \ {i}
  <2>1. /\ i \in Jobs /\ SetState({i}, s)[i] = s
        /\ \A j \in Jobs \ {i} : SetState({i}, s)[j] = state[j]
    <3>1. OwedRow(i, s)
      BY DeciderRow
    <3> QED BY <3>1 DEF OwedRow
  <2>2. \A u \in Tasks \ {t} : Decides(perf, u) => perf[u].job \in Jobs \ {i}
    BY DeciderSole
  <2> QED BY <2>1, <2>2
<1>2. pending \in Seq(Jobs)
  BY DEF TypeInv, QueueOK
<1>3. Range(pending) \subseteq Jobs
  BY <1>2 DEF Range
<1>4. PendingOwed(state', q)
  BY <1>1, <1>3 DEF Session, PendingOwed
<1>5. DecidersOwed(state', ps)
  <2>1. ASSUME Decides(ps, t) PROVE state'[ps[t].job] \in Waiting
    BY <1>1, <2>1
  <2>2. ASSUME NEW u \in Tasks \ {t}, Decides(ps, u) PROVE state'[ps[u].job] \in Waiting
    <3>1. ps[u] = perf[u] /\ Decides(perf, u)
      BY <2>2 DEF Decides
    <3>2. state'[perf[u].job] = state[perf[u].job] /\ state[perf[u].job] \in Waiting
      BY <1>1, <3>1 DEF Session, DecidersOwed
    <3> QED BY <3>1, <3>2
  <2> QED BY <2>1, <2>2 DEF DecidersOwed
<1> QED BY <1>4, <1>5

\* An upload whose row is still owed after the step was owed before it, and no clean-up
\* took its source.
LEMMA SourceStep ==
  ASSUME SourceKept,
         \A i \in Uploads : state'[i] \in OwedStates =>
           state[i] \in OwedStates /\ (local[i] # "none" => local'[i] # "none")
  PROVE  SourceKept'
BY DEF SourceKept

\* What a perform that moves on leaves to the others.
LEMMA MoveOwed ==
  ASSUME TypeInv, Own(state, pending, perf), Session, NEW t \in Tasks, Decides(perf, t),
         NEW c \in PCs \ {"idle"}, Goto(t, c), NEW s, state' = SetState({perf[t].job}, s),
         s \in Waiting \/ c = "end", pending' = pending
  PROVE  PendingOwed(state', pending') /\ DecidersOwed(state', perf')
<1>1. QueueOK(pending, activeTask, activeID, perf) /\ perf[t].pc # "idle"
  BY DEF TypeInv, Decides
<1>2. /\ perf'[t].pc = c /\ perf'[t].job = perf[t].job
      /\ \A u \in Tasks \ {t} : perf'[u] = perf[u]
  BY <1>1, GotoOK
<1>3. Decides(perf', t) => perf'[t].job = perf[t].job /\ s \in Waiting
  BY <1>2 DEF Decides
<1>4. perf[t].job \notin Range(pending)
  BY DeciderRow DEF Decides, OwedRow
<1> DEFINE ps == perf'
<1>5. /\ \A u \in Tasks \ {t} : ps[u] = perf[u]
      /\ Decides(ps, t) => ps[t].job = perf[t].job /\ s \in Waiting
  BY <1>2, <1>3
<1>6. Range(pending) \subseteq Range(pending) \cup {perf[t].job}
  OBVIOUS
<1> HIDE DEF ps
<1>7. PendingOwed(state', pending) /\ DecidersOwed(state', ps)
  BY <1>4, <1>5, <1>6, DeciderStep DEF Decides
<1> QED BY <1>7 DEF ps

\* Where no row changes and the queue and the performs' jobs stay, the rows stay owed.
LEMMA StillOwed ==
  ASSUME Session, state' = state, pending' = pending,
         \A t \in Tasks : Decides(perf', t) => Decides(perf, t) /\ perf'[t].job = perf[t].job
  PROVE  PendingOwed(state', pending') /\ DecidersOwed(state', perf')
BY DEF Session, PendingOwed, DecidersOwed, Decides

\* Rows that join the queue join it as queued; no waiting row is touched.
LEMMA JoinOwed ==
  ASSUME TypeInv, Session, NEW new, new \subseteq Jobs, \A i \in new : state'[i] = "queued",
         \A i \in Jobs : state[i] \in Waiting => i \in new \/ state'[i] = state[i],
         NEW q, Range(q) \subseteq Range(pending) \cup new
  PROVE  PendingOwed(state', q) /\ DecidersOwed(state', perf)
<1>1. pending \in Seq(Jobs) /\ PerfOK(perf)
  BY DEF TypeInv, QueueOK
<1>2. Range(pending) \subseteq Jobs
  BY <1>1 DEF Range
<1>3. PendingOwed(state', q)
  BY <1>2 DEF Session, PendingOwed, Waiting
<1>4. \A t \in Tasks : Decides(perf, t) => perf[t].job \in Jobs
  BY <1>1 DEF PerfOK, Perf, Decides
<1>5. DecidersOwed(state', perf)
  <2>1. ASSUME NEW t \in Tasks, Decides(perf, t) PROVE state'[perf[t].job] \in Waiting
    <3>1. perf[t].job \in Jobs /\ state[perf[t].job] \in Waiting
      BY <1>4, <2>1 DEF Session, DecidersOwed
    <3> QED BY <3>1 DEF Waiting
  <2> QED BY <2>1 DEF DecidersOwed
<1> QED BY <1>3, <1>5

\* Rows that are not waiting may change as they like.
LEMMA RestOwed ==
  ASSUME TypeInv, Session, \A i \in Jobs : state[i] \in Waiting => state'[i] = state[i]
  PROVE  PendingOwed(state', pending) /\ DecidersOwed(state', perf)
<1> DEFINE new == {}
<1>1. /\ new \subseteq Jobs /\ \A i \in new : state'[i] = "queued"
      /\ \A i \in Jobs : state[i] \in Waiting => i \in new \/ state'[i] = state[i]
      /\ Range(pending) \subseteq Range(pending) \cup new
  OBVIOUS
<1> HIDE DEF new
<1> QED BY <1>1, JoinOwed

(***************************************************************************)
(* A step keeps Session.  First the steps that start nothing, then those     *)
(* that end with startNextTransfer().                                        *)
(***************************************************************************)
LEMMA SessionStep ==
  ASSUME Quiet
  PROVE  TypeInv /\ Own(state, pending, perf) /\ Session /\ [Next]_vars => Session'
<1> SUFFICES ASSUME TypeInv, Own(state, pending, perf), Session, [Next]_vars PROVE Session'
  OBVIOUS
<1> DEFINE Owed2 == PendingOwed(state', pending') /\ DecidersOwed(state', perf')
<1>1. /\ QueueOK(pending, activeTask, activeID, perf) /\ PerfOK(perf) /\ RowsOK
      /\ pending \in Seq(Jobs) /\ joins = {} /\ SourceKept /\ Uploads \subseteq Jobs
  BY QueueAssumption DEF TypeInv, QueueOK, Session
<1>2. ASSUME joins' = {}, Owed2, SourceKept', WorkConserving' PROVE Session'
  BY <1>2 DEF Session, PendingOwed, DecidersOwed, Decides
<1>3. ASSUME UNCHANGED <<connection, suspended, pauseRequested, inBackground, pending, activeTask>>
      PROVE  WorkConserving'
  BY <1>3 DEF Session, WorkConserving
<1>4. ASSUME Progress' PROVE WorkConserving'
  BY <1>4 DEF Progress, WorkConserving
<1>5. ASSUME state' = state, local' = local PROVE SourceKept'
  BY <1>5 DEF Session, SourceKept
<1>6. ASSUME NEW q, StartNext(q, activeTask, activeID, perf), q \in Seq(Jobs),
             PendingOwed(state', q), DecidersOwed(state', perf), joins' = joins, SourceKept'
      PROVE  Session'
  <2>1. QueueOK(q, activeTask, activeID, perf)
    BY <1>1, <1>6 DEF QueueOK
  <2>2. Owed2 /\ Progress'
    BY <1>6, <2>1, StartNextOwed
  <2> QED BY <1>1, <1>2, <1>4, <1>6, <2>2
<1> HIDE DEF Owed2
<1>7. ASSUME NEW i \in Jobs, PickPhoto(i) PROVE Session'
  <2>1. \A j \in Jobs : state[j] \in Waiting => state'[j] = state[j]
    BY <1>1, <1>7 DEF PickPhoto, RowsOK, Waiting
  <2>2. PendingOwed(state', pending) /\ DecidersOwed(state', perf)
    BY <2>1, RestOwed
  <2>3. Owed2
    BY <1>7, <2>2 DEF PickPhoto, queue, Owed2
  <2>4. SourceKept'
    BY <1>1, <1>7 DEF PickPhoto, RowsOK, SourceKept, OwedStates
  <2>5. joins' = {} /\ WorkConserving'
    BY <1>1, <1>3, <1>7 DEF PickPhoto, queue, modes, link
  <2> QED BY <1>2, <2>3, <2>4, <2>5
<1>8. ASSUME ClearFinished PROVE Session'
  <2>1. \A j \in Jobs : state[j] \in Waiting => state'[j] = state[j]
    BY <1>8 DEF ClearFinished, Waiting
  <2>2. PendingOwed(state', pending) /\ DecidersOwed(state', perf)
    BY <2>1, RestOwed
  <2>3. Owed2
    BY <1>8, <2>2 DEF ClearFinished, queue, Owed2
  <2>4. SourceKept'
    BY <1>1, <1>8 DEF ClearFinished, CleanupUpload, SourceKept, OwedStates
  <2>5. joins' = {} /\ WorkConserving'
    BY <1>1, <1>3, <1>8 DEF ClearFinished, queue, modes, link
  <2> QED BY <1>2, <2>3, <2>4, <2>5
<1>9. ASSUME state' = state, pending' = pending, joins' = joins, SourceKept', WorkConserving',
             \A t \in Tasks : Decides(perf', t) => Decides(perf, t) /\ perf'[t].job = perf[t].job
      PROVE  Session'
  BY <1>1, <1>2, <1>9, StillOwed DEF Owed2
<1>10. ASSUME ClearOrphaned PROVE Session'
  <2>1. SourceKept'
    BY <1>1, <1>10 DEF ClearOrphaned, HasJob, RowStates, RowsOK, SourceKept, OwedStates
  <2>2. WorkConserving'
    BY <1>3, <1>10 DEF ClearOrphaned, queue, modes, link
  <2> QED BY <1>9, <1>10, <2>1, <2>2 DEF ClearOrphaned, queue
<1>11. ASSUME Connect \/ Connected \/ ConnectFails \/ Disconnected \/ EnterBackground
              \/ BackgroundTimeOver \/ UNCHANGED vars
       PROVE  Session'
  <2>1. state' = state /\ local' = local /\ UNCHANGED queue /\ joins' = joins
    BY <1>11 DEF Connect, Connected, ConnectFails, Disconnected, EnterBackground,
       BackgroundTimeOver, vars, rows
  <2>2. WorkConserving'
    BY <1>11 DEF Connect, Connected, ConnectFails, Disconnected, EnterBackground,
       BackgroundTimeOver, vars, queue, modes, link, Session, WorkConserving
  <2> QED BY <1>5, <1>9, <2>1, <2>2 DEF queue
<1>12. ASSUME perf' = CancelTask, state' = state, local' = local, pending' = pending,
              joins' = joins, pauseRequested'
       PROVE  Session'
  <2>1. \A t \in Tasks : Decides(perf', t) => Decides(perf, t) /\ perf'[t].job = perf[t].job
    BY <1>12, MovesKeepOwners DEF Decides
  <2>2. WorkConserving'
    BY <1>12 DEF WorkConserving
  <2> QED BY <1>5, <1>9, <1>12, <2>1, <2>2
<1>13. ASSUME BackgroundTaskExpired PROVE Session'
  BY <1>12, <1>13 DEF BackgroundTaskExpired, rows
<1>14. ASSUME NEW t \in Tasks, Decides(perf, t), NEW c \in PCs \ {"idle", "end"}, Goto(t, c),
              state' = state, pending' = pending, joins' = joins, SourceKept', WorkConserving'
       PROVE  Session'
  <2>1. \A u \in Tasks : Decides(perf', u) => Decides(perf, u) /\ perf'[u].job = perf[u].job
    BY <1>14, MovesKeepOwners DEF Decides
  <2> QED BY <1>9, <1>14, <2>1
<1>15. ASSUME NEW t \in Tasks, FindConflict(t) \/ TryAgain(t) PROVE Session'
  <2>1. Decides(perf, t) /\ \E c \in PCs \ {"idle", "end"} : Goto(t, c)
    BY <1>15 DEF FindConflict, TryAgain, At, Decides, PCs
  <2>2. /\ state' = state /\ local' = local /\ pending' = pending /\ joins' = joins
        /\ WorkConserving'
    BY <1>3, <1>15 DEF FindConflict, TryAgain, rows, elsewhere, modes, link
  <2> QED BY <1>5, <1>14, <2>1, <2>2
<1>16. ASSUME NEW choice, ResolveConflict(choice) PROVE Session'
  <2>1. waiter \in Tasks /\ perf[waiter].pc = "conflict"
    BY <1>16 DEF ResolveConflict, TypeInv, WaiterOK
  <2>2. Decides(perf, waiter) /\ \E c \in PCs \ {"idle", "end"} : Goto(waiter, c)
    BY <1>16, <2>1 DEF ResolveConflict, Decides, PCs
  <2>3. /\ state' = state /\ local' = local /\ pending' = pending /\ joins' = joins
        /\ WorkConserving'
    BY <1>3, <1>16 DEF ResolveConflict, rows, modes, link
  <2> QED BY <1>5, <1>14, <2>1, <2>2, <2>3
<1>17. ASSUME NEW t \in Tasks, OpenPartial(t) PROVE Session'
  <2>1. Decides(perf, t) /\ Goto(t, "copy") /\ "copy" \in PCs \ {"idle", "end"}
    BY <1>17 DEF OpenPartial, At, Decides, PCs
  <2>2. /\ state' = state /\ pending' = pending /\ joins' = joins /\ WorkConserving'
        /\ \A i \in Uploads : local'[i] = local[i]
    BY <1>1, <1>3, <1>17 DEF OpenPartial, elsewhere, modes, link, RowsOK
  <2>3. SourceKept'
    BY <1>1, <2>2 DEF SourceKept
  <2> QED BY <1>14, <2>1, <2>2, <2>3
<1>18. ASSUME NEW t \in Tasks, BackOff(t) PROVE Session'
  <2>1. perf'[t].pc = "nap" /\ perf'[t].job = perf[t].job /\ Decides(perf, t)
    <3>1. perf[t] \in Perf  BY <1>1 DEF PerfOK
    <3> QED BY <1>1, <1>18, <3>1 DEF BackOff, InAttempt, PerfOK, Perf, Decides
  <2>2. \A u \in Tasks \ {t} : perf'[u] = perf[u]
    BY <1>1, <1>18 DEF BackOff, PerfOK
  <2>3. \A u \in Tasks : Decides(perf', u) => Decides(perf, u) /\ perf'[u].job = perf[u].job
    BY <2>1, <2>2 DEF Decides
  <2>4. /\ state' = state /\ local' = local /\ pending' = pending /\ joins' = joins
        /\ WorkConserving'
    BY <1>3, <1>18 DEF BackOff, rows, elsewhere, modes, link
  <2> QED BY <1>5, <1>9, <2>3, <2>4
<1>19. ASSUME NEW t \in Tasks, Begin(t) PROVE Session'
  <2>1. /\ Decides(perf, t) /\ Goto(t, "run") /\ pending' = pending
        /\ state' = SetState({perf[t].job}, "transferring")
        /\ "run" \in PCs \ {"idle"} /\ "transferring" \in Waiting
    BY <1>19 DEF Begin, At, Decides, PCs, Waiting
  <2>2. Owed2
    BY <2>1, MoveOwed DEF Owed2, Decides
  <2>3. /\ \A j \in Jobs \ {perf[t].job} : state'[j] = state[j]
        /\ state[perf[t].job] \in Waiting
    <3>1. Decides(perf, t)
      BY <2>1
    <3>2. PICK s \in {"transferring"} : state' = SetState({perf[t].job}, s)
      BY <2>1
    <3>3. /\ perf[t].job \in Jobs \ Range(pending) /\ state[perf[t].job] \in Waiting
          /\ SetState({perf[t].job}, s)[perf[t].job] = s
          /\ \A j \in Jobs \ {perf[t].job} : SetState({perf[t].job}, s)[j] = state[j]
      BY <3>1, DeciderRow DEF Decides, OwedRow
    <3> QED BY <3>2, <3>3
  <2>4. SourceKept'
    <3>1. local' = local  BY <1>19 DEF Begin
    <3> QED BY <1>1, <2>3, <3>1, SourceStep DEF Waiting, OwedStates
  <2>5. joins' = {} /\ WorkConserving'
    BY <1>1, <1>3, <1>19 DEF Begin, elsewhere, modes, link
  <2> QED BY <1>2, <2>2, <2>4, <2>5
<1>20. ASSUME NEW t \in Tasks, Complete(t) PROVE Session'
  <2>1. /\ Decides(perf, t) /\ Goto(t, "end") /\ pending' = pending
        /\ state' = SetState({perf[t].job}, "completed") /\ "end" \in PCs \ {"idle"}
    BY <1>20 DEF Complete, At, Decides, PCs
  <2>2. Owed2
    BY <2>1, MoveOwed DEF Owed2, Decides
  <2>3. /\ \A j \in Jobs \ {perf[t].job} : state'[j] = state[j]
        /\ perf[t].job \in Jobs /\ state'[perf[t].job] = "completed"
    <3>1. Decides(perf, t)
      BY <2>1
    <3>2. PICK s \in {"completed"} : state' = SetState({perf[t].job}, s)
      BY <2>1
    <3>3. /\ perf[t].job \in Jobs \ Range(pending) /\ state[perf[t].job] \in Waiting
          /\ SetState({perf[t].job}, s)[perf[t].job] = s
          /\ \A j \in Jobs \ {perf[t].job} : SetState({perf[t].job}, s)[j] = state[j]
      BY <3>1, DeciderRow DEF Decides, OwedRow
    <3> QED BY <3>2, <3>3
  <2>4. \A j \in Jobs \ {perf[t].job} : local'[j] = local[j]
    BY <1>1, <1>20, <2>3 DEF Complete, CleanupUpload, RowsOK
  <2>5. SourceKept'
    BY <1>1, <2>3, <2>4, SourceStep DEF OwedStates
  <2>6. joins' = {} /\ WorkConserving'
    BY <1>1, <1>3, <1>20 DEF Complete, elsewhere, modes, link
  <2> QED BY <1>2, <2>2, <2>5, <2>6
<1>21. ASSUME NEW t \in Tasks, GiveUp(t) PROVE Session'
  <2> DEFINE i == perf[t].job
  <2>1. Decides(perf, t) /\ Goto(t, "end") /\ "end" \in PCs \ {"idle"} /\ joins' = joins
    BY <1>21 DEF GiveUp, InAttempt, At, Decides, PCs, elsewhere
  <2>2. PICK s \in {"paused", "cancelled", "failed"} :
          /\ state' = SetState({i}, s)
          /\ s = "paused" <=> pauseRequested
          /\ pending' = IF s = "paused" THEN Reinsert(i) ELSE pending
          /\ local' = CASE s = "paused" -> local [] s = "cancelled" -> Cleanup({i})
                        [] OTHER -> AfterFailure(i)
    BY <1>21 DEF GiveUp
  <2>3. /\ \A j \in Jobs \ {i} : state'[j] = state[j]
        /\ i \in Jobs \ Range(pending) /\ state[i] \in Waiting /\ state'[i] = s
    <3>1. /\ i \in Jobs \ Range(pending) /\ state[i] \in Waiting
          /\ SetState({i}, s)[i] = s
          /\ \A j \in Jobs \ {i} : SetState({i}, s)[j] = state[j]
      BY <2>1, DeciderRow DEF Decides, OwedRow
    <3> QED BY <2>2, <3>1
  <2>4. Owed2
    <3>1. CASE s = "paused"
      <4>1. Range(<<i>>) = {i} /\ <<i>> \in Seq(Jobs)
        BY <2>3 DEF Range
      <4> DEFINE front == <<i>>
      <4> HIDE DEF front
      <4>2. front \in Seq(Jobs) /\ Range(front) = {i} /\ pending' = front \o pending
        BY <2>2, <3>1, <4>1 DEF Reinsert, front
      <4>3. Range(pending') \subseteq Range(pending) \cup {i}
        BY <1>1, <4>2, ConcatRange
      <4>4. /\ perf'[t].pc = "end" /\ \A u \in Tasks \ {t} : perf'[u] = perf[u]
        BY <1>1, <2>1, GotoOK DEF Decides
      <4> DEFINE ps == perf'
                 q == pending'
      <4>5. /\ \A u \in Tasks \ {t} : ps[u] = perf[u]
            /\ Decides(ps, t) => ps[t].job = i /\ s \in Waiting
            /\ Range(q) \subseteq Range(pending) \cup {i}
        BY <4>3, <4>4 DEF Decides
      <4> HIDE DEF ps, q
      <4>6. PendingOwed(state', q) /\ DecidersOwed(state', ps)
        BY <2>1, <2>2, <3>1, <4>5, DeciderStep DEF Decides
      <4> QED BY <4>6 DEF Owed2, ps, q
    <3>2. CASE s # "paused"
      BY <2>1, <2>2, <3>2, MoveOwed DEF Owed2, Decides
    <3> QED BY <3>1, <3>2
  <2>5. SourceKept'
    <3>1. \A j \in Uploads \ {i} : local'[j] = local[j]
      BY <1>1, <2>2 DEF Cleanup, AfterFailure, CleanupUpload, CleanupDownload
    <3>2. i \in Uploads /\ s # "cancelled" => local'[i] = local[i]
      BY <1>1, <2>2 DEF AfterFailure, CleanupDownload
    <3> QED BY <1>1, <2>2, <2>3, <3>1, <3>2, SourceStep DEF Waiting, OwedStates
  <2>6. WorkConserving'
    <3>1. CASE s = "paused"
      BY <1>21, <2>2, <3>1 DEF GiveUp, elsewhere, modes, WorkConserving
    <3>2. CASE s # "paused"
      BY <1>3, <1>21, <2>2, <3>2 DEF GiveUp, elsewhere, modes, link
    <3> QED BY <3>1, <3>2
  <2> QED BY <1>1, <1>2, <2>1, <2>4, <2>5, <2>6
<1>22. ASSUME NEW i \in Jobs, EnqueueUpload(i) \/ Download(i) \/ Retry(i) PROVE Session'
  <2> DEFINE new == {i}
             q == Append(pending, i)
  <2>1. /\ q \in Seq(Jobs) /\ Range(q) = Range(pending) \cup {i}
    BY <1>1, AppendRange
  <2>2. state'[i] = "queued" /\ \A j \in Jobs \ {i} : state'[j] = state[j]
    BY <1>1, <1>22, RowOne DEF EnqueueUpload, Download, Retry, IsRetryable, SetState, HasJob,
       RowStates, RowsOK
  <2>3. /\ new \subseteq Jobs /\ \A j \in new : state'[j] = "queued"
        /\ \A j \in Jobs : state[j] \in Waiting => j \in new \/ state'[j] = state[j]
        /\ Range(q) \subseteq Range(pending) \cup new
    BY <2>1, <2>2
  <2>4. StartNext(q, activeTask, activeID, perf) /\ joins' = joins
    BY <1>22 DEF EnqueueUpload, Download, Retry
  <2>5. SourceKept'
    BY <1>1, <1>22, <2>2 DEF EnqueueUpload, Download, Retry, IsRetryable, RowsOK, SourceKept,
       OwedStates
  <2> HIDE DEF new, q
  <2>6. PendingOwed(state', q) /\ DecidersOwed(state', perf)
    BY <2>3, JoinOwed
  <2> QED BY <1>6, <2>1, <2>4, <2>5, <2>6
<1>23. ASSUME RetryAllFailed PROVE Session'
  <2> DEFINE failed == {i \in Jobs : state[i] = "failed" /\ i \notin Range(pending)}
  <2>1. PICK r \in SetToSeqs(failed) : StartNext(pending \o r, activeTask, activeID, perf)
    BY <1>23 DEF RetryAllFailed
  <2>2. IsFiniteSet(failed) /\ failed \subseteq Jobs
    BY QueueAssumption, FS_Subset
  <2>3. r \in Seq(Jobs) /\ Range(r) = failed
    BY <2>2, OrdersRange, SeqMonotonic
  <2> DEFINE q == pending \o r
  <2>4. q \in Seq(Jobs) /\ Range(q) = Range(pending) \cup failed
    BY <1>1, <2>3, ConcatRange
  <2>5. state' = SetState(failed, "queued") /\ joins' = joins /\ local' = local
    BY <1>23 DEF RetryAllFailed
  <2>6. \A j \in Jobs : IF j \in failed THEN state'[j] = "queued" /\ state[j] = "failed"
                                        ELSE state'[j] = state[j]
    BY <2>5 DEF SetState, HasJob, RowStates
  <2>7. SourceKept'
    BY <1>1, <2>5, <2>6 DEF SourceKept, OwedStates
  <2>8. StartNext(q, activeTask, activeID, perf)
    BY <2>1
  <2> HIDE DEF failed, q
  <2>9. PendingOwed(state', q) /\ DecidersOwed(state', perf)
    BY <2>2, <2>4, <2>6, JoinOwed
  <2> QED BY <1>6, <2>4, <2>5, <2>7, <2>8, <2>9
<1>24. ASSUME StartNext(pending, activeTask, activeID, perf), state' = state, local' = local,
              joins' = joins
       PROVE  Session'
  <2>1. PendingOwed(state', pending) /\ DecidersOwed(state', perf)
    BY <1>24, RestOwed
  <2> QED BY <1>1, <1>5, <1>6, <1>24, <2>1
<1>25. ASSUME Refreshed \/ BecomeActive PROVE Session'
  BY <1>24, <1>25 DEF Refreshed, BecomeActive, rows
<1>26. ASSUME TogglePause PROVE Session'
  <2>1. /\ state' = state /\ local' = local /\ joins' = joins
        /\ pauseRequested' = isQueuePaused'
    BY <1>26 DEF TogglePause, rows
  <2>2. CASE isQueuePaused'
    BY <1>12, <1>26, <2>1, <2>2 DEF TogglePause
  <2>3. CASE ~isQueuePaused'
    BY <1>24, <1>26, <2>1, <2>3 DEF TogglePause, ResumeQueue
  <2> QED BY <2>2, <2>3
<1>27. ASSUME NEW t \in Tasks, NEW rest, rest = Ended(t), QueueOK(pending, NoTask, NoJob, rest),
              PendingOwed(state', pending), DecidersOwed(state', rest),
              StartNext(pending, NoTask, NoJob, rest), joins' = joins, SourceKept'
       PROVE  Session'
  <2>1. Owed2 /\ Progress'
    BY <1>27, StartNextOwed DEF Owed2
  <2> QED BY <1>1, <1>2, <1>4, <1>27, <2>1
<1>28. ASSUME NEW t \in Tasks
       PROVE  /\ QueueOK(pending, NoTask, NoJob, Ended(t))
              /\ Ended(t)[t] = Idle /\ \A u \in Tasks \ {t} : Ended(t)[u] = perf[u]
  BY <1>1, PerfUpdate DEF Ended, QueueOK, HandleOK, PerfOK
<1>29. ASSUME NEW t \in Tasks, EndPerform(t) PROVE Session'
  <2> DEFINE rest == Ended(t)
  <2>1. /\ rest = Ended(t) /\ QueueOK(pending, NoTask, NoJob, rest)
        /\ StartNext(pending, NoTask, NoJob, rest)
        /\ \A u \in Tasks : Decides(rest, u) => rest[u] = perf[u] /\ Decides(perf, u)
    BY <1>28, <1>29 DEF EndPerform, Decides, Idle
  <2>2. state' = state /\ local' = local /\ joins' = joins
    BY <1>29 DEF EndPerform, rows
  <2> HIDE DEF rest
  <2>3. PendingOwed(state', pending) /\ DecidersOwed(state', rest)
    BY <2>1, <2>2 DEF Session, PendingOwed, DecidersOwed, Decides
  <2> QED BY <1>5, <1>27, <2>1, <2>2, <2>3
<1>30. ASSUME NEW t \in Tasks, SkipTransfer(t) PROVE Session'
  <2> DEFINE rest == Ended(t)
             i == perf[t].job
  <2>1. Decides(perf, t) /\ state' = SetState({i}, "cancelled") /\ joins' = joins
    BY <1>30 DEF SkipTransfer, At, Decides
  <2>2. /\ rest = Ended(t) /\ QueueOK(pending, NoTask, NoJob, rest)
        /\ StartNext(pending, NoTask, NoJob, rest)
        /\ ~Decides(rest, t) /\ \A u \in Tasks \ {t} : rest[u] = perf[u]
    BY <1>28, <1>30 DEF SkipTransfer, Decides, Idle
  <2>3. PICK s \in {"cancelled"} : state' = SetState({i}, s)
    BY <2>1
  <2> HIDE DEF rest
  <2>4. /\ i \in Jobs \ Range(pending)
        /\ SetState({i}, s)[i] = s /\ \A j \in Jobs \ {i} : SetState({i}, s)[j] = state[j]
    <3>1. Decides(perf, t)
      BY <2>1
    <3> QED BY <3>1, DeciderRow DEF Decides, OwedRow
  <2>5. PendingOwed(state', pending) /\ DecidersOwed(state', rest)
    <3>1. /\ \A u \in Tasks \ {t} : rest[u] = perf[u]
          /\ Decides(rest, t) => rest[t].job = i /\ s \in Waiting
          /\ Range(pending) \subseteq Range(pending) \cup {i}
      BY <2>2
    <3> QED BY <2>1, <2>3, <2>4, <3>1, DeciderStep DEF Decides
  <2>6. SourceKept'
    <3>1. \A j \in Uploads \ {i} : local'[j] = local[j]
      BY <1>1, <1>30 DEF SkipTransfer, CleanupUpload
    <3> QED BY <1>1, <2>3, <2>4, <3>1, SourceStep DEF OwedStates
  <2> QED BY <1>27, <2>1, <2>2, <2>5, <2>6
<1>31. ASSUME Crash PROVE Session'
  <2>1. IsFiniteSet(Restorable) /\ Restorable \subseteq Jobs
    BY QueueAssumption, FS_Subset DEF Restorable, TypeInv, RestOK
  <2>2. Range(pending') = Restorable
    BY <1>31, <2>1, OrdersRange DEF Crash
  <2>3. \A i \in Jobs : IF i \in Restorable THEN state'[i] = "queued"
                                            ELSE state'[i] \in {"new", "gone"}
    BY <1>31 DEF Crash
  <2>4. Owed2
    <3>1. PendingOwed(state', pending')
      BY <2>1, <2>2, <2>3 DEF PendingOwed
    <3>2. \A t \in Tasks : ~Decides(perf', t)
      BY <1>31 DEF Crash, Idle, Decides
    <3> QED BY <3>1, <3>2 DEF Owed2, DecidersOwed, Decides
  <2>5. SourceKept'
    <3>1. \A i \in Uploads : i \in Restorable => local[i] # "none" /\ local'[i] # "none"
      BY <1>1, <1>31 DEF Crash, Restorable
    <3> QED BY <1>1, <2>3, <3>1 DEF SourceKept, OwedStates
  <2>6. joins' = {} /\ WorkConserving'
    BY <1>31 DEF Crash, WorkConserving
  <2> QED BY <1>2, <2>4, <2>5, <2>6
<1>32. /\ ~CancelAllIdle /\ ~CancelAllActive /\ ~Disconnect /\ ~Resume
       /\ \A i \in Jobs : ~CancelActive(i) /\ ~CancelWaiting(i)
  BY <1>1 DEF Quiet, CancelAllIdle, CancelAllActive, Disconnect, Resume, CancelActive,
     CancelWaiting, CancelOffered
<1> QED
  BY <1>7, <1>8, <1>10, <1>11, <1>13, <1>15, <1>16, <1>17, <1>18, <1>19, <1>20, <1>21, <1>22,
     <1>23, <1>25, <1>26, <1>29, <1>30, <1>31, <1>32
  DEF Next, User, Perform, Choose, System

LEMMA SessionInit == Init => Session
<1> SUFFICES ASSUME Init PROVE Session  OBVIOUS
<1>1. /\ pending = <<>> /\ Range(<<>>) = {} /\ joins = {}
      /\ \A t \in Tasks : ~Decides(perf, t)
  BY DEF Init, Range, Idle, Decides
<1>2. PendingOwed(state, pending) /\ DecidersOwed(state, perf)
  BY <1>1 DEF PendingOwed, DecidersOwed, Decides
<1>3. SourceKept /\ WorkConserving
  BY <1>1, QueueAssumption DEF Init, SourceKept, OwedStates, WorkConserving
<1> QED BY <1>1, <1>2, <1>3 DEF Session

\* Without Cancel, Cancel all and Disconnect an upload that is still owed has its source: the
\* private copy of a photo, or the access to a picked file, is given up only with the
\* transfer, through failures, retries, pauses, time in the background and restarts.
THEOREM SourceKeptInQuiet ==
  ASSUME Quiet
  PROVE  Spec => []SourceKept
<1>1. Init => TypeInv /\ Own(state, pending, perf) /\ Session
  BY TypeInit, OwnInit, SessionInit
<1>2. TypeInv /\ Own(state, pending, perf) /\ Session /\ [Next]_vars
      => (TypeInv /\ Own(state, pending, perf) /\ Session)'
  BY TypeStep, OwnStep, SessionStep
<1>3. Session => SourceKept
  BY DEF Session
<1> QED BY <1>1, <1>2, <1>3, PTL DEF Spec

\* In such a session a queue that may run does run: no handler leaves work behind with
\* nothing to start it.  (With Cancel one can: run cleared_row_wedges.)
THEOREM WorkConservingInQuiet ==
  ASSUME Quiet
  PROVE  Spec => []WorkConserving
<1>1. Init => TypeInv /\ Own(state, pending, perf) /\ Session
  BY TypeInit, OwnInit, SessionInit
<1>2. TypeInv /\ Own(state, pending, perf) /\ Session /\ [Next]_vars
      => (TypeInv /\ Own(state, pending, perf) /\ Session)'
  BY TypeStep, OwnStep, SessionStep
<1>3. Session => WorkConserving
  BY DEF Session
<1> QED BY <1>1, <1>2, <1>3, PTL DEF Spec
-----------------------------------------------------------------------------
(* The record at every moment, not only at rest: without Cancel all and      *)
(* Disconnect the transfer of every live perform is the one activeTransferID *)
(* names, so that persistQueue() writes it.                                  *)

\* What a handler saves covers every transfer still owed.
LEMMA SavedDurable ==
  ASSUME QueueOK(pending', activeTask', activeID', perf'), OnlyLive(activeTask', perf'),
         Own(state', pending', perf'), PersistQueue
  PROVE  Durable'
<1>1. \A t \in Tasks : Decides(perf', t) => perf'[t].job = activeID'
  <2> SUFFICES ASSUME NEW t \in Tasks, Decides(perf', t) PROVE perf'[t].job = activeID'
    BY DEF Decides
  <2>1. activeTask' = t /\ t # NoTask
    BY QueueAssumption DEF OnlyLive, Decides
  <2> QED BY <2>1 DEF QueueOK, HandleOK
<1>2. \A i \in Jobs : state'[i] \in OwedStates =>
        i \in Range(pending') \/ i = activeID' \/ state'[i] = "failed"
  BY <1>1 DEF Own, OwnedIn, OwedStates, Waiting, Decides
<1> QED BY <1>2 DEF PersistQueue, PersistIds, Durable

\* What a handler that does not save leaves on record is enough if it makes nothing owed.
LEMMA UnsavedDurable ==
  ASSUME Durable, persisted' = persisted, Uploads \subseteq Jobs,
         \A i \in Jobs : state'[i] \in OwedStates => state[i] \in OwedStates,
         \A i \in Uploads : local'[i] # "none" => local[i] # "none"
  PROVE  Durable'
BY DEF Durable

\* A step keeps Durable.  First the handlers that save.
LEMMA RecordStep ==
  ASSUME Quiet
  PROVE  /\ TypeInv /\ Own(state, pending, perf) /\ Session /\ Durable
         /\ TypeInv' /\ Own(state, pending, perf)' /\ Alone' /\ [Next]_vars
         => Durable'
<1> SUFFICES ASSUME TypeInv, Own(state, pending, perf), Session, Durable, TypeInv',
                    Own(state', pending', perf'), OnlyLive(activeTask', perf'), [Next]_vars
             PROVE  Durable'
  BY DEF Own, OwnedIn, SoleIn, Decides, Alone, OnlyLive
<1>1. /\ QueueOK(pending', activeTask', activeID', perf')
      /\ QueueOK(pending, activeTask, activeID, perf)
      /\ RowsOK /\ joins = {} /\ Uploads \subseteq Jobs
  BY QueueAssumption DEF TypeInv, QueueOK, PerfOK, HandleOK, Session
<1>2. ASSUME \/ \E i \in Jobs : EnqueueUpload(i) \/ Download(i) \/ Retry(i)
             \/ \E t \in Tasks : SkipTransfer(t) \/ EndPerform(t)
             \/ TogglePause \/ RetryAllFailed \/ ClearFinished \/ Disconnected
      PROVE  Durable'
  <2>1. PersistQueue
    BY <1>2 DEF EnqueueUpload, Download, Retry, SkipTransfer, EndPerform, TogglePause,
       RetryAllFailed, ClearFinished, Disconnected
  <2> QED BY <1>1, <2>1, SavedDurable
<1>3. ASSUME state' = state, local' = local, persisted' = persisted PROVE Durable'
  BY <1>3 DEF Durable
<1>4. ASSUME \/ \E t \in Tasks : FindConflict(t) \/ BackOff(t) \/ TryAgain(t)
             \/ \E choice \in {"overwrite", "rename", "skip"} : ResolveConflict(choice)
             \/ Connect \/ Connected \/ ConnectFails \/ Refreshed \/ EnterBackground
             \/ BackgroundTimeOver \/ BackgroundTaskExpired \/ BecomeActive \/ UNCHANGED vars
      PROVE  Durable'
  BY <1>3, <1>4 DEF FindConflict, BackOff, TryAgain, ResolveConflict, Connect, Connected,
     ConnectFails, Refreshed, EnterBackground, BackgroundTimeOver, BackgroundTaskExpired,
     BecomeActive, vars, rows, elsewhere
<1>5. ASSUME NEW i \in Jobs, PickPhoto(i) PROVE Durable'
  <2>1. \A j \in Jobs : state'[j] \in OwedStates => state[j] \in OwedStates
    BY <1>1, <1>5 DEF PickPhoto, RowsOK, OwedStates
  <2> QED BY <1>1, <1>5, <2>1, UnsavedDurable DEF PickPhoto
<1>6. ASSUME ClearOrphaned PROVE Durable'
  <2>1. \A j \in Uploads : local'[j] # "none" => local[j] # "none"
    BY <1>1, <1>6 DEF ClearOrphaned, RowsOK
  <2> QED BY <1>1, <1>6, <2>1, UnsavedDurable DEF ClearOrphaned
<1>7. ASSUME NEW t \in Tasks, Begin(t) \/ OpenPartial(t) \/ Complete(t) \/ GiveUp(t)
      PROVE  Durable'
  <2> DEFINE i == perf[t].job
  <2>1. Decides(perf, t) /\ persisted' = persisted
    BY <1>7 DEF Begin, OpenPartial, Complete, GiveUp, InAttempt, At, Decides, elsewhere
  <2>2. i \in Jobs /\ state[i] \in OwedStates
    BY <1>1, <2>1 DEF Session, DecidersOwed, Waiting, OwedStates, QueueOK, PerfOK, Perf, Decides
  <2>3. \A j \in Jobs \ {i} : state'[j] = state[j]
    BY <1>7 DEF Begin, OpenPartial, Complete, GiveUp, SetState
  <2>4. \A j \in Uploads : local'[j] # "none" => local[j] # "none"
    BY <1>1, <1>7 DEF Begin, OpenPartial, Complete, GiveUp, Cleanup, AfterFailure,
       CleanupUpload, CleanupDownload, RowsOK
  <2>5. \A j \in Jobs : state'[j] \in OwedStates => state[j] \in OwedStates
    BY <2>2, <2>3
  <2> QED BY <1>1, <2>1, <2>4, <2>5, UnsavedDurable
<1>8. ASSUME Crash PROVE Durable'
  <2>1. \A i \in Jobs : state'[i] \in OwedStates => i \in Restorable
    BY <1>8 DEF Crash, OwedStates
  <2>2. Restorable \subseteq persisted'
    BY <1>8 DEF Crash, Restorable
  <2> QED BY <2>1, <2>2 DEF Durable
<1>9. /\ ~CancelAllIdle /\ ~CancelAllActive /\ ~Disconnect /\ ~Resume
      /\ \A i \in Jobs : ~CancelActive(i) /\ ~CancelWaiting(i)
  BY <1>1 DEF Quiet, CancelAllIdle, CancelAllActive, Disconnect, Resume, CancelActive,
     CancelWaiting, CancelOffered
<1> QED
  BY <1>2, <1>4, <1>5, <1>6, <1>7, <1>8, <1>9 DEF Next, User, Perform, Choose, System

\* Without Cancel, Cancel all and Disconnect every transfer that is owed and whose source is
\* there is on record at every moment, so at every crash, also between two handlers.
THEOREM DurableInQuiet ==
  ASSUME Quiet
  PROVE  Spec => []Durable
<1> DEFINE IInv == TypeInv /\ Own(state, pending, perf) /\ Session /\ Alone /\ Durable
<1>1. Init => IInv
  <2>1. Init => Alone /\ Durable
    BY DEF Init, Idle, Alone, OnlyLive, Durable, OwedStates
  <2> QED BY <2>1, TypeInit, OwnInit, SessionInit
<1>2. IInv /\ [Next]_vars => IInv'
  <2>1. KeepsHandle
    BY DEF Quiet, KeepsHandle
  <2>2. IInv /\ [Next]_vars => TypeInv' /\ Own(state, pending, perf)' /\ Session' /\ Alone'
    BY <2>1, TypeStep, OwnStep, SessionStep, AloneStep
  <2>3. IInv /\ [Next]_vars /\ TypeInv' /\ Own(state, pending, perf)' /\ Alone' => Durable'
    BY RecordStep
  <2> QED BY <2>2, <2>3
<1>3. IInv => Durable
  OBVIOUS
<1> QED BY <1>1, <1>2, <1>3, PTL DEF Spec
-----------------------------------------------------------------------------
\* A step that is no crash leaves a completed row completed or removes it: no perform has it
\* any more, and only failed rows are retried.
LEMMA CompletedStep ==
  ASSUME Quiet, TypeInv, Own(state, pending, perf), [Next]_vars, ~Crash, NEW i \in Jobs,
         state[i] = "completed"
  PROVE  state'[i] \in {"completed", "gone"}
<1> DEFINE Goal == state'[i] \in {"completed", "gone"}
<1>1. RowsOK /\ \A t \in Tasks : Decides(perf, t) => perf[t].job # i
  BY DEF TypeInv, Own, SoleIn, Settled
<1>2. ASSUME state' = state PROVE Goal
  BY <1>2
<1>3. ASSUME NEW j \in Jobs, PickPhoto(j) \/ EnqueueUpload(j) \/ Download(j) \/ Retry(j)
      PROVE  Goal
  BY <1>1, <1>3 DEF PickPhoto, EnqueueUpload, Download, Retry, IsRetryable, SetState, RowsOK
<1>4. ASSUME RetryAllFailed PROVE Goal
  BY <1>4 DEF RetryAllFailed, SetState
<1>5. ASSUME ClearFinished PROVE Goal
  BY <1>5 DEF ClearFinished
<1>6. ASSUME NEW t \in Tasks, SkipTransfer(t) \/ Begin(t) \/ Complete(t) \/ GiveUp(t)
      PROVE  Goal
  <2>1. Decides(perf, t)
    BY <1>6 DEF SkipTransfer, Begin, Complete, GiveUp, InAttempt, At, Decides
  <2>2. perf[t].job # i
    BY <1>1, <2>1 DEF Decides
  <2> QED BY <1>6, <2>2 DEF SkipTransfer, Begin, Complete, GiveUp, SetState
<1>7. ASSUME NEW t \in Tasks, FindConflict(t) \/ OpenPartial(t) \/ BackOff(t) \/ TryAgain(t)
                              \/ EndPerform(t)
      PROVE  Goal
  BY <1>2, <1>7 DEF FindConflict, OpenPartial, BackOff, TryAgain, EndPerform, rows
<1>8. ASSUME TogglePause \/ ClearOrphaned \/ UNCHANGED vars \/ Connect \/ Connected
             \/ ConnectFails \/ Refreshed \/ Disconnected \/ EnterBackground
             \/ BackgroundTimeOver \/ BackgroundTaskExpired \/ BecomeActive
             \/ \E choice \in {"overwrite", "rename", "skip"} : ResolveConflict(choice)
             \/ \E j \in joins : CancelResumes(j)
      PROVE  Goal
  BY <1>2, <1>8 DEF TogglePause, ClearOrphaned, vars, Connect, Connected, ConnectFails,
     Refreshed, Disconnected, EnterBackground, BackgroundTimeOver, BackgroundTaskExpired,
     BecomeActive, ResolveConflict, CancelResumes, rows
<1>9. /\ ~CancelAllIdle /\ ~CancelAllActive /\ ~Disconnect
      /\ \A j \in Jobs : ~CancelActive(j) /\ ~CancelWaiting(j)
  BY DEF Quiet, CancelAllIdle, CancelAllActive, Disconnect, CancelActive, CancelWaiting,
     CancelOffered
<1>10. ASSUME NEW j \in joins, CancelAllResumes(j) PROVE Goal
  <2>1. i \notin Range(pending)
    BY DEF Own, SoleIn, Settled
  <2> QED BY <1>10, <2>1 DEF CancelAllResumes, SetState
<1> HIDE DEF Goal
<1> QED
  <2>1. Goal
    BY <1>3, <1>4, <1>5, <1>6, <1>7, <1>8, <1>9, <1>10
    DEF Next, User, Perform, Resume, Choose, System
  <2> QED BY <2>1 DEF Goal

\* Without Cancel, Cancel all and Disconnect a transfer that has completed is never run
\* again: not by a retry, a pause or a late answer of the SMB client.
THEOREM CompletedStaysInQuiet ==
  ASSUME Quiet
  PROVE  Spec => CompletedStays
<1>1. Init => TypeInv /\ Own(state, pending, perf)
  BY TypeInit, OwnInit
<1>2. TypeInv /\ Own(state, pending, perf) /\ [Next]_vars
      => (TypeInv /\ Own(state, pending, perf))'
  BY TypeStep, OwnStep
<1>3. TypeInv /\ Own(state, pending, perf) /\ [Next]_vars =>
        [\/ \A i \in Jobs : state[i] = "completed" => state'[i] \in {"completed", "gone"}
         \/ Crash]_vars
  BY CompletedStep
<1> QED BY <1>1, <1>2, <1>3, PTL DEF Spec, CompletedStays
-----------------------------------------------------------------------------
(* Cancelling one transfer.  Where nothing is paused, the row of a perform   *)
(* that has begun is transferring, or was cancelled (and perhaps removed) with the task.    *)

CancelOnly == Inputs \cap {"cancelAll", "disconnect", "pause", "background", "crash"} = {}

Calm == ~pauseRequested /\ ~inBackground /\ bgTask = "none"

RunPCs == {"run", "copy", "nap"}

MarkedAs(st, p) ==
  IF p.pc \in RunPCs
  THEN st[p.job] = "transferring" \/ (st[p.job] \in {"cancelled", "gone"} /\ p.cancelled)
  ELSE st[p.job] = "queued"

Marked(st, q, ps) ==
  /\ \A i \in Range(q) : st[i] = "queued"
  /\ \A t \in Tasks : Decides(ps, t) => MarkedAs(st, ps[t])

\* Nothing is paused and nothing goes to the background.
LEMMA CalmStep ==
  ASSUME CancelOnly
  PROVE  Calm /\ [Next]_vars => Calm'
<1> SUFFICES ASSUME Calm, [Next]_vars PROVE Calm'  OBVIOUS
<1>1. ASSUME modes' = modes PROVE Calm'
  BY <1>1 DEF Calm, modes
<1>2. CASE User
  BY <1>1, <1>2 DEF CancelOnly, User, PickPhoto, EnqueueUpload, Download, Retry, CancelActive,
     CancelWaiting, CancelAllIdle, CancelAllActive, TogglePause, RetryAllFailed, ClearFinished,
     ClearOrphaned, Disconnect
<1>3. CASE \E t \in Tasks : Perform(t)
  BY <1>1, <1>3 DEF Perform, FindConflict, SkipTransfer, Begin, OpenPartial, Complete, BackOff,
     TryAgain, GiveUp, EndPerform, elsewhere
<1>4. CASE Resume \/ Choose \/ UNCHANGED vars
  BY <1>1, <1>4 DEF Resume, CancelResumes, CancelAllResumes, Choose, ResolveConflict, vars
<1>5. CASE System
  BY <1>1, <1>5 DEF CancelOnly, Calm, System, Connect, Connected, ConnectFails, Refreshed,
     Disconnected, EnterBackground, BackgroundTimeOver, BackgroundTaskExpired, BecomeActive, Crash
<1> QED BY <1>2, <1>3, <1>4, <1>5 DEF Next

\* startNextTransfer() hands over a queued row.
LEMMA MarkedStart ==
  ASSUME NEW q, NEW act, NEW id, NEW ps, QueueOK(q, act, id, ps), StartNext(q, act, id, ps),
         Marked(state', q, ps)
  PROVE  Marked(state', pending', perf')
<1>1. CASE pending' = q /\ perf' = ps
  BY <1>1
<1>2. ASSUME q # <<>>, NEW t \in Tasks, pending' = Tail(q),
             perf' = [ps EXCEPT ![t] = Started(Head(q))]
      PROVE  Marked(state', pending', perf')
  <2>1. q \in Seq(Jobs) /\ PerfOK(ps)
    BY DEF QueueOK
  <2>2. Range(q) = Range(Tail(q)) \cup {Head(q)}
    BY <1>2, <2>1, TailRange
  <2>3. perf'[t] = Started(Head(q)) /\ \A u \in Tasks \ {t} : perf'[u] = ps[u]
    BY <1>2, <2>1 DEF PerfOK
  <2>4. \A i \in Range(pending') : state'[i] = "queued"
    BY <1>2, <2>2 DEF Marked
  <2>5. MarkedAs(state', perf'[t])
    BY <2>2, <2>3 DEF Marked, MarkedAs, Started, RunPCs
  <2>6. ASSUME NEW u \in Tasks \ {t}, Decides(perf', u) PROVE MarkedAs(state', perf'[u])
    BY <2>3, <2>6 DEF Marked, Decides
  <2> QED BY <2>4, <2>5, <2>6 DEF Marked
<1> QED BY <1>1, <1>2 DEF StartNext, NoneActive, AfterHead, FreeTasks

\* A perform that begins or decides: its row, and nobody else's, gets the state s.
LEMMA MarkedDecider ==
  ASSUME TypeInv, Own(state, pending, perf), Marked(state, pending, perf),
         NEW t \in Tasks, Decides(perf, t),
         \A j \in Jobs \ {perf[t].job} : state'[j] = state[j],
         NEW ps, \A u \in Tasks \ {t} : ps[u] = perf[u],
         Decides(ps, t) => MarkedAs(state', ps[t])
  PROVE  Marked(state', pending, ps)
<1>1. pending \in Seq(Jobs)
  BY DEF TypeInv, QueueOK
<1>2. Range(pending) \subseteq Jobs \ {perf[t].job}
  BY <1>1 DEF Range, Own, SoleIn
<1>3. \A i \in Range(pending) : state'[i] = "queued"
  BY <1>2 DEF Marked
<1>4. \A u \in Tasks \ {t} : Decides(perf, u) => perf[u].job \in Jobs \ {perf[t].job}
  BY DeciderSole DEF Decides
<1>5. ASSUME NEW u \in Tasks \ {t}, Decides(ps, u) PROVE MarkedAs(state', ps[u])
  <2>1. ps[u] = perf[u] /\ Decides(perf, u)
    BY <1>5 DEF Decides
  <2>2. state'[perf[u].job] = state[perf[u].job] /\ MarkedAs(state, perf[u])
    BY <1>4, <2>1 DEF Marked
  <2> QED BY <2>1, <2>2 DEF MarkedAs
<1> QED BY <1>3, <1>5 DEF Marked

\* Rows change that are neither queued nor a perform's, and rows join the queue as queued.
LEMMA MarkedRows ==
  ASSUME TypeInv, Own(state, pending, perf), Marked(state, pending, perf),
         NEW new, new \subseteq Jobs, \A i \in new : state'[i] = "queued" /\ state[i] \in Settled,
         NEW rest, \A i \in rest : state[i] \notin {"queued", "transferring"},
         \A i \in rest : \A t \in Tasks : Decides(perf, t) => perf[t].job # i,
         \A i \in Jobs \ (new \cup rest) : state'[i] = state[i],
         NEW q, Range(q) \subseteq Range(pending) \cup new
  PROVE  Marked(state', q, perf)
<1>1. pending \in Seq(Jobs) /\ PerfOK(perf)
  BY DEF TypeInv, QueueOK
<1>2. Range(pending) \subseteq Jobs
  BY <1>1 DEF Range
<1>3. \A i \in Range(q) : state'[i] = "queued"
  BY <1>2 DEF Marked
<1>4. ASSUME NEW t \in Tasks, Decides(perf, t) PROVE MarkedAs(state', perf[t])
  <2>1. perf[t].job \in Jobs /\ perf[t].job \notin rest /\ perf[t].job \notin new
    BY <1>1, <1>4 DEF PerfOK, Perf, Decides, Own, SoleIn
  <2>2. MarkedAs(state, perf[t])
    BY <1>4 DEF Marked
  <2> QED BY <2>1, <2>2 DEF MarkedAs
<1> QED BY <1>3, <1>4 DEF Marked

\* A step keeps Marked.  First the performs, then the rows, then what cancel() does.
LEMMA MarkedStep ==
  ASSUME CancelOnly
  PROVE  /\ TypeInv /\ Own(state, pending, perf) /\ Alone /\ Calm
         /\ Marked(state, pending, perf) /\ [Next]_vars
         => Marked(state', pending', perf')
<1> SUFFICES ASSUME TypeInv, Own(state, pending, perf), Alone, Calm,
                    Marked(state, pending, perf), [Next]_vars
             PROVE  Marked(state', pending', perf')
  OBVIOUS
<1> DEFINE Goal == Marked(state', pending', perf')
<1>1. /\ QueueOK(pending, activeTask, activeID, perf) /\ PerfOK(perf) /\ RowsOK
      /\ pending \in Seq(Jobs) /\ OnlyLive(activeTask, perf)
  BY DEF TypeInv, QueueOK, Alone
<1>2. ASSUME state' = state, pending' = pending,
             \A t \in Tasks : Decides(perf', t) => MarkedAs(state, perf'[t])
      PROVE  Goal
  BY <1>2 DEF Marked, Decides
<1>3. ASSUME NEW t \in Tasks, NEW c \in PCs \ {"idle"}, Goto(t, c), Decides(perf, t)
      PROVE  /\ perf'[t].pc = c /\ perf'[t].job = perf[t].job
             /\ perf'[t].cancelled = perf[t].cancelled
             /\ \A u \in Tasks \ {t} : perf'[u] = perf[u]
  BY <1>1, <1>3 DEF Goto, PerfOK, Perf, Decides
<1>4. ASSUME NEW t \in Tasks, NEW c \in PCs \ {"idle"}, Goto(t, c), Decides(perf, t),
             state' = state, pending' = pending, perf[t].pc \in RunPCs <=> c \in RunPCs
      PROVE  Goal
  <2>1. /\ perf'[t].pc = c /\ perf'[t].job = perf[t].job
        /\ perf'[t].cancelled = perf[t].cancelled
        /\ \A u \in Tasks \ {t} : perf'[u] = perf[u]
    BY <1>3, <1>4 DEF Decides
  <2>2. MarkedAs(state, perf'[t])
    BY <1>4, <2>1 DEF Marked, MarkedAs, Decides
  <2>3. ASSUME NEW u \in Tasks \ {t}, Decides(perf', u) PROVE MarkedAs(state, perf'[u])
    BY <2>1, <2>3 DEF Marked, Decides
  <2> QED BY <1>2, <1>4, <2>2, <2>3 DEF Decides
<1>5. ASSUME NEW t \in Tasks, FindConflict(t) \/ OpenPartial(t) \/ TryAgain(t) PROVE Goal
  <2>1. /\ Decides(perf, t) /\ state' = state /\ pending' = pending
        /\ \E c \in PCs \ {"idle"} : Goto(t, c) /\ (perf[t].pc \in RunPCs <=> c \in RunPCs)
    BY <1>5 DEF FindConflict, OpenPartial, TryAgain, At, Decides, PCs, RunPCs, rows
  <2> QED BY <1>4, <2>1 DEF Decides
<1>6. ASSUME NEW choice, ResolveConflict(choice) PROVE Goal
  <2>1. waiter \in Tasks /\ perf[waiter].pc = "conflict"
    BY <1>6 DEF ResolveConflict, TypeInv, WaiterOK
  <2>2. /\ Decides(perf, waiter) /\ state' = state /\ pending' = pending
        /\ \E c \in PCs \ {"idle"} :
             Goto(waiter, c) /\ (perf[waiter].pc \in RunPCs <=> c \in RunPCs)
    BY <1>6, <2>1 DEF ResolveConflict, Decides, PCs, RunPCs, rows
  <2> QED BY <1>4, <2>1, <2>2 DEF Decides
<1>7. ASSUME NEW t \in Tasks, BackOff(t) PROVE Goal
  <2>1. /\ perf'[t].pc = "nap" /\ perf'[t].job = perf[t].job
        /\ perf'[t].cancelled = perf[t].cancelled
        /\ \A u \in Tasks \ {t} : perf'[u] = perf[u]
        /\ perf[t].pc \in RunPCs /\ Decides(perf, t)
    <3>1. perf[t] \in Perf  BY <1>1 DEF PerfOK
    <3> QED BY <1>1, <1>7, <3>1 DEF BackOff, InAttempt, PerfOK, Perf, RunPCs, Decides
  <2>2. MarkedAs(state, perf'[t])
    BY <2>1 DEF Marked, MarkedAs, RunPCs, Decides
  <2>3. ASSUME NEW u \in Tasks \ {t}, Decides(perf', u) PROVE MarkedAs(state, perf'[u])
    BY <2>1, <2>3 DEF Marked, Decides
  <2> QED BY <1>2, <1>7, <2>2, <2>3 DEF BackOff, rows, Decides
<1>8. ASSUME NEW t \in Tasks, Begin(t) \/ Complete(t) \/ GiveUp(t) PROVE Goal
  <2> DEFINE i == perf[t].job
             ps == perf'
  <2>1. Decides(perf, t) /\ i \in Jobs /\ MarkedAs(state, perf[t])
    BY <1>1, <1>8 DEF Begin, Complete, GiveUp, InAttempt, At, Marked, PerfOK, Perf, Decides
  <2>2. /\ \A u \in Tasks \ {t} : ps[u] = perf[u]
        /\ ps[t].job = i
        /\ Begin(t) => ps[t].pc = "run"
        /\ ~Begin(t) => ps[t].pc = "end"
    BY <1>1, <1>8 DEF Begin, Complete, GiveUp, Goto, PerfOK, Perf
  <2>3. \A j \in Jobs \ {i} : state'[j] = state[j]
    BY <1>8 DEF Begin, Complete, GiveUp, SetState
  <2>4. pending' = pending
    BY <1>8 DEF Begin, Complete, GiveUp, Calm
  <2>5. Begin(t) => state'[i] = "transferring"
    <3>1. Begin(t) => state[i] = "queued"
      BY <2>1 DEF Begin, At, MarkedAs, RunPCs
    <3> QED BY <2>1, <3>1 DEF Begin, SetState, HasJob, RowStates
  <2> HIDE DEF ps
  <2>6. Decides(ps, t) => MarkedAs(state', ps[t])
    <3>1. CASE Begin(t)
      <4>1. ps[t].pc \in RunPCs
        BY <2>2, <3>1 DEF RunPCs
      <4>2. state'[ps[t].job] = "transferring"
        BY <2>2, <2>5, <3>1
      <4> QED BY <4>1, <4>2 DEF MarkedAs
    <3>2. CASE ~Begin(t)
      BY <2>2, <3>2 DEF Decides
    <3> QED BY <3>1, <3>2
  <2>7. Marked(state', pending, ps)
    BY <2>1, <2>2, <2>3, <2>6, MarkedDecider DEF Decides
  <2> QED BY <2>4, <2>7 DEF ps
<1>9. ASSUME NEW t \in Tasks, NEW rest, rest = Ended(t), Marked(state', pending, rest),
             StartNext(pending, NoTask, NoJob, rest)
      PROVE  Goal
  <2>1. QueueOK(pending, NoTask, NoJob, rest)
    BY <1>1, <1>9, PerfUpdate DEF Ended, QueueOK, HandleOK
  <2> QED BY <1>9, <2>1, MarkedStart
<1>10. ASSUME NEW t \in Tasks
       PROVE  ~Decides(Ended(t), t) /\ \A u \in Tasks \ {t} : Ended(t)[u] = perf[u]
  BY <1>1 DEF Ended, Idle, Decides, PerfOK
<1>11. ASSUME NEW t \in Tasks, SkipTransfer(t) \/ EndPerform(t) PROVE Goal
  <2> DEFINE rest == Ended(t)
  <2>1. /\ rest = Ended(t) /\ StartNext(pending, NoTask, NoJob, rest)
        /\ ~Decides(rest, t) /\ \A u \in Tasks \ {t} : rest[u] = perf[u]
    BY <1>10, <1>11 DEF SkipTransfer, EndPerform
  <2> HIDE DEF rest
  <2>2. CASE SkipTransfer(t)
    <3>1. Decides(perf, t) /\ \A j \in Jobs \ {perf[t].job} : state'[j] = state[j]
      BY <2>2 DEF SkipTransfer, At, Decides, SetState
    <3>2. Marked(state', pending, rest)
      BY <2>1, <3>1, MarkedDecider DEF Decides
    <3> QED BY <1>9, <2>1, <3>2
  <2>3. CASE EndPerform(t)
    <3>1. state' = state
      BY <2>3 DEF EndPerform, rows
    <3>2. ASSUME NEW u \in Tasks, Decides(rest, u) PROVE MarkedAs(state, rest[u])
      BY <2>1, <3>2 DEF Marked, Decides
    <3>3. Marked(state', pending, rest)
      BY <3>1, <3>2 DEF Marked, Decides
    <3> QED BY <1>9, <2>1, <3>3
  <2> QED BY <1>11, <2>2, <2>3
<1>12. ASSUME NEW q, StartNext(q, activeTask, activeID, perf), q \in Seq(Jobs),
              Marked(state', q, perf)
       PROVE  Goal
  <2>1. QueueOK(q, activeTask, activeID, perf)
    BY <1>1, <1>12 DEF QueueOK
  <2> QED BY <1>12, <2>1, MarkedStart
<1>13. ASSUME NEW i \in Jobs, EnqueueUpload(i) \/ Download(i) \/ Retry(i) PROVE Goal
  <2> DEFINE new == {i}
             none == {}
             q == Append(pending, i)
  <2>1. q \in Seq(Jobs) /\ Range(q) = Range(pending) \cup {i}
    BY <1>1, AppendRange
  <2>2. state'[i] = "queued" /\ state[i] \in Settled /\ \A j \in Jobs \ {i} : state'[j] = state[j]
    BY <1>1, <1>13, RowOne DEF EnqueueUpload, Download, Retry, IsRetryable, SetState, HasJob,
       RowStates, RowsOK, Settled
  <2>3. StartNext(q, activeTask, activeID, perf)
    BY <1>13 DEF EnqueueUpload, Download, Retry
  <2>4. /\ new \subseteq Jobs /\ \A j \in new : state'[j] = "queued" /\ state[j] \in Settled
        /\ \A j \in none : state[j] \notin {"queued", "transferring"}
        /\ \A j \in none : \A t \in Tasks : Decides(perf, t) => perf[t].job # j
        /\ \A j \in Jobs \ (new \cup none) : state'[j] = state[j]
        /\ Range(q) \subseteq Range(pending) \cup new
    BY <2>1, <2>2
  <2> HIDE DEF new, none, q
  <2>5. Marked(state', q, perf)
    BY <2>4, MarkedRows DEF Decides
  <2> QED BY <1>12, <2>1, <2>3, <2>5
<1>14. ASSUME RetryAllFailed PROVE Goal
  <2> DEFINE failed == {i \in Jobs : state[i] = "failed" /\ i \notin Range(pending)}
             none == {}
  <2>1. PICK r \in SetToSeqs(failed) : StartNext(pending \o r, activeTask, activeID, perf)
    BY <1>14 DEF RetryAllFailed
  <2>2. IsFiniteSet(failed) /\ failed \subseteq Jobs
    BY QueueAssumption, FS_Subset
  <2>3. r \in Seq(Jobs) /\ Range(r) = failed
    BY <2>2, OrdersRange, SeqMonotonic
  <2> DEFINE q == pending \o r
  <2>4. q \in Seq(Jobs) /\ Range(q) = Range(pending) \cup failed
    BY <1>1, <2>3, ConcatRange
  <2>5. /\ \A i \in failed : state'[i] = "queued" /\ state[i] \in Settled
        /\ \A i \in Jobs \ failed : state'[i] = state[i]
    BY <1>14 DEF RetryAllFailed, SetState, HasJob, RowStates, Settled
  <2>6. /\ \A j \in none : state[j] \notin {"queued", "transferring"}
        /\ \A j \in none : \A t \in Tasks : Decides(perf, t) => perf[t].job # j
        /\ \A j \in Jobs \ (failed \cup none) : state'[j] = state[j]
        /\ Range(q) \subseteq Range(pending) \cup failed
        /\ StartNext(q, activeTask, activeID, perf)
    BY <2>1, <2>4, <2>5
  <2> HIDE DEF failed, none, q
  <2>7. Marked(state', q, perf)
    BY <2>2, <2>5, <2>6, MarkedRows DEF Decides
  <2> QED BY <1>12, <2>4, <2>6, <2>7
<1>15. ASSUME NEW rest, \A i \in rest : state[i] \notin {"queued", "transferring"},
              \A i \in rest : \A t \in Tasks : Decides(perf, t) => perf[t].job # i,
              \A i \in Jobs \ rest : state'[i] = state[i]
       PROVE  Marked(state', pending, perf)
  <2> DEFINE new == {}
  <2>1. /\ new \subseteq Jobs /\ \A j \in new : state'[j] = "queued" /\ state[j] \in Settled
        /\ \A j \in Jobs \ (new \cup rest) : state'[j] = state[j]
        /\ Range(pending) \subseteq Range(pending) \cup new
    BY <1>15
  <2> HIDE DEF new
  <2> QED BY <1>15, <2>1, MarkedRows DEF Decides
<1>16. ASSUME NEW i \in Jobs, PickPhoto(i) PROVE Goal
  <2> DEFINE rest == {i}
  <2>1. /\ \A j \in rest : state[j] \notin {"queued", "transferring"}
        /\ \A j \in Jobs \ rest : state'[j] = state[j]
        /\ \A j \in rest : \A t \in Tasks : Decides(perf, t) => perf[t].job # j
    BY <1>16 DEF PickPhoto, Own, SoleIn, Settled, Decides
  <2> HIDE DEF rest
  <2> QED BY <1>15, <1>16, <2>1 DEF PickPhoto, queue, Decides
<1>17. ASSUME state' = state, UNCHANGED queue PROVE Goal
  BY <1>17 DEF Marked, queue, Decides
<1>18. ASSUME StartNext(pending, activeTask, activeID, perf), state' = state PROVE Goal
  BY <1>1, <1>12, <1>18 DEF Marked, Decides
<1>19. ASSUME \/ ClearOrphaned \/ Connect \/ Connected \/ ConnectFails \/ Disconnected
              \/ UNCHANGED vars \/ \E j \in joins : CancelResumes(j)
       PROVE  Goal
  BY <1>17, <1>19 DEF ClearOrphaned, Connect, Connected, ConnectFails, Disconnected, vars, rows,
     CancelResumes
<1>20. ASSUME Refreshed PROVE Goal
  BY <1>18, <1>20 DEF Refreshed, rows
<1>21. ASSUME ClearFinished PROVE Goal
  <2>1. /\ pending' = pending /\ perf' = perf
        /\ \A i \in Jobs : IF state[i] \in {"completed", "cancelled"} THEN state'[i] = "gone"
                                                                  ELSE state'[i] = state[i]
    BY <1>21 DEF ClearFinished, queue
  <2>2. \A i \in Range(pending) : i \in Jobs
    BY <1>1 DEF Range
  <2>3. ASSUME NEW t \in Tasks, Decides(perf, t) PROVE MarkedAs(state', perf[t])
    <3>1. perf[t].job \in Jobs /\ state[perf[t].job] # "completed" /\ MarkedAs(state, perf[t])
      BY <1>1, <2>3 DEF PerfOK, Perf, Own, SoleIn, Settled, Marked, Decides
    <3> QED BY <2>1, <3>1 DEF MarkedAs
  <2> QED BY <2>1, <2>2, <2>3 DEF Marked, Decides
<1>22. ASSUME NEW i \in Jobs, CancelOffered(i)
       PROVE  /\ i \notin Range(pending)
              /\ \A t \in Tasks : Decides(perf, t) /\ perf[t].job = i =>
                   perf[t].pc \in RunPCs /\ t = activeTask
  <2>1. state[i] # "queued"
    BY <1>22 DEF CancelOffered
  <2>2. ASSUME NEW t \in Tasks, Decides(perf, t), perf[t].job = i
        PROVE  perf[t].pc \in RunPCs /\ t = activeTask
    BY <1>1, <2>1, <2>2 DEF Marked, MarkedAs, OnlyLive, Decides
  <2> QED BY <2>1, <2>2 DEF Marked, Decides
<1>23. ASSUME NEW i \in Jobs, CancelActive(i) PROVE Goal
  <2>1. /\ i \notin Range(pending)
        /\ \A t \in Tasks : Decides(perf, t) /\ perf[t].job = i =>
             perf[t].pc \in RunPCs /\ t = activeTask
    BY <1>22, <1>23 DEF CancelActive, Decides
  <2>2. pending' = pending /\ perf' = CancelTask /\ state' = SetState({i}, "cancelled")
    BY <1>23 DEF CancelActive
  <2>3. HasJob(i) /\ state'[i] = "cancelled" /\ \A j \in Jobs \ {i} : state'[j] = state[j]
    BY <1>23, <2>2 DEF CancelActive, CancelOffered, SetState, HasJob, RowStates
  <2>4. \A j \in Range(pending) : state'[j] = "queued"
    BY <1>1, <2>1, <2>3 DEF Marked, Range
  <2>5. ASSUME NEW t \in Tasks
        PROVE  /\ perf'[t].pc = perf[t].pc /\ perf'[t].job = perf[t].job
               /\ perf[t].cancelled => perf'[t].cancelled
               /\ t = activeTask => perf'[t].cancelled
    BY <1>1, <2>2 DEF CancelTask, PerfOK, Perf
  <2>6. ASSUME NEW t \in Tasks, Decides(perf', t) PROVE MarkedAs(state', perf'[t])
    <3>1. Decides(perf, t) /\ perf[t].job \in Jobs /\ MarkedAs(state, perf[t])
      BY <1>1, <2>5, <2>6 DEF Marked, Decides, PerfOK, Perf
    <3>2. CASE perf[t].job = i
      <4>1. perf[t].pc \in RunPCs /\ t = activeTask
        BY <2>1, <3>1, <3>2 DEF Decides
      <4> QED BY <2>3, <2>5, <3>2, <4>1 DEF MarkedAs
    <3>3. CASE perf[t].job # i
      BY <2>3, <2>5, <3>1, <3>3 DEF MarkedAs
    <3> QED BY <3>2, <3>3
  <2> QED BY <2>2, <2>4, <2>6 DEF Marked
<1>24. ASSUME NEW i \in Jobs, CancelWaiting(i) PROVE Goal
  <2>1. /\ i \notin Range(pending)
        /\ \A t \in Tasks : Decides(perf, t) /\ perf[t].job = i =>
             perf[t].pc \in RunPCs /\ t = activeTask
    BY <1>22, <1>24 DEF CancelWaiting, Decides
  <2>2. perf' = perf /\ \A j \in Jobs \ {i} : state'[j] = state[j]
    BY <1>24 DEF CancelWaiting, SetState
  <2>3. Range(pending') \subseteq Range(pending)
    BY <1>1, <1>24, RemoveAtRange DEF CancelWaiting
  <2>4. \A j \in Range(pending') : state'[j] = "queued"
    <3>1. Range(pending) \subseteq Jobs
      BY <1>1 DEF Range
    <3> QED BY <2>1, <2>2, <2>3, <3>1 DEF Marked
  <2>5. ASSUME NEW t \in Tasks, Decides(perf, t) PROVE MarkedAs(state', perf[t])
    <3>1. perf[t].job \in Jobs /\ MarkedAs(state, perf[t])
      BY <1>1, <2>5 DEF Marked, Decides, PerfOK, Perf
    <3>2. perf[t].job # i
      BY <1>1, <1>24, <2>1, <2>5, QueueAssumption DEF CancelWaiting, QueueOK, HandleOK, Decides
    <3> QED BY <2>2, <3>1, <3>2 DEF MarkedAs
  <2> QED BY <2>2, <2>4, <2>5 DEF Marked, Decides
<1>25. /\ ~CancelAllIdle /\ ~CancelAllActive /\ ~Disconnect /\ ~TogglePause
       /\ ~EnterBackground /\ ~BackgroundTimeOver /\ ~BackgroundTaskExpired /\ ~BecomeActive
       /\ ~Crash /\ \A j \in joins : ~CancelAllResumes(j)
  BY DEF CancelOnly, Calm, Alone, CancelAllIdle, CancelAllActive, Disconnect, TogglePause,
     EnterBackground, BackgroundTimeOver, BackgroundTaskExpired, BecomeActive, Crash,
     CancelAllResumes
<1> HIDE DEF Goal
<1> QED
  <2>1. Goal
    BY <1>5, <1>6, <1>7, <1>8, <1>11, <1>13, <1>14, <1>16, <1>19, <1>20, <1>21, <1>23, <1>24, <1>25
    DEF Next, User, Perform, Resume, Choose, System
  <2> QED BY <2>1 DEF Goal

\* A step leaves a cancelled row cancelled or removes it.
LEMMA CancelledStep ==
  ASSUME CancelOnly, TypeInv, Own(state, pending, perf), Alone, Calm,
         Marked(state, pending, perf), [Next]_vars, NEW i \in Jobs, state[i] = "cancelled"
  PROVE  state'[i] \in {"cancelled", "gone"}
<1> DEFINE Goal == state'[i] \in {"cancelled", "gone"}
<1>1. RowsOK /\ \A t \in Tasks : Decides(perf, t) => MarkedAs(state, perf[t])
  BY DEF TypeInv, Marked, Decides
<1>2. ASSUME state' = state PROVE Goal
  BY <1>2
<1>3. ASSUME NEW j \in Jobs, PickPhoto(j) \/ EnqueueUpload(j) \/ Download(j) \/ Retry(j)
                              \/ CancelActive(j) \/ CancelWaiting(j)
      PROVE  Goal
  BY <1>1, <1>3 DEF PickPhoto, EnqueueUpload, Download, Retry, IsRetryable, CancelActive,
     CancelWaiting, SetState, RowsOK
<1>4. ASSUME RetryAllFailed \/ ClearFinished PROVE Goal
  BY <1>4 DEF RetryAllFailed, ClearFinished, SetState
<1>5. ASSUME NEW t \in Tasks, SkipTransfer(t) \/ Begin(t) \/ Complete(t) \/ GiveUp(t)
      PROVE  Goal
  <2>1. MarkedAs(state, perf[t])
    BY <1>1, <1>5 DEF SkipTransfer, Begin, Complete, GiveUp, InAttempt, At, Decides
  <2>2. CASE SkipTransfer(t)
    BY <2>2 DEF SkipTransfer, SetState
  <2>3. CASE Begin(t)
    BY <2>1, <2>3 DEF Begin, At, SetState, MarkedAs, RunPCs
  <2>4. CASE Complete(t)
    BY <2>1, <2>4 DEF Complete, NotCancelled, At, SetState, MarkedAs, RunPCs
  <2>5. CASE GiveUp(t)
    BY <2>1, <2>5 DEF GiveUp, Calm, InAttempt, At, SetState, MarkedAs, RunPCs
  <2> QED BY <1>5, <2>2, <2>3, <2>4, <2>5
<1>6. ASSUME NEW t \in Tasks, FindConflict(t) \/ OpenPartial(t) \/ BackOff(t) \/ TryAgain(t)
                              \/ EndPerform(t)
      PROVE  Goal
  BY <1>2, <1>6 DEF FindConflict, OpenPartial, BackOff, TryAgain, EndPerform, rows
<1>7. ASSUME ClearOrphaned \/ UNCHANGED vars \/ Connect \/ Connected \/ ConnectFails \/ Refreshed
             \/ Disconnected
             \/ \E choice \in {"overwrite", "rename", "skip"} : ResolveConflict(choice)
             \/ \E j \in joins : CancelResumes(j)
      PROVE  Goal
  BY <1>2, <1>7 DEF ClearOrphaned, vars, Connect, Connected, ConnectFails, Refreshed,
     Disconnected, ResolveConflict, CancelResumes, rows
<1>8. /\ ~CancelAllIdle /\ ~CancelAllActive /\ ~Disconnect /\ ~TogglePause
      /\ ~EnterBackground /\ ~BackgroundTimeOver /\ ~BackgroundTaskExpired /\ ~BecomeActive
      /\ ~Crash /\ \A j \in joins : ~CancelAllResumes(j)
  BY DEF CancelOnly, Calm, Alone, CancelAllIdle, CancelAllActive, Disconnect, TogglePause,
     EnterBackground, BackgroundTimeOver, BackgroundTaskExpired, BecomeActive, Crash,
     CancelAllResumes
<1> HIDE DEF Goal
<1> QED
  <2>1. Goal
    BY <1>3, <1>4, <1>5, <1>6, <1>7, <1>8 DEF Next, User, Perform, Resume, Choose, System
  <2> QED BY <2>1 DEF Goal

\* Where nothing is paused, in the background, disconnected or restarted and Cancel all is not
\* used, a cancelled transfer never comes back: the answer of the SMB client that arrives after
\* the tap completes it no more.  (A pause does bring it back: perform() reads pauseRequested.)
THEOREM CancelSticksUnpaused ==
  ASSUME CancelOnly
  PROVE  Spec => CancelSticks
<1> DEFINE IInv == TypeInv /\ Own(state, pending, perf) /\ Alone /\ Calm
                   /\ Marked(state, pending, perf)
<1>1. Init => IInv
  <2>1. ASSUME Init PROVE Marked(state, pending, perf)
    <3>1. Range(<<>>) = {} /\ \A t \in Tasks : ~Decides(perf, t)
      BY <2>1 DEF Init, Range, Idle, Decides
    <3> QED BY <2>1, <3>1 DEF Init, Marked, Decides
  <2>2. Init => Alone /\ Calm
    BY DEF Init, Idle, Alone, OnlyLive, Calm
  <2> QED BY <2>1, <2>2, TypeInit, OwnInit
<1>2. IInv /\ [Next]_vars => IInv'
  <2>1. KeepsHandle
    BY DEF CancelOnly, KeepsHandle
  <2>2. ASSUME IInv, [Next]_vars PROVE Marked(state, pending, perf)'
    <3>1. Marked(state', pending', perf')
      BY <2>2, MarkedStep DEF Decides
    <3> QED BY <3>1 DEF Marked, Decides
  <2> QED BY <2>1, <2>2, TypeStep, OwnStep, AloneStep, CalmStep
<1>3. IInv /\ [Next]_vars =>
        [\A i \in Jobs : state[i] = "cancelled" => state'[i] \in {"cancelled", "gone"}]_vars
  BY CancelledStep DEF Decides
<1> QED BY <1>1, <1>2, <1>3, PTL DEF Spec, CancelSticks
=============================================================================
