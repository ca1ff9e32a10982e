--------------------------- MODULE UploadWatched ---------------------------
(***************************************************************************)
(* The upload of UploadProtocol into a folder that the Windows app watches   *)
(* with TransferMonitor: the two meet in the files alone.  The monitor is    *)
(* followed for the final name and for its part file; it skips manifests.    *)
(***************************************************************************)
EXTENDS UploadProtocol

CONSTANT StableSamples    \* equal samples that make a file complete, 2 in the code

ASSUME WatchedAssumption == StableSamples \in Nat \ {0}

VARIABLES running, states, reported,
          told    \* history: the file last announced, or there from the start, under a name

Names == {"final", "part"}
Folder == [n \in Names |-> remote["name"][n]]

Monitor == INSTANCE TransferMonitor WITH folder <- Folder, Absent <- NoFile

watch == <<running, states, reported>>
all   == <<vars, watch, told>>

WatchedInit == Init /\ Monitor!Init /\ told = [n \in Names |-> NoFile]

\* A name that is free again, even for a moment, may be announced again.
Tell == told' = [n \in Names |-> IF remote'["name"][n] = NoFile THEN NoFile ELSE told[n]]

Upload  == Next /\ UNCHANGED watch /\ Tell
Watch   == /\ Monitor!Start \/ Monitor!Stop
           /\ UNCHANGED vars /\ told' = Folder
Observe == /\ Monitor!Scan
           /\ told' = [n \in Names |-> IF Monitor!Reports(n) THEN Folder[n] ELSE told[n]]
           /\ UNCHANGED vars

WatchedNext == Upload \/ Watch \/ Observe
Watched == WatchedInit /\ [][WatchedNext]_all

\* PollLoopAsync() scans every 500 ms for as long as it is not cancelled.
FairWatched == Watched /\ WF_all(Observe)

-----------------------------------------------------------------------------
\* FileReceived has been raised for n by this step.
Announces(n) == running /\ running' /\ reported'[n] # NoFile /\ reported'[n] # reported[n]

\* While the monitor runs it raises FileReceived for no file that it announced before, or found
\* when it started, unless the file changed or its name was free in between.
ToldOnce ==
  [][\A n \in Names : Announces(n) => Folder[n] # told[n]]_all

\* A transfer that ended as completed is announced on the PC under its final name, or was before,
\* unless the monitor is stopped.
Announced == running /\ row = "completed" ~> ~running \/ Monitor!Known("final")

\* "A file only counts as transferred once its size has stayed unchanged across consecutive
\* scans, so partially copied files (e.g. mid-SMB-transfer) do not produce events prematurely."
ReceivedWhole ==
  [][\A n \in Names : Announces(n) => Whole(Folder[n])]_all
=============================================================================
