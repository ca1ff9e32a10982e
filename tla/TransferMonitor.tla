-------------------------- MODULE TransferMonitor --------------------------
(***************************************************************************)
(* FileSystemTransferMonitor of the Windows app: it polls the shared folder  *)
(* and reports a file once its size has stayed the same over StableSamples   *)
(* scans after the one that found it.  folder is the environment's: the      *)
(* module that composes the monitor with whoever writes the files gives it.  *)
(*                                                                         *)
(* A scan is one action: it reads each file once, and what becomes of one    *)
(* name does not depend on another.  A fingerprint is the file itself.       *)
(* Every file can be read: the catch blocks are not modelled.  By them       *)
(* Start() does not seed a file it cannot read, a scan takes such a file for *)
(* absent and forgets what it knew of it, and a scan that cannot list the    *)
(* folder ends where it is.                                                  *)
(***************************************************************************)
EXTENDS Naturals

CONSTANTS
  Names,          \* the file names that are followed
  StableSamples,  \* 2 in the code
  Absent          \* no such file, no such entry

VARIABLES
  folder,     \* [Names -> file or Absent]; a file has a size
  running,    \* _running
  states,     \* _states: the size last seen and how often it was seen again
  reported    \* _reported: the fingerprint of what is not to be reported (again)

vars == <<running, states, reported>>

Present == {n \in Names : folder[n] # Absent}
NoStates == [n \in Names |-> Absent]

Init == running = FALSE /\ states = NoStates /\ reported = NoStates

Unseeded == NoStates                                           \* mutant of Seeded
Seeded   == folder

\* Start(): what is there already is not a transfer.
Start ==
  /\ ~running /\ running' = TRUE
  /\ reported' = [n \in Names |-> IF n \in Present THEN Seeded[n] ELSE reported[n]]
  /\ UNCHANGED states

Known(n)   == reported[n] # Absent /\ reported[n] = folder[n]
Tracked(n) == states[n] # Absent
Steady(n)  == Tracked(n) /\ states[n].size = folder[n].size
Due(n)     == Steady(n) /\ states[n].samples + 1 >= StableSamples

\* A file that changed after it was reported is a new transfer.
Forgotten(n) == Absent                                         \* mutant of Remembered
Remembered(n) == folder[n]

NextState(n) ==
  IF n \notin Present THEN Absent
  ELSE IF Known(n)    THEN states[n]
  ELSE IF Due(n)      THEN Absent
  ELSE [size |-> folder[n].size, samples |-> IF Steady(n) THEN states[n].samples + 1 ELSE 0]

NextReported(n) ==
  IF n \in Present /\ Known(n)    THEN reported[n]
  ELSE IF n \in Present /\ Due(n) THEN Remembered(n)
  ELSE Absent

Scan ==
  /\ running
  /\ states' = [n \in Names |-> NextState(n)]
  /\ reported' = [n \in Names |-> NextReported(n)]
  /\ UNCHANGED running

\* FileReceived is raised for n.
Reports(n) == running /\ n \in Present /\ ~Known(n) /\ Due(n)

Stop ==
  /\ running /\ running' = FALSE
  /\ states' = NoStates /\ reported' = NoStates

Next == Start \/ Scan \/ Stop
=============================================================================
