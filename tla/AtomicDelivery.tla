-------------------------- MODULE AtomicDelivery --------------------------
(***************************************************************************)
(* What the upload of a file promises to whoever looks at the shared folder, *)
(* by the contents of what is there.  Under a final name there is the file   *)
(* of before, none, or a replacement that was ready when it took the name;   *)
(* the file of before goes only once its replacement is ready; nothing is    *)
(* published while it is being sent; and the transfer is done only once a    *)
(* replacement is in place.  An attempt that sent a file holds it ready      *)
(* whole, or short if an answer to a write was: a holed one of full size     *)
(* comes only from an attempt that broke off while it was sending.           *)
(***************************************************************************)
EXTENDS Naturals

CONSTANT Targets

VARIABLES
  names,     \* what is under each final name: "prior", "none" or a kind of replacement
  ready,     \* the replacement that may take each name, by kind, or "none"
  sending,   \* the target whose replacement is being sent
  done       \* the transfer is reported as completed

vars == <<names, ready, sending, done>>

Kinds == {"whole", "holed", "short"}

Init ==
  /\ names \in [Targets -> {"prior", "none"}]
  /\ ready = [t \in Targets |-> "none"] /\ sending = {} /\ done = FALSE

Send(t) ==
  /\ sending = {} /\ sending' = {t} /\ ready[t] = "none"
  /\ UNCHANGED <<names, ready, done>>

Stage(t) ==
  /\ ready[t] = "none"
  /\ ready' \in {[ready EXCEPT ![t] = k] : k \in {"whole", "short"}}
  /\ UNCHANGED <<names, sending, done>>

Sent(t) ==
  /\ sending' = {} /\ ready[t] # "none"
  /\ UNCHANGED <<names, ready, done>>

\* A whole file stays ready; of another, what is there has its full size or is not ready.
BreakOff(t) ==
  /\ sending' = {}
  /\ \/ ready[t] = "none" /\ ready' \in {[ready EXCEPT ![t] = k] : k \in Kinds}
     \/ ready[t] = "short" /\ ready' = [ready EXCEPT ![t] = "none"]
     \/ UNCHANGED ready
  /\ UNCHANGED <<names, done>>

\* A short file that could not be published is not tried again unless it has its full size.
GiveUp(t) ==
  /\ ready[t] = "short" /\ ready' = [ready EXCEPT ![t] = "none"]
  /\ UNCHANGED <<names, sending, done>>

Withdraw(t) ==
  /\ names[t] # "none" /\ ready[t] # "none"
  /\ names' = [names EXCEPT ![t] = "none"]
  /\ UNCHANGED <<ready, sending, done>>

Publish(t) ==
  /\ names[t] = "none" /\ ready[t] # "none"
  /\ names' = [names EXCEPT ![t] = ready[t]] /\ ready' = [ready EXCEPT ![t] = "none"]
  /\ UNCHANGED <<sending, done>>

Finish ==
  /\ ~done /\ done' = TRUE
  /\ \E t \in Targets : names[t] \in Kinds
  /\ UNCHANGED <<names, ready, sending>>

Next ==
  \/ \E t \in sending : Stage(t) \/ Sent(t) \/ BreakOff(t)
  \/ \E t \in Targets \ sending : Send(t) \/ GiveUp(t) \/ Withdraw(t) \/ Publish(t)
  \/ Finish

Spec == Init /\ [][Next]_vars
=============================================================================
