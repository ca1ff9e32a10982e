------------------------------- MODULE MCSmb -------------------------------
(***************************************************************************)
(* Two calls of a context.  The second is a stat, whose chain takes the    *)
(* whole window: a call meets a compound before or behind it, and a read   *)
(* or write finds no credits left.  Beside a kind whose chains look like   *)
(* another's, the second is an echo.                                       *)
(***************************************************************************)
EXTENDS SmbClient, SmbCodec, SmbNtlm, SmbInfo, SmbRpc, SmbText

CONSTANTS first, second, Secrets

ASSUME SecretsAssumption == 0 \in Secrets /\ Secrets \subseteq Nat

\* The opening of a session has names of its own for what the calls have too.
Session == INSTANCE SmbKeys

Alike == {"close", "fsync", "ftruncate", "echo", "mkdir", "rename", "truncate",
          "stat", "readlink", "opendir"}

Mix(a, b) == [c \in Calls |-> IF c = first THEN a ELSE b]

MCMixes ==
  {Mix(k, "stat") : k \in (DOMAIN FirstChain \cup {"connect"}) \ Alike}
    \cup {Mix(k, "echo") : k \in Alike}

\* Formats do not change with the calls: they are looked at before a connect.
\* Requests and replies reach the other side whole, up to the data of a READ or
\* WRITE that takes all credits, but for the exceptions MessagesArrive names.
EveryMessageArrives == link = "new" => MessagesArrive

\* Their fields are read from where they were written.
EveryFieldAgrees == link = "new" => FieldsAgree

\* The right password is accepted and no other, whatever the names that fit the
\* buffer of the challenge, and a token of any length comes out of its envelope
\* as it went in.
EveryLoginWorks == link = "new" => TokensArrive /\ LoginWorks

\* Two sides whose settings allow it come to one session in the highest dialect
\* both have, and each takes what the other signs or seals.
EverySessionOpens == link = "new" => Session!KeysAgree

\* What is known of a file or a directory reaches the caller, and the
\* characters of its name do.
EveryInfoArrives == link = "new" => InfoArrives /\ TextArrives

\* The list of shares reaches the caller, each name with its own share.
EveryShareArrives == link = "new" => SharesArrive
=============================================================================
