---------------------------- MODULE ShareSession ----------------------------
(***************************************************************************)
(* A sharing session of the Windows app: StartSessionAsync and               *)
(* StopSessionAsync of ShareSessionViewModel, CreateShareSessionAsync and    *)
(* RemoveShareSessionAsync of ShareManager, and what they leave in Windows.  *)
(*                                                                         *)
(* Every service call runs a child process and is awaited, so each call is   *)
(* one action and the user, the firewall task or a crash may come between    *)
(* two.  A call has its effect, or fails with a KinoShareException, or       *)
(* throws something else (the child process cannot be started), which the    *)
(* rollback of CreateShareSessionAsync does not catch.                       *)
(*                                                                         *)
(* One app process at a time.  _isBusy is pc # "idle".                       *)
(***************************************************************************)
EXTENDS Naturals

CONSTANTS Folders, Passwords, NoFolder, NoPassword,
          MaxSubs,     \* bound on the handlers left behind by stops that failed
          Inputs       \* which of {"edit", "crash", "broken"} occur

ASSUME SessionAssumption ==
  /\ Folders # {} /\ Passwords # {}
  /\ NoFolder \notin Folders /\ NoPassword \notin Passwords
  /\ MaxSubs \in Nat \ {0}
  /\ Inputs \subseteq {"edit", "crash", "broken"}

VARIABLES
  share, account, rule,   \* Windows: the share's folder, the account's password, the firewall rule
  credential,             \* the remembered password, a file
  chosen, saved,          \* the transfer folder: the settings object in memory, its file
  status, session,        \* _status and _session of the view model
  subs, monitor,          \* its handlers on the monitor; the folder the monitor polls
  pc,                     \* the await StartSessionAsync or StopSessionAsync is at
  request, created,       \* locals of CreateShareSessionAsync; created is `share is not null`
  firewall, stray,        \* its firewallTask; one that a failed start no longer awaits
  edit,                   \* a new password that is being saved
  fault,                  \* history: a call failed during this start or stop
  left                    \* history: of {"share", "account", "rule"}, what was left behind

windows  == <<share, account, rule>>
settings == <<credential, chosen, saved>>
view     == <<session, subs, monitor>>
task     == <<firewall, stray>>
vars == <<windows, settings, view, task, status, pc, request, created, edit, fault, left>>

NoSession == [folder |-> NoFolder, password |-> NoPassword]
Steps == {"idle", "credential", "account", "share", "heal", "again", "grant", "await",
          "rollback", "unshare", "unuser", "stopShare", "stopUser", "stopRule"}

Init ==
  /\ share = NoFolder /\ account = NoPassword /\ rule = FALSE
  /\ credential = NoPassword /\ chosen \in Folders /\ saved = chosen
  /\ status = "Idle" /\ session = NoSession /\ subs = 0 /\ monitor = NoFolder
  /\ pc = "idle" /\ request = NoSession /\ created = FALSE
  /\ firewall = "none" /\ stray = FALSE
  /\ edit = NoPassword /\ fault = FALSE /\ left = {}

\* What this app has in Windows, or is about to: a firewall task adds the rule in the end.
Present == {x \in {"share", "account", "rule"} :
  \/ x = "share"   /\ share # NoFolder
  \/ x = "account" /\ account # NoPassword
  \/ x = "rule"    /\ (rule \/ stray \/ firewall = "running")}

-----------------------------------------------------------------------------
(* How a start or a stop ends.                                               *)

\* The catch blocks of the view model.
Failed == status' = "Failed" /\ pc' = "idle" /\ fault' = TRUE

\* An exception the rollback does not catch: nothing is undone, nobody awaits firewallTask.
Breaks ==
  /\ "broken" \in Inputs
  /\ Failed
  /\ left' = left \cup Present
  /\ firewall' = "none" /\ stray' = (stray \/ firewall = "running")
  /\ UNCHANGED <<windows, settings, view, request, created, edit>>

\* A KinoShareException inside the try block.
RollsBack ==
  /\ pc' = "rollback" /\ fault' = TRUE
  /\ UNCHANGED <<windows, settings, view, task, status, request, created, edit, left>>

-----------------------------------------------------------------------------
(* StartSessionAsync and CreateShareSessionAsync, call by call.              *)

Start ==
  /\ status \notin {"Starting", "Running"} /\ pc = "idle" /\ subs < MaxSubs
  /\ status' = "Starting" /\ pc' = "credential" /\ fault' = FALSE
  /\ request' = [folder |-> chosen, password |-> NoPassword]
  /\ created' = FALSE /\ firewall' = "none"
  /\ UNCHANGED <<windows, settings, view, stray, edit, left>>

\* EnsureCreatedAsync of the workspace throws: nothing was done yet.
WorkspaceFails ==
  /\ pc = "credential"
  /\ Failed
  /\ UNCHANGED <<windows, settings, view, task, request, created, edit, left>>

\* An unset or unreadable credential is generated and saved; one that cannot be saved is
\* used for this session only.
ResolvePassword ==
  /\ pc = "credential"
  /\ \/ /\ credential # NoPassword
        /\ request' = [request EXCEPT !.password = credential] /\ UNCHANGED credential
     \/ \E p \in Passwords :
          /\ request' = [request EXCEPT !.password = p]
          /\ credential' \in {p, credential}
  /\ pc' = "account"
  /\ UNCHANGED <<windows, chosen, saved, view, task, status, created, edit, fault, left>>

KeptPassword(p) == IF account = NoPassword THEN p ELSE account    \* mutant of AccountFor
\* `net user /add`, or a leftover account with its password reset.
AccountFor(p) == p

CreateTemporaryUser ==
  /\ pc = "account"
  /\ account' = AccountFor(request.password)
  /\ pc' = "share" /\ firewall' = "running"
  /\ UNCHANGED <<share, rule, settings, view, stray, status, request, created, edit, fault,
                 left>>

\* This call is before the try block: an account made by a call that then failed stays.
CreateTemporaryUserFails ==
  /\ pc = "account"
  /\ Failed
  /\ \/ UNCHANGED <<account, left>>
     \/ account' = AccountFor(request.password) /\ left' = left \cup {"account"}
  /\ UNCHANGED <<share, rule, settings, view, task, request, created, edit>>

\* AllowFirewallAsync runs beside the calls below; its own failures are only logged.
AllowFirewall ==
  /\ firewall = "running"
  /\ firewall' = "done"
  /\ rule' \in {TRUE, rule}
  /\ UNCHANGED <<share, account, settings, view, stray, status, pc, request, created, edit,
                 fault, left>>

StrayFirewall ==
  /\ stray
  /\ stray' = FALSE
  /\ rule' \in {TRUE, rule}
  /\ UNCHANGED <<share, account, settings, view, firewall, status, pc, request, created, edit,
                 fault, left>>

CreateShare ==
  /\ pc \in {"share", "again"} /\ share = NoFolder
  /\ share' = request.folder /\ created' = TRUE /\ pc' = "grant"
  /\ UNCHANGED <<account, rule, settings, view, task, status, request, edit, fault, left>>

\* mutant of ShareAlreadyExists: handled as any other KinoShareException
ExistsRollsBack ==
  /\ pc \in {"share", "again"} /\ share # NoFolder
  /\ pc' = "rollback"
  /\ UNCHANGED <<windows, settings, view, task, status, request, created, edit, fault, left>>

\* A second time the exception leaves CreateShareAsyncSelfHealingAsync.
ShareAlreadyExists ==
  /\ pc \in {"share", "again"} /\ share # NoFolder
  /\ pc' = IF pc = "share" THEN "heal" ELSE "rollback"
  /\ UNCHANGED <<windows, settings, view, task, status, request, created, edit, fault, left>>

RemoveLeftover ==
  /\ pc = "heal" /\ share # NoFolder
  /\ share' = NoFolder /\ pc' = "again" /\ left' = left \ {"share"}
  /\ UNCHANGED <<account, rule, settings, view, task, status, request, created, edit, fault>>

\* The ACL entry itself is never taken back and not modelled.
GrantReadWrite ==
  /\ pc = "grant"
  /\ pc' = "await"
  /\ UNCHANGED <<windows, settings, view, task, status, request, created, edit, fault, left>>

CallFails == pc \in {"share", "heal", "again", "grant"} /\ RollsBack

CallBreaks == pc \in {"account", "share", "heal", "again", "grant"} /\ Breaks

NotAwaited      == TRUE                                   \* mutant of FirewallAwaited
FirewallAwaited == firewall = "done"

SubscribedTwice == subs + 2                               \* mutant of Subscribed
Subscribed      == subs + 1

\* CreateShareSessionAsync returns; the monitor's Start is ignored while it is running.
SessionLive ==
  /\ pc = "await" /\ FirewallAwaited
  /\ session' = request /\ subs' = Subscribed
  /\ monitor' = IF monitor = NoFolder THEN request.folder ELSE monitor
  /\ status' = "Running" /\ pc' = "idle"
  /\ left' = IF stray THEN {"rule"} ELSE {}
  /\ UNCHANGED <<windows, settings, task, request, created, edit, fault>>

\* The monitor's Start throws: the session is live in Windows, but not for the user.
MonitorBreaks ==
  /\ pc = "await" /\ FirewallAwaited /\ "broken" \in Inputs
  /\ session' = request /\ subs' = Subscribed
  /\ Failed /\ left' = left \cup Present
  /\ UNCHANGED <<windows, settings, monitor, task, request, created, edit>>

-----------------------------------------------------------------------------
(* The rollback of CreateShareSessionAsync, and RemoveShareSessionAsync.     *)
(* `left' follows each removal; that of an account that is not there succeeds. *)

RestoreFirewall ==
  /\ \/ pc = "rollback" /\ FirewallAwaited /\ pc' = IF created THEN "unshare" ELSE "unuser"
     \/ pc = "stopRule" /\ pc' = "idle"
  /\ \/ rule' = FALSE /\ left' = IF stray THEN left ELSE left \ {"rule"}
     \/ left' = left \cup {"rule"} /\ UNCHANGED rule
  /\ IF pc = "stopRule"
     THEN status' = "Stopped" /\ session' = NoSession /\ subs' = subs - 1 /\ monitor' = NoFolder
     ELSE UNCHANGED <<status, view>>
  /\ UNCHANGED <<share, account, settings, task, request, created, edit, fault>>

\* CleanupAfterFailureAsync logs a removal that fails and goes on.
RemoveCreatedShare ==
  /\ pc = "unshare" /\ pc' = "unuser"
  /\ \/ share # NoFolder /\ share' = NoFolder /\ left' = left \ {"share"}
     \/ left' = left \cup {"share"} /\ UNCHANGED share
  /\ UNCHANGED <<account, rule, settings, view, task, status, request, created, edit, fault>>

DeleteCreatedUser ==
  /\ pc = "unuser"
  /\ pc' = "idle" /\ status' = "Failed"
  /\ \/ account' = NoPassword /\ left' = left \ {"account"}
     \/ left' = left \cup {"account"} /\ UNCHANGED account
  /\ UNCHANGED <<share, rule, settings, view, task, request, created, edit, fault>>

Stop ==
  /\ status = "Running" /\ pc = "idle"
  /\ pc' = "stopShare" /\ fault' = FALSE
  /\ UNCHANGED <<windows, settings, view, task, status, request, created, edit, left>>

StopShare ==
  /\ pc = "stopShare" /\ share # NoFolder
  /\ share' = NoFolder /\ pc' = "stopUser" /\ left' = left \ {"share"}
  /\ UNCHANGED <<account, rule, settings, view, task, status, request, created, edit, fault>>

DeleteUser ==
  /\ pc = "stopUser"
  /\ account' = NoPassword /\ pc' = "stopRule" /\ left' = left \ {"account"}
  /\ UNCHANGED <<share, rule, settings, view, task, status, request, created, edit, fault>>

\* The first exception ends the stop: handlers, monitor and _session stay.
StopFails ==
  /\ pc \in {"stopShare", "stopUser"}
  /\ Failed /\ left' = left \cup Present
  /\ UNCHANGED <<windows, settings, view, task, request, created, edit>>

-----------------------------------------------------------------------------
(* Settings and the process.  The password dialog is modal: one edit at a time. *)

ChangePassword(p) ==
  /\ "edit" \in Inputs /\ status # "Running" /\ edit = NoPassword
  /\ edit' = p
  /\ UNCHANGED <<windows, settings, view, task, status, pc, request, created, fault, left>>

\* The file is replaced whole, or not at all.
PasswordSaved ==
  /\ edit # NoPassword
  /\ edit' = NoPassword
  /\ credential' \in {edit, credential}
  /\ UNCHANGED <<windows, chosen, saved, view, task, status, pc, request, created, fault,
                 left>>

\* The object in memory is changed before it is saved, and stays changed when that fails.
ChangeFolder(f) ==
  /\ "edit" \in Inputs /\ status \notin {"Starting", "Running"}
  /\ chosen' = f /\ saved' \in {f, saved}
  /\ UNCHANGED <<windows, credential, view, task, status, pc, request, created, edit, fault,
                 left>>

\* The process ends at any point, also because the window is closed, and is started again.
Crash ==
  /\ "crash" \in Inputs
  /\ status' = "Idle" /\ session' = NoSession /\ subs' = 0 /\ monitor' = NoFolder
  /\ pc' = "idle" /\ request' = NoSession /\ created' = FALSE
  /\ firewall' = "none" /\ stray' = FALSE /\ edit' = NoPassword /\ fault' = FALSE
  /\ left' = left \cup Present /\ chosen' = saved
  /\ UNCHANGED <<windows, credential, saved>>

Next ==
  \/ Start \/ WorkspaceFails \/ ResolvePassword \/ CreateTemporaryUser
  \/ CreateTemporaryUserFails \/ AllowFirewall \/ StrayFirewall \/ CreateShare
  \/ ShareAlreadyExists \/ RemoveLeftover \/ GrantReadWrite \/ CallFails \/ CallBreaks
  \/ SessionLive \/ MonitorBreaks
  \/ RestoreFirewall \/ RemoveCreatedShare \/ DeleteCreatedUser
  \/ Stop \/ StopShare \/ DeleteUser \/ StopFails
  \/ \E p \in Passwords : ChangePassword(p)
  \/ \E f \in Folders : ChangeFolder(f)
  \/ PasswordSaved \/ Crash

Spec == Init /\ [][Next]_vars
-----------------------------------------------------------------------------
(* Properties.                                                               *)

Sessions == [folder : Folders \cup {NoFolder}, password : Passwords \cup {NoPassword}]

\* Types of the variables.
TypeOK ==
  /\ share \in Folders \cup {NoFolder} /\ account \in Passwords \cup {NoPassword}
  /\ credential \in Passwords \cup {NoPassword} /\ {chosen, saved} \subseteq Folders
  /\ status \in {"Idle", "Starting", "Running", "Stopped", "Failed"}
  /\ {session, request} \subseteq Sessions /\ edit \in Passwords \cup {NoPassword}
  /\ subs \in 0..MaxSubs /\ monitor \in Folders \cup {NoFolder}
  /\ pc \in Steps /\ firewall \in {"none", "running", "done"}
  /\ {rule, created, stray, fault} \subseteq BOOLEAN
  /\ left \subseteq {"share", "account", "rule"}

\* While the user is told that sharing is live, Windows shares the session's folder and the
\* account has the password of the session: whatever an earlier start, stop or crash left.
Serving ==
  status = "Running" /\ pc = "idle" =>
    share = session.folder /\ account = session.password /\ session # NoSession

\* A start that fails rolls back, and a stop takes away, all that it or an earlier crash made
\* in Windows.  What is there all the same is in `left', thing by thing: its own removal
\* failed; it is the account of a CreateTemporaryUser that failed after it had made one; or it
\* was there when an exception other than a KinoShareException went past the rollback, when
\* the monitor's Start threw, when a stop failed or when the process ended; and neither was it
\* taken away since nor did a session go live, whose own stop takes it away.  The firewall rule
\* is added by a task that runs beside the calls that fail.
NothingLeft == status # "Running" /\ pc = "idle" => Present \subseteq left

\* Leftovers never make a start fail, and no stop fails by itself: a failure always comes
\* from a call that failed during that very start or stop.
CleanStart == status = "Failed" /\ pc = "idle" => fault

\* The monitor watches the folder that is shared.
WatchesShared == status = "Running" /\ pc = "idle" => monitor = share
=============================================================================
