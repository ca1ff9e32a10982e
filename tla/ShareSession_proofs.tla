------------------------ MODULE ShareSession_proofs ------------------------
(***************************************************************************)
(* Proofs about ShareSession, for every set of folders and passwords, every  *)
(* bound MaxSubs and every choice of Inputs.  Inv says what is true at each  *)
(* await of a start or a stop; the properties are what it says between them. *)
(***************************************************************************)
EXTENDS ShareSession, TLAPS

StartSteps == {"credential", "account", "share", "heal", "again", "grant", "await",
               "rollback", "unshare", "unuser"}
StopSteps  == {"stopShare", "stopUser", "stopRule"}

\* _status follows the awaits, and a handler is there for the stop to take away.
Phase ==
  /\ pc \in StartSteps <=> status = "Starting"
  /\ pc \in StopSteps => status = "Running"
  /\ status = "Starting" => subs < MaxSubs
  /\ status = "Running" => subs > 0

\* What a start has asked of Windows so far is there.
Progress ==
  /\ status = "Starting" => request.folder \in Folders
  /\ pc \in StartSteps \ {"credential"} => request.password \in Passwords
  /\ pc \in {"share", "heal", "again", "grant", "await"} => account = request.password
  /\ pc = "again" => share = NoFolder
  /\ pc \in {"grant", "await"} => share = request.folder /\ created
  /\ status = "Running" /\ pc \in {"idle", "stopShare"} =>
       share = session.folder /\ account = session.password /\ session # NoSession

\* The firewall task of a start ends before what follows it, or is a stray one.
Joined ==
  /\ pc \notin StartSteps \/ pc \in {"credential", "account"} => firewall # "running"
  /\ pc \in {"unshare", "unuser"} => firewall = "done"
  /\ stray => "rule" \in left

ShareLeft   == share # NoFolder => "share" \in left
AccountLeft == account # NoPassword => "account" \in left
RuleLeft    == rule => "rule" \in left

\* At each await of a start, a rollback or a stop, what can be in Windows only if it was left.
Removed ==
  /\ status # "Running" /\ pc \in {"idle", "credential", "account"} =>
       ShareLeft /\ AccountLeft /\ RuleLeft
  /\ pc \in {"share", "heal", "again", "unuser"} => ShareLeft
  /\ pc = "rollback" => created \/ ShareLeft
  /\ pc \in {"unshare", "unuser"} => RuleLeft
  /\ pc \in {"stopUser", "stopRule"} => ShareLeft
  /\ pc = "stopRule" => AccountLeft

\* What is there, thing by thing.
LEMMA PresentMeans ==
  /\ "share" \in Present <=> share # NoFolder
  /\ "account" \in Present <=> account # NoPassword
  /\ "rule" \in Present <=> rule \/ stray \/ firewall = "running"
  /\ Present \subseteq {"share", "account", "rule"}
BY DEF Present

\* Only a call that failed leads to a rollback, and to the status Failed.
Blamed == status = "Failed" \/ pc \in {"rollback", "unshare", "unuser"} => fault

Inv == TypeOK /\ Phase /\ Progress /\ Joined /\ Removed /\ Blamed

\* Between the calls of a start or a stop Inv says what the properties of the model say.
LEMMA InvMeans == Inv => TypeOK /\ Serving /\ NothingLeft /\ CleanStart
<1> SUFFICES ASSUME Inv PROVE Serving /\ NothingLeft /\ CleanStart
  BY DEF Inv
<1>1. Serving /\ CleanStart
  BY DEF Inv, Progress, Blamed, Serving, CleanStart
<1>2. ASSUME status # "Running", pc = "idle" PROVE Present \subseteq left
  <2>1. ShareLeft /\ AccountLeft /\ RuleLeft
    BY <1>2 DEF Inv, Removed
  <2>2. firewall # "running" /\ (stray => "rule" \in left)
    BY <1>2 DEF Inv, Joined, StartSteps
  <2> QED BY <2>1, <2>2, PresentMeans DEF ShareLeft, AccountLeft, RuleLeft
<1> QED BY <1>1, <1>2 DEF NothingLeft

\* No session is a session record with nothing in it.
LEMMA NoSessionType == NoSession \in Sessions
BY DEF NoSession, Sessions

\* The app that was just installed, with nothing of it in Windows.
LEMMA InvInit == Init => Inv
<1> SUFFICES ASSUME Init PROVE Inv  OBVIOUS
<1> USE DEF Init
<1>1. TypeOK
  <2>1. session \in Sessions /\ request \in Sessions
    BY NoSessionType
  <2>2. subs \in 0..MaxSubs
    BY SessionAssumption
  <2>3. {rule, created, stray, fault} \subseteq BOOLEAN /\ left = {}
    OBVIOUS
  <2> QED BY <2>1, <2>2, <2>3 DEF TypeOK, Steps
<1>2. Phase /\ Progress /\ Joined /\ Removed /\ Blamed
  BY DEF Phase, Progress, Joined, Removed, Blamed, StartSteps, StopSteps,
    ShareLeft, AccountLeft, RuleLeft
<1> QED BY <1>1, <1>2 DEF Inv

\* A step keeps Inv: for each action first the types, then what is known at each await.
LEMMA InvStep == Inv /\ [Next]_vars => Inv'
<1> SUFFICES ASSUME Inv, [Next]_vars PROVE Inv'  OBVIOUS
<1> USE SessionAssumption DEF Inv, windows, settings, view, task
<1>1. ASSUME Start PROVE Inv'
  <2>1. TypeOK'
    <3>1. request' \in Sessions
      BY <1>1 DEF Start, TypeOK, Sessions
    <3> QED BY <1>1, <3>1 DEF Start, TypeOK, Steps
  <2>2. Phase'
    BY <1>1 DEF Start, Phase, StartSteps, StopSteps
  <2>3. Progress'
    BY <1>1 DEF Start, TypeOK, Progress
  <2>4. Joined'
    BY <1>1 DEF Start, Joined
  <2>5. Removed'
    BY <1>1 DEF Start, Removed,
      ShareLeft, AccountLeft, RuleLeft
  <2>6. Blamed'
    BY <1>1 DEF Start, Blamed
  <2> QED BY <2>1, <2>2, <2>3, <2>4, <2>5, <2>6
<1>2. ASSUME WorkspaceFails PROVE Inv'
  <2>1. TypeOK'
    BY <1>2 DEF WorkspaceFails, Failed, TypeOK, Steps
  <2>2. Phase'
    BY <1>2 DEF WorkspaceFails, Failed, Phase, StartSteps, StopSteps
  <2>3. Progress'
    BY <1>2 DEF WorkspaceFails, Failed, Progress, StartSteps
  <2>4. Joined'
    BY <1>2 DEF WorkspaceFails, Failed, Joined
  <2>5. Removed'
    BY <1>2 DEF WorkspaceFails, Phase, Removed, StartSteps,
      ShareLeft, AccountLeft, RuleLeft
  <2>6. Blamed'
    BY <1>2 DEF WorkspaceFails, Failed, Blamed
  <2> QED BY <2>1, <2>2, <2>3, <2>4, <2>5, <2>6
<1>3. ASSUME ResolvePassword PROVE Inv'
  <2>1. TypeOK'
    BY <1>3 DEF ResolvePassword, TypeOK, Sessions, Steps
  <2>2. Phase'
    BY <1>3 DEF ResolvePassword, Phase, StartSteps, StopSteps
  <2>3. Progress'
    BY <1>3 DEF ResolvePassword, TypeOK, Sessions, Progress
  <2>4. Joined'
    BY <1>3 DEF ResolvePassword, Joined
  <2>5. Removed'
    BY <1>3 DEF ResolvePassword, Removed,
      ShareLeft, AccountLeft, RuleLeft
  <2>6. Blamed'
    BY <1>3 DEF ResolvePassword, Blamed
  <2> QED BY <2>1, <2>2, <2>3, <2>4, <2>5, <2>6
<1>4. ASSUME CreateTemporaryUser PROVE Inv'
  <2>1. TypeOK'
    BY <1>4 DEF CreateTemporaryUser, AccountFor, TypeOK, Sessions, Steps
  <2>2. Phase'
    BY <1>4 DEF CreateTemporaryUser, Phase, StartSteps, StopSteps
  <2>3. Progress'
    BY <1>4 DEF CreateTemporaryUser, AccountFor, Progress, StartSteps
  <2>4. Joined'
    BY <1>4 DEF CreateTemporaryUser, Joined, StartSteps
  <2>5. Removed'
    BY <1>4 DEF CreateTemporaryUser, Phase, Removed, StartSteps,
      ShareLeft, AccountLeft, RuleLeft
  <2>6. Blamed'
    BY <1>4 DEF CreateTemporaryUser, Blamed
  <2> QED BY <2>1, <2>2, <2>3, <2>4, <2>5, <2>6
<1>5. ASSUME CreateTemporaryUserFails PROVE Inv'
  <2>1. TypeOK'
    <3>1. account' \in Passwords \cup {NoPassword}
      BY <1>5 DEF CreateTemporaryUserFails, AccountFor, TypeOK, Sessions
    <3> QED BY <1>5, <3>1 DEF CreateTemporaryUserFails, Failed, TypeOK, Steps
  <2>2. Phase'
    BY <1>5 DEF CreateTemporaryUserFails, Failed, Phase, StartSteps, StopSteps
  <2>3. Progress'
    BY <1>5 DEF CreateTemporaryUserFails, Failed, Progress, StartSteps
  <2>4. Joined'
    BY <1>5 DEF CreateTemporaryUserFails, Failed, Joined
  <2>5. Removed'
    BY <1>5 DEF CreateTemporaryUserFails, Phase, Removed, StartSteps,
      ShareLeft, AccountLeft, RuleLeft
  <2>6. Blamed'
    BY <1>5 DEF CreateTemporaryUserFails, Failed, Blamed
  <2> QED BY <2>1, <2>2, <2>3, <2>4, <2>5, <2>6
<1>6. ASSUME AllowFirewall PROVE Inv'
  <2>1. TypeOK'
    BY <1>6 DEF AllowFirewall, TypeOK, Phase, StartSteps, StopSteps
  <2>2. Phase'
    BY <1>6 DEF AllowFirewall, Phase
  <2>3. Progress'
    BY <1>6 DEF AllowFirewall, Progress
  <2>4. Joined'
    BY <1>6 DEF AllowFirewall, Joined
  <2>5. Removed'
    BY <1>6 DEF AllowFirewall, Joined, Removed, StartSteps,
      ShareLeft, AccountLeft, RuleLeft
  <2>6. Blamed'
    BY <1>6 DEF AllowFirewall, Blamed
  <2> QED BY <2>1, <2>2, <2>3, <2>4, <2>5, <2>6
<1>7. ASSUME StrayFirewall PROVE Inv'
  <2>1. TypeOK'
    BY <1>7 DEF StrayFirewall, TypeOK
  <2>2. Phase'
    BY <1>7 DEF StrayFirewall, Phase
  <2>3. Progress'
    BY <1>7 DEF StrayFirewall, Progress
  <2>4. Joined'
    BY <1>7 DEF StrayFirewall, Joined
  <2>5. Removed'
    BY <1>7 DEF StrayFirewall, Joined, Removed,
      ShareLeft, AccountLeft, RuleLeft
  <2>6. Blamed'
    BY <1>7 DEF StrayFirewall, Blamed
  <2> QED BY <2>1, <2>2, <2>3, <2>4, <2>5, <2>6
<1>8. ASSUME CreateShare PROVE Inv'
  <2>1. TypeOK'
    BY <1>8 DEF CreateShare, TypeOK, Sessions, Steps
  <2>2. Phase'
    BY <1>8 DEF CreateShare, Phase, StartSteps, StopSteps
  <2>3. Progress'
    BY <1>8 DEF CreateShare, Progress, StartSteps
  <2>4. Joined'
    BY <1>8 DEF CreateShare, Joined, StartSteps
  <2>5. Removed'
    BY <1>8 DEF CreateShare, Removed,
      ShareLeft, AccountLeft, RuleLeft
  <2>6. Blamed'
    BY <1>8 DEF CreateShare, Blamed
  <2> QED BY <2>1, <2>2, <2>3, <2>4, <2>5, <2>6
<1>9. ASSUME ShareAlreadyExists PROVE Inv'
  <2>1. TypeOK'
    BY <1>9 DEF ShareAlreadyExists, TypeOK, Steps
  <2>2. Phase'
    BY <1>9 DEF ShareAlreadyExists, Phase, StartSteps, StopSteps
  <2>3. Progress'
    BY <1>9 DEF ShareAlreadyExists, Progress, StartSteps
  <2>4. Joined'
    BY <1>9 DEF ShareAlreadyExists, Joined, StartSteps
  <2>5. Removed'
    BY <1>9 DEF ShareAlreadyExists, Removed,
      ShareLeft, AccountLeft, RuleLeft
  <2>6. Blamed'
    BY <1>9 DEF ShareAlreadyExists, Progress, Blamed
  <2> QED BY <2>1, <2>2, <2>3, <2>4, <2>5, <2>6
<1>10. ASSUME RemoveLeftover PROVE Inv'
  <2>1. TypeOK'
    BY <1>10 DEF RemoveLeftover, TypeOK, Steps
  <2>2. Phase'
    BY <1>10 DEF RemoveLeftover, Phase, StartSteps, StopSteps
  <2>3. Progress'
    BY <1>10 DEF RemoveLeftover, Progress, StartSteps
  <2>4. Joined'
    BY <1>10 DEF RemoveLeftover, Joined, StartSteps
  <2>5. Removed'
    BY <1>10 DEF RemoveLeftover, Removed,
      ShareLeft, AccountLeft, RuleLeft
  <2>6. Blamed'
    BY <1>10 DEF RemoveLeftover, Blamed
  <2> QED BY <2>1, <2>2, <2>3, <2>4, <2>5, <2>6
<1>11. ASSUME GrantReadWrite PROVE Inv'
  <2>1. TypeOK'
    BY <1>11 DEF GrantReadWrite, TypeOK, Steps
  <2>2. Phase'
    BY <1>11 DEF GrantReadWrite, Phase, StartSteps, StopSteps
  <2>3. Progress'
    BY <1>11 DEF GrantReadWrite, Progress, StartSteps
  <2>4. Joined'
    BY <1>11 DEF GrantReadWrite, Joined, StartSteps
  <2>5. Removed'
    BY <1>11 DEF GrantReadWrite, Removed,
      ShareLeft, AccountLeft, RuleLeft
  <2>6. Blamed'
    BY <1>11 DEF GrantReadWrite, Blamed
  <2> QED BY <2>1, <2>2, <2>3, <2>4, <2>5, <2>6
<1>12. ASSUME CallFails PROVE Inv'
  <2>1. TypeOK'
    BY <1>12 DEF CallFails, RollsBack, TypeOK, Steps
  <2>2. Phase'
    BY <1>12 DEF CallFails, RollsBack, Phase, StartSteps, StopSteps
  <2>3. Progress'
    BY <1>12 DEF CallFails, RollsBack, Progress, StartSteps
  <2>4. Joined'
    BY <1>12 DEF CallFails, RollsBack, Joined, StartSteps
  <2>5. Removed'
    BY <1>12 DEF CallFails, RollsBack, Progress, Removed,
      ShareLeft, AccountLeft, RuleLeft
  <2>6. Blamed'
    BY <1>12 DEF CallFails, RollsBack, Blamed
  <2> QED BY <2>1, <2>2, <2>3, <2>4, <2>5, <2>6
<1>13. ASSUME CallBreaks PROVE Inv'
  <2>1. TypeOK'
    BY <1>13, PresentMeans DEF CallBreaks, Breaks, Failed, TypeOK, Steps
  <2>2. Phase'
    BY <1>13 DEF CallBreaks, Breaks, Failed, Phase, StartSteps, StopSteps
  <2>3. Progress'
    BY <1>13 DEF CallBreaks, Breaks, Failed, Progress, StartSteps
  <2>4. Joined'
    BY <1>13, PresentMeans DEF CallBreaks, Breaks, Failed, Joined
  <2>5. Removed'
    BY <1>13, PresentMeans DEF CallBreaks, Breaks, Removed,
      ShareLeft, AccountLeft, RuleLeft
  <2>6. Blamed'
    BY <1>13 DEF CallBreaks, Breaks, Failed, Blamed
  <2> QED BY <2>1, <2>2, <2>3, <2>4, <2>5, <2>6
<1>14. ASSUME SessionLive PROVE Inv'
  <2>1. TypeOK'
    BY <1>14 DEF SessionLive, Subscribed, TypeOK, Sessions, Steps, Phase, StartSteps
  <2>2. Phase'
    BY <1>14 DEF SessionLive, Subscribed, TypeOK, Phase, StartSteps
  <2>3. Progress'
    BY <1>14 DEF SessionLive, NoSession, Progress, StartSteps
  <2>4. Joined'
    BY <1>14 DEF SessionLive, FirewallAwaited, Joined
  <2>5. Removed'
    BY <1>14 DEF SessionLive, Removed,
      ShareLeft, AccountLeft, RuleLeft
  <2>6. Blamed'
    BY <1>14 DEF SessionLive, Blamed
  <2> QED BY <2>1, <2>2, <2>3, <2>4, <2>5, <2>6
<1>15. ASSUME MonitorBreaks PROVE Inv'
  <2>1. TypeOK'
    BY <1>15, PresentMeans DEF MonitorBreaks, Failed, Subscribed, TypeOK, Steps, Phase, StartSteps
  <2>2. Phase'
    BY <1>15 DEF MonitorBreaks, Failed, Phase, StartSteps, StopSteps
  <2>3. Progress'
    BY <1>15 DEF MonitorBreaks, Failed, Progress, StartSteps
  <2>4. Joined'
    BY <1>15, PresentMeans DEF MonitorBreaks, FirewallAwaited, Joined
  <2>5. Removed'
    BY <1>15, PresentMeans DEF MonitorBreaks, Removed,
      ShareLeft, AccountLeft, RuleLeft
  <2>6. Blamed'
    BY <1>15 DEF MonitorBreaks, Failed, Blamed
  <2> QED BY <2>1, <2>2, <2>3, <2>4, <2>5, <2>6
<1>16. ASSUME RestoreFirewall PROVE Inv'
  <2>1. TypeOK'
    <3>1. subs' \in 0..MaxSubs
      BY <1>16 DEF RestoreFirewall, view, TypeOK, Phase, StopSteps
    <3> QED BY <1>16, <3>1, NoSessionType DEF RestoreFirewall, FirewallAwaited, TypeOK, Steps
  <2>2. Phase'
    BY <1>16 DEF RestoreFirewall, Phase, StartSteps, StopSteps
  <2>3. Progress'
    BY <1>16 DEF RestoreFirewall, Progress, StartSteps
  <2>4. Joined'
    BY <1>16 DEF RestoreFirewall, FirewallAwaited, Joined, StartSteps
  <2>5. Removed'
    BY <1>16 DEF RestoreFirewall, Removed,
      ShareLeft, AccountLeft, RuleLeft
  <2>6. Blamed'
    BY <1>16 DEF RestoreFirewall, Blamed
  <2> QED BY <2>1, <2>2, <2>3, <2>4, <2>5, <2>6
<1>17. ASSUME RemoveCreatedShare PROVE Inv'
  <2>1. TypeOK'
    BY <1>17 DEF RemoveCreatedShare, TypeOK, Steps
  <2>2. Phase'
    BY <1>17 DEF RemoveCreatedShare, Phase, StartSteps, StopSteps
  <2>3. Progress'
    BY <1>17 DEF RemoveCreatedShare, Progress, StartSteps
  <2>4. Joined'
    BY <1>17 DEF RemoveCreatedShare, Joined
  <2>5. Removed'
    BY <1>17 DEF RemoveCreatedShare, Removed,
      ShareLeft, AccountLeft, RuleLeft
  <2>6. Blamed'
    BY <1>17 DEF RemoveCreatedShare, Blamed
  <2> QED BY <2>1, <2>2, <2>3, <2>4, <2>5, <2>6
<1>18. ASSUME DeleteCreatedUser PROVE Inv'
  <2>1. TypeOK'
    BY <1>18 DEF DeleteCreatedUser, TypeOK, Steps
  <2>2. Phase'
    BY <1>18 DEF DeleteCreatedUser, Phase, StartSteps, StopSteps
  <2>3. Progress'
    BY <1>18 DEF DeleteCreatedUser, Progress, StartSteps
  <2>4. Joined'
    BY <1>18 DEF DeleteCreatedUser, Joined
  <2>5. Removed'
    BY <1>18 DEF DeleteCreatedUser, Removed,
      ShareLeft, AccountLeft, RuleLeft
  <2>6. Blamed'
    BY <1>18 DEF DeleteCreatedUser, Blamed
  <2> QED BY <2>1, <2>2, <2>3, <2>4, <2>5, <2>6
<1>19. ASSUME Stop PROVE Inv'
  <2>1. TypeOK'
    BY <1>19 DEF Stop, TypeOK, Steps
  <2>2. Phase'
    BY <1>19 DEF Stop, Phase, StartSteps
  <2>3. Progress'
    BY <1>19 DEF Stop, Progress, StartSteps
  <2>4. Joined'
    BY <1>19 DEF Stop, Joined, StartSteps
  <2>5. Removed'
    BY <1>19 DEF Stop, Removed,
      ShareLeft, AccountLeft, RuleLeft
  <2>6. Blamed'
    BY <1>19 DEF Stop, Blamed
  <2> QED BY <2>1, <2>2, <2>3, <2>4, <2>5, <2>6
<1>20. ASSUME StopShare PROVE Inv'
  <2>1. TypeOK'
    BY <1>20 DEF StopShare, TypeOK, Steps
  <2>2. Phase'
    BY <1>20 DEF StopShare, Phase, StartSteps, StopSteps
  <2>3. Progress'
    BY <1>20 DEF StopShare, Progress, StartSteps
  <2>4. Joined'
    BY <1>20 DEF StopShare, Joined, StartSteps
  <2>5. Removed'
    BY <1>20 DEF StopShare, Removed,
      ShareLeft, AccountLeft, RuleLeft
  <2>6. Blamed'
    BY <1>20 DEF StopShare, Blamed
  <2> QED BY <2>1, <2>2, <2>3, <2>4, <2>5, <2>6
<1>21. ASSUME DeleteUser PROVE Inv'
  <2>1. TypeOK'
    BY <1>21 DEF DeleteUser, TypeOK, Steps
  <2>2. Phase'
    BY <1>21 DEF DeleteUser, Phase, StartSteps, StopSteps
  <2>3. Progress'
    BY <1>21 DEF DeleteUser, Progress, StartSteps
  <2>4. Joined'
    BY <1>21 DEF DeleteUser, Joined, StartSteps
  <2>5. Removed'
    BY <1>21 DEF DeleteUser, Removed,
      ShareLeft, AccountLeft, RuleLeft
  <2>6. Blamed'
    BY <1>21 DEF DeleteUser, Blamed
  <2> QED BY <2>1, <2>2, <2>3, <2>4, <2>5, <2>6
<1>22. ASSUME StopFails PROVE Inv'
  <2>1. TypeOK'
    BY <1>22, PresentMeans DEF StopFails, Failed, TypeOK, Steps
  <2>2. Phase'
    BY <1>22 DEF StopFails, Failed, Phase, StartSteps, StopSteps
  <2>3. Progress'
    BY <1>22 DEF StopFails, Failed, Progress, StartSteps
  <2>4. Joined'
    BY <1>22, PresentMeans DEF StopFails, Failed, Joined, StartSteps
  <2>5. Removed'
    BY <1>22, PresentMeans DEF StopFails, Removed,
      ShareLeft, AccountLeft, RuleLeft
  <2>6. Blamed'
    BY <1>22 DEF StopFails, Failed, Blamed
  <2> QED BY <2>1, <2>2, <2>3, <2>4, <2>5, <2>6
<1>23. ASSUME NEW p \in Passwords, ChangePassword(p) PROVE Inv'
  <2>1. TypeOK'
    BY <1>23 DEF ChangePassword, TypeOK
  <2>2. Phase'
    BY <1>23 DEF ChangePassword, Phase
  <2>3. Progress'
    BY <1>23 DEF ChangePassword, Progress
  <2>4. Joined'
    BY <1>23 DEF ChangePassword, Joined
  <2>5. Removed'
    BY <1>23 DEF ChangePassword, Removed,
      ShareLeft, AccountLeft, RuleLeft
  <2>6. Blamed'
    BY <1>23 DEF ChangePassword, Blamed
  <2> QED BY <2>1, <2>2, <2>3, <2>4, <2>5, <2>6
<1>24. ASSUME NEW f \in Folders, ChangeFolder(f) PROVE Inv'
  <2>1. TypeOK'
    BY <1>24 DEF ChangeFolder, TypeOK
  <2>2. Phase'
    BY <1>24 DEF ChangeFolder, Phase
  <2>3. Progress'
    BY <1>24 DEF ChangeFolder, Progress
  <2>4. Joined'
    BY <1>24 DEF ChangeFolder, Joined
  <2>5. Removed'
    BY <1>24 DEF ChangeFolder, Removed,
      ShareLeft, AccountLeft, RuleLeft
  <2>6. Blamed'
    BY <1>24 DEF ChangeFolder, Blamed
  <2> QED BY <2>1, <2>2, <2>3, <2>4, <2>5, <2>6
<1>25. ASSUME PasswordSaved PROVE Inv'
  <2>1. TypeOK'
    BY <1>25 DEF PasswordSaved, TypeOK
  <2>2. Phase'
    BY <1>25 DEF PasswordSaved, Phase
  <2>3. Progress'
    BY <1>25 DEF PasswordSaved, Progress
  <2>4. Joined'
    BY <1>25 DEF PasswordSaved, Joined
  <2>5. Removed'
    BY <1>25 DEF PasswordSaved, Removed,
      ShareLeft, AccountLeft, RuleLeft
  <2>6. Blamed'
    BY <1>25 DEF PasswordSaved, Blamed
  <2> QED BY <2>1, <2>2, <2>3, <2>4, <2>5, <2>6
<1>26. ASSUME Crash PROVE Inv'
  <2>1. TypeOK'
    <3>1. session' \in Sessions /\ request' \in Sessions
      BY <1>26, NoSessionType DEF Crash
    <3>2. subs' \in 0..MaxSubs
      BY <1>26 DEF Crash
    <3>3. {rule, created, stray, fault}' \subseteq BOOLEAN
      BY <1>26 DEF Crash, TypeOK
    <3>4. left' \subseteq {"share", "account", "rule"}
      BY <1>26, PresentMeans DEF Crash, TypeOK
    <3> QED BY <1>26, <3>1, <3>2, <3>3, <3>4 DEF Crash, TypeOK, Steps
  <2>2. Phase'
    BY <1>26 DEF Crash, Phase, StartSteps, StopSteps
  <2>3. Progress'
    BY <1>26 DEF Crash, Progress, StartSteps
  <2>4. Joined'
    BY <1>26, PresentMeans DEF Crash, Joined
  <2>5. Removed'
    BY <1>26, PresentMeans DEF Crash, Removed,
      ShareLeft, AccountLeft, RuleLeft
  <2>6. Blamed'
    BY <1>26 DEF Crash, Blamed
  <2> QED BY <2>1, <2>2, <2>3, <2>4, <2>5, <2>6
<1>27. ASSUME UNCHANGED vars PROVE Inv'
  BY <1>27 DEF vars, TypeOK, Phase, Progress, Joined, Removed, Blamed, ShareLeft, AccountLeft,
    RuleLeft
<1> QED
  BY <1>1, <1>2, <1>3, <1>4, <1>5, <1>6, <1>7, <1>8, <1>9, <1>10, <1>11, <1>12, <1>13, <1>14,
    <1>15, <1>16, <1>17, <1>18, <1>19, <1>20, <1>21, <1>22, <1>23, <1>24, <1>25, <1>26, <1>27
    DEF Next

\* Inv always holds.
THEOREM InvAlways == Spec => []Inv
<1> QED BY InvInit, InvStep, PTL DEF Spec

\* Type correctness.
THEOREM TypeCorrect == Spec => []TypeOK
<1> QED BY InvAlways, InvMeans, PTL

\* While the user is told that sharing is live, the session's folder is shared and the account
\* has the session's password.
THEOREM ServingAlways == Spec => []Serving
<1> QED BY InvAlways, InvMeans, PTL

\* While no session is live nothing of the app is in Windows but what is in `left': what its own
\* failed removal left, the account of a CreateTemporaryUser that failed after its effect, and
\* what was there when an exception passed the rollback by, the monitor threw, a stop failed or
\* the process ended.
THEOREM NothingLeftAlways == Spec => []NothingLeft
<1> QED BY InvAlways, InvMeans, PTL

\* No leftover makes a start fail: a failure comes from a call that failed.
THEOREM CleanStartAlways == Spec => []CleanStart
<1> QED BY InvAlways, InvMeans, PTL
=============================================================================
