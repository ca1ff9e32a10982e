-------------------------- MODULE SmbClient_proofs --------------------------
(***************************************************************************)
(* Proofs about SmbClient, for every set of calls, every mix of their kinds, *)
(* every window, number of batches and number of expiries.  CallInv is       *)
(* inductive: the types, a session's beginning and end, where the requests   *)
(* of a call are, in what order they wait, when its user was told, and which *)
(* request will tell.  CalledOnce, NothingLost and InOrder follow.           *)
(***************************************************************************)
EXTENDS SmbClient, SequenceRanges, WellFoundedInduction

-----------------------------------------------------------------------------
Kinds == DOMAIN FirstChain \cup {"connect"}
Call == [kind : Kinds, status : Statuses, told : Seq(Statuses)]
Reply == [mid : Nat, status : Statuses \cup {"pending"}, grant : Nat]
Taken == [chain : Seq(Request), pended : BOOLEAN]

\* A chain as it is queued: one call's, the last request tells, every other
\* knows the one before it by its message id.
Chain(ch) ==
  /\ ch \in Seq(Request) /\ ch # <<>>
  /\ \A k \in DOMAIN ch :
       /\ ch[k].call = ch[1].call
       /\ ch[k].cb \in (IF k = Len(ch) THEN Tellers ELSE Silent)
       /\ k > 1 => ch[k].prev = ch[k - 1].mid /\ ch[k].prev # 0

Types ==
  /\ link \in {"new", "connecting", "up", "shut", "down", "crashed"}
  /\ calls \in [Calls -> Call] /\ begun \subseteq Calls
  /\ outq \in Seq(Seq(Request)) /\ \A i \in DOMAIN outq : Chain(outq[i])
  /\ waitq \in Seq(Request)
  /\ cur \in Reading \cup {None}
  /\ inbox \in Seq(Taken) /\ \A i \in DOMAIN inbox : inbox[i].chain # <<>>
  /\ frames \in Seq(Seq(Reply)) /\ \A i \in DOMAIN frames : frames[i] # <<>>
  /\ handles \subseteq Calls /\ dropped \subseteq Calls /\ late \subseteq Calls
  /\ failed \in [Calls -> SUBSET Commands] /\ legs \in [Calls -> Nat]
  /\ partial \in BOOLEAN /\ garbled \in BOOLEAN
  /\ credits \in Nat /\ nextMid \in Nat /\ granted \in Nat /\ skipped \in Nat
  /\ expiries \in Nat

-----------------------------------------------------------------------------
\* Where a call's requests are.
InOutq(c) == \E i \in DOMAIN outq : outq[i][1].call = c
InWaitq(c) == \E i \in DOMAIN waitq : waitq[i].call = c
TellerWaits(c) == \E i \in DOMAIN waitq : waitq[i].call = c /\ waitq[i].cb \in Tellers
IsCur(c) == cur # None /\ cur.pdu.call = c
TellerIsCur(c) == IsCur(c) /\ cur.pdu.cb \in Tellers

\* Outside of a session nothing is outstanding, and a session begins with the
\* one connect.
Session ==
  /\ link \notin {"up", "shut", "crashed"} => outq = <<>> /\ waitq = <<>> /\ cur = None
  /\ link = "new" => begun = {}
  /\ link = "connecting" => \E d \in Calls : /\ begun = {d} /\ ~Told(d)
                                              /\ calls[d].kind = "connect"
  /\ link = "up" => nextMid > 0

\* A call has one chain at a time, in one place.
OneChain ==
  /\ \A i, j \in DOMAIN outq : outq[i][1].call = outq[j][1].call => i = j
  /\ \A c \in Calls : InOutq(c) => ~InWaitq(c) /\ ~IsCur(c)

\* What is left of a chain on the wire is in order, each linked to one before.
Linked(q) ==
  \A i, j \in DOMAIN q : i < j /\ q[i].call = q[j].call =>
    /\ q[i].cb \notin Tellers
    /\ q[j].prev # 0
    /\ \E k \in i..(j - 1) : q[k].mid = q[j].prev /\ q[k].call = q[j].call
WireOrder ==
  /\ Linked(waitq)
  /\ \A c \in Calls : TellerIsCur(c) => ~InWaitq(c)

\* A call is told once and has then nothing outstanding, except a request whose
\* reply is being read while the rest of its chain is given up for its age.
ToldLast ==
  \A c \in Calls :
    /\ Len(calls[c].told) <= 1
    /\ InOutq(c) \/ InWaitq(c) \/ IsCur(c) \/ Told(c) => c \in begun
    /\ Told(c) => /\ ~InOutq(c) /\ ~InWaitq(c) /\ ~TellerIsCur(c)
                  /\ expiries = 0 => ~IsCur(c)

\* A call that was made keeps the request that will tell its user.
TellerKept ==
  link \in {"up", "shut", "down"} =>
    \A c \in begun : \/ Told(c) \/ c \in dropped
                     \/ InOutq(c) \/ TellerWaits(c) \/ TellerIsCur(c)

CallInv == Types /\ Session /\ OneChain /\ WireOrder /\ ToldLast /\ TellerKept /\ InOrder

-----------------------------------------------------------------------------
\* The callbacks.

\* Merging a status, as the silent callbacks do, tells nobody.
LEMMA MergeEffect ==
  ASSUME NEW call \in Call, NEW s \in Statuses
  PROVE  /\ Merge(call, s).call \in Call
         /\ Merge(call, s).call.kind = call.kind
         /\ Merge(call, s).call.told = call.told
         /\ Merge(call, s).chain = <<>> /\ Merge(call, s).closed = FALSE
BY DEF Merge, Done, Call

\* Telling the user adds one status to what the call was told.
LEMMA TellEffect ==
  ASSUME NEW call \in Call, NEW s \in Statuses
  PROVE  /\ Tell(call, s).call \in Call
         /\ Tell(call, s).call.kind = call.kind
         /\ Tell(call, s).call.told = Append(call.told, s)
         /\ Tell(call, s).chain = <<>> /\ Tell(call, s).closed = FALSE
BY AppendProperties DEF Tell, Done, Call

\* What the callbacks inside a chain come to.
LEMMA CallbackSilent ==
  ASSUME NEW call, NEW s, NEW cb \in Silent
  PROVE  \/ Callback(cb, call, s) = Done(call)
         \/ Callback(cb, call, s) = Merge(call, s)
         \/ Callback(cb, call, s) = Done([call EXCEPT !.status = s])
BY DEF Silent, Callback, create_cb_1, getinfo_cb_1, getinfo_cb_2, trunc_cb_1, trunc_cb_2,
  rename_cb_1, rename_cb_2, readlink_cb_1, readlink_cb_2

\* What the callbacks of a call that goes on ask for.
FollowUps == {Cmd("QUERY_DIRECTORY", "query_cb"), Cmd("CLOSE", "od_close_cb"),
              Cmd("IOCTL", "pipe_bind_cb"), Cmd("IOCTL", "dcerpc_call_cb"),
              Cmd("SESSION_SETUP", "session_setup_cb"),
              Cmd("TREE_CONNECT", "tree_connect_cb"), Cmd("LOGOFF", "disconnect_cb_2")}

\* What the callbacks of a last request come to: they tell, or they go on.
LEMMA CallbackTeller ==
  ASSUME NEW call, NEW s \in Statuses, NEW cb \in Tellers
  PROVE  LET e == Callback(cb, call, s) IN
         \/ \E t \in Statuses \cup {call.status} :
              e = Tell(call, t) \/ e = [Tell(call, t) EXCEPT !.closed = TRUE]
         \/ e = Tell(Merge(call, s).call, Merge(call, s).call.status)
         \/ s \notin {"timeout", "shutdown"} /\ \E cmd \in FollowUps : e = Queue(call, <<cmd>>)
<1>1. CASE cb \in {"open_cb", "close_cb", "fsync_cb", "fstat_cb_1", "ftrunc_cb_1", "echo_cb",
                   "create_cb_2", "od_close_cb", "dcerpc_call_cb"}
  BY <1>1 DEF Callback, open_cb, close_cb, fsync_cb, fstat_cb_1, ftrunc_cb_1, echo_cb,
    create_cb_2, od_close_cb, dcerpc_call_cb
<1>2. CASE cb \in {"read_cb", "write_cb", "readlink_cb_3"}
  BY <1>2 DEF Callback, read_cb, write_cb, readlink_cb_3, Statuses
<1>3. CASE cb \in {"getinfo_cb_3", "trunc_cb_3", "rename_cb_3"}
  BY <1>3 DEF Callback, getinfo_cb_3, trunc_cb_3, rename_cb_3, MergeAndTell
<1>4. CASE cb \in {"opendir_cb", "query_cb"}
  BY <1>4 DEF Callback, opendir_cb, query_cb, NextBatch, FollowUps
<1>5. CASE cb \in {"pipe_open_cb", "pipe_bind_cb"}
  BY <1>5 DEF Callback, pipe_open_cb, pipe_bind_cb, dcerpc_bind_async, dcerpc_call_async,
    FollowUps
<1>6. CASE cb \in {"negotiate_cb", "session_setup_cb", "tree_connect_cb"}
  BY <1>6 DEF Callback, negotiate_cb, session_setup_cb, tree_connect_cb, SessionSetup,
    close_context, FollowUps
<1>7. CASE cb \in {"disconnect_cb_1", "disconnect_cb_2"}
  BY <1>7 DEF Callback, disconnect_cb_1, disconnect_cb_2, FollowUps, Statuses
<1> QED BY <1>1, <1>2, <1>3, <1>4, <1>5, <1>6, <1>7 DEF Tellers

\* A callback keeps the kind of its call.  One inside a chain tells nothing; the
\* last of a chain tells, or asks for more unless the request was given up.
LEMMA CallbackEffect ==
  ASSUME NEW call \in Call, NEW s \in Statuses, NEW cb \in Silent \cup Tellers
  PROVE  LET e == Callback(cb, call, s) IN
         /\ e.call \in Call /\ e.call.kind = call.kind /\ e.closed \in BOOLEAN
         /\ cb \in Silent => e.call.told = call.told /\ e.chain = <<>>
         /\ cb \in Tellers =>
              \/ e.chain = <<>> /\ \E t \in Statuses : e.call.told = Append(call.told, t)
              \/ /\ s \notin {"timeout", "shutdown"} /\ e.call = call
                 /\ \E cmd \in FollowUps : e.chain = <<cmd>>
<1> DEFINE e == Callback(cb, call, s)
<1>0. call.status \in Statuses /\ Merge(call, s).call.status \in Statuses
  BY MergeEffect DEF Call
<1>1. CASE cb \in Silent
  <2>1. cb \notin Tellers  BY <1>1 DEF Silent, Tellers
  <2>2. \/ e = Done(call) \/ e = Merge(call, s) \/ e = Done([call EXCEPT !.status = s])
    BY <1>1, CallbackSilent
  <2> SUFFICES /\ e.call \in Call /\ e.call.kind = call.kind /\ e.closed \in BOOLEAN
               /\ e.call.told = call.told /\ e.chain = <<>>
    BY <1>1, <2>1 DEF e
  <2> HIDE DEF e
  <2>3. CASE e = Merge(call, s)  BY <2>3, MergeEffect
  <2>4. ASSUME NEW c \in Call, c.kind = call.kind, c.told = call.told, e = Done(c)
        PROVE  /\ e.call \in Call /\ e.call.kind = call.kind /\ e.closed \in BOOLEAN
               /\ e.call.told = call.told /\ e.chain = <<>>
    BY <2>4 DEF Done
  <2>5. /\ [call EXCEPT !.status = s] \in Call
        /\ [call EXCEPT !.status = s].kind = call.kind
        /\ [call EXCEPT !.status = s].told = call.told
    BY DEF Call
  <2> QED BY <2>2, <2>3, <2>4, <2>5
<1>2. CASE cb \in Tellers
  <2>1. cb \notin Silent  BY <1>2 DEF Silent, Tellers
  <2> DEFINE Goal == /\ e.call \in Call /\ e.call.kind = call.kind /\ e.closed \in BOOLEAN
                     /\ \/ e.chain = <<>> /\ \E t \in Statuses : e.call.told = Append(call.told, t)
                        \/ /\ s \notin {"timeout", "shutdown"} /\ e.call = call
                           /\ \E cmd \in FollowUps : e.chain = <<cmd>>
  <2>2. \/ \E t \in Statuses \cup {call.status} :
              e = Tell(call, t) \/ e = [Tell(call, t) EXCEPT !.closed = TRUE]
        \/ e = Tell(Merge(call, s).call, Merge(call, s).call.status)
        \/ s \notin {"timeout", "shutdown"} /\ \E cmd \in FollowUps : e = Queue(call, <<cmd>>)
    BY <1>2, CallbackTeller
  <2> SUFFICES Goal
    BY <2>1 DEF e
  <2> HIDE DEF e
  <2>3. ASSUME NEW t \in Statuses, e = Tell(call, t) PROVE Goal
    BY <2>3, TellEffect
  <2>4. ASSUME NEW t \in Statuses, e = [Tell(call, t) EXCEPT !.closed = TRUE] PROVE Goal
    <3>1. e.call = Tell(call, t).call /\ e.chain = Tell(call, t).chain /\ e.closed = TRUE
      BY <2>4 DEF Tell, Done
    <3> QED BY <3>1, TellEffect, ZenonT(40)
  <2>5. CASE e = Tell(Merge(call, s).call, Merge(call, s).call.status)
    <3> DEFINE m == Merge(call, s).call
    <3>1. m \in Call /\ m.status \in Statuses /\ m.kind = call.kind /\ m.told = call.told
      BY <1>0, MergeEffect
    <3>2. PICK t \in Statuses : t = m.status  BY <3>1
    <3>3. e = Tell(m, t)  BY <2>5, <3>2
    <3> HIDE DEF m
    <3>4. /\ e.call \in Call /\ e.call.kind = m.kind /\ e.call.told = Append(m.told, t)
          /\ e.chain = <<>> /\ e.closed = FALSE
      BY <3>1, <3>3, TellEffect
    <3> QED BY <3>1, <3>4
  <2>6. ASSUME s \notin {"timeout", "shutdown"}, NEW cmd \in FollowUps, e = Queue(call, <<cmd>>)
        PROVE Goal
    BY <2>6 DEF Queue
  <2> HIDE DEF Goal
  <2> QED BY <1>0, <2>2, <2>3, <2>4, <2>5, <2>6
<1> QED BY <1>1, <1>2

-----------------------------------------------------------------------------
\* The chains.

Command == [cmd : Commands, cb : Silent \cup Tellers, cost : Nat]
Chained(ch) ==
  /\ ch \in Seq(Command) /\ ch # <<>> /\ Len(ch) <= 3
  /\ \A k \in DOMAIN ch :
       /\ ch[k].cb \in (IF k = Len(ch) THEN Tellers ELSE Silent)
       /\ ch[k].cost = 1 \/ ch[k].cmd \in {"READ", "WRITE"}
       /\ ch[k].cmd # "NEGOTIATE"

\* One command that goes on is a chain.
LEMMA FollowUpChained ==
  ASSUME NEW cmd \in FollowUps PROVE Chained(<<cmd>>)
<1>1. cmd \in Command /\ cmd.cb \in Tellers /\ cmd.cost = 1 /\ cmd.cmd # "NEGOTIATE"
  BY DEF FollowUps, Cmd, Command, Commands, Silent, Tellers
<1> QED BY <1>1 DEF Chained

\* What each call queues first is a chain.
LEMMA FirstChained ==
  ASSUME NEW kind \in DOMAIN FirstChain PROVE Chained(FirstChain[kind])
<1> DEFINE ch == FirstChain[kind]
<1>1. CASE kind \in {"open", "close", "fsync", "read", "write", "fstat", "ftruncate", "echo",
                     "opendir", "shares", "disconnect"}
  <2>1. \E cmd \in Command : /\ ch = <<cmd>> /\ cmd.cb \in Tellers /\ cmd.cmd # "NEGOTIATE"
                             /\ cmd.cost = 1 \/ cmd.cmd \in {"READ", "WRITE"}
    BY <1>1, BlocksAssumption DEF FirstChain, open_async, close_async, fsync_async, pread_async,
      pwrite_async, fstat_async, ftruncate_async, echo_async, opendir_async, share_enum_async,
      disconnect_share_async, Cmd, Sized, Command, Commands, Silent, Tellers
  <2> HIDE DEF ch
  <2> QED BY <2>1 DEF Chained, ch
<1>2. CASE kind \in {"unlink", "mkdir"}
  <2>1. \E a, b \in Command : /\ ch = <<a, b>> /\ a.cb \in Silent /\ b.cb \in Tellers
                              /\ a.cost = 1 /\ b.cost = 1
                              /\ a.cmd # "NEGOTIATE" /\ b.cmd # "NEGOTIATE"
    BY <1>2 DEF FirstChain, unlink_async, mkdir_async, Cmd, Command, Commands, Silent, Tellers
  <2> HIDE DEF ch
  <2> QED BY <2>1 DEF Chained, ch
<1>3. CASE kind \in {"stat", "truncate", "rename", "readlink"}
  <2>1. \E a, b, c \in Command :
           /\ ch = <<a, b, c>> /\ a.cb \in Silent /\ b.cb \in Silent /\ c.cb \in Tellers
           /\ a.cost = 1 /\ b.cost = 1 /\ c.cost = 1
           /\ a.cmd # "NEGOTIATE" /\ b.cmd # "NEGOTIATE" /\ c.cmd # "NEGOTIATE"
    BY <1>3 DEF FirstChain, getinfo_async, truncate_async, rename_async, readlink_async, Cmd,
      Command, Commands, Silent, Tellers
  <2> HIDE DEF ch
  <2> QED BY <2>1 DEF Chained, ch
<1> QED BY <1>1, <1>2, <1>3 DEF FirstChain

-----------------------------------------------------------------------------
\* Recursion over the positions of a sequence.

\* Induction up to a number, by its least counterexample.
LEMMA Induction ==
  ASSUME NEW N \in Nat, NEW S, 0 \in S, \A n \in 0..(N - 1) : n \in S => n + 1 \in S
  PROVE  0..N \subseteq S
<1> DEFINE T == 0..N \ S
<1> SUFFICES ASSUME T # {} PROVE FALSE
  OBVIOUS
<1>1. T \subseteq Nat
  OBVIOUS
<1> HIDE DEF T
<1>2. PICK t \in T : \A y \in T : ~ (<<y, t>> \in OpToRel(<, Nat))
  BY <1>1, WFMin, NatLessThanWellFounded
<1>3. \A y \in T : t <= y
  <2> TAKE y \in T
  <2>1. y \in Nat /\ t \in Nat  BY <1>1
  <2>2. ~ (y < t)  BY <1>2, <2>1 DEF OpToRel
  <2> QED BY <2>1, <2>2
<1>4. t \in 0..N /\ t \notin S  BY DEF T
<1>5. t # 0  BY <1>4
<1>6. t - 1 \in 0..(N - 1) /\ (t - 1) + 1 = t /\ t - 1 \in 0..N BY <1>4, <1>5
<1>7. t - 1 \in S
  <2>1. CASE t - 1 \in T  BY <1>3, <2>1, <1>4
  <2>2. CASE t - 1 \notin T BY <1>6, <2>2 DEF T
  <2> QED BY <2>1, <2>2
<1> QED BY <1>4, <1>6, <1>7

\* The recursive function behind Total exists and adds up the numbers.
Sums(s, f) == /\ f \in [0..Len(s) -> Nat] /\ f[0] = 0
              /\ \A n \in 1..Len(s) : f[n] = f[n - 1] + s[n]
              /\ Total(s) = f[Len(s)]

LEMMA TotalDef ==
  ASSUME NEW s \in Seq(Nat)
  PROVE  \E f : Sums(s, f)
<1> DEFINE L == Len(s)
           Def(f, n) == IF n = 0 THEN 0 ELSE f[n - 1] + s[n]
           S == {m \in 0..L : \E g \in [0..m -> Nat] : g = [n \in 0..m |-> Def(g, n)]}
<1>0. L \in Nat /\ \A n \in 1..L : s[n] \in Nat
  BY LenProperties
<1>1. 0 \in S
  <2>1. /\ [i \in 0..0 |-> 0] \in [0..0 -> Nat]
        /\ [i \in 0..0 |-> 0] = [n \in 0..0 |-> Def([i \in 0..0 |-> 0], n)]
    OBVIOUS
  <2>2. 0 \in 0..L BY <1>0
  <2> QED BY <2>1, <2>2
<1>2. \A m \in 0..(L - 1) : m \in S => m + 1 \in S
  <2> SUFFICES ASSUME NEW m \in 0..(L - 1), m \in S PROVE m + 1 \in S
    OBVIOUS
  <2>1. PICK g \in [0..m -> Nat] : g = [n \in 0..m |-> Def(g, n)]
    OBVIOUS
  <2> DEFINE h == [n \in 0..(m + 1) |-> IF n = m + 1 THEN g[m] + s[m + 1] ELSE g[n]]
  <2>2. h \in [0..(m + 1) -> Nat]
    BY <1>0, <2>1, SMTT(30)
  <2>3. ASSUME NEW n \in 0..(m + 1) PROVE h[n] = Def(h, n)
    <3>1. ASSUME NEW k \in 0..m PROVE g[k] = Def(g, k) /\ h[k] = g[k]
      <4>1. k \in 0..(m + 1) /\ k # m + 1
        OBVIOUS
      <4>2. h[k] = g[k]
        BY <4>1
      <4>3. [j \in 0..m |-> Def(g, j)][k] = Def(g, k)
        OBVIOUS
      <4> HIDE DEF h, Def
      <4> QED BY <2>1, <4>2, <4>3
    <3>2. CASE n = m + 1  BY <3>1, <3>2
    <3>3. CASE n # m + 1  
      <4>1. n \in 0..m BY <3>3
      <4>2. n # 0 => n - 1 \in 0..m BY <4>1
      <4> QED BY <3>1, <4>1, <4>2
    <3> QED BY <3>2, <3>3
  <2>4. h = [n \in 0..(m + 1) |-> Def(h, n)]
    BY <2>2, <2>3
  <2>5. m + 1 \in 0..L BY <1>0
  <2> HIDE DEF h
  <2> QED BY <2>2, <2>4, <2>5
<1>3. L \in S
  <2>1. L \in Nat /\ L \in 0..L  BY <1>0
  <2> HIDE DEF S, L
  <2>2. 0..L \subseteq S  BY <1>1, <1>2, <2>1, Induction
  <2> QED BY <2>1, <2>2
<1>4. PICK g \in [0..L -> Nat] : g = [n \in 0..L |-> Def(g, n)]
  BY <1>3
<1> DEFINE f == CHOOSE f : f = [n \in 0..L |-> Def(f, n)]
<1>5. f = [n \in 0..L |-> Def(f, n)]
  BY <1>4
<1>6. Total(s) = f[L]
  BY DEF Total
<1>7. \A n \in 0..L : f[n] = Def(f, n)
  <2> HIDE DEF f
  <2> QED BY <1>5
<1> DEFINE T == {m \in 0..L : f[m] \in Nat}
<1> HIDE DEF f
<1>8. 0..L \subseteq T
  <2>1. 0 \in T BY <1>0, <1>7
  <2>2. \A m \in 0..(L - 1) : m \in T => m + 1 \in T
    <3> SUFFICES ASSUME NEW m \in 0..(L - 1), m \in T PROVE m + 1 \in T OBVIOUS
    <3>1. m + 1 \in 1..L /\ m + 1 \in 0..L /\ (m + 1) - 1 = m /\ m + 1 # 0 BY <1>0
    <3>2. f[m + 1] = f[m] + s[m + 1] BY <1>7, <3>1
    <3> QED BY <1>0, <3>1, <3>2
  <2> HIDE DEF T, L
  <2> QED BY <1>0, <2>1, <2>2, Induction
<1>9. f \in [0..L -> Nat]
  BY <1>5, <1>8
<1>10. f[0] = 0 /\ \A n \in 1..L : f[n] = f[n - 1] + s[n]
  BY <1>0, <1>7
<1> QED BY <1>6, <1>9, <1>10 DEF Sums

\* Any function that adds them up has the total at its end.
LEMMA TotalUnique ==
  ASSUME NEW s \in Seq(Nat), NEW g, g[0] = 0, \A n \in 1..Len(s) : g[n] = g[n - 1] + s[n]
  PROVE  Total(s) = g[Len(s)]
<1>1. PICK f : Sums(s, f)
  BY TotalDef
<1> DEFINE L == Len(s)
           S == {n \in 0..L : f[n] = g[n]}
<1>2. L \in Nat
  BY LenProperties
<1>3. 0 \in S
  BY <1>1, <1>2 DEF Sums
<1>4. \A n \in 0..(L - 1) : n \in S => n + 1 \in S
  <2> SUFFICES ASSUME NEW n \in 0..(L - 1), n \in S PROVE n + 1 \in S
    OBVIOUS
  <2>1. n + 1 \in 1..L /\ n + 1 \in 0..L /\ (n + 1) - 1 = n
    BY <1>2
  <2>2. f[n + 1] = f[n] + s[n + 1] /\ g[n + 1] = g[n] + s[n + 1]
    BY <1>1, <2>1 DEF Sums
  <2> QED BY <2>1, <2>2
<1>5. 0..L \subseteq S
  <2> HIDE DEF S, L
  <2> QED BY <1>2, <1>3, <1>4, Induction
<1>6. f[L] = g[L]
  BY <1>2, <1>5
<1> QED BY <1>1, <1>6 DEF Sums

\* A total of natural numbers is one.
LEMMA TotalNat ==
  ASSUME NEW s \in Seq(Nat) PROVE Total(s) \in Nat /\ (s = <<>> => Total(s) = 0)
<1>1. PICK f : Sums(s, f)
  BY TotalDef
<1>2. Len(s) \in 0..Len(s) /\ (s = <<>> => Len(s) = 0)
  BY LenProperties
<1> QED BY <1>1, <1>2 DEF Sums

\* The callbacks of given up requests, one after the other.
LEMMA CompleteAllDef ==
  ASSUME NEW S, NEW pdus \in Seq(S), NEW s
  PROVE  \E f : /\ f[0] = Before
                /\ \A n \in 1..Len(pdus) : f[n] = Complete(f[n - 1], pdus[n], s)
                /\ CompleteAll(pdus, s) = f[Len(pdus)]
<1> DEFINE L == Len(pdus)
           Def(f, n) == IF n = 0 THEN Before ELSE Complete(f[n - 1], pdus[n], s)
           T == {m \in 0..L : \E g : g = [n \in 0..m |-> Def(g, n)]}
<1>0. L \in Nat /\ L \in 0..L
  BY LenProperties
<1>1. 0 \in T
  <2> DEFINE g == [n \in 0..0 |-> Before]
  <2>1. \A n \in 0..0 : g[n] = Def(g, n)
    OBVIOUS
  <2>2. g = [n \in 0..0 |-> g[n]]
    OBVIOUS
  <2> HIDE DEF g, Def
  <2>3. g = [n \in 0..0 |-> Def(g, n)]
    BY <2>1, <2>2
  <2> QED BY <1>0, <2>3
<1>2. \A m \in 0..(L - 1) : m \in T => m + 1 \in T
  <2> SUFFICES ASSUME NEW m \in 0..(L - 1), m \in T PROVE m + 1 \in T
    OBVIOUS
  <2>1. PICK g : g = [n \in 0..m |-> Def(g, n)]
    OBVIOUS
  <2> DEFINE h == [n \in 0..(m + 1) |-> IF n = m + 1 THEN Complete(g[m], pdus[m + 1], s)
                                         ELSE g[n]]
  <2>3. ASSUME NEW n \in 0..(m + 1) PROVE h[n] = Def(h, n)
    <3>1. \A k \in 0..m : g[k] = Def(g, k) /\ h[k] = g[k]
      BY <2>1
    <3>2. CASE n = m + 1
      <4>1. m \in 0..m /\ n - 1 = m /\ n # 0 BY <3>2
      <4>2. h[n] = Complete(g[m], pdus[m + 1], s) BY <3>2
      <4> HIDE DEF h
      <4> QED BY <3>1, <3>2, <4>1, <4>2
    <3>3. CASE n # m + 1
      <4>1. n \in 0..m BY <3>3
      <4>2. n # 0 => n - 1 \in 0..m BY <4>1
      <4> HIDE DEF h
      <4>3. h[n] = Def(g, n) /\ (n # 0 => h[n - 1] = g[n - 1])  BY <3>1, <4>1, <4>2
      <4> QED BY <4>3
    <3> QED BY <3>2, <3>3
  <2>4. h = [n \in 0..(m + 1) |-> h[n]]
    OBVIOUS
  <2> HIDE DEF h, Def
  <2>5. h = [n \in 0..(m + 1) |-> Def(h, n)]
    BY <2>3, <2>4
  <2>6. m + 1 \in 0..L
    BY <1>0
  <2> QED BY <2>5, <2>6
<1>3. L \in T
  <2> HIDE DEF T, L
  <2>2. 0..L \subseteq T
    BY <1>0, <1>1, <1>2, Induction
  <2> QED BY <1>0, <2>2
<1>4. PICK g : g = [n \in 0..L |-> Def(g, n)]
  BY <1>3
<1> DEFINE f == CHOOSE f : f = [n \in 0..L |-> Def(f, n)]
<1>5. f = [n \in 0..L |-> Def(f, n)]
  BY <1>4
<1>6. CompleteAll(pdus, s) = f[L]
  BY DEF CompleteAll
<1>7. \A n \in 0..L : f[n] = Def(f, n)
  <2> HIDE DEF f, Def
  <2> QED BY <1>5
<1>8. f[0] = Before /\ \A n \in 1..L : f[n] = Complete(f[n - 1], pdus[n], s)
  <2> HIDE DEF f
  <2> QED BY <1>0, <1>7
<1> HIDE DEF f
<1> QED BY <1>6, <1>8

-----------------------------------------------------------------------------
\* Queueing.

\* A function over the first numbers is a sequence.
LEMMA FcnIsSeq ==
  ASSUME NEW n \in Nat, NEW S, NEW f \in [1..n -> S]
  PROVE  f \in Seq(S) /\ Len(f) = n /\ DOMAIN f = 1..n
BY SeqDef, LenProperties

\* What a command asks of the credits is a number, clipped or not.
LEMMA AskedNat ==
  ASSUME NEW cmd \in Command, NEW c \in Nat PROVE Asked(cmd, c) \in Nat
BY DEF Asked, Clipped, Command

\* smb2_queue_pdu makes a chain of the commands: ids, and the id before.
LEMMA NumberedChain ==
  ASSUME NEW call \in Calls, NEW mid \in Nat, NEW c \in Nat,
         NEW chain \in Seq(Command), chain # <<>>,
         \A k \in DOMAIN chain : chain[k].cb \in (IF k = Len(chain) THEN Tellers ELSE Silent),
         Len(chain) > 1 => mid > 0
  PROVE  LET n == Numbered(call, chain, mid, c) IN
         /\ Chain(n) /\ Len(n) = Len(chain)
         /\ \A k \in DOMAIN n : /\ n[k].call = call /\ n[k].cmd = chain[k].cmd
                                /\ n[k].cb = chain[k].cb /\ n[k].charge = Asked(chain[k], c)
<1> DEFINE L == Len(chain)
           charge(k) == Asked(chain[k], c)
           widths == [k \in DOMAIN chain |-> Width(charge(k))]
           at(k) == mid + Total(SubSeq(widths, 1, k - 1))
           n == Numbered(call, chain, mid, c)
<1>1. L \in Nat \ {0} /\ DOMAIN chain = 1..L /\ \A k \in 1..L : chain[k] \in Command
  BY LenProperties, EmptySeq
<1>2. \A k \in 1..L : charge(k) \in Nat
  BY <1>1, AskedNat
<1>3. widths \in [1..L -> Nat]
  BY <1>1, <1>2 DEF Width
<1>4. widths \in Seq(Nat) /\ Len(widths) = L
  <2> HIDE DEF widths
  <2> QED BY <1>1, <1>3, FcnIsSeq
<1>5. ASSUME NEW k \in 1..L PROVE at(k) \in Nat /\ (L > 1 => at(k) # 0)
  <2> HIDE DEF widths
  <2>1. k - 1 \in 0..Len(widths)  BY <1>1, <1>4
  <2>2. SubSeq(widths, 1, k - 1) \in Seq(Nat)
    BY <1>4, <2>1, PrefixElements
  <2>3. Total(SubSeq(widths, 1, k - 1)) \in Nat
    BY <2>2, TotalNat
  <2> QED BY <2>3
<1>6. n = [k \in 1..L |-> [call |-> call, cmd |-> chain[k].cmd, cb |-> chain[k].cb,
                           charge |-> charge(k), mid |-> at(k),
                           prev |-> IF k = 1 THEN 0 ELSE at(k - 1)]]
  BY <1>1 DEF Numbered
<1> HIDE DEF at, charge, n
<1>7. \A k \in 1..L : /\ n[k].call = call /\ n[k].cmd = chain[k].cmd /\ n[k].cb = chain[k].cb
                      /\ n[k].charge = charge(k) /\ n[k].mid = at(k)
                      /\ n[k].prev = IF k = 1 THEN 0 ELSE at(k - 1)
  BY <1>6
<1>8. ASSUME NEW k \in 1..L PROVE n[k] \in Request
  <2>1. (IF k = 1 THEN 0 ELSE at(k - 1)) \in Nat
    <3>1. CASE k = 1  BY <3>1
    <3>2. CASE k # 1  BY <1>1, <1>5, <3>2, k - 1 \in 1..L
    <3> QED BY <3>1, <3>2
  <2>2. chain[k].cmd \in Commands /\ chain[k].cb \in Silent \cup Tellers
    BY <1>1 DEF Command
  <2> QED BY <1>2, <1>5, <1>6, <2>1, <2>2 DEF Request
<1>9. n \in Seq(Request) /\ Len(n) = L /\ DOMAIN n = 1..L
  <2>1. n \in [1..L -> Request]
    BY <1>6, <1>8
  <2> QED BY <1>1, <2>1, FcnIsSeq
<1>10. n # <<>>
  BY <1>1, <1>9
<1>11. \A k \in DOMAIN n : k > 1 => n[k].prev = n[k - 1].mid /\ n[k].prev # 0
  <2> SUFFICES ASSUME NEW k \in 1..L, k > 1 PROVE n[k].prev = n[k - 1].mid /\ n[k].prev # 0
    BY <1>9
  <2>1. k - 1 \in 1..L /\ L > 1  BY <1>1
  <2> QED BY <1>5, <1>7, <2>1, SMTT(30)
<1>12. Chain(n)
  BY <1>1, <1>7, <1>9, <1>10, <1>11 DEF Chain
<1> QED BY <1>1, <1>7, <1>9, <1>12 DEF n, charge

\* smb2_queue_pdu adds the numbered chain at the end of outq.
LEMMA QueueEffect ==
  ASSUME NEW st, NEW c, NEW chain
  PROVE  /\ chain = <<>> => smb2_queue_pdu(st, c, chain) = st
         /\ chain # <<>> =>
              LET pdus == Numbered(c, chain, st.nextMid, credits) IN
              smb2_queue_pdu(st, c, chain) =
                [st EXCEPT !.outq = Append(@, pdus), !.nextMid = @ + Widths(pdus),
                           !.skipped = @ + IF pdus[1].cmd = "NEGOTIATE" THEN 0
                                           ELSE Unpaid(pdus)]
BY DEF smb2_queue_pdu

\* The same for a call of its own, with the fields that change.
LEMMA QueuedRecord ==
  ASSUME NEW c, NEW chain, chain # <<>>, NEW st, st = smb2_queue_pdu(Before, c, chain),
         NEW pdus, pdus = Numbered(c, chain, nextMid, credits)
  PROVE  /\ st.calls = calls /\ st.late = late /\ st.outq = Append(outq, pdus)
         /\ st.nextMid = nextMid + Widths(pdus)
         /\ st.skipped = skipped + IF pdus[1].cmd = "NEGOTIATE" THEN 0 ELSE Unpaid(pdus)
<1>1. Before.nextMid = nextMid
  BY DEF Before
<1>2. st = [Before EXCEPT !.outq = Append(@, pdus), !.nextMid = @ + Widths(pdus),
                          !.skipped = @ + IF pdus[1].cmd = "NEGOTIATE" THEN 0
                                          ELSE Unpaid(pdus)]
  BY <1>1 DEF smb2_queue_pdu
<1> QED BY <1>2 DEF Before

-----------------------------------------------------------------------------
\* Giving up.

Ages == {"timeout", "shutdown"}   \* the statuses of what is given up

\* What the callbacks work on while requests are given up.
GivingUp == [calls : [Calls -> Call], outq : {outq}, nextMid : {nextMid}, skipped : {skipped},
             late : SUBSET Calls, shut : BOOLEAN]

\* One callback of a request given up: it queues nothing.
LEMMA CompleteGivenUp ==
  ASSUME NEW st \in GivingUp, NEW p \in Request, NEW s \in Ages
  PROVE  LET n == Complete(st, p, s)
             told == st.calls[p.call].told
         IN /\ n \in GivingUp
            /\ \A d \in Calls \ {p.call} : n.calls[d] = st.calls[d]
            /\ n.calls[p.call].kind = st.calls[p.call].kind
            /\ p.cb \in Silent => n.calls[p.call].told = told
            /\ p.cb \in Tellers => \E t \in Statuses : n.calls[p.call].told = Append(told, t)
            /\ told = <<>> => n.late = st.late
<1> DEFINE call == st.calls[p.call]
           e == Callback(p.cb, call, s)
           told == st.calls[p.call].told
           n == Complete(st, p, s)
<1>1. p.call \in Calls /\ call \in Call /\ p.cb \in Silent \cup Tellers /\ s \in Statuses
  BY DEF GivingUp, Request, Statuses, Ages
<1>2. /\ e.call \in Call /\ e.call.kind = call.kind /\ e.closed \in BOOLEAN /\ e.chain = <<>>
      /\ p.cb \in Silent => e.call.told = told
      /\ p.cb \in Tellers => \E t \in Statuses : e.call.told = Append(told, t)
  <2> HIDE DEF call
  <2>1. /\ e.call \in Call /\ e.call.kind = call.kind /\ e.closed \in BOOLEAN
        /\ p.cb \in Silent => e.call.told = call.told /\ e.chain = <<>>
        /\ p.cb \in Tellers =>
             \/ e.chain = <<>> /\ \E t \in Statuses : e.call.told = Append(call.told, t)
             \/ /\ s \notin {"timeout", "shutdown"} /\ e.call = call
                /\ \E cmd \in FollowUps : e.chain = <<cmd>>
    BY <1>1, CallbackEffect
  <2> HIDE DEF e
  <2> QED BY <1>1, <2>1 DEF call, Ages
<1>3. n = [st EXCEPT !.calls[p.call] = e.call, !.shut = @ \/ e.closed,
                     !.late = IF told = <<>> THEN @ ELSE @ \cup {p.call}]
  BY <1>2 DEF Complete, smb2_queue_pdu
<1> HIDE DEF e, n
<1>4. /\ n.calls = [st.calls EXCEPT ![p.call] = e.call]
      /\ n.late = IF told = <<>> THEN st.late ELSE st.late \cup {p.call}
      /\ n \in [calls : {n.calls}, outq : {outq}, nextMid : {nextMid}, skipped : {skipped},
                late : {n.late}, shut : {st.shut \/ e.closed}]
  BY <1>3 DEF GivingUp
<1>5. st.calls \in [Calls -> Call] /\ st.late \subseteq Calls
  BY DEF GivingUp
<1>6. n.calls \in [Calls -> Call] /\ n.late \subseteq Calls
  BY <1>1, <1>2, <1>4, <1>5
<1>7. n \in GivingUp
  BY <1>2, <1>4, <1>6 DEF GivingUp
<1>8. /\ \A d \in Calls \ {p.call} : n.calls[d] = st.calls[d]
      /\ n.calls[p.call] = e.call
  BY <1>1, <1>4, <1>5
<1> QED BY <1>2, <1>4, <1>7, <1>8 DEF n

\* Given up together, the requests of a call tell its user once: at its last.
LEMMA GivenUp ==
  ASSUME calls \in [Calls -> Call], late \subseteq Calls, \A c \in Calls : Len(calls[c].told) <= 1,
         NEW pdus \in Seq(Request), NEW s \in Ages,
         \A i, j \in DOMAIN pdus : i < j /\ pdus[i].call = pdus[j].call => pdus[i].cb \notin Tellers,
         \A i \in DOMAIN pdus : pdus[i].cb \in Tellers => calls[pdus[i].call].told = <<>>
  PROVE  LET st == CompleteAll(pdus, s) IN
         /\ st \in GivingUp
         /\ \A c \in Calls :
              /\ st.calls[c].kind = calls[c].kind /\ Len(st.calls[c].told) <= 1
              /\ st.calls[c].told # <<>> <=>
                   \/ calls[c].told # <<>>
                   \/ \E i \in DOMAIN pdus : pdus[i].call = c /\ pdus[i].cb \in Tellers
         /\ (\A i \in DOMAIN pdus : calls[pdus[i].call].told = <<>>) => st.late = late
<1>1. PICK f : /\ f[0] = Before
               /\ \A n \in 1..Len(pdus) : f[n] = Complete(f[n - 1], pdus[n], s)
               /\ CompleteAll(pdus, s) = f[Len(pdus)]
  BY CompleteAllDef
<1> DEFINE L == Len(pdus)
           Untold == \A i \in DOMAIN pdus : calls[pdus[i].call].told = <<>>
           ToldBy(c, n) == \E i \in 1..n : pdus[i].call = c /\ pdus[i].cb \in Tellers
           Call1(st, c, n) == /\ st.calls[c].kind = calls[c].kind /\ Len(st.calls[c].told) <= 1
                              /\ st.calls[c].told # <<>> <=> (calls[c].told # <<>> \/ ToldBy(c, n))
           P(st, n) == /\ st \in GivingUp
                       /\ \A c \in Calls : Call1(st, c, n)
                       /\ Untold => st.late = late
           T == {n \in 0..L : P(f[n], n)}
<1>2. L \in Nat /\ L \in 0..L /\ DOMAIN pdus = 1..L /\ \A i \in 1..L : pdus[i] \in Request
  BY LenProperties
<1>3. P(Before, 0)
  BY DEF Before, GivingUp
<1>4. ASSUME NEW n \in 0..(L - 1), P(f[n], n) PROVE P(f[n + 1], n + 1)
  <2> DEFINE p == pdus[n + 1]
             st == f[n]
             m == f[n + 1]
  <2>1. n + 1 \in 1..L /\ p \in Request /\ (n + 1) - 1 = n /\ m = Complete(st, p, s)
    BY <1>1, <1>2
  <2>2. p.call \in Calls /\ p.cb \in Silent \cup Tellers
    BY <2>1 DEF Request
  <2>3. ~ToldBy(p.call, n)
    BY <1>2, <2>1
  <2>4. p.cb \in Tellers \/ Untold => st.calls[p.call].told = <<>>
    <3> HIDE DEF ToldBy, st, p
    <3>1. p.cb \in Tellers => calls[p.call].told = <<>>  BY <1>2, <2>1 DEF p
    <3>2. Untold => calls[p.call].told = <<>>  BY <1>2, <2>1 DEF p
    <3> QED BY <1>4, <2>2, <2>3, <3>1, <3>2 DEF st
  <2>5. \A c \in Calls : ToldBy(c, n + 1) <=> ToldBy(c, n) \/ (c = p.call /\ p.cb \in Tellers)
    BY <2>1
  <2>6. st \in GivingUp
    BY <1>4
  <2> HIDE DEF p, m, st, ToldBy, Untold
  <2>7. /\ m \in GivingUp
        /\ \A d \in Calls \ {p.call} : m.calls[d] = st.calls[d]
        /\ m.calls[p.call].kind = st.calls[p.call].kind
        /\ p.cb \in Silent => m.calls[p.call].told = st.calls[p.call].told
        /\ p.cb \in Tellers => \E t \in Statuses : m.calls[p.call].told
                                                     = Append(st.calls[p.call].told, t)
        /\ st.calls[p.call].told = <<>> => m.late = st.late
    <3>1. p \in Request /\ s \in Ages /\ st \in GivingUp
      BY <2>1, <2>6
    <3> DEFINE x == Complete(st, p, s)
    <3>2. /\ x \in GivingUp
          /\ \A d \in Calls \ {p.call} : x.calls[d] = st.calls[d]
          /\ x.calls[p.call].kind = st.calls[p.call].kind
          /\ p.cb \in Silent => x.calls[p.call].told = st.calls[p.call].told
          /\ p.cb \in Tellers => \E t \in Statuses : x.calls[p.call].told
                                                       = Append(st.calls[p.call].told, t)
          /\ st.calls[p.call].told = <<>> => x.late = st.late
      BY <3>1, CompleteGivenUp
    <3>3. m = x  BY <2>1
    <3> HIDE DEF x
    <3> QED BY <3>2, <3>3
  <2>8. \A c \in Calls : Call1(st, c, n)
    BY <1>4 DEF st
  <2>9. ASSUME NEW c \in Calls \ {p.call} PROVE Call1(m, c, n + 1)
    BY <2>5, <2>7, <2>8
  <2>10. Call1(m, p.call, n + 1)
    <3>1. CASE p.cb \in Silent
      <4>1. p.cb \notin Tellers  BY <3>1 DEF Silent, Tellers
      <4> QED BY <2>2, <2>5, <2>7, <2>8, <3>1, <4>1
    <3>2. CASE p.cb \in Tellers
      <4>1. PICK t \in Statuses : m.calls[p.call].told = Append(<<>>, t)
        BY <2>4, <2>7, <3>2
      <4>2. Append(<<>>, t) # <<>> /\ Len(Append(<<>>, t)) = 1
        BY AppendProperties, EmptySeq
      <4> QED BY <2>2, <2>5, <2>7, <2>8, <3>2, <4>1, <4>2
    <3> QED BY <2>2, <3>1, <3>2
  <2>11. Untold => m.late = late
    BY <1>4, <2>4, <2>7 DEF st
  <2> HIDE DEF Call1
  <2>12. \A c \in Calls : Call1(m, c, n + 1)
    BY <2>9, <2>10
  <2> QED BY <2>7, <2>11, <2>12 DEF m
<1> HIDE DEF P
<1>5. 0 \in T /\ \A n \in 0..(L - 1) : n \in T => n + 1 \in T
  <2>1. \A n \in 0..(L - 1) : n + 1 \in 0..L  BY <1>2
  <2> QED BY <1>1, <1>2, <1>3, <1>4, <2>1
<1>6. L \in T
  <2> HIDE DEF T, L
  <2>1. 0..L \subseteq T
    BY <1>2, <1>5, Induction
  <2> QED BY <1>2, <2>1
<1>7. P(CompleteAll(pdus, s), L)
  BY <1>1, <1>6
<1> QED BY <1>2, <1>7 DEF P

-----------------------------------------------------------------------------
\* Sums of the requests of a chain.

\* Totals keep an order that holds number by number.
LEMMA TotalAtMost ==
  ASSUME NEW s \in Seq(Nat), NEW t \in Seq(Nat), Len(s) = Len(t),
         \A n \in 1..Len(s) : s[n] <= t[n]
  PROVE  Total(s) <= Total(t)
<1>1. PICK f : Sums(s, f)
  BY TotalDef
<1>2. PICK g : Sums(t, g)
  BY TotalDef
<1> DEFINE L == Len(s)
           S == {n \in 0..L : f[n] <= g[n]}
<1>3. L \in Nat /\ \A n \in 1..L : s[n] \in Nat /\ t[n] \in Nat
  BY LenProperties
<1>4. 0 \in S
  BY <1>1, <1>2, <1>3 DEF Sums
<1>5. \A n \in 0..(L - 1) : n \in S => n + 1 \in S
  <2> SUFFICES ASSUME NEW n \in 0..(L - 1), n \in S PROVE n + 1 \in S
    OBVIOUS
  <2>1. n + 1 \in 1..L /\ n + 1 \in 0..L /\ (n + 1) - 1 = n /\ n \in 0..L
    BY <1>3
  <2>2. f[n + 1] = f[n] + s[n + 1] /\ g[n + 1] = g[n] + t[n + 1]
    BY <1>1, <1>2, <2>1 DEF Sums
  <2>3. f[n] \in Nat /\ g[n] \in Nat /\ f[n] <= g[n]
    BY <1>1, <1>2, <2>1 DEF Sums
  <2>4. s[n + 1] <= t[n + 1] /\ s[n + 1] \in Nat /\ t[n + 1] \in Nat
    BY <1>3, <2>1
  <2> QED BY <2>1, <2>2, <2>3, <2>4
<1>6. L \in S
  <2> HIDE DEF S, L
  <2>1. 0..L \subseteq S
    BY <1>3, <1>4, <1>5, Induction
  <2> QED BY <1>3, <2>1
<1> QED BY <1>1, <1>2, <1>6 DEF Sums

\* A total is no less than its last number.
LEMMA TotalLast ==
  ASSUME NEW s \in Seq(Nat), s # <<>> PROVE s[Len(s)] <= Total(s)
<1>1. PICK f : Sums(s, f)
  BY TotalDef
<1>2. Len(s) \in Nat \ {0} /\ s[Len(s)] \in Nat
  BY LenProperties, EmptySeq
<1>3. Len(s) - 1 \in 0..Len(s) /\ Len(s) \in 1..Len(s)
  BY <1>2
<1>4. f[Len(s) - 1] \in Nat /\ Total(s) = f[Len(s) - 1] + s[Len(s)]
  BY <1>1, <1>3 DEF Sums
<1> QED BY <1>2, <1>4

\* A chain takes at least as many message ids as credits, and one at least.
LEMMA ChainSums ==
  ASSUME NEW ch \in Seq(Request), ch # <<>>
  PROVE  /\ Charge(ch) \in Nat /\ Widths(ch) \in Nat \ {0} /\ Unpaid(ch) \in Nat
         /\ Charge(ch) + Unpaid(ch) = Widths(ch)
<1> DEFINE a == [k \in DOMAIN ch |-> ch[k].charge]
           b == [k \in DOMAIN ch |-> Width(ch[k].charge)]
<1>1. Len(ch) \in Nat \ {0} /\ DOMAIN ch = 1..Len(ch) /\ \A k \in 1..Len(ch) : ch[k].charge \in Nat
  <2>1. Len(ch) \in Nat \ {0} /\ DOMAIN ch = 1..Len(ch) /\ \A k \in 1..Len(ch) : ch[k] \in Request
    BY LenProperties, EmptySeq
  <2> QED BY <2>1 DEF Request
<1>2. a \in [1..Len(ch) -> Nat] /\ b \in [1..Len(ch) -> Nat]
  BY <1>1 DEF Width
<1>3. \A k \in 1..Len(ch) : a[k] <= b[k] /\ b[k] >= 1
  BY <1>1 DEF Width
<1>4. Charge(ch) = Total(a) /\ Widths(ch) = Total(b)
  BY DEF Charge, Widths
<1> HIDE DEF a, b
<1>5. a \in Seq(Nat) /\ b \in Seq(Nat) /\ Len(a) = Len(ch) /\ Len(b) = Len(ch)
  BY <1>1, <1>2, FcnIsSeq
<1>6. Total(a) \in Nat /\ Total(b) \in Nat /\ Total(a) <= Total(b)
  BY <1>1, <1>3, <1>5, TotalNat, TotalAtMost
<1>7. b # <<>>
  BY <1>1, <1>5
<1>8. b[Len(ch)] <= Total(b) /\ b[Len(ch)] >= 1 /\ b[Len(ch)] \in Nat
  BY <1>1, <1>2, <1>3, <1>5, <1>7, TotalLast
<1>9. Total(b) - Total(a) \in Nat /\ Total(a) + (Total(b) - Total(a)) = Total(b) /\ Total(b) # 0
  BY <1>6, <1>8
<1> QED BY <1>4, <1>6, <1>9 DEF Unpaid

-----------------------------------------------------------------------------
\* One callback, of a reply.

\* A reply's callback tells nothing, tells once, or queues one command.
LEMMA CompleteReply ==
  ASSUME Types, NEW p \in Request, NEW s \in Statuses
  PROVE  LET st == Complete(Before, p, s)
             told == calls[p.call].told
         IN /\ st.calls \in [Calls -> Call] /\ st.late \subseteq Calls /\ st.shut \in BOOLEAN
            /\ \A d \in Calls \ {p.call} : st.calls[d] = calls[d]
            /\ st.calls[p.call].kind = calls[p.call].kind
            /\ told = <<>> => st.late = late
            /\ \/ /\ st.outq = outq /\ st.nextMid = nextMid /\ st.skipped = skipped
                  /\ p.cb \in Silent => st.calls[p.call].told = told
                  /\ p.cb \in Tellers => \E t \in Statuses : st.calls[p.call].told = Append(told, t)
               \/ /\ p.cb \in Tellers /\ st.calls[p.call] = calls[p.call]
                  /\ \E cmd \in FollowUps :
                       LET pdus == Numbered(p.call, <<cmd>>, nextMid, credits) IN
                       /\ st.outq = Append(outq, pdus)
                       /\ st.nextMid = nextMid + Widths(pdus)
                       /\ st.skipped = skipped + Unpaid(pdus)
<1> DEFINE call == calls[p.call]
           e == Callback(p.cb, call, s)
           told == calls[p.call].told
           st == Complete(Before, p, s)
           after == [Before EXCEPT !.calls[p.call] = e.call, !.shut = @ \/ e.closed,
                                   !.late = IF told = <<>> THEN @ ELSE @ \cup {p.call}]
<1>1. p.call \in Calls /\ call \in Call /\ p.cb \in Silent \cup Tellers /\ calls \in [Calls -> Call]
      /\ late \subseteq Calls
  BY DEF Types, Request
<1>2. /\ e.call \in Call /\ e.call.kind = call.kind /\ e.closed \in BOOLEAN
      /\ p.cb \in Silent => e.call.told = told /\ e.chain = <<>>
      /\ p.cb \in Tellers =>
           \/ e.chain = <<>> /\ \E t \in Statuses : e.call.told = Append(told, t)
           \/ /\ s \notin {"timeout", "shutdown"} /\ e.call = call
              /\ \E cmd \in FollowUps : e.chain = <<cmd>>
  <2> HIDE DEF call
  <2>1. /\ e.call \in Call /\ e.call.kind = call.kind /\ e.closed \in BOOLEAN
        /\ p.cb \in Silent => e.call.told = call.told /\ e.chain = <<>>
        /\ p.cb \in Tellers =>
             \/ e.chain = <<>> /\ \E t \in Statuses : e.call.told = Append(call.told, t)
             \/ /\ s \notin {"timeout", "shutdown"} /\ e.call = call
                /\ \E cmd \in FollowUps : e.chain = <<cmd>>
    BY <1>1, CallbackEffect
  <2> HIDE DEF e
  <2> QED BY <2>1 DEF call
<1>3. st = smb2_queue_pdu(after, p.call, e.chain)
  BY DEF Complete, Before
<1> HIDE DEF e, st, after
<1>4. /\ after.calls = [calls EXCEPT ![p.call] = e.call] /\ after.outq = outq
      /\ after.nextMid = nextMid /\ after.skipped = skipped /\ after.shut \in BOOLEAN
      /\ after.late = IF told = <<>> THEN late ELSE late \cup {p.call}
  BY <1>2 DEF after, Before
<1>5. /\ after.calls \in [Calls -> Call] /\ after.late \subseteq Calls
      /\ \A d \in Calls \ {p.call} : after.calls[d] = calls[d]
      /\ after.calls[p.call] = e.call
  BY <1>1, <1>2, <1>4
<1>6. CASE e.chain = <<>>
  <2>1. st = after
    BY <1>3, <1>6, QueueEffect
  <2>2. p.cb \in Silent => e.call.told = told
    BY <1>2
  <2>3. p.cb \in Tellers => \E t \in Statuses : e.call.told = Append(told, t)
    BY <1>2, <1>6
  <2> QED BY <1>2, <1>4, <1>5, <2>1, <2>2, <2>3 DEF st
<1>7. CASE e.chain # <<>>
  <2>1. p.cb \in Tellers /\ e.call = call
    BY <1>1, <1>2, <1>7
  <2>2. PICK cmd \in FollowUps : e.chain = <<cmd>>
    BY <1>1, <1>2, <1>7
  <2> DEFINE pdus == Numbered(p.call, <<cmd>>, nextMid, credits)
  <2>3. st = [after EXCEPT !.outq = Append(@, pdus), !.nextMid = @ + Widths(pdus),
                           !.skipped = @ + IF pdus[1].cmd = "NEGOTIATE" THEN 0 ELSE Unpaid(pdus)]
    <3>1. e.chain = <<cmd>> /\ <<cmd>> # <<>>  BY <1>7, <2>2
    <3>2. st = [after EXCEPT !.outq = Append(@, Numbered(p.call, e.chain, after.nextMid, credits)),
                             !.nextMid = @ + Widths(Numbered(p.call, e.chain, after.nextMid, credits)),
                             !.skipped = @ + IF Numbered(p.call, e.chain, after.nextMid, credits)[1].cmd
                                                  = "NEGOTIATE" THEN 0
                                             ELSE Unpaid(Numbered(p.call, e.chain, after.nextMid, credits))]
      BY <1>3, <1>7 DEF smb2_queue_pdu
    <3> QED BY <1>4, <3>1, <3>2
  <2>4. pdus[1].cmd # "NEGOTIATE"
    BY DEF Numbered, FollowUps, Cmd
  <2> HIDE DEF pdus
  <2>5. /\ st.calls = after.calls /\ st.late = after.late /\ st.shut = after.shut
        /\ st.outq = Append(outq, pdus) /\ st.nextMid = nextMid + Widths(pdus)
        /\ st.skipped = skipped + Unpaid(pdus)
    BY <1>4, <2>3, <2>4 DEF after
  <2> QED BY <1>2, <1>4, <1>5, <2>1, <2>5 DEF st, pdus
<1> QED BY <1>6, <1>7

-----------------------------------------------------------------------------
\* Which requests are outstanding: a chain joins outq.

\* The elements of a longer sequence.
LEMMA AppendElements ==
  ASSUME NEW S, NEW q \in Seq(S), NEW e \in S
  PROVE  /\ Append(q, e) \in Seq(S) /\ DOMAIN Append(q, e) = 1..(Len(q) + 1)
         /\ DOMAIN q = 1..Len(q) /\ Len(q) \in Nat
         /\ \A i \in 1..Len(q) : Append(q, e)[i] = q[i]
         /\ Append(q, e)[Len(q) + 1] = e
BY AppendProperties, LenProperties

\* The parts of the invariant that follow the requests.
Whereabouts == OneChain /\ WireOrder /\ ToldLast /\ TellerKept

\* A call with nothing outstanding queues a chain.
LEMMA QueueStep ==
  ASSUME Types, Whereabouts, NEW c \in Calls, NEW pdus, Chain(pdus), pdus[1].call = c,
         outq' = Append(outq, pdus), waitq' = waitq, calls' = calls, expiries' = expiries,
         dropped' = dropped, cur' = cur \/ (cur' = None /\ (cur = None \/ cur.pdu.call = c)),
         ~InOutq(c), ~InWaitq(c), ~IsCur(c)', ~Told(c), begun' = begun \cup {c},
         link = "up" \/ begun \subseteq {c}
  PROVE  Whereabouts'
<1> USE DEF Types
<1>1. /\ DOMAIN outq' = 1..(Len(outq) + 1) /\ DOMAIN outq = 1..Len(outq) /\ Len(outq) \in Nat
      /\ \A i \in 1..Len(outq) : outq'[i] = outq[i]
      /\ outq'[Len(outq) + 1] = pdus
  <2>1. pdus \in Seq(Request)  BY DEF Chain
  <2> QED BY <2>1, AppendElements
<1>2. \A d \in Calls : InOutq(d)' <=> InOutq(d) \/ d = c
  <2> TAKE d \in Calls
  <2>1. Len(outq) + 1 \in 1..(Len(outq) + 1) /\ \A i \in 1..Len(outq) : i \in 1..(Len(outq) + 1)
    BY <1>1
  <2>2. InOutq(d) \/ d = c => InOutq(d)'
    BY <1>1, <2>1 DEF InOutq
  <2>3. \A i \in 1..(Len(outq) + 1) : i \in 1..Len(outq) \/ i = Len(outq) + 1
    BY <1>1
  <2>4. InOutq(d)' => InOutq(d) \/ d = c
    BY <1>1, <2>3 DEF InOutq
  <2> QED BY <2>2, <2>4
<1>3. \A d \in Calls : /\ InWaitq(d)' <=> InWaitq(d)
                       /\ TellerWaits(d)' <=> TellerWaits(d)
                       /\ Told(d)' <=> Told(d)
  BY DEF InWaitq, TellerWaits, Told
<1>4. \A d \in Calls : /\ IsCur(d)' => IsCur(d) /\ d # c
                       /\ TellerIsCur(d)' => TellerIsCur(d) /\ d # c
                       /\ d # c => (TellerIsCur(d)' <=> TellerIsCur(d))
  BY DEF IsCur, TellerIsCur
<1>5. OneChain'
  <2>1. ASSUME NEW i \in DOMAIN outq', NEW j \in DOMAIN outq', outq'[i][1].call = outq'[j][1].call
        PROVE  i = j
    <3>1. \A k \in 1..Len(outq) : outq[k][1].call # c  BY <1>1 DEF InOutq
    <3>2. i \in 1..Len(outq) \/ i = Len(outq) + 1  BY <1>1
    <3>3. j \in 1..Len(outq) \/ j = Len(outq) + 1  BY <1>1
    <3>4. CASE i \in 1..Len(outq) /\ j \in 1..Len(outq)
      <4>1. outq[i][1].call = outq[j][1].call
        BY <1>1, <2>1, <3>4
      <4> QED BY <1>1, <3>4, <4>1 DEF Whereabouts, OneChain
    <3>5. CASE i = Len(outq) + 1 /\ j = Len(outq) + 1
      BY <3>5
    <3>6. ~(i \in 1..Len(outq) /\ j = Len(outq) + 1) /\ ~(j \in 1..Len(outq) /\ i = Len(outq) + 1)
      BY <1>1, <2>1, <3>1
    <3> QED BY <3>2, <3>3, <3>4, <3>5, <3>6
  <2>2. \A d \in Calls : InOutq(d)' => ~InWaitq(d)' /\ ~IsCur(d)'
    BY <1>2, <1>3, <1>4 DEF Whereabouts, OneChain
  <2> QED BY <2>1, <2>2 DEF OneChain
<1>6. WireOrder'
  <2>1. Linked(waitq')
    BY DEF Whereabouts, WireOrder
  <2>2. \A d \in Calls : TellerIsCur(d)' => ~InWaitq(d)'
    BY <1>3, <1>4 DEF Whereabouts, WireOrder
  <2> QED BY <2>1, <2>2 DEF WireOrder
<1>7. ToldLast'
  <2> SUFFICES ASSUME NEW d \in Calls
               PROVE  /\ Len(calls'[d].told) <= 1
                      /\ (InOutq(d) \/ InWaitq(d) \/ IsCur(d) \/ Told(d))' => d \in begun'
                      /\ Told(d)' => /\ ~InOutq(d)' /\ ~InWaitq(d)' /\ ~TellerIsCur(d)'
                                     /\ expiries' = 0 => ~IsCur(d)'
    BY DEF ToldLast
  <2> QED BY <1>2, <1>3, <1>4 DEF Whereabouts, ToldLast
<1>8. TellerKept'
  <2> SUFFICES ASSUME NEW d \in begun'
               PROVE  \/ Told(d)' \/ d \in dropped'
                      \/ InOutq(d)' \/ TellerWaits(d)' \/ TellerIsCur(d)'
    BY DEF TellerKept
  <2>1. CASE d = c  BY <1>2, <2>1
  <2>2. CASE d # c  BY <1>2, <1>3, <1>4, <2>2 DEF Whereabouts, TellerKept
  <2> QED BY <2>1, <2>2
<1> QED BY <1>5, <1>6, <1>7, <1>8 DEF Whereabouts

\* Where nothing of this changes, it stays.
LEMMA SameWhereabouts ==
  ASSUME Whereabouts, UNCHANGED <<outq, waitq, cur, calls, begun, dropped, expiries>>,
         link' = "up" \/ link' = "shut" => link = "up"  \/ link = "shut",
         link' = "down" => link = "down"
  PROVE  Whereabouts'
<1>1. \A d : /\ InOutq(d)' <=> InOutq(d)
             /\ InWaitq(d)' <=> InWaitq(d)
             /\ TellerWaits(d)' <=> TellerWaits(d)
             /\ IsCur(d)' <=> IsCur(d)
             /\ TellerIsCur(d)' <=> TellerIsCur(d)
             /\ Told(d)' <=> Told(d)
  BY DEF InOutq, InWaitq, TellerWaits, IsCur, TellerIsCur, Told
<1>2. OneChain'  BY <1>1 DEF Whereabouts, OneChain
<1>3. WireOrder'  BY <1>1 DEF Whereabouts, WireOrder
<1>4. ToldLast'  BY <1>1 DEF Whereabouts, ToldLast
<1>5. TellerKept'  BY <1>1 DEF Whereabouts, TellerKept
<1> QED BY <1>2, <1>3, <1>4, <1>5 DEF Whereabouts

-----------------------------------------------------------------------------
\* The invariant holds at first and every step keeps it.

\* At first nobody was told.
LEMMA KindsOfCalls ==
  ASSUME Init PROVE \A c \in Calls : calls[c] \in Call /\ calls[c].told = <<>>
<1>1. PICK mix \in Mixes : calls = [c \in Calls |-> New(mix[c])]
  BY DEF Init
<1>2. mix \in [Calls -> Kinds]
  BY <1>1, ClientAssumption DEF Kinds
<1>3. <<>> \in Seq(Statuses)
  BY EmptySeq
<1>4. "ok" \in Statuses
  BY DEF Statuses
<1> QED BY <1>1, <1>2, <1>3, <1>4 DEF New, Call

\* CallInv holds of a context before its first call.
THEOREM CallInvInit == Init => CallInv
<1> SUFFICES ASSUME Init PROVE CallInv
  OBVIOUS
<1>1. \A c \in Calls : calls[c] \in Call /\ calls[c].told = <<>>
  BY KindsOfCalls
<1>2. \A S : <<>> \in Seq(S) /\ Len(<<>>) = 0 /\ DOMAIN <<>> = {}
  BY EmptySeq
<1>3. Types
  <2>1. calls \in [Calls -> Call]
    <3>1. \E m : calls = [c \in Calls |-> New(m[c])]  BY DEF Init
    <3> QED BY <1>1, <3>1
  <2>2. credits \in Nat /\ nextMid \in Nat /\ granted \in Nat /\ link \in {"new", "up"}
    BY ClientAssumption DEF Init
  <2>3. handles \subseteq Calls /\ failed \in [Calls -> SUBSET Commands] /\ legs \in [Calls -> Nat]
    BY DEF Init, Held
  <2> QED BY <1>2, <2>1, <2>2, <2>3 DEF Init, Types
<1>4. Session
  BY DEF Init, Session
<1>5. OneChain /\ WireOrder
  BY <1>2 DEF Init, OneChain, WireOrder, Linked, InOutq, InWaitq, TellerIsCur, IsCur
<1>6. ToldLast
  BY <1>1, <1>2 DEF Init, ToldLast, InOutq, InWaitq, TellerIsCur, IsCur, Told
<1>7. TellerKept /\ InOrder
  BY DEF Init, TellerKept, InOrder
<1> QED BY <1>3, <1>4, <1>5, <1>6, <1>7 DEF CallInv

\* The server answers every request of a chain with a status.
LEMMA ResultsTyped ==
  ASSUME NEW ch \in Seq(Request), ch # <<>>, NEW results \in Results(ch)
  PROVE  \A j \in 1..Len(ch) : results[j] \in Statuses
<1> DEFINE L == Len(ch)
<1>1. L \in Nat \ {0} /\ DOMAIN ch = 1..L /\ \A j \in 1..L : ch[j] \in Request
  BY LenProperties, EmptySeq
<1>2. \A j \in 1..L : results[j] \in Statuses
  <2>1. CASE L = 1
    <3>1. PICK s \in Outcomes(ch[1]) : results = <<s>>
      BY <1>1, <2>1 DEF Results
    <3>2. s \in Statuses
      BY DEF Outcomes, Statuses
    <3> QED BY <2>1, <3>1, <3>2
  <2>2. CASE L # 1
    <3>1. results \in [1..L -> {"ok", "fail"}]
      BY <1>1, <2>2 DEF Results
    <3> QED BY <3>1 DEF Statuses
  <2> QED BY <2>1, <2>2
<1> QED BY <1>2

\* What the server sends for a chain: replies with the ids of its requests.
LEMMA RepliesTyped ==
  ASSUME NEW ch \in Seq(Request), ch # <<>>, NEW results \in Results(ch), NEW grant \in Nat,
         legs \in [Calls -> Nat], NEW fs \in Framings(Replies(ch, results, grant))
  PROVE  fs \in Seq(Seq(Reply)) /\ \A i \in DOMAIN fs : fs[i] # <<>>
<1> DEFINE L == Len(ch)
           rs == Replies(ch, results, grant)
<1>1. L \in Nat \ {0} /\ DOMAIN ch = 1..L /\ \A j \in 1..L : ch[j] \in Request
  BY LenProperties, EmptySeq
<1>2. \A j \in 1..L : results[j] \in Statuses
  BY ResultsTyped
<1>3. rs \in [1..L -> Reply]
  <2>1. rs = [j \in 1..L |-> [mid |-> ch[j].mid, status |-> results[j],
                              grant |-> IF j = L THEN grant ELSE 0]]
    BY <1>1 DEF Replies
  <2>2. \A j \in 1..L : ch[j].mid \in Nat
    BY <1>1 DEF Request
  <2> HIDE DEF rs
  <2> QED BY <1>2, <2>1, <2>2 DEF Reply
<1> HIDE DEF rs
<1>4. rs \in Seq(Reply) /\ Len(rs) = L /\ DOMAIN rs = 1..L /\ rs # <<>>
  <2>1. rs \in Seq(Reply) /\ Len(rs) = L /\ DOMAIN rs = 1..L
    BY <1>1, <1>3, FcnIsSeq
  <2> QED BY <1>1, <2>1
<1>5. fs = <<rs>> \/ fs = [j \in 1..L |-> <<rs[j]>>]
  BY <1>4 DEF Framings, rs
<1>6. CASE fs = <<rs>>
  BY <1>4, <1>6
<1>7. CASE fs = [j \in 1..L |-> <<rs[j]>>]
  <2>1. \A j \in 1..L : <<rs[j]>> \in Seq(Reply) /\ <<rs[j]>> # <<>>
    BY <1>3
  <2>2. fs \in [1..L -> Seq(Reply)] /\ \A j \in 1..L : fs[j] # <<>>
    BY <1>7, <2>1
  <2> QED BY <1>1, <2>2, FcnIsSeq
<1> QED BY <1>5, <1>6, <1>7

\* An answer keeps the types.
LEMMA AnswerTypes ==
  ASSUME Types, NEW i \in DOMAIN inbox, Answer(i) PROVE Types'
<1> DEFINE chain == inbox[i].chain
           grant == IF inbox[i].pended THEN 0 ELSE Grant(chain)
<1>1. /\ UNCHANGED <<link, begun, client, record>> /\ inbox' = RemoveAt(inbox, i)
      /\ granted' = granted + grant
  BY DEF Answer
<1>2. PICK results \in Results(chain) :
        /\ \E fs \in Framings(Replies(chain, results, grant)) : frames' = frames \o fs
        /\ handles' = (handles \cup Opened(chain, results)) \ Closed(chain, results)
        /\ failed' = [failed EXCEPT ![chain[1].call] =
             @ \cup {chain[j].cmd : j \in {k \in DOMAIN chain : results[k] = "fail"}}]
        /\ legs' = [legs EXCEPT ![chain[1].call] =
             @ + IF chain[1].cmd \in {"SESSION_SETUP", "QUERY_DIRECTORY"}
                    /\ results[1] \in {"more", "ok"} THEN 1 ELSE 0]
  BY DEF Answer
<1>3. PICK fs \in Framings(Replies(chain, results, grant)) : frames' = frames \o fs
  BY <1>2
<1>4. /\ Len(inbox) \in Nat /\ i \in 1..Len(inbox) /\ DOMAIN inbox = 1..Len(inbox)
      /\ \A k \in 1..Len(inbox) : inbox[k] \in Taken /\ inbox[k].chain # <<>>
  BY LenProperties DEF Types
<1>5. chain \in Seq(Request) /\ chain # <<>>
  BY <1>4 DEF Taken
<1>6. /\ 1 \in DOMAIN chain
      /\ \A j \in DOMAIN chain : chain[j].call \in Calls /\ chain[j].cmd \in Commands
  <2>1. DOMAIN chain = 1..Len(chain) /\ Len(chain) \in Nat \ {0}
        /\ \A j \in 1..Len(chain) : chain[j] \in Request
    BY <1>5, LenProperties, EmptySeq
  <2> QED BY <2>1 DEF Request
<1>7. Grant(chain) \in Nat /\ grant \in Nat
  BY <1>4, <1>5, ChainSums, ClientAssumption DEF Grant, Taken
<1> HIDE DEF grant, chain
<1>8. fs \in Seq(Seq(Reply)) /\ \A k \in DOMAIN fs : fs[k] # <<>>
  BY <1>5, <1>7, RepliesTyped DEF Types
<1>9. frames' \in Seq(Seq(Reply)) /\ \A k \in DOMAIN frames' : frames'[k] # <<>>
  <2>1. frames \in Seq(Seq(Reply)) /\ \A k \in DOMAIN frames : frames[k] # <<>>
    BY DEF Types
  <2>2. /\ frames' \in Seq(Seq(Reply)) /\ Len(frames') = Len(frames) + Len(fs)
        /\ \A k \in 1..(Len(frames) + Len(fs)) :
             frames'[k] = IF k <= Len(frames) THEN frames[k] ELSE fs[k - Len(frames)]
    BY <1>3, <1>8, <2>1, ConcatProperties
  <2>3. /\ DOMAIN frames' = 1..(Len(frames) + Len(fs)) /\ DOMAIN frames = 1..Len(frames)
        /\ DOMAIN fs = 1..Len(fs) /\ Len(frames) \in Nat /\ Len(fs) \in Nat
    BY <1>8, <2>1, <2>2, LenProperties
  <2>4. \A k \in 1..(Len(frames) + Len(fs)) :
          k \in 1..Len(frames) \/ (~(k <= Len(frames)) /\ k - Len(frames) \in 1..Len(fs))
    BY <2>3
  <2>5. \A k \in 1..Len(frames) : k <= Len(frames)  BY <2>3
  <2> QED BY <1>8, <2>1, <2>2, <2>3, <2>4, <2>5
<1>10. inbox' \in Seq(Taken) /\ \A k \in DOMAIN inbox' : inbox'[k].chain # <<>>
  <2>1. /\ inbox' \in Seq(Taken) /\ Len(inbox') = Len(inbox) - 1
        /\ \A m \in 1..(Len(inbox) - 1) : inbox'[m] = IF m < i THEN inbox[m] ELSE inbox[m + 1]
    BY <1>1, <1>4, RemoveAtElements DEF Types
  <2>2. DOMAIN inbox' = 1..(Len(inbox) - 1)
    BY <2>1, LenProperties
  <2>3. \A m \in 1..(Len(inbox) - 1) : m \in 1..Len(inbox) /\ m + 1 \in 1..Len(inbox)
    BY <1>4
  <2> QED BY <1>4, <2>1, <2>2, <2>3
<1>11. handles' \subseteq Calls
  BY <1>2, <1>6 DEF Opened, Types
<1>12. failed' \in [Calls -> SUBSET Commands]
  BY <1>2, <1>6 DEF Types
<1>13. legs' \in [Calls -> Nat]
  <2> DEFINE d == IF chain[1].cmd \in {"SESSION_SETUP", "QUERY_DIRECTORY"}
                     /\ results[1] \in {"more", "ok"} THEN 1 ELSE 0
  <2>1. legs' = [legs EXCEPT ![chain[1].call] = @ + d]
    BY <1>2
  <2>2. d \in Nat
    OBVIOUS
  <2> HIDE DEF d
  <2> QED BY <1>6, <2>1, <2>2 DEF Types
<1>14. granted' \in Nat
  BY <1>1, <1>7 DEF Types
<1> QED BY <1>1, <1>9, <1>10, <1>11, <1>12, <1>13, <1>14 DEF Types, client, record, Chain

\* So does an interim reply.
LEMMA PendTypes ==
  ASSUME Types, NEW i \in DOMAIN inbox, Pend(i) PROVE Types'
<1> DEFINE chain == inbox[i].chain
           r == [mid |-> chain[1].mid, status |-> "pending", grant |-> Grant(chain)]
<1>1. /\ UNCHANGED <<link, begun, client, handles, failed, legs, record>>
      /\ inbox' = [inbox EXCEPT ![i].pended = TRUE]
      /\ granted' = granted + Grant(chain) /\ frames' = Append(frames, <<r>>)
  BY DEF Pend
<1>2. /\ Len(inbox) \in Nat /\ i \in 1..Len(inbox) /\ DOMAIN inbox = 1..Len(inbox)
      /\ \A k \in 1..Len(inbox) : inbox[k] \in Taken /\ inbox[k].chain # <<>>
      /\ inbox \in Seq(Taken)
  BY LenProperties DEF Types
<1>3. chain \in Seq(Request) /\ chain # <<>>
  BY <1>2 DEF Taken
<1>4. Grant(chain) \in Nat
  BY <1>3, ChainSums, ClientAssumption DEF Grant
<1>5. chain[1].mid \in Nat
  <2>1. chain[1] \in Request
    BY <1>3, LenProperties, EmptySeq, ElementOfSeq
  <2> QED BY <2>1 DEF Request
<1>6. r \in Reply
  BY <1>4, <1>5 DEF Reply
<1> HIDE DEF r
<1>7. frames' \in Seq(Seq(Reply)) /\ \A k \in DOMAIN frames' : frames'[k] # <<>>
  <2>1. <<r>> \in Seq(Reply) /\ <<r>> # <<>>
    BY <1>6
  <2>2. frames \in Seq(Seq(Reply)) /\ \A k \in DOMAIN frames : frames[k] # <<>>
    BY DEF Types
  <2>3. /\ frames' \in Seq(Seq(Reply)) /\ DOMAIN frames' = 1..(Len(frames) + 1)
        /\ DOMAIN frames = 1..Len(frames) /\ Len(frames) \in Nat
        /\ \A k \in 1..Len(frames) : frames'[k] = frames[k]
        /\ frames'[Len(frames) + 1] = <<r>>
    BY <1>1, <2>1, <2>2, AppendElements
  <2>4. \A k \in 1..(Len(frames) + 1) : k \in 1..Len(frames) \/ k = Len(frames) + 1
    BY <2>3
  <2> QED BY <2>1, <2>2, <2>3, <2>4
<1>8. inbox' \in Seq(Taken) /\ \A k \in DOMAIN inbox' : inbox'[k].chain # <<>>
  <2> DEFINE t == [inbox[i] EXCEPT !.pended = TRUE]
  <2>1. t \in Taken /\ t.chain = inbox[i].chain
    BY <1>2 DEF Taken
  <2>2. inbox' = [inbox EXCEPT ![i] = t]
    BY <1>1
  <2> HIDE DEF t
  <2>3. /\ inbox' \in Seq(Taken) /\ Len(inbox') = Len(inbox)
        /\ \A k \in 1..Len(inbox) : inbox'[k] = IF k = i THEN t ELSE inbox[k]
    BY <1>2, <2>1, <2>2, ExceptSeq
  <2>4. DOMAIN inbox' = 1..Len(inbox)
    BY <2>3, LenProperties
  <2> QED BY <1>2, <2>1, <2>3, <2>4
<1>9. granted' \in Nat
  BY <1>1, <1>4 DEF Types
<1> QED BY <1>1, <1>7, <1>8, <1>9, ZenonT(40) DEF Types, client, record, Chain

\* What the server does changes nothing of the client's.
LEMMA ServerStep ==
  ASSUME CallInv, NEW i \in DOMAIN inbox, Answer(i) \/ Pend(i) PROVE CallInv'
<1>1. Types'
  BY AnswerTypes, PendTypes DEF CallInv
<1>2. UNCHANGED <<outq, waitq, cur, calls, begun, dropped, expiries, link, late, nextMid>>
  BY DEF Answer, Pend, client, record
<1>3. Session'
  BY <1>2 DEF CallInv, Session, Told
<1>4. Whereabouts'
  BY <1>2, SameWhereabouts DEF CallInv, Whereabouts
<1>5. InOrder'
  BY <1>2 DEF CallInv, InOrder
<1> QED BY <1>1, <1>3, <1>4, <1>5 DEF CallInv, Whereabouts

\* smb2_connect_share_async begins with nothing outstanding.
LEMMA ConnectStep ==
  ASSUME CallInv, NEW c \in Calls, Connect(c) PROVE CallInv'
<1>1. UNCHANGED <<client, server, record>> /\ begun' = begun \cup {c} /\ link' = "connecting"
      /\ link = "new" /\ calls[c].kind = "connect" /\ c \notin begun
  BY DEF Connect
<1>2. Types'
  BY <1>1 DEF CallInv, Types, client, server, record, Chain
<1>3. ~Told(c) /\ begun = {}
  BY <1>1 DEF CallInv, ToldLast, Session
<1>4. Session'
  BY <1>1, <1>3 DEF CallInv, Session, client, Told
<1>5. \A d : /\ InOutq(d)' <=> InOutq(d)
             /\ InWaitq(d)' <=> InWaitq(d)
             /\ IsCur(d)' <=> IsCur(d)
             /\ TellerIsCur(d)' <=> TellerIsCur(d)
             /\ Told(d)' <=> Told(d)
  BY <1>1 DEF InOutq, InWaitq, IsCur, TellerIsCur, Told, client
<1>6. OneChain' /\ WireOrder'
  BY <1>1, <1>5 DEF CallInv, OneChain, WireOrder, client
<1>7. ToldLast'
  BY <1>1, <1>5 DEF CallInv, ToldLast, client, record
<1>8. TellerKept' /\ InOrder'
  BY <1>1 DEF CallInv, TellerKept, InOrder, record
<1> QED BY <1>2, <1>4, <1>6, <1>7, <1>8 DEF CallInv
\* A chain that is queued keeps the types of outq.
LEMMA OutqTyped ==
  ASSUME outq \in Seq(Seq(Request)), \A i \in DOMAIN outq : Chain(outq[i]),
         NEW pdus, Chain(pdus), outq' = Append(outq, pdus)
  PROVE  outq' \in Seq(Seq(Request)) /\ \A i \in DOMAIN outq' : Chain(outq'[i])
<1>1. pdus \in Seq(Request)
  BY DEF Chain
<1>2. /\ outq' \in Seq(Seq(Request)) /\ DOMAIN outq' = 1..(Len(outq) + 1)
      /\ DOMAIN outq = 1..Len(outq) /\ Len(outq) \in Nat
      /\ \A i \in 1..Len(outq) : outq'[i] = outq[i]
      /\ outq'[Len(outq) + 1] = pdus
  BY <1>1, AppendElements
<1>3. \A i \in 1..(Len(outq) + 1) : i \in 1..Len(outq) \/ i = Len(outq) + 1
  BY <1>2
<1> QED BY <1>2, <1>3

\* The socket is connected: the NEGOTIATE is queued.
LEMMA ConnectedStep ==
  ASSUME CallInv, NEW c \in Calls, Connected(c) PROVE CallInv'
<1> DEFINE st == smb2_queue_pdu(Before, c, connect_cb(calls[c], "ok").chain)
           pdus == Numbered(c, NegotiateChain, nextMid, credits)
<1>1. /\ link = "connecting" /\ calls[c].kind = "connect" /\ c \in begun /\ link' = "up"
      /\ Becomes(st) /\ outq' = st.outq
      /\ UNCHANGED <<begun, partial, waitq, cur, credits, server, dropped, garbled, expiries>>
  BY DEF Connected
<1>2. begun = {c} /\ ~Told(c) /\ outq = <<>> /\ waitq = <<>> /\ cur = None
  BY <1>1 DEF CallInv, Session
<1>3. Types
  BY DEF CallInv
<1>4. /\ NegotiateChain \in Seq(Command) /\ NegotiateChain # <<>> /\ Len(NegotiateChain) = 1
      /\ NegotiateChain[1].cb \in Tellers /\ DOMAIN NegotiateChain = {1}
      /\ NegotiateChain[1].cmd = "NEGOTIATE"
  <2> DEFINE cmd == [Cmd("NEGOTIATE", "negotiate_cb") EXCEPT !.cost = 0]
  <2>1. cmd \in Command /\ cmd.cb \in Tellers /\ cmd.cmd = "NEGOTIATE"
    BY DEF Cmd, Command, Commands, Tellers
  <2>2. NegotiateChain = <<cmd>>
    BY DEF NegotiateChain
  <2> HIDE DEF cmd
  <2> QED BY <2>1, <2>2
<1>5. nextMid \in Nat /\ credits \in Nat
  BY <1>3 DEF Types
<1>6. Chain(pdus) /\ \A k \in DOMAIN pdus : pdus[k].call = c /\ pdus[k].cmd = NegotiateChain[k].cmd
  BY <1>4, <1>5, NumberedChain
<1>7. pdus \in Seq(Request) /\ pdus # <<>> /\ 1 \in DOMAIN pdus
  BY <1>6, LenProperties, EmptySeq DEF Chain
<1>8. Widths(pdus) \in Nat \ {0}
  BY <1>7, ChainSums
<1>9. /\ calls' = calls /\ late' = late /\ outq' = Append(outq, pdus)
      /\ nextMid' = nextMid + Widths(pdus) /\ skipped' \in Nat
  <2>1. connect_cb(calls[c], "ok").chain = NegotiateChain
    BY DEF connect_cb, Queue
  <2>2. pdus[1].cmd = "NEGOTIATE"
    BY <1>4, <1>6, <1>7
  <2>3. Before.nextMid = nextMid
    BY DEF Before
  <2>4. st = [Before EXCEPT !.outq = Append(@, pdus), !.nextMid = @ + Widths(pdus),
                            !.skipped = @ + IF pdus[1].cmd = "NEGOTIATE" THEN 0 ELSE Unpaid(pdus)]
    <3> HIDE DEF st
    <3>1. st = smb2_queue_pdu(Before, c, NegotiateChain)  BY <2>1 DEF st
    <3> HIDE DEF pdus
    <3>2. st = [Before EXCEPT !.outq = Append(@, pdus), !.nextMid = @ + Widths(pdus),
                 !.skipped = @ + IF pdus[1].cmd = "NEGOTIATE" THEN 0 ELSE Unpaid(pdus)]
      BY <3>1, <1>4, <2>3 DEF pdus, smb2_queue_pdu
    <3> QED BY <3>2
  <2> HIDE DEF st, pdus
  <2>5. st.calls = calls /\ st.outq = Append(outq, pdus) /\ st.nextMid = nextMid + Widths(pdus)
        /\ st.skipped = skipped + 0 /\ st.late = late
    BY <2>2, <2>4 DEF Before
  <2> QED BY <1>1, <1>3, <2>5 DEF Becomes, Types
<1> HIDE DEF pdus, st
<1>10. outq' \in Seq(Seq(Request)) /\ \A i \in DOMAIN outq' : Chain(outq'[i])
  BY <1>3, <1>6, <1>9, OutqTyped DEF Types
<1>11. Types'
  BY <1>1, <1>3, <1>5, <1>8, <1>9, <1>10, SMTT(30) DEF Types, server
<1>12. ~InOutq(c) /\ ~InWaitq(c) /\ ~IsCur(c) /\ ~IsCur(c)'
  BY <1>1, <1>2 DEF InOutq, InWaitq, IsCur
<1>13. Whereabouts'
  <2>1. begun' = begun \cup {c}  BY <1>1, <1>2
  <2>2. Whereabouts BY DEF CallInv, Whereabouts
  <2>3. pdus[1].call = c BY <1>6, <1>7
  <2> QED BY <1>1, <1>2, <1>3, <1>6, <1>9, <1>12, <2>1, <2>2, <2>3, QueueStep
<1>14. Session'
  BY <1>1, <1>5, <1>8, <1>9 DEF Session
<1>15. InOrder'
  BY <1>1, <1>9 DEF CallInv, InOrder
<1> QED BY <1>11, <1>13, <1>14, <1>15 DEF CallInv, Whereabouts

\* A call that was not made yet queues its first chain.
LEMMA StartStep ==
  ASSUME CallInv, NEW c \in Calls, Start(c) PROVE CallInv'
<1> DEFINE chain == FirstChain[calls[c].kind]
           st == smb2_queue_pdu(Before, c, chain)
           pdus == Numbered(c, chain, nextMid, credits)
<1>1. /\ link = "up" /\ calls[c].kind # "connect" /\ c \notin begun /\ begun' = begun \cup {c}
      /\ Becomes(st) /\ outq' = st.outq
      /\ UNCHANGED <<link, partial, waitq, cur, credits, server, dropped, garbled, expiries>>
  BY DEF Start
<1>2. Types /\ nextMid \in Nat \ {0} /\ credits \in Nat
  BY <1>1 DEF CallInv, Types, Session
<1>3. calls[c].kind \in DOMAIN FirstChain
  BY <1>1, <1>2 DEF Types, Call, Kinds
<1>4. Chained(chain)
  BY <1>3, FirstChained
<1> HIDE DEF chain
<1>5. Chain(pdus) /\ \A k \in DOMAIN pdus : pdus[k].call = c /\ pdus[k].cmd = chain[k].cmd
  <2>1. /\ chain \in Seq(Command) /\ chain # <<>>
        /\ \A k \in DOMAIN chain : chain[k].cb \in (IF k = Len(chain) THEN Tellers ELSE Silent)
    BY <1>4 DEF Chained
  <2>2. nextMid \in Nat /\ nextMid > 0 /\ credits \in Nat
    BY <1>2
  <2> QED BY <2>1, <2>2, NumberedChain
<1>6. pdus \in Seq(Request) /\ pdus # <<>> /\ 1 \in DOMAIN pdus
  BY <1>5, LenProperties, EmptySeq DEF Chain
<1>7. Widths(pdus) \in Nat \ {0} /\ Unpaid(pdus) \in Nat
  BY <1>6, ChainSums
<1>8. /\ calls' = calls /\ late' = late /\ outq' = Append(outq, pdus)
      /\ nextMid' = nextMid + Widths(pdus) /\ skipped' \in Nat
  <2>1. chain # <<>>
    BY <1>4 DEF Chained
  <2> DEFINE extra == IF pdus[1].cmd = "NEGOTIATE" THEN 0 ELSE Unpaid(pdus)
  <2>2. st = smb2_queue_pdu(Before, c, chain) /\ pdus = Numbered(c, chain, nextMid, credits)
    OBVIOUS
  <2> HIDE DEF st, pdus
  <2>3. extra \in Nat
    BY <1>7
  <2>4. st.calls = calls /\ st.outq = Append(outq, pdus) /\ st.nextMid = nextMid + Widths(pdus)
        /\ st.skipped = skipped + extra /\ st.late = late
    BY <2>1, <2>2, QueuedRecord
  <2> HIDE DEF extra
  <2> QED BY <1>1, <1>2, <2>3, <2>4 DEF Becomes, Types
<1> HIDE DEF pdus, st
<1>9. outq' \in Seq(Seq(Request)) /\ \A i \in DOMAIN outq' : Chain(outq'[i])
  BY <1>2, <1>5, <1>8, OutqTyped DEF Types
<1>10. Types'
  <2>1. begun' \subseteq Calls /\ nextMid' \in Nat
    BY <1>1, <1>2, <1>7, <1>8, SMTT(30) DEF Types
  <2> QED BY <1>1, <1>2, <1>8, <1>9, <2>1 DEF Types, server
<1>11. ~InOutq(c) /\ ~InWaitq(c) /\ ~IsCur(c) /\ ~Told(c) /\ ~IsCur(c)'
  <2>1. ~InOutq(c) /\ ~InWaitq(c) /\ ~IsCur(c) /\ ~Told(c)
    BY <1>1 DEF CallInv, ToldLast
  <2> QED BY <1>1, <2>1 DEF IsCur
<1>12. Whereabouts'
  <2>1. Whereabouts BY DEF CallInv, Whereabouts
  <2>2. pdus[1].call = c BY <1>5, <1>6
  <2> QED BY <1>1, <1>2, <1>5, <1>8, <1>11, <2>1, <2>2, QueueStep
<1>13. Session'
  BY <1>1, <1>2, <1>7, <1>8 DEF Session
<1>14. InOrder'
  BY <1>1, <1>8 DEF CallInv, InOrder
<1> QED BY <1>10, <1>12, <1>13, <1>14 DEF CallInv, Whereabouts

\* The socket takes a part of a chain.
LEMMA WritePartStep ==
  ASSUME CallInv, WritePart PROVE CallInv'
<1>1. /\ UNCHANGED <<link, begun, calls, outq, waitq, cur, credits, nextMid, server, record>>
      /\ partial' = TRUE
  BY DEF WritePart
<1>2. Types'
  BY <1>1 DEF CallInv, Types, server, record, Chain
<1>3. Session'
  BY <1>1 DEF CallInv, Session, Told
<1>4. Whereabouts'
  BY <1>1, SameWhereabouts DEF CallInv, Whereabouts, record
<1>5. InOrder'
  BY <1>1 DEF CallInv, InOrder, record
<1> QED BY <1>2, <1>3, <1>4, <1>5 DEF CallInv, Whereabouts
\* A chain goes on the wire.
LEMMA WriteStep ==
  ASSUME CallInv, smb2_write_to_socket PROVE CallInv'
<1> DEFINE ch == Head(outq)
           c == ch[1].call
           W == Len(waitq)
           L == Len(ch)
<1>1. /\ link = "up" /\ outq # <<>> /\ Charge(ch) <= credits /\ credits' = credits - Charge(ch)
      /\ waitq' = waitq \o ch /\ inbox' = Append(inbox, [chain |-> ch, pended |-> FALSE])
      /\ outq' = Tail(outq) /\ partial' = FALSE
      /\ UNCHANGED <<link, begun, calls, cur, nextMid, frames, handles, granted, failed, legs,
                     record>>
  BY DEF smb2_write_to_socket, Sendable
<1>2. Types
  BY DEF CallInv
<1>3. /\ Len(outq) \in Nat \ {0} /\ DOMAIN outq = 1..Len(outq) /\ ch = outq[1]
      /\ outq' \in Seq(Seq(Request)) /\ DOMAIN outq' = 1..(Len(outq) - 1)
      /\ \A k \in 1..(Len(outq) - 1) : outq'[k] = outq[k + 1]
  BY <1>1, <1>2, HeadTailProperties, LenProperties, EmptySeq DEF Types
<1> HIDE DEF ch, c, L, W
<1>4. Chain(ch)
  <2>1. 1 \in DOMAIN outq  BY <1>3
  <2> QED BY <1>2, <1>3, <2>1 DEF Types
<1>5. /\ ch \in Seq(Request) /\ ch # <<>> /\ L \in Nat \ {0} /\ DOMAIN ch = 1..L
      /\ \A k \in 1..L : /\ ch[k] \in Request /\ ch[k].call = c
                         /\ k # L => ch[k].cb \notin Tellers
                         /\ k > 1 => ch[k].prev = ch[k - 1].mid /\ ch[k].prev # 0
      /\ ch[L].cb \in Tellers
  <2>1. ch \in Seq(Request) /\ ch # <<>> /\ L \in Nat \ {0} /\ DOMAIN ch = 1..L
        /\ \A k \in 1..L : ch[k] \in Request
    BY <1>4, LenProperties, EmptySeq DEF Chain, L
  <2>2. Silent \cap Tellers = {}
    BY DEF Silent, Tellers
  <2>3. \A k \in 1..L : /\ ch[k].call = c
                        /\ ch[k].cb \in (IF k = L THEN Tellers ELSE Silent)
                        /\ k > 1 => ch[k].prev = ch[k - 1].mid /\ ch[k].prev # 0
    BY <1>4, <2>1 DEF Chain, c, L
  <2>4. L \in 1..L
    BY <2>1
  <2>5. ASSUME NEW k \in 1..L PROVE (k # L => ch[k].cb \in Silent) /\ (k = L => ch[k].cb \in Tellers)
    <3>1. ch[k].cb \in (IF k = L THEN Tellers ELSE Silent)
      BY <2>3
    <3> QED BY <3>1
  <2> QED BY <2>1, <2>2, <2>3, <2>4, <2>5
<1>6. c \in Calls
  <2>1. ch[1] \in Request /\ ch[1].call = c
    BY <1>5, 1 \in 1..L
  <2> QED BY <2>1 DEF Request
<1>7. /\ waitq \in Seq(Request) /\ W \in Nat /\ DOMAIN waitq = 1..W
      /\ waitq' \in Seq(Request) /\ DOMAIN waitq' = 1..(W + L)
      /\ \A k \in 1..W : waitq'[k] = waitq[k]
      /\ \A k \in 1..L : waitq'[W + k] = ch[k]
  <2>1. /\ waitq' \in Seq(Request) /\ Len(waitq') = W + L /\ waitq \in Seq(Request)
        /\ \A k \in 1..(W + L) : waitq'[k] = IF k <= W THEN waitq[k] ELSE ch[k - W]
    <3>1. waitq \in Seq(Request) /\ ch \in Seq(Request) /\ waitq' = waitq \o ch
      BY <1>1, <1>2, <1>5 DEF Types
    <3> QED BY <3>1, ConcatProperties DEF W, L
  <2>2. W \in Nat /\ DOMAIN waitq = 1..W /\ DOMAIN waitq' = 1..(W + L)
    BY <2>1, LenProperties DEF W
  <2>3. \A k \in 1..W : k \in 1..(W + L) /\ k <= W
    BY <1>5, <2>2
  <2>4. \A k \in 1..L : W + k \in 1..(W + L) /\ ~(W + k <= W) /\ (W + k) - W = k
    BY <1>5, <2>2
  <2> QED BY <2>1, <2>2, <2>3, <2>4
<1>8. \A k \in 1..(W + L) : k \in 1..W \/ (k - W \in 1..L /\ k = W + (k - W) /\ k > W)
  BY <1>5, <1>7
<1>9. InOutq(c)
  BY <1>3, 1 \in 1..Len(outq) DEF InOutq, c
<1>10. ~InWaitq(c) /\ ~IsCur(c) /\ ~Told(c) /\ c \in begun
  BY <1>6, <1>9 DEF CallInv, OneChain, ToldLast
<1>11. \A d \in Calls : InOutq(d)' <=> InOutq(d) /\ d # c
  <2> TAKE d \in Calls
  <2>1. InOutq(d)' => InOutq(d) /\ d # c
    <3> SUFFICES ASSUME NEW k \in 1..(Len(outq) - 1), outq'[k][1].call = d
                 PROVE  InOutq(d) /\ d # c
      BY <1>3 DEF InOutq
    <3>1. k + 1 \in 1..Len(outq) /\ k + 1 # 1 /\ 1 \in 1..Len(outq) /\ outq[k + 1][1].call = d
      BY <1>3
    <3>2. outq[1][1].call = c
      BY <1>3 DEF c
    <3> QED BY <1>3, <3>1, <3>2 DEF CallInv, OneChain, InOutq
  <2>2. InOutq(d) /\ d # c => InOutq(d)'
    <3> SUFFICES ASSUME NEW k \in 1..Len(outq), outq[k][1].call = d, d # c PROVE InOutq(d)'
      BY <1>3 DEF InOutq
    <3>1. k # 1
      BY <1>3 DEF c
    <3>2. k - 1 \in 1..(Len(outq) - 1) /\ (k - 1) + 1 = k
      BY <1>3, <3>1
    <3> QED BY <1>3, <3>2 DEF InOutq
  <2> QED BY <2>1, <2>2
<1>12. \A d \in Calls : /\ InWaitq(d)' <=> InWaitq(d) \/ d = c
                        /\ TellerWaits(d)' <=> TellerWaits(d) \/ d = c
  <2> TAKE d \in Calls
  <2>1. L \in 1..L /\ W + L \in 1..(W + L) /\ \A k \in 1..W : k \in 1..(W + L)
    BY <1>5, <1>7
  <2>2. waitq'[W + L].call = c /\ waitq'[W + L].cb \in Tellers
    BY <1>5, <1>7, <2>1
  <2>3. (InWaitq(d) \/ d = c => InWaitq(d)') /\ (TellerWaits(d) \/ d = c => TellerWaits(d)')
    BY <1>7, <2>1, <2>2 DEF InWaitq, TellerWaits
  <2>4. \A k \in 1..(W + L) : k \in 1..W \/ waitq'[k].call = c
    <3> TAKE k \in 1..(W + L)
    <3>1. CASE k \in 1..W  BY <3>1
    <3>2. CASE k \notin 1..W
      <4>1. k - W \in 1..L /\ k = W + (k - W)  BY <1>8, <3>2
      <4>2. waitq'[k] = ch[k - W]  BY <1>7, <4>1
      <4> QED BY <1>5, <4>1, <4>2
    <3> QED BY <3>1, <3>2
  <2>5. (InWaitq(d)' => InWaitq(d) \/ d = c) /\ (TellerWaits(d)' => TellerWaits(d) \/ d = c)
    BY <1>7, <2>4 DEF InWaitq, TellerWaits
  <2> QED BY <2>3, <2>5
<1>13. \A d \in Calls : /\ IsCur(d)' <=> IsCur(d)
                        /\ TellerIsCur(d)' <=> TellerIsCur(d)
                        /\ Told(d)' <=> Told(d)
  BY <1>1 DEF IsCur, TellerIsCur, Told
<1>14. OneChain'
  <2>1. ASSUME NEW i \in DOMAIN outq', NEW j \in DOMAIN outq', outq'[i][1].call = outq'[j][1].call
        PROVE  i = j
    <3>1. /\ i + 1 \in 1..Len(outq) /\ j + 1 \in 1..Len(outq)
          /\ outq[i + 1][1].call = outq[j + 1][1].call
      <4>1. i \in 1..(Len(outq) - 1) /\ j \in 1..(Len(outq) - 1)
        BY <1>3
      <4>2. i + 1 \in 1..Len(outq) /\ j + 1 \in 1..Len(outq)
        BY <1>3, <4>1
      <4>3. outq'[i] = outq[i + 1] /\ outq'[j] = outq[j + 1]
        BY <1>3, <4>1
      <4> QED BY <2>1, <4>2, <4>3
    <3>2. i + 1 = j + 1 /\ i \in Nat /\ j \in Nat
      BY <1>3, <3>1 DEF CallInv, OneChain
    <3> QED BY <3>2
  <2>2. \A d \in Calls : InOutq(d)' => ~InWaitq(d)' /\ ~IsCur(d)'
    BY <1>11, <1>12, <1>13 DEF CallInv, OneChain
  <2> QED BY <2>1, <2>2 DEF OneChain
<1>15. WireOrder'
  <2>1. Linked(waitq')
    <3> SUFFICES ASSUME NEW i \in 1..(W + L), NEW j \in 1..(W + L), i < j,
                        waitq'[i].call = waitq'[j].call
                 PROVE  /\ waitq'[i].cb \notin Tellers /\ waitq'[j].prev # 0
                        /\ \E k \in i..(j - 1) : /\ waitq'[k].mid = waitq'[j].prev
                                                 /\ waitq'[k].call = waitq'[j].call
      BY <1>7 DEF Linked
    <3>1. CASE j \in 1..W
      <4>1. i \in 1..W /\ \A k \in i..(j - 1) : k \in 1..W
        BY <1>7, <3>1
      <4>2. waitq[i].call = waitq[j].call
        BY <1>7, <3>1, <4>1
      <4>3. /\ waitq[i].cb \notin Tellers /\ waitq[j].prev # 0
            /\ \E k \in i..(j - 1) : waitq[k].mid = waitq[j].prev /\ waitq[k].call = waitq[j].call
        BY <1>7, <3>1, <4>1, <4>2 DEF CallInv, WireOrder, Linked
      <4> QED BY <1>7, <3>1, <4>1, <4>3
    <3>2. CASE j \notin 1..W
      <4>1. j - W \in 1..L /\ waitq'[j] = ch[j - W] /\ waitq'[j].call = c /\ j > W
        <5>1. j - W \in 1..L /\ j = W + (j - W) /\ j > W
          BY <1>8, <3>2
        <5>2. waitq'[W + (j - W)] = ch[j - W]
          BY <1>7, <5>1
        <5>3. ch[j - W].call = c
          BY <1>5, <5>1
        <5> QED BY <5>1, <5>2, <5>3
      <4>2. i \notin 1..W
        <5>1. \A n \in DOMAIN waitq : waitq[n].call # c
          BY <1>10 DEF InWaitq
        <5> QED BY <1>7, <4>1, <5>1
      <4>3. i - W \in 1..L /\ waitq'[i] = ch[i - W] /\ i > W
        <5>1. i - W \in 1..L /\ i = W + (i - W) /\ i > W
          BY <1>8, <4>2
        <5>2. waitq'[W + (i - W)] = ch[i - W]
          BY <1>7, <5>1
        <5> QED BY <5>1, <5>2
      <4>4. i - W # L /\ j - W > 1 /\ j - 1 \in i..(j - 1) /\ (j - W) - 1 \in 1..L
            /\ W + ((j - W) - 1) = j - 1
        BY <1>5, <1>7, <4>1, <4>3
      <4>5. waitq'[j - 1] = ch[(j - W) - 1]
        BY <1>7, <4>4
      <4>6. /\ ch[i - W].cb \notin Tellers /\ ch[j - W].prev # 0
            /\ ch[j - W].prev = ch[(j - W) - 1].mid /\ ch[(j - W) - 1].call = c
        BY <1>5, <4>1, <4>3, <4>4
      <4>7. waitq'[j - 1].mid = waitq'[j].prev /\ waitq'[j - 1].call = waitq'[j].call
        BY <4>1, <4>5, <4>6
      <4> QED BY <4>1, <4>3, <4>4, <4>6, <4>7
    <3> QED BY <3>1, <3>2
  <2>2. \A d \in Calls : TellerIsCur(d)' => ~InWaitq(d)'
    BY <1>10, <1>12, <1>13 DEF CallInv, WireOrder, TellerIsCur
  <2> QED BY <2>1, <2>2 DEF WireOrder
<1>16. ToldLast'
  <2> SUFFICES ASSUME NEW d \in Calls
               PROVE  /\ Len(calls'[d].told) <= 1
                      /\ (InOutq(d) \/ InWaitq(d) \/ IsCur(d) \/ Told(d))' => d \in begun'
                      /\ Told(d)' => /\ ~InOutq(d)' /\ ~InWaitq(d)' /\ ~TellerIsCur(d)'
                                     /\ expiries' = 0 => ~IsCur(d)'
    BY DEF ToldLast
  <2> QED BY <1>1, <1>10, <1>11, <1>12, <1>13 DEF CallInv, ToldLast, record
<1>17. TellerKept'
  BY <1>1, <1>2, <1>11, <1>12, <1>13 DEF CallInv, TellerKept, record, Types
<1>18. Types'
  <2>1. credits' \in Nat
    BY <1>1, <1>2, <1>5, ChainSums, SMTT(30) DEF Types
  <2>2. inbox' \in Seq(Taken) /\ \A k \in DOMAIN inbox' : inbox'[k].chain # <<>>
    <3> DEFINE t == [chain |-> ch, pended |-> FALSE]
    <3>1. t \in Taken /\ t.chain # <<>>
      BY <1>5 DEF Taken
    <3> HIDE DEF t
    <3>2. /\ inbox' \in Seq(Taken) /\ DOMAIN inbox' = 1..(Len(inbox) + 1)
          /\ DOMAIN inbox = 1..Len(inbox) /\ Len(inbox) \in Nat
          /\ \A k \in 1..Len(inbox) : inbox'[k] = inbox[k]
          /\ inbox'[Len(inbox) + 1] = t
      BY <1>1, <1>2, <3>1, AppendElements DEF Types, t
    <3>3. \A k \in 1..(Len(inbox) + 1) : k \in 1..Len(inbox) \/ k = Len(inbox) + 1
      BY <3>2
    <3> QED BY <1>2, <3>1, <3>2, <3>3 DEF Types
  <2>3. outq' \in Seq(Seq(Request)) /\ \A k \in DOMAIN outq' : Chain(outq'[k])
    <3>1. \A k \in 1..(Len(outq) - 1) : k + 1 \in 1..Len(outq)
      BY <1>3
    <3> QED BY <1>2, <1>3, <3>1 DEF Types
  <2> QED BY <1>1, <1>2, <1>7, <2>1, <2>2, <2>3 DEF Types, record
<1>19. Session' /\ InOrder'
  BY <1>1 DEF CallInv, Session, InOrder, record
<1> QED BY <1>14, <1>15, <1>16, <1>17, <1>18, <1>19 DEF CallInv

\* The position before one that is not the first.
LEMMA OneBefore ==
  ASSUME NEW n \in Nat, NEW k \in 1..(1 + n), k # 1
  PROVE  k - 1 \in 1..n /\ ~(k <= 1)
OBVIOUS

\* One status more makes a list that is not empty, and of one if it was.
LEMMA AppendLength ==
  ASSUME NEW S, NEW s, s = <<>>, NEW t \in S
  PROVE  Append(s, t) # <<>> /\ Len(Append(s, t)) <= 1
<1>1. s \in Seq(S) /\ Len(s) = 0
  BY EmptySeq
<1>2. Append(s, t) # <<>> /\ Len(Append(s, t)) = Len(s) + 1
  BY <1>1, AppendProperties
<1> QED BY <1>1, <1>2

\* A frame with its first reply read, or with none left to read.
LEMMA FramesRead ==
  ASSUME frames \in Seq(Seq(Reply)), \A i \in DOMAIN frames : frames[i] # <<>>, frames # <<>>,
         \/ frames' = Tail(frames)
         \/ Len(Head(frames)) # 1 /\ frames' = <<Tail(Head(frames))>> \o Tail(frames)
  PROVE  /\ frames' \in Seq(Seq(Reply)) /\ \A i \in DOMAIN frames' : frames'[i] # <<>>
         /\ Head(Head(frames)) \in Reply
<1> DEFINE f == Head(frames)
           rest == Tail(frames)
<1>1. /\ f \in Seq(Reply) /\ f # <<>> /\ rest \in Seq(Seq(Reply)) /\ DOMAIN rest = 1..Len(rest)
      /\ \A i \in DOMAIN rest : rest[i] # <<>>
  <2>1. /\ Len(frames) \in Nat \ {0} /\ DOMAIN frames = 1..Len(frames) /\ f = frames[1]
        /\ rest \in Seq(Seq(Reply)) /\ Len(rest) = Len(frames) - 1
        /\ \A k \in 1..Len(rest) : rest[k] = frames[k + 1]
        /\ f \in Seq(Reply)
    BY HeadTailProperties, LenProperties, EmptySeq
  <2>2. DOMAIN rest = 1..Len(rest)
    BY <2>1, LenProperties
  <2>3. 1 \in DOMAIN frames /\ \A k \in DOMAIN rest : k + 1 \in DOMAIN frames
    BY <2>1, <2>2, SMTT(30)
  <2> QED BY <2>1, <2>2, <2>3
<1> HIDE DEF f, rest
<1>2. Head(f) \in Reply /\ Tail(f) \in Seq(Reply) /\ (Len(f) # 1 => Tail(f) # <<>>)
  <2>1. Head(f) \in Reply /\ Tail(f) \in Seq(Reply) /\ Len(Tail(f)) = Len(f) - 1
    BY <1>1, HeadTailProperties
  <2>2. Len(f) \in Nat /\ (Tail(f) = <<>> => Len(Tail(f)) = 0)
    BY <1>1, LenProperties, EmptySeq
  <2> QED BY <2>1, <2>2
<1>3. CASE frames' = rest
  BY <1>1, <1>2, <1>3 DEF f
<1>4. CASE Len(f) # 1 /\ frames' = <<Tail(f)>> \o rest
  <2> DEFINE one == <<Tail(f)>>
  <2>1. one \in Seq(Seq(Reply)) /\ Len(one) = 1 /\ one[1] = Tail(f)
    BY <1>2
  <2> HIDE DEF one
  <2>2. /\ frames' \in Seq(Seq(Reply)) /\ Len(frames') = 1 + Len(rest)
        /\ \A k \in 1..(1 + Len(rest)) : frames'[k] = IF k <= 1 THEN one[k] ELSE rest[k - 1]
    BY <1>1, <1>4, <2>1, ConcatProperties DEF one
  <2>3. DOMAIN frames' = 1..(1 + Len(rest)) /\ Len(rest) \in Nat
    BY <1>1, <2>2, LenProperties
  <2>4. ASSUME NEW k \in DOMAIN frames' PROVE frames'[k] # <<>>
    <3>1. k \in Nat /\ k >= 1 /\ k \in 1..(1 + Len(rest))  BY <2>3
    <3>2. CASE k = 1  BY <1>2, <1>4, <2>1, <2>2, <3>1, <3>2
    <3>3. CASE k # 1
      <4> HIDE DEF rest
      <4>0. k - 1 \in 1..Len(rest) /\ ~(k <= 1)  BY <2>3, <3>1, <3>3, OneBefore
      <4>1. k - 1 \in DOMAIN rest /\ ~(k <= 1)  BY <1>1, <4>0
      <4> QED BY <1>1, <2>2, <3>1, <4>1
    <3> QED BY <3>2, <3>3
  <2> QED BY <1>2, <2>2, <2>4 DEF f
<1> QED BY <1>3, <1>4 DEF f, rest

\* The parts of ReadHeader that find a request.
LEMMA TakeWhereabouts ==
  ASSUME Types, Whereabouts, link = "up", cur = None, link' = link,
         UNCHANGED <<outq, calls, begun, dropped, expiries>>,
         NEW i \in DOMAIN waitq, NEW s, waitq' = RemoveAt(waitq, i),
         None \notin {[pdu |-> waitq[i], status |-> s]},
         cur' = [pdu |-> waitq[i], status |-> s],
         waitq[i].prev = 0 \/ ~Awaited(waitq[i].prev)
  PROVE  Whereabouts'
<1> DEFINE p == waitq[i]
           W == Len(waitq)
           at(m) == IF m < i THEN m ELSE m + 1
<1>1. /\ W \in Nat /\ DOMAIN waitq = 1..W /\ i \in 1..W
      /\ \A m \in 1..W : waitq[m] \in Request
  BY LenProperties DEF Types
<1>2. PICK c \in Calls : c = p.call
  BY <1>1 DEF Request
<1>3. /\ waitq' \in Seq(Request) /\ DOMAIN waitq' = 1..(W - 1)
      /\ \A m \in 1..(W - 1) : waitq'[m] = waitq[at(m)]
  <2>1. /\ waitq' \in Seq(Request) /\ Len(waitq') = W - 1
        /\ \A m \in 1..(W - 1) : waitq'[m] = IF m < i THEN waitq[m] ELSE waitq[m + 1]
    BY <1>1, RemoveAtElements DEF Types
  <2> QED BY <2>1, LenProperties
<1>4. /\ \A m \in 1..(W - 1) : at(m) \in 1..W /\ at(m) # i
      /\ \A m, n \in 1..(W - 1) : m < n => at(m) < at(n)
      /\ \A k \in 1..W : k # i => \E m \in 1..(W - 1) : at(m) = k
      /\ \A m, n, k \in 1..(W - 1) : at(m) <= at(k) /\ at(k) < at(n) => k \in m..(n - 1)
  <2>1. \A m \in 1..(W - 1) : at(m) \in 1..W /\ at(m) # i
    BY <1>1
  <2>2. \A m, n \in 1..(W - 1) : m < n => at(m) < at(n)
    BY <1>1
  <2>3. ASSUME NEW k \in 1..W, k # i PROVE \E m \in 1..(W - 1) : at(m) = k
    <3>1. CASE k < i  BY <1>1, <2>3, <3>1, k \in 1..(W - 1), at(k) = k
    <3>2. CASE k > i
      <4>1. k - 1 \in 1..(W - 1) /\ at(k - 1) = k  BY <1>1, <3>2
      <4> QED BY <4>1
    <3> QED BY <1>1, <2>3, <3>1, <3>2
  <2>4. \A m, n, k \in 1..(W - 1) : at(m) <= at(k) /\ at(k) < at(n) => k \in m..(n - 1)
    BY <1>1
  <2> QED BY <2>1, <2>2, <2>3, <2>4
<1> HIDE DEF at, W
<1>5. Linked(waitq) /\ InWaitq(c)
  BY <1>1, <1>2 DEF Whereabouts, WireOrder, InWaitq
<1>6. \A k \in 1..W : k < i => waitq[k].call # c
  <2> SUFFICES ASSUME NEW k \in 1..W, k < i, waitq[k].call = waitq[i].call PROVE FALSE
    BY <1>2
  <2>1. waitq[i].prev # 0 /\ \E n \in k..(i - 1) : waitq[n].mid = waitq[i].prev
    BY <1>1, <1>5 DEF Linked
  <2>2. \A n \in k..(i - 1) : n \in DOMAIN waitq
    BY <1>1
  <2> QED BY <2>1, <2>2 DEF Awaited
<1>7. p.cb \in Tellers => \A k \in 1..W : k # i => waitq[k].call # c
  <2>1. \A k \in 1..W : i < k /\ waitq[k].call = c => p.cb \notin Tellers
    BY <1>1, <1>2, <1>5 DEF Linked
  <2>2. \A k \in 1..W : k # i => k < i \/ i < k
    BY <1>1
  <2> QED BY <1>6, <2>1, <2>2
<1>8. ~InOutq(c) /\ ~Told(c) /\ c \in begun
  BY <1>5 DEF Whereabouts, OneChain, ToldLast
<1>9. cur' # None /\ cur'.pdu = p /\ waitq[i] = p
  OBVIOUS
<1> HIDE DEF p
<1>10. \A d \in Calls : /\ InOutq(d)' <=> InOutq(d)
                        /\ Told(d)' <=> Told(d)
                        /\ ~IsCur(d) /\ ~TellerIsCur(d)
                        /\ IsCur(d)' => d = c
                        /\ TellerIsCur(d)' <=> d = c /\ p.cb \in Tellers
  BY <1>2, <1>9 DEF InOutq, Told, IsCur, TellerIsCur
<1>11. \A d \in Calls : /\ InWaitq(d)' => InWaitq(d)
                        /\ d # c => (TellerWaits(d) => TellerWaits(d)')
                        /\ TellerWaits(c) => TellerWaits(c)' \/ p.cb \in Tellers
                        /\ p.cb \in Tellers => ~InWaitq(c)'
  <2> TAKE d \in Calls
  <2>1. InWaitq(d)' => InWaitq(d)
    BY <1>1, <1>3, <1>4 DEF InWaitq
  <2>2. ASSUME NEW e, TellerWaits(e), ~(e = c /\ p.cb \in Tellers) PROVE TellerWaits(e)'
    <3>1. PICK k \in 1..W : waitq[k].call = e /\ waitq[k].cb \in Tellers
      BY <1>1, <2>2 DEF TellerWaits
    <3>2. k # i
      BY <1>2, <1>9, <2>2, <3>1
    <3>3. PICK m \in 1..(W - 1) : at(m) = k
      BY <1>4, <3>2
    <3> QED BY <1>3, <3>1, <3>3 DEF TellerWaits
  <2>3. p.cb \in Tellers => ~InWaitq(c)'
    BY <1>1, <1>3, <1>4, <1>7 DEF InWaitq
  <2> QED BY <2>1, <2>2, <2>3
<1>12. OneChain'
  <2>1. \A a, b \in DOMAIN outq' : outq'[a][1].call = outq'[b][1].call => a = b
    BY DEF Whereabouts, OneChain
  <2>2. \A d \in Calls : InOutq(d)' => ~InWaitq(d)' /\ ~IsCur(d)'
    BY <1>8, <1>10, <1>11 DEF Whereabouts, OneChain
  <2> QED BY <2>1, <2>2 DEF OneChain
<1>13. WireOrder'
  <2>1. Linked(waitq')
    <3> SUFFICES ASSUME NEW m \in 1..(W - 1), NEW n \in 1..(W - 1), m < n,
                        waitq'[m].call = waitq'[n].call
                 PROVE  /\ waitq'[m].cb \notin Tellers /\ waitq'[n].prev # 0
                        /\ \E k \in m..(n - 1) : /\ waitq'[k].mid = waitq'[n].prev
                                                 /\ waitq'[k].call = waitq'[n].call
      BY <1>3 DEF Linked
    <3>1. /\ at(m) \in 1..W /\ at(n) \in 1..W /\ at(m) < at(n) /\ at(m) # i
          /\ waitq'[m] = waitq[at(m)] /\ waitq'[n] = waitq[at(n)]
      BY <1>3, <1>4
    <3>2. PICK k \in at(m)..(at(n) - 1) : waitq[k].mid = waitq[at(n)].prev
                                           /\ waitq[k].call = waitq[at(n)].call
      BY <1>1, <1>5, <3>1 DEF Linked
    <3>3. k \in 1..W /\ at(m) <= k /\ k < at(n)
      BY <1>1, <3>1
    <3>4. k # i
      <4> SUFFICES ASSUME k = i PROVE FALSE
        OBVIOUS
      <4>1. at(m) < i /\ waitq[at(m)].call = c
        BY <1>1, <1>2, <1>9, <3>1, <3>2, <3>3
      <4> QED BY <1>6, <3>1, <4>1
    <3>5. PICK l \in 1..(W - 1) : at(l) = k
      BY <1>4, <3>3, <3>4
    <3>6. l \in m..(n - 1)
      BY <1>4, <3>3, <3>5
    <3>7. waitq[at(m)].cb \notin Tellers /\ waitq[at(n)].prev # 0
      BY <1>1, <1>5, <3>1 DEF Linked
    <3> QED BY <1>3, <3>1, <3>2, <3>5, <3>6, <3>7
  <2>2. \A d \in Calls : TellerIsCur(d)' => ~InWaitq(d)'
    BY <1>10, <1>11
  <2> QED BY <2>1, <2>2 DEF WireOrder
<1>14. ToldLast'
  <2> SUFFICES ASSUME NEW d \in Calls
               PROVE  /\ Len(calls'[d].told) <= 1
                      /\ (InOutq(d) \/ InWaitq(d) \/ IsCur(d) \/ Told(d))' => d \in begun'
                      /\ Told(d)' => /\ ~InOutq(d)' /\ ~InWaitq(d)' /\ ~TellerIsCur(d)'
                                     /\ expiries' = 0 => ~IsCur(d)'
    BY DEF ToldLast
  <2> QED BY <1>8, <1>10, <1>11 DEF Whereabouts, ToldLast
<1>15. TellerKept'
  BY <1>2, <1>10, <1>11 DEF Whereabouts, TellerKept, Types
<1> QED BY <1>12, <1>13, <1>14, <1>15 DEF Whereabouts

\* A header: skipped, refused as out of order, or its request is taken.
LEMMA ReadHeaderStep ==
  ASSUME CallInv, ReadHeader PROVE CallInv'
<1> DEFINE r == Head(Head(frames))
           i == Position(r.mid)
<1>1. /\ link = "up" /\ cur = None /\ frames # <<>> /\ credits' = credits + CreditsOf(r)
      /\ UNCHANGED <<begun, calls, outq, partial, nextMid, inbox, handles, granted, failed, legs,
                     record>>
      /\ \/ SkipFrame(r) /\ frames' = Tail(frames) /\ UNCHANGED <<link, waitq, cur>>
         \/ link' = "shut" /\ UNCHANGED <<frames, waitq, cur>>
         \/ /\ ~SkipFrame(r) /\ cur' = [pdu |-> waitq[i], status |-> r.status]
            /\ waitq[i].prev = 0 \/ ~Awaited(waitq[i].prev)
            /\ waitq' = RemoveAt(waitq, i) /\ UNCHANGED link
            /\ \/ Len(Head(frames)) = 1 /\ frames' = Tail(frames)
               \/ Len(Head(frames)) # 1 /\ frames' = <<Tail(Head(frames))>> \o Tail(frames)
  BY DEF ReadHeader, smb2_find_pdu, Without
<1>2. Types /\ Whereabouts
  BY DEF CallInv, Whereabouts
<1>3. r \in Reply
  <2>1. 1 \in DOMAIN frames /\ Head(frames) = frames[1] /\ frames[1] \in Seq(Reply)
    BY <1>1, <1>2, HeadTailProperties, LenProperties, EmptySeq DEF Types
  <2>2. Head(frames) # <<>>
    BY <1>2, <2>1 DEF Types
  <2> QED BY <2>1, <2>2, HeadTailProperties
<1> HIDE DEF r
<1>4. credits' \in Nat
  <2>1. credits \in Nat /\ CreditsOf(r) \in Nat
    BY <1>2, <1>3 DEF Types, Reply, CreditsOf
  <2> QED BY <1>1, <2>1
<1>5. frames' = frames \/ frames' = Tail(frames)
        \/ (Len(Head(frames)) # 1 /\ frames' = <<Tail(Head(frames))>> \o Tail(frames))
  BY <1>1
<1>6. frames' \in Seq(Seq(Reply)) /\ \A k \in DOMAIN frames' : frames'[k] # <<>>
  <2>1. CASE frames' = frames  BY <1>2, <2>1 DEF Types
  <2>2. CASE frames' # frames  BY <1>1, <1>2, <1>5, <2>2, FramesRead DEF Types
  <2> QED BY <2>1, <2>2
<1>7. InOrder'
  BY <1>1 DEF CallInv, InOrder, record
<1>8. CASE (link' = link \/ link' = "shut") /\ UNCHANGED <<waitq, cur>>
  <2>1. Types'
    BY <1>1, <1>2, <1>4, <1>6, <1>8 DEF Types, record, Chain
  <2>2. Session'
    BY <1>1, <1>8 DEF CallInv, Session, Told
  <2>3. Whereabouts'
    BY <1>1, <1>2, <1>8, SameWhereabouts DEF record
  <2> QED BY <1>7, <2>1, <2>2, <2>3 DEF CallInv, Whereabouts
<1>9. CASE /\ ~SkipFrame(r) /\ cur' = [pdu |-> waitq[i], status |-> r.status]
           /\ waitq[i].prev = 0 \/ ~Awaited(waitq[i].prev)
           /\ waitq' = RemoveAt(waitq, i) /\ UNCHANGED link
  <2>1. i \in DOMAIN waitq /\ r.status \in Statuses
    <3>1. Awaited(r.mid) /\ r.status # "pending"
      BY <1>9 DEF SkipFrame
    <3>2. i \in DOMAIN waitq
      BY <3>1 DEF Awaited, Position
    <3> QED BY <1>3, <3>1, <3>2 DEF Reply
  <2> HIDE DEF i
  <2>2. waitq \in Seq(Request) /\ DOMAIN waitq = 1..Len(waitq) /\ waitq[i] \in Request
    <3>1. waitq \in Seq(Request) /\ DOMAIN waitq = 1..Len(waitq)
      BY <1>2, LenProperties DEF Types
    <3> QED BY <2>1, <3>1, ElementOfSeq
  <2>3. cur' \in Reading /\ cur' # None
    BY <1>9, <2>1, <2>2, NoneAssumption DEF Reading
  <2>4. waitq' \in Seq(Request)
    BY <1>9, <2>1, <2>2, RemoveAtElements
  <2>5. Types'
    BY <1>1, <1>2, <1>4, <1>6, <1>9, <2>3, <2>4 DEF Types, record, Chain
  <2>6. Session'
    BY <1>1, <1>9 DEF CallInv, Session, Told
  <2>7. Whereabouts'
    <3> DEFINE s == r.status
    <3>1. UNCHANGED <<outq, calls, begun, dropped, expiries>>
      BY <1>1 DEF record
    <3>2. None \notin {[pdu |-> waitq[i], status |-> s]}
      BY <1>9, <2>3
    <3> HIDE DEF s
    <3> QED BY <1>1, <1>2, <1>9, <2>1, <3>1, <3>2, TakeWhereabouts DEF s
  <2> QED BY <1>7, <2>5, <2>6, <2>7 DEF CallInv, Whereabouts
<1> QED BY <1>1, <1>8, <1>9
\* A reply is done with, and its callback asked for nothing more.
LEMMA DoneWhereabouts ==
  ASSUME Types, Whereabouts, cur # None, cur' = None, NEW c \in Calls, c = cur.pdu.call,
         UNCHANGED <<outq, waitq, begun, dropped, expiries>>, link = "up",
         \A d \in Calls \ {c} : calls'[d] = calls[d],
         \/ ~TellerIsCur(c) /\ calls'[c].told = calls[c].told
         \/ TellerIsCur(c) /\ \E t \in Statuses : calls'[c].told = Append(calls[c].told, t)
  PROVE  Whereabouts'
<1>1. \A d \in Calls : /\ InOutq(d)' <=> InOutq(d)
                       /\ InWaitq(d)' <=> InWaitq(d)
                       /\ TellerWaits(d)' <=> TellerWaits(d)
                       /\ ~IsCur(d)' /\ ~TellerIsCur(d)'
                       /\ IsCur(d) <=> d = c
                       /\ TellerIsCur(d) => d = c
  BY DEF InOutq, InWaitq, TellerWaits, IsCur, TellerIsCur
<1>2. \A d \in Calls : /\ Len(calls'[d].told) <= 1
                       /\ Told(d) => Told(d)'
                       /\ TellerIsCur(d) => Told(d)'
                       /\ Told(d)' => Told(d) \/ TellerIsCur(d)
  <2>1. ASSUME NEW d \in Calls, d # c
        PROVE  Len(calls'[d].told) <= 1 /\ (Told(d)' <=> Told(d)) /\ ~TellerIsCur(d)
    BY <1>1, <2>1 DEF Told, Whereabouts, ToldLast
  <2>2. CASE ~TellerIsCur(c) /\ calls'[c].told = calls[c].told
    <3>1. Len(calls'[c].told) <= 1 /\ (Told(c)' <=> Told(c))
      BY <2>2 DEF Told, Whereabouts, ToldLast
    <3> QED BY <2>1, <2>2, <3>1
  <2>3. CASE TellerIsCur(c) /\ \E t \in Statuses : calls'[c].told = Append(calls[c].told, t)
    <3>1. calls[c].told = <<>>
      BY <2>3 DEF Whereabouts, ToldLast, Told
    <3>2. PICK t \in Statuses : calls'[c].told = Append(calls[c].told, t)
      BY <2>3, Zenon
    <3>3. Append(calls[c].told, t) # <<>> /\ Len(Append(calls[c].told, t)) <= 1
      BY <3>1, AppendLength, Zenon
    <3>4. Len(calls'[c].told) <= 1 /\ Told(c)'
      BY <3>2, <3>3, Zenon DEF Told
    <3> QED BY <2>1, <2>3, <3>4
  <2> QED BY <2>2, <2>3
<1>3. OneChain'
  BY <1>1 DEF Whereabouts, OneChain
<1>4. WireOrder'
  <2>1. Linked(waitq')
    BY DEF Whereabouts, WireOrder
  <2> QED BY <1>1, <2>1 DEF WireOrder
<1>5. ToldLast'
  <2> SUFFICES ASSUME NEW d \in Calls
               PROVE  /\ Len(calls'[d].told) <= 1
                      /\ (InOutq(d) \/ InWaitq(d) \/ IsCur(d) \/ Told(d))' => d \in begun'
                      /\ Told(d)' => /\ ~InOutq(d)' /\ ~InWaitq(d)' /\ ~TellerIsCur(d)'
                                     /\ expiries' = 0 => ~IsCur(d)'
    BY DEF ToldLast
  <2>1. TellerIsCur(d) => IsCur(d) /\ ~InWaitq(d) /\ ~InOutq(d)
    BY DEF TellerIsCur, Whereabouts, WireOrder, OneChain
  <2> QED BY <1>1, <1>2, <2>1 DEF Whereabouts, ToldLast
<1>6. TellerKept'
  BY <1>1, <1>2 DEF Whereabouts, TellerKept, Types
<1> QED BY <1>3, <1>4, <1>5, <1>6 DEF Whereabouts

\* The rest of a reply.
LEMMA ReadBodyStep ==
  ASSUME CallInv, ReadBody PROVE CallInv'
<1> DEFINE p == cur.pdu
           s == cur.status
           st == Complete(Before, p, s)
<1>1. /\ link = "up" /\ cur # None /\ cur' = None /\ Becomes(st) /\ outq' = st.outq
      /\ link' = (IF st.shut THEN "shut" ELSE link)
      /\ UNCHANGED <<begun, partial, waitq, credits, server, dropped, garbled, expiries>>
  BY DEF ReadBody
<1>2. Types /\ Whereabouts /\ cur \in Reading
  BY <1>1 DEF CallInv, Whereabouts, Types
<1>3. p \in Request /\ s \in Statuses
  BY <1>2 DEF Reading
<1>4. PICK c \in Calls : c = p.call
  BY <1>3 DEF Request
<1>5. IsCur(c) /\ c \in begun /\ ~InOutq(c) /\ (TellerIsCur(c) <=> p.cb \in Tellers)
  BY <1>1, <1>4 DEF IsCur, TellerIsCur, CallInv, OneChain, ToldLast
<1>6. /\ st.calls \in [Calls -> Call] /\ st.late \subseteq Calls /\ st.shut \in BOOLEAN
      /\ \A d \in Calls \ {p.call} : st.calls[d] = calls[d]
      /\ st.calls[p.call].kind = calls[p.call].kind
      /\ calls[p.call].told = <<>> => st.late = late
      /\ \/ /\ st.outq = outq /\ st.nextMid = nextMid /\ st.skipped = skipped
            /\ p.cb \in Silent => st.calls[p.call].told = calls[p.call].told
            /\ p.cb \in Tellers => \E t \in Statuses : st.calls[p.call].told
                                                         = Append(calls[p.call].told, t)
         \/ /\ p.cb \in Tellers /\ st.calls[p.call] = calls[p.call]
            /\ \E cmd \in FollowUps :
                 LET pdus == Numbered(p.call, <<cmd>>, nextMid, credits) IN
                 /\ st.outq = Append(outq, pdus)
                 /\ st.nextMid = nextMid + Widths(pdus)
                 /\ st.skipped = skipped + Unpaid(pdus)
  <2> HIDE DEF p, s
  <2> QED BY <1>2, <1>3, CompleteReply
<1> HIDE DEF st
<1>7. /\ calls' = st.calls /\ late' = st.late /\ nextMid' = st.nextMid /\ skipped' = st.skipped
      /\ link' \in {"up", "shut"}
  BY <1>1 DEF Becomes
<1>8. calls' \in [Calls -> Call] /\ \A d \in Calls \ {c} : calls'[d] = calls[d]
  BY <1>4, <1>6, <1>7
<1>9. InOrder'
  <2> SUFFICES ASSUME expiries' = 0 PROVE late' = {}
    BY DEF InOrder
  <2>1. expiries = 0 /\ late = {}
    BY <1>1 DEF CallInv, InOrder
  <2>2. calls[p.call].told = <<>>
    BY <1>4, <1>5, <2>1 DEF CallInv, ToldLast, Told
  <2> QED BY <1>6, <1>7, <2>1, <2>2
<1>10. CASE /\ st.outq = outq /\ st.nextMid = nextMid /\ st.skipped = skipped
            /\ p.cb \in Silent => st.calls[p.call].told = calls[p.call].told
            /\ p.cb \in Tellers => \E t \in Statuses : st.calls[p.call].told
                                                         = Append(calls[p.call].told, t)
  <2>1. outq' = outq /\ nextMid' = nextMid /\ skipped' = skipped
    BY <1>1, <1>7, <1>10
  <2>2. Types'
    <3>1. late' \subseteq Calls
      BY <1>6, <1>7
    <3> QED BY <1>1, <1>2, <1>7, <1>8, <2>1, <3>1 DEF Types, server
  <2>3. Session'
    BY <1>1, <1>7, <2>1 DEF CallInv, Session
  <2>4. \/ ~TellerIsCur(c) /\ calls'[c].told = calls[c].told
        \/ TellerIsCur(c) /\ \E t \in Statuses : calls'[c].told = Append(calls[c].told, t)
    BY <1>3, <1>4, <1>5, <1>7, <1>10 DEF Request
  <2>5. Whereabouts'
    BY <1>1, <1>2, <1>4, <1>8, <2>1, <2>4, DoneWhereabouts
  <2> QED BY <1>9, <2>2, <2>3, <2>5 DEF CallInv, Whereabouts
<1>11. CASE /\ p.cb \in Tellers /\ st.calls[p.call] = calls[p.call]
            /\ \E cmd \in FollowUps :
                 LET pdus == Numbered(p.call, <<cmd>>, nextMid, credits) IN
                 /\ st.outq = Append(outq, pdus)
                 /\ st.nextMid = nextMid + Widths(pdus)
                 /\ st.skipped = skipped + Unpaid(pdus)
  <2>1. PICK cmd \in FollowUps :
          LET pdus == Numbered(p.call, <<cmd>>, nextMid, credits) IN
          /\ st.outq = Append(outq, pdus)
          /\ st.nextMid = nextMid + Widths(pdus)
          /\ st.skipped = skipped + Unpaid(pdus)
    BY <1>11
  <2> DEFINE chain == <<cmd>>
             pdus == Numbered(c, chain, nextMid, credits)
  <2>2. outq' = Append(outq, pdus) /\ nextMid' = nextMid + Widths(pdus)
        /\ skipped' = skipped + Unpaid(pdus)
    BY <1>1, <1>4, <1>7, <2>1
  <2>3. Chained(chain)
    BY FollowUpChained
  <2> HIDE DEF chain
  <2>4. nextMid \in Nat \ {0} /\ credits \in Nat /\ skipped \in Nat
    BY <1>1, <1>2 DEF CallInv, Session, Types
  <2>5. Chain(pdus) /\ \A k \in DOMAIN pdus : pdus[k].call = c /\ pdus[k].cmd = chain[k].cmd
    <3>1. nextMid \in Nat /\ (Len(chain) > 1 => nextMid > 0)
      BY <2>4
    <3>2. /\ chain \in Seq(Command) /\ chain # <<>>
          /\ \A k \in DOMAIN chain : chain[k].cb \in (IF k = Len(chain) THEN Tellers ELSE Silent)
      BY <2>3 DEF Chained
    <3> QED BY <2>4, <3>1, <3>2, NumberedChain
  <2> HIDE DEF pdus
  <2>6. pdus \in Seq(Request) /\ pdus # <<>> /\ pdus[1].call = c
    <3>1. pdus \in Seq(Request) /\ pdus # <<>> /\ 1 \in DOMAIN pdus
      BY <2>5, LenProperties, EmptySeq DEF Chain
    <3> QED BY <2>5, <3>1
  <2>7. Widths(pdus) \in Nat \ {0} /\ Unpaid(pdus) \in Nat
    BY <2>6, ChainSums
  <2>8. nextMid' \in Nat \ {0} /\ skipped' \in Nat
    BY <2>2, <2>4, <2>7
  <2>9. outq' \in Seq(Seq(Request)) /\ \A k \in DOMAIN outq' : Chain(outq'[k])
    BY <1>2, <2>2, <2>5, OutqTyped DEF Types
  <2>10. calls' = calls
    <3>1. \A d \in Calls : calls'[d] = calls[d]
      BY <1>4, <1>7, <1>8, <1>11
    <3> QED BY <1>2, <1>8, <3>1 DEF Types
  <2>11. Types'
    BY <1>1, <1>2, <1>6, <1>7, <2>8, <2>9, <2>10 DEF Types, server
  <2>12. Session'
    BY <1>1, <1>7, <2>8 DEF Session
  <2>13. Whereabouts'
    <3>1. ~InWaitq(c) /\ ~Told(c)
      BY <1>4, <1>5, <1>11 DEF CallInv, WireOrder, ToldLast
    <3>2. ~IsCur(c)'
      BY <1>1 DEF IsCur
    <3>3. cur.pdu.call = c /\ begun' = begun \cup {c} /\ waitq' = waitq /\ expiries' = expiries
          /\ dropped' = dropped
      BY <1>1, <1>4, <1>5
    <3> QED BY <1>1, <1>2, <1>5, <2>2, <2>5, <2>6, <2>10, <3>1, <3>2, <3>3, QueueStep
  <2> QED BY <1>9, <2>11, <2>12, <2>13 DEF CallInv, Whereabouts
<1> QED BY <1>6, <1>10, <1>11

-----------------------------------------------------------------------------
\* Requests given up: the heads of the first h chains of outq, the request
\* being read if m = 1, and the first w of waitq.
Shape(given, h, m, w) ==
  /\ given \in Seq(Request) /\ Len(given) = h + m + w
  /\ h \in 0..Len(outq) /\ w \in 0..Len(waitq) /\ m \in {0, 1} /\ (m = 1 => cur # None)
  /\ \A i \in 1..h : given[i] = outq[i][1]
  /\ m = 1 => given[h + 1] = cur.pdu
  /\ \A i \in 1..w : given[h + m + i] = waitq[i]

HeadTells(h, d) == \E i \in 1..h : outq[i][1].call = d /\ outq[i][1].cb \in Tellers
WaitTells(w, d) == \E i \in 1..w : waitq[i].call = d /\ waitq[i].cb \in Tellers

\* Where each of them was.
LEMMA ShapePlaces ==
  ASSUME Types, NEW given, NEW h, NEW m, NEW w, Shape(given, h, m, w)
  PROVE  /\ DOMAIN given = 1..(h + m + w) /\ h \in Nat /\ m \in Nat /\ w \in Nat
         /\ DOMAIN outq = 1..Len(outq) /\ DOMAIN waitq = 1..Len(waitq)
         /\ 1..h \subseteq DOMAIN outq /\ 1..w \subseteq DOMAIN waitq
         /\ \A i \in DOMAIN given : /\ given[i] \in Request
                                    /\ \/ i \in 1..h /\ given[i] = outq[i][1]
                                       \/ m = 1 /\ i = h + 1 /\ cur # None /\ given[i] = cur.pdu
                                       \/ /\ i - h - m \in 1..w /\ i > h + m
                                          /\ given[i] = waitq[i - h - m]
<1>1. /\ given \in Seq(Request) /\ Len(given) = h + m + w
      /\ h \in 0..Len(outq) /\ w \in 0..Len(waitq) /\ m \in {0, 1} /\ (m = 1 => cur # None)
  BY DEF Shape
<1>2. /\ DOMAIN given = 1..Len(given) /\ DOMAIN outq = 1..Len(outq) /\ DOMAIN waitq = 1..Len(waitq)
      /\ Len(outq) \in Nat /\ Len(waitq) \in Nat /\ \A i \in DOMAIN given : given[i] \in Request
  BY <1>1, LenProperties DEF Types
<1>3. h \in Nat /\ m \in Nat /\ w \in Nat /\ 1..h \subseteq DOMAIN outq /\ 1..w \subseteq DOMAIN waitq
  BY <1>1, <1>2
<1>4. ASSUME NEW i \in 1..(h + m + w)
      PROVE  \/ i \in 1..h /\ given[i] = outq[i][1]
             \/ m = 1 /\ i = h + 1 /\ cur # None /\ given[i] = cur.pdu
             \/ i - h - m \in 1..w /\ i > h + m /\ given[i] = waitq[i - h - m]
  <2>1. i \in 1..h \/ (m = 1 /\ i = h + 1) \/ (i - h - m \in 1..w /\ i > h + m
                                                 /\ h + m + (i - h - m) = i)
    BY <1>1, <1>3
  <2> QED BY <1>1, <2>1 DEF Shape
<1> QED BY <1>1, <1>2, <1>3, <1>4

\* Only the last of a chain tells, and nobody who was told already.
LEMMA GivenApart ==
  ASSUME Types, Whereabouts, NEW given, NEW h, NEW m, NEW w, Shape(given, h, m, w)
  PROVE  /\ calls \in [Calls -> Call] /\ late \subseteq Calls /\ given \in Seq(Request)
         /\ \A c \in Calls : Len(calls[c].told) <= 1 /\ (Told(c) <=> calls[c].told # <<>>)
         /\ \A i, j \in DOMAIN given : i < j /\ given[i].call = given[j].call =>
              given[i].cb \notin Tellers
         /\ \A i \in DOMAIN given : /\ given[i].cb \in Tellers => calls[given[i].call].told = <<>>
                                    /\ expiries = 0 => calls[given[i].call].told = <<>>
<1>1. /\ DOMAIN given = 1..(h + m + w) /\ h \in Nat /\ m \in Nat /\ w \in Nat
      /\ DOMAIN outq = 1..Len(outq) /\ DOMAIN waitq = 1..Len(waitq)
      /\ 1..h \subseteq DOMAIN outq /\ 1..w \subseteq DOMAIN waitq
      /\ \A i \in DOMAIN given : /\ given[i] \in Request
                                 /\ \/ i \in 1..h /\ given[i] = outq[i][1]
                                    \/ m = 1 /\ i = h + 1 /\ cur # None /\ given[i] = cur.pdu
                                    \/ /\ i - h - m \in 1..w /\ i > h + m
                                       /\ given[i] = waitq[i - h - m]
  BY ShapePlaces
<1>2. ASSUME NEW i \in DOMAIN given
      PROVE  LET d == given[i].call IN
             /\ d \in Calls
             /\ \/ i \in 1..h /\ InOutq(d)
                \/ m = 1 /\ i = h + 1 /\ IsCur(d) /\ (given[i].cb \in Tellers => TellerIsCur(d))
                \/ i - h - m \in 1..w /\ i > h + m /\ InWaitq(d)
  BY <1>1 DEF Request, InOutq, InWaitq, IsCur, TellerIsCur
<1>3. /\ calls \in [Calls -> Call] /\ late \subseteq Calls
      /\ \A c \in Calls : Len(calls[c].told) <= 1 /\ (Told(c) <=> calls[c].told # <<>>)
      /\ given \in Seq(Request)
  BY DEF Types, Whereabouts, ToldLast, Told, Shape
<1>4. ASSUME NEW i \in DOMAIN given, NEW j \in DOMAIN given, i < j, given[i].call = given[j].call
      PROVE  given[i].cb \notin Tellers
  <2> SUFFICES ASSUME given[i].cb \in Tellers PROVE FALSE
    OBVIOUS
  <2>0. i \in Nat /\ j \in Nat  BY <1>1
  <2>1. CASE i \in 1..h
    <3>1. InOutq(given[i].call) /\ given[i].call \in Calls
      BY <1>1, <1>2, <2>1 DEF InOutq
    <3>2. j \in 1..h
      BY <1>2, <1>4, <3>1 DEF Whereabouts, OneChain
    <3>3. given[i] = outq[i][1] /\ given[j] = outq[j][1]
      BY <1>1, <2>1, <3>2
    <3> QED BY <1>1, <1>4, <2>0, <2>1, <3>2, <3>3 DEF Whereabouts, OneChain
  <2>2. CASE m = 1 /\ i = h + 1
    <3>1. TellerIsCur(given[i].call) /\ given[i].call \in Calls
      BY <1>1, <1>2, <2>2
    <3>2. j > h + 1
      BY <1>1, <1>4, <2>2, <2>0
    <3>3. InWaitq(given[j].call)
      BY <1>1, <1>2, <2>0, <3>2
    <3> QED BY <1>4, <3>1, <3>3 DEF Whereabouts, WireOrder
  <2>3. CASE i - h - m \in 1..w /\ i > h + m
    <3>1. j > h + m
      BY <1>1, <1>4, <2>0, <2>3
    <3>2. given[i] = waitq[i - h - m] /\ given[j] = waitq[j - h - m]
          /\ i - h - m \in DOMAIN waitq /\ j - h - m \in DOMAIN waitq /\ i - h - m < j - h - m
      BY <1>1, <1>4, <2>0, <2>3, <3>1, SMTT(30)
    <3> QED BY <1>4, <3>2 DEF Whereabouts, WireOrder, Linked
  <2> QED BY <1>2, <2>1, <2>2, <2>3
<1>5. ASSUME NEW i \in DOMAIN given
      PROVE  /\ given[i].cb \in Tellers => calls[given[i].call].told = <<>>
             /\ expiries = 0 => calls[given[i].call].told = <<>>
  BY <1>2, <1>3 DEF Whereabouts, ToldLast
<1> QED BY <1>3, <1>4, <1>5

\* Given up, each of their calls is told once, and only by the last of a chain.
LEMMA GiveUp ==
  ASSUME Types, Whereabouts, NEW given, NEW h, NEW m, NEW w, Shape(given, h, m, w), NEW s \in Ages
  PROVE  LET st == CompleteAll(given, s) IN
         /\ st \in GivingUp
         /\ \A c \in Calls :
              /\ st.calls[c].kind = calls[c].kind /\ Len(st.calls[c].told) <= 1
              /\ st.calls[c].told # <<>> <=>
                   Told(c) \/ HeadTells(h, c) \/ (m = 1 /\ TellerIsCur(c)) \/ WaitTells(w, c)
         /\ expiries = 0 => st.late = late
<1>1. /\ DOMAIN given = 1..(h + m + w) /\ h \in Nat /\ m \in Nat /\ w \in Nat
      /\ DOMAIN outq = 1..Len(outq) /\ DOMAIN waitq = 1..Len(waitq)
      /\ 1..h \subseteq DOMAIN outq /\ 1..w \subseteq DOMAIN waitq
      /\ \A i \in DOMAIN given : /\ given[i] \in Request
                                 /\ \/ i \in 1..h /\ given[i] = outq[i][1]
                                    \/ m = 1 /\ i = h + 1 /\ cur # None /\ given[i] = cur.pdu
                                    \/ /\ i - h - m \in 1..w /\ i > h + m
                                       /\ given[i] = waitq[i - h - m]
  BY ShapePlaces
<1>2. /\ calls \in [Calls -> Call] /\ late \subseteq Calls
      /\ \A c \in Calls : Len(calls[c].told) <= 1
      /\ given \in Seq(Request)
  BY GivenApart
<1>3. \A c \in Calls : Told(c) <=> calls[c].told # <<>>
  BY GivenApart
<1>4. /\ \A i, j \in DOMAIN given :
           i < j /\ given[i].call = given[j].call => given[i].cb \notin Tellers
      /\ \A i \in DOMAIN given : given[i].cb \in Tellers => calls[given[i].call].told = <<>>
  BY GivenApart
<1>5. expiries = 0 => \A i \in DOMAIN given : calls[given[i].call].told = <<>>
  BY GivenApart
<1> DEFINE st == CompleteAll(given, s)
<1>6. /\ st \in GivingUp
      /\ \A c \in Calls :
           /\ st.calls[c].kind = calls[c].kind /\ Len(st.calls[c].told) <= 1
           /\ st.calls[c].told # <<>> <=>
                \/ calls[c].told # <<>>
                \/ \E i \in DOMAIN given : given[i].call = c /\ given[i].cb \in Tellers
      /\ (\A i \in DOMAIN given : calls[given[i].call].told = <<>>) => st.late = late
  BY <1>2, <1>4, GivenUp
<1> HIDE DEF st
<1>7. ASSUME NEW c \in Calls
      PROVE  (\E i \in DOMAIN given : given[i].call = c /\ given[i].cb \in Tellers)
               <=> HeadTells(h, c) \/ (m = 1 /\ TellerIsCur(c)) \/ WaitTells(w, c)
  <2>1. ASSUME NEW i \in DOMAIN given, given[i].call = c, given[i].cb \in Tellers
        PROVE  HeadTells(h, c) \/ (m = 1 /\ TellerIsCur(c)) \/ WaitTells(w, c)
    BY <1>1, <2>1 DEF HeadTells, WaitTells, TellerIsCur, IsCur
  <2>2. ASSUME HeadTells(h, c)
        PROVE  \E i \in DOMAIN given : given[i].call = c /\ given[i].cb \in Tellers
    <3>1. PICK i \in 1..h : outq[i][1].call = c /\ outq[i][1].cb \in Tellers
      BY <2>2 DEF HeadTells
    <3>2. i \in DOMAIN given /\ given[i] = outq[i][1]
      BY <1>1, <3>1 DEF Shape
    <3> QED BY <3>1, <3>2
  <2>3. ASSUME m = 1, TellerIsCur(c)
        PROVE  \E i \in DOMAIN given : given[i].call = c /\ given[i].cb \in Tellers
    <3>1. h + 1 \in DOMAIN given /\ given[h + 1] = cur.pdu
      BY <1>1, <2>3 DEF Shape
    <3> QED BY <2>3, <3>1 DEF TellerIsCur, IsCur
  <2>4. ASSUME WaitTells(w, c)
        PROVE  \E i \in DOMAIN given : given[i].call = c /\ given[i].cb \in Tellers
    <3>1. PICK i \in 1..w : waitq[i].call = c /\ waitq[i].cb \in Tellers
      BY <2>4 DEF WaitTells
    <3>2. h + m + i \in DOMAIN given /\ given[h + m + i] = waitq[i]
      BY <1>1, <3>1 DEF Shape
    <3> QED BY <3>1, <3>2
  <2> QED BY <2>1, <2>2, <2>3, <2>4
<1>8. expiries = 0 => st.late = late
  BY <1>5, <1>6
<1> QED BY <1>3, <1>6, <1>7, <1>8 DEF st
\* Heads of the first chains, and the first of waitq behind them.
LEMMA HeadsShape ==
  ASSUME Types, NEW h \in 0..Len(outq), NEW m \in {0, 1}, NEW w \in 0..Len(waitq),
         NEW mid \in Seq(Request), Len(mid) = m, m = 1 => cur # None /\ mid[1] = cur.pdu
  PROVE  /\ Shape((Heads(SubSeq(outq, 1, h)) \o mid) \o SubSeq(waitq, 1, w), h, m, w)
         /\ Heads(SubSeq(outq, 1, h)) \in Seq(Request)
<1> DEFINE u == SubSeq(outq, 1, h)
           a == Heads(u)
           b == SubSeq(waitq, 1, w)
           x == a \o mid
           g == x \o b
<1>1. /\ u \in Seq(Seq(Request)) /\ Len(u) = h /\ \A k \in 1..h : u[k] = outq[k]
      /\ b \in Seq(Request) /\ Len(b) = w /\ \A k \in 1..w : b[k] = waitq[k]
  BY PrefixElements DEF Types
<1>2. h \in Nat /\ w \in Nat /\ m \in Nat /\ 1..h \subseteq DOMAIN outq
  BY LenProperties DEF Types
<1>3. \A k \in 1..h : outq[k][1] \in Request
  <2> TAKE k \in 1..h
  <2>1. outq[k] \in Seq(Request) /\ outq[k] # <<>>
    BY <1>2 DEF Types, Chain
  <2> QED BY <2>1, LenProperties, EmptySeq, ElementOfSeq
<1>4. a \in Seq(Request) /\ Len(a) = h /\ \A k \in 1..h : a[k] = outq[k][1]
  <2>1. DOMAIN u = 1..h
    BY <1>1, LenProperties
  <2>2. a = [k \in 1..h |-> u[k][1]]
    BY <2>1 DEF Heads
  <2> HIDE DEF a, u
  <2>3. a \in [1..h -> Request]
    BY <1>1, <1>3, <2>2
  <2> QED BY <1>1, <1>2, <2>2, <2>3, FcnIsSeq
<1> HIDE DEF a, b, u
<1>5. /\ x \in Seq(Request) /\ Len(x) = h + m
      /\ \A k \in 1..(h + m) : x[k] = IF k <= h THEN a[k] ELSE mid[k - h]
  BY <1>4, ConcatProperties
<1> HIDE DEF x
<1>6. /\ g \in Seq(Request) /\ Len(g) = (h + m) + w
      /\ \A k \in 1..((h + m) + w) : g[k] = IF k <= h + m THEN x[k] ELSE b[k - (h + m)]
  <2>1. x \in Seq(Request) /\ b \in Seq(Request) /\ Len(x) = h + m /\ Len(b) = w
    BY <1>1, <1>5
  <2>4. x \in Seq(Request) /\ b \in Seq(Request)
    BY <2>1
  <2>2. /\ x \o b \in Seq(Request) /\ Len(x \o b) = Len(x) + Len(b)
        /\ \A k \in 1..(Len(x) + Len(b)) : (x \o b)[k] = IF k <= Len(x) THEN x[k] ELSE b[k - Len(x)]
    BY <2>4, ConcatProperties
  <2>3. g = x \o b
    OBVIOUS
  <2> HIDE DEF g
  <2> QED BY <2>1, <2>2, <2>3
<1> HIDE DEF g
<1>7. \A k \in 1..h : g[k] = outq[k][1]
  <2> TAKE k \in 1..h
  <2>1. k \in 1..(h + m) /\ k \in 1..((h + m) + w) /\ k <= h /\ k <= h + m
    BY <1>2
  <2> QED BY <1>4, <1>5, <1>6, <2>1
<1>8. m = 1 => g[h + 1] = cur.pdu
  <2> SUFFICES ASSUME m = 1 PROVE g[h + 1] = cur.pdu
    OBVIOUS
  <2>1. h + 1 \in 1..(h + m) /\ h + 1 \in 1..((h + m) + w) /\ h + 1 <= h + m /\ ~(h + 1 <= h)
        /\ (h + 1) - h = 1
    BY <1>2
  <2> QED BY <1>5, <1>6, <2>1
<1>9. \A k \in 1..w : g[h + m + k] = waitq[k]
  <2> TAKE k \in 1..w
  <2>1. h + m + k \in 1..((h + m) + w) /\ ~(h + m + k <= h + m) /\ (h + m + k) - (h + m) = k
    BY <1>2
  <2> QED BY <1>1, <1>6, <2>1
<1>10. Shape(g, h, m, w)
  BY <1>6, <1>7, <1>8, <1>9 DEF Shape
<1> QED BY <1>4, <1>10 DEF g, x, a, b, u

\* What the queues keep when their oldest requests are given up.
Expired(h, w) ==
  /\ h \in 0..Len(outq) /\ w \in 0..Len(waitq) /\ link = "up"
  /\ outq' = SubSeq(outq, h + 1, Len(outq)) /\ waitq' = SubSeq(waitq, w + 1, Len(waitq))
  /\ cur' = cur /\ begun' = begun /\ expiries' = expiries + 1
  /\ calls' \in [Calls -> Call]
  /\ \A c \in Calls :
       /\ Len(calls'[c].told) <= 1
       /\ calls'[c].told # <<>> <=> Told(c) \/ HeadTells(h, c) \/ WaitTells(w, c)
  /\ dropped' = dropped \cup Callers(SubSeq(outq, 1, h))

\* smb2_timeout_pdus keeps where the other requests are, and tells for those
\* it removes, or they are on record as dropped.
LEMMA OldestGone ==
  ASSUME Types, Whereabouts, NEW h, NEW w, Expired(h, w)
  PROVE  /\ Whereabouts'
         /\ outq' \in Seq(Seq(Request)) /\ \A i \in DOMAIN outq' : Chain(outq'[i])
         /\ waitq' \in Seq(Request)
<1> DEFINE O == Len(outq) - h
           W == Len(waitq) - w
<1>1. h \in 0..Len(outq) /\ w \in 0..Len(waitq)
  BY DEF Expired
<1>2. /\ DOMAIN outq = 1..Len(outq) /\ Len(outq) \in Nat /\ outq \in Seq(Seq(Request))
      /\ DOMAIN waitq = 1..Len(waitq) /\ Len(waitq) \in Nat /\ waitq \in Seq(Request)
      /\ \A i \in DOMAIN outq : Chain(outq[i])
  BY LenProperties DEF Types
<1>3. /\ O \in Nat /\ outq' \in Seq(Seq(Request)) /\ DOMAIN outq' = 1..O
      /\ \A i \in 1..O : outq'[i] = outq[h + i] /\ h + i \in DOMAIN outq
  <2>1. /\ outq' \in Seq(Seq(Request)) /\ Len(outq') = O /\ \A i \in 1..O : outq'[i] = outq[h + i]
    BY <1>1, <1>2, SuffixElements DEF Expired
  <2>2. O \in Nat /\ \A i \in 1..O : h + i \in 1..Len(outq)
    BY <1>1, <1>2
  <2>3. DOMAIN outq' = 1..Len(outq')
    BY <2>1, LenProperties
  <2> HIDE DEF O
  <2> QED BY <1>2, <2>1, <2>2, <2>3
<1>4. /\ W \in Nat /\ waitq' \in Seq(Request) /\ DOMAIN waitq' = 1..W
      /\ \A i \in 1..W : waitq'[i] = waitq[w + i] /\ w + i \in DOMAIN waitq
  <2>1. /\ waitq' \in Seq(Request) /\ Len(waitq') = W /\ \A i \in 1..W : waitq'[i] = waitq[w + i]
    BY <1>1, <1>2, SuffixElements DEF Expired
  <2>2. W \in Nat /\ \A i \in 1..W : w + i \in 1..Len(waitq)
    BY <1>1, <1>2
  <2>3. DOMAIN waitq' = 1..Len(waitq')
    BY <2>1, LenProperties
  <2> HIDE DEF W
  <2> QED BY <1>2, <2>1, <2>2, <2>3
<1>5. /\ \A i \in DOMAIN outq : i \in 1..h \/ (i - h \in 1..O /\ h + (i - h) = i)
      /\ \A i \in DOMAIN waitq : i \in 1..w \/ (i - w \in 1..W /\ w + (i - w) = i)
  <2>1. \A i \in 1..Len(outq) : i \in 1..h \/ (i - h \in 1..O /\ h + (i - h) = i)
    BY <1>1, <1>2
  <2>2. \A i \in 1..Len(waitq) : i \in 1..w \/ (i - w \in 1..W /\ w + (i - w) = i)
    BY <1>1, <1>2
  <2> QED BY <1>2, <2>1, <2>2
<1>6. /\ \A i \in 1..h : i \in DOMAIN outq /\ \A k \in 1..O : h + k # i
      /\ \A i \in 1..w : i \in DOMAIN waitq /\ \A k \in 1..W : i < w + k
  <2>1. \A i \in 1..h : i \in 1..Len(outq) /\ \A k \in 1..O : h + k # i
    BY <1>1, <1>2
  <2>2. \A i \in 1..w : i \in 1..Len(waitq) /\ \A k \in 1..W : i < w + k
    BY <1>1, <1>2
  <2> QED BY <1>2, <2>1, <2>2
<1> HIDE DEF O, W
<1>7. \A c \in Calls : /\ InOutq(c)' => InOutq(c)
                       /\ InWaitq(c)' => InWaitq(c)
                       /\ TellerWaits(c) => TellerWaits(c)' \/ WaitTells(w, c)
                       /\ IsCur(c)' <=> IsCur(c)
                       /\ TellerIsCur(c)' <=> TellerIsCur(c)
                       /\ Told(c)' <=> Told(c) \/ HeadTells(h, c) \/ WaitTells(w, c)
  <2> TAKE c \in Calls
  <2>1. (InOutq(c)' => InOutq(c)) /\ (InWaitq(c)' => InWaitq(c))
    BY <1>3, <1>4 DEF InOutq, InWaitq
  <2>2. TellerWaits(c) => TellerWaits(c)' \/ WaitTells(w, c)
    <3> SUFFICES ASSUME NEW i \in DOMAIN waitq, waitq[i].call = c, waitq[i].cb \in Tellers
                 PROVE  TellerWaits(c)' \/ WaitTells(w, c)
      BY DEF TellerWaits
    <3>1. CASE i \in 1..w  BY <3>1 DEF WaitTells
    <3>2. CASE i - w \in 1..W /\ w + (i - w) = i
      <4>1. waitq'[i - w] = waitq[i] /\ i - w \in DOMAIN waitq'
        BY <1>4, <3>2
      <4> QED BY <4>1 DEF TellerWaits
    <3> QED BY <1>5, <3>1, <3>2
  <2>3. (IsCur(c)' <=> IsCur(c)) /\ (TellerIsCur(c)' <=> TellerIsCur(c))
    BY DEF IsCur, TellerIsCur, Expired
  <2>4. Told(c)' <=> Told(c) \/ HeadTells(h, c) \/ WaitTells(w, c)
    BY DEF Told, Expired
  <2> QED BY <2>1, <2>2, <2>3, <2>4
<1>8. \A c \in Calls : HeadTells(h, c) => InOutq(c) /\ ~InOutq(c)'
  <2> SUFFICES ASSUME NEW c \in Calls, NEW i \in 1..h, outq[i][1].call = c
               PROVE  InOutq(c) /\ ~InOutq(c)'
    BY DEF HeadTells
  <2>1. InOutq(c)
    BY <1>6 DEF InOutq
  <2>2. ASSUME NEW k \in 1..O, outq'[k][1].call = c PROVE FALSE
    <3>1. outq[h + k][1].call = c /\ h + k \in DOMAIN outq /\ i \in DOMAIN outq /\ h + k # i
      BY <1>3, <1>6, <2>2
    <3> QED BY <3>1 DEF Whereabouts, OneChain
  <2> QED BY <1>3, <2>1, <2>2 DEF InOutq
<1>9. \A c \in Calls : WaitTells(w, c) => InWaitq(c) /\ ~InWaitq(c)'
  <2> SUFFICES ASSUME NEW c \in Calls, NEW i \in 1..w, waitq[i].call = c, waitq[i].cb \in Tellers
               PROVE  InWaitq(c) /\ ~InWaitq(c)'
    BY DEF WaitTells
  <2>1. InWaitq(c)
    BY <1>6 DEF InWaitq
  <2>2. ASSUME NEW k \in 1..W, waitq'[k].call = c PROVE FALSE
    <3>1. waitq[w + k].call = c /\ w + k \in DOMAIN waitq /\ i \in DOMAIN waitq /\ i < w + k
      BY <1>4, <1>6, <2>2
    <3> QED BY <3>1 DEF Whereabouts, WireOrder, Linked
  <2> QED BY <1>4, <2>1, <2>2 DEF InWaitq
<1>10. OneChain'
  <2>1. ASSUME NEW i \in DOMAIN outq', NEW j \in DOMAIN outq', outq'[i][1].call = outq'[j][1].call
        PROVE  i = j
    <3>1. /\ i \in 1..O /\ j \in 1..O /\ h + i \in DOMAIN outq /\ h + j \in DOMAIN outq
          /\ outq[h + i][1].call = outq[h + j][1].call
      BY <1>3, <2>1
    <3>2. h + i = h + j
      BY <3>1 DEF Whereabouts, OneChain
    <3> QED BY <1>1, <3>1, <3>2
  <2>2. \A c \in Calls : InOutq(c)' => ~InWaitq(c)' /\ ~IsCur(c)'
    BY <1>7 DEF Whereabouts, OneChain
  <2> QED BY <2>1, <2>2 DEF OneChain
<1>11. WireOrder'
  <2>1. Linked(waitq')
    <3> SUFFICES ASSUME NEW i \in 1..W, NEW j \in 1..W, i < j, waitq'[i].call = waitq'[j].call
                 PROVE  /\ waitq'[i].cb \notin Tellers /\ waitq'[j].prev # 0
                        /\ \E k \in i..(j - 1) : /\ waitq'[k].mid = waitq'[j].prev
                                                 /\ waitq'[k].call = waitq'[j].call
      <4>1. DOMAIN waitq' = 1..W
        BY <1>4
      <4> QED BY <4>1 DEF Linked
    <3>1. /\ waitq'[i] = waitq[w + i] /\ waitq'[j] = waitq[w + j] /\ w + i < w + j
          /\ w + i \in DOMAIN waitq /\ w + j \in DOMAIN waitq
      BY <1>1, <1>4
    <3>2. /\ waitq[w + i].cb \notin Tellers /\ waitq[w + j].prev # 0
          /\ \E k \in (w + i)..((w + j) - 1) : /\ waitq[k].mid = waitq[w + j].prev
                                               /\ waitq[k].call = waitq[w + j].call
      BY <3>1 DEF Whereabouts, WireOrder, Linked
    <3>3. PICK k \in (w + i)..((w + j) - 1) : /\ waitq[k].mid = waitq[w + j].prev
                                              /\ waitq[k].call = waitq[w + j].call
      BY <3>2
    <3>4. k - w \in i..(j - 1) /\ k - w \in 1..W /\ w + (k - w) = k
      BY <1>1, <1>4
    <3>5. waitq'[k - w] = waitq[k]
      BY <1>4, <3>4
    <3> QED BY <3>1, <3>2, <3>3, <3>4, <3>5
  <2>2. \A c \in Calls : TellerIsCur(c)' => ~InWaitq(c)'
    BY <1>7 DEF Whereabouts, WireOrder
  <2> QED BY <2>1, <2>2 DEF WireOrder
<1>12. ToldLast'
  <2> SUFFICES ASSUME NEW c \in Calls
               PROVE  /\ Len(calls'[c].told) <= 1
                      /\ (InOutq(c) \/ InWaitq(c) \/ IsCur(c) \/ Told(c))' => c \in begun'
                      /\ Told(c)' => /\ ~InOutq(c)' /\ ~InWaitq(c)' /\ ~TellerIsCur(c)'
                                     /\ expiries' = 0 => ~IsCur(c)'
    BY DEF ToldLast
  <2>1. expiries' # 0
    BY DEF Types, Expired
  <2>2. TellerIsCur(c) => IsCur(c) /\ ~InWaitq(c)
    BY DEF TellerIsCur, Whereabouts, WireOrder
  <2>3. InOutq(c) => ~InWaitq(c) /\ ~IsCur(c)
    BY DEF Whereabouts, OneChain
  <2>4. /\ Len(calls'[c].told) <= 1
        /\ InOutq(c) \/ InWaitq(c) \/ IsCur(c) \/ Told(c) => c \in begun'
        /\ Told(c) => ~InOutq(c) /\ ~InWaitq(c) /\ ~TellerIsCur(c)
    BY DEF Whereabouts, ToldLast, Expired
  <2> QED BY <1>7, <1>8, <1>9, <2>1, <2>2, <2>3, <2>4
<1>13. TellerKept'
  <2> SUFFICES ASSUME NEW c \in begun
               PROVE  \/ Told(c)' \/ c \in dropped'
                      \/ InOutq(c)' \/ TellerWaits(c)' \/ TellerIsCur(c)'
    BY DEF TellerKept, Expired
  <2>1. c \in Calls /\ (Told(c) \/ c \in dropped \/ InOutq(c) \/ TellerWaits(c) \/ TellerIsCur(c))
    BY DEF Whereabouts, TellerKept, Types, Expired
  <2>2. ASSUME InOutq(c) PROVE HeadTells(h, c) \/ c \in dropped' \/ InOutq(c)'
    <3>1. PICK i \in DOMAIN outq : outq[i][1].call = c
      BY <2>2 DEF InOutq
    <3>2. CASE i \in 1..h
      <4>1. CASE Len(outq[i]) = 1
        <5>1. 1 \in DOMAIN outq[i] /\ Chain(outq[i])
          <6>1. Chain(outq[i]) /\ DOMAIN outq[i] = 1..Len(outq[i])
            BY <1>2, LenProperties
          <6> QED BY <4>1, <6>1
        <5>2. outq[i][1].cb \in Tellers
          BY <4>1, <5>1 DEF Chain
        <5> QED BY <3>1, <3>2, <5>2 DEF HeadTells
      <4>2. CASE Len(outq[i]) # 1
        <5> DEFINE u == SubSeq(outq, 1, h)
        <5>1. u \in Seq(Seq(Request)) /\ Len(u) = h /\ u[i] = outq[i]
          BY <1>1, <1>2, <3>2, PrefixElements
        <5>2. Len(outq[i]) \in Nat /\ Len(outq[i]) # 0
          BY <1>2, LenProperties, EmptySeq DEF Chain
        <5>3. i \in DOMAIN u /\ Len(u[i]) > 1 /\ u[i][1].call = c
          <6> HIDE DEF u
          <6>1. DOMAIN u = 1..h
            BY <5>1, LenProperties
          <6>2. Len(outq[i]) > 1
            <7> DEFINE l == Len(outq[i])
            <7>1. l \in Nat /\ l # 0 /\ l # 1
              BY <4>2, <5>2
            <7> HIDE DEF l
            <7>2. l > 1
              BY <7>1
            <7> QED BY <7>2 DEF l
          <6> QED BY <3>1, <3>2, <5>1, <6>1, <6>2
        <5>4. c \in Callers(u)
          <6> HIDE DEF u
          <6> QED BY <2>1, <5>3 DEF Callers
        <5> QED BY <5>4 DEF Expired
      <4> QED BY <4>1, <4>2
    <3>3. CASE i - h \in 1..O /\ h + (i - h) = i
      BY <1>3, <3>1, <3>3 DEF InOutq
    <3> QED BY <1>5, <3>2, <3>3
  <2>3. dropped \subseteq dropped'
    BY DEF Expired
  <2> QED BY <1>7, <2>1, <2>2, <2>3
<1>14. \A i \in DOMAIN outq' : Chain(outq'[i])
  BY <1>2, <1>3
<1> QED BY <1>3, <1>4, <1>10, <1>11, <1>12, <1>13, <1>14 DEF Whereabouts
\* What the chains of a queue cost.
Costs(q) == [i \in DOMAIN q |-> Charge(q[i])]
Cost(q) == Total(Costs(q))

\* smb2_timeout_pdus, whatever the age it cuts at: n requests go, those of waitq
\* first, and the message ids of the chains that were not sent are on record.
LEMMA TimeOutEffect ==
  ASSUME Types, Whereabouts, NEW n \in 1..(Len(waitq) + Len(outq)), smb2_timeout_pdus(n)
  PROVE  \E h \in 0..Len(outq) : \E w \in 0..Len(waitq) :
           /\ Expired(h, w) /\ h + w = n /\ (h > 0 => w = Len(waitq))
           /\ late' \subseteq Calls /\ nextMid' = nextMid
           /\ skipped' = skipped + Cost(SubSeq(outq, 1, h)) /\ skipped' \in Nat
<1> DEFINE w == IF n < Len(waitq) THEN n ELSE Len(waitq)
           h == n - w
           unsent == SubSeq(outq, 1, h)
           given == Heads(unsent) \o SubSeq(waitq, 1, w)
           st == CompleteAll(given, "timeout")
           sums == Costs(unsent)
<1>1. /\ link = "up" /\ expiries < MaxExpiries
      /\ Becomes([st EXCEPT !.skipped = @ + Total(sums)])
      /\ outq' = SubSeq(outq, h + 1, Len(outq)) /\ waitq' = SubSeq(waitq, w + 1, Len(waitq))
      /\ dropped' = dropped \cup Callers(unsent)
      /\ garbled' = (garbled \/ (partial /\ unsent # <<>>))
      /\ partial' = (partial /\ unsent = <<>>)
      /\ link' = (IF st.shut THEN "shut" ELSE link) \/ link' = "crashed"
      /\ expiries' = expiries + 1 /\ UNCHANGED <<begun, cur, credits, server>>
  BY DEF smb2_timeout_pdus, Costs
<1>2. Types /\ Whereabouts
  OBVIOUS
<1>3. /\ Len(outq) \in Nat /\ Len(waitq) \in Nat /\ outq \in Seq(Seq(Request))
      /\ \A i \in DOMAIN outq : Chain(outq[i])
  BY <1>2, LenProperties DEF Types
<1>4. h \in 0..Len(outq) /\ w \in 0..Len(waitq) /\ h + w = n /\ (h > 0 => w = Len(waitq))
  BY <1>3
<1> HIDE DEF h, w
<1>5. Shape(given, h, 0, w)
  <2> DEFINE a == Heads(unsent)
             mid == <<>>
  <2> PICK m \in {0, 1} : m = 0
    OBVIOUS
  <2>1. mid \in Seq(Request) /\ Len(mid) = m /\ m # 1
    OBVIOUS
  <2> HIDE DEF mid
  <2>2. Shape((a \o mid) \o SubSeq(waitq, 1, w), h, m, w) /\ a \in Seq(Request)
    BY <1>2, <1>4, <2>1, HeadsShape
  <2> HIDE DEF a
  <2>3. a \o mid = a
    BY <2>2, ConcatEmptySeq DEF mid
  <2> QED BY <2>2, <2>3 DEF a
<1>6. Total(sums) \in Nat
  <2>1. unsent \in Seq(Seq(Request)) /\ Len(unsent) = h /\ \A k \in 1..h : unsent[k] = outq[k]
    BY <1>3, <1>4, PrefixElements
  <2>2. h \in Nat /\ DOMAIN unsent = 1..h /\ \A k \in 1..h : k \in DOMAIN outq
    BY <1>3, <1>4, <2>1, LenProperties
  <2>3. \A k \in 1..h : Charge(unsent[k]) \in Nat
    BY <1>3, <2>1, <2>2, ChainSums DEF Chain
  <2> HIDE DEF unsent
  <2>4. sums \in [1..h -> Nat]
    BY <2>2, <2>3 DEF Costs
  <2> HIDE DEF sums
  <2>5. sums \in Seq(Nat)
    BY <2>2, <2>4, FcnIsSeq
  <2> QED BY <2>5, TotalNat
<1> HIDE DEF given, sums
<1>7. /\ st \in GivingUp
      /\ \A c \in Calls :
           /\ st.calls[c].kind = calls[c].kind /\ Len(st.calls[c].told) <= 1
           /\ st.calls[c].told # <<>> <=>
                Told(c) \/ HeadTells(h, c) \/ (0 = 1 /\ TellerIsCur(c)) \/ WaitTells(w, c)
  <2> PICK s \in Ages : s = "timeout"
    BY DEF Ages
  <2>1. LET x == CompleteAll(given, s) IN
        /\ x \in GivingUp
        /\ \A c \in Calls :
             /\ x.calls[c].kind = calls[c].kind /\ Len(x.calls[c].told) <= 1
             /\ x.calls[c].told # <<>> <=>
                  Told(c) \/ HeadTells(h, c) \/ (0 = 1 /\ TellerIsCur(c)) \/ WaitTells(w, c)
        /\ expiries = 0 => x.late = late
    BY <1>2, <1>5, GiveUp
  <2> QED BY <2>1
<1> HIDE DEF st
<1>8. /\ calls' = st.calls /\ late' = st.late /\ nextMid' = st.nextMid
      /\ skipped' = st.skipped + Total(sums)
  <2> DEFINE more == Total(sums)
  <2>1. Becomes([st EXCEPT !.skipped = @ + more])
    BY <1>1
  <2> HIDE DEF more
  <2>2. calls' = st.calls /\ late' = st.late /\ nextMid' = st.nextMid /\ skipped' = st.skipped + more
    BY <1>7, <2>1 DEF Becomes, GivingUp
  <2> QED BY <2>2 DEF more
<1>9. /\ calls' \in [Calls -> Call] /\ late' \subseteq Calls /\ nextMid' = nextMid /\ skipped' \in Nat
      /\ skipped' = skipped + Total(sums)
  BY <1>2, <1>6, <1>7, <1>8 DEF GivingUp, Types
<1>10. Expired(h, w)
  BY <1>1, <1>4, <1>7, <1>8, <1>9 DEF Expired
<1> QED BY <1>4, <1>9, <1>10 DEF Cost, sums, unsent

\* Requests given up for their age: what is left keeps the invariant.
LEMMA TimeOutStep ==
  ASSUME CallInv, NEW n \in 1..(Len(waitq) + Len(outq)), smb2_timeout_pdus(n) PROVE CallInv'
<1>1. Types /\ Whereabouts
  BY DEF CallInv, Whereabouts
<1>2. PICK h \in 0..Len(outq) : \E w \in 0..Len(waitq) :
        /\ Expired(h, w) /\ late' \subseteq Calls /\ nextMid' = nextMid /\ skipped' \in Nat
  BY <1>1, TimeOutEffect
<1>3. PICK w \in 0..Len(waitq) :
        /\ Expired(h, w) /\ late' \subseteq Calls /\ nextMid' = nextMid /\ skipped' \in Nat
  BY <1>2
<1>4. /\ Whereabouts'
      /\ outq' \in Seq(Seq(Request)) /\ \A i \in DOMAIN outq' : Chain(outq'[i])
      /\ waitq' \in Seq(Request)
  BY <1>1, <1>3, OldestGone
<1>5. expiries' \in Nat /\ expiries' # 0
  <2>1. expiries \in Nat /\ expiries' = expiries + 1
    BY <1>1, <1>3 DEF Types, Expired
  <2> HIDE <1>1, <1>3
  <2> QED BY <2>1
<1>6. /\ link = "up" /\ link' \in {"up", "shut", "crashed"}
      /\ garbled' \in BOOLEAN /\ partial' \in BOOLEAN
      /\ UNCHANGED <<begun, cur, credits, server>>
  BY <1>1 DEF smb2_timeout_pdus, Types
<1>7. calls' \in [Calls -> Call] /\ dropped' \subseteq Calls
  BY <1>1, <1>3 DEF Types, Expired, Callers
<1>8. Types'
  BY <1>1, <1>3, <1>4, <1>5, <1>6, <1>7 DEF Types, server
<1>9. Session'
  BY <1>3, <1>6 DEF CallInv, Session
<1>10. InOrder'
  BY <1>5 DEF InOrder
<1> QED BY <1>4, <1>8, <1>9, <1>10 DEF CallInv, Whereabouts

\* The connect that had queued nothing yet.
AbandonedCall(c) == link = "connecting" /\ c \in begun /\ calls[c].kind = "connect"

\* smb2_destroy_context calls back whatever is left.
LEMMA DestroyStep ==
  ASSUME CallInv, smb2_destroy_context PROVE CallInv'
<1> DEFINE m == IF cur = None THEN 0 ELSE 1
           mid == IF cur = None THEN <<>> ELSE <<cur.pdu>>
           h == Len(outq)
           w == Len(waitq)
           all == (Heads(outq) \o mid) \o waitq
           st == CompleteAll(all, "shutdown")
<1>1. /\ link \in {"connecting", "up", "shut"}
      /\ Becomes([st EXCEPT !.calls = Abandoned(@), !.nextMid = 0, !.skipped = 0])
      /\ link' \in {"down", "crashed"}
      /\ dropped' = dropped \cup Callers(outq)
      /\ outq' = <<>> /\ waitq' = <<>> /\ cur' = None /\ partial' = FALSE
      /\ credits' = 0 /\ garbled' = FALSE
      /\ inbox' = <<>> /\ frames' = <<>> /\ handles' = {} /\ granted' = 0
      /\ legs' = [c \in Calls |-> 0]
      /\ UNCHANGED <<begun, failed, expiries>>
  BY DEF smb2_destroy_context
<1>2. Types /\ Whereabouts
  BY DEF CallInv, Whereabouts
<1>3. /\ h \in Nat /\ w \in Nat /\ outq \in Seq(Seq(Request)) /\ waitq \in Seq(Request)
      /\ DOMAIN outq = 1..h /\ DOMAIN waitq = 1..w
      /\ \A i \in DOMAIN outq : Chain(outq[i])
  BY <1>2, LenProperties DEF Types
<1>4. SubSeq(outq, 1, h) = outq /\ SubSeq(waitq, 1, w) = waitq
  BY <1>3, SubSeqFull
<1>5. Shape(all, h, m, w)
  <2>1. mid \in Seq(Request) /\ Len(mid) = m /\ m \in {0, 1} /\ (m = 1 => cur # None /\ mid[1] = cur.pdu)
    BY <1>2 DEF Types, Reading
  <2> HIDE DEF mid, m
  <2>2. h \in 0..Len(outq) /\ w \in 0..Len(waitq)
    BY <1>3
  <2> HIDE DEF h, w
  <2>3. Shape((Heads(SubSeq(outq, 1, h)) \o mid) \o SubSeq(waitq, 1, w), h, m, w)
    BY <1>2, <2>1, <2>2, HeadsShape
  <2> QED BY <1>4, <2>3
<1> HIDE DEF all
<1>6. /\ st \in GivingUp
      /\ \A c \in Calls :
           /\ st.calls[c].kind = calls[c].kind /\ Len(st.calls[c].told) <= 1
           /\ st.calls[c].told # <<>> <=>
                Told(c) \/ HeadTells(h, c) \/ (m = 1 /\ TellerIsCur(c)) \/ WaitTells(w, c)
      /\ expiries = 0 => st.late = late
  <2> PICK s \in Ages : s = "shutdown"
    BY DEF Ages
  <2> HIDE DEF m, h, w
  <2>1. LET x == CompleteAll(all, s) IN
        /\ x \in GivingUp
        /\ \A c \in Calls :
             /\ x.calls[c].kind = calls[c].kind /\ Len(x.calls[c].told) <= 1
             /\ x.calls[c].told # <<>> <=>
                  Told(c) \/ HeadTells(h, c) \/ (m = 1 /\ TellerIsCur(c)) \/ WaitTells(w, c)
        /\ expiries = 0 => x.late = late
    BY <1>2, <1>5, GiveUp
  <2> QED BY <2>1
<1> HIDE DEF st
<1>7. calls' = Abandoned(st.calls) /\ late' = st.late /\ nextMid' = 0 /\ skipped' = 0
  <2>1. Becomes([st EXCEPT !.calls = Abandoned(@), !.nextMid = 0, !.skipped = 0])
    BY <1>1
  <2> QED BY <1>6, <2>1 DEF Becomes, GivingUp
<1>8. \A c \in Calls : /\ IsCur(c) => m = 1
                       /\ TellerWaits(c) <=> WaitTells(w, c)
                       /\ HeadTells(h, c) => InOutq(c)
                       /\ WaitTells(w, c) => InWaitq(c)
                       /\ InOutq(c) => HeadTells(h, c) \/ c \in dropped'
  <2> TAKE c \in Calls
  <2>1. IsCur(c) => m = 1
    BY DEF IsCur
  <2>2. TellerWaits(c) <=> WaitTells(w, c)
    BY <1>3 DEF TellerWaits, WaitTells
  <2>3. (HeadTells(h, c) => InOutq(c)) /\ (WaitTells(w, c) => InWaitq(c))
    BY <1>3 DEF HeadTells, WaitTells, InOutq, InWaitq
  <2>4. ASSUME InOutq(c) PROVE HeadTells(h, c) \/ c \in dropped'
    <3>1. PICK i \in DOMAIN outq : outq[i][1].call = c
      BY <2>4 DEF InOutq
    <3>2. Chain(outq[i]) /\ DOMAIN outq[i] = 1..Len(outq[i]) /\ Len(outq[i]) \in Nat \ {0}
      BY <1>3, LenProperties, EmptySeq DEF Chain
    <3> DEFINE l == Len(outq[i])
    <3>3. l = 1 \/ l > 1
      <4>1. l \in Nat /\ l # 0  BY <3>2
      <4> HIDE DEF l
      <4> QED BY <4>1
    <3>4. CASE l = 1
      <4>1. outq[i][1].cb \in Tellers
        BY <3>2, <3>4 DEF Chain
      <4> QED BY <1>3, <3>1, <4>1 DEF HeadTells
    <3>5. CASE l > 1
      <4>1. c \in Callers(outq)
        BY <3>1, <3>5 DEF Callers
      <4> QED BY <1>1, <4>1
    <3> QED BY <3>3, <3>4, <3>5
  <2> QED BY <2>1, <2>2, <2>3, <2>4
<1>9. \A c \in Calls : AbandonedCall(c) => c \in begun /\ ~Told(c) /\ st.calls[c].told = <<>>
  <2> SUFFICES ASSUME NEW c \in Calls, AbandonedCall(c)
               PROVE  c \in begun /\ ~Told(c) /\ st.calls[c].told = <<>>
    OBVIOUS
  <2>1. c \in begun /\ ~Told(c) /\ outq = <<>> /\ waitq = <<>> /\ cur = None
    BY DEF AbandonedCall, CallInv, Session
  <2>2. ~InOutq(c) /\ ~InWaitq(c) /\ m = 0
    BY <2>1 DEF InOutq, InWaitq
  <2> QED BY <1>6, <1>8, <2>1, <2>2
<1> HIDE DEF m, h, w
<1>10. ASSUME NEW c \in Calls
       PROVE  /\ calls'[c] \in Call /\ Len(calls'[c].told) <= 1
              /\ calls'[c].told # <<>> <=> \/ Told(c) \/ HeadTells(h, c) \/ (m = 1 /\ TellerIsCur(c))
                                           \/ WaitTells(w, c) \/ AbandonedCall(c)
  <2>1. st.calls \in [Calls -> Call]
    BY <1>6 DEF GivingUp
  <2>2. CASE AbandonedCall(c)
    <3> DEFINE call == st.calls[c]
    <3>1. calls'[c] = Tell(call, "fail").call
      BY <1>6, <1>7, <2>2 DEF Abandoned, AbandonedCall, connect_cb
    <3>2. call \in Call /\ call.told = <<>>
      BY <1>9, <2>1, <2>2
    <3> HIDE DEF call
    <3> PICK s \in Statuses : s = "fail"
      BY DEF Statuses
    <3>3. Tell(call, s).call \in Call /\ Tell(call, s).call.told = Append(<<>>, s)
      BY <3>2, TellEffect
    <3>4. Append(<<>>, s) # <<>> /\ Len(Append(<<>>, s)) = 1
      OBVIOUS
    <3>5. calls'[c] = Tell(call, s).call
      BY <3>1
    <3>6. calls'[c] \in Call /\ calls'[c].told = Append(<<>>, s)
      BY <3>3, <3>5
    <3>7. Len(calls'[c].told) = 1 /\ calls'[c].told # <<>>
      BY <3>4, <3>6
    <3> QED BY <2>2, <3>6, <3>7
  <2>3. CASE ~AbandonedCall(c)
    <3>1. calls'[c] = st.calls[c]
      BY <1>6, <1>7, <2>3 DEF Abandoned, AbandonedCall
    <3> QED BY <1>6, <2>1, <2>3, <3>1
  <2> QED BY <2>2, <2>3
<1>11. calls' \in [Calls -> Call]
  BY <1>7, <1>10 DEF Abandoned
<1>12. Types'
  <2>1. late' \subseteq Calls /\ dropped' \subseteq Calls
    BY <1>1, <1>2, <1>6, <1>7 DEF GivingUp, Types, Callers
  <2>2. DOMAIN outq' = {} /\ DOMAIN frames' = {} /\ DOMAIN inbox' = {}
    BY <1>1
  <2>3. outq' \in Seq(Seq(Request)) /\ waitq' \in Seq(Request) /\ inbox' \in Seq(Taken)
        /\ frames' \in Seq(Seq(Reply)) /\ legs' \in [Calls -> Nat]
    BY <1>1
  <2> QED BY <1>1, <1>2, <1>7, <1>11, <2>1, <2>2, <2>3 DEF Types
<1>13. Session'
  BY <1>1 DEF Session
<1>14. \A c \in Calls : ~InOutq(c)' /\ ~InWaitq(c)' /\ ~IsCur(c)' /\ ~TellerIsCur(c)'
  BY <1>1 DEF InOutq, InWaitq, IsCur, TellerIsCur
<1>15. \A c \in Calls : Told(c)' <=> \/ Told(c) \/ HeadTells(h, c) \/ (m = 1 /\ TellerIsCur(c))
                                     \/ WaitTells(w, c) \/ AbandonedCall(c)
  BY <1>10 DEF Told
<1>16. OneChain' /\ WireOrder'
  <2>1. DOMAIN outq' = {} /\ DOMAIN waitq' = {}
    BY <1>1
  <2> QED BY <1>14, <2>1 DEF OneChain, WireOrder, Linked
<1>17. ToldLast'
  <2> SUFFICES ASSUME NEW c \in Calls
               PROVE  /\ Len(calls'[c].told) <= 1
                      /\ (InOutq(c) \/ InWaitq(c) \/ IsCur(c) \/ Told(c))' => c \in begun'
                      /\ Told(c)' => /\ ~InOutq(c)' /\ ~InWaitq(c)' /\ ~TellerIsCur(c)'
                                     /\ expiries' = 0 => ~IsCur(c)'
    BY DEF ToldLast
  <2>1. InOutq(c) \/ InWaitq(c) \/ IsCur(c) \/ Told(c) => c \in begun'
    BY <1>1, <1>2 DEF Whereabouts, ToldLast
  <2>2. TellerIsCur(c) => IsCur(c)
    BY DEF TellerIsCur
  <2> QED BY <1>1, <1>8, <1>9, <1>10, <1>14, <1>15, <2>1, <2>2
<1>18. TellerKept'
  <2> SUFFICES ASSUME NEW c \in begun PROVE Told(c)' \/ c \in dropped'
    BY <1>1 DEF TellerKept
  <2>1. c \in Calls
    BY <1>2 DEF Types
  <2>2. CASE link = "connecting"
    <3>1. AbandonedCall(c)
      BY <2>2 DEF CallInv, Session, AbandonedCall
    <3> QED BY <1>15, <2>1, <3>1
  <2>3. CASE link # "connecting"
    <3>1. Told(c) \/ c \in dropped \/ InOutq(c) \/ TellerWaits(c) \/ TellerIsCur(c)
      BY <1>1, <1>2, <2>3 DEF Whereabouts, TellerKept
    <3>2. TellerIsCur(c) => m = 1
      BY <1>8, <2>1 DEF TellerIsCur
    <3> QED BY <1>1, <1>8, <1>15, <2>1, <3>1, <3>2
  <2> QED BY <2>2, <2>3
<1>19. InOrder'
  BY <1>1, <1>6, <1>7 DEF CallInv, InOrder
<1> QED BY <1>12, <1>13, <1>16, <1>17, <1>18, <1>19 DEF CallInv

-----------------------------------------------------------------------------
\* The results.

\* Every step keeps the invariant.
LEMMA CallInvStep == CallInv /\ [Next]_vars => CallInv'
<1> SUFFICES ASSUME CallInv, [Next]_vars PROVE CallInv'
  OBVIOUS
<1> DEFINE Goal == CallInv'
<1>1. ASSUME NEW c \in Calls, Connect(c) \/ Connected(c) \/ Start(c) PROVE Goal
  BY <1>1, ConnectStep, ConnectedStep, StartStep
<1>2. CASE smb2_write_to_socket  BY <1>2, WriteStep
<1>3. CASE WritePart             BY <1>3, WritePartStep
<1>4. CASE ReadHeader            BY <1>4, ReadHeaderStep
<1>5. CASE ReadBody              BY <1>5, ReadBodyStep
<1>6. ASSUME TimeOut PROVE Goal
  <2>1. PICK n \in 1..(Len(waitq) + Len(outq)) : smb2_timeout_pdus(n)
    BY <1>6 DEF TimeOut
  <2> QED BY <2>1, TimeOutStep
<1>7. CASE smb2_destroy_context  BY <1>7, DestroyStep
<1>8. ASSUME NEW i \in DOMAIN inbox, Answer(i) \/ Pend(i) PROVE Goal
  BY <1>8, ServerStep
<1>9. CASE UNCHANGED vars
  <2>1. UNCHANGED <<link, begun, client, server, record>>
    BY <1>9 DEF vars
  <2>2. Types'
    BY <2>1 DEF CallInv, Types, client, server, record, Chain
  <2>3. Session' /\ InOrder'
    BY <2>1 DEF CallInv, Session, InOrder, client, record, Told
  <2>4. Whereabouts'
    BY <2>1, SameWhereabouts DEF CallInv, Whereabouts, client, record
  <2> QED BY <2>2, <2>3, <2>4 DEF CallInv, Whereabouts
<1> HIDE DEF Goal
<1>10. CASE Next
  BY <1>1, <1>2, <1>3, <1>4, <1>5, <1>6, <1>7, <1>8, <1>10 DEF Next, Serve, Interim, Goal
<1> QED BY <1>9, <1>10 DEF Goal

\* The invariant holds in every state of the specification.
THEOREM CallInvAlways == Spec => []CallInv
<1>1. Init => CallInv
  BY CallInvInit
<1>2. CallInv /\ [Next]_vars => CallInv'
  BY CallInvStep
<1> QED BY <1>1, <1>2, PTL DEF Spec

\* The user's callback runs at most once for a call, whatever replies, timeouts
\* and the end of the context come in what order (smb2_timeout_pdus,
\* smb2_destroy_context and smb2_read_data all call back).
THEOREM CalledOnceAlways == Spec => []CalledOnce
<1>1. CallInv => CalledOnce
  BY DEF CallInv, ToldLast, CalledOnce
<1> QED BY <1>1, CallInvAlways, PTL

\* A call that was made and whose user was not told has a request queued or
\* awaited, or its compound was given up unsent: no step of the queues of
\* libsmb2 (write, read, timeout, destroy) loses a request.
THEOREM NothingLostAlways == Spec => []NothingLost
<1>1. ASSUME NEW c, InOutq(c) \/ TellerWaits(c) \/ TellerIsCur(c) PROVE Waiting(c)
  BY <1>1 DEF InOutq, TellerWaits, TellerIsCur, IsCur, Waiting
<1>2. CallInv => NothingLost
  BY <1>1 DEF CallInv, TellerKept, NothingLost
<1> QED BY <1>2, CallInvAlways, PTL

\* While no request is given up for its age, no callback of a chain runs after
\* the last one has freed the private data they share, whatever order the server
\* answers in: the check of the previous request's id in smb2_read_data holds
\* the later replies back.
THEOREM InOrderAlways == Spec => []InOrder
<1>1. CallInv => InOrder
  BY DEF CallInv
<1> QED BY <1>1, CallInvAlways, PTL
=============================================================================
