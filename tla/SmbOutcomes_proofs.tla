------------------------- MODULE SmbOutcomes_proofs -------------------------
(***************************************************************************)
(* What the user of a context of libsmb2 is told, and what stays open on   *)
(* the server, for every set of calls and every mix of their kinds.  A     *)
(* call collects the statuses of its commands in its private data while    *)
(* the server refuses or grants them elsewhere: OutcomeInv follows every   *)
(* verdict from the server to the user.  It is inductive relative to       *)
(* CallInv and CreditInv.  HonestStatus and NoLeak follow.                 *)
(***************************************************************************)
EXTENDS SmbCredits_proofs

-----------------------------------------------------------------------------
\* The commands of a call of each kind, and the callbacks behind them.
Belongs(kind, cmd, cb) ==
  LET is(k, m, b) == kind = k /\ cmd = m /\ cb = b IN
  \/ is("open", "CREATE", "open_cb") \/ is("close", "CLOSE", "close_cb")
  \/ is("fsync", "FLUSH", "fsync_cb") \/ is("read", "READ", "read_cb")
  \/ is("write", "WRITE", "write_cb") \/ is("fstat", "QUERY_INFO", "fstat_cb_1")
  \/ is("ftruncate", "SET_INFO", "ftrunc_cb_1") \/ is("echo", "ECHO", "echo_cb")
  \/ is("unlink", "CREATE", "create_cb_1") \/ is("unlink", "CLOSE", "create_cb_2")
  \/ is("mkdir", "CREATE", "create_cb_1") \/ is("mkdir", "CLOSE", "create_cb_2")
  \/ is("stat", "CREATE", "getinfo_cb_1") \/ is("stat", "QUERY_INFO", "getinfo_cb_2")
  \/ is("stat", "CLOSE", "getinfo_cb_3")
  \/ is("truncate", "CREATE", "trunc_cb_1") \/ is("truncate", "SET_INFO", "trunc_cb_2")
  \/ is("truncate", "CLOSE", "trunc_cb_3")
  \/ is("rename", "CREATE", "rename_cb_1") \/ is("rename", "SET_INFO", "rename_cb_2")
  \/ is("rename", "CLOSE", "rename_cb_3")
  \/ is("readlink", "CREATE", "readlink_cb_1") \/ is("readlink", "IOCTL", "readlink_cb_2")
  \/ is("readlink", "CLOSE", "readlink_cb_3")
  \/ is("opendir", "CREATE", "opendir_cb") \/ is("opendir", "QUERY_DIRECTORY", "query_cb")
  \/ is("opendir", "CLOSE", "od_close_cb")
  \/ is("shares", "CREATE", "pipe_open_cb") \/ is("shares", "IOCTL", "pipe_bind_cb")
  \/ is("shares", "IOCTL", "dcerpc_call_cb")
  \/ is("connect", "NEGOTIATE", "negotiate_cb")
  \/ is("connect", "SESSION_SETUP", "session_setup_cb")
  \/ is("connect", "TREE_CONNECT", "tree_connect_cb")
  \/ is("disconnect", "TREE_DISCONNECT", "disconnect_cb_1")
  \/ is("disconnect", "LOGOFF", "disconnect_cb_2")

Compounds == {"unlink", "mkdir", "stat", "truncate", "rename", "readlink"}
Mergers == Compounds \ {"unlink", "mkdir"}     \* calls that merge statuses
Merging == Silent \ {"create_cb_1"}            \* the callbacks that do
Holders == {"close", "fsync", "read", "write", "fstat", "ftruncate"}
Openers == {"open", "opendir", "shares"}

\* A compound opens, acts and closes; every other chain is one request.
Rank(cmd) == IF cmd = "CREATE" THEN 1 ELSE IF cmd = "CLOSE" THEN 3 ELSE 2
Form(kind, ch) ==
  /\ \A k \in DOMAIN ch : Belongs(kind, ch[k].cmd, ch[k].cb)
  /\ \A k, l \in DOMAIN ch : k < l => Rank(ch[k].cmd) < Rank(ch[l].cmd)
  /\ kind \notin Compounds => Len(ch) = 1
  /\ kind \in Compounds => ch[1].cmd = "CREATE" /\ ch[Len(ch)].cmd = "CLOSE"

-----------------------------------------------------------------------------
\* The requests on the wire and those not answered there, the chains that wait
\* to be sent, those the server has not answered, and the verdicts on their way.
OnWire == {waitq[m] : m \in DOMAIN waitq}
Outstanding == OnWire \cup (IF cur = None THEN {} ELSE {cur.pdu})
InLine == {outq[i] : i \in DOMAIN outq}
Unserved == {inbox[i].chain : i \in DOMAIN inbox}
Answers == {r \in UNION {{frames[i][k] : k \in DOMAIN frames[i]} : i \in DOMAIN frames} : Final(r)}

Kind(c) == calls[c].kind
Busy(c) == \E ch \in Unserved : ch[1].call = c

\* Every request is one of its call's, every chain has its form.
Formed ==
  /\ \A ch \in InLine \cup Unserved :
       Form(Kind(ch[1].call), ch) /\ \A k \in DOMAIN ch : ch[k].call = ch[1].call
  /\ \A p \in Outstanding : Belongs(Kind(p.call), p.cmd, p.cb)

\* What is left of a compound is in order.
RankedWire(w) == \A i, j \in DOMAIN w :
  i < j /\ w[i].call = w[j].call => Rank(w[i].cmd) < Rank(w[j].cmd)
Ranked ==
  /\ RankedWire(waitq)
  /\ cur # None => \A p \in OnWire : p.call = cur.pdu.call => Rank(cur.pdu.cmd) < Rank(p.cmd)

\* What the server was asked and has answered is older than what waits.
Precedes(mid) == mid < nextMid /\ \A ch \in InLine : \A k \in DOMAIN ch : mid < ch[k].mid
Older ==
  /\ \A r \in Answers : Precedes(r.mid)
  /\ \A ch \in Unserved : \A k \in DOMAIN ch : Precedes(ch[k].mid)

\* A chain the server has not answered is its call's only one, nothing of it
\* has failed, and what is awaited of the call is in it.  Who was told already
\* was told of giving up, or by a callback that does not look at its status.
Sole(ch, c) ==
  /\ c \in begun /\ failed[c] = {} /\ ~InOutq(c) /\ ~IsCur(c)
  /\ \A p \in OnWire : p.call = c => \E k \in DOMAIN ch : ch[k] = p
  /\ \A p \in OnWire : \A k \in DOMAIN ch : ch[k].mid = p.mid => ch[k] = p
  /\ Told(c) => /\ expiries > 0
                /\ calls[c].told[1] = "ok" => Kind(c) = "readlink" \/ ch[1].cmd = "LOGOFF"
OncePerCall(ib) == \A i, j \in DOMAIN ib : ib[i].chain[1].call = ib[j].chain[1].call => i = j
Asking == OncePerCall(inbox) /\ \A ch \in Unserved : Sole(ch, ch[1].call)

\* A verdict that reaches its request is what the server decided.
Verdicts(cmd) == {"ok", "fail"} \cup (IF cmd = "SESSION_SETUP" THEN {"more"} ELSE {})
                   \cup (IF cmd = "QUERY_DIRECTORY" THEN {"none"} ELSE {})
                   \cup (IF cmd = "READ" THEN {"eof"} ELSE {})
Says(p, s) ==
  /\ s \in Verdicts(p.cmd)
  /\ s = "fail" <=> p.cmd \in failed[p.call]
  /\ ~Busy(p.call)
  /\ p.cmd = "CREATE" /\ s # "ok" => p.call \notin handles
  /\ p.cmd = "CLOSE" /\ s = "ok" => p.call \notin handles
Truthful ==
  /\ \A r \in Answers : \A p \in OnWire : r.mid = p.mid => Says(p, r.status)
  /\ cur # None => Says(cur.pdu, cur.status)

\* What can have failed: of a single request itself, of a compound its close
\* when its open did, of a call not on its way nothing.
Unmade(c) == c \notin begun \/ link \in {"new", "connecting"} \/ InOutq(c)
Failures ==
  /\ \A p \in Outstanding : Kind(p.call) \notin Compounds => failed[p.call] \subseteq {p.cmd}
  /\ \A c \in Calls :
       /\ Kind(c) \in Compounds /\ "CREATE" \in failed[c] => "CLOSE" \in failed[c]
       /\ Kind(c) \in {"unlink", "mkdir"} => failed[c] \subseteq {"CREATE", "CLOSE"}
       /\ Unmade(c) => failed[c] = {} /\ (Kind(c) \in Mergers => calls[c].status = "ok")
       /\ calls[c].status = "fail" => failed[c] # {}

\* A merged status that is still "ok" has seen every verdict but those left.
Left(c, cmd) == \E p \in Outstanding : p.call = c /\ p.cmd = cmd
Merges(c) == /\ ~Told(c) /\ Kind(c) \in Mergers /\ calls[c].status = "ok"
             /\ Kind(c) = "readlink" => expiries = 0
Merged ==
  /\ \A c \in Calls : Merges(c) =>
       /\ \A cmd \in failed[c] : Left(c, cmd)
       /\ \A ch \in Unserved : ch[1].call = c => \A k \in DOMAIN ch : Left(c, ch[k].cmd)
  /\ expiries = 0 => \A c \in Calls :
       Kind(c) = "readlink" /\ Left(c, "CREATE") => calls[c].status = "ok"

\* Whose handle can be open: not one whose CREATE is still to be answered.
ToOpen(c) == c \notin begun \/ \E ch \in InLine \cup Unserved :
                                 ch[1].call = c /\ ch[1].cmd = "CREATE"
OpenHandles ==
  \A c \in handles :
    /\ Kind(c) \in Holders \cup Openers \/ (Kind(c) \in Compounds /\ "CLOSE" \in failed[c])
    /\ Kind(c) \notin Holders => ~ToOpen(c)

OutcomeInv ==
  /\ Formed /\ Ranked /\ Older /\ Asking /\ Truthful /\ Failures /\ Merged /\ OpenHandles
  /\ HonestStatus /\ NoLeak

-----------------------------------------------------------------------------
\* The callbacks.

\* What the command and the callback of a request say about its call.
LEMMA BelongsFacts ==
  ASSUME NEW kind, NEW cmd, NEW cb, Belongs(kind, cmd, cb)
  PROVE  /\ cb \in Silent => kind \in Compounds /\ (kind \in Mergers => cb \in Merging)
         /\ cb \in Tellers /\ kind \in Compounds => cmd = "CLOSE"
         /\ cmd = "CREATE" => kind \in Openers \cup Compounds /\ kind \notin Holders
         /\ kind \in {"unlink", "mkdir"} => cmd \in {"CREATE", "CLOSE"}
         /\ cmd = "LOGOFF" => kind = "disconnect"
         /\ cb = "disconnect_cb_2" => cmd = "LOGOFF"
         /\ cb = "readlink_cb_3" => kind = "readlink"
         /\ kind = "readlink" /\ cb \notin Merging => cmd = "CLOSE"
         /\ kind = "close" => cmd = "CLOSE"
         /\ cb \in Silent \cup Tellers
BY DEF Belongs, Silent, Tellers, Compounds, Mergers, Merging, Openers, Holders

\* What each call queues first has the form of its kind.
LEMMA FirstForm ==
  ASSUME NEW kind \in DOMAIN FirstChain
  PROVE  Form(kind, FirstChain[kind])
<1> DEFINE ch == FirstChain[kind]
<1>1. CASE kind \in {"open", "close", "fsync", "read", "write", "fstat", "ftruncate", "echo",
                     "opendir", "shares", "disconnect"}
  <2>1. kind \notin Compounds
    BY <1>1 DEF Compounds
  <2>2. \E cmd : ch = <<cmd>> /\ Belongs(kind, cmd.cmd, cmd.cb)
    BY <1>1 DEF FirstChain, open_async, close_async, fsync_async, pread_async,
      pwrite_async, fstat_async, ftruncate_async, echo_async, opendir_async, share_enum_async,
      disconnect_share_async, Cmd, Sized, Belongs
  <2> HIDE DEF ch
  <2>3. Form(kind, ch)
    BY <2>1, <2>2 DEF Form
  <2> QED BY <2>3 DEF ch
<1>2. CASE kind \in {"unlink", "mkdir"}
  <2>1. \E a, b : /\ ch = <<a, b>> /\ Belongs(kind, a.cmd, a.cb) /\ Belongs(kind, b.cmd, b.cb)
                  /\ a.cmd = "CREATE" /\ b.cmd = "CLOSE"
    BY <1>2 DEF FirstChain, unlink_async, mkdir_async, Cmd, Belongs
  <2>2. kind \in Compounds
    BY <1>2 DEF Compounds
  <2> HIDE DEF ch
  <2>3. Form(kind, ch)
    BY <2>1, <2>2 DEF Form, Rank
  <2> QED BY <2>3 DEF ch
<1>3. CASE kind \in {"stat", "truncate", "rename", "readlink"}
  <2>1. \E a, b, c : /\ ch = <<a, b, c>> /\ Belongs(kind, a.cmd, a.cb)
                     /\ Belongs(kind, b.cmd, b.cb) /\ Belongs(kind, c.cmd, c.cb)
                     /\ a.cmd = "CREATE" /\ b.cmd \notin {"CREATE", "CLOSE"} /\ c.cmd = "CLOSE"
    BY <1>3 DEF FirstChain, getinfo_async, truncate_async, rename_async, readlink_async, Cmd,
      Belongs
  <2>2. kind \in Compounds
    BY <1>3 DEF Compounds
  <2> HIDE DEF ch
  <2>3. Form(kind, ch)
    BY <2>1, <2>2 DEF Form, Rank
  <2> QED BY <2>3 DEF ch
<1> QED BY <1>1, <1>2, <1>3 DEF FirstChain

\* What a callback inside a chain makes of its call: it merges its status.
LEMMA SilentOutcome ==
  ASSUME NEW call \in Call, NEW s \in Statuses, NEW cb \in Silent
  PROVE  LET e == Callback(cb, call, s) IN
         /\ e.call.told = call.told
         /\ e.call.status = "fail" => call.status = "fail" \/ s = "fail"
         /\ e.call.status = "ok" /\ cb \in Merging =>
              s = "ok" /\ (cb # "readlink_cb_1" => call.status = "ok")
         /\ e.call.status = "ok" /\ cb \notin Merging => call.status = "ok"
<1>1. CASE cb = "create_cb_1"
  BY <1>1 DEF Callback, create_cb_1, Done, Merging, Silent
<1>2. CASE cb = "readlink_cb_1"
  BY <1>2 DEF Callback, readlink_cb_1, Done, Merging, Silent, Call
<1>3. CASE cb \in Silent \ {"create_cb_1", "readlink_cb_1"}
  <2>1. Callback(cb, call, s) = Merge(call, s)
    BY <1>3 DEF Silent, Callback, getinfo_cb_1, getinfo_cb_2, trunc_cb_1, trunc_cb_2,
      rename_cb_1, rename_cb_2, readlink_cb_2
  <2>2. cb \in Merging
    BY <1>3 DEF Merging
  <2>3. /\ Merge(call, s).call.told = call.told
        /\ Merge(call, s).call.status = IF call.status = "ok" THEN s ELSE call.status
    BY DEF Merge, Done, Call
  <2> QED BY <1>3, <2>1, <2>2, <2>3
<1> QED BY <1>1, <1>2, <1>3

\* What a verdict has the last callback of a chain tell the user.
Tells(call, cmd, s, t) ==
  /\ t = "ok" => /\ call.kind \in Mergers => call.status = "ok"
                 /\ s \in {"ok", "eof"} \/ call.kind = "readlink" \/ cmd = "LOGOFF"
  /\ t = "fail" => s = "fail" \/ call.status = "fail"
  /\ call.kind = "open" => t = s
  /\ call.kind = "opendir" /\ cmd # "CLOSE" => s = "fail"

\* It tells, or queues a command of the call's that does not open.
LEMMA TellerOutcome ==
  ASSUME NEW call \in Call, NEW cmd, NEW s \in Verdicts(cmd), NEW cb \in Tellers,
         Belongs(call.kind, cmd, cb)
  PROVE  LET e == Callback(cb, call, s) IN
         \/ /\ call.kind \notin Compounds /\ s # "fail"
            /\ \E f \in FollowUps : /\ e.call = call /\ e.chain = <<f>>
                                    /\ Belongs(call.kind, f.cmd, f.cb) /\ f.cmd # "CREATE"
         \/ /\ e.chain = <<>>
            /\ e.call.status = "fail" => s = "fail" \/ call.status = "fail"
            /\ \E t \in Statuses : e.call.told = Append(call.told, t) /\ Tells(call, cmd, s, t)
<1> DEFINE e == Callback(cb, call, s)
           Goes == /\ call.kind \notin Compounds /\ s # "fail"
                   /\ \E f \in FollowUps : /\ e.call = call /\ e.chain = <<f>>
                                           /\ Belongs(call.kind, f.cmd, f.cb) /\ f.cmd # "CREATE"
           Ends == /\ e.chain = <<>>
                   /\ e.call.status = "fail" => s = "fail" \/ call.status = "fail"
                   /\ \E t \in Statuses : e.call.told = Append(call.told, t)
                                          /\ Tells(call, cmd, s, t)
<1>1. s \in Statuses /\ call.status \in Statuses
  BY DEF Verdicts, Statuses, Call
<1>2. ASSUME NEW t \in Statuses, Tells(call, cmd, s, t), e = Tell(call, t) \/ e = close_context(Tell(call, t))
      PROVE  Ends
  <2>1. /\ e.chain = Tell(call, t).chain /\ e.call = Tell(call, t).call
    BY <1>2 DEF Tell, Done, close_context
  <2>2. Tell(call, t).call.status = call.status
    BY DEF Tell, Done, Call
  <2> HIDE DEF e
  <2>4. Tell(call, t).chain = <<>> /\ Tell(call, t).call.told = Append(call.told, t)
    BY <1>2, TellEffect, Zenon
  <2>3. e.chain = <<>> /\ e.call.told = Append(call.told, t) /\ e.call.status = call.status
    BY <2>1, <2>2, <2>4, Zenon
  <2> QED BY <1>2, <2>3
<1>3. ASSUME NEW f \in FollowUps, e = Queue(call, <<f>>), Belongs(call.kind, f.cmd, f.cb),
             f.cmd # "CREATE", call.kind \notin Compounds, s # "fail"
      PROVE  Goes
  BY <1>3 DEF Queue
<1>4. CASE cb \in {"close_cb", "fsync_cb", "fstat_cb_1", "ftrunc_cb_1", "echo_cb",
                   "create_cb_2", "od_close_cb", "dcerpc_call_cb", "open_cb"}
  <2>1. e = Tell(call, s)
    BY <1>4 DEF Callback, close_cb, fsync_cb, fstat_cb_1, ftrunc_cb_1, echo_cb,
      create_cb_2, od_close_cb, dcerpc_call_cb, open_cb
  <2>2. Tells(call, cmd, s, s)
    BY <1>4 DEF Tells, Belongs, Mergers, Compounds
  <2> HIDE DEF e, Ends, Goes
  <2>3. Ends
    BY <1>1, <1>2, <2>1, <2>2
  <2> QED BY <2>3 DEF Ends, e
<1>5. CASE cb \in {"read_cb", "write_cb"}
  <2> DEFINE t == IF s = "eof" THEN "ok" ELSE s
  <2>1. e = Tell(call, t)
    BY <1>5 DEF Callback, read_cb, write_cb
  <2>2. Tells(call, cmd, s, t)
    BY <1>5 DEF Tells, Belongs, Mergers, Compounds
  <2>3. t \in Statuses
    BY <1>1 DEF Statuses
  <2> HIDE DEF e, Ends, Goes, t
  <2>4. Ends
    BY <1>2, <2>1, <2>2, <2>3
  <2> QED BY <2>4 DEF Ends, e
<1>6. CASE cb = "readlink_cb_3"
  <2>1. e = Tell(call, call.status)
    BY <1>6 DEF Callback, readlink_cb_3
  <2>2. Tells(call, cmd, s, call.status)
    BY <1>6 DEF Tells, Belongs, Mergers, Compounds
  <2> HIDE DEF e, Ends, Goes
  <2>4. Ends
    BY <1>1, <1>2, <2>1, <2>2
  <2> QED BY <2>4 DEF Ends, e
<1>7. CASE cb \in {"getinfo_cb_3", "trunc_cb_3", "rename_cb_3"}
  <2> DEFINE m == Merge(call, s).call
  <2>1. e = Tell(m, m.status)
    BY <1>7 DEF Callback, getinfo_cb_3, trunc_cb_3, rename_cb_3, MergeAndTell
  <2>2. m \in Call /\ m.told = call.told
    BY <1>1, MergeEffect
  <2>3. m.status = IF call.status = "ok" THEN s ELSE call.status
    BY DEF Merge, Done, Call
  <2>4. Tell(m, m.status).call.status = m.status /\ m.status \in Statuses
    BY <2>2 DEF Tell, Done, Call
  <2> DEFINE t == m.status
  <2>5. Tells(call, cmd, s, t)
    BY <1>7, <2>3 DEF Tells, Belongs, Mergers, Compounds
  <2> HIDE DEF m, e
  <2>6. e.chain = <<>> /\ e.call.told = Append(m.told, t) /\ e.call.status = t /\ t \in Statuses
    BY <2>1, <2>2, <2>4, TellEffect
  <2> HIDE DEF t
  <2>7. t = "fail" => s = "fail" \/ call.status = "fail"
    BY <2>3 DEF t
  <2>8. Ends
    BY <2>2, <2>5, <2>6, <2>7
  <2> QED BY <2>8 DEF e
<1>8. CASE cb \in {"opendir_cb", "query_cb", "pipe_open_cb", "pipe_bind_cb", "negotiate_cb",
                   "session_setup_cb", "tree_connect_cb", "disconnect_cb_1"}
  <2>1. \/ /\ e = Tell(call, s) \/ e = close_context(Tell(call, s))
           /\ call.kind = "opendir" => s = "fail"
        \/ /\ \E f \in FollowUps : /\ e = Queue(call, <<f>>) /\ Belongs(call.kind, f.cmd, f.cb)
                                   /\ f.cmd # "CREATE"
           /\ s # "fail"
    <3>1. CASE cb = "opendir_cb"
      BY <3>1 DEF Callback, opendir_cb, NextBatch, FollowUps, Belongs, Cmd, Verdicts
    <3>2. CASE cb = "query_cb"
      BY <3>2 DEF Callback, query_cb, NextBatch, FollowUps, Belongs, Cmd, Verdicts
    <3>3. CASE cb = "pipe_open_cb"
      BY <3>3 DEF Callback, pipe_open_cb, dcerpc_bind_async, FollowUps, Belongs, Cmd
    <3>4. CASE cb = "pipe_bind_cb"
      BY <3>4 DEF Callback, pipe_bind_cb, dcerpc_call_async, FollowUps, Belongs, Cmd
    <3>5. CASE cb = "negotiate_cb"
      BY <3>5 DEF Callback, negotiate_cb, SessionSetup, FollowUps, Belongs, Cmd
    <3>6. CASE cb = "session_setup_cb"
      BY <3>6 DEF Callback, session_setup_cb, SessionSetup, FollowUps, Belongs, Cmd
    <3>7. CASE cb = "tree_connect_cb"
      BY <3>7 DEF Callback, tree_connect_cb, FollowUps, Belongs, Cmd
    <3>8. CASE cb = "disconnect_cb_1"
      BY <3>8 DEF Callback, disconnect_cb_1, FollowUps, Belongs, Cmd
    <3> QED BY <1>8, <3>1, <3>2, <3>3, <3>4, <3>5, <3>6, <3>7, <3>8
  <2>2. call.kind \in {"opendir", "shares", "connect", "disconnect"}
    BY <1>8 DEF Belongs
  <2>3. call.kind \notin Compounds /\ call.kind # "open"
    BY <2>2 DEF Compounds
  <2>4. (call.kind = "opendir" => s = "fail") => Tells(call, cmd, s, s)
    BY <2>2 DEF Tells, Mergers, Compounds
  <2> HIDE DEF e, Ends, Goes
  <2>5. Ends \/ Goes
    BY <1>1, <1>2, <1>3, <2>1, <2>3, <2>4
  <2> QED BY <2>5 DEF Ends, Goes, e
<1>9. CASE cb = "disconnect_cb_2"
  <2> DEFINE t == "ok"
  <2>1. e = close_context(Tell(call, t))
    BY <1>9 DEF Callback, disconnect_cb_2, close_context
  <2>2. Tells(call, cmd, s, t)
    BY <1>9 DEF Tells, Belongs, Mergers, Compounds
  <2>3. t \in Statuses
    BY DEF Statuses
  <2> HIDE DEF e, Ends, Goes, t
  <2>4. Ends
    BY <1>2, <2>1, <2>2, <2>3
  <2> QED BY <2>4 DEF Ends, e
<1> QED BY <1>4, <1>5, <1>6, <1>7, <1>8, <1>9 DEF Tellers

\* What the callback of a reply leaves behind, in terms of what it did.
LEMMA CompleteOutcome ==
  ASSUME Types, NEW p \in Request, NEW s
  PROVE  LET st == Complete(Before, p, s)
             e == Callback(p.cb, calls[p.call], s)
         IN /\ st.calls = [calls EXCEPT ![p.call] = e.call]
            /\ e.chain = <<>> => st.outq = outq /\ st.nextMid = nextMid
            /\ e.chain # <<>> =>
                 LET pdus == Numbered(p.call, e.chain, nextMid, credits)
                 IN st.outq = Append(outq, pdus) /\ st.nextMid = nextMid + Widths(pdus)
<1> DEFINE st == Complete(Before, p, s)
           e == Callback(p.cb, calls[p.call], s)
           told == calls[p.call].told
           after == [Before EXCEPT !.calls[p.call] = e.call, !.shut = @ \/ e.closed,
                                   !.late = IF told = <<>> THEN @ ELSE @ \cup {p.call}]
<1>1. st = smb2_queue_pdu(after, p.call, e.chain)
  BY DEF Complete, Before
<1> HIDE DEF e, st, after
<1>2. /\ after.calls = [calls EXCEPT ![p.call] = e.call] /\ after.outq = outq
      /\ after.nextMid = nextMid
  BY DEF after, Before
<1>3. CASE e.chain = <<>>
  <2>1. st = after
    BY <1>1, <1>3, QueueEffect
  <2> QED BY <1>2, <1>3, <2>1 DEF e, st
<1>4. CASE e.chain # <<>>
  <2> DEFINE chain == e.chain
             pdus == Numbered(p.call, chain, after.nextMid, credits)
  <2>1. chain # <<>> /\ st = smb2_queue_pdu(after, p.call, chain)
    BY <1>1, <1>4
  <2> HIDE DEF chain
  <2>2. st = [after EXCEPT !.outq = Append(@, pdus), !.nextMid = @ + Widths(pdus),
                           !.skipped = @ + IF pdus[1].cmd = "NEGOTIATE" THEN 0 ELSE Unpaid(pdus)]
    BY <2>1, QueueEffect
  <2>3. st.calls = after.calls /\ st.outq = Append(outq, pdus) /\ st.nextMid = nextMid + Widths(pdus)
    BY <1>2, <2>2 DEF after, Before
  <2>4. pdus = Numbered(p.call, e.chain, nextMid, credits)
    BY <1>2 DEF chain
  <2> HIDE DEF pdus
  <2> QED BY <1>2, <1>4, <2>3, <2>4 DEF st, e
<1> QED BY <1>3, <1>4

\* What giving up a request makes of its call.
AgeTells(call, cb, t) ==
  /\ t = "ok" => cb = "disconnect_cb_2" \/ (cb = "readlink_cb_3" /\ call.status = "ok")
  /\ t = "fail" => call.status = "fail"
Aged(call, cb, after) ==
  /\ after.kind = call.kind
  /\ after.status = "fail" => call.status = "fail"
  /\ after.status = "ok" => call.status = "ok" /\ cb \notin Merging
  /\ cb \in Silent => after.told = call.told
  /\ cb \in Tellers => \E t \in Statuses : /\ after.told = Append(call.told, t)
                                           /\ AgeTells(call, cb, t)
                                           /\ t = "ok" /\ cb = "readlink_cb_3" => after.status = "ok"

\* A callback that looks at its status never tells of success when given up.
LEMMA AgeOutcome ==
  ASSUME NEW call \in Call, NEW s \in Ages, NEW cb \in Silent \cup Tellers
  PROVE  LET e == Callback(cb, call, s) IN e.chain = <<>> /\ Aged(call, cb, e.call)
<1> DEFINE e == Callback(cb, call, s)
<1>1. s \in Statuses /\ s # "ok" /\ s # "fail" /\ s # "more" /\ s # "none" /\ s # "eof"
      /\ call.status \in Statuses
  BY DEF Ages, Statuses, Call
<1>2. CASE cb \in Silent
  <2>1. cb \notin Tellers
    BY <1>2 DEF Silent, Tellers
  <2>2. /\ e.call.kind = call.kind /\ e.chain = <<>>
    BY <1>1, <1>2, CallbackEffect
  <2>3. /\ e.call.told = call.told
        /\ e.call.status = "fail" => call.status = "fail" \/ s = "fail"
        /\ e.call.status = "ok" /\ cb \in Merging => s = "ok"
        /\ e.call.status = "ok" /\ cb \notin Merging => call.status = "ok"
    BY <1>1, <1>2, SilentOutcome
  <2> HIDE DEF e
  <2>4. Aged(call, cb, e.call)
    BY <1>1, <1>2, <2>1, <2>2, <2>3 DEF Aged
  <2> QED BY <2>2, <2>4 DEF e
<1>3. CASE cb \in Tellers
  <2>0. cb \notin Silent /\ cb \notin Merging
    BY <1>3 DEF Silent, Tellers, Merging
  <2>1. ASSUME NEW m \in Call, NEW t \in Statuses, m.kind = call.kind, m.told = call.told,
               m.status = "fail" => call.status = "fail", m.status = "ok" => call.status = "ok",
               e = Tell(m, t) \/ e = close_context(Tell(m, t)), AgeTells(call, cb, t),
               t = "ok" /\ cb = "readlink_cb_3" => m.status = "ok"
        PROVE  e.chain = <<>> /\ Aged(call, cb, e.call)
    <3>1. e.chain = Tell(m, t).chain /\ e.call = Tell(m, t).call
      BY <2>1 DEF Tell, Done, close_context
    <3>2. Tell(m, t).call.status = m.status
      BY DEF Tell, Done, Call
    <3>4. /\ Tell(m, t).chain = <<>> /\ Tell(m, t).call.told = Append(m.told, t)
          /\ Tell(m, t).call.kind = m.kind
      BY <2>1, TellEffect, Zenon
    <3> HIDE DEF e
    <3>3. e.chain = <<>> /\ e.call.told = Append(m.told, t) /\ e.call.status = m.status
          /\ e.call.kind = m.kind
      BY <3>1, <3>2, <3>4, Zenon
    <3> QED BY <2>0, <2>1, <3>3 DEF Aged
  <2>2. CASE cb \in {"close_cb", "fsync_cb", "fstat_cb_1", "ftrunc_cb_1", "echo_cb", "read_cb",
                     "write_cb", "create_cb_2", "od_close_cb", "dcerpc_call_cb", "open_cb",
                     "opendir_cb", "query_cb", "pipe_open_cb", "pipe_bind_cb", "negotiate_cb",
                     "session_setup_cb", "tree_connect_cb", "disconnect_cb_1"}
    <3>1. e = Tell(call, s) \/ e = close_context(Tell(call, s))
      BY <1>1, <2>2 DEF Callback, close_cb, fsync_cb, fstat_cb_1, ftrunc_cb_1, echo_cb,
        create_cb_2, od_close_cb, dcerpc_call_cb, open_cb, read_cb, write_cb, opendir_cb,
        query_cb, pipe_open_cb, pipe_bind_cb, negotiate_cb, session_setup_cb, tree_connect_cb,
        disconnect_cb_1
    <3>2. AgeTells(call, cb, s)
      BY <1>1 DEF AgeTells
    <3> HIDE DEF e
    <3> QED BY <1>1, <2>1, <3>1, <3>2 DEF e
  <2>3. CASE cb = "readlink_cb_3"
    <3>1. e = Tell(call, call.status)
      BY <2>3 DEF Callback, readlink_cb_3
    <3>2. AgeTells(call, cb, call.status)
      BY <2>3 DEF AgeTells
    <3> HIDE DEF e
    <3> QED BY <1>1, <2>1, <3>1, <3>2 DEF e
  <2>4. CASE cb \in {"getinfo_cb_3", "trunc_cb_3", "rename_cb_3"}
    <3> DEFINE m == Merge(call, s).call
    <3>1. e = Tell(m, m.status)
      BY <2>4 DEF Callback, getinfo_cb_3, trunc_cb_3, rename_cb_3, MergeAndTell
    <3>2. m \in Call /\ m.told = call.told /\ m.kind = call.kind
      BY <1>1, MergeEffect
    <3>3. m.status = (IF call.status = "ok" THEN s ELSE call.status) /\ m.status \in Statuses
      BY <3>2 DEF Merge, Done, Call
    <3>4. AgeTells(call, cb, m.status)
      BY <1>1, <3>3 DEF AgeTells
    <3>5. (m.status = "fail" => call.status = "fail") /\ m.status # "ok"
      BY <1>1, <3>3
    <3> HIDE DEF e, m
    <3> QED BY <2>1, <3>1, <3>2, <3>3, <3>4, <3>5 DEF e
  <2>5. CASE cb = "disconnect_cb_2"
    <3> DEFINE t == "ok"
    <3>1. e = close_context(Tell(call, t))
      BY <2>5 DEF Callback, disconnect_cb_2, close_context
    <3>2. AgeTells(call, cb, t) /\ t \in Statuses /\ cb # "readlink_cb_3"
      BY <2>5 DEF AgeTells, Statuses
    <3> HIDE DEF e, t
    <3> QED BY <2>1, <3>1, <3>2 DEF e
  <2> QED BY <1>3, <2>2, <2>3, <2>4, <2>5 DEF Tellers
<1> QED BY <1>2, <1>3

\* The callback of one request given up is all that happens to the calls.
LEMMA CompleteAged ==
  ASSUME NEW st \in GivingUp, NEW p \in Request, NEW s \in Ages
  PROVE  LET n == Complete(st, p, s) IN
         /\ \A d \in Calls \ {p.call} : n.calls[d] = st.calls[d]
         /\ Aged(st.calls[p.call], p.cb, n.calls[p.call])
<1> DEFINE call == st.calls[p.call]
           e == Callback(p.cb, call, s)
           n == Complete(st, p, s)
<1>1. p.call \in Calls /\ call \in Call /\ p.cb \in Silent \cup Tellers
  BY DEF GivingUp, Request
<1>2. e.chain = <<>> /\ Aged(call, p.cb, e.call)
  <2> HIDE DEF call
  <2> QED BY <1>1, AgeOutcome
<1>3. n = [st EXCEPT !.calls[p.call] = e.call, !.shut = @ \/ e.closed,
                     !.late = IF st.calls[p.call].told = <<>> THEN @ ELSE @ \cup {p.call}]
  BY <1>2 DEF Complete, smb2_queue_pdu
<1> HIDE DEF e, n
<1>4. n.calls = [st.calls EXCEPT ![p.call] = e.call]
  BY <1>3 DEF GivingUp
<1>5. st.calls \in [Calls -> Call]
  BY DEF GivingUp
<1>6. /\ \A d \in Calls \ {p.call} : n.calls[d] = st.calls[d]
      /\ n.calls[p.call] = e.call
  BY <1>1, <1>4, <1>5
<1> QED BY <1>2, <1>6 DEF n

-----------------------------------------------------------------------------
\* Requests given up together.

\* What the first n of them make of a call.
Silently(pdus, n, c) == \A i \in 1..n : pdus[i].call = c => pdus[i].cb \notin Tellers
ToldOf(pdu, after, before) ==
  /\ after.told[1] = "ok" => \/ pdu.cb = "disconnect_cb_2"
                             \/ pdu.cb = "readlink_cb_3" /\ after.status = "ok"
  /\ after.told[1] = "fail" => before.status = "fail"
Fate(pdus, n, c, after) ==
  /\ after.kind = calls[c].kind
  /\ (\A i \in 1..n : pdus[i].call # c) => after = calls[c]
  /\ after.status = "fail" => calls[c].status = "fail"
  /\ after.status = "ok" => /\ calls[c].status = "ok"
                            /\ \A i \in 1..n : pdus[i].call = c => pdus[i].cb \notin Merging
  /\ \/ after.told = calls[c].told /\ Silently(pdus, n, c)
     \/ /\ calls[c].told = <<>> /\ after.told # <<>>
        /\ \E i \in 1..n : /\ pdus[i].call = c /\ pdus[i].cb \in Tellers
                           /\ ToldOf(pdus[i], after, calls[c])

\* One told first is told that alone.
LEMMA ToldFirst == \A t : Append(<<>>, t) # <<>> /\ Append(<<>>, t)[1] = t
OBVIOUS

\* One request more is given up: what becomes of its call.
LEMMA FateStep ==
  ASSUME NEW pdus, NEW n \in Nat, NEW c, NEW before, Fate(pdus, n, c, before), NEW after,
         pdus[n + 1].call = c, Aged(before, pdus[n + 1].cb, after), Silently(pdus, n, c),
         pdus[n + 1].cb \in Silent \cup Tellers,
         pdus[n + 1].cb \in Tellers => calls[c].told = <<>>
  PROVE  Fate(pdus, n + 1, c, after)
<1> DEFINE p == pdus[n + 1]
<1>1. \A i \in 1..(n + 1) : i \in 1..n \/ i = n + 1
  OBVIOUS
<1>2. n + 1 \in 1..(n + 1) /\ \A i \in 1..n : i \in 1..(n + 1)
  OBVIOUS
<1>3. before.told = calls[c].told
  BY DEF Fate, Silently
<1>4. after.kind = calls[c].kind
  BY DEF Fate, Aged
<1>5. after.status = "fail" => calls[c].status = "fail"
  BY DEF Fate, Aged
<1>6. after.status = "ok" => /\ calls[c].status = "ok"
                             /\ \A i \in 1..(n + 1) : pdus[i].call = c => pdus[i].cb \notin Merging
  BY <1>1 DEF Fate, Aged
<1>7. CASE p.cb \in Tellers
  <2>1. PICK t \in Statuses : /\ after.told = Append(before.told, t) /\ AgeTells(before, p.cb, t)
                              /\ t = "ok" /\ p.cb = "readlink_cb_3" => after.status = "ok"
    BY <1>7 DEF Aged
  <2>2. calls[c].told = <<>> /\ after.told # <<>> /\ after.told[1] = t
    BY <1>3, <1>7, <2>1, ToldFirst
  <2>3. before.status = "fail" => calls[c].status = "fail"
    BY DEF Fate
  <2>4. ToldOf(p, after, calls[c])
    BY <2>1, <2>2, <2>3 DEF AgeTells, ToldOf
  <2>5. p.call = c /\ p.cb \in Tellers
    BY <1>7
  <2>6. \E i \in 1..(n + 1) : /\ pdus[i].call = c /\ pdus[i].cb \in Tellers
                              /\ ToldOf(pdus[i], after, calls[c])
    BY <1>2, <2>4, <2>5
  <2>7. ~(\A i \in 1..(n + 1) : pdus[i].call # c)
    BY <1>2
  <2> QED BY <1>4, <1>5, <1>6, <2>2, <2>6, <2>7 DEF Fate
<1>8. CASE p.cb \in Silent
  <2>1. p.cb \notin Tellers
    BY <1>8 DEF Silent, Tellers
  <2>2. after.told = calls[c].told
    BY <1>3, <1>8 DEF Aged
  <2>3. Silently(pdus, n + 1, c)
    BY <1>1, <2>1 DEF Silently
  <2>4. ~(\A i \in 1..(n + 1) : pdus[i].call # c)
    BY <1>2
  <2> QED BY <1>4, <1>5, <1>6, <2>2, <2>3, <2>4 DEF Fate
<1> QED BY <1>7, <1>8

\* A call none of whose requests is the next keeps its fate.
LEMMA FateKept ==
  ASSUME NEW pdus, NEW n \in Nat, NEW c, NEW after, Fate(pdus, n, c, after), pdus[n + 1].call # c
  PROVE  Fate(pdus, n + 1, c, after)
<1>1. \A i \in 1..(n + 1) : i \in 1..n \/ i = n + 1
  OBVIOUS
<1>2. \A i \in 1..n : i \in 1..(n + 1)
  OBVIOUS
<1>3. Silently(pdus, n, c) => Silently(pdus, n + 1, c)
  BY <1>1 DEF Silently
<1>4. (\A i \in 1..(n + 1) : pdus[i].call # c) => after = calls[c]
  BY <1>2 DEF Fate
<1>5. after.status = "ok" => \A i \in 1..(n + 1) : pdus[i].call = c => pdus[i].cb \notin Merging
  BY <1>1 DEF Fate
<1>6. (\E i \in 1..n : pdus[i].call = c /\ pdus[i].cb \in Tellers /\ ToldOf(pdus[i], after, calls[c]))
        => \E i \in 1..(n + 1) : pdus[i].call = c /\ pdus[i].cb \in Tellers
                                 /\ ToldOf(pdus[i], after, calls[c])
  BY <1>2
<1> QED BY <1>3, <1>4, <1>5, <1>6 DEF Fate

\* What giving up a number of requests makes of every call.
LEMMA GivenOutcome ==
  ASSUME calls \in [Calls -> Call], late \subseteq Calls, NEW pdus \in Seq(Request), NEW s \in Ages,
         \A i, j \in DOMAIN pdus : i < j /\ pdus[i].call = pdus[j].call => pdus[i].cb \notin Tellers,
         \A i \in DOMAIN pdus : pdus[i].cb \in Tellers => calls[pdus[i].call].told = <<>>
  PROVE  LET st == CompleteAll(pdus, s) IN \A c \in Calls : Fate(pdus, Len(pdus), c, st.calls[c])
<1>1. PICK f : /\ f[0] = Before
               /\ \A n \in 1..Len(pdus) : f[n] = Complete(f[n - 1], pdus[n], s)
               /\ CompleteAll(pdus, s) = f[Len(pdus)]
  BY CompleteAllDef
<1> DEFINE L == Len(pdus)
           P(st, n) == st \in GivingUp /\ \A c \in Calls : Fate(pdus, n, c, st.calls[c])
           T == {n \in 0..L : P(f[n], n)}
<1>2. L \in Nat /\ L \in 0..L /\ DOMAIN pdus = 1..L /\ \A i \in 1..L : pdus[i] \in Request
  BY LenProperties
<1>3. P(Before, 0)
  <2>1. Before \in GivingUp /\ Before.calls = calls
    BY DEF Before, GivingUp
  <2>2. 1..0 = {}
    OBVIOUS
  <2> QED BY <2>1, <2>2 DEF Fate, Silently
<1>4. ASSUME NEW n \in 0..(L - 1), P(f[n], n) PROVE P(f[n + 1], n + 1)
  <2> DEFINE p == pdus[n + 1]
             st == f[n]
             m == Complete(st, p, s)
  <2>1. n + 1 \in 1..L /\ p \in Request /\ (n + 1) - 1 = n /\ n \in Nat /\ f[n + 1] = m
    BY <1>1, <1>2
  <2>2. p.call \in Calls /\ p.cb \in Silent \cup Tellers
    BY <2>1 DEF Request
  <2>3. Silently(pdus, n, p.call)
    <3>1. \A i \in 1..n : i \in DOMAIN pdus /\ i < n + 1
      BY <1>2, <2>1
    <3> QED BY <1>2, <2>1, <3>1 DEF Silently
  <2>4. p.cb \in Tellers => calls[p.call].told = <<>>
    BY <1>2, <2>1
  <2>5. st \in GivingUp /\ \A c \in Calls : Fate(pdus, n, c, st.calls[c])
    BY <1>4
  <2> HIDE DEF p, st
  <2>6. /\ m \in GivingUp
        /\ \A d \in Calls \ {p.call} : m.calls[d] = st.calls[d]
        /\ Aged(st.calls[p.call], p.cb, m.calls[p.call])
    BY <2>1, <2>5, CompleteGivenUp, CompleteAged
  <2> HIDE DEF m
  <2>7. ASSUME NEW c \in Calls, c # p.call PROVE Fate(pdus, n + 1, c, m.calls[c])
    <3>1. pdus[n + 1].call # c /\ m.calls[c] = st.calls[c]
      BY <2>6, <2>7 DEF p
    <3>2. Fate(pdus, n, c, st.calls[c])
      BY <2>5
    <3> QED BY <2>1, <3>1, <3>2, FateKept
  <2>8. Fate(pdus, n + 1, p.call, m.calls[p.call])
    <3> DEFINE c == p.call
               before == st.calls[c]
               after == m.calls[c]
    <3>1. Fate(pdus, n, c, before) /\ Aged(before, pdus[n + 1].cb, after)
      BY <2>2, <2>5, <2>6 DEF p
    <3>2. pdus[n + 1].call = c /\ pdus[n + 1].cb \in Silent \cup Tellers
          /\ (pdus[n + 1].cb \in Tellers => calls[c].told = <<>>)
      BY <2>2, <2>4 DEF p
    <3>3. Silently(pdus, n, c)
      BY <2>3
    <3> HIDE DEF c, before, after
    <3>4. Fate(pdus, n + 1, c, after)
      BY <2>1, <3>1, <3>2, <3>3, FateStep
    <3> QED BY <3>4 DEF c, after
  <2>9. \A c \in Calls : Fate(pdus, n + 1, c, m.calls[c])
    BY <2>7, <2>8
  <2> QED BY <2>1, <2>6, <2>9
<1> HIDE DEF P
<1>5. 0 \in T /\ \A n \in 0..(L - 1) : n \in T => n + 1 \in T
  <2>1. \A n \in 0..(L - 1) : n + 1 \in 0..L  BY <1>2
  <2> QED BY <1>1, <1>2, <1>3, <1>4, <2>1
<1>6. L \in T
  <2> HIDE DEF T, L
  <2>1. 0..L \subseteq T
    BY <1>2, <1>5, Induction
  <2> QED BY <1>2, <2>1
<1>7. P(CompleteAll(pdus, s), L)
  BY <1>1, <1>6
<1> QED BY <1>7 DEF P

-----------------------------------------------------------------------------
\* The parts of the state the invariant looks at.

\* Their elements have their types, and where a call's requests are shows.
LEMMA ViewsTyped ==
  ASSUME Types
  PROVE  /\ OnWire \subseteq Request /\ Outstanding \subseteq Request
         /\ \A ch \in InLine \cup Unserved :
              /\ ch \in Chains /\ 1 \in DOMAIN ch /\ Len(ch) \in DOMAIN ch /\ DOMAIN ch = 1..Len(ch)
              /\ Len(ch) \in Nat /\ ch[1].call \in Calls
              /\ \A k \in DOMAIN ch : ch[k] \in Request /\ ch[k].mid \in Nat
         /\ \A r \in Answers : r.mid \in Nat /\ r.status \in Statuses
         /\ \A d : InOutq(d) <=> \E ch \in InLine : ch[1].call = d
         /\ \A d : InWaitq(d) <=> \E p \in OnWire : p.call = d
<1>1. outq \in Seq(Chains) /\ waitq \in Seq(Request) /\ inbox \in Seq(Entry) /\ frames \in Seq(Frames)
  BY QueuesTyped
<1>2. OnWire \subseteq Request
  BY <1>1, ElementOfSeq DEF OnWire
<1>3. Outstanding \subseteq Request
  BY <1>2 DEF Outstanding, Types, Reading
<1>4. ASSUME NEW ch \in InLine \cup Unserved PROVE ch \in Chains
  <2>1. \A i \in DOMAIN outq : outq[i] \in Chains
    BY <1>1, ElementOfSeq
  <2>2. \A i \in DOMAIN inbox : inbox[i] \in Entry
    BY <1>1, ElementOfSeq
  <2> QED BY <2>1, <2>2 DEF InLine, Unserved, Entry
<1>5. ASSUME NEW ch \in Chains
      PROVE  /\ 1 \in DOMAIN ch /\ Len(ch) \in DOMAIN ch /\ DOMAIN ch = 1..Len(ch)
             /\ Len(ch) \in Nat /\ ch[1].call \in Calls
             /\ \A k \in DOMAIN ch : ch[k] \in Request /\ ch[k].mid \in Nat
  <2>1. ch \in Seq(Request) /\ ch # <<>>
    BY DEF Chains
  <2>2. Len(ch) \in Nat \ {0} /\ DOMAIN ch = 1..Len(ch)
    BY <2>1, LenProperties, EmptySeq
  <2>3. \A k \in DOMAIN ch : ch[k] \in Request
    BY <2>1, ElementOfSeq
  <2>4. 1 \in DOMAIN ch /\ Len(ch) \in DOMAIN ch
    BY <2>2
  <2> QED BY <2>2, <2>3, <2>4 DEF Request
<1>6. ASSUME NEW r \in Answers PROVE r.mid \in Nat /\ r.status \in Statuses
  <2>1. PICK i \in DOMAIN frames : \E k \in DOMAIN frames[i] : r = frames[i][k] /\ Final(r)
    BY DEF Answers
  <2>2. frames[i] \in Seq(Reply)
    BY <1>1, ElementOfSeq DEF Frames
  <2>3. r \in Reply /\ r.status # "pending"
    BY <2>1, <2>2, ElementOfSeq DEF Final
  <2> QED BY <2>3 DEF Reply
<1>7. ASSUME NEW d PROVE InOutq(d) <=> \E ch \in InLine : ch[1].call = d
  BY DEF InOutq, InLine
<1>8. ASSUME NEW d PROVE InWaitq(d) <=> \E p \in OnWire : p.call = d
  BY DEF InWaitq, OnWire
<1> QED BY <1>2, <1>3, <1>4, <1>5, <1>6, <1>7, <1>8

\* The verdicts on their way, reply by reply.
LEMMA AnswerOf ==
  \A r : r \in Answers <=> \E i \in DOMAIN frames : \E k \in DOMAIN frames[i] :
                             r = frames[i][k] /\ Final(r)
BY DEF Answers

\* Nothing but credits, interim replies or the link changes.
LEMMA SameOutcome ==
  ASSUME Types, OutcomeInv,
         UNCHANGED <<calls, outq, waitq, cur, nextMid, handles, failed, expiries>>,
         Unserved' = Unserved, OncePerCall(inbox) => OncePerCall(inbox'),
         Answers' \subseteq Answers, begun \subseteq begun',
         link' \in {"new", "connecting"} => link \in {"new", "connecting"},
         link = "connecting" => link' = "connecting", link' = "up" => link = "up"
  PROVE  OutcomeInv'
<1>1. OnWire' = OnWire /\ Outstanding' = Outstanding /\ InLine' = InLine
  BY DEF OnWire, Outstanding, InLine
<1>2. \A d : /\ Kind(d)' = Kind(d) /\ (Busy(d)' <=> Busy(d)) /\ (InOutq(d)' <=> InOutq(d))
             /\ (IsCur(d)' <=> IsCur(d)) /\ (Told(d)' <=> Told(d))
  BY DEF Kind, Busy, InOutq, IsCur, Told
<1>3. Formed'
  BY <1>1, <1>2 DEF OutcomeInv, Formed
<1>4. Ranked'
  BY <1>1 DEF OutcomeInv, Ranked
<1>5. Older'
  BY <1>1 DEF OutcomeInv, Older, Precedes
<1>6. Asking'
  BY <1>1, <1>2 DEF OutcomeInv, Asking, Sole
<1>7. Truthful'
  BY <1>1, <1>2 DEF OutcomeInv, Truthful, Says
<1>8. Failures'
  BY <1>1, <1>2 DEF OutcomeInv, Failures, Unmade
<1>9. Merged'
  BY <1>1, <1>2 DEF OutcomeInv, Merged, Merges, Left
<1>10. OpenHandles'
  BY <1>1, <1>2 DEF OutcomeInv, OpenHandles, ToOpen
<1>11. HonestStatus'
  BY <1>2 DEF OutcomeInv, HonestStatus, Ignored
<1>12. NoLeak'
  BY <1>2 DEF OutcomeInv, NoLeak, Leaves
<1> QED BY <1>3, <1>4, <1>5, <1>6, <1>7, <1>8, <1>9, <1>10, <1>11, <1>12 DEF OutcomeInv

-----------------------------------------------------------------------------
\* A chain is queued.

\* The chain a call queues: of its form, numbered after all others.
Joins(pdus, c) ==
  /\ pdus \in Chains /\ Form(Kind(c), pdus)
  /\ \A k \in DOMAIN pdus : pdus[k].call = c /\ nextMid <= pdus[k].mid
  /\ ~Busy(c) /\ ~Told(c) /\ failed[c] = {} /\ (Kind(c) \in Mergers => calls[c].status = "ok")
  /\ pdus[1].cmd = "CREATE" /\ Kind(c) \notin Holders => c \notin handles

\* Nothing of the call was awaited but what its callback was run for.
LEMMA QueueOutcome ==
  ASSUME Types, Types', OutcomeInv, NEW c \in Calls, NEW pdus, Joins(pdus, c),
         InLine' = InLine \cup {pdus}, nextMid <= nextMid',
         UNCHANGED <<calls, waitq, inbox, frames, handles, failed, expiries>>,
         cur' = cur \/ (cur # None /\ cur' = None /\ cur.pdu.call = c /\ Kind(c) \notin Compounds),
         begun' = begun \cup {c}, link' \in {"up", "shut"},
         link = "up" \/ (\A d \in Calls : ~Told(d))
  PROVE  OutcomeInv'
<1>0. /\ \A ch \in InLine \cup Unserved : /\ 1 \in DOMAIN ch /\ ch[1].call \in Calls
                                          /\ \A k \in DOMAIN ch : ch[k].mid \in Nat
      /\ \A r \in Answers : r.mid \in Nat
      /\ nextMid \in Nat /\ nextMid' \in Nat
      /\ 1 \in DOMAIN pdus /\ \A k \in DOMAIN pdus : pdus[k].mid \in Nat
  <2>1. nextMid \in Nat /\ nextMid' \in Nat
    BY DEF Types
  <2>2. pdus \in InLine' \cup Unserved'
    OBVIOUS
  <2>3. 1 \in DOMAIN pdus /\ \A k \in DOMAIN pdus : pdus[k].mid \in Nat
    <3>1. pdus \in Seq(Request) /\ pdus # <<>>
      BY DEF Joins, Chains
    <3>2. \A k \in DOMAIN pdus : pdus[k] \in Request
      BY <3>1, ElementOfSeq
    <3> QED BY <3>1, <3>2, LenProperties, EmptySeq DEF Request
  <2> QED BY <2>1, <2>3, ViewsTyped
<1>1. /\ OnWire' = OnWire /\ Unserved' = Unserved /\ Answers' = Answers
      /\ Outstanding' \subseteq Outstanding
      /\ \A p \in Outstanding \ Outstanding' : p.call = c /\ Kind(c) \notin Compounds
      /\ cur' # None => cur' = cur
  BY DEF OnWire, Unserved, Answers, Outstanding
<1>2. \A d : /\ Kind(d)' = Kind(d) /\ (Busy(d)' <=> Busy(d)) /\ (Told(d)' <=> Told(d))
             /\ IsCur(d)' => IsCur(d)
  BY <1>1 DEF Kind, Busy, IsCur, Told
<1>3. \A d : InOutq(d)' <=> InOutq(d) \/ d = c
  <2>1. \A d : (InOutq(d) <=> \E ch \in InLine : ch[1].call = d)
               /\ (InOutq(d)' <=> \E ch \in InLine' : ch[1].call = d)
    BY DEF InOutq, InLine
  <2> QED BY <1>0, <2>1 DEF Joins
<1>4. Formed'
  <2>1. \A ch \in InLine' \cup Unserved' : ch \in InLine \cup Unserved \/ ch = pdus
    BY <1>1
  <2>2. Form(Kind(c), pdus) /\ \A k \in DOMAIN pdus : pdus[k].call = c
    BY DEF Joins
  <2> QED BY <1>0, <1>1, <1>2, <2>1, <2>2 DEF OutcomeInv, Formed
<1>5. Ranked'
  BY <1>1 DEF OutcomeInv, Ranked
<1>6. Older'
  <2>1. ASSUME NEW m \in Nat, Precedes(m) PROVE Precedes(m)'
    <3>1. m < nextMid'
      BY <1>0, <2>1 DEF Precedes
    <3>2. \A k \in DOMAIN pdus : m < pdus[k].mid
      BY <1>0, <2>1 DEF Precedes, Joins
    <3> QED BY <2>1, <3>1, <3>2 DEF Precedes
  <2>2. \A r \in Answers : Precedes(r.mid)'
    BY <1>0, <2>1 DEF OutcomeInv, Older
  <2>3. \A ch \in Unserved : \A k \in DOMAIN ch : Precedes(ch[k].mid)'
    BY <1>0, <2>1 DEF OutcomeInv, Older
  <2> QED BY <1>1, <2>2, <2>3 DEF Older
<1>7. Asking'
  <2>1. ASSUME NEW ch \in Unserved PROVE Sole(ch, ch[1].call)'
    <3>1. ch[1].call # c
      BY <2>1 DEF Joins, Busy
    <3>2. Sole(ch, ch[1].call)
      BY DEF OutcomeInv, Asking
    <3> QED BY <1>1, <1>2, <1>3, <3>1, <3>2 DEF Sole
  <2> QED BY <1>1, <2>1 DEF OutcomeInv, Asking
<1>8. Truthful'
  BY <1>1, <1>2 DEF OutcomeInv, Truthful, Says
<1>9. Failures'
  BY <1>1, <1>2, <1>3 DEF OutcomeInv, Failures, Unmade, Joins
<1>10. Merged'
  <2>1. \A d, cmd : Left(d, cmd)' => Left(d, cmd)
    BY <1>1 DEF Left
  <2>2. \A d, cmd : Left(d, cmd) /\ Kind(d) \in Mergers => Left(d, cmd)'
    BY <1>1 DEF Left, Mergers
  <2>3. \A d : Merges(d)' => Merges(d) /\ Kind(d) \in Mergers
    BY <1>2 DEF Merges
  <2> QED BY <1>1, <1>2, <2>1, <2>2, <2>3 DEF OutcomeInv, Merged
<1>11. OpenHandles'
  <2>1. \A d : ToOpen(d)' => ToOpen(d) \/ (d = c /\ pdus[1].cmd = "CREATE")
    BY <1>0, <1>1 DEF ToOpen, Joins
  <2> QED BY <1>2, <2>1 DEF OutcomeInv, OpenHandles, Joins
<1>12. HonestStatus'
  BY <1>2 DEF OutcomeInv, HonestStatus, Ignored
<1>13. NoLeak'
  BY <1>2 DEF OutcomeInv, NoLeak, Leaves
<1> QED BY <1>4, <1>5, <1>6, <1>7, <1>8, <1>9, <1>10, <1>11, <1>12, <1>13 DEF OutcomeInv

\* What smb2_queue_pdu numbers keeps the form of its commands.
LEMMA NumberedForm ==
  ASSUME NEW c \in Calls, NEW mid \in Nat, NEW cr \in Nat, NEW chain \in Seq(Command), chain # <<>>,
         \A k \in DOMAIN chain : chain[k].cb \in (IF k = Len(chain) THEN Tellers ELSE Silent),
         Len(chain) > 1 => mid > 0, NEW kind, Form(kind, chain)
  PROVE  LET p == Numbered(c, chain, mid, cr) IN
         /\ p \in Chains /\ Form(kind, p) /\ p[1].cmd = chain[1].cmd /\ mid <= mid + Widths(p)
         /\ \A k \in DOMAIN p : p[k].call = c /\ mid <= p[k].mid
<1> DEFINE p == Numbered(c, chain, mid, cr)
<1>1. /\ Chain(p) /\ Len(p) = Len(chain)
      /\ \A k \in DOMAIN p : p[k].call = c /\ p[k].cmd = chain[k].cmd /\ p[k].cb = chain[k].cb
  <2>1. LET n == Numbered(c, chain, mid, cr) IN
        /\ Chain(n) /\ Len(n) = Len(chain)
        /\ \A k \in DOMAIN n : /\ n[k].call = c /\ n[k].cmd = chain[k].cmd
                               /\ n[k].cb = chain[k].cb /\ n[k].charge = Asked(chain[k], cr)
    BY NumberedChain
  <2> QED BY <2>1
<1>2. \A k \in DOMAIN p : mid <= p[k].mid
  <2>1. LET n == Numbered(c, chain, mid, cr) IN
        /\ DOMAIN n = 1..Len(chain)
        /\ \A k \in DOMAIN n :
             /\ n[k].charge = Asked(chain[k], cr) /\ n[k].mid \in Nat
             /\ mid <= n[k].mid /\ n[k].prev <= n[k].mid
             /\ n[k].mid + Width(n[k].charge) <= mid + Widths(n)
             /\ \A l \in DOMAIN n : k < l => n[k].mid < n[l].mid
    BY NumberedMids
  <2> QED BY <2>1
<1> HIDE DEF p
<1>3. p \in Seq(Request) /\ p # <<>> /\ p \in Chains
  BY <1>1 DEF Chain, Chains
<1>4. /\ DOMAIN p = DOMAIN chain /\ 1 \in DOMAIN p /\ Len(p) \in DOMAIN p /\ Len(p) = Len(chain)
  <2>1. DOMAIN p = 1..Len(p) /\ DOMAIN chain = 1..Len(chain) /\ Len(p) \in Nat \ {0}
    BY <1>3, LenProperties, EmptySeq
  <2> QED BY <1>1, <2>1
<1>5. Form(kind, p)
  BY <1>1, <1>4 DEF Form
<1>6. mid <= mid + Widths(p)
  <2>1. Widths(p) \in Nat
    BY <1>3, ChainSums
  <2> QED BY <2>1
<1> QED BY <1>1, <1>2, <1>3, <1>4, <1>5, <1>6 DEF p

\* A chain behind the others in outq.
LEMMA InLineAppend ==
  ASSUME Types, NEW pdus \in Chains, outq' = Append(outq, pdus)
  PROVE  InLine' = InLine \cup {pdus}
<1>1. /\ DOMAIN outq' = 1..(Len(outq) + 1) /\ DOMAIN outq = 1..Len(outq) /\ Len(outq) \in Nat
      /\ \A i \in 1..Len(outq) : outq'[i] = outq[i]
      /\ outq'[Len(outq) + 1] = pdus
  <2>1. outq \in Seq(Chains)
    BY QueuesTyped
  <2> QED BY <2>1, AppendElements
<1>2. /\ Len(outq) + 1 \in DOMAIN outq' /\ \A i \in DOMAIN outq : i \in DOMAIN outq'
      /\ \A i \in DOMAIN outq' : i \in DOMAIN outq \/ i = Len(outq) + 1
  BY <1>1
<1>3. \A ch : ch \in InLine' <=> \E i \in DOMAIN outq' : ch = outq'[i]
  BY DEF InLine
<1>4. \A ch : ch \in InLine <=> \E i \in DOMAIN outq : ch = outq[i]
  BY DEF InLine
<1> QED BY <1>1, <1>2, <1>3, <1>4

\* A call that was not made yet queues its first chain.
LEMMA StartOutcome ==
  ASSUME CallInv, CallInv', CreditInv, OutcomeInv, NEW c \in Calls, Start(c)
  PROVE  OutcomeInv'
<1> DEFINE chain == FirstChain[calls[c].kind]
           st == smb2_queue_pdu(Before, c, chain)
           pdus == Numbered(c, chain, nextMid, credits)
<1>1. /\ link = "up" /\ calls[c].kind # "connect" /\ c \notin begun /\ begun' = begun \cup {c}
      /\ Becomes(st) /\ outq' = st.outq
      /\ UNCHANGED <<link, partial, waitq, cur, credits, server, dropped, garbled, expiries>>
  BY DEF Start
<1>2. Types /\ nextMid \in Nat \ {0} /\ credits \in Nat /\ Types'
  <2>1. Types /\ Types'
    BY DEF CallInv
  <2>2. nextMid \in Nat \ {0} /\ credits \in Nat
    BY <1>1 DEF CallInv, Types, Session
  <2> QED BY <2>1, <2>2
<1>3. calls[c].kind \in DOMAIN FirstChain
  BY <1>1, <1>2 DEF Types, Call, Kinds
<1>4. Chained(chain) /\ Form(Kind(c), chain)
  BY <1>3, FirstChained, FirstForm DEF Kind
<1> HIDE DEF chain
<1>5. /\ pdus \in Chains /\ Form(Kind(c), pdus) /\ nextMid <= nextMid + Widths(pdus)
      /\ \A k \in DOMAIN pdus : pdus[k].call = c /\ nextMid <= pdus[k].mid
  <2>1. /\ chain \in Seq(Command) /\ chain # <<>>
        /\ \A k \in DOMAIN chain : chain[k].cb \in (IF k = Len(chain) THEN Tellers ELSE Silent)
    BY <1>4 DEF Chained
  <2>2. nextMid \in Nat /\ nextMid > 0 /\ credits \in Nat
    BY <1>2
  <2> DEFINE kind == Kind(c)
  <2>3. Form(kind, chain)
    BY <1>4
  <2> HIDE DEF kind
  <2>4. LET p == Numbered(c, chain, nextMid, credits) IN
        /\ p \in Chains /\ Form(kind, p) /\ p[1].cmd = chain[1].cmd
        /\ nextMid <= nextMid + Widths(p)
        /\ \A k \in DOMAIN p : p[k].call = c /\ nextMid <= p[k].mid
    BY <2>1, <2>2, <2>3, NumberedForm
  <2> QED BY <2>4 DEF kind
<1>6. calls' = calls /\ outq' = Append(outq, pdus) /\ nextMid' = nextMid + Widths(pdus)
  <2>1. chain # <<>>
    BY <1>4 DEF Chained
  <2>2. st = smb2_queue_pdu(Before, c, chain) /\ pdus = Numbered(c, chain, nextMid, credits)
    OBVIOUS
  <2> HIDE DEF st, pdus
  <2>3. st.calls = calls /\ st.outq = Append(outq, pdus) /\ st.nextMid = nextMid + Widths(pdus)
    BY <2>1, <2>2, QueuedRecord
  <2> QED BY <1>1, <2>3 DEF Becomes
<1> HIDE DEF pdus, st
<1>7. InLine' = InLine \cup {pdus}
  BY <1>2, <1>5, <1>6, InLineAppend
<1>8. ~Told(c) /\ ~Busy(c)
  <2>1. ~Told(c)
    BY <1>1 DEF CallInv, ToldLast
  <2>2. \A ch \in Unserved : ch[1].call \in begun
    BY DEF OutcomeInv, Asking, Sole
  <2> QED BY <1>1, <2>1, <2>2 DEF Busy
<1>9. failed[c] = {} /\ (Kind(c) \in Mergers => calls[c].status = "ok")
  BY <1>1 DEF OutcomeInv, Failures, Unmade
<1>10. Kind(c) \notin Holders => c \notin handles
  BY <1>1 DEF OutcomeInv, OpenHandles, ToOpen
<1>11. Joins(pdus, c)
  BY <1>5, <1>8, <1>9, <1>10 DEF Joins
<1>12. /\ UNCHANGED <<calls, waitq, inbox, frames, handles, failed, expiries>> /\ cur' = cur
       /\ link' \in {"up", "shut"} /\ nextMid <= nextMid'
  BY <1>1, <1>5, <1>6 DEF server
<1> QED BY <1>1, <1>2, <1>7, <1>11, <1>12, QueueOutcome

\* The socket is connected: the NEGOTIATE is queued.
LEMMA ConnectedOutcome ==
  ASSUME CallInv, CallInv', CreditInv, OutcomeInv, NEW c \in Calls, Connected(c)
  PROVE  OutcomeInv'
<1> DEFINE st == smb2_queue_pdu(Before, c, connect_cb(calls[c], "ok").chain)
           chain == NegotiateChain
           pdus == Numbered(c, chain, nextMid, credits)
<1>1. /\ link = "connecting" /\ calls[c].kind = "connect" /\ c \in begun /\ link' = "up"
      /\ Becomes(st) /\ outq' = st.outq
      /\ UNCHANGED <<begun, partial, waitq, cur, credits, server, dropped, garbled, expiries>>
  BY DEF Connected
<1>2. begun = {c} /\ ~Told(c) /\ \A d \in Calls : ~Told(d)
  BY <1>1 DEF CallInv, Session, ToldLast
<1>3. Types /\ Types' /\ nextMid \in Nat /\ credits \in Nat
  BY DEF CallInv, Types
<1>4. /\ chain \in Seq(Command) /\ chain # <<>> /\ Len(chain) = 1
      /\ chain[1].cb \in Tellers /\ DOMAIN chain = {1} /\ chain[1].cmd = "NEGOTIATE"
      /\ chain[1].cb = "negotiate_cb"
  <2> DEFINE cmd == [Cmd("NEGOTIATE", "negotiate_cb") EXCEPT !.cost = 0]
  <2>1. cmd \in Command /\ cmd.cb \in Tellers /\ cmd.cmd = "NEGOTIATE" /\ cmd.cb = "negotiate_cb"
    BY DEF Cmd, Command, Commands, Tellers
  <2>2. chain = <<cmd>>
    BY DEF NegotiateChain
  <2> HIDE DEF cmd
  <2> QED BY <2>1, <2>2
<1>5. Form(Kind(c), chain) /\ Kind(c) \notin Mergers
  <2>1. Kind(c) = "connect" /\ Kind(c) \notin Compounds
    BY <1>1 DEF Kind, Compounds
  <2>2. Belongs(Kind(c), chain[1].cmd, chain[1].cb)
    BY <1>4, <2>1 DEF Belongs
  <2> HIDE DEF chain
  <2> QED BY <1>4, <2>1, <2>2 DEF Form, Mergers
<1>6. st = smb2_queue_pdu(Before, c, chain)
  BY DEF connect_cb, Queue
<1> HIDE DEF chain
<1>7. /\ pdus \in Chains /\ Form(Kind(c), pdus) /\ nextMid <= nextMid + Widths(pdus)
      /\ pdus[1].cmd = chain[1].cmd
      /\ \A k \in DOMAIN pdus : pdus[k].call = c /\ nextMid <= pdus[k].mid
  <2>1. \A k \in DOMAIN chain : chain[k].cb \in (IF k = Len(chain) THEN Tellers ELSE Silent)
    BY <1>4
  <2>2. Len(chain) > 1 => nextMid > 0
    BY <1>4
  <2> DEFINE kind == Kind(c)
  <2>3. Form(kind, chain)
    BY <1>5
  <2> HIDE DEF kind
  <2>4. LET p == Numbered(c, chain, nextMid, credits) IN
        /\ p \in Chains /\ Form(kind, p) /\ p[1].cmd = chain[1].cmd
        /\ nextMid <= nextMid + Widths(p)
        /\ \A k \in DOMAIN p : p[k].call = c /\ nextMid <= p[k].mid
    <3>1. chain \in Seq(Command) /\ chain # <<>> /\ nextMid \in Nat /\ credits \in Nat
      BY <1>3, <1>4
    <3> QED BY <2>1, <2>2, <2>3, <3>1, NumberedForm
  <2> QED BY <2>4 DEF kind
<1>8. calls' = calls /\ outq' = Append(outq, pdus) /\ nextMid' = nextMid + Widths(pdus)
  <2>1. pdus = Numbered(c, chain, nextMid, credits)
    OBVIOUS
  <2> HIDE DEF st, pdus
  <2>2. st.calls = calls /\ st.outq = Append(outq, pdus) /\ st.nextMid = nextMid + Widths(pdus)
    BY <1>4, <1>6, <2>1, QueuedRecord
  <2> QED BY <1>1, <2>2 DEF Becomes
<1> HIDE DEF pdus, st
<1>9. InLine' = InLine \cup {pdus}
  BY <1>3, <1>7, <1>8, InLineAppend
<1>10. ~Busy(c)
  <2>1. inbox = <<>>
    BY <1>1 DEF CreditInv, Opening
  <2>2. Unserved = {}
    BY <2>1 DEF Unserved
  <2> QED BY <2>2 DEF Busy
<1>11. failed[c] = {}
  BY <1>1 DEF OutcomeInv, Failures, Unmade
<1>12. Joins(pdus, c)
  BY <1>2, <1>4, <1>5, <1>7, <1>10, <1>11 DEF Joins
<1>13. /\ UNCHANGED <<calls, waitq, inbox, frames, handles, failed, expiries>> /\ cur' = cur
       /\ link' \in {"up", "shut"} /\ nextMid <= nextMid' /\ begun' = begun \cup {c}
  BY <1>1, <1>2, <1>7, <1>8 DEF server
<1> QED BY <1>2, <1>3, <1>9, <1>12, <1>13, QueueOutcome

-----------------------------------------------------------------------------
\* A chain goes on the wire.

\* A chain that is written: the only one of its call in the line, and one more for the server.
WrittenOut(ch) ==
  /\ ch \in InLine /\ InLine = InLine' \cup {ch}
  /\ \A x \in InLine' : x[1].call # ch[1].call
  /\ OnWire' = OnWire \cup {ch[k] : k \in DOMAIN ch}
  /\ Unserved' = Unserved \cup {ch}

\* Its message ids come after those on the wire and before those still in line.
Newest(ch) ==
  \A k \in DOMAIN ch :
    /\ ch[k].mid < nextMid
    /\ \A l \in DOMAIN ch : k < l => ch[k].mid < ch[l].mid
    /\ \A x \in InLine' : \A l \in DOMAIN x : ch[k].mid < x[l].mid
    /\ \A p \in OnWire : p.mid < ch[k].mid

\* Where its requests are afterwards, and how their message ids compare.
LEMMA WrittenViews ==
  ASSUME Types, OneChain, Accounts, NEW ch, ch = Head(outq), outq # <<>>,
         outq' = Tail(outq), waitq' = waitq \o ch, NEW flag \in BOOLEAN,
         inbox' = Append(inbox, [chain |-> ch, pended |-> flag])
  PROVE  /\ WrittenOut(ch)
         /\ Newest(ch)
         /\ DOMAIN inbox' = 1..(Len(inbox) + 1) /\ DOMAIN inbox = 1..Len(inbox)
         /\ Len(inbox) \in Nat /\ \A i \in 1..Len(inbox) : inbox'[i] = inbox[i]
         /\ inbox'[Len(inbox) + 1].chain = ch
<1>1. outq \in Seq(Chains) /\ waitq \in Seq(Request) /\ inbox \in Seq(Entry)
  BY QueuesTyped
<1>2. /\ ch = outq[1] /\ ch \in Chains /\ DOMAIN outq = 1..Len(outq) /\ Len(outq) \in Nat \ {0}
      /\ DOMAIN outq' = 1..(Len(outq) - 1)
      /\ \A m \in 1..(Len(outq) - 1) : outq'[m] = outq[m + 1]
  BY <1>1, TailElements
<1>3. /\ 1 \in DOMAIN outq
      /\ \A m \in DOMAIN outq' : m + 1 \in DOMAIN outq /\ 1 < m + 1 /\ outq'[m] = outq[m + 1]
      /\ \A m \in DOMAIN outq : m = 1 \/ (m - 1 \in DOMAIN outq' /\ outq[m] = outq'[m - 1])
  <2>1. \A L \in Nat \ {0} : /\ 1 \in 1..L
                             /\ \A m \in 1..(L - 1) : m + 1 \in 1..L /\ 1 < m + 1
                             /\ \A m \in 1..L : m = 1 \/ (m - 1 \in 1..(L - 1) /\ (m - 1) + 1 = m)
    OBVIOUS
  <2> QED BY <1>2, <2>1
<1>4. InLine = InLine' \cup {ch} /\ ch \in InLine
  <2>1. \A x : x \in InLine <=> \E i \in DOMAIN outq : x = outq[i]
    BY DEF InLine
  <2>2. \A x : x \in InLine' <=> \E i \in DOMAIN outq' : x = outq'[i]
    BY DEF InLine
  <2>3. \A x : x \in InLine' => x \in InLine
    BY <1>3, <2>1, <2>2
  <2>4. ASSUME NEW i \in DOMAIN outq PROVE outq[i] \in InLine' \/ outq[i] = ch
    <3>1. i = 1 \/ \E m \in DOMAIN outq' : outq[i] = outq'[m]
      BY <1>3
    <3> QED BY <1>2, <2>2, <3>1
  <2>5. ch \in InLine
    BY <1>2, <1>3, <2>1
  <2> QED BY <2>1, <2>3, <2>4, <2>5
<1>5. \A x \in InLine' : x[1].call # ch[1].call
  <2> SUFFICES ASSUME NEW i \in DOMAIN outq' PROVE outq'[i][1].call # ch[1].call
    BY DEF InLine
  <2>1. i + 1 \in DOMAIN outq /\ 1 \in DOMAIN outq /\ 1 < i + 1 /\ outq'[i] = outq[i + 1]
    BY <1>3
  <2>2. i + 1 # 1
    BY <2>1
  <2> QED BY <1>2, <2>1, <2>2 DEF OneChain
<1>6. /\ waitq \in Seq(Request) /\ ch \in Seq(Request)
      /\ DOMAIN waitq = 1..Len(waitq) /\ DOMAIN ch = 1..Len(ch)
  BY <1>1, <1>2, LenProperties DEF Chains
<1>7. /\ waitq' \in Seq(Request) /\ DOMAIN waitq' = 1..(Len(waitq) + Len(ch))
      /\ Len(waitq) \in Nat /\ Len(ch) \in Nat
      /\ \A m \in 1..Len(waitq) : waitq'[m] = waitq[m]
      /\ \A m \in 1..Len(ch) : waitq'[Len(waitq) + m] = ch[m]
  <2>1. /\ waitq \o ch \in Seq(Request) /\ Len(waitq \o ch) = Len(waitq) + Len(ch)
        /\ Len(waitq) \in Nat /\ Len(ch) \in Nat
        /\ \A m \in 1..Len(waitq) : (waitq \o ch)[m] = waitq[m]
        /\ \A m \in 1..Len(ch) : (waitq \o ch)[Len(waitq) + m] = ch[m]
    BY <1>6, ConcatElements
  <2>2. DOMAIN waitq' = 1..Len(waitq')
    BY <2>1, LenProperties
  <2> QED BY <2>1, <2>2
<1>8. OnWire' = OnWire \cup {ch[k] : k \in DOMAIN ch}
  <2>1. \A x : x \in OnWire <=> \E i \in DOMAIN waitq : x = waitq[i]
    BY DEF OnWire
  <2>2. \A x : x \in OnWire' <=> \E i \in DOMAIN waitq' : x = waitq'[i]
    BY DEF OnWire
  <2>3. \A a, b \in Nat : /\ \A m \in 1..(a + b) : m \in 1..a \/ (m - a \in 1..b /\ a + (m - a) = m)
                          /\ \A m \in 1..a : m \in 1..(a + b)
                          /\ \A m \in 1..b : a + m \in 1..(a + b)
    OBVIOUS
  <2>4. \A m \in DOMAIN waitq' : m \in DOMAIN waitq \/ (m - Len(waitq) \in DOMAIN ch
                                   /\ waitq'[m] = ch[m - Len(waitq)])
    BY <1>6, <1>7, <2>3
  <2>5. /\ \A m \in DOMAIN waitq : m \in DOMAIN waitq' /\ waitq'[m] = waitq[m]
        /\ \A m \in DOMAIN ch : Len(waitq) + m \in DOMAIN waitq' /\ waitq'[Len(waitq) + m] = ch[m]
    BY <1>6, <1>7, <2>3
  <2>6. \A x : x \in OnWire' => x \in OnWire \/ \E k \in DOMAIN ch : x = ch[k]
    BY <2>1, <2>2, <2>4, <2>5
  <2>7. \A x : x \in OnWire => x \in OnWire'
    BY <2>1, <2>2, <2>5
  <2>8. \A k \in DOMAIN ch : ch[k] \in OnWire'
    BY <2>2, <2>5
  <2> QED BY <2>6, <2>7, <2>8
<1>9. /\ DOMAIN inbox' = 1..(Len(inbox) + 1) /\ DOMAIN inbox = 1..Len(inbox)
      /\ Len(inbox) \in Nat /\ \A i \in 1..Len(inbox) : inbox'[i] = inbox[i]
      /\ inbox'[Len(inbox) + 1].chain = ch
  <2> DEFINE e == [chain |-> ch, pended |-> flag]
  <2>1. e \in Entry /\ e.chain = ch
    BY <1>2 DEF Entry
  <2>2. inbox' = Append(inbox, e)
    OBVIOUS
  <2> HIDE DEF e
  <2> QED BY <1>1, <2>1, <2>2, AppendElements
<1>10. Unserved' = Unserved \cup {ch}
  <2>1. \A x : x \in Unserved <=> \E i \in DOMAIN inbox : x = inbox[i].chain
    BY DEF Unserved
  <2>2. \A x : x \in Unserved' <=> \E i \in DOMAIN inbox' : x = inbox'[i].chain
    BY DEF Unserved
  <2>3. /\ Len(inbox) + 1 \in DOMAIN inbox' /\ \A i \in DOMAIN inbox : i \in DOMAIN inbox'
        /\ \A i \in DOMAIN inbox' : i \in DOMAIN inbox \/ i = Len(inbox) + 1
    BY <1>9
  <2>4. \A x : x \in Unserved' => x \in Unserved \/ x = ch
    BY <1>9, <2>1, <2>2, <2>3
  <2>5. \A x : x \in Unserved => x \in Unserved'
    BY <1>9, <2>1, <2>2, <2>3
  <2>6. ch \in Unserved'
    BY <1>9, <2>2, <2>3
  <2> QED BY <2>4, <2>5, <2>6
<1>11. ASSUME NEW k \in DOMAIN ch
       PROVE  /\ ch[k].mid < nextMid
              /\ \A l \in DOMAIN ch : k < l => ch[k].mid < ch[l].mid
              /\ \A x \in InLine' : \A l \in DOMAIN x : ch[k].mid < x[l].mid
              /\ \A p \in OnWire : p.mid < ch[k].mid
  <2>1. /\ outq[1][k].mid < nextMid
        /\ \A l \in DOMAIN outq[1] : k < l => outq[1][k].mid < outq[1][l].mid
        /\ \A j \in DOMAIN outq : 1 < j => \A l \in DOMAIN outq[j] : outq[1][k].mid < outq[j][l].mid
        /\ \A j \in DOMAIN waitq : waitq[j].mid < outq[1][k].mid
    BY <1>2, <1>3 DEF Accounts, Rising
  <2>2. \A x \in InLine' : \E j \in DOMAIN outq : 1 < j /\ x = outq[j]
    BY <1>3 DEF InLine
  <2> QED BY <1>2, <2>1, <2>2 DEF OnWire
<1>12. WrittenOut(ch)
  BY <1>4, <1>5, <1>8, <1>10 DEF WrittenOut
<1>13. Newest(ch)
  BY <1>11 DEF Newest
<1> QED BY <1>9, <1>12, <1>13

\* Nothing of its call is awaited, and the server has answered none of it.
LEMMA WriteOutcome ==
  ASSUME CallInv, CreditInv, OutcomeInv, smb2_write_to_socket,
         NEW ch, ch = Head(outq), NEW c, c = ch[1].call
  PROVE  OutcomeInv'
<1>1. /\ link = "up" /\ outq # <<>> /\ outq' = Tail(outq) /\ waitq' = waitq \o ch
      /\ inbox' = Append(inbox, [chain |-> ch, pended |-> FALSE])
      /\ UNCHANGED <<link, begun, calls, cur, nextMid, frames, handles, failed, expiries>>
  BY DEF smb2_write_to_socket, Sendable, record
<1>2. Types /\ OneChain /\ ToldLast /\ Accounts
  BY <1>1 DEF CallInv, CreditInv
<1>3. /\ ch \in InLine /\ InLine = InLine' \cup {ch}
      /\ \A x \in InLine' : x[1].call # c
      /\ OnWire' = OnWire \cup {ch[k] : k \in DOMAIN ch}
      /\ Unserved' = Unserved \cup {ch}
  <2>1. outq # <<>> /\ outq' = Tail(outq) /\ waitq' = waitq \o ch
    BY <1>1
  <2> PICK flag \in BOOLEAN : flag = FALSE
    OBVIOUS
  <2>2. inbox' = Append(inbox, [chain |-> ch, pended |-> flag])
    BY <1>1
  <2>3. WrittenOut(ch)
    BY <1>2, <2>1, <2>2, WrittenViews
  <2> QED BY <2>3 DEF WrittenOut
<1>31. \A k \in DOMAIN ch :
         /\ ch[k].mid < nextMid
         /\ \A l \in DOMAIN ch : k < l => ch[k].mid < ch[l].mid
         /\ \A x \in InLine' : \A l \in DOMAIN x : ch[k].mid < x[l].mid
         /\ \A p \in OnWire : p.mid < ch[k].mid
  <2>1. outq # <<>> /\ outq' = Tail(outq) /\ waitq' = waitq \o ch
    BY <1>1
  <2> PICK flag \in BOOLEAN : flag = FALSE
    OBVIOUS
  <2>2. inbox' = Append(inbox, [chain |-> ch, pended |-> flag])
    BY <1>1
  <2>3. Newest(ch)
    BY <1>2, <2>1, <2>2, WrittenViews
  <2> QED BY <2>3 DEF Newest
<1>32. /\ DOMAIN inbox' = 1..(Len(inbox) + 1) /\ DOMAIN inbox = 1..Len(inbox)
       /\ Len(inbox) \in Nat /\ \A i \in 1..Len(inbox) : inbox'[i] = inbox[i]
       /\ inbox'[Len(inbox) + 1].chain = ch
  <2>1. outq # <<>> /\ outq' = Tail(outq) /\ waitq' = waitq \o ch
    BY <1>1
  <2> PICK flag \in BOOLEAN : flag = FALSE
    OBVIOUS
  <2>2. inbox' = Append(inbox, [chain |-> ch, pended |-> flag])
    BY <1>1
  <2> QED BY <1>2, <2>1, <2>2, WrittenViews
<1>4. /\ \A x \in InLine \cup Unserved : /\ 1 \in DOMAIN x /\ x[1].call \in Calls /\ DOMAIN x = 1..Len(x)
                                         /\ \A k \in DOMAIN x : x[k].mid \in Nat
      /\ \A r \in Answers : r.mid \in Nat
      /\ \A p \in Outstanding : p \in Request
      /\ \A d : InOutq(d) <=> \E x \in InLine : x[1].call = d
      /\ \A d : InWaitq(d) <=> \E p \in OnWire : p.call = d
  BY <1>2, ViewsTyped
<1>5. \A d : (InOutq(d)' <=> \E x \in InLine' : x[1].call = d)
  BY DEF InOutq, InLine
<1>6. /\ c \in Calls /\ InOutq(c) /\ ~InOutq(c)' /\ ~InWaitq(c) /\ ~IsCur(c) /\ c \in begun /\ ~Told(c)
      /\ \A p \in OnWire : p.call # c
      /\ failed[c] = {} /\ (Kind(c) \in Mergers => calls[c].status = "ok")
  <2>1. c \in Calls /\ InOutq(c) /\ ~InOutq(c)'
    BY <1>3, <1>4, <1>5
  <2>2. ~InWaitq(c) /\ ~IsCur(c) /\ c \in begun /\ ~Told(c)
    BY <1>2, <2>1 DEF OneChain, ToldLast
  <2>3. failed[c] = {} /\ (Kind(c) \in Mergers => calls[c].status = "ok")
    BY <2>1 DEF OutcomeInv, Failures, Unmade
  <2> QED BY <1>4, <2>1, <2>2, <2>3
<1>7. ~Busy(c) /\ Form(Kind(c), ch) /\ \A k \in DOMAIN ch : ch[k].call = c
  <2>1. ~Busy(c)
    BY <1>6 DEF Busy, OutcomeInv, Asking, Sole
  <2>2. Form(Kind(c), ch) /\ \A k \in DOMAIN ch : ch[k].call = c
    BY <1>3 DEF OutcomeInv, Formed
  <2> QED BY <2>1, <2>2
<1>8. /\ Answers' = Answers /\ cur' = cur /\ OnWire \subseteq OnWire' /\ Outstanding \subseteq Outstanding'
      /\ \A p \in OnWire' \cup Outstanding' : p \in OnWire \cup Outstanding \/ \E k \in DOMAIN ch : p = ch[k]
      /\ \A p \in OnWire' : p \in OnWire \/ \E k \in DOMAIN ch : p = ch[k]
      /\ \A k \in DOMAIN ch : ch[k] \in OnWire' /\ ch[k] \in Outstanding'
  <2>1. Answers' = Answers /\ cur' = cur
    BY <1>1 DEF Answers
  <2>2. OnWire' = OnWire \cup {ch[k] : k \in DOMAIN ch}
    BY <1>3
  <2> QED BY <2>1, <2>2 DEF Outstanding
<1>9. \A d : /\ Kind(d)' = Kind(d) /\ (Told(d)' <=> Told(d)) /\ (IsCur(d)' <=> IsCur(d))
             /\ (Busy(d)' <=> Busy(d) \/ d = c) /\ (InOutq(d)' => InOutq(d))
  <2>1. \A d : Kind(d)' = Kind(d) /\ (Told(d)' <=> Told(d)) /\ (IsCur(d)' <=> IsCur(d))
    BY <1>1 DEF Kind, Told, IsCur
  <2>2. \A d : Busy(d)' <=> Busy(d) \/ d = c
    BY <1>3 DEF Busy
  <2>3. \A d : InOutq(d)' => InOutq(d)
    BY <1>3, <1>4, <1>5
  <2> QED BY <2>1, <2>2, <2>3
<1>10. Formed'
  <2>1. \A x \in InLine' \cup Unserved' : x \in InLine \cup Unserved
    BY <1>3
  <2>2. \A x \in InLine' \cup Unserved' :
          Form(Kind(x[1].call)', x) /\ \A k \in DOMAIN x : x[k].call = x[1].call
    BY <1>9, <2>1 DEF OutcomeInv, Formed
  <2>3. \A k \in DOMAIN ch : Belongs(Kind(ch[k].call), ch[k].cmd, ch[k].cb)
    BY <1>7 DEF Form
  <2>4. \A p \in Outstanding' : p \in Outstanding \/ \E k \in DOMAIN ch : p = ch[k]
    BY <1>8 DEF Outstanding
  <2>5. \A p \in Outstanding' : Belongs(Kind(p.call)', p.cmd, p.cb)
    BY <1>9, <2>3, <2>4 DEF OutcomeInv, Formed
  <2> QED BY <2>2, <2>5 DEF Formed
<1>11. Ranked'
  <2>1. RankedWire(waitq')
    <3> DEFINE W == Len(waitq)
    <3>1. /\ waitq \in Seq(Request) /\ ch \in Seq(Request)
          /\ DOMAIN waitq = 1..W /\ DOMAIN ch = 1..Len(ch)
      <4>1. waitq \in Seq(Request) /\ ch \in Chains
        BY <1>2, <1>3, ViewsTyped DEF Types
      <4> QED BY <4>1, LenProperties DEF Chains
    <3>2. /\ DOMAIN waitq' = 1..(W + Len(ch)) /\ W \in Nat /\ Len(ch) \in Nat
          /\ \A m \in 1..W : waitq'[m] = waitq[m]
          /\ \A m \in 1..Len(ch) : waitq'[W + m] = ch[m]
      <4>1. /\ waitq \o ch \in Seq(Request) /\ Len(waitq \o ch) = Len(waitq) + Len(ch)
            /\ Len(waitq) \in Nat /\ Len(ch) \in Nat
            /\ \A m \in 1..Len(waitq) : (waitq \o ch)[m] = waitq[m]
            /\ \A m \in 1..Len(ch) : (waitq \o ch)[Len(waitq) + m] = ch[m]
        BY <3>1, ConcatElements
      <4>2. DOMAIN (waitq \o ch) = 1..Len(waitq \o ch)
        BY <4>1, LenProperties
      <4> QED BY <1>1, <4>1, <4>2
    <3>3. \A a, b \in Nat : \A i, j \in 1..(a + b) : i < j =>
            \/ i \in 1..a /\ j \in 1..a
            \/ i \in 1..a /\ j - a \in 1..b /\ a + (j - a) = j
            \/ i - a \in 1..b /\ j - a \in 1..b /\ i - a < j - a /\ a + (i - a) = i /\ a + (j - a) = j
      OBVIOUS
    <3> SUFFICES ASSUME NEW i \in DOMAIN waitq', NEW j \in DOMAIN waitq', i < j,
                        waitq'[i].call = waitq'[j].call
                 PROVE  Rank(waitq'[i].cmd) < Rank(waitq'[j].cmd)
      BY DEF RankedWire
    <3> HIDE DEF W
    <3>4. \/ i \in 1..W /\ j \in 1..W
          \/ i \in 1..W /\ j - W \in 1..Len(ch) /\ W + (j - W) = j
          \/ /\ i - W \in 1..Len(ch) /\ j - W \in 1..Len(ch) /\ i - W < j - W
             /\ W + (i - W) = i /\ W + (j - W) = j
      BY <3>2, <3>3
    <3>5. CASE i \in 1..W /\ j \in 1..W
      <4>1. waitq'[i] = waitq[i] /\ waitq'[j] = waitq[j] /\ i \in DOMAIN waitq /\ j \in DOMAIN waitq
        BY <3>1, <3>2, <3>5
      <4> QED BY <4>1 DEF OutcomeInv, Ranked, RankedWire
    <3>6. CASE i \in 1..W /\ j - W \in 1..Len(ch) /\ W + (j - W) = j
      <4> DEFINE b == j - W
      <4>1. waitq'[i] = waitq[i] /\ waitq'[W + b] = ch[b] /\ W + b = j /\ b \in DOMAIN ch /\ i \in DOMAIN waitq
        BY <3>1, <3>2, <3>6
      <4> HIDE DEF b
      <4>2. waitq[i].call = c
        BY <1>7, <4>1
      <4>3. waitq[i] \in OnWire
        BY <4>1 DEF OnWire
      <4> QED BY <1>6, <4>2, <4>3
    <3>7. CASE /\ i - W \in 1..Len(ch) /\ j - W \in 1..Len(ch) /\ i - W < j - W
               /\ W + (i - W) = i /\ W + (j - W) = j
      <4> DEFINE a == i - W
                 b == j - W
      <4>1. /\ waitq'[W + a] = ch[a] /\ W + a = i /\ a \in DOMAIN ch
            /\ waitq'[W + b] = ch[b] /\ W + b = j /\ b \in DOMAIN ch /\ a < b
        BY <3>1, <3>2, <3>7
      <4> HIDE DEF a, b
      <4> QED BY <1>7, <4>1 DEF Form
    <3> QED BY <3>4, <3>5, <3>6, <3>7
  <2>2. cur' # None => \A p \in OnWire' : p.call = cur'.pdu.call => Rank(cur'.pdu.cmd) < Rank(p.cmd)
    <3>1. cur # None => cur.pdu.call # c
      BY <1>6 DEF IsCur
    <3>2. cur # None => \A p \in OnWire : p.call = cur.pdu.call => Rank(cur.pdu.cmd) < Rank(p.cmd)
      BY DEF OutcomeInv, Ranked
    <3> QED BY <1>7, <1>8, <3>1, <3>2
  <2> QED BY <2>1, <2>2 DEF Ranked
<1>12. Older'
  <2>1. \A m : Precedes(m) => Precedes(m)'
    BY <1>1, <1>3 DEF Precedes
  <2>2. \A k \in DOMAIN ch : Precedes(ch[k].mid)'
    BY <1>1, <1>31 DEF Precedes
  <2>3. \A r \in Answers' : Precedes(r.mid)'
    BY <1>8, <2>1 DEF OutcomeInv, Older
  <2>4. \A x \in Unserved' : \A k \in DOMAIN x : Precedes(x[k].mid)'
    BY <1>3, <2>1, <2>2 DEF OutcomeInv, Older
  <2> QED BY <2>3, <2>4 DEF Older
<1>13. Asking'
  <2>1. OncePerCall(inbox')
    <3> SUFFICES ASSUME NEW i \in DOMAIN inbox', NEW j \in DOMAIN inbox',
                        inbox'[i].chain[1].call = inbox'[j].chain[1].call
                 PROVE  i = j
      BY DEF OncePerCall
    <3>1. \A m \in DOMAIN inbox : inbox[m].chain[1].call # c
      BY <1>7 DEF Busy, Unserved
    <3>2. \A m \in DOMAIN inbox' : \/ m \in DOMAIN inbox /\ inbox'[m] = inbox[m]
                                   \/ m = Len(inbox) + 1 /\ inbox'[m].chain[1].call = c
      BY <1>32
    <3>3. OncePerCall(inbox)
      BY DEF OutcomeInv, Asking
    <3> QED BY <3>1, <3>2, <3>3 DEF OncePerCall
  <2>2. ASSUME NEW x \in Unserved PROVE Sole(x, x[1].call)'
    <3>1. Sole(x, x[1].call) /\ x[1].call # c
      BY <1>7 DEF OutcomeInv, Asking, Busy
    <3>2. \A k, l : k \in DOMAIN x /\ l \in DOMAIN ch => x[k].mid # ch[l].mid
      <4>1. \A k \in DOMAIN x : \A l \in DOMAIN ch : x[k].mid < ch[l].mid
        BY <1>3 DEF OutcomeInv, Older, Precedes
      <4>2. \A k \in DOMAIN x : \A l \in DOMAIN ch : x[k].mid \in Nat /\ ch[l].mid \in Nat
        BY <1>3, <1>4
      <4> QED BY <4>1, <4>2
    <3>3. \A p \in OnWire' : p.call = x[1].call => \E k \in DOMAIN x : x[k] = p
      BY <1>7, <1>8, <3>1 DEF Sole
    <3>4. \A p \in OnWire' : \A k \in DOMAIN x : x[k].mid = p.mid => x[k] = p
      BY <1>8, <3>1, <3>2 DEF Sole
    <3> QED BY <1>1, <1>9, <3>1, <3>3, <3>4 DEF Sole
  <2>3. Sole(ch, c)'
    <3>1. \A p \in OnWire' : p.call = c => \E k \in DOMAIN ch : ch[k] = p
      BY <1>6, <1>8
    <3>2. ASSUME NEW p \in OnWire', NEW k \in DOMAIN ch, ch[k].mid = p.mid PROVE ch[k] = p
      <4>1. ch[k].mid \in Nat /\ \A l \in DOMAIN ch : ch[l].mid \in Nat
        BY <1>3, <1>4
      <4>2. CASE p \in OnWire
        <5>1. p.mid < ch[k].mid
          BY <1>31, <4>2
        <5> QED BY <3>2, <4>1, <5>1
      <4>3. CASE \E l \in DOMAIN ch : p = ch[l]
        <5>1. PICK l \in DOMAIN ch : p = ch[l]
          BY <4>3
        <5>2. ~(k < l) /\ ~(l < k)
          BY <1>31, <3>2, <4>1, <5>1
        <5>3. k = l
          BY <1>3, <1>4, <5>2
        <5> QED BY <5>1, <5>3
      <4> QED BY <1>8, <4>2, <4>3
    <3> QED BY <1>1, <1>6, <1>9, <3>1, <3>2 DEF Sole
  <2>4. \A x \in Unserved' : Sole(x, x[1].call)'
    BY <1>3, <2>2, <2>3
  <2> QED BY <2>1, <2>4 DEF Asking
<1>14. Truthful'
  <2>1. \A p, s : Says(p, s) /\ p.call # c => Says(p, s)'
    BY <1>1, <1>9 DEF Says
  <2>2. \A r \in Answers : \A k \in DOMAIN ch : r.mid # ch[k].mid
    <3>1. \A r \in Answers : \A k \in DOMAIN ch : r.mid < ch[k].mid
      BY <1>3 DEF OutcomeInv, Older, Precedes
    <3>2. \A r \in Answers : \A k \in DOMAIN ch : r.mid \in Nat /\ ch[k].mid \in Nat
      BY <1>3, <1>4
    <3> QED BY <3>1, <3>2
  <2>3. \A r \in Answers' : \A p \in OnWire' : r.mid = p.mid => Says(p, r.status)'
    <3> SUFFICES ASSUME NEW r \in Answers, NEW p \in OnWire', r.mid = p.mid
                 PROVE  Says(p, r.status)'
      BY <1>8
    <3>1. p \in OnWire /\ p.call # c
      BY <1>6, <1>8, <2>2
    <3>2. Says(p, r.status)
      BY <3>1 DEF OutcomeInv, Truthful
    <3> QED BY <2>1, <3>1, <3>2
  <2>4. (cur # None => Says(cur.pdu, cur.status))'
    <3> SUFFICES ASSUME cur # None PROVE Says(cur.pdu, cur.status)'
      BY <1>8
    <3>1. Says(cur.pdu, cur.status) /\ cur.pdu.call # c
      BY <1>6 DEF OutcomeInv, Truthful, IsCur
    <3> QED BY <1>1, <1>9, <3>1 DEF Says
  <2> QED BY <2>3, <2>4 DEF Truthful
<1>15. Failures'
  <2>1. \A p \in Outstanding' : p \in Outstanding \/ p.call = c
    BY <1>7, <1>8 DEF Outstanding
  <2>2. \A d : Unmade(d)' => Unmade(d)
    BY <1>1, <1>9 DEF Unmade
  <2> QED BY <1>1, <1>6, <1>9, <2>1, <2>2 DEF OutcomeInv, Failures
<1>16. Merged'
  <2>1. \A d, cmd : Left(d, cmd) => Left(d, cmd)'
    BY <1>8 DEF Left
  <2>2. \A d, cmd : Left(d, cmd)' => Left(d, cmd) \/ d = c
    BY <1>7, <1>8 DEF Left, Outstanding
  <2>3. \A k \in DOMAIN ch : Left(c, ch[k].cmd)'
    BY <1>7, <1>8 DEF Left
  <2>4. \A d : Merges(d)' => Merges(d)
    BY <1>1, <1>9 DEF Merges
  <2>5. ASSUME NEW d \in Calls, Merges(d)'
        PROVE  /\ \A cmd \in failed'[d] : Left(d, cmd)'
               /\ \A x \in Unserved' : x[1].call = d => \A k \in DOMAIN x : Left(d, x[k].cmd)'
    <3>1. Merges(d)
      BY <2>4, <2>5
    <3>2. /\ \A cmd \in failed[d] : Left(d, cmd)
          /\ \A x \in Unserved : x[1].call = d => \A k \in DOMAIN x : Left(d, x[k].cmd)
      BY <3>1 DEF OutcomeInv, Merged
    <3> QED BY <1>1, <1>3, <2>1, <2>3, <3>2
  <2>6. expiries' = 0 => \A d \in Calls : Kind(d)' = "readlink" /\ Left(d, "CREATE")' => calls'[d].status = "ok"
    <3>1. "readlink" \in Mergers
      BY DEF Mergers, Compounds
    <3> QED BY <1>1, <1>6, <1>9, <2>2, <3>1 DEF OutcomeInv, Merged
  <2> QED BY <2>5, <2>6 DEF Merged
<1>17. OpenHandles'
  <2>1. \A d : ToOpen(d)' => ToOpen(d)
    BY <1>1, <1>3 DEF ToOpen
  <2> QED BY <1>1, <1>9, <2>1 DEF OutcomeInv, OpenHandles
<1>18. HonestStatus' /\ NoLeak'
  BY <1>1, <1>9 DEF OutcomeInv, HonestStatus, Ignored, NoLeak, Leaves
<1> QED BY <1>10, <1>11, <1>12, <1>13, <1>14, <1>15, <1>16, <1>17, <1>18 DEF OutcomeInv

-----------------------------------------------------------------------------
\* A reply is read.

\* The reply at the head is a verdict on its way, what is left were others.
LEMMA ReadAnswers ==
  ASSUME Types, frames # <<>>, NEW r, r = Head(Head(frames)),
         \/ frames' = Tail(frames)
         \/ Len(Head(frames)) # 1 /\ frames' = <<Tail(Head(frames))>> \o Tail(frames)
  PROVE  Answers' \subseteq Answers /\ (Final(r) => r \in Answers)
<1> DEFINE f == Head(frames)
           rest == Tail(frames)
<1>1. frames \in Seq(Frames)
  BY QueuesTyped
<1>2. /\ f = frames[1] /\ f \in Frames /\ rest \in Seq(Frames) /\ Len(frames) \in Nat \ {0}
      /\ DOMAIN frames = 1..Len(frames) /\ DOMAIN rest = 1..(Len(frames) - 1)
      /\ Len(rest) = Len(frames) - 1
      /\ \A m \in 1..(Len(frames) - 1) : rest[m] = frames[m + 1]
  BY <1>1, TailElements
<1>3. /\ 1 \in DOMAIN frames
      /\ \A m \in DOMAIN rest : m + 1 \in DOMAIN frames /\ rest[m] = frames[m + 1]
  BY <1>2
<1>4. f \in Seq(Reply) /\ f # <<>>
  BY <1>2 DEF Frames
<1> HIDE DEF f, rest
<1>5. /\ Head(f) = f[1] /\ Tail(f) \in Seq(Reply) /\ 1 \in DOMAIN f
      /\ \A m \in DOMAIN Tail(f) : m + 1 \in DOMAIN f /\ Tail(f)[m] = f[m + 1]
  <2>1. /\ Head(f) = f[1] /\ Tail(f) \in Seq(Reply) /\ Len(f) \in Nat \ {0}
        /\ DOMAIN f = 1..Len(f) /\ DOMAIN Tail(f) = 1..(Len(f) - 1)
        /\ \A m \in 1..(Len(f) - 1) : Tail(f)[m] = f[m + 1]
    BY <1>4, TailElements
  <2> QED BY <2>1
<1>6. Final(r) => r \in Answers
  <2>1. r = frames[1][1] /\ 1 \in DOMAIN frames[1]
    BY <1>2, <1>5 DEF f
  <2> QED BY <1>3, <2>1, AnswerOf
<1>7. \A x : x \in Answers' <=> \E m \in DOMAIN frames' : \E k \in DOMAIN frames'[m] :
                                   x = frames'[m][k] /\ Final(x)
  BY DEF Answers
<1>8. CASE frames' = rest
  <2>1. ASSUME NEW x \in Answers' PROVE x \in Answers
    <3>1. PICK m \in DOMAIN rest : \E k \in DOMAIN rest[m] : x = rest[m][k] /\ Final(x)
      BY <1>7, <1>8
    <3> QED BY <1>3, <3>1, AnswerOf
  <2> QED BY <1>6, <2>1
<1>9. CASE frames' = <<Tail(f)>> \o rest
  <2> DEFINE one == <<Tail(f)>>
  <2>1. one \in Seq(Seq(Reply)) /\ Len(one) = 1 /\ one[1] = Tail(f) /\ frames' = one \o rest
    BY <1>5, <1>9
  <2>2. rest \in Seq(Seq(Reply))
    <3>1. Frames \subseteq Seq(Reply)
      BY DEF Frames
    <3> QED BY <1>2, <3>1, SeqMonotonic
  <2> HIDE DEF one
  <2>3. /\ one \o rest \in Seq(Seq(Reply)) /\ Len(one \o rest) = Len(one) + Len(rest)
        /\ Len(rest) \in Nat
        /\ \A m \in 1..Len(one) : (one \o rest)[m] = one[m]
        /\ \A m \in 1..Len(rest) : (one \o rest)[Len(one) + m] = rest[m]
    <3> DEFINE S == Seq(Reply)
    <3>1. one \in Seq(S) /\ rest \in Seq(S)
      BY <2>1, <2>2
    <3> HIDE DEF S
    <3> QED BY <3>1, ConcatElements DEF S
  <2>4. /\ DOMAIN frames' = 1..(1 + Len(rest)) /\ frames'[1] = Tail(f)
        /\ \A m \in 1..Len(rest) : frames'[1 + m] = rest[m]
    <3>1. DOMAIN frames' = 1..Len(frames')
      BY <2>1, <2>3, LenProperties
    <3>2. 1 \in 1..Len(one)
      BY <2>1
    <3> QED BY <2>1, <2>3, <3>1, <3>2
  <2>5. \A m \in DOMAIN frames' : m = 1 \/ (m - 1 \in DOMAIN rest /\ frames'[m] = rest[m - 1])
    <3>1. \A n \in Nat : \A m \in 1..(1 + n) : m = 1 \/ (m - 1 \in 1..n /\ 1 + (m - 1) = m)
      OBVIOUS
    <3>2. DOMAIN rest = 1..Len(rest)
      BY <1>2
    <3> QED BY <2>3, <2>4, <3>1, <3>2
  <2>6. ASSUME NEW x \in Answers' PROVE x \in Answers
    <3>1. PICK m \in DOMAIN frames' : \E k \in DOMAIN frames'[m] : x = frames'[m][k] /\ Final(x)
      BY <1>7
    <3>2. CASE m = 1
      <4>1. PICK k \in DOMAIN Tail(f) : x = Tail(f)[k] /\ Final(x)
        BY <2>4, <3>1, <3>2
      <4>2. k + 1 \in DOMAIN frames[1] /\ x = frames[1][k + 1]
        BY <1>2, <1>5, <4>1
      <4> QED BY <1>3, <4>1, <4>2, AnswerOf
    <3>3. CASE m - 1 \in DOMAIN rest /\ frames'[m] = rest[m - 1]
      <4> DEFINE n == m - 1
      <4>1. n \in DOMAIN rest /\ \E k \in DOMAIN rest[n] : x = rest[n][k] /\ Final(x)
        BY <3>1, <3>3
      <4> HIDE DEF n
      <4>2. n + 1 \in DOMAIN frames /\ rest[n] = frames[n + 1]
        BY <1>3, <4>1
      <4> QED BY <4>1, <4>2, AnswerOf
    <3> QED BY <2>5, <3>2, <3>3
  <2> QED BY <1>6, <2>6
<1> QED BY <1>8, <1>9 DEF f, rest

\* A reply finds its request, the first of its call's that waits.
LEMMA TakeOutcome ==
  ASSUME CallInv, OutcomeInv, cur = None, NEW i \in DOMAIN waitq, NEW p, p = waitq[i],
         NEW r \in Answers, p.mid = r.mid, cur' = [pdu |-> p, status |-> r.status], cur' # None,
         waitq' = RemoveAt(waitq, i), p.prev = 0 \/ ~Awaited(p.prev), Answers' \subseteq Answers,
         UNCHANGED <<link, begun, calls, outq, nextMid, inbox, handles, failed, expiries>>
  PROVE  OutcomeInv'
<1> DEFINE W == Len(waitq)
           at(m) == IF m < i THEN m ELSE m + 1
<1>1. /\ W \in Nat /\ DOMAIN waitq = 1..W /\ i \in 1..W /\ waitq \in Seq(Request)
      /\ Types /\ Linked(waitq)
  BY LenProperties DEF CallInv, Types, WireOrder
<1>2. /\ DOMAIN waitq' = 1..(W - 1) /\ \A m \in 1..(W - 1) : waitq'[m] = waitq[at(m)]
      /\ waitq' \in Seq(Request)
  <2>1. /\ waitq' \in Seq(Request) /\ Len(waitq') = W - 1
        /\ \A m \in 1..(W - 1) : waitq'[m] = IF m < i THEN waitq[m] ELSE waitq[m + 1]
    BY <1>1, RemoveAtElements
  <2> QED BY <2>1, LenProperties
<1>3. /\ \A m \in 1..(W - 1) : at(m) \in 1..W
      /\ \A m, n \in 1..(W - 1) : m < n => at(m) < at(n)
      /\ \A k \in 1..W : k = i \/ \E m \in 1..(W - 1) : at(m) = k
      /\ \A m \in 1..(W - 1) : at(m) < i \/ i < at(m)
  <2>1. ASSUME NEW k \in 1..W, k # i PROVE \E m \in 1..(W - 1) : at(m) = k
    <3>1. CASE k < i  BY <1>1, <2>1, <3>1, k \in 1..(W - 1), at(k) = k
    <3>2. CASE k > i
      <4>1. k - 1 \in 1..(W - 1) /\ at(k - 1) = k  BY <1>1, <3>2
      <4> QED BY <4>1
    <3> QED BY <1>1, <2>1, <3>1, <3>2
  <2> QED BY <1>1, <2>1
<1> HIDE DEF at, W
<1>4. \A k \in 1..W : k < i => waitq[k].call # p.call
  <2> SUFFICES ASSUME NEW k \in 1..W, k < i, waitq[k].call = waitq[i].call PROVE FALSE
    OBVIOUS
  <2>1. waitq[i].prev # 0 /\ \E n \in k..(i - 1) : waitq[n].mid = waitq[i].prev
    BY <1>1 DEF Linked
  <2>2. \A n \in k..(i - 1) : n \in DOMAIN waitq
    BY <1>1
  <2> QED BY <2>1, <2>2 DEF Awaited
<1>5. /\ OnWire' \subseteq OnWire /\ p \in OnWire /\ OnWire \subseteq OnWire' \cup {p}
      /\ cur'.pdu = p /\ cur'.status = r.status
  <2>1. \A x : x \in OnWire <=> \E m \in 1..W : x = waitq[m]
    BY <1>1 DEF OnWire
  <2>2. \A x : x \in OnWire' <=> \E m \in 1..(W - 1) : x = waitq'[m]
    BY <1>2 DEF OnWire
  <2>3. \A x : x \in OnWire' => x \in OnWire
    BY <1>2, <1>3, <2>1, <2>2
  <2>4. \A x : x \in OnWire => x \in OnWire' \/ x = p
    BY <1>2, <1>3, <2>1, <2>2
  <2> QED BY <1>1, <2>1, <2>3, <2>4
<1>6. Outstanding' = Outstanding /\ InLine' = InLine /\ Unserved' = Unserved
  <2>1. Outstanding = OnWire
    BY DEF Outstanding
  <2>2. Outstanding' = OnWire' \cup {p}
    BY <1>5 DEF Outstanding
  <2>3. InLine' = InLine /\ Unserved' = Unserved
    BY DEF InLine, Unserved
  <2> QED BY <1>5, <2>1, <2>2, <2>3
<1>7. \A d : /\ Kind(d)' = Kind(d) /\ (Busy(d)' <=> Busy(d)) /\ (InOutq(d)' <=> InOutq(d))
             /\ (IsCur(d)' => d = p.call) /\ (Told(d)' <=> Told(d))
  BY <1>5, <1>6 DEF Kind, Busy, InOutq, IsCur, Told
<1>8. Says(p, r.status) /\ ~Busy(p.call)
  BY <1>5 DEF OutcomeInv, Truthful, Says
<1>9. Formed'
  BY <1>6, <1>7 DEF OutcomeInv, Formed
<1>10. Ranked'
  <2>1. RankedWire(waitq)
    BY DEF OutcomeInv, Ranked
  <2>2. RankedWire(waitq')
    BY <1>1, <1>2, <1>3, <2>1 DEF RankedWire
  <2>3. ASSUME NEW x \in OnWire', x.call = p.call PROVE Rank(p.cmd) < Rank(x.cmd)
    <3>1. PICK m \in 1..(W - 1) : x = waitq[at(m)]
      BY <1>2 DEF OnWire
    <3>2. at(m) \in 1..W /\ i < at(m)
      BY <1>3, <1>4, <2>3, <3>1
    <3> QED BY <1>1, <2>1, <2>3, <3>1, <3>2 DEF RankedWire
  <2> QED BY <1>5, <2>2, <2>3 DEF Ranked
<1>11. Older'
  BY <1>6 DEF OutcomeInv, Older, Precedes
<1>12. Asking'
  <2>1. ASSUME NEW ch \in Unserved PROVE Sole(ch, ch[1].call)'
    <3>1. Sole(ch, ch[1].call) /\ ch[1].call # p.call
      BY <1>8 DEF OutcomeInv, Asking, Busy
    <3> QED BY <1>5, <1>7, <3>1 DEF Sole
  <2> QED BY <1>6, <2>1 DEF OutcomeInv, Asking
<1>13. Truthful'
  <2>1. ASSUME NEW x, NEW s, Says(x, s) PROVE Says(x, s)'
    BY <1>7, <2>1 DEF Says
  <2>2. (\A q \in Answers : \A x \in OnWire : q.mid = x.mid => Says(x, q.status))'
    BY <1>5, <2>1 DEF OutcomeInv, Truthful
  <2>3. Says(p, r.status)'
    BY <1>8, <2>1
  <2>4. (cur # None => Says(cur.pdu, cur.status))'
    BY <1>5, <2>3 DEF Says
  <2> QED BY <2>2, <2>4 DEF Truthful
<1>14. Failures'
  BY <1>6, <1>7 DEF OutcomeInv, Failures, Unmade
<1>15. Merged'
  BY <1>6, <1>7 DEF OutcomeInv, Merged, Merges, Left
<1>16. OpenHandles'
  BY <1>6, <1>7 DEF OutcomeInv, OpenHandles, ToOpen
<1>17. HonestStatus' /\ NoLeak'
  BY <1>7 DEF OutcomeInv, HonestStatus, Ignored, NoLeak, Leaves
<1> QED BY <1>9, <1>10, <1>11, <1>12, <1>13, <1>14, <1>15, <1>16, <1>17 DEF OutcomeInv

\* A header: the reply is skipped, the connection given up, or a request taken.
LEMMA ReadHeaderOutcome ==
  ASSUME CallInv, CallInv', OutcomeInv, ReadHeader, NEW r, r = Head(Head(frames)),
         NEW i, i = Position(r.mid)
  PROVE  OutcomeInv'
<1>1. /\ link = "up" /\ cur = None /\ frames # <<>>
      /\ UNCHANGED <<begun, calls, outq, nextMid, inbox, handles, failed, expiries>>
      /\ \/ frames' = Tail(frames) /\ UNCHANGED <<link, waitq, cur>>
         \/ link' = "shut" /\ UNCHANGED <<frames, waitq, cur>>
         \/ /\ ~SkipFrame(r) /\ cur' = [pdu |-> waitq[i], status |-> r.status]
            /\ waitq[i].prev = 0 \/ ~Awaited(waitq[i].prev)
            /\ waitq' = RemoveAt(waitq, i) /\ UNCHANGED link
            /\ \/ frames' = Tail(frames)
               \/ Len(Head(frames)) # 1 /\ frames' = <<Tail(Head(frames))>> \o Tail(frames)
  BY DEF ReadHeader, smb2_find_pdu, Without, record
<1>2. Types
  BY DEF CallInv
<1>3. CASE UNCHANGED <<waitq, cur>> /\ link' \in {"up", "shut"} /\ Answers' \subseteq Answers
  <2>1. Unserved' = Unserved /\ (OncePerCall(inbox) => OncePerCall(inbox'))
    BY <1>1 DEF Unserved, OncePerCall
  <2>2. UNCHANGED <<calls, outq, waitq, cur, nextMid, handles, failed, expiries>>
        /\ begun \subseteq begun'
    BY <1>1, <1>3
  <2> QED BY <1>1, <1>2, <1>3, <2>1, <2>2, SameOutcome
<1>4. CASE frames' = Tail(frames) /\ UNCHANGED <<link, waitq, cur>>
  <2>1. Answers' \subseteq Answers
    BY <1>1, <1>2, <1>4, ReadAnswers
  <2> QED BY <1>1, <1>3, <1>4, <2>1
<1>5. CASE link' = "shut" /\ UNCHANGED <<frames, waitq, cur>>
  <2>1. Answers' = Answers
    BY <1>5 DEF Answers
  <2> QED BY <1>3, <1>5, <2>1
<1>6. CASE /\ ~SkipFrame(r) /\ cur' = [pdu |-> waitq[i], status |-> r.status]
           /\ waitq[i].prev = 0 \/ ~Awaited(waitq[i].prev)
           /\ waitq' = RemoveAt(waitq, i) /\ UNCHANGED link
           /\ \/ frames' = Tail(frames)
              \/ Len(Head(frames)) # 1 /\ frames' = <<Tail(Head(frames))>> \o Tail(frames)
  <2>1. Awaited(r.mid) /\ Final(r)
    BY <1>6 DEF SkipFrame, Final
  <2>2. i \in DOMAIN waitq /\ waitq[i].mid = r.mid
    BY <2>1 DEF Awaited, Position
  <2>3. Answers' \subseteq Answers /\ r \in Answers
    BY <1>1, <1>2, <1>6, <2>1, ReadAnswers
  <2>4. cur' # None
    <3>1. waitq[i] \in Request /\ r.status \in Statuses
      BY <1>2, <2>2, <2>3, ViewsTyped, ElementOfSeq DEF Types
    <3> QED BY <1>6, <3>1, NoneAssumption DEF Reading
  <2> PICK p : p = waitq[i]
    OBVIOUS
  <2>5. p.mid = r.mid /\ cur' = [pdu |-> p, status |-> r.status] /\ (p.prev = 0 \/ ~Awaited(p.prev))
    BY <1>6, <2>2
  <2> QED BY <1>1, <1>6, <2>2, <2>3, <2>4, <2>5, TakeOutcome
<1> QED BY <1>1, <1>4, <1>5, <1>6

\* A reply is done with, and its callback asked for nothing more: what is kept
\* whatever the user was told.
LEMMA RepliedOutcome ==
  ASSUME CallInv, OutcomeInv, link = "up", link' \in {"up", "shut"}, cur # None, cur' = None,
         NEW p, p = cur.pdu, NEW s, s = cur.status, NEW c \in Calls, c = p.call,
         UNCHANGED <<begun, outq, waitq, nextMid, inbox, frames, handles, failed, expiries>>,
         \A d \in Calls \ {c} : calls'[d] = calls[d], calls'[c].kind = calls[c].kind,
         calls'[c].status = "fail" => s = "fail" \/ calls[c].status = "fail",
         \/ /\ calls'[c].told = calls[c].told
            /\ calls'[c].status = "ok" /\ Kind(c) \in Mergers =>
                 s = "ok" /\ (calls[c].status = "ok" \/ (Kind(c) = "readlink" /\ p.cmd = "CREATE"))
         \/ Told(c)'
  PROVE  Formed' /\ Ranked' /\ Older' /\ Asking' /\ Truthful' /\ Failures' /\ Merged' /\ OpenHandles'
<1>1. /\ OnWire' = OnWire /\ InLine' = InLine /\ Unserved' = Unserved /\ Answers' = Answers
      /\ Outstanding = OnWire \cup {p} /\ Outstanding' = OnWire
  BY DEF OnWire, InLine, Unserved, Answers, Outstanding
<1>2. /\ Says(p, s) /\ ~Busy(c) /\ c \in begun /\ ~InOutq(c)
      /\ Belongs(Kind(c), p.cmd, p.cb)
      /\ \A q \in OnWire : q.call = c => Rank(p.cmd) < Rank(q.cmd)
  <2>1. IsCur(c)
    BY DEF IsCur
  <2>2. c \in begun /\ ~InOutq(c)
    BY <2>1 DEF CallInv, ToldLast, OneChain
  <2>3. Says(p, s) /\ ~Busy(c)
    BY DEF OutcomeInv, Truthful, Says
  <2> QED BY <1>1, <2>2, <2>3 DEF OutcomeInv, Formed, Ranked
<1>3. /\ \A d \in Calls : Kind(d)' = Kind(d)
      /\ \A d \in Calls \ {c} : (Told(d)' <=> Told(d)) /\ calls'[d] = calls[d]
      /\ \A d : (Busy(d)' <=> Busy(d)) /\ (InOutq(d)' <=> InOutq(d)) /\ ~IsCur(d)'
  BY <1>1 DEF Kind, Told, Busy, InOutq, IsCur
<1>4. /\ \A ch \in InLine \cup Unserved : ch[1].call \in Calls
      /\ \A q \in Outstanding : q.call \in Calls
  BY ViewsTyped DEF CallInv, Request
<1>5. Formed'
  BY <1>1, <1>3, <1>4 DEF OutcomeInv, Formed
<1>6. Ranked'
  BY <1>1 DEF OutcomeInv, Ranked
<1>7. Older'
  BY <1>1 DEF OutcomeInv, Older, Precedes
<1>8. Asking'
  <2>1. ASSUME NEW ch \in Unserved PROVE Sole(ch, ch[1].call)'
    <3>1. Sole(ch, ch[1].call) /\ ch[1].call \in Calls \ {c}
      BY <1>2, <1>4 DEF OutcomeInv, Asking, Busy
    <3> QED BY <1>1, <1>3, <3>1 DEF Sole
  <2> QED BY <1>1, <2>1 DEF OutcomeInv, Asking
<1>9. Truthful'
  BY <1>1, <1>3 DEF OutcomeInv, Truthful, Says
<1>10. Failures'
  <2>1. s = "fail" => failed[c] # {}
    BY <1>2 DEF Says
  <2>2. calls'[c].status = "fail" => failed[c] # {}
    BY <2>1 DEF OutcomeInv, Failures
  <2>3. ~Unmade(c)' /\ \A d : Unmade(d)' => Unmade(d)
    BY <1>2, <1>3 DEF Unmade
  <2>4. \A q \in Outstanding' : q \in Outstanding
    BY <1>1
  <2>5. \A q \in Outstanding' : Kind(q.call)' \notin Compounds => failed'[q.call] \subseteq {q.cmd}
    BY <1>3, <1>4, <2>4 DEF OutcomeInv, Failures
  <2>6. ASSUME NEW d \in Calls
        PROVE  /\ Kind(d)' \in Compounds /\ "CREATE" \in failed'[d] => "CLOSE" \in failed'[d]
               /\ Kind(d)' \in {"unlink", "mkdir"} => failed'[d] \subseteq {"CREATE", "CLOSE"}
               /\ Unmade(d)' => failed'[d] = {} /\ (Kind(d)' \in Mergers => calls'[d].status = "ok")
               /\ calls'[d].status = "fail" => failed'[d] # {}
    <3>1. CASE d = c
      BY <1>3, <2>2, <2>3, <3>1 DEF OutcomeInv, Failures
    <3>2. CASE d # c
      BY <1>3, <2>3, <3>2 DEF OutcomeInv, Failures
    <3> QED BY <3>1, <3>2
  <2> QED BY <2>5, <2>6 DEF Failures
<1>11. Merged'
  <2>1. /\ \A d, m : Left(d, m)' => Left(d, m)
        /\ \A d, m : Left(d, m) => Left(d, m)' \/ (d = c /\ m = p.cmd)
    BY <1>1 DEF Left
  <2>2. Left(c, p.cmd)
    BY <1>1 DEF Left
  <2>3. ~Left(c, "CREATE")'
    <3> SUFFICES ASSUME NEW q \in OnWire, q.call = c, q.cmd = "CREATE" PROVE FALSE
      BY <1>1 DEF Left
    <3>1. Rank(p.cmd) < Rank(q.cmd) /\ Rank(q.cmd) = 1
      BY <1>2 DEF Rank
    <3> QED BY <3>1 DEF Rank
  <2>4. ASSUME NEW d \in Calls, Merges(d)'
        PROVE  /\ \A m \in failed'[d] : Left(d, m)'
               /\ \A ch \in Unserved' : ch[1].call = d => \A k \in DOMAIN ch : Left(d, ch[k].cmd)'
    <3>1. CASE d # c
      <4>1. Merges(d)
        BY <1>3, <2>4, <3>1 DEF Merges
      <4>2. /\ \A m \in failed[d] : Left(d, m)
            /\ \A ch \in Unserved : ch[1].call = d => \A k \in DOMAIN ch : Left(d, ch[k].cmd)
        BY <4>1 DEF OutcomeInv, Merged
      <4> QED BY <1>1, <2>1, <3>1, <4>2
    <3>2. CASE d = c
      <4>1. /\ ~Told(c)' /\ Kind(c) \in Mergers /\ calls'[c].status = "ok"
            /\ Kind(c) = "readlink" => expiries = 0
        BY <1>3, <2>4, <3>2 DEF Merges
      <4>2. s = "ok" /\ calls'[c].told = calls[c].told
            /\ (calls[c].status = "ok" \/ (Kind(c) = "readlink" /\ p.cmd = "CREATE"))
        BY <4>1
      <4>3. calls[c].status = "ok"
        BY <2>2, <4>1, <4>2 DEF OutcomeInv, Merged
      <4>4. Merges(c)
        BY <4>1, <4>2, <4>3 DEF Merges, Told
      <4>5. \A m \in failed[c] : Left(c, m)
        BY <4>4 DEF OutcomeInv, Merged
      <4>6. p.cmd \notin failed[c]
        BY <1>2, <4>2 DEF Says
      <4>7. \A m \in failed[c] : Left(c, m)'
        BY <2>1, <4>5, <4>6
      <4> QED BY <1>1, <1>2, <3>2, <4>7 DEF Busy
    <3> QED BY <3>1, <3>2
  <2>5. expiries' = 0 => \A d \in Calls : Kind(d)' = "readlink" /\ Left(d, "CREATE")' => calls'[d].status = "ok"
    BY <1>3, <2>1, <2>3 DEF OutcomeInv, Merged
  <2> QED BY <2>4, <2>5 DEF Merged
<1>12. OpenHandles'
  <2>1. handles \subseteq Calls
    BY DEF CallInv, Types
  <2>2. \A d : ToOpen(d)' <=> ToOpen(d)
    BY <1>1 DEF ToOpen
  <2> QED BY <1>3, <2>1, <2>2 DEF OutcomeInv, OpenHandles
<1> QED BY <1>5, <1>6, <1>7, <1>8, <1>9, <1>10, <1>11, <1>12

\* What the last callback of a call tells the user is what became of it.
LEMMA LastOutcome ==
  ASSUME CallInv, OutcomeInv, link = "up", cur # None,
         NEW p, p = cur.pdu, NEW s, s = cur.status, NEW c \in Calls, c = p.call, p.cb \in Tellers,
         UNCHANGED <<failed, expiries, handles>>, calls'[c].kind = calls[c].kind,
         \A d \in Calls \ {c} : calls'[d] = calls[d],
         NEW t, calls'[c].told # <<>>, calls'[c].told[1] = t, Tells(calls[c], p.cmd, s, t)
  PROVE  HonestStatus' /\ NoLeak'
<1>1. /\ Says(p, s) /\ Belongs(Kind(c), p.cmd, p.cb)
      /\ \A q \in Outstanding : q.call = c => q = p
      /\ p \in Outstanding /\ ~Told(c)
  <2>1. TellerIsCur(c)
    BY DEF TellerIsCur, IsCur
  <2>2. ~InWaitq(c) /\ ~Told(c)
    BY <2>1 DEF CallInv, WireOrder, ToldLast
  <2>3. Outstanding = OnWire \cup {p} /\ \A q \in OnWire : q.call # c
    BY <2>2 DEF Outstanding, OnWire, InWaitq
  <2> QED BY <2>2, <2>3 DEF OutcomeInv, Truthful, Formed
<1>2. /\ Kind(c) \in Compounds => p.cmd = "CLOSE"
      /\ p.cmd = "LOGOFF" => Kind(c) = "disconnect"
      /\ Kind(c) = "close" => p.cmd = "CLOSE"
      /\ Kind(c) = "open" => p.cmd = "CREATE"
      /\ Kind(c) = "opendir" => p.cmd \in {"CREATE", "QUERY_DIRECTORY", "CLOSE"}
  <2>1. Kind(c) = "open" => p.cmd = "CREATE"
    BY <1>1 DEF Belongs
  <2>2. Kind(c) = "opendir" => p.cmd \in {"CREATE", "QUERY_DIRECTORY", "CLOSE"}
    BY <1>1 DEF Belongs
  <2> QED BY <1>1, <2>1, <2>2, BelongsFacts
<1>3. /\ t = "ok" => /\ Kind(c) \in Mergers => calls[c].status = "ok"
                     /\ s \in {"ok", "eof"} \/ Kind(c) = "readlink" \/ p.cmd = "LOGOFF"
      /\ t = "fail" => s = "fail" \/ calls[c].status = "fail"
      /\ Kind(c) = "open" => t = s
      /\ Kind(c) = "opendir" /\ p.cmd # "CLOSE" => s = "fail"
  BY DEF Tells, Kind
<1>4. /\ s = "fail" <=> p.cmd \in failed[c]
      /\ s \in Verdicts(p.cmd)
      /\ p.cmd = "CREATE" /\ s # "ok" => c \notin handles
      /\ p.cmd = "CLOSE" /\ s = "ok" => c \notin handles
  BY <1>1 DEF Says
<1>5. /\ Kind(c) \notin Compounds => failed[c] \subseteq {p.cmd}
      /\ Kind(c) \in Compounds /\ "CREATE" \in failed[c] => "CLOSE" \in failed[c]
      /\ Kind(c) \in {"unlink", "mkdir"} => failed[c] \subseteq {"CREATE", "CLOSE"}
      /\ calls[c].status = "fail" => failed[c] # {}
  BY <1>1 DEF OutcomeInv, Failures
<1>6. t = "ok" => failed[c] \subseteq Ignored(Kind(c)) \/ (Kind(c) = "readlink" /\ expiries > 0)
  <2> SUFFICES ASSUME t = "ok"
               PROVE  failed[c] \subseteq Ignored(Kind(c)) \/ (Kind(c) = "readlink" /\ expiries > 0)
    OBVIOUS
  <2>1. CASE Kind(c) \notin Compounds
    <3>1. Kind(c) # "readlink"
      BY <2>1 DEF Compounds
    <3>2. CASE s \in {"ok", "eof"}
      BY <1>4, <1>5, <2>1, <3>2
    <3>3. CASE p.cmd = "LOGOFF"
      <4>1. Ignored(Kind(c)) = {"LOGOFF"}
        BY <1>2, <3>3 DEF Ignored
      <4> QED BY <1>5, <2>1, <3>3, <4>1
    <3> QED BY <1>3, <3>1, <3>2, <3>3
  <2>2. CASE Kind(c) \in {"unlink", "mkdir"}
    <3>1. Kind(c) \in Compounds
      BY <2>2 DEF Compounds
    <3>2. p.cmd = "CLOSE" /\ s # "fail"
      BY <1>2, <1>3, <2>2, <3>1
    <3> QED BY <1>4, <1>5, <2>2, <3>1, <3>2
  <2>3. CASE Kind(c) \in Mergers
    <3>1. Kind(c) \in Compounds /\ p.cmd = "CLOSE" /\ calls[c].status = "ok"
      BY <1>2, <1>3, <2>3 DEF Mergers
    <3>2. (Kind(c) = "readlink" => expiries = 0) => Merges(c)
      BY <1>1, <2>3, <3>1 DEF Merges
    <3>3. Merges(c) => failed[c] \subseteq {"CLOSE"}
      <4>1. Merges(c) => \A m \in failed[c] : Left(c, m)
        BY DEF OutcomeInv, Merged
      <4>2. \A m : Left(c, m) => m = "CLOSE"
        BY <1>1, <3>1 DEF Left
      <4> QED BY <4>1, <4>2
    <3>4. CASE Kind(c) = "readlink"
      <4>1. Ignored(Kind(c)) = {"CLOSE"}
        BY <3>4 DEF Ignored
      <4>2. expiries = 0 \/ expiries > 0
        BY DEF CallInv, Types
      <4> QED BY <3>2, <3>3, <3>4, <4>1, <4>2
    <3>5. CASE Kind(c) # "readlink"
      <4>1. s # "fail" /\ "CLOSE" \notin failed[c]
        BY <1>2, <1>3, <1>4, <3>1, <3>5
      <4> QED BY <3>2, <3>3, <3>5, <4>1
    <3> QED BY <3>4, <3>5
  <2> QED BY <2>1, <2>2, <2>3 DEF Mergers
<1>7. t = "fail" => failed[c] # {}
  BY <1>3, <1>4, <1>5
<1>8. Kind(c)' = Kind(c) /\ \A d \in Calls \ {c} : Told(d)' <=> Told(d)
  BY DEF Kind, Told
<1>9. HonestStatus'
  <2>1. ASSUME NEW d \in Calls, Told(d)'
        PROVE  /\ calls'[d].told[1] = "ok" =>
                    \/ failed'[d] \subseteq Ignored(calls'[d].kind)
                    \/ calls'[d].kind = "readlink" /\ expiries' > 0
               /\ calls'[d].told[1] = "fail" /\ link' = "up" => failed'[d] # {}
    <3>1. CASE d = c
      BY <1>6, <1>7, <3>1 DEF Kind
    <3>2. CASE d # c
      BY <1>8, <2>1, <3>2 DEF OutcomeInv, HonestStatus
    <3> QED BY <3>1, <3>2
  <2> QED BY <2>1 DEF HonestStatus
<1>10. NoLeak'
  <2>1. ASSUME NEW d \in handles, Told(d)', expiries = 0 PROVE Leaves(d)'
    <3>0. d \in Calls
      BY DEF CallInv, Types
    <3>1. CASE d # c
      <4>1. Leaves(d)
        BY <1>8, <2>1, <3>0, <3>1 DEF OutcomeInv, NoLeak
      <4> QED BY <3>0, <3>1, <4>1 DEF Leaves
    <3>2. CASE d = c
      <4>1. Kind(c) \in Holders \cup Openers \/ (Kind(c) \in Compounds /\ "CLOSE" \in failed[c])
        BY <3>2 DEF OutcomeInv, OpenHandles
      <4>2. p.cmd = "CLOSE" => "CLOSE" \in failed[c]
        BY <1>4, <3>2 DEF Verdicts
      <4>3. CASE Kind(c) = "open"
        BY <1>2, <1>3, <1>4, <3>2, <4>3 DEF Leaves, Kind
      <4>4. CASE Kind(c) = "opendir"
        <5>1. "CLOSE" \in failed[c] \/ "QUERY_DIRECTORY" \in failed[c]
          BY <1>2, <1>3, <1>4, <3>2, <4>2, <4>4
        <5> QED BY <3>2, <4>4, <5>1 DEF Leaves, Kind
      <4>5. CASE Kind(c) = "close" \/ "CLOSE" \in failed[c]
        BY <1>2, <3>2, <4>2, <4>5 DEF Leaves
      <4>6. CASE Kind(c) \in {"fsync", "read", "write", "fstat", "ftruncate", "shares"}
        BY <3>2, <4>6 DEF Leaves, Kind
      <4> QED BY <4>1, <4>3, <4>4, <4>5, <4>6 DEF Holders, Openers
    <3> QED BY <3>1, <3>2
  <2> QED BY <2>1 DEF NoLeak
<1> QED BY <1>9, <1>10

\* The rest of a reply: its callback runs.
LEMMA ReadBodyOutcome ==
  ASSUME CallInv, CallInv', CreditInv, OutcomeInv, ReadBody,
         NEW p, p = cur.pdu, NEW s, s = cur.status, NEW c, c = p.call
  PROVE  OutcomeInv'
<1> DEFINE st == Complete(Before, p, s)
           e == Callback(p.cb, calls[p.call], s)
<1>1. /\ link = "up" /\ cur # None /\ cur' = None /\ link' \in {"up", "shut"}
      /\ calls' = st.calls /\ outq' = st.outq /\ nextMid' = st.nextMid
      /\ UNCHANGED <<begun, waitq, inbox, frames, handles, failed, expiries>>
  BY DEF ReadBody, Becomes, server
<1>2. Types /\ Types' /\ p \in Request /\ s \in Statuses /\ c \in Calls /\ calls[c] \in Call
      /\ calls \in [Calls -> Call]
  <2>1. Types /\ Types'
    BY DEF CallInv
  <2>2. p \in Request /\ s \in Statuses
    BY <1>1, <2>1 DEF Types, Reading
  <2> QED BY <2>1, <2>2 DEF Request, Types
<1>3. /\ st.calls = [calls EXCEPT ![p.call] = e.call]
      /\ e.chain = <<>> => st.outq = outq /\ st.nextMid = nextMid
      /\ e.chain # <<>> =>
           LET pdus == Numbered(p.call, e.chain, nextMid, credits)
           IN st.outq = Append(outq, pdus) /\ st.nextMid = nextMid + Widths(pdus)
  BY <1>2, CompleteOutcome
<1> HIDE DEF st
<1>4. /\ \A d \in Calls \ {c} : calls'[d] = calls[d]
      /\ calls'[c] = e.call
  BY <1>1, <1>2, <1>3
<1>5. /\ Says(p, s) /\ Belongs(Kind(c), p.cmd, p.cb) /\ Belongs(calls[c].kind, p.cmd, p.cb)
      /\ IsCur(c) /\ c \in begun /\ ~InOutq(c)
  <2>1. IsCur(c)
    BY <1>1 DEF IsCur
  <2>2. c \in begun /\ ~InOutq(c)
    BY <1>2, <2>1 DEF CallInv, ToldLast, OneChain
  <2>3. Says(p, s)
    BY <1>1 DEF OutcomeInv, Truthful
  <2>4. Belongs(Kind(c), p.cmd, p.cb)
    BY <1>1 DEF OutcomeInv, Formed, Outstanding
  <2> QED BY <2>1, <2>2, <2>3, <2>4 DEF Kind
<1>6. s \in Verdicts(p.cmd)
  BY <1>5 DEF Says
<1>7. CASE p.cb \in Silent
  <2>1. e.call.kind = calls[c].kind /\ e.chain = <<>>
    BY <1>2, <1>7, CallbackEffect
  <2>2. /\ e.call.told = calls[c].told
        /\ e.call.status = "fail" => calls[c].status = "fail" \/ s = "fail"
        /\ e.call.status = "ok" /\ p.cb \in Merging =>
             s = "ok" /\ (p.cb # "readlink_cb_1" => calls[c].status = "ok")
    BY <1>2, <1>7, SilentOutcome
  <2> HIDE DEF e
  <2>3. UNCHANGED <<begun, outq, waitq, nextMid, inbox, frames, handles, failed, expiries>>
    BY <1>1, <1>3, <2>1
  <2>4. Kind(c) \in Mergers => p.cb \in Merging
    BY <1>5, <1>7, BelongsFacts
  <2>5. p.cb = "readlink_cb_1" => Kind(c) = "readlink" /\ p.cmd = "CREATE"
    BY <1>5 DEF Belongs
  <2>6. /\ calls'[c].kind = calls[c].kind /\ calls'[c].told = calls[c].told
        /\ calls'[c].status = "fail" => s = "fail" \/ calls[c].status = "fail"
        /\ calls'[c].status = "ok" /\ Kind(c) \in Mergers =>
             s = "ok" /\ (calls[c].status = "ok" \/ (Kind(c) = "readlink" /\ p.cmd = "CREATE"))
    BY <1>4, <2>1, <2>2, <2>4, <2>5
  <2>7. Formed' /\ Ranked' /\ Older' /\ Asking' /\ Truthful' /\ Failures' /\ Merged' /\ OpenHandles'
    BY <1>1, <1>2, <1>4, <2>3, <2>6, RepliedOutcome
  <2>8. \A d \in Calls : calls'[d].told = calls[d].told /\ calls'[d].kind = calls[d].kind
    BY <1>4, <2>6
  <2>9. HonestStatus'
    BY <1>1, <2>8 DEF OutcomeInv, HonestStatus, Told
  <2>10. NoLeak'
    BY <1>1, <1>2, <2>8 DEF OutcomeInv, NoLeak, Told, Leaves, Types
  <2> QED BY <2>7, <2>9, <2>10 DEF OutcomeInv
<1>8. CASE p.cb \in Tellers
  <2>1. \/ /\ calls[c].kind \notin Compounds /\ s # "fail"
           /\ \E f \in FollowUps : /\ e.call = calls[c] /\ e.chain = <<f>>
                                   /\ Belongs(calls[c].kind, f.cmd, f.cb) /\ f.cmd # "CREATE"
        \/ /\ e.chain = <<>>
           /\ e.call.status = "fail" => s = "fail" \/ calls[c].status = "fail"
           /\ \E t \in Statuses : e.call.told = Append(calls[c].told, t)
                                  /\ Tells(calls[c], p.cmd, s, t)
    <3> DEFINE call == calls[c]
               cmd == p.cmd
               cb == p.cb
    <3>1. call \in Call /\ s \in Verdicts(cmd) /\ cb \in Tellers /\ Belongs(call.kind, cmd, cb)
      BY <1>2, <1>5, <1>6, <1>8
    <3>2. e = Callback(cb, call, s)
      OBVIOUS
    <3> HIDE DEF call, cmd, cb, e
    <3>3. \/ /\ call.kind \notin Compounds /\ s # "fail"
             /\ \E f \in FollowUps : /\ e.call = call /\ e.chain = <<f>>
                                     /\ Belongs(call.kind, f.cmd, f.cb) /\ f.cmd # "CREATE"
          \/ /\ e.chain = <<>>
             /\ e.call.status = "fail" => s = "fail" \/ call.status = "fail"
             /\ \E t \in Statuses : e.call.told = Append(call.told, t) /\ Tells(call, cmd, s, t)
      BY <3>1, <3>2, TellerOutcome
    <3> QED BY <3>3 DEF call, cmd
  <2>2. TellerIsCur(c)
    BY <1>1, <1>8 DEF TellerIsCur, IsCur
  <2>3. ~Told(c) /\ calls[c].told = <<>>
    BY <1>2, <2>2 DEF CallInv, ToldLast, Told
  <2>4. ASSUME calls[c].kind \notin Compounds, s # "fail", NEW f \in FollowUps, e.call = calls[c],
               e.chain = <<f>>, Belongs(calls[c].kind, f.cmd, f.cb), f.cmd # "CREATE"
        PROVE  OutcomeInv'
    <3> DEFINE chain == <<f>>
               pdus == Numbered(c, chain, nextMid, credits)
    <3>1. Chained(chain) /\ Len(chain) = 1 /\ DOMAIN chain = {1} /\ chain[1] = f
      BY FollowUpChained
    <3>2. outq' = Append(outq, pdus) /\ nextMid' = nextMid + Widths(pdus)
      <4>1. e.chain # <<>>
        BY <2>4
      <4> QED BY <1>1, <1>3, <2>4, <4>1
    <3> HIDE DEF chain, e
    <3>3. Form(Kind(c), chain)
      BY <2>4, <3>1 DEF Form, Kind
    <3>4. /\ pdus \in Chains /\ Form(Kind(c), pdus) /\ nextMid <= nextMid + Widths(pdus)
          /\ pdus[1].cmd = chain[1].cmd
          /\ \A k \in DOMAIN pdus : pdus[k].call = c /\ nextMid <= pdus[k].mid
      <4>1. /\ chain \in Seq(Command) /\ chain # <<>> /\ nextMid \in Nat /\ credits \in Nat
            /\ \A k \in DOMAIN chain : chain[k].cb \in (IF k = Len(chain) THEN Tellers ELSE Silent)
        BY <1>2, <3>1 DEF Chained, Types
      <4>2. Len(chain) > 1 => nextMid > 0
        BY <3>1
      <4> DEFINE kind == Kind(c)
      <4>3. Form(kind, chain)
        BY <3>3
      <4> HIDE DEF kind
      <4>4. LET q == Numbered(c, chain, nextMid, credits) IN
            /\ q \in Chains /\ Form(kind, q) /\ q[1].cmd = chain[1].cmd
            /\ nextMid <= nextMid + Widths(q)
            /\ \A k \in DOMAIN q : q[k].call = c /\ nextMid <= q[k].mid
        BY <1>2, <4>1, <4>2, <4>3, NumberedForm
      <4> QED BY <4>4 DEF kind
    <3> HIDE DEF pdus
    <3>5. InLine' = InLine \cup {pdus}
      BY <1>2, <3>2, <3>4, InLineAppend
    <3>6. Kind(c) \notin Compounds /\ Kind(c) \notin Mergers
      BY <2>4 DEF Kind, Mergers
    <3>7. failed[c] = {}
      <4>1. failed[c] \subseteq {p.cmd}
        BY <1>1, <3>6 DEF OutcomeInv, Failures, Outstanding
      <4>2. p.cmd \notin failed[c]
        BY <1>5, <2>4 DEF Says
      <4> QED BY <4>1, <4>2
    <3>8. ~Busy(c)
      BY <1>5 DEF Says
    <3>9. Joins(pdus, c)
      BY <2>3, <2>4, <3>1, <3>4, <3>6, <3>7, <3>8 DEF Joins
    <3>10. calls' = calls
      BY <1>1, <1>2, <1>3, <2>4
    <3>11. nextMid <= nextMid' /\ begun' = begun \cup {c}
      BY <1>1, <1>5, <3>2, <3>4
    <3>12. UNCHANGED <<calls, waitq, inbox, frames, handles, failed, expiries>>
      BY <1>1, <3>10
    <3>13. cur # None /\ cur' = None /\ cur.pdu.call = c /\ Kind(c) \notin Compounds
      BY <1>1, <3>6
    <3> QED BY <1>1, <1>2, <3>5, <3>9, <3>11, <3>12, <3>13, QueueOutcome
  <2>5. ASSUME e.chain = <<>>, e.call.status = "fail" => s = "fail" \/ calls[c].status = "fail",
               NEW t \in Statuses, e.call.told = Append(calls[c].told, t), Tells(calls[c], p.cmd, s, t)
        PROVE  OutcomeInv'
    <3>0. e.call.kind = calls[c].kind
      BY <1>2, <1>8, CallbackEffect
    <3> HIDE DEF e
    <3>1. UNCHANGED <<begun, outq, waitq, nextMid, inbox, frames, handles, failed, expiries>>
      BY <1>1, <1>3, <2>5
    <3>2. /\ calls'[c].told # <<>> /\ calls'[c].told[1] = t
          /\ calls'[c].kind = calls[c].kind
          /\ calls'[c].status = "fail" => s = "fail" \/ calls[c].status = "fail"
      BY <1>4, <2>3, <2>5, <3>0, ToldFirst
    <3>3. Told(c)'
      BY <3>2 DEF Told
    <3>4. Formed' /\ Ranked' /\ Older' /\ Asking' /\ Truthful' /\ Failures' /\ Merged' /\ OpenHandles'
      BY <1>1, <1>2, <1>4, <3>1, <3>2, <3>3, RepliedOutcome
    <3>5. HonestStatus' /\ NoLeak'
      BY <1>1, <1>2, <1>4, <1>8, <2>5, <3>2, LastOutcome
    <3> QED BY <3>4, <3>5 DEF OutcomeInv
  <2> QED BY <2>1, <2>4, <2>5
<1> QED BY <1>2, <1>7, <1>8 DEF Request

-----------------------------------------------------------------------------
\* Requests are given up.

\* What becomes of a call when the requests G are given up together.
Fated(G, c, after) ==
  /\ after.kind = calls[c].kind
  /\ (\A p \in G : p.call # c) => after = calls[c]
  /\ after.status = "fail" => calls[c].status = "fail"
  /\ after.status = "ok" => calls[c].status = "ok" /\ \A p \in G : p.call = c => p.cb \notin Merging
  /\ \/ after.told = calls[c].told /\ \A p \in G : p.call = c => p.cb \notin Tellers
     \/ /\ calls[c].told = <<>> /\ after.told # <<>>
        /\ \E p \in G : p.call = c /\ p.cb \in Tellers /\ ToldOf(p, after, calls[c])

\* The requests G were given up: h heads of outq, m = 1 for cur, w of waitq.
Parted(st, G, h, m, w) ==
  /\ st \in GivingUp /\ \A c \in Calls : Fated(G, c, st.calls[c])
  /\ \A p \in G : \/ \E i \in 1..h : p = outq[i][1]
                  \/ m = 1 /\ cur # None /\ p = cur.pdu
                  \/ \E i \in 1..w : p = waitq[i]
  /\ \A i \in 1..h : outq[i][1] \in G
  /\ m = 1 => cur.pdu \in G
  /\ \A i \in 1..w : waitq[i] \in G

\* The requests of a shape, and what becomes of every call.
LEMMA GiveUpOutcome ==
  ASSUME Types, Whereabouts, NEW given, NEW h, NEW m, NEW w, Shape(given, h, m, w), NEW s \in Ages
  PROVE  LET st == CompleteAll(given, s)
             G == {given[i] : i \in DOMAIN given}
         IN Parted(st, G, h, m, w)
<1> DEFINE st == CompleteAll(given, s)
           G == {given[i] : i \in DOMAIN given}
           L == Len(given)
<1>1. /\ calls \in [Calls -> Call] /\ late \subseteq Calls /\ given \in Seq(Request)
      /\ \A i, j \in DOMAIN given :
           i < j /\ given[i].call = given[j].call => given[i].cb \notin Tellers
      /\ \A i \in DOMAIN given : given[i].cb \in Tellers => calls[given[i].call].told = <<>>
  BY GivenApart
<1>2. \A c \in Calls : Fate(given, L, c, st.calls[c])
  BY <1>1, GivenOutcome
<1>3. st \in GivingUp
  BY GiveUp
<1>4. DOMAIN given = 1..L
  BY <1>1, LenProperties
<1> HIDE DEF st, L
<1>5. ASSUME NEW c \in Calls PROVE Fated(G, c, st.calls[c])
  <2>1. Fate(given, L, c, st.calls[c])
    BY <1>2
  <2>2. \A p : p \in G <=> \E i \in 1..L : p = given[i]
    BY <1>4
  <2> HIDE DEF G
  <2> QED BY <2>1, <2>2 DEF Fate, Fated, Silently
<1>6. /\ DOMAIN given = 1..(h + m + w) /\ h \in Nat /\ m \in Nat /\ w \in Nat
      /\ \A i \in DOMAIN given : \/ i \in 1..h /\ given[i] = outq[i][1]
                                 \/ m = 1 /\ i = h + 1 /\ cur # None /\ given[i] = cur.pdu
                                 \/ /\ i - h - m \in 1..w /\ i > h + m
                                    /\ given[i] = waitq[i - h - m]
  BY ShapePlaces
<1>7. ASSUME NEW p \in G
      PROVE  \/ \E i \in 1..h : p = outq[i][1]
             \/ m = 1 /\ cur # None /\ p = cur.pdu
             \/ \E i \in 1..w : p = waitq[i]
  BY <1>6
<1>8. /\ \A i \in 1..h : outq[i][1] \in G
      /\ m = 1 => cur.pdu \in G
      /\ \A i \in 1..w : waitq[i] \in G
  <2>1. /\ \A i \in 1..h : given[i] = outq[i][1]
        /\ m = 1 => given[h + 1] = cur.pdu
        /\ \A i \in 1..w : given[h + m + i] = waitq[i]
    BY DEF Shape
  <2>2. /\ \A i \in 1..h : i \in DOMAIN given
        /\ m = 1 => h + 1 \in DOMAIN given
        /\ \A i \in 1..w : h + m + i \in DOMAIN given
    BY <1>6
  <2> QED BY <2>1, <2>2
<1> HIDE DEF G
<1>9. Parted(st, G, h, m, w)
  BY <1>3, <1>5, <1>7, <1>8 DEF Parted
<1> QED BY <1>9 DEF st, G

\* A request given up is of its call's kind; the status of a LOGOFF is ignored.
LEMMA GivenRequest ==
  ASSUME CallInv, OutcomeInv, NEW p,
         p \in Outstanding \/ \E ch \in InLine : p = ch[1]
  PROVE  /\ p.call \in Calls /\ Belongs(Kind(p.call), p.cmd, p.cb)
         /\ p.cb = "disconnect_cb_2" =>
              failed[p.call] \subseteq Ignored(Kind(p.call)) /\ p.cmd = "LOGOFF"
         /\ p.cb = "readlink_cb_3" => Kind(p.call) = "readlink"
         /\ Kind(p.call) \in Mergers /\ p.cb \notin Tellers => p.cb \in Merging
         /\ Kind(p.call) = "readlink" /\ p.cb \notin Merging => p.cmd = "CLOSE"
<1>1. Types
  BY DEF CallInv
<1>2. p.call \in Calls /\ Belongs(Kind(p.call), p.cmd, p.cb)
  <2>1. CASE p \in Outstanding
    BY <1>1, <2>1, ViewsTyped DEF OutcomeInv, Formed, Request
  <2>2. CASE \E ch \in InLine : p = ch[1]
    <3>1. PICK ch \in InLine : p = ch[1]
      BY <2>2
    <3>2. 1 \in DOMAIN ch /\ ch[1].call \in Calls
      BY <1>1, <3>1, ViewsTyped
    <3> QED BY <3>1, <3>2 DEF OutcomeInv, Formed, Form
  <2> QED BY <2>1, <2>2
<1> DEFINE kind == Kind(p.call)
           cmd == p.cmd
           cb == p.cb
<1>3. Belongs(kind, cmd, cb)
  BY <1>2
<1> HIDE DEF kind, cmd, cb
<1>4. /\ cmd = "LOGOFF" => kind = "disconnect"
      /\ cb = "disconnect_cb_2" => cmd = "LOGOFF"
      /\ cb = "readlink_cb_3" => kind = "readlink"
      /\ kind = "readlink" /\ cb \notin Merging => cmd = "CLOSE"
      /\ cb \in Silent \cup Tellers
      /\ cb \in Silent => kind \in Compounds /\ (kind \in Mergers => cb \in Merging)
  BY <1>3, BelongsFacts
<1>5. cb = "disconnect_cb_2" => failed[p.call] \subseteq Ignored(kind)
  <2> SUFFICES ASSUME cb = "disconnect_cb_2" PROVE failed[p.call] \subseteq Ignored(kind)
    OBVIOUS
  <2>1. Ignored(kind) = {"LOGOFF"} /\ kind \notin Compounds /\ p.cmd = "LOGOFF"
    BY <1>4 DEF Ignored, Compounds, cmd
  <2>2. CASE p \in Outstanding
    BY <2>1, <2>2 DEF OutcomeInv, Failures, kind
  <2>3. CASE \E ch \in InLine : p = ch[1]
    <3>1. InOutq(p.call)
      BY <1>1, <2>3, ViewsTyped
    <3>2. failed[p.call] = {}
      BY <1>2, <3>1 DEF OutcomeInv, Failures, Unmade
    <3> QED BY <3>2
  <2> QED BY <2>2, <2>3
<1> QED BY <1>2, <1>4, <1>5 DEF kind, cmd, cb

\* smb2_timeout_pdus gives up some requests of the wire and the heads of some
\* chains in line, and what is left stays as it was.
LEMMA TimeOutViews ==
  ASSUME CallInv, NEW n \in 1..(Len(waitq) + Len(outq)), smb2_timeout_pdus(n)
  PROVE  /\ InLine' \subseteq InLine /\ OnWire' \subseteq OnWire /\ nextMid' = nextMid
         /\ RankedWire(waitq) => RankedWire(waitq')
         /\ \E G : /\ \A c \in Calls : Fated(G, c, calls'[c])
                   /\ OnWire \subseteq OnWire' \cup G
                   /\ \A p \in G : \/ p \in OnWire
                                   \/ /\ \E ch \in InLine : p = ch[1]
                                      /\ \A x \in InLine' : x[1].call # p.call
<1> DEFINE w == IF n < Len(waitq) THEN n ELSE Len(waitq)
           h == n - w
           unsent == SubSeq(outq, 1, h)
           given == Heads(unsent) \o SubSeq(waitq, 1, w)
           st == CompleteAll(given, "timeout")
           sums == [i \in DOMAIN unsent |-> Charge(unsent[i])]
<1>1. /\ Becomes([st EXCEPT !.skipped = @ + Total(sums)])
      /\ outq' = SubSeq(outq, h + 1, Len(outq)) /\ waitq' = SubSeq(waitq, w + 1, Len(waitq))
  BY DEF smb2_timeout_pdus
<1>2. Types /\ Whereabouts
  BY DEF CallInv, Whereabouts
<1>3. /\ Len(outq) \in Nat /\ Len(waitq) \in Nat /\ outq \in Seq(Seq(Request))
      /\ waitq \in Seq(Request) /\ DOMAIN outq = 1..Len(outq) /\ DOMAIN waitq = 1..Len(waitq)
  BY <1>2, LenProperties DEF Types
<1>4. h \in 0..Len(outq) /\ w \in 0..Len(waitq)
  BY <1>3
<1> HIDE DEF h, w
<1>5. Shape(given, h, 0, w)
  <2> DEFINE a == Heads(unsent)
             mid == <<>>
  <2> PICK m \in {0, 1} : m = 0
    OBVIOUS
  <2>1. mid \in Seq(Request) /\ Len(mid) = m /\ m # 1
    OBVIOUS
  <2> HIDE DEF mid
  <2>2. Shape((a \o mid) \o SubSeq(waitq, 1, w), h, m, w) /\ a \in Seq(Request)
    BY <1>2, <1>4, <2>1, HeadsShape
  <2> HIDE DEF a
  <2>3. a \o mid = a
    BY <2>2, ConcatEmptySeq DEF mid
  <2> QED BY <2>2, <2>3 DEF a
<1> DEFINE G == {given[i] : i \in DOMAIN given}
<1>6. /\ st \in GivingUp /\ \A c \in Calls : Fated(G, c, st.calls[c])
      /\ \A p \in G : (\E i \in 1..h : p = outq[i][1]) \/ (\E i \in 1..w : p = waitq[i])
      /\ \A i \in 1..w : waitq[i] \in G
  <2> PICK s \in Ages : s = "timeout"
    BY DEF Ages
  <2> PICK m \in {0, 1} : m = 0
    OBVIOUS
  <2> HIDE DEF given
  <2>0. Shape(given, h, m, w)
    BY <1>5
  <2>1. LET x == CompleteAll(given, s)
            g == {given[i] : i \in DOMAIN given}
        IN Parted(x, g, h, m, w)
    BY <1>2, <2>0, GiveUpOutcome
  <2>2. Parted(st, G, h, 0, w)
    BY <2>1
  <2> HIDE DEF st, G
  <2> QED BY <2>2 DEF Parted
<1> HIDE DEF given, st, sums, G
<1>7. calls' = st.calls /\ nextMid' = nextMid
  <2> DEFINE more == Total(sums)
  <2>1. Becomes([st EXCEPT !.skipped = @ + more])
    BY <1>1
  <2> HIDE DEF more
  <2> QED BY <1>6, <2>1 DEF Becomes, GivingUp
<1> DEFINE O == Len(outq) - h
           W == Len(waitq) - w
<1>8. /\ DOMAIN outq' = 1..O
      /\ \A i \in 1..O : outq'[i] = outq[h + i] /\ h + i \in DOMAIN outq /\ h + i \notin 1..h
  <2>1. /\ outq' \in Seq(Seq(Request)) /\ Len(outq') = O /\ \A i \in 1..O : outq'[i] = outq[h + i]
    BY <1>1, <1>3, <1>4, SuffixElements
  <2>2. \A i \in 1..O : h + i \in 1..Len(outq) /\ h + i \notin 1..h
    BY <1>3, <1>4
  <2>3. DOMAIN outq' = 1..Len(outq')
    BY <2>1, LenProperties
  <2> HIDE DEF O
  <2> QED BY <1>3, <2>1, <2>2, <2>3
<1>9. /\ DOMAIN waitq' = 1..W
      /\ \A i \in 1..W : waitq'[i] = waitq[w + i] /\ w + i \in DOMAIN waitq
      /\ \A i, j \in 1..W : i < j => w + i < w + j
      /\ \A i \in DOMAIN waitq : i \in 1..w \/ \E j \in 1..W : i = w + j
  <2>1. /\ waitq' \in Seq(Request) /\ Len(waitq') = W /\ \A i \in 1..W : waitq'[i] = waitq[w + i]
    BY <1>1, <1>3, <1>4, SuffixElements
  <2>2. /\ \A i \in 1..W : w + i \in 1..Len(waitq)
        /\ \A i, j \in 1..W : i < j => w + i < w + j
    BY <1>3, <1>4
  <2>3. \A i \in 1..Len(waitq) : i \in 1..w \/ (i - w \in 1..W /\ i = w + (i - w))
    BY <1>3, <1>4
  <2>4. DOMAIN waitq' = 1..Len(waitq')
    BY <2>1, LenProperties
  <2> HIDE DEF W
  <2> QED BY <1>3, <2>1, <2>2, <2>3, <2>4
<1>10. 1..h \subseteq DOMAIN outq /\ 1..w \subseteq DOMAIN waitq
  BY <1>3, <1>4
<1> HIDE DEF O, W
<1>11. InLine' \subseteq InLine /\ OnWire' \subseteq OnWire /\ OnWire \subseteq OnWire' \cup G
  <2>1. InLine' \subseteq InLine
    BY <1>8 DEF InLine
  <2>2. OnWire' \subseteq OnWire
    BY <1>9 DEF OnWire
  <2>3. \A i \in DOMAIN waitq : waitq[i] \in G \/ \E j \in DOMAIN waitq' : waitq[i] = waitq'[j]
    BY <1>6, <1>9
  <2>4. \A x : x \in OnWire' <=> \E j \in DOMAIN waitq' : x = waitq'[j]
    BY DEF OnWire
  <2>5. OnWire \subseteq OnWire' \cup G
    BY <2>3, <2>4 DEF OnWire
  <2> QED BY <2>1, <2>2, <2>5
<1>12. RankedWire(waitq) => RankedWire(waitq')
  BY <1>9 DEF RankedWire
<1>13. ASSUME NEW p \in G
       PROVE  \/ p \in OnWire
              \/ (\E ch \in InLine : p = ch[1]) /\ \A x \in InLine' : x[1].call # p.call
  <2>1. CASE \E i \in 1..w : p = waitq[i]
    BY <1>10, <2>1 DEF OnWire
  <2>2. CASE \E i \in 1..h : p = outq[i][1]
    <3>1. PICK i \in 1..h : p = outq[i][1]
      BY <2>2
    <3>2. i \in DOMAIN outq /\ outq[i] \in InLine
      BY <1>10 DEF InLine
    <3>3. ASSUME NEW x \in InLine', x[1].call = p.call PROVE FALSE
      <4>1. PICK j \in DOMAIN outq' : x = outq'[j]
        BY <3>3 DEF InLine
      <4>2. x = outq[h + j] /\ h + j \in DOMAIN outq /\ h + j # i
        BY <1>8, <4>1
      <4> QED BY <1>2, <3>1, <3>2, <3>3, <4>2 DEF Whereabouts, OneChain
    <3> QED BY <3>1, <3>2, <3>3
  <2> QED BY <1>6, <2>1, <2>2
<1>14. \A c \in Calls : Fated(G, c, calls'[c])
  BY <1>6, <1>7
<1> QED BY <1>7, <1>11, <1>12, <1>13, <1>14

\* Requests given up for their age, with what is left where it was.
LEMMA ExpiredOutcome ==
  ASSUME CallInv, OutcomeInv, link = "up", link' \in {"up", "shut", "crashed"},
         UNCHANGED <<begun, cur, nextMid, inbox, frames, handles, failed>>,
         expiries' = expiries + 1,
         InLine' \subseteq InLine, OnWire' \subseteq OnWire,
         RankedWire(waitq) => RankedWire(waitq'),
         NEW G, \A c \in Calls : Fated(G, c, calls'[c]), OnWire \subseteq OnWire' \cup G,
         \A p \in G : \/ p \in OnWire
                      \/ /\ \E ch \in InLine : p = ch[1]
                         /\ \A x \in InLine' : x[1].call # p.call
  PROVE  OutcomeInv'
<1>1. Types /\ handles \subseteq Calls /\ expiries' > 0 /\ expiries' # 0
  <2>1. Types /\ handles \subseteq Calls /\ expiries \in Nat
    BY DEF CallInv, Types
  <2> QED BY <2>1
<1>2. /\ Unserved' = Unserved /\ Answers' = Answers
      /\ Outstanding' \subseteq Outstanding /\ Outstanding \subseteq Outstanding' \cup G
      /\ OnWire \subseteq Outstanding
      /\ InLine' \subseteq InLine /\ OnWire' \subseteq OnWire
  BY DEF Unserved, Answers, Outstanding
<1>3. /\ \A d \in Calls : Kind(d)' = Kind(d)
      /\ \A d : (Busy(d)' <=> Busy(d)) /\ (IsCur(d)' <=> IsCur(d))
      /\ \A d : InOutq(d) <=> \E ch \in InLine : ch[1].call = d
      /\ \A d : InOutq(d)' => \E ch \in InLine' : ch[1].call = d
      /\ \A d : InOutq(d)' => InOutq(d)
  <2>1. \A d \in Calls : Kind(d)' = Kind(d)
    BY DEF Fated, Kind
  <2>2. \A d : (Busy(d)' <=> Busy(d)) /\ (IsCur(d)' <=> IsCur(d))
    BY <1>2 DEF Busy, IsCur
  <2>3. \A d : InOutq(d) <=> \E ch \in InLine : ch[1].call = d
    BY DEF InOutq, InLine
  <2>4. \A d : InOutq(d)' => \E ch \in InLine' : ch[1].call = d
    BY DEF InOutq, InLine
  <2> QED BY <2>1, <2>2, <2>3, <2>4
<1>4. /\ \A ch \in InLine \cup Unserved : ch[1].call \in Calls
      /\ \A p \in Outstanding : p.call \in Calls
  BY <1>1, ViewsTyped DEF Request
<1>5. \A p \in G :
         /\ p.call \in Calls /\ Belongs(Kind(p.call), p.cmd, p.cb)
         /\ p.cb = "disconnect_cb_2" =>
              failed[p.call] \subseteq Ignored(Kind(p.call)) /\ p.cmd = "LOGOFF"
         /\ p.cb = "readlink_cb_3" => Kind(p.call) = "readlink"
         /\ Kind(p.call) \in Mergers /\ p.cb \notin Tellers => p.cb \in Merging
  <2> TAKE p \in G
  <2>1. p \in Outstanding \/ \E ch \in InLine : p = ch[1]
    BY <1>2
  <2> QED BY <2>1, GivenRequest
<1>6. Formed'
  BY <1>2, <1>3, <1>4 DEF OutcomeInv, Formed
<1>7. Ranked'
  BY <1>2 DEF OutcomeInv, Ranked
<1>8. Older'
  BY <1>2 DEF OutcomeInv, Older, Precedes
<1>9. Truthful'
  BY <1>2, <1>3 DEF OutcomeInv, Truthful, Says
<1>10. OpenHandles'
  <2>1. \A d : ToOpen(d)' => ToOpen(d)
    BY <1>2 DEF ToOpen
  <2> QED BY <1>1, <1>3, <2>1 DEF OutcomeInv, OpenHandles
<1>11. ASSUME NEW d \in Calls, Told(d)', NEW t, t = calls'[d].told[1]
       PROVE  \/ calls'[d].told = calls[d].told
              \/ \E p \in G : /\ p.call = d
                              /\ t = "ok" => p.cb \in {"disconnect_cb_2", "readlink_cb_3"}
                              /\ t = "fail" => calls[d].status = "fail"
  BY <1>11 DEF Fated, ToldOf
<1>12. Asking'
  <2>1. ASSUME NEW ch \in Unserved PROVE Sole(ch, ch[1].call)'
    <3>1. Sole(ch, ch[1].call) /\ ch[1].call \in Calls
      BY <1>4 DEF OutcomeInv, Asking
    <3> DEFINE c == ch[1].call
               t == calls'[c].told[1]
    <3>2. ASSUME Told(c)', t = "ok" PROVE Kind(c)' = "readlink" \/ ch[1].cmd = "LOGOFF"
      <4>1. CASE calls'[c].told = calls[c].told
        BY <1>3, <3>1, <3>2, <4>1 DEF Sole, Told
      <4>2. CASE \E p \in G : p.call = c /\ p.cb \in {"disconnect_cb_2", "readlink_cb_3"}
        <5>1. PICK p \in G : p.call = c /\ p.cb \in {"disconnect_cb_2", "readlink_cb_3"}
          BY <4>2
        <5>2. CASE p.cb = "readlink_cb_3"
          BY <1>3, <1>5, <3>1, <5>1, <5>2
        <5>3. CASE p.cb = "disconnect_cb_2"
          <6>1. p \in OnWire
            BY <1>3, <3>1, <5>1 DEF Sole
          <6>2. PICK k \in DOMAIN ch : ch[k] = p
            BY <3>1, <5>1, <6>1 DEF Sole
          <6>3. p.cmd = "LOGOFF" /\ Kind(c) = "disconnect"
            BY <1>5, <5>1, <5>3, BelongsFacts
          <6>4. Form(Kind(c), ch)
            BY DEF OutcomeInv, Formed
          <6>5. Len(ch) = 1 /\ DOMAIN ch = 1..Len(ch)
            BY <1>1, <6>3, <6>4, ViewsTyped DEF Form, Compounds
          <6>6. k = 1
            BY <6>5
          <6> QED BY <6>2, <6>3, <6>6
        <5> QED BY <5>1, <5>2, <5>3
      <4> QED BY <1>11, <3>1, <3>2, <4>1, <4>2
    <3> HIDE DEF c
    <3>3. /\ c \in begun' /\ failed'[c] = {} /\ ~InOutq(c)' /\ ~IsCur(c)'
          /\ \A p \in OnWire' : p.call = c => \E k \in DOMAIN ch : ch[k] = p
          /\ \A p \in OnWire' : \A k \in DOMAIN ch : ch[k].mid = p.mid => ch[k] = p
      BY <1>2, <1>3, <3>1 DEF Sole, c
    <3> QED BY <1>1, <3>2, <3>3 DEF Sole, c
  <2>2. OncePerCall(inbox')
    BY DEF OutcomeInv, Asking
  <2> QED BY <1>2, <2>1, <2>2 DEF Asking
<1>13. Failures'
  <2>1. \A p \in Outstanding' : Kind(p.call)' \notin Compounds => failed'[p.call] \subseteq {p.cmd}
    BY <1>2, <1>3, <1>4 DEF OutcomeInv, Failures
  <2>2. ASSUME NEW d \in Calls
        PROVE  /\ Kind(d)' \in Compounds /\ "CREATE" \in failed'[d] => "CLOSE" \in failed'[d]
               /\ Kind(d)' \in {"unlink", "mkdir"} => failed'[d] \subseteq {"CREATE", "CLOSE"}
               /\ calls'[d].status = "fail" => failed'[d] # {}
    BY <1>3 DEF OutcomeInv, Failures, Fated
  <2>3. ASSUME NEW d \in Calls, Unmade(d)'
        PROVE  failed'[d] = {} /\ (Kind(d)' \in Mergers => calls'[d].status = "ok")
    <3>1. d \notin begun \/ InOutq(d)'
      BY <2>3 DEF Unmade
    <3>2. Unmade(d)
      BY <1>3, <3>1 DEF Unmade
    <3>3. ASSUME NEW p \in G, p.call = d PROVE FALSE
      <4>1. CASE p \in OnWire
        <5>1. InWaitq(d)
          BY <3>3, <4>1 DEF InWaitq, OnWire
        <5> QED BY <1>3, <3>1, <5>1 DEF CallInv, OneChain, ToldLast
      <4>2. CASE (\E ch \in InLine : p = ch[1]) /\ \A x \in InLine' : x[1].call # p.call
        <5>1. InOutq(d) /\ ~InOutq(d)'
          BY <1>3, <3>3, <4>2
        <5> QED BY <3>1, <5>1 DEF CallInv, ToldLast
      <4> QED BY <4>1, <4>2
    <3>4. calls'[d] = calls[d]
      BY <3>3 DEF Fated
    <3> QED BY <1>3, <3>2, <3>4 DEF OutcomeInv, Failures
  <2> QED BY <2>1, <2>2, <2>3 DEF Failures
<1>14. Merged'
  <2>1. ASSUME NEW d \in Calls, Merges(d)'
        PROVE  /\ \A m \in failed'[d] : Left(d, m)'
               /\ \A ch \in Unserved' : ch[1].call = d => \A k \in DOMAIN ch : Left(d, ch[k].cmd)'
    <3>1. calls'[d].told = <<>> /\ Kind(d) \in Mergers /\ Kind(d) # "readlink" /\ calls'[d].status = "ok"
      BY <1>1, <1>3, <2>1 DEF Merges, Told
    <3>2. /\ calls[d].status = "ok" /\ calls[d].told = <<>>
          /\ \A p \in G : p.call = d => p.cb \notin Merging /\ p.cb \notin Tellers
      BY <3>1 DEF Fated
    <3>3. \A p \in G : p.call # d
      BY <1>5, <3>1, <3>2
    <3>4. Merges(d)
      BY <3>1, <3>2 DEF Merges, Told
    <3>5. \A m : Left(d, m) => Left(d, m)'
      BY <1>2, <3>3 DEF Left
    <3>6. /\ \A m \in failed[d] : Left(d, m)
          /\ \A ch \in Unserved : ch[1].call = d => \A k \in DOMAIN ch : Left(d, ch[k].cmd)
      BY <3>4 DEF OutcomeInv, Merged
    <3> QED BY <1>2, <3>5, <3>6
  <2> QED BY <1>1, <2>1 DEF Merged
<1>15. HonestStatus'
  <2>1. ASSUME NEW d \in Calls, Told(d)'
        PROVE  /\ calls'[d].told[1] = "ok" =>
                    \/ failed'[d] \subseteq Ignored(calls'[d].kind)
                    \/ calls'[d].kind = "readlink" /\ expiries' > 0
               /\ calls'[d].told[1] = "fail" /\ link' = "up" => failed'[d] # {}
    <3>1. calls'[d].kind = calls[d].kind
      BY DEF Fated
    <3>2. CASE calls'[d].told = calls[d].told
      <4>1. Told(d)
        BY <2>1, <3>2 DEF Told
      <4> QED BY <1>1, <3>1, <3>2, <4>1 DEF OutcomeInv, HonestStatus
    <3>3. CASE \E p \in G : /\ p.call = d
                            /\ calls'[d].told[1] = "ok" => p.cb \in {"disconnect_cb_2", "readlink_cb_3"}
                            /\ calls'[d].told[1] = "fail" => calls[d].status = "fail"
      <4>1. calls'[d].told[1] = "fail" => failed[d] # {}
        BY <3>3 DEF OutcomeInv, Failures
      <4>2. calls'[d].told[1] = "ok" =>
              failed[d] \subseteq Ignored(Kind(d)) \/ Kind(d) = "readlink"
        BY <1>5, <3>3
      <4> QED BY <1>1, <3>1, <4>1, <4>2 DEF Kind
    <3> QED BY <1>11, <2>1, <3>2, <3>3
  <2> QED BY <2>1 DEF HonestStatus
<1>16. NoLeak'
  BY <1>1 DEF NoLeak
<1> QED BY <1>6, <1>7, <1>8, <1>9, <1>10, <1>12, <1>13, <1>14, <1>15, <1>16 DEF OutcomeInv

\* smb2_timeout_pdus: requests are given up for their age.
LEMMA TimeOutOutcome ==
  ASSUME CallInv, OutcomeInv, NEW n \in 1..(Len(waitq) + Len(outq)), smb2_timeout_pdus(n)
  PROVE  OutcomeInv'
<1>1. /\ link = "up" /\ link' \in {"up", "shut", "crashed"}
      /\ UNCHANGED <<begun, cur, nextMid, inbox, frames, handles, failed>>
      /\ expiries' = expiries + 1
  <2> DEFINE w == IF n < Len(waitq) THEN n ELSE Len(waitq)
             unsent == SubSeq(outq, 1, n - w)
             given == Heads(unsent) \o SubSeq(waitq, 1, w)
             st == CompleteAll(given, "timeout")
  <2>1. link' = (IF st.shut THEN "shut" ELSE link) \/ link' = "crashed"
    BY DEF smb2_timeout_pdus
  <2>2. link = "up" /\ expiries' = expiries + 1
        /\ UNCHANGED <<begun, cur, inbox, frames, handles, failed>>
    BY DEF smb2_timeout_pdus, server
  <2>3. UNCHANGED nextMid
    BY TimeOutViews
  <2> QED BY <2>1, <2>2, <2>3
<1>2. PICK G : /\ InLine' \subseteq InLine /\ OnWire' \subseteq OnWire
               /\ RankedWire(waitq) => RankedWire(waitq')
               /\ \A c \in Calls : Fated(G, c, calls'[c])
               /\ OnWire \subseteq OnWire' \cup G
               /\ \A p \in G : \/ p \in OnWire
                               \/ /\ \E ch \in InLine : p = ch[1]
                                  /\ \A x \in InLine' : x[1].call # p.call
  BY TimeOutViews
<1> QED BY <1>1, <1>2, ExpiredOutcome

\* smb2_destroy_context gives up everything; the connect that had queued
\* nothing is told of its failure.
LEMMA DestroyViews ==
  ASSUME CallInv, smb2_destroy_context
  PROVE  /\ link \in {"connecting", "up", "shut"} /\ link' \in {"down", "crashed"}
         /\ outq' = <<>> /\ waitq' = <<>> /\ cur' = None /\ inbox' = <<>> /\ frames' = <<>>
         /\ handles' = {} /\ UNCHANGED <<begun, failed, expiries>>
         /\ \E G : /\ Outstanding \subseteq G
                   /\ \A p \in G : p \in Outstanding \/ \E ch \in InLine : p = ch[1]
                   /\ \A c \in Calls : IF AbandonedCall(c)
                                       THEN calls'[c] = Tell(calls[c], "fail").call
                                       ELSE Fated(G, c, calls'[c])
<1> DEFINE m == IF cur = None THEN 0 ELSE 1
           mid == IF cur = None THEN <<>> ELSE <<cur.pdu>>
           h == Len(outq)
           w == Len(waitq)
           all == (Heads(outq) \o mid) \o waitq
           st == CompleteAll(all, "shutdown")
<1>1. /\ link \in {"connecting", "up", "shut"}
      /\ Becomes([st EXCEPT !.calls = Abandoned(@), !.nextMid = 0, !.skipped = 0])
      /\ link' \in {"down", "crashed"}
      /\ outq' = <<>> /\ waitq' = <<>> /\ cur' = None
      /\ inbox' = <<>> /\ frames' = <<>> /\ handles' = {}
      /\ UNCHANGED <<begun, failed, expiries>>
  BY DEF smb2_destroy_context
<1>2. Types /\ Whereabouts
  BY DEF CallInv, Whereabouts
<1>3. /\ h \in Nat /\ w \in Nat /\ outq \in Seq(Seq(Request)) /\ waitq \in Seq(Request)
      /\ DOMAIN outq = 1..h /\ DOMAIN waitq = 1..w
  BY <1>2, LenProperties DEF Types
<1>4. SubSeq(outq, 1, h) = outq /\ SubSeq(waitq, 1, w) = waitq
  BY <1>3, SubSeqFull
<1>5. Shape(all, h, m, w)
  <2>1. mid \in Seq(Request) /\ Len(mid) = m /\ m \in {0, 1} /\ (m = 1 => cur # None /\ mid[1] = cur.pdu)
    BY <1>2 DEF Types, Reading
  <2> HIDE DEF mid, m
  <2>2. h \in 0..Len(outq) /\ w \in 0..Len(waitq)
    BY <1>3
  <2> HIDE DEF h, w
  <2>3. Shape((Heads(SubSeq(outq, 1, h)) \o mid) \o SubSeq(waitq, 1, w), h, m, w)
    BY <1>2, <2>1, <2>2, HeadsShape
  <2> QED BY <1>4, <2>3
<1> HIDE DEF all
<1> DEFINE G == {all[i] : i \in DOMAIN all}
<1>6. Parted(st, G, h, m, w)
  <2> PICK s \in Ages : s = "shutdown"
    BY DEF Ages
  <2> HIDE DEF m, h, w
  <2>1. LET x == CompleteAll(all, s)
            g == {all[i] : i \in DOMAIN all}
        IN Parted(x, g, h, m, w)
    BY <1>2, <1>5, GiveUpOutcome
  <2> QED BY <2>1
<1> HIDE DEF st, G
<1>7. calls' = Abandoned(st.calls)
  <2>1. Becomes([st EXCEPT !.calls = Abandoned(@), !.nextMid = 0, !.skipped = 0])
    BY <1>1
  <2> QED BY <1>6, <2>1 DEF Becomes, GivingUp, Parted
<1>8. Outstanding \subseteq G
  <2>1. OnWire \subseteq G
    BY <1>3, <1>6 DEF Parted, OnWire
  <2>2. cur # None => cur.pdu \in G
    BY <1>6 DEF Parted
  <2> QED BY <2>1, <2>2 DEF Outstanding
<1>9. ASSUME NEW p \in G PROVE p \in Outstanding \/ \E ch \in InLine : p = ch[1]
  <2>1. \/ \E i \in DOMAIN outq : p = outq[i][1]
        \/ cur # None /\ p = cur.pdu
        \/ \E i \in DOMAIN waitq : p = waitq[i]
    BY <1>3, <1>6 DEF Parted
  <2> QED BY <2>1 DEF Outstanding, OnWire, InLine
<1>10. ASSUME NEW c \in Calls
       PROVE  IF AbandonedCall(c) THEN calls'[c] = Tell(calls[c], "fail").call
              ELSE Fated(G, c, calls'[c])
  <2>1. Fated(G, c, st.calls[c]) /\ st.calls[c].kind = calls[c].kind
    BY <1>6 DEF Parted, Fated
  <2>2. CASE AbandonedCall(c)
    <3>1. outq = <<>> /\ waitq = <<>> /\ cur = None
      BY <2>2 DEF AbandonedCall, CallInv, Session
    <3>2. Outstanding = {} /\ InLine = {}
      BY <3>1 DEF Outstanding, OnWire, InLine
    <3>3. st.calls[c] = calls[c]
      BY <1>9, <2>1, <3>2 DEF Fated
    <3>4. calls'[c] = Tell(st.calls[c], "fail").call
      BY <1>7, <2>1, <2>2 DEF Abandoned, AbandonedCall, connect_cb
    <3> QED BY <2>2, <3>3, <3>4
  <2>3. CASE ~AbandonedCall(c)
    <3>1. calls'[c] = st.calls[c]
      BY <1>7, <2>1, <2>3 DEF Abandoned, AbandonedCall
    <3> QED BY <2>1, <2>3, <3>1
  <2> QED BY <2>2, <2>3
<1> QED BY <1>1, <1>8, <1>9, <1>10

\* What is told of the end of a context is honest.
LEMMA DestroyOutcome ==
  ASSUME CallInv, OutcomeInv, smb2_destroy_context
  PROVE  OutcomeInv'
<1>1. /\ link \in {"connecting", "up", "shut"} /\ link' \in {"down", "crashed"}
      /\ outq' = <<>> /\ waitq' = <<>> /\ cur' = None /\ inbox' = <<>> /\ frames' = <<>>
      /\ handles' = {} /\ begun' = begun /\ failed' = failed /\ expiries' = expiries
  BY DestroyViews
<1>2. PICK G : /\ Outstanding \subseteq G
               /\ \A p \in G : p \in Outstanding \/ \E ch \in InLine : p = ch[1]
               /\ \A c \in Calls : IF AbandonedCall(c)
                                   THEN calls'[c] = Tell(calls[c], "fail").call
                                   ELSE Fated(G, c, calls'[c])
  BY DestroyViews
<1>3. /\ Types /\ expiries \in Nat
      /\ calls \in [Calls -> Call]
  BY DEF CallInv, Types
<1>4. /\ DOMAIN outq' = {} /\ DOMAIN waitq' = {} /\ DOMAIN inbox' = {} /\ DOMAIN frames' = {}
      /\ Outstanding' = {} /\ OnWire' = {} /\ InLine' = {} /\ Unserved' = {} /\ Answers' = {}
  <2>1. DOMAIN outq' = {} /\ DOMAIN waitq' = {} /\ DOMAIN inbox' = {} /\ DOMAIN frames' = {}
    BY <1>1
  <2> QED BY <1>1, <2>1 DEF Outstanding, OnWire, InLine, Unserved, Answers
<1>5. ASSUME NEW c \in Calls, AbandonedCall(c)
      PROVE  /\ calls'[c].kind = calls[c].kind /\ calls'[c].status = calls[c].status
             /\ calls'[c].told # <<>> /\ calls'[c].told[1] = "fail" /\ c \in begun
  <2>1. c \in begun /\ calls[c].told = <<>>
    BY <1>5 DEF AbandonedCall, CallInv, Session, Told
  <2> DEFINE call == calls[c]
  <2>2. calls'[c] = Tell(call, "fail").call /\ call \in Call
    BY <1>2, <1>3, <1>5
  <2> HIDE DEF call
  <2> PICK s \in Statuses : s = "fail"
    BY DEF Statuses
  <2>3. /\ Tell(call, s).call.kind = call.kind
        /\ Tell(call, s).call.told = Append(call.told, s)
    BY <2>2, TellEffect
  <2>4. Tell(call, s).call.status = call.status
    BY <2>2 DEF Tell, Done, Call
  <2> QED BY <2>1, <2>2, <2>3, <2>4, ToldFirst DEF call
<1>6. \A c \in Calls : AbandonedCall(c) \/ Fated(G, c, calls'[c])
  BY <1>2
<1>7. \A d \in Calls : Kind(d)' = Kind(d)
  BY <1>5, <1>6 DEF Fated, Kind
<1>8. \A p \in G :
         /\ p.call \in Calls /\ Belongs(Kind(p.call), p.cmd, p.cb)
         /\ p.cb = "disconnect_cb_2" => failed[p.call] \subseteq Ignored(Kind(p.call))
         /\ p.cb = "readlink_cb_3" => Kind(p.call) = "readlink"
         /\ Kind(p.call) \in Mergers /\ p.cb \notin Tellers => p.cb \in Merging
         /\ Kind(p.call) = "readlink" /\ p.cb \notin Merging => p.cmd = "CLOSE"
         /\ p.call \in begun
  <2> TAKE p \in G
  <2>1. p \in Outstanding \/ \E ch \in InLine : p = ch[1]
    BY <1>2
  <2>2. InWaitq(p.call) \/ IsCur(p.call) \/ InOutq(p.call)
    BY <2>1 DEF Outstanding, OnWire, InLine, InWaitq, IsCur, InOutq
  <2>3. p.call \in Calls
    BY <2>1, GivenRequest
  <2>4. p.call \in begun
    BY <2>2, <2>3 DEF CallInv, ToldLast
  <2> QED BY <2>1, <2>4, GivenRequest
<1>9. Formed' /\ Ranked' /\ Older' /\ Asking' /\ Truthful' /\ OpenHandles' /\ NoLeak'
  BY <1>1, <1>4 DEF Formed, Ranked, RankedWire, Older, Asking, OncePerCall, Truthful, OpenHandles,
    NoLeak
<1>10. Failures'
  <2>1. ASSUME NEW d \in Calls
        PROVE  /\ Kind(d)' \in Compounds /\ "CREATE" \in failed'[d] => "CLOSE" \in failed'[d]
               /\ Kind(d)' \in {"unlink", "mkdir"} => failed'[d] \subseteq {"CREATE", "CLOSE"}
               /\ calls'[d].status = "fail" => failed'[d] # {}
    BY <1>1, <1>5, <1>6, <1>7 DEF OutcomeInv, Failures, Fated
  <2>2. ASSUME NEW d \in Calls, Unmade(d)'
        PROVE  failed'[d] = {} /\ (Kind(d)' \in Mergers => calls'[d].status = "ok")
    <3>1. d \notin begun
      BY <1>1, <1>4, <2>2 DEF Unmade, InOutq
    <3>2. Unmade(d)
      BY <3>1 DEF Unmade
    <3>3. calls'[d] = calls[d]
      BY <1>5, <1>6, <1>8, <3>1 DEF Fated
    <3> QED BY <1>1, <1>7, <3>2, <3>3 DEF OutcomeInv, Failures
  <2> QED BY <1>4, <2>1, <2>2 DEF Failures
<1>11. ASSUME NEW d \in Calls, calls'[d].status = "ok", Kind(d) \in Mergers,
              Fated(G, d, calls'[d]), calls[d].told = <<>>, Kind(d) = "readlink" => expiries = 0
       PROVE  \A cmd \in failed[d] : \E p \in G : p.call = d /\ p.cmd = cmd /\ p.cb \notin Merging
  <2>1. calls[d].status = "ok" /\ \A p \in G : p.call = d => p.cb \notin Merging
    BY <1>11 DEF Fated
  <2>2. Merges(d)
    BY <1>11, <2>1 DEF Merges, Told
  <2>3. \A cmd \in failed[d] : Left(d, cmd)
    BY <2>2 DEF OutcomeInv, Merged
  <2> QED BY <1>2, <2>1, <2>3 DEF Left
<1>12. Merged'
  <2>1. ASSUME NEW d \in Calls, Merges(d)' PROVE failed'[d] = {}
    <3>1. calls'[d].told = <<>> /\ Kind(d) \in Mergers /\ calls'[d].status = "ok"
          /\ (Kind(d) = "readlink" => expiries = 0)
      BY <1>1, <1>7, <2>1 DEF Merges, Told
    <3>2. Fated(G, d, calls'[d])
      BY <1>5, <1>6, <3>1
    <3>3. calls[d].told = <<>> /\ \A p \in G : p.call = d => p.cb \notin Merging /\ p.cb \notin Tellers
      BY <3>1, <3>2 DEF Fated
    <3>4. \A p \in G : p.call # d
      BY <1>8, <3>1, <3>3
    <3> QED BY <1>1, <1>11, <3>1, <3>2, <3>3, <3>4
  <2>2. \A d, m : ~Left(d, m)'
    BY <1>4 DEF Left
  <2> QED BY <1>4, <2>1, <2>2 DEF Merged
<1>13. HonestStatus'
  <2>1. ASSUME NEW d \in Calls, Told(d)', calls'[d].told[1] = "ok"
        PROVE  \/ failed[d] \subseteq Ignored(calls'[d].kind)
               \/ calls'[d].kind = "readlink" /\ expiries > 0
    <3>1. calls'[d].kind = calls[d].kind /\ Fated(G, d, calls'[d])
      BY <1>5, <1>6, <2>1 DEF Fated
    <3>2. CASE calls'[d].told = calls[d].told
      <4>1. Told(d) /\ calls[d].told[1] = "ok"
        BY <2>1, <3>2 DEF Told
      <4>2. link # "connecting"
        BY <4>1 DEF CallInv, Session, ToldLast
      <4> QED BY <3>1, <4>1, <4>2 DEF OutcomeInv, HonestStatus
    <3>3. CASE calls'[d].told # calls[d].told
      <4>1. PICK p \in G : p.call = d /\ p.cb \in Tellers /\ ToldOf(p, calls'[d], calls[d])
        BY <3>1, <3>3 DEF Fated
      <4>2. calls[d].told = <<>>
        BY <3>1, <3>3 DEF Fated
      <4>3. p.cb = "disconnect_cb_2" \/ (p.cb = "readlink_cb_3" /\ calls'[d].status = "ok")
        BY <2>1, <4>1 DEF ToldOf
      <4>4. CASE p.cb = "disconnect_cb_2"
        BY <1>8, <3>1, <4>1, <4>4 DEF Kind
      <4>5. CASE p.cb = "readlink_cb_3" /\ calls'[d].status = "ok" /\ expiries = 0
        <5>1. Kind(d) = "readlink" /\ Kind(d) \in Mergers
          BY <1>8, <4>1, <4>5 DEF Mergers, Compounds
        <5>2. \A cmd \in failed[d] : \E q \in G : q.call = d /\ q.cmd = cmd /\ q.cb \notin Merging
          BY <1>11, <3>1, <4>2, <4>5, <5>1
        <5>3. failed[d] \subseteq {"CLOSE"}
          BY <1>8, <5>1, <5>2
        <5>4. Ignored(Kind(d)) = {"CLOSE"}
          BY <5>1 DEF Ignored
        <5> QED BY <3>1, <5>3, <5>4 DEF Kind
      <4>6. CASE p.cb = "readlink_cb_3" /\ expiries # 0
        BY <1>3, <1>8, <3>1, <4>1, <4>6 DEF Kind
      <4> QED BY <4>3, <4>4, <4>5, <4>6
    <3> QED BY <3>2, <3>3
  <2> QED BY <1>1, <2>1 DEF HonestStatus
<1> QED BY <1>9, <1>10, <1>12, <1>13 DEF OutcomeInv

-----------------------------------------------------------------------------
\* The server answers.

\* The frames of the replies to a chain say what the server decided.
LEMMA FramedVerdicts ==
  ASSUME NEW ch \in Chains, NEW results \in Results(ch), NEW grant \in Nat,
         NEW fs \in Framings(Replies(ch, results, grant))
  PROVE  /\ fs \in Seq(Frames)
         /\ \A a \in DOMAIN fs : \A k \in DOMAIN fs[a] :
              \E j \in DOMAIN ch : fs[a][k].mid = ch[j].mid /\ fs[a][k].status = results[j]
<1> DEFINE rs == Replies(ch, results, grant)
<1>1. fs \in Seq(Frames)
  BY FramingEffect
<1>2. DOMAIN rs = DOMAIN ch /\ \A j \in DOMAIN ch : rs[j].mid = ch[j].mid /\ rs[j].status = results[j]
  BY DEF Replies
<1>3. fs = <<rs>> \/ fs = [j \in DOMAIN rs |-> <<rs[j]>>]
  BY DEF Framings
<1> HIDE DEF rs
<1>4. CASE fs = <<rs>>
  <2>1. DOMAIN fs = {1} /\ fs[1] = rs
    BY <1>4
  <2> QED BY <1>1, <1>2, <2>1
<1>5. CASE fs = [j \in DOMAIN rs |-> <<rs[j]>>]
  <2>1. DOMAIN fs = DOMAIN ch /\ \A a \in DOMAIN fs : DOMAIN fs[a] = {1} /\ fs[a][1] = rs[a]
    BY <1>2, <1>5
  <2> QED BY <1>1, <1>2, <2>1
<1> QED BY <1>3, <1>4, <1>5

\* What the server makes of a chain: verdicts of its requests; a compound
\* whose open failed has failed.
LEMMA ResultVerdicts ==
  ASSUME NEW ch \in Chains, NEW results \in Results(ch), NEW j \in DOMAIN ch
  PROVE  /\ results[j] \in Verdicts(ch[j].cmd)
         /\ Len(ch) # 1 => /\ results[j] \in {"ok", "fail"}
                           /\ results[1] = "fail" => results[j] = "fail"
<1>1. ch \in Seq(Request) /\ DOMAIN ch = 1..Len(ch)
  BY LenProperties DEF Chains
<1>2. CASE Len(ch) = 1
  <2>1. PICK s \in Outcomes(ch[1]) : results = <<s>>
    BY <1>2 DEF Results
  <2>2. j = 1 /\ results[1] = s
    BY <1>1, <1>2, <2>1
  <2>3. s \in Verdicts(ch[1].cmd)
    BY <2>1 DEF Outcomes, Verdicts
  <2> QED BY <1>2, <2>2, <2>3
<1>3. CASE Len(ch) # 1
  BY <1>3 DEF Results, Verdicts
<1> QED BY <1>2, <1>3

\* The commands of a chain the server refuses.
Refused(ch, results) == {ch[j].cmd : j \in {k \in DOMAIN ch : results[k] = "fail"}}

\* The verdicts are on their way, and the server has acted on them.
Ruled(ch, c, results) ==
  /\ \A r \in Answers' : \/ r \in Answers
                         \/ \E j \in DOMAIN ch : r.mid = ch[j].mid /\ r.status = results[j]
  /\ handles' = (handles \cup Opened(ch, results)) \ Closed(ch, results)
  /\ failed' = [failed EXCEPT ![c] = @ \cup Refused(ch, results)]

\* Where the answers go.
LEMMA AnswerViews ==
  ASSUME CallInv, CreditInv, OutcomeInv, NEW i, Answer(i),
         NEW ch, ch = inbox[i].chain, NEW c, c = ch[1].call
  PROVE  /\ ch \in Unserved /\ link \notin {"new", "connecting"}
         /\ UNCHANGED <<link, begun, calls, outq, waitq, cur, nextMid, expiries>>
         /\ Unserved' \subseteq Unserved /\ OncePerCall(inbox')
         /\ \A x \in Unserved' : x[1].call # c
         /\ \A x \in Unserved : x = ch \/ x \in Unserved'
         /\ \E results \in Results(ch) : Ruled(ch, c, results)
<1>1. /\ Types /\ inbox \in Seq(Entry) /\ frames \in Seq(Frames)
      /\ i \in DOMAIN inbox /\ inbox' = RemoveAt(inbox, i)
  BY QueuesTyped DEF CallInv, Answer
<1>2. /\ ch \in Unserved /\ ch \in Chains
      /\ link \notin {"new", "connecting"}
  <2>1. ch \in Unserved
    BY <1>1 DEF Unserved
  <2>2. inbox # <<>>
    BY <1>1
  <2> QED BY <1>1, <2>1, <2>2, ViewsTyped DEF CreditInv, Opening
<1>3. UNCHANGED <<link, begun, calls, outq, waitq, cur, nextMid, expiries>>
  BY DEF Answer, client, record
<1> DEFINE I == Len(inbox)
           at(m) == IF m < i THEN m ELSE m + 1
<1>4. /\ DOMAIN inbox = 1..I /\ I \in Nat /\ i \in 1..I
      /\ DOMAIN inbox' = 1..(I - 1)
      /\ \A m \in 1..(I - 1) : inbox'[m] = IF m < i THEN inbox[m] ELSE inbox[m + 1]
  <2>1. DOMAIN inbox = 1..I /\ I \in Nat /\ i \in 1..I
    BY <1>1, LenProperties
  <2>2. /\ inbox' \in Seq(Entry) /\ Len(inbox') = I - 1
        /\ \A m \in 1..(I - 1) : inbox'[m] = IF m < i THEN inbox[m] ELSE inbox[m + 1]
    BY <1>1, <2>1, RemoveAtElements
  <2>3. DOMAIN inbox' = 1..Len(inbox')
    BY <2>2, LenProperties
  <2> HIDE DEF I
  <2> QED BY <2>1, <2>2, <2>3
<1> HIDE DEF I
<1>5. /\ \A m \in DOMAIN inbox' : at(m) \in DOMAIN inbox /\ at(m) # i /\ inbox'[m] = inbox[at(m)]
      /\ \A m, n \in DOMAIN inbox' : at(m) = at(n) => m = n
      /\ \A m \in DOMAIN inbox : m = i \/ \E n \in DOMAIN inbox' : m = at(n)
  <2>1. /\ \A m \in DOMAIN inbox' : at(m) \in DOMAIN inbox /\ at(m) # i /\ inbox'[m] = inbox[at(m)]
        /\ \A m, n \in DOMAIN inbox' : at(m) = at(n) => m = n
    BY <1>4
  <2>2. ASSUME NEW m \in DOMAIN inbox, m # i PROVE \E n \in DOMAIN inbox' : m = at(n)
    <3>1. CASE m < i
      BY <1>4, <2>2, <3>1
    <3>2. CASE m > i
      <4>1. m - 1 \in DOMAIN inbox' /\ m = at(m - 1)
        BY <1>4, <2>2, <3>2
      <4> HIDE DEF at
      <4> QED BY <4>1
    <3> QED BY <1>4, <2>2, <3>1, <3>2
  <2> HIDE DEF at
  <2> QED BY <2>1, <2>2
<1> HIDE DEF at
<1>6. /\ Unserved' \subseteq Unserved /\ OncePerCall(inbox')
      /\ \A x \in Unserved' : x[1].call # c
      /\ \A x \in Unserved : x = ch \/ x \in Unserved'
  <2>1. OncePerCall(inbox)
    BY DEF OutcomeInv, Asking
  <2>2. \A x : x \in Unserved' <=> \E m \in DOMAIN inbox' : x = inbox'[m].chain
    BY DEF Unserved
  <2>3. \A x : x \in Unserved <=> \E m \in DOMAIN inbox : x = inbox[m].chain
    BY DEF Unserved
  <2>4. \A x \in Unserved' : x \in Unserved /\ x[1].call # c
    BY <1>1, <1>5, <2>1, <2>2, <2>3 DEF OncePerCall
  <2>5. OncePerCall(inbox')
    BY <1>5, <2>1 DEF OncePerCall
  <2>6. \A x \in Unserved : x = ch \/ x \in Unserved'
    BY <1>5, <2>2, <2>3
  <2> QED BY <2>4, <2>5, <2>6
<1>7. \E results \in Results(ch) : Ruled(ch, c, results)
  <2> DEFINE grant == IF inbox[i].pended THEN 0 ELSE Grant(ch)
             chain == inbox[i].chain
             g == IF inbox[i].pended THEN 0 ELSE Grant(chain)
  <2>0. PICK results \in Results(chain) :
          /\ \E fs \in Framings(Replies(chain, results, g)) : frames' = frames \o fs
          /\ handles' = (handles \cup Opened(chain, results)) \ Closed(chain, results)
          /\ failed' = [failed EXCEPT ![chain[1].call] =
               @ \cup {chain[j].cmd : j \in {k \in DOMAIN chain : results[k] = "fail"}}]
          /\ legs' = [legs EXCEPT ![chain[1].call] =
               @ + IF chain[1].cmd \in {"SESSION_SETUP", "QUERY_DIRECTORY"}
                      /\ results[1] \in {"more", "ok"} THEN 1 ELSE 0]
    BY DEF Answer
  <2>a. chain = ch /\ chain[1].call = c /\ g = grant
    OBVIOUS
  <2> HIDE DEF chain, g, grant
  <2>1. /\ results \in Results(ch)
        /\ \E fs \in Framings(Replies(ch, results, grant)) : frames' = frames \o fs
        /\ handles' = (handles \cup Opened(ch, results)) \ Closed(ch, results)
        /\ failed' = [failed EXCEPT ![c] = @ \cup Refused(ch, results)]
    <3>1. failed' = [failed EXCEPT ![c] =
            @ \cup {ch[j].cmd : j \in {k \in DOMAIN ch : results[k] = "fail"}}]
      BY <2>0, <2>a
    <3> QED BY <2>0, <2>a, <3>1 DEF Refused
  <2>b. results \in Results(ch)
    BY <2>1
  <2>2. PICK fs \in Framings(Replies(ch, results, grant)) : frames' = frames \o fs
    BY <2>1
  <2>3. grant \in Nat
    <3>1. Grant(ch) \in Nat
      BY <1>1, DueTyped, LenProperties
    <3> QED BY <3>1 DEF grant
  <2> HIDE DEF grant
  <2>4. /\ fs \in Seq(Frames)
        /\ \A a \in DOMAIN fs : \A k \in DOMAIN fs[a] :
             \E j \in DOMAIN ch : fs[a][k].mid = ch[j].mid /\ fs[a][k].status = results[j]
    BY <1>2, <2>2, <2>3, <2>b, FramedVerdicts
  <2> DEFINE L == Len(frames)
             M == Len(fs)
  <2>5. /\ frames' \in Seq(Frames) /\ Len(frames') = L + M /\ L \in Nat /\ M \in Nat
        /\ \A m \in 1..L : frames'[m] = frames[m]
        /\ \A m \in 1..M : frames'[L + m] = fs[m]
    BY <1>1, <2>2, <2>4, ConcatElements
  <2>6. DOMAIN frames = 1..L /\ DOMAIN fs = 1..M /\ DOMAIN frames' = 1..(L + M)
    BY <1>1, <2>4, <2>5, LenProperties
  <2> HIDE DEF L, M
  <2>7. \A m \in DOMAIN frames' : \/ m \in DOMAIN frames /\ frames'[m] = frames[m]
                                  \/ \E a \in DOMAIN fs : frames'[m] = fs[a]
    <3> TAKE m \in DOMAIN frames'
    <3>1. m \in 1..L \/ (m - L \in 1..M /\ L + (m - L) = m)
      BY <2>5, <2>6
    <3> QED BY <2>5, <2>6, <3>1
  <2>8. ASSUME NEW r \in Answers'
        PROVE  r \in Answers \/ \E j \in DOMAIN ch : r.mid = ch[j].mid /\ r.status = results[j]
    <3>1. PICK m \in DOMAIN frames' : \E k \in DOMAIN frames'[m] : r = frames'[m][k] /\ Final(r)
      BY <2>8 DEF Answers
    <3>2. CASE m \in DOMAIN frames /\ frames'[m] = frames[m]
      BY <3>1, <3>2, AnswerOf
    <3>3. CASE \E a \in DOMAIN fs : frames'[m] = fs[a]
      BY <2>4, <3>1, <3>3
    <3> QED BY <2>7, <3>2, <3>3
  <2> QED BY <2>1, <2>8 DEF Ruled
<1> QED BY <1>2, <1>3, <1>6, <1>7

\* An answer is a verdict on every request of its chain, and on nothing else.
LEMMA AnswerOutcome ==
  ASSUME CallInv, CreditInv, OutcomeInv, NEW i, Answer(i),
         NEW ch, ch = inbox[i].chain, NEW c, c = ch[1].call
  PROVE  OutcomeInv'
<1>1. /\ ch \in Unserved /\ link \notin {"new", "connecting"}
      /\ UNCHANGED <<link, begun, calls, outq, waitq, cur, nextMid, expiries>>
      /\ Unserved' \subseteq Unserved /\ OncePerCall(inbox')
      /\ \A x \in Unserved' : x[1].call # c
      /\ \A x \in Unserved : x = ch \/ x \in Unserved'
  BY AnswerViews
<1>2. PICK results \in Results(ch) :
        /\ \A r \in Answers' : \/ r \in Answers
                               \/ \E j \in DOMAIN ch : r.mid = ch[j].mid /\ r.status = results[j]
        /\ handles' = (handles \cup Opened(ch, results)) \ Closed(ch, results)
        /\ failed' = [failed EXCEPT ![c] = @ \cup Refused(ch, results)]
  <2>1. PICK results \in Results(ch) : Ruled(ch, c, results)
    BY AnswerViews
  <2> QED BY <2>1 DEF Ruled
<1>3. /\ Types /\ handles \subseteq Calls /\ failed \in [Calls -> SUBSET Commands]
      /\ ch \in Chains /\ 1 \in DOMAIN ch /\ Len(ch) \in DOMAIN ch /\ DOMAIN ch = 1..Len(ch)
      /\ Len(ch) \in Nat /\ c \in Calls
      /\ \A x \in Unserved : x[1].call \in Calls
      /\ \A p \in Outstanding : p.call \in Calls
  <2>1. Types /\ handles \subseteq Calls /\ failed \in [Calls -> SUBSET Commands]
    BY DEF CallInv, Types
  <2>2. \A p \in Outstanding : p.call \in Calls
    BY <2>1, ViewsTyped DEF Request
  <2> QED BY <1>1, <2>1, <2>2, ViewsTyped
<1>4. /\ OnWire' = OnWire /\ Outstanding' = Outstanding /\ InLine' = InLine
      /\ \A d : /\ Kind(d)' = Kind(d) /\ (Told(d)' <=> Told(d)) /\ (InOutq(d)' <=> InOutq(d))
                /\ (IsCur(d)' <=> IsCur(d))
      /\ \A d : d # c => (Busy(d)' <=> Busy(d))
      /\ Busy(c) /\ ~Busy(c)'
  <2>1. OnWire' = OnWire /\ Outstanding' = Outstanding /\ InLine' = InLine
    BY <1>1 DEF OnWire, Outstanding, InLine
  <2>2. \A d : /\ Kind(d)' = Kind(d) /\ (Told(d)' <=> Told(d)) /\ (InOutq(d)' <=> InOutq(d))
               /\ (IsCur(d)' <=> IsCur(d))
    BY <1>1 DEF Kind, Told, InOutq, IsCur
  <2>3. Busy(c) /\ ~Busy(c)' /\ \A d : d # c => (Busy(d)' <=> Busy(d))
    BY <1>1 DEF Busy
  <2> QED BY <2>1, <2>2, <2>3
<1>5. /\ Form(Kind(c), ch) /\ \A k \in DOMAIN ch : ch[k].call = c
      /\ Sole(ch, c) /\ \A k \in DOMAIN ch : Precedes(ch[k].mid)
  BY <1>1 DEF OutcomeInv, Formed, Asking, Older
<1>6. /\ \A k \in DOMAIN ch : Belongs(Kind(c), ch[k].cmd, ch[k].cb)
      /\ \A k, l \in DOMAIN ch : ch[k].cmd = ch[l].cmd => k = l
      /\ \A k \in DOMAIN ch : ch[k].cmd = "CREATE" => k = 1
      /\ Kind(c) \notin Compounds => Len(ch) = 1
      /\ Kind(c) \in Compounds => /\ ch[1].cmd = "CREATE" /\ ch[Len(ch)].cmd = "CLOSE"
                                  /\ Len(ch) # 1
  <2>1. \A k, l \in DOMAIN ch : k < l => Rank(ch[k].cmd) < Rank(ch[l].cmd)
    BY <1>5 DEF Form
  <2>2. \A k, l \in DOMAIN ch : k < l => ch[k].cmd # ch[l].cmd /\ ch[l].cmd # "CREATE"
    BY <2>1 DEF Rank
  <2>3. \A k, l \in DOMAIN ch : k = l \/ k < l \/ l < k
    BY <1>3
  <2>4. \A k \in DOMAIN ch : k = 1 \/ 1 < k
    BY <1>3
  <2> QED BY <1>3, <1>5, <2>2, <2>3, <2>4 DEF Form
<1>7. \A j \in DOMAIN ch :
         /\ results[j] \in Verdicts(ch[j].cmd)
         /\ Kind(c) \in Compounds => /\ results[j] \in {"ok", "fail"}
                                     /\ results[1] = "fail" => results[j] = "fail"
  BY <1>3, <1>6, ResultVerdicts
<1>8. /\ \A d \in Calls : d # c => failed'[d] = failed[d]
      /\ failed[c] = {} /\ failed'[c] = Refused(ch, results)
      /\ \A d \in Calls : failed[d] \subseteq failed'[d]
      /\ \A j \in DOMAIN ch : results[j] = "fail" <=> ch[j].cmd \in failed'[c]
  <2>1. failed[c] = {}
    BY <1>5 DEF Sole
  <2> DEFINE R == Refused(ch, results)
  <2>2. \A j \in DOMAIN ch : results[j] = "fail" <=> ch[j].cmd \in R
    BY <1>6 DEF Refused
  <2>3. failed' = [failed EXCEPT ![c] = @ \cup R]
    BY <1>2
  <2> HIDE DEF R
  <2>4. /\ \A d \in Calls : d # c => failed'[d] = failed[d]
        /\ failed'[c] = R
    BY <1>3, <2>1, <2>3
  <2>5. \A d \in Calls : failed[d] \subseteq failed'[d]
    BY <2>1, <2>4
  <2> QED BY <2>1, <2>2, <2>4, <2>5 DEF R
<1>9. /\ \A d : d # c => (d \in handles' <=> d \in handles)
      /\ c \in handles' => \/ c \in handles
                           \/ \E j \in DOMAIN ch : ch[j].cmd = "CREATE" /\ results[j] = "ok"
      /\ c \in handles' => ~\E j \in DOMAIN ch : ch[j].cmd = "CLOSE" /\ results[j] = "ok"
  BY <1>2, <1>5 DEF Opened, Closed
<1>10. /\ c \in begun /\ ~InOutq(c) /\ ~IsCur(c)
       /\ \A p \in OnWire : p.call = c => \E k \in DOMAIN ch : ch[k] = p
       /\ \A p \in OnWire : \A k \in DOMAIN ch : ch[k].mid = p.mid => ch[k] = p
       /\ Told(c) => expiries > 0 /\ expiries # 0
       /\ Told(c) /\ calls[c].told[1] = "ok" => Kind(c) = "readlink" \/ ch[1].cmd = "LOGOFF"
  <2>1. Told(c) => expiries > 0
    BY <1>5 DEF Sole
  <2>2. expiries > 0 => expiries # 0
    BY <1>3 DEF Types
  <2> QED BY <1>5, <2>1, <2>2 DEF Sole
<1>11. Formed'
  BY <1>1, <1>4 DEF OutcomeInv, Formed
<1>12. Ranked'
  BY <1>1, <1>4 DEF OutcomeInv, Ranked
<1>13. Older'
  <2>1. \A m : Precedes(m)' <=> Precedes(m)
    BY <1>1, <1>4 DEF Precedes
  <2> HIDE DEF Precedes
  <2>2. \A r \in Answers' : Precedes(r.mid)
    BY <1>2, <1>5 DEF OutcomeInv, Older
  <2>3. \A x \in Unserved' : \A k \in DOMAIN x : Precedes(x[k].mid)
    BY <1>1 DEF OutcomeInv, Older
  <2> QED BY <2>1, <2>2, <2>3 DEF Older
<1>14. Asking'
  <2>1. ASSUME NEW x \in Unserved' PROVE Sole(x, x[1].call)'
    <3>1. Sole(x, x[1].call) /\ x[1].call # c /\ x[1].call \in Calls
      BY <1>1, <1>3 DEF OutcomeInv, Asking
    <3>2. failed'[x[1].call] = failed[x[1].call]
      BY <1>8, <3>1
    <3> QED BY <1>1, <1>4, <3>1, <3>2 DEF Sole
  <2> QED BY <1>1, <2>1 DEF Asking
<1>15. ASSUME NEW p, NEW s, Says(p, s), p.call \in Calls PROVE Says(p, s)'
  <2>1. p.call # c
    BY <1>4, <1>15 DEF Says
  <2> QED BY <1>4, <1>8, <1>9, <1>15, <2>1 DEF Says
<1>16. Truthful'
  <2>1. ASSUME NEW r \in Answers', NEW p \in OnWire, r.mid = p.mid PROVE Says(p, r.status)'
    <3>0. p.call \in Calls
      BY <1>3 DEF Outstanding
    <3>1. CASE r \in Answers
      BY <1>15, <2>1, <3>0, <3>1 DEF OutcomeInv, Truthful
    <3>2. CASE r \notin Answers
      <4>1. PICK j \in DOMAIN ch : r.mid = ch[j].mid /\ r.status = results[j]
        BY <1>2, <3>2
      <4>2. ch[j] = p /\ p.call = c
        <5>1. ch[j].mid = p.mid
          BY <2>1, <4>1
        <5>2. ch[j] = p
          BY <1>10, <5>1
        <5> QED BY <1>5, <5>2
      <4> DEFINE s == results[j]
      <4>3. s \in Verdicts(p.cmd) /\ (s = "fail" <=> p.cmd \in failed'[c])
        BY <1>7, <1>8, <4>2
      <4>4. ASSUME p.cmd = "CREATE", s # "ok" PROVE c \notin handles'
        <5>1. ch[1].cmd = "CREATE"
          BY <1>6, <4>2, <4>4
        <5>2. Kind(c) \notin Holders /\ ToOpen(c)
          BY <1>1, <1>6, <4>2, <4>4, <5>1, BelongsFacts DEF ToOpen
        <5>3. c \notin handles
          BY <5>2 DEF OutcomeInv, OpenHandles
        <5> QED BY <1>6, <1>9, <4>2, <4>4, <5>3
      <4>5. p.cmd = "CLOSE" /\ s = "ok" => c \notin handles'
        BY <1>9, <4>2
      <4> HIDE DEF s
      <4>6. Says(p, s)'
        BY <1>4, <4>2, <4>3, <4>4, <4>5 DEF Says
      <4> QED BY <4>1, <4>6 DEF s
    <3> QED BY <3>1, <3>2
  <2>2. cur # None => Says(cur.pdu, cur.status)'
    <3> SUFFICES ASSUME cur # None PROVE Says(cur.pdu, cur.status)'
      OBVIOUS
    <3>1. Says(cur.pdu, cur.status) /\ cur.pdu.call \in Calls
      BY <1>3 DEF OutcomeInv, Truthful, Outstanding
    <3> DEFINE p == cur.pdu
               s == cur.status
    <3>2. PICK q : q = cur.pdu
      OBVIOUS
    <3>3. PICK t : t = cur.status
      OBVIOUS
    <3>4. Says(q, t) /\ q.call \in Calls
      BY <3>1, <3>2, <3>3
    <3>5. Says(q, t)'
      BY <1>15, <3>4
    <3> QED BY <1>1, <3>2, <3>3, <3>5 DEF Says
  <2> QED BY <1>1, <1>4, <2>1, <2>2 DEF Truthful
<1>17. Failures'
  <2>1. ASSUME NEW p \in Outstanding, Kind(p.call) \notin Compounds PROVE failed'[p.call] \subseteq {p.cmd}
    <3>1. CASE p.call # c
      BY <1>3, <1>8, <2>1, <3>1 DEF OutcomeInv, Failures
    <3>2. CASE p.call = c
      <4>1. p \in OnWire
        BY <1>10, <3>2 DEF Outstanding, IsCur
      <4>2. PICK k \in DOMAIN ch : ch[k] = p
        BY <1>10, <3>2, <4>1
      <4>3. \A j \in DOMAIN ch : j = k
        BY <1>3, <1>6, <2>1, <3>2
      <4> QED BY <1>8, <3>2, <4>2, <4>3 DEF Refused
    <3> QED BY <3>1, <3>2
  <2>2. ASSUME NEW d \in Calls, Kind(d) \in Compounds, "CREATE" \in failed'[d]
        PROVE  "CLOSE" \in failed'[d]
    <3>1. CASE d # c
      BY <1>8, <2>2, <3>1 DEF OutcomeInv, Failures
    <3>2. CASE d = c
      <4>1. ch[1].cmd = "CREATE" /\ ch[Len(ch)].cmd = "CLOSE"
        BY <1>6, <2>2, <3>2
      <4>2. results[1] = "fail"
        BY <1>3, <1>8, <2>2, <3>2, <4>1
      <4>3. results[Len(ch)] = "fail"
        BY <1>3, <1>7, <2>2, <3>2, <4>2
      <4> QED BY <1>3, <1>8, <3>2, <4>1, <4>3
    <3> QED BY <3>1, <3>2
  <2>3. ASSUME NEW d \in Calls, Kind(d) \in {"unlink", "mkdir"}
        PROVE  failed'[d] \subseteq {"CREATE", "CLOSE"}
    <3>1. CASE d # c
      BY <1>8, <2>3, <3>1 DEF OutcomeInv, Failures
    <3>2. CASE d = c
      <4>1. \A k \in DOMAIN ch : ch[k].cmd \in {"CREATE", "CLOSE"}
        BY <1>6, <2>3, <3>2, BelongsFacts
      <4> QED BY <1>8, <3>2, <4>1 DEF Refused
    <3> QED BY <3>1, <3>2
  <2>4. ASSUME NEW d \in Calls, Unmade(d)'
        PROVE  failed'[d] = {} /\ (Kind(d) \in Mergers => calls[d].status = "ok")
    <3>1. Unmade(d)
      BY <1>1, <1>4, <2>4 DEF Unmade
    <3>2. d # c
      BY <1>1, <1>10, <3>1 DEF Unmade
    <3> QED BY <1>8, <3>1, <3>2 DEF OutcomeInv, Failures
  <2>5. \A d \in Calls : calls[d].status = "fail" => failed'[d] # {}
    <3>1. \A d \in Calls : calls[d].status = "fail" => failed[d] # {}
      BY DEF OutcomeInv, Failures
    <3> QED BY <1>8, <3>1
  <2> QED BY <1>1, <1>4, <2>1, <2>2, <2>3, <2>4, <2>5 DEF Failures
<1>18. Merged'
  <2>1. \A d, m : Left(d, m)' <=> Left(d, m)
    BY <1>4 DEF Left
  <2>2. ASSUME NEW d \in Calls, Merges(d)'
        PROVE  /\ \A m \in failed'[d] : Left(d, m)
               /\ \A x \in Unserved' : x[1].call = d => \A k \in DOMAIN x : Left(d, x[k].cmd)
    <3>1. Merges(d)
      BY <1>1, <1>4, <2>2 DEF Merges
    <3>2. /\ \A m \in failed[d] : Left(d, m)
          /\ \A x \in Unserved : x[1].call = d => \A k \in DOMAIN x : Left(d, x[k].cmd)
      BY <3>1 DEF OutcomeInv, Merged
    <3>3. d = c => \A m \in failed'[d] : Left(d, m)
      BY <1>1, <1>8, <3>2 DEF Refused
    <3> QED BY <1>1, <1>8, <3>2, <3>3
  <2>3. expiries = 0 => \A d \in Calls :
          Kind(d) = "readlink" /\ Left(d, "CREATE") => calls[d].status = "ok"
    BY DEF OutcomeInv, Merged
  <2> QED BY <1>1, <1>4, <2>1, <2>2, <2>3 DEF Merged
<1>19. OpenHandles'
  <2>1. ASSUME NEW d \in handles', d # c
        PROVE  /\ Kind(d) \in Holders \cup Openers \/ (Kind(d) \in Compounds /\ "CLOSE" \in failed'[d])
               /\ Kind(d) \notin Holders => ~ToOpen(d)'
    <3>1. d \in handles /\ d \in Calls
      BY <1>3, <1>9, <2>1
    <3>2. ToOpen(d)' => ToOpen(d)
      BY <1>1, <1>4 DEF ToOpen
    <3> QED BY <1>8, <2>1, <3>1, <3>2 DEF OutcomeInv, OpenHandles
  <2>2. ~ToOpen(c)'
    <3>1. \A x \in InLine : x[1].call # c
      BY <1>3, <1>10, ViewsTyped
    <3> QED BY <1>1, <1>4, <1>10, <3>1 DEF ToOpen
  <2>3. ASSUME c \in handles'
        PROVE  Kind(c) \in Holders \cup Openers \/ (Kind(c) \in Compounds /\ "CLOSE" \in failed'[c])
    <3>1. CASE c \in handles
      BY <1>8, <3>1 DEF OutcomeInv, OpenHandles
    <3>2. CASE \E j \in DOMAIN ch : ch[j].cmd = "CREATE" /\ results[j] = "ok"
      <4>1. Kind(c) \in Openers \cup Compounds
        BY <1>6, <3>2, BelongsFacts
      <4>2. CASE Kind(c) \in Compounds
        <5>1. results[Len(ch)] \in {"ok", "fail"} /\ ch[Len(ch)].cmd = "CLOSE"
          BY <1>3, <1>6, <1>7, <4>2
        <5>2. results[Len(ch)] = "fail"
          BY <1>3, <1>9, <2>3, <5>1
        <5> QED BY <1>3, <1>8, <4>2, <5>1, <5>2
      <4> QED BY <4>1, <4>2
    <3> QED BY <1>9, <2>3, <3>1, <3>2
  <2> QED BY <1>4, <2>1, <2>2, <2>3 DEF OpenHandles
<1>20. HonestStatus'
  <2>1. ASSUME NEW d \in Calls, Told(d), link # "connecting"
        PROVE  /\ calls[d].told[1] = "ok" =>
                    \/ failed'[d] \subseteq Ignored(calls[d].kind)
                    \/ calls[d].kind = "readlink" /\ expiries > 0
               /\ calls[d].told[1] = "fail" /\ link = "up" => failed'[d] # {}
    <3>1. /\ calls[d].told[1] = "ok" =>
                    \/ failed[d] \subseteq Ignored(calls[d].kind)
                    \/ calls[d].kind = "readlink" /\ expiries > 0
          /\ calls[d].told[1] = "fail" /\ link = "up" => failed[d] # {}
      BY <2>1 DEF OutcomeInv, HonestStatus
    <3>2. CASE d # c
      BY <1>8, <3>1, <3>2
    <3>3. ASSUME d = c, calls[d].told[1] = "ok"
          PROVE  failed'[d] \subseteq Ignored(calls[d].kind) \/ (calls[d].kind = "readlink" /\ expiries > 0)
      <4>1. CASE Kind(c) = "readlink"
        BY <1>10, <2>1, <3>3, <4>1 DEF Kind
      <4>2. CASE ch[1].cmd = "LOGOFF"
        <5>1. Kind(c) = "disconnect"
          BY <1>3, <1>6, <4>2, BelongsFacts
        <5>2. \A j \in DOMAIN ch : j = 1
          BY <1>3, <1>6, <5>1 DEF Compounds
        <5>3. failed'[c] \subseteq {"LOGOFF"}
          BY <1>8, <4>2, <5>2 DEF Refused
        <5>4. Ignored(Kind(c)) = {"LOGOFF"}
          BY <5>1 DEF Ignored
        <5> QED BY <3>3, <5>3, <5>4 DEF Kind
      <4> QED BY <1>10, <2>1, <3>3, <4>1, <4>2
    <3>4. failed[d] # {} => failed'[d] # {}
      BY <1>8
    <3> QED BY <3>1, <3>2, <3>3, <3>4
  <2> QED BY <1>1, <1>4, <2>1 DEF HonestStatus
<1>21. NoLeak'
  <2>1. ASSUME expiries = 0, NEW d \in handles', Told(d) PROVE Leaves(d)'
    <3>1. d # c /\ d \in handles
      BY <1>9, <1>10, <2>1
    <3>2. Leaves(d) /\ failed'[d] = failed[d]
      BY <1>3, <1>8, <2>1, <3>1 DEF OutcomeInv, NoLeak
    <3> QED BY <1>1, <3>2 DEF Leaves
  <2> QED BY <1>1, <1>4, <2>1 DEF NoLeak
<1> QED BY <1>11, <1>12, <1>13, <1>14, <1>16, <1>17, <1>18, <1>19, <1>20, <1>21 DEF OutcomeInv

\* What changes nothing but credits, interim replies or the link.
LEMMA PendOutcome ==
  ASSUME CallInv, CreditInv, OutcomeInv, NEW i, Pend(i) PROVE OutcomeInv'
<1>1. /\ Types /\ inbox \in Seq(Entry) /\ frames \in Seq(Frames) /\ i \in DOMAIN inbox
      /\ UNCHANGED <<link, begun, calls, outq, waitq, cur, nextMid, handles, failed, expiries>>
      /\ inbox' = [inbox EXCEPT ![i].pended = TRUE]
  BY QueuesTyped DEF CallInv, Pend, client, record
<1>2. DOMAIN inbox' = DOMAIN inbox /\ \A m \in DOMAIN inbox : inbox'[m].chain = inbox[m].chain
  <2>1. \A m \in DOMAIN inbox : inbox[m] \in Entry
    BY <1>1, ElementOfSeq
  <2> QED BY <1>1, <2>1 DEF Entry
<1>3. Unserved' = Unserved /\ (OncePerCall(inbox) => OncePerCall(inbox'))
  BY <1>2 DEF Unserved, OncePerCall
<1>4. PICK r : r.status = "pending" /\ frames' = Append(frames, <<r>>)
  <2> DEFINE r == [mid |-> inbox[i].chain[1].mid, status |-> "pending", grant |-> Grant(inbox[i].chain)]
  <2>1. r.status = "pending" /\ frames' = Append(frames, <<r>>)
    BY DEF Pend
  <2> QED BY <2>1
<1>5. Answers' \subseteq Answers
  <2> DEFINE L == Len(frames)
             f == <<r>>
  <2>1. /\ L \in Nat /\ DOMAIN frames = 1..L /\ DOMAIN frames' = 1..(L + 1)
        /\ \A m \in 1..L : frames'[m] = frames[m]
        /\ frames'[L + 1] = f
    BY <1>1, <1>4, AppendElements, LenProperties
  <2>2. DOMAIN f = {1} /\ f[1] = r
    OBVIOUS
  <2>3. \A m \in 1..(L + 1) : m \in 1..L \/ m = L + 1
    BY <2>1
  <2> HIDE DEF L, f
  <2>4. ASSUME NEW a \in Answers' PROVE a \in Answers
    <3>1. PICK m \in DOMAIN frames' : \E k \in DOMAIN frames'[m] : a = frames'[m][k] /\ Final(a)
      BY <2>4 DEF Answers
    <3>2. CASE m \in 1..L
      BY <2>1, <3>1, <3>2, AnswerOf
    <3>3. CASE m = L + 1
      BY <1>4, <2>1, <2>2, <3>1, <3>3 DEF Final
    <3> QED BY <2>1, <2>3, <3>2, <3>3
  <2> QED BY <2>4
<1> QED BY <1>1, <1>3, <1>5, SameOutcome

-----------------------------------------------------------------------------
\* The results.

\* Nothing has been asked of the server, and every status is still "ok".
LEMMA OutcomeInvInit == Init => OutcomeInv
<1> SUFFICES ASSUME Init PROVE OutcomeInv
  OBVIOUS
<1>1. /\ begun = {} /\ outq = <<>> /\ waitq = <<>> /\ cur = None /\ inbox = <<>> /\ frames = <<>>
      /\ handles = Held /\ failed = [c \in Calls |-> {}] /\ expiries = 0
      /\ \E mix \in Mixes : calls = [c \in Calls |-> New(mix[c])]
  BY DEF Init
<1>2. \A c \in Calls : calls[c].told = <<>> /\ calls[c].status = "ok" /\ failed[c] = {} /\ ~Told(c)
  BY <1>1 DEF New, Told
<1>3. DOMAIN outq = {} /\ DOMAIN waitq = {} /\ DOMAIN inbox = {} /\ DOMAIN frames = {}
  BY <1>1
<1>4. /\ OnWire = {} /\ Outstanding = {} /\ InLine = {} /\ Unserved = {} /\ Answers = {}
  BY <1>1, <1>3 DEF OnWire, Outstanding, InLine, Unserved, Answers
<1>5. \A c \in handles : Kind(c) \in Holders /\ c \in Calls
  BY <1>1 DEF Held, Holders, Kind
<1>6. Formed /\ Ranked /\ Older /\ Asking /\ Truthful
  BY <1>1, <1>3, <1>4 DEF Formed, Ranked, RankedWire, Older, Asking, OncePerCall, Truthful
<1>7. Failures
  BY <1>2, <1>4 DEF Failures
<1>8. Merged
  BY <1>2, <1>4 DEF Merged, Left
<1>9. OpenHandles
  BY <1>5 DEF OpenHandles
<1>10. HonestStatus /\ NoLeak
  BY <1>2, <1>5 DEF HonestStatus, NoLeak
<1> QED BY <1>6, <1>7, <1>8, <1>9, <1>10 DEF OutcomeInv

\* Every step keeps the invariant.
LEMMA OutcomeInvStep ==
  CallInv /\ CallInv' /\ CreditInv /\ OutcomeInv /\ [Next]_vars => OutcomeInv'
<1> SUFFICES ASSUME CallInv, CallInv', CreditInv, OutcomeInv, [Next]_vars PROVE OutcomeInv'
  OBVIOUS
<1> DEFINE Goal == OutcomeInv'
<1>0. Types
  BY DEF CallInv
<1>1. ASSUME NEW c \in Calls, Connect(c) \/ Connected(c) \/ Start(c) PROVE Goal
  <2>1. CASE Connect(c)
    <3>1. /\ UNCHANGED <<calls, outq, waitq, cur, nextMid, inbox, frames, handles, failed, expiries>>
          /\ link = "new" /\ link' = "connecting" /\ begun \subseteq begun'
      BY <2>1 DEF Connect, client, server, record
    <3>2. Unserved' = Unserved /\ Answers' = Answers /\ inbox' = inbox
      BY <3>1 DEF Unserved, Answers
    <3> QED BY <1>0, <3>1, <3>2, SameOutcome
  <2> QED BY <1>1, <2>1, ConnectedOutcome, StartOutcome
<1>2. CASE smb2_write_to_socket
  <2>1. PICK ch : ch = Head(outq)
    OBVIOUS
  <2>2. PICK c : c = ch[1].call
    OBVIOUS
  <2> QED BY <1>2, <2>1, <2>2, WriteOutcome
<1>3. CASE WritePart
  <2>1. UNCHANGED <<link, begun, calls, outq, waitq, cur, nextMid, inbox, frames, handles, failed,
                    expiries>>
    BY <1>3 DEF WritePart, server, record
  <2>2. Unserved' = Unserved /\ Answers' = Answers /\ inbox' = inbox
    BY <2>1 DEF Unserved, Answers
  <2> QED BY <1>0, <2>1, <2>2, SameOutcome
<1>4. CASE ReadHeader
  <2>1. PICK r : r = Head(Head(frames))
    OBVIOUS
  <2>2. PICK i : i = Position(r.mid)
    OBVIOUS
  <2> QED BY <1>4, <2>1, <2>2, ReadHeaderOutcome
<1>5. CASE ReadBody
  <2>1. PICK p : p = cur.pdu
    OBVIOUS
  <2>2. PICK s : s = cur.status
    OBVIOUS
  <2>3. PICK c : c = p.call
    OBVIOUS
  <2> QED BY <1>5, <2>1, <2>2, <2>3, ReadBodyOutcome
<1>6. ASSUME TimeOut PROVE Goal
  <2>1. PICK n \in 1..(Len(waitq) + Len(outq)) : smb2_timeout_pdus(n)
    BY <1>6 DEF TimeOut
  <2> QED BY <2>1, TimeOutOutcome
<1>7. CASE smb2_destroy_context  BY <1>7, DestroyOutcome
<1>8. ASSUME NEW i \in DOMAIN inbox, Answer(i) \/ Pend(i) PROVE Goal
  <2>1. CASE Answer(i)
    <3>1. PICK ch : ch = inbox[i].chain
      OBVIOUS
    <3>2. PICK c : c = ch[1].call
      OBVIOUS
    <3> QED BY <2>1, <3>1, <3>2, AnswerOutcome
  <2> QED BY <1>8, <2>1, PendOutcome
<1>9. CASE UNCHANGED vars
  <2>1. UNCHANGED <<link, begun, calls, outq, waitq, cur, nextMid, inbox, frames, handles, failed,
                    expiries>>
    BY <1>9 DEF vars, client, server, record
  <2>2. Unserved' = Unserved /\ Answers' = Answers /\ inbox' = inbox
    BY <2>1 DEF Unserved, Answers
  <2> QED BY <1>0, <2>1, <2>2, SameOutcome
<1> HIDE DEF Goal
<1>10. CASE Next
  BY <1>1, <1>2, <1>3, <1>4, <1>5, <1>6, <1>7, <1>8, <1>10 DEF Next, Serve, Interim, Goal
<1> QED BY <1>9, <1>10 DEF Goal

\* Whatever the calls and their kinds, verdicts, replies, timeouts and the end
\* of the context keep what the callbacks have gathered true to the server.
THEOREM OutcomeInvAlways == Spec => [](CallInv /\ CreditInv /\ OutcomeInv)
<1>1. Init => CallInv /\ CreditInv /\ OutcomeInv
  BY CallInvInit, CreditInvInit, OutcomeInvInit
<1>2. (CallInv /\ CreditInv /\ OutcomeInv) /\ [Next]_vars => (CallInv /\ CreditInv /\ OutcomeInv)'
  BY CallInvStep, CreditInvStep, OutcomeInvStep
<1> QED BY <1>1, <1>2, PTL DEF Spec

\* The user is told of success just when the server did all the call asked, and
\* of failure just when it refused something, except for what readlink and
\* disconnect ignore.
THEOREM HonestStatusAlways == Spec => []HonestStatus
<1>1. OutcomeInv => HonestStatus
  BY DEF OutcomeInv
<1> QED BY <1>1, OutcomeInvAlways, PTL

\* A call by path leaves no handle open on the server once its user was told.
THEOREM NoLeakAlways == Spec => []NoLeak
<1>1. OutcomeInv => NoLeak
  BY DEF OutcomeInv
<1> QED BY <1>1, OutcomeInvAlways, PTL

=============================================================================
