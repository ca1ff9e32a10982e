----------------------------- MODULE SmbClient -----------------------------
(***************************************************************************)
(* A context of libsmb2 and the server it talks to: requests wait in       *)
(* `outq`, chain by chain, until the credits allow them on the socket,     *)
(* then in `waitq` for the reply that carries their message id.  Replies   *)
(* arrive in frames, one or several in each.  The calls and their          *)
(* callbacks are those of SmbCalls.                                        *)
(*                                                                         *)
(* A service call that fails ends in smb2_destroy_context (AMSMB2 does     *)
(* that in service(revents:)), which answers what is queued with SHUTDOWN. *)
(* Requests older than the timeout are answered with IO_TIMEOUT.           *)
(***************************************************************************)
EXTENDS SmbCalls, Naturals, FiniteSets, SequencesExt

CONSTANTS
  Calls,          \* the calls of the user
  Mixes,          \* what kinds of calls are made together
  Window,         \* the credits the server lets the client hold
  MaxBatches,     \* directory batches the server has
  MaxExpiries,    \* times requests are given up for their age
  None            \* no request is being read

ASSUME ClientAssumption ==
  /\ Mixes \subseteq [Calls -> DOMAIN FirstChain \cup {"connect"}]
  /\ Window \in Nat \ {0} /\ MaxBatches \in Nat /\ MaxExpiries \in Nat

Statuses == {"ok", "fail", "more", "none", "eof", "timeout", "shutdown"}
Request == [call : Calls, cmd : Commands, cb : Silent \cup Tellers,
            charge : Nat, mid : Nat, prev : Nat]
Reading == [pdu : Request, status : Statuses]

ASSUME NoneAssumption == None \notin Reading

VARIABLES
  link,           \* "new", "connecting", "up", "shut", "down", "crashed"
  calls,          \* the private data of every call
  begun,          \* calls that were made
  outq,           \* chains not yet written
  partial,        \* the head of outq is partly written
  waitq,          \* requests whose reply is awaited
  cur,            \* the request whose reply is being read
  credits,
  nextMid,
  inbox,          \* chains the server has not answered
  frames,         \* frames of replies on their way
  handles,        \* calls whose handle is open on the server
  granted,        \* message ids the server has allowed so far
  failed,         \* commands of each call the server refused
  legs,           \* batches and challenges the server has given a call
  skipped,        \* message ids taken and never paid for with credits
  dropped,        \* calls whose last request was freed without its callback
  late,           \* calls called back after their private data was freed
  garbled,        \* the stream to the server lost its framing
  expiries        \* times requests were given up

client == <<calls, outq, partial, waitq, cur, credits, nextMid>>
server == <<inbox, frames, handles, granted, failed, legs>>
record == <<skipped, dropped, late, garbled, expiries>>
vars == <<link, begun, client, server, record>>

-----------------------------------------------------------------------------
\* Requests.

\* What the numbers of a sequence come to.
Total(s) ==
  LET upto[n \in 0..Len(s)] == IF n = 0 THEN 0 ELSE upto[n - 1] + s[n]
  IN upto[Len(s)]

Width(charge) == IF charge > 1 THEN charge ELSE 1   \* message ids it takes
Charge(chain) == Total([k \in DOMAIN chain |-> chain[k].charge])
Widths(chain) == Total([k \in DOMAIN chain |-> Width(chain[k].charge)])

\* A read or write is cut down to the credits in hand, nothing at worst.
Clipped(cost, c) == IF cost > c THEN c ELSE cost
Asked(cmd, c) == IF cmd.cmd \in {"READ", "WRITE"}
                 THEN Clipped(cmd.cost, c) ELSE cmd.cost

\* smb2_queue_pdu gives the requests of a chain their message ids in order
\* and keeps with each the id of the one before it.
Numbered(call, chain, mid, c) ==
  LET charge(k) == Asked(chain[k], c)
      widths == [k \in DOMAIN chain |-> Width(charge(k))]
      at(k) == mid + Total(SubSeq(widths, 1, k - 1))
  IN [k \in DOMAIN chain |->
       [call |-> call, cmd |-> chain[k].cmd, cb |-> chain[k].cb,
        charge |-> charge(k), mid |-> at(k),
        prev |-> IF k = 1 THEN 0 ELSE at(k - 1)]]

\* Message ids of a chain that no credit will pay for.
Unpaid(chain) == Widths(chain) - Charge(chain)

-----------------------------------------------------------------------------
\* Callbacks.  `st` is what they change: [calls, outq, nextMid, skipped,
\* late, shut].  After the user was told, a call's private data is freed.
Before == [calls |-> calls, outq |-> outq, nextMid |-> nextMid,
           skipped |-> skipped, late |-> late, shut |-> FALSE]

smb2_queue_pdu(st, c, chain) ==
  LET pdus == Numbered(c, chain, st.nextMid, credits)
  IN IF chain = <<>> THEN st
     ELSE [st EXCEPT !.outq = Append(@, pdus),
                     !.nextMid = @ + Widths(pdus),
                     !.skipped = @ + IF pdus[1].cmd = "NEGOTIATE" THEN 0
                                     ELSE Unpaid(pdus)]

Complete(st, p, s) ==
  LET effect == Callback(p.cb, st.calls[p.call], s)
      after == [st EXCEPT !.calls[p.call] = effect.call,
                          !.shut = @ \/ effect.closed,
                          !.late = IF st.calls[p.call].told = <<>> THEN @
                                   ELSE @ \cup {p.call}]
  IN smb2_queue_pdu(after, p.call, effect.chain)

CompleteAll(pdus, s) ==
  LET after[n \in 0..Len(pdus)] ==
        IF n = 0 THEN Before ELSE Complete(after[n - 1], pdus[n], s)
  IN after[Len(pdus)]

Becomes(st) ==
  /\ calls' = st.calls
  /\ nextMid' = st.nextMid
  /\ skipped' = st.skipped
  /\ late' = st.late

-----------------------------------------------------------------------------
Fresh == \E c \in Calls : calls[c].kind = "connect"
Held == {c \in Calls : calls[c].kind \in
           {"close", "fsync", "read", "write", "fstat", "ftruncate"}}

Init ==
  /\ \E mix \in Mixes : calls = [c \in Calls |-> New(mix[c])]
  /\ begun = {} /\ outq = <<>> /\ partial = FALSE /\ waitq = <<>>
  /\ cur = None /\ inbox = <<>> /\ frames = <<>>
  /\ handles = Held
  /\ IF Fresh THEN link = "new" /\ credits = 0 /\ nextMid = 0 /\ granted = 1
     ELSE link = "up" /\ credits = Window /\ nextMid = 1
          /\ granted = Window + 1
  /\ failed = [c \in Calls |-> {}] /\ legs = [c \in Calls |-> 0]
  /\ skipped = 0 /\ dropped = {} /\ late = {} /\ garbled = FALSE
  /\ expiries = 0

-----------------------------------------------------------------------------
\* The user makes a call.

Connect(c) ==
  /\ link = "new" /\ calls[c].kind = "connect" /\ c \notin begun
  /\ begun' = begun \cup {c}
  /\ link' = "connecting"
  /\ UNCHANGED <<client, server, record>>

\* smb2_service_fd finds the socket connected and calls connect_cb.
Connected(c) ==
  /\ link = "connecting" /\ calls[c].kind = "connect" /\ c \in begun
  /\ link' = "up"
  /\ \E st \in {smb2_queue_pdu(Before, c, connect_cb(calls[c], "ok").chain)} :
        Becomes(st) /\ outq' = st.outq
  /\ UNCHANGED <<begun, partial, waitq, cur, credits, server, dropped, garbled,
                 expiries>>

Connectable == \A d \in Calls : calls[d].kind = "connect" =>
                                  calls[d].told = <<"ok">>

Start(c) ==
  /\ link = "up" /\ c \notin begun /\ calls[c].kind # "connect" /\ Connectable
  /\ begun' = begun \cup {c}
  /\ LET st == smb2_queue_pdu(Before, c, FirstChain[calls[c].kind])
     IN Becomes(st) /\ outq' = st.outq
  /\ UNCHANGED <<link, partial, waitq, cur, credits, server, dropped, garbled,
                 expiries>>

-----------------------------------------------------------------------------
\* The socket.

\* Mutants: the head alone is paid for; a chain that needs all is not sent.
SendableByHead == /\ link = "up" /\ outq # <<>> /\ ~garbled
                  /\ Head(outq)[1].charge <= credits
SendableStrict == /\ link = "up" /\ outq # <<>> /\ ~garbled
                  /\ Charge(Head(outq)) < credits

\* The head goes out when the credits pay for the whole of its chain.
Sendable == /\ link = "up" /\ outq # <<>> /\ ~garbled
            /\ Charge(Head(outq)) <= credits

smb2_write_to_socket ==
  /\ Sendable
  /\ credits' = credits - Charge(Head(outq))
  /\ waitq' = waitq \o Head(outq)
  /\ inbox' = Append(inbox, [chain |-> Head(outq), pended |-> FALSE])
  /\ outq' = Tail(outq)
  /\ partial' = FALSE
  /\ UNCHANGED <<link, begun, calls, cur, nextMid, frames, handles, granted,
                 failed, legs, record>>

\* The socket takes only a part of the chain.
WritePart ==
  /\ Sendable /\ ~partial
  /\ partial' = TRUE
  /\ UNCHANGED <<link, begun, calls, outq, waitq, cur, credits, nextMid, server,
                 record>>

\* A header is read: its credits are taken whatever becomes of the reply.
\* An interim reply, and one whose request is gone, take the rest of their
\* frame with them.
Awaited(mid) == \E i \in DOMAIN waitq : waitq[i].mid = mid
Position(mid) == CHOOSE i \in DOMAIN waitq : waitq[i].mid = mid
smb2_find_pdu(mid) == waitq[Position(mid)]
Behind(q, i) == SubSeq(q, i + 1, Len(q))     \* mutant of Without
Without(q, i) == RemoveAt(q, i)

CreditsOfFinal(r) == IF r.status = "pending" THEN 0 ELSE r.grant   \* mutant
CreditsOf(r) == r.grant

SkipFrame(r) == r.status = "pending" \/ ~Awaited(r.mid)

ReadHeader ==
  /\ link = "up" /\ cur = None /\ frames # <<>>
  /\ LET r == Head(Head(frames)) IN
     /\ credits' = credits + CreditsOf(r)
     /\ IF SkipFrame(r)
        THEN frames' = Tail(frames) /\ UNCHANGED <<link, waitq, cur>>
        ELSE LET p == smb2_find_pdu(r.mid) IN
          IF p.prev # 0 /\ Awaited(p.prev)
          THEN link' = "shut" /\ UNCHANGED <<frames, waitq, cur>>
          ELSE /\ cur' = [pdu |-> p, status |-> r.status]
               /\ waitq' = Without(waitq, Position(r.mid))
               /\ frames' = IF Len(Head(frames)) = 1 THEN Tail(frames)
                            ELSE <<Tail(Head(frames))>> \o Tail(frames)
               /\ UNCHANGED link
  /\ UNCHANGED <<begun, calls, outq, partial, nextMid, inbox, handles, granted,
                 failed, legs, record>>

\* The rest of the reply is read and decoded: the callback runs.
ReadBody ==
  /\ link = "up" /\ cur # None
  /\ cur' = None
  /\ \E st \in {Complete(Before, cur.pdu, cur.status)} :
        /\ Becomes(st) /\ outq' = st.outq
        /\ link' = IF st.shut THEN "shut" ELSE link
  /\ UNCHANGED <<begun, partial, waitq, credits, server, dropped, garbled,
                 expiries>>

-----------------------------------------------------------------------------
\* Giving up.

Callers(chains) == {c \in Calls : \E i \in DOMAIN chains :
                      Len(chains[i]) > 1 /\ chains[i][1].call = c}

\* fstat_cb_1 reads through its reply before it looks at the status; there is
\* no reply behind SHUTDOWN and IO_TIMEOUT.  An optimised build may read later.
MayCrash(pdus) == \E i \in DOMAIN pdus : pdus[i].cb = "fstat_cb_1"

Heads(chains) == [i \in DOMAIN chains |-> chains[i][1]]

\* smb2_timeout_pdus: everything queued before some moment, the n oldest of
\* waitq and the chains of outq behind it.  Of a chain that was not sent only
\* the head is answered, the rest is freed with it.
smb2_timeout_pdus(n) ==
  /\ link = "up" /\ expiries < MaxExpiries
  /\ LET sent == IF n < Len(waitq) THEN n ELSE Len(waitq)
         unsent == SubSeq(outq, 1, n - sent)
         given == Heads(unsent) \o SubSeq(waitq, 1, sent)
         st == CompleteAll(given, "timeout")
     IN /\ Becomes([st EXCEPT !.skipped =
             @ + Total([i \in DOMAIN unsent |-> Charge(unsent[i])])])
        /\ outq' = SubSeq(outq, n - sent + 1, Len(outq))
        /\ waitq' = SubSeq(waitq, sent + 1, Len(waitq))
        /\ dropped' = dropped \cup Callers(unsent)
        /\ garbled' = (garbled \/ (partial /\ unsent # <<>>))
        /\ partial' = (partial /\ unsent = <<>>)
        /\ \/ link' = IF st.shut THEN "shut" ELSE link
           \/ MayCrash(given) /\ link' = "crashed"
  /\ expiries' = expiries + 1
  /\ UNCHANGED <<begun, cur, credits, server>>

TimeOut == \E n \in 1..(Len(waitq) + Len(outq)) : smb2_timeout_pdus(n)

\* A connect that has queued nothing yet is told by its own callback.
Abandoned(pending) ==
  [c \in Calls |-> IF /\ link = "connecting" /\ c \in begun
                      /\ pending[c].kind = "connect"
                   THEN connect_cb(pending[c], "fail").call ELSE pending[c]]

\* The service call fails (the peer is gone, a reply does not parse, the
\* socket was closed by a callback) and the context is destroyed.
smb2_destroy_context ==
  /\ link \in {"connecting", "up", "shut"}
  /\ LET all == Heads(outq) \o (IF cur = None THEN <<>> ELSE <<cur.pdu>>) \o waitq
     IN /\ \E st \in {CompleteAll(all, "shutdown")} :
             Becomes([st EXCEPT !.calls = Abandoned(@), !.nextMid = 0,
                                !.skipped = 0])
        /\ \/ link' = "down"
           \/ MayCrash(all) /\ link' = "crashed"
  /\ dropped' = dropped \cup Callers(outq)
  /\ outq' = <<>> /\ waitq' = <<>> /\ cur' = None /\ partial' = FALSE
  /\ credits' = 0 /\ garbled' = FALSE
  /\ inbox' = <<>> /\ frames' = <<>> /\ handles' = {} /\ granted' = 0
  /\ legs' = [c \in Calls |-> 0]
  /\ UNCHANGED <<begun, failed, expiries>>

-----------------------------------------------------------------------------
\* The server.

\* The directory has so many batches, the first session setup a challenge.
Outcomes(p) ==
  CASE p.cmd = "SESSION_SETUP"   -> {"ok", "fail"} \cup
         (IF legs[p.call] = 0 THEN {"more"} ELSE {})
    [] p.cmd = "QUERY_DIRECTORY" -> {"none", "fail"} \cup
         (IF legs[p.call] < MaxBatches THEN {"ok"} ELSE {})
    [] p.cmd = "READ"            -> {"ok", "eof", "fail"}
    [] OTHER                     -> {"ok", "fail"}

\* What a chain may come to: a request related to a CREATE that failed fails
\* as well.
Results(chain) ==
  IF Len(chain) = 1 THEN {<<s>> : s \in Outcomes(chain[1])}
  ELSE {f \in [DOMAIN chain -> {"ok", "fail"}] :
          f[1] = "fail" => \A j \in DOMAIN chain : f[j] = "fail"}

Replies(chain, results, grant) ==
  [j \in DOMAIN chain |->
     [mid |-> chain[j].mid, status |-> results[j],
      grant |-> IF j = Len(chain) THEN grant ELSE 0]]

\* The replies of a chain share a frame or have one each.
Framings(replies) == {<<replies>>, [j \in DOMAIN replies |-> <<replies[j]>>]}

\* What the chain used is granted again, the whole window at the beginning.
Grant(chain) == IF chain[1].cmd = "NEGOTIATE" THEN Window ELSE Charge(chain)

Opened(chain, results) ==
  {chain[j].call : j \in {k \in DOMAIN chain :
                            chain[k].cmd = "CREATE" /\ results[k] = "ok"}}
Closed(chain, results) ==
  {chain[j].call : j \in {k \in DOMAIN chain :
                            chain[k].cmd = "CLOSE" /\ results[k] = "ok"}}

\* Requests it has taken are answered in any order.
Answer(i) ==
  /\ i \in DOMAIN inbox
  /\ inbox' = RemoveAt(inbox, i)
  /\ LET chain == inbox[i].chain
         c == chain[1].call
         grant == IF inbox[i].pended THEN 0 ELSE Grant(chain)
     IN \E results \in Results(chain) :
        /\ \E fs \in Framings(Replies(chain, results, grant)) :
             frames' = frames \o fs
        /\ handles' = (handles \cup Opened(chain, results))
                        \ Closed(chain, results)
        /\ failed' = [failed EXCEPT ![c] =
             @ \cup {chain[j].cmd : j \in {k \in DOMAIN chain :
                                             results[k] = "fail"}}]
        /\ legs' = [legs EXCEPT ![c] =
             @ + IF chain[1].cmd \in {"SESSION_SETUP", "QUERY_DIRECTORY"}
                    /\ results[1] \in {"more", "ok"} THEN 1 ELSE 0]
        /\ granted' = granted + grant
  /\ UNCHANGED <<link, begun, client, record>>

\* An interim reply: the credits come with it.
Pend(i) ==
  /\ i \in DOMAIN inbox /\ ~inbox[i].pended
  /\ LET chain == inbox[i].chain IN
     /\ frames' = Append(frames, <<[mid |-> chain[1].mid, status |-> "pending",
                                    grant |-> Grant(chain)]>>)
     /\ granted' = granted + Grant(chain)
  /\ inbox' = [inbox EXCEPT ![i].pended = TRUE]
  /\ UNCHANGED <<link, begun, client, handles, failed, legs, record>>

Serve == \E i \in DOMAIN inbox : Answer(i)
Interim == \E i \in DOMAIN inbox : Pend(i)

-----------------------------------------------------------------------------
Next ==
  \/ \E c \in Calls : Connect(c) \/ Connected(c) \/ Start(c)
  \/ smb2_write_to_socket \/ WritePart \/ ReadHeader \/ ReadBody
  \/ TimeOut \/ smb2_destroy_context
  \/ Serve \/ Interim

Spec == Init /\ [][Next]_vars

\* AMSMB2 polls and services the socket while a call waits, the server
\* answers, a closed socket or a broken stream ends the context: while one of
\* these can happen, one does.
Progress ==
  \/ \E c \in Calls : Connected(c)
  \/ smb2_write_to_socket \/ ReadHeader \/ ReadBody
  \/ Serve
  \/ (link = "shut" \/ garbled) /\ smb2_destroy_context

Fairness == WF_vars(Progress)

FairSpec == Spec /\ Fairness

-----------------------------------------------------------------------------
\* Every variable has its type; the credits in hand are never negative.
TypeOK ==
  /\ link \in {"new", "connecting", "up", "shut", "down", "crashed"}
  /\ begun \subseteq Calls /\ dropped \subseteq Calls /\ late \subseteq Calls
  /\ handles \subseteq Calls
  /\ \A c \in Calls : /\ calls[c].status \in Statuses
                      /\ ToSet(calls[c].told) \subseteq Statuses
  /\ \A p \in ToSet(waitq) \cup UNION {ToSet(outq[i]) : i \in DOMAIN outq} :
       p.charge <= Window /\ p.prev < p.mid + 1
  /\ partial \in BOOLEAN /\ garbled \in BOOLEAN
  /\ credits \in Nat /\ nextMid \in Nat /\ granted \in Nat /\ skipped \in Nat

Waiting(c) == \/ \E i \in DOMAIN waitq : waitq[i].call = c
              \/ \E i \in DOMAIN outq : outq[i][1].call = c
              \/ cur # None /\ cur.pdu.call = c

Told(c) == calls[c].told # <<>>

\* The user's callback runs at most once for a call, whatever the order of
\* replies, timeouts and the end of the context (smb2_timeout_pdus,
\* smb2_destroy_context and smb2_read_data all call back).
CalledOnce == \A c \in Calls : Len(calls[c].told) <= 1

\* A call that was made and whose user was not told has a request queued or
\* awaited: no step of the queues loses one.  The exception the code has is a
\* compound given up before it was sent: only its head is called back
\* (pdu.c:1140, init.c:327) and the user, told by the last, never is.
NothingLost ==
  link \in {"up", "shut", "down"} =>
    \A c \in begun : Told(c) \/ Waiting(c) \/ c \in dropped

\* As long as no request is given up for its age, no callback of a chain runs
\* after the last one has freed the private data they share.
InOrder == expiries = 0 => late = {}

\* A request on the wire has a message id the server has allowed: queueing,
\* chains, interim replies and lost credits never run ahead of the server's
\* window, except by ids taken without a credit.
WithinWindow ==
  \A i \in DOMAIN waitq :
    waitq[i].mid + Width(waitq[i].charge) <= granted + skipped

\* When everything was answered and nothing given up, the client holds the
\* whole window again: no path of the replies loses credits.
Quiet == outq = <<>> /\ waitq = <<>> /\ cur = None /\ inbox = <<>> /\ frames = <<>>
CreditsReturn ==
  (link = "up" /\ Quiet /\ expiries = 0) => credits = Window

\* The user is told of success just when the server did all the call asked.
\* readlink does not look at the status of its CLOSE nor disconnect at that of
\* its LOGOFF; readlink told of its CLOSE's timeout while the reply to its IOCTL
\* is being read reports success as well.
Ignored(kind) == CASE kind = "readlink"   -> {"CLOSE"}
                   [] kind = "disconnect" -> {"LOGOFF"}
                   [] OTHER               -> {}
HonestStatus ==
  \A c \in Calls : Told(c) /\ link # "connecting" =>
    /\ calls[c].told[1] = "ok" =>
         \/ failed[c] \subseteq Ignored(calls[c].kind)
         \/ calls[c].kind = "readlink" /\ expiries > 0
    /\ calls[c].told[1] = "fail" /\ link = "up" => failed[c] # {}

\* A call by path leaves no handle on the server once its user was told, a
\* failed open none either; except that a listing which fails halfway keeps
\* its directory open (libsmb2.c:418) and a list of shares its pipe.
Leaves(c) ==
  \/ calls[c].kind \in {"fsync", "read", "write", "fstat", "ftruncate", "shares"}
  \/ calls[c].kind = "open" /\ calls[c].told[1] = "ok"
  \/ calls[c].kind = "opendir" /\ "QUERY_DIRECTORY" \in failed[c]
  \/ "CLOSE" \in failed[c]
NoLeak ==
  expiries = 0 => \A c \in handles : Told(c) => Leaves(c)

\* Every call is answered in the end while requests are not given up: chains
\* do not starve each other of credits, and a reply always finds its request.
Answered ==
  \A c \in Calls :
    c \in begun ~> Told(c) \/ link \in {"down", "crashed"} \/ expiries > 0
=============================================================================
