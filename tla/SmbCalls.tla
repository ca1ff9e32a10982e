------------------------------ MODULE SmbCalls ------------------------------
(***************************************************************************)
(* The asynchronous calls of libsmb2 that KinoDrop reaches: the chain of   *)
(* commands each queues and the callback behind every command.  A call is  *)
(* [kind, status, told]: `status` is the status its private data collects  *)
(* ("ok" until a command fails), `told` the statuses handed to the user's  *)
(* callback so far.                                                        *)
(*                                                                         *)
(* A callback takes the call and the status of its command and returns     *)
(* what it did: the call, the chain of commands it queued (<<>> for none)  *)
(* and whether it closed the socket.                                       *)
(***************************************************************************)
EXTENDS Sequences

CONSTANT Blocks                       \* credits a full read or write needs
ASSUME BlocksAssumption == Blocks \in {1, 2, 3}

New(kind) == [kind |-> kind, status |-> "ok", told |-> <<>>]

\* A command of a chain: `cost` is what it asks of the credits.
Cmd(name, cb) == [cmd |-> name, cb |-> cb, cost |-> 1]
Sized(name, cb) == [cmd |-> name, cb |-> cb, cost |-> Blocks]

Done(call) == [call |-> call, chain |-> <<>>, closed |-> FALSE]
Tell(call, s) == Done([call EXCEPT !.told = Append(@, s)])
Queue(call, chain) == [call |-> call, chain |-> chain, closed |-> FALSE]
MergeLast(call, s) == Done([call EXCEPT !.status = s])     \* mutant of Merge
Merge(call, s) == Done([call EXCEPT !.status = IF @ = "ok" THEN s ELSE @])
MergeAndTell(call, s) == Tell(Merge(call, s).call, Merge(call, s).call.status)
close_context(effect) == [effect EXCEPT !.closed = TRUE]

-----------------------------------------------------------------------------
\* Calls on an open handle: one command, whose status the user is told.

open_async == <<Cmd("CREATE", "open_cb")>>
open_cb(call, s) == Tell(call, s)

close_async == <<Cmd("CLOSE", "close_cb")>>
close_cb(call, s) == Tell(call, s)

fsync_async == <<Cmd("FLUSH", "fsync_cb")>>
fsync_cb(call, s) == Tell(call, s)

\* The end of the file is a success of no bytes.
pread_async == <<Sized("READ", "read_cb")>>
read_cb(call, s) == Tell(call, IF s = "eof" THEN "ok" ELSE s)

pwrite_async == <<Sized("WRITE", "write_cb")>>
write_cb(call, s) == Tell(call, IF s = "eof" THEN "ok" ELSE s)

fstat_async == <<Cmd("QUERY_INFO", "fstat_cb_1")>>
fstat_cb_1(call, s) == Tell(call, s)

ftruncate_async == <<Cmd("SET_INFO", "ftrunc_cb_1")>>
ftrunc_cb_1(call, s) == Tell(call, s)

echo_async == <<Cmd("ECHO", "echo_cb")>>
echo_cb(call, s) == Tell(call, s)

-----------------------------------------------------------------------------
\* Calls on a path: a compound chain that opens, acts and closes.

\* The status of the CREATE is left to the CLOSE behind it to report.
unlink_async == <<Cmd("CREATE", "create_cb_1"), Cmd("CLOSE", "create_cb_2")>>
mkdir_async == <<Cmd("CREATE", "create_cb_1"), Cmd("CLOSE", "create_cb_2")>>
create_cb_1(call, s) == Done(call)
create_cb_2(call, s) == Tell(call, s)

getinfo_async == <<Cmd("CREATE", "getinfo_cb_1"),
                   Cmd("QUERY_INFO", "getinfo_cb_2"),
                   Cmd("CLOSE", "getinfo_cb_3")>>
getinfo_cb_1(call, s) == Merge(call, s)
getinfo_cb_2_tells(call, s) == MergeAndTell(call, s)       \* mutant
getinfo_cb_2(call, s) == Merge(call, s)
getinfo_cb_3(call, s) == MergeAndTell(call, s)

truncate_async == <<Cmd("CREATE", "trunc_cb_1"),
                    Cmd("SET_INFO", "trunc_cb_2"),
                    Cmd("CLOSE", "trunc_cb_3")>>
trunc_cb_1(call, s) == Merge(call, s)
trunc_cb_2_tells(call, s) == MergeAndTell(call, s)         \* mutant
trunc_cb_2(call, s) == Merge(call, s)
trunc_cb_3(call, s) == MergeAndTell(call, s)

rename_async == <<Cmd("CREATE", "rename_cb_1"),
                  Cmd("SET_INFO", "rename_cb_2"),
                  Cmd("CLOSE", "rename_cb_3")>>
rename_cb_1(call, s) == Merge(call, s)
rename_cb_2(call, s) == Merge(call, s)
rename_cb_3(call, s) == MergeAndTell(call, s)

\* The status of the CLOSE is ignored here.
readlink_async == <<Cmd("CREATE", "readlink_cb_1"),
                    Cmd("IOCTL", "readlink_cb_2"),
                    Cmd("CLOSE", "readlink_cb_3")>>
readlink_cb_1(call, s) == Done([call EXCEPT !.status = s])
readlink_cb_2(call, s) == Merge(call, s)
readlink_cb_3(call, s) == Tell(call, call.status)

-----------------------------------------------------------------------------
\* Listing a directory: batches are asked for until there are no more files.

opendir_async == <<Cmd("CREATE", "opendir_cb")>>
NextBatch == <<Cmd("QUERY_DIRECTORY", "query_cb")>>

opendir_cb(call, s) ==
  IF s = "ok" THEN Queue(call, NextBatch) ELSE Tell(call, s)

\* A mutant: the directory is not closed at its end.
query_cb_keeps(call, s) ==
  CASE s = "ok"   -> Queue(call, NextBatch)
    [] s = "none" -> Tell(call, "ok")
    [] OTHER      -> Tell(call, s)

\* An error is told at once: the handle stays open on the server.
query_cb(call, s) ==
  CASE s = "ok"   -> Queue(call, NextBatch)
    [] s = "none" -> Queue(call, <<Cmd("CLOSE", "od_close_cb")>>)
    [] OTHER      -> Tell(call, s)

od_close_cb(call, s) == Tell(call, s)

-----------------------------------------------------------------------------
\* The list of shares: the pipe is opened, bound and called, never closed.

share_enum_async == <<Cmd("CREATE", "pipe_open_cb")>>
dcerpc_bind_async == <<Cmd("IOCTL", "pipe_bind_cb")>>
dcerpc_call_async == <<Cmd("IOCTL", "dcerpc_call_cb")>>

pipe_open_cb(call, s) ==
  IF s = "ok" THEN Queue(call, dcerpc_bind_async) ELSE Tell(call, s)

\* smb2_bind_cb, dcerpc_bind_cb and share_enum_bind_cb, one inside the other.
pipe_bind_cb(call, s) ==
  IF s = "ok" THEN Queue(call, dcerpc_call_async) ELSE Tell(call, s)

dcerpc_call_cb(call, s) == Tell(call, s)

-----------------------------------------------------------------------------
\* Connecting and disconnecting.

NegotiateChain == <<[Cmd("NEGOTIATE", "negotiate_cb") EXCEPT !.cost = 0]>>
SessionSetup == <<Cmd("SESSION_SETUP", "session_setup_cb")>>

\* The socket is connected, or it could not be.
connect_cb(call, s) ==
  IF s = "ok" THEN Queue(call, NegotiateChain) ELSE Tell(call, s)

negotiate_cb(call, s) ==
  IF s = "ok" THEN Queue(call, SessionSetup)
  ELSE close_context(Tell(call, s))

session_setup_cb(call, s) ==
  CASE s = "more" -> Queue(call, SessionSetup)
    [] s = "ok"   -> Queue(call, <<Cmd("TREE_CONNECT", "tree_connect_cb")>>)
    [] OTHER      -> close_context(Tell(call, s))

tree_connect_cb(call, s) ==
  IF s = "ok" THEN Tell(call, s) ELSE close_context(Tell(call, s))

disconnect_share_async == <<Cmd("TREE_DISCONNECT", "disconnect_cb_1")>>

disconnect_cb_1(call, s) ==
  IF s = "ok" THEN Queue(call, <<Cmd("LOGOFF", "disconnect_cb_2")>>)
  ELSE Tell(call, s)

\* The answer to the LOGOFF does not matter: success, and the socket is closed.
disconnect_cb_2(call, s) == [Tell(call, "ok") EXCEPT !.closed = TRUE]

-----------------------------------------------------------------------------
\* The first chain of a call of each kind ("connect" begins with the socket).
FirstChain ==
  [open |-> open_async, close |-> close_async, fsync |-> fsync_async,
   read |-> pread_async, write |-> pwrite_async, fstat |-> fstat_async,
   ftruncate |-> ftruncate_async, echo |-> echo_async,
   unlink |-> unlink_async, mkdir |-> mkdir_async, stat |-> getinfo_async,
   truncate |-> truncate_async, rename |-> rename_async,
   readlink |-> readlink_async, opendir |-> opendir_async,
   shares |-> share_enum_async, disconnect |-> disconnect_share_async]

\* What the callback named cb does when its command ends with status s.
Callback(cb, call, s) ==
  CASE cb = "open_cb"          -> open_cb(call, s)
    [] cb = "close_cb"         -> close_cb(call, s)
    [] cb = "fsync_cb"         -> fsync_cb(call, s)
    [] cb = "read_cb"          -> read_cb(call, s)
    [] cb = "write_cb"         -> write_cb(call, s)
    [] cb = "fstat_cb_1"       -> fstat_cb_1(call, s)
    [] cb = "ftrunc_cb_1"      -> ftrunc_cb_1(call, s)
    [] cb = "echo_cb"          -> echo_cb(call, s)
    [] cb = "create_cb_1"      -> create_cb_1(call, s)
    [] cb = "create_cb_2"      -> create_cb_2(call, s)
    [] cb = "getinfo_cb_1"     -> getinfo_cb_1(call, s)
    [] cb = "getinfo_cb_2"     -> getinfo_cb_2(call, s)
    [] cb = "getinfo_cb_3"     -> getinfo_cb_3(call, s)
    [] cb = "trunc_cb_1"       -> trunc_cb_1(call, s)
    [] cb = "trunc_cb_2"       -> trunc_cb_2(call, s)
    [] cb = "trunc_cb_3"       -> trunc_cb_3(call, s)
    [] cb = "rename_cb_1"      -> rename_cb_1(call, s)
    [] cb = "rename_cb_2"      -> rename_cb_2(call, s)
    [] cb = "rename_cb_3"      -> rename_cb_3(call, s)
    [] cb = "readlink_cb_1"    -> readlink_cb_1(call, s)
    [] cb = "readlink_cb_2"    -> readlink_cb_2(call, s)
    [] cb = "readlink_cb_3"    -> readlink_cb_3(call, s)
    [] cb = "opendir_cb"       -> opendir_cb(call, s)
    [] cb = "query_cb"         -> query_cb(call, s)
    [] cb = "od_close_cb"      -> od_close_cb(call, s)
    [] cb = "pipe_open_cb"     -> pipe_open_cb(call, s)
    [] cb = "pipe_bind_cb"     -> pipe_bind_cb(call, s)
    [] cb = "dcerpc_call_cb"   -> dcerpc_call_cb(call, s)
    [] cb = "negotiate_cb"     -> negotiate_cb(call, s)
    [] cb = "session_setup_cb" -> session_setup_cb(call, s)
    [] cb = "tree_connect_cb"  -> tree_connect_cb(call, s)
    [] cb = "disconnect_cb_1"  -> disconnect_cb_1(call, s)
    [] cb = "disconnect_cb_2"  -> disconnect_cb_2(call, s)

-----------------------------------------------------------------------------
Commands == {"NEGOTIATE", "SESSION_SETUP", "TREE_CONNECT", "TREE_DISCONNECT",
             "LOGOFF", "CREATE", "CLOSE", "FLUSH", "READ", "WRITE", "ECHO",
             "IOCTL", "QUERY_DIRECTORY", "QUERY_INFO", "SET_INFO"}

\* The callbacks of the requests inside a chain, which tell the user nothing,
\* and those of the last one, which tell the user or ask for more.
Silent == {"create_cb_1", "getinfo_cb_1", "getinfo_cb_2", "trunc_cb_1",
           "trunc_cb_2", "rename_cb_1", "rename_cb_2", "readlink_cb_1",
           "readlink_cb_2"}
Tellers == {"open_cb", "close_cb", "fsync_cb", "read_cb", "write_cb",
            "fstat_cb_1", "ftrunc_cb_1", "echo_cb", "create_cb_2",
            "getinfo_cb_3", "trunc_cb_3", "rename_cb_3", "readlink_cb_3",
            "opendir_cb", "query_cb", "od_close_cb", "pipe_open_cb",
            "pipe_bind_cb", "dcerpc_call_cb", "negotiate_cb",
            "session_setup_cb", "tree_connect_cb", "disconnect_cb_1",
            "disconnect_cb_2"}
=============================================================================
