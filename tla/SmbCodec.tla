------------------------------ MODULE SmbCodec ------------------------------
(***************************************************************************)
(* Both ends of SMB2 as libsmb2 implements them: every message it can      *)
(* encode, given to its own decoder.  The properties hold of constants;    *)
(* they are checked for every length of a payload in Lengths.              *)
(***************************************************************************)
EXTENDS SmbRequests, SmbReplies

CONSTANT Lengths          \* of payloads

\* The most data of one READ or WRITE, MAX_CREDITS being 1024.
MaxData == (1024 - 16) * 65536

ASSUME LengthsAssumption == \A n \in Lengths : n \in Nat /\ n <= MaxData

Shorts == {n \in Lengths : n <= 65535}      \* what a uint16_t can count
Names == {n \in Lengths : n % 2 = 0}                              \* UTF-16
Dialects == {n \in Lengths : n <= 10}       \* SMB2_NEGOTIATE_MAX_DIALECTS
Blobs == {n \in Lengths : n <= 64}     \* what a negotiate reply has room for

-----------------------------------------------------------------------------
\* The decoder finds in a message what the encoder put there.
Arrives(m, process(_)) == Understood(m, process(m))

\* The fields come out as they went in.
Agrees(m, process(_)) == Misread(m, process(m)) = {}

-----------------------------------------------------------------------------
\* Requests.
RequestsArrive ==
  /\ \A n \in Lengths :
       /\ Arrives(encode_write_request(n), process_write_request)
       /\ Arrives(encode_ioctl_request(n), process_ioctl_request)
       /\ Arrives(encode_set_info_request(n), process_set_info_request)
  /\ \A n \in Shorts :
       /\ Arrives(encode_session_setup_request(n), process_session_setup_request)
       /\ n > 0 => Arrives(encode_lock_request(n), process_lock_request)
  /\ \A n \in Dialects :
       Arrives(encode_negotiate_request(n), process_negotiate_request)
  /\ \A n \in Names \cap Shorts :
       Arrives(encode_tree_connect_request(n), process_tree_connect_request)
  /\ \A n \in Names :
       /\ Arrives(encode_query_directory_request(n),
                  process_query_directory_request) <=> n <= 65432
       /\ \A k \in Lengths :
            Arrives(encode_create_request(n, k), process_create_request)
              <=> n <= 65535
  /\ Arrives(encode_logoff_request, process_logoff_request)
  /\ Arrives(encode_tree_disconnect_request, process_tree_disconnect_request)
  /\ Arrives(encode_close_request, process_close_request)
  /\ Arrives(encode_flush_request, process_flush_request)
  /\ Arrives(encode_read_request, process_read_request)
  /\ Arrives(encode_echo_request, process_echo_request)
  /\ Arrives(encode_change_notify_request, process_change_notify_request)
  /\ Arrives(encode_query_info_request, process_query_info_request)
  /\ Arrives(encode_oplock_break_acknowledgement, process_oplock_break_request)
  /\ Arrives(encode_lease_break_acknowledgement, process_oplock_break_request)

\* Replies.
RepliesArrive ==
  /\ \A n \in Shorts :
       Arrives(encode_session_setup_reply(n), process_session_setup)
         <=> n <= 65456
  /\ \A n \in Lengths :
       /\ Arrives(encode_create_reply(n), process_create)
       /\ Arrives(encode_read_reply(n), process_read)
       /\ Arrives(encode_query_directory_reply(n), process_query_directory)
       /\ Arrives(encode_change_notify_reply(n), process_change_notify)
       /\ Arrives(encode_query_info_reply(n), process_query_info)
       /\ Arrives(encode_error_reply(n), process_error) <=> n <= 8
       /\ \A k \in Lengths :
            Arrives(encode_ioctl_reply(n, k), process_ioctl)
              <=> n > 0 /\ k = 0
  /\ \A n \in Blobs, contexts \in BOOLEAN :
       Arrives(encode_negotiate_reply(n, contexts), process_negotiate)
         <=> (contexts => n > 0)
  /\ Arrives(encode_logoff_reply, process_logoff)
  /\ Arrives(encode_tree_connect_reply, process_tree_connect)
  /\ Arrives(encode_tree_disconnect_reply, process_tree_disconnect)
  /\ Arrives(encode_close_reply, process_close)
  /\ Arrives(encode_flush_reply, process_flush)
  /\ Arrives(encode_write_reply, process_write)
  /\ Arrives(encode_lock_reply, process_lock)
  /\ Arrives(encode_echo_reply, process_echo)
  /\ Arrives(encode_set_info_reply, process_set_info)
  /\ Arrives(encode_oplock_break_reply, process_oplock_break)
  /\ Arrives(encode_oplock_break_notification, process_oplock_break)
  /\ Arrives(encode_lease_break_reply, process_oplock_break)
  /\ Arrives(encode_lease_break_notification, process_oplock_break)

\* Every request of libsmb2's client is understood by libsmb2's server, and its
\* replies by the client: the lengths and offsets its encoders compute are the
\* ones its decoders compute back, padding included.  A payload has every length
\* its count can say, up to the data of a READ or WRITE that takes all credits.
\* The exceptions: a name of a CREATE beyond 16 bits has its length cut; a
\* security buffer or a search pattern is refused when it ends so near to
\* 64 KiB that the length of the frame, cut to 16 bits, is smaller; an ioctl
\* reply without output says it has 48 bytes of it, one with an input counts the
\* input twice, a negotiate reply without a security blob loses its contexts,
\* and of the data of an error nothing but padding is ever sent.
MessagesArrive == RequestsArrive /\ RepliesArrive

-----------------------------------------------------------------------------
\* No field is read from another place than it was written to, or together
\* with bytes of its neighbour, except the previous session of a session
\* setup, which the server takes from two bytes too far, and the fields of a
\* lease break that are all written over its flags.
FieldsAgree ==
  /\ Misread(encode_session_setup_request(0),
             process_session_setup_request(encode_session_setup_request(0)))
       = {"previous_session_id"}
  /\ Misread(encode_lease_break_acknowledgement,
             process_oplock_break_request(encode_lease_break_acknowledgement))
       = {"flags", "lease_state", "lease_duration"}
  /\ Misread(encode_lease_break_notification,
             process_oplock_break(encode_lease_break_notification))
       = {"flags", "current_lease_state", "new_lease_state", "break_reason",
          "access_mask_hint", "share_mask_hint"}
  /\ \A async \in BOOLEAN :
       Misread(smb2_encode_header(async),
               smb2_decode_header(smb2_encode_header(async), async)) = {}
  /\ Agrees(encode_negotiate_request(1), process_negotiate_request)
  /\ Agrees(encode_tree_connect_request(0), process_tree_connect_request)
  /\ Agrees(encode_create_request(0, 0), process_create_request)
  /\ Agrees(encode_close_request, process_close_request)
  /\ Agrees(encode_flush_request, process_flush_request)
  /\ Agrees(encode_read_request, process_read_request)
  /\ Agrees(encode_write_request(0), process_write_request)
  /\ Agrees(encode_lock_request(1), process_lock_request)
  /\ Agrees(encode_ioctl_request(0), process_ioctl_request)
  /\ Agrees(encode_query_directory_request(0), process_query_directory_request)
  /\ Agrees(encode_change_notify_request, process_change_notify_request)
  /\ Agrees(encode_query_info_request, process_query_info_request)
  /\ Agrees(encode_set_info_request(0), process_set_info_request)
  /\ Agrees(encode_oplock_break_acknowledgement, process_oplock_break_request)
  /\ Agrees(encode_negotiate_reply(0, FALSE), process_negotiate)
  /\ Agrees(encode_session_setup_reply(0), process_session_setup)
  /\ Agrees(encode_tree_connect_reply, process_tree_connect)
  /\ Agrees(encode_create_reply(0), process_create)
  /\ Agrees(encode_close_reply, process_close)
  /\ Agrees(encode_read_reply(0), process_read)
  /\ Agrees(encode_write_reply, process_write)
  /\ Agrees(encode_ioctl_reply(1, 0), process_ioctl)
  /\ Agrees(encode_query_directory_reply(0), process_query_directory)
  /\ Agrees(encode_change_notify_reply(0), process_change_notify)
  /\ Agrees(encode_query_info_reply(0), process_query_info)
  /\ Agrees(encode_error_reply(0), process_error)
  /\ Agrees(encode_oplock_break_reply, process_oplock_break)
  /\ Agrees(encode_oplock_break_notification, process_oplock_break)
  /\ Agrees(encode_lease_break_reply, process_oplock_break)
=============================================================================
