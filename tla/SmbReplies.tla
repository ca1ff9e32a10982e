----------------------------- MODULE SmbReplies -----------------------------
(***************************************************************************)
(* The replies of SMB2: encode_* is what a server of libsmb2 sends, a      *)
(* passthrough one where the payload is not its own, and process_* what    *)
(* its client reads.  `n` and `k` are lengths of payloads.                 *)
(***************************************************************************)
EXTENDS SmbWire

\* The end of a payload is compared with the length of the whole frame; for
\* the security buffers with its lower 16 bits.
Beyond(m) == m.says[1].len > 0 /\
             m.says[1].at + m.says[1].len > Header + m.sent
BeyondShort(m) == m.says[1].len > 0 /\
                  m.says[1].at + m.says[1].len > Short(Header + m.sent)

-----------------------------------------------------------------------------
\* The buffer for the security blob is 64 bytes long, whatever the blob, and
\* of undefined length when there is none.  A dialect of 3.1.1 has contexts.
encode_negotiate_reply(n, contexts) ==
  LET blob == IF n = 0 THEN 0 ELSE PadTo64(64)
      behind == Part(Header + 64 + blob,
                     IF contexts THEN (8 + PadTo64(38)) + PadTo64(8 + PadTo64(4))
                     ELSE 0)
  IN [size |-> 65,
      fields |-> [security_mode |-> <<2, 2>>, dialect_revision |-> <<4, 2>>,
                  negotiate_context_count |-> <<6, 2>>,
                  server_guid |-> <<8, 16>>, capabilities |-> <<24, 4>>,
                  max_transact_size |-> <<28, 4>>, max_read_size |-> <<32, 4>>,
                  max_write_size |-> <<36, 4>>, system_time |-> <<40, 8>>,
                  server_start_time |-> <<48, 8>>,
                  security_buffer_offset |-> <<56, 2>>,
                  security_buffer_length |-> <<58, 2>>,
                  negotiate_context_offset |-> <<60, 4>>],
      says |-> <<Part(Header + 64, n), behind>>,
      holds |-> <<Part(Header + 64, n), behind>>,
      sent |-> PadTo64(64 + blob + behind.len)]

\* The contexts are read only when there is a security blob.
process_negotiate(m) ==
  LET p == m.says[1]
      contexts == m.says[2].len > 0
      fields == [security_mode |-> <<2, 2>>, dialect_revision |-> <<4, 2>>,
                 negotiate_context_count |-> <<6, 2>>,
                 server_guid |-> <<8, 16>>, capabilities |-> <<24, 4>>,
                 max_transact_size |-> <<28, 4>>, max_read_size |-> <<32, 4>>,
                 max_write_size |-> <<36, 4>>, system_time |-> <<40, 8>>,
                 server_start_time |-> <<48, 8>>,
                 security_buffer_offset |-> <<56, 2>>,
                 security_buffer_length |-> <<58, 2>>,
                 negotiate_context_offset |-> <<60, 4>>]
  IN IF m.size # 65 \/ BeyondShort(m) THEN Refused
     ELSE IF p.len = 0 THEN Decoded(64, 0, fields, <<p, Part(0, 0)>>)
     ELSE IF p.at < Header + 64 THEN Refused
     ELSE Decoded(64, IF contexts THEN m.sent - 64
                      ELSE p.at - Header - 64 + p.len, fields, m.says)

encode_session_setup_reply(n) ==
  Carrying(9, [session_flags |-> <<2, 2>>, security_buffer_offset |-> <<4, 2>>,
               security_buffer_length |-> <<6, 2>>], Header + 8, n)

process_session_setup(m) ==
  IF BeyondShort(m) THEN Refused
  ELSE Exactly(9, m, AtOffset(m, 8,
         [session_flags |-> <<2, 2>>, security_buffer_offset |-> <<4, 2>>,
          security_buffer_length |-> <<6, 2>>]))

encode_logoff_reply == Message(4, <<>>)
process_logoff(m) == Decoded(4, 0, <<>>, <<>>)

encode_tree_connect_reply ==
  Message(16, [share_type |-> <<2, 1>>, share_flags |-> <<4, 4>>,
               capabilities |-> <<8, 4>>, maximal_access |-> <<12, 4>>])
process_tree_connect(m) ==
  Exactly(16, m, Decoded(16, 0,
    [share_type |-> <<2, 1>>, share_flags |-> <<4, 4>>,
     capabilities |-> <<8, 4>>, maximal_access |-> <<12, 4>>], <<>>))

encode_tree_disconnect_reply == Message(4, <<>>)
process_tree_disconnect(m) == Decoded(4, 0, <<>>, <<>>)

encode_create_reply(n) ==
  Carrying(89,
    [oplock_level |-> <<2, 1>>, flags |-> <<3, 1>>, create_action |-> <<4, 4>>,
     creation_time |-> <<8, 8>>, last_access_time |-> <<16, 8>>,
     last_write_time |-> <<24, 8>>, change_time |-> <<32, 8>>,
     allocation_size |-> <<40, 8>>, end_of_file |-> <<48, 8>>,
     file_attributes |-> <<56, 4>>, file_id |-> <<64, 16>>,
     create_context_offset |-> <<80, 4>>, create_context_length |-> <<84, 4>>],
    PadTo64(Header + 88), n)

process_create(m) ==
  Exactly(89, m, AtOffset(m, 88,
    [oplock_level |-> <<2, 1>>, flags |-> <<3, 1>>, create_action |-> <<4, 4>>,
     creation_time |-> <<8, 8>>, last_access_time |-> <<16, 8>>,
     last_write_time |-> <<24, 8>>, change_time |-> <<32, 8>>,
     allocation_size |-> <<40, 8>>, end_of_file |-> <<48, 8>>,
     file_attributes |-> <<56, 4>>, file_id |-> <<64, 16>>,
     create_context_offset |-> <<80, 4>>,
     create_context_length |-> <<84, 4>>]))

encode_close_reply ==
  Message(60, [flags |-> <<2, 2>>, creation_time |-> <<8, 8>>,
               last_access_time |-> <<16, 8>>, last_write_time |-> <<24, 8>>,
               change_time |-> <<32, 8>>, allocation_size |-> <<40, 8>>,
               end_of_file |-> <<48, 8>>, file_attributes |-> <<56, 4>>])
process_close(m) ==
  Exactly(60, m, Decoded(60, 0,
    [flags |-> <<2, 2>>, creation_time |-> <<8, 8>>,
     last_access_time |-> <<16, 8>>, last_write_time |-> <<24, 8>>,
     change_time |-> <<32, 8>>, allocation_size |-> <<40, 8>>,
     end_of_file |-> <<48, 8>>, file_attributes |-> <<56, 4>>], <<>>))

encode_flush_reply == Message(4, <<>>)
process_flush(m) == Exactly(4, m, Decoded(4, 0, <<>>, <<>>))

\* A read of nothing has no data offset.
encode_read_reply(n) ==
  [Carrying(17, [data_offset |-> <<2, 1>>, data_length |-> <<4, 4>>,
                 data_remaining |-> <<8, 4>>], Header + 16, n)
   EXCEPT !.says = <<Part(IF n = 0 THEN 0 ELSE Header + 16, n)>>]

process_read(m) ==
  IF m.size > 17 \/ (m.says[1].len > 0 /\ m.says[1].at # Header + 16)
  THEN Refused
  ELSE Behind64(m, 16, [data_offset |-> <<2, 1>>, data_length |-> <<4, 4>>,
                        data_remaining |-> <<8, 4>>])

\* All 17 bytes of a write reply are sent, the decoder is given 16.
encode_write_reply ==
  [Message(17, [count |-> <<4, 4>>, remaining |-> <<8, 4>>])
   EXCEPT !.sent = PadTo64(17)]
process_write(m) ==
  Exactly(17, m, Decoded(16, 0, [count |-> <<4, 4>>, remaining |-> <<8, 4>>],
                         <<>>))

encode_lock_reply == Message(4, <<>>)
process_lock(m) == Exactly(4, m, Decoded(4, 0, <<>>, <<>>))

-----------------------------------------------------------------------------
\* An input of k bytes is counted and never sent; an output of none is said
\* to be as long as the structure.
encode_ioctl_reply(n, k) ==
  [size |-> 49,
   fields |-> [ctl_code |-> <<4, 4>>, file_id |-> <<8, 16>>,
               input_offset |-> <<24, 4>>, input_count |-> <<28, 4>>,
               output_offset |-> <<32, 4>>, output_count |-> <<36, 4>>,
               flags |-> <<40, 4>>],
   says |-> <<Part(Header + 48 + PadTo64(k), IF n = 0 THEN 48 ELSE n),
              Part(Header + 48, k)>>,
   holds |-> <<Part(Header + 48, n)>>,
   sent |-> PadTo64(48 + n)]

\* The input is counted twice.
process_ioctl(m) ==
  LET fields == [ctl_code |-> <<4, 4>>, file_id |-> <<8, 16>>,
                 input_offset |-> <<24, 4>>, input_count |-> <<28, 4>>,
                 output_offset |-> <<32, 4>>, output_count |-> <<36, 4>>,
                 flags |-> <<40, 4>>]
      out == m.says[1]
  IN IF out.len = 0 THEN Exactly(49, m, Decoded(48, 0, fields, <<out>>))
     ELSE IF out.at < Header + 48 THEN Refused
     ELSE Exactly(49, m,
            Decoded(48, out.at - Header - 48 + PadTo64(m.says[2].len) + out.len,
                    fields, <<out>>))

encode_echo_reply == Message(4, <<>>)
process_echo(m) == Exactly(4, m, Decoded(4, 0, <<>>, <<>>))

encode_query_directory_reply(n) ==
  Carrying(9, [output_buffer_offset |-> <<2, 2>>,
               output_buffer_length |-> <<4, 4>>], Header + 8, n)
process_query_directory(m) ==
  IF Beyond(m) THEN Refused
  ELSE Exactly(9, m, AtOffset(m, 8, [output_buffer_offset |-> <<2, 2>>,
                                     output_buffer_length |-> <<4, 4>>]))

\* The offset is that of a request: the decoder does not look at it.
encode_change_notify_reply(n) ==
  [Carrying(9, [output_buffer_offset |-> <<2, 2>>,
                output_buffer_length |-> <<4, 4>>], Header + 8, n)
   EXCEPT !.says = <<Part(Header + 32, n)>>]
process_change_notify(m) ==
  Exactly(9, m, Behind64(m, 8, [output_buffer_offset |-> <<2, 2>>,
                                output_buffer_length |-> <<4, 4>>]))

encode_query_info_reply(n) ==
  [Carrying(9, [output_buffer_offset |-> <<2, 2>>,
                output_buffer_length |-> <<4, 4>>], Header + 8, n)
   EXCEPT !.says = <<Part(IF n = 0 THEN 0 ELSE Header + 8, n)>>]
process_query_info(m) ==
  IF Beyond(m) THEN Refused
  ELSE Exactly(9, m, AtOffset(m, 8, [output_buffer_offset |-> <<2, 2>>,
                                     output_buffer_length |-> <<4, 4>>]))

encode_set_info_reply == Message(2, <<>>)
process_set_info(m) == Decoded(2, 0, <<>>, <<>>)

-----------------------------------------------------------------------------
\* An error carries no data, whatever its count says.
encode_error_reply(n) ==
  [Message(9, [error_context_count |-> <<2, 1>>, byte_count |-> <<4, 4>>])
   EXCEPT !.sent = PadTo64(9), !.says = <<Part(Header + 8, n)>>]
process_error(m) ==
  Exactly(9, m, Behind64(m, 8, [error_context_count |-> <<2, 1>>,
                                byte_count |-> <<4, 4>>]))

\* Replies to an acknowledgement, and what breaks an oplock or a lease.
encode_oplock_break_reply ==
  Message(24, [oplock_level |-> <<2, 1>>, file_id |-> <<8, 16>>])
encode_oplock_break_notification ==
  Message(24, [oplock_level |-> <<2, 1>>, file_id |-> <<8, 16>>])
encode_lease_break_reply ==
  Message(36, [flags |-> <<4, 4>>, lease_key |-> <<8, 16>>,
               lease_state |-> <<24, 4>>, lease_duration |-> <<28, 4>>])

\* Six fields go to the same place.
encode_lease_break_notification ==
  Message(44, [new_epoch |-> <<2, 2>>, flags |-> <<4, 4>>,
               lease_key |-> <<8, 16>>, current_lease_state |-> <<4, 4>>,
               new_lease_state |-> <<4, 4>>, break_reason |-> <<4, 4>>,
               access_mask_hint |-> <<4, 4>>, share_mask_hint |-> <<4, 4>>])

process_oplock_break(m) ==
  CASE m.size = 24 ->
         Decoded(2, 22, [oplock_level |-> <<2, 1>>, file_id |-> <<8, 16>>],
                 <<>>)
    [] m.size = 44 ->
         Decoded(2, 42, [new_epoch |-> <<2, 2>>, flags |-> <<4, 4>>,
                         lease_key |-> <<8, 16>>,
                         current_lease_state |-> <<24, 4>>,
                         new_lease_state |-> <<28, 4>>,
                         break_reason |-> <<32, 4>>,
                         access_mask_hint |-> <<36, 4>>,
                         share_mask_hint |-> <<40, 4>>], <<>>)
    [] m.size = 36 ->
         Decoded(2, 34, [flags |-> <<4, 4>>, lease_key |-> <<8, 16>>,
                         lease_state |-> <<24, 4>>,
                         lease_duration |-> <<28, 8>>], <<>>)
    [] OTHER -> Refused
=============================================================================
