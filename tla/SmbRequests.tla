---------------------------- MODULE SmbRequests ----------------------------
(***************************************************************************)
(* The requests of SMB2: encode_* is what a client of libsmb2 sends, and   *)
(* process_* what its server side, a passthrough one, reads.  `n` and `k`  *)
(* are lengths of payloads.                                                *)
(***************************************************************************)
EXTENDS SmbWire

\* The contexts of a dialect 3.1.1 negotiation: a preauth context of 38 bytes
\* and an encryption context of 4, each padded behind its header of 8.
ContextsLength == (8 + PadTo64(38)) + PadTo64(8 + PadTo64(4))

encode_negotiate_request(dialects) ==
  LET end == PadTo64(PadTo32(36 + 2 * dialects))
  IN [size |-> 36,
      fields |-> [dialect_count |-> <<2, 2>>, security_mode |-> <<4, 2>>,
                  capabilities |-> <<8, 4>>, client_guid |-> <<12, 16>>,
                  negotiate_context_offset |-> <<28, 4>>,
                  negotiate_context_count |-> <<32, 2>>],
      says |-> <<Part(Header + 36, 2 * dialects),
                 Part(Header + end, ContextsLength)>>,
      holds |-> <<Part(Header + 36, 2 * dialects),
                  Part(Header + end, ContextsLength)>>,
      sent |-> PadTo64(end + ContextsLength)]

\* Whatever follows is read when there are contexts.
process_negotiate_request(m) ==
  Exactly(36, m,
    Decoded(36, m.sent - 36,
      [dialect_count |-> <<2, 2>>, security_mode |-> <<4, 2>>,
       capabilities |-> <<8, 4>>, client_guid |-> <<12, 16>>,
       negotiate_context_offset |-> <<28, 4>>,
       negotiate_context_count |-> <<32, 2>>],
      <<Part(Header + 36, m.says[1].len), m.says[2]>>))

encode_session_setup_request(n) ==
  Carrying(25,
    [flags |-> <<2, 1>>, security_mode |-> <<3, 1>>, capabilities |-> <<4, 4>>,
     channel |-> <<8, 4>>, security_buffer_offset |-> <<12, 2>>,
     security_buffer_length |-> <<14, 2>>, previous_session_id |-> <<16, 8>>],
    Header + 24, n)

process_session_setup_request(m) ==
  Exactly(25, m, Behind64(m, 24,
    [flags |-> <<2, 1>>, security_mode |-> <<3, 1>>, capabilities |-> <<4, 4>>,
     channel |-> <<8, 4>>, security_buffer_offset |-> <<12, 2>>,
     security_buffer_length |-> <<14, 2>>,
     previous_session_id |-> <<18, 8>>]))

encode_logoff_request == Message(4, <<>>)
process_logoff_request(m) == Exactly(4, m, Decoded(4, 0, <<>>, <<>>))

\* Mutant: the path begins where the odd structure size ends.
encode_tree_connect_request_odd(n) ==
  Carrying(9, [flags |-> <<2, 2>>, path_offset |-> <<4, 2>>,
               path_length |-> <<6, 2>>], Header + 9, n)

encode_tree_connect_request(n) ==
  Carrying(9, [flags |-> <<2, 2>>, path_offset |-> <<4, 2>>,
               path_length |-> <<6, 2>>], Header + 8, n)

process_tree_connect_request(m) ==
  Exactly(9, m, Behind64(m, 8,
    [flags |-> <<2, 2>>, path_offset |-> <<4, 2>>, path_length |-> <<6, 2>>]))

encode_tree_disconnect_request == Message(4, <<>>)
process_tree_disconnect_request(m) == Decoded(4, 0, <<>>, <<>>)

\* An empty name still takes eight bytes, so that a context behind it is
\* where its offset says.  The length of the name is said in 16 bits.
encode_create_request(n, k) ==
  LET context == Header + 56 + (IF n = 0 THEN 8 ELSE PadTo64(n))
      said == PadTo64(Header + 56 + (IF Short(n) = 0 THEN 4 ELSE Short(n)))
  IN [size |-> 57,
      fields |-> [security_flags |-> <<2, 1>>,
                  requested_oplock_level |-> <<3, 1>>,
                  impersonation_level |-> <<4, 4>>,
                  smb_create_flags |-> <<8, 8>>, desired_access |-> <<24, 4>>,
                  file_attributes |-> <<28, 4>>, share_access |-> <<32, 4>>,
                  create_disposition |-> <<36, 4>>,
                  create_options |-> <<40, 4>>, name_offset |-> <<44, 2>>,
                  name_length |-> <<46, 2>>,
                  create_context_offset |-> <<48, 4>>,
                  create_context_length |-> <<52, 4>>],
      says |-> <<Part(PadTo32(Header + 56), Short(n)),
                 Part(IF k = 0 THEN 0 ELSE said, k)>>,
      holds |-> <<Part(Header + 56, n), Part(context, k)>>,
      sent |-> PadTo64(context - Header + PadTo64(k))]

process_create_request(m) ==
  LET name == m.says[1]
      context == m.says[2]
      behind == IF context.at > name.at THEN PadTo64(context.at - name.at)
                ELSE name.len
      found == <<Part(Header + 56, name.len), context>>
      fields == [security_flags |-> <<2, 1>>,
                 requested_oplock_level |-> <<3, 1>>,
                 impersonation_level |-> <<4, 4>>,
                 smb_create_flags |-> <<8, 8>>, desired_access |-> <<24, 4>>,
                 file_attributes |-> <<28, 4>>, share_access |-> <<32, 4>>,
                 create_disposition |-> <<36, 4>>,
                 create_options |-> <<40, 4>>, name_offset |-> <<44, 2>>,
                 name_length |-> <<46, 2>>,
                 create_context_offset |-> <<48, 4>>,
                 create_context_length |-> <<52, 4>>]
  IN IF name.len = 0 /\ context.len = 0
     THEN Exactly(57, m, Decoded(56, 0, fields, found))
     ELSE IF \/ name.len > 0 /\ name.at < Header + 56
             \/ context.len > 0 /\ context.at < Header + 56
          THEN Refused
          ELSE Exactly(57, m,
                 Decoded(56, name.at - Header - 56 + behind + context.len,
                         fields, found))

\* Mutant: no room for the reserved bytes.
encode_close_request_packed ==
  Message(24, [flags |-> <<2, 2>>, file_id |-> <<4, 16>>])

encode_close_request == Message(24, [flags |-> <<2, 2>>, file_id |-> <<8, 16>>])
process_close_request(m) ==
  Exactly(24, m, Decoded(24, 0, [flags |-> <<2, 2>>, file_id |-> <<8, 16>>],
                         <<>>))

encode_flush_request == Message(24, [file_id |-> <<8, 16>>])
process_flush_request(m) ==
  Exactly(24, m, Decoded(24, 0, [file_id |-> <<8, 16>>], <<>>))

\* A read has one byte more than its structure.
encode_read_request ==
  [Message(49,
     [flags |-> <<3, 1>>, length |-> <<4, 4>>, offset |-> <<8, 8>>,
      file_id |-> <<16, 16>>, minimum_count |-> <<32, 4>>,
      channel |-> <<36, 4>>, remaining_bytes |-> <<40, 4>>,
      read_channel_info_length |-> <<46, 2>>])
   EXCEPT !.sent = PadTo64(48 + 1)]

process_read_request(m) ==
  IF m.size > 49 THEN Refused
  ELSE Decoded(48, 0,
         [flags |-> <<3, 1>>, length |-> <<4, 4>>, offset |-> <<8, 8>>,
          file_id |-> <<16, 16>>, minimum_count |-> <<32, 4>>,
          channel |-> <<36, 4>>, remaining_bytes |-> <<40, 4>>,
          read_channel_info_length |-> <<46, 2>>], <<>>)

\* The data of a write is the only payload that is not padded.
encode_write_request(n) ==
  [Carrying(49,
     [data_offset |-> <<2, 2>>, length |-> <<4, 4>>, offset |-> <<8, 8>>,
      file_id |-> <<16, 16>>, channel |-> <<32, 4>>,
      remaining_bytes |-> <<36, 4>>, write_channel_info_length |-> <<42, 2>>,
      flags |-> <<44, 4>>], Header + 48, n)
   EXCEPT !.sent = 48 + n]

process_write_request(m) ==
  IF m.size > 49 THEN Refused
  ELSE Behind64(m, 48,
         [data_offset |-> <<2, 2>>, length |-> <<4, 4>>, offset |-> <<8, 8>>,
          file_id |-> <<16, 16>>, channel |-> <<32, 4>>,
          remaining_bytes |-> <<36, 4>>,
          write_channel_info_offset |-> <<40, 2>>,
          write_channel_info_length |-> <<42, 2>>, flags |-> <<44, 4>>])

-----------------------------------------------------------------------------
\* The first lock is a part of the structure, the others lie behind it.
encode_lock_request(locks) ==
  LET others == Part(Header + 48, 24 * (locks - 1))
  IN [size |-> 48,
      fields |-> [lock_count |-> <<2, 2>>, lock_sequence |-> <<4, 4>>,
                  file_id |-> <<8, 16>>, offset |-> <<24, 8>>,
                  length |-> <<32, 8>>, flags |-> <<40, 4>>],
      says |-> <<others>>, holds |-> <<others>>,
      sent |-> IF locks = 1 THEN 48 ELSE PadTo64(48 + PadTo64(24 * locks))]

process_lock_request(m) ==
  Exactly(48, m, Behind64(m, 48,
    [lock_count |-> <<2, 2>>, lock_sequence |-> <<4, 4>>,
     file_id |-> <<8, 16>>, offset |-> <<24, 8>>, length |-> <<32, 8>>,
     flags |-> <<40, 4>>]))

encode_ioctl_request(n) ==
  Carrying(57,
    [ctl_code |-> <<4, 4>>, file_id |-> <<8, 16>>, input_offset |-> <<24, 4>>,
     input_count |-> <<28, 4>>, max_input_response |-> <<32, 4>>,
     max_output_response |-> <<44, 4>>, flags |-> <<48, 4>>], Header + 56, n)

process_ioctl_request(m) ==
  Exactly(57, m, AtOffset(m, 56,
    [ctl_code |-> <<4, 4>>, file_id |-> <<8, 16>>, input_offset |-> <<24, 4>>,
     input_count |-> <<28, 4>>, max_input_response |-> <<32, 4>>,
     output_offset |-> <<36, 4>>, output_count |-> <<40, 4>>,
     max_output_response |-> <<44, 4>>, flags |-> <<48, 4>>]))

encode_echo_request == Message(4, <<>>)
process_echo_request(m) == Exactly(4, m, Decoded(4, 0, <<>>, <<>>))

\* The length of the pattern is said in 16 bits.
encode_query_directory_request(n) ==
  [Carrying(33,
    [file_information_class |-> <<2, 1>>, flags |-> <<3, 1>>,
     file_index |-> <<4, 4>>, file_id |-> <<8, 16>>,
     file_name_offset |-> <<24, 2>>, file_name_length |-> <<26, 2>>,
     output_buffer_length |-> <<28, 4>>], Header + 32, n)
   EXCEPT !.says = <<Part(Header + 32, Short(n))>>]

process_query_directory_request(m) ==
  IF m.says[1].len > 0 /\
     m.says[1].at + m.says[1].len > Short(Header + m.sent)
  THEN Refused
  ELSE Exactly(33, m, AtOffset(m, 32,
    [file_information_class |-> <<2, 1>>, flags |-> <<3, 1>>,
     file_index |-> <<4, 4>>, file_id |-> <<8, 16>>,
     file_name_offset |-> <<24, 2>>, file_name_length |-> <<26, 2>>,
     output_buffer_length |-> <<28, 4>>]))

encode_change_notify_request ==
  Message(32, [flags |-> <<2, 2>>, output_buffer_length |-> <<4, 4>>,
               file_id |-> <<8, 16>>, completion_filter |-> <<24, 4>>])
process_change_notify_request(m) ==
  Exactly(32, m, Decoded(32, 0, [flags |-> <<2, 2>>, file_id |-> <<8, 16>>,
                                 completion_filter |-> <<24, 4>>], <<>>))

\* A query with an input is refused by the encoder.
encode_query_info_request ==
  Carrying(41,
    [info_type |-> <<2, 1>>, file_info_class |-> <<3, 1>>,
     output_buffer_length |-> <<4, 4>>, input_buffer_offset |-> <<8, 2>>,
     input_buffer_length |-> <<12, 4>>, additional_information |-> <<16, 4>>,
     flags |-> <<20, 4>>, file_id |-> <<24, 16>>], Header + 40, 0)

process_query_info_request(m) ==
  Exactly(41, m, AtOffset(m, 40,
    [info_type |-> <<2, 1>>, file_info_class |-> <<3, 1>>,
     output_buffer_length |-> <<4, 4>>, input_buffer_offset |-> <<8, 2>>,
     input_buffer_length |-> <<12, 4>>, additional_information |-> <<16, 4>>,
     flags |-> <<20, 4>>, file_id |-> <<24, 16>>]))

encode_set_info_request(n) ==
  Carrying(33,
    [info_type |-> <<2, 1>>, file_info_class |-> <<3, 1>>,
     buffer_length |-> <<4, 4>>, buffer_offset |-> <<8, 2>>,
     additional_information |-> <<12, 4>>, file_id |-> <<16, 16>>],
    Header + 32, n)

process_set_info_request(m) ==
  Exactly(33, m, Behind64(m, 32,
    [info_type |-> <<2, 1>>, file_info_class |-> <<3, 1>>,
     buffer_length |-> <<4, 4>>, buffer_offset |-> <<8, 2>>,
     additional_information |-> <<12, 4>>, file_id |-> <<16, 16>>]))

-----------------------------------------------------------------------------
\* Acknowledgements of a broken oplock or lease, told apart by their size.

encode_oplock_break_acknowledgement ==
  Message(24, [oplock_level |-> <<2, 1>>, file_id |-> <<8, 16>>])

\* Three fields go to the same place.
encode_lease_break_acknowledgement ==
  Message(36, [flags |-> <<4, 4>>, lease_key |-> <<8, 16>>,
               lease_state |-> <<4, 4>>, lease_duration |-> <<4, 4>>])

process_oplock_break_request(m) ==
  CASE m.size = 24 ->
         Decoded(2, 22, [oplock_level |-> <<2, 1>>, file_id |-> <<8, 16>>],
                 <<>>)
    [] m.size = 36 ->
         Decoded(2, 34, [flags |-> <<4, 4>>, lease_key |-> <<8, 16>>,
                         lease_state |-> <<24, 4>>,
                         lease_duration |-> <<28, 8>>], <<>>)
    [] OTHER -> Refused
=============================================================================
