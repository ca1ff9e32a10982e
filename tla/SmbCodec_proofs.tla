--------------------------- MODULE SmbCodec_proofs ---------------------------
(***************************************************************************)
(* The runs try some lengths of payloads; here are all there may be.       *)
(***************************************************************************)
EXTENDS MCSmb, TLAPS

\* Padding adds up to seven bytes.
LEMMA Padding == ASSUME NEW n \in Nat
                 PROVE  PadTo64(n) \in Nat /\ n <= PadTo64(n) /\ PadTo64(n) <= n + 7
BY DEF PadTo64

\* A message without payload is understood when the decoder asks for no more
\* bytes than the structure has.
LEMMA Fixed ==
  ASSUME NEW size \in Nat, NEW fields, NEW fixed \in Nat, NEW more \in Nat,
         NEW read, fixed + more <= Even(size), Even(size) \in Nat
  PROVE  Understood(Message(size, fields), Decoded(fixed, more, read, <<>>))
<1> DEFINE m == Message(size, fields)
           d == Decoded(fixed, more, read, <<>>)
<1>1. Fits(m, d)
  BY Padding DEF Fits, Message, Decoded
<1>2. ~d.refused /\ m.holds = <<>>
  BY DEF Message, Decoded
<1> QED BY <1>1, <1>2 DEF Understood

\* A payload right behind the structure is found by a decoder that looks
\* there, ...
LEMMA FoundBehind ==
  ASSUME NEW size, NEW fields, NEW fixed \in Nat, NEW n \in Nat, NEW read
  PROVE  LET m == Carrying(size, fields, Header + fixed, n)
         IN Understood(m, Behind64(m, fixed, read))
<1> DEFINE m == Carrying(size, fields, Header + fixed, n)
           d == Behind64(m, fixed, read)
<1>1. m.says = <<Part(Header + fixed, n)>> /\ m.holds = m.says
      /\ m.sent = PadTo64(Header + fixed + n - Header)
  BY DEF Carrying
<1>2. d = Decoded(fixed, n, read, <<Part(Header + fixed, n)>>)
  BY <1>1 DEF Behind64, Part
<1>3. Fits(m, d)
  <2>1. Header + fixed + n - Header = fixed + n
    BY DEF Header
  <2> QED BY <2>1, <1>1, <1>2, Padding DEF Fits, Decoded
<1>4. ~d.refused /\ d.gets = m.holds
  BY <1>1, <1>2 DEF Decoded
<1>5. DOMAIN m.holds = {1} /\ m.holds[1].len = n
  BY <1>1 DEF Part
<1> QED BY <1>3, <1>4, <1>5 DEF Understood

\* ... and by one that follows the offset.
LEMMA FoundAtOffset ==
  ASSUME NEW size, NEW fields, NEW fixed \in Nat, NEW n \in Nat, NEW read
  PROVE  LET m == Carrying(size, fields, Header + fixed, n)
         IN Understood(m, AtOffset(m, fixed, read))
<1> DEFINE m == Carrying(size, fields, Header + fixed, n)
           d == AtOffset(m, fixed, read)
<1>1. m.says = <<Part(Header + fixed, n)>> /\ m.holds = m.says
      /\ m.sent = PadTo64(Header + fixed + n - Header)
  BY DEF Carrying
<1>2. d = Decoded(fixed, n, read, <<Part(Header + fixed, n)>>)
  <2> DEFINE p == Part(Header + fixed, n)
  <2>1. m.says[1] = p /\ p.len = n /\ p.at = Header + fixed
    BY <1>1 DEF Part
  <2>2. CASE n = 0
    BY <2>1, <2>2 DEF AtOffset
  <2>3. CASE n # 0
    <3>1. ~(p.at < Header + fixed) /\ p.at - Header - fixed + p.len = n
      BY <2>1 DEF Header
    <3> QED BY <2>1, <2>3, <3>1 DEF AtOffset
  <2> QED BY <2>2, <2>3
<1>3. Fits(m, d)
  <2>1. Header + fixed + n - Header = fixed + n
    BY DEF Header
  <2> QED BY <2>1, <1>1, <1>2, Padding DEF Fits, Decoded
<1>4. ~d.refused /\ d.gets = m.holds
  BY <1>1, <1>2 DEF Decoded
<1>5. DOMAIN m.holds = {1} /\ m.holds[1].len = n
  BY <1>1 DEF Part
<1> QED BY <1>3, <1>4, <1>5 DEF Understood

-----------------------------------------------------------------------------
\* Requests.

\* Requests without payload (their structures have even sizes).
LEMMA PlainRequests ==
  /\ Arrives(encode_logoff_request, process_logoff_request)
  /\ Arrives(encode_tree_disconnect_request, process_tree_disconnect_request)
  /\ Arrives(encode_close_request, process_close_request)
  /\ Arrives(encode_flush_request, process_flush_request)
  /\ Arrives(encode_echo_request, process_echo_request)
  /\ Arrives(encode_change_notify_request, process_change_notify_request)
  /\ Arrives(encode_oplock_break_acknowledgement, process_oplock_break_request)
  /\ Arrives(encode_lease_break_acknowledgement, process_oplock_break_request)
<1>1. Even(4) = 4 /\ Even(24) = 24 /\ Even(32) = 32 /\ Even(36) = 36
  BY DEF Even
<1>2. \A size, fields : Message(size, fields).size = size
  BY DEF Message
<1>3. Arrives(encode_logoff_request, process_logoff_request)
  BY Fixed, <1>1, <1>2
     DEF Arrives, encode_logoff_request, process_logoff_request, Exactly
<1>4. Arrives(encode_tree_disconnect_request, process_tree_disconnect_request)
  BY Fixed, <1>1
     DEF Arrives, encode_tree_disconnect_request, process_tree_disconnect_request
<1>5. Arrives(encode_close_request, process_close_request)
  BY Fixed, <1>1, <1>2
     DEF Arrives, encode_close_request, process_close_request, Exactly
<1>6. Arrives(encode_flush_request, process_flush_request)
  BY Fixed, <1>1, <1>2
     DEF Arrives, encode_flush_request, process_flush_request, Exactly
<1>7. Arrives(encode_echo_request, process_echo_request)
  BY Fixed, <1>1, <1>2
     DEF Arrives, encode_echo_request, process_echo_request, Exactly
<1>8. Arrives(encode_change_notify_request, process_change_notify_request)
  BY Fixed, <1>1, <1>2
     DEF Arrives, encode_change_notify_request, process_change_notify_request,
         Exactly
<1>9. Arrives(encode_oplock_break_acknowledgement, process_oplock_break_request)
  <2>1. process_oplock_break_request(encode_oplock_break_acknowledgement)
          = Decoded(2, 22, [oplock_level |-> <<2, 1>>, file_id |-> <<8, 16>>],
                    <<>>)
    BY <1>2 DEF encode_oplock_break_acknowledgement, process_oplock_break_request
  <2> QED
    BY Fixed, <1>1, <2>1 DEF Arrives, encode_oplock_break_acknowledgement
<1>10. Arrives(encode_lease_break_acknowledgement, process_oplock_break_request)
  <2>1. process_oplock_break_request(encode_lease_break_acknowledgement)
          = Decoded(2, 34, [flags |-> <<4, 4>>, lease_key |-> <<8, 16>>,
                            lease_state |-> <<24, 4>>,
                            lease_duration |-> <<28, 8>>], <<>>)
    BY <1>2 DEF encode_lease_break_acknowledgement, process_oplock_break_request
  <2> QED
    BY Fixed, <1>1, <2>1 DEF Arrives, encode_lease_break_acknowledgement
<1> QED
  BY <1>3, <1>4, <1>5, <1>6, <1>7, <1>8, <1>9, <1>10

\* Requests with one payload behind the structure.
LEMMA PayloadRequests ==
  ASSUME NEW n \in Nat
  PROVE  /\ Arrives(encode_session_setup_request(n), process_session_setup_request)
         /\ Arrives(encode_ioctl_request(n), process_ioctl_request)
         /\ Arrives(encode_set_info_request(n), process_set_info_request)
         /\ Arrives(encode_tree_connect_request(n), process_tree_connect_request)
         /\ Arrives(encode_query_info_request, process_query_info_request)
<1>1. \A size, fields, at : Carrying(size, fields, at, n).size = size
  BY DEF Carrying
<1>2. Arrives(encode_session_setup_request(n), process_session_setup_request)
  BY FoundBehind, <1>1
     DEF Arrives, encode_session_setup_request, process_session_setup_request,
         Exactly
<1>3. Arrives(encode_ioctl_request(n), process_ioctl_request)
  BY FoundAtOffset, <1>1
     DEF Arrives, encode_ioctl_request, process_ioctl_request, Exactly
<1>4. Arrives(encode_set_info_request(n), process_set_info_request)
  BY FoundBehind, <1>1
     DEF Arrives, encode_set_info_request, process_set_info_request, Exactly
<1>5. Arrives(encode_tree_connect_request(n), process_tree_connect_request)
  BY FoundBehind, <1>1
     DEF Arrives, encode_tree_connect_request, process_tree_connect_request,
         Exactly
<1>6. Arrives(encode_query_info_request, process_query_info_request)
  <2>1. \A fields, at : Carrying(41, fields, at, 0).size = 41
    BY DEF Carrying
  <2> QED
    BY FoundAtOffset, <2>1
       DEF Arrives, encode_query_info_request, process_query_info_request, Exactly
<1> QED
  BY <1>2, <1>3, <1>4, <1>5, <1>6

\* The bytes of a write are not padded, a read has one more than it needs.
LEMMA ReadAndWriteRequests ==
  ASSUME NEW n \in Nat
  PROVE  /\ Arrives(encode_write_request(n), process_write_request)
         /\ Arrives(encode_read_request, process_read_request)
<1>1. Arrives(encode_write_request(n), process_write_request)
  <2> DEFINE m == encode_write_request(n)
             d == process_write_request(m)
  <2>1. /\ m.size = 49 /\ m.sent = 48 + n
        /\ m.says = <<Part(Header + 48, n)>> /\ m.holds = m.says
    BY DEF encode_write_request, Carrying
  <2>2. ~d.refused /\ d.fixed = 48 /\ d.more = n
        /\ d.gets = <<Part(Header + 48, n)>>
    BY <2>1 DEF process_write_request, Behind64, Decoded, Part
  <2>3. Fits(m, d)
    BY <2>1, <2>2 DEF Fits
  <2>4. DOMAIN m.holds = {1} /\ m.holds[1].len = n
    BY <2>1 DEF Part
  <2> QED BY <2>1, <2>2, <2>3, <2>4 DEF Arrives, Understood
<1>2. Arrives(encode_read_request, process_read_request)
  <2> DEFINE m == encode_read_request
             d == process_read_request(m)
  <2>1. m.size = 49 /\ m.sent = PadTo64(49) /\ m.holds = <<>>
    BY DEF encode_read_request, Message
  <2>2. ~d.refused /\ d.fixed = 48 /\ d.more = 0
    BY <2>1 DEF process_read_request, Decoded
  <2>3. Fits(m, d)
    BY <2>1, <2>2, Padding DEF Fits
  <2> QED BY <2>1, <2>2, <2>3 DEF Arrives, Understood
<1> QED BY <1>1, <1>2

\* A conversion to 16 bits keeps what fits.
LEMMA ShortKeeps == ASSUME NEW n \in Nat, n <= 65535 PROVE Short(n) = n
BY DEF Short

\* The length of a frame, cut to 16 bits, falls behind what the frame holds as
\* soon as the frame needs 64 KiB.
LEMMA CutLength ==
  ASSUME NEW n \in Nat, n <= 65535 + 64
  PROVE  /\ n <= 65464 => Short(Header + PadTo64(n)) = Header + PadTo64(n)
         /\ n > 65464 => Short(Header + PadTo64(n)) < n
<1>1. CASE n <= 65464
  <2>1. Header + PadTo64(n) \in Nat /\ Header + PadTo64(n) <= 65535
    BY <1>1 DEF PadTo64, Header
  <2> QED BY <1>1, <2>1, ShortKeeps
<1>2. CASE n > 65464
  <2> DEFINE length == Header + PadTo64(n)
  <2>1. length \in Nat /\ 65536 <= length /\ length <= 65736
    BY <1>2 DEF PadTo64, Header
  <2>2. Short(length) = length - 65536
    <3> HIDE DEF length
    <3> QED BY <2>1 DEF Short
  <2> HIDE DEF length
  <2>3. Short(length) < n
    BY <1>2, <2>1, <2>2
  <2> QED BY <1>2, <2>3 DEF length
<1> QED BY <1>1, <1>2

\* The end of a search pattern is compared with that length, and its own length
\* is said in 16 bits.
LEMMA QueryDirectoryRequest ==
  ASSUME NEW n \in Nat
  PROVE  Arrives(encode_query_directory_request(n),
                 process_query_directory_request) <=> n <= 65432
<1> DEFINE sought ==
             [file_information_class |-> <<2, 1>>, flags |-> <<3, 1>>,
              file_index |-> <<4, 4>>, file_id |-> <<8, 16>>,
              file_name_offset |-> <<24, 2>>, file_name_length |-> <<26, 2>>,
              output_buffer_length |-> <<28, 4>>]
           whole == Carrying(33, sought, Header + 32, n)
           m == encode_query_directory_request(n)
           d == AtOffset(m, 32, sought)
           long == Short(n) > 0 /\ Header + 32 + Short(n) > Short(Header + m.sent)
<1>1. m = [whole EXCEPT !.says = <<Part(Header + 32, Short(n))>>]
  BY DEF encode_query_directory_request
<1>2. /\ whole.size = 33 /\ whole.says = <<Part(Header + 32, n)>>
      /\ whole.holds = <<Part(Header + 32, n)>> /\ whole.sent = PadTo64(32 + n)
      /\ whole = [size |-> 33, fields |-> sought, says |-> whole.says,
                  holds |-> whole.holds, sent |-> whole.sent]
  <2>1. Header + 32 + n - Header = 32 + n
    BY DEF Header
  <2> QED BY <2>1 DEF Carrying
<1> HIDE DEF whole
<1>3. /\ m.size = 33 /\ m.says = <<Part(Header + 32, Short(n))>>
      /\ m.holds = <<Part(Header + 32, n)>> /\ m.sent = PadTo64(32 + n)
  <2> HIDE DEF m, sought
  <2> QED BY <1>1, <1>2
<1>4. m.says[1].at = Header + 32 /\ m.says[1].len = Short(n)
  BY <1>3 DEF Part
<1>5. process_query_directory_request(m) = IF long THEN Refused ELSE d
  <2>1. process_query_directory_request(m)
          = IF m.says[1].len > 0 /\
               m.says[1].at + m.says[1].len > Short(Header + m.sent)
            THEN Refused ELSE Exactly(33, m, d)
    BY DEF process_query_directory_request
  <2>2. Exactly(33, m, d) = d
    BY <1>3 DEF Exactly
  <2> HIDE DEF d, m
  <2> QED BY <1>4, <2>1, <2>2
<1>6. CASE n <= 65432
  <2>1. Short(n) = n
    BY <1>6, ShortKeeps
  <2>2. ~long
    <3>1. Short(Header + PadTo64(32 + n)) = Header + PadTo64(32 + n)
      BY <1>6, CutLength
    <3>2. PadTo64(32 + n) \in Nat /\ 32 + n <= PadTo64(32 + n) /\ Header \in Nat
      BY Padding DEF Header
    <3>3. m.sent = PadTo64(32 + n)
      BY <1>3
    <3> HIDE DEF m
    <3> QED BY <2>1, <3>1, <3>2, <3>3
  <2>3. m = whole
    <3> HIDE DEF m, sought
    <3> QED BY <1>1, <1>2, <2>1
  <2>4. Understood(whole, AtOffset(whole, 32, sought))
    BY FoundAtOffset DEF whole
  <2>5. process_query_directory_request(m) = AtOffset(m, 32, sought)
    BY <1>5, <2>2
  <2> HIDE DEF m, sought
  <2>6. Understood(m, process_query_directory_request(m))
    BY <2>3, <2>4, <2>5
  <2> QED BY <1>6, <2>6 DEF Arrives, m
<1>7. CASE n > 65432 /\ n <= 65535
  <2>1. Short(n) = n
    BY <1>7, ShortKeeps
  <2>2. long
    <3>1. Short(Header + PadTo64(32 + n)) < 32 + n
      BY <1>7, CutLength
    <3>2. m.sent = PadTo64(32 + n) /\ Header = 64
      BY <1>3 DEF Header
    <3>3. Short(Header + m.sent) \in Int
      <4>1. PadTo64(32 + n) \in Nat
        BY Padding
      <4> QED BY <3>2, <4>1 DEF Short
    <3> HIDE DEF m
    <3> QED BY <1>7, <2>1, <3>1, <3>2, <3>3
  <2> HIDE DEF m, d, long
  <2>3. ~Understood(m, process_query_directory_request(m))
    BY <1>5, <2>2 DEF Understood, Refused
  <2> QED BY <1>7, <2>3 DEF Arrives, m
<1>8. CASE n > 65535
  <2>1. Short(n) # n
    BY <1>8 DEF Short
  <2>2. d.refused \/ d.gets = <<Part(Header + 32, Short(n))>>
    <3> HIDE DEF m, sought
    <3> QED BY <1>3 DEF AtOffset, Decoded, Refused
  <2>3. m.holds[1] = Part(Header + 32, n) /\ DOMAIN m.holds = {1} /\ m.holds[1].len = n
    BY <1>3 DEF Part
  <2>4. d.refused \/ d.gets[1] # m.holds[1]
    <3>1. Part(Header + 32, Short(n)).len # Part(Header + 32, n).len
      BY <2>1 DEF Part
    <3> HIDE DEF m, d
    <3> QED BY <2>2, <2>3, <3>1
  <2> HIDE DEF m, d, long
  <2>5. ~Understood(m, process_query_directory_request(m))
    <3>1. process_query_directory_request(m).refused
          \/ process_query_directory_request(m).gets[1] # m.holds[1]
      BY <1>5, <2>4 DEF Refused
    <3> QED BY <1>8, <2>3, <3>1 DEF Understood
  <2> QED BY <1>8, <2>5 DEF Arrives, m
<1> QED BY <1>6, <1>7, <1>8

\* The first of the locks is a part of the structure.
LEMMA LockRequest ==
  ASSUME NEW locks \in Nat \ {0}
  PROVE  Arrives(encode_lock_request(locks), process_lock_request)
<1> DEFINE m == encode_lock_request(locks)
           d == process_lock_request(m)
           n == 24 * (locks - 1)
<1>1. /\ m.size = 48 /\ m.says = <<Part(Header + 48, n)>> /\ m.holds = m.says
      /\ m.sent = IF locks = 1 THEN 48 ELSE PadTo64(48 + PadTo64(24 * locks))
  BY DEF encode_lock_request
<1>2. ~d.refused /\ d.fixed = 48 /\ d.more = n
      /\ d.gets = <<Part(Header + 48, n)>>
  BY <1>1 DEF process_lock_request, Exactly, Behind64, Decoded, Part
<1>3. Fits(m, d)
  <2>1. CASE locks = 1
    BY <2>1, <1>1, <1>2 DEF Fits
  <2>2. CASE locks # 1
    <3>1. 24 * locks \in Nat /\ PadTo64(24 * locks) >= 24 * locks
          /\ PadTo64(24 * locks) \in Nat
      BY Padding
    <3>2. PadTo64(48 + PadTo64(24 * locks)) \in Nat
          /\ 48 + PadTo64(24 * locks) <= PadTo64(48 + PadTo64(24 * locks))
      BY <3>1, Padding
    <3> QED BY <2>2, <3>1, <3>2, <1>1, <1>2 DEF Fits
  <2> QED BY <2>1, <2>2
<1>4. DOMAIN m.holds = {1} /\ m.holds[1].len = n
  BY <1>1 DEF Part
<1> QED BY <1>1, <1>2, <1>3, <1>4 DEF Arrives, Understood

\* The dialects and, behind them, the contexts of a negotiation.
LEMMA NegotiateRequest ==
  ASSUME NEW dialects \in Nat
  PROVE  Arrives(encode_negotiate_request(dialects), process_negotiate_request)
<1> DEFINE m == encode_negotiate_request(dialects)
           d == process_negotiate_request(m)
           end == PadTo64(PadTo32(36 + 2 * dialects))
           says == <<Part(Header + 36, 2 * dialects),
                     Part(Header + end, ContextsLength)>>
<1>1. /\ m.size = 36 /\ m.says = says /\ m.holds = says
      /\ m.sent = PadTo64(end + ContextsLength)
  BY DEF encode_negotiate_request
<1>2. m.sent \in Nat /\ m.sent >= 36
  <2>1. PadTo32(36 + 2 * dialects) \in Nat /\ PadTo32(36 + 2 * dialects) >= 36
    BY DEF PadTo32
  <2>2. end \in Nat /\ end >= 36
    BY <2>1, Padding
  <2>3. ContextsLength \in Nat
    BY DEF ContextsLength, PadTo64
  <2> QED BY <2>2, <2>3, <1>1, Padding
<1>3. ~d.refused /\ d.fixed = 36 /\ d.more = m.sent - 36 /\ d.gets = says
  <2>1. <<Part(Header + 36, m.says[1].len), m.says[2]>> = says
    BY <1>1 DEF Part
  <2> QED BY <1>1, <2>1 DEF process_negotiate_request, Exactly, Decoded
<1>4. Fits(m, d)
  BY <1>2, <1>3 DEF Fits
<1> QED BY <1>1, <1>3, <1>4 DEF Arrives, Understood

\* The contexts of a create lie behind the padded name, or behind the bytes
\* that stand for an empty one; both ends compute where.
LEMMA CreateRequest ==
  ASSUME NEW n \in Nat, NEW k \in Nat, n <= 65535
  PROVE  Arrives(encode_create_request(n, k), process_create_request)
<1> DEFINE m == encode_create_request(n, k)
           d == process_create_request(m)
           room == IF n = 0 THEN 8 ELSE PadTo64(n)
           context == 120 + room
           at == IF k = 0 THEN 0 ELSE context
           found == <<Part(120, n), Part(at, k)>>
<1>1. Header = 64 /\ Header + 56 = 120 /\ PadTo32(120) = 120
  BY DEF Header, PadTo32
<1>2. room \in Nat /\ room >= n /\ PadTo64(room) = room
  <2>1. PadTo64(n) \in Nat /\ n <= PadTo64(n)
    BY Padding
  <2>2. PadTo64(8) = 8 /\ PadTo64(PadTo64(n)) = PadTo64(n)
    BY DEF PadTo64
  <2> QED BY <2>1, <2>2
<1>3. PadTo64(120 + (IF n = 0 THEN 4 ELSE n)) = context
  <2>1. PadTo64(124) = 128 /\ PadTo64(120 + n) = 120 + PadTo64(n)
    BY DEF PadTo64
  <2> QED BY <2>1
<1>4. /\ m.size = 57
      /\ m.says = found
      /\ m.holds = <<Part(120, n), Part(context, k)>>
      /\ m.sent = PadTo64(context - 64 + PadTo64(k))
  <2>1. Short(n) = n
    BY ShortKeeps
  <2> QED BY <1>1, <1>3, <2>1 DEF encode_create_request
<1>5. /\ m.says[1].at = 120 /\ m.says[1].len = n
      /\ m.says[2].at = at /\ m.says[2].len = k
      /\ m.says[2] = Part(at, k)
  BY <1>4 DEF Part
<1>6. m.sent \in Nat /\ 56 + room + k <= m.sent
  <2>1. PadTo64(k) \in Nat /\ k <= PadTo64(k)
    BY Padding
  <2>2. context - 64 + PadTo64(k) \in Nat
    BY <1>2, <2>1
  <2>3. PadTo64(context - 64 + PadTo64(k)) \in Nat
        /\ context - 64 + PadTo64(k) <= PadTo64(context - 64 + PadTo64(k))
    BY <2>2, Padding
  <2> HIDE DEF room, m
  <2> QED BY <1>2, <1>4, <2>1, <2>3
<1>7. ~d.refused /\ d.gets = found /\ d.fixed = 56 /\ d.more \in Nat
      /\ d.more <= room + k
  <2> DEFINE behind == IF m.says[2].at > m.says[1].at
                       THEN PadTo64(m.says[2].at - m.says[1].at)
                       ELSE m.says[1].len
  <2>1. behind = IF k = 0 THEN n ELSE room
    <3>1. k # 0 => context > 120 /\ context - 120 = room
      BY <1>2, Padding
    <3>2. CASE k = 0
      BY <1>5, <3>2
    <3>3. CASE k # 0
      BY <1>2, <1>5, <3>1, <3>3
    <3> QED BY <3>2, <3>3
  <2>2. behind \in Nat /\ behind <= room
    BY <1>2, <2>1
  <2>3. m.says[1].at - Header - 56 + behind + m.says[2].len = behind + k
    <3> HIDE DEF behind, m
    <3> QED BY <1>1, <1>5, <2>2
  <2>4. /\ ~(m.says[1].len > 0 /\ m.says[1].at < Header + 56)
        /\ ~(m.says[2].len > 0 /\ m.says[2].at < Header + 56)
    <3> HIDE DEF m
    <3> QED BY <1>1, <1>2, <1>5
  <2>5. <<Part(Header + 56, m.says[1].len), m.says[2]>> = found
    BY <1>1, <1>5
  <2>6. \/ /\ d.refused = FALSE /\ d.gets = found /\ d.fixed = 56
           /\ d.more = behind + k
        \/ /\ d.refused = FALSE /\ d.gets = found /\ d.fixed = 56
           /\ d.more = 0
    <3> HIDE DEF m, found
    <3> QED BY <1>4, <2>3, <2>4, <2>5
            DEF process_create_request, Exactly, Decoded
  <2> HIDE DEF behind, room, d, m
  <2> QED BY <1>2, <2>2, <2>6
<1>8. Fits(m, d)
  <2> HIDE DEF m, d, room
  <2> QED BY <1>2, <1>6, <1>7 DEF Fits
<1>9. \A i \in DOMAIN m.holds :
        /\ m.holds[i].len = 0 => d.gets[i].len = 0
        /\ m.holds[i].len > 0 => d.gets[i] = m.holds[i]
  <2>1. DOMAIN m.holds = {1, 2} /\ d.gets = found
    BY <1>4, <1>7
  <2>2. /\ m.holds[1] = Part(120, n) /\ found[1] = Part(120, n)
        /\ m.holds[2] = Part(context, k) /\ found[2] = Part(at, k)
    BY <1>4
  <2>3. Part(context, k).len = k /\ Part(at, k).len = k /\ Part(120, n).len = n
    BY DEF Part
  <2>4. k > 0 => Part(at, k) = Part(context, k)
    OBVIOUS
  <2> HIDE DEF m, d, found, context, at
  <2> QED BY <2>1, <2>2, <2>3, <2>4
<1> HIDE DEF m, d
<1> QED BY <1>7, <1>8, <1>9 DEF Arrives, Understood, m, d

\* The length of a longer name does not survive.
LEMMA CreateRequestLong ==
  ASSUME NEW n \in Nat, NEW k \in Nat, n > 65535
  PROVE  ~Arrives(encode_create_request(n, k), process_create_request)
<1> DEFINE m == encode_create_request(n, k)
           d == process_create_request(m)
<1>1. Short(n) # n
  BY DEF Short
<1>2. PICK said, context :
        /\ m.says = <<Part(PadTo32(Header + 56), Short(n)), Part(said, k)>>
        /\ m.holds = <<Part(Header + 56, n), Part(context, k)>>
  BY DEF encode_create_request
<1>3. m.says[1].len = Short(n)
  BY <1>2 DEF Part
<1>4. m.holds[1].len = n /\ DOMAIN m.holds = {1, 2}
  BY <1>2 DEF Part
<1>5. d.refused \/ d.gets = <<Part(Header + 56, Short(n)), m.says[2]>>
  <2> HIDE DEF m
  <2> QED BY <1>3 DEF process_create_request, Exactly, Decoded, Refused
<1>6. d.refused \/ d.gets[1].len = Short(n)
  <2>1. Part(Header + 56, Short(n)).len = Short(n)
    BY DEF Part
  <2> HIDE DEF m, d
  <2> QED BY <1>5, <2>1
<1> HIDE DEF m, d
<1>7. ~Understood(m, d)
  BY <1>1, <1>4, <1>6 DEF Understood
<1> QED BY <1>7 DEF Arrives, m, d

-----------------------------------------------------------------------------
\* Replies.  What the message says of its payload need not be where it is, as
\* long as the decoder finds it behind the structure, ...
LEMMA ReadBehind ==
  ASSUME NEW m, NEW fixed \in Nat, NEW n \in Nat, NEW read,
         m.says[1].len = n, m.holds = <<Part(Header + fixed, n)>>,
         fixed + n <= m.sent
  PROVE  Understood(m, Behind64(m, fixed, read))
<1> DEFINE d == Behind64(m, fixed, read)
<1>1. d = Decoded(fixed, n, read, <<Part(Header + fixed, n)>>)
  BY DEF Behind64
<1>2. ~d.refused /\ d.gets = m.holds /\ Fits(m, d)
  BY <1>1 DEF Decoded, Fits
<1>3. DOMAIN m.holds = {1} /\ m.holds[1].len = n
  BY DEF Part
<1> QED BY <1>2, <1>3 DEF Understood

\* ... or there is none to look for.
LEMMA ReadAtOffset ==
  ASSUME NEW m, NEW fixed \in Nat, NEW n \in Nat, NEW read,
         m.says[1].len = n, m.holds = <<Part(Header + fixed, n)>>,
         n > 0 => m.says[1] = Part(Header + fixed, n),
         m.sent \in Nat, fixed + n <= m.sent
  PROVE  Understood(m, AtOffset(m, fixed, read))
<1> DEFINE d == AtOffset(m, fixed, read)
           p == m.says[1]
<1>1. DOMAIN m.holds = {1} /\ m.holds[1].len = n
  BY DEF Part
<1>2. CASE n = 0
  <2>1. d = Decoded(fixed, 0, read, <<p>>)
    BY <1>2 DEF AtOffset
  <2>2. ~d.refused /\ d.gets[1].len = 0 /\ Fits(m, d)
    BY <1>2, <2>1 DEF Decoded, Fits
  <2> QED BY <1>1, <1>2, <2>2 DEF Understood
<1>3. CASE n > 0
  <2>1. p = Part(Header + fixed, n) /\ p.at = Header + fixed /\ p.len = n
    BY <1>3 DEF Part
  <2>2. ~(p.at < Header + fixed) /\ p.at - Header - fixed + p.len = n
    BY <2>1 DEF Header
  <2>3. d = Decoded(fixed, n, read, <<p>>)
    BY <1>3, <2>1, <2>2 DEF AtOffset
  <2>4. ~d.refused /\ d.gets = m.holds /\ Fits(m, d)
    BY <2>1, <2>3 DEF Decoded, Fits
  <2> QED BY <1>1, <2>4 DEF Understood
<1> QED BY <1>2, <1>3

\* A payload ends before the message does.
LEMMA WithinMessage ==
  ASSUME NEW fixed \in 0 .. 64, NEW n \in Nat, NEW sent,
         sent = PadTo64(fixed + n)
  PROVE  /\ sent \in Nat /\ fixed + n <= sent
         /\ Header + fixed + n <= Header + sent
<1>1. fixed \in Nat /\ fixed + n \in Nat /\ Header = 64
  BY DEF Header
<1>2. sent \in Nat /\ fixed + n <= sent
  BY <1>1, Padding
<1> QED BY <1>1, <1>2

\* Replies without payload.
LEMMA PlainReplies ==
  /\ Arrives(encode_logoff_reply, process_logoff)
  /\ Arrives(encode_tree_connect_reply, process_tree_connect)
  /\ Arrives(encode_tree_disconnect_reply, process_tree_disconnect)
  /\ Arrives(encode_close_reply, process_close)
  /\ Arrives(encode_flush_reply, process_flush)
  /\ Arrives(encode_write_reply, process_write)
  /\ Arrives(encode_lock_reply, process_lock)
  /\ Arrives(encode_echo_reply, process_echo)
  /\ Arrives(encode_set_info_reply, process_set_info)
<1>1. Even(2) = 2 /\ Even(4) = 4 /\ Even(16) = 16 /\ Even(60) = 60
  BY DEF Even
<1>2. \A size, fields : Message(size, fields).size = size
  BY DEF Message
<1>3. Understood(encode_logoff_reply, process_logoff(encode_logoff_reply))
  BY Fixed, <1>1 DEF encode_logoff_reply, process_logoff
<1>4. Understood(encode_tree_connect_reply,
                 process_tree_connect(encode_tree_connect_reply))
  BY Fixed, <1>1, <1>2
     DEF encode_tree_connect_reply, process_tree_connect, Exactly
<1>5. Understood(encode_tree_disconnect_reply,
                 process_tree_disconnect(encode_tree_disconnect_reply))
  BY Fixed, <1>1 DEF encode_tree_disconnect_reply, process_tree_disconnect
<1>6. Understood(encode_close_reply, process_close(encode_close_reply))
  BY Fixed, <1>1, <1>2 DEF encode_close_reply, process_close, Exactly
<1>7. Understood(encode_flush_reply, process_flush(encode_flush_reply))
  BY Fixed, <1>1, <1>2 DEF encode_flush_reply, process_flush, Exactly
<1>8. Understood(encode_write_reply, process_write(encode_write_reply))
  <2> DEFINE m == encode_write_reply
             d == process_write(m)
  <2>1. m.size = 17 /\ m.sent = PadTo64(17) /\ m.holds = <<>>
    BY DEF encode_write_reply, Message
  <2>2. ~d.refused /\ d.fixed = 16 /\ d.more = 0
    BY <2>1 DEF process_write, Exactly, Decoded
  <2>3. Fits(m, d)
    BY <2>1, <2>2, Padding DEF Fits
  <2> QED BY <2>1, <2>2, <2>3 DEF Understood
<1>9. Understood(encode_lock_reply, process_lock(encode_lock_reply))
  BY Fixed, <1>1, <1>2 DEF encode_lock_reply, process_lock, Exactly
<1>10. Understood(encode_echo_reply, process_echo(encode_echo_reply))
  BY Fixed, <1>1, <1>2 DEF encode_echo_reply, process_echo, Exactly
<1>11. Understood(encode_set_info_reply, process_set_info(encode_set_info_reply))
  BY Fixed, <1>1 DEF encode_set_info_reply, process_set_info
<1> QED
  BY <1>3, <1>4, <1>5, <1>6, <1>7, <1>8, <1>9, <1>10, <1>11 DEF Arrives

\* Oplock and lease breaks are told apart by their sizes.
LEMMA BreakReplies ==
  /\ Arrives(encode_oplock_break_reply, process_oplock_break)
  /\ Arrives(encode_oplock_break_notification, process_oplock_break)
  /\ Arrives(encode_lease_break_reply, process_oplock_break)
  /\ Arrives(encode_lease_break_notification, process_oplock_break)
<1>1. Even(24) = 24 /\ Even(36) = 36 /\ Even(44) = 44
  BY DEF Even
<1>2. \A size, fields : Message(size, fields).size = size
  BY DEF Message
<1>3. Understood(encode_oplock_break_reply,
                 process_oplock_break(encode_oplock_break_reply))
  <2>1. process_oplock_break(encode_oplock_break_reply)
          = Decoded(2, 22, [oplock_level |-> <<2, 1>>, file_id |-> <<8, 16>>],
                    <<>>)
    BY <1>2 DEF encode_oplock_break_reply, process_oplock_break
  <2> QED BY Fixed, <1>1, <2>1 DEF encode_oplock_break_reply
<1>4. Understood(encode_oplock_break_notification,
                 process_oplock_break(encode_oplock_break_notification))
  BY <1>3 DEF encode_oplock_break_notification, encode_oplock_break_reply
<1>5. Understood(encode_lease_break_reply,
                 process_oplock_break(encode_lease_break_reply))
  <2>1. process_oplock_break(encode_lease_break_reply)
          = Decoded(2, 34, [flags |-> <<4, 4>>, lease_key |-> <<8, 16>>,
                            lease_state |-> <<24, 4>>,
                            lease_duration |-> <<28, 8>>], <<>>)
    BY <1>2 DEF encode_lease_break_reply, process_oplock_break
  <2> QED BY Fixed, <1>1, <2>1 DEF encode_lease_break_reply
<1>6. Understood(encode_lease_break_notification,
                 process_oplock_break(encode_lease_break_notification))
  <2>1. encode_lease_break_notification.size = 44
    BY <1>2 DEF encode_lease_break_notification
  <2>2. PICK fields : process_oplock_break(encode_lease_break_notification)
                        = Decoded(2, 42, fields, <<>>)
    BY <2>1 DEF process_oplock_break
  <2> QED BY Fixed, <1>1, <2>2 DEF encode_lease_break_notification
<1> QED BY <1>3, <1>4, <1>5, <1>6 DEF Arrives

\* Replies with one payload.
LEMMA PayloadReplies ==
  ASSUME NEW n \in Nat
  PROVE  /\ Arrives(encode_create_reply(n), process_create)
         /\ Arrives(encode_read_reply(n), process_read)
         /\ Arrives(encode_query_directory_reply(n), process_query_directory)
         /\ Arrives(encode_change_notify_reply(n), process_change_notify)
         /\ Arrives(encode_query_info_reply(n), process_query_info)
<1>1. /\ \A at : Part(at, n).at = at /\ Part(at, n).len = n
      /\ Header + 8 - Header = 8 /\ Header = 64
  BY DEF Part, Header
<1>2. /\ Header + 8 + n - Header = 8 + n
      /\ Header + 16 + n - Header = 16 + n
      /\ 8 \in 0 .. 64 /\ 16 \in 0 .. 64
  BY DEF Header
<1>3. \A sent : sent = PadTo64(8 + n) =>
        /\ sent \in Nat /\ 8 + n <= sent
        /\ Header + 8 + n <= Header + sent
  BY <1>2, WithinMessage
<1>5. Understood(encode_create_reply(n), process_create(encode_create_reply(n)))
  <2>1. PadTo64(Header + 88) = Header + 88
    BY DEF PadTo64, Header
  <2>2. \A fields : Carrying(89, fields, Header + 88, n).size = 89
    BY DEF Carrying
  <2> QED
    BY <2>1, <2>2, FoundAtOffset
       DEF encode_create_reply, process_create, Exactly
<1>6. Understood(encode_read_reply(n), process_read(encode_read_reply(n)))
  <2> DEFINE m == encode_read_reply(n)
  <2>1. /\ m.size = 17 /\ m.holds = <<Part(Header + 16, n)>>
        /\ m.says = <<Part(IF n = 0 THEN 0 ELSE Header + 16, n)>>
        /\ m.sent = PadTo64(16 + n)
    BY <1>2 DEF encode_read_reply, Carrying
  <2>2. m.says[1].len = n /\ (n > 0 => m.says[1].at = Header + 16)
    BY <1>1, <2>1
  <2>3. 16 + n <= m.sent /\ 16 \in Nat
    BY <1>2, <2>1, WithinMessage
  <2>4. \A read : Understood(m, Behind64(m, 16, read))
    <3> HIDE DEF m
    <3> QED BY <2>1, <2>2, <2>3, ReadBehind
  <2> HIDE DEF m
  <2> QED BY <2>1, <2>2, <2>4 DEF process_read, m
<1>7. Understood(encode_query_directory_reply(n),
                 process_query_directory(encode_query_directory_reply(n)))
  <2> DEFINE m == encode_query_directory_reply(n)
  <2>1. /\ m.size = 9 /\ m.says = <<Part(Header + 8, n)>> /\ m.holds = m.says
        /\ m.sent = PadTo64(8 + n)
    BY <1>2 DEF encode_query_directory_reply, Carrying
  <2>2. m.says[1] = Part(Header + 8, n) /\ m.says[1].len = n
        /\ m.says[1].at = Header + 8
    BY <1>1, <2>1
  <2>3. ~Beyond(m)
    <3> HIDE DEF m
    <3> QED BY <1>1, <1>3, <2>1, <2>2 DEF Beyond
  <2>4. \A read : Understood(m, AtOffset(m, 8, read))
    BY <1>3, <2>1, <2>2, ReadAtOffset
  <2> HIDE DEF m
  <2> QED BY <2>1, <2>3, <2>4 DEF process_query_directory, Exactly, m
<1>8. Understood(encode_change_notify_reply(n),
                 process_change_notify(encode_change_notify_reply(n)))
  <2> DEFINE m == encode_change_notify_reply(n)
  <2>1. /\ m.size = 9 /\ m.holds = <<Part(Header + 8, n)>>
        /\ m.says = <<Part(Header + 32, n)>> /\ m.sent = PadTo64(8 + n)
    BY <1>2 DEF encode_change_notify_reply, Carrying
  <2>2. m.says[1].len = n
    BY <1>1, <2>1
  <2>3. \A read : Understood(m, Behind64(m, 8, read))
    BY <1>3, <2>1, <2>2, ReadBehind
  <2> HIDE DEF m
  <2> QED BY <2>1, <2>3 DEF process_change_notify, Exactly, m
<1>9. Understood(encode_query_info_reply(n),
                 process_query_info(encode_query_info_reply(n)))
  <2> DEFINE m == encode_query_info_reply(n)
  <2>1. /\ m.size = 9 /\ m.holds = <<Part(Header + 8, n)>>
        /\ m.says = <<Part(IF n = 0 THEN 0 ELSE Header + 8, n)>>
        /\ m.sent = PadTo64(8 + n)
    BY <1>2 DEF encode_query_info_reply, Carrying
  <2>2. m.says[1].len = n /\ (n > 0 => m.says[1] = Part(Header + 8, n))
        /\ (n > 0 => m.says[1].at = Header + 8)
    BY <1>1, <2>1
  <2>3. ~Beyond(m)
    <3> HIDE DEF m
    <3> QED BY <1>1, <1>3, <2>1, <2>2 DEF Beyond
  <2>4. \A read : Understood(m, AtOffset(m, 8, read))
    BY <1>3, <2>1, <2>2, ReadAtOffset
  <2> HIDE DEF m
  <2> QED BY <2>1, <2>3, <2>4 DEF process_query_info, Exactly, m
<1> QED BY <1>5, <1>6, <1>7, <1>8, <1>9 DEF Arrives

\* A security buffer is compared with the length of the frame in 16 bits.
LEMMA SessionSetupReply ==
  ASSUME NEW n \in Nat, n <= 65535
  PROVE  Arrives(encode_session_setup_reply(n), process_session_setup) <=> n <= 65456
<1> DEFINE m == encode_session_setup_reply(n)
           d == process_session_setup(m)
<1>1. /\ m.size = 9 /\ m.says = <<Part(Header + 8, n)>> /\ m.holds = m.says
      /\ m.sent = PadTo64(8 + n)
  <2>1. Header + 8 + n - Header = 8 + n
    BY DEF Header
  <2> QED BY <2>1 DEF encode_session_setup_reply, Carrying
<1>2. m.says[1] = Part(Header + 8, n) /\ m.says[1].len = n
      /\ m.says[1].at = Header + 8 /\ Header = 64
  BY <1>1 DEF Part, Header
<1>3. m.sent \in Nat /\ 8 + n <= m.sent
  BY <1>1, Padding
<1>4. \A read : Understood(m, AtOffset(m, 8, read))
  BY <1>1, <1>2, <1>3, ReadAtOffset
<1> HIDE DEF m
<1>5. CASE n <= 65456
  <2>1. Short(Header + m.sent) = Header + m.sent
    BY <1>1, <1>5, CutLength
  <2>2. ~BeyondShort(m)
    BY <1>2, <1>3, <2>1 DEF BeyondShort
  <2>3. Understood(m, process_session_setup(m))
    BY <1>1, <1>4, <2>2 DEF process_session_setup, Exactly
  <2> QED BY <1>5, <2>3 DEF Arrives, m
<1>6. CASE n > 65456
  <2>1. Short(Header + m.sent) < 8 + n
    BY <1>1, <1>6, CutLength
  <2>2. Short(Header + m.sent) \in Int
    BY <1>2, <1>3 DEF Short
  <2>3. BeyondShort(m)
    BY <1>2, <1>6, <2>1, <2>2 DEF BeyondShort
  <2>4. d = Refused
    BY <2>3 DEF process_session_setup
  <2> HIDE DEF d
  <2>5. ~Understood(m, d)
    BY <2>4 DEF Understood, Refused
  <2> QED BY <1>6, <2>5 DEF Arrives, d, m
<1> QED BY <1>5, <1>6

\* Of the data of an error the decoder gets no more than the padding.
LEMMA ErrorReply ==
  ASSUME NEW n \in Nat
  PROVE  Arrives(encode_error_reply(n), process_error) <=> n <= 8
<1> DEFINE m == encode_error_reply(n)
           d == process_error(m)
<1>1. /\ m.size = 9 /\ m.holds = <<>> /\ m.says = <<Part(Header + 8, n)>>
      /\ m.sent = PadTo64(9)
  BY DEF encode_error_reply, Message
<1>2. m.says[1].len = n
  BY <1>1 DEF Part
<1>3. ~d.refused /\ d.fixed = 8 /\ d.more = n
  BY <1>1, <1>2 DEF process_error, Exactly, Behind64, Decoded
<1>4. m.sent = 16
  BY <1>1 DEF PadTo64
<1>5. Understood(m, d) <=> n <= 8
  <2> HIDE DEF m, d
  <2> QED BY <1>1, <1>3, <1>4 DEF Understood, Fits
<1> QED BY <1>5 DEF Arrives

\* An ioctl reply arrives when it has an output and no input.
LEMMA IoctlReply ==
  ASSUME NEW n \in Nat, NEW k \in Nat
  PROVE  Arrives(encode_ioctl_reply(n, k), process_ioctl) <=> n > 0 /\ k = 0
<1> DEFINE m == encode_ioctl_reply(n, k)
           d == process_ioctl(m)
           pad == PadTo64(k)
           len == IF n = 0 THEN 48 ELSE n
<1>1. /\ m.size = 49 /\ m.holds = <<Part(Header + 48, n)>>
      /\ m.says = <<Part(Header + 48 + pad, len), Part(Header + 48, k)>>
      /\ m.sent = PadTo64(48 + n)
  BY DEF encode_ioctl_reply
<1>2. pad \in Nat /\ k <= pad /\ (k = 0 => pad = 0)
  <2>1. PadTo64(0) = 0
    BY DEF PadTo64
  <2> QED BY <2>1, Padding
<1>3. /\ m.says[1] = Part(Header + 48 + pad, len)
      /\ m.says[1].at = Header + 48 + pad /\ m.says[1].len = len
      /\ m.says[2].len = k
  BY <1>1 DEF Part
<1>4. len \in Nat /\ len # 0 /\ Header = 64
  BY DEF Header
<1>5. /\ ~d.refused /\ d.fixed = 48 /\ d.more = pad + pad + len
      /\ d.gets = <<Part(Header + 48 + pad, len)>>
  <2>1. m.says[1].len # 0 /\ ~(m.says[1].at < Header + 48)
    <3> HIDE DEF m, pad, len
    <3> QED BY <1>2, <1>3, <1>4
  <2>2. m.says[1].at - Header - 48 + PadTo64(m.says[2].len) + m.says[1].len
          = pad + pad + len
    <3>1. PadTo64(m.says[2].len) = pad
      BY <1>3
    <3> HIDE DEF m, pad, len
    <3> QED BY <1>2, <1>3, <1>4, <3>1
  <2> HIDE DEF m, pad, len
  <2> QED BY <1>1, <1>3, <2>1, <2>2 DEF process_ioctl, Exactly, Decoded
<1>6. DOMAIN m.holds = {1} /\ m.holds[1].len = n
  BY <1>1 DEF Part
<1>7. ASSUME n > 0, k = 0 PROVE Understood(m, d)
  <2>1. d.gets = m.holds
    BY <1>1, <1>2, <1>4, <1>5, <1>7
  <2>2. Fits(m, d)
    <3>1. 48 + n <= m.sent /\ m.sent \in Nat
      BY <1>1, Padding
    <3> HIDE DEF m, d, pad
    <3> QED BY <1>2, <1>5, <1>7, <3>1 DEF Fits
  <2> HIDE DEF m, d
  <2> QED BY <1>5, <1>6, <2>1, <2>2 DEF Understood
<1>8. ASSUME n = 0 PROVE ~Understood(m, d)
  <2>1. m.holds[1].len = 0 /\ d.gets[1].len = 48
    BY <1>5, <1>6, <1>8 DEF Part
  <2> HIDE DEF m, d
  <2> QED BY <1>6, <2>1 DEF Understood
<1>9. ASSUME n > 0, k > 0 PROVE ~Understood(m, d)
  <2>1. m.holds[1].len > 0 /\ m.holds[1].at = Header + 48
        /\ d.gets[1].at = Header + 48 + pad
    BY <1>1, <1>5, <1>6, <1>9 DEF Part
  <2>2. m.holds[1].at # d.gets[1].at
    <3> HIDE DEF m, d, pad
    <3> QED BY <1>2, <1>4, <1>9, <2>1
  <2> HIDE DEF m, d
  <2> QED BY <1>6, <2>1, <2>2 DEF Understood
<1> HIDE DEF m, d
<1>10. Understood(m, d) <=> n > 0 /\ k = 0
  BY <1>7, <1>8, <1>9
<1> QED BY <1>10 DEF Arrives, m, d

\* A negotiate reply arrives unless it has contexts and no security blob.
LEMMA NegotiateReply ==
  ASSUME NEW n \in Nat, n <= 64, NEW contexts \in BOOLEAN
  PROVE  Arrives(encode_negotiate_reply(n, contexts), process_negotiate)
           <=> (contexts => n > 0)
<1> DEFINE m == encode_negotiate_reply(n, contexts)
           d == process_negotiate(m)
           blob == IF n = 0 THEN 0 ELSE 64
           more == IF contexts THEN 64 ELSE 0
           says == <<Part(128, n), Part(128 + blob, more)>>
<1>1. /\ Header = 64 /\ PadTo64(64) = 64 /\ Header + 64 = 128
      /\ (8 + PadTo64(38)) + PadTo64(8 + PadTo64(4)) = 64
  BY DEF Header, PadTo64
<1>2. m.size = 65 /\ m.says = says /\ m.holds = says
      /\ m.sent = PadTo64(64 + blob + more)
  <2>1. Part(128 + blob, more).len = more
    BY DEF Part
  <2> QED BY <1>1, <2>1 DEF encode_negotiate_reply
<1>3. m.sent = 64 + blob + more
  BY <1>2 DEF PadTo64
<1>4. /\ m.says[1] = Part(128, n) /\ m.says[1].at = 128 /\ m.says[1].len = n
      /\ m.says[2] = Part(128 + blob, more) /\ m.says[2].len = more
      /\ DOMAIN m.holds = {1, 2}
      /\ m.holds[1].len = n /\ m.holds[2].len = more
  BY <1>2 DEF Part
<1>5. ~(m.size # 65 \/ BeyondShort(m))
  <2>1. Short(Header + m.sent) = Header + m.sent
    BY <1>1, <1>3, ShortKeeps
  <2> HIDE DEF m
  <2> QED BY <1>1, <1>2, <1>3, <1>4, <2>1 DEF BeyondShort
<1>6. CASE n = 0
  <2>1. ~d.refused /\ d.fixed = 64 /\ d.more = 0
        /\ d.gets = <<Part(128, n), Part(0, 0)>>
    <3> HIDE DEF m
    <3> QED BY <1>4, <1>5, <1>6 DEF process_negotiate, Decoded
  <2>2. d.gets[1].len = 0 /\ d.gets[2].len = 0
        /\ d.gets[2].at = 0 /\ m.holds[2].at = 128 + blob
    BY <1>2, <1>6, <2>1 DEF Part
  <2>3. Fits(m, d)
    <3> HIDE DEF m, d
    <3> QED BY <1>3, <2>1 DEF Fits
  <2>4. m.holds[2].len > 0 => d.gets[2] # m.holds[2]
    <3> HIDE DEF m, d
    <3> QED BY <2>2
  <2> HIDE DEF m, d
  <2> QED BY <1>4, <1>6, <2>1, <2>2, <2>3, <2>4 DEF Understood, Arrives, m, d
<1>7. CASE n > 0
  <2>1. ~d.refused /\ d.fixed = 64 /\ d.gets = says
        /\ d.more = IF contexts THEN m.sent - 64 ELSE n
    <3>1. m.says[1].at - Header - 64 + m.says[1].len = n
          /\ ~(m.says[1].at < Header + 64)
      <4> HIDE DEF m
      <4> QED BY <1>1, <1>4
    <3>2. contexts <=> m.says[2].len > 0
      BY <1>4
    <3> HIDE DEF m, says
    <3> QED BY <1>2, <1>4, <1>5, <1>7, <3>1, <3>2
            DEF process_negotiate, Decoded
  <2>2. Fits(m, d)
    <3> HIDE DEF m, d
    <3> QED BY <1>3, <1>7, <2>1 DEF Fits
  <2>3. Understood(m, d)
    <3> HIDE DEF m, d, says
    <3>1. d.gets = m.holds
      BY <1>2, <2>1
    <3>2. d.gets[1].len = n /\ d.gets[2].len = more
      BY <1>4, <3>1
    <3> QED BY <1>4, <2>1, <2>2, <3>1, <3>2 DEF Understood
  <2> QED BY <1>7, <2>3 DEF Arrives
<1> QED BY <1>6, <1>7

-----------------------------------------------------------------------------
\* libsmb2's server finds in every request of its client the payloads the client put
\* there, up to a WRITE that takes all the credits; only a search pattern beyond
\* 65432 bytes and a name beyond 16 bits do not arrive.
THEOREM RequestsUnderstood == RequestsArrive
<1>1. \A n \in Lengths : n \in Nat
  BY LengthsAssumption
<1>2. /\ Names \subseteq Lengths /\ Dialects \subseteq Lengths /\ Shorts \subseteq Lengths
  BY DEF Names, Dialects, Shorts
<1>3. \A n \in Lengths :
        /\ Arrives(encode_negotiate_request(n), process_negotiate_request)
        /\ Arrives(encode_session_setup_request(n), process_session_setup_request)
        /\ Arrives(encode_write_request(n), process_write_request)
        /\ Arrives(encode_ioctl_request(n), process_ioctl_request)
        /\ Arrives(encode_set_info_request(n), process_set_info_request)
        /\ Arrives(encode_tree_connect_request(n), process_tree_connect_request)
        /\ n > 0 => Arrives(encode_lock_request(n), process_lock_request)
  <2> TAKE n \in Lengths
  <2>1. n \in Nat
    BY <1>1
  <2>2. n > 0 => Arrives(encode_lock_request(n), process_lock_request)
    BY <2>1, LockRequest DEF Arrives
  <2> QED
    BY <2>1, <2>2, NegotiateRequest, PayloadRequests, ReadAndWriteRequests
       DEF Arrives
<1>4. \A n \in Names :
        /\ Arrives(encode_query_directory_request(n),
                   process_query_directory_request) <=> n <= 65432
        /\ \A k \in Lengths :
             Arrives(encode_create_request(n, k), process_create_request)
               <=> n <= 65535
  <2> TAKE n \in Names
  <2>1. n \in Nat
    BY <1>1, <1>2
  <2>2. Arrives(encode_query_directory_request(n), process_query_directory_request)
          <=> n <= 65432
    BY <2>1, QueryDirectoryRequest DEF Arrives
  <2>3. ASSUME NEW k \in Lengths
        PROVE  Arrives(encode_create_request(n, k), process_create_request) <=> n <= 65535
    <3>1. k \in Nat
      BY <1>1
    <3>2. CASE n <= 65535
      BY <2>1, <3>1, <3>2, CreateRequest DEF Arrives
    <3>3. CASE n > 65535
      BY <2>1, <3>1, <3>3, CreateRequestLong DEF Arrives
    <3> QED BY <2>1, <3>2, <3>3
  <2> QED BY <2>2, <2>3
<1>5. /\ Arrives(encode_read_request, process_read_request)
      /\ Arrives(encode_query_info_request, process_query_info_request)
  BY 0 \in Nat, ReadAndWriteRequests, PayloadRequests DEF Arrives
<1> QED BY <1>2, <1>3, <1>4, <1>5, PlainRequests DEF RequestsArrive, Arrives

\* The client finds in every reply what the server put there, up to a READ that takes
\* all the credits, and which replies are the exceptions is known exactly.
THEOREM MessagesUnderstood == MessagesArrive
<1>1. \A n \in Lengths : n \in Nat
  BY LengthsAssumption
<1>2. \A n \in Lengths :
        /\ Arrives(encode_create_reply(n), process_create)
        /\ Arrives(encode_read_reply(n), process_read)
        /\ Arrives(encode_query_directory_reply(n), process_query_directory)
        /\ Arrives(encode_change_notify_reply(n), process_change_notify)
        /\ Arrives(encode_query_info_reply(n), process_query_info)
  BY <1>1, PayloadReplies DEF Arrives
<1>3. \A n \in Lengths :
        /\ Arrives(encode_error_reply(n), process_error) <=> n <= 8
        /\ \A k \in Lengths :
             Arrives(encode_ioctl_reply(n, k), process_ioctl)
               <=> n > 0 /\ k = 0
  BY <1>1, ErrorReply, IoctlReply DEF Arrives
<1>4. \A n \in Blobs, contexts \in BOOLEAN :
        Arrives(encode_negotiate_reply(n, contexts), process_negotiate)
          <=> (contexts => n > 0)
  BY <1>1, NegotiateReply DEF Arrives, Blobs
<1>5. \A n \in Shorts :
        Arrives(encode_session_setup_reply(n), process_session_setup) <=> n <= 65456
  BY <1>1, SessionSetupReply DEF Arrives, Shorts
<1>6. RepliesArrive
  BY <1>2, <1>3, <1>4, <1>5, PlainReplies, BreakReplies DEF RepliesArrive, Arrives
<1> QED BY <1>6, RequestsUnderstood DEF MessagesArrive

\* So the client's run never meets a message the other side misreads, with
\* payloads of any lengths.
THEOREM EveryMessageArrivesAlways == Spec => []EveryMessageArrives
<1>1. EveryMessageArrives
  BY MessagesUnderstood DEF EveryMessageArrives
<1> QED BY <1>1, PTL

-----------------------------------------------------------------------------
(* The fields: where the two sides have the same places for them, and no two *)
(* overlap, none is misread.                                                 *)

\* What the server's decoders read of the requests of the client.
LEMMA RequestFields ==
  /\ Agrees(encode_negotiate_request(1), process_negotiate_request)
  /\ Agrees(encode_tree_connect_request(0), process_tree_connect_request)
  /\ Agrees(encode_create_request(0, 0), process_create_request)
  /\ Agrees(encode_close_request, process_close_request)
  /\ Agrees(encode_flush_request, process_flush_request)
  /\ Agrees(encode_read_request, process_read_request)
  /\ Agrees(encode_write_request(0), process_write_request)
  /\ Agrees(encode_lock_request(1), process_lock_request)
  /\ Agrees(encode_ioctl_request(0), process_ioctl_request)
  /\ Agrees(encode_query_directory_request(0), process_query_directory_request)
  /\ Agrees(encode_change_notify_request, process_change_notify_request)
  /\ Agrees(encode_query_info_request, process_query_info_request)
  /\ Agrees(encode_set_info_request(0), process_set_info_request)
  /\ Agrees(encode_oplock_break_acknowledgement, process_oplock_break_request)
<1>1. Agrees(encode_negotiate_request(1), process_negotiate_request)
  <2> DEFINE m == encode_negotiate_request(1)
             d == process_negotiate_request(m)
  <2>1. m.fields = [dialect_count |-> <<2, 2>>, security_mode |-> <<4, 2>>,
                    capabilities |-> <<8, 4>>, client_guid |-> <<12, 16>>,
                    negotiate_context_offset |-> <<28, 4>>,
                    negotiate_context_count |-> <<32, 2>>]
    BY DEF encode_negotiate_request
  <2>2. m.size = 36
    BY DEF encode_negotiate_request
  <2>3. d.fields = m.fields
    <3> HIDE DEF m
    <3> QED BY <2>1, <2>2 DEF process_negotiate_request, Exactly, Decoded
  <2> HIDE DEF m, d
  <2>4. Misread(m, d) = {}
    BY <2>1, <2>3 DEF Misread, Overlap
  <2> QED BY <2>4 DEF Agrees, m, d
<1>2. Agrees(encode_tree_connect_request(0), process_tree_connect_request)
  BY DEF Agrees, Misread, Overlap, encode_tree_connect_request, Carrying, Part, PadTo64,
     Header, process_tree_connect_request, Exactly, Refused, Behind64, Decoded
<1>3. Agrees(encode_create_request(0, 0), process_create_request)
  <2> DEFINE m == encode_create_request(0, 0)
             d == process_create_request(m)
  <2>1. m.fields = [security_flags |-> <<2, 1>>, requested_oplock_level |-> <<3, 1>>,
                    impersonation_level |-> <<4, 4>>, smb_create_flags |-> <<8, 8>>,
                    desired_access |-> <<24, 4>>, file_attributes |-> <<28, 4>>,
                    share_access |-> <<32, 4>>, create_disposition |-> <<36, 4>>,
                    create_options |-> <<40, 4>>, name_offset |-> <<44, 2>>,
                    name_length |-> <<46, 2>>, create_context_offset |-> <<48, 4>>,
                    create_context_length |-> <<52, 4>>]
    BY DEF encode_create_request, Header, PadTo64, Part, PadTo32
  <2>2. d.fields = m.fields
    BY DEF encode_create_request, Header, PadTo64, Part, PadTo32, process_create_request,
       Exactly, Refused, Decoded
  <2> HIDE DEF m, d
  <2>3. Misread(m, d) = {}
    BY <2>1, <2>2 DEF Misread, Overlap
  <2> QED BY <2>3 DEF Agrees, m, d
<1>4. Agrees(encode_close_request, process_close_request)
  BY DEF Agrees, Misread, Overlap, encode_close_request, Message, PadTo64, Even,
     process_close_request, Exactly, Refused, Decoded
<1>5. Agrees(encode_flush_request, process_flush_request)
  BY DEF Agrees, Misread, Overlap, encode_flush_request, Message, PadTo64, Even,
     process_flush_request, Exactly, Refused, Decoded
<1>6. Agrees(encode_read_request, process_read_request)
  BY DEF Agrees, Misread, Overlap, encode_read_request, Message, PadTo64, Even,
     process_read_request, Refused, Decoded
<1>7. Agrees(encode_write_request(0), process_write_request)
  BY DEF Agrees, Misread, Overlap, encode_write_request, Carrying, Part, PadTo64, Header,
     process_write_request, Refused, Behind64, Decoded
<1>8. Agrees(encode_lock_request(1), process_lock_request)
  BY DEF Agrees, Misread, Overlap, encode_lock_request, Part, Header, PadTo64,
     process_lock_request, Exactly, Refused, Behind64, Decoded
<1>9. Agrees(encode_ioctl_request(0), process_ioctl_request)
  BY DEF Agrees, Misread, Overlap, encode_ioctl_request, Carrying, Part, PadTo64, Header,
     process_ioctl_request, Exactly, Refused, AtOffset, Decoded
<1>10. Agrees(encode_query_directory_request(0), process_query_directory_request)
  BY DEF Agrees, Misread, Overlap, encode_query_directory_request, Carrying, Part, PadTo64,
     Header, process_query_directory_request, Short, Refused, Exactly, AtOffset, Decoded
<1>11. Agrees(encode_change_notify_request, process_change_notify_request)
  BY DEF Agrees, Misread, Overlap, encode_change_notify_request, Message, PadTo64, Even,
     process_change_notify_request, Exactly, Refused, Decoded
<1>12. Agrees(encode_query_info_request, process_query_info_request)
  BY DEF Agrees, Misread, Overlap, encode_query_info_request, Carrying, Part, PadTo64, Header,
     process_query_info_request, Exactly, Refused, AtOffset, Decoded
<1>13. Agrees(encode_set_info_request(0), process_set_info_request)
  BY DEF Agrees, Misread, Overlap, encode_set_info_request, Carrying, Part, PadTo64, Header,
     process_set_info_request, Exactly, Refused, Behind64, Decoded
<1>14. Agrees(encode_oplock_break_acknowledgement, process_oplock_break_request)
  BY DEF Agrees, Misread, Overlap, encode_oplock_break_acknowledgement, Message, PadTo64, Even,
     process_oplock_break_request, Decoded, Refused
<1> QED BY <1>1, <1>2, <1>3, <1>4, <1>5, <1>6, <1>7, <1>8, <1>9, <1>10, <1>11, <1>12, <1>13,
  <1>14

\* What the client's decoders read of the replies and notifications of the server.
LEMMA ReplyFields ==
  /\ Agrees(encode_negotiate_reply(0, FALSE), process_negotiate)
  /\ Agrees(encode_session_setup_reply(0), process_session_setup)
  /\ Agrees(encode_tree_connect_reply, process_tree_connect)
  /\ Agrees(encode_create_reply(0), process_create)
  /\ Agrees(encode_close_reply, process_close)
  /\ Agrees(encode_read_reply(0), process_read)
  /\ Agrees(encode_write_reply, process_write)
  /\ Agrees(encode_ioctl_reply(1, 0), process_ioctl)
  /\ Agrees(encode_query_directory_reply(0), process_query_directory)
  /\ Agrees(encode_change_notify_reply(0), process_change_notify)
  /\ Agrees(encode_query_info_reply(0), process_query_info)
  /\ Agrees(encode_error_reply(0), process_error)
  /\ Agrees(encode_oplock_break_reply, process_oplock_break)
  /\ Agrees(encode_oplock_break_notification, process_oplock_break)
  /\ Agrees(encode_lease_break_reply, process_oplock_break)
<1>1. Agrees(encode_negotiate_reply(0, FALSE), process_negotiate)
  <2> DEFINE m == encode_negotiate_reply(0, FALSE)
             d == process_negotiate(m)
  <2>1. m.fields = [security_mode |-> <<2, 2>>, dialect_revision |-> <<4, 2>>,
                    negotiate_context_count |-> <<6, 2>>, server_guid |-> <<8, 16>>,
                    capabilities |-> <<24, 4>>, max_transact_size |-> <<28, 4>>,
                    max_read_size |-> <<32, 4>>, max_write_size |-> <<36, 4>>,
                    system_time |-> <<40, 8>>, server_start_time |-> <<48, 8>>,
                    security_buffer_offset |-> <<56, 2>>,
                    security_buffer_length |-> <<58, 2>>,
                    negotiate_context_offset |-> <<60, 4>>]
    BY DEF encode_negotiate_reply, PadTo64, Part, Header
  <2>2. d.fields = m.fields
    BY DEF encode_negotiate_reply, PadTo64, Part, Header, process_negotiate, BeyondShort,
       Short, Refused, Decoded
  <2> HIDE DEF m, d
  <2>3. Misread(m, d) = {}
    BY <2>1, <2>2 DEF Misread, Overlap
  <2> QED BY <2>3 DEF Agrees, m, d
<1>2. Agrees(encode_session_setup_reply(0), process_session_setup)
  BY DEF Agrees, Misread, Overlap, encode_session_setup_reply, Carrying, Part, PadTo64, Header,
     process_session_setup, BeyondShort, Short, Refused, Exactly, AtOffset, Decoded
<1>3. Agrees(encode_tree_connect_reply, process_tree_connect)
  BY DEF Agrees, Misread, Overlap, encode_tree_connect_reply, Message, PadTo64, Even,
     process_tree_connect, Exactly, Refused, Decoded
<1>4. Agrees(encode_create_reply(0), process_create)
  <2> DEFINE m == encode_create_reply(0)
             d == process_create(m)
  <2>1. m.fields = [oplock_level |-> <<2, 1>>, flags |-> <<3, 1>>,
                    create_action |-> <<4, 4>>, creation_time |-> <<8, 8>>,
                    last_access_time |-> <<16, 8>>, last_write_time |-> <<24, 8>>,
                    change_time |-> <<32, 8>>, allocation_size |-> <<40, 8>>,
                    end_of_file |-> <<48, 8>>, file_attributes |-> <<56, 4>>,
                    file_id |-> <<64, 16>>, create_context_offset |-> <<80, 4>>,
                    create_context_length |-> <<84, 4>>]
    BY DEF encode_create_reply, Carrying, Part, PadTo64, Header
  <2>2. d.fields = m.fields
    BY DEF encode_create_reply, Carrying, Part, PadTo64, Header, process_create, Exactly,
       Refused, AtOffset, Decoded
  <2> HIDE DEF m, d
  <2>3. Misread(m, d) = {}
    BY <2>1, <2>2 DEF Misread, Overlap
  <2> QED BY <2>3 DEF Agrees, m, d
<1>5. Agrees(encode_close_reply, process_close)
  BY DEF Agrees, Misread, Overlap, encode_close_reply, Message, PadTo64, Even, process_close,
     Exactly, Refused, Decoded
<1>6. Agrees(encode_read_reply(0), process_read)
  BY DEF Agrees, Misread, Overlap, encode_read_reply, Carrying, Part, PadTo64, Header,
     process_read, Refused, Behind64, Decoded
<1>7. Agrees(encode_write_reply, process_write)
  BY DEF Agrees, Misread, Overlap, encode_write_reply, Message, PadTo64, Even, process_write,
     Exactly, Refused, Decoded
<1>8. Agrees(encode_ioctl_reply(1, 0), process_ioctl)
  BY DEF Agrees, Misread, Overlap, encode_ioctl_reply, Part, Header, PadTo64, process_ioctl,
     Exactly, Refused, Decoded
<1>9. Agrees(encode_query_directory_reply(0), process_query_directory)
  BY DEF Agrees, Misread, Overlap, encode_query_directory_reply, Carrying, Part, PadTo64,
     Header, process_query_directory, Beyond, Refused, Exactly, AtOffset, Decoded
<1>10. Agrees(encode_change_notify_reply(0), process_change_notify)
  BY DEF Agrees, Misread, Overlap, encode_change_notify_reply, Carrying, Part, PadTo64, Header,
     process_change_notify, Exactly, Refused, Behind64, Decoded
<1>11. Agrees(encode_query_info_reply(0), process_query_info)
  BY DEF Agrees, Misread, Overlap, encode_query_info_reply, Carrying, Part, PadTo64, Header,
     process_query_info, Beyond, Refused, Exactly, AtOffset, Decoded
<1>12. Agrees(encode_error_reply(0), process_error)
  BY DEF Agrees, Misread, Overlap, encode_error_reply, Message, PadTo64, Even, Part, Header,
     process_error, Exactly, Refused, Behind64, Decoded
<1>13. Agrees(encode_oplock_break_reply, process_oplock_break)
  BY DEF Agrees, Misread, Overlap, encode_oplock_break_reply, Message, PadTo64, Even,
     process_oplock_break, Decoded, Refused
<1>14. Agrees(encode_oplock_break_notification, process_oplock_break)
  BY DEF Agrees, Misread, Overlap, encode_oplock_break_notification, Message, PadTo64, Even,
     process_oplock_break, Decoded, Refused
<1>15. Agrees(encode_lease_break_reply, process_oplock_break)
  BY DEF Agrees, Misread, Overlap, encode_lease_break_reply, Message, PadTo64, Even,
     process_oplock_break, Decoded, Refused
<1> QED BY <1>1, <1>2, <1>3, <1>4, <1>5, <1>6, <1>7, <1>8, <1>9, <1>10, <1>11, <1>12, <1>13,
  <1>14, <1>15

\* The header of a request and that of an answer that follows an interim reply.
LEMMA HeaderFields ==
  ASSUME NEW async \in BOOLEAN
  PROVE  Misread(smb2_encode_header(async),
                 smb2_decode_header(smb2_encode_header(async), async)) = {}
<1> DEFINE m == smb2_encode_header(async)
           d == smb2_decode_header(m, async)
<1>1. m.sent = Header
  BY DEF smb2_encode_header, Message
<1>2. d.fields = m.fields
  BY <1>1 DEF smb2_encode_header, smb2_decode_header, Message, Decoded, Header
<1>3. \A f \in DOMAIN m.fields, g \in DOMAIN m.fields :
        f # g => ~Overlap(m.fields[f], m.fields[g])
  <2>1. CASE async
    BY <2>1 DEF smb2_encode_header, Message, WithIdentity, Overlap
  <2>2. CASE ~async
    BY <2>2 DEF smb2_encode_header, Message, WithIdentity, Overlap
  <2> QED BY <2>1, <2>2
<1>4. \A f \in DOMAIN m.fields : ~(m.fields[f][2] > m.fields[f][2])
    BY DEF smb2_encode_header, Message, WithIdentity
<1> HIDE DEF m, d
<1>5. Misread(m, d) = {}
  BY <1>2, <1>3, <1>4 DEF Misread
<1> QED BY <1>5 DEF m, d

\* The messages of which fields are misread, and which fields those are.
LEMMA MisreadFields ==
  /\ Misread(encode_session_setup_request(0),
             process_session_setup_request(encode_session_setup_request(0)))
       = {"previous_session_id"}
  /\ Misread(encode_lease_break_acknowledgement,
             process_oplock_break_request(encode_lease_break_acknowledgement))
       = {"flags", "lease_state", "lease_duration"}
  /\ Misread(encode_lease_break_notification,
             process_oplock_break(encode_lease_break_notification))
       = {"flags", "current_lease_state", "new_lease_state", "break_reason",
          "access_mask_hint", "share_mask_hint"}
<1>1. Misread(encode_session_setup_request(0),
            process_session_setup_request(encode_session_setup_request(0)))
       = {"previous_session_id"}
  BY DEF Misread, Overlap, encode_session_setup_request, Carrying, Part, PadTo64, Header,
     process_session_setup_request, Exactly, Refused, Behind64, Decoded
<1>2. Misread(encode_lease_break_acknowledgement,
            process_oplock_break_request(encode_lease_break_acknowledgement))
       = {"flags", "lease_state", "lease_duration"}
  BY DEF Misread, Overlap, encode_lease_break_acknowledgement, Message, PadTo64, Even,
     process_oplock_break_request, Decoded, Refused
<1>3. Misread(encode_lease_break_notification,
            process_oplock_break(encode_lease_break_notification))
       = {"flags", "current_lease_state", "new_lease_state", "break_reason",
          "access_mask_hint", "share_mask_hint"}
  BY DEF Misread, Overlap, encode_lease_break_notification, Message, PadTo64, Even,
     process_oplock_break, Decoded, Refused
<1> QED BY <1>1, <1>2, <1>3

\* Both ends of libsmb2 have the same places for the fields of every message, but for those of
\* a session setup and of a broken lease.
THEOREM EveryFieldAgreesAlways == Spec => []EveryFieldAgrees
<1>1. FieldsAgree
  BY RequestFields, ReplyFields, HeaderFields, MisreadFields DEF FieldsAgree
<1>2. EveryFieldAgrees
  BY <1>1 DEF EveryFieldAgrees
<1> QED BY <1>2, PTL
-----------------------------------------------------------------------------
(***************************************************************************)
(* The opening of a session.  The runs try a few passwords; here are all.  *)
(* The proof goes through the four rounds: what both sides are after each, *)
(* or that one is gone, and then the other goes too.                       *)
(***************************************************************************)

\* The fields of a context.
ContextFields ==
  {"version", "seal", "password", "sign", "required", "signing_enabled", "allow_anonymous",
   "dialect", "preauthhash", "session_id", "keyed", "session_key", "keys", "up", "says", "own",
   "seals_with", "opens_with"}

\* What nothing changes in a context while a session opens.
Settled(x, y) ==
  /\ y.version = x.version /\ y.password = x.password /\ y.required = x.required
  /\ y.signing_enabled = x.signing_enabled /\ y.allow_anonymous = x.allow_anonymous
  /\ y.own = x.own /\ y.seals_with = x.seals_with /\ y.opens_with = x.opens_with

Kept(x, y) == DOMAIN y = ContextFields /\ Settled(x, y)

\* Before there is a key nothing is signed, and the messages that bring one are never sealed.
LEMMA PlainMessage ==
  ASSUME NEW x, NEW m, m.command \in {"NEGOTIATE", "SESSION_SETUP"},
         x.keyed => m.command = "SESSION_SETUP" /\ m.status # "SUCCESS"
  PROVE  Session!smb2_queue_pdu(x, m) = m
BY DEF Session!smb2_queue_pdu, Session!smb3_encrypt_pdu, Session!smb2_pdu_add_signature,
       Session!Signable

\* Nor what is said, nor the hash of it, changes anything else.
SameBut(x, z) ==
  /\ Kept(x, z) /\ z.seal = x.seal /\ z.sign = x.sign /\ z.dialect = x.dialect /\ z.up = x.up
  /\ z.session_id = x.session_id /\ z.keyed = x.keyed /\ z.keys = x.keys

\* What is said next changes the hash and what is said, nothing else.
LEMMA HashedFields ==
  ASSUME NEW x, DOMAIN x = ContextFields, NEW m
  PROVE  LET h == Session!Hashed(x, m) IN
         /\ SameBut(x, h)
         /\ h.says = Session!smb2_queue_pdu(x, m) /\ h.preauthhash = Append(x.preauthhash, h.says)
<1> DEFINE q == Session!smb2_queue_pdu(x, m)
           y == [x EXCEPT !.says = q]
<1>1. Session!Hashed(x, m) = [y EXCEPT !.preauthhash = Append(y.preauthhash, q)]
  BY DEF Session!Hashed, Session!Says, Session!smb3_update_preauth_hash
<1> HIDE DEF q
<1>2. /\ DOMAIN y = ContextFields /\ y.says = q
      /\ \A f \in ContextFields \ {"says"} : y[f] = x[f]
  BY DEF ContextFields
<1> HIDE DEF y
<1>3. /\ DOMAIN Session!Hashed(x, m) = ContextFields
      /\ Session!Hashed(x, m).preauthhash = Append(y.preauthhash, q)
      /\ \A f \in ContextFields \ {"preauthhash"} : Session!Hashed(x, m)[f] = y[f]
  BY <1>1, <1>2 DEF ContextFields
<1> QED BY <1>2, <1>3 DEF SameBut, Kept, Settled, ContextFields, q

\* The client as it is made.
Client(c) ==
  /\ DOMAIN c = ContextFields /\ c.up /\ ~c.keyed /\ c.keys = Session!NoKeys /\ c.own
  /\ c.version \in Session!Versions /\ c.sign \in BOOLEAN /\ c.seal \in BOOLEAN /\ c.required \in BOOLEAN
  /\ c.seals_with = "serverin" /\ c.opens_with = "serverout"

Server(s) ==
  /\ DOMAIN s = ContextFields /\ s.up /\ ~s.keyed /\ s.keys = Session!NoKeys
  /\ s.version \in Session!Versions /\ s.seal \in BOOLEAN /\ s.signing_enabled \in BOOLEAN
  /\ s.allow_anonymous \in BOOLEAN /\ ~s.sign /\ s.own \in BOOLEAN
  /\ IF s.own THEN s.seals_with = "serverin" /\ s.opens_with = "serverout"
     ELSE /\ s.seals_with = "serverout" /\ s.opens_with = "serverin"
          /\ s.password # 0 /\ ~s.allow_anonymous

\* Every client of the check is such a client, ...
LEMMA ClientsAre == ASSUME NEW c \in Session!Clients PROVE Client(c)
<1>1. PICK v \in Session!Versions, sign \in BOOLEAN, seal \in BOOLEAN,
           required \in BOOLEAN, p \in Secrets :
        c = Session!ClientWith(v, sign, seal, required, p)
  BY DEF Session!Clients
<1> QED BY <1>1 DEF Client, Session!ClientWith, Session!Context, ContextFields

\* ... and every server, libsmb2's own or another, such a server.
LEMMA ServersAre == ASSUME NEW s \in Session!Servers \cup Session!OtherServers PROVE Server(s)
<1>1. CASE s \in Session!Servers
  <2>1. PICK v \in Session!Versions, seal \in BOOLEAN, enabled \in BOOLEAN, anonymous \in BOOLEAN,
             p \in Secrets : s = Session!ServerWith(v, seal, enabled, anonymous, p)
    BY <1>1 DEF Session!Servers
  <2> QED BY <2>1 DEF Server, Session!ServerWith, Session!Context, ContextFields
<1>2. CASE s \in Session!OtherServers
  <2>1. PICK v \in Session!Versions, seal \in BOOLEAN, enabled \in BOOLEAN, p \in Secrets \ {0} :
          s = Session!OtherServerWith(v, seal, enabled, p)
    BY <1>2 DEF Session!OtherServers
  <2> QED BY <2>1 DEF Server, Session!OtherServerWith, Session!Context, ContextFields
<1> QED BY <1>1, <1>2

\* One round of two sides: the server hears the request, the client what it
\* replies.
ServerAfter(x, y) == Session!Heard(y, x, Session!ServerHears(y, x.says))
ClientAfter(x, y) ==
  Session!Heard(x, ServerAfter(x, y), Session!ClientHears(x, ServerAfter(x, y).says))

\* A round of the handshake is these two.
LEMMA RoundIs ==
  ASSUME NEW x, NEW y
  PROVE  Session!Round([client |-> x, server |-> y]) =
           [client |-> ClientAfter(x, y), server |-> ServerAfter(x, y)]
<1> DEFINE b == [client |-> x, server |-> y]
           a == [client |-> x, server |-> ServerAfter(x, y)]
<1>1. Session!Asks(b) = a
  BY DEF Session!Asks, ServerAfter
<1>2. Session!Answers(a) = [client |-> ClientAfter(x, y), server |-> ServerAfter(x, y)]
  BY DEF Session!Answers, ClientAfter
<1> QED BY <1>1, <1>2 DEF Session!Round

\* A side that is gone stays away, and the other goes too.
Lost(x, y) == DOMAIN x = ContextFields /\ DOMAIN y = ContextFields /\ (~x.up \/ ~y.up)

\* A side that closes its context is gone.
LEMMA ClosedSide ==
  ASSUME NEW x, DOMAIN x = ContextFields
  PROVE  LET z == Session!smb2_close_context(x) IN
         DOMAIN z = ContextFields /\ ~z.up
BY DEF Session!smb2_close_context, ContextFields

\* When one is gone the round ends with both gone.
LEMMA LostRound ==
  ASSUME NEW x, NEW y, Lost(x, y)
  PROVE  Lost(ClientAfter(x, y), ServerAfter(x, y)) /\ ~ClientAfter(x, y).up
<1>1. ServerAfter(x, y) = Session!smb2_close_context(y)
  BY DEF ServerAfter, Session!Heard, Lost
<1>2. DOMAIN ServerAfter(x, y) = ContextFields /\ ~ServerAfter(x, y).up
  BY <1>1, ClosedSide DEF Lost
<1>3. ClientAfter(x, y) = Session!smb2_close_context(x)
  BY <1>2 DEF ClientAfter, Session!Heard
<1> QED BY <1>2, <1>3, ClosedSide DEF Lost

\* The client that has asked for its dialects.
Introduced(c, x) ==
  /\ Kept(c, x) /\ x.seal = c.seal /\ x.sign = c.sign /\ x.up /\ ~x.keyed /\ x.keys = Session!NoKeys
  /\ x.says.command = "NEGOTIATE" /\ x.says.says.dialects = c.version
  /\ x.says.says.required = c.required /\ x.says.says.encryption = Session!CanEncrypt(c.version)
  /\ x.preauthhash = <<x.says>>

\* The client starts so.
LEMMA Connects ==
  ASSUME NEW c, Client(c) PROVE Introduced(c, Session!connect_cb(c))
<1> DEFINE m == Session!Said("NEGOTIATE", FALSE, "SUCCESS",
                     [dialects |-> c.version, required |-> c.required,
                      encryption |-> Session!CanEncrypt(c.version)])
           e == [c EXCEPT !.preauthhash = <<>>]
           h == Session!Hashed(e, m)
<1>1. /\ m.command = "NEGOTIATE" /\ m.says.dialects = c.version /\ m.says.required = c.required
      /\ m.says.encryption = Session!CanEncrypt(c.version)
  BY DEF Session!Said
<1>2. /\ DOMAIN e = ContextFields /\ e.preauthhash = <<>>
      /\ \A f \in ContextFields \ {"preauthhash"} : e[f] = c[f]
  BY DEF Client, ContextFields
<1>3. Session!connect_cb(c) = h
  BY DEF Session!connect_cb
<1> HIDE DEF m, e
<1>4. ~e.keyed
  BY <1>2 DEF Client, ContextFields
<1>5. Session!smb2_queue_pdu(e, m) = m
  BY <1>1, <1>4, PlainMessage
<1>6. Kept(c, e) /\ e.seal = c.seal /\ e.sign = c.sign /\ e.up /\ e.keys = Session!NoKeys
  BY <1>2 DEF Client, Kept, Settled, ContextFields
<1>7. /\ Kept(e, h) /\ h.says = m /\ h.preauthhash = Append(<<>>, m)
      /\ h.seal = c.seal /\ h.sign = c.sign /\ h.up /\ ~h.keyed /\ h.keys = Session!NoKeys
  <2>1. SameBut(e, h) /\ h.says = Session!smb2_queue_pdu(e, m)
        /\ h.preauthhash = Append(e.preauthhash, h.says)
    BY <1>2, HashedFields
  <2> QED BY <1>2, <1>4, <1>5, <1>6, <2>1 DEF SameBut
<1> HIDE DEF h
<1>8. h.preauthhash = <<h.says>>
  BY <1>7
<1> QED BY <1>1, <1>3, <1>6, <1>7, <1>8 DEF Introduced, Kept, Settled

\* What the two have in common, and what the server demands.
Common(c, s) == s.version \cap c.version
Agreed(c, s) == Session!Highest(Common(c, s))
Demands(c, s) ==
  \/ c.required
  \/ /\ ~s.allow_anonymous \/ s.password # 0
     /\ Agreed(c, s) \in {Session!SMB2_VERSION_0210, Session!SMB2_VERSION_0311}

\* The dialect taken is one of those both have.
LEMMA AgreedIsCommon ==
  ASSUME NEW c, NEW s, c.version \in Session!Versions, s.version \in Session!Versions, Common(c, s) # {}
  PROVE  /\ Agreed(c, s) \in Common(c, s)
         /\ Agreed(c, s) \in Session!Smb2Dialects \cup Session!Smb3Dialects
<1> DEFINE S == Common(c, s)
<1>1. S \subseteq Session!Smb2Dialects \cup Session!Smb3Dialects
  BY DEF Session!Versions, Common
<1>2. \E d \in S : \A e \in S : e <= d
  <2>0. S # {}
    OBVIOUS
  <2> HIDE DEF S
  <2>1. \A d \in S : d \in {514, 528, 768, 770, 785}
    BY <1>1 DEF Session!Smb2Dialects, Session!Smb3Dialects, Session!SMB2_VERSION_0202,
                Session!SMB2_VERSION_0210,
                Session!SMB2_VERSION_0300, Session!SMB2_VERSION_0302, Session!SMB2_VERSION_0311
  <2>2. CASE 785 \in S BY <2>1, <2>2
  <2>3. CASE 785 \notin S /\ 770 \in S BY <2>1, <2>3
  <2>4. CASE 785 \notin S /\ 770 \notin S /\ 768 \in S BY <2>1, <2>4
  <2>5. CASE 785 \notin S /\ 770 \notin S /\ 768 \notin S /\ 528 \in S BY <2>1, <2>5
  <2>6. CASE 785 \notin S /\ 770 \notin S /\ 768 \notin S /\ 528 \notin S BY <2>0, <2>1, <2>6
  <2> QED BY <2>2, <2>3, <2>4, <2>5, <2>6
<1>3. Agreed(c, s) \in S
  BY <1>2 DEF Agreed, Session!Highest
<1> QED BY <1>1, <1>3

\* The server that has taken a dialect.
Welcomed(c, s, x, y) ==
  /\ Common(c, s) # {} /\ Kept(s, y) /\ y.dialect = Agreed(c, s)
  /\ y.sign = (Demands(c, s) /\ ~s.seal) /\ y.sign \in BOOLEAN /\ y.seal = s.seal
  /\ y.up /\ ~y.keyed /\ y.keys = Session!NoKeys
  /\ y.says.command = "NEGOTIATE" /\ y.says.says.dialect = Agreed(c, s)
  /\ y.says.says.enabled = s.signing_enabled /\ y.says.says.required = y.sign
  /\ y.says.says.encryption = Session!CanEncrypt(s.version)
  /\ y.preauthhash = Append(x.preauthhash, y.says)

Demandable(c, s) ==
  Common(c, s) # {} /\ (Demands(c, s) /\ ~s.seal => s.signing_enabled)


\* The server takes a dialect, or it closes: there is none, or it must sign and may not.
LEMMA ServerWelcomes ==
  ASSUME NEW c, NEW s, Client(c), Server(s), NEW x, Introduced(c, x)
  PROVE  LET y == Session!smb2_negotiate_request_cb(s, x.says) IN
         IF Demandable(c, s) THEN Welcomed(c, s, x, y)
         ELSE DOMAIN y = ContextFields /\ ~y.up
<1> DEFINE m == x.says
           d == Agreed(c, s)
           n == [s EXCEPT !.dialect = d, !.preauthhash = <<m>>,
                          !.sign = Session!WillSign(s, m, d) /\ ~s.seal]
           r == Session!NegotiateReply(n)
           h == Session!Hashed(n, r)
           y == Session!smb2_negotiate_request_cb(s, m)
<1>1. s.version \cap m.says.dialects = Common(c, s) /\ m.says.encryption = Session!CanEncrypt(c.version)
  BY DEF Introduced, Common
<1>2. y = IF \/ Common(c, s) = {}
             \/ /\ s.seal /\ d \in {Session!SMB2_VERSION_0300, Session!SMB2_VERSION_0302}
                /\ ~Session!CanEncrypt(c.version)
             \/ n.sign /\ ~s.signing_enabled
          THEN Session!smb2_close_context(s) ELSE h
  BY <1>1 DEF Session!smb2_negotiate_request_cb, Agreed
<1>3. DOMAIN s = ContextFields
  BY DEF Server
<1>4. /\ DOMAIN n = ContextFields /\ n.dialect = d /\ n.preauthhash = <<m>>
      /\ n.sign = (Session!WillSign(s, m, d) /\ ~s.seal)
      /\ \A f \in ContextFields \ {"dialect", "preauthhash", "sign"} : n[f] = s[f]
  BY <1>3 DEF ContextFields
<1> HIDE DEF n, y
<1>5. CASE Common(c, s) = {}
  <2>1. y = Session!smb2_close_context(s)
    BY <1>2, <1>5
  <2> QED BY <1>3, <1>5, <2>1, ClosedSide DEF Demandable, y
<1>6. CASE Common(c, s) # {}
  <2>1. d \in Common(c, s) /\ d \in Session!Smb2Dialects \cup Session!Smb3Dialects
    BY <1>6, AgreedIsCommon DEF Client, Server
  <2>2. d \in {Session!SMB2_VERSION_0300, Session!SMB2_VERSION_0302} => Session!CanEncrypt(c.version)
    BY <2>1 DEF Common, Session!CanEncrypt, Session!Smb3Dialects
  <2>3. Session!WillSign(s, m, d) <=> Demands(c, s)
    <3> HIDE DEF d
    <3>1. d = Session!SMB2_VERSION_0210 \/ d >= Session!SMB2_VERSION_0311
            <=> d \in {Session!SMB2_VERSION_0210, Session!SMB2_VERSION_0311}
      BY <2>1 DEF Session!Smb2Dialects, Session!Smb3Dialects, Session!SMB2_VERSION_0202,
                  Session!SMB2_VERSION_0210,
                  Session!SMB2_VERSION_0300, Session!SMB2_VERSION_0302, Session!SMB2_VERSION_0311
    <3>2. m.says.required = c.required
      BY DEF Introduced
    <3> QED BY <3>1, <3>2 DEF Session!WillSign, Demands, d
  <2>4. n.sign = (Demands(c, s) /\ ~s.seal) /\ n.sign \in BOOLEAN
    BY <1>4, <2>3
  <2>5. CASE ~Demandable(c, s)
    <3>1. y = Session!smb2_close_context(s)
      BY <1>2, <1>6, <2>4, <2>5 DEF Demandable
    <3> QED BY <1>3, <2>5, <3>1, ClosedSide DEF y
  <2>6. CASE Demandable(c, s)
    <3>1. y = h
      BY <1>2, <1>6, <2>2, <2>4, <2>6 DEF Demandable
    <3>2. /\ r.command = "NEGOTIATE" /\ r.says.dialect = d /\ r.says.enabled = s.signing_enabled
          /\ r.says.required = n.sign /\ r.says.encryption = Session!CanEncrypt(s.version)
      BY <1>4 DEF Session!NegotiateReply, Session!Said, ContextFields
    <3>3. Kept(s, n) /\ n.seal = s.seal /\ n.up /\ ~n.keyed /\ n.keys = Session!NoKeys
      BY <1>4 DEF Server, Kept, Settled, ContextFields
    <3> HIDE DEF r
    <3>4. Session!smb2_queue_pdu(n, r) = r
      BY <3>2, <3>3, PlainMessage
    <3>5. /\ Kept(n, h) /\ h.says = r /\ h.preauthhash = Append(<<m>>, r)
          /\ h.seal = s.seal /\ h.sign = n.sign /\ h.dialect = d /\ h.up /\ ~h.keyed
          /\ h.keys = Session!NoKeys
      <4>1. SameBut(n, h) /\ h.says = Session!smb2_queue_pdu(n, r)
            /\ h.preauthhash = Append(n.preauthhash, h.says)
        BY <1>4, HashedFields
      <4> QED BY <1>4, <3>3, <3>4, <4>1 DEF SameBut
    <3> HIDE DEF h
    <3>6. <<m>> = x.preauthhash
      BY DEF Introduced
    <3>7. Kept(s, h)
      BY <3>3, <3>5 DEF Kept, Settled
    <3>8. Welcomed(c, s, x, h)
      BY <1>6, <2>4, <3>2, <3>5, <3>6, <3>7 DEF Welcomed
    <3> QED BY <2>6, <3>1, <3>8 DEF y
  <2> QED BY <2>5, <2>6
<1> QED BY <1>5, <1>6

\* Between the choice of a dialect and the verdict, with a request of the
\* session setup on its way: both have heard the same, up to this request.
Opening(c, s, x, y) ==
  /\ Kept(c, x) /\ Kept(s, y) /\ x.dialect = Agreed(c, s) /\ y.dialect = Agreed(c, s)
  /\ Common(c, s) # {} /\ Demandable(c, s) /\ (c.sign => s.signing_enabled)
  /\ y.sign = (Demands(c, s) /\ ~s.seal) /\ y.sign \in BOOLEAN /\ y.seal = s.seal
  /\ x.sign = ((c.sign \/ y.sign) /\ ~c.seal) /\ x.sign \in BOOLEAN /\ x.seal = c.seal
  /\ x.up /\ y.up /\ ~x.keyed /\ ~y.keyed /\ x.keys = Session!NoKeys /\ y.keys = Session!NoKeys
  /\ x.says.command = "SESSION_SETUP" /\ x.preauthhash = Append(y.preauthhash, x.says)

Greeted(c, s, x, y) == Opening(c, s, x, y) /\ x.says.says = Session!NEGOTIATE_MESSAGE
Challenged(c, s, x, y) ==
  /\ Opening(c, s, x, y) /\ x.session_id /\ y.session_id
  /\ x.says.says = Session!AUTHENTICATION_MESSAGE(c.password)

\* The client takes what the server took, or it closes: it must sign and the server may not.
LEMMA ClientGreets ==
  ASSUME NEW c, NEW s, Client(c), Server(s), NEW w, Introduced(c, w), NEW y, Welcomed(c, s, w, y),
         Demandable(c, s)
  PROVE  LET x == Session!negotiate_cb(w, y.says) IN
         IF c.sign => s.signing_enabled THEN Greeted(c, s, x, y)
         ELSE DOMAIN x = ContextFields /\ ~x.up
<1> DEFINE m == y.says
           d == Agreed(c, s)
           g == Session!smb3_update_preauth_hash(w, m)
           n == [g EXCEPT !.dialect = d, !.sign = (w.sign \/ y.sign) /\ ~w.seal]
           r == Session!Said("SESSION_SETUP", FALSE, "SUCCESS", Session!NEGOTIATE_MESSAGE)
           h == Session!Hashed(n, r)
           x == Session!negotiate_cb(w, m)
<1>1. /\ m.says.dialect = d /\ m.says.encryption = Session!CanEncrypt(s.version)
      /\ m.says.enabled = s.signing_enabled /\ m.says.required = y.sign
  BY DEF Welcomed
<1>2. x = IF \/ /\ w.seal /\ d \in {Session!SMB2_VERSION_0300, Session!SMB2_VERSION_0302}
                /\ ~Session!CanEncrypt(s.version)
             \/ w.sign /\ ~s.signing_enabled
          THEN Session!smb2_close_context(g) ELSE h
  BY <1>1 DEF Session!negotiate_cb, Session!send_session_setup_request
<1>3. DOMAIN w = ContextFields
  BY DEF Introduced, Kept
<1>4. /\ DOMAIN g = ContextFields /\ g.preauthhash = Append(w.preauthhash, m)
      /\ \A f \in ContextFields \ {"preauthhash"} : g[f] = w[f]
  BY <1>3 DEF ContextFields, Session!smb3_update_preauth_hash
<1> HIDE DEF g
<1>5. /\ DOMAIN n = ContextFields /\ n.dialect = d /\ n.sign = ((w.sign \/ y.sign) /\ ~w.seal)
      /\ \A f \in ContextFields \ {"dialect", "sign"} : n[f] = g[f]
  BY <1>4 DEF ContextFields
<1> HIDE DEF n, x
<1>6. d \in {Session!SMB2_VERSION_0300, Session!SMB2_VERSION_0302} => Session!CanEncrypt(s.version)
  <2>1. d \in Common(c, s)
    BY AgreedIsCommon DEF Client, Server, Welcomed
  <2> QED BY <2>1 DEF Common, Session!CanEncrypt, Session!Smb3Dialects
<1>7. w.sign = c.sign /\ w.seal = c.seal
  BY DEF Introduced
<1>8. CASE ~(c.sign => s.signing_enabled)
  <2>1. x = Session!smb2_close_context(g)
    BY <1>2, <1>7, <1>8
  <2> QED BY <1>4, <1>8, <2>1, ClosedSide DEF x
<1>9. CASE c.sign => s.signing_enabled
  <2>1. x = h
    BY <1>2, <1>6, <1>7, <1>9
  <2>2. r.command = "SESSION_SETUP" /\ r.says = Session!NEGOTIATE_MESSAGE
    BY DEF Session!Said
  <2>3. Kept(c, g) /\ g.seal = c.seal /\ g.up /\ ~g.keyed /\ g.keys = Session!NoKeys
    BY <1>4 DEF Introduced, Kept, Settled, ContextFields
  <2>4. /\ Kept(c, n) /\ n.seal = c.seal /\ n.up /\ ~n.keyed /\ n.keys = Session!NoKeys
        /\ n.sign = ((c.sign \/ y.sign) /\ ~c.seal)
        /\ n.preauthhash = Append(w.preauthhash, m)
    BY <1>4, <1>5, <1>7, <2>3 DEF Kept, Settled, ContextFields
  <2> HIDE DEF r
  <2>5. Session!smb2_queue_pdu(n, r) = r
    BY <2>2, <2>4, PlainMessage
  <2>6. /\ Kept(n, h) /\ h.says = r /\ h.preauthhash = Append(n.preauthhash, r)
        /\ h.seal = c.seal /\ h.sign = n.sign /\ h.dialect = d /\ h.up /\ ~h.keyed
        /\ h.keys = Session!NoKeys
    <3>1. SameBut(n, h) /\ h.says = Session!smb2_queue_pdu(n, r)
          /\ h.preauthhash = Append(n.preauthhash, h.says)
      BY <1>5, HashedFields
    <3> QED BY <1>5, <2>4, <2>5, <3>1 DEF SameBut
  <2> HIDE DEF h
  <2>7. Kept(c, h)
    BY <2>4, <2>6 DEF Kept, Settled
  <2>8. n.preauthhash = y.preauthhash
    BY <2>4 DEF Welcomed
  <2>9. Kept(s, y) /\ y.dialect = d /\ y.sign = (Demands(c, s) /\ ~s.seal) /\ y.sign \in BOOLEAN
        /\ y.seal = s.seal /\ y.up /\ ~y.keyed /\ y.keys = Session!NoKeys /\ Common(c, s) # {}
    BY DEF Welcomed
  <2>10. Opening(c, s, h, y)
    BY <1>9, <2>2, <2>4, <2>6, <2>7, <2>8, <2>9 DEF Opening
  <2> QED BY <1>9, <2>1, <2>2, <2>6, <2>10 DEF Greeted, x
<1> QED BY <1>8, <1>9

\* The first round: the dialect, and whether to sign.
Greetable(c, s) == Demandable(c, s) /\ (c.sign => s.signing_enabled)

\* So the first round leaves both with a dialect, or ends the session.
LEMMA FirstRound ==
  ASSUME NEW c, NEW s, Client(c), Server(s)
  PROVE  LET w == Session!connect_cb(c)
             x == ClientAfter(w, s)
             y == ServerAfter(w, s)
         IN IF Greetable(c, s) THEN Greeted(c, s, x, y) ELSE Lost(x, y)
<1> DEFINE w == Session!connect_cb(c)
           x == ClientAfter(w, s)
           y == ServerAfter(w, s)
<1>1. Introduced(c, w)
  BY Connects
<1> HIDE DEF w
<1>2. y = Session!smb2_negotiate_request_cb(s, w.says)
  BY <1>1 DEF ServerAfter, Session!Heard, Session!ServerHears, Introduced, Server
<1>3. IF Demandable(c, s) THEN Welcomed(c, s, w, y) ELSE DOMAIN y = ContextFields /\ ~y.up
  BY <1>1, <1>2, ServerWelcomes
<1>4. CASE ~Demandable(c, s)
  <2>1. DOMAIN y = ContextFields /\ ~y.up /\ DOMAIN w = ContextFields
    BY <1>1, <1>3, <1>4 DEF Introduced, Kept
  <2>2. x = Session!smb2_close_context(w)
    BY <2>1 DEF ClientAfter, Session!Heard
  <2>3. Lost(x, y)
    BY <2>1, <2>2, ClosedSide DEF Lost
  <2> QED BY <1>4, <2>3 DEF Greetable, w
<1>5. CASE Demandable(c, s)
  <2>1. Welcomed(c, s, w, y)
    BY <1>3, <1>5
  <2>2. y.up /\ y.says.command = "NEGOTIATE" /\ DOMAIN y = ContextFields
    BY <2>1 DEF Welcomed, Kept
  <2>3. x = Session!negotiate_cb(w, y.says)
    BY <1>1, <2>2 DEF ClientAfter, Session!Heard, Session!ClientHears, Introduced
  <2>4. IF c.sign => s.signing_enabled THEN Greeted(c, s, x, y)
        ELSE DOMAIN x = ContextFields /\ ~x.up
    BY <1>1, <1>5, <2>1, <2>3, ClientGreets
  <2> QED BY <1>5, <2>2, <2>4 DEF Greetable, Lost, w
<1> QED BY <1>4, <1>5

\* The second round: the challenge.
LEMMA SecondRound ==
  ASSUME NEW c, NEW s, NEW x, NEW y, Greeted(c, s, x, y)
  PROVE  Challenged(c, s, ClientAfter(x, y), ServerAfter(x, y))
<1> DEFINE a == Session!smb3_update_preauth_hash(y, x.says)
           i == [a EXCEPT !.session_id = TRUE]
           r == Session!SessionSetupReply(y, "MORE_PROCESSING")
           v == Session!Hashed(i, r)
           n == [x EXCEPT !.session_id = TRUE]
           g == Session!smb3_update_preauth_hash(n, v.says)
           q == Session!Said("SESSION_SETUP", FALSE, "SUCCESS", Session!AUTHENTICATION_MESSAGE(c.password))
           u == Session!Hashed(g, q)
<1>0. /\ DOMAIN x = ContextFields /\ DOMAIN y = ContextFields /\ x.up /\ y.up
      /\ x.says.command = "SESSION_SETUP" /\ x.says.says = Session!NEGOTIATE_MESSAGE
      /\ Opening(c, s, x, y)
  BY DEF Greeted, Opening, Kept
<1>1. ServerAfter(x, y) = v
  <2>1. x.says.says.type = "negotiate"
    BY <1>0 DEF Session!NEGOTIATE_MESSAGE
  <2>2. Session!smb2_session_setup_request_cb(y, x.says) = v
    BY <2>1 DEF Session!smb2_session_setup_request_cb
  <2> QED BY <1>0, <2>2 DEF ServerAfter, Session!Heard, Session!ServerHears
<1>2. r.command = "SESSION_SETUP" /\ r.status = "MORE_PROCESSING" /\ r.says = r.says
  BY DEF Session!SessionSetupReply, Session!Said
<1>3. /\ DOMAIN a = ContextFields /\ a.preauthhash = Append(y.preauthhash, x.says)
      /\ \A f \in ContextFields \ {"preauthhash"} : a[f] = y[f]
  BY <1>0 DEF Session!smb3_update_preauth_hash, ContextFields
<1> HIDE DEF r, a
<1>4. /\ DOMAIN i = ContextFields /\ i.session_id
      /\ \A f \in ContextFields \ {"session_id"} : i[f] = a[f]
  BY <1>3 DEF ContextFields
<1> HIDE DEF i
<1>5. Session!smb2_queue_pdu(i, r) = r
  BY <1>2, PlainMessage
<1>6. /\ Kept(y, i) /\ i.preauthhash = Append(y.preauthhash, x.says) /\ i.seal = y.seal
      /\ i.sign = y.sign /\ i.dialect = y.dialect /\ i.up = y.up /\ i.keyed = y.keyed
      /\ i.keys = y.keys
  BY <1>3, <1>4 DEF Kept, Settled, ContextFields
<1>7. /\ Kept(i, v) /\ v.says = r /\ v.preauthhash = Append(i.preauthhash, r)
      /\ v.seal = i.seal /\ v.sign = i.sign /\ v.dialect = i.dialect /\ v.up = i.up
      /\ v.keyed = i.keyed /\ v.keys = i.keys /\ v.session_id
  <2>1. SameBut(i, v) /\ v.says = Session!smb2_queue_pdu(i, r)
        /\ v.preauthhash = Append(i.preauthhash, v.says)
    BY <1>4, HashedFields
  <2> QED BY <1>4, <1>5, <2>1 DEF SameBut
<1> HIDE DEF v
<1>8. ClientAfter(x, y) = u
  <2>1. v.up /\ v.says.command = "SESSION_SETUP" /\ v.says.status = "MORE_PROCESSING"
    BY <1>0, <1>2, <1>6, <1>7
  <2>2. x.password = c.password
    BY <1>0 DEF Opening, Kept, Settled
  <2>3. Session!session_setup_cb(x, v.says) =
          Session!send_session_setup_request(g, Session!AUTHENTICATION_MESSAGE(x.password))
    BY <2>1 DEF Session!session_setup_cb
  <2> QED BY <1>0, <1>1, <2>1, <2>2, <2>3 DEF ClientAfter, Session!Heard, Session!ClientHears,
                                              Session!send_session_setup_request
<1>9. q.command = "SESSION_SETUP" /\ q.says = Session!AUTHENTICATION_MESSAGE(c.password)
  BY DEF Session!Said
<1>10. /\ DOMAIN n = ContextFields /\ n.session_id
       /\ \A f \in ContextFields \ {"session_id"} : n[f] = x[f]
  BY <1>0 DEF ContextFields
<1> HIDE DEF n, q
<1>11. /\ DOMAIN g = ContextFields /\ g.preauthhash = Append(n.preauthhash, v.says)
       /\ \A f \in ContextFields \ {"preauthhash"} : g[f] = n[f]
  BY <1>10 DEF Session!smb3_update_preauth_hash, ContextFields
<1> HIDE DEF g
<1>12. /\ Kept(x, g) /\ g.preauthhash = Append(x.preauthhash, v.says) /\ g.seal = x.seal
       /\ g.sign = x.sign /\ g.dialect = x.dialect /\ g.up = x.up /\ g.keyed = x.keyed
       /\ g.keys = x.keys /\ g.session_id
  BY <1>10, <1>11 DEF Kept, Settled, ContextFields
<1>13. ~g.keyed
  BY <1>0, <1>12 DEF Opening
<1>14. Session!smb2_queue_pdu(g, q) = q
  BY <1>9, <1>13, PlainMessage
<1>15. /\ Kept(g, u) /\ u.says = q /\ u.preauthhash = Append(g.preauthhash, q)
       /\ u.seal = g.seal /\ u.sign = g.sign /\ u.dialect = g.dialect /\ u.up = g.up
       /\ u.keyed = g.keyed /\ u.keys = g.keys /\ u.session_id
  <2>1. SameBut(g, u) /\ u.says = Session!smb2_queue_pdu(g, q)
        /\ u.preauthhash = Append(g.preauthhash, u.says)
    BY <1>11, HashedFields
  <2> QED BY <1>12, <1>14, <2>1 DEF SameBut
<1> HIDE DEF u
<1>16. Kept(x, u) /\ Kept(y, v)
  BY <1>6, <1>7, <1>12, <1>15 DEF Kept, Settled
<1>17. Kept(c, u) /\ Kept(s, v)
  BY <1>0, <1>16 DEF Opening, Kept, Settled
<1>18. u.preauthhash = Append(v.preauthhash, u.says)
  <2>1. x.preauthhash = Append(y.preauthhash, x.says)
    BY <1>0 DEF Opening
  <2> QED BY <1>6, <1>7, <1>12, <1>15, <2>1
<1>19. Opening(c, s, u, v)
  BY <1>0, <1>6, <1>7, <1>9, <1>12, <1>15, <1>17, <1>18 DEF Opening
<1> QED BY <1>1, <1>7, <1>8, <1>9, <1>15, <1>19 DEF Challenged

\* The keys of a dialect, a session key and what was said before.
Keys(dialect, key, said) ==
  Session!smb2_create_signing_key([dialect |-> dialect, keys |-> Session!NoKeys, session_key |-> key,
                           preauthhash |-> said])

\* Only these three go into the keys of a context without keys.
LEMMA KeysOf ==
  ASSUME NEW x, x.keys = Session!NoKeys
  PROVE  Session!smb2_create_signing_key(x) = Keys(x.dialect, x.session_key, x.preauthhash)
BY DEF Keys, Session!smb2_create_signing_key

\* Two keys are two signing keys, and only no key at all is all zeros.
LEMMA SigningKeys ==
  ASSUME NEW d \in Session!Smb2Dialects \cup Session!Smb3Dialects, NEW key, NEW other, NEW said
  PROVE  /\ key # other => Keys(d, key, said).signing # Keys(d, other, said).signing
         /\ d = Session!SMB2_VERSION_0311 => Keys(d, key, said).signing # Session!ZeroKey
         /\ key # Session!ZeroKey => Keys(d, key, said).signing # Session!ZeroKey
<1>1. CASE d \in Session!Smb2Dialects
  <2>1. ASSUME NEW k PROVE Keys(d, k, said).signing = k
    <3> DEFINE x == [dialect |-> d, keys |-> Session!NoKeys, session_key |-> k, preauthhash |-> said]
    <3>1. x.dialect = d /\ x.keys = Session!NoKeys /\ x.session_key = k
      OBVIOUS
    <3>2. Keys(d, k, said) = Session!smb2_create_signing_key(x)
      BY DEF Keys
    <3> HIDE DEF x
    <3>3. d \notin Session!Smb3Dialects
      BY <1>1 DEF Session!Smb2Dialects, Session!Smb3Dialects, Session!SMB2_VERSION_0202,
                  Session!SMB2_VERSION_0210,
                  Session!SMB2_VERSION_0300, Session!SMB2_VERSION_0302, Session!SMB2_VERSION_0311
    <3>4. d # Session!SMB2_VERSION_0311
      BY <3>3 DEF Session!Smb3Dialects
    <3>5. Session!smb2_create_signing_key(x) = [Session!NoKeys EXCEPT !.signing = k]
      BY <1>1, <3>1, <3>3, <3>4 DEF Session!smb2_create_signing_key
    <3> QED BY <3>2, <3>5 DEF Session!NoKeys
  <2>2. d # Session!SMB2_VERSION_0311
    BY <1>1 DEF Session!Smb2Dialects, Session!SMB2_VERSION_0311, Session!SMB2_VERSION_0202,
                Session!SMB2_VERSION_0210
  <2> QED BY <2>1, <2>2
<1>2. CASE d \in Session!Smb3Dialects
  <2>1. d \notin Session!Smb2Dialects
    BY <1>2 DEF Session!Smb2Dialects, Session!Smb3Dialects, Session!SMB2_VERSION_0202,
                Session!SMB2_VERSION_0210,
                Session!SMB2_VERSION_0300, Session!SMB2_VERSION_0302, Session!SMB2_VERSION_0311
  <2>2. \E label, context : \A k : Keys(d, k, said).signing = <<k, label, context>>
    <3>1. CASE d = Session!SMB2_VERSION_0311
      <4>1. \A k : Keys(d, k, said).signing = <<k, "SMBSigningKey", said>>
        BY <2>1, <3>1 DEF Keys, Session!smb2_create_signing_key, Session!smb2_derive_key
      <4> QED BY <4>1
    <3>2. CASE d # Session!SMB2_VERSION_0311
      <4>1. \A k : Keys(d, k, said).signing = <<k, "SMB2AESCMAC", "SmbSign">>
        BY <1>2, <2>1, <3>2 DEF Keys, Session!smb2_create_signing_key, Session!smb2_derive_key
      <4> QED BY <4>1
    <3> QED BY <3>1, <3>2
  <2> QED BY <2>2 DEF Session!ZeroKey
<1> QED BY <1>1, <1>2

\* Signatures are those of the dialect and the signing key.
LEMMA Signature ==
  ASSUME NEW x, NEW y, x.dialect = y.dialect
  PROVE  /\ Session!smb2_calc_signature(x) # <<>>
         /\ Session!smb2_calc_signature(x) = Session!smb2_calc_signature(y) <=> x.keys.signing = y.keys.signing
BY DEF Session!smb2_calc_signature

\* A verdict is signed when it is a good one and the side signs.
IsVerdict(status, says, m) == m = Session!Said("SESSION_SETUP", TRUE, status, says)
SignedVerdict(x, status, says, q) ==
  /\ q.command = "SESSION_SETUP" /\ q.status = status /\ q.says = says
  /\ q.signature = IF x.sign /\ status = "SUCCESS" THEN Session!smb2_calc_signature(x) ELSE <<>>

\* What such a message is when it is said.
LEMMA VerdictSaid ==
  ASSUME NEW x, x.session_id, x.keyed, NEW status, NEW says, NEW m, IsVerdict(status, says, m)
  PROVE  SignedVerdict(x, status, says, Session!smb2_queue_pdu(x, m))
<1> DEFINE q == Session!smb2_queue_pdu(x, m)
<1>1. /\ DOMAIN m = {"command", "reply", "status", "says", "signature", "sealed"}
      /\ m.command = "SESSION_SETUP" /\ m.reply /\ m.status = status /\ m.says = says
      /\ m.signature = <<>>
  BY DEF Session!Said, IsVerdict
<1>2. q = IF x.sign /\ status = "SUCCESS" THEN [m EXCEPT !.signature = Session!smb2_calc_signature(x)]
          ELSE m
  BY <1>1 DEF Session!smb2_queue_pdu, Session!smb3_encrypt_pdu, Session!smb2_pdu_add_signature,
              Session!Signable
<1> QED BY <1>1, <1>2 DEF SignedVerdict

\* The session key of the server's side.
Shared(c, s) == IF Session!Known(c, s) THEN <<s.password>> ELSE Session!ZeroKey

Decided(c, s, said, y) ==
  /\ Kept(s, y) /\ y.dialect = Agreed(c, s) /\ y.up /\ y.session_id /\ y.keyed
  /\ y.seal = s.seal /\ y.sign = (Demands(c, s) /\ ~s.seal) /\ y.sign \in BOOLEAN
  /\ y.keys = IF y.sign \/ ~s.own THEN Keys(Agreed(c, s), Shared(c, s), said) ELSE Session!NoKeys

Verdict(c, s, y, m) ==
  /\ m.command = "SESSION_SETUP" /\ m.says.encrypt = (s.seal /\ ~s.own)
  /\ m.status = IF Session!Admitted(c, s) THEN "SUCCESS" ELSE "LOGON_FAILURE"
  /\ m.signature = IF y.sign /\ Session!Admitted(c, s) THEN Session!smb2_calc_signature(y) ELSE <<>>

\* The server derives its keys from what the client has hashed too, and then gives its verdict.
LEMMA Decides ==
  ASSUME NEW c, NEW s, Server(s), NEW x, NEW y, Challenged(c, s, x, y)
  PROVE  LET v == Session!smb2_session_setup_request_cb(y, x.says) IN
         Decided(c, s, x.preauthhash, v) /\ Verdict(c, s, v, v.says)
<1> DEFINE h == Session!smb3_update_preauth_hash(y, x.says)
           k == [h EXCEPT !.session_key = Shared(c, s), !.keyed = TRUE]
           e == Session!smb2_create_signing_key(k)
           j == IF k.sign \/ ~k.own THEN [k EXCEPT !.keys = e] ELSE k
           status == IF Session!Admitted(c, s) THEN "SUCCESS" ELSE "LOGON_FAILURE"
           says == [encrypt |-> y.seal /\ ~y.own]
           r == Session!Said("SESSION_SETUP", TRUE, status, says)
           v == Session!Hashed(j, r)
<1>1. /\ DOMAIN y = ContextFields /\ x.says.says = Session!AUTHENTICATION_MESSAGE(c.password)
      /\ Opening(c, s, x, y) /\ y.session_id
      /\ y.password = s.password /\ y.allow_anonymous = s.allow_anonymous /\ y.own = s.own
  BY DEF Challenged, Opening, Kept, Settled
<1>2. Session!smb2_session_setup_request_cb(y, x.says) = v
  <2>1. x.says.says.type # "negotiate" /\ x.says.says.password = c.password
    BY <1>1 DEF Session!AUTHENTICATION_MESSAGE
  <2> DEFINE anonymous == x.says.says.password = 0 \/ y.password = 0
             authenticated == IF anonymous THEN y.allow_anonymous
                              ELSE x.says.says.password = y.password
  <2>2. authenticated = Session!Admitted(c, s) /\ (authenticated /\ ~anonymous) = Session!Known(c, s)
    BY <1>1, <2>1, s.allow_anonymous \in BOOLEAN DEF Session!Admitted, Session!Known, Server
  <2>3. (IF authenticated /\ ~anonymous THEN Session!Exported(y.password) ELSE Session!ZeroKey) = Shared(c, s)
    BY <1>1, <2>2 DEF Shared, Session!Exported, Session!Known
  <2>4. Session!SessionSetupReply(y, IF authenticated THEN "SUCCESS" ELSE "LOGON_FAILURE") = r
    BY <2>2 DEF Session!SessionSetupReply
  <2>5. Session!smb2_session_setup_request_cb(y, x.says) =
          LET z == [h EXCEPT !.session_key = IF authenticated /\ ~anonymous
                                             THEN Session!Exported(y.password) ELSE Session!ZeroKey,
                             !.keyed = TRUE]
          IN Session!Hashed(IF z.sign \/ ~z.own THEN [z EXCEPT !.keys = Session!smb2_create_signing_key(z)]
                    ELSE z,
                    Session!SessionSetupReply(y, IF authenticated THEN "SUCCESS" ELSE "LOGON_FAILURE"))
    BY <2>1 DEF Session!smb2_session_setup_request_cb
  <2> HIDE DEF authenticated, anonymous
  <2> QED BY <2>3, <2>4, <2>5
<1>3. /\ DOMAIN h = ContextFields /\ h.preauthhash = x.preauthhash
      /\ \A f \in ContextFields \ {"preauthhash"} : h[f] = y[f]
  BY <1>1 DEF Session!smb3_update_preauth_hash, ContextFields, Opening
<1> HIDE DEF h
<1>4. /\ DOMAIN k = ContextFields /\ k.session_key = Shared(c, s) /\ k.keyed
      /\ \A f \in ContextFields \ {"session_key", "keyed"} : k[f] = h[f]
  BY <1>3 DEF ContextFields
<1> HIDE DEF k
<1>5. /\ Kept(y, k) /\ k.preauthhash = x.preauthhash /\ k.session_key = Shared(c, s) /\ k.keyed
      /\ k.dialect = y.dialect /\ k.keys = y.keys /\ k.sign = y.sign /\ k.seal = y.seal
      /\ k.up = y.up /\ k.session_id = y.session_id /\ k.own = s.own
  <2>1. Kept(y, k)
    BY <1>1, <1>3, <1>4 DEF Kept, Settled, ContextFields
  <2>2. /\ k.preauthhash = h.preauthhash /\ k.dialect = h.dialect /\ k.keys = h.keys
        /\ k.sign = h.sign /\ k.seal = h.seal /\ k.up = h.up /\ k.session_id = h.session_id
    BY <1>4 DEF ContextFields
  <2>3. /\ h.dialect = y.dialect /\ h.keys = y.keys
        /\ h.sign = y.sign /\ h.seal = y.seal /\ h.up = y.up /\ h.session_id = y.session_id
    BY <1>3 DEF ContextFields
  <2>4. k.own = s.own
    BY <1>1, <2>1 DEF Kept, Settled
  <2>5. k.session_key = Shared(c, s) /\ k.keyed /\ h.preauthhash = x.preauthhash
    BY <1>3, <1>4
  <2> QED BY <2>1, <2>2, <2>3, <2>4, <2>5
<1>6. e = Keys(Agreed(c, s), Shared(c, s), x.preauthhash)
  <2>1. k.keys = Session!NoKeys /\ k.dialect = Agreed(c, s)
    BY <1>1, <1>5 DEF Opening
  <2>2. Session!smb2_create_signing_key(k) = Keys(k.dialect, k.session_key, k.preauthhash)
    BY <2>1, KeysOf
  <2> QED BY <1>5, <2>1, <2>2
<1> HIDE DEF e
<1>7. /\ DOMAIN j = ContextFields /\ j.keys = (IF y.sign \/ ~s.own THEN e ELSE Session!NoKeys)
      /\ \A f \in ContextFields \ {"keys"} : j[f] = k[f]
  <2>1. k.keys = Session!NoKeys
    BY <1>1, <1>5 DEF Opening
  <2> QED BY <1>4, <1>5, <2>1 DEF ContextFields
<1> HIDE DEF j
<1>8. /\ Kept(k, j) /\ j.keyed /\ j.dialect = y.dialect /\ j.sign = y.sign /\ j.seal = y.seal
      /\ j.up = y.up /\ j.session_id
  <2>1. Kept(k, j)
    BY <1>7 DEF Kept, Settled, ContextFields
  <2>2. /\ j.keyed = k.keyed /\ j.dialect = k.dialect /\ j.sign = k.sign /\ j.seal = k.seal
        /\ j.up = k.up /\ j.session_id = k.session_id
    BY <1>7 DEF ContextFields
  <2> QED BY <1>1, <1>5, <2>1, <2>2
<1>9. /\ v.says.command = "SESSION_SETUP" /\ v.says.status = status /\ v.says.says = says
      /\ v.says.signature = (IF j.sign /\ status = "SUCCESS" THEN Session!smb2_calc_signature(j) ELSE <<>>)
      /\ Kept(j, v) /\ v.keyed /\ v.dialect = y.dialect /\ v.sign = y.sign /\ v.seal = y.seal
      /\ v.up = y.up /\ v.session_id /\ v.keys = j.keys
  <2> HIDE DEF status, says
  <2>0. IsVerdict(status, says, r)
    BY DEF IsVerdict
  <2> HIDE DEF r
  <2>1. SameBut(j, v) /\ v.says = Session!smb2_queue_pdu(j, r)
    BY <1>7, HashedFields
  <2>2. /\ Kept(j, v) /\ v.keyed /\ v.dialect = y.dialect /\ v.sign = y.sign /\ v.seal = y.seal
        /\ v.up = y.up /\ v.session_id /\ v.keys = j.keys
    BY <1>8, <2>1 DEF SameBut
  <2> HIDE DEF v
  <2>3. j.session_id /\ j.keyed
    BY <1>8
  <2>4. SignedVerdict(j, status, says, Session!smb2_queue_pdu(j, r))
    BY <2>0, <2>3, VerdictSaid
  <2> QED BY <2>1, <2>2, <2>4 DEF SignedVerdict
<1>10. says.encrypt = (s.seal /\ ~s.own) /\ (status = "SUCCESS" <=> Session!Admitted(c, s))
  BY <1>1 DEF Opening
<1> HIDE DEF says, v
<1>11. Session!smb2_calc_signature(j) = Session!smb2_calc_signature(v)
  BY <1>8, <1>9, Signature
<1>12. Kept(s, v)
  BY <1>1, <1>5, <1>8, <1>9 DEF Opening, Kept, Settled
<1>13. Decided(c, s, x.preauthhash, v)
  BY <1>1, <1>6, <1>7, <1>8, <1>9, <1>12 DEF Decided, Opening
<1>14. Verdict(c, s, v, v.says)
  BY <1>8, <1>9, <1>10, <1>11 DEF Verdict
<1> QED BY <1>2, <1>13, <1>14

\* The first request of the session, or its reply: sealed, or signed.
TreeSaid(x, q) ==
  /\ q.command = "TREE_CONNECT"
  /\ q.sealed = IF x.seal THEN <<x.keys[x.seals_with]>> ELSE <<>>
  /\ q.signature = IF /\ x.sign \/ (~x.seal /\ x.dialect = Session!SMB2_VERSION_0311)
                      /\ x.session_id /\ x.keyed
                   THEN Session!smb2_calc_signature(x) ELSE <<>>

\* How the first request is said, and its reply.
LEMMA TreeConnectSaid ==
  ASSUME NEW x, DOMAIN x = ContextFields, NEW reply
  PROVE  SameBut(x, Session!Says(x, Session!TreeConnect(reply)))
         /\ TreeSaid(Session!Says(x, Session!TreeConnect(reply)),
                     Session!Says(x, Session!TreeConnect(reply)).says)
<1> DEFINE m == Session!TreeConnect(reply)
           q == Session!smb2_queue_pdu(x, m)
           z == Session!Says(x, m)
           o == IF x.sign \/ (~x.seal /\ x.dialect = Session!SMB2_VERSION_0311)
                THEN Session!smb2_pdu_add_signature(x, m) ELSE m
<1>1. /\ DOMAIN m = {"command", "reply", "status", "says", "signature", "sealed"}
      /\ m.command = "TREE_CONNECT" /\ m.signature = <<>> /\ m.sealed = <<>>
  BY DEF Session!Said, Session!TreeConnect
<1>2. DOMAIN z = ContextFields /\ z.says = q /\ \A f \in ContextFields \ {"says"} : z[f] = x[f]
  BY DEF Session!Says, ContextFields
<1> HIDE DEF m
<1>3. q = IF x.seal THEN [o EXCEPT !.sealed = <<x.keys[x.seals_with]>>] ELSE o
  BY <1>1 DEF Session!smb2_queue_pdu, Session!smb3_encrypt_pdu, Session!smb2_pdu_add_signature,
              Session!Signable
<1>4. o = IF /\ x.sign \/ (~x.seal /\ x.dialect = Session!SMB2_VERSION_0311)
             /\ x.session_id /\ x.keyed
          THEN [m EXCEPT !.signature = Session!smb2_calc_signature(x)] ELSE m
  BY <1>1 DEF Session!smb2_pdu_add_signature, Session!Signable
<1> HIDE DEF o, q, z
<1>5. SameBut(x, z)
  BY <1>2 DEF SameBut, Kept, Settled, ContextFields
<1>6. Session!smb2_calc_signature(z) = Session!smb2_calc_signature(x) /\ z.seals_with = x.seals_with
  BY <1>5, Signature DEF SameBut, Kept, Settled
<1>7. /\ o.command = "TREE_CONNECT" /\ o.sealed = <<>>
      /\ o.signature = (IF /\ x.sign \/ (~x.seal /\ x.dialect = Session!SMB2_VERSION_0311)
                           /\ x.session_id /\ x.keyed
                        THEN Session!smb2_calc_signature(x) ELSE <<>>)
      /\ DOMAIN o = {"command", "reply", "status", "says", "signature", "sealed"}
  BY <1>1, <1>4
<1>8. /\ q.command = "TREE_CONNECT" /\ q.signature = o.signature
      /\ q.sealed = IF x.seal THEN <<x.keys[x.seals_with]>> ELSE <<>>
  BY <1>3, <1>7
<1>9. TreeSaid(z, z.says)
  BY <1>2, <1>5, <1>6, <1>7, <1>8 DEF TreeSaid, SameBut
<1> QED BY <1>5, <1>9 DEF z, m

\* The client that has its verdict.
Accepts(c, s) ==
  /\ Session!Admitted(c, s)
  /\ (c.sign \/ Demands(c, s)) /\ ~c.seal /\ ~s.seal => c.password # 0
  /\ Demands(c, s) /\ ~s.seal => Session!Known(c, s)

Judged(c, s, said, x) ==
  /\ Kept(c, x) /\ x.dialect = Agreed(c, s) /\ x.up /\ x.session_id
  /\ x.seal = (c.seal \/ s.seal) /\ x.seal \in BOOLEAN
  /\ x.sign = ((c.sign \/ Demands(c, s)) /\ ~c.seal /\ ~s.seal) /\ x.sign \in BOOLEAN
  /\ TreeSaid(x, x.says)
  /\ IF x.sign \/ x.seal \/ Agreed(c, s) = Session!SMB2_VERSION_0311
     THEN x.keyed /\ x.keys = Keys(Agreed(c, s), Session!Exported(c.password), said)
     ELSE ~x.keyed

\* libsmb2's own server opens nothing that is sealed with the keys of SMB 3.
Matched(c, s) == s.own => ~c.seal /\ ~s.seal

\* The client accepts the verdict when it is a good one, and its signature the right one.
LEMMA Judges ==
  ASSUME NEW c, NEW s, Client(c), Server(s), Matched(c, s), NEW x, NEW w, Challenged(c, s, x, w),
         NEW y, Decided(c, s, x.preauthhash, y), NEW m, Verdict(c, s, y, m)
  PROVE  LET v == Session!session_setup_cb(x, m) IN
         IF Accepts(c, s) THEN Judged(c, s, x.preauthhash, v)
         ELSE DOMAIN v = ContextFields /\ ~v.up
<1> DEFINE d == Agreed(c, s)
           n == [x EXCEPT !.session_id = TRUE]
           e == IF m.says.encrypt THEN [n EXCEPT !.seal = TRUE, !.sign = FALSE] ELSE n
           z == [e EXCEPT !.session_key = Session!Exported(n.password), !.keyed = TRUE]
           k == [z EXCEPT !.keys = Session!smb2_create_signing_key(z)]
           v == Session!session_setup_cb(x, m)
<1>1. /\ DOMAIN x = ContextFields /\ x.password = c.password /\ x.dialect = d /\ Opening(c, s, x, w)
  BY DEF Challenged, Opening, Kept, Settled
<1>2. /\ DOMAIN n = ContextFields /\ n.session_id
      /\ \A f \in ContextFields \ {"session_id"} : n[f] = x[f]
  BY <1>1 DEF ContextFields
<1>3. v = IF m.status = "MORE_PROCESSING"
          THEN Session!send_session_setup_request(Session!smb3_update_preauth_hash(n, m),
                                          Session!AUTHENTICATION_MESSAGE(x.password))
          ELSE IF m.status # "SUCCESS" THEN Session!smb2_close_context(n)
          ELSE Session!session_setup_done(n, m)
  BY DEF Session!session_setup_cb
<1>4. m.says.encrypt = s.seal /\ (m.status = "SUCCESS" <=> Session!Admitted(c, s))
      /\ m.status # "MORE_PROCESSING"
  BY DEF Verdict, Matched, Server
<1>5. CASE ~Session!Admitted(c, s)
  <2>1. v = Session!smb2_close_context(n)
    BY <1>3, <1>4, <1>5
  <2> QED BY <1>2, <1>5, <2>1, ClosedSide DEF Accepts
<1>6. CASE Session!Admitted(c, s)
  <2>1. v = IF ~(e.sign \/ e.seal \/ e.dialect = Session!SMB2_VERSION_0311)
            THEN Session!Says(e, Session!TreeConnect(FALSE))
            ELSE IF \/ e.sign /\ z.session_key = Session!ZeroKey
                    \/ m.signature # <<>> /\ m.signature # Session!smb2_calc_signature(k)
                 THEN Session!smb2_close_context(k)
            ELSE Session!Says(k, Session!TreeConnect(FALSE))
    BY <1>3, <1>4, <1>6 DEF Session!session_setup_done
  <2> HIDE DEF n, v
  <2>2. /\ DOMAIN e = ContextFields /\ e.seal = (c.seal \/ s.seal) /\ e.seal \in BOOLEAN
        /\ e.sign = ((c.sign \/ Demands(c, s)) /\ ~c.seal /\ ~s.seal) /\ e.sign \in BOOLEAN
        /\ \A f \in ContextFields \ {"seal", "sign"} : e[f] = n[f]
    <3>1. DOMAIN n = ContextFields /\ n.seal = c.seal /\ n.seal \in BOOLEAN
          /\ n.sign = ((c.sign \/ (Demands(c, s) /\ ~s.seal)) /\ ~c.seal)
      <4>1. n.seal = x.seal /\ n.sign = x.sign
        BY <1>2 DEF ContextFields
      <4>2. /\ x.seal = c.seal /\ c.seal \in BOOLEAN
            /\ x.sign = ((c.sign \/ (Demands(c, s) /\ ~s.seal)) /\ ~c.seal)
        BY <1>1 DEF Opening, Client
      <4> QED BY <1>2, <4>1, <4>2
    <3>2. CASE s.seal
      BY <1>4, <3>1, <3>2 DEF ContextFields
    <3>3. CASE ~s.seal
      BY <1>4, <3>1, <3>3 DEF ContextFields
    <3> QED BY <3>2, <3>3
  <2> HIDE DEF e
  <2>3. /\ Kept(c, e) /\ e.dialect = d /\ e.up /\ e.session_id /\ ~e.keyed /\ e.keys = Session!NoKeys
        /\ e.preauthhash = x.preauthhash
    BY <1>1, <1>2, <2>2 DEF Opening, Kept, Settled, ContextFields
  <2>4. CASE ~(e.sign \/ e.seal \/ d = Session!SMB2_VERSION_0311)
    <3>1. v = Session!Says(e, Session!TreeConnect(FALSE))
      BY <2>1, <2>3, <2>4
    <3>2. SameBut(e, v) /\ TreeSaid(v, v.says)
      BY <2>2, <3>1, TreeConnectSaid
    <3>3. Kept(c, v)
      BY <2>3, <3>2 DEF SameBut, Kept, Settled
    <3>4. Judged(c, s, x.preauthhash, v)
      BY <2>2, <2>3, <2>4, <3>2, <3>3 DEF Judged, SameBut
    <3>5. Accepts(c, s)
      BY <1>6, <2>2, <2>4, c.sign \in BOOLEAN, s.seal \in BOOLEAN DEF Accepts, Client, Server
    <3> QED BY <3>4, <3>5 DEF v
  <2>5. CASE e.sign \/ e.seal \/ d = Session!SMB2_VERSION_0311
    <3>1. /\ DOMAIN z = ContextFields /\ z.session_key = Session!Exported(c.password) /\ z.keyed
          /\ \A f \in ContextFields \ {"session_key", "keyed"} : z[f] = e[f]
      <4>1. n.password = c.password
        BY <1>1, <1>2 DEF ContextFields
      <4> QED BY <2>2, <4>1 DEF ContextFields
    <3> HIDE DEF z
    <3>2. /\ DOMAIN k = ContextFields /\ k.keys = Session!smb2_create_signing_key(z)
          /\ \A f \in ContextFields \ {"keys"} : k[f] = z[f]
      BY <3>1 DEF ContextFields
    <3>3. z.keys = Session!NoKeys /\ z.dialect = d /\ z.preauthhash = x.preauthhash
      BY <2>3, <3>1 DEF ContextFields
    <3> HIDE DEF k
    <3>4. k.keys = Keys(d, Session!Exported(c.password), x.preauthhash)
      BY <3>1, <3>2, <3>3, KeysOf
    <3>5. /\ Kept(c, k) /\ k.dialect = d /\ k.up /\ k.session_id /\ k.keyed
          /\ k.seal = e.seal /\ k.sign = e.sign
      BY <2>3, <3>1, <3>2 DEF Kept, Settled, ContextFields
    <3>6. (\/ e.sign /\ z.session_key = Session!ZeroKey
           \/ m.signature # <<>> /\ m.signature # Session!smb2_calc_signature(k)) <=> ~Accepts(c, s)
      <4>1. z.session_key = Session!ZeroKey <=> c.password = 0
        BY <3>1 DEF Session!Exported, Session!ZeroKey
      <4>2. m.signature = (IF y.sign THEN Session!smb2_calc_signature(y) ELSE <<>>)
            /\ y.sign = (Demands(c, s) /\ ~s.seal) /\ y.dialect = d
        BY <1>6 DEF Verdict, Decided
      <4>3. CASE y.sign
        <5>1. y.keys = Keys(d, Shared(c, s), x.preauthhash)
          BY <4>3 DEF Decided
        <5>2. d \in Session!Smb2Dialects \cup Session!Smb3Dialects
          BY <1>1, AgreedIsCommon DEF Opening, Client, Server
        <5>3. m.signature = Session!smb2_calc_signature(k) <=> y.keys.signing = k.keys.signing
          BY <3>5, <4>2, <4>3, Signature
        <5>4. y.keys.signing = k.keys.signing <=> Shared(c, s) = Session!Exported(c.password)
          BY <3>4, <5>1, <5>2, SigningKeys
        <5>5. m.signature # <<>>
          BY <4>2, <4>3, Signature
        <5>6. CASE Session!Known(c, s)
          <6>1. Shared(c, s) = Session!Exported(c.password) /\ c.password # 0
            BY <5>6 DEF Shared, Session!Exported, Session!Known
          <6> QED BY <1>6, <4>1, <5>3, <5>4, <5>6, <6>1 DEF Accepts
        <5>7. CASE ~Session!Known(c, s)
          <6>1. ~Accepts(c, s)
            BY <4>2, <4>3, <5>7 DEF Accepts
          <6>2. s.allow_anonymous /\ Shared(c, s) = Session!ZeroKey
            BY <1>6, <5>7 DEF Session!Admitted, Session!Known, Shared
          <6>3. ~c.seal /\ ~s.seal
            BY <6>2 DEF Server, Matched
          <6>4. CASE c.password = 0
            BY <2>2, <4>1, <4>2, <4>3, <6>1, <6>3, <6>4
          <6>5. CASE c.password # 0
            <7>1. Shared(c, s) # Session!Exported(c.password)
              BY <6>2, <6>5 DEF Session!Exported, Session!ZeroKey
            <7> QED BY <5>3, <5>4, <5>5, <6>1, <7>1
          <6> QED BY <6>4, <6>5
        <5> QED BY <5>6, <5>7
      <4>4. CASE ~y.sign
        BY <1>6, <2>2, <4>1, <4>2, <4>4 DEF Accepts
      <4> QED BY <4>3, <4>4
    <3>7. CASE ~Accepts(c, s)
      <4>1. v = Session!smb2_close_context(k)
        BY <2>1, <2>3, <2>5, <3>6, <3>7
      <4> QED BY <3>2, <3>7, <4>1, ClosedSide DEF v
    <3>8. CASE Accepts(c, s)
      <4>1. v = Session!Says(k, Session!TreeConnect(FALSE))
        BY <2>1, <2>3, <2>5, <3>6, <3>8
      <4>2. SameBut(k, v) /\ TreeSaid(v, v.says)
        BY <3>2, <4>1, TreeConnectSaid
      <4>3. Kept(c, v)
        BY <3>5, <4>2 DEF SameBut, Kept, Settled
      <4>4. Judged(c, s, x.preauthhash, v)
        BY <2>2, <2>5, <3>4, <3>5, <4>2, <4>3 DEF Judged, SameBut
      <4> QED BY <3>8, <4>4 DEF v
    <3> QED BY <3>7, <3>8
  <2> QED BY <2>4, <2>5
<1> QED BY <1>5, <1>6

\* The third round: the verdict.
LEMMA ThirdRound ==
  ASSUME NEW c, NEW s, Client(c), Server(s), Matched(c, s), NEW x, NEW y, Challenged(c, s, x, y)
  PROVE  IF Accepts(c, s)
         THEN \E said : /\ Judged(c, s, said, ClientAfter(x, y))
                        /\ Decided(c, s, said, ServerAfter(x, y))
         ELSE Lost(ClientAfter(x, y), ServerAfter(x, y))
<1> DEFINE a == ClientAfter(x, y)
           b == ServerAfter(x, y)
           said == x.preauthhash
<1>1. x.up /\ y.up /\ x.says.command = "SESSION_SETUP"
  BY DEF Challenged, Opening
<1>2. b = Session!smb2_session_setup_request_cb(y, x.says)
  BY <1>1 DEF ServerAfter, Session!Heard, Session!ServerHears
<1>3. Decided(c, s, said, b) /\ Verdict(c, s, b, b.says)
  BY <1>2, Decides
<1>4. b.up /\ b.says.command = "SESSION_SETUP" /\ DOMAIN b = ContextFields
  BY <1>3 DEF Decided, Verdict, Kept
<1>5. a = Session!session_setup_cb(x, b.says)
  BY <1>1, <1>4 DEF ClientAfter, Session!Heard, Session!ClientHears
<1> HIDE DEF a, b, said
<1>6. IF Accepts(c, s) THEN Judged(c, s, said, a) ELSE DOMAIN a = ContextFields /\ ~a.up
  BY <1>3, <1>5, Judges DEF said
<1>7. IF Accepts(c, s) THEN \E t : Judged(c, s, t, a) /\ Decided(c, s, t, b) ELSE Lost(a, b)
  BY <1>3, <1>4, <1>6 DEF Lost
<1> QED BY <1>7 DEF a, b

\* Who knows the password has the key of the other side, and who seals knows it.
LEMMA SharedKey ==
  ASSUME NEW c, NEW s, Session!Known(c, s)
  PROVE  Shared(c, s) = Session!Exported(c.password) /\ Session!Exported(c.password) # Session!ZeroKey
BY DEF Session!Known, Shared, Session!Exported, Session!ZeroKey

\* Another server admits nobody without the password.
LEMMA SealedKnown ==
  ASSUME NEW c, NEW s, Server(s), Matched(c, s), Session!Admitted(c, s), c.seal \/ s.seal
  PROVE  ~s.own /\ Session!Known(c, s)
BY DEF Server, Matched, Session!Admitted, Session!Known

\* The server that has taken the first request.
Served(c, s, said, y) ==
  /\ DOMAIN y = ContextFields /\ y.dialect = Agreed(c, s) /\ y.up /\ y.session_id /\ y.keyed
  /\ y.seal = (c.seal \/ s.seal) /\ y.sign = (Demands(c, s) /\ ~c.seal /\ ~s.seal)
  /\ y.keys = (IF (Demands(c, s) /\ ~s.seal) \/ ~s.own
               THEN Keys(Agreed(c, s), Shared(c, s), said) ELSE Session!NoKeys)
  /\ y.seals_with = s.seals_with /\ TreeSaid(y, y.says)

\* The server takes what is signed with its key, and what is sealed in a dialect that seals.
LEMMA Serves ==
  ASSUME NEW c, NEW s, Client(c), Server(s), Matched(c, s), Accepts(c, s), NEW said,
         NEW x, Judged(c, s, said, x), NEW y, Decided(c, s, said, y)
  PROVE  LET v == Session!smb2_tree_connect_request_cb(y, x.says) IN
         IF c.seal \/ s.seal => Agreed(c, s) \in Session!Smb3Dialects THEN Served(c, s, said, v)
         ELSE DOMAIN v = ContextFields /\ ~v.up
<1> DEFINE m == x.says
           d == Agreed(c, s)
           k == IF m.sealed # <<>> /\ ~y.own THEN [y EXCEPT !.seal = TRUE, !.sign = FALSE] ELSE y
           v == Session!smb2_tree_connect_request_cb(y, m)
<1>1. v = IF ~Session!Takes(y, m) THEN Session!smb2_close_context(y)
          ELSE Session!Says(k, Session!TreeConnect(TRUE))
  BY DEF Session!smb2_tree_connect_request_cb
<1>2. /\ DOMAIN y = ContextFields /\ y.own = s.own /\ y.opens_with = s.opens_with
      /\ y.seals_with = s.seals_with /\ y.dialect = d /\ y.seal = s.seal
      /\ y.sign = (Demands(c, s) /\ ~s.seal) /\ s.own \in BOOLEAN /\ s.seal \in BOOLEAN
  BY DEF Decided, Kept, Settled, Server
<1>3. /\ x.seals_with = "serverin" /\ x.seal = (c.seal \/ s.seal) /\ TreeSaid(x, m)
      /\ x.sign = ((c.sign \/ Demands(c, s)) /\ ~c.seal /\ ~s.seal) /\ x.dialect = d
      /\ x.session_id
  BY DEF Judged, Kept, Settled, Client
<1> HIDE DEF m
<1>4. Session!Admitted(c, s)
  BY DEF Accepts
<1>5. CASE c.seal \/ s.seal
  <2>1. ~s.own /\ Session!Known(c, s)
    BY <1>4, <1>5, SealedKnown
  <2>2. x.keys = y.keys
    BY <1>3, <1>5, <2>1, SharedKey DEF Judged, Decided
  <2>3. m.sealed = <<y.keys["serverin"]>> /\ m.signature = <<>>
    BY <1>3, <1>5, <2>2 DEF TreeSaid
  <2>4. y.opens_with = "serverin"
    BY <1>2, <2>1 DEF Server
  <2>5. Session!Takes(y, m) <=> d \in Session!Smb3Dialects
    BY <1>2, <2>1, <2>3, <2>4 DEF Session!Takes, Session!Opens
  <2>6. CASE d \notin Session!Smb3Dialects
    <3>1. v = Session!smb2_close_context(y)
      BY <1>1, <2>5, <2>6
    <3> QED BY <1>2, <1>5, <2>6, <3>1, ClosedSide DEF m
  <2>7. CASE d \in Session!Smb3Dialects
    <3>1. k = [y EXCEPT !.seal = TRUE, !.sign = FALSE]
      BY <1>2, <2>1, <2>3
    <3>2. DOMAIN k = ContextFields /\ k.seal /\ ~k.sign /\ k.sign \in BOOLEAN /\ k.seal \in BOOLEAN
          /\ \A f \in ContextFields \ {"seal", "sign"} : k[f] = y[f]
      BY <1>2, <3>1 DEF ContextFields
    <3> HIDE DEF k, v
    <3>3. v = Session!Says(k, Session!TreeConnect(TRUE))
      BY <1>1, <2>5, <2>7
    <3>4. SameBut(k, v) /\ TreeSaid(v, v.says)
      BY <3>2, <3>3, TreeConnectSaid
    <3>5. /\ k.dialect = y.dialect /\ k.up = y.up /\ k.session_id = y.session_id
          /\ k.keyed = y.keyed /\ k.keys = y.keys /\ k.seals_with = y.seals_with
      BY <3>2 DEF ContextFields
    <3>6. y.up /\ y.session_id /\ y.keyed
          /\ y.keys = (IF (Demands(c, s) /\ ~s.seal) \/ ~s.own
                       THEN Keys(d, Shared(c, s), said) ELSE Session!NoKeys)
      BY <1>2 DEF Decided
    <3>7. Served(c, s, said, v)
      BY <1>2, <1>5, <3>2, <3>4, <3>5, <3>6 DEF Served, SameBut, Kept, Settled
    <3> QED BY <2>7, <3>7 DEF v, m
  <2> QED BY <2>6, <2>7
<1>6. CASE ~c.seal /\ ~s.seal
  <2>1. m.sealed = <<>>
    BY <1>3, <1>6 DEF TreeSaid
  <2>2. Session!Takes(y, m)
    <3> SUFFICES ASSUME y.sign, m.signature # <<>> PROVE m.signature = Session!smb2_calc_signature(y)
      BY <2>1 DEF Session!Takes, Session!Opens
    <3>1. Session!Known(c, s)
      BY <1>2 DEF Accepts
    <3>2. x.keys = y.keys
      BY <1>2, <1>3, <1>6, <3>1, SharedKey DEF Judged, Decided
    <3>3. m.signature = Session!smb2_calc_signature(x)
      BY <1>3 DEF TreeSaid
    <3> QED BY <1>2, <1>3, <3>2, <3>3, Signature
  <2>3. k = y
    BY <2>1
  <2> HIDE DEF k, v
  <2>4. v = Session!Says(y, Session!TreeConnect(TRUE))
    BY <1>1, <2>2, <2>3
  <2>5. SameBut(y, v) /\ TreeSaid(v, v.says)
    BY <1>2, <2>4, TreeConnectSaid
  <2>6. y.up /\ y.session_id /\ y.keyed
        /\ y.keys = (IF (Demands(c, s) /\ ~s.seal) \/ ~s.own
                     THEN Keys(d, Shared(c, s), said) ELSE Session!NoKeys)
    BY <1>2 DEF Decided
  <2>7. Served(c, s, said, v)
    BY <1>2, <1>6, <2>5, <2>6 DEF Served, SameBut, Kept, Settled
  <2> QED BY <1>6, <2>7 DEF v, m
<1> QED BY <1>5, <1>6

\* Whether the client takes the reply.
Finishes(c, s) ==
  /\ c.seal \/ s.seal => Agreed(c, s) \in Session!Smb3Dialects
  /\ ~c.seal /\ ~s.seal /\ c.sign /\ ~Demands(c, s) => Agreed(c, s) # Session!SMB2_VERSION_0311

\* The client takes what is signed with its key: all but a reply signed without one.
LEMMA ClientTakes ==
  ASSUME NEW c, NEW s, Client(c), Server(s), Matched(c, s), Accepts(c, s), NEW said,
         Common(c, s) # {}, NEW x, Judged(c, s, said, x), NEW y, Served(c, s, said, y),
         c.seal \/ s.seal => Agreed(c, s) \in Session!Smb3Dialects
  PROVE  Session!Takes(x, y.says) <=> Finishes(c, s)
<1> DEFINE m == y.says
           d == Agreed(c, s)
<1>1. /\ x.opens_with = "serverout" /\ x.own /\ x.dialect = d
      /\ x.sign = ((c.sign \/ Demands(c, s)) /\ ~c.seal /\ ~s.seal)
  BY DEF Judged, Kept, Settled, Client
<1>2. /\ y.dialect = d /\ y.seal = (c.seal \/ s.seal)
      /\ y.sign = (Demands(c, s) /\ ~c.seal /\ ~s.seal) /\ y.session_id /\ y.keyed
      /\ y.seals_with = s.seals_with /\ TreeSaid(y, m)
  BY DEF Served
<1> HIDE DEF m
<1>3. Session!Admitted(c, s)
  BY DEF Accepts
<1>4. CASE c.seal \/ s.seal
  <2>1. ~s.own /\ Session!Known(c, s)
    BY <1>3, <1>4, SealedKnown
  <2>2. x.keys = y.keys
    BY <1>4, <2>1, SharedKey DEF Judged, Served
  <2>3. y.seals_with = "serverout"
    BY <1>2, <2>1 DEF Server
  <2>4. m.sealed = <<x.keys["serverout"]>>
    BY <1>2, <1>4, <2>2, <2>3 DEF TreeSaid
  <2>5. Session!Takes(x, m)
    BY <1>1, <1>4, <2>4 DEF Session!Takes, Session!Opens
  <2>6. Finishes(c, s)
    BY <1>4 DEF Finishes
  <2> QED BY <2>5, <2>6 DEF m
<1>5. CASE ~c.seal /\ ~s.seal
  <2>1. m.sealed = <<>> /\ m.signature = IF Demands(c, s) \/ d = Session!SMB2_VERSION_0311
                                         THEN Session!smb2_calc_signature(y) ELSE <<>>
    BY <1>2, <1>5 DEF TreeSaid
  <2>2. Session!Takes(x, m) <=> (x.sign /\ m.signature # <<>>
                                  => m.signature = Session!smb2_calc_signature(x))
    BY <2>1 DEF Session!Takes, Session!Opens
  <2>3. CASE Demands(c, s)
    <3>1. Session!Known(c, s)
      BY <1>5, <2>3 DEF Accepts
    <3>2. x.keys = y.keys
      BY <1>1, <1>5, <2>3, <3>1, SharedKey DEF Judged, Served
    <3>3. m.signature = Session!smb2_calc_signature(x)
      BY <1>1, <1>2, <2>1, <2>3, <3>2, Signature
    <3> QED BY <1>5, <2>2, <2>3, <3>3 DEF Finishes, m
  <2>4. CASE ~Demands(c, s) /\ d = Session!SMB2_VERSION_0311 /\ c.sign
    <3>1. s.own
      BY <2>4 DEF Demands, Server
    <3>2. y.keys.signing = Session!ZeroKey
      BY <2>4, <3>1 DEF Served, Session!NoKeys
    <3>3. x.keys.signing # Session!ZeroKey
      <4>1. d \in Session!Smb2Dialects \cup Session!Smb3Dialects
        BY AgreedIsCommon DEF Client, Server
      <4>2. x.keys = Keys(d, Session!Exported(c.password), said)
        BY <2>4 DEF Judged
      <4> QED BY <2>4, <4>1, <4>2, SigningKeys
    <3>4. m.signature = Session!smb2_calc_signature(y) /\ m.signature # <<>>
      BY <2>1, <2>4, Signature
    <3>5. m.signature # Session!smb2_calc_signature(x)
      BY <1>1, <1>2, <3>2, <3>3, <3>4, Signature
    <3>6. x.sign
      BY <1>1, <1>5, <2>4
    <3> QED BY <1>5, <2>2, <2>4, <3>4, <3>5, <3>6 DEF Finishes, m
  <2>5. CASE ~Demands(c, s) /\ ~(d = Session!SMB2_VERSION_0311 /\ c.sign)
    <3>1. m.signature = <<>> \/ ~x.sign
      BY <1>1, <2>1, <2>5
    <3> QED BY <1>5, <2>2, <2>5, <3>1 DEF Finishes, m
  <2> QED BY <2>3, <2>4, <2>5
<1> QED BY <1>4, <1>5

\* What the two have of each other at the end.
Ended(c, s, x, y) ==
  /\ x.dialect = Agreed(c, s)
  /\ x.sign /\ Session!Known(c, s) => x.keys.signing # Session!ZeroKey
  /\ c.required /\ ~x.seal => /\ x.says.signature # <<>>
                              /\ y.says.signature = x.says.signature

\* At the end of these rounds there is a session.
LEMMA EndsWell ==
  ASSUME NEW c, NEW s, Client(c), Server(s), Accepts(c, s), Common(c, s) # {},
         NEW said, NEW x, Judged(c, s, said, x), NEW y, Served(c, s, said, y)
  PROVE  Ended(c, s, x, y)
<1>1. Agreed(c, s) \in Session!Smb2Dialects \cup Session!Smb3Dialects
  BY AgreedIsCommon DEF Client, Server
<1>2. ASSUME x.sign, Session!Known(c, s) PROVE x.keys.signing # Session!ZeroKey
  <2>1. x.keys = Keys(Agreed(c, s), Session!Exported(c.password), said)
    BY <1>2 DEF Judged
  <2> QED BY <1>1, <1>2, <2>1, SharedKey, SigningKeys
<1>3. ASSUME c.required, ~x.seal
      PROVE  x.says.signature # <<>> /\ y.says.signature = x.says.signature
  <2>1. Demands(c, s) /\ ~c.seal /\ ~s.seal
    BY <1>3 DEF Demands, Judged, Client, Server
  <2>2. Session!Known(c, s)
    BY <2>1 DEF Accepts
  <2>3. x.keys = y.keys /\ x.sign /\ y.sign /\ x.keyed /\ x.dialect = y.dialect
    BY <2>1, <2>2, SharedKey DEF Judged, Served
  <2>4. x.says.signature = Session!smb2_calc_signature(x)
    BY <2>3 DEF Judged, TreeSaid
  <2>5. y.says.signature = Session!smb2_calc_signature(y)
    BY <2>3 DEF Served, TreeSaid
  <2> QED BY <2>3, <2>4, <2>5, Signature
<1> QED BY <1>2, <1>3 DEF Ended, Judged

\* The fourth round: the first request that is signed or sealed.
LEMMA FourthRound ==
  ASSUME NEW c, NEW s, Client(c), Server(s), Matched(c, s), Accepts(c, s), Common(c, s) # {},
         NEW said, NEW x, NEW y, Judged(c, s, said, x), Decided(c, s, said, y)
  PROVE  /\ ClientAfter(x, y).up <=> Finishes(c, s)
         /\ Finishes(c, s) => Ended(c, s, ClientAfter(x, y), ServerAfter(x, y))
<1> DEFINE a == ClientAfter(x, y)
           b == ServerAfter(x, y)
<1>1. x.up /\ y.up /\ x.says.command = "TREE_CONNECT" /\ DOMAIN x = ContextFields
  BY DEF Judged, Decided, TreeSaid, Kept
<1>2. b = Session!smb2_tree_connect_request_cb(y, x.says)
  BY <1>1 DEF ServerAfter, Session!Heard, Session!ServerHears
<1>3. CASE ~(c.seal \/ s.seal => Agreed(c, s) \in Session!Smb3Dialects)
  <2>1. ~b.up
    BY <1>2, <1>3, Serves
  <2>2. a = Session!smb2_close_context(x)
    BY <2>1 DEF ClientAfter, Session!Heard
  <2>3. ~a.up
    BY <1>1, <2>2, ClosedSide
  <2> QED BY <1>3, <2>3 DEF Finishes
<1>4. CASE c.seal \/ s.seal => Agreed(c, s) \in Session!Smb3Dialects
  <2>1. Served(c, s, said, b)
    BY <1>2, <1>4, Serves
  <2>2. b.up /\ b.says.command = "TREE_CONNECT"
    BY <2>1 DEF Served, TreeSaid
  <2>3. a = IF Session!Takes(x, b.says) THEN x ELSE Session!smb2_close_context(x)
    BY <1>1, <2>2 DEF ClientAfter, Session!Heard, Session!ClientHears, Session!tree_connect_cb
  <2> HIDE DEF a, b
  <2>4. Session!Takes(x, b.says) <=> Finishes(c, s)
    BY <1>4, <2>1, ClientTakes
  <2>5. CASE ~Finishes(c, s)
    <3>1. ~a.up
      BY <1>1, <2>3, <2>4, <2>5, ClosedSide
    <3> QED BY <2>5, <3>1 DEF a
  <2>6. CASE Finishes(c, s)
    <3>1. a = x
      BY <2>3, <2>4, <2>6
    <3>2. Ended(c, s, x, b)
      BY <2>1, EndsWell
    <3> QED BY <1>1, <2>6, <3>1, <3>2 DEF a, b
  <2> QED BY <2>5, <2>6
<1> QED BY <1>3, <1>4

\* Between these two sides there should be a session.
Fit(c, s) ==
  /\ Common(c, s) # {} /\ Session!Admitted(c, s)
  /\ IF c.seal \/ s.seal THEN Session!Sealed(c, s, Agreed(c, s)) ELSE Session!Plain(c, s, Agreed(c, s))

\* That is what the rounds ask for.
LEMMA FitSides ==
  ASSUME NEW c, NEW s, Client(c), Server(s), Matched(c, s)
  PROVE  Fit(c, s) <=> Greetable(c, s) /\ Accepts(c, s) /\ Finishes(c, s)
<1> DEFINE d == Agreed(c, s)
<1>1. Session!MustSign(c, s, d) <=> Demands(c, s)
  BY DEF Session!MustSign, Demands
<1>2. CASE c.seal \/ s.seal
  <2>1. Session!Admitted(c, s) => Session!Known(c, s)
    BY <1>2, SealedKnown
  <2>2. Session!Known(c, s) => c.password # 0
    BY DEF Session!Known
  <2> QED BY <1>1, <1>2, <2>1, <2>2 DEF Fit, Session!Sealed, Greetable, Demandable, Accepts,
                                        Finishes
<1>3. CASE ~c.seal /\ ~s.seal
  <2>1. Session!Known(c, s) => c.password # 0
    BY DEF Session!Known
  <2> QED BY <1>1, <1>3, <2>1 DEF Fit, Session!Plain, Greetable, Demandable, Accepts, Finishes
<1> QED BY <1>2, <1>3

\* What becomes of any two sides.
LEMMA SidesOpen ==
  ASSUME NEW c, NEW s, Client(c), Server(s), Matched(c, s)
  PROVE  LET end == Session!Handshake(c, s) IN
         (end.client.up <=> Fit(c, s)) /\ (end.client.up => Ended(c, s, end.client, end.server))
<1> DEFINE w0 == Session!connect_cb(c)
           w1 == ClientAfter(w0, s)   v1 == ServerAfter(w0, s)
           w2 == ClientAfter(w1, v1)  v2 == ServerAfter(w1, v1)
           w3 == ClientAfter(w2, v2)  v3 == ServerAfter(w2, v2)
           w4 == ClientAfter(w3, v3)  v4 == ServerAfter(w3, v3)
<1>1. Session!Handshake(c, s) = [client |-> w4, server |-> v4]
  <2>1. Session!Round([client |-> w0, server |-> s]) = [client |-> w1, server |-> v1]
    BY RoundIs
  <2>2. Session!Round([client |-> w1, server |-> v1]) = [client |-> w2, server |-> v2]
    BY RoundIs
  <2>3. Session!Round([client |-> w2, server |-> v2]) = [client |-> w3, server |-> v3]
    BY RoundIs
  <2>4. Session!Round([client |-> w3, server |-> v3]) = [client |-> w4, server |-> v4]
    BY RoundIs
  <2>5. Session!Handshake(c, s) =
          Session!Round(Session!Round(Session!Round(Session!Round([client |-> w0, server |-> s]))))
    BY DEF Session!Handshake
  <2> HIDE DEF w0, w1, w2, w3, w4, v1, v2, v3, v4
  <2> QED BY <2>1, <2>2, <2>3, <2>4, <2>5
<1>2. IF Greetable(c, s) THEN Greeted(c, s, w1, v1) ELSE Lost(w1, v1)
  BY FirstRound
<1> HIDE DEF w0, w1, v1
<1>3. (w4.up <=> Fit(c, s)) /\ (w4.up => Ended(c, s, w4, v4))
  <2>1. CASE ~Greetable(c, s)
    <3>1. Lost(w2, v2)
      BY <1>2, <2>1, LostRound
    <3> HIDE DEF w2, v2
    <3>2. Lost(w3, v3)
      BY <3>1, LostRound
    <3> HIDE DEF w3, v3
    <3>3. ~w4.up
      BY <3>2, LostRound
    <3> QED BY <2>1, <3>3, FitSides
  <2>2. CASE Greetable(c, s)
    <3>1. Challenged(c, s, w2, v2)
      BY <1>2, <2>2, SecondRound
    <3> HIDE DEF w2, v2
    <3>2. IF Accepts(c, s) THEN \E said : Judged(c, s, said, w3) /\ Decided(c, s, said, v3)
          ELSE Lost(w3, v3)
      BY <3>1, ThirdRound
    <3> HIDE DEF w3, v3
    <3>3. CASE ~Accepts(c, s)
      <4>1. ~w4.up
        BY <3>2, <3>3, LostRound
      <4> QED BY <3>3, <4>1, FitSides
    <3>4. CASE Accepts(c, s)
      <4>1. PICK said : Judged(c, s, said, w3) /\ Decided(c, s, said, v3)
        BY <3>2, <3>4
      <4>2. Common(c, s) # {}
        BY <2>2 DEF Greetable, Demandable
      <4>3. /\ w4.up <=> Finishes(c, s)
            /\ Finishes(c, s) => Ended(c, s, w4, v4)
        BY <3>4, <4>1, <4>2, FourthRound
      <4> QED BY <2>2, <3>4, <4>3, FitSides
    <3> QED BY <3>3, <3>4
  <2> QED BY <2>1, <2>2
<1> HIDE DEF w4, v4
<1>4. Session!Handshake(c, s).client = w4 /\ Session!Handshake(c, s).server = v4
  BY <1>1
<1> QED BY <1>3, <1>4

\* Any client and any server come to one session in the highest dialect both have, exactly when
\* their settings allow it, and what one signs or seals the other takes.
THEOREM SessionsOpen == Session!KeysAgree
<1> SUFFICES ASSUME NEW c \in Session!Clients, NEW s \in Session!Servers \cup Session!OtherServers,
                    s.own => ~c.seal /\ ~s.seal
             PROVE  LET end == Session!Handshake(c, s)
                        common == c.version \cap s.version
                        dialect == Session!Highest(common)
                    IN /\ end.client.up <=> /\ common # {} /\ Session!Admitted(c, s)
                                            /\ IF c.seal \/ s.seal THEN Session!Sealed(c, s, dialect)
                                               ELSE Session!Plain(c, s, dialect)
                       /\ end.client.up =>
                            /\ end.client.dialect = dialect
                            /\ end.client.sign /\ Session!Known(c, s) =>
                                 end.client.keys.signing # Session!ZeroKey
                            /\ c.required /\ ~end.client.seal =>
                                 /\ end.client.says.signature # <<>>
                                 /\ end.server.says.signature = end.client.says.signature
  BY DEF Session!KeysAgree
<1> DEFINE end == Session!Handshake(c, s)
<1>1. Client(c) /\ Server(s) /\ Matched(c, s)
  BY ClientsAre, ServersAre DEF Matched
<1>2. c.version \cap s.version = Common(c, s) /\ Session!Highest(c.version \cap s.version) = Agreed(c, s)
  BY DEF Common, Agreed
<1>3. (end.client.up <=> Fit(c, s)) /\ (end.client.up => Ended(c, s, end.client, end.server))
  BY <1>1, SidesOpen
<1> HIDE DEF end
<1> QED BY <1>2, <1>3 DEF Fit, Ended, end

\* The client's run never meets two sides that should open a session and do not, or one that
\* opens and should not.
THEOREM EverySessionOpensAlways == Spec => []EverySessionOpens
<1>1. EverySessionOpens
  BY SessionsOpen DEF EverySessionOpens
<1> QED BY <1>1, PTL
=============================================================================
