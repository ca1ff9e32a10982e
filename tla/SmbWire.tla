------------------------------- MODULE SmbWire -------------------------------
(***************************************************************************)
(* What an SMB2 message is on the wire, as the encoders of libsmb2 build   *)
(* it and its decoders take it apart.  Positions of payloads count from    *)
(* the beginning of the 64 bytes of header, positions of fields from the   *)
(* end of them; a field is <<position, width>>.                            *)
(***************************************************************************)
EXTENDS Naturals, Sequences, TLC

Header == 64
PadTo32(n) == 4 * ((n + 3) \div 4)
PadTo64(n) == 8 * ((n + 7) \div 8)
Even(n) == n - (n % 2)
Short(n) == n % 65536                 \* a conversion to uint16_t

Part(at, len) == [at |-> at, len |-> len]

-----------------------------------------------------------------------------
\* A message: the structure size in its first field, the fields behind it,
\* what its offset and length fields say of the payloads, where the payloads
\* are, and the bytes sent after the header.

Message(size, fields) ==
  [size |-> size, fields |-> fields, says |-> <<>>, holds |-> <<>>,
   sent |-> PadTo64(Even(size))]

\* A payload of n bytes at `at`.
Carrying(size, fields, at, n) ==
  [size |-> size, fields |-> fields,
   says |-> <<Part(at, n)>>, holds |-> <<Part(at, n)>>,
   sent |-> PadTo64(at + n - Header)]

-----------------------------------------------------------------------------
\* What a decoder makes of a message: the fixed bytes it was given, the bytes
\* it asks for behind them, the fields and the payloads it finds.

Refused == [fixed |-> 0, more |-> 0, fields |-> <<>>, gets |-> <<>>,
            refused |-> TRUE]

Decoded(fixed, more, fields, gets) ==
  [fixed |-> fixed, more |-> more, fields |-> fields, gets |-> gets,
   refused |-> FALSE]

\* Most decoders insist on the structure size.
Exactly(size, m, decoded) == IF m.size = size THEN decoded ELSE Refused

\* Many take one payload from where its offset field says, and refuse one
\* that overlaps the fixed part.
AtOffset(m, fixed, fields) ==
  LET p == m.says[1] IN
  IF p.len = 0 THEN Decoded(fixed, 0, fields, <<p>>)
  ELSE IF p.at < Header + fixed THEN Refused
  ELSE Decoded(fixed, p.at - Header - fixed + p.len, fields, <<p>>)

\* Others take what lies behind the fixed part.
Behind64(m, fixed, fields) ==
  LET n == m.says[1].len
  IN Decoded(fixed, n, fields, <<Part(Header + fixed, n)>>)

-----------------------------------------------------------------------------
\* The header itself, whose fields count from its own beginning: an interim
\* reply and its answer have one number where others have two.
WithIdentity(async, fields) ==
  LET identity == IF async THEN [async_id |-> <<32, 8>>]
                  ELSE [process_id |-> <<32, 4>>, tree_id |-> <<36, 4>>]
  IN [f \in DOMAIN fields \cup DOMAIN identity |->
        IF f \in DOMAIN fields THEN fields[f] ELSE identity[f]]

smb2_encode_header(async) ==
  [Message(0, WithIdentity(async,
     [protocol_id |-> <<0, 4>>, struct_size |-> <<4, 2>>,
      credit_charge |-> <<6, 2>>, status |-> <<8, 4>>,
      command |-> <<12, 2>>, credit_request_response |-> <<14, 2>>,
      flags |-> <<16, 4>>, next_command |-> <<20, 4>>,
      message_id |-> <<24, 8>>, session_id |-> <<40, 8>>,
      signature |-> <<48, 16>>]))
   EXCEPT !.sent = Header]

smb2_decode_header(m, async) ==
  IF m.sent < Header THEN Refused
  ELSE Decoded(Header, 0, WithIdentity(async,
         [protocol_id |-> <<0, 4>>, struct_size |-> <<4, 2>>,
          credit_charge |-> <<6, 2>>, status |-> <<8, 4>>,
          command |-> <<12, 2>>, credit_request_response |-> <<14, 2>>,
          flags |-> <<16, 4>>, next_command |-> <<20, 4>>,
          message_id |-> <<24, 8>>, session_id |-> <<40, 8>>,
          signature |-> <<48, 16>>]), <<>>)

-----------------------------------------------------------------------------
\* smb2_read_data reads what the decoder asks for and passes over the rest of
\* the message; asking for more than there is is an error.
Fits(m, d) == d.fixed + d.more <= m.sent

Overlap(f, g) == f[1] < g[1] + g[2] /\ g[1] < f[1] + f[2]

\* A field the decoder reads wrongly: not where the encoder put it, or with
\* bytes of another field.  Bytes no field was put into are zero.
Misread(m, d) ==
  {f \in DOMAIN d.fields :
     \/ f \in DOMAIN m.fields /\ m.fields[f][1] # d.fields[f][1]
     \/ f \in DOMAIN m.fields /\ m.fields[f][2] > d.fields[f][2]
     \/ \E g \in DOMAIN m.fields \ {f} : Overlap(d.fields[f], m.fields[g])}

\* The payloads come out as they went in.
Understood(m, d) ==
  /\ ~d.refused /\ Fits(m, d)
  /\ \A i \in DOMAIN m.holds :
       /\ m.holds[i].len = 0 => d.gets[i].len = 0
       /\ m.holds[i].len > 0 => d.gets[i] = m.holds[i]
=============================================================================
