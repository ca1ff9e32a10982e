------------------------------- MODULE SmbRpc -------------------------------
(***************************************************************************)
(* Listing shares: the remote procedure calls that go through the pipe     *)
(* "srvsvc", in the order of bytes NDR prescribes.  A coder works in both  *)
(* directions; what it writes is a set of words, each at a place, and what *)
(* it reads are the words it finds.  A string is its length; a pointer is  *)
(* empty or holds what it points to.                                       *)
(***************************************************************************)
EXTENDS Naturals, SequencesExt

CONSTANT Strings                    \* lengths of names and remarks

ASSUME RpcAssumption == Strings \subseteq 0 .. 1000

PDU_TYPE_REQUEST == 0
PDU_TYPE_RESPONSE == 2
PDU_TYPE_BIND == 11
PDU_TYPE_BIND_ACK == 12
HeaderLength == 24                  \* of a request or a response
UPTR == 1                           \* stands for any pointer that is not null

-----------------------------------------------------------------------------
\* tctx_id is 0 for NDR32 and 1 for NDR64.  In a conformance run only the
\* counts of arrays and strings are coded, and the alignment is found.
Pdu(direction, tctx_id, wire) ==
  [direction |-> direction, tctx_id |-> tctx_id, wire |-> wire, at |-> 0,
   got |-> <<>>, is_conformance_run |-> FALSE, max_alignment |-> 1,
   ptrs |-> <<>>, met |-> 0, strings |-> <<>>, ok |-> TRUE]

Encodes(pdu) == pdu.direction = "DCERPC_ENCODE"
AlignedTo(at, n) == n * ((at + n - 1) \div n)
Skip(pdu, n) == [pdu EXCEPT !.at = @ + n]
Aligning(pdu, n) ==
  [pdu EXCEPT !.max_alignment = IF @ < n THEN n ELSE @]

\* A word of some width, aligned to `unit`.
Written(pdu, at, width, v) ==
  [pdu EXCEPT !.at = at + width, !.got = Append(@, v),
              !.wire = @ \cup {[at |-> at, width |-> width, val |-> v]}]
Read(pdu, at, width, found) ==
  [pdu EXCEPT !.at = at + width, !.ok = @ /\ found # {},
              !.got = Append(@, IF found = {} THEN 0
                                ELSE (CHOOSE w \in found : TRUE).val)]
CodedAt(pdu, at, width, v) ==
  IF Encodes(pdu) THEN Written(pdu, at, width, v)
  ELSE Read(pdu, at, width, {w \in pdu.wire : w.at = at /\ w.width = width})
Coded(pdu, unit, width, v) == CodedAt(pdu, AlignedTo(pdu.at, unit), width, v)

Word(pdu, width, v) == Coded(pdu, width, width, v)
Words(pdu, words) ==
  FoldLeft(LAMBDA p, w : Word(p, w[1], w[2]), pdu, words)

\* Words whose width depends on the syntax.
Wide(pdu) == IF pdu.tctx_id = 0 THEN 4 ELSE 8

uint32_coder(pdu, v) ==
  IF pdu.is_conformance_run THEN Aligning(pdu, 4) ELSE Word(pdu, 4, v)
uint3264_coder(pdu, v) ==
  IF pdu.is_conformance_run THEN Aligning(pdu, Wide(pdu))
  ELSE Word(pdu, Wide(pdu), v)
conformance_coder(pdu, v) ==
  IF pdu.is_conformance_run THEN Word(pdu, Wide(pdu), v) ELSE pdu

\* A string with its terminator: two counts and an offset, then the
\* characters, as many as the last of them said.
encode_utf16(pdu, n) ==
  IF pdu.is_conformance_run
  THEN Aligning(conformance_coder(conformance_coder(
         conformance_coder(pdu, n + 1), 0), n + 1), 2)
  ELSE Coded(pdu, 2, 2 * (n + 1), n)
decode_utf16(pdu) ==
  IF pdu.is_conformance_run
  THEN Aligning(conformance_coder(conformance_coder(
         conformance_coder(pdu, 0), 0), 0), 2)
  ELSE Coded(pdu, 1, 2 * Last(pdu.got), 0)
utf16z_coder(pdu, n) ==
  IF Encodes(pdu) THEN encode_utf16(pdu, n) ELSE decode_utf16(pdu)

-----------------------------------------------------------------------------
\* A pointer inside something else: what it points to comes later.  Pointers
\* are numbered in the order in which they are met.
\* Mutant: the last one met comes first.
add_deferred_pointer_first(pdu, coder, target) ==
  [pdu EXCEPT !.met = @ + 1,
              !.ptrs = <<[coder |-> coder, target |-> target,
                          number |-> pdu.met + 1]>> \o @]
add_deferred_pointer(pdu, coder, target) ==
  [pdu EXCEPT !.met = @ + 1,
              !.ptrs = Append(@, [coder |-> coder, target |-> target,
                                  number |-> pdu.met + 1])]

encode_ptr(pdu, coder, ptr) ==
  IF pdu.is_conformance_run THEN Aligning(pdu, Wide(pdu))
  ELSE IF ptr = <<>> THEN uint3264_coder(pdu, 0)
  ELSE add_deferred_pointer(uint3264_coder(pdu, UPTR), coder, ptr[1])
Pointed(pdu, coder) ==
  IF Last(pdu.got) = 0 THEN pdu ELSE add_deferred_pointer(pdu, coder, 0)
decode_ptr(pdu, coder) ==
  IF pdu.is_conformance_run THEN Aligning(pdu, Wide(pdu))
  ELSE Pointed(uint3264_coder(pdu, 0), coder)
ptr_coder(pdu, coder, ptr) ==
  IF Encodes(pdu) THEN encode_ptr(pdu, coder, ptr) ELSE decode_ptr(pdu, coder)

\* An array: its length is conformance, and says how many elements to code.
carray_coder(pdu, elements) ==
  LET counted == conformance_coder(pdu, Len(elements))
  IN [pdu |-> counted,
      data |-> IF Encodes(pdu) THEN elements
               ELSE [i \in 1 .. Last(counted.got) |-> 0]]

-----------------------------------------------------------------------------
\* What srvsvc passes.
SHARE_INFO_0_coder(pdu, share) == ptr_coder(pdu, "utf16z", share.netname)
SHARE_INFO_1_coder(pdu, share) ==
  ptr_coder(uint32_coder(ptr_coder(pdu, "utf16z", share.netname), share.type),
            "utf16z", share.remark)

SHARE_INFO_0_carray_coder(pdu, shares) ==
  LET carray == carray_coder(pdu, shares)
  IN FoldLeft(SHARE_INFO_0_coder, carray.pdu, carray.data)
SHARE_INFO_1_carray_coder(pdu, shares) ==
  LET carray == carray_coder(pdu, shares)
  IN FoldLeft(SHARE_INFO_1_coder, carray.pdu, carray.data)

SHARE_INFO_0_CONTAINER_coder(pdu, ctr) ==
  ptr_coder(uint32_coder(pdu, ctr.EntriesRead), "INFO_0_carray", ctr.Buffer)
SHARE_INFO_1_CONTAINER_coder(pdu, ctr) ==
  ptr_coder(uint32_coder(pdu, ctr.EntriesRead), "INFO_1_carray", ctr.Buffer)

SHARE_ENUM_UNION_coder(pdu, ses) ==
  LET p == uint3264_coder(pdu, ses.Level)
      level == IF Encodes(pdu) THEN ses.Level
               ELSE IF pdu.is_conformance_run THEN 0 ELSE Last(p.got)
  IN CASE level = 0 -> ptr_coder(p, "INFO_0_CONTAINER", <<ses.Container>>)
       [] level = 1 -> ptr_coder(p, "INFO_1_CONTAINER", <<ses.Container>>)
       [] OTHER -> p
SHARE_ENUM_STRUCT_coder(pdu, ses) ==
  SHARE_ENUM_UNION_coder(uint32_coder(pdu, ses.Level), ses)

SHARE_INFO_coder(pdu, info) ==
  LET p == uint3264_coder(pdu, info.level)
      level == IF Encodes(pdu) THEN info.level
               ELSE IF pdu.is_conformance_run THEN 0 ELSE Last(p.got)
  IN IF level = 1 THEN ptr_coder(p, "INFO_1", <<info.ShareInfo1>>) ELSE p

\* The coder of a name.
Coder(pdu, coder, v) ==
  CASE coder = "utf16z"           -> utf16z_coder(pdu, v)
    [] coder = "uint32"           -> uint32_coder(pdu, v)
    [] coder = "INFO_1"           -> SHARE_INFO_1_coder(pdu, v)
    [] coder = "INFO_0_carray"    -> SHARE_INFO_0_carray_coder(pdu, v)
    [] coder = "INFO_1_carray"    -> SHARE_INFO_1_carray_coder(pdu, v)
    [] coder = "INFO_0_CONTAINER" -> SHARE_INFO_0_CONTAINER_coder(pdu, v)
    [] coder = "INFO_1_CONTAINER" -> SHARE_INFO_1_CONTAINER_coder(pdu, v)
    [] coder = "INFO"             -> SHARE_INFO_coder(pdu, v)
    [] coder = "ENUM_STRUCT"      -> SHARE_ENUM_STRUCT_coder(pdu, v)

\* Everything is coded twice, first for its conformance.
Conformance(pdu) == [pdu EXCEPT !.max_alignment = 1, !.is_conformance_run = TRUE]
AfterConformance(pdu) ==
  [pdu EXCEPT !.at = AlignedTo(@, pdu.max_alignment),
              !.is_conformance_run = FALSE]
do_coder(pdu, coder, v) ==
  FoldLeft(LAMBDA p, run :
             Coder(IF run = 1 THEN Conformance(p) ELSE AfterConformance(p), coder, v),
           pdu, <<1, 2>>)

\* What was deferred is coded in the order in which it was met; shares are in
\* an array in a container, and their names are deferred a third time.
Noted(pdu, p) ==
  IF p.coder = "utf16z"
  THEN [pdu EXCEPT !.strings = Append(@, <<p.number, Last(pdu.got)>>)] ELSE pdu
Round(pdu) ==
  FoldLeft(LAMBDA done, p : Noted(do_coder(done, p.coder, p.target), p),
           [pdu EXCEPT !.ptrs = <<>>], pdu.ptrs)
process_deferred_pointers(pdu) ==
  FoldLeft(LAMBDA p, round : Round(p), pdu, <<1, 2, 3>>)

\* A parameter that is a reference is coded at once; one that may be null is
\* preceded by a word that says whether it is.
top_level_ref(pdu, coder, v) == process_deferred_pointers(do_coder(pdu, coder, v))
top_level_unique(pdu, coder, ptr) ==
  LET p == uint3264_coder(pdu, IF ptr = <<>> THEN 0 ELSE UPTR)
      null == IF Encodes(pdu) THEN ptr = <<>> ELSE Last(p.got) = 0
  IN IF null THEN p ELSE top_level_ref(p, coder, ptr[1])

NetrShareEnum_req_coder(pdu, req) ==
  LET name == top_level_unique(pdu, "utf16z", <<req.ServerName>>)
      ses == top_level_ref(name, "ENUM_STRUCT", req.ses)
      preferred == top_level_ref(ses, "uint32", req.PreferedMaximumLength)
  IN top_level_unique(preferred, "uint32", <<req.ResumeHandle>>)

NetrShareEnum_rep_coder(pdu, rep) ==
  LET ses == top_level_ref(pdu, "ENUM_STRUCT", rep.ses)
      total == top_level_ref(ses, "uint32", rep.total_entries)
      resume == top_level_unique(total, "uint32", rep.resume_handle)
  IN uint32_coder(resume, rep.status)

NetrShareGetInfo_req_coder(pdu, req) ==
  uint32_coder(
    top_level_ref(top_level_unique(pdu, "utf16z", <<req.ServerName>>),
                  "utf16z", req.NetName), req.Level)

NetrShareGetInfo_rep_coder(pdu, rep) ==
  uint32_coder(top_level_ref(pdu, "INFO", rep.InfoStruct), rep.status)

-----------------------------------------------------------------------------
\* The header before them: version, type, flags, representation, lengths.
header_coder(pdu, PTYPE) ==
  Words(pdu, <<<<1, 5>>, <<1, 0>>, <<1, PTYPE>>, <<1, 3>>, <<1, 16>>, <<1, 0>>,
               <<1, 0>>, <<1, 0>>, <<2, 0>>, <<2, 0>>, <<4, 2>>>>)
HeaderWords == 11

request_coder(pdu, opnum) ==
  Words(pdu, <<<<4, 0>>, <<2, pdu.tctx_id>>, <<2, opnum>>>>)

response_coder(pdu) ==
  Skip(Words(pdu, <<<<4, 0>>, <<2, pdu.tctx_id>>, <<1, 0>>>>), 1)

\* A pdu of another type than the one expected is refused.
OfType(pdu, PTYPE) == [pdu EXCEPT !.ok = @ /\ pdu.got[3] = PTYPE]
pdu_coder(pdu, PTYPE, opnum) ==
  LET header == OfType(header_coder(pdu, PTYPE), PTYPE)
  IN IF PTYPE = PDU_TYPE_RESPONSE THEN response_coder(header)
     ELSE request_coder(header, opnum)

\* A request, its lengths filled in at the end.
Filled(pdu, at, v) ==
  [pdu EXCEPT !.wire = {IF w.at = at THEN [w EXCEPT !.val = v] ELSE w : w \in @}]
WithLengths(pdu) == Filled(Filled(pdu, 8, pdu.at), 16, pdu.at - HeaderLength)
NetrShareEnum == 15
NetrShareGetInfo == 16
RequestPdu(tctx_id, opnum) ==
  pdu_coder(Pdu("DCERPC_ENCODE", tctx_id, {}), PDU_TYPE_REQUEST, opnum)
dcerpc_call(tctx_id, opnum, req) ==
  WithLengths(IF opnum = NetrShareEnum
              THEN NetrShareEnum_req_coder(RequestPdu(tctx_id, opnum), req)
              ELSE NetrShareGetInfo_req_coder(RequestPdu(tctx_id, opnum), req))

-----------------------------------------------------------------------------
\* An answer may come in several fragments; the header of each but the first
\* is taken out, up to the one that says it is the last.
dce_unfragment(buf, fragments) ==
  LET length(i) == HeaderLength + fragments[i].stub
      Append24(done, i) ==
        IF done.over THEN done
        ELSE IF Len(buf) - done.offset < HeaderLength
             THEN [done EXCEPT !.over = TRUE, !.len = Len(buf)]
        ELSE [buf |-> done.buf
                       \o SubSeq(buf, done.offset + HeaderLength + 1,
                                 done.offset + length(i)),
              offset |-> done.offset + length(i),
              len |-> done.len + length(i) - HeaderLength,
              over |-> fragments[i].last]
  IN IF fragments[1].last THEN [buf |-> buf, len |-> Len(buf)]
     ELSE FoldLeft(Append24,
                   [buf |-> SubSeq(buf, 1, length(1)), offset |-> length(1),
                    len |-> length(1), over |-> FALSE],
                   [i \in 1 .. Len(fragments) - 1 |-> i + 1])

-----------------------------------------------------------------------------
\* Both syntaxes are offered; the server accepts some.  The pipe's own name
\* is passed over.
uuid == <<<<4, 0>>, <<2, 0>>, <<2, 0>>>> \o [i \in 1 .. 8 |-> <<1, 0>>]

bind_coder(pdu, ndr) ==
  LET context(id) == <<<<2, id>>, <<1, 1>>>>
      syntaxes == uuid \o <<<<2, 0>>, <<2, 0>>>> \o uuid \o <<<<2, 0>>, <<2, 0>>>>
      one(p, id) == Words(Skip(Words(p, context(id)), 1), syntaxes)
      ids == IF ndr = 0 THEN <<0, 1>> ELSE IF ndr = 1 THEN <<0>> ELSE <<1>>
      head == Skip(Words(header_coder(pdu, PDU_TYPE_BIND),
                         <<<<2, 32768>>, <<2, 32768>>, <<4, 0>>,
                           <<1, Len(ids)>>>>), 3)
      all == FoldLeft(one, head, ids)
  IN Filled(all, 8, all.at)

Ack(pdu) == Words(pdu, <<<<2, 0>>, <<2, 0>>>> \o uuid \o <<<<4, 0>>>>)
bind_ack_coder(pdu) ==
  LET head == Words(header_coder(pdu, PDU_TYPE_BIND_ACK),
                    <<<<2, 0>>, <<2, 0>>, <<4, 0>>, <<2, 0>>>>)
      behind == AlignedTo(head.at + Last(head.got), 4)
      counted == Word([head EXCEPT !.at = behind], 1, 0)
  IN FoldLeft(LAMBDA p, i : Ack(p), Skip(counted, 3),
              [i \in 1 .. Last(counted.got) |-> i])

\* The first context the server accepted.
NoContext == 99
smb2_bind_cb(pdu, ndr) ==
  LET words == SubSeq(pdu.got, HeaderWords + 6, Len(pdu.got))
      size == Len(uuid) + 3
      accepted == {i \in 0 .. Len(words) \div size - 1 : words[i * size + 1] = 0}
  IN IF accepted = {} THEN NoContext
     ELSE IF ndr = 0 THEN CHOOSE i \in accepted : \A j \in accepted : i <= j
     ELSE IF ndr = 1 THEN 0 ELSE 1

-----------------------------------------------------------------------------
\* The answer of a server, word by word: <<alignment, width, value>>.

String(w, n) == <<<<w, w, n + 1>>, <<w, w, 0>>, <<w, w, n + 1>>,
                  <<2, 2 * (n + 1), n>>>>
Optional(w, ptr) == <<w, w, IF ptr = <<>> THEN 0 ELSE UPTR>>

ServerShares(w, level, shares) ==
  FlattenSeq([i \in DOMAIN shares |->
    IF level = 0 THEN <<Optional(w, shares[i].netname)>>
    ELSE <<Optional(w, shares[i].netname), <<4, 4, shares[i].type>>,
           Optional(w, shares[i].remark)>>])
  \o FlattenSeq([i \in DOMAIN shares |->
       FlattenSeq([k \in DOMAIN shares[i].netname |->
                     String(w, shares[i].netname[k])])
       \o (IF level = 0 THEN <<>>
           ELSE FlattenSeq([k \in DOMAIN shares[i].remark |->
                              String(w, shares[i].remark[k])]))])

ServerAnswer(w, level, buffer, shares) ==
  <<<<4, 4, level>>, <<w, w, level>>, <<w, w, UPTR>>, <<w, 4, Len(shares)>>,
    Optional(w, buffer)>>
  \o (IF buffer = <<>> THEN <<>> ELSE <<<<w, w, Len(shares)>>>>)
  \o ServerShares(w, level, shares)
  \o <<<<4, 4, Len(shares)>>, <<w, w, UPTR>>, <<4, 4, 0>>, <<4, 4, 0>>>>

\* Its strings, each under the number of its pointer: the container and the
\* array have the first two.
ServerStrings(level, shares) ==
  LET strings == FlattenSeq([i \in DOMAIN shares |->
                   shares[i].netname
                     \o (IF level = 0 THEN <<>> ELSE shares[i].remark)])
  IN [k \in DOMAIN strings |-> <<k + 2, strings[k]>>]

ServerWords(tctx_id, PTYPE, words) ==
  LET response == Skip(Words(header_coder(Pdu("DCERPC_ENCODE", tctx_id, {}), PTYPE),
                             <<<<4, 0>>, <<2, tctx_id>>, <<1, 0>>>>), 1)
  IN FoldLeft(LAMBDA p, w : Coded(p, w[1], w[2], w[3]), response, words)

ServerAck(secondary, results) ==
  LET head == Words(header_coder(Pdu("DCERPC_ENCODE", 0, {}), PDU_TYPE_BIND_ACK),
                    <<<<2, 0>>, <<2, 0>>, <<4, 0>>, <<2, secondary>>>>)
      behind == Skip(head, AlignedTo(head.at + secondary, 4) - head.at)
  IN FoldLeft(LAMBDA p, r :
                Words(p, <<<<2, r>>, <<2, 0>>>> \o uuid \o <<<<4, 0>>>>),
              Skip(Word(behind, 1, Len(results)), 3), results)

-----------------------------------------------------------------------------
\* What was written is what is read, to the last word.
Reads(written, read) ==
  /\ read.ok /\ read.at = written.at /\ read.ptrs = <<>>
  /\ SubSeq(read.got, HeaderWords + 4, Len(read.got))
       = SubSeq(written.got, HeaderWords + 4, Len(written.got))

Shares ==
  [netname : {<<n>> : n \in Strings}, type : {1},
   remark : {<<>>} \cup {<<n>> : n \in Strings}]
ShareLists == {<<>>} \cup {<<s>> : s \in Shares}
                \cup {<<s, t>> : s \in Shares, t \in Shares}
Fragmentations == UNION {[1 .. k -> 0 .. 3] : k \in 1 .. 3}

Received(tctx_id, PTYPE, wire) ==
  pdu_coder(Pdu("DCERPC_DECODE", tctx_id, wire), PTYPE, 0)

\* A decoder is given nothing to write.
Nothing == 0

\* A server's answer is read as it was written, in either syntax and at either
\* level, with remarks and without.
AnswerRead(answer, read, strings) ==
  Reads(answer, read) /\ read.strings = strings
ListRead(tctx, level, buffer, shares) ==
  LET answer == ServerWords(tctx, PDU_TYPE_RESPONSE,
                  ServerAnswer(IF tctx = 0 THEN 4 ELSE 8, level, buffer, shares))
      read == NetrShareEnum_rep_coder(
                Received(tctx, PDU_TYPE_RESPONSE, answer.wire), Nothing)
  IN AnswerRead(answer, read, ServerStrings(level, shares))

\* A request says what its caller said.
RequestRead(tctx, opnum, call) ==
  LET received == Received(tctx, PDU_TYPE_REQUEST, call.wire)
  IN Reads(call, IF opnum = NetrShareEnum
                 THEN NetrShareEnum_req_coder(received, Nothing)
                 ELSE NetrShareGetInfo_req_coder(received, Nothing))
CallRead(tctx, opnum, req) == RequestRead(tctx, opnum, dcerpc_call(tctx, opnum, req))
EnumCall(level, server) ==
  [ServerName |-> server, PreferedMaximumLength |-> 7, ResumeHandle |-> 0,
   ses |-> [Level |-> level, Container |-> [EntriesRead |-> 0, Buffer |-> <<>>]]]
GetInfoCall(level, server, name) ==
  [ServerName |-> server, NetName |-> name, Level |-> level]
ClientCalls ==
  {<<NetrShareEnum, EnumCall(level, server)>> : level \in {0, 1}, server \in Strings}
  \cup {<<NetrShareGetInfo, GetInfoCall(level, server, name)>> :
         level \in {0, 1}, server \in Strings, name \in Strings}
ToldRead(tctx, told) ==
  Reads(told, NetrShareGetInfo_rep_coder(
                Received(tctx, PDU_TYPE_RESPONSE, told.wire), Nothing))
InfoRead(tctx, level, share) ==
  ToldRead(tctx, NetrShareGetInfo_rep_coder(
    pdu_coder(Pdu("DCERPC_ENCODE", tctx, {}), PDU_TYPE_RESPONSE, 0),
    [InfoStruct |-> [level |-> level, ShareInfo1 |-> share], status |-> 0]))

\* Fragments become the answer they are parts of.
FragmentsJoin(stubs) ==
  LET n == Len(stubs)
      header == [i \in 1 .. HeaderLength |-> 0]
      stub(i) == [k \in 1 .. stubs[i] |-> 10 * i + k]
      whole == dce_unfragment(
                 FlattenSeq([i \in 1 .. n |-> header \o stub(i)]),
                 [i \in 1 .. n |-> [stub |-> stubs[i], last |-> i = n]])
  IN SubSeq(whole.buf, 1, whole.len)
       = header \o FlattenSeq([i \in 1 .. n |-> stub(i)])

\* The syntax spoken is the first the server accepted of those offered.
SyntaxAccepted(ndr, results, spoken) ==
  /\ spoken = NoContext <=> \A i \in DOMAIN results : results[i] > 0
  /\ ndr = 0 /\ spoken # NoContext => results[spoken + 1] = 0
AckRead(ndr, results, ack, read) ==
  Reads(ack, read) /\ SyntaxAccepted(ndr, results, smb2_bind_cb(read, ndr))
BindAgrees(ndr, secondary, offered) ==
  /\ bind_coder(Pdu("DCERPC_ENCODE", 0, {}), ndr).at = 28 + 44 * offered
  /\ \A results \in [1 .. offered -> 0 .. 2] :
       LET ack == ServerAck(secondary, results)
       IN AckRead(ndr, results, ack,
                  bind_ack_coder(Pdu("DCERPC_DECODE", 0, ack.wire)))

\* The shares a server lists are the shares the client is told of, however the
\* answer comes, in the syntax the server accepted.
SharesArrive ==
  /\ \A tctx \in {0, 1}, level \in {0, 1}, shares \in ShareLists :
     \A buffer \in {<<0>>} \cup (IF shares = <<>> THEN {<<>>} ELSE {}) :
       ListRead(tctx, level, buffer, shares)
  /\ \A tctx \in {0, 1}, call \in ClientCalls : CallRead(tctx, call[1], call[2])
  /\ \A tctx \in {0, 1}, level \in {0, 1}, share \in Shares :
       InfoRead(tctx, level, share)
  /\ \A stubs \in Fragmentations : FragmentsJoin(stubs)
  /\ \A ndr \in 0 .. 2, secondary \in 0 .. 13 :
       BindAgrees(ndr, secondary, IF ndr = 0 THEN 2 ELSE 1)
=============================================================================
