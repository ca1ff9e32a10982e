------------------------------ MODULE SmbAsn1 ------------------------------
(***************************************************************************)
(* The part of asn1-ber.c that security blobs are made with and read by.   *)
(* A blob is a sequence of bytes; `at` counts the bytes already read.  The *)
(* buffers of the encoder are taken to be long enough, as their callers    *)
(* make them.                                                              *)
(***************************************************************************)
EXTENDS Naturals, SequencesExt

asnOCTET_STRING == 4
BER_OBJECT_ID == 6
asnENUMERATED == 10
asnSTRUCT == 48
asnCONSTRUCTOR_APPLICATION == 96
ASN1_CONTEXT(n) == 160 + n
BER_MAX_OID_ELEMENTS == 32
\* The types uint32_from_ber reads.
Unsigned == {1, 64, 65, 66, 67, 69, 71, asnENUMERATED}

-----------------------------------------------------------------------------
\* Lengths from 128 on are preceded by the number of their bytes.
BigEndian(n, bytes) == [i \in 1 .. bytes |-> (n \div 256 ^ (bytes - i)) % 256]
BytesNeeded(n) ==
  CHOOSE k \in 1 .. 4 : n < 256 ^ k /\ (k > 1 => n >= 256 ^ (k - 1))

ber_from_length(n) ==
  IF n < 128 THEN <<n>>
  ELSE <<128 + BytesNeeded(n)>> \o BigEndian(n, BytesNeeded(n))

ber_from_typelen(type, n) == <<type>> \o ber_from_length(n)
ber_from_bytes(type, bytes) == ber_from_typelen(type, Len(bytes)) \o bytes

\* Room for a length is reserved before the contents are written; the room
\* not needed is closed afterwards.
reserve_length(reserved) == [i \in 1 .. reserved |-> 0]

annotate_length(out, pos, reserved) ==
  SubSeq(out, 1, pos)
    \o ber_from_length(Len(out) - pos - reserved)
    \o SubSeq(out, pos + reserved + 1, Len(out))

Wrapped(type, reserved, contents) ==
  annotate_length(<<type>> \o reserve_length(reserved) \o contents, 1, reserved)

\* An element of an object id: seven bits a byte, all but the last marked.
ber_from_single_oid(n) ==
  LET Seven(k) == (n \div 128 ^ k) % 128
      top == CHOOSE k \in 0 .. 3 :
               /\ k > 0 => n >= 128 ^ k
               /\ k < 3 => n < 128 ^ (k + 1)
  IN [i \in 1 .. top + 1 |->
        Seven(top + 1 - i) + (IF i <= top THEN 128 ELSE 0)]

ber_from_oid(oid) ==
  Wrapped(BER_OBJECT_ID, 1,
    FlattenSeq(
      IF Len(oid) > 1 /\ oid[1] < 40
      THEN <<ber_from_single_oid(oid[1] * 40 + oid[2])>>
             \o [i \in 1 .. Len(oid) - 2 |-> ber_from_single_oid(oid[i + 2])]
      ELSE [i \in 1 .. Len(oid) |-> ber_from_single_oid(oid[i])]))

-----------------------------------------------------------------------------
\* What reading gives: a value and how far it got.
Failed == [ok |-> FALSE, at |-> 0, type |-> 0, val |-> 0]
Got(at, type, val) == [ok |-> TRUE, at |-> at, type |-> type, val |-> val]

HasByte(src, at) == at < Len(src)
next_byte(src, at) == src[at + 1]

Unsigned32(bytes) == FoldLeft(LAMBDA v, x : v * 256 + x, 0, bytes)

LongLength(src, at, n) ==
  IF n > 4 \/ at + n > Len(src) THEN Failed
  ELSE Got(at + n, 0, Unsigned32(SubSeq(src, at + 1, at + n)))

length_from_ber(src, at) ==
  IF ~HasByte(src, at) THEN Failed
  ELSE IF next_byte(src, at) < 128 THEN Got(at + 1, 0, next_byte(src, at))
  ELSE LongLength(src, at + 1, next_byte(src, at) - 128)

typecode_from_ber(src, at) ==
  IF ~HasByte(src, at) THEN Failed
  ELSE IF next_byte(src, at) % 32 # 31
       THEN Got(at + 1, next_byte(src, at), 0)
  ELSE IF ~HasByte(src, at + 1) THEN Failed
  ELSE LET b == next_byte(src, at + 1)
       IN Got(at + 2, IF b >= 48 THEN b - 48 ELSE b, 0)

Measured(code, length) ==
  IF code.ok /\ length.ok THEN Got(length.at, code.type, length.val) ELSE Failed
typelen_from_ber(src, at) ==
  LET code == typecode_from_ber(src, at)
  IN Measured(code, length_from_ber(src, code.at))

UnsignedOf(src, at, type, n) ==
  IF type \in Unsigned /\ n \in 1 .. 4 /\ at + n <= Len(src)
  THEN Got(at + n, type, Unsigned32(SubSeq(src, at + 1, at + n)))
  ELSE Failed
uint32_from_ber(src, at) ==
  IF at + 2 > Len(src) THEN Failed
  ELSE UnsignedOf(src, at + 2, next_byte(src, at), next_byte(src, at + 1))

\* The first byte holds two elements; a last byte that is marked ends its
\* element all the same.
OidElement(done, b) ==
  IF b < 128
  THEN [oid |-> Append(done.oid, done.n * 128 + b), n |-> 0, open |-> FALSE]
  ELSE [oid |-> done.oid, n |-> done.n * 128 + b - 128, open |-> TRUE]
OidClosed(end) == IF end.open THEN Append(end.oid, end.n) ELSE end.oid
OidOf(body) ==
  OidClosed(FoldLeft(OidElement,
                     [oid |-> <<body[1] \div 40, body[1] % 40>>,
                      n |-> 0, open |-> FALSE], Tail(body)))

OidFits(end, oid) ==
  IF Len(oid) > BER_MAX_OID_ELEMENTS THEN Failed
  ELSE Got(end, BER_OBJECT_ID, oid)
OidBehind(src, length) ==
  IF \/ ~length.ok
     \/ length.val \notin 1 .. BER_MAX_OID_ELEMENTS
     \/ length.at + length.val > Len(src)
  THEN Failed
  ELSE OidFits(length.at + length.val,
               OidOf(SubSeq(src, length.at + 1, length.at + length.val)))

oid_from_ber(src, at) ==
  IF HasByte(src, at) /\ next_byte(src, at) = BER_OBJECT_ID
  THEN OidBehind(src, length_from_ber(src, at + 1)) ELSE Failed
=============================================================================
