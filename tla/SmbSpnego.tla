----------------------------- MODULE SmbSpnego -----------------------------
(***************************************************************************)
(* The envelopes of an authentication: what spnego-wrapper.c puts around a *)
(* token of NTLMSSP and how it finds the token again.                      *)
(***************************************************************************)
EXTENDS SmbAsn1

oid_gss_mech_spnego == <<1, 3, 6, 1, 5, 5, 2>>
oid_spnego_mech_krb5 == <<1, 2, 840, 113554, 1, 2, 2>>
oid_spnego_mech_ms_krb5 == <<1, 2, 840, 48018, 1, 2, 2>>
oid_spnego_mech_ntlmssp == <<1, 3, 6, 1, 4, 1, 311, 2, 2, 10>>

\* NTLMSSP_SIGNATURE stands for the bytes every token begins with.
NTLMSSP_SIGNATURE == 78
Token(n) == [i \in 1 .. n |-> IF i = 1 THEN NTLMSSP_SIGNATURE ELSE 0]

-----------------------------------------------------------------------------
MechTypes(oids) == Wrapped(ASN1_CONTEXT(0), 5, Wrapped(asnSTRUCT, 5, oids))

create_negotiate_reply_blob(krb5, allow_ntlmssp) ==
  LET oids ==
        (IF krb5 THEN ber_from_oid(oid_spnego_mech_krb5) ELSE <<>>)
        \o (IF allow_ntlmssp THEN ber_from_oid(oid_spnego_mech_ntlmssp)
            ELSE <<>>)
  IN Wrapped(asnCONSTRUCTOR_APPLICATION, 5,
       ber_from_oid(oid_gss_mech_spnego)
       \o Wrapped(ASN1_CONTEXT(0), 5, Wrapped(asnSTRUCT, 5, MechTypes(oids))))

ResponseToken(token) ==
  Wrapped(ASN1_CONTEXT(2), 5, Wrapped(asnOCTET_STRING, 5, token))

NegResult(code) ==
  Wrapped(ASN1_CONTEXT(0), 1, ber_from_bytes(asnENUMERATED, <<code>>))

TargToken(contents) ==
  Wrapped(ASN1_CONTEXT(1), 5, Wrapped(asnSTRUCT, 5, contents))

\* What a client opens with; it always has a token.
wrap_gssapi(token) ==
  Wrapped(asnCONSTRUCTOR_APPLICATION, 5,
    ber_from_oid(oid_gss_mech_spnego)
    \o Wrapped(ASN1_CONTEXT(0), 5,
         Wrapped(asnSTRUCT, 5,
           MechTypes(ber_from_oid(oid_spnego_mech_ntlmssp))
           \o ResponseToken(token))))

wrap_ntlmssp_challenge(token) ==
  TargToken(NegResult(1)
            \o Wrapped(ASN1_CONTEXT(1), 1, ber_from_oid(oid_spnego_mech_ntlmssp))
            \o ResponseToken(token))

wrap_ntlmssp_auth(token) == TargToken(ResponseToken(token))

wrap_authenticate_result(ok) == TargToken(NegResult(IF ok THEN 0 ELSE 3))

-----------------------------------------------------------------------------
\* A token found: where it begins and how long it is said to be.
NoBlob == [ok |-> FALSE, at |-> 0, len |-> 0, mechs |-> {}]
Found(at, len, mechs) == [ok |-> TRUE, at |-> at, len |-> len, mechs |-> mechs]

Requires(header, type, minimum) ==
  header.ok /\ header.type = type /\ header.val >= minimum

\* Where an element of an answer ends; of an element that is not expected
\* only the header is passed over.
ElementEnd(src, header) ==
  CASE ~header.ok -> Failed
    [] header.ok /\ header.type = ASN1_CONTEXT(0) ->
         uint32_from_ber(src, header.at)
    [] header.ok /\ header.type = ASN1_CONTEXT(1) -> oid_from_ber(src, header.at)
    [] OTHER -> header

TokenIn(octets) ==
  IF Requires(octets, asnOCTET_STRING, 8) THEN Found(octets.at, octets.val, {})
  ELSE NoBlob

\* The elements are gone through until there is a token.
Elements(src, from, end) ==
  LET Element[at \in 0 .. Len(src)] ==
        LET header == typelen_from_ber(src, at)
            next == ElementEnd(src, header)
        IN IF end <= at + 2 THEN Found(at, 0, {})
           ELSE IF header.ok /\ header.type = ASN1_CONTEXT(2)
                THEN TokenIn(typelen_from_ber(src, header.at))
           ELSE IF next.ok THEN Element[next.at] ELSE NoBlob
  IN Element[from]

Mechanism(oid) ==
  IF oid \in {oid_spnego_mech_krb5, oid_spnego_mech_ms_krb5} THEN {"krb5"}
  ELSE IF oid = oid_spnego_mech_ntlmssp THEN {"ntlmssp"} ELSE {}

\* One header inside the other, each of a type and a least length.
Enter(src, got, level) ==
  LET header == typelen_from_ber(src, got.at)
  IN IF got.ok /\ Requires(header, level[1], level[2]) THEN header ELSE Failed
Descend(src, at, levels) ==
  FoldLeft(LAMBDA got, level : Enter(src, got, level), Got(at, 0, 0), levels)

InAnswer(src, inner) ==
  IF inner.ok THEN Elements(src, inner.at, inner.at + inner.val) ELSE NoBlob
unwrap_targ(src) ==
  InAnswer(src, Descend(src, 0, <<<<ASN1_CONTEXT(1), 14>>, <<asnSTRUCT, 12>>>>))

\* The mechanisms listed before `end`, and where they end.
Mechanisms(src, from, end) ==
  LET Rest[at \in 0 .. Len(src)] ==
        LET mech == oid_from_ber(src, at)
        IN IF at >= end THEN Found(at, 0, {})
           ELSE IF ~mech.ok THEN NoBlob
           ELSE [Rest[mech.at] EXCEPT !.mechs = @ \cup Mechanism(mech.val)]
  IN Rest[from]

Octets(src, mechs, octets) ==
  IF ~mechs.ok THEN NoBlob
  ELSE IF ~HasByte(src, mechs.at)
          \/ next_byte(src, mechs.at) # ASN1_CONTEXT(2)
       THEN mechs
  ELSE IF octets.ok THEN Found(octets.at, octets.val, mechs.mechs)
  ELSE NoBlob

TokenBehind(src, mechs) ==
  Octets(src, mechs, Descend(src, mechs.at, <<<<ASN1_CONTEXT(2), 10>>,
                                              <<asnOCTET_STRING, 7>>>>))

Offered(src, oid, list) ==
  IF oid.ok /\ oid.val = oid_gss_mech_spnego /\ list.ok
  THEN TokenBehind(src, Mechanisms(src, list.at, list.at + list.val)) ELSE NoBlob

InContext(src, oid) ==
  Offered(src, oid, Descend(src, oid.at, <<<<ASN1_CONTEXT(0), 10>>,
                                           <<asnSTRUCT, 8>>,
                                           <<ASN1_CONTEXT(0), 10>>,
                                           <<asnSTRUCT, 8>>>>))

unwrap_gssapi(src) ==
  LET outer == Descend(src, 0, <<<<asnCONSTRUCTOR_APPLICATION, 32>>>>)
  IN IF outer.ok THEN InContext(src, oid_from_ber(src, outer.at)) ELSE NoBlob

\* A token may also come without an envelope.
unwrap_blob(src) ==
  IF Len(src) < 7 THEN NoBlob
  ELSE IF src[1] = NTLMSSP_SIGNATURE THEN Found(0, Len(src), {})
  ELSE IF src[1] = asnCONSTRUCTOR_APPLICATION THEN unwrap_gssapi(src)
  ELSE IF src[1] \in {ASN1_CONTEXT(n) : n \in 0 .. 2} THEN unwrap_targ(src)
  ELSE NoBlob

\* The token is found where it was put.
Holds(blob, found, token) ==
  /\ found.ok /\ found.len = Len(token)
  /\ SubSeq(blob, found.at + 1, found.at + found.len) = token
Finds(blob, token) == Holds(blob, unwrap_blob(blob), token)
=============================================================================
