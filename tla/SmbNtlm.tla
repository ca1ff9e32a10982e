------------------------------ MODULE SmbNtlm ------------------------------
(***************************************************************************)
(* The three messages of NTLMSSP, on both sides, and the envelopes they    *)
(* travel in.  A name or a password is its length in characters, 0 when    *)
(* there is none; in a message it takes two bytes a character.  A hash is  *)
(* the tuple of what goes into it.                                         *)
(***************************************************************************)
EXTENDS SmbSpnego, SmbWire

CONSTANTS
  Texts,             \* lengths of names and passwords
  Tokens             \* lengths of tokens put into an envelope

ASSUME NtlmAssumption == 0 \in Texts /\ Texts \subseteq Nat /\ Tokens \subseteq Nat

NEGOTIATE_MESSAGE == 1
CHALLENGE_MESSAGE == 2
AUTHENTICATION_MESSAGE == 3

\* A message: its type, what the fields at their positions say of the
\* payloads, the payloads, its length.
Ntlm(type, says, holds, sent) ==
  [type |-> type, says |-> says, holds |-> holds, sent |-> sent]
Payload(part, content) == [part |-> part, content |-> content]

\* The payload a field points to.
Field(m, position) ==
  LET found == {h \in m.holds : h.part = m.says[position]}
  IN IF m.says[position].len = 0 \/ found = {} THEN 0
     ELSE (CHOOSE h \in found : TRUE).content

-----------------------------------------------------------------------------
encode_ntlm_negotiate_message ==
  Ntlm(NEGOTIATE_MESSAGE, <<>>, {}, 32)

\* Attributes of the target information; the list ends with one of code 0.
Attr(code, len) == [code |-> code, len |-> len]
MsvAvTargetName == 9
AttrsLength(attrs) == FoldLeft(LAMBDA n, a : n + 4 + a.len, 0, attrs)

\* The server's name is its target, and appears in three attributes, an empty
\* one as well.
encode_ntlm_challenge(workstation) ==
  LET n == 2 * workstation
      attrs == <<Attr(2, n), Attr(1, n), Attr(4, 0), Attr(3, n), Attr(7, 8),
                 Attr(0, 0)>>
      target == Part(56, n)
      info == Part(56 + n, AttrsLength(attrs))
  IN Ntlm(CHALLENGE_MESSAGE, 12 :> target @@ 40 :> info,
          {Payload(target, workstation), Payload(info, attrs)},
          info.at + info.len)

\* The client copies the challenge into a buffer with some room to spare and
\* adds the name of the share's server to the target information.  What it
\* copies is compared with the buffer, and fits; the name is not compared.
Room(m) == m.sent + 400
ServiceName(server) == 2 * (5 + server)             \* cifs/<server>
WithTargetNameLast(attrs, spn) == Append(attrs, Attr(MsvAvTargetName, spn)) \* mutant
WithTargetName(attrs, spn) ==
  FlattenSeq([i \in DOMAIN attrs |->
                IF attrs[i].code = 0
                THEN <<Attr(MsvAvTargetName, spn), attrs[i]>>
                ELSE <<attrs[i]>>])

ntlm_decode_challenge_message(m, spn) ==
  LET name == m.says[12]
      copied == /\ name.len > 0 /\ name.len < m.sent
                /\ 56 + name.len < Room(m)
      target == Part(56, name.len)
      attrs == WithTargetName(Field(m, 40), spn)
      info == Part(56 + (IF copied THEN name.len ELSE 0), AttrsLength(attrs))
  IN Ntlm(m.type, 12 :> target @@ 40 :> info,
          {Payload(info, attrs)}
            \cup (IF copied THEN {Payload(target, Field(m, 12))} ELSE {}),
          info.at + info.len)

-----------------------------------------------------------------------------
NTOWFv2(user, password, domain) == <<user, password, domain>>
Proof(key, temp) == <<key, temp>>

\* The answer proves the password over the target information; its payloads
\* follow the 72 bytes of fields, each behind the other.
encode_ntlm_auth(c, user, password, domain, workstation) ==
  LET info == c.says[40]
      temp == Field(c, 40)
      d == Part(72, 2 * domain)
      u == Part(d.at + d.len, 2 * user)
      w == Part(u.at + u.len, 2 * workstation)
      r == Part(w.at + w.len, 48 + info.len)
      none == Part(0, 0)
  IN IF password = 0
     THEN Ntlm(AUTHENTICATION_MESSAGE,
               20 :> none @@ 28 :> none @@ 36 :> none @@ 44 :> none, {}, 72)
     ELSE Ntlm(AUTHENTICATION_MESSAGE,
               20 :> r @@ 28 :> d @@ 36 :> u @@ 44 :> w,
               {Payload(d, domain), Payload(u, user), Payload(w, workstation),
                Payload(r, <<Proof(NTOWFv2(user, password, domain), temp),
                             temp>>)},
               r.at + r.len)

\* A client with neither a user nor a domain of its own: it needs a user, and
\* takes the name of the server for the domain.
Answerable(c, user, password) ==
  password > 0 => /\ user > 0
                  /\ c.says[40].at < c.sent
                  /\ c.says[40].at + c.says[40].len <= c.sent
DomainOf(c, domain) == IF domain = 0 THEN Field(c, 12) ELSE domain

\* The server computes the proof from the fields and its own password.
ntlmssp_authenticate_blob(m, password, allow_anonymous) ==
  LET user == Field(m, 36)
      domain == Field(m, 28)
      r == m.says[20]
      response == Field(m, 20)
  IN /\ password = 0 => allow_anonymous
     /\ IF user = 0 \/ password = 0 THEN allow_anonymous
        ELSE /\ r.len > 0 /\ r.at > 0 /\ r.at <= m.sent
             /\ r.len - 16 > 36
             /\ response[1] =
                  Proof(NTOWFv2(user, password, domain), response[2])

\* A message gets through in an envelope or without one.
get_message_type(blob, token) == Len(token) >= 12 /\ Finds(blob, token)

-----------------------------------------------------------------------------
\* Whatever the names, one of the other side's longer than one's own, empty or
\* missing, as long as the challenge with the added one fits its buffer (a
\* server's of up to 193 characters does): the server is shown the user, domain
\* and workstation of the client, it accepts exactly the right password, and no
\* attribute of its challenge is lost on the way.
LoginWorks ==
  \A user \in Texts \ {0}, domain, workstation, server, share \in Texts :
    LET challenge == encode_ntlm_challenge(server)
        known == ntlm_decode_challenge_message(challenge, ServiceName(share))
        own == DomainOf(known, domain)
        sent == Field(challenge, 40)
        kept == Field(known, 40)
    IN known.sent <= Room(challenge) =>
       /\ SelectSeq(kept, LAMBDA a : a.code # MsvAvTargetName) = sent
       /\ kept[Len(kept)].code = 0
       /\ Len(SelectSeq(kept, LAMBDA a : a.code = MsvAvTargetName)) = 1
       /\ \A password \in Texts \ {0} :
            LET auth == encode_ntlm_auth(known, user, password, own, workstation)
            IN /\ Answerable(known, user, password)
               /\ Field(auth, 36) = user
               /\ Field(auth, 28) = own
               /\ Field(auth, 44) = workstation
               /\ \A right \in Texts :
                    ntlmssp_authenticate_blob(auth, right, FALSE)
                      <=> right = password

\* Every token comes out of its envelope as it went in, whatever number of
\* bytes its lengths take.  What a server of libsmb2 says at the end, and its
\* list of mechanisms, are too short for the minimum its client asks for.
TokensArrive ==
  /\ \A n \in Tokens :
       LET token == Token(n) IN
       n >= 12 => /\ get_message_type(token, token)
                  /\ get_message_type(wrap_gssapi(token), token)
                  /\ get_message_type(wrap_ntlmssp_challenge(token), token)
                  /\ get_message_type(wrap_ntlmssp_auth(token), token)
  /\ \A ok \in BOOLEAN : ~unwrap_blob(wrap_authenticate_result(ok)).ok
  /\ \A krb5, ntlmssp \in BOOLEAN :
       LET found == unwrap_blob(create_negotiate_reply_blob(krb5, ntlmssp))
       IN /\ found.ok <=> krb5 /\ ntlmssp
          /\ found.ok => found.mechs = {"krb5", "ntlmssp"}
=============================================================================
