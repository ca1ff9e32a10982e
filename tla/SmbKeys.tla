------------------------------ MODULE SmbKeys ------------------------------
(***************************************************************************)
(* The opening of a session and its keys: a client of libsmb2 and the      *)
(* server it meets, libsmb2's own or another.  A password is a number, 0   *)
(* for none; a key is the tuple of what it is derived from, <<>> while it  *)
(* is all zeros; the hash of what was said is the sequence of it.          *)
(***************************************************************************)
EXTENDS Naturals, Sequences

CONSTANT Secrets             \* passwords, 0 among them

SMB2_VERSION_0202 == 514
SMB2_VERSION_0210 == 528
SMB2_VERSION_0300 == 768
SMB2_VERSION_0302 == 770
SMB2_VERSION_0311 == 785
Smb2Dialects == {SMB2_VERSION_0202, SMB2_VERSION_0210}
Smb3Dialects == {SMB2_VERSION_0300, SMB2_VERSION_0302, SMB2_VERSION_0311}

\* A version is the set of dialects it stands for.
Versions == {Smb2Dialects, Smb3Dialects, Smb2Dialects \cup Smb3Dialects}
              \cup {{d} : d \in Smb2Dialects \cup Smb3Dialects}

CanEncrypt(version) == version \cap Smb3Dialects # {}
Highest(dialects) == CHOOSE d \in dialects : \A e \in dialects : e <= d

-----------------------------------------------------------------------------
\* The context of one side.
ZeroKey == <<>>
NoKeys == [signing |-> ZeroKey, serverin |-> ZeroKey, serverout |-> ZeroKey]

smb2_derive_key(key, label, context) == <<key, label, context>>

smb2_create_signing_key(x) ==
  CASE x.dialect \in Smb2Dialects ->
         [x.keys EXCEPT !.signing = x.session_key]
    [] x.dialect \in Smb3Dialects \ {SMB2_VERSION_0311} ->
         [signing   |-> smb2_derive_key(x.session_key, "SMB2AESCMAC", "SmbSign"),
          serverin  |-> smb2_derive_key(x.session_key, "SMB2AESCCM", "ServerIn"),
          serverout |-> smb2_derive_key(x.session_key, "SMB2AESCCM", "ServerOut")]
    [] x.dialect = SMB2_VERSION_0311 ->
         [signing   |-> smb2_derive_key(x.session_key, "SMBSigningKey",
                                        x.preauthhash),
          serverin  |-> smb2_derive_key(x.session_key, "SMBC2SCipherKey",
                                        x.preauthhash),
          serverout |-> smb2_derive_key(x.session_key, "SMBS2CCipherKey",
                                        x.preauthhash)]

\* What was said, signed and sealed with which key.
Said(command, reply, status, says) ==
  [command |-> command, reply |-> reply, status |-> status, says |-> says,
   signature |-> <<>>, sealed |-> <<>>]

smb2_calc_signature(x) ==
  IF x.dialect > SMB2_VERSION_0210 THEN <<"aes_cmac", x.keys.signing>>
  ELSE <<"hmac", x.keys.signing>>

\* Before the end of the session setup there is nothing to sign with.
Signable(x, m) ==
  /\ m.command = "SESSION_SETUP" => m.reply /\ m.status = "SUCCESS"
  /\ x.session_id /\ x.keyed
smb2_pdu_add_signature(x, m) ==
  IF Signable(x, m) THEN [m EXCEPT !.signature = smb2_calc_signature(x)] ELSE m

smb3_encrypt_pdu(x, m) ==
  IF x.seal /\ m.command \notin {"NEGOTIATE", "SESSION_SETUP"}
  THEN [m EXCEPT !.sealed = <<x.keys[x.seals_with]>>] ELSE m

smb2_queue_pdu(x, m) ==
  smb3_encrypt_pdu(x,
    IF x.sign \/ (m.command = "TREE_CONNECT" /\ ~x.seal
                  /\ x.dialect = SMB2_VERSION_0311)
    THEN smb2_pdu_add_signature(x, m) ELSE m)

\* Whether a side takes a message: it can open it, and a signature it looks at
\* is the one it computes.  No other server opens what is sealed before SMB 3.
Opens(x, m) ==
  m.sealed # <<>> => /\ m.sealed = <<x.keys[x.opens_with]>>
                     /\ x.own \/ x.dialect \in Smb3Dialects
Takes(x, m) ==
  /\ Opens(x, m)
  /\ x.sign /\ m.signature # <<>> => m.signature = smb2_calc_signature(x)

smb3_update_preauth_hash(x, m) == [x EXCEPT !.preauthhash = Append(@, m)]

\* What a side says next, and what it says that goes into the hash.
Says(x, m) == [x EXCEPT !.says = smb2_queue_pdu(x, m)]
Hashed(x, m) == smb3_update_preauth_hash(Says(x, m), smb2_queue_pdu(x, m))

smb2_close_context(x) == [x EXCEPT !.up = FALSE]

-----------------------------------------------------------------------------
\* The client asks for its dialects.
connect_cb(c) ==
  Hashed([c EXCEPT !.preauthhash = <<>>],
         Said("NEGOTIATE", FALSE, "SUCCESS",
              [dialects |-> c.version, required |-> c.required,
               encryption |-> CanEncrypt(c.version)]))

\* The server takes the highest dialect both have, and signs when the client
\* requires it, or the dialect does and a password can be expected.
WillSign(s, m, dialect) ==
  \/ m.says.required
  \/ /\ ~s.allow_anonymous \/ s.password # 0
     /\ dialect = SMB2_VERSION_0210 \/ dialect >= SMB2_VERSION_0311

NegotiateReply(s) ==
  Said("NEGOTIATE", TRUE, "SUCCESS",
       [dialect |-> s.dialect, enabled |-> s.signing_enabled,
        required |-> s.sign, encryption |-> CanEncrypt(s.version)])

smb2_negotiate_request_cb(s, m) ==
  LET common == s.version \cap m.says.dialects
      dialect == Highest(common)
      will_sign == WillSign(s, m, dialect)
      n == [s EXCEPT !.dialect = dialect, !.preauthhash = <<m>>,
                     !.sign = will_sign /\ ~s.seal]
  IN IF \/ common = {}
        \/ /\ s.seal /\ dialect \in {SMB2_VERSION_0300, SMB2_VERSION_0302}
           /\ ~m.says.encryption
        \/ n.sign /\ ~s.signing_enabled
     THEN smb2_close_context(s)
     ELSE Hashed(n, NegotiateReply(n))

-----------------------------------------------------------------------------
\* An attempt of the client: what it opens with, then its answer to the
\* challenge, which leaves it with a session key.
NEGOTIATE_MESSAGE == [type |-> "negotiate", password |-> 0]
AUTHENTICATION_MESSAGE(password) == [type |-> "auth", password |-> password]
Exported(password) == IF password = 0 THEN ZeroKey ELSE <<password>>

send_session_setup_request(c, token) ==
  Hashed(c, Said("SESSION_SETUP", FALSE, "SUCCESS", token))

negotiate_cb(c, m) ==
  LET h == smb3_update_preauth_hash(c, m)
      dialect == m.says.dialect
  IN IF \/ /\ c.seal /\ dialect \in {SMB2_VERSION_0300, SMB2_VERSION_0302}
           /\ ~m.says.encryption
        \/ c.sign /\ ~m.says.enabled
     THEN smb2_close_context(h)
     ELSE send_session_setup_request(
            [h EXCEPT !.dialect = dialect,
                      !.sign = (c.sign \/ m.says.required) /\ ~c.seal],
            NEGOTIATE_MESSAGE)

\* The server answers with a challenge, then with its verdict; it derives its
\* keys before the verdict is hashed.
SessionSetupReply(s, status) ==
  Said("SESSION_SETUP", TRUE, status, [encrypt |-> s.seal /\ ~s.own])
smb2_session_setup_request_cb(s, m) ==
  LET h == smb3_update_preauth_hash(s, m)
      anonymous == m.says.password = 0 \/ s.password = 0
      authenticated == IF anonymous THEN s.allow_anonymous
                       ELSE m.says.password = s.password
      k == [h EXCEPT !.session_key = IF authenticated /\ ~anonymous
                                     THEN Exported(s.password) ELSE ZeroKey,
                     !.keyed = TRUE]
  IN IF m.says.type = "negotiate"
     THEN Hashed([h EXCEPT !.session_id = TRUE],
                 SessionSetupReply(s, "MORE_PROCESSING"))
     ELSE Hashed(IF k.sign \/ ~k.own
                 THEN [k EXCEPT !.keys = smb2_create_signing_key(k)] ELSE k,
                 SessionSetupReply(s, IF authenticated THEN "SUCCESS"
                                      ELSE "LOGON_FAILURE"))

TreeConnect(reply) == Said("TREE_CONNECT", reply, "SUCCESS", {})

\* The verdict is the first message that may be signed, with a key that is
\* derived from all that was said before it.
session_setup_done(c, m) ==
  LET e == IF m.says.encrypt THEN [c EXCEPT !.seal = TRUE, !.sign = FALSE] ELSE c
      x == [e EXCEPT !.session_key = Exported(c.password), !.keyed = TRUE]
      k == [x EXCEPT !.keys = smb2_create_signing_key(x)]
  IN IF ~(e.sign \/ e.seal \/ e.dialect = SMB2_VERSION_0311)
     THEN Says(e, TreeConnect(FALSE))
     ELSE IF \/ e.sign /\ x.session_key = ZeroKey
             \/ m.signature # <<>> /\ m.signature # smb2_calc_signature(k)
          THEN smb2_close_context(k)
     ELSE Says(k, TreeConnect(FALSE))

\* Mutant of the next: the verdict is hashed like the messages before it.
session_setup_cb_hashes(c, m) ==
  LET n == smb3_update_preauth_hash([c EXCEPT !.session_id = TRUE], m)
  IN IF m.status = "MORE_PROCESSING"
     THEN send_session_setup_request(n, AUTHENTICATION_MESSAGE(c.password))
     ELSE IF m.status # "SUCCESS" THEN smb2_close_context(n)
     ELSE session_setup_done(n, m)

session_setup_cb(c, m) ==
  LET n == [c EXCEPT !.session_id = TRUE]
  IN IF m.status = "MORE_PROCESSING"
     THEN send_session_setup_request(smb3_update_preauth_hash(n, m),
                                     AUTHENTICATION_MESSAGE(c.password))
     ELSE IF m.status # "SUCCESS" THEN smb2_close_context(n)
     ELSE session_setup_done(n, m)

-----------------------------------------------------------------------------
\* The first request of the session and its reply.  Another server seals its
\* replies to what came sealed.
smb2_tree_connect_request_cb(s, m) ==
  IF ~Takes(s, m) THEN smb2_close_context(s)
  ELSE Says(IF m.sealed # <<>> /\ ~s.own
            THEN [s EXCEPT !.seal = TRUE, !.sign = FALSE] ELSE s,
            TreeConnect(TRUE))
tree_connect_cb(c, m) == IF Takes(c, m) THEN c ELSE smb2_close_context(c)

\* Each side does what its handler of the message does; one that is gone ends
\* the other.
ServerHears(s, m) ==
  CASE m.command = "NEGOTIATE" -> smb2_negotiate_request_cb(s, m)
    [] m.command = "SESSION_SETUP" -> smb2_session_setup_request_cb(s, m)
    [] m.command = "TREE_CONNECT" -> smb2_tree_connect_request_cb(s, m)
ClientHears(c, m) ==
  CASE m.command = "NEGOTIATE" -> negotiate_cb(c, m)
    [] m.command = "SESSION_SETUP" -> session_setup_cb(c, m)
    [] m.command = "TREE_CONNECT" -> tree_connect_cb(c, m)

Heard(x, y, next) == IF x.up /\ y.up THEN next ELSE smb2_close_context(x)
Asks(both) ==
  [both EXCEPT !.server = Heard(@, both.client, ServerHears(@, both.client.says))]
Answers(both) ==
  [both EXCEPT !.client = Heard(@, both.server, ClientHears(@, both.server.says))]

\* Four requests and their replies.
Round(both) == Answers(Asks(both))
Handshake(c, s) ==
  Round(Round(Round(Round([client |-> connect_cb(c), server |-> s]))))

Context(version, seal, password) ==
  [version |-> version, seal |-> seal, password |-> password,
   sign |-> FALSE, required |-> FALSE, signing_enabled |-> TRUE,
   allow_anonymous |-> FALSE, dialect |-> 0, preauthhash |-> <<>>,
   session_id |-> FALSE, keyed |-> FALSE, session_key |-> ZeroKey,
   keys |-> NoKeys, up |-> TRUE, says |-> <<>>, own |-> TRUE,
   seals_with |-> "serverin", opens_with |-> "serverout"]

ClientWith(version, sign, seal, required, password) ==
  [Context(version, seal, password) EXCEPT !.sign = sign, !.required = required]
ServerWith(version, seal, enabled, anonymous, password) ==
  [Context(version, seal, password) EXCEPT !.signing_enabled = enabled,
                                           !.allow_anonymous = anonymous]
OtherServerWith(version, seal, enabled, password) ==
  [Context(version, seal, password) EXCEPT !.signing_enabled = enabled,
                                           !.own = FALSE,
                                           !.seals_with = "serverout",
                                           !.opens_with = "serverin"]

Clients ==
  {ClientWith(v, sign, seal, required, p) :
     v \in Versions, sign, seal, required \in BOOLEAN, p \in Secrets}
Servers ==
  {ServerWith(v, seal, enabled, anonymous, p) :
     v \in Versions, seal, enabled, anonymous \in BOOLEAN, p \in Secrets}
OtherServers ==
  {OtherServerWith(v, seal, enabled, p) :
     v \in Versions, seal, enabled \in BOOLEAN, p \in Secrets \ {0}}

-----------------------------------------------------------------------------
\* Which sessions there should be.  Signing needs a password both know: the
\* key of a session without one is all zeros.
Known(c, s) == c.password = s.password /\ c.password # 0
Admitted(c, s) ==
  IF c.password = 0 \/ s.password = 0 THEN s.allow_anonymous
  ELSE c.password = s.password
MustSign(c, s, dialect) ==
  c.required \/ (dialect \in {SMB2_VERSION_0210, SMB2_VERSION_0311}
                 /\ (s.password # 0 \/ ~s.allow_anonymous))

Plain(c, s, dialect) ==
  IF MustSign(c, s, dialect) THEN s.signing_enabled /\ Known(c, s)
  ELSE c.sign => /\ s.signing_enabled /\ c.password # 0
                 /\ dialect # SMB2_VERSION_0311
Sealed(c, s, dialect) ==
  /\ dialect \in Smb3Dialects
  /\ c.sign \/ (MustSign(c, s, dialect) /\ ~s.seal) => s.signing_enabled

\* Both sides get to a session in the highest dialect they share exactly when
\* their settings allow it: then what one signs or seals the other takes, and
\* what must be signed is.  libsmb2's own server opens nothing that is sealed
\* with the keys of SMB 3: it is left out here.
KeysAgree ==
  \A c \in Clients, s \in Servers \cup OtherServers :
    (s.own => ~c.seal /\ ~s.seal) =>
      LET end == Handshake(c, s)
          common == c.version \cap s.version
          dialect == Highest(common)
      IN /\ end.client.up <=> /\ common # {} /\ Admitted(c, s)
                              /\ IF c.seal \/ s.seal THEN Sealed(c, s, dialect)
                                 ELSE Plain(c, s, dialect)
         /\ end.client.up =>
              /\ end.client.dialect = dialect
              /\ end.client.sign /\ Known(c, s) =>
                   end.client.keys.signing # ZeroKey
              /\ c.required /\ ~end.client.seal =>
                   /\ end.client.says.signature # <<>>
                   /\ end.server.says.signature = end.client.says.signature
=============================================================================
