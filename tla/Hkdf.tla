-------------------------------- MODULE Hkdf --------------------------------
(***************************************************************************)
(* HKDF and the key schedule (src/crypto/hkdf.c, src/handshake/            *)
(* key_schedule.c).  Labels are abbreviated to one or two letters.         *)
(***************************************************************************)
EXTENDS Sha256

CONSTANTS
  AeadKeyLen,   \* ND_AEAD_KEY_LEN
  IvLen,        \* ND_AEAD_NONCE_LEN
  LabelMax,     \* ND_HKDF_LABEL_MAX
  ContextMax,   \* ND_HKDF_CONTEXT_MAX
  InfoMax       \* ND_HKDF_INFO_MAX

ASSUME HkdfAssumption == {AeadKeyLen, IvLen, LabelMax, ContextMax, InfoMax} \subseteq Nat

\* The bounds leave room for what the key schedule asks for: "every label and
\* every context fits with room to spare" (hkdf.c).
ASSUME RoomAssumption ==
  /\ 3 <= LabelMax /\ HashLen <= ContextMax /\ HashLen + 7 <= InfoMax
  /\ \A n \in {HashLen, AeadKeyLen, IvLen} : 0 < n /\ n <= 65535 /\ n <= 255 * HashLen

BadArg == <<"bad_arg">>

\* nd_hkdf_extract: no salt is a salt of zeros.
HkdfExtract(salt, ikm) == Hmac(IF salt = <<>> THEN Zeros(HashLen) ELSE salt, ikm)

\* nd_hkdf_expand: T(i) is the HMAC of T(i-1), the info and the counter i;
\* the last one is cut to the length that is asked for.
HkdfExpand(prk, info, out_len) ==
  LET t[i \in 0 .. 255] ==
        IF i = 0 THEN <<>> ELSE Hmac(prk, t[i - 1] \o info \o <<Lit(i)>>)
      n == (out_len + HashLen - 1) \div HashLen
  IN  IF out_len > 255 * HashLen \/ Len(info) > InfoMax THEN BadArg
      ELSE SubSeq(FlattenSeq([i \in 1 .. n |-> t[i]]), 1, out_len)

\* The HkdfLabel structure: length, label and context, each of the latter two
\* behind its own length.  In the faulty form the context is left out.
HkdfLabelNoContext(label, context, out_len) ==
  BigEndian(2, out_len) \o BigEndian(1, Len(label)) \o label \o BigEndian(1, 0)

HkdfLabel(label, context, out_len) ==
  BigEndian(2, out_len) \o BigEndian(1, Len(label)) \o label
    \o BigEndian(1, Len(context)) \o context

\* nd_hkdf_expand_label
HkdfExpandLabel(secret, prefix, label, context, out_len) ==
  IF Len(prefix \o label) > LabelMax \/ Len(context) > ContextMax \/ out_len > 65535 THEN BadArg
  ELSE HkdfExpand(secret, HkdfLabel(prefix \o label, context, out_len), out_len)

\* nd_derive_secret
DeriveSecret(secret, prefix, label, hash) ==
  HkdfExpandLabel(secret, prefix, label, hash, HashLen)

-----------------------------------------------------------------------------
DerivedLabel == <<Lit(100), Lit(101)>>
ClientLabel == <<Lit(99), Lit(104)>>     \* "c hs traffic"
ServerLabel == <<Lit(115), Lit(104)>>     \* "s hs traffic"
KeyLabel == <<Lit(107)>>
IvLabel == <<Lit(105)>>
FinishedLabel == <<Lit(102)>>
Dtls13 == <<Lit(68)>>                       \* ND_HKDF_LABEL_PREFIX_DTLS13
Tls13 == <<Lit(84)>>                        \* ND_HKDF_LABEL_PREFIX_TLS13

\* nd_derive_handshake_keys, from the last step to the first: keys and IVs
\* from the traffic secrets, these from the handshake secret
TrafficKeys(prefix, secret, client, server) ==
  [handshake_secret |-> secret, client_secret |-> client, server_secret |-> server,
   client_key |-> HkdfExpandLabel(client, prefix, KeyLabel, <<>>, AeadKeyLen),
   client_iv  |-> HkdfExpandLabel(client, prefix, IvLabel, <<>>, IvLen),
   server_key |-> HkdfExpandLabel(server, prefix, KeyLabel, <<>>, AeadKeyLen),
   server_iv  |-> HkdfExpandLabel(server, prefix, IvLabel, <<>>, IvLen)]

FromHandshakeSecret(prefix, secret, hash) ==
  TrafficKeys(prefix, secret, DeriveSecret(secret, prefix, ClientLabel, hash),
              DeriveSecret(secret, prefix, ServerLabel, hash))

EarlySecret == HkdfExtract(Zeros(HashLen), Zeros(HashLen))

HandshakeKeys(prefix, shared, hash) ==
  FromHandshakeSecret(prefix,
    HkdfExtract(DeriveSecret(EarlySecret, prefix, DerivedLabel, Sha256(<<>>)), shared), hash)

\* nd_finished_compute; nd_finished_verify compares with it.
FinishedVerifyData(prefix, base_key, hash) ==
  Hmac(HkdfExpandLabel(base_key, prefix, FinishedLabel, <<>>, HashLen), hash)
=============================================================================
