-------------------------- MODULE HandshakeMessages --------------------------
(***************************************************************************)
(* The messages, keys and records the two handshake state machines         *)
(* exchange, with their cryptography idealised:                            *)
(*   - a key share is the name of the call that drew it (nd_random_bytes   *)
(*     never repeats), and the X25519 secret is the unordered pair of the  *)
(*     shares, the same from both sides;                                   *)
(*   - a transcript hash is the sequence of the messages hashed            *)
(*     (collision-free), a key is what it is derived from (injective);     *)
(*   - a protected record opens only under the key, direction and sequence *)
(*     number it was sealed with; a signature or MAC verifies only against *)
(*     the key and transcript it was made for.                             *)
(***************************************************************************)
EXTENDS Naturals, Sequences

CONSTANTS
  Client,        \* calls of nd_client_handshake; also their key shares
  Server,        \* calls of nd_server_handshake; also their key shares
  Key,           \* P-256 key pairs
  Chain,         \* certificate chains a server may be configured with
  CertCount,     \* [Chain -> Nat], nd_server_config.cert_count
  DerBytes,      \* [Chain -> Nat], the sum of cert_der_len
  LeafKey,       \* [Chain -> Key], the public key in the leaf certificate
  Parseable,     \* the chains whose every certificate nd_x509_parse accepts
  Trusted        \* the chains nd_x509_verify_chain accepts (anchor, time)

ASSUME ShareAssumption ==
  /\ Client \cap Server = {}
  /\ {"none", "failed"} \cap (Client \cup Server) = {}
ASSUME ChainAssumption ==
  /\ CertCount \in [Chain -> Nat]
  /\ DerBytes \in [Chain -> Nat]
  /\ LeafKey \in [Chain -> Key]
  /\ Parseable \subseteq Chain
  /\ Trusted \subseteq Chain

\* nd_status: every code but ND_OK is ERR, since neither state machine ever
\* asks which error a call returned.
OK == "ND_OK"
ERR == "ND_ERR"
Running == "running"   \* the call has not returned yet
Status == {OK, ERR}

-----------------------------------------------------------------------------
(* Handshake messages, as wrap_and_add frames them: type, message_seq and  *)
(* body.  Every message is sent whole (fragment_offset 0, full length).    *)

ClientHello(c) == [type |-> "client_hello", seq |-> 0, share |-> c]
ServerHello(s) == [type |-> "server_hello", seq |-> 0, share |-> s]
EncryptedExtensions == [type |-> "encrypted_extensions", seq |-> 1]
Certificate(chain) == [type |-> "certificate", seq |-> 2, chain |-> chain]
CertificateVerify(key, hash) ==
  [type |-> "certificate_verify", seq |-> 3, signer |-> key, content |-> hash]
Finished(seq, data) == [type |-> "finished", seq |-> seq, verify_data |-> data]

\* nd_x25519_scalarmult on one's own private key and the peer's share.
X25519(own, peer) == {own, peer}

\* nd_derive_handshake_keys; the two directions' keys and traffic secrets
\* are told apart by a role name where they are used.
DeriveHandshakeKeys(secret, hello_hash) == [secret |-> secret, hello |-> hello_hash]
NoKeys == [secret |-> {}, hello |-> << >>]

\* nd_finished_compute: the MAC of a transcript under a role's traffic secret.
FinishedCompute(keys, role, hash) == [keys |-> keys, role |-> role, hash |-> hash]

\* The body nd_certificate_serialize writes (context, list length, and a
\* length and an empty extension list per certificate) behind its header.
CertificateMsgLen(chain) == 12 + 4 + DerBytes[chain] + 5 * CertCount[chain]
MaxCerts == 4                  \* ND_CERTIFICATE_MSG_MAX_CERTS
MaxInner == 2048               \* ND_RECORD_PROTECT_MAX_INNER
FitsRecord(chain) == CertificateMsgLen(chain) + 1 <= MaxInner

-----------------------------------------------------------------------------
(* Datagrams: one record each.                                             *)

\* nd_plaintext_serialize: an epoch-0 DTLSPlaintext record.
Plaintext(msg) == [layer |-> "plaintext", msg |-> msg]

\* nd_record_protect in epoch 2 under the given role's write key; n is the
\* sequence number that makes the nonce.
Protected(keys, role, n, msg) ==
  [layer |-> "protected", keys |-> keys, role |-> role, n |-> n, msg |-> msg]

\* What may arrive besides the two peers' records: bytes that are no record,
\* and a well-formed hello that these state machines turn down (another
\* version, group or cipher suite, or a share that gives the zero secret).
Garbage == [layer |-> "garbage"]
ForeignHello(type) == Plaintext([type |-> type, seq |-> 0, share |-> "none"])
Noise == {Garbage, ForeignHello("client_hello"), ForeignHello("server_hello")}

\* nd_record_unprotect finds the key, role and number the record was sealed
\* with: a handshake never comes near the 16-bit window of the wire number.
Unprotects(keys, role, d) ==
  /\ d.layer = "protected"
  /\ d.keys = keys
  /\ d.role = role
=============================================================================
