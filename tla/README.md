# A TLA+ model of nano-dtls

nano-dtls is a DTLS 1.3 stack in C: a blocking client and a blocking server
handshake over UDP, record protection, an anti-replay window, fragment
reassembly, and X.509 chain verification. This directory holds TLA+ modules
that model them, TLC configurations that check the modules on small instances,
and proofs that TLAPS checks for every value of the constants.

Run a model with `tlc -config X.cfg M` and check the proofs of a module with
`tlapm M.tla`. `PROJECT.json` lists the runs, the source lines each definition
stands for, the hazards the properties are aimed at, and the theorems.

## The system

| Component | State | Operations | Interacts with |
|---|---|---|---|
| handshake client (`handshake/client.c`) | transcript, keys, attempt counter, verified chain, two record contexts | `nd_client_handshake`, one blocking call | sends and receives on a connected socket; certificate verification |
| handshake server (`handshake/server.c`) | transcript, keys, datagrams skipped, two record contexts | `nd_server_handshake`, one blocking call per client | accepts a peer; calls back `sign_fn` |
| record protection (`record_protect.c`, `record.c`) | `next_send_sequence`, `highest_seen_sequence`, epoch, key | protect, unprotect | used by both handshakes |
| anti-replay window (`replay.c`) | `highest_seen`, `bitmap`, `has_received_any` | init, check, accept | its caller's AEAD, between check and accept |
| reassembly (`reassembly.c`) | buffer, `received[]`, message in progress | init, add_fragment, is_complete | handshake headers |
| UDP transport (`transport/udp.c`) | socket, its `SO_RCVTIMEO`, its queue | bind, connect, accept_peer, send, recv, close | the operating system |
| X.509 (`x509/x509.c`, `asn1.c`) | none | parse, verify_signature, verify_chain | the client |
| codecs, key schedule, transcript (`handshake/*.c`, `record.c`, `ack.c`) | a running hash | serialize, parse, derive | both handshakes |
| cryptography (`crypto/*.c`), `random.c` | contexts of running hashes and MACs | hash, MAC, AEAD, X25519, ECDSA | everything |
| demo signer (`tools/p256_sign_demo.c`) | attempt counter | `nd_demo_p256_ecdsa_sign` | the demo server's `sign_fn` |

What is hard here:

- **Interleaving and delivery.** Client and server run in different processes.
  Only ClientHello is retransmitted. A repeated ClientHello may be answered by
  several server calls, stays in the socket's queue and is read when something
  else is expected. Records are lost, repeated and reordered.
- **Order.** Both sides build the same transcript hash from messages they send
  and receive at different times; keys, signature and MACs depend on it.
- **Timeouts.** `SO_RCVTIMEO` is sticky, 0 means no timeout, and an ICMP error
  ends a wait at once.
- **Partial failure.** The client returns success before the server has its
  last message; the server finds out about an oversized chain mid-flight.
- **Formats.** Nested lengths, optional and repeated extensions, two encodings
  of a header, DER lengths at the limits of `size_t`, messages cut short.
- **Arithmetic.** Lazy carries, negative limbs, values between the modulus and
  the next power of two, and points that a random test never adds.
- **Edges.** The replay window and the truncated sequence number and epoch at
  window boundaries, at zero and at their ceilings; two-digit years.

What makes it correct: a client that succeeds shares keys and transcript with
one server call that owns the certified key; a server succeeds only with a
client that did; no nonce is used twice; every call returns; a record number is
accepted at most once and never refused without cause; a complete message is
the message; what one side writes the other reads, and nothing less; secrets
are distinct and bound to the transcript; the arithmetic is exact; a chain is accepted exactly if authority was delegated to it.

## The modules

| Module | Models | Notes |
|---|---|---|
| `HandshakeMessages` | messages, keys, records as terms | cryptography idealised, see its header |
| `ClientHandshake` | `client.c` | an action per blocking or sending step |
| `ServerHandshake` | `server.c` | calls of one process follow one another |
| `Handshake` | both over any network | `sent` is every datagram ever sent; any may arrive any number of times |
| `KeyExchange` | what the handshake promises | refined by `Handshake` (`Agreement`) |
| `HandshakeInv`, `Handshake_proofs` | inductive invariant and proofs | |
| `HandshakeSockets` | one client and one server over two sockets | FIFO queues, late bind, ICMP, timeouts; liveness |
| `UdpSocket`, `UdpSocket_proofs` | `udp.c` | the sticky timeout and the queue |
| `ReplayWindow`, `AntiReplay`, `ReplayWindow_proofs` | `replay.c`, its promise, the proofs | two-phase use as `replay.h` prescribes |
| `RecordLayer`, `RecordLayer_proofs` | `record_protect.c`, reconstruction in `record.c` | AEAD ideal: opens under its own key and number only |
| `Reassembly` | `reassembly.c` | a byte is the pair (message, position) |
| `Codecs` | `record.c`, `ack.c`, `handshake/{header,hello,messages}.c` | bytes with their widths; a parser is a list of field widths |
| `Der` | `asn1.c` | `size_t` has `SizeLen` bytes and wraps around |
| `X509Parse` | `nd_x509_parse` on bytes | object identifiers are one byte |
| `Wire_proofs` | the proofs about `Reassembly`, and about `Der` and the codecs under `Wire` | |
| `Wire` | sender, damage, receiver for all of these formats | also what other implementations and certificate authorities write |
| `Sha256`, `Hkdf` | `sha256.c`, `hmac_sha256.c`, `hkdf.c`, `key_schedule.c` | ideal compression function: a chaining value is the blocks compressed |
| `Aead` | `chacha20.c`, `aead_chacha20poly1305.c`, nonces | ideal block function and MAC; a keystream block is (key, nonce, counter); exclusive or of bytes is a constant |
| `Transcript` | `transcript.c` and the keys derived from its snapshots | |
| `Sealing` | the nonces and keystream blocks that sealed records take, what opens | |
| `Secrets_proofs` | the proofs about these two and what they stand on | |
| `Poly1305`, `X25519`, `P256` | `poly1305.c`, `x25519.c`, `p256_internal.h`, `p256.c` | limb by limb, as the code computes, with smaller limbs (in `Poly1305` a byte is a word of the block, so that `bytes_to_limbs` shifts and masks words); P-256's points, verifier and signer compute with numbers modulo P and N, which `LimbsExact` shows the limbs to do |
| `Ecdsa` | the signer's loop, calls of the verifier and of the modular arithmetic | random numbers are any draw, or a failure |
| `X509Chain`, `X509Chain_proofs` | `x509.c` | parties issue certificates to each other, in any combination |
| `NumberLemmas` | induction for sets of numbers, quotient and rest | used by the proofs |
| `MC...` | constants for TLC; `MCWire` also puts `nd_handshake_parse` before `Reassembly` | |

**State.** The variables have the names of the C locals and struct fields, with
a prefix `c` or `s` where both sides have one. `cpc` and `spc` say which blocking
or sending step a call is at. A transcript is the sequence of the messages
hashed; `nd_transcript_snapshot` reads it. Error codes are one value `ERR`:
neither state machine ever asks which error it got.

**Actions.** One action covers everything up to the next send or receive: for
example `RecvServerHello` is the parse, the checks, the transcript, X25519, the
key derivation and the record contexts of `client.c:146-180`. Early returns are
alternatives of the action, or actions named `...Fails`.

Definitions whose comment describes a mistake (`CheckTooWide`,
`SkipDatagramThenSucceed`, ...) are not part of any specification. They are
plausible bugs, one or more per module, that a property is known to detect;
`PROJECT.json` lists which replaces what.

## The runs

| Run | Shows | Bounds |
|---|---|---|
| `replay_window` | `WindowExact`, `NoReplay`, `NoFalseReject`, refinement of `AntiReplay` | 9 numbers, a window of 3: three whole windows, so that every slide from one step to past the window happens |
| `handshake` | agreement, authentication, confirmation, nonces, refinement of `KeyExchange` | 2 clients, 2 successive server calls, 2 attempts each: a ClientHello answered twice, a flight read by the other client, both counters at their limits. Chains that are good, oversized by a byte, untrusted, unparseable and empty, and a key that is not the leaf's; a server configured wrongly meets one client only |
| `sockets` | `CallsReturn`, `HelloLeadsToSuccess` | the source's retry bounds 5 and 8; either 2 losses and faults at any point, or a prompt network with up to 4 stale ClientHellos in the queue; a chain that just fits and one a byte too long |
| `udp_socket` | `ScopedToPeer`, `BoundedWait` | 2 senders, a queue of 2, timeouts -1, 0, 300 and 1300 ms |
| `wire` | `RoundTrip`, `NoPartialMessage`, `Canonical`, `ElementsTile`; `CompleteIsExact`, `CompleteWhenCovered`, `NeverUndone` | 15 formats with every combination of optional parts the parsers tell apart, one- and two-byte blobs; every truncation, every byte overwritten by each of a few values, a byte appended, up to twice; every DER input of up to 5 of these bytes, over a two-byte `size_t`. Reassembly: 2 messages, a buffer of 3 bytes, fragments of up to 2 bytes, past the end too, and cut short |
| `record_layer` | `HalfWindowOpens`, `HighestIsNewest`, `EpochIsNearest` | a window of 4, ceiling 15 (four windows), 17 records; epochs 0, 3 and 7 of 7: both ends, a tie, and two with the same low bits |
| `x509_chain` | `AcceptedIsVouched`, `VouchedIsAccepted`, `OnlyAuthoritiesExtendTrust` | 3 keys, 3 certificates, chains of 3, years around 1950 and 2050 |
| `crypto` | `SnapshotExact`, `KeysSeparated`, `OpensOnlySealed`, `KeystreamFresh`, `TagExact`, `LadderExact`, `LimbsExact`, `VerifyExact`, `SignedVerifies` | hash blocks of 4 bytes and transcripts around them; 3 derivations, 2 of them of keys and the others of a Finished over a later transcript; 2 keys whose IVs a sequence number maps to each other, 2 records each; Poly1305 with 6-bit limbs modulo 2^30 - 5 and sums on both sides of the prime; X25519 with two 8-bit limbs modulo 2^15 - 19; ECDSA over y^2 = x^3 - 3x + 37 modulo 59, of prime order 53, in three 2-bit limbs, with every r, s and random number from 0 to 63 and public keys on and off the curve, and every pair of reduced operands of the modular arithmetic |

Four runs show where the documentation promises something else than the code
does. `udp_poll`: a receive with timeout 0 blocks instead of polling.
`udp_negative`: a negative timeout keeps the one set before. `udp_peer`: after
`accept_peer` the socket still delivers what other senders had queued.
`sockets_gives_up`: the ClientHello loop can give up before five timeouts,
because ICMP errors use up attempts at once. `PROJECT.json` quotes the lines.

**Fairness.** `HandshakeSockets` assumes weak fairness of each call's own steps:
a thread is scheduled, and its receives have a positive timeout, which is what
`recv_timeout_ms` is in every caller. Nothing is assumed of the network, of who
binds the port, nor of a call that blocks without timeout. Half of the initial states
are `prompt`: nothing is lost and a wait ends only when nothing can come any
more, that is, the timeout is longer than the peer takes. `HelloLeadsToSuccess`
is about those, since the flight is not retransmitted. `UdpSocket` assumes that the operating system wakes a call whose
timeout has passed or whose datagram is there.

**Scaled arithmetic.** The carry and reduction code of `poly1305.c`, `x25519.c`
and `p256_internal.h` is written for limbs of 26, 16 and 32 bits. The models keep
the code's steps and give limbs and modulus fewer bits, of the same shape (a power
of two minus 5 or 19; a prime-order curve with a = -3 and order below the prime).
What this cannot show is that an accumulator of 64 bits suffices for the full
width; every other edge has its counterpart, and happens in thousands of inputs
instead of never. `crypto` lets one machine move while the others rest, as does
`wire` with reassembly: they share no state.

One thing met there that no property is about: the comment at `x25519.c:53` says
that the bias of 2^16 avoids shifts of negative numbers. After `fe_mul` a limb can
be far below -2^16, so the shift is of a negative number all the same, and the code
relies on it rounding down, as the compilers it is built with do and the model
does.

**Deadlock** is checked in every run but `crypto`, whose bounded computations
end; calls that have all returned stutter by an explicit `Terminated` step.

## What is proved

Every theorem is for all values of the constants that satisfy the named
assumption of the module; TLC evaluates these assumptions in the runs.

### The handshake: `Handshake_proofs`

For any number of clients, server calls, keys, chains and configurations and any
retry bounds:

- `TypeCorrect`, `Transcripts`, `Authentication`, `Confirmation`, `Nonces`:
  the five invariants of `handshake`;
- `Refinement`: `Handshake` implements `KeyExchange`.

None of these is inductive. `HandshakeInv` has the strengthening `IInv`: for each
state of a client or a server, which peer it is bound to, how far the peer has
got and what both transcripts are, message for message (`ClientState`,
`ServerState`); and for every datagram in the network, which call sent it in
which state (`Origin`). The argument is that a record opened by a client was
sealed under keys that name the two hellos, so it came from the one server call
with those keys, whose flight is determined by its configuration; so the message
at each position is the one the server hashed there. The proof that `Next`
preserves `IInv` goes action by action, with lemmas for the steps that change
one side only. Assumptions: `ShareAssumption` (calls are told apart, draws never
repeat), `ChainAssumption`, `ConfigAssumption` and the two retry bounds.

### The anti-replay window: `ReplayWindow_proofs`

For every window size and every set of numbers: `Typing`, `BitmapExact`,
`CheckSound` (`NoReplay`), `CheckComplete` (`NoFalseReject`) and `Refinement` (at
most once). The inductive invariant adds to `WindowExact` its types and that a
number awaiting its tag is still fresh; without the latter, accepting it could
repeat a delivery.

### The record layer: `RecordLayer_proofs`

For every wire width, ceiling, set of epochs and number of records: `Typing`,
`Newest`, `HalfWindow`, `EpochReconstruction`. The invariant is `TypeOK`,
`HighestIsNewest` and the types of the records in the network; what carries the
other two is arithmetic. A number is a whole number of windows and a rest
(`RestUnique`); the window a number below the ceiling lies in is below it as a
whole because the ceiling is the end of a window (`RecordAssumption`, in the code
2^48 - 1 and 2^16 - 1); and of two numbers with the same rest that differ, one is
a window away from the other, so only one is less than half a window away.

### UDP: `UdpSocket_proofs`

For every queue length and all timeouts: `Typing`, `Scoping`, and `Armed`, the
safety half of `BoundedWait`: a call with a positive timeout waits with exactly
that timeout on the socket. `ScopedToPeer` alone is not inductive, since
accepting changes the peer under the queue; the invariant adds that the accepting
call holds a bound socket, which has no late datagrams. `NoPeer` is nobody's
address (`UdpAssumption`).

### Reassembly, DER and the codecs: `Wire_proofs`

For every buffer size, message length and set of fragments: `Typing`,
`Exactness`, `Completeness` and the action property `Monotonicity`. The invariant
says that every mark was made together with its byte, that the marks are the
positions covered by the fragments taken, and that a context without a message is
clean.

For every byte string that a `size_t` of any width can measure, `Tiling`: the
elements the reader returns lie end to end inside the buffer. The steps are that
the overflow guard lets a sum pass only if it did not wrap (`TlvAtFits`), that an
element therefore lies inside what it is read from (`TlvParseFits`), and that the
reader stands at the end of the last element after every call (`ReaderAt`, by
induction over the calls in `ElementsFit`). The assumptions are that the range of
`size_t` is above 255 and above the length of the buffer.

`Canonicity`: whatever bytes arrive, what the parsers of the plaintext, handshake
and unified headers, of ACK and of CertificateVerify accept has one encoding. A
number of n bytes is read and written by the same n shifts (`PutGet`, by
induction over them), a length prefix included, and a value that came from n
bytes never exceeds them, so no serializer refuses what its parser returned. A
field that is accepted is a prefix of the rest (`FieldSplits`), so what a reader
consumed is its fields one after another (`Reads`, `ReadsMore`); the first byte of
a unified header is the sum of its bits (`FirstByteAgain`), which decides the shape
of the rest (`ShapeOfHead`). Each entry of an ACK takes two bytes or more from the
front (`EntryStep`), so the loop ends with nothing left and the list, flattened, is
the buffer (`EntriesAgain`). The invariant is that what is under way stays bytes,
however it is damaged, and that a result is what the parser makes of them
(`CodecInv`). Assumed is that the fields that are sent are numbers and bytes (`Fields`
in `WireAssumption`).

`Wholeness`: a message of any of the fifteen formats, cut short anywhere, is refused
by its parser, except a record that carries no length. A reader never looks past
what it takes (`ReadsLonger`), so a reader that accepted part of what fills its shape
would leave the rest over from the whole (`PartRefused`); each serializer, of this
library or of another implementation, is shown to fill the shape its parser
reads (`Fills`, one lemma `...Part` per format). The first byte of a unified header decides
whether there is a length (`HeaderPart`); in DER the length in front of an element
says what is missing (`TlvPart`). The invariant (`PartInv`) is that what is under way
is a message that was sent, that its bytes are numbers however damaged, and that
the result is the parser's. Assumed are the types of what is sent (`Fields` and
`OtherFields` in `WireAssumption`) and that lengths fit the fields they are written
in (`LengthAssumption`): the library's own buffers are below 65536 bytes (the
code's are a few kilobytes), a connection ID has the length agreed on, other
implementations do not overflow their length fields, and the abbreviated
certificates are short enough for one length byte.

### Certificate chains: `X509Chain_proofs`

For any certificates in circulation, names, keys, validity periods and chain
lengths: `Soundness`, `CompletenessOfChains` and `NoOutsider`. The reference is
authority that spreads from the anchor by delegation, an iteration that knows no
chains. One direction walks the chain from the anchor down, the other builds a
chain from the delegations, each by induction over the number of links; the two
encodings of a year are shown to be read back as that year on both sides of the
pivot (`ParseEncoded`), for the years 1950 to 9999. A chain has room for one
certificate at least (`MaxChain`).

### Transcript and sealing: `Secrets_proofs`

`Snapshots`, for every size of block, digest and length field and any messages:
a snapshot is the hash of exactly what was added. The invariant is that the
context has taken in what was added: its whole blocks are compressed in order,
the rest is in the buffer, and the byte count is right. That `nd_sha256_update`
keeps it is an induction over its loop (`UpdateTakes`), and finalizing a copy pads
to a whole number of blocks wherever the message ends (`FinalDigests`).

`Keystream` and `Authenticity`, for any keys, IVs, headers and contents: no
keystream block serves twice, and what opens was sealed. The invariant is that
the numbers under a key are distinct because the next is beyond all used; then
nonces differ because the bytes of a number determine it (`BytesDetermine`) and
exclusive or with the same IV can be undone (`XorAssumption`); counters of a
record do not come back to that of the one-time key (`CounterAfterKey`); and the
padding and the two lengths make the MAC's input determine header and ciphertext
(`MacInputInjective`). Assumed is that sequence numbers fit in the bytes the nonce
has for them and that a record is shorter than the block counter reaches
(`SealAssumption`); the code has 64 bits in 8 bytes and records of at most
2048 bytes.

`Separation`, for every size of block and digest, any messages and any shared
secrets: two outputs of the key schedule agree in their first byte only if they
are the same output of the same derivation, or the handshake secret of the same
shared secret (`KeysSeparated`), so that no key serves two purposes, two directions
or two transcripts, and a Finished, which is computed with keys from the hellos
over a later transcript, also tells that one. The compression function being ideal,
each construction on top of it is shown to lose nothing. The padding and its
length field determine the message and the blocks (`PaddedInjective`,
`BlocksInjective`), so the digest does (`DigestInjective`); the two pads of HMAC
differ, so an HMAC determines its key and its message (`HmacTells`); the lengths in
`HkdfLabel` determine label and context (`InfoTells`), of which nothing was cut off
(`InfoParts`); and the first byte of what `nd_hkdf_expand` gives is a byte of its
first HMAC (`ExpandFirst`). A secret is then an HMAC under a key one level nearer
to the zero salt of `nd_hkdf_extract`. A chain of HMACs has one length only
(`ChainsApart`), so secrets of different levels never meet (`DepthUnique`), and on one
level label and context tell them apart. The inductive invariant adds to that of
`Snapshots` that each derivation is the schedule over the hash of the messages it
names, and each Finished one over the hash of further messages with such keys
(`Derivations`). Assumed is that labels, contexts and outputs fit the
buffers of `hkdf.c` (`RoomAssumption`, the code's own comment on them) and
that messages and shared secrets are bytes (`TranscriptAssumption`).

### Induction

The library's induction theorems take an operator as a parameter, which the
provers cannot instantiate. `NumberLemmas` states induction for a set of numbers
instead (`BoundedInduction`), from the existence of a least counterexample. With
it the loops above, recursive functions over the length of an input, are unfolded
(`UpdateLoop`, `ElementsLoop`, `ReadLoop`, `AuthoritiesDef`: the definition has a
solution)
and reasoned about.

## What is only model-checked

- Liveness under fairness (`CallsReturn`, `HelloLeadsToSuccess`, `BoundedWait`):
  beyond the prover.
- `RoundTrip`: it ranges over all fifteen formats and says what each parser makes
  of an undamaged message. `Canonicity` and `Wholeness` say which bytes a
  parser takes; this needs the values as well, through every list in a list of a
  hello or a certificate.
- `TagExact`, `LadderExact`, `LimbsExact`, `VerifyExact`, `SignedVerifies`: field
  and group arithmetic. `Poly1305` uses bitwise operators, which the prover does
  not have, and what a ladder computes rests on the group law of the curve.

## What is not modelled

- The SHA-256 compression and the ChaCha20 block function: ideal. They are
  straight-line bit mixing without a state of their own, and what they should
  compute has no shorter definition to compare with.
- That primitives are hard to break: in the handshake modules they are terms
  (`HandshakeMessages`).
- The full bit widths of the field arithmetic (see above), and timing.
- The composition of record layer, replay window and reassembly in one receiver:
  the code has none. The handshakes send messages whole and refuse fragments;
  `nd_reassembly`, `nd_ack` and `nd_replay_window` are called by nothing in
  the library, and `nd_record_unprotect` does not return the sequence number a
  replay window would need.
- The fields of a time below the year in `X509Chain` (`X509Parse` keeps their
  digits), and X.509 name forms.
- The front ends of the demo tools, the bare-metal port, benchmarks, fuzzers,
  timing validation: straight-line callers of the library.
- The Windows variants of `udp.c` and `random.c`.

## Plan

Done, in this order: `ReplayWindow` with its proofs; the handshake modules,
their composition, refinement and proofs; `HandshakeSockets`; `UdpSocket`;
`Reassembly`; `RecordLayer`; `X509Chain`; the formats (`Codecs`, `Der`,
`X509Parse`, `Wire`); the primitives (`Sha256`, `Hkdf`, `Aead`, `Transcript`,
`Sealing`, `Poly1305`, `X25519`, `P256`, `Ecdsa`); the proofs for `UdpSocket`,
`RecordLayer`, `Reassembly`, `X509Chain`, `Transcript`, `Sealing`, `Der` and
`Codecs`.

Next:

1. Proofs: `RoundTrip`, format by format.
2. In `HandshakeSockets`, a second server call on the same socket and a peer
   whose datagrams are queued before the accept.
