------------------------------- MODULE MCWire -------------------------------
(***************************************************************************)
(* The formats and the reassembly of handshake messages, for TLC.  The     *)
(* fragments of a message arrive as handshake headers on the wire, some of *)
(* them cut short; nd_handshake_parse stands before the reassembly.        *)
(***************************************************************************)
EXTENDS Reassembly, Wire

\* Fragments of a message of the largest size and of a shorter one, fragments
\* that overrun it by one, and a message one byte too long for the buffer.
MCHeader ==
  [msg : Msg, length : {MaxLen - 1, MaxLen}, offset : 0 .. MaxLen, flen : 0 .. 2]
    \cup [msg : Msg, length : {0, MaxLen + 1}, offset : {0}, flen : {0, 1}]

MCMsg == {<<11, 2>>, <<11, 3>>}

\* A fragment arrives, whole or without its last byte.
Cut(b, cut) == SubSeq(b, 1, Len(b) - cut)

Arriving ==
  [hdr \in Header, cut \in {0, 1} |->
     HandshakeParse(Cut(HandshakeSerialize(
       [msg_type |-> hdr.msg[1], message_seq |-> hdr.msg[2], length |-> hdr.length,
        offset |-> hdr.offset, fragment |-> [i \in 1 .. hdr.flen |-> 0]]).bytes, cut))]

Accept(p) ==
  /\ p.ok
  /\ AddFragment([msg |-> <<p.msg_type, p.message_seq>>, length |-> p.length,
                  offset |-> p.offset, flen |-> Len(p.fragment)])

FragmentArrives(hdr, cut) == Accept(Arriving[hdr, cut])

FragmentDropped(hdr, cut) == ~Arriving[hdr, cut].ok /\ UNCHANGED vars

StreamNext ==
  \/ ReassemblyInit
  \/ \E hdr \in Header, cut \in {0, 1} : FragmentArrives(hdr, cut) \/ FragmentDropped(hdr, cut)

\* The two machines share nothing: one runs while the other is at rest.
MCInit == Init /\ WireInit

StreamStep == format = Idle /\ StreamNext /\ UNCHANGED wireVars

WireStep == Init /\ WireNext /\ UNCHANGED vars

MCSpec == MCInit /\ [][StreamStep \/ WireStep]_<<vars, wireVars>>

-----------------------------------------------------------------------------
R == <<9>>            \* a random
K == <<3, 4>>         \* an x25519 key
K2 == <<5, 6>>

\* Every order, repetition and omission that the parsers tell apart
Versions(l) == [kind |-> "versions", list |-> l]
Shares(l) == [kind |-> "shares", list |-> l]
Other == [kind |-> "other", list |-> <<1>>]

ClientShares ==
  {<<>>, <<<<GroupX25519, K>>>>, <<<<23, K2>>, <<GroupX25519, K>>>>,
   <<<<GroupX25519, K>>, <<GroupX25519, K2>>>>, <<<<GroupX25519, <<7>>>>>>}

ClientExts ==
  {<<>>, <<Versions(<<V13>>)>>}
    \cup UNION {{<<Versions(v), Shares(k)>>, <<Shares(k), Other, Versions(v)>>} :
                  v \in {<<V13>>, <<V12, V13>>, <<V12>>}, k \in ClientShares}
    \cup {<<Versions(<<V12>>), Versions(<<V13>>), Shares(<<<<GroupX25519, K>>>>)>>,
          <<Versions(<<V13>>), Shares(<<<<GroupX25519, K>>>>), Shares(<<<<GroupX25519, K2>>>>)>>}

PeerClientHellos ==
  [random : {R}, sid : {<<>>}, cookie : {<<>>}, suites : {<<Suite>>}, exts : ClientExts]
    \cup [random : {R}, sid : {<<>>, <<1>>}, cookie : {<<>>, <<2, 0>>},
          suites : {<<Suite>>, <<4865, Suite>>, <<4865>>, <<>>},
          exts : {<<Versions(<<V13>>), Shares(<<<<GroupX25519, K>>>>)>>}]

PeerServerHellos ==
  [random : {R}, sid : {<<1>>}, suites : {<<4865>>},
   exts : {<<>>, <<Other, Versions(<<V13>>)>>}
     \cup UNION {{<<Versions(v), Shares(k)>>, <<Shares(k), Other, Versions(v)>>} :
                   v \in {<<V13>>, <<V13, V13>>, <<V12>>}, k \in ClientShares}
     \cup {<<Versions(<<V12>>), Versions(<<V13>>), Shares(<<<<GroupX25519, K>>>>)>>,
          <<Versions(<<V13>>), Shares(<<<<GroupX25519, K>>>>), Shares(<<<<GroupX25519, K2>>>>)>>}]

\* Scalars with leading zeros and with a set top bit
Scalars == {<<0, 0>>, <<0, 1>>, <<0, 128>>, <<127, 0>>, <<128, 0>>, <<255, 255>>}

Early == <<1950, <<48, 49, 48, 49, 48, 48, 48, 48, 48, 48>>>>
Middle == <<2049, <<49, 50, 51, 49, 50, 51, 53, 57, 53, 57>>>>
Late == <<2050, <<48, 49, 48, 49, 48, 48, 48, 48, 48, 49>>>>

MCOnCurve == {<<1, 2, 3, 4>>}

BasicExt(critical, ca) == [oid |-> OidBasicConstraints, critical |-> critical, ca |-> ca]
OtherExt == [oid |-> <<15>>, critical |-> TRUE, ca |-> <<255>>]

CertExts ==
  {<<>>, <<OtherExt>>, <<OtherExt, BasicExt(TRUE, <<255>>)>>, <<BasicExt(FALSE, <<>>), OtherExt>>,
   <<BasicExt(TRUE, <<0>>)>>, <<BasicExt(FALSE, <<255>>)>>}

Certs ==
  UNION {[version : {v}, issuer : {<<12>>}, subject : {<<>>}, not_before : {Early},
          not_after : {IF v THEN Middle ELSE Late}, key : MCOnCurve, uid : {~v},
          r : {<<128, 0>>}, s : {<<0, 1>>}, exts : CertExts] : v \in BOOLEAN}

MCSample ==
  [plaintext    |-> [type : {22, 26}, version : {V12}, epoch : {0, 258}, seq : {0, 515, 65536},
                     fragment : {<<>>, <<1, 0, 2>>}],
   handshake    |-> [msg_type : {1}, length : {2, 66051}, message_seq : {0, 259},
                     offset : {0, 66051}, fragment : {<<>>, <<7, 8>>}],
   unified      |-> UNION {[cid_present : {c}, cid : {IF c THEN <<6, 7>> ELSE <<>>}, seq16 : BOOLEAN,
                            len_present : BOOLEAN, epoch : {0, 3, 6}, seq : {0, 255, 256},
                            payload : {<<>>, <<1>>}] : c \in BOOLEAN},
   record       |-> [epoch : {2, 7}, seq : {0, 258, 65537}, payload : {<<1, 2>>}],
   ack          |-> [records : {<<>>, <<<<2, 258>>>>, <<<<2, 0>>, <<2, 1>>>>,
                                <<<<2, 0>>, <<2, 1>>, <<2, 2>>>>}],
   client_hello |-> [random : {R}, key : {K}],
   server_hello |-> [random : {R}, key : {K}],
   extensions   |-> {<<>>},
   certificate  |-> [certs : {<<>>, <<<<1>>>>, <<<<1>>, <<2, 3>>>>, <<<<1>>, <<2>>, <<3>>>>}],
   verify       |-> [algorithm : {1027}, signature : {<<>>, <<48, 0>>}],
   signature    |-> [r : Scalars, s : Scalars],
   peer_client_hello |-> PeerClientHellos,
   peer_server_hello |-> PeerServerHellos,
   x509         |-> Certs,
   der          |-> {<<>>}]

\* Short messages are damaged twice, long ones once.
MCMaxDamage ==
  [f \in DOMAIN MCSample |->
     CASE f = "der" -> 0
       [] f \in {"record", "ack", "verify", "extensions"} -> 2
       [] OTHER -> 1]
=============================================================================
