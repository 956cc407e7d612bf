----------------------------- MODULE Wire_proofs -----------------------------
(***************************************************************************)
(* nd_reassembly is exact for every set of messages, every buffer size and *)
(* every collection of fragments, in whatever order, overlap or repetition *)
(* they arrive and whatever an earlier message left in the buffer.  The    *)
(* DER reader stays inside its buffer for every string of bytes and every  *)
(* width of size_t.  What the parsers of the record and handshake headers, *)
(* of ACK and of CertificateVerify accept has one encoding.  No parser     *)
(* takes part of a message for a message.                                  *)
(***************************************************************************)
EXTENDS Reassembly, Wire, NumberLemmas, SequenceTheorems

\* A context at rest holds no marks.
RestIsClean ==
  in_progress = None => total_len = 0 /\ received = {} /\ accepted = {}

\* A marked position holds its byte of the message in progress.
MarkedIsCopied == \A p \in received : buf[p] = <<in_progress, p>>

\* The marks are the positions that the fragments taken cover.
MarkedIsCovered ==
  /\ accepted \subseteq Header
  /\ received = UNION {Span(hdr) : hdr \in accepted}

\* TypeOK alone says nothing of the bytes: what ties a complete message to
\* its sender is that every mark was made together with its byte.
IInv == TypeOK /\ RestIsClean /\ MarkedIsCopied /\ MarkedIsCovered

-----------------------------------------------------------------------------
\* The span of a fragment that passes the length checks lies in the message
\* and in the buffer.
LEMMA SpanFits ==
  ASSUME NEW hdr \in Header, Fits(hdr)
  PROVE  /\ hdr.msg \in Msg /\ hdr.msg # None
         /\ hdr.length \in 0 .. MaxLen
         /\ Span(hdr) \subseteq 0 .. hdr.length - 1
         /\ Span(hdr) \subseteq Positions
         /\ Span(hdr) \subseteq Nat
<1>1. /\ hdr \in [msg : Msg, length : Nat, offset : Nat, flen : Nat]
      /\ MaxLen \in Nat /\ None \notin Msg
  BY ReassemblyAssumption
<1>2. hdr.msg \in Msg /\ hdr.length \in Nat /\ hdr.offset \in Nat /\ hdr.flen \in Nat
  BY <1>1
<1> QED
  BY <1>1, <1>2 DEF Fits, Span, Positions

\* A context that was just initialised is at rest.
LEMMA InitIInv == Init => IInv
  BY ReassemblyAssumption
  DEF Init, IInv, TypeOK, RestIsClean, MarkedIsCopied, MarkedIsCovered, Stale, Positions

\* What the copy of a fragment does to the bytes and the marks, for a context
\* that holds the marks of the fragment's own message.
LEMMA CopyExact ==
  ASSUME IInv, NEW hdr \in Header, Fits(hdr), Copy(hdr, received),
         in_progress' = hdr.msg, total_len' = hdr.length,
         received \subseteq 0 .. hdr.length - 1,
         \A p \in received : buf[p] = <<hdr.msg, p>>
  PROVE  IInv'
<1>1. /\ hdr.msg \in Msg /\ hdr.msg # None
      /\ hdr.length \in 0 .. MaxLen
      /\ Span(hdr) \subseteq 0 .. hdr.length - 1
      /\ Span(hdr) \subseteq Positions
      /\ Span(hdr) \subseteq Nat
  BY SpanFits
<1>2. /\ buf' = [p \in Positions |-> IF p \in Span(hdr) THEN <<hdr.msg, p>> ELSE buf[p]]
      /\ received' = received \cup Span(hdr)
      /\ accepted' = accepted \cup {hdr}
  BY DEF Copy
<1>3. TypeOK'
  <2>1. buf' \in [Positions -> (Msg \cup {None}) \X Nat]
    BY <1>1, <1>2 DEF IInv, TypeOK
  <2> QED
    BY <1>1, <1>2, <2>1 DEF TypeOK
<1>4. RestIsClean'
  BY <1>1 DEF RestIsClean
<1>5. MarkedIsCopied'
  <2> SUFFICES ASSUME NEW p \in received' PROVE buf'[p] = <<hdr.msg, p>>
    BY DEF MarkedIsCopied
  <2>1. p \in Positions
    BY <1>1, <1>2, ReassemblyAssumption DEF Positions
  <2> QED
    BY <1>2, <2>1
<1>6. MarkedIsCovered'
  BY <1>2 DEF IInv, MarkedIsCovered
<1> QED
  BY <1>3, <1>4, <1>5, <1>6 DEF IInv

\* Every fragment keeps marks and bytes together.
LEMMA NextIInv == IInv /\ [Next]_vars => IInv'
<1> SUFFICES ASSUME IInv, [Next]_vars PROVE IInv'
  OBVIOUS
<1>1. CASE ReassemblyInit
  BY <1>1, ReassemblyAssumption
  DEF ReassemblyInit, IInv, TypeOK, RestIsClean, MarkedIsCopied, MarkedIsCovered
<1>2. ASSUME NEW hdr \in Header, StartMessage(hdr) PROVE IInv'
  <2>1. received = {} /\ {p \in received : p >= hdr.length} = received
    BY <1>2 DEF StartMessage, IInv, RestIsClean
  <2>2. Copy(hdr, received)
    BY <1>2, <2>1 DEF StartMessage
  <2> QED
    BY <1>2, <2>1, <2>2, CopyExact DEF StartMessage
<1>3. ASSUME NEW hdr \in Header, ContinueMessage(hdr) PROVE IInv'
  BY <1>3, CopyExact DEF ContinueMessage, Belongs, IInv, TypeOK, MarkedIsCopied
<1>4. ASSUME NEW hdr \in Header, RejectFragment(hdr) PROVE IInv'
  BY <1>4 DEF RejectFragment, vars, IInv, TypeOK, RestIsClean, MarkedIsCopied, MarkedIsCovered, Span
<1>5. CASE UNCHANGED vars
  BY <1>5 DEF vars, IInv, TypeOK, RestIsClean, MarkedIsCopied, MarkedIsCovered, Span
<1> QED
  BY <1>1, <1>2, <1>3, <1>4, <1>5 DEF Next, AddFragment

-----------------------------------------------------------------------------
\* The context is always consistent: marks, bytes and fragments agree.
THEOREM Invariance == Spec => []IInv
  BY InitIInv, NextIInv, PTL DEF Spec

\* No mark and no byte ever lies outside the message or the buffer
\* (the length checks of nd_reassembly_add_fragment).
THEOREM Typing == Spec => []TypeOK
<1>1. IInv => TypeOK
  BY DEF IInv
<1> QED
  BY Invariance, <1>1, PTL

\* A complete message is its sender's message, byte for byte.
THEOREM Exactness == Spec => []CompleteIsExact
<1>1. IInv => CompleteIsExact
  BY DEF IInv, CompleteIsExact, IsComplete, MarkedIsCopied
<1> QED
  BY Invariance, <1>1, PTL

\* nd_reassembly_is_complete says yes exactly when the fragments taken cover
\* the message.
THEOREM Completeness == Spec => []CompleteWhenCovered
<1>1. IInv => CompleteWhenCovered
  <2> SUFFICES ASSUME IInv, in_progress # None
               PROVE  IsComplete <=>
                        \A p \in 0 .. total_len - 1 : \E hdr \in accepted : p \in Span(hdr)
    BY DEF CompleteWhenCovered
  <2> DEFINE covered(p) == \E hdr \in accepted : p \in Span(hdr)
  <2>1. \A p : p \in received <=> covered(p)
    BY DEF IInv, MarkedIsCovered
  <2>2. IsComplete <=> \A p \in 0 .. total_len - 1 : p \in received
    BY DEF IsComplete
  <2> HIDE DEF covered
  <2>3. IsComplete <=> \A p \in 0 .. total_len - 1 : covered(p)
    BY <2>1, <2>2
  <2> QED
    BY <2>3 DEF covered
<1> QED
  BY Invariance, <1>1, PTL

\* No fragment takes back a mark or changes the message in progress.
THEOREM Monotonicity == Spec => NeverUndone
<1> DEFINE Kept ==
      in_progress # None =>
        \/ /\ in_progress' = in_progress /\ total_len' = total_len
           /\ received \subseteq received'
        \/ in_progress' = None /\ received' = {}
<1>1. [Next]_vars => [Kept]_vars
  <2> SUFFICES ASSUME Next PROVE Kept
    OBVIOUS
  <2> QED
    BY DEF Next, ReassemblyInit, AddFragment, StartMessage, ContinueMessage, RejectFragment, Copy, vars
<1> QED
  BY <1>1, PTL DEF Spec, NeverUndone

-----------------------------------------------------------------------------
(* nd_asn1_parse_tlv                                                       *)

Octet == 0 .. 255

\* A byte has eight bits.
LEMMA OctetIsNumber == \A x \in Octet : x \in 0 .. 255
  BY DEF Octet

\* A size_t holds a byte at least.
LEMMA SizeFacts == SizeMod \in Nat \ {0} /\ 255 < SizeMod
  BY DerAssumption

\* What shifting in a length leaves is a size_t.
LEMMA ValueLenType ==
  ASSUME NEW bytes \in Seq(Octet)
  PROVE  ValueLen(bytes) \in 0 .. SizeMod - 1
<1> DEFINE n == Len(bytes)
           Def(f, N) == f = [i \in 0 .. N |-> IF i = 0 THEN 0 ELSE SizeT(256 * f[i - 1] + bytes[i])]
           T == {N \in 0 .. n : \E f : Def(f, N)}
<1>0. n \in Nat /\ SizeMod \in Nat \ {0}
  BY SizeFacts
<1> HIDE DEF n
<1>1. 0 \in T
  <2> DEFINE f == [i \in 0 .. 0 |-> 0]
  <2>1. Def(f, 0)
    OBVIOUS
  <2> HIDE DEF Def, f
  <2> QED
    BY <1>0, <2>1
<1>2. ASSUME NEW N \in 0 .. n - 1, N \in T PROVE N + 1 \in T
  <2>1. PICK f : Def(f, N)
    BY <1>2
  <2>2. \A i \in 0 .. N : f[i] = IF i = 0 THEN 0 ELSE SizeT(256 * f[i - 1] + bytes[i])
    BY <2>1
  <2> DEFINE g == [i \in 0 .. N + 1 |->
                     IF i <= N THEN f[i] ELSE SizeT(256 * f[N] + bytes[N + 1])]
             h == [i \in 0 .. N + 1 |->
                     IF i = 0 THEN 0 ELSE SizeT(256 * g[i - 1] + bytes[i])]
  <2>3. ASSUME NEW i \in 0 .. N + 1 PROVE g[i] = h[i]
    <3>1. CASE i = 0
      BY <1>0, <2>2, <3>1
    <3>2. CASE i \in 1 .. N
      <4>1. g[i] = f[i] /\ g[i - 1] = f[i - 1]
        BY <1>0, <3>2
      <4> HIDE DEF g, h
      <4>2. f[i] = SizeT(256 * f[i - 1] + bytes[i])
        BY <1>0, <2>2, <3>2
      <4> QED
        BY <4>1, <4>2, <3>2 DEF h
    <3>3. CASE i = N + 1
      <4>1. g[i] = SizeT(256 * f[N] + bytes[i]) /\ g[i - 1] = f[N] /\ i # 0
        BY <1>0, <3>3
      <4> QED
        BY <4>1
    <3> QED
      BY <1>0, <3>1, <3>2, <3>3
  <2>4. g = h
    BY <2>3
  <2>5. Def(g, N + 1)
    BY <2>4
  <2> HIDE DEF Def, g
  <2> QED
    BY <1>0, <2>5
<1>3. n \in T
  <2> HIDE DEF T
  <2>1. 0 .. n \subseteq T
    BY <1>0, <1>1, <1>2, BoundedInduction
  <2> QED
    BY <1>0, <2>1
<1> DEFINE v == CHOOSE f : Def(f, n)
<1>4. Def(v, n)
  <2>1. \E f : Def(f, n)
    BY <1>3
  <2> HIDE DEF Def
  <2> QED
    BY <2>1
<1>5. ValueLen(bytes) = v[n]
  BY DEF ValueLen, n
<1> HIDE DEF v
<1>6. \A i \in 0 .. n : v[i] = IF i = 0 THEN 0 ELSE SizeT(256 * v[i - 1] + bytes[i])
  BY <1>4
<1> DEFINE W == {i \in 0 .. n : v[i] \in 0 .. SizeMod - 1}
<1>7. 0 \in W
  BY <1>0, <1>6
<1>8. \A i \in 0 .. n - 1 : i \in W => i + 1 \in W
  <2> SUFFICES ASSUME NEW i \in 0 .. n - 1, i \in W PROVE i + 1 \in W
    OBVIOUS
  <2>1. i + 1 \in 0 .. n /\ i + 1 \in 1 .. n /\ i + 1 # 0 /\ (i + 1) - 1 = i /\ v[i] \in Int
    BY <1>0
  <2>2. v[i + 1] = SizeT(256 * v[i] + bytes[i + 1])
    BY <1>6, <2>1
  <2>3. bytes[i + 1] \in Octet
    BY <2>1 DEF n
  <2>4. 256 * v[i] + bytes[i + 1] \in Int
    <3> DEFINE x == bytes[i + 1]
               y == v[i]
    <3>1. x \in 0 .. 255 /\ y \in Int
      BY <2>1, <2>3, OctetIsNumber, Zenon
    <3> HIDE DEF x, y
    <3>2. 256 * y + x \in Int
      BY <3>1
    <3> QED
      BY <3>2 DEF x, y
  <2>5. SizeT(256 * v[i] + bytes[i + 1]) \in 0 .. SizeMod - 1
    BY <1>0, <2>4, Rest DEF SizeT
  <2> QED
    BY <2>1, <2>2, <2>5
<1> HIDE DEF W
<1>9. 0 .. n \subseteq W
  BY <1>0, <1>7, <1>8, BoundedInduction
<1>10. n \in W
  BY <1>0, <1>9
<1> QED
  BY <1>5, <1>10 DEF W

\* The sum that the overflow guard lets pass is the sum.
LEMMA TlvAtFits ==
  ASSUME NEW b, Len(b) \in Nat, NEW pos \in 0 .. SizeMod - 1, NEW len \in 0 .. SizeMod - 1,
         TlvAt(b, pos, len).ok
  PROVE  /\ TlvAt(b, pos, len).header = pos /\ TlvAt(b, pos, len).len = len
         /\ pos + len <= Len(b)
<1> DEFINE M == SizeMod
           s == SizeT(pos + len)
           q == (pos + len) \div M
<1>0. M \in Nat \ {0} /\ pos \in 0 .. M - 1 /\ len \in 0 .. M - 1
  BY SizeFacts
<1>1. pos + len = M * q + s /\ q \in Int /\ s \in 0 .. M - 1
  <2>1. pos + len \in Int /\ s = (pos + len) % M
    BY <1>0 DEF SizeT
  <2> HIDE DEF s, M
  <2> QED
    BY <1>0, <2>1, Rest
<1>2. ~(s < pos) /\ ~(s > Len(b))
  BY DEF TlvAt, Wraps, Rejected
<1>a. TlvAt(b, pos, len).header = pos /\ TlvAt(b, pos, len).len = len
  BY <1>2 DEF TlvAt, Wraps
<1> HIDE DEF M, s, q
<1>3. CASE pos + len < M
  <2>1. M * q + s = M * 0 + (pos + len) /\ pos + len \in 0 .. M - 1 /\ 0 \in Int
    BY <1>0, <1>1, <1>3
  <2>2. q \in Int /\ s \in 0 .. M - 1
    BY <1>1
  <2>3. s = pos + len
    BY <1>0, <2>1, <2>2, RestUnique
  <2> QED
    BY <1>0, <1>2, <1>a, <2>3
<1>4. CASE ~(pos + len < M)
  <2>1. M * q + s = M * 1 + (pos + len - M) /\ pos + len - M \in 0 .. M - 1 /\ 1 \in Int
    BY <1>0, <1>1, <1>4
  <2>2. q \in Int /\ s \in 0 .. M - 1
    BY <1>1
  <2>3. s = pos + len - M
    BY <1>0, <2>1, <2>2, RestUnique
  <2> QED
    BY <1>0, <1>2, <2>3
<1> QED
  BY <1>3, <1>4

\* An element that is read lies inside the bytes it is read from.
LEMMA TlvParseFits ==
  ASSUME NEW b \in Seq(Octet), Len(b) < SizeMod, TlvParse(b).ok
  PROVE  /\ TlvParse(b).header \in Nat /\ TlvParse(b).len \in Nat
         /\ TlvParse(b).header + TlvParse(b).len <= Len(b)
<1>0. Len(b) \in Nat /\ SizeMod \in Nat \ {0} /\ 255 < SizeMod
  BY SizeFacts
<1>1. ~(Len(b) < 2) /\ ~(b[1] % 32 = 31)
  BY DEF TlvParse, Rejected
<1>2. 2 \in 1 .. Len(b) /\ b[2] \in Octet /\ 2 \in 0 .. SizeMod - 1
  BY <1>0, <1>1
<1>3. CASE b[2] < 128
  <2>1. TlvParse(b) = TlvAt(b, 2, b[2])
    BY <1>1, <1>3 DEF TlvParse
  <2>2. b[2] \in 0 .. SizeMod - 1
    <3> DEFINE x == b[2]
    <3>1. x \in 0 .. 255
      BY <1>2, OctetIsNumber, Zenon
    <3> HIDE DEF x
    <3>2. x \in 0 .. SizeMod - 1
      BY <1>0, <3>1
    <3> QED
      BY <3>2 DEF x
  <2>3. TlvAt(b, 2, b[2]).header = 2 /\ TlvAt(b, 2, b[2]).len = b[2] /\ 2 + b[2] <= Len(b)
    BY <1>0, <1>2, <2>1, <2>2, TlvAtFits
  <2> QED
    BY <1>0, <2>1, <2>2, <2>3
<1>4. CASE ~(b[2] < 128)
  <2> DEFINE n == b[2] % 128
             v == ValueLen(SubSeq(b, 3, 2 + n))
  <2>1. TlvParse(b) = LongForm(b, n)
    BY <1>1, <1>4 DEF TlvParse
  <2>2. n \in Nat
    <3> DEFINE x == b[2]
    <3>1. x \in 0 .. 255
      BY <1>2, OctetIsNumber, Zenon
    <3> HIDE DEF x
    <3>2. x % 128 \in Nat
      BY <3>1
    <3> QED
      BY <3>2 DEF x
  <2> HIDE DEF n
  <2>3. ~(n = 0) /\ ~(2 + n > Len(b)) /\ LongForm(b, n) = TlvAt(b, 2 + n, v)
    BY <2>1 DEF LongForm, Rejected
  <2>4. SubSeq(b, 3, 2 + n) \in Seq(Octet)
    BY <1>0, <2>2, <2>3
  <2>5. v \in 0 .. SizeMod - 1
    BY <2>4, ValueLenType
  <2>6. 2 + n \in 0 .. SizeMod - 1
    BY <1>0, <2>2, <2>3
  <2> HIDE DEF v
  <2>7. TlvAt(b, 2 + n, v).header = 2 + n /\ TlvAt(b, 2 + n, v).len = v /\ 2 + n + v <= Len(b)
    <3>1. TlvAt(b, 2 + n, v).ok
      BY <2>1, <2>3
    <3> DEFINE p == 2 + n
    <3>2. p \in 0 .. SizeMod - 1 /\ TlvAt(b, p, v).ok
      BY <2>6, <3>1
    <3> HIDE DEF p
    <3>3. TlvAt(b, p, v).header = p /\ TlvAt(b, p, v).len = v /\ p + v <= Len(b)
      BY <1>0, <2>5, <3>2, TlvAtFits
    <3> QED
      BY <3>3 DEF p
  <2> QED
    BY <1>0, <2>1, <2>2, <2>3, <2>5, <2>7
<1> QED
  BY <1>3, <1>4

-----------------------------------------------------------------------------
(* nd_asn1_reader_next                                                     *)

EndOf(t) == t.start + t.header + t.len

\* The reader p over b: what it has read so far follows one another from the
\* start, and it stands at the end of the last element, inside b.
ReaderAt(b, p) ==
  /\ \E S : p \in [ok : BOOLEAN, pos : Nat, tlvs : Seq(S)]
  /\ p.pos <= Len(b)
  /\ p.pos = IF Len(p.tlvs) = 0 THEN 0 ELSE EndOf(p.tlvs[Len(p.tlvs)])
  /\ \A i \in 1 .. Len(p.tlvs) :
       /\ p.tlvs[i].start = (IF i = 1 THEN 0 ELSE EndOf(p.tlvs[i - 1]))
       /\ EndOf(p.tlvs[i]) <= Len(b)

\* nd_asn1_reader_next advances by one element inside the buffer.
LEMMA NextElementFits ==
  ASSUME NEW b \in Seq(Octet), Len(b) < SizeMod, NEW p, ReaderAt(b, p), p.pos < Len(b)
  PROVE  ReaderAt(b, NextElement(p, TlvParse(SubSeq(b, p.pos + 1, Len(b)))))
<1> DEFINE c == SubSeq(b, p.pos + 1, Len(b))
           t == TlvParse(c)
           d == NextElement(p, t)
<1>1. PICK S : p \in [ok : BOOLEAN, pos : Nat, tlvs : Seq(S)]
  BY DEF ReaderAt
<1>2. p.pos \in Nat /\ p.tlvs \in Seq(S) /\ Len(b) \in Nat /\ Len(p.tlvs) \in Nat
  BY <1>1
<1>3. c \in Seq(Octet) /\ Len(c) = Len(b) - p.pos
  BY <1>2
<1> HIDE DEF c, t
<1>4. CASE ~t.ok
  <2>1. d = [p EXCEPT !.ok = FALSE]
    BY <1>4 DEF NextElement
  <2>2. d \in [ok : BOOLEAN, pos : Nat, tlvs : Seq(S)] /\ d.pos = p.pos /\ d.tlvs = p.tlvs
    BY <1>1, <2>1
  <2> HIDE DEF d
  <2>3. ReaderAt(b, d)
    BY <2>2 DEF ReaderAt
  <2> QED
    BY <2>3 DEF d, t, c
<1>5. CASE t.ok
  <2> DEFINE e == [ok |-> TRUE, start |-> p.pos, tag |-> t.tag, header |-> t.header,
                   len |-> t.len, value |-> t.value]
             n == Len(p.tlvs)
             tlvs == Append(p.tlvs, e)
             pos == SizeT(p.pos + t.header + t.len)
  <2>1. t.header \in Nat /\ t.len \in Nat /\ t.header + t.len <= Len(b) - p.pos
    <3>1. Len(c) < SizeMod
      BY <1>2, <1>3, SizeFacts
    <3>2. t.header \in Nat /\ t.len \in Nat /\ t.header + t.len <= Len(c)
      BY <1>3, <1>5, <3>1, TlvParseFits DEF t
    <3> QED
      BY <1>3, <3>2
  <2>2. d = [ok |-> TRUE, pos |-> pos, tlvs |-> tlvs]
    BY <1>5 DEF NextElement
  <2>3. EndOf(e) = p.pos + t.header + t.len /\ e.start = p.pos
    BY DEF EndOf
  <2>4. EndOf(e) \in Nat /\ EndOf(e) <= Len(b) /\ EndOf(e) < SizeMod
    BY <1>2, <2>1, <2>3, SizeFacts
  <2> HIDE DEF e
  <2>5. pos = EndOf(e)
    <3> DEFINE x == EndOf(e)
               q == x \div SizeMod
               r == x % SizeMod
    <3>1. x \in Nat /\ x < SizeMod /\ SizeMod \in Nat \ {0}
      BY <2>4, SizeFacts
    <3> HIDE DEF x
    <3>2. r \in 0 .. SizeMod - 1 /\ q \in Int /\ x = SizeMod * q + r
      <4>1. x \in Int
        BY <3>1
      <4> QED
        BY <3>1, <4>1, Rest
    <3> HIDE DEF q, r
    <3>3. SizeMod * q + r = SizeMod * 0 + x /\ 0 \in Int /\ x \in 0 .. SizeMod - 1
      BY <3>1, <3>2
    <3>4. r = x
      BY <3>1, <3>2, <3>3, RestUnique
    <3> QED
      BY <2>3, <3>4 DEF x, r, SizeT
  <2> DEFINE R == S \cup {e}
  <2>6. /\ tlvs \in Seq(R) /\ Len(tlvs) = n + 1
        /\ \A i \in 1 .. n : tlvs[i] = p.tlvs[i]
        /\ tlvs[n + 1] = e
    <3>1. p.tlvs \in Seq(R) /\ e \in R
      BY <1>2
    <3> HIDE DEF R
    <3> QED
      BY <3>1
  <2> HIDE DEF R, tlvs, pos
  <2>7. d \in [ok : BOOLEAN, pos : Nat, tlvs : Seq(R)] /\ d.pos = pos /\ d.tlvs = tlvs
    BY <2>2, <2>4, <2>5, <2>6
  <2> HIDE DEF d
  <2>8. p.pos = IF n = 0 THEN 0 ELSE EndOf(p.tlvs[n])
    BY DEF ReaderAt
  <2>9. \A i \in 1 .. n : /\ p.tlvs[i].start = (IF i = 1 THEN 0 ELSE EndOf(p.tlvs[i - 1]))
                          /\ EndOf(p.tlvs[i]) <= Len(b)
    BY DEF ReaderAt
  <2> HIDE DEF n
  <2>10. ASSUME NEW i \in 1 .. n + 1
         PROVE  /\ tlvs[i].start = (IF i = 1 THEN 0 ELSE EndOf(tlvs[i - 1]))
                /\ EndOf(tlvs[i]) <= Len(b)
    <3>0. n \in Nat
      BY <1>2 DEF n
    <3>1. CASE i \in 1 .. n
      <4>1. tlvs[i] = p.tlvs[i] /\ (i # 1 => tlvs[i - 1] = p.tlvs[i - 1])
        BY <2>6, <3>0, <3>1
      <4> QED
        BY <2>9, <3>1, <4>1
    <3>2. CASE i = n + 1
      <4>1. tlvs[i] = e /\ (i # 1 => tlvs[i - 1] = p.tlvs[n] /\ n # 0) /\ (i = 1 => n = 0)
        BY <2>6, <3>0, <3>2
      <4> QED
        BY <2>3, <2>4, <2>8, <4>1
    <3> QED
      BY <3>0, <3>1, <3>2
  <2>11. ReaderAt(b, d)
    <3>0. n \in Nat
      BY <1>2 DEF n
    <3>1. Len(d.tlvs) = n + 1 /\ Len(d.tlvs) # 0 /\ d.tlvs[Len(d.tlvs)] = e
      BY <2>6, <2>7, <3>0
    <3>2. d.pos = EndOf(d.tlvs[Len(d.tlvs)]) /\ d.pos <= Len(b)
      BY <2>4, <2>5, <2>7, <3>1
    <3>3. \A i \in 1 .. Len(d.tlvs) :
            /\ d.tlvs[i].start = (IF i = 1 THEN 0 ELSE EndOf(d.tlvs[i - 1]))
            /\ EndOf(d.tlvs[i]) <= Len(b)
      BY <2>7, <2>10, <3>1
    <3>4. \E Q : d \in [ok : BOOLEAN, pos : Nat, tlvs : Seq(Q)]
      BY <2>7
    <3> QED
      BY <3>1, <3>2, <3>3, <3>4 DEF ReaderAt
  <2> QED
    BY <2>11 DEF d, t, c
<1>6. t.ok \in BOOLEAN \/ ~t.ok
  OBVIOUS
<1> QED
  BY <1>4, <1>5

\* The reader after one more call, if it is not done
StepOf(b, p) ==
  IF ~p.ok \/ p.pos >= Len(b) THEN p
  ELSE NextElement(p, TlvParse(SubSeq(b, p.pos + 1, Len(b))))

Start == [ok |-> TRUE, pos |-> 0, tlvs |-> <<>>]

\* Elements is what its recursive definition says.
LEMMA ElementsLoop ==
  ASSUME NEW b, Len(b) \in Nat
  PROVE  \E n \in Nat : \E r : /\ r[0] = Start
                               /\ \A k \in 1 .. n : r[k] = StepOf(b, r[k - 1])
                               /\ Elements(b) = r[n]
<1> DEFINE n == (Len(b) + 1) \div 2
           Def(f, N) == f = [k \in 0 .. N |-> IF k = 0 THEN Start ELSE StepOf(b, f[k - 1])]
           T == {N \in 0 .. n : \E f : Def(f, N)}
           r == CHOOSE f : Def(f, n)
<1>0. n \in Nat
  OBVIOUS
<1>a. Elements(b) = r[n]
  BY DEF Elements, Start, StepOf
<1> HIDE DEF n
<1>1. 0 \in T
  <2> DEFINE f == [k \in 0 .. 0 |-> Start]
  <2>1. Def(f, 0)
    OBVIOUS
  <2> HIDE DEF Def, f
  <2> QED
    BY <1>0, <2>1
<1>2. ASSUME NEW N \in 0 .. n - 1, N \in T PROVE N + 1 \in T
  <2>1. PICK f : Def(f, N)
    BY <1>2
  <2>2. \A k \in 0 .. N : f[k] = IF k = 0 THEN Start ELSE StepOf(b, f[k - 1])
    BY <2>1
  <2> DEFINE g == [k \in 0 .. N + 1 |-> IF k <= N THEN f[k] ELSE StepOf(b, f[N])]
             h == [k \in 0 .. N + 1 |-> IF k = 0 THEN Start ELSE StepOf(b, g[k - 1])]
  <2>3. ASSUME NEW k \in 0 .. N + 1 PROVE g[k] = h[k]
    <3>1. CASE k = 0
      BY <1>0, <2>2, <3>1
    <3>2. CASE k \in 1 .. N
      <4>1. g[k] = f[k] /\ g[k - 1] = f[k - 1]
        BY <1>0, <3>2
      <4> HIDE DEF g, h
      <4>2. f[k] = StepOf(b, f[k - 1])
        BY <1>0, <2>2, <3>2
      <4> QED
        BY <4>1, <4>2, <3>2 DEF h
    <3>3. CASE k = N + 1
      <4>1. g[k] = StepOf(b, f[N]) /\ g[k - 1] = f[N] /\ k # 0
        BY <1>0, <3>3
      <4> QED
        BY <4>1
    <3> QED
      BY <1>0, <3>1, <3>2, <3>3
  <2>4. g = h
    BY <2>3
  <2>5. Def(g, N + 1)
    BY <2>4
  <2> HIDE DEF Def, g
  <2> QED
    BY <1>0, <2>5
<1>3. n \in T
  <2> HIDE DEF T
  <2>1. 0 .. n \subseteq T
    BY <1>0, <1>1, <1>2, BoundedInduction
  <2> QED
    BY <1>0, <2>1
<1>4. Def(r, n)
  <2>1. \E f : Def(f, n)
    BY <1>3
  <2> HIDE DEF Def
  <2> QED
    BY <2>1
<1> HIDE DEF r
<1>5. \A k \in 0 .. n : r[k] = IF k = 0 THEN Start ELSE StepOf(b, r[k - 1])
  BY <1>4
<1>6. r[0] = Start /\ \A k \in 1 .. n : r[k] = StepOf(b, r[k - 1])
  BY <1>0, <1>5
<1> QED
  BY <1>0, <1>a, <1>6

\* However the loop ends, the reader is where what it has read says.
LEMMA ElementsFit ==
  ASSUME NEW b \in Seq(Octet), Len(b) < SizeMod
  PROVE  ReaderAt(b, Elements(b))
<1>a. Len(b) \in Nat
  OBVIOUS
<1>0. PICK n \in Nat : \E r : /\ r[0] = Start
                              /\ \A k \in 1 .. n : r[k] = StepOf(b, r[k - 1])
                              /\ Elements(b) = r[n]
  BY <1>a, ElementsLoop
<1>1. PICK r : /\ r[0] = Start
               /\ \A k \in 1 .. n : r[k] = StepOf(b, r[k - 1])
               /\ Elements(b) = r[n]
  BY <1>0
<1> DEFINE W == {k \in 0 .. n : ReaderAt(b, r[k])}
<1>2. ReaderAt(b, Start)
  <2>1. Start \in [ok : BOOLEAN, pos : Nat, tlvs : Seq({})] /\ Start.pos = 0 /\ Start.tlvs = <<>>
    BY DEF Start
  <2>2. Len(b) \in Nat /\ 0 <= Len(b)
    OBVIOUS
  <2> QED
    BY <2>1, <2>2 DEF ReaderAt
<1>3. ASSUME NEW p, ReaderAt(b, p) PROVE ReaderAt(b, StepOf(b, p))
  <2>1. CASE ~p.ok \/ p.pos >= Len(b)
    BY <1>3, <2>1 DEF StepOf
  <2>2. CASE ~(~p.ok \/ p.pos >= Len(b))
    <3>1. p.pos < Len(b)
      <4>1. p.pos \in Nat /\ Len(b) \in Nat
        BY <1>3 DEF ReaderAt
      <4> QED
        BY <2>2, <4>1
    <3>2. ReaderAt(b, NextElement(p, TlvParse(SubSeq(b, p.pos + 1, Len(b)))))
      BY <1>3, <3>1, NextElementFits
    <3> QED
      BY <2>2, <3>2 DEF StepOf
  <2> QED
    BY <2>1, <2>2
<1>4. 0 \in W
  BY <1>1, <1>2
<1>5. \A k \in 0 .. n - 1 : k \in W => k + 1 \in W
  <2> SUFFICES ASSUME NEW k \in 0 .. n - 1, ReaderAt(b, r[k]) PROVE k + 1 \in W
    OBVIOUS
  <2>1. k + 1 \in 1 .. n /\ k + 1 \in 0 .. n /\ (k + 1) - 1 = k
    OBVIOUS
  <2>2. r[k + 1] = StepOf(b, r[k])
    BY <1>1, <2>1
  <2> QED
    BY <1>3, <2>1, <2>2
<1> HIDE DEF W
<1>6. n \in W
  <2>1. 0 .. n \subseteq W
    BY <1>4, <1>5, BoundedInduction
  <2> QED
    BY <2>1
<1>7. ReaderAt(b, r[n]) /\ Elements(b) = r[n]
  BY <1>1, <1>6 DEF W
<1> QED
  BY <1>7

-----------------------------------------------------------------------------
(* The buffer that the reader is given                                     *)

\* A DER value begins empty.
LEMMA DerForeign == \A m : Serialize("der", m) = Foreign(<<>>)
  BY Zenon DEF Serialize

\* It is read by the reader of elements.
LEMMA DerParse == \A b : Parse("der", b) = Elements(b)
  BY Zenon DEF Parse

\* Between messages nothing is left of the last one.  A DER value under way is
\* bytes, no more of them than its size allows, and what was returned is what
\* the reader makes of them.
DerInv ==
  /\ format = Idle => damage = 0 /\ got = Pending
  /\ format = "der" => /\ wire \in Seq(Octet)
                       /\ damage \in 0 .. MaxDamage["der"]
                       /\ Len(wire) <= MaxNoise + damage
                       /\ got # Pending => got = Elements(wire)

\* The noise fits a size_t.
LEMMA NoiseFacts ==
  /\ MaxNoise \in Nat /\ MaxDamage["der"] \in Nat
  /\ MaxNoise + MaxDamage["der"] < SizeMod
  BY WireAssumption

\* Damage puts in bytes.
LEMMA NoiseIsOctet == \A x \in NoiseByte : x \in Octet
  BY WireAssumption DEF Octet

\* At the start there is no DER value.
LEMMA WireInitInv == WireInit => DerInv
  BY DEF WireInit, DerInv, Idle

\* Damage to a DER value: other bytes, at most one more of them
LEMMA DamagedInv ==
  ASSUME DerInv, NEW b, Damaged(b),
         format = "der" => b \in Seq(Octet) /\ Len(b) <= Len(wire) + 1
  PROVE  DerInv'
<1>1. format' = format /\ got' = got /\ wire' = b /\ damage' = damage + 1 /\ format # Idle
  BY DEF Damaged
<1>2. CASE format = "der"
  <2>1. damage < MaxDamage["der"] /\ got = Pending
    BY <1>2 DEF Damaged
  <2>2. wire \in Seq(Octet) /\ damage \in 0 .. MaxDamage["der"] /\ Len(wire) <= MaxNoise + damage
    BY <1>2 DEF DerInv
  <2>3. damage' \in 0 .. MaxDamage["der"] /\ Len(wire') <= MaxNoise + damage'
    <3>1. Len(wire) \in Nat /\ b \in Seq(Octet) /\ Len(b) \in Nat /\ Len(b) <= Len(wire) + 1
      BY <1>2, <2>2
    <3> QED
      BY <1>1, <2>1, <2>2, <3>1, NoiseFacts
  <2> QED
    BY <1>1, <1>2, <2>1, <2>3 DEF DerInv
<1>3. CASE format # "der"
  BY <1>1, <1>3 DEF DerInv
<1> QED
  BY <1>2, <1>3

\* Every step keeps a DER value bytes, and short enough.
LEMMA WireNextInv == DerInv /\ [WireNext]_wireVars => DerInv'
<1> SUFFICES ASSUME DerInv, [WireNext]_wireVars PROVE DerInv'
  OBVIOUS
<1>1. ASSUME NEW f \in DOMAIN Sample, NEW m \in Sample[f], Send(f, m) PROVE DerInv'
  <2>1. /\ damage = 0 /\ got = Pending /\ damage' = damage /\ got' = got /\ format' = f
        /\ wire' = Serialize(f, m).bytes
    BY <1>1 DEF Send, DerInv
  <2>2. CASE f = "der"
    <3>1. wire' = <<>>
      BY <2>1, <2>2, DerForeign DEF Foreign
    <3>2. wire' \in Seq(Octet) /\ Len(wire') = 0
      BY <3>1
    <3>3. damage' \in 0 .. MaxDamage["der"] /\ Len(wire') <= MaxNoise + damage'
      BY <2>1, <3>2, NoiseFacts
    <3> QED
      BY <2>1, <3>2, <3>3 DEF DerInv
  <2> QED
    BY <2>1, <2>2 DEF DerInv
<1>2. ASSUME NEW f \in DOMAIN Sample, NEW m \in Sample[f], SendRefused(f, m) PROVE DerInv'
  BY <1>2 DEF SendRefused, DerInv, wireVars
<1>3. ASSUME NEW k \in 0 .. Len(wire), Truncate(k) PROVE DerInv'
  <2> DEFINE b == SubSeq(wire, 1, k)
  <2>1. Damaged(b)
    BY <1>3 DEF Truncate
  <2>2. ASSUME format = "der" PROVE b \in Seq(Octet) /\ Len(b) <= Len(wire) + 1
    <3>1. wire \in Seq(Octet)
      BY <2>2 DEF DerInv
    <3> QED
      BY <3>1
  <2> HIDE DEF b
  <2> QED
    BY <2>1, <2>2, DamagedInv
<1>4. ASSUME NEW i \in 1 .. Len(wire), NEW x \in NoiseByte, Overwrite(i, x) PROVE DerInv'
  <2> DEFINE b == [wire EXCEPT ![i] = x]
  <2>1. Damaged(b)
    BY <1>4 DEF Overwrite
  <2>2. ASSUME format = "der" PROVE b \in Seq(Octet) /\ Len(b) <= Len(wire) + 1
    <3>1. wire \in Seq(Octet)
      BY <2>2 DEF DerInv
    <3> QED
      BY <3>1, NoiseIsOctet
  <2> HIDE DEF b
  <2> QED
    BY <2>1, <2>2, DamagedInv
<1>5. ASSUME NEW x \in NoiseByte, Extend(x) PROVE DerInv'
  <2> DEFINE b == Append(wire, x)
  <2>1. Damaged(b)
    BY <1>5 DEF Extend
  <2>2. ASSUME format = "der" PROVE b \in Seq(Octet) /\ Len(b) <= Len(wire) + 1
    <3>1. wire \in Seq(Octet)
      BY <2>2 DEF DerInv
    <3> QED
      BY <3>1, NoiseIsOctet
  <2> HIDE DEF b
  <2> QED
    BY <2>1, <2>2, DamagedInv
<1>6. ASSUME NEW x \in NoiseByte, Grow(x) PROVE DerInv'
  <2>1. /\ format' = "der" /\ format = "der" /\ got' = got /\ got = Pending /\ damage' = damage
        /\ Len(wire) < MaxNoise /\ wire' = Append(wire, x)
    BY <1>6 DEF Grow
  <2>2. wire \in Seq(Octet) /\ damage \in 0 .. MaxDamage["der"]
    BY <2>1 DEF DerInv
  <2>3. wire' \in Seq(Octet) /\ Len(wire') = Len(wire) + 1 /\ Len(wire) \in Nat
    BY <2>1, <2>2, NoiseIsOctet
  <2>4. Len(wire') <= MaxNoise + damage'
    BY <2>1, <2>2, <2>3, NoiseFacts
  <2> QED
    BY <2>1, <2>2, <2>3, <2>4 DEF DerInv, Idle
<1>7. CASE Receive
  <2>1. UNCHANGED <<format, wire, damage>> /\ format # Idle /\ got' = Parse(format, wire)
    BY <1>7 DEF Receive
  <2>2. ASSUME format = "der" PROVE got' = Elements(wire')
    BY <2>1, <2>2, DerParse
  <2> QED
    BY <2>1, <2>2 DEF DerInv
<1>8. CASE Done
  BY <1>8 DEF Done, DerInv, Idle
<1>9. CASE UNCHANGED wireVars
  BY <1>9 DEF DerInv, wireVars
<1> QED
  BY <1>1, <1>2, <1>3, <1>4, <1>5, <1>6, <1>7, <1>8, <1>9 DEF WireNext

\* Whatever the bytes, the elements that nd_asn1_reader_next hands out follow
\* one another without a gap and end inside the buffer, for every width of
\* size_t that can hold the buffer's length.
THEOREM Tiling == WireSpec => []ElementsTile
<1>1. DerInv => ElementsTile
  <2> SUFFICES ASSUME DerInv, Received, format = "der" PROVE ElementsTile
    BY DEF ElementsTile
  <2>1. /\ wire \in Seq(Octet) /\ damage \in 0 .. MaxDamage["der"] /\ Len(wire) <= MaxNoise + damage
        /\ got = Elements(wire)
    BY DEF DerInv, Received
  <2>2. Len(wire) < SizeMod
    <3>1. Len(wire) \in Nat /\ SizeMod \in Nat
      BY <2>1, SizeFacts
    <3> QED
      BY <2>1, <3>1, NoiseFacts
  <2>3. ReaderAt(wire, got)
    BY <2>1, <2>2, ElementsFit
  <2> QED
    BY <2>3 DEF ElementsTile, ReaderAt, EndOf
<1> QED
  BY <1>1, WireInitInv, WireNextInv, PTL DEF WireSpec

-----------------------------------------------------------------------------
(* The codecs: numbers as bytes                                            *)

\* Repeated shifts, as a loop
LEMMA ShiftedLoop ==
  ASSUME NEW m \in Nat, NEW v
  PROVE  \E g : /\ Shifted(m, v) = g[m] /\ g[0] = v
                /\ \A i \in 1 .. m : g[i] = g[i - 1] \div 256
<1> DEFINE n == m
           a == v
           Step(x, i) == x \div 256
           Def(g, N) == g = [i \in 0 .. N |-> IF i = 0 THEN a ELSE Step(g[i - 1], i)]
           T == {N \in 0 .. n : \E g : Def(g, N)}
<1>0. n \in Nat
  OBVIOUS
<1> HIDE DEF n, a, Step
<1>1. 0 \in T
  <2> DEFINE g == [i \in 0 .. 0 |-> a]
  <2>1. Def(g, 0)
    OBVIOUS
  <2> HIDE DEF Def, g
  <2> QED
    BY <1>0, <2>1
<1>2. ASSUME NEW N \in 0 .. n - 1, N \in T PROVE N + 1 \in T
  <2>1. PICK g : Def(g, N)
    BY <1>2
  <2>2. \A i \in 0 .. N : g[i] = IF i = 0 THEN a ELSE Step(g[i - 1], i)
    BY <2>1
  <2> DEFINE h == [i \in 0 .. N + 1 |-> IF i <= N THEN g[i] ELSE Step(g[N], N + 1)]
             k == [i \in 0 .. N + 1 |-> IF i = 0 THEN a ELSE Step(h[i - 1], i)]
  <2>3. ASSUME NEW i \in 0 .. N + 1 PROVE h[i] = k[i]
    <3>1. CASE i = 0
      BY <1>0, <2>2, <3>1
    <3>2. CASE i \in 1 .. N
      <4>1. h[i] = g[i] /\ h[i - 1] = g[i - 1]
        BY <1>0, <3>2
      <4> HIDE DEF h
      <4>2. g[i] = Step(g[i - 1], i)
        BY <1>0, <2>2, <3>2
      <4> QED
        BY <4>1, <4>2, <3>2 DEF k
    <3>3. CASE i = N + 1
      <4>1. h[i] = Step(g[N], N + 1) /\ h[i - 1] = g[N] /\ i # 0
        BY <1>0, <3>3
      <4> HIDE DEF h
      <4> QED
        BY <4>1, <3>3
    <3> QED
      BY <1>0, <3>1, <3>2, <3>3
  <2>4. h = k
    BY <2>3
  <2>5. Def(h, N + 1)
    BY <2>4
  <2> HIDE DEF Def, h
  <2> QED
    BY <1>0, <2>5
<1>3. n \in T
  <2> HIDE DEF T
  <2>1. 0 .. n \subseteq T
    BY <1>0, <1>1, <1>2, BoundedInduction
  <2> QED
    BY <1>0, <2>1
<1> DEFINE g == CHOOSE h : Def(h, n)
<1>4. Def(g, n)
  <2>1. \E h : Def(h, n)
    BY <1>3
  <2> HIDE DEF Def
  <2> QED
    BY <2>1
<1>5. Shifted(m, v) = g[n]
  BY DEF Shifted, n, a, Step
<1> HIDE DEF g
<1>6. \A i \in 0 .. n : g[i] = IF i = 0 THEN a ELSE Step(g[i - 1], i)
  BY <1>4
<1>7. g[0] = a /\ \A i \in 1 .. n : g[i] = Step(g[i - 1], i)
  BY <1>0, <1>6
<1> QED
  BY <1>5, <1>7 DEF n, a, Step

\* Bytes shifted in, as a loop
LEMMA GetLoop ==
  ASSUME NEW b, Len(b) \in Nat
  PROVE  \E g : /\ Get(b) = g[Len(b)] /\ g[0] = 0
                /\ \A i \in 1 .. Len(b) : g[i] = 256 * g[i - 1] + b[i]
<1> DEFINE n == Len(b)
           a == 0
           Step(x, i) == 256 * x + b[i]
           Def(g, N) == g = [i \in 0 .. N |-> IF i = 0 THEN a ELSE Step(g[i - 1], i)]
           T == {N \in 0 .. n : \E g : Def(g, N)}
<1>0. n \in Nat
  OBVIOUS
<1> HIDE DEF n, a, Step
<1>1. 0 \in T
  <2> DEFINE g == [i \in 0 .. 0 |-> a]
  <2>1. Def(g, 0)
    OBVIOUS
  <2> HIDE DEF Def, g
  <2> QED
    BY <1>0, <2>1
<1>2. ASSUME NEW N \in 0 .. n - 1, N \in T PROVE N + 1 \in T
  <2>1. PICK g : Def(g, N)
    BY <1>2
  <2>2. \A i \in 0 .. N : g[i] = IF i = 0 THEN a ELSE Step(g[i - 1], i)
    BY <2>1
  <2> DEFINE h == [i \in 0 .. N + 1 |-> IF i <= N THEN g[i] ELSE Step(g[N], N + 1)]
             k == [i \in 0 .. N + 1 |-> IF i = 0 THEN a ELSE Step(h[i - 1], i)]
  <2>3. ASSUME NEW i \in 0 .. N + 1 PROVE h[i] = k[i]
    <3>1. CASE i = 0
      BY <1>0, <2>2, <3>1
    <3>2. CASE i \in 1 .. N
      <4>1. h[i] = g[i] /\ h[i - 1] = g[i - 1]
        BY <1>0, <3>2
      <4> HIDE DEF h
      <4>2. g[i] = Step(g[i - 1], i)
        BY <1>0, <2>2, <3>2
      <4> QED
        BY <4>1, <4>2, <3>2 DEF k
    <3>3. CASE i = N + 1
      <4>1. h[i] = Step(g[N], N + 1) /\ h[i - 1] = g[N] /\ i # 0
        BY <1>0, <3>3
      <4> HIDE DEF h
      <4> QED
        BY <4>1, <3>3
    <3> QED
      BY <1>0, <3>1, <3>2, <3>3
  <2>4. h = k
    BY <2>3
  <2>5. Def(h, N + 1)
    BY <2>4
  <2> HIDE DEF Def, h
  <2> QED
    BY <1>0, <2>5
<1>3. n \in T
  <2> HIDE DEF T
  <2>1. 0 .. n \subseteq T
    BY <1>0, <1>1, <1>2, BoundedInduction
  <2> QED
    BY <1>0, <2>1
<1> DEFINE g == CHOOSE h : Def(h, n)
<1>4. Def(g, n)
  <2>1. \E h : Def(h, n)
    BY <1>3
  <2> HIDE DEF Def
  <2> QED
    BY <2>1
<1>5. Get(b) = g[n]
  BY DEF Get, n, a, Step
<1> HIDE DEF g
<1>6. \A i \in 0 .. n : g[i] = IF i = 0 THEN a ELSE Step(g[i - 1], i)
  BY <1>4
<1>7. g[0] = a /\ \A i \in 1 .. n : g[i] = Step(g[i - 1], i)
  BY <1>0, <1>6
<1> QED
  BY <1>5, <1>7 DEF n, a, Step

\* The reader, as a loop
LEMMA ReadLoop ==
  ASSUME NEW shape, Len(shape) \in Nat, NEW b
  PROVE  \E g : /\ Read(shape, b) = g[Len(shape)] /\ g[0] = [ok |-> TRUE, rest |-> b, val |-> <<>>]
                /\ \A i \in 1 .. Len(shape) :
                     g[i] = IF g[i - 1].ok
                            THEN Field(g[i - 1], shape[i], Needs(shape[i], g[i - 1].rest))
                            ELSE Rejected
<1> DEFINE n == Len(shape)
           a == [ok |-> TRUE, rest |-> b, val |-> <<>>]
           Step(x, i) == IF x.ok THEN Field(x, shape[i], Needs(shape[i], x.rest)) ELSE Rejected
           Def(g, N) == g = [i \in 0 .. N |-> IF i = 0 THEN a ELSE Step(g[i - 1], i)]
           T == {N \in 0 .. n : \E g : Def(g, N)}
<1>0. n \in Nat
  OBVIOUS
<1> HIDE DEF n, a, Step
<1>1. 0 \in T
  <2> DEFINE g == [i \in 0 .. 0 |-> a]
  <2>1. Def(g, 0)
    OBVIOUS
  <2> HIDE DEF Def, g
  <2> QED
    BY <1>0, <2>1
<1>2. ASSUME NEW N \in 0 .. n - 1, N \in T PROVE N + 1 \in T
  <2>1. PICK g : Def(g, N)
    BY <1>2
  <2>2. \A i \in 0 .. N : g[i] = IF i = 0 THEN a ELSE Step(g[i - 1], i)
    BY <2>1
  <2> DEFINE h == [i \in 0 .. N + 1 |-> IF i <= N THEN g[i] ELSE Step(g[N], N + 1)]
             k == [i \in 0 .. N + 1 |-> IF i = 0 THEN a ELSE Step(h[i - 1], i)]
  <2>3. ASSUME NEW i \in 0 .. N + 1 PROVE h[i] = k[i]
    <3>1. CASE i = 0
      BY <1>0, <2>2, <3>1
    <3>2. CASE i \in 1 .. N
      <4>1. h[i] = g[i] /\ h[i - 1] = g[i - 1]
        BY <1>0, <3>2
      <4> HIDE DEF h
      <4>2. g[i] = Step(g[i - 1], i)
        BY <1>0, <2>2, <3>2
      <4> QED
        BY <4>1, <4>2, <3>2 DEF k
    <3>3. CASE i = N + 1
      <4>1. h[i] = Step(g[N], N + 1) /\ h[i - 1] = g[N] /\ i # 0
        BY <1>0, <3>3
      <4> HIDE DEF h
      <4> QED
        BY <4>1, <3>3
    <3> QED
      BY <1>0, <3>1, <3>2, <3>3
  <2>4. h = k
    BY <2>3
  <2>5. Def(h, N + 1)
    BY <2>4
  <2> HIDE DEF Def, h
  <2> QED
    BY <1>0, <2>5
<1>3. n \in T
  <2> HIDE DEF T
  <2>1. 0 .. n \subseteq T
    BY <1>0, <1>1, <1>2, BoundedInduction
  <2> QED
    BY <1>0, <2>1
<1> DEFINE g == CHOOSE h : Def(h, n)
<1>4. Def(g, n)
  <2>1. \E h : Def(h, n)
    BY <1>3
  <2> HIDE DEF Def
  <2> QED
    BY <2>1
<1>5. Read(shape, b) = g[n]
  BY DEF Read, n, a, Step
<1> HIDE DEF g
<1>6. \A i \in 0 .. n : g[i] = IF i = 0 THEN a ELSE Step(g[i - 1], i)
  BY <1>4
<1>7. g[0] = a /\ \A i \in 1 .. n : g[i] = Step(g[i - 1], i)
  BY <1>0, <1>6
<1> QED
  BY <1>5, <1>7 DEF n, a, Step

\* The entries, as a loop
LEMMA EntriesLoop ==
  ASSUME NEW shape, NEW b, Len(b) \in Nat
  PROVE  \E g : /\ Entries(shape, b) = g[((Len(b) + 1) \div 2)]
                /\ g[0] = [ok |-> TRUE, rest |-> b, val |-> <<>>]
                /\ \A i \in 1 .. ((Len(b) + 1) \div 2) :
                     g[i] = IF ~g[i - 1].ok \/ g[i - 1].rest = <<>> THEN g[i - 1]
                            ELSE NextEntry(g[i - 1], Read(shape, g[i - 1].rest))
<1> DEFINE n == ((Len(b) + 1) \div 2)
           a == [ok |-> TRUE, rest |-> b, val |-> <<>>]
           Step(x, i) == IF ~x.ok \/ x.rest = <<>> THEN x ELSE NextEntry(x, Read(shape, x.rest))
           Def(g, N) == g = [i \in 0 .. N |-> IF i = 0 THEN a ELSE Step(g[i - 1], i)]
           T == {N \in 0 .. n : \E g : Def(g, N)}
<1>0. n \in Nat
  OBVIOUS
<1> HIDE DEF n, a, Step
<1>1. 0 \in T
  <2> DEFINE g == [i \in 0 .. 0 |-> a]
  <2>1. Def(g, 0)
    OBVIOUS
  <2> HIDE DEF Def, g
  <2> QED
    BY <1>0, <2>1
<1>2. ASSUME NEW N \in 0 .. n - 1, N \in T PROVE N + 1 \in T
  <2>1. PICK g : Def(g, N)
    BY <1>2
  <2>2. \A i \in 0 .. N : g[i] = IF i = 0 THEN a ELSE Step(g[i - 1], i)
    BY <2>1
  <2> DEFINE h == [i \in 0 .. N + 1 |-> IF i <= N THEN g[i] ELSE Step(g[N], N + 1)]
             k == [i \in 0 .. N + 1 |-> IF i = 0 THEN a ELSE Step(h[i - 1], i)]
  <2>3. ASSUME NEW i \in 0 .. N + 1 PROVE h[i] = k[i]
    <3>1. CASE i = 0
      BY <1>0, <2>2, <3>1
    <3>2. CASE i \in 1 .. N
      <4>1. h[i] = g[i] /\ h[i - 1] = g[i - 1]
        BY <1>0, <3>2
      <4> HIDE DEF h
      <4>2. g[i] = Step(g[i - 1], i)
        BY <1>0, <2>2, <3>2
      <4> QED
        BY <4>1, <4>2, <3>2 DEF k
    <3>3. CASE i = N + 1
      <4>1. h[i] = Step(g[N], N + 1) /\ h[i - 1] = g[N] /\ i # 0
        BY <1>0, <3>3
      <4> HIDE DEF h
      <4> QED
        BY <4>1, <3>3
    <3> QED
      BY <1>0, <3>1, <3>2, <3>3
  <2>4. h = k
    BY <2>3
  <2>5. Def(h, N + 1)
    BY <2>4
  <2> HIDE DEF Def, h
  <2> QED
    BY <1>0, <2>5
<1>3. n \in T
  <2> HIDE DEF T
  <2>1. 0 .. n \subseteq T
    BY <1>0, <1>1, <1>2, BoundedInduction
  <2> QED
    BY <1>0, <2>1
<1> DEFINE g == CHOOSE h : Def(h, n)
<1>4. Def(g, n)
  <2>1. \E h : Def(h, n)
    BY <1>3
  <2> HIDE DEF Def
  <2> QED
    BY <2>1
<1>5. Entries(shape, b) = g[n]
  BY DEF Entries, n, a, Step
<1> HIDE DEF g
<1>6. \A i \in 0 .. n : g[i] = IF i = 0 THEN a ELSE Step(g[i - 1], i)
  BY <1>4
<1>7. g[0] = a /\ \A i \in 1 .. n : g[i] = Step(g[i - 1], i)
  BY <1>0, <1>6
<1> QED
  BY <1>5, <1>7 DEF n, a, Step

-----------------------------------------------------------------------------
(* Numbers in bytes                                                        *)

\* A byte is a number.
LEMMA OctetIsNat == \A x \in Octet : x \in Nat
  BY DEF Octet

\* A shift by no byte
LEMMA ShiftedNone ==
  ASSUME NEW v
  PROVE  Shifted(0, v) = v
<1>1. PICK g : Shifted(0, v) = g[0] /\ g[0] = v
  BY ShiftedLoop
<1> QED
  BY <1>1

\* A shift by one more byte
LEMMA ShiftedMore ==
  ASSUME NEW m \in Nat, NEW v
  PROVE  Shifted(m + 1, v) = Shifted(m, v) \div 256
<1>1. PICK g : /\ Shifted(m, v) = g[m] /\ g[0] = v
               /\ \A i \in 1 .. m : g[i] = g[i - 1] \div 256
  BY ShiftedLoop
<1>2. PICK h : /\ Shifted(m + 1, v) = h[m + 1] /\ h[0] = v
               /\ \A i \in 1 .. m + 1 : h[i] = h[i - 1] \div 256
  <2>1. m + 1 \in Nat
    OBVIOUS
  <2> QED
    BY <2>1, ShiftedLoop
<1> DEFINE T == {i \in 0 .. m : g[i] = h[i]}
<1>3. 0 \in T
  BY <1>1, <1>2
<1>4. ASSUME NEW i \in 0 .. m - 1, i \in T PROVE i + 1 \in T
  <2>1. i + 1 \in 1 .. m /\ i + 1 \in 1 .. m + 1 /\ (i + 1) - 1 = i /\ i + 1 \in 0 .. m
    OBVIOUS
  <2>2. g[i + 1] = g[i] \div 256 /\ h[i + 1] = h[i] \div 256
    BY <1>1, <1>2, <2>1
  <2>3. g[i] = h[i]
    BY <1>4
  <2>4. g[i + 1] = h[i + 1]
    BY <2>2, <2>3, Zenon
  <2> QED
    BY <2>1, <2>4
<1> HIDE DEF T
<1>5. m \in T
  <2>1. 0 .. m \subseteq T
    BY <1>3, <1>4, BoundedInduction
  <2> QED
    BY <2>1
<1>6. g[m] = h[m] /\ h[m + 1] = h[m] \div 256
  <2>1. m + 1 \in 1 .. m + 1 /\ (m + 1) - 1 = m
    OBVIOUS
  <2> QED
    BY <1>2, <1>5, <2>1 DEF T
<1> QED
  BY <1>1, <1>2, <1>6

\* What is shifted stays a number.
LEMMA ShiftedType ==
  ASSUME NEW m \in Nat, NEW v \in Nat
  PROVE  Shifted(m, v) \in Nat
<1> DEFINE T == {i \in 0 .. m : Shifted(i, v) \in Nat}
<1>1. 0 \in T
  BY ShiftedNone
<1>2. ASSUME NEW i \in 0 .. m - 1, i \in T PROVE i + 1 \in T
  <2> DEFINE x == Shifted(i, v)
  <2>1. x \in Nat /\ Shifted(i + 1, v) = x \div 256 /\ i + 1 \in 0 .. m
    BY <1>2, ShiftedMore
  <2> HIDE DEF x
  <2>2. x \div 256 \in Nat
    BY <2>1
  <2> QED
    BY <2>1, <2>2
<1> HIDE DEF T
<1>3. 0 .. m \subseteq T
  BY <1>1, <1>2, BoundedInduction
<1> QED
  BY <1>3 DEF T

\* The bytes of a number
LEMMA PutType ==
  ASSUME NEW m \in Nat, NEW v \in Nat
  PROVE  /\ Put(m, v) \in Seq(Octet) /\ Len(Put(m, v)) = m
         /\ \A i \in 1 .. m : Put(m, v)[i] = Shifted(m - i, v) % 256
<1>1. ASSUME NEW i \in 1 .. m PROVE Shifted(m - i, v) % 256 \in Octet
  <2> DEFINE x == Shifted(m - i, v)
  <2>1. x \in Nat
    BY ShiftedType
  <2> HIDE DEF x
  <2>2. x % 256 \in 0 .. 255
    BY <2>1
  <2> QED
    BY <2>2 DEF Octet, x
<1> DEFINE f == Put(m, v)
<1>2. f \in [1 .. m -> Octet] /\ \A i \in 1 .. m : f[i] = Shifted(m - i, v) % 256
  BY <1>1 DEF Put
<1> HIDE DEF f
<1>3. f \in Seq(Octet) /\ Len(f) = m
  BY <1>2
<1> QED
  BY <1>2, <1>3 DEF f

\* Bytes shifted in one by one
Shifts(g, b) == g[0] = 0 /\ \A i \in 1 .. Len(b) : g[i] = 256 * g[i - 1] + b[i]

\* The shifts of a number, one after another
LEMMA ShiftsType ==
  ASSUME NEW b \in Seq(Octet), NEW g, Shifts(g, b)
  PROVE  \A i \in 0 .. Len(b) : g[i] \in Nat
<1> DEFINE T == {i \in 0 .. Len(b) : g[i] \in Nat}
<1>0. Len(b) \in Nat
  OBVIOUS
<1>1. 0 \in T
  BY <1>0 DEF Shifts
<1>2. ASSUME NEW i \in 0 .. Len(b) - 1, i \in T PROVE i + 1 \in T
  <2>1. i + 1 \in 1 .. Len(b) /\ (i + 1) - 1 = i /\ i + 1 \in 0 .. Len(b)
    BY <1>0
  <2>2. g[i + 1] = 256 * g[i] + b[i + 1] /\ b[i + 1] \in Nat /\ g[i] \in Nat
    <3>1. g[i + 1] = 256 * g[(i + 1) - 1] + b[i + 1]
      BY <2>1, Zenon DEF Shifts
    <3>2. b[i + 1] \in Octet
      BY <2>1
    <3>3. b[i + 1] \in Nat
      BY <3>2, OctetIsNat
    <3> QED
      BY <1>2, <2>1, <3>1, <3>3
  <2>3. g[i + 1] \in Nat
    BY <2>2
  <2> QED
    BY <2>1, <2>3
<1> HIDE DEF T
<1>3. 0 .. Len(b) \subseteq T
  BY <1>0, <1>1, <1>2, BoundedInduction
<1> QED
  BY <1>3 DEF T

\* Reading is the inverse of the shifts, step by step.
LEMMA GetShifts ==
  ASSUME NEW b \in Seq(Octet)
  PROVE  \E g : Get(b) = g[Len(b)] /\ Shifts(g, b)
<1>1. Len(b) \in Nat
  OBVIOUS
<1> QED
  BY <1>1, GetLoop DEF Shifts

\* What is read from bytes is a number.
LEMMA GetType ==
  ASSUME NEW b \in Seq(Octet)
  PROVE  Get(b) \in Nat
<1>1. PICK g : Get(b) = g[Len(b)] /\ Shifts(g, b)
  BY GetShifts
<1>2. Len(b) \in 0 .. Len(b)
  OBVIOUS
<1> QED
  BY <1>1, <1>2, ShiftsType

\* A byte in front of the rest of a quotient
LEMMA ByteOff ==
  ASSUME NEW x \in Nat, NEW y \in Octet
  PROVE  (256 * x + y) \div 256 = x /\ (256 * x + y) % 256 = y
<1>1. y \in 0 .. 255
  BY DEF Octet
<1> QED
  BY <1>1

\* The bytes of the number that bytes are read as are these bytes.
LEMMA PutGet ==
  ASSUME NEW b \in Seq(Octet)
  PROVE  Put(Len(b), Get(b)) = b /\ ~Exceeds(Len(b), Get(b))
<1> DEFINE n == Len(b)
           v == Get(b)
<1>0. n \in Nat /\ v \in Nat
  BY GetType
<1>1. PICK g : v = g[n] /\ Shifts(g, b)
  BY GetShifts
<1>2. /\ g[0] = 0
      /\ \A i \in 1 .. n : g[i] = 256 * g[i - 1] + b[i] /\ b[i] \in Octet /\ b[i] \in Nat
      /\ \A i \in 0 .. n : g[i] \in Nat
  <2>1. g[0] = 0 /\ \A i \in 1 .. n : g[i] = 256 * g[i - 1] + b[i]
    BY <1>1, Zenon DEF Shifts
  <2>2. \A i \in 1 .. n : b[i] \in Octet
    OBVIOUS
  <2>3. \A i \in 1 .. n : b[i] \in Nat
    BY <2>2, OctetIsNat
  <2>4. \A i \in 0 .. n : g[i] \in Nat
    BY <1>1, ShiftsType
  <2> QED
    BY <2>1, <2>2, <2>3, <2>4, Zenon
<1> HIDE DEF v, n
<1> DEFINE T == {j \in 0 .. n : Shifted(j, v) = g[n - j]}
<1>3. 0 \in T
  BY <1>0, <1>1, ShiftedNone
<1>4. ASSUME NEW j \in 0 .. n - 1, j \in T PROVE j + 1 \in T
  <2> DEFINE x == g[n - (j + 1)]
             y == b[n - j]
  <2>1. /\ n - j \in 1 .. n /\ (n - j) - 1 = n - (j + 1) /\ n - (j + 1) \in 0 .. n
        /\ j + 1 \in 0 .. n /\ j \in Nat
    BY <1>0
  <2>2. g[n - j] = 256 * x + y /\ x \in Nat /\ y \in Octet
    BY <1>2, <2>1
  <2>3. Shifted(j + 1, v) = (256 * x + y) \div 256
    BY <1>4, <2>1, <2>2, ShiftedMore
  <2> HIDE DEF x, y
  <2>4. Shifted(j + 1, v) = x
    BY <2>2, <2>3, ByteOff
  <2> QED
    BY <2>1, <2>4 DEF x
<1> HIDE DEF T
<1>5. \A j \in 0 .. n : Shifted(j, v) = g[n - j]
  <2>1. 0 .. n \subseteq T
    BY <1>0, <1>3, <1>4, BoundedInduction
  <2> QED
    BY <2>1 DEF T
<1>6. Shifted(n, v) = 0
  <2>1. n \in 0 .. n /\ n - n = 0
    BY <1>0
  <2> QED
    BY <1>2, <1>5, <2>1
<1> DEFINE p == Put(n, v)
<1>7. /\ p \in Seq(Octet) /\ Len(p) = n
      /\ \A i \in 1 .. n : p[i] = Shifted(n - i, v) % 256
  BY <1>0, PutType
<1>8. ASSUME NEW i \in 1 .. n PROVE p[i] = b[i]
  <2> DEFINE x == g[i - 1]
             y == b[i]
  <2>1. n - i \in 0 .. n /\ n - (n - i) = i /\ i - 1 \in 0 .. n
    BY <1>0
  <2>2. g[i] = 256 * x + y /\ x \in Nat /\ y \in Octet
    BY <1>2, <2>1
  <2>3. p[i] = (256 * x + y) % 256
    BY <1>5, <1>7, <2>1, <2>2
  <2> HIDE DEF x, y, p
  <2>4. p[i] = y
    BY <2>2, <2>3, ByteOff
  <2> QED
    BY <2>4 DEF y
<1> HIDE DEF p
<1>9. p = b
  <2>1. Len(p) = Len(b)
    BY <1>7 DEF n
  <2>2. \A i \in 1 .. Len(p) : p[i] = b[i]
    BY <1>7, <1>8
  <2> QED
    BY <1>7, <2>1, <2>2, SeqEqual
<1> QED
  BY <1>6, <1>9 DEF p, n, v, Exceeds

\* A number that fits is read back.
LEMMA GetPut ==
  ASSUME NEW m \in Nat, NEW v \in Nat
  PROVE  ~Exceeds(m, v) => Get(Put(m, v)) = v
<1> DEFINE b == Put(m, v)
<1>1. /\ b \in Seq(Octet) /\ Len(b) = m
      /\ \A i \in 1 .. m : b[i] = Shifted(m - i, v) % 256
  BY PutType
<1> HIDE DEF b
<1> SUFFICES ASSUME Shifted(m, v) = 0 PROVE Get(b) = v
  BY DEF Exceeds, b
<1>2. PICK g : Get(b) = g[m] /\ Shifts(g, b)
  BY <1>1, GetShifts
<1>3. g[0] = 0 /\ \A i \in 1 .. m : g[i] = 256 * g[i - 1] + b[i]
  BY <1>1, <1>2 DEF Shifts
<1> DEFINE T == {i \in 0 .. m : g[i] = Shifted(m - i, v)}
<1>4. 0 \in T
  BY <1>3
<1>5. ASSUME NEW i \in 0 .. m - 1, i \in T PROVE i + 1 \in T
  <2> DEFINE j == m - (i + 1)
             x == Shifted(j, v)
  <2>1. i + 1 \in 1 .. m /\ i + 1 \in 0 .. m /\ (i + 1) - 1 = i /\ j \in Nat /\ j + 1 = m - i
    OBVIOUS
  <2>2. g[i] = x \div 256
    <3>1. Shifted(j + 1, v) = Shifted(j, v) \div 256
      BY <2>1, ShiftedMore
    <3> QED
      BY <1>5, <2>1, <3>1
  <2>3. b[i + 1] = x % 256
    BY <1>1, <2>1
  <2>4. g[i + 1] = 256 * g[i] + b[i + 1]
    BY <1>3, <2>1
  <2>5. x \in Nat
    BY <2>1, ShiftedType
  <2> HIDE DEF x
  <2>6. 256 * (x \div 256) + (x % 256) = x
    BY <2>5
  <2>7. g[i + 1] = x
    BY <2>2, <2>3, <2>4, <2>6
  <2> QED
    BY <2>1, <2>7 DEF x, j
<1> HIDE DEF T
<1>6. m \in T
  <2>1. 0 .. m \subseteq T
    BY <1>4, <1>5, BoundedInduction
  <2> QED
    BY <2>1
<1>7. g[m] = Shifted(0, v)
  BY <1>6 DEF T
<1> QED
  BY <1>2, <1>7, ShiftedNone

-----------------------------------------------------------------------------
(* The reader                                                              *)

\* A field on the wire, and whether its length has room
Coded(n, f) == IF n > 0 THEN f ELSE Prefixed(-n, f)
OfWidth(n, f) == IF n > 0 THEN Len(f) = n ELSE ~Exceeds(-n, Len(f))

Bytes == Seq(Octet)

\* A body behind its length is bytes.
LEMMA PrefixedType ==
  ASSUME NEW n \in Nat, NEW f \in Bytes
  PROVE  Prefixed(n, f) \in Bytes /\ Len(Prefixed(n, f)) = n + Len(f)
<1> DEFINE p == Put(n, Len(f))
<1>1. p \in Seq(Octet) /\ Len(p) = n /\ f \in Seq(Octet)
  <2>1. Len(f) \in Nat
    BY DEF Bytes
  <2> QED
    BY <2>1, PutType DEF Bytes
<1> HIDE DEF p
<1>2. p \o f \in Seq(Octet) /\ Len(p \o f) = Len(p) + Len(f)
  BY <1>1
<1> QED
  BY <1>1, <1>2 DEF p, Prefixed, Bytes

\* A field of either kind is bytes.
LEMMA CodedType ==
  ASSUME NEW n \in Int \ {0}, NEW f \in Bytes
  PROVE  Coded(n, f) \in Bytes
<1>1. CASE n > 0
  BY <1>1 DEF Coded
<1>2. CASE ~(n > 0)
  BY <1>2, PrefixedType DEF Coded
<1> QED
  BY <1>1, <1>2

\* The bytes of a slice
LEMMA Slice ==
  ASSUME NEW b \in Seq(Octet), NEW lo \in Nat, NEW k \in Nat, lo + k <= Len(b)
  PROVE  /\ SubSeq(b, lo + 1, lo + k) \in Seq(Octet)
         /\ Len(SubSeq(b, lo + 1, lo + k)) = k
         /\ \A i \in 1 .. k : SubSeq(b, lo + 1, lo + k)[i] = b[lo + i]
<1>1. Len(b) \in Nat
  OBVIOUS
<1> QED
  BY <1>1

\* A sequence is cut in two.
LEMMA CutInTwo ==
  ASSUME NEW b \in Bytes, NEW k \in 0 .. Len(b)
  PROVE  /\ SubSeq(b, 1, k) \in Bytes /\ Len(SubSeq(b, 1, k)) = k
         /\ SubSeq(b, k + 1, Len(b)) \in Bytes /\ Len(SubSeq(b, k + 1, Len(b))) = Len(b) - k
         /\ b = SubSeq(b, 1, k) \o SubSeq(b, k + 1, Len(b))
<1> DEFINE p == SubSeq(b, 1, k)
           q == SubSeq(b, k + 1, Len(b))
           c == p \o q
<1>0. b \in Seq(Octet) /\ Len(b) \in Nat
  BY DEF Bytes
<1>1. p \in Seq(Octet) /\ Len(p) = k /\ \A i \in 1 .. k : p[i] = b[i]
  BY <1>0
<1>2. q \in Seq(Octet) /\ Len(q) = Len(b) - k /\ \A i \in 1 .. Len(b) - k : q[i] = b[k + i]
  BY <1>0
<1> HIDE DEF p, q
<1>3. c \in Seq(Octet) /\ Len(c) = Len(b)
  BY <1>0, <1>1, <1>2
<1>4. ASSUME NEW i \in 1 .. Len(b) PROVE c[i] = b[i]
  <2>1. CASE i <= k
    BY <1>0, <1>1, <1>2, <2>1
  <2>2. CASE i > k
    <3>1. c[i] = q[i - k] /\ i - k \in 1 .. Len(b) - k /\ k + (i - k) = i
      BY <1>0, <1>1, <1>2, <2>2
    <3> HIDE DEF c
    <3> QED
      BY <1>2, <3>1
  <2> HIDE DEF c
  <2> QED
    BY <1>0, <2>1, <2>2
<1> HIDE DEF c
<1>5. c = b
  BY <1>0, <1>3, <1>4, SeqEqual
<1> QED
  BY <1>1, <1>2, <1>5 DEF p, q, c, Bytes

\* Two joined sequences, cut where they meet
LEMMA CutApart ==
  ASSUME NEW p \in Bytes, NEW q \in Bytes
  PROVE  /\ p \o q \in Bytes /\ Len(p \o q) = Len(p) + Len(q)
         /\ SubSeq(p \o q, 1, Len(p)) = p
         /\ SubSeq(p \o q, Len(p) + 1, Len(p \o q)) = q
<1> DEFINE c == p \o q
           s == SubSeq(c, 1, Len(p))
           t == SubSeq(c, Len(p) + 1, Len(c))
<1>0. p \in Seq(Octet) /\ q \in Seq(Octet) /\ Len(p) \in Nat /\ Len(q) \in Nat
  BY DEF Bytes
<1>1. /\ c \in Seq(Octet) /\ Len(c) = Len(p) + Len(q)
      /\ \A i \in 1 .. Len(p) : c[i] = p[i]
      /\ \A i \in 1 .. Len(q) : c[Len(p) + i] = q[i]
  BY <1>0
<1> HIDE DEF c
<1>2. s \in Seq(Octet) /\ Len(s) = Len(p) /\ \A i \in 1 .. Len(p) : s[i] = c[i]
  BY <1>0, <1>1
<1>3. t \in Seq(Octet) /\ Len(t) = Len(q) /\ \A i \in 1 .. Len(q) : t[i] = c[Len(p) + i]
  BY <1>0, <1>1
<1> HIDE DEF s, t
<1>4. s = p
  BY <1>0, <1>1, <1>2, SeqEqual
<1>5. t = q
  BY <1>0, <1>1, <1>3, SeqEqual
<1> QED
  BY <1>1, <1>4, <1>5 DEF c, s, t, Bytes

Ok(rest, val) == [ok |-> TRUE, rest |-> rest, val |-> val]

\* The parts of what the reader holds
LEMMA OkParts ==
  ASSUME NEW rest, NEW val
  PROVE  Ok(rest, val).ok = TRUE /\ Ok(rest, val).rest = rest /\ Ok(rest, val).val = val
  BY DEF Ok

\* A refusal is no success.
LEMMA RejectedNotOk == ~Rejected.ok
  BY DEF Rejected

\* A field that is accepted begins the rest, and is what is added.
LEMMA FieldSplits ==
  ASSUME NEW rest \in Bytes, NEW val, NEW n \in Int \ {0},
         Field(Ok(rest, val), n, Needs(n, rest)).ok
  PROVE  \E f \in Bytes, t \in Bytes :
           /\ OfWidth(n, f) /\ rest = Coded(n, f) \o t
           /\ Field(Ok(rest, val), n, Needs(n, rest)) = Ok(t, Append(val, f))
<1> DEFINE need == Needs(n, rest)
           f == SubSeq(rest, IF n > 0 THEN 1 ELSE 1 - n, need)
           t == SubSeq(rest, need + 1, Len(rest))
<1>0. rest \in Seq(Octet) /\ Len(rest) \in Nat
  BY DEF Bytes
<1>1. ~(need > Len(rest)) /\ Field(Ok(rest, val), n, need) = Ok(t, Append(val, f))
  <2> HIDE DEF need
  <2>1. CASE need > Len(rest)
    BY <2>1, RejectedNotOk, OkParts DEF Field, need
  <2>2. CASE ~(need > Len(rest))
    BY <2>2, OkParts DEF Field, Ok
  <2> QED
    BY <2>1, <2>2
<1>2. CASE n > 0
  <2>1. /\ need = n /\ n \in 0 .. Len(rest) /\ f = SubSeq(rest, 1, n)
        /\ t = SubSeq(rest, n + 1, Len(rest))
    BY <1>0, <1>1, <1>2 DEF Needs
  <2> HIDE DEF need, f, t
  <2>2. f \in Bytes /\ t \in Bytes /\ Len(f) = n /\ rest = f \o t
    BY <2>1, CutInTwo
  <2>3. OfWidth(n, f) /\ Coded(n, f) = f
    BY <1>2, <2>2 DEF OfWidth, Coded
  <2> QED
    BY <1>1, <2>2, <2>3 DEF need
<1>3. CASE ~(n > 0)
  <2> DEFINE m == -n
             p == SubSeq(rest, 1, m)
             u == SubSeq(rest, m + 1, Len(rest))
  <2>1. m \in Nat \ {0} /\ -n = m /\ 1 - n = m + 1
    BY <1>3
  <2>2. ~(Len(rest) < m) /\ need = Get(p) - n
    <3>1. CASE Len(rest) < m
      <4>1. need = m
        BY <1>3, <2>1, <3>1 DEF Needs
      <4> QED
        BY <1>0, <1>1, <2>1, <3>1, <4>1
    <3>2. CASE ~(Len(rest) < m)
      BY <1>3, <2>1, <3>2 DEF Needs
    <3> QED
      BY <3>1, <3>2
  <2> HIDE DEF m, need
  <2>3. m \in 0 .. Len(rest)
    BY <1>0, <2>1, <2>2
  <2>4. p \in Bytes /\ Len(p) = m /\ u \in Bytes /\ Len(u) = Len(rest) - m /\ rest = p \o u
    BY <2>3, CutInTwo
  <2> DEFINE k == Get(p)
  <2>5. k \in Nat /\ need = m + k
    <3>1. k \in Nat
      BY <2>4, GetType DEF Bytes
    <3>2. need = k - n
      BY <2>2
    <3> HIDE DEF k
    <3> QED
      BY <2>1, <3>1, <3>2
  <2> HIDE DEF k
  <2>6. k \in 0 .. Len(u)
    BY <1>0, <1>1, <2>1, <2>4, <2>5
  <2> DEFINE x == SubSeq(u, 1, k)
             y == SubSeq(u, k + 1, Len(u))
  <2>7. x \in Bytes /\ Len(x) = k /\ y \in Bytes /\ u = x \o y
    BY <2>4, <2>6, CutInTwo
  <2>8. f = x /\ t = y
    <3>1. /\ u \in Seq(Octet)
          /\ \A i \in 1 .. Len(rest) - m : u[i] = rest[m + i]
      BY <1>0, <2>1, <2>3
    <3> HIDE DEF p, u
    <3>2. f \in Seq(Octet) /\ Len(f) = k /\ \A i \in 1 .. k : f[i] = rest[m + i]
      <4>1. f = SubSeq(rest, m + 1, m + k)
        BY <1>3, <2>1, <2>5
      <4>2. m \in Nat /\ k \in Nat /\ m + k <= Len(rest)
        BY <1>0, <2>1, <2>3, <2>4, <2>5, <2>6
      <4> HIDE DEF f
      <4> QED
        BY <1>0, <4>1, <4>2, Slice
    <3>3. x \in Seq(Octet) /\ Len(x) = k /\ \A i \in 1 .. k : x[i] = u[i]
      BY <2>4, <2>6, <3>1
    <3>4. /\ t \in Seq(Octet) /\ Len(t) = Len(rest) - (m + k)
          /\ \A i \in 1 .. Len(rest) - (m + k) : t[i] = rest[m + k + i]
      <4>1. t = SubSeq(rest, (m + k) + 1, Len(rest)) /\ m + k \in 0 .. Len(rest)
        BY <1>0, <2>1, <2>3, <2>4, <2>5, <2>6
      <4> DEFINE lo == m + k
                 len == Len(rest) - lo
      <4>2. lo \in Nat /\ len \in Nat /\ lo + len = Len(rest)
        BY <1>0, <2>1, <2>5, <4>1
      <4> HIDE DEF lo, len, t
      <4>3. t = SubSeq(rest, lo + 1, lo + len)
        BY <4>1, <4>2 DEF lo
      <4>4. t \in Seq(Octet) /\ Len(t) = len /\ \A i \in 1 .. len : t[i] = rest[lo + i]
        BY <1>0, <4>2, <4>3, Slice
      <4> QED
        BY <4>4 DEF lo, len
    <3>5. /\ y \in Seq(Octet) /\ Len(y) = Len(u) - k
          /\ \A i \in 1 .. Len(u) - k : y[i] = u[k + i]
      BY <2>6, <3>1
    <3> HIDE DEF f, t, x, y
    <3>6. f = x
      <4>1. ASSUME NEW i \in 1 .. k PROVE f[i] = x[i]
        <5>1. i \in 1 .. Len(rest) - m
          BY <1>0, <2>1, <2>3, <2>4, <2>5, <2>6
        <5> QED
          BY <3>1, <3>2, <3>3, <5>1
      <4> QED
        BY <3>2, <3>3, <4>1, SeqEqual
    <3>7. t = y
      <4>1. Len(t) = Len(y)
        BY <1>0, <2>1, <2>4, <2>5, <3>4, <3>5
      <4>2. ASSUME NEW i \in 1 .. Len(t) PROVE t[i] = y[i]
        <5>1. /\ i \in 1 .. Len(rest) - (m + k) /\ i \in 1 .. Len(u) - k
              /\ k + i \in 1 .. Len(rest) - m /\ m + (k + i) = m + k + i
          BY <1>0, <2>1, <2>4, <2>5, <3>4
        <5> QED
          BY <3>1, <3>4, <3>5, <5>1
      <4> QED
        BY <3>4, <3>5, <4>1, <4>2, SeqEqual
    <3> QED
      BY <3>6, <3>7
  <2>9. Put(m, Len(x)) = p /\ ~Exceeds(m, Len(x))
    BY <2>4, <2>7, PutGet DEF k, Bytes
  <2> HIDE DEF f, t, x, y, p, u
  <2>10. OfWidth(n, f) /\ Coded(n, f) = p \o f
    BY <1>3, <2>1, <2>8, <2>9 DEF OfWidth, Coded, Prefixed
  <2>11. rest = (p \o f) \o t
    <3>1. p \in Seq(Octet) /\ f \in Seq(Octet) /\ t \in Seq(Octet)
      BY <2>4, <2>7, <2>8 DEF Bytes
    <3>2. (p \o f) \o t = p \o (f \o t)
      BY <3>1, ConcatAssociative
    <3> QED
      BY <2>4, <2>7, <2>8, <3>2
  <2> QED
    BY <1>1, <2>7, <2>8, <2>10, <2>11 DEF need
<1> QED
  BY <1>2, <1>3

\* The order in which bytes are put together does not matter.
LEMMA Associative ==
  ASSUME NEW x \in Bytes, NEW y \in Bytes, NEW z \in Bytes
  PROVE  (x \o y) \o z = x \o (y \o z)
<1>1. x \in Seq(Octet) /\ y \in Seq(Octet) /\ z \in Seq(Octet)
  BY DEF Bytes
<1> QED
  BY <1>1, ConcatAssociative

\* The sequence c is p and then q.
Joins(c, p, q) ==
  /\ c \in Bytes /\ Len(c) = Len(p) + Len(q)
  /\ SubSeq(c, 1, Len(p)) = p /\ SubSeq(c, Len(p) + 1, Len(c)) = q

\* What was joined can be cut again.
LEMMA Apart ==
  ASSUME NEW p \in Bytes, NEW q \in Bytes, NEW c
  PROVE  c = p \o q => Joins(c, p, q)
<1> DEFINE d == p \o q
<1>1. /\ d \in Bytes /\ Len(d) = Len(p) + Len(q)
      /\ SubSeq(d, 1, Len(p)) = p /\ SubSeq(d, Len(p) + 1, Len(d)) = q
  BY CutApart
<1> HIDE DEF d
<1>2. c = d => Joins(c, p, q)
  BY <1>1 DEF Joins
<1> QED
  BY <1>2 DEF d

\* The bytes b begin with the field f of kind n; behind it is t.
Leads(n, f, b, t) ==
  /\ f \in Bytes /\ t \in Bytes /\ OfWidth(n, f)
  /\ b = Coded(n, f) \o t

\* A field that stands at the beginning of the rest is accepted.
LEMMA FieldTakes ==
  ASSUME NEW rest, NEW val, NEW n \in Int \ {0}, NEW f, NEW t, Leads(n, f, rest, t)
  PROVE  Field(Ok(rest, val), n, Needs(n, rest)) = Ok(t, Append(val, f))
<1> DEFINE need == Needs(n, rest)
           g == SubSeq(rest, IF n > 0 THEN 1 ELSE 1 - n, need)
           u == SubSeq(rest, need + 1, Len(rest))
<1>a. f \in Bytes /\ t \in Bytes /\ OfWidth(n, f)
  BY DEF Leads
<1>b. rest = Coded(n, f) \o t
  BY DEF Leads
<1>0. Len(f) \in Nat /\ Len(t) \in Nat
  BY <1>a DEF Bytes
<1>1. ASSUME ~(need > Len(rest)), g = f, u = t
      PROVE  Field(Ok(rest, val), n, need) = Ok(t, Append(val, f))
  <2> HIDE DEF need
  <2> QED
    BY <1>1, OkParts DEF Field, Ok
<1>2. CASE n > 0
  <2>1. Coded(n, f) = f /\ Len(f) = n /\ need = n
    BY <1>2, <1>a DEF Coded, OfWidth, Needs
  <2>2. /\ Len(rest) = Len(f) + Len(t) /\ SubSeq(rest, 1, Len(f)) = f
        /\ SubSeq(rest, Len(f) + 1, Len(rest)) = t
    <3>1. rest = f \o t
      BY <1>b, <2>1
    <3>2. rest = f \o t => Joins(rest, f, t)
      BY <1>a, Apart, Zenon
    <3> QED
      BY <3>1, <3>2 DEF Joins
  <2>3. g = f /\ u = t /\ ~(need > Len(rest))
    BY <1>0, <1>2, <2>1, <2>2
  <2> QED
    BY <1>1, <2>3
<1>3. CASE ~(n > 0)
  <2> DEFINE m == -n
             p == Put(m, Len(f))
             q == f \o t
  <2>1. m \in Nat \ {0} /\ -n = m /\ 1 - n = m + 1
    BY <1>3
  <2> HIDE DEF m
  <2>2. p \in Bytes /\ Len(p) = m
    BY <1>0, <2>1, PutType DEF Bytes
  <2>3. ~Exceeds(m, Len(f)) /\ Coded(n, f) = p \o f
    BY <1>3, <1>a, <2>1 DEF Coded, OfWidth, Prefixed
  <2>4. Get(p) = Len(f)
    BY <1>0, <2>1, <2>3, GetPut
  <2> HIDE DEF p
  <2>5. rest = p \o q
    <3>1. rest = (p \o f) \o t
      BY <1>b, <2>3
    <3>2. (p \o f) \o t = p \o (f \o t)
      BY <1>a, <2>2, Associative, Zenon
    <3> QED
      BY <3>1, <3>2, Zenon
  <2>6. q \in Bytes /\ Len(q) = Len(f) + Len(t)
    BY <1>a, CutApart
  <2> HIDE DEF q
  <2>7. Len(rest) = m + Len(q) /\ SubSeq(rest, 1, m) = p
    <3>1. Len(rest) = Len(p) + Len(q) /\ SubSeq(rest, 1, Len(p)) = p
      <4>1. rest = p \o q => Joins(rest, p, q)
        BY <2>2, <2>6, Apart, Zenon
      <4> QED
        BY <2>5, <4>1 DEF Joins
    <3> QED
      BY <2>2, <3>1, Zenon
  <2>8. need = Get(p) - n
    <3>1. ~(Len(rest) < m)
      BY <1>0, <2>1, <2>6, <2>7
    <3>2. need = Get(SubSeq(rest, 1, m)) - n
      BY <1>3, <2>1, <3>1 DEF Needs
    <3> QED
      BY <2>7, <3>2
  <2> HIDE DEF need
  <2>9. need = m + Len(f) /\ ~(need > Len(rest))
    BY <1>0, <2>1, <2>4, <2>6, <2>7, <2>8
  <2> DEFINE pf == p \o f
  <2>10. pf \in Bytes /\ Len(pf) = m + Len(f) /\ SubSeq(pf, m + 1, m + Len(f)) = f
    <3>1. pf \in Bytes /\ Len(pf) = Len(p) + Len(f) /\ SubSeq(pf, Len(p) + 1, Len(pf)) = f
      BY <1>a, <2>2, CutApart, Zenon
    <3> HIDE DEF pf
    <3> QED
      BY <2>2, <3>1, Zenon
  <2>11. rest = pf \o t
    BY <1>b, <2>3
  <2> HIDE DEF pf
  <2>a. Joins(rest, pf, t)
    <3>1. rest = pf \o t => Joins(rest, pf, t)
      BY <1>a, <2>10, Apart, Zenon
    <3> QED
      BY <2>11, <3>1
  <2>12. u = t
    <3>1. SubSeq(rest, Len(pf) + 1, Len(rest)) = t
      BY <2>a DEF Joins
    <3> QED
      BY <2>9, <2>10, <3>1
  <2>13. g = f
    <3>1. rest \in Seq(Octet) /\ pf \in Seq(Octet) /\ t \in Seq(Octet) /\ f \in Seq(Octet)
      BY <1>a, <2>10, <2>a DEF Bytes, Joins
    <3>2. g = SubSeq(rest, m + 1, m + Len(f))
      BY <1>3, <2>1, <2>9
    <3> HIDE DEF g
    <3>3. m + Len(f) <= Len(rest) /\ m + Len(f) <= Len(pf) /\ Len(rest) \in Nat
      BY <1>0, <2>1, <2>6, <2>7, <2>10
    <3>4. g \in Seq(Octet) /\ Len(g) = Len(f) /\ \A i \in 1 .. Len(f) : g[i] = rest[m + i]
      BY <1>0, <2>1, <3>1, <3>2, <3>3, Slice
    <3>5. \A i \in 1 .. Len(f) : f[i] = pf[m + i]
      <4> DEFINE x == SubSeq(pf, m + 1, m + Len(f))
      <4>1. \A i \in 1 .. Len(f) : x[i] = pf[m + i]
        BY <1>0, <2>1, <3>1, <3>3, Slice
      <4>2. x = f
        BY <2>10
      <4> HIDE DEF x
      <4> QED
        BY <4>1, <4>2
    <3>6. ASSUME NEW i \in 1 .. Len(f) PROVE rest[m + i] = pf[m + i]
      <4>1. m + i \in 1 .. Len(pf)
        BY <1>0, <2>1, <2>10
      <4> QED
        BY <2>11, <3>1, <4>1
    <3> QED
      BY <3>1, <3>4, <3>5, <3>6, SeqEqual
  <2> HIDE DEF g, u
  <2> QED
    BY <1>1, <2>9, <2>12, <2>13 DEF need
<1> QED
  BY <1>2, <1>3

\* Of an empty shape nothing is read.
LEMMA ReadNone ==
  ASSUME NEW b
  PROVE  Read(<<>>, b) = Ok(b, <<>>)
<1>1. Len(<<>>) = 0
  OBVIOUS
<1>2. PICK g : Read(<<>>, b) = g[0] /\ g[0] = [ok |-> TRUE, rest |-> b, val |-> <<>>]
  BY <1>1, ReadLoop
<1> QED
  BY <1>2 DEF Ok

\* The reader after each field
ReadSteps(g, shape, b) ==
  /\ g[0] = [ok |-> TRUE, rest |-> b, val |-> <<>>]
  /\ \A i \in 1 .. Len(shape) :
       g[i] = IF g[i - 1].ok THEN Field(g[i - 1], shape[i], Needs(shape[i], g[i - 1].rest))
              ELSE Rejected

\* The reader is the last of its steps.
LEMMA ReadBySteps ==
  ASSUME NEW shape, Len(shape) \in Nat, NEW b
  PROVE  \E g : Read(shape, b) = g[Len(shape)] /\ ReadSteps(g, shape, b)
  BY ReadLoop DEF ReadSteps

\* One more field
LEMMA ReadMore ==
  ASSUME NEW shape \in Seq(Int), NEW n \in Int, NEW b
  PROVE  Read(Append(shape, n), b) =
           IF Read(shape, b).ok
           THEN Field(Read(shape, b), n, Needs(n, Read(shape, b).rest))
           ELSE Rejected
<1> DEFINE a == [ok |-> TRUE, rest |-> b, val |-> <<>>]
           Step(x, k) == IF x.ok THEN Field(x, k, Needs(k, x.rest)) ELSE Rejected
           more == Append(shape, n)
           m == Len(shape)
<1>0. /\ m \in Nat /\ Len(more) = m + 1 /\ more[m + 1] = n
      /\ \A i \in 1 .. m : more[i] = shape[i]
  OBVIOUS
<1> HIDE DEF more
<1>1. PICK g : /\ Read(shape, b) = g[m] /\ g[0] = a
               /\ \A i \in 1 .. m : g[i] = Step(g[i - 1], shape[i])
  BY <1>0, ReadLoop
<1>2. PICK h : /\ Read(more, b) = h[m + 1] /\ h[0] = a
               /\ \A i \in 1 .. m + 1 : h[i] = Step(h[i - 1], more[i])
  <2>1. Len(more) \in Nat
    BY <1>0
  <2>2. PICK h : Read(more, b) = h[Len(more)] /\ ReadSteps(h, more, b)
    BY <2>1, ReadBySteps, Zenon
  <2>3. h[0] = a /\ \A i \in 1 .. Len(more) : h[i] = Step(h[i - 1], more[i])
    BY <2>2, Zenon DEF ReadSteps
  <2> HIDE DEF Step, a
  <2> QED
    BY <1>0, <2>2, <2>3
<1> HIDE DEF Step, a, m
<1> DEFINE T == {i \in 0 .. m : g[i] = h[i]}
<1>3. 0 \in T
  BY <1>0, <1>1, <1>2
<1>4. ASSUME NEW i \in 0 .. m - 1, i \in T PROVE i + 1 \in T
  <2>1. i + 1 \in 1 .. m /\ i + 1 \in 1 .. m + 1 /\ (i + 1) - 1 = i /\ i + 1 \in 0 .. m
    BY <1>0
  <2>2. g[i + 1] = Step(g[i], shape[i + 1]) /\ h[i + 1] = Step(h[i], more[i + 1])
    BY <1>1, <1>2, <2>1
  <2>3. g[i] = h[i] /\ more[i + 1] = shape[i + 1]
    BY <1>0, <1>4, <2>1
  <2>4. g[i + 1] = h[i + 1]
    BY <2>2, <2>3, Zenon
  <2> QED
    BY <2>1, <2>4
<1> HIDE DEF T
<1>5. g[m] = h[m]
  <2>1. 0 .. m \subseteq T
    BY <1>0, <1>3, <1>4, BoundedInduction
  <2> QED
    BY <1>0, <2>1 DEF T
<1>6. h[m + 1] = Step(h[m], n)
  <2>1. m + 1 \in 1 .. m + 1 /\ (m + 1) - 1 = m
    BY <1>0
  <2> QED
    BY <1>0, <1>2, <2>1
<1>7. Read(more, b) = Step(Read(shape, b), n)
  BY <1>1, <1>2, <1>5, <1>6
<1> QED
  BY <1>7, Zenon DEF Step, more

\* Reading the shape off b takes the bytes e, gives the fields v and leaves t.
Reads(shape, b, e, v, t) ==
  /\ e \in Bytes /\ t \in Bytes /\ v \in Seq(Bytes) /\ b = e \o t
  /\ Read(shape, b) = Ok(t, v)

\* An empty shape consumes nothing.
LEMMA ReadsNone ==
  ASSUME NEW b \in Bytes
  PROVE  Reads(<<>>, b, <<>>, <<>>, b)
<1>1. <<>> \in Bytes /\ <<>> \in Seq(Bytes) /\ b = <<>> \o b
  BY DEF Bytes
<1> QED
  BY <1>1, ReadNone DEF Reads

\* What is accepted with one more field is accepted without it.
LEMMA ReadsLess ==
  ASSUME NEW shape \in Seq(Int), NEW n \in Int, NEW b
  PROVE  Read(Append(shape, n), b).ok => Read(shape, b).ok
<1>1. CASE ~Read(shape, b).ok
  <2>1. Read(Append(shape, n), b) = Rejected
    BY <1>1, ReadMore, Zenon
  <2> QED
    BY <2>1, RejectedNotOk
<1> QED
  BY <1>1

\* The field after those of shape, from what is accepted
LEMMA ReadsMore ==
  ASSUME NEW shape \in Seq(Int), NEW n \in Int \ {0}, NEW b, NEW e, NEW v, NEW t,
         Reads(shape, b, e, v, t), Read(Append(shape, n), b).ok
  PROVE  \E f, u :
           /\ Leads(n, f, t, u)
           /\ Reads(Append(shape, n), b, e \o Coded(n, f), Append(v, f), u)
<1>1. /\ e \in Bytes /\ t \in Bytes /\ v \in Seq(Bytes) /\ b = e \o t
      /\ Read(shape, b) = Ok(t, v)
  BY DEF Reads
<1>2. Read(Append(shape, n), b) = Field(Ok(t, v), n, Needs(n, t))
  <2> DEFINE r == Read(shape, b)
  <2>1. r.ok /\ r.rest = t /\ r = Ok(t, v)
    <3>1. r = Ok(t, v)
      BY <1>1
    <3>2. Ok(t, v).ok /\ Ok(t, v).rest = t
      BY OkParts
    <3> HIDE DEF r
    <3> QED
      BY <3>1, <3>2
  <2>2. Read(Append(shape, n), b) = IF r.ok THEN Field(r, n, Needs(n, r.rest)) ELSE Rejected
    BY ReadMore
  <2> HIDE DEF r
  <2> QED
    BY <2>1, <2>2, Zenon
<1>3. PICK f \in Bytes, u \in Bytes :
        /\ OfWidth(n, f) /\ t = Coded(n, f) \o u
        /\ Field(Ok(t, v), n, Needs(n, t)) = Ok(u, Append(v, f))
  BY <1>1, <1>2, FieldSplits
<1> DEFINE c == Coded(n, f)
<1>4. c \in Bytes
  BY CodedType
<1>5. e \o c \in Bytes
  BY <1>1, <1>4, CutApart
<1> HIDE DEF c
<1>6. b = (e \o c) \o u
  <2>1. b = e \o (c \o u)
    BY <1>1, <1>3 DEF c
  <2>2. (e \o c) \o u = e \o (c \o u)
    <3>1. e \in Bytes /\ u \in Bytes
      BY <1>1
    <3> QED
      BY <1>4, <3>1, Associative
  <2> QED
    BY <2>1, <2>2, Zenon
<1>7. Append(v, f) \in Seq(Bytes)
  BY <1>1
<1>8. Leads(n, f, t, u)
  BY <1>3 DEF Leads
<1> QED
  BY <1>2, <1>3, <1>5, <1>6, <1>7, <1>8 DEF Reads, c

\* The field after those of shape, from the bytes that are there
LEMMA ReadsOn ==
  ASSUME NEW shape \in Seq(Int), NEW n \in Int \ {0}, NEW b, NEW e, NEW v, NEW t,
         NEW f, NEW u, Reads(shape, b, e, v, t), Leads(n, f, t, u)
  PROVE  Reads(Append(shape, n), b, e \o Coded(n, f), Append(v, f), u)
<1>1. /\ e \in Bytes /\ t \in Bytes /\ v \in Seq(Bytes) /\ b = e \o t
      /\ Read(shape, b) = Ok(t, v)
  BY DEF Reads
<1>2. Read(Append(shape, n), b) = Field(Ok(t, v), n, Needs(n, t))
  <2> DEFINE r == Read(shape, b)
  <2>1. r.ok /\ r.rest = t /\ r = Ok(t, v)
    <3>1. r = Ok(t, v)
      BY <1>1
    <3>2. Ok(t, v).ok /\ Ok(t, v).rest = t
      BY OkParts
    <3> HIDE DEF r
    <3> QED
      BY <3>1, <3>2
  <2>2. Read(Append(shape, n), b) = IF r.ok THEN Field(r, n, Needs(n, r.rest)) ELSE Rejected
    BY ReadMore
  <2> HIDE DEF r
  <2> QED
    BY <2>1, <2>2, Zenon
<1>3. Field(Ok(t, v), n, Needs(n, t)) = Ok(u, Append(v, f))
  <2> DEFINE x == Field(Ok(t, v), n, Needs(n, t))
             y == Ok(u, Append(v, f))
  <2>1. x = y
    BY FieldTakes
  <2> HIDE DEF x, y
  <2> QED
    BY <2>1 DEF x, y
<1> DEFINE c == Coded(n, f)
<1>a. f \in Bytes /\ u \in Bytes /\ t = c \o u
  BY DEF Leads
<1>4. c \in Bytes
  BY <1>a, CodedType
<1>5. e \o c \in Bytes
  BY <1>1, <1>4, CutApart
<1> HIDE DEF c
<1>6. b = (e \o c) \o u
  <2>1. b = e \o (c \o u)
    BY <1>1, <1>a
  <2>2. (e \o c) \o u = e \o (c \o u)
    BY <1>1, <1>a, <1>4, Associative, Zenon
  <2> QED
    BY <2>1, <2>2, Zenon
<1>7. Append(v, f) \in Seq(Bytes)
  BY <1>1, <1>a
<1> QED
  BY <1>1, <1>2, <1>3, <1>a, <1>5, <1>6, <1>7 DEF Reads, c

\* A field of kind n
Width(n, f) == f \in Bytes /\ OfWidth(n, f)

\* Short lists, one longer
LEMMA AppendTwo ==
  ASSUME NEW x1, NEW x2
  PROVE  Append(<<x1>>, x2) = <<x1, x2>>
<1> DEFINE S == {x1, x2}
           a == <<x1>>
           s == Append(a, x2)
           t == <<x1, x2>>
<1>1. x1 \in S /\ x2 \in S
  OBVIOUS
<1> HIDE DEF S
<1>2. a \in Seq(S) /\ Len(a) = 1 /\ a[1] = x1
  BY <1>1
<1> HIDE DEF a
<1>3. s \in Seq(S) /\ Len(s) = 2 /\ s[1] = x1 /\ s[2] = x2
  <2>1. /\ s \in Seq(S) /\ Len(s) = Len(a) + 1 /\ s[Len(a) + 1] = x2
        /\ \A i \in 1 .. Len(a) : s[i] = a[i]
    <3>1. a \in Seq(S) /\ x2 \in S
      BY <1>1, <1>2, Zenon
    <3> QED
      BY <3>1
  <2> HIDE DEF s
  <2> QED
    BY <1>2, <2>1
<1>4. t \in Seq(S) /\ Len(t) = 2 /\ t[1] = x1 /\ t[2] = x2
  BY <1>1
<1> HIDE DEF s, t
<1>5. \A i \in 1 .. Len(s) : s[i] = t[i]
  BY <1>3, <1>4
<1>6. s = t
  BY <1>3, <1>4, <1>5, SeqEqual
<1> QED
  BY <1>6 DEF s, t, a

\* Two of them and one more
LEMMA AppendThree ==
  ASSUME NEW x1, NEW x2, NEW x3
  PROVE  Append(<<x1, x2>>, x3) = <<x1, x2, x3>>
<1> DEFINE S == {x1, x2, x3}
           a == <<x1, x2>>
           s == Append(a, x3)
           t == <<x1, x2, x3>>
<1>1. x1 \in S /\ x2 \in S /\ x3 \in S
  OBVIOUS
<1> HIDE DEF S
<1>2. a \in Seq(S) /\ Len(a) = 2 /\ a[1] = x1 /\ a[2] = x2
  BY <1>1
<1> HIDE DEF a
<1>3. s \in Seq(S) /\ Len(s) = 3 /\ s[1] = x1 /\ s[2] = x2 /\ s[3] = x3
  <2>1. /\ s \in Seq(S) /\ Len(s) = Len(a) + 1 /\ s[Len(a) + 1] = x3
        /\ \A i \in 1 .. Len(a) : s[i] = a[i]
    <3>1. a \in Seq(S) /\ x3 \in S
      BY <1>1, <1>2, Zenon
    <3> QED
      BY <3>1
  <2> HIDE DEF s
  <2> QED
    BY <1>2, <2>1
<1>4. t \in Seq(S) /\ Len(t) = 3 /\ t[1] = x1 /\ t[2] = x2 /\ t[3] = x3
  BY <1>1
<1> HIDE DEF s, t
<1>5. \A i \in 1 .. Len(s) : s[i] = t[i]
  BY <1>3, <1>4
<1>6. s = t
  BY <1>3, <1>4, <1>5, SeqEqual
<1> QED
  BY <1>6 DEF s, t, a

\* Three of them and one more
LEMMA AppendFour ==
  ASSUME NEW x1, NEW x2, NEW x3, NEW x4
  PROVE  Append(<<x1, x2, x3>>, x4) = <<x1, x2, x3, x4>>
<1> DEFINE S == {x1, x2, x3, x4}
           a == <<x1, x2, x3>>
           s == Append(a, x4)
           t == <<x1, x2, x3, x4>>
<1>1. x1 \in S /\ x2 \in S /\ x3 \in S /\ x4 \in S
  OBVIOUS
<1> HIDE DEF S
<1>2. a \in Seq(S) /\ Len(a) = 3 /\ a[1] = x1 /\ a[2] = x2 /\ a[3] = x3
  BY <1>1
<1> HIDE DEF a
<1>3. s \in Seq(S) /\ Len(s) = 4 /\ s[1] = x1 /\ s[2] = x2 /\ s[3] = x3 /\ s[4] = x4
  <2>1. /\ s \in Seq(S) /\ Len(s) = Len(a) + 1 /\ s[Len(a) + 1] = x4
        /\ \A i \in 1 .. Len(a) : s[i] = a[i]
    <3>1. a \in Seq(S) /\ x4 \in S
      BY <1>1, <1>2, Zenon
    <3> QED
      BY <3>1
  <2> HIDE DEF s
  <2> QED
    BY <1>2, <2>1
<1>4. t \in Seq(S) /\ Len(t) = 4 /\ t[1] = x1 /\ t[2] = x2 /\ t[3] = x3 /\ t[4] = x4
  BY <1>1
<1> HIDE DEF s, t
<1>5. \A i \in 1 .. Len(s) : s[i] = t[i]
  BY <1>3, <1>4
<1>6. s = t
  BY <1>3, <1>4, <1>5, SeqEqual
<1> QED
  BY <1>6 DEF s, t, a

\* Four of them and one more
LEMMA AppendFive ==
  ASSUME NEW x1, NEW x2, NEW x3, NEW x4, NEW x5
  PROVE  Append(<<x1, x2, x3, x4>>, x5) = <<x1, x2, x3, x4, x5>>
<1> DEFINE S == {x1, x2, x3, x4, x5}
           a == <<x1, x2, x3, x4>>
           s == Append(a, x5)
           t == <<x1, x2, x3, x4, x5>>
<1>1. x1 \in S /\ x2 \in S /\ x3 \in S /\ x4 \in S /\ x5 \in S
  OBVIOUS
<1> HIDE DEF S
<1>2. a \in Seq(S) /\ Len(a) = 4 /\ a[1] = x1 /\ a[2] = x2 /\ a[3] = x3 /\ a[4] = x4
  BY <1>1
<1> HIDE DEF a
<1>3. s \in Seq(S) /\ Len(s) = 5 /\ s[1] = x1 /\ s[2] = x2 /\ s[3] = x3 /\ s[4] = x4 /\ s[5] = x5
  <2>1. /\ s \in Seq(S) /\ Len(s) = Len(a) + 1 /\ s[Len(a) + 1] = x5
        /\ \A i \in 1 .. Len(a) : s[i] = a[i]
    <3>1. a \in Seq(S) /\ x5 \in S
      BY <1>1, <1>2, Zenon
    <3> QED
      BY <3>1
  <2> HIDE DEF s
  <2> QED
    BY <1>2, <2>1
<1>4. t \in Seq(S) /\ Len(t) = 5 /\ t[1] = x1 /\ t[2] = x2 /\ t[3] = x3 /\ t[4] = x4 /\ t[5] = x5
  BY <1>1
<1> HIDE DEF s, t
<1>5. \A i \in 1 .. Len(s) : s[i] = t[i]
  BY <1>3, <1>4
<1>6. s = t
  BY <1>3, <1>4, <1>5, SeqEqual
<1> QED
  BY <1>6 DEF s, t, a

\* Five of them and one more
LEMMA AppendSix ==
  ASSUME NEW x1, NEW x2, NEW x3, NEW x4, NEW x5, NEW x6
  PROVE  Append(<<x1, x2, x3, x4, x5>>, x6) = <<x1, x2, x3, x4, x5, x6>>
<1> DEFINE S == {x1, x2, x3, x4, x5, x6}
           a == <<x1, x2, x3, x4, x5>>
           s == Append(a, x6)
           t == <<x1, x2, x3, x4, x5, x6>>
<1>1. x1 \in S /\ x2 \in S /\ x3 \in S /\ x4 \in S /\ x5 \in S /\ x6 \in S
  OBVIOUS
<1> HIDE DEF S
<1>2. a \in Seq(S) /\ Len(a) = 5 /\ a[1] = x1 /\ a[2] = x2 /\ a[3] = x3 /\ a[4] = x4 /\ a[5] = x5
  BY <1>1
<1> HIDE DEF a
<1>3. s \in Seq(S) /\ Len(s) = 6 /\ s[1] = x1 /\ s[2] = x2 /\ s[3] = x3 /\ s[4] = x4 /\ s[5] = x5 /\ s[6] = x6
  <2>1. /\ s \in Seq(S) /\ Len(s) = Len(a) + 1 /\ s[Len(a) + 1] = x6
        /\ \A i \in 1 .. Len(a) : s[i] = a[i]
    <3>1. a \in Seq(S) /\ x6 \in S
      BY <1>1, <1>2, Zenon
    <3> QED
      BY <3>1
  <2> HIDE DEF s
  <2> QED
    BY <1>2, <2>1
<1>4. t \in Seq(S) /\ Len(t) = 6 /\ t[1] = x1 /\ t[2] = x2 /\ t[3] = x3 /\ t[4] = x4 /\ t[5] = x5 /\ t[6] = x6
  BY <1>1
<1> HIDE DEF s, t
<1>5. \A i \in 1 .. Len(s) : s[i] = t[i]
  BY <1>3, <1>4
<1>6. s = t
  BY <1>3, <1>4, <1>5, SeqEqual
<1> QED
  BY <1>6 DEF s, t, a

\* Six of them and one more
LEMMA AppendSeven ==
  ASSUME NEW x1, NEW x2, NEW x3, NEW x4, NEW x5, NEW x6, NEW x7
  PROVE  Append(<<x1, x2, x3, x4, x5, x6>>, x7) = <<x1, x2, x3, x4, x5, x6, x7>>
<1> DEFINE S == {x1, x2, x3, x4, x5, x6, x7}
           a == <<x1, x2, x3, x4, x5, x6>>
           s == Append(a, x7)
           t == <<x1, x2, x3, x4, x5, x6, x7>>
<1>1. x1 \in S /\ x2 \in S /\ x3 \in S /\ x4 \in S /\ x5 \in S /\ x6 \in S /\ x7 \in S
  OBVIOUS
<1> HIDE DEF S
<1>2. a \in Seq(S) /\ Len(a) = 6 /\ a[1] = x1 /\ a[2] = x2 /\ a[3] = x3 /\ a[4] = x4 /\ a[5] = x5 /\ a[6] = x6
  BY <1>1
<1> HIDE DEF a
<1>3. s \in Seq(S) /\ Len(s) = 7 /\ s[1] = x1 /\ s[2] = x2 /\ s[3] = x3 /\ s[4] = x4 /\ s[5] = x5 /\ s[6] = x6 /\ s[7] = x7
  <2>1. /\ s \in Seq(S) /\ Len(s) = Len(a) + 1 /\ s[Len(a) + 1] = x7
        /\ \A i \in 1 .. Len(a) : s[i] = a[i]
    <3>1. a \in Seq(S) /\ x7 \in S
      BY <1>1, <1>2, Zenon
    <3> QED
      BY <3>1
  <2> HIDE DEF s
  <2> QED
    BY <1>2, <2>1
<1>4. t \in Seq(S) /\ Len(t) = 7 /\ t[1] = x1 /\ t[2] = x2 /\ t[3] = x3 /\ t[4] = x4 /\ t[5] = x5 /\ t[6] = x6 /\ t[7] = x7
  BY <1>1
<1> HIDE DEF s, t
<1>5. \A i \in 1 .. Len(s) : s[i] = t[i]
  BY <1>3, <1>4
<1>6. s = t
  BY <1>3, <1>4, <1>5, SeqEqual
<1> QED
  BY <1>6 DEF s, t, a

One(n, b) ==
  \E f, t : Width(n, f) /\ Reads(<<n>>, b, Coded(n, f), <<f>>, t)

\* What a reader of one field accepts
LEMMA ReadsOne ==
  ASSUME NEW n \in Int \ {0}, NEW b \in Bytes, Read(<<n>>, b).ok
  PROVE  One(n, b)
<1>1. <<>> \in Seq(Int) /\ Append(<<>>, n) = <<n>>
  OBVIOUS
<1>2. Read(Append(<<>>, n), b).ok
  BY <1>1
<1>3. PICK f, t : /\ Leads(n, f, b, t)
                  /\ Reads(Append(<<>>, n), b, <<>> \o Coded(n, f), Append(<<>>, f), t)
  BY <1>1, <1>2, ReadsNone, ReadsMore
<1>4. Width(n, f)
  BY <1>3 DEF Leads, Width
<1>5. Coded(n, f) \in Seq(Octet)
  BY <1>4, CodedType DEF Width, Bytes
<1>6. <<>> \o Coded(n, f) = Coded(n, f) /\ Append(<<>>, f) = <<f>>
  BY <1>5
<1> QED
  BY <1>1, <1>3, <1>4, <1>6 DEF One

Two(n1, n2, b) ==
  \E f1, f2, t :
    /\ Width(n1, f1) /\ Width(n2, f2)
    /\ Reads(<<n1, n2>>, b,
             Coded(n1, f1) \o Coded(n2, f2),
             <<f1, f2>>, t)

\* What a reader of two fields accepts
LEMMA ReadsTwo ==
  ASSUME NEW n1 \in Int \ {0}, NEW n2 \in Int \ {0},
         NEW b \in Bytes, Read(<<n1, n2>>, b).ok
  PROVE  Two(n1, n2, b)
<1> DEFINE s == <<n1>>
<1>1. s \in Seq(Int) /\ Append(s, n2) = <<n1, n2>>
  BY AppendTwo
<1>2. Read(Append(s, n2), b).ok
  BY <1>1
<1> HIDE DEF s
<1>3. Read(s, b).ok
  BY <1>1, <1>2, ReadsLess
<1>4. Read(<<n1>>, b).ok
  BY <1>3 DEF s
<1>a. One(n1, b)
  BY <1>4, ReadsOne, Zenon
<1>5. PICK f1, u :
        /\ Width(n1, f1)
        /\ Reads(<<n1>>, b, Coded(n1, f1),
                 <<f1>>, u)
  BY <1>a, Zenon DEF One
<1> DEFINE e == Coded(n1, f1)
           v == <<f1>>
<1>6. Reads(s, b, e, v, u)
  BY <1>5 DEF s
<1> HIDE DEF e, v
<1>7. PICK f2, t :
        /\ Leads(n2, f2, u, t)
        /\ Reads(Append(s, n2), b, e \o Coded(n2, f2), Append(v, f2), t)
  BY <1>1, <1>2, <1>6, ReadsMore
<1>8. Width(n2, f2)
  BY <1>7 DEF Leads, Width
<1>9. Append(v, f2) = <<f1, f2>>
  BY AppendTwo DEF v
<1> QED
  BY <1>1, <1>5, <1>7, <1>8, <1>9 DEF e, Two

Three(n1, n2, n3, b) ==
  \E f1, f2, f3, t :
    /\ Width(n1, f1) /\ Width(n2, f2) /\ Width(n3, f3)
    /\ Reads(<<n1, n2, n3>>, b,
             Coded(n1, f1) \o Coded(n2, f2) \o Coded(n3, f3),
             <<f1, f2, f3>>, t)

\* What a reader of three fields accepts
LEMMA ReadsThree ==
  ASSUME NEW n1 \in Int \ {0}, NEW n2 \in Int \ {0}, NEW n3 \in Int \ {0},
         NEW b \in Bytes, Read(<<n1, n2, n3>>, b).ok
  PROVE  Three(n1, n2, n3, b)
<1> DEFINE s == <<n1, n2>>
<1>1. s \in Seq(Int) /\ Append(s, n3) = <<n1, n2, n3>>
  BY AppendThree
<1>2. Read(Append(s, n3), b).ok
  BY <1>1
<1> HIDE DEF s
<1>3. Read(s, b).ok
  BY <1>1, <1>2, ReadsLess
<1>4. Read(<<n1, n2>>, b).ok
  BY <1>3 DEF s
<1>a. Two(n1, n2, b)
  BY <1>4, ReadsTwo, Zenon
<1>5. PICK f1, f2, u :
        /\ Width(n1, f1) /\ Width(n2, f2)
        /\ Reads(<<n1, n2>>, b, Coded(n1, f1) \o Coded(n2, f2),
                 <<f1, f2>>, u)
  BY <1>a, Zenon DEF Two
<1> DEFINE e == Coded(n1, f1) \o Coded(n2, f2)
           v == <<f1, f2>>
<1>6. Reads(s, b, e, v, u)
  BY <1>5 DEF s
<1> HIDE DEF e, v
<1>7. PICK f3, t :
        /\ Leads(n3, f3, u, t)
        /\ Reads(Append(s, n3), b, e \o Coded(n3, f3), Append(v, f3), t)
  BY <1>1, <1>2, <1>6, ReadsMore
<1>8. Width(n3, f3)
  BY <1>7 DEF Leads, Width
<1>9. Append(v, f3) = <<f1, f2, f3>>
  BY AppendThree DEF v
<1> QED
  BY <1>1, <1>5, <1>7, <1>8, <1>9 DEF e, Three

Four(n1, n2, n3, n4, b) ==
  \E f1, f2, f3, f4, t :
    /\ Width(n1, f1) /\ Width(n2, f2) /\ Width(n3, f3) /\ Width(n4, f4)
    /\ Reads(<<n1, n2, n3, n4>>, b,
             Coded(n1, f1) \o Coded(n2, f2) \o Coded(n3, f3) \o Coded(n4, f4),
             <<f1, f2, f3, f4>>, t)

\* What a reader of four fields accepts
LEMMA ReadsFour ==
  ASSUME NEW n1 \in Int \ {0}, NEW n2 \in Int \ {0}, NEW n3 \in Int \ {0}, NEW n4 \in Int \ {0},
         NEW b \in Bytes, Read(<<n1, n2, n3, n4>>, b).ok
  PROVE  Four(n1, n2, n3, n4, b)
<1> DEFINE s == <<n1, n2, n3>>
<1>1. s \in Seq(Int) /\ Append(s, n4) = <<n1, n2, n3, n4>>
  BY AppendFour
<1>2. Read(Append(s, n4), b).ok
  BY <1>1
<1> HIDE DEF s
<1>3. Read(s, b).ok
  BY <1>1, <1>2, ReadsLess
<1>4. Read(<<n1, n2, n3>>, b).ok
  BY <1>3 DEF s
<1>a. Three(n1, n2, n3, b)
  BY <1>4, ReadsThree, Zenon
<1>5. PICK f1, f2, f3, u :
        /\ Width(n1, f1) /\ Width(n2, f2) /\ Width(n3, f3)
        /\ Reads(<<n1, n2, n3>>, b, Coded(n1, f1) \o Coded(n2, f2) \o Coded(n3, f3),
                 <<f1, f2, f3>>, u)
  BY <1>a, Zenon DEF Three
<1> DEFINE e == Coded(n1, f1) \o Coded(n2, f2) \o Coded(n3, f3)
           v == <<f1, f2, f3>>
<1>6. Reads(s, b, e, v, u)
  BY <1>5 DEF s
<1> HIDE DEF e, v
<1>7. PICK f4, t :
        /\ Leads(n4, f4, u, t)
        /\ Reads(Append(s, n4), b, e \o Coded(n4, f4), Append(v, f4), t)
  BY <1>1, <1>2, <1>6, ReadsMore
<1>8. Width(n4, f4)
  BY <1>7 DEF Leads, Width
<1>9. Append(v, f4) = <<f1, f2, f3, f4>>
  BY AppendFour DEF v
<1> QED
  BY <1>1, <1>5, <1>7, <1>8, <1>9 DEF e, Four

Five(n1, n2, n3, n4, n5, b) ==
  \E f1, f2, f3, f4, f5, t :
    /\ Width(n1, f1) /\ Width(n2, f2) /\ Width(n3, f3) /\ Width(n4, f4) /\ Width(n5, f5)
    /\ Reads(<<n1, n2, n3, n4, n5>>, b,
             Coded(n1, f1) \o Coded(n2, f2) \o Coded(n3, f3) \o Coded(n4, f4) \o Coded(n5, f5),
             <<f1, f2, f3, f4, f5>>, t)

\* What a reader of five fields accepts
LEMMA ReadsFive ==
  ASSUME NEW n1 \in Int \ {0}, NEW n2 \in Int \ {0}, NEW n3 \in Int \ {0}, NEW n4 \in Int \ {0}, NEW n5 \in Int \ {0},
         NEW b \in Bytes, Read(<<n1, n2, n3, n4, n5>>, b).ok
  PROVE  Five(n1, n2, n3, n4, n5, b)
<1> DEFINE s == <<n1, n2, n3, n4>>
<1>1. s \in Seq(Int) /\ Append(s, n5) = <<n1, n2, n3, n4, n5>>
  BY AppendFive
<1>2. Read(Append(s, n5), b).ok
  BY <1>1
<1> HIDE DEF s
<1>3. Read(s, b).ok
  BY <1>1, <1>2, ReadsLess
<1>4. Read(<<n1, n2, n3, n4>>, b).ok
  BY <1>3 DEF s
<1>a. Four(n1, n2, n3, n4, b)
  BY <1>4, ReadsFour, Zenon
<1>5. PICK f1, f2, f3, f4, u :
        /\ Width(n1, f1) /\ Width(n2, f2) /\ Width(n3, f3) /\ Width(n4, f4)
        /\ Reads(<<n1, n2, n3, n4>>, b, Coded(n1, f1) \o Coded(n2, f2) \o Coded(n3, f3) \o Coded(n4, f4),
                 <<f1, f2, f3, f4>>, u)
  BY <1>a, Zenon DEF Four
<1> DEFINE e == Coded(n1, f1) \o Coded(n2, f2) \o Coded(n3, f3) \o Coded(n4, f4)
           v == <<f1, f2, f3, f4>>
<1>6. Reads(s, b, e, v, u)
  BY <1>5 DEF s
<1> HIDE DEF e, v
<1>7. PICK f5, t :
        /\ Leads(n5, f5, u, t)
        /\ Reads(Append(s, n5), b, e \o Coded(n5, f5), Append(v, f5), t)
  BY <1>1, <1>2, <1>6, ReadsMore
<1>8. Width(n5, f5)
  BY <1>7 DEF Leads, Width
<1>9. Append(v, f5) = <<f1, f2, f3, f4, f5>>
  BY AppendFive DEF v
<1> QED
  BY <1>1, <1>5, <1>7, <1>8, <1>9 DEF e, Five

-----------------------------------------------------------------------------
(* Headers are the only encoding of their fields.                          *)

\* A field of fixed width is written as it was read.
LEMMA FixedAgain ==
  ASSUME NEW n \in Nat \ {0}, NEW f, Width(n, f)
  PROVE  Coded(n, f) = f /\ Put(n, Get(f)) = f /\ ~Exceeds(n, Get(f)) /\ Get(f) \in Nat
<1>1. f \in Seq(Octet) /\ Len(f) = n
  BY DEF Width, OfWidth, Bytes
<1> QED
  BY <1>1, PutGet, GetType DEF Coded

\* So is a vector behind its length.
LEMMA VectorAgain ==
  ASSUME NEW n \in Nat \ {0}, NEW f, Width(-n, f)
  PROVE  Coded(-n, f) = Prefixed(n, f) /\ ~Exceeds(n, Len(f))
<1>1. ~(-n > 0) /\ -(-n) = n
  OBVIOUS
<1> QED
  BY <1>1 DEF Coded, Width, OfWidth

\* Written again, w is what b begins with.
Again(w, b) == w.ok /\ IsPrefix(w.bytes, b)

\* A serializer with room for the buffer writes what the buffer begins with.
LEMMA BytesAgain ==
  ASSUME NEW b \in Bytes, NEW e \in Bytes, NEW t \in Bytes, b = e \o t, Len(b) <= BufCap
  PROVE  Again(Written(e), b) /\ Written(e).bytes = e
<1>1. Joins(b, e, t)
  <2>1. b = e \o t => Joins(b, e, t)
    BY Apart, Zenon
  <2> QED
    BY <2>1
<1>2. Len(e) \in Nat /\ Len(t) \in Nat /\ BufCap \in Nat
  BY CodecAssumption DEF Bytes
<1>3. Len(b) = Len(e) + Len(t) /\ SubSeq(b, 1, Len(e)) = e
  BY <1>1 DEF Joins
<1>4. Len(e) <= BufCap /\ Len(e) <= Len(b)
  BY <1>2, <1>3
<1>5. SubSeq(e, 1, Len(e)) = e
  BY DEF Bytes
<1>6. IsPrefix(e, b)
  BY <1>3, <1>4, <1>5 DEF IsPrefix
<1> QED
  BY <1>4, <1>6 DEF Written, Again

\* The same for what a reader consumed
LEMMA WrittenAgain ==
  ASSUME NEW shape, NEW b \in Bytes, NEW e, NEW v, NEW t, Reads(shape, b, e, v, t),
         Len(b) <= BufCap
  PROVE  Again(Written(e), b) /\ Written(e).bytes = e
  BY BytesAgain DEF Reads

\* nd_plaintext_serialize writes what nd_plaintext_parse consumed.
LEMMA PlaintextAgain ==
  ASSUME NEW b \in Bytes, Len(b) <= BufCap, PlaintextParse(b).ok
  PROVE  Again(PlaintextSerialize(PlaintextParse(b)), b)
<1> DEFINE r == Read(<<1, 2, 2, SeqLen, -2>>, b)
           h == Plaintext(r)
<1>0. SeqLen \in Nat \ {0} /\ SeqLen \in Int \ {0} /\ -2 \in Int \ {0}
  BY CodecAssumption
<1>1. r.ok
  <2> HIDE DEF r
  <2> QED
    BY RejectedNotOk DEF PlaintextParse, Plaintext, r
<1>2. Five(1, 2, 2, SeqLen, -2, b)
  BY <1>0, <1>1, ReadsFive
<1>3. PICK f1, f2, f3, f4, f5, t :
        /\ Width(1, f1) /\ Width(2, f2) /\ Width(2, f3) /\ Width(SeqLen, f4) /\ Width(-2, f5)
        /\ Reads(<<1, 2, 2, SeqLen, -2>>, b,
                 Coded(1, f1) \o Coded(2, f2) \o Coded(2, f3) \o Coded(SeqLen, f4) \o Coded(-2, f5),
                 <<f1, f2, f3, f4, f5>>, t)
  BY <1>2, Zenon DEF Five
<1>4. /\ Coded(1, f1) = f1 /\ Put(1, Get(f1)) = f1
      /\ Coded(2, f2) = f2 /\ Put(2, Get(f2)) = f2
      /\ Coded(2, f3) = f3 /\ Put(2, Get(f3)) = f3
      /\ Coded(SeqLen, f4) = f4 /\ Put(SeqLen, Get(f4)) = f4 /\ ~Exceeds(SeqLen, Get(f4))
  BY <1>0, <1>3, FixedAgain
<1>5. Coded(-2, f5) = Prefixed(2, f5) /\ ~Exceeds(2, Len(f5))
  BY <1>3, VectorAgain
<1> DEFINE v == <<f1, f2, f3, f4, f5>>
           e == f1 \o f2 \o f3 \o f4 \o Prefixed(2, f5)
<1>6. Reads(<<1, 2, 2, SeqLen, -2>>, b, e, v, t)
  BY <1>3, <1>4, <1>5
<1>7. r = Ok(t, v)
  BY <1>6, Zenon DEF Reads
<1>8. v[1] = f1 /\ v[2] = f2 /\ v[3] = f3 /\ v[4] = f4 /\ v[5] = f5
  OBVIOUS
<1> HIDE DEF v, r
<1>9. /\ h.type = Get(f1) /\ h.version = Get(f2) /\ h.epoch = Get(f3) /\ h.seq = Get(f4)
      /\ h.fragment = f5
  BY <1>7, <1>8 DEF Plaintext, Ok
<1> HIDE DEF h
<1>10. PlaintextSerialize(h) = Written(e)
  BY <1>4, <1>5, <1>9 DEF PlaintextSerialize
<1> HIDE DEF e
<1>11. Again(Written(e), b)
  BY <1>6, WrittenAgain
<1> QED
  BY <1>10, <1>11 DEF h, r, PlaintextParse

\* nd_handshake_serialize writes what nd_handshake_parse consumed.
LEMMA HandshakeAgain ==
  ASSUME NEW b \in Bytes, Len(b) <= BufCap, HandshakeParse(b).ok
  PROVE  Again(HandshakeSerialize(HandshakeParse(b)), b)
<1> DEFINE r == Read(<<1, 3, 2, 3, -3>>, b)
           h == HandshakeFields(r)
<1>1. r.ok
  <2> HIDE DEF r
  <2> QED
    BY RejectedNotOk DEF HandshakeParse, HandshakeFields, r
<1>2. Five(1, 3, 2, 3, -3, b)
  BY <1>1, ReadsFive
<1>3. PICK f1, f2, f3, f4, f5, t :
        /\ Width(1, f1) /\ Width(3, f2) /\ Width(2, f3) /\ Width(3, f4) /\ Width(-3, f5)
        /\ Reads(<<1, 3, 2, 3, -3>>, b,
                 Coded(1, f1) \o Coded(3, f2) \o Coded(2, f3) \o Coded(3, f4) \o Coded(-3, f5),
                 <<f1, f2, f3, f4, f5>>, t)
  BY <1>2, Zenon DEF Five
<1>4. /\ Coded(1, f1) = f1 /\ Put(1, Get(f1)) = f1
      /\ Coded(3, f2) = f2 /\ Put(3, Get(f2)) = f2 /\ ~Exceeds(3, Get(f2))
      /\ Coded(2, f3) = f3 /\ Put(2, Get(f3)) = f3
      /\ Coded(3, f4) = f4 /\ Put(3, Get(f4)) = f4 /\ ~Exceeds(3, Get(f4))
  BY <1>3, FixedAgain
<1>5. Coded(-3, f5) = Prefixed(3, f5) /\ ~Exceeds(3, Len(f5))
  BY <1>3, VectorAgain
<1> DEFINE v == <<f1, f2, f3, f4, f5>>
           e == f1 \o f2 \o f3 \o f4 \o Prefixed(3, f5)
<1>6. Reads(<<1, 3, 2, 3, -3>>, b, e, v, t)
  BY <1>3, <1>4, <1>5
<1>7. r = Ok(t, v)
  BY <1>6, Zenon DEF Reads
<1>8. v[1] = f1 /\ v[2] = f2 /\ v[3] = f3 /\ v[4] = f4 /\ v[5] = f5
  OBVIOUS
<1> HIDE DEF v, r
<1>9. /\ h.msg_type = Get(f1) /\ h.length = Get(f2) /\ h.message_seq = Get(f3)
      /\ h.offset = Get(f4) /\ h.fragment = f5
  BY <1>7, <1>8 DEF HandshakeFields, Ok
<1> HIDE DEF h
<1>10. HandshakeSerialize(h) = Written(e)
  BY <1>4, <1>5, <1>9 DEF HandshakeSerialize
<1> HIDE DEF e
<1>11. Again(Written(e), b)
  BY <1>6, WrittenAgain
<1> QED
  BY <1>10, <1>11 DEF h, r, HandshakeParse

\* CertificateVerify must fill its buffer.
LEMMA VerifyAgain ==
  ASSUME NEW b \in Bytes, Len(b) <= BufCap, CertificateVerifyParse(b).ok
  PROVE  /\ Again(CertificateVerifySerialize(CertificateVerifyParse(b)), b)
         /\ CertificateVerifySerialize(CertificateVerifyParse(b)).bytes = b
<1> DEFINE r == Read(<<2, -2>>, b)
           h == CertificateVerifyFields(r)
<1>1. r.ok /\ r.rest = <<>>
  <2> HIDE DEF r
  <2>1. FillsBuffer(r)
    BY RejectedNotOk DEF CertificateVerifyParse, CertificateVerifyFields, r
  <2> QED
    BY <2>1 DEF FillsBuffer
<1>2. Two(2, -2, b)
  BY <1>1, ReadsTwo
<1>3. PICK f1, f2, t :
        /\ Width(2, f1) /\ Width(-2, f2)
        /\ Reads(<<2, -2>>, b, Coded(2, f1) \o Coded(-2, f2), <<f1, f2>>, t)
  BY <1>2, Zenon DEF Two
<1>4. Coded(2, f1) = f1 /\ Put(2, Get(f1)) = f1
  BY <1>3, FixedAgain
<1>5. Coded(-2, f2) = Prefixed(2, f2)
  BY <1>3, VectorAgain
<1> DEFINE v == <<f1, f2>>
           e == f1 \o Prefixed(2, f2)
<1>6. Reads(<<2, -2>>, b, e, v, t)
  BY <1>3, <1>4, <1>5
<1>7. r = Ok(t, v)
  BY <1>6, Zenon DEF Reads
<1>8. v[1] = f1 /\ v[2] = f2
  OBVIOUS
<1> HIDE DEF v, r
<1>9. t = <<>> /\ h.algorithm = Get(f1) /\ h.signature = f2
  BY <1>1, <1>7, <1>8 DEF CertificateVerifyFields, Ok, FillsBuffer
<1> HIDE DEF h
<1>10. CertificateVerifySerialize(h) = Written(e)
  BY <1>4, <1>9 DEF CertificateVerifySerialize
<1> HIDE DEF e
<1>11. Again(Written(e), b) /\ Written(e).bytes = e
  BY <1>6, WrittenAgain
<1>12. e = b
  <2>1. e \in Seq(Octet) /\ b = e \o <<>>
    BY <1>6, <1>9 DEF Reads, Bytes
  <2> QED
    BY <2>1
<1> QED
  BY <1>10, <1>11, <1>12 DEF h, r, CertificateVerifyParse

\* The bits of a first byte that begins with 001 make it up.
LEMMA FirstByteAgain ==
  ASSUME NEW x \in Octet, x \div FixedBits = 1
  PROVE  LET h == UnifiedFlags(x)
         IN  x = FixedBits + Flag(h.cid_present, CidBit) + Flag(h.seq16, SeqBit)
                   + Flag(h.len_present, LenBit) + EpochBits(h.epoch)
<1>1. x \in 0 .. 255 /\ x \div 32 = 1
  BY DEF Octet, FixedBits
<1>2. x \in Nat
  BY <1>1
<1>3. (x % 4) % 4 = x % 4
  BY <1>2
<1>4. x = 32 + (IF (x \div 16) % 2 = 1 THEN 16 ELSE 0) + (IF (x \div 8) % 2 = 1 THEN 8 ELSE 0)
            + (IF (x \div 4) % 2 = 1 THEN 4 ELSE 0) + (x % 4)
  BY <1>1, <1>2
<1> DEFINE h == UnifiedFlags(x)
<1>5. /\ h.cid_present = ((x \div 16) % 2 = 1) /\ h.seq16 = ((x \div 8) % 2 = 1)
      /\ h.len_present = ((x \div 4) % 2 = 1) /\ h.epoch = x % (3 + 1)
  BY DEF UnifiedFlags, Bit, EpochBits, CidBit, SeqBit, LenBit, EpochMask
<1> HIDE DEF h
<1>6. /\ Flag(h.cid_present, CidBit) = IF (x \div 16) % 2 = 1 THEN 16 ELSE 0
      /\ Flag(h.seq16, SeqBit) = IF (x \div 8) % 2 = 1 THEN 8 ELSE 0
      /\ Flag(h.len_present, LenBit) = IF (x \div 4) % 2 = 1 THEN 4 ELSE 0
  BY <1>5 DEF Flag, CidBit, SeqBit, LenBit
<1>7. EpochBits(h.epoch) = x % 4
  BY <1>2, <1>3, <1>5 DEF EpochBits, EpochMask
<1>8. x = FixedBits + Flag(h.cid_present, CidBit) + Flag(h.seq16, SeqBit)
            + Flag(h.len_present, LenBit) + EpochBits(h.epoch)
  BY <1>4, <1>6, <1>7 DEF FixedBits
<1> QED
  BY <1>8 DEF h

\* The kinds of the fields before the length: first byte, connection ID if
\* there is one, sequence number
HeadShape(cid, cl, n) == IF cid THEN <<1, cl, n>> ELSE <<1, n>>

\* The shape of a unified header, with and without the length
LEMMA ShapeOfHead ==
  ASSUME NEW h, NEW cl \in Nat, h.cid_present \in BOOLEAN, h.len_present \in BOOLEAN
  PROVE  LET s == HeadShape(h.cid_present, cl, IF h.seq16 THEN 2 ELSE 1)
         IN  /\ s \in Seq(Int)
             /\ UnifiedShape(h, cl) = IF h.len_present THEN Append(s, -2) ELSE s
<1> DEFINE n == IF h.seq16 THEN 2 ELSE 1
           a == <<1>>
           c == IF h.cid_present THEN <<cl>> ELSE <<>>
           s == HeadShape(h.cid_present, cl, n)
<1>1. n \in Int /\ cl \in Int /\ a \in Seq(Int) /\ 1 \in Int /\ -2 \in Int
  OBVIOUS
<1> HIDE DEF n
<1>2. a \o c \o <<n>> = s /\ s \in Seq(Int)
  <2>1. CASE h.cid_present
    <3>1. a \o <<cl>> = Append(a, cl)
      BY <1>1, AppendIsConcat
    <3>2. Append(a, cl) = <<1, cl>>
      BY AppendTwo
    <3> DEFINE d == <<1, cl>>
    <3>3. d \in Seq(Int) /\ <<1, cl, n>> \in Seq(Int)
      BY <1>1
    <3>4. d \o <<n>> = Append(d, n)
      <4> HIDE DEF d
      <4> QED
        BY <1>1, <3>3, AppendIsConcat
    <3>5. Append(d, n) = <<1, cl, n>>
      BY AppendThree
    <3> QED
      BY <2>1, <3>1, <3>2, <3>3, <3>4, <3>5, Zenon DEF HeadShape
  <2>2. CASE ~h.cid_present
    <3>1. a \o <<>> = a
      BY <1>1
    <3>2. a \o <<n>> = Append(a, n)
      BY <1>1, AppendIsConcat
    <3>3. Append(a, n) = <<1, n>>
      BY AppendTwo
    <3>4. <<1, n>> \in Seq(Int)
      BY <1>1
    <3> QED
      BY <2>2, <3>1, <3>2, <3>3, <3>4, Zenon DEF HeadShape
  <2> QED
    BY <2>1, <2>2
<1>3. UnifiedShape(h, cl) = s \o (IF h.len_present THEN <<-2>> ELSE <<>>)
  BY <1>2, Zenon DEF UnifiedShape, n
<1> HIDE DEF s
<1>4. s \o <<-2>> = Append(s, -2) /\ s \o <<>> = s
  BY <1>1, <1>2, AppendIsConcat
<1> QED
  BY <1>2, <1>3, <1>4, Zenon DEF s, n

\* What is read before the length
HeadRead(cid, cl, n, b, f, c, q, v, t) ==
  /\ Width(1, f) /\ Width(n, q) /\ c \in Bytes
  /\ Reads(HeadShape(cid, cl, n), b, f \o c \o q, v, t)
  /\ IF cid THEN Len(c) = cl /\ Len(v) = 3 /\ v[2] = c /\ v[3] = q
            ELSE c = <<>> /\ Len(v) = 2 /\ v[2] = q

\* What the parser accepts before the length
LEMMA ReadsHead ==
  ASSUME NEW b \in Bytes, NEW cid \in BOOLEAN, NEW cl \in Nat, cid => cl # 0, NEW n \in {1, 2},
         Read(HeadShape(cid, cl, n), b).ok
  PROVE  \E f, c, q, v, t : HeadRead(cid, cl, n, b, f, c, q, v, t)
<1>0. n \in Nat \ {0} /\ n \in Int \ {0}
  OBVIOUS
<1>1. CASE cid
  <2>1. HeadShape(cid, cl, n) = <<1, cl, n>> /\ cl \in Nat \ {0} /\ cl \in Int \ {0}
    BY <1>1 DEF HeadShape
  <2>2. Three(1, cl, n, b)
    BY <1>0, <2>1, ReadsThree
  <2>3. PICK f, c, q, t :
          /\ Width(1, f) /\ Width(cl, c) /\ Width(n, q)
          /\ Reads(<<1, cl, n>>, b, Coded(1, f) \o Coded(cl, c) \o Coded(n, q), <<f, c, q>>, t)
    BY <2>2, Zenon DEF Three
  <2>4. Coded(1, f) = f /\ Coded(cl, c) = c /\ Coded(n, q) = q
    BY <1>0, <2>1, <2>3, FixedAgain
  <2>5. Len(c) = cl /\ c \in Bytes
    BY <2>1, <2>3 DEF Width, OfWidth
  <2> DEFINE v == <<f, c, q>>
  <2>6. Len(v) = 3 /\ v[2] = c /\ v[3] = q
    OBVIOUS
  <2>7. Reads(HeadShape(cid, cl, n), b, f \o c \o q, v, t)
    BY <2>1, <2>3, <2>4
  <2> HIDE DEF v
  <2>8. HeadRead(cid, cl, n, b, f, c, q, v, t)
    BY <1>1, <2>3, <2>5, <2>6, <2>7 DEF HeadRead
  <2> QED
    BY <2>8
<1>2. CASE ~cid
  <2>1. HeadShape(cid, cl, n) = <<1, n>>
    BY <1>2 DEF HeadShape
  <2>2. Two(1, n, b)
    BY <1>0, <2>1, ReadsTwo
  <2>3. PICK f, q, t :
          /\ Width(1, f) /\ Width(n, q)
          /\ Reads(<<1, n>>, b, Coded(1, f) \o Coded(n, q), <<f, q>>, t)
    BY <2>2, Zenon DEF Two
  <2>4. Coded(1, f) = f /\ Coded(n, q) = q
    BY <1>0, <2>3, FixedAgain
  <2> DEFINE v == <<f, q>>
             c == <<>>
  <2>5. Len(v) = 2 /\ v[2] = q /\ c \in Bytes
    BY DEF Bytes
  <2>6. f \o c = f
    BY <2>3 DEF Width, Bytes
  <2>7. Reads(HeadShape(cid, cl, n), b, f \o c \o q, v, t)
    BY <2>1, <2>3, <2>4, <2>6
  <2> HIDE DEF v
  <2>8. HeadRead(cid, cl, n, b, f, c, q, v, t)
    BY <1>2, <2>3, <2>5, <2>7 DEF HeadRead
  <2> QED
    BY <2>8
<1> QED
  BY <1>1, <1>2

\* What is put behind a sequence leaves its first byte alone.
LEMMA SameFirst ==
  ASSUME NEW p \in Bytes, NEW q \in Bytes, Len(p) >= 1
  PROVE  p \o q \in Bytes /\ Len(p \o q) >= 1 /\ (p \o q)[1] = p[1]
<1>1. p \in Seq(Octet) /\ q \in Seq(Octet) /\ Len(p) >= 1
  BY DEF Bytes
<1>2. p \o q \in Seq(Octet) /\ Len(p \o q) = Len(p) + Len(q) /\ Len(p) \in Nat /\ Len(q) \in Nat
  BY <1>1, ConcatProperties
<1>3. (p \o q)[1] = p[1]
  BY <1>1, ConcatProperties
<1> QED
  BY <1>1, <1>2, <1>3 DEF Bytes

\* A sequence of one byte
LEMMA SingleByte ==
  ASSUME NEW f \in Bytes, Len(f) = 1
  PROVE  f = <<f[1]>> /\ f[1] \in Octet
<1> DEFINE g == <<f[1]>>
<1>1. f \in Seq(Octet) /\ Len(f) = 1
  BY DEF Bytes
<1>2. f[1] \in Octet
  BY <1>1
<1>3. g \in Seq(Octet) /\ Len(g) = 1 /\ g[1] = f[1]
  BY <1>2
<1> HIDE DEF g
<1>4. f = g
  BY <1>1, <1>3, SeqEqual
<1> QED
  BY <1>2, <1>4 DEF g

\* The first byte of what is read is that of the buffer.
LEMMA HeadFirst ==
  ASSUME NEW b \in Bytes, NEW cid, NEW cl, NEW n, NEW f, NEW c, NEW q, NEW v, NEW t
  PROVE  HeadRead(cid, cl, n, b, f, c, q, v, t) => f = <<b[1]>> /\ b[1] \in Octet
<1> SUFFICES ASSUME HeadRead(cid, cl, n, b, f, c, q, v, t)
             PROVE  f = <<b[1]>> /\ b[1] \in Octet
  OBVIOUS
<1>1. Width(1, f) /\ Width(n, q) /\ c \in Bytes /\ t \in Bytes /\ b = (f \o c \o q) \o t
  BY Zenon DEF HeadRead, Reads
<1>2. f \in Bytes /\ q \in Bytes /\ OfWidth(1, f)
  BY <1>1, Zenon DEF Width
<1>3. Len(f) = 1 /\ Len(f) >= 1
  BY <1>2 DEF OfWidth
<1> DEFINE x == f \o c
           y == x \o q
           z == y \o t
<1>4. x \in Bytes /\ Len(x) >= 1 /\ x[1] = f[1]
  BY <1>1, <1>2, <1>3, SameFirst, Zenon
<1> HIDE DEF x
<1>5. y \in Bytes /\ Len(y) >= 1 /\ y[1] = x[1]
  BY <1>2, <1>4, SameFirst
<1> HIDE DEF y
<1>6. z[1] = y[1]
  BY <1>1, <1>5, SameFirst
<1>7. b = z
  BY <1>1, Zenon DEF x, y
<1>8. f = <<f[1]>> /\ f[1] \in Octet
  BY <1>2, <1>3, SingleByte
<1> HIDE DEF z
<1>9. b[1] = f[1]
  BY <1>4, <1>5, <1>6, <1>7, Zenon
<1> QED
  BY <1>8, <1>9, Zenon

\* What nd_unified_serialize writes for the fields of a header
UnifiedBytes(b0, c, q, l, p) == <<b0>> \o c \o q \o l \o p

\* The length field, if there is one
LengthBytes(present, p) == IF present THEN Put(2, Len(p)) ELSE <<>>

\* The fields h that nd_unified_serialize makes those bytes of
HeaderOf(h, b0, c, q, p) ==
  /\ h.cid_present \in BOOLEAN /\ h.seq16 \in BOOLEAN /\ h.len_present \in BOOLEAN
  /\ b0 = FixedBits + Flag(h.cid_present, CidBit) + Flag(h.seq16, SeqBit)
            + Flag(h.len_present, LenBit) + EpochBits(h.epoch)
  /\ IF h.cid_present THEN h.cid = c /\ Len(c) # 0 ELSE c = <<>>
  /\ Put(IF h.seq16 THEN 2 ELSE 1, h.seq) = q /\ (h.seq16 \/ ~Exceeds(1, h.seq))
  /\ h.payload = p /\ (h.len_present => ~Exceeds(2, Len(p)))

\* nd_unified_serialize writes the fields one after another.
LEMMA UnifiedWritten ==
  ASSUME NEW b0, NEW h, NEW c, NEW q, NEW p
  PROVE  HeaderOf(h, b0, c, q, p) =>
           UnifiedSerialize(h) =
             Written(UnifiedBytes(b0, c, q, LengthBytes(h.len_present, p), p))
<1> SUFFICES ASSUME HeaderOf(h, b0, c, q, p)
             PROVE  UnifiedSerialize(h) =
                      Written(UnifiedBytes(b0, c, q, LengthBytes(h.len_present, p), p))
  OBVIOUS
<1>1. ~(\/ h.cid_present /\ Len(h.cid) = 0
        \/ ~h.seq16 /\ Exceeds(1, h.seq)
        \/ h.len_present /\ Exceeds(2, Len(h.payload)))
  BY DEF HeaderOf
<1>2. (IF h.cid_present THEN h.cid ELSE <<>>) = c
  BY DEF HeaderOf
<1>3. /\ b0 = FixedBits + Flag(h.cid_present, CidBit) + Flag(h.seq16, SeqBit)
                + Flag(h.len_present, LenBit) + EpochBits(h.epoch)
      /\ Put(IF h.seq16 THEN 2 ELSE 1, h.seq) = q /\ h.payload = p
  BY Zenon DEF HeaderOf
<1> QED
  BY <1>1, <1>2, <1>3, Zenon DEF UnifiedSerialize, UnifiedBytes, LengthBytes

\* The length of a payload without a length field, as a uint16_t
LEMMA RestFits ==
  ASSUME NEW m \in Nat
  PROVE  m % 65536 \in 0 .. m
<1> DEFINE w == 65536
<1>1. w \in Nat \ {0}
  OBVIOUS
<1> HIDE DEF w
<1>2. m % w \in Nat /\ m % w <= m
  BY <1>1
<1> QED
  BY <1>2 DEF w

Associates(x, l, y, z) ==
  (x \o l) \o y \in Bytes /\ ((x \o l) \o y) \o z = x \o ((l \o y) \o z)

\* The header and the payload in front of the rest
LEMMA AssociativeFour ==
  ASSUME NEW x \in Bytes, NEW l \in Bytes, NEW y \in Bytes, NEW z \in Bytes
  PROVE  Associates(x, l, y, z)
<1> DEFINE g == l \o y
           d == x \o l
<1>1. g \in Bytes /\ d \in Bytes
  BY CutApart
<1>2. (x \o l) \o y = x \o (l \o y)
  BY Associative
<1> HIDE DEF g, d
<1>3. d \o y \in Bytes
  BY <1>1, CutApart
<1>4. (x \o g) \o z = x \o (g \o z)
  BY <1>1, Associative
<1> QED
  BY <1>2, <1>3, <1>4, Zenon DEF Associates, g, d

\* A header's bytes begin those of the buffer.
LEMMA HeaderBytes ==
  ASSUME NEW x \in Bytes, NEW l \in Bytes, NEW y \in Bytes, NEW z \in Bytes, NEW t, NEW b, NEW e
  PROVE  (b \in Bytes /\ Len(b) <= BufCap /\ b = x \o t /\ t = (l \o y) \o z /\ e = (x \o l) \o y)
           => Again(Written(e), b)
<1>1. (x \o l) \o y \in Bytes /\ ((x \o l) \o y) \o z = x \o ((l \o y) \o z)
  <2>1. Associates(x, l, y, z)
    BY AssociativeFour, Zenon
  <2> QED
    BY <2>1, Zenon DEF Associates
<1> SUFFICES ASSUME b \in Bytes, Len(b) <= BufCap, b = x \o t, t = (l \o y) \o z, e = (x \o l) \o y
             PROVE  Again(Written(e), b)
  OBVIOUS
<1>2. b = e \o z /\ e \in Bytes
  BY <1>1, Zenon
<1> QED
  BY <1>2, BytesAgain, Zenon

\* nd_unified_serialize writes what nd_unified_parse consumed, whichever of the
\* optional fields there are.
LEMMA UnifiedAgain ==
  ASSUME NEW b \in Bytes, Len(b) <= BufCap, NEW cl \in Nat, UnifiedParse(b, cl).ok
  PROVE  Again(UnifiedSerialize(UnifiedParse(b, cl)), b)
<1> DEFINE h == UnifiedFlags(b[1])
           k == IF h.cid_present THEN 3 ELSE 2
           n == IF h.seq16 THEN 2 ELSE 1
           s == HeadShape(h.cid_present, cl, n)
           r == Read(UnifiedShape(h, cl), b)
           p == UnifiedFields(h, r, k)
<1>1. ~(Len(b) < 1 \/ b[1] \div FixedBits # 1) /\ UnifiedParse(b, cl) = UnifiedRest(h, b, cl)
  <2>1. CASE Len(b) < 1 \/ b[1] \div FixedBits # 1
    BY <2>1, RejectedNotOk DEF UnifiedParse
  <2> QED
    BY <2>1 DEF UnifiedParse
<1>2. h.cid_present \in BOOLEAN /\ h.seq16 \in BOOLEAN /\ h.len_present \in BOOLEAN
  BY DEF UnifiedFlags, Bit
<1>3. n \in {1, 2} /\ n \in Nat \ {0} /\ k \in {2, 3}
  OBVIOUS
<1>4. ~(h.cid_present /\ cl = 0) /\ UnifiedParse(b, cl) = p
  <2> HIDE DEF h, p
  <2>1. CASE h.cid_present /\ cl = 0
    BY <1>1, <2>1, RejectedNotOk DEF UnifiedRest
  <2>2. CASE ~(h.cid_present /\ cl = 0)
    BY <1>1, <2>2, Zenon DEF UnifiedRest, p
  <2> QED
    BY <2>1, <2>2
<1> HIDE DEF h
<1>5. r.ok
  <2> HIDE DEF r
  <2>1. CASE ~r.ok
    BY <1>4, <2>1, RejectedNotOk DEF UnifiedFields
  <2> QED
    BY <2>1
<1>6. s \in Seq(Int) /\ UnifiedShape(h, cl) = IF h.len_present THEN Append(s, -2) ELSE s
  BY <1>2, ShapeOfHead
<1> HIDE DEF n
<1>7. Read(s, b).ok
  <2> HIDE DEF s
  <2>1. CASE h.len_present
    BY <1>5, <1>6, <2>1, ReadsLess
  <2>2. CASE ~h.len_present
    BY <1>5, <1>6, <2>2
  <2> QED
    BY <2>1, <2>2
<1>8. \E f, c, q, v, t : HeadRead(h.cid_present, cl, n, b, f, c, q, v, t)
  BY <1>2, <1>3, <1>4, <1>7, ReadsHead
<1>9. PICK f, c, q, v, t : HeadRead(h.cid_present, cl, n, b, f, c, q, v, t)
  BY <1>8, Zenon
<1>10. f = <<b[1]>> /\ b[1] \in Octet
  BY <1>9, HeadFirst, Zenon
<1> DEFINE x == f \o c \o q
<1>11. /\ Width(n, q) /\ c \in Bytes /\ Reads(s, b, x, v, t)
       /\ IF h.cid_present THEN Len(c) = cl /\ Len(v) = 3 /\ v[2] = c /\ v[3] = q
                           ELSE c = <<>> /\ Len(v) = 2 /\ v[2] = q
  BY <1>9, Zenon DEF HeadRead
<1>12. Put(n, Get(q)) = q /\ ~Exceeds(n, Get(q))
  BY <1>3, <1>11, FixedAgain
<1>13. x \in Bytes /\ t \in Bytes /\ v \in Seq(Bytes) /\ b = x \o t /\ Read(s, b) = Ok(t, v)
  BY <1>11, Zenon DEF Reads
<1>14. v[k] = q /\ k = Len(v) /\ (h.cid_present => v[2] = c)
  BY <1>11
<1> HIDE DEF s, x, k
<1>15. b[1] = FixedBits + Flag(h.cid_present, CidBit) + Flag(h.seq16, SeqBit)
                + Flag(h.len_present, LenBit) + EpochBits(h.epoch)
  BY <1>1, <1>10, FirstByteAgain DEF h
<1> DEFINE Ends(l, y, z) ==
             /\ l = LengthBytes(h.len_present, y) /\ t = (l \o y) \o z /\ r.val[k] = q
             /\ (h.cid_present => r.val[2] = c)
             /\ p.payload = y /\ (h.len_present => ~Exceeds(2, Len(y)))
\* The payload y and what follows it
<1>19. ASSUME NEW l \in Bytes, NEW y \in Bytes, NEW z \in Bytes
       PROVE  Ends(l, y, z) => Again(UnifiedSerialize(p), b)
  <2> SUFFICES ASSUME Ends(l, y, z)
               PROVE  Again(UnifiedSerialize(p), b)
    OBVIOUS
  <2> DEFINE e == UnifiedBytes(b[1], c, q, l, y)
             b0 == b[1]
  <2>1. /\ p.cid_present = h.cid_present /\ p.seq16 = h.seq16 /\ p.len_present = h.len_present
        /\ p.epoch = h.epoch /\ p.seq = Get(q) /\ (h.cid_present => p.cid = c)
    <3> HIDE DEF r
    <3> QED
      BY <1>5 DEF UnifiedFields
  <2> HIDE DEF p, r, b0
  <2>2. HeaderOf(p, b0, c, q, y)
    <3>1. b0 = FixedBits + Flag(p.cid_present, CidBit) + Flag(p.seq16, SeqBit)
                 + Flag(p.len_present, LenBit) + EpochBits(p.epoch)
      BY <1>15, <2>1, Zenon DEF b0
    <3>2. IF p.cid_present THEN p.cid = c /\ Len(c) # 0 ELSE c = <<>>
      <4>1. CASE h.cid_present
        BY <1>4, <1>11, <2>1, <4>1
      <4>2. CASE ~h.cid_present
        BY <1>11, <2>1, <4>2
      <4> QED
        BY <4>1, <4>2
    <3>3. Put(IF p.seq16 THEN 2 ELSE 1, p.seq) = q
      BY <1>12, <2>1, Zenon DEF n
    <3>6. p.seq16 \/ ~Exceeds(1, p.seq)
      <4>1. CASE ~h.seq16
        BY <1>12, <2>1, <4>1 DEF n
      <4> QED
        BY <1>2, <2>1, <4>1
    <3>4. p.cid_present \in BOOLEAN /\ p.seq16 \in BOOLEAN /\ p.len_present \in BOOLEAN
      BY <1>2, <2>1, Zenon
    <3>5. p.payload = y /\ (p.len_present => ~Exceeds(2, Len(y)))
      BY <2>1, Zenon
    <3> QED
      BY <3>1, <3>2, <3>3, <3>4, <3>5, <3>6, Zenon DEF HeaderOf
  <2>3. UnifiedSerialize(p) = Written(e)
    <3>1. UnifiedSerialize(p) =
            Written(UnifiedBytes(b0, c, q, LengthBytes(p.len_present, y), y))
      BY <2>2, UnifiedWritten, Zenon
    <3>2. l = LengthBytes(p.len_present, y)
      BY <2>1, Zenon
    <3> QED
      BY <3>1, <3>2, Zenon DEF b0
  <2>4. e = (x \o l) \o y
    BY <1>10, Zenon DEF UnifiedBytes, x
  <2> HIDE DEF e
  <2>5. Again(Written(e), b)
    BY <1>13, <2>4, HeaderBytes, Zenon
  <2> QED
    BY <2>3, <2>5, Zenon
<1>16. CASE h.len_present
  <2>1. UnifiedShape(h, cl) = Append(s, -2) /\ Read(Append(s, -2), b).ok
    BY <1>5, <1>6, <1>16
  <2>2. PICK y, z : /\ Leads(-2, y, t, z)
                    /\ Reads(Append(s, -2), b, x \o Coded(-2, y), Append(v, y), z)
    BY <1>6, <1>11, <2>1, ReadsMore
  <2>3. y \in Bytes /\ z \in Bytes /\ Width(-2, y) /\ t = Coded(-2, y) \o z
    BY <2>2 DEF Leads, Width
  <2>4. Coded(-2, y) = Put(2, Len(y)) \o y /\ ~Exceeds(2, Len(y))
    <3>1. Len(y) \in Nat /\ Coded(-2, y) = Prefixed(2, y) /\ ~Exceeds(2, Len(y))
      BY <2>3, VectorAgain
    <3> QED
      BY <3>1, Zenon DEF Prefixed
  <2>5. r = Ok(z, Append(v, y))
    BY <2>1, <2>2, Zenon DEF Reads
  <2> DEFINE l == Put(2, Len(y))
             w == Append(v, y)
  <2>6. l \in Bytes
    <3>1. Len(y) \in Nat
      BY <2>3 DEF Bytes
    <3> QED
      BY <3>1, PutType DEF Bytes
  <2>7. w[k] = q /\ w[k + 1] = y /\ (h.cid_present => w[2] = c)
    <3>1. v \in Seq(Bytes) /\ y \in Bytes /\ k \in 1 .. Len(v) /\ (h.cid_present => 2 \in 1 .. Len(v))
      BY <1>3, <1>11, <1>13, <1>14, <2>3 DEF k
    <3>2. w[Len(v) + 1] = y /\ \A i \in 1 .. Len(v) : w[i] = v[i]
      BY <3>1
    <3> HIDE DEF w
    <3> QED
      BY <1>14, <3>1, <3>2
  <2> HIDE DEF w, r, l
  <2>8. r = Ok(z, w)
    BY <2>5 DEF w
  <2>9. r.val = w
    BY <2>8, OkParts, Zenon
  <2>10. p.payload = y
    BY <1>5, <1>16, <2>7, <2>9 DEF UnifiedFields
  <2>11. l = LengthBytes(h.len_present, y) /\ t = (l \o y) \o z
    BY <1>16, <2>3, <2>4, Zenon DEF l, LengthBytes
  <2>12. r.val[k] = q /\ (h.cid_present => r.val[2] = c)
    BY <2>7, <2>9, Zenon
  <2>13. Ends(l, y, z)
    BY <2>4, <2>10, <2>11, <2>12, Zenon
  <2> HIDE DEF p, Ends
  <2> QED
    BY <1>4, <1>19, <2>3, <2>6, <2>13, Zenon
<1>17. CASE ~h.len_present
  <2>1. r = Ok(t, v)
    BY <1>6, <1>13, <1>17
  <2> DEFINE j == Len(t) % 65536
             y == SubSeq(t, 1, j)
             z == SubSeq(t, j + 1, Len(t))
             l == <<>>
  <2>2. j \in 0 .. Len(t)
    BY <1>13, RestFits DEF Bytes
  <2> HIDE DEF j
  <2>3. y \in Bytes /\ z \in Bytes /\ t = y \o z
    BY <1>13, <2>2, CutInTwo
  <2>4. l \in Bytes /\ l = LengthBytes(h.len_present, y)
    BY <1>17 DEF Bytes, LengthBytes
  <2>5. l \o y = y
    BY <2>3 DEF Bytes
  <2> HIDE DEF l, r
  <2>6. r.val = v /\ r.rest = t
    BY <2>1, OkParts, Zenon
  <2>7. p.payload = y
    BY <1>5, <1>17, <2>6 DEF UnifiedFields, j
  <2> HIDE DEF y, z, p
  <2>8. t = (l \o y) \o z
    BY <2>3, <2>5
  <2>9. r.val[k] = q /\ (h.cid_present => r.val[2] = c)
    BY <1>14, <2>6, Zenon
  <2>10. Ends(l, y, z)
    BY <1>17, <2>4, <2>7, <2>8, <2>9, Zenon
  <2> HIDE DEF Ends
  <2> QED
    BY <1>4, <1>19, <2>3, <2>4, <2>10, Zenon
<1> QED
  BY <1>16, <1>17, Zenon

-----------------------------------------------------------------------------
\* Nothing, flattened
LEMMA FlattenNone == FlattenSeq(<<>>) = <<>>
<1> DEFINE z == <<>>
<1>1. Len(z) = 0
  OBVIOUS
<1> HIDE DEF z
<1>2. FlattenSeq(z) = z
  BY <1>1, Zenon DEF FlattenSeq
<1> QED
  BY <1>2 DEF z

FlattenSteps(g, f, n) ==
  /\ FlattenSeq(f) = g[n]
  /\ \A i \in 1 .. n : g[i] = IF i = 1 THEN f[i] ELSE g[i - 1] \o f[i]

\* One more sequence
LEMMA FlattenMore ==
  ASSUME NEW f \in Seq(Bytes), NEW x \in Bytes
  PROVE  FlattenSeq(Append(f, x)) = FlattenSeq(f) \o x
<1> DEFINE n == Len(f)
           more == Append(f, x)
<1>1. /\ n \in Nat /\ n + 1 \in Nat \ {0} /\ (n + 1) - 1 = n /\ Len(more) = n + 1
      /\ more[n + 1] = x /\ \A i \in 1 .. n : more[i] = f[i]
  OBVIOUS
<1>2. PICK h : FlattenSteps(h, more, n + 1)
  <2> HIDE DEF n, more
  <2> QED
    BY <1>1, FlattenLoop DEF FlattenSteps
<1>3. CASE n = 0
  <2>1. f = <<>>
    BY <1>3
  <2>2. FlattenSeq(f) = <<>>
    BY <2>1, FlattenNone, Zenon
  <2>3. <<>> \o x = x
    BY DEF Bytes
  <2> HIDE DEF more, n
  <2>4. FlattenSeq(more) = x
    BY <1>1, <1>2, <1>3 DEF FlattenSteps
  <2> QED
    BY <2>2, <2>3, <2>4, Zenon DEF more
<1>4. CASE n # 0
  <2>1. PICK g : FlattenSteps(g, f, n)
    <3>1. n \in Nat \ {0} /\ Len(f) = n
      BY <1>1, <1>4
    <3> HIDE DEF n
    <3> QED
      BY <3>1, FlattenLoop DEF FlattenSteps
  <2> HIDE DEF more, n
  <2> DEFINE T == {i \in 0 .. n : i = 0 \/ h[i] = g[i]}
  <2>2. 0 \in T
    BY <1>1
  <2>3. ASSUME NEW i \in 0 .. n - 1, i \in T PROVE i + 1 \in T
    <3>1. i + 1 \in 1 .. n /\ i + 1 \in 1 .. n + 1 /\ (i + 1) - 1 = i
      BY <1>1
    <3>2. /\ g[i + 1] = IF i + 1 = 1 THEN f[i + 1] ELSE g[i] \o f[i + 1]
          /\ h[i + 1] = IF i + 1 = 1 THEN more[i + 1] ELSE h[i] \o more[i + 1]
      BY <1>2, <2>1, <3>1 DEF FlattenSteps
    <3>3. more[i + 1] = f[i + 1]
      BY <1>1, <3>1
    <3>4. i + 1 = 1 \/ h[i] = g[i]
      BY <2>3
    <3> QED
      BY <3>1, <3>2, <3>3, <3>4
  <2>4. n \in T
    <3> HIDE DEF T
    <3>1. 0 .. n \subseteq T
      BY <1>1, <2>2, <2>3, BoundedInduction
    <3> QED
      BY <1>1, <3>1
  <2>5. h[n] = g[n] /\ FlattenSeq(f) = g[n]
    BY <1>4, <2>1, <2>4 DEF FlattenSteps
  <2>6. n + 1 \in 1 .. n + 1 /\ n + 1 # 1
    BY <1>1, <1>4
  <2>7. h[n + 1] = h[n] \o more[n + 1] /\ FlattenSeq(more) = h[n + 1]
    BY <1>1, <1>2, <2>6 DEF FlattenSteps
  <2> QED
    BY <1>1, <2>5, <2>7, Zenon DEF more
<1> QED
  BY <1>3, <1>4

\* A record number of an ACK: two fields of NumberLen bytes
Numbers == {e \in Seq(Bytes) : Len(e) = 2 /\ Width(NumberLen, e[1]) /\ Width(NumberLen, e[2])}

\* Their bytes
Halves(val) == [i \in 1 .. Len(val) |-> val[i][1] \o val[i][2]]

\* The bytes of one more record number
LEMMA HalvesMore ==
  ASSUME NEW val \in Seq(Numbers), NEW e \in Numbers
  PROVE  /\ Halves(val) \in Seq(Bytes) /\ e[1] \o e[2] \in Bytes
         /\ Halves(Append(val, e)) = Append(Halves(val), e[1] \o e[2])
<1>1. ASSUME NEW d \in Numbers PROVE d[1] \o d[2] \in Bytes
  <2>1. d[1] \in Bytes /\ d[2] \in Bytes
    BY DEF Numbers, Width
  <2> QED
    BY <2>1, CutApart
<1> DEFINE more == Append(val, e)
           n == Len(val)
<1>2. n \in Nat /\ Len(more) = n + 1 /\ more[n + 1] = e /\ \A i \in 1 .. n : more[i] = val[i]
  OBVIOUS
<1>3. \A i \in 1 .. n : val[i] \in Numbers
  OBVIOUS
<1> HIDE DEF more, n
<1> DEFINE a == Halves(val)
           x == e[1] \o e[2]
           c == Append(a, x)
           d == Halves(more)
<1>4. x \in Bytes
  BY <1>1
<1>5. a = [i \in 1 .. n |-> val[i][1] \o val[i][2]]
  BY DEF Halves, n
<1>6. a \in Seq(Bytes) /\ Len(a) = n
  BY <1>1, <1>2, <1>3, <1>5
<1>7. d = [i \in 1 .. n + 1 |-> more[i][1] \o more[i][2]]
  BY <1>2 DEF Halves
<1>8. \A i \in 1 .. n + 1 : more[i] \in Numbers
  BY <1>2, <1>3
<1>9. d \in Seq(Bytes) /\ Len(d) = n + 1
  BY <1>1, <1>2, <1>7, <1>8
<1>10. \A i \in 1 .. n : a[i] = val[i][1] \o val[i][2]
  BY <1>5
<1>11. \A i \in 1 .. n + 1 : d[i] = more[i][1] \o more[i][2]
  BY <1>7
<1> HIDE DEF a, d, x
<1>12. /\ c \in Seq(Bytes) /\ Len(c) = n + 1 /\ c[n + 1] = x
       /\ \A i \in 1 .. n : c[i] = a[i]
  <2>1. a \in Seq(Bytes) /\ x \in Bytes
    BY <1>4, <1>6
  <2>2. /\ c \in Seq(Bytes) /\ Len(c) = Len(a) + 1 /\ c[Len(a) + 1] = x
        /\ \A i \in 1 .. Len(a) : c[i] = a[i]
    BY <2>1
  <2> QED
    BY <1>6, <2>2
<1> HIDE DEF c
<1>13. ASSUME NEW i \in 1 .. n + 1 PROVE c[i] = d[i]
  <2>1. CASE i = n + 1
    <3>1. d[i] = more[i][1] \o more[i][2]
      BY <1>11
    <3> QED
      BY <1>2, <1>12, <2>1, <3>1 DEF x
  <2>2. CASE i \in 1 .. n
    BY <1>2, <1>10, <1>11, <1>12, <2>2
  <2> QED
    BY <1>2, <2>1, <2>2
<1>14. c = d
  BY <1>9, <1>12, <1>13, SeqEqual
<1> QED
  BY <1>4, <1>6, <1>14 DEF a, c, d, x, more

\* The entries val of an ACK have been taken from the front of f in k rounds;
\* rest is left.
Taken(f, rest, val, k) ==
  /\ rest \in Bytes /\ val \in Seq(Numbers) /\ FlattenSeq(Halves(val)) \in Bytes
  /\ f = FlattenSeq(Halves(val)) \o rest
  /\ rest = <<>> \/ Len(rest) + 2 * k <= Len(f)

\* What the reader of entries holds after a malformed one
Bad(rest, val) == [ok |-> FALSE, rest |-> rest, val |-> val]

\* After a malformed entry the reader has failed.
LEMMA BadNotOk ==
  ASSUME NEW rest, NEW val
  PROVE  ~Bad(rest, val).ok
  BY DEF Bad

\* An entry that is accepted is the two halves of a record number.
LEMMA EntryNumber ==
  ASSUME NEW rest \in Bytes, Read(<<NumberLen, NumberLen>>, rest).ok
  PROVE  \E e, u : /\ e \in Numbers /\ u \in Bytes /\ e[1] \o e[2] \in Bytes
                   /\ rest = (e[1] \o e[2]) \o u
                   /\ Read(<<NumberLen, NumberLen>>, rest) = Ok(u, e)
                   /\ Len(rest) >= Len(u) + 2
<1>0. NumberLen \in Nat \ {0} /\ NumberLen \in Int \ {0}
  BY CodecAssumption
<1>1. Two(NumberLen, NumberLen, rest)
  BY <1>0, ReadsTwo
<1>2. PICK f1, f2, u :
        /\ Width(NumberLen, f1) /\ Width(NumberLen, f2)
        /\ Reads(<<NumberLen, NumberLen>>, rest, Coded(NumberLen, f1) \o Coded(NumberLen, f2),
                 <<f1, f2>>, u)
  BY <1>1, Zenon DEF Two
<1>3. Coded(NumberLen, f1) = f1 /\ Coded(NumberLen, f2) = f2
  BY <1>0, <1>2, FixedAgain
<1>4. /\ f1 \in Bytes /\ f2 \in Bytes /\ Len(f1) = NumberLen /\ Len(f2) = NumberLen
  BY <1>0, <1>2 DEF Width, OfWidth
<1> DEFINE e == <<f1, f2>>
           x == f1 \o f2
<1>5. e \in Numbers /\ e[1] = f1 /\ e[2] = f2
  BY <1>2, <1>4 DEF Numbers
<1>6. x \in Bytes /\ Len(x) = Len(f1) + Len(f2)
  BY <1>4, CutApart
<1>7. u \in Bytes /\ rest = x \o u /\ Read(<<NumberLen, NumberLen>>, rest) = Ok(u, e)
  BY <1>2, <1>3, Zenon DEF Reads
<1> HIDE DEF x, e
<1>8. Len(rest) = Len(x) + Len(u)
  <2>1. Len(x \o u) = Len(x) + Len(u)
    BY <1>6, <1>7, CutApart
  <2> QED
    BY <1>7, <2>1, Zenon
<1>9. Len(u) \in Nat /\ Len(rest) \in Nat
  BY <1>7 DEF Bytes
<1>10. Len(rest) >= Len(u) + 2
  BY <1>0, <1>4, <1>6, <1>8, <1>9
<1>11. e[1] \o e[2] = x
  BY <1>5, Zenon DEF x
<1> QED
  BY <1>5, <1>6, <1>7, <1>10, <1>11, Zenon

\* The entry e begins what is left.
Begins(rest, e, u) ==
  rest # <<>> /\ rest = (e[1] \o e[2]) \o u /\ Len(rest) >= Len(u) + 2

\* It is the next one, and two bytes or more are gone.
LEMMA TakenMore ==
  ASSUME NEW f \in Bytes, NEW rest, NEW val, NEW k \in Nat, NEW e \in Numbers, NEW u \in Bytes,
         Taken(f, rest, val, k), Begins(rest, e, u)
  PROVE  Taken(f, u, Append(val, e), k + 1)
<1> DEFINE F == FlattenSeq(Halves(val))
           x == e[1] \o e[2]
           more == Append(val, e)
<1>1. rest \in Bytes /\ val \in Seq(Numbers) /\ F \in Bytes /\ f = F \o rest
  BY Zenon DEF Taken
<1>2. Len(rest) + 2 * k <= Len(f)
  BY Zenon DEF Taken, Begins
<1>3. /\ Halves(val) \in Seq(Bytes) /\ x \in Bytes
      /\ Halves(more) = Append(Halves(val), x)
  BY <1>1, HalvesMore
<1> HIDE DEF x
<1>4. FlattenSeq(Halves(more)) = F \o x
  <2>1. FlattenSeq(Append(Halves(val), x)) = F \o x
    BY <1>3, FlattenMore, Zenon
  <2> QED
    BY <1>3, <2>1, Zenon
<1>5. more \in Seq(Numbers)
  BY <1>1
<1> HIDE DEF F, more
<1>6. F \o x \in Bytes
  BY <1>1, <1>3, CutApart, Zenon
<1>7. (F \o x) \o u = F \o (x \o u)
  BY <1>1, <1>3, Associative, Zenon
<1>8. f = (F \o x) \o u
  BY <1>1, <1>7, Zenon DEF x, Begins
<1>9. Len(u) + 2 * (k + 1) <= Len(f)
  <2>1. Len(u) \in Nat /\ Len(rest) \in Nat /\ Len(f) \in Nat
    BY <1>1 DEF Bytes
  <2>2. Len(rest) >= Len(u) + 2
    BY Zenon DEF Begins
  <2> QED
    BY <1>2, <2>1, <2>2
<1>10. Taken(f, u, more, k + 1)
  BY <1>4, <1>5, <1>6, <1>8, <1>9, Zenon DEF Taken
<1> QED
  BY <1>10 DEF more

\* The reader of entries after k of them
EntryState(f, p, k) ==
  \/ \E rest, val : p = Ok(rest, val) /\ Taken(f, rest, val, k)
  \/ \E rest, val : p = Bad(rest, val)

\* One round of the loop over the entries
LEMMA EntryStep ==
  ASSUME NEW f \in Bytes, NEW k \in Nat, NEW p, EntryState(f, p, k)
  PROVE  EntryState(f, IF ~p.ok \/ p.rest = <<>> THEN p
                       ELSE NextEntry(p, Read(<<NumberLen, NumberLen>>, p.rest)), k + 1)
<1> DEFINE shape == <<NumberLen, NumberLen>>
           q == IF ~p.ok \/ p.rest = <<>> THEN p ELSE NextEntry(p, Read(shape, p.rest))
<1>1. CASE \E rest, val : p = Bad(rest, val)
  <2>1. ~p.ok
    BY <1>1, BadNotOk
  <2>2. q = p
    BY <2>1
  <2> HIDE DEF q
  <2> QED
    BY <1>1, <2>2 DEF EntryState, q
<1>2. CASE \E rest, val : p = Ok(rest, val) /\ Taken(f, rest, val, k)
  <2>1. PICK rest, val : p = Ok(rest, val) /\ Taken(f, rest, val, k)
    BY <1>2
  <2>2. p.ok /\ p.rest = rest /\ p.val = val /\ rest \in Bytes
    <3>1. rest \in Bytes
      BY <2>1 DEF Taken
    <3> QED
      BY <2>1, <3>1, OkParts, Zenon
  <2>3. CASE rest = <<>>
    <3>1. Taken(f, rest, val, k + 1)
      BY <2>1, <2>3, Zenon DEF Taken
    <3>2. q = p
      BY <2>2, <2>3, Zenon
    <3> HIDE DEF q
    <3> QED
      BY <2>1, <3>1, <3>2, Zenon DEF EntryState, q
  <2>4. CASE rest # <<>> /\ ~Read(shape, rest).ok
    <3>1. q = NextEntry(Ok(rest, val), Read(shape, rest))
      BY <2>1, <2>2, <2>4, Zenon
    <3> HIDE DEF shape, q
    <3>2. q = [Ok(rest, val) EXCEPT !.ok = FALSE]
      BY <2>4, <3>1, Zenon DEF NextEntry
    <3>3. q = Bad(rest, val)
      BY <3>2 DEF Ok, Bad
    <3> QED
      BY <3>3, Zenon DEF EntryState, q, shape
  <2>5. CASE rest # <<>> /\ Read(shape, rest).ok
    <3>1. PICK e, u : /\ e \in Numbers /\ u \in Bytes /\ rest = (e[1] \o e[2]) \o u
                      /\ Read(shape, rest) = Ok(u, e) /\ Len(rest) >= Len(u) + 2
      BY <2>2, <2>5, EntryNumber, Zenon
    <3>2. Taken(f, u, Append(val, e), k + 1)
      <4>1. Begins(rest, e, u)
        BY <2>5, <3>1, Zenon DEF Begins
      <4> QED
        BY <2>1, <3>1, <4>1, TakenMore, Zenon
    <3>3. q = NextEntry(p, Ok(u, e))
      BY <2>2, <2>5, <3>1, Zenon
    <3> HIDE DEF shape, q
    <3>4. q = Ok(u, Append(val, e))
      <4> DEFINE d == Ok(u, e)
      <4>1. d.ok /\ d.rest = u /\ d.val = e
        BY OkParts, Zenon
      <4> HIDE DEF d
      <4>2. q = [ok |-> TRUE, rest |-> u, val |-> Append(val, e)]
        BY <2>2, <3>3, <4>1, Zenon DEF NextEntry, d
      <4> QED
        BY <4>2, Zenon DEF Ok
    <3> QED
      BY <3>2, <3>4, Zenon DEF EntryState, q, shape
  <2> QED
    BY <2>3, <2>4, <2>5, Zenon
<1> QED
  BY <1>1, <1>2, Zenon DEF EntryState

\* The reader of entries after each of them
EntrySteps(g, shape, b, n) ==
  /\ g[0] = [ok |-> TRUE, rest |-> b, val |-> <<>>]
  /\ \A i \in 1 .. n :
       g[i] = IF ~g[i - 1].ok \/ g[i - 1].rest = <<>> THEN g[i - 1]
              ELSE NextEntry(g[i - 1], Read(shape, g[i - 1].rest))

\* The reader of entries is the last of its rounds.
LEMMA EntriesBySteps ==
  ASSUME NEW shape, NEW b, Len(b) \in Nat
  PROVE  \E g : /\ Entries(shape, b) = g[(Len(b) + 1) \div 2]
                /\ EntrySteps(g, shape, b, (Len(b) + 1) \div 2)
  BY EntriesLoop DEF EntrySteps

\* A list of record numbers that is accepted is the bytes of its entries.
LEMMA EntriesAgain ==
  ASSUME NEW f \in Bytes
  PROVE  LET e == Entries(<<NumberLen, NumberLen>>, f)
         IN  e.ok => e.val \in Seq(Numbers) /\ f = FlattenSeq(Halves(e.val))
<1> DEFINE shape == <<NumberLen, NumberLen>>
           n == (Len(f) + 1) \div 2
           e == Entries(shape, f)
<1>1. Len(f) \in Nat
  BY DEF Bytes
<1>2. n \in Nat /\ 2 * n >= Len(f)
  BY <1>1
<1>3. PICK g : e = g[n] /\ EntrySteps(g, shape, f, n)
  BY <1>1, EntriesBySteps, Zenon
<1> HIDE DEF n, e
<1> DEFINE T == {k \in 0 .. n : EntryState(f, g[k], k)}
<1>4. 0 \in T
  <2> DEFINE z == <<>>
  <2>1. z \in Seq(Numbers) /\ Halves(z) = <<>> /\ <<>> \in Bytes /\ <<>> \o f = f
    BY DEF Halves, Bytes
  <2>2. FlattenSeq(Halves(z)) = <<>>
    BY <2>1, FlattenNone, Zenon
  <2>3. Len(f) + 2 * 0 <= Len(f)
    BY <1>1
  <2> HIDE DEF z
  <2>4. Taken(f, f, z, 0)
    BY <2>1, <2>2, <2>3, Zenon DEF Taken
  <2>5. g[0] = Ok(f, z)
    BY <1>3, Zenon DEF Ok, EntrySteps, z
  <2>6. EntryState(f, g[0], 0)
    BY <2>4, <2>5, Zenon DEF EntryState
  <2> QED
    BY <1>2, <2>6
<1>5. ASSUME NEW k \in 0 .. n - 1, k \in T PROVE k + 1 \in T
  <2>1. k \in Nat /\ k + 1 \in 1 .. n /\ k + 1 \in 0 .. n /\ (k + 1) - 1 = k
    BY <1>2
  <2>2. EntryState(f, g[k], k)
    BY <1>5
  <2> DEFINE p == g[k]
  <2>3. g[k + 1] = IF ~p.ok \/ p.rest = <<>> THEN p ELSE NextEntry(p, Read(shape, p.rest))
    BY <1>3, <2>1 DEF EntrySteps
  <2> HIDE DEF p
  <2>4. EntryState(f, g[k + 1], k + 1)
    BY <2>1, <2>2, <2>3, EntryStep, Zenon DEF p
  <2> QED
    BY <2>1, <2>4
<1>6. EntryState(f, e, n)
  <2>1. n \in T
    <3> HIDE DEF T
    <3>1. 0 .. n \subseteq T
      BY <1>2, <1>4, <1>5, BoundedInduction
    <3> QED
      BY <1>2, <3>1
  <2> QED
    BY <1>3, <2>1
<1>7. ASSUME e.ok PROVE e.val \in Seq(Numbers) /\ f = FlattenSeq(Halves(e.val))
  <2>1. PICK rest, val : e = Ok(rest, val) /\ Taken(f, rest, val, n)
    BY <1>6, <1>7, BadNotOk, Zenon DEF EntryState
  <2>2. e.val = val
    BY <2>1, OkParts, Zenon
  <2> DEFINE F == FlattenSeq(Halves(val))
  <2>3. rest \in Bytes /\ val \in Seq(Numbers) /\ F \in Bytes /\ f = F \o rest
    BY <2>1, Zenon DEF Taken
  <2>4. rest = <<>>
    <3>1. rest = <<>> \/ Len(rest) + 2 * n <= Len(f)
      BY <2>1, Zenon DEF Taken
    <3>2. ASSUME Len(rest) + 2 * n <= Len(f) PROVE rest = <<>>
      <4>1. rest \in Seq(Octet) /\ Len(rest) \in Nat
        BY <2>3 DEF Bytes
      <4>2. Len(rest) = 0
        BY <1>1, <1>2, <3>2, <4>1
      <4> QED
        BY <4>1, <4>2
    <3> QED
      BY <3>1, <3>2, Zenon
  <2> HIDE DEF F
  <2>5. F \o <<>> = F
    BY <2>3 DEF Bytes
  <2> QED
    BY <2>2, <2>3, <2>4, <2>5, Zenon DEF F
<1> QED
  BY <1>7 DEF e

\* nd_ack_serialize writes the whole buffer that nd_ack_parse accepted.
LEMMA AckAgain ==
  ASSUME NEW b \in Bytes, Len(b) <= BufCap, AckParse(b).ok
  PROVE  /\ Again(AckSerialize(AckParse(b).records), b)
         /\ AckSerialize(AckParse(b).records).bytes = b
<1> DEFINE r == Read(<<-2>>, b)
           shape == <<NumberLen, NumberLen>>
<1>0. NumberLen \in Nat \ {0}
  BY CodecAssumption
<1>1. FillsBuffer(r)
  <2> HIDE DEF r
  <2> QED
    BY RejectedNotOk DEF AckParse, AckList, r
<1>2. r.ok /\ r.rest = <<>>
  <2> HIDE DEF r
  <2> QED
    BY <1>1 DEF FillsBuffer
<1>3. One(-2, b)
  BY <1>2, ReadsOne
<1>4. PICK f, t : Width(-2, f) /\ Reads(<<-2>>, b, Coded(-2, f), <<f>>, t)
  BY <1>3, Zenon DEF One
<1>5. Coded(-2, f) = Prefixed(2, f) /\ f \in Bytes
  BY <1>4, VectorAgain DEF Width
<1> DEFINE w == Prefixed(2, f)
           v == <<f>>
<1>6. w \in Bytes /\ t \in Bytes /\ b = w \o t /\ r = Ok(t, v)
  BY <1>4, <1>5, Zenon DEF Reads
<1>7. v[1] = f
  OBVIOUS
<1> HIDE DEF w, v, r
<1>8. r.val[1] = f /\ t = <<>>
  <2>1. r.val = v /\ r.rest = t
    BY <1>6, OkParts, Zenon
  <2> QED
    BY <1>2, <1>7, <2>1, Zenon
<1>9. b = w
  <2>1. w \o <<>> = w
    BY <1>6 DEF Bytes
  <2> QED
    BY <1>6, <1>8, <2>1, Zenon
<1> DEFINE e == Entries(shape, f)
           p == AckRecords(e)
<1>10. AckParse(b) = p
  BY <1>1, <1>8, Zenon DEF AckParse, AckList, r
<1>11. e.ok => e.val \in Seq(Numbers) /\ f = FlattenSeq(Halves(e.val))
  BY <1>5, EntriesAgain
<1> HIDE DEF e
<1>12. e.ok /\ ~(Len(e.val) > MaxAcks)
  <2>1. CASE ~e.ok \/ Len(e.val) > MaxAcks
    BY <1>10, <2>1, RejectedNotOk DEF AckRecords
  <2> QED
    BY <2>1
<1> DEFINE val == e.val
           rec == [i \in 1 .. Len(val) |-> <<Get(val[i][1]), Get(val[i][2])>>]
<1>13. p.records = rec
  <2>1. p = [ok |-> TRUE, records |-> rec]
    BY <1>12, Zenon DEF AckRecords
  <2> HIDE DEF p, rec
  <2> QED
    BY <2>1
<1>14. val \in Seq(Numbers) /\ f = FlattenSeq(Halves(val))
  BY <1>11, <1>12
<1> HIDE DEF val
<1>15. Len(val) \in Nat /\ Len(rec) = Len(val)
  BY <1>14
<1>16. ASSUME NEW i \in 1 .. Len(val)
       PROVE  Put(NumberLen, rec[i][1]) = val[i][1] /\ Put(NumberLen, rec[i][2]) = val[i][2]
  <2>1. val[i] \in Numbers
    BY <1>14
  <2>2. Width(NumberLen, val[i][1]) /\ Width(NumberLen, val[i][2])
    BY <2>1 DEF Numbers
  <2>3. Put(NumberLen, Get(val[i][1])) = val[i][1] /\ Put(NumberLen, Get(val[i][2])) = val[i][2]
    BY <1>0, <2>2, FixedAgain
  <2>4. rec[i][1] = Get(val[i][1]) /\ rec[i][2] = Get(val[i][2])
    OBVIOUS
  <2> HIDE DEF rec
  <2> QED
    BY <2>3, <2>4
<1> HIDE DEF rec
<1>17. [i \in 1 .. Len(rec) |-> Put(NumberLen, rec[i][1]) \o Put(NumberLen, rec[i][2])] = Halves(val)
  <2>1. \A i \in 1 .. Len(val) :
          Put(NumberLen, rec[i][1]) \o Put(NumberLen, rec[i][2]) = val[i][1] \o val[i][2]
    BY <1>16
  <2> QED
    BY <1>15, <2>1 DEF Halves
<1>18. AckSerialize(rec) = Written(w)
  <2>1. ~(Len(rec) > MaxAcks)
    BY <1>12, <1>15 DEF val
  <2>2. Prefixed(2, FlattenSeq([i \in 1 .. Len(rec) |->
                      Put(NumberLen, rec[i][1]) \o Put(NumberLen, rec[i][2])])) = w
    BY <1>14, <1>17, Zenon DEF w
  <2> QED
    BY <2>1, <2>2, Zenon DEF AckSerialize
<1>19. Again(Written(w), b) /\ Written(w).bytes = w
  BY <1>6, BytesAgain
<1> HIDE DEF p
<1> QED
  BY <1>9, <1>10, <1>13, <1>18, <1>19, Zenon

-----------------------------------------------------------------------------
(* The messages under way                                                  *)

OneEncoding == {"plaintext", "handshake", "unified", "record", "ack", "verify"}

\* The formats with a type are the six.
LEMMA CanonicalFormats == DOMAIN Fields = OneEncoding
  BY DEF Fields, OneEncoding

\* Two names for strings of bytes
LEMMA OctetsAreBytes == Octets = Bytes
  BY DEF Octets, Bytes, Octet

\* The type of each format
LEMMA FieldsOf ==
  /\ Fields["plaintext"] = [type : Nat, version : Nat, epoch : Nat, seq : Nat, fragment : Octets]
  /\ Fields["handshake"] = [msg_type : Nat, length : Nat, message_seq : Nat, offset : Nat,
                            fragment : Octets]
  /\ Fields["unified"] = [cid_present : BOOLEAN, cid : Octets, seq16 : BOOLEAN,
                          len_present : BOOLEAN, epoch : Nat, seq : Nat, payload : Octets]
  /\ Fields["record"] = [epoch : Nat, seq : Nat, payload : Octets]
  /\ Fields["ack"] = [records : Seq(Nat \X Nat)]
  /\ Fields["verify"] = [algorithm : Nat, signature : Octets]
  BY DEF Fields, Octets

\* The serializer of each format
LEMMA SerializeOf ==
  /\ \A m : Serialize("plaintext", m) = PlaintextSerialize(m)
  /\ \A m : Serialize("handshake", m) = HandshakeSerialize(m)
  /\ \A m : Serialize("unified", m) = UnifiedSerialize(m)
  /\ \A m : Serialize("record", m) = RecordSerialize(m)
  /\ \A m : Serialize("ack", m) = AckSerialize(m.records)
  /\ \A m : Serialize("verify", m) = CertificateVerifySerialize(m)
<1>1. \A m : Serialize("plaintext", m) = PlaintextSerialize(m)
  BY Zenon DEF Serialize
<1>2. \A m : Serialize("handshake", m) = HandshakeSerialize(m)
  BY Zenon DEF Serialize
<1>3. \A m : Serialize("unified", m) = UnifiedSerialize(m)
  BY Zenon DEF Serialize
<1>4. \A m : Serialize("record", m) = RecordSerialize(m)
  BY Zenon DEF Serialize
<1>5. \A m : Serialize("ack", m) = AckSerialize(m.records)
  BY Zenon DEF Serialize
<1>6. \A m : Serialize("verify", m) = CertificateVerifySerialize(m)
  BY Zenon DEF Serialize
<1> QED
  BY <1>1, <1>2, <1>3, <1>4, <1>5, <1>6, Zenon

\* The parser of each format
LEMMA ParseOf ==
  /\ \A b : Parse("plaintext", b) = PlaintextParse(b)
  /\ \A b : Parse("handshake", b) = HandshakeParse(b)
  /\ \A b : Parse("unified", b) = UnifiedParse(b, CidLen)
  /\ \A b : Parse("record", b) = UnifiedParse(b, 0)
  /\ \A b : Parse("ack", b) = AckParse(b)
  /\ \A b : Parse("verify", b) = CertificateVerifyParse(b)
<1>1. \A b : Parse("plaintext", b) = PlaintextParse(b)
  BY Zenon DEF Parse
<1>2. \A b : Parse("handshake", b) = HandshakeParse(b)
  BY Zenon DEF Parse
<1>3. \A b : Parse("unified", b) = UnifiedParse(b, CidLen)
  BY Zenon DEF Parse
<1>4. \A b : Parse("record", b) = UnifiedParse(b, 0)
  BY Zenon DEF Parse
<1>5. \A b : Parse("ack", b) = AckParse(b)
  BY Zenon DEF Parse
<1>6. \A b : Parse("verify", b) = CertificateVerifyParse(b)
  BY Zenon DEF Parse
<1> QED
  BY <1>1, <1>2, <1>3, <1>4, <1>5, <1>6, Zenon

\* A number is written as bytes.
LEMMA PutBytes ==
  ASSUME NEW n \in Nat, NEW v \in Nat
  PROVE  Put(n, v) \in Bytes
  BY PutType DEF Bytes

\* Bytes behind bytes are bytes.
LEMMA JoinBytes ==
  ASSUME NEW p, NEW q
  PROVE  p \in Bytes /\ q \in Bytes => p \o q \in Bytes
  BY CutApart

\* What is written is what the serializer put together.
LEMMA WrittenBytes ==
  ASSUME NEW e
  PROVE  e \in Bytes /\ Written(e).ok => Written(e).bytes \in Bytes
<1>1. CASE Len(e) <= BufCap
  BY <1>1 DEF Written
<1>2. CASE ~(Len(e) <= BufCap)
  BY <1>2, RejectedNotOk DEF Written
<1> QED
  BY <1>1, <1>2

\* So are five of them.
LEMMA FiveBytes ==
  ASSUME NEW a, NEW b, NEW c, NEW d, NEW e
  PROVE  (a \in Bytes /\ b \in Bytes /\ c \in Bytes /\ d \in Bytes /\ e \in Bytes) =>
           a \o b \o c \o d \o e \in Bytes
<1> SUFFICES ASSUME a \in Bytes /\ b \in Bytes /\ c \in Bytes /\ d \in Bytes /\ e \in Bytes
             PROVE  a \o b \o c \o d \o e \in Bytes
  OBVIOUS
<1>1. a \o b \in Bytes
  BY JoinBytes, Zenon
<1>2. a \o b \o c \in Bytes
  BY <1>1, JoinBytes, Zenon
<1>3. a \o b \o c \o d \in Bytes
  BY <1>2, JoinBytes, Zenon
<1> QED
  BY <1>3, JoinBytes, Zenon

\* nd_plaintext_serialize writes bytes.
LEMMA PlaintextBytes ==
  ASSUME NEW m \in Fields["plaintext"]
  PROVE  PlaintextSerialize(m).ok => PlaintextSerialize(m).bytes \in Bytes
<1>1. m \in [type : Nat, version : Nat, epoch : Nat, seq : Nat, fragment : Octets]
  BY FieldsOf, Zenon
<1>2. /\ m.type \in Nat /\ m.version \in Nat /\ m.epoch \in Nat /\ m.seq \in Nat
      /\ m.fragment \in Bytes
  BY <1>1, OctetsAreBytes
<1>3. 1 \in Nat /\ 2 \in Nat /\ SeqLen \in Nat
  BY CodecAssumption
<1> DEFINE e == Put(1, m.type) \o Put(2, m.version) \o Put(2, m.epoch) \o Put(SeqLen, m.seq)
                  \o Prefixed(2, m.fragment)
<1>4. /\ Put(1, m.type) \in Bytes /\ Put(2, m.version) \in Bytes /\ Put(2, m.epoch) \in Bytes
      /\ Put(SeqLen, m.seq) \in Bytes
  BY <1>2, <1>3, PutBytes
<1>5. Prefixed(2, m.fragment) \in Bytes
  BY <1>2, <1>3, PrefixedType
<1>6. e \in Bytes
  BY <1>4, <1>5, FiveBytes, Zenon
<1> DEFINE w == PlaintextSerialize(m)
<1>7. w = Rejected \/ w = Written(e)
  BY Zenon DEF PlaintextSerialize
<1> HIDE DEF e, w
<1>8. w.ok => w.bytes \in Bytes
  BY <1>6, <1>7, WrittenBytes, RejectedNotOk, Zenon
<1> QED
  BY <1>8 DEF w

\* nd_handshake_serialize writes bytes.
LEMMA HandshakeBytes ==
  ASSUME NEW m \in Fields["handshake"]
  PROVE  HandshakeSerialize(m).ok => HandshakeSerialize(m).bytes \in Bytes
<1>1. m \in [msg_type : Nat, length : Nat, message_seq : Nat, offset : Nat, fragment : Octets]
  BY FieldsOf, Zenon
<1>2. /\ m.msg_type \in Nat /\ m.length \in Nat /\ m.message_seq \in Nat /\ m.offset \in Nat
      /\ m.fragment \in Bytes
  BY <1>1, OctetsAreBytes
<1>3. 1 \in Nat /\ 2 \in Nat /\ 3 \in Nat
  OBVIOUS
<1> DEFINE e == Put(1, m.msg_type) \o Put(3, m.length) \o Put(2, m.message_seq)
                  \o Put(3, m.offset) \o Prefixed(3, m.fragment)
<1>4. /\ Put(1, m.msg_type) \in Bytes /\ Put(3, m.length) \in Bytes
      /\ Put(2, m.message_seq) \in Bytes /\ Put(3, m.offset) \in Bytes
  BY <1>2, <1>3, PutBytes
<1>5. Prefixed(3, m.fragment) \in Bytes
  BY <1>2, <1>3, PrefixedType
<1>6. e \in Bytes
  BY <1>4, <1>5, FiveBytes, Zenon
<1> DEFINE w == HandshakeSerialize(m)
<1>7. w = Rejected \/ w = Written(e)
  BY Zenon DEF HandshakeSerialize
<1> HIDE DEF e, w
<1>8. w.ok => w.bytes \in Bytes
  BY <1>6, <1>7, WrittenBytes, RejectedNotOk, Zenon
<1> QED
  BY <1>8 DEF w

\* The first byte of a unified header is one.
LEMMA FirstByteType ==
  ASSUME NEW c, NEW s, NEW l, NEW e \in Nat
  PROVE  <<FixedBits + Flag(c, CidBit) + Flag(s, SeqBit) + Flag(l, LenBit) + EpochBits(e)>>
           \in Bytes
<1>1. Flag(c, CidBit) \in {0, 16} /\ Flag(s, SeqBit) \in {0, 8} /\ Flag(l, LenBit) \in {0, 4}
  BY DEF Flag, CidBit, SeqBit, LenBit
<1>2. EpochBits(e) \in 0 .. 3 /\ FixedBits = 32
  BY DEF EpochBits, EpochMask, FixedBits
<1> DEFINE x == FixedBits + Flag(c, CidBit) + Flag(s, SeqBit) + Flag(l, LenBit) + EpochBits(e)
<1>3. x \in Octet
  BY <1>1, <1>2 DEF Octet
<1> HIDE DEF x
<1>4. <<x>> \in Bytes
  BY <1>3 DEF Bytes
<1> QED
  BY <1>4 DEF x

\* nd_unified_serialize writes bytes.
LEMMA UnifiedBytesType ==
  ASSUME NEW m \in Fields["unified"]
  PROVE  UnifiedSerialize(m).ok => UnifiedSerialize(m).bytes \in Bytes
<1>1. m \in [cid_present : BOOLEAN, cid : Octets, seq16 : BOOLEAN, len_present : BOOLEAN,
             epoch : Nat, seq : Nat, payload : Octets]
  BY FieldsOf, Zenon
<1>2. m.cid \in Bytes /\ m.epoch \in Nat /\ m.seq \in Nat /\ m.payload \in Bytes
  BY <1>1, OctetsAreBytes
<1> DEFINE f == <<FixedBits + Flag(m.cid_present, CidBit) + Flag(m.seq16, SeqBit)
                    + Flag(m.len_present, LenBit) + EpochBits(m.epoch)>>
           c == IF m.cid_present THEN m.cid ELSE <<>>
           n == IF m.seq16 THEN 2 ELSE 1
           l == IF m.len_present THEN Put(2, Len(m.payload)) ELSE <<>>
           e == f \o c \o Put(n, m.seq) \o l \o m.payload
<1>3. f \in Bytes
  BY <1>2, FirstByteType
<1>4. <<>> \in Bytes /\ Len(m.payload) \in Nat /\ n \in Nat /\ 2 \in Nat
  BY <1>2 DEF Bytes
<1> HIDE DEF n
<1>5. c \in Bytes /\ Put(n, m.seq) \in Bytes /\ Put(2, Len(m.payload)) \in Bytes
  BY <1>2, <1>4, PutBytes
<1>6. l \in Bytes
  BY <1>4, <1>5
<1> HIDE DEF f, c, l
<1>7. e \in Bytes
  BY <1>2, <1>3, <1>5, <1>6, FiveBytes, Zenon
<1> DEFINE w == UnifiedSerialize(m)
<1>8. w = Rejected \/ w = Written(e)
  BY Zenon DEF UnifiedSerialize, f, c, l, n
<1> HIDE DEF e, w
<1>9. w.ok => w.bytes \in Bytes
  BY <1>7, <1>8, WrittenBytes, RejectedNotOk, Zenon
<1> QED
  BY <1>9 DEF w

\* nd_record_protect writes bytes.
LEMMA RecordBytes ==
  ASSUME NEW m \in Fields["record"]
  PROVE  RecordSerialize(m).bytes \in Bytes
<1>1. m \in [epoch : Nat, seq : Nat, payload : Octets]
  BY FieldsOf, Zenon
<1>2. m.epoch \in Nat /\ m.seq \in Nat /\ m.payload \in Bytes
  BY <1>1, OctetsAreBytes
<1> DEFINE s == m.seq % 65536
           n == Len(m.payload)
           q == m.epoch % 4
           x == FixedBits + SeqBit + LenBit + EpochBits(q)
           e == FixedShapeHeader(q, s, n) \o m.payload
<1>3. s \in Nat /\ n \in Nat /\ 2 \in Nat /\ q \in Nat
  BY <1>2, RestFits DEF Bytes
<1> HIDE DEF s, n, q
<1>4. x \in Octet
  <2>1. EpochBits(q) \in 0 .. 3 /\ FixedBits = 32 /\ SeqBit = 8 /\ LenBit = 4
    BY <1>3 DEF EpochBits, EpochMask, FixedBits, SeqBit, LenBit
  <2> QED
    BY <2>1 DEF Octet
<1> HIDE DEF x
<1>5. <<x>> \in Bytes
  BY <1>4 DEF Bytes
<1>6. Put(2, s) \in Bytes /\ Put(2, n) \in Bytes
  BY <1>3, PutBytes
<1>7. <<x>> \o Put(2, s) \in Bytes
  BY <1>5, <1>6, JoinBytes, Zenon
<1>8. <<x>> \o Put(2, s) \o Put(2, n) \in Bytes
  BY <1>6, <1>7, JoinBytes, Zenon
<1>9. e \in Bytes
  BY <1>2, <1>8, JoinBytes, Zenon DEF FixedShapeHeader, x
<1>10. RecordSerialize(m) = Foreign(e)
  BY DEF RecordSerialize, q, s, n
<1> HIDE DEF e
<1>11. Foreign(e).bytes = e
  BY DEF Foreign
<1> QED
  BY <1>9, <1>10, <1>11, Zenon

\* The server writes its CertificateVerify as bytes.
LEMMA VerifyBytes ==
  ASSUME NEW m \in Fields["verify"]
  PROVE  CertificateVerifySerialize(m).ok => CertificateVerifySerialize(m).bytes \in Bytes
<1>1. m \in [algorithm : Nat, signature : Octets]
  BY FieldsOf, Zenon
<1>2. m.algorithm \in Nat /\ m.signature \in Bytes /\ 2 \in Nat
  BY <1>1, OctetsAreBytes
<1>3. Put(2, m.algorithm) \in Bytes /\ Prefixed(2, m.signature) \in Bytes
  BY <1>2, PutBytes, PrefixedType
<1>4. Put(2, m.algorithm) \o Prefixed(2, m.signature) \in Bytes
  BY <1>3, JoinBytes, Zenon
<1> QED
  BY <1>4, WrittenBytes, Zenon DEF CertificateVerifySerialize

\* Flattening stays in a set that joining stays in.
LEMMA FlattenClosed ==
  ASSUME NEW S, <<>> \in S, \A p \in S, q \in S : p \o q \in S, NEW f \in Seq(S)
  PROVE  FlattenSeq(f) \in S
<1> DEFINE n == Len(f)
<1>1. n \in Nat /\ \A i \in 1 .. n : f[i] \in S
  OBVIOUS
<1>2. CASE n = 0
  <2>1. f = <<>>
    BY <1>2
  <2> QED
    BY <2>1, FlattenNone, Zenon
<1>3. CASE n # 0
  <2>1. PICK g : FlattenSteps(g, f, n)
    <3>1. n \in Nat \ {0} /\ Len(f) = n
      BY <1>1, <1>3
    <3> HIDE DEF n
    <3> QED
      BY <3>1, FlattenLoop DEF FlattenSteps
  <2> HIDE DEF n
  <2> DEFINE T == {i \in 0 .. n : i = 0 \/ g[i] \in S}
  <2>2. 0 \in T
    BY <1>1
  <2>3. ASSUME NEW i \in 0 .. n - 1, i \in T PROVE i + 1 \in T
    <3>1. i + 1 \in 1 .. n /\ (i + 1) - 1 = i /\ i + 1 \in 0 .. n
      BY <1>1
    <3>2. g[i + 1] = IF i + 1 = 1 THEN f[i + 1] ELSE g[i] \o f[i + 1]
      BY <2>1, <3>1 DEF FlattenSteps
    <3>3. f[i + 1] \in S
      BY <1>1, <3>1
    <3>4. i + 1 = 1 \/ g[i] \in S
      BY <2>3
    <3>5. g[i + 1] \in S
      BY <3>2, <3>3, <3>4, Zenon
    <3> QED
      BY <3>1, <3>5
  <2>4. n \in T
    <3> HIDE DEF T
    <3>1. 0 .. n \subseteq T
      BY <1>1, <2>2, <2>3, BoundedInduction
    <3> QED
      BY <1>1, <3>1
  <2> QED
    BY <1>3, <2>1, <2>4 DEF FlattenSteps
<1> QED
  BY <1>2, <1>3

\* The bytes of the parts are the bytes of the whole.
LEMMA FlattenType ==
  ASSUME NEW f \in Seq(Bytes)
  PROVE  FlattenSeq(f) \in Bytes
<1>1. <<>> \in Bytes
  BY DEF Bytes
<1>2. \A p \in Bytes, q \in Bytes : p \o q \in Bytes
  BY JoinBytes, Zenon
<1> QED
  BY <1>1, <1>2, FlattenClosed

\* The record numbers of an ACK
AckBody(rec) ==
  FlattenSeq([i \in 1 .. Len(rec) |-> Put(NumberLen, rec[i][1]) \o Put(NumberLen, rec[i][2])])

\* They are bytes.
LEMMA AckBodyType ==
  ASSUME NEW rec \in Seq(Nat \X Nat)
  PROVE  AckBody(rec) \in Bytes
<1> DEFINE x(i) == Put(NumberLen, rec[i][1]) \o Put(NumberLen, rec[i][2])
           f == [i \in 1 .. Len(rec) |-> x(i)]
<1>1. NumberLen \in Nat
  BY CodecAssumption
<1>2. ASSUME NEW i \in 1 .. Len(rec) PROVE x(i) \in Bytes
  <2>1. rec[i] \in Nat \X Nat
    OBVIOUS
  <2>2. rec[i][1] \in Nat /\ rec[i][2] \in Nat
    BY <2>1
  <2>3. Put(NumberLen, rec[i][1]) \in Bytes /\ Put(NumberLen, rec[i][2]) \in Bytes
    BY <1>1, <2>2, PutBytes
  <2> QED
    BY <2>3, JoinBytes, Zenon
<1> HIDE DEF x
<1>3. f \in Seq(Bytes)
  BY <1>2
<1>4. FlattenSeq(f) \in Bytes
  BY <1>3, FlattenType
<1> QED
  BY <1>4 DEF AckBody, x

\* nd_ack_serialize writes bytes.
LEMMA AckBytes ==
  ASSUME NEW m \in Fields["ack"]
  PROVE  AckSerialize(m.records).ok => AckSerialize(m.records).bytes \in Bytes
<1> DEFINE e == Prefixed(2, AckBody(m.records))
           w == AckSerialize(m.records)
<1>1. m.records \in Seq(Nat \X Nat)
  <2>1. m \in [records : Seq(Nat \X Nat)]
    BY FieldsOf, Zenon
  <2> QED
    BY <2>1
<1>2. AckBody(m.records) \in Bytes /\ 2 \in Nat
  BY <1>1, AckBodyType
<1>3. e \in Bytes
  BY <1>2, PrefixedType
<1>4. w = Rejected \/ w = Written(e)
  BY Zenon DEF AckSerialize, AckBody
<1> HIDE DEF e, w
<1>5. w.ok => w.bytes \in Bytes
  BY <1>3, <1>4, WrittenBytes, RejectedNotOk, Zenon
<1> QED
  BY <1>5 DEF w

\* What is sent in one of the six formats is bytes.
LEMMA SentBytes ==
  ASSUME NEW f \in DOMAIN Sample, NEW m \in Sample[f], f \in OneEncoding, Serialize(f, m).ok
  PROVE  Serialize(f, m).bytes \in Bytes
<1>1. m \in Fields[f]
  BY WireAssumption, CanonicalFormats, Zenon
<1>2. CASE f = "plaintext"
  BY <1>1, <1>2, SerializeOf, PlaintextBytes, Zenon
<1>3. CASE f = "handshake"
  BY <1>1, <1>3, SerializeOf, HandshakeBytes, Zenon
<1>4. CASE f = "unified"
  BY <1>1, <1>4, SerializeOf, UnifiedBytesType, Zenon
<1>5. CASE f = "record"
  BY <1>1, <1>5, SerializeOf, RecordBytes, Zenon
<1>6. CASE f = "ack"
  BY <1>1, <1>6, SerializeOf, AckBytes, Zenon
<1>7. CASE f = "verify"
  BY <1>1, <1>7, SerializeOf, VerifyBytes, Zenon
<1> QED
  BY <1>2, <1>3, <1>4, <1>5, <1>6, <1>7, Zenon DEF OneEncoding

\* Between messages there is no result.  A message of one of the six formats
\* is bytes, however it was damaged, and what was returned is what the parser
\* makes of them.
CodecInv ==
  /\ format = Idle => got = Pending
  /\ format \in OneEncoding => wire \in Bytes /\ (got # Pending => got = Parse(format, wire))

\* At the start nothing is under way.
LEMMA CodecInitInv == WireInit => CodecInv
  BY DEF WireInit, CodecInv, Idle, OneEncoding

\* Damage makes other bytes of them.
LEMMA CodecDamaged ==
  ASSUME CodecInv, NEW b, Damaged(b), wire \in Bytes => b \in Bytes
  PROVE  CodecInv'
<1>1. format' = format /\ got' = got /\ wire' = b /\ format # Idle /\ got = Pending
  BY DEF Damaged
<1> QED
  BY <1>1, Zenon DEF CodecInv

\* Every step keeps the bytes bytes and the result the parser's.
LEMMA CodecNextInv == CodecInv /\ [WireNext]_wireVars => CodecInv'
<1> SUFFICES ASSUME CodecInv, [WireNext]_wireVars PROVE CodecInv'
  OBVIOUS
<1>0. Idle \notin OneEncoding
  BY DEF Idle, OneEncoding
<1>1. ASSUME NEW f \in DOMAIN Sample, NEW m \in Sample[f], Send(f, m) PROVE CodecInv'
  <2>1. /\ got = Pending /\ got' = got /\ format' = f
        /\ wire' = Serialize(f, m).bytes /\ Serialize(f, m).ok
    BY <1>1 DEF Send, CodecInv
  <2>2. f \in OneEncoding => wire' \in Bytes
    BY <2>1, SentBytes
  <2> QED
    BY <2>1, <2>2, Zenon DEF CodecInv
<1>2. ASSUME NEW f \in DOMAIN Sample, NEW m \in Sample[f], SendRefused(f, m) PROVE CodecInv'
  BY <1>2 DEF SendRefused, CodecInv, wireVars
<1>3. ASSUME NEW k \in 0 .. Len(wire), Truncate(k) PROVE CodecInv'
  <2> DEFINE b == SubSeq(wire, 1, k)
  <2>1. Damaged(b)
    BY <1>3 DEF Truncate
  <2>2. wire \in Bytes => b \in Bytes
    BY CutInTwo
  <2> HIDE DEF b
  <2> QED
    BY <2>1, <2>2, CodecDamaged
<1>4. ASSUME NEW i \in 1 .. Len(wire), NEW x \in NoiseByte, Overwrite(i, x) PROVE CodecInv'
  <2> DEFINE b == [wire EXCEPT ![i] = x]
  <2>1. Damaged(b)
    BY <1>4 DEF Overwrite
  <2>2. wire \in Bytes => b \in Bytes
    BY NoiseIsOctet DEF Bytes
  <2> HIDE DEF b
  <2> QED
    BY <2>1, <2>2, CodecDamaged
<1>5. ASSUME NEW x \in NoiseByte, Extend(x) PROVE CodecInv'
  <2> DEFINE b == Append(wire, x)
  <2>1. Damaged(b)
    BY <1>5 DEF Extend
  <2>2. wire \in Bytes => b \in Bytes
    BY NoiseIsOctet DEF Bytes
  <2> HIDE DEF b
  <2> QED
    BY <2>1, <2>2, CodecDamaged
<1>6. ASSUME NEW x \in NoiseByte, Grow(x) PROVE CodecInv'
  <2>1. format' = "der" /\ got' = got /\ got = Pending
    BY <1>6 DEF Grow
  <2> QED
    BY <2>1 DEF CodecInv, Idle, OneEncoding
<1>7. CASE Receive
  BY <1>7, Zenon DEF Receive, CodecInv
<1>8. CASE Done
  BY <1>0, <1>8, Zenon DEF Done, CodecInv
<1>9. CASE UNCHANGED wireVars
  BY <1>9 DEF CodecInv, wireVars
<1> QED
  BY <1>1, <1>2, <1>3, <1>4, <1>5, <1>6, <1>7, <1>8, <1>9 DEF WireNext

\* What the six parsers accept has one encoding.
LEMMA AcceptedAgain ==
  ASSUME NEW f \in OneEncoding, NEW b \in Bytes, Len(b) <= BufCap, Parse(f, b).ok
  PROVE  LET w == Serialize(IF f = "record" THEN "unified" ELSE f, Parse(f, b))
         IN  Again(w, b) /\ (f \in {"ack", "verify"} => w.bytes = b)
<1> DEFINE p == Parse(f, b)
           w == Serialize(IF f = "record" THEN "unified" ELSE f, p)
<1>0. CidLen \in Nat /\ 0 \in Nat
  BY WireAssumption
<1>1. CASE f = "plaintext"
  <2>1. p = PlaintextParse(b) /\ w = PlaintextSerialize(p) /\ f \notin {"ack", "verify"}
    <3> HIDE DEF p
    <3>1. f # "record" /\ f \notin {"ack", "verify"}
      BY <1>1
    <3> QED
      BY <1>1, <3>1, ParseOf, SerializeOf, Zenon DEF p
  <2> HIDE DEF p, w
  <2>2. PlaintextParse(b).ok
    BY <2>1 DEF p
  <2>3. Again(PlaintextSerialize(PlaintextParse(b)), b)
    BY <2>2, PlaintextAgain
  <2> QED
    BY <2>1, <2>3, Zenon DEF p, w
<1>2. CASE f = "handshake"
  <2>1. p = HandshakeParse(b) /\ w = HandshakeSerialize(p) /\ f \notin {"ack", "verify"}
    <3> HIDE DEF p
    <3>1. f # "record" /\ f \notin {"ack", "verify"}
      BY <1>2
    <3> QED
      BY <1>2, <3>1, ParseOf, SerializeOf, Zenon DEF p
  <2> HIDE DEF p, w
  <2>2. HandshakeParse(b).ok
    BY <2>1 DEF p
  <2>3. Again(HandshakeSerialize(HandshakeParse(b)), b)
    BY <2>2, HandshakeAgain
  <2> QED
    BY <2>1, <2>3, Zenon DEF p, w
<1>3. ASSUME NEW cl \in Nat, f \in {"unified", "record"}, p = UnifiedParse(b, cl)
      PROVE  Again(w, b) /\ f \notin {"ack", "verify"}
  <2>1. w = UnifiedSerialize(p) /\ f \notin {"ack", "verify"}
    <3> HIDE DEF p
    <3>1. f \notin {"ack", "verify"} /\ (IF f = "record" THEN "unified" ELSE f) = "unified"
      BY <1>3
    <3> QED
      BY <3>1, SerializeOf, Zenon
  <2> HIDE DEF p, w
  <2>2. UnifiedParse(b, cl).ok
    BY <1>3 DEF p
  <2>3. Again(UnifiedSerialize(UnifiedParse(b, cl)), b)
    BY <2>2, UnifiedAgain
  <2> QED
    BY <1>3, <2>1, <2>3, Zenon
<1>4. CASE f = "unified"
  <2>1. p = UnifiedParse(b, CidLen)
    BY <1>4, ParseOf, Zenon
  <2> HIDE DEF p, w
  <2>2. Again(w, b) /\ f \notin {"ack", "verify"}
    BY <1>0, <1>3, <1>4, <2>1
  <2> QED
    BY <2>2, Zenon DEF p, w
<1>5. CASE f = "record"
  <2>1. p = UnifiedParse(b, 0)
    BY <1>5, ParseOf, Zenon
  <2> HIDE DEF p, w
  <2>2. Again(w, b) /\ f \notin {"ack", "verify"}
    BY <1>0, <1>3, <1>5, <2>1
  <2> QED
    BY <2>2, Zenon DEF p, w
<1>6. CASE f = "ack"
  <2>1. p = AckParse(b) /\ w = AckSerialize(p.records)
    <3> HIDE DEF p
    <3>1. f # "record"
      BY <1>6
    <3> QED
      BY <1>6, <3>1, ParseOf, SerializeOf, Zenon DEF p
  <2> HIDE DEF p, w
  <2>2. AckParse(b).ok
    BY <2>1 DEF p
  <2>3. Again(AckSerialize(AckParse(b).records), b) /\ AckSerialize(AckParse(b).records).bytes = b
    BY <2>2, AckAgain
  <2> QED
    BY <2>1, <2>3, Zenon DEF p, w
<1>7. CASE f = "verify"
  <2>1. p = CertificateVerifyParse(b) /\ w = CertificateVerifySerialize(p)
    <3> HIDE DEF p
    <3>1. f # "record"
      BY <1>7
    <3> QED
      BY <1>7, <3>1, ParseOf, SerializeOf, Zenon DEF p
  <2> HIDE DEF p, w
  <2>2. CertificateVerifyParse(b).ok
    BY <2>1 DEF p
  <2>3. /\ Again(CertificateVerifySerialize(CertificateVerifyParse(b)), b)
        /\ CertificateVerifySerialize(CertificateVerifyParse(b)).bytes = b
    BY <2>2, VerifyAgain
  <2> QED
    BY <2>1, <2>3, Zenon DEF p, w
<1> HIDE DEF p, w
<1> QED
  BY <1>1, <1>2, <1>4, <1>5, <1>6, <1>7, Zenon DEF OneEncoding

\* Whatever bytes arrive, damaged in whatever way, what the parsers of the
\* headers, of the ACK and of CertificateVerify accept is written back, by the
\* serializer of the format, as the bytes that were consumed: for every width
\* of a sequence number, every limit on the number of records and every
\* connection ID length.
THEOREM Canonicity == WireSpec => []Canonical
<1>1. CodecInv => Canonical
  <2> SUFFICES ASSUME CodecInv, Accepted, format \in DOMAIN Fields, Len(wire) <= BufCap
               PROVE  Canonical
    BY Zenon DEF Canonical
  <2>1. format \in OneEncoding /\ got.ok /\ got # Pending
    BY CanonicalFormats, Zenon DEF Accepted, Received
  <2>2. wire \in Bytes /\ got = Parse(format, wire)
    BY <2>1, Zenon DEF CodecInv
  <2> DEFINE w == Serialize(IF format = "record" THEN "unified" ELSE format, got)
  <2>3. Again(w, wire) /\ (format \in {"ack", "verify"} => w.bytes = wire)
    BY <2>1, <2>2, AcceptedAgain, Zenon
  <2> HIDE DEF w
  <2>4. w.ok /\ IsPrefix(w.bytes, wire) /\ (format \in {"ack", "verify"} => w.bytes = wire)
    BY <2>3, Zenon DEF Again
  <2> QED
    BY <2>4, Zenon DEF Canonical, w
<1> QED
  BY <1>1, CodecInitInv, CodecNextInv, PTL DEF WireSpec

-----------------------------------------------------------------------------
(* Part of a message is no message.                                        *)

\* What a reader that succeeds holds
LEMMA IsOk ==
  ASSUME NEW r, NEW t, NEW v
  PROVE  r = Ok(t, v) => r.ok /\ r.rest = t /\ (FillsBuffer(r) <=> t = <<>>)
  BY DEF Ok, FillsBuffer

\* The first fields of a shape
LEMMA FirstFields ==
  ASSUME NEW shape \in Seq(Int \ {0}), NEW k \in 0 .. Len(shape) - 1
  PROVE  /\ SubSeq(shape, 1, k) \in Seq(Int) /\ shape[k + 1] \in Int \ {0}
         /\ SubSeq(shape, 1, k + 1) = Append(SubSeq(shape, 1, k), shape[k + 1])
<1> DEFINE p == SubSeq(shape, 1, k)
           q == SubSeq(shape, 1, k + 1)
           r == Append(p, shape[k + 1])
<1>0. k \in Nat /\ k + 1 \in 1 .. Len(shape) /\ shape[k + 1] \in Int \ {0}
  OBVIOUS
<1>1. p \in Seq(Int \ {0}) /\ Len(p) = k /\ \A i \in 1 .. k : p[i] = shape[i]
  BY <1>0
<1>2. /\ q \in Seq(Int \ {0}) /\ Len(q) = k + 1
      /\ \A i \in 1 .. k + 1 : q[i] = shape[i]
  BY <1>0
<1> HIDE DEF p, q
<1>3. /\ r \in Seq(Int \ {0}) /\ Len(r) = k + 1 /\ r[k + 1] = shape[k + 1]
      /\ \A i \in 1 .. k : r[i] = p[i]
  BY <1>0, <1>1
<1> HIDE DEF r
<1>4. ASSUME NEW i \in 1 .. Len(q) PROVE q[i] = r[i]
  <2>1. CASE i = k + 1
    BY <1>0, <1>2, <1>3, <2>1
  <2>2. CASE i # k + 1
    <3>1. i \in 1 .. k /\ i \in 1 .. k + 1
      BY <1>0, <1>2, <2>2
    <3> QED
      BY <1>1, <1>2, <1>3, <3>1
  <2> QED
    BY <2>1, <2>2
<1>5. q = r
  BY <1>2, <1>3, <1>4, SeqEqual
<1>6. p \in Seq(Int)
  BY <1>1
<1> QED
  BY <1>0, <1>5, <1>6 DEF p, q, r

\* The shape is read off b, and the same way when s follows.
ReadsBoth(shape, b, s) ==
  \E e, v, t : Reads(shape, b, e, v, t) /\ Reads(shape, b \o s, e, v, t \o s)

\* A field at the beginning of t is there when more follows.
LEMMA LeadsLonger ==
  ASSUME NEW n \in Int \ {0}, NEW f, NEW t, NEW u, NEW s \in Bytes, Leads(n, f, t, u)
  PROVE  Leads(n, f, t \o s, u \o s)
<1>1. f \in Bytes /\ u \in Bytes /\ OfWidth(n, f) /\ t = Coded(n, f) \o u
  BY DEF Leads
<1>2. Coded(n, f) \in Bytes /\ u \o s \in Bytes
  BY <1>1, CodedType, CutApart
<1>3. (Coded(n, f) \o u) \o s = Coded(n, f) \o (u \o s)
  BY <1>1, <1>2, Associative, Zenon
<1> QED
  BY <1>1, <1>2, <1>3, Zenon DEF Leads

\* The reader never looks past what it takes: what it makes of some bytes it
\* makes of them when more bytes follow, and leaves these.
LEMMA ReadsLonger ==
  ASSUME NEW shape \in Seq(Int \ {0}), NEW b \in Bytes, NEW s \in Bytes, Read(shape, b).ok
  PROVE  ReadsBoth(shape, b, s)
<1> DEFINE n == Len(shape)
           P(k) == SubSeq(shape, 1, k)
           T == {k \in 0 .. n : Read(P(k), b).ok => ReadsBoth(P(k), b, s)}
<1>0. n \in Nat /\ P(n) = shape
  OBVIOUS
<1>1. 0 \in T
  <2>1. P(0) = <<>>
    OBVIOUS
  <2>2. b \o s \in Bytes
    BY CutApart
  <2>3. Reads(<<>>, b, <<>>, <<>>, b) /\ Reads(<<>>, b \o s, <<>>, <<>>, b \o s)
    BY <2>2, ReadsNone
  <2>4. ReadsBoth(P(0), b, s)
    BY <2>1, <2>3 DEF ReadsBoth
  <2> HIDE DEF P
  <2> QED
    BY <1>0, <2>4
<1>2. ASSUME NEW k \in 0 .. n - 1, k \in T PROVE k + 1 \in T
  <2> DEFINE p == P(k)
             m == shape[k + 1]
  <2>1. p \in Seq(Int) /\ m \in Int \ {0} /\ P(k + 1) = Append(p, m) /\ k + 1 \in 0 .. n
    BY <1>0, FirstFields
  <2>2. Read(p, b).ok => ReadsBoth(p, b, s)
    BY <1>2
  <2> HIDE DEF p, m, P
  <2>3. ASSUME Read(Append(p, m), b).ok PROVE ReadsBoth(Append(p, m), b, s)
    <3>1. Read(p, b).ok
      BY <2>1, <2>3, ReadsLess
    <3>2. PICK e, v, t : Reads(p, b, e, v, t) /\ Reads(p, b \o s, e, v, t \o s)
      BY <2>2, <3>1 DEF ReadsBoth
    <3>3. PICK f, u : /\ Leads(m, f, t, u)
                      /\ Reads(Append(p, m), b, e \o Coded(m, f), Append(v, f), u)
      BY <2>1, <2>3, <3>2, ReadsMore
    <3>4. Leads(m, f, t \o s, u \o s)
      BY <2>1, <3>3, LeadsLonger
    <3>5. Reads(Append(p, m), b \o s, e \o Coded(m, f), Append(v, f), u \o s)
      BY <2>1, <3>2, <3>4, ReadsOn
    <3> QED
      BY <3>3, <3>5 DEF ReadsBoth
  <2> QED
    BY <2>1, <2>3
<1> HIDE DEF T, P
<1>3. n \in T
  <2>1. 0 .. n \subseteq T
    BY <1>0, <1>1, <1>2, BoundedInduction
  <2> QED
    BY <1>0, <2>1
<1>4. Read(P(n), b).ok => ReadsBoth(P(n), b, s)
  BY <1>3 DEF T
<1> QED
  BY <1>0, <1>4

\* The fields of the shape, and nothing else
Fills(shape, b) == b \in Bytes /\ FillsBuffer(Read(shape, b))

\* What is filled is read to the end.
LEMMA FillsReads ==
  ASSUME NEW shape \in Seq(Int \ {0}), NEW b, Fills(shape, b), NEW s \in Bytes
  PROVE  \E v : Reads(shape, b \o s, b, v, s)
<1>1. b \in Bytes /\ Read(shape, b).ok /\ Read(shape, b).rest = <<>>
  BY DEF Fills, FillsBuffer
<1>2. PICK e, v, t : Reads(shape, b, e, v, t) /\ Reads(shape, b \o s, e, v, t \o s)
  BY <1>1, ReadsLonger DEF ReadsBoth
<1>3. e \in Bytes /\ b = e \o t /\ Read(shape, b) = Ok(t, v)
  BY <1>2 DEF Reads
<1>4. t = <<>>
  BY <1>1, <1>3, IsOk, Zenon
<1>5. <<>> \o s = s /\ e \o <<>> = e
  BY <1>3 DEF Bytes
<1> QED
  BY <1>2, <1>3, <1>4, <1>5

\* One more field behind those of a shape
LEMMA FillsMore ==
  ASSUME NEW shape \in Seq(Int \ {0}), NEW n \in Int \ {0}, NEW b, NEW f,
         Fills(shape, b), Width(n, f)
  PROVE  Fills(Append(shape, n), b \o Coded(n, f)) /\ Append(shape, n) \in Seq(Int \ {0})
<1> DEFINE s == Coded(n, f)
<1>1. f \in Bytes /\ OfWidth(n, f) /\ b \in Bytes
  BY DEF Width, Fills
<1>2. s \in Bytes /\ <<>> \in Bytes /\ s = s \o <<>>
  <2>1. s \in Bytes
    BY <1>1, CodedType
  <2> HIDE DEF s
  <2> QED
    BY <2>1 DEF Bytes
<1>3. Leads(n, f, s, <<>>)
  BY <1>1, <1>2, Zenon DEF Leads
<1> HIDE DEF s
<1>4. PICK v : Reads(shape, b \o s, b, v, s)
  BY <1>2, FillsReads
<1>5. shape \in Seq(Int)
  OBVIOUS
<1>6. Reads(Append(shape, n), b \o s, b \o Coded(n, f), Append(v, f), <<>>)
  BY <1>3, <1>4, <1>5, ReadsOn
<1>7. b \o s \in Bytes
  BY <1>1, <1>2, CutApart
<1>8. FillsBuffer(Read(Append(shape, n), b \o s))
  BY <1>6, IsOk, Zenon DEF Reads
<1>9. Fills(Append(shape, n), b \o s)
  BY <1>7, <1>8 DEF Fills
<1> QED
  BY <1>9 DEF s

\* A single field
LEMMA FillsOne ==
  ASSUME NEW n \in Int \ {0}, NEW f, Width(n, f)
  PROVE  Fills(<<n>>, Coded(n, f)) /\ <<n>> \in Seq(Int \ {0})
<1>1. <<>> \in Bytes /\ <<>> \in Seq(Int \ {0})
  BY DEF Bytes
<1>2. Read(<<>>, <<>>) = Ok(<<>>, <<>>)
  BY ReadNone
<1>3. Fills(<<>>, <<>>)
  BY <1>1, <1>2, IsOk, Zenon DEF Fills
<1>4. Fills(Append(<<>>, n), <<>> \o Coded(n, f)) /\ Append(<<>>, n) \in Seq(Int \ {0})
  BY <1>1, <1>3, FillsMore
<1>5. Coded(n, f) \in Bytes
  BY CodedType DEF Width
<1>6. <<>> \o Coded(n, f) = Coded(n, f) /\ Append(<<>>, n) = <<n>>
  BY <1>5 DEF Bytes
<1> QED
  BY <1>4, <1>6

\* w is a part of e, and s what is missing.
LEMMA PartOf ==
  ASSUME NEW w \in Seq(Nat), NEW e \in Bytes, IsStrictPrefix(w, e)
  PROVE  \E s : /\ w \in Bytes /\ s \in Bytes /\ s # <<>> /\ e = w \o s
                /\ w = SubSeq(e, 1, Len(w)) /\ Len(w) < Len(e)
<1> DEFINE k == Len(w)
           s == SubSeq(e, k + 1, Len(e))
<1>0. e \in Seq(Octet) /\ k \in Nat /\ Len(e) \in Nat
  BY DEF Bytes
<1>1. k <= Len(e) /\ SubSeq(w, 1, k) = SubSeq(e, 1, k) /\ w # e
  BY DEF IsStrictPrefix, IsPrefix
<1>2. SubSeq(w, 1, k) = w
  OBVIOUS
<1>3. SubSeq(e, 1, Len(e)) = e
  BY <1>0
<1> HIDE DEF k
<1>4. k < Len(e) /\ w = SubSeq(e, 1, k) /\ k \in 0 .. Len(e)
  BY <1>0, <1>1, <1>2, <1>3
<1>5. /\ SubSeq(e, 1, k) \in Bytes /\ s \in Bytes /\ Len(s) = Len(e) - k
      /\ e = SubSeq(e, 1, k) \o s
  BY <1>4, CutInTwo
<1> HIDE DEF s
<1>6. s # <<>>
  <2>1. Len(s) # 0
    BY <1>0, <1>4, <1>5
  <2> QED
    BY <2>1
<1> QED
  BY <1>4, <1>5, <1>6 DEF k

\* A reader refuses part of what fills its shape.
LEMMA PartRefused ==
  ASSUME NEW shape \in Seq(Int \ {0}), NEW e, Fills(shape, e),
         NEW w \in Seq(Nat), IsStrictPrefix(w, e)
  PROVE  ~Read(shape, w).ok
<1> SUFFICES ASSUME Read(shape, w).ok PROVE FALSE
  OBVIOUS
<1>1. e \in Bytes /\ Read(shape, e).rest = <<>>
  BY DEF Fills, FillsBuffer
<1>2. PICK s : w \in Bytes /\ s \in Bytes /\ s # <<>> /\ e = w \o s
  BY <1>1, PartOf
<1>3. PICK u, v, t : Reads(shape, w, u, v, t) /\ Reads(shape, w \o s, u, v, t \o s)
  BY <1>2, ReadsLonger DEF ReadsBoth
<1>4. t \in Bytes /\ Read(shape, e) = Ok(t \o s, v)
  BY <1>2, <1>3 DEF Reads
<1>5. t \o s = <<>>
  BY <1>1, <1>4, IsOk, Zenon
<1>6. Len(t \o s) = Len(t) + Len(s) /\ Len(t) \in Nat /\ Len(s) \in Nat
  BY <1>2, <1>4, CutApart DEF Bytes
<1>7. Len(s) = 0
  BY <1>5, <1>6
<1> QED
  BY <1>2, <1>7 DEF Bytes

\* Two fields
LEMMA FillsTwo ==
  ASSUME NEW n1 \in Int \ {0}, NEW n2 \in Int \ {0},
         NEW f1, NEW f2, Width(n1, f1) /\ Width(n2, f2)
  PROVE  /\ Fills(<<n1, n2>>, Coded(n1, f1) \o Coded(n2, f2))
         /\ <<n1, n2>> \in Seq(Int \ {0})
<1> DEFINE s == <<n1>>
           b == Coded(n1, f1)
<1>1. Fills(s, b) /\ s \in Seq(Int \ {0})
  BY FillsOne, Zenon
<1>2. Append(s, n2) = <<n1, n2>>
  BY AppendTwo, Zenon
<1> HIDE DEF s, b
<1>3. Fills(Append(s, n2), b \o Coded(n2, f2)) /\ Append(s, n2) \in Seq(Int \ {0})
  BY <1>1, FillsMore
<1> QED
  BY <1>2, <1>3, Zenon DEF b

\* Three fields
LEMMA FillsThree ==
  ASSUME NEW n1 \in Int \ {0}, NEW n2 \in Int \ {0}, NEW n3 \in Int \ {0},
         NEW f1, NEW f2, NEW f3, Width(n1, f1) /\ Width(n2, f2) /\ Width(n3, f3)
  PROVE  /\ Fills(<<n1, n2, n3>>, Coded(n1, f1) \o Coded(n2, f2) \o Coded(n3, f3))
         /\ <<n1, n2, n3>> \in Seq(Int \ {0})
<1> DEFINE s == <<n1, n2>>
           b == Coded(n1, f1) \o Coded(n2, f2)
<1>1. Fills(s, b) /\ s \in Seq(Int \ {0})
  BY FillsTwo, Zenon
<1>2. Append(s, n3) = <<n1, n2, n3>>
  BY AppendThree, Zenon
<1> HIDE DEF s, b
<1>3. Fills(Append(s, n3), b \o Coded(n3, f3)) /\ Append(s, n3) \in Seq(Int \ {0})
  BY <1>1, FillsMore
<1> QED
  BY <1>2, <1>3, Zenon DEF b

\* Four fields
LEMMA FillsFour ==
  ASSUME NEW n1 \in Int \ {0}, NEW n2 \in Int \ {0}, NEW n3 \in Int \ {0}, NEW n4 \in Int \ {0},
         NEW f1, NEW f2, NEW f3, NEW f4, Width(n1, f1) /\ Width(n2, f2) /\ Width(n3, f3) /\ Width(n4, f4)
  PROVE  /\ Fills(<<n1, n2, n3, n4>>, Coded(n1, f1) \o Coded(n2, f2) \o Coded(n3, f3) \o Coded(n4, f4))
         /\ <<n1, n2, n3, n4>> \in Seq(Int \ {0})
<1> DEFINE s == <<n1, n2, n3>>
           b == Coded(n1, f1) \o Coded(n2, f2) \o Coded(n3, f3)
<1>1. Fills(s, b) /\ s \in Seq(Int \ {0})
  BY FillsThree, Zenon
<1>2. Append(s, n4) = <<n1, n2, n3, n4>>
  BY AppendFour, Zenon
<1> HIDE DEF s, b
<1>3. Fills(Append(s, n4), b \o Coded(n4, f4)) /\ Append(s, n4) \in Seq(Int \ {0})
  BY <1>1, FillsMore
<1> QED
  BY <1>2, <1>3, Zenon DEF b

\* Five fields
LEMMA FillsFive ==
  ASSUME NEW n1 \in Int \ {0}, NEW n2 \in Int \ {0}, NEW n3 \in Int \ {0}, NEW n4 \in Int \ {0}, NEW n5 \in Int \ {0},
         NEW f1, NEW f2, NEW f3, NEW f4, NEW f5, Width(n1, f1) /\ Width(n2, f2) /\ Width(n3, f3) /\ Width(n4, f4) /\ Width(n5, f5)
  PROVE  /\ Fills(<<n1, n2, n3, n4, n5>>, Coded(n1, f1) \o Coded(n2, f2) \o Coded(n3, f3) \o Coded(n4, f4) \o Coded(n5, f5))
         /\ <<n1, n2, n3, n4, n5>> \in Seq(Int \ {0})
<1> DEFINE s == <<n1, n2, n3, n4>>
           b == Coded(n1, f1) \o Coded(n2, f2) \o Coded(n3, f3) \o Coded(n4, f4)
<1>1. Fills(s, b) /\ s \in Seq(Int \ {0})
  BY FillsFour, Zenon
<1>2. Append(s, n5) = <<n1, n2, n3, n4, n5>>
  BY AppendFive, Zenon
<1> HIDE DEF s, b
<1>3. Fills(Append(s, n5), b \o Coded(n5, f5)) /\ Append(s, n5) \in Seq(Int \ {0})
  BY <1>1, FillsMore
<1> QED
  BY <1>2, <1>3, Zenon DEF b

\* A number of fixed width
LEMMA NumberWidth ==
  ASSUME NEW n \in Nat \ {0}, NEW v \in Nat
  PROVE  Width(n, Put(n, v)) /\ Coded(n, Put(n, v)) = Put(n, v)
<1>1. Put(n, v) \in Bytes /\ Len(Put(n, v)) = n
  BY PutType DEF Bytes
<1> QED
  BY <1>1 DEF Width, OfWidth, Coded

\* Bytes of a fixed number
LEMMA BlobWidth ==
  ASSUME NEW n \in Nat \ {0}, NEW f \in Bytes, Len(f) = n
  PROVE  Width(n, f) /\ Coded(n, f) = f
  BY DEF Width, OfWidth, Coded

\* A vector that its length has room for
LEMMA VectorWidth ==
  ASSUME NEW n \in Nat \ {0}, NEW f \in Bytes, ~Exceeds(n, Len(f))
  PROVE  Width(-n, f) /\ Coded(-n, f) = Prefixed(n, f)
<1>1. ~(-n > 0) /\ -(-n) = n
  OBVIOUS
<1> QED
  BY <1>1 DEF Width, OfWidth, Coded

\* Which numbers have room in one, two and three bytes
LEMMA SmallFits ==
  ASSUME NEW v \in Nat
  PROVE  /\ v < 256 => ~Exceeds(1, v)
         /\ v < 65536 => ~Exceeds(2, v) /\ ~Exceeds(3, v)
<1>1. Shifted(0, v) = v
  BY ShiftedNone
<1>2. Shifted(1, v) = v \div 256
  <2>1. Shifted(0 + 1, v) = Shifted(0, v) \div 256
    BY ShiftedMore
  <2> QED
    BY <1>1, <2>1
<1>3. Shifted(2, v) = (v \div 256) \div 256
  <2>1. Shifted(1 + 1, v) = Shifted(1, v) \div 256
    BY ShiftedMore
  <2> QED
    BY <1>2, <2>1
<1>4. Shifted(3, v) = ((v \div 256) \div 256) \div 256
  <2>1. Shifted(2 + 1, v) = Shifted(2, v) \div 256
    BY ShiftedMore
  <2> QED
    BY <1>3, <2>1
<1>5. v < 256 => v \div 256 = 0
  OBVIOUS
<1>6. v < 65536 => (v \div 256) \div 256 = 0
  OBVIOUS
<1>7. 0 \div 256 = 0
  OBVIOUS
<1> QED
  BY <1>2, <1>3, <1>4, <1>5, <1>6, <1>7 DEF Exceeds

\* What was written is what was put together.
LEMMA WrittenIs ==
  ASSUME NEW e
  PROVE  Written(e).ok => Written(e).bytes = e /\ Len(e) <= BufCap
<1>1. CASE Len(e) <= BufCap
  BY <1>1 DEF Written
<1>2. CASE ~(Len(e) <= BufCap)
  BY <1>2, RejectedNotOk DEF Written
<1> QED
  BY <1>1, <1>2

\* What fits in the buffer has a length of two bytes.
LEMMA CapFits ==
  ASSUME NEW f \in Bytes, NEW n \in Nat, Len(f) <= n, n <= BufCap
  PROVE  ~Exceeds(2, Len(f)) /\ ~Exceeds(3, Len(f))
<1>1. Len(f) \in Nat /\ BufCap < 65536 /\ BufCap \in Nat
  BY CodecAssumption, LengthAssumption DEF Bytes
<1>2. Len(f) < 65536
  BY <1>1
<1> QED
  BY <1>1, <1>2, SmallFits

\* The parts of joined bytes are no longer than the whole.
LEMMA PartsFit ==
  ASSUME NEW p, NEW q
  PROVE  p \in Bytes /\ q \in Bytes =>
           /\ p \o q \in Bytes /\ Len(p) <= Len(p \o q) /\ Len(q) <= Len(p \o q)
           /\ Len(p \o q) \in Nat
<1> SUFFICES ASSUME p \in Bytes, q \in Bytes
             PROVE  /\ p \o q \in Bytes /\ Len(p) <= Len(p \o q) /\ Len(q) <= Len(p \o q)
                    /\ Len(p \o q) \in Nat
  OBVIOUS
<1>1. p \o q \in Bytes /\ Len(p \o q) = Len(p) + Len(q) /\ Len(p) \in Nat /\ Len(q) \in Nat
  BY CutApart DEF Bytes
<1> HIDE DEF Bytes
<1> QED
  BY <1>1

\* Part of a DTLSPlaintext is refused.
LEMMA PlaintextPart ==
  ASSUME NEW m \in Fields["plaintext"], PlaintextSerialize(m).ok,
         NEW w \in Seq(Nat), IsStrictPrefix(w, PlaintextSerialize(m).bytes)
  PROVE  ~PlaintextParse(w).ok
<1>1. m \in [type : Nat, version : Nat, epoch : Nat, seq : Nat, fragment : Octets]
  BY FieldsOf, Zenon
<1>2. /\ m.type \in Nat /\ m.version \in Nat /\ m.epoch \in Nat /\ m.seq \in Nat
      /\ m.fragment \in Bytes
  BY <1>1, OctetsAreBytes
<1>3. 1 \in Nat \ {0} /\ 2 \in Nat \ {0} /\ SeqLen \in Nat \ {0}
  BY CodecAssumption
<1>a. 1 \in Int \ {0} /\ 2 \in Int \ {0} /\ -2 \in Int \ {0} /\ SeqLen \in Int \ {0}
  BY <1>3
<1> DEFINE e == Put(1, m.type) \o Put(2, m.version) \o Put(2, m.epoch) \o Put(SeqLen, m.seq)
                  \o Prefixed(2, m.fragment)
           shape == <<1, 2, 2, SeqLen, -2>>
<1>4. ~Exceeds(2, Len(m.fragment)) /\ PlaintextSerialize(m) = Written(e)
  BY RejectedNotOk, Zenon DEF PlaintextSerialize
<1>5. PlaintextSerialize(m).bytes = e
  BY <1>4, WrittenIs, Zenon
<1>6. /\ Width(1, Put(1, m.type)) /\ Coded(1, Put(1, m.type)) = Put(1, m.type)
      /\ Width(2, Put(2, m.version)) /\ Coded(2, Put(2, m.version)) = Put(2, m.version)
      /\ Width(2, Put(2, m.epoch)) /\ Coded(2, Put(2, m.epoch)) = Put(2, m.epoch)
      /\ Width(SeqLen, Put(SeqLen, m.seq)) /\ Coded(SeqLen, Put(SeqLen, m.seq)) = Put(SeqLen, m.seq)
  BY <1>2, <1>3, NumberWidth, Zenon
<1>7. Width(-2, m.fragment) /\ Coded(-2, m.fragment) = Prefixed(2, m.fragment)
  BY <1>2, <1>3, <1>4, VectorWidth, Zenon
<1>8. Fills(shape, e) /\ shape \in Seq(Int \ {0})
  <2> DEFINE c == Coded(1, Put(1, m.type)) \o Coded(2, Put(2, m.version))
                    \o Coded(2, Put(2, m.epoch)) \o Coded(SeqLen, Put(SeqLen, m.seq))
                    \o Coded(-2, m.fragment)
  <2>1. Fills(shape, c) /\ shape \in Seq(Int \ {0})
    BY <1>a, <1>6, <1>7, FillsFive, Zenon
  <2>2. c = e
    BY <1>6, <1>7, Zenon
  <2> QED
    BY <2>1, <2>2, Zenon
<1> HIDE DEF e, shape
<1>9. ~Read(shape, w).ok
  BY <1>5, <1>8, PartRefused, Zenon
<1> QED
  BY <1>9, RejectedNotOk, Zenon DEF PlaintextParse, Plaintext, shape

\* Part of a handshake header and its fragment is refused.
LEMMA HandshakePart ==
  ASSUME NEW m \in Fields["handshake"], HandshakeSerialize(m).ok,
         NEW w \in Seq(Nat), IsStrictPrefix(w, HandshakeSerialize(m).bytes)
  PROVE  ~HandshakeParse(w).ok
<1>1. m \in [msg_type : Nat, length : Nat, message_seq : Nat, offset : Nat, fragment : Octets]
  BY FieldsOf, Zenon
<1>2. /\ m.msg_type \in Nat /\ m.length \in Nat /\ m.message_seq \in Nat /\ m.offset \in Nat
      /\ m.fragment \in Bytes
  BY <1>1, OctetsAreBytes
<1>3. 1 \in Nat \ {0} /\ 2 \in Nat \ {0} /\ 3 \in Nat \ {0}
  OBVIOUS
<1>a. 1 \in Int \ {0} /\ 2 \in Int \ {0} /\ 3 \in Int \ {0} /\ -3 \in Int \ {0}
  OBVIOUS
<1> DEFINE e == Put(1, m.msg_type) \o Put(3, m.length) \o Put(2, m.message_seq)
                  \o Put(3, m.offset) \o Prefixed(3, m.fragment)
           shape == <<1, 3, 2, 3, -3>>
<1>4. ~Exceeds(3, Len(m.fragment)) /\ HandshakeSerialize(m) = Written(e)
  BY RejectedNotOk, Zenon DEF HandshakeSerialize
<1>5. HandshakeSerialize(m).bytes = e
  BY <1>4, WrittenIs, Zenon
<1>6. /\ Width(1, Put(1, m.msg_type)) /\ Coded(1, Put(1, m.msg_type)) = Put(1, m.msg_type)
      /\ Width(3, Put(3, m.length)) /\ Coded(3, Put(3, m.length)) = Put(3, m.length)
      /\ Width(2, Put(2, m.message_seq)) /\ Coded(2, Put(2, m.message_seq)) = Put(2, m.message_seq)
      /\ Width(3, Put(3, m.offset)) /\ Coded(3, Put(3, m.offset)) = Put(3, m.offset)
  BY <1>2, <1>3, NumberWidth, Zenon
<1>7. Width(-3, m.fragment) /\ Coded(-3, m.fragment) = Prefixed(3, m.fragment)
  BY <1>2, <1>3, <1>4, VectorWidth, Zenon
<1>8. Fills(shape, e) /\ shape \in Seq(Int \ {0})
  <2> DEFINE c == Coded(1, Put(1, m.msg_type)) \o Coded(3, Put(3, m.length))
                    \o Coded(2, Put(2, m.message_seq)) \o Coded(3, Put(3, m.offset))
                    \o Coded(-3, m.fragment)
  <2>1. Fills(shape, c) /\ shape \in Seq(Int \ {0})
    BY <1>a, <1>6, <1>7, FillsFive, Zenon
  <2>2. c = e
    BY <1>6, <1>7, Zenon
  <2> QED
    BY <2>1, <2>2, Zenon
<1> HIDE DEF e, shape
<1>9. ~Read(shape, w).ok
  BY <1>5, <1>8, PartRefused, Zenon
<1> QED
  BY <1>9, RejectedNotOk, Zenon DEF HandshakeParse, HandshakeFields, shape

\* Part of a CertificateVerify is refused.
LEMMA VerifyPart ==
  ASSUME NEW m \in Fields["verify"], CertificateVerifySerialize(m).ok,
         NEW w \in Seq(Nat), IsStrictPrefix(w, CertificateVerifySerialize(m).bytes)
  PROVE  ~CertificateVerifyParse(w).ok
<1>1. m \in [algorithm : Nat, signature : Octets]
  BY FieldsOf, Zenon
<1> DEFINE p == Put(2, m.algorithm)
           q == Prefixed(2, m.signature)
           e == p \o q
           shape == <<2, -2>>
<1>2. m.algorithm \in Nat /\ m.signature \in Bytes /\ 2 \in Nat \ {0}
  BY <1>1, OctetsAreBytes
<1>3. p \in Bytes /\ q \in Bytes /\ Len(q) = 2 + Len(m.signature)
  BY <1>2, PutBytes, PrefixedType
<1>4. e = CertificateVerifySerialize(m).bytes /\ Len(e) <= BufCap
  BY WrittenIs, Zenon DEF CertificateVerifySerialize
<1>a. Width(2, p) /\ Coded(2, p) = p
  BY <1>2, NumberWidth, Zenon
<1> HIDE DEF p
<1>5. Len(m.signature) <= Len(e) /\ Len(e) \in Nat
  <2>1. Len(q) <= Len(e) /\ Len(e) \in Nat /\ Len(m.signature) \in Nat
    BY <1>2, <1>3, PartsFit DEF Bytes
  <2> HIDE DEF q, e
  <2> QED
    BY <1>3, <2>1
<1>6. ~Exceeds(2, Len(m.signature))
  <2> HIDE DEF e
  <2> QED
    BY <1>2, <1>4, <1>5, CapFits
<1>7. Width(-2, m.signature) /\ Coded(-2, m.signature) = q
  BY <1>2, <1>6, VectorWidth, Zenon
<1>b. 2 \in Int \ {0} /\ -2 \in Int \ {0}
  OBVIOUS
<1>8. Fills(shape, e) /\ shape \in Seq(Int \ {0})
  <2> HIDE DEF q
  <2>1. Fills(shape, Coded(2, p) \o Coded(-2, m.signature)) /\ shape \in Seq(Int \ {0})
    BY <1>a, <1>b, <1>7, FillsTwo, Zenon
  <2> QED
    BY <1>a, <1>7, <2>1, Zenon
<1> HIDE DEF e, shape
<1>9. ~Read(shape, w).ok
  BY <1>4, <1>8, PartRefused, Zenon
<1> QED
  BY <1>9, RejectedNotOk, Zenon DEF CertificateVerifyParse, CertificateVerifyFields, FillsBuffer, shape

\* Part of a vector behind a length of two bytes is refused.
LEMMA VectorPart ==
  ASSUME NEW body \in Bytes, Len(Prefixed(2, body)) <= BufCap,
         NEW w \in Seq(Nat), IsStrictPrefix(w, Prefixed(2, body))
  PROVE  ~Read(<<-2>>, w).ok
<1>0. 2 \in Nat \ {0} /\ 2 \in Nat /\ -2 \in Int \ {0}
  OBVIOUS
<1>1. Len(Prefixed(2, body)) = 2 + Len(body) /\ Len(body) \in Nat
  BY <1>0, PrefixedType DEF Bytes
<1>2. ~Exceeds(2, Len(body))
  <2> DEFINE n == Len(Prefixed(2, body))
  <2>1. n \in Nat /\ Len(body) <= n /\ n <= BufCap
    BY <1>1
  <2> HIDE DEF n
  <2> QED
    BY <2>1, CapFits
<1>3. Width(-2, body) /\ Coded(-2, body) = Prefixed(2, body)
  BY <1>0, <1>2, VectorWidth, Zenon
<1> DEFINE shape == <<-2>>
<1>4. Fills(shape, Prefixed(2, body)) /\ shape \in Seq(Int \ {0})
  BY <1>0, <1>3, FillsOne, Zenon
<1> HIDE DEF shape
<1>5. ~Read(shape, w).ok
  BY <1>4, PartRefused, Zenon
<1> QED
  BY <1>5 DEF shape

\* Part of an ACK is refused.
LEMMA AckPart ==
  ASSUME NEW m \in Fields["ack"], AckSerialize(m.records).ok,
         NEW w \in Seq(Nat), IsStrictPrefix(w, AckSerialize(m.records).bytes)
  PROVE  ~AckParse(w).ok
<1> DEFINE body == AckBody(m.records)
<1>1. m.records \in Seq(Nat \X Nat)
  <2>1. m \in [records : Seq(Nat \X Nat)]
    BY FieldsOf, Zenon
  <2> QED
    BY <2>1
<1>2. body \in Bytes
  BY <1>1, AckBodyType
<1>3. AckSerialize(m.records) = Written(Prefixed(2, body))
  BY RejectedNotOk, Zenon DEF AckSerialize, AckBody
<1> HIDE DEF body
<1>4. AckSerialize(m.records).bytes = Prefixed(2, body) /\ Len(Prefixed(2, body)) <= BufCap
  BY <1>3, WrittenIs, Zenon
<1>5. ~Read(<<-2>>, w).ok
  BY <1>2, <1>4, VectorPart, Zenon
<1> QED
  BY <1>5, RejectedNotOk, Zenon DEF AckParse, AckList, FillsBuffer

\* Part of an EncryptedExtensions is refused.
LEMMA ExtensionsPart ==
  ASSUME EncryptedExtensionsSerialize.ok,
         NEW w \in Seq(Nat), IsStrictPrefix(w, EncryptedExtensionsSerialize.bytes)
  PROVE  ~EncryptedExtensionsParse(w).ok
<1> DEFINE body == <<>>
<1>1. body \in Bytes /\ Len(body) = 0 /\ 2 \in Nat /\ 0 \in Nat
  BY DEF Bytes
<1>2. Put(2, 0) \in Seq(Octet)
  BY <1>1, PutType
<1>3. Put(2, 0) \o body = Put(2, 0)
  BY <1>2
<1>4. Prefixed(2, body) = Put(2, 0)
  BY <1>1, <1>3 DEF Prefixed
<1>5. EncryptedExtensionsSerialize.bytes = Put(2, 0) /\ Len(Put(2, 0)) <= BufCap
  BY WrittenIs, Zenon DEF EncryptedExtensionsSerialize
<1> HIDE DEF body
<1>6. ~Read(<<-2>>, w).ok
  BY <1>1, <1>4, <1>5, VectorPart, Zenon
<1> QED
  BY <1>6, RejectedNotOk, Zenon DEF EncryptedExtensionsParse, FillsBuffer

\* The type of each of the other formats
LEMMA OtherFieldsOf ==
  /\ OtherFields["client_hello"] = [random : Blob(RandomLen), key : Octets]
  /\ OtherFields["server_hello"] = [random : Blob(RandomLen), key : Octets]
  /\ OtherFields["certificate"] = [certs : Seq(Octets)]
  /\ OtherFields["signature"] = [r : Blob(ScalarLen), s : Blob(ScalarLen)]
  /\ OtherFields["peer_client_hello"] =
       [random : Blob(RandomLen), sid : Octets, cookie : Octets, suites : Seq(Nat),
        exts : PeerExts]
  /\ OtherFields["peer_server_hello"] =
       [random : Blob(RandomLen), sid : Octets, suites : Seq(Nat) \ {<<>>}, exts : PeerExts]
  /\ OtherFields["x509"] =
       [version : BOOLEAN, issuer : Octets, subject : Octets, not_before : Nat \X Octets,
        not_after : Nat \X Octets, key : Octets, uid : BOOLEAN, r : Blob(ScalarLen),
        s : Blob(ScalarLen), exts : CertExtensions]
  BY DEF OtherFields

\* A blob is bytes.
LEMMA BlobType ==
  ASSUME NEW n, NEW f \in Blob(n)
  PROVE  f \in Bytes /\ Len(f) = n
  BY OctetsAreBytes DEF Blob

\* Nothing, and nothing behind its length, is bytes, and fits.
LEMMA EmptyType ==
  /\ <<>> \in Bytes /\ Len(<<>>) = 0 /\ ~Exceeds(1, Len(<<>>))
  /\ Width(-1, <<>>) /\ Coded(-1, <<>>) = Prefixed(1, <<>>)
<1>1. <<>> \in Bytes /\ Len(<<>>) = 0 /\ 1 \in Nat \ {0}
  BY DEF Bytes
<1>2. ~Exceeds(1, 0)
  BY SmallFits
<1> DEFINE f == <<>>
<1>3. f \in Bytes /\ ~Exceeds(1, Len(f))
  BY <1>1, <1>2
<1> HIDE DEF f
<1>4. Width(-1, f) /\ Coded(-1, f) = Prefixed(1, f)
  BY <1>1, <1>3, VectorWidth, Zenon
<1> QED
  BY <1>1, <1>3, <1>4 DEF f

\* The entries of a Certificate message
CertBody(certs) ==
  FlattenSeq([i \in 1 .. Len(certs) |-> Prefixed(3, certs[i]) \o Prefixed(2, <<>>)])

\* They are bytes.
LEMMA CertBodyType ==
  ASSUME NEW certs \in Seq(Octets)
  PROVE  CertBody(certs) \in Bytes
<1> DEFINE x(i) == Prefixed(3, certs[i]) \o Prefixed(2, <<>>)
           f == [i \in 1 .. Len(certs) |-> x(i)]
<1>1. 2 \in Nat /\ 3 \in Nat /\ <<>> \in Bytes
  BY EmptyType
<1>2. ASSUME NEW i \in 1 .. Len(certs) PROVE x(i) \in Bytes
  <2>1. certs[i] \in Bytes
    BY OctetsAreBytes
  <2>2. Prefixed(3, certs[i]) \in Bytes /\ Prefixed(2, <<>>) \in Bytes
    BY <1>1, <2>1, PrefixedType, Zenon
  <2> QED
    BY <2>2, JoinBytes, Zenon
<1> HIDE DEF x
<1>3. f \in Seq(Bytes)
  BY <1>2
<1>4. FlattenSeq(f) \in Bytes
  BY <1>3, FlattenType
<1> QED
  BY <1>4 DEF CertBody, x

\* Part of a Certificate message is refused.
LEMMA CertificatePart ==
  ASSUME NEW m \in OtherFields["certificate"], CertificateSerialize(m.certs).ok,
         NEW w \in Seq(Nat), IsStrictPrefix(w, CertificateSerialize(m.certs).bytes)
  PROVE  ~CertificateParse(w).ok
<1> DEFINE body == CertBody(m.certs)
           p == Prefixed(1, <<>>)
           q == Prefixed(3, body)
           e == p \o q
           shape == <<-1, -3>>
<1>1. m.certs \in Seq(Octets)
  <2>1. m \in [certs : Seq(Octets)]
    BY OtherFieldsOf, Zenon
  <2> QED
    BY <2>1
<1>2. body \in Bytes /\ 3 \in Nat \ {0} /\ -1 \in Int \ {0} /\ -3 \in Int \ {0}
  BY <1>1, CertBodyType
<1>3. CertificateSerialize(m.certs) = Written(e)
  BY RejectedNotOk, Zenon DEF CertificateSerialize, CertBody
<1>4. CertificateSerialize(m.certs).bytes = e /\ Len(e) <= BufCap
  BY <1>3, WrittenIs, Zenon
<1> HIDE DEF body
<1>5. p \in Bytes /\ q \in Bytes /\ Len(q) = 3 + Len(body) /\ Len(body) \in Nat
  <2>1. 1 \in Nat /\ 3 \in Nat
    OBVIOUS
  <2>2. p \in Bytes
    BY <2>1, EmptyType, PrefixedType, Zenon
  <2>3. q \in Bytes /\ Len(q) = 3 + Len(body)
    BY <1>2, <2>1, PrefixedType, Zenon
  <2>4. Len(body) \in Nat
    BY <1>2 DEF Bytes
  <2> QED
    BY <2>2, <2>3, <2>4
<1>6. ~Exceeds(3, Len(body))
  <2>1. Len(q) <= Len(e) /\ Len(e) \in Nat
    BY <1>5, PartsFit, Zenon
  <2>2. Len(body) <= Len(e)
    <3> HIDE DEF q, e
    <3> QED
      BY <1>5, <2>1
  <2> HIDE DEF e
  <2> QED
    BY <1>2, <1>4, <2>1, <2>2, CapFits
<1>7. Width(-3, body) /\ Coded(-3, body) = q
  BY <1>2, <1>6, VectorWidth, Zenon
<1>8. Fills(shape, e) /\ shape \in Seq(Int \ {0})
  <2>1. Fills(shape, Coded(-1, <<>>) \o Coded(-3, body)) /\ shape \in Seq(Int \ {0})
    BY <1>2, <1>7, EmptyType, FillsTwo, Zenon
  <2> QED
    BY <1>7, <2>1, EmptyType, Zenon
<1> HIDE DEF e, shape
<1>9. ~Read(shape, w).ok
  BY <1>4, <1>8, PartRefused, Zenon
<1> QED
  BY <1>9, RejectedNotOk, Zenon DEF CertificateParse, CertificateFields, shape

\* The bytes of a ClientHello, field by field
HelloBytes(random, sid, cookie, suites, exts) ==
  Put(2, V12) \o random \o Prefixed(1, sid) \o Prefixed(1, cookie) \o Prefixed(2, suites)
    \o Prefixed(1, <<0>>) \o Prefixed(2, exts)

\* Bytes that a length of two bytes has room for
Short(e) == Len(e) < 65536

\* A vector behind its length is shorter than the bytes that end with it.
LEMMA TailFits ==
  ASSUME NEW p \in Bytes, NEW f \in Bytes, NEW e, e = p \o Prefixed(2, f), Short(e)
  PROVE  /\ e \in Bytes /\ Len(e) \in Nat /\ Short(p)
         /\ Width(-2, f) /\ Coded(-2, f) = Prefixed(2, f)
<1> DEFINE q == Prefixed(2, f)
<1>1. q \in Bytes /\ Len(q) = 2 + Len(f) /\ Len(f) \in Nat /\ 2 \in Nat \ {0}
  <2>1. 2 \in Nat
    OBVIOUS
  <2> QED
    BY <2>1, PrefixedType DEF Bytes
<1> HIDE DEF q
<1>2. e \in Bytes /\ Len(e) \in Nat /\ Len(p) <= Len(e) /\ Len(q) <= Len(e)
  BY <1>1, PartsFit, Zenon DEF q
<1>3. Len(f) < 65536 /\ Short(p)
  <2>1. Len(p) \in Nat
    BY DEF Bytes
  <2> QED
    BY <1>1, <1>2, <2>1 DEF Short
<1>4. ~Exceeds(2, Len(f))
  BY <1>1, <1>3, SmallFits
<1>5. Width(-2, f) /\ Coded(-2, f) = Prefixed(2, f)
  BY <1>1, <1>4, VectorWidth, Zenon
<1> QED
  BY <1>2, <1>3, <1>5

\* A vector whose length takes one byte
LEMMA ShortVector ==
  ASSUME NEW f \in Bytes, ~Exceeds(1, Len(f))
  PROVE  Width(-1, f) /\ Coded(-1, f) = Prefixed(1, f) /\ Prefixed(1, f) \in Bytes
<1>1. 1 \in Nat \ {0} /\ 1 \in Nat
  OBVIOUS
<1> QED
  BY <1>1, VectorWidth, PrefixedType, Zenon

\* A single byte
LEMMA ZeroByte == <<0>> \in Bytes /\ Len(<<0>>) = 1 /\ ~Exceeds(1, Len(<<0>>))
<1>1. <<0>> \in Bytes /\ Len(<<0>>) = 1
  BY DEF Bytes, Octet
<1>2. ~Exceeds(1, 1)
  BY SmallFits
<1> QED
  BY <1>1, <1>2

\* The code points are numbers.
LEMMA CodePoints ==
  /\ V12 \in Nat /\ V13 \in Nat /\ Suite \in Nat /\ GroupX25519 \in Nat
  /\ SupportedVersions \in Nat /\ SupportedGroups \in Nat /\ KeyShare \in Nat
  /\ SignatureAlgorithms \in Nat
  BY DEF V12, V13, Suite, GroupX25519, SupportedVersions, SupportedGroups, KeyShare,
         SignatureAlgorithms

\* Part of a ClientHello is refused.
LEMMA ClientHelloPart ==
  ASSUME NEW random \in Bytes, Len(random) = RandomLen, NEW sid \in Bytes, ~Exceeds(1, Len(sid)),
         NEW cookie \in Bytes, ~Exceeds(1, Len(cookie)), NEW suites \in Bytes, NEW exts \in Bytes,
         Short(HelloBytes(random, sid, cookie, suites, exts)),
         NEW w \in Seq(Nat), IsStrictPrefix(w, HelloBytes(random, sid, cookie, suites, exts))
  PROVE  ~ClientHelloParse(w).ok
<1> DEFINE a == Put(2, V12)
           zero == <<0>>
           b3 == a \o random \o Prefixed(1, sid) \o Prefixed(1, cookie)
           b4 == b3 \o Prefixed(2, suites)
           b5 == b4 \o Prefixed(1, zero)
           e == b5 \o Prefixed(2, exts)
           shape == <<2, RandomLen, -1, -1, -2, -1, -2>>
<1>0. 2 \in Nat \ {0} /\ RandomLen \in Nat \ {0} /\ 2 \in Nat
  BY CodecAssumption
<1>a. 2 \in Int \ {0} /\ RandomLen \in Int \ {0} /\ -1 \in Int \ {0} /\ -2 \in Int \ {0}
  BY <1>0
<1>1. /\ Width(2, a) /\ Coded(2, a) = a /\ a \in Bytes
      /\ Width(RandomLen, random) /\ Coded(RandomLen, random) = random
  BY <1>0, CodePoints, NumberWidth, BlobWidth, PutBytes, Zenon
<1>2. /\ Width(-1, sid) /\ Coded(-1, sid) = Prefixed(1, sid) /\ Prefixed(1, sid) \in Bytes
      /\ Width(-1, cookie) /\ Coded(-1, cookie) = Prefixed(1, cookie)
      /\ Prefixed(1, cookie) \in Bytes
  BY ShortVector, Zenon
<1>3. /\ Width(-1, zero) /\ Coded(-1, zero) = Prefixed(1, zero) /\ Prefixed(1, zero) \in Bytes
  BY ZeroByte, ShortVector, Zenon
<1> HIDE DEF a, zero
<1>4. b3 \in Bytes /\ Prefixed(2, suites) \in Bytes
  <2>1. a \o random \in Bytes
    BY <1>1, JoinBytes, Zenon
  <2>2. a \o random \o Prefixed(1, sid) \in Bytes
    BY <1>2, <2>1, JoinBytes, Zenon
  <2> QED
    BY <1>0, <1>2, <2>2, JoinBytes, PrefixedType, Zenon
<1> HIDE DEF b3
<1>5. b4 \in Bytes /\ b5 \in Bytes /\ Len(b4) <= Len(b5)
  BY <1>3, <1>4, PartsFit, Zenon
<1>6. e = HelloBytes(random, sid, cookie, suites, exts)
  BY Zenon DEF HelloBytes, a, zero, b3
<1> HIDE DEF b5
<1>7. /\ Short(b5)
      /\ Width(-2, exts) /\ Coded(-2, exts) = Prefixed(2, exts)
  BY <1>5, <1>6, TailFits, Zenon
<1> HIDE DEF e
<1>8. Short(b4)
  <2>1. Len(b4) \in Nat /\ Len(b5) \in Nat
    BY <1>5 DEF Bytes
  <2> HIDE DEF b4
  <2> QED
    BY <1>5, <1>7, <2>1 DEF Short
<1>9. Width(-2, suites) /\ Coded(-2, suites) = Prefixed(2, suites)
  BY <1>4, <1>8, TailFits, Zenon
<1>10. Fills(shape, e) /\ shape \in Seq(Int \ {0})
  <2> DEFINE c == Coded(2, a) \o Coded(RandomLen, random) \o Coded(-1, sid) \o Coded(-1, cookie)
                    \o Coded(-2, suites) \o Coded(-1, zero) \o Coded(-2, exts)
  <2>0. /\ Width(2, a) /\ Width(RandomLen, random) /\ Width(-1, sid) /\ Width(-1, cookie)
        /\ Width(-2, suites) /\ Width(-1, zero) /\ Width(-2, exts)
    BY <1>1, <1>2, <1>3, <1>7, <1>9, Zenon
  <2>1. Fills(shape, c)
    <3> DEFINE s4 == <<2, RandomLen, -1, -1>>
               s5 == <<2, RandomLen, -1, -1, -2>>
               s6 == <<2, RandomLen, -1, -1, -2, -1>>
               c4 == Coded(2, a) \o Coded(RandomLen, random) \o Coded(-1, sid) \o Coded(-1, cookie)
    <3>1. Fills(s4, c4) /\ s4 \in Seq(Int \ {0})
      <4>1. Width(2, a) /\ Width(RandomLen, random) /\ Width(-1, sid) /\ Width(-1, cookie)
        BY <2>0, Zenon
      <4> HIDE DEF shape
      <4>2. Fills(s4, c4)
        BY <1>a, <4>1, FillsFour, Zenon
      <4>3. s4 \in Seq(Int \ {0})
        BY <1>a
      <4> QED
        BY <4>2, <4>3, Zenon
    <3>a. Append(s4, -2) = s5
      BY AppendFive, Zenon
    <3>b. Append(s5, -1) = s6
      BY AppendSix, Zenon
    <3>2. Append(s6, -2) = shape
      BY AppendSeven, Zenon
    <3> HIDE DEF s4, s5, s6, c4
    <3>3. Fills(s5, c4 \o Coded(-2, suites)) /\ s5 \in Seq(Int \ {0})
      BY <1>a, <2>0, <3>1, <3>a, FillsMore, Zenon
    <3>4. Fills(s6, (c4 \o Coded(-2, suites)) \o Coded(-1, zero)) /\ s6 \in Seq(Int \ {0})
      BY <1>a, <2>0, <3>b, <3>3, FillsMore, Zenon
    <3>5. Fills(Append(s6, -2), ((c4 \o Coded(-2, suites)) \o Coded(-1, zero)) \o Coded(-2, exts))
      BY <1>a, <2>0, <3>4, FillsMore, Zenon
    <3> QED
      BY <3>2, <3>5, Zenon DEF c4
  <2>3. shape \in Seq(Int \ {0})
    BY <1>a
  <2>2. c = e
    BY <1>1, <1>2, <1>3, <1>7, <1>9, Zenon DEF e, b5, b4, b3
  <2> QED
    BY <2>1, <2>2, <2>3, Zenon
<1> HIDE DEF shape
<1>11. ~Read(shape, w).ok
  BY <1>6, <1>10, PartRefused, Zenon
<1> QED
  BY <1>11, RejectedNotOk, Zenon DEF ClientHelloParse, ClientHelloFields, shape

\* The bytes of a ServerHello, field by field
ServerBytes(random, sid, suite, exts) ==
  Put(2, V12) \o random \o Prefixed(1, sid) \o Put(2, suite) \o <<0>> \o Prefixed(2, exts)

\* Part of a ServerHello is refused.
LEMMA ServerHelloPart ==
  ASSUME NEW random \in Bytes, Len(random) = RandomLen, NEW sid \in Bytes, ~Exceeds(1, Len(sid)),
         NEW suite \in Nat, NEW exts \in Bytes, Short(ServerBytes(random, sid, suite, exts)),
         NEW w \in Seq(Nat), IsStrictPrefix(w, ServerBytes(random, sid, suite, exts))
  PROVE  ~ServerHelloParse(w).ok
<1> DEFINE a == Put(2, V12)
           d == Put(2, suite)
           zero == <<0>>
           b5 == a \o random \o Prefixed(1, sid) \o d \o zero
           e == b5 \o Prefixed(2, exts)
           shape == <<2, RandomLen, -1, 2, 1, -2>>
<1>0. 1 \in Nat \ {0} /\ 2 \in Nat \ {0} /\ RandomLen \in Nat \ {0} /\ 2 \in Nat
  BY CodecAssumption
<1>a. /\ 1 \in Int \ {0} /\ 2 \in Int \ {0} /\ RandomLen \in Int \ {0} /\ -1 \in Int \ {0}
      /\ -2 \in Int \ {0}
  BY <1>0
<1>1. /\ Width(2, a) /\ Coded(2, a) = a /\ a \in Bytes
      /\ Width(RandomLen, random) /\ Coded(RandomLen, random) = random
      /\ Width(2, d) /\ Coded(2, d) = d /\ d \in Bytes
  BY <1>0, CodePoints, NumberWidth, BlobWidth, PutBytes, Zenon
<1>2. Width(-1, sid) /\ Coded(-1, sid) = Prefixed(1, sid) /\ Prefixed(1, sid) \in Bytes
  BY ShortVector, Zenon
<1>3. zero \in Bytes /\ Width(1, zero) /\ Coded(1, zero) = zero
  BY <1>0, ZeroByte, BlobWidth, Zenon
<1> HIDE DEF a, d, zero
<1>4. b5 \in Bytes
  BY <1>1, <1>2, <1>3, FiveBytes, Zenon
<1>5. e = ServerBytes(random, sid, suite, exts)
  BY Zenon DEF ServerBytes, a, d, zero
<1> HIDE DEF b5
<1>6. Width(-2, exts) /\ Coded(-2, exts) = Prefixed(2, exts)
  BY <1>4, <1>5, TailFits, Zenon
<1> HIDE DEF e
<1>7. Fills(shape, e) /\ shape \in Seq(Int \ {0})
  <2> DEFINE c == Coded(2, a) \o Coded(RandomLen, random) \o Coded(-1, sid) \o Coded(2, d)
                    \o Coded(1, zero) \o Coded(-2, exts)
  <2>0. /\ Width(2, a) /\ Width(RandomLen, random) /\ Width(-1, sid) /\ Width(2, d)
        /\ Width(1, zero) /\ Width(-2, exts)
    BY <1>1, <1>2, <1>3, <1>6, Zenon
  <2>1. Fills(shape, c)
    <3> DEFINE s5 == <<2, RandomLen, -1, 2, 1>>
               c5 == Coded(2, a) \o Coded(RandomLen, random) \o Coded(-1, sid) \o Coded(2, d)
                       \o Coded(1, zero)
    <3>1. Fills(s5, c5) /\ s5 \in Seq(Int \ {0})
      BY <1>a, <2>0, FillsFive, Zenon
    <3>2. Append(s5, -2) = shape
      BY AppendSix, Zenon
    <3> HIDE DEF s5, c5
    <3>3. Fills(Append(s5, -2), c5 \o Coded(-2, exts))
      BY <1>a, <2>0, <3>1, FillsMore, Zenon
    <3> QED
      BY <3>2, <3>3, Zenon DEF c5
  <2>3. shape \in Seq(Int \ {0})
    BY <1>a
  <2>2. c = e
    BY <1>1, <1>2, <1>3, <1>6, Zenon DEF e, b5
  <2> QED
    BY <2>1, <2>2, <2>3, Zenon
<1> HIDE DEF shape
<1>8. ~Read(shape, w).ok
  BY <1>5, <1>7, PartRefused, Zenon
<1> QED
  BY <1>8, RejectedNotOk, Zenon DEF ServerHelloParse, ServerHelloFields, shape

\* An extension and a key share are bytes.
LEMMA ExtType ==
  ASSUME NEW type \in Nat, NEW data \in Bytes
  PROVE  Ext(type, data) \in Bytes /\ ShareEntry(type, data) \in Bytes
<1>1. 2 \in Nat
  OBVIOUS
<1>2. Put(2, type) \in Bytes /\ Prefixed(2, data) \in Bytes
  BY <1>1, PutBytes, PrefixedType, Zenon
<1> QED
  BY <1>2, JoinBytes, Zenon DEF Ext, ShareEntry

\* ClientHellos are bytes.
LEMMA HelloType ==
  ASSUME NEW random \in Bytes, NEW sid \in Bytes, NEW cookie \in Bytes, NEW suites \in Bytes,
         NEW exts \in Bytes
  PROVE  HelloBytes(random, sid, cookie, suites, exts) \in Bytes
<1> DEFINE a == Put(2, V12)
           zero == Prefixed(1, <<0>>)
           b5 == a \o random \o Prefixed(1, sid) \o Prefixed(1, cookie) \o Prefixed(2, suites)
<1>0. 1 \in Nat /\ 2 \in Nat
  OBVIOUS
<1>1. a \in Bytes /\ zero \in Bytes
  BY <1>0, CodePoints, ZeroByte, PutBytes, PrefixedType, Zenon
<1>2. /\ Prefixed(1, sid) \in Bytes /\ Prefixed(1, cookie) \in Bytes
      /\ Prefixed(2, suites) \in Bytes /\ Prefixed(2, exts) \in Bytes
  BY <1>0, PrefixedType, Zenon
<1> HIDE DEF a, zero
<1>3. b5 \in Bytes
  BY <1>1, <1>2, FiveBytes, Zenon
<1> HIDE DEF b5
<1>4. b5 \o zero \in Bytes
  BY <1>1, <1>3, JoinBytes, Zenon
<1>5. b5 \o zero \o Prefixed(2, exts) \in Bytes
  BY <1>2, <1>4, JoinBytes, Zenon
<1> QED
  BY <1>5, Zenon DEF HelloBytes, b5, a, zero

\* ServerHellos are bytes.
LEMMA ServerType ==
  ASSUME NEW random \in Bytes, NEW sid \in Bytes, NEW suite \in Nat, NEW exts \in Bytes
  PROVE  ServerBytes(random, sid, suite, exts) \in Bytes
<1> DEFINE a == Put(2, V12)
           d == Put(2, suite)
           b5 == a \o random \o Prefixed(1, sid) \o d \o <<0>>
<1>0. 1 \in Nat /\ 2 \in Nat
  OBVIOUS
<1>1. a \in Bytes /\ d \in Bytes /\ <<0>> \in Bytes
  BY <1>0, CodePoints, ZeroByte, PutBytes, Zenon
<1>2. Prefixed(1, sid) \in Bytes /\ Prefixed(2, exts) \in Bytes
  BY <1>0, PrefixedType, Zenon
<1> HIDE DEF a, d
<1>3. b5 \in Bytes
  BY <1>1, <1>2, FiveBytes, Zenon
<1> HIDE DEF b5
<1>4. b5 \o Prefixed(2, exts) \in Bytes
  BY <1>2, <1>3, JoinBytes, Zenon
<1> QED
  BY <1>4, Zenon DEF ServerBytes, b5, a, d

\* What the library's own buffers hold is short.
LEMMA CapShort ==
  ASSUME NEW e \in Bytes, Len(e) <= BufCap
  PROVE  Short(e)
<1>1. Len(e) \in Nat /\ BufCap \in Nat /\ BufCap < 65536
  BY CodecAssumption, LengthAssumption DEF Bytes
<1> QED
  BY <1>1 DEF Short

\* nd_client_hello_serialize writes no session ID and no cookie.
LEMMA OwnClientHelloIs ==
  ASSUME NEW m \in OtherFields["client_hello"]
  PROVE  /\ m.random \in Bytes /\ Len(m.random) = RandomLen
         /\ \E suites \in Bytes, exts \in Bytes :
              ClientHelloSerialize(m) = Written(HelloBytes(m.random, <<>>, <<>>, suites, exts))
<1>1. m \in [random : Blob(RandomLen), key : Octets]
  BY OtherFieldsOf, Zenon
<1>2. m.random \in Bytes /\ Len(m.random) = RandomLen /\ m.key \in Bytes
  BY <1>1, OctetsAreBytes, BlobType
<1> DEFINE suites == Put(2, Suite)
           x1 == Ext(SupportedVersions, Prefixed(1, Put(2, V13)))
           x2 == Ext(SupportedGroups, Prefixed(2, Put(2, GroupX25519)))
           x3 == Ext(KeyShare, Prefixed(2, ShareEntry(GroupX25519, m.key)))
           x4 == Ext(SignatureAlgorithms, Prefixed(2, Put(2, \h0403) \o Put(2, \h0804) \o Put(2, \h0807)))
           exts == x1 \o x2 \o x3 \o x4
           e == HelloBytes(m.random, <<>>, <<>>, suites, exts)
<1>3. 1 \in Nat /\ 2 \in Nat
  OBVIOUS
<1>4. \A v \in Nat : Put(2, v) \in Bytes
  BY <1>3, PutBytes
<1>5. suites \in Bytes /\ Put(2, V13) \in Bytes /\ Put(2, GroupX25519) \in Bytes
  BY <1>4, CodePoints, Zenon
<1>6. x1 \in Bytes /\ x2 \in Bytes
  BY <1>3, <1>5, CodePoints, PrefixedType, ExtType, Zenon
<1>7. x3 \in Bytes
  <2>1. ShareEntry(GroupX25519, m.key) \in Bytes
    BY <1>2, CodePoints, ExtType, Zenon
  <2> QED
    BY <1>3, <2>1, CodePoints, PrefixedType, ExtType, Zenon
<1>8. x4 \in Bytes
  <2> DEFINE p == Put(2, \h0403)
             q == Put(2, \h0804)
             r == Put(2, \h0807)
  <2>1. p \in Bytes /\ q \in Bytes /\ r \in Bytes
    BY <1>4
  <2> HIDE DEF p, q, r
  <2>2. p \o q \in Bytes
    BY <2>1, JoinBytes, Zenon
  <2>3. p \o q \o r \in Bytes
    BY <2>1, <2>2, JoinBytes, Zenon
  <2>4. Ext(SignatureAlgorithms, Prefixed(2, p \o q \o r)) \in Bytes
    BY <1>3, <2>3, CodePoints, PrefixedType, ExtType, Zenon
  <2> QED
    BY <2>4 DEF p, q, r
<1>9. ClientHelloSerialize(m) = Written(e)
  <2> HIDE DEF x4
  <2>1. ClientHelloSerialize(m) =
          Written(Put(2, V12) \o m.random \o Prefixed(1, <<>>) \o Prefixed(1, <<>>)
            \o Prefixed(2, suites) \o Prefixed(1, <<0>>) \o Prefixed(2, exts))
    BY DEF ClientHelloSerialize, x4
  <2> QED
    BY <2>1, Zenon DEF HelloBytes
<1> HIDE DEF x1, x2, x3, x4, suites
<1>10. exts \in Bytes
  <2>1. x1 \o x2 \in Bytes
    BY <1>6, JoinBytes, Zenon
  <2>2. x1 \o x2 \o x3 \in Bytes
    BY <1>7, <2>1, JoinBytes, Zenon
  <2> QED
    BY <1>8, <2>2, JoinBytes, Zenon
<1> HIDE DEF exts
<1> QED
  BY <1>2, <1>5, <1>9, <1>10, Zenon

\* Part of nd_client_hello_serialize's message is refused.
LEMMA OwnClientHelloPart ==
  ASSUME NEW m \in OtherFields["client_hello"], ClientHelloSerialize(m).ok,
         NEW w \in Seq(Nat), IsStrictPrefix(w, ClientHelloSerialize(m).bytes)
  PROVE  ~ClientHelloParse(w).ok
<1>1. /\ m.random \in Bytes /\ Len(m.random) = RandomLen
      /\ \E suites \in Bytes, exts \in Bytes :
           ClientHelloSerialize(m) = Written(HelloBytes(m.random, <<>>, <<>>, suites, exts))
  BY OwnClientHelloIs, Zenon
<1> DEFINE none == <<>>
<1>2. none \in Bytes /\ ~Exceeds(1, Len(none))
  BY EmptyType, Zenon
<1>3. PICK suites \in Bytes, exts \in Bytes :
        ClientHelloSerialize(m) = Written(HelloBytes(m.random, none, none, suites, exts))
  BY <1>1, Zenon
<1> HIDE DEF none
<1> DEFINE e == HelloBytes(m.random, none, none, suites, exts)
<1>4. e \in Bytes
  BY <1>1, <1>2, HelloType, Zenon
<1>5. e = HelloBytes(m.random, none, none, suites, exts)
  OBVIOUS
<1> HIDE DEF e
<1>6. e = ClientHelloSerialize(m).bytes /\ Len(e) <= BufCap
  BY <1>3, <1>5, WrittenIs, Zenon
<1>7. Short(e) /\ IsStrictPrefix(w, e)
  BY <1>4, <1>6, CapShort, Zenon
<1> QED
  BY <1>1, <1>2, <1>5, <1>7, ClientHelloPart, Zenon

\* nd_server_hello_serialize writes no session ID.
LEMMA OwnServerHelloIs ==
  ASSUME NEW m \in OtherFields["server_hello"]
  PROVE  /\ m.random \in Bytes /\ Len(m.random) = RandomLen
         /\ \E exts \in Bytes :
              ServerHelloSerialize(m) = Written(ServerBytes(m.random, <<>>, Suite, exts))
<1>1. m \in [random : Blob(RandomLen), key : Octets]
  BY OtherFieldsOf, Zenon
<1>2. m.random \in Bytes /\ Len(m.random) = RandomLen /\ m.key \in Bytes
  BY <1>1, OctetsAreBytes, BlobType
<1> DEFINE x1 == Ext(SupportedVersions, Put(2, V13))
           x2 == Ext(KeyShare, ShareEntry(GroupX25519, m.key))
           exts == x1 \o x2
<1>3. 2 \in Nat
  OBVIOUS
<1>4. Put(2, V13) \in Bytes /\ ShareEntry(GroupX25519, m.key) \in Bytes
  BY <1>2, <1>3, CodePoints, PutBytes, ExtType, Zenon
<1>5. x1 \in Bytes /\ x2 \in Bytes
  BY <1>4, CodePoints, ExtType, Zenon
<1>6. exts \in Bytes
  BY <1>5, JoinBytes, Zenon
<1>7. ServerHelloSerialize(m) = Written(ServerBytes(m.random, <<>>, Suite, exts))
  BY Zenon DEF ServerHelloSerialize, ServerBytes
<1> HIDE DEF exts
<1> QED
  BY <1>2, <1>6, <1>7, Zenon

\* Part of nd_server_hello_serialize's message is refused.
LEMMA OwnServerHelloPart ==
  ASSUME NEW m \in OtherFields["server_hello"], ServerHelloSerialize(m).ok,
         NEW w \in Seq(Nat), IsStrictPrefix(w, ServerHelloSerialize(m).bytes)
  PROVE  ~ServerHelloParse(w).ok
<1>1. /\ m.random \in Bytes /\ Len(m.random) = RandomLen
      /\ \E exts \in Bytes :
           ServerHelloSerialize(m) = Written(ServerBytes(m.random, <<>>, Suite, exts))
  BY OwnServerHelloIs, Zenon
<1> DEFINE none == <<>>
<1>2. none \in Bytes /\ ~Exceeds(1, Len(none)) /\ Suite \in Nat
  BY CodePoints, EmptyType, Zenon
<1>3. PICK exts \in Bytes :
        ServerHelloSerialize(m) = Written(ServerBytes(m.random, none, Suite, exts))
  BY <1>1, Zenon
<1> HIDE DEF none
<1> DEFINE e == ServerBytes(m.random, none, Suite, exts)
<1>4. e \in Bytes
  BY <1>1, <1>2, ServerType, Zenon
<1>5. e = ServerBytes(m.random, none, Suite, exts)
  OBVIOUS
<1> HIDE DEF e
<1>6. e = ServerHelloSerialize(m).bytes /\ Len(e) <= BufCap
  BY <1>3, <1>5, WrittenIs, Zenon
<1>7. Short(e) /\ IsStrictPrefix(w, e)
  BY <1>4, <1>6, CapShort, Zenon
<1> QED
  BY <1>1, <1>2, <1>5, <1>7, ServerHelloPart, Zenon

\* A list of 16-bit numbers
LEMMA NumbersType ==
  ASSUME NEW s \in Seq(Nat)
  PROVE  Concat(U16, s) \in Bytes
<1> DEFINE f == [i \in 1 .. Len(s) |-> U16(s[i])]
<1>1. ASSUME NEW i \in 1 .. Len(s) PROVE U16(s[i]) \in Bytes
  <2>1. s[i] \in Nat /\ 2 \in Nat
    OBVIOUS
  <2> QED
    BY <2>1, PutBytes DEF U16
<1>2. f \in Seq(Bytes)
  BY <1>1
<1>3. FlattenSeq(f) \in Bytes
  BY <1>2, FlattenType
<1> QED
  BY <1>3 DEF Concat

\* A list of key shares
LEMMA SharesType ==
  ASSUME NEW s \in Seq(Nat \X Octets)
  PROVE  Concat(LAMBDA x : ShareEntry(x[1], x[2]), s) \in Bytes
<1> DEFINE f == [i \in 1 .. Len(s) |-> ShareEntry(s[i][1], s[i][2])]
<1>1. ASSUME NEW i \in 1 .. Len(s) PROVE ShareEntry(s[i][1], s[i][2]) \in Bytes
  <2>1. s[i] \in Nat \X Octets
    OBVIOUS
  <2>2. s[i][1] \in Nat /\ s[i][2] \in Bytes
    BY <2>1, OctetsAreBytes
  <2> QED
    BY <2>2, ExtType
<1>2. f \in Seq(Bytes)
  BY <1>1
<1>3. FlattenSeq(f) \in Bytes
  BY <1>2, FlattenType
<1> QED
  BY <1>3 DEF Concat

\* An extension of another implementation
LEMMA PeerExtType ==
  ASSUME NEW exts \in PeerExts, NEW i \in 1 .. Len(exts)
  PROVE  PeerClientExt(exts[i]) \in Bytes /\ PeerServerExt(exts[i]) \in Bytes
<1> DEFINE e == exts[i]
           other == 65281
<1>0. other \in Nat /\ 1 \in Nat /\ 2 \in Nat
  OBVIOUS
<1> HIDE DEF other
<1>1. \/ e \in [kind : {"versions"}, list : Seq(Nat)]
      \/ e \in [kind : {"shares"}, list : Seq(Nat \X Octets)]
      \/ e \in [kind : {"other"}, list : Octets]
  BY DEF PeerExts
<1> HIDE DEF e
<1>2. CASE e \in [kind : {"versions"}, list : Seq(Nat)]
  <2> DEFINE d == Concat(U16, e.list)
  <2>1. e.kind = "versions" /\ e.list \in Seq(Nat)
    BY <1>2
  <2>2. d \in Bytes
    BY <2>1, NumbersType, Zenon
  <2>3. /\ PeerClientExt(e) = Ext(SupportedVersions, Prefixed(1, d))
        /\ PeerServerExt(e) = Ext(SupportedVersions, d)
    BY <2>1 DEF PeerClientExt, PeerServerExt
  <2> HIDE DEF d
  <2>4. Prefixed(1, d) \in Bytes
    BY <1>0, <2>2, PrefixedType, Zenon
  <2>5. PeerClientExt(e) \in Bytes /\ PeerServerExt(e) \in Bytes
    BY <2>2, <2>3, <2>4, CodePoints, ExtType, Zenon
  <2> QED
    BY <2>5 DEF e
<1>3. CASE e \in [kind : {"shares"}, list : Seq(Nat \X Octets)]
  <2> DEFINE d == Concat(LAMBDA s : ShareEntry(s[1], s[2]), e.list)
  <2>1. e.kind = "shares" /\ e.list \in Seq(Nat \X Octets)
    BY <1>3
  <2>2. d \in Bytes
    BY <2>1, SharesType, Zenon
  <2>3. /\ PeerClientExt(e) = Ext(KeyShare, Prefixed(2, d))
        /\ PeerServerExt(e) = Ext(KeyShare, d)
    BY <2>1 DEF PeerClientExt, PeerServerExt
  <2> HIDE DEF d
  <2>4. Prefixed(2, d) \in Bytes
    BY <1>0, <2>2, PrefixedType, Zenon
  <2>5. PeerClientExt(e) \in Bytes /\ PeerServerExt(e) \in Bytes
    BY <2>2, <2>3, <2>4, CodePoints, ExtType, Zenon
  <2> QED
    BY <2>5 DEF e
<1>4. CASE e \in [kind : {"other"}, list : Octets]
  <2>1. e.kind = "other" /\ e.list \in Bytes
    BY <1>4, OctetsAreBytes
  <2>2. PeerClientExt(e) = Ext(other, e.list) /\ PeerServerExt(e) = Ext(other, e.list)
    BY <2>1 DEF PeerClientExt, PeerServerExt, other
  <2>3. PeerClientExt(e) \in Bytes /\ PeerServerExt(e) \in Bytes
    BY <1>0, <2>1, <2>2, ExtType, Zenon
  <2> QED
    BY <2>3 DEF e
<1> QED
  BY <1>1, <1>2, <1>3, <1>4

\* The extensions of another implementation
LEMMA PeerExtsType ==
  ASSUME NEW exts \in PeerExts
  PROVE  Concat(PeerClientExt, exts) \in Bytes /\ Concat(PeerServerExt, exts) \in Bytes
<1> DEFINE f == [i \in 1 .. Len(exts) |-> PeerClientExt(exts[i])]
           g == [i \in 1 .. Len(exts) |-> PeerServerExt(exts[i])]
<1>0. Len(exts) \in Nat
  BY DEF PeerExts
<1>1. \A i \in 1 .. Len(exts) : PeerClientExt(exts[i]) \in Bytes /\ PeerServerExt(exts[i]) \in Bytes
  BY PeerExtType
<1>2. f \in Seq(Bytes) /\ g \in Seq(Bytes)
  BY <1>0, <1>1
<1>3. FlattenSeq(f) \in Bytes /\ FlattenSeq(g) \in Bytes
  BY <1>2, FlattenType
<1> QED
  BY <1>3 DEF Concat

\* Another implementation's ClientHello
LEMMA PeerClientHelloIs ==
  ASSUME NEW m \in OtherFields["peer_client_hello"]
  PROVE  /\ m.random \in Bytes /\ Len(m.random) = RandomLen /\ m.sid \in Bytes
         /\ m.cookie \in Bytes
         /\ \E suites \in Bytes, exts \in Bytes :
              PeerClientHello(m) = HelloBytes(m.random, m.sid, m.cookie, suites, exts)
<1>1. m \in [random : Blob(RandomLen), sid : Octets, cookie : Octets, suites : Seq(Nat),
             exts : PeerExts]
  BY OtherFieldsOf, Zenon
<1>2. /\ m.random \in Bytes /\ Len(m.random) = RandomLen /\ m.sid \in Bytes
      /\ m.cookie \in Bytes /\ m.suites \in Seq(Nat) /\ m.exts \in PeerExts
  BY <1>1, OctetsAreBytes, BlobType
<1> DEFINE suites == Concat(U16, m.suites)
           exts == Concat(PeerClientExt, m.exts)
<1>3. suites \in Bytes /\ exts \in Bytes
  BY <1>2, NumbersType, PeerExtsType, Zenon
<1>4. PeerClientHello(m) = HelloBytes(m.random, m.sid, m.cookie, suites, exts)
  <2> HIDE DEF suites, exts
  <2>1. PeerClientHello(m) =
          U16(V12) \o m.random \o Prefixed(1, m.sid) \o Prefixed(1, m.cookie)
            \o Prefixed(2, suites) \o Prefixed(1, <<0>>) \o Prefixed(2, exts)
    BY DEF PeerClientHello, suites, exts
  <2> QED
    BY <2>1, Zenon DEF HelloBytes, U16
<1> HIDE DEF suites, exts
<1> QED
  BY <1>2, <1>3, <1>4, Zenon

\* Part of another implementation's ClientHello is refused.
LEMMA PeerClientHelloPart ==
  ASSUME NEW m \in OtherFields["peer_client_hello"], LengthsFit("peer_client_hello", m),
         NEW w \in Seq(Nat), IsStrictPrefix(w, PeerClientHello(m))
  PROVE  ~ClientHelloParse(w).ok
<1>1. /\ m.random \in Bytes /\ Len(m.random) = RandomLen /\ m.sid \in Bytes
      /\ m.cookie \in Bytes
      /\ \E suites \in Bytes, exts \in Bytes :
           PeerClientHello(m) = HelloBytes(m.random, m.sid, m.cookie, suites, exts)
  BY PeerClientHelloIs, Zenon
<1>2. PICK suites \in Bytes, exts \in Bytes :
        PeerClientHello(m) = HelloBytes(m.random, m.sid, m.cookie, suites, exts)
  BY <1>1, Zenon
<1>3. Len(m.sid) < 256 /\ Len(m.cookie) < 256 /\ Short(PeerClientHello(m))
  BY DEF LengthsFit, Short
<1>4. ~Exceeds(1, Len(m.sid)) /\ ~Exceeds(1, Len(m.cookie))
  <2>1. Len(m.sid) \in Nat /\ Len(m.cookie) \in Nat
    BY <1>1 DEF Bytes
  <2> QED
    BY <1>3, <2>1, SmallFits
<1>5. Short(PeerClientHello(m))
  BY <1>3
<1>6. m.random \in Bytes /\ Len(m.random) = RandomLen /\ m.sid \in Bytes /\ m.cookie \in Bytes
  BY <1>1, Zenon
<1> DEFINE random == m.random
           sid == m.sid
           cookie == m.cookie
           e == HelloBytes(random, sid, cookie, suites, exts)
<1>7. Short(e) /\ IsStrictPrefix(w, e)
  BY <1>2, <1>5, Zenon
<1>8. /\ random \in Bytes /\ Len(random) = RandomLen /\ sid \in Bytes /\ cookie \in Bytes
      /\ ~Exceeds(1, Len(sid)) /\ ~Exceeds(1, Len(cookie))
  BY <1>4, <1>6, Zenon
<1>9. e = HelloBytes(random, sid, cookie, suites, exts)
  OBVIOUS
<1> HIDE DEF random, sid, cookie, e
<1> QED
  BY <1>7, <1>8, <1>9, ClientHelloPart

\* Another implementation's ServerHello
LEMMA PeerServerHelloIs ==
  ASSUME NEW m \in OtherFields["peer_server_hello"]
  PROVE  /\ m.random \in Bytes /\ Len(m.random) = RandomLen /\ m.sid \in Bytes
         /\ \E suite \in Nat, exts \in Bytes :
              PeerServerHello(m) = ServerBytes(m.random, m.sid, suite, exts)
<1>1. m \in [random : Blob(RandomLen), sid : Octets, suites : Seq(Nat) \ {<<>>}, exts : PeerExts]
  BY OtherFieldsOf, Zenon
<1>2. /\ m.random \in Bytes /\ Len(m.random) = RandomLen /\ m.sid \in Bytes
      /\ m.suites \in Seq(Nat) /\ m.suites # <<>> /\ m.exts \in PeerExts
  BY <1>1, OctetsAreBytes, BlobType
<1> DEFINE suite == m.suites[1]
           exts == Concat(PeerServerExt, m.exts)
<1>3. suite \in Nat
  BY <1>2
<1>4. exts \in Bytes
  BY <1>2, PeerExtsType, Zenon
<1>5. PeerServerHello(m) = ServerBytes(m.random, m.sid, suite, exts)
  <2> HIDE DEF suite, exts
  <2>1. PeerServerHello(m) =
          U16(V12) \o m.random \o Prefixed(1, m.sid) \o U16(suite) \o <<0>> \o Prefixed(2, exts)
    BY DEF PeerServerHello, suite, exts
  <2> QED
    BY <2>1, Zenon DEF ServerBytes, U16
<1> HIDE DEF suite, exts
<1> QED
  BY <1>2, <1>3, <1>4, <1>5, Zenon

\* Part of another implementation's ServerHello is refused.
LEMMA PeerServerHelloPart ==
  ASSUME NEW m \in OtherFields["peer_server_hello"], LengthsFit("peer_server_hello", m),
         NEW w \in Seq(Nat), IsStrictPrefix(w, PeerServerHello(m))
  PROVE  ~ServerHelloParse(w).ok
<1>1. /\ m.random \in Bytes /\ Len(m.random) = RandomLen /\ m.sid \in Bytes
      /\ \E suite \in Nat, exts \in Bytes :
           PeerServerHello(m) = ServerBytes(m.random, m.sid, suite, exts)
  BY PeerServerHelloIs, Zenon
<1>2. PICK suite \in Nat, exts \in Bytes :
        PeerServerHello(m) = ServerBytes(m.random, m.sid, suite, exts)
  BY <1>1, Zenon
<1>3. Len(m.sid) < 256 /\ Short(PeerServerHello(m))
  BY DEF LengthsFit, Short
<1>4. ~Exceeds(1, Len(m.sid))
  <2>1. Len(m.sid) \in Nat
    BY <1>1 DEF Bytes
  <2> QED
    BY <1>3, <2>1, SmallFits
<1>5. Short(PeerServerHello(m))
  BY <1>3
<1> QED
  BY <1>1, <1>2, <1>4, <1>5, ServerHelloPart, Zenon

\* The first byte that is written has the bits that were asked for.
LEMMA FlagsOf ==
  ASSUME NEW c \in BOOLEAN, NEW s \in BOOLEAN, NEW l \in BOOLEAN, NEW e \in Nat, NEW x,
         x = FixedBits + Flag(c, CidBit) + Flag(s, SeqBit) + Flag(l, LenBit) + EpochBits(e)
  PROVE  /\ x \in Octet
         /\ UnifiedFlags(x).cid_present <=> c
         /\ UnifiedFlags(x).seq16 <=> s
         /\ UnifiedFlags(x).len_present <=> l
<1> DEFINE a == Flag(c, CidBit)
           b == Flag(s, SeqBit)
           d == Flag(l, LenBit)
           r == EpochBits(e)
<1>1. a = (IF c THEN 16 ELSE 0) /\ b = (IF s THEN 8 ELSE 0) /\ d = IF l THEN 4 ELSE 0
  BY DEF Flag, CidBit, SeqBit, LenBit
<1>2. r \in 0 .. 3
  BY DEF EpochBits, EpochMask
<1>3. x = 32 + a + b + d + r
  BY DEF FixedBits
<1> HIDE DEF a, b, d, r
<1>4. x \in Octet
  BY <1>1, <1>2, <1>3 DEF Octet
<1>5. ((x \div 16) % 2 = 1) <=> c
  BY <1>1, <1>2, <1>3
<1>6. ((x \div 8) % 2 = 1) <=> s
  BY <1>1, <1>2, <1>3
<1>7. ((x \div 4) % 2 = 1) <=> l
  BY <1>1, <1>2, <1>3
<1>8. /\ UnifiedFlags(x).cid_present = Bit(x, CidBit) /\ UnifiedFlags(x).seq16 = Bit(x, SeqBit)
      /\ UnifiedFlags(x).len_present = Bit(x, LenBit)
  BY DEF UnifiedFlags
<1> QED
  BY <1>4, <1>5, <1>6, <1>7, <1>8 DEF Bit, CidBit, SeqBit, LenBit

\* A header up to its length fills its shape.
LEMMA HeadFills ==
  ASSUME NEW cid \in BOOLEAN, NEW cl \in Nat, cid => cl # 0, NEW n \in {1, 2},
         NEW x \in Octet, NEW c \in Bytes, NEW q \in Bytes, Len(q) = n,
         IF cid THEN Len(c) = cl ELSE c = <<>>
  PROVE  /\ Fills(HeadShape(cid, cl, n), <<x>> \o c \o q)
         /\ HeadShape(cid, cl, n) \in Seq(Int \ {0})
<1> DEFINE f == <<x>>
<1>0. 1 \in Nat \ {0} /\ n \in Nat \ {0} /\ 1 \in Int \ {0} /\ n \in Int \ {0}
  OBVIOUS
<1>1. f \in Bytes /\ Len(f) = 1
  BY DEF Bytes
<1> HIDE DEF f
<1>2. Width(1, f) /\ Coded(1, f) = f /\ Width(n, q) /\ Coded(n, q) = q
  BY <1>0, <1>1, BlobWidth, Zenon
<1>3. CASE cid
  <2>1. cl \in Nat \ {0} /\ cl \in Int \ {0} /\ Len(c) = cl
    BY <1>3
  <2>2. Width(cl, c) /\ Coded(cl, c) = c
    BY <2>1, BlobWidth, Zenon
  <2>3. HeadShape(cid, cl, n) = <<1, cl, n>>
    BY <1>3 DEF HeadShape
  <2>4. /\ Fills(<<1, cl, n>>, Coded(1, f) \o Coded(cl, c) \o Coded(n, q))
        /\ <<1, cl, n>> \in Seq(Int \ {0})
    BY <1>0, <1>2, <2>1, <2>2, FillsThree, Zenon
  <2> QED
    BY <1>2, <2>2, <2>3, <2>4, Zenon DEF f
<1>4. CASE ~cid
  <2>1. HeadShape(cid, cl, n) = <<1, n>>
    BY <1>4 DEF HeadShape
  <2>2. Fills(<<1, n>>, Coded(1, f) \o Coded(n, q)) /\ <<1, n>> \in Seq(Int \ {0})
    BY <1>0, <1>2, FillsTwo, Zenon
  <2>3. f \o c = f
    <3>1. c = <<>> /\ f \in Seq(Octet)
      BY <1>1, <1>4 DEF Bytes
    <3> QED
      BY <3>1
  <2> QED
    BY <1>2, <2>1, <2>2, <2>3, Zenon DEF f
<1> QED
  BY <1>3, <1>4

\* Part of a sequence begins as the sequence does.
LEMMA FirstOfPart ==
  ASSUME NEW w \in Seq(Nat), NEW e \in Seq(Nat), IsStrictPrefix(w, e), Len(w) >= 1
  PROVE  w[1] = e[1]
<1>1. Len(w) <= Len(e) /\ SubSeq(w, 1, Len(w)) = SubSeq(e, 1, Len(w))
  BY DEF IsStrictPrefix, IsPrefix
<1>2. SubSeq(w, 1, Len(w))[1] = w[1] /\ SubSeq(e, 1, Len(w))[1] = e[1]
  BY <1>1
<1> QED
  BY <1>1, <1>2

\* Bytes are numbers.
LEMMA BytesNat == \A b \in Bytes : b \in Seq(Nat)
<1> SUFFICES ASSUME NEW b \in Seq(Octet) PROVE b \in Seq(Nat)
  BY DEF Bytes
<1>1. Len(b) \in Nat /\ b = [i \in 1 .. Len(b) |-> b[i]] /\ \A i \in 1 .. Len(b) : b[i] \in Octet
  OBVIOUS
<1>2. \A i \in 1 .. Len(b) : b[i] \in Nat
  BY <1>1, OctetIsNat
<1> QED
  BY <1>1, <1>2

\* The first byte of a header
LEMMA HeaderFirst ==
  ASSUME NEW x \in Octet, NEW c \in Bytes, NEW q \in Bytes, NEW l \in Bytes, NEW p \in Bytes
  PROVE  /\ UnifiedBytes(x, c, q, l, p) \in Bytes
         /\ UnifiedBytes(x, c, q, l, p)[1] = x
<1> DEFINE f == <<x>>
           a == f \o c
           b == a \o q
           d == b \o l
           e == d \o p
<1>1. f \in Bytes /\ Len(f) >= 1 /\ f[1] = x
  BY DEF Bytes
<1> HIDE DEF f
<1>2. a \in Bytes /\ Len(a) >= 1 /\ a[1] = x
  BY <1>1, SameFirst
<1> HIDE DEF a
<1>3. b \in Bytes /\ Len(b) >= 1 /\ b[1] = x
  BY <1>2, SameFirst
<1> HIDE DEF b
<1>4. d \in Bytes /\ Len(d) >= 1 /\ d[1] = x
  BY <1>3, SameFirst
<1> HIDE DEF d
<1>5. e \in Bytes /\ e[1] = x
  BY <1>4, SameFirst
<1> QED
  BY <1>5, Zenon DEF UnifiedBytes, e, d, b, a, f

\* Part of a record whose header has a length is refused, and of one without
\* the parser knows that it has none.
LEMMA HeaderPart ==
  ASSUME NEW cid \in BOOLEAN, NEW s16 \in BOOLEAN, NEW len \in BOOLEAN,
         NEW cl \in Nat, cid => cl # 0, NEW epoch \in Nat, NEW x,
         x = FixedBits + Flag(cid, CidBit) + Flag(s16, SeqBit) + Flag(len, LenBit) + EpochBits(epoch),
         NEW c \in Bytes, IF cid THEN Len(c) = cl ELSE c = <<>>,
         NEW q \in Bytes, Len(q) = (IF s16 THEN 2 ELSE 1),
         NEW p \in Bytes, len => ~Exceeds(2, Len(p)),
         NEW w \in Seq(Nat), IsStrictPrefix(w, UnifiedBytes(x, c, q, LengthBytes(len, p), p))
  PROVE  UnifiedParse(w, cl).ok => ~len /\ ~UnifiedParse(w, cl).len_present
<1> SUFFICES ASSUME UnifiedParse(w, cl).ok
             PROVE  ~len /\ ~UnifiedParse(w, cl).len_present
  OBVIOUS
<1> DEFINE l == LengthBytes(len, p)
           e == UnifiedBytes(x, c, q, l, p)
           n == IF s16 THEN 2 ELSE 1
           h == UnifiedFlags(w[1])
           s == HeadShape(cid, cl, n)
<1>1. x \in Octet
  BY FlagsOf
<1>2. l \in Bytes
  <2>1. Len(p) \in Nat /\ 2 \in Nat /\ <<>> \in Bytes
    BY DEF Bytes
  <2>2. Put(2, Len(p)) \in Bytes
    BY <2>1, PutBytes
  <2> QED
    BY <2>1, <2>2 DEF LengthBytes
<1> HIDE DEF l
<1>3. e \in Bytes /\ e[1] = x
  BY <1>1, <1>2, HeaderFirst
<1> HIDE DEF e
<1>4. Len(w) >= 1 /\ UnifiedParse(w, cl) = UnifiedRest(h, w, cl)
  <2>1. ~(Len(w) < 1)
    BY RejectedNotOk, Zenon DEF UnifiedParse
  <2>2. UnifiedParse(w, cl) = UnifiedRest(h, w, cl)
    BY RejectedNotOk, Zenon DEF UnifiedParse
  <2> QED
    BY <2>1, <2>2
<1>5. w[1] = x
  <2>1. IsStrictPrefix(w, e) /\ e \in Seq(Nat)
    BY <1>3, BytesNat DEF e, l
  <2> QED
    BY <1>3, <1>4, <2>1, FirstOfPart
<1>6. /\ h.cid_present = cid /\ h.seq16 = s16 /\ h.len_present = len
  <2>1. /\ UnifiedFlags(x).cid_present <=> cid
        /\ UnifiedFlags(x).seq16 <=> s16
        /\ UnifiedFlags(x).len_present <=> len
    BY FlagsOf
  <2>2. /\ UnifiedFlags(x).cid_present \in BOOLEAN /\ UnifiedFlags(x).seq16 \in BOOLEAN
        /\ UnifiedFlags(x).len_present \in BOOLEAN
    BY DEF UnifiedFlags, Bit
  <2> QED
    BY <1>5, <2>1, <2>2
<1> HIDE DEF h
<1> DEFINE r == Read(UnifiedShape(h, cl), w)
           k == IF h.cid_present THEN 3 ELSE 2
<1>7. UnifiedParse(w, cl) = UnifiedFields(h, r, k)
  <2>1. ~(h.cid_present /\ cl = 0)
    BY <1>6
  <2> QED
    BY <1>4, <2>1, Zenon DEF UnifiedRest
<1>8. r.ok /\ UnifiedParse(w, cl).len_present = len
  <2> HIDE DEF r, k
  <2>1. ~r.ok => UnifiedFields(h, r, k) = Rejected
    BY SMT DEF UnifiedFields
  <2>a. r.ok
    BY <1>7, <2>1, RejectedNotOk, Zenon
  <2> QED
    BY <1>6, <1>7, <2>a DEF UnifiedFields
<1>9. ASSUME len PROVE FALSE
  <2>1. UnifiedShape(h, cl) = Append(s, -2)
    BY <1>6, <1>9, ShapeOfHead, Zenon
  <2> DEFINE y == <<x>> \o c \o q
  <2>2. Fills(s, y) /\ s \in Seq(Int \ {0})
    <3>1. n \in {1, 2} /\ Len(q) = n
      OBVIOUS
    <3> HIDE DEF n
    <3> QED
      BY <1>1, <3>1, HeadFills
  <2> HIDE DEF s, y
  <2>3. -2 \in Int \ {0} /\ 2 \in Nat \ {0}
    OBVIOUS
  <2>4. Width(-2, p) /\ Coded(-2, p) = Prefixed(2, p)
    BY <1>9, <2>3, VectorWidth
  <2>5. Fills(Append(s, -2), y \o Prefixed(2, p)) /\ Append(s, -2) \in Seq(Int \ {0})
    <3>1. Fills(Append(s, -2), y \o Coded(-2, p)) /\ Append(s, -2) \in Seq(Int \ {0})
      BY <2>2, <2>3, <2>4, FillsMore
    <3> QED
      BY <2>4, <3>1, Zenon
  <2>6. y \o Prefixed(2, p) = e
    <3>1. y \in Bytes
      BY <2>2 DEF Fills
    <3>2. l = Put(2, Len(p))
      BY <1>9 DEF LengthBytes, l
    <3>3. (y \o l) \o p = y \o (l \o p)
      BY <1>2, <3>1, Associative, Zenon
    <3> QED
      BY <3>2, <3>3, Zenon DEF e, UnifiedBytes, y, Prefixed
  <2>7. IsStrictPrefix(w, y \o Prefixed(2, p))
    BY <2>6, Zenon DEF e, l
  <2>8. ~Read(Append(s, -2), w).ok
    BY <2>5, <2>7, PartRefused, Zenon
  <2> QED
    BY <1>8, <2>1, <2>8, Zenon
<1> QED
  BY <1>8, <1>9

\* Part of what nd_unified_serialize wrote is refused if there is a length.
LEMMA UnifiedPart ==
  ASSUME NEW m \in Fields["unified"], LengthsFit("unified", m), UnifiedSerialize(m).ok,
         NEW w \in Seq(Nat), IsStrictPrefix(w, UnifiedSerialize(m).bytes)
  PROVE  UnifiedParse(w, CidLen).ok => ~UnifiedParse(w, CidLen).len_present
<1>1. m \in [cid_present : BOOLEAN, cid : Octets, seq16 : BOOLEAN, len_present : BOOLEAN,
             epoch : Nat, seq : Nat, payload : Octets]
  BY FieldsOf, Zenon
<1>2. /\ m.cid_present \in BOOLEAN /\ m.seq16 \in BOOLEAN /\ m.len_present \in BOOLEAN
      /\ m.cid \in Bytes /\ m.epoch \in Nat /\ m.seq \in Nat /\ m.payload \in Bytes
  BY <1>1, OctetsAreBytes
<1> DEFINE x == FixedBits + Flag(m.cid_present, CidBit) + Flag(m.seq16, SeqBit)
                  + Flag(m.len_present, LenBit) + EpochBits(m.epoch)
           c == IF m.cid_present THEN m.cid ELSE <<>>
           n == IF m.seq16 THEN 2 ELSE 1
           q == Put(n, m.seq)
           l == LengthBytes(m.len_present, m.payload)
           e == UnifiedBytes(x, c, q, l, m.payload)
<1>3. /\ ~(m.cid_present /\ Len(m.cid) = 0)
      /\ ~(m.len_present /\ Exceeds(2, Len(m.payload)))
  BY RejectedNotOk, Zenon DEF UnifiedSerialize
<1>4. UnifiedSerialize(m) = Written(e)
  BY RejectedNotOk, Zenon DEF UnifiedSerialize, UnifiedBytes, LengthBytes
<1>5. UnifiedSerialize(m).bytes = e
  <2> HIDE DEF e
  <2> QED
    BY <1>4, WrittenIs, Zenon
<1>6. IsStrictPrefix(w, UnifiedBytes(x, c, q, LengthBytes(m.len_present, m.payload), m.payload))
  BY <1>5, Zenon
<1>7. CidLen \in Nat /\ (m.cid_present => Len(m.cid) = CidLen)
  BY WireAssumption DEF LengthsFit
<1>8. c \in Bytes /\ IF m.cid_present THEN Len(c) = CidLen ELSE c = <<>>
  BY <1>2, <1>7, EmptyType
<1>9. m.cid_present => CidLen # 0
  BY <1>3, <1>7
<1>10. q \in Bytes /\ Len(q) = IF m.seq16 THEN 2 ELSE 1
  <2>1. n \in Nat
    OBVIOUS
  <2> HIDE DEF n
  <2>2. q \in Bytes /\ Len(q) = n
    BY <1>2, <2>1, PutType DEF Bytes
  <2> QED
    BY <2>2 DEF n
<1>11. x = FixedBits + Flag(m.cid_present, CidBit) + Flag(m.seq16, SeqBit)
             + Flag(m.len_present, LenBit) + EpochBits(m.epoch)
  OBVIOUS
<1>12. m.len_present => ~Exceeds(2, Len(m.payload))
  BY <1>3
<1> HIDE DEF x, c, n, q, l, e
<1> DEFINE cid == m.cid_present
           s16 == m.seq16
           len == m.len_present
           p == m.payload
           epoch == m.epoch
<1>13. /\ cid \in BOOLEAN /\ s16 \in BOOLEAN /\ len \in BOOLEAN /\ p \in Bytes /\ epoch \in Nat
       /\ cid => CidLen # 0
       /\ IF cid THEN Len(c) = CidLen ELSE c = <<>>
       /\ Len(q) = (IF s16 THEN 2 ELSE 1)
       /\ len => ~Exceeds(2, Len(p))
       /\ x = FixedBits + Flag(cid, CidBit) + Flag(s16, SeqBit) + Flag(len, LenBit) + EpochBits(epoch)
       /\ IsStrictPrefix(w, UnifiedBytes(x, c, q, LengthBytes(len, p), p))
  BY <1>2, <1>6, <1>8, <1>9, <1>10, <1>11, <1>12, Zenon
<1> HIDE DEF cid, s16, len, p, epoch
<1> QED
  BY <1>7, <1>8, <1>10, <1>13, HeaderPart

\* Part of a protected record is refused.
LEMMA RecordPart ==
  ASSUME NEW m \in Fields["record"], LengthsFit("record", m),
         NEW w \in Seq(Nat), IsStrictPrefix(w, RecordSerialize(m).bytes)
  PROVE  ~UnifiedParse(w, 0).ok
<1>1. m \in [epoch : Nat, seq : Nat, payload : Octets]
  BY FieldsOf, Zenon
<1>2. m.epoch \in Nat /\ m.seq \in Nat /\ m.payload \in Bytes
  BY <1>1, OctetsAreBytes
<1> DEFINE s == m.seq % 65536
           r == m.epoch % 4
           x == FixedBits + SeqBit + LenBit + EpochBits(r)
           y == FixedBits + Flag(FALSE, CidBit) + Flag(TRUE, SeqBit) + Flag(TRUE, LenBit) + EpochBits(r)
           q == Put(2, s)
           none == <<>>
           e == UnifiedBytes(x, none, q, LengthBytes(TRUE, m.payload), m.payload)
<1>3. s \in Nat /\ r \in Nat
  BY <1>2, RestFits
<1>4. ~Exceeds(2, Len(m.payload))
  <2>1. Len(m.payload) \in Nat
    BY <1>2 DEF Bytes
  <2>2. Len(m.payload) < 65536
    BY DEF LengthsFit
  <2> QED
    BY <2>1, <2>2, SmallFits
<1> HIDE DEF s, r
<1>5. y = x
  <2>1. EpochBits(r) \in 0 .. 3
    BY <1>3 DEF EpochBits, EpochMask
  <2> QED
    BY <2>1 DEF Flag, FixedBits, CidBit, SeqBit, LenBit
<1>6. q \in Bytes /\ Len(q) = 2
  BY <1>3, PutType DEF Bytes
<1>7. <<x>> \o none = <<x>>
  <2> HIDE DEF x
  <2> QED
    OBVIOUS
<1>8. RecordSerialize(m).bytes = e
  <2>1. RecordSerialize(m) = Foreign(FixedShapeHeader(r, s, Len(m.payload)) \o m.payload)
    BY DEF RecordSerialize, r, s
  <2>2. Foreign(FixedShapeHeader(r, s, Len(m.payload)) \o m.payload).bytes
          = FixedShapeHeader(r, s, Len(m.payload)) \o m.payload
    BY DEF Foreign
  <2>3. FixedShapeHeader(r, s, Len(m.payload)) \o m.payload
          = <<x>> \o q \o LengthBytes(TRUE, m.payload) \o m.payload
    BY DEF FixedShapeHeader, LengthBytes
  <2> HIDE DEF none
  <2> QED
    BY <1>7, <2>1, <2>2, <2>3, Zenon DEF UnifiedBytes
<1>9. none \in Bytes /\ (IF FALSE THEN Len(none) = 0 ELSE none = <<>>)
  BY EmptyType
<1>10. IsStrictPrefix(w, UnifiedBytes(y, none, q, LengthBytes(TRUE, m.payload), m.payload))
  BY <1>5, <1>8, Zenon
<1> HIDE DEF x, q, none, e
<1>11. UnifiedParse(w, 0).ok => ~TRUE
  <2>1. 0 \in Nat /\ FALSE \in BOOLEAN /\ TRUE \in BOOLEAN /\ (FALSE => 0 # 0)
    OBVIOUS
  <2>2. y = FixedBits + Flag(FALSE, CidBit) + Flag(TRUE, SeqBit) + Flag(TRUE, LenBit) + EpochBits(r)
    OBVIOUS
  <2>3. Len(q) = IF TRUE THEN 2 ELSE 1
    BY <1>6
  <2>4. TRUE => ~Exceeds(2, Len(m.payload))
    BY <1>4
  <2> HIDE DEF y
  <2> QED
    BY <1>2, <1>3, <1>6, <1>9, <1>10, <2>1, <2>2, <2>3, <2>4, HeaderPart
<1> QED
  BY <1>11

-----------------------------------------------------------------------------
(* Part of a DER value is none: the length in front of it says what is     *)
(* missing.                                                                *)

NatSeq == Seq(Nat)

\* NatSeq behind numbers
LEMMA JoinNumbers ==
  ASSUME NEW p, NEW q
  PROVE  p \in NatSeq /\ q \in NatSeq => p \o q \in NatSeq
  BY DEF NatSeq

\* Where the elements of two sequences are
LEMMA Joined ==
  ASSUME NEW p \in Seq(Nat), NEW q \in Seq(Nat)
  PROVE  /\ p \o q \in Seq(Nat) /\ Len(p \o q) = Len(p) + Len(q)
         /\ Len(p) \in Nat /\ Len(q) \in Nat
         /\ \A i \in 1 .. Len(p) : (p \o q)[i] = p[i]
         /\ \A i \in 1 .. Len(q) : (p \o q)[Len(p) + i] = q[i]
  BY ConcatProperties

\* Bytes are numbers.
LEMMA OctetNumbers == \A b \in Octets : b \in NatSeq
  BY BytesNat, OctetsAreBytes DEF NatSeq

\* The bytes of a value, after the tag and its length
LEMMA TlvBytes ==
  ASSUME NEW tag \in Nat, NEW body \in Seq(Nat)
  PROVE  LET e == Tlv(tag, body)
         IN  /\ e \in Seq(Nat)
             /\ Len(body) < 128 => Len(e) = 2 + Len(body) /\ e[2] = Len(body)
             /\ ~(Len(body) < 128) => Len(e) = 3 + Len(body) /\ e[2] = 129 /\ e[3] = Len(body)
<1> DEFINE n == Len(body)
           a == <<tag>>
           l == IF n < 128 THEN <<n>> ELSE <<129, n>>
           h == a \o l
           e == h \o body
<1>0. n \in Nat /\ a \in Seq(Nat) /\ Len(a) = 1
  OBVIOUS
<1>1. CASE n < 128
  <2>1. l = <<n>>
    BY <1>1
  <2>2. h \in Seq(Nat) /\ Len(h) = 2 /\ h[2] = n
    BY <1>0, <2>1
  <2>3. e \in Seq(Nat) /\ Len(e) = 2 + n /\ e[2] = n
    <3> HIDE DEF h
    <3>1. /\ e \in Seq(Nat) /\ Len(e) = Len(h) + n /\ \A i \in 1 .. Len(h) : e[i] = h[i]
      BY <2>2, Joined
    <3> HIDE DEF e
    <3> QED
      BY <1>0, <2>2, <3>1
  <2> QED
    BY <1>1, <2>3 DEF Tlv
<1>2. CASE ~(n < 128)
  <2>1. l = <<129, n>>
    BY <1>2
  <2>a. l \in Seq(Nat) /\ Len(l) = 2 /\ l[1] = 129 /\ l[2] = n
    BY <1>0, <2>1
  <2> HIDE DEF l
  <2>2. h \in Seq(Nat) /\ Len(h) = 3 /\ h[2] = 129 /\ h[3] = n
    <3> HIDE DEF a
    <3>1. /\ h \in Seq(Nat) /\ Len(h) = Len(a) + Len(l)
          /\ \A i \in 1 .. Len(l) : h[Len(a) + i] = l[i]
      <4>1. l \in Seq(Nat) /\ a \in Seq(Nat)
        BY <1>0, <2>a
      <4> QED
        BY <4>1, Joined, Zenon
    <3> HIDE DEF h
    <3>2. h[Len(a) + 1] = l[1] /\ h[Len(a) + 2] = l[2]
      BY <2>a, <3>1
    <3> QED
      BY <1>0, <2>a, <3>1, <3>2
  <2>3. e \in Seq(Nat) /\ Len(e) = 3 + n /\ e[2] = 129 /\ e[3] = n
    <3> HIDE DEF h
    <3>1. /\ e \in Seq(Nat) /\ Len(e) = Len(h) + n /\ \A i \in 1 .. Len(h) : e[i] = h[i]
      <4>1. h \in Seq(Nat)
        BY <2>2
      <4> QED
        BY <4>1, Joined, Zenon
    <3> HIDE DEF e
    <3> QED
      BY <1>0, <2>2, <3>1
  <2> QED
    BY <1>2, <2>3 DEF Tlv, l
<1> QED
  BY <1>1, <1>2

\* A value is a sequence of numbers.
LEMMA TlvNumbers ==
  ASSUME NEW tag \in Nat, NEW body
  PROVE  body \in NatSeq => Tlv(tag, body) \in NatSeq
  BY TlvBytes DEF NatSeq

\* A length of one byte
LEMMA ValueLenOne ==
  ASSUME NEW x \in 0 .. 255, NEW bytes \in Seq(Nat), Len(bytes) = 1, bytes[1] = x
  PROVE  ValueLen(bytes) = x
<1> DEFINE Def(f) == f = [i \in 0 .. Len(bytes) |-> IF i = 0 THEN 0 ELSE SizeT(256 * f[i - 1] + bytes[i])]
           v == CHOOSE f : Def(f)
           g == [i \in 0 .. 1 |-> IF i = 0 THEN 0 ELSE SizeT(256 * 0 + x)]
<1>1. Def(g)
  <2> DEFINE h == [i \in 0 .. 1 |-> IF i = 0 THEN 0 ELSE SizeT(256 * g[i - 1] + bytes[i])]
  <2>1. g[0] = 0
    OBVIOUS
  <2>2. \A i \in 0 .. 1 : i # 0 => i = 1 /\ i - 1 = 0
    OBVIOUS
  <2>3. g = h
    BY <2>1, <2>2
  <2> QED
    BY <2>3
<1>2. Def(v)
  <2> HIDE DEF Def
  <2> QED
    BY <1>1
<1>3. ValueLen(bytes) = v[1]
  BY DEF ValueLen
<1> HIDE DEF v
<1>4. v[0] = 0 /\ v[1] = SizeT(256 * v[0] + bytes[1])
  BY <1>2
<1>5. SizeT(256 * 0 + x) = x
  <2>1. SizeMod \in Nat /\ 255 < SizeMod /\ 256 * 0 + x = x
    BY SizeFacts
  <2>2. x % SizeMod = x
    BY <2>1
  <2> QED
    BY <2>1, <2>2 DEF SizeT
<1> QED
  BY <1>3, <1>4, <1>5

\* nd_asn1_parse_tlv refuses part of a value.
LEMMA TlvPart ==
  ASSUME NEW tag \in Nat, NEW body \in Seq(Nat), Len(body) < 256,
         NEW w \in Seq(Nat), IsStrictPrefix(w, Tlv(tag, body))
  PROVE  ~TlvParse(w).ok
<1> DEFINE n == Len(body)
           e == Tlv(tag, body)
<1>a. n \in Nat /\ Len(w) \in Nat /\ n < 256
  OBVIOUS
<1>0. n \in Nat /\ n \in 0 .. 255 /\ Len(w) \in Nat
  <2> HIDE DEF n, e
  <2> QED
    BY <1>a
<1>1. /\ e \in Seq(Nat)
      /\ n < 128 => Len(e) = 2 + n /\ e[2] = n
      /\ ~(n < 128) => Len(e) = 3 + n /\ e[2] = 129 /\ e[3] = n
  BY TlvBytes
<1>2. IsStrictPrefix(w, e)
  OBVIOUS
<1> HIDE DEF n, e
<1>3. Len(w) < Len(e) /\ \A i \in 1 .. Len(w) : w[i] = e[i]
  <2>1. Len(w) <= Len(e) /\ SubSeq(w, 1, Len(w)) = SubSeq(e, 1, Len(w)) /\ w # e
    BY <1>2 DEF IsStrictPrefix, IsPrefix
  <2>2. SubSeq(w, 1, Len(w)) = w /\ SubSeq(e, 1, Len(e)) = e /\ Len(e) \in Nat
    BY <1>1
  <2>3. Len(w) < Len(e)
    <3>1. Len(w) # Len(e)
      BY <2>1, <2>2
    <3>2. Len(w) <= Len(e) /\ Len(e) \in Nat
      BY <2>1, <2>2
    <3> QED
      BY <1>0, <3>1, <3>2
  <2>4. \A i \in 1 .. Len(w) : SubSeq(e, 1, Len(w))[i] = e[i]
    BY <1>1, <2>3
  <2> QED
    BY <2>1, <2>2, <2>3, <2>4
<1> SUFFICES ASSUME TlvParse(w).ok PROVE FALSE
  OBVIOUS
<1>4. ~(Len(w) < 2) /\ ~(w[1] % 32 = 31)
  BY DEF TlvParse, Rejected
<1>5. SizeMod \in Nat \ {0} /\ n \in 0 .. SizeMod - 1 /\ 2 \in 0 .. SizeMod - 1 /\ 3 \in 0 .. SizeMod - 1
  BY <1>0, SizeFacts
<1>6. w[2] = e[2]
  BY <1>0, <1>3, <1>4
<1>7. CASE n < 128
  <2>1. w[2] = n /\ w[2] < 128
    BY <1>1, <1>6, <1>7
  <2>2. TlvParse(w) = TlvAt(w, 2, n)
    BY <1>4, <2>1 DEF TlvParse
  <2>3. 2 + n <= Len(w)
    BY <1>0, <1>5, <2>2, TlvAtFits
  <2> QED
    BY <1>0, <1>1, <1>3, <1>7, <2>3
<1>8. CASE ~(n < 128)
  <2>1. w[2] = 129
    BY <1>1, <1>6, <1>8
  <2> DEFINE s == SubSeq(w, 3, 3)
  <2>2. TlvParse(w) = LongForm(w, 1)
    BY <1>4, <2>1 DEF TlvParse
  <2>3. ~(2 + 1 > Len(w)) /\ TlvParse(w) = TlvAt(w, 2 + 1, ValueLen(SubSeq(w, 3, 2 + 1)))
    BY <2>2 DEF LongForm, Rejected
  <2>4. 3 <= Len(w) /\ TlvParse(w) = TlvAt(w, 3, ValueLen(s))
    BY <1>0, <2>3
  <2>5. w[3] = n
    <3>1. 3 \in 1 .. Len(w)
      BY <1>0, <2>4
    <3> QED
      BY <1>1, <1>3, <1>8, <3>1
  <2>6. s \in Seq(Nat) /\ Len(s) = 1 /\ s[1] = n
    BY <1>0, <2>4, <2>5
  <2> HIDE DEF s
  <2>7. ValueLen(s) = n
    BY <1>0, <2>6, ValueLenOne
  <2>8. 3 + n <= Len(w)
    BY <1>0, <1>5, <2>4, <2>7, TlvAtFits
  <2> QED
    BY <1>0, <1>1, <1>3, <1>8, <2>8
<1> QED
  BY <1>7, <1>8

\* A scalar's encoding
LEMMA ScalarNumbers ==
  ASSUME NEW v \in Blob(ScalarLen)
  PROVE  DerEncodeUint(v) \in NatSeq
<1> DEFINE S == {i \in 1 .. ScalarLen : i = ScalarLen \/ v[i] # 0}
           start == Min(S)
           n == SubSeq(v, start, ScalarLen)
           body == SignPad(n)
<1>1. v \in Seq(Nat) /\ Len(v) = ScalarLen
  BY OctetNumbers DEF Blob, NatSeq
<1>2. ScalarLen \in Nat \ {0}
  BY DerAssumption
<1>3. S \in SUBSET Nat /\ S # {}
  <2>1. ScalarLen \in S
    BY <1>2
  <2> QED
    BY <2>1
<1>4. start \in 1 .. ScalarLen
  <2>1. S \subseteq 1 .. ScalarLen
    OBVIOUS
  <2> HIDE DEF S
  <2>2. \E x \in S : \A y \in S : x <= y
    BY <1>3, LeastNumber
  <2>3. start \in S
    BY <2>2, Zenon DEF Min
  <2> QED
    BY <2>1, <2>3
<1> HIDE DEF start
<1>5. n \in Seq(Nat)
  BY <1>1, <1>2, <1>4
<1> HIDE DEF n
<1>6. <<0>> \in Seq(Nat) /\ <<0>> \o n \in Seq(Nat)
  BY <1>5
<1>7. body \in Seq(Nat)
  BY <1>5, <1>6 DEF SignPad
<1> HIDE DEF body
<1>8. <<INTEGER, Len(body)>> \in Seq(Nat)
  BY <1>7 DEF INTEGER
<1>9. DerEncodeUint(v) = <<INTEGER, Len(body)>> \o body
  BY DEF DerEncodeUint, body, n, start
<1> QED
  BY <1>7, <1>8, <1>9, JoinNumbers DEF NatSeq

\* A signature is a SEQUENCE.
LEMMA SignatureTlv ==
  ASSUME NEW m, m.r \in Blob(ScalarLen), m.s \in Blob(ScalarLen), SignatureSerialize(m).ok
  PROVE  \E body \in Seq(Nat) : /\ Len(body) < 128
                                /\ SignatureSerialize(m).bytes = Tlv(SEQUENCE, body)
<1> DEFINE body == DerEncodeUint(m.r) \o DerEncodeUint(m.s)
<1>1. body \in Seq(Nat)
  BY ScalarNumbers, JoinNumbers DEF NatSeq
<1>2. ~(Len(body) > 127) /\ SignatureSerialize(m) = [ok |-> TRUE, bytes |-> <<SEQUENCE, Len(body)>> \o body]
  BY RejectedNotOk, Zenon DEF SignatureSerialize
<1> HIDE DEF body
<1>3. Len(body) < 128
  BY <1>1, <1>2
<1>4. <<SEQUENCE>> \o <<Len(body)>> = <<SEQUENCE, Len(body)>>
  <2> DEFINE k == Len(body)
  <2> HIDE DEF k
  <2>1. <<SEQUENCE>> \in Seq({SEQUENCE, k}) /\ k \in {SEQUENCE, k}
    OBVIOUS
  <2>2. <<SEQUENCE>> \o <<k>> = Append(<<SEQUENCE>>, k)
    BY <2>1, AppendIsConcat
  <2>3. Append(<<SEQUENCE>>, k) = <<SEQUENCE, k>>
    BY AppendTwo, Zenon
  <2> QED
    BY <2>2, <2>3 DEF k
<1>5. Tlv(SEQUENCE, body) = <<SEQUENCE, Len(body)>> \o body
  BY <1>3, <1>4 DEF Tlv
<1>6. SignatureSerialize(m).bytes = Tlv(SEQUENCE, body)
  BY <1>2, <1>5
<1> QED
  BY <1>1, <1>3, <1>6

\* Part of a signature is refused.
LEMMA SignaturePart ==
  ASSUME NEW m \in OtherFields["signature"], SignatureSerialize(m).ok,
         NEW w \in Seq(Nat), IsStrictPrefix(w, SignatureSerialize(m).bytes)
  PROVE  ~SignatureParse(w).ok
<1>1. m \in [r : Blob(ScalarLen), s : Blob(ScalarLen)]
  BY OtherFieldsOf, Zenon
<1>2. PICK body \in Seq(Nat) : Len(body) < 128 /\ SignatureSerialize(m).bytes = Tlv(SEQUENCE, body)
  BY <1>1, SignatureTlv
<1>3. Len(body) < 256 /\ SEQUENCE \in Nat
  BY <1>2 DEF SEQUENCE
<1>4. ~TlvParse(w).ok
  BY <1>2, <1>3, TlvPart
<1> QED
  BY <1>4, RejectedNotOk DEF SignatureParse, SignatureIn

\* The tags and the constant parts of a certificate
LEMMA DerParts ==
  /\ INTEGER \in Nat /\ BITSTRING \in Nat /\ SEQUENCE \in Nat /\ BOOLEAN_TAG \in Nat
  /\ OCTETS \in Nat /\ OID \in Nat /\ UTCTIME \in Nat /\ GENTIME \in Nat
  /\ CTX(0) \in Nat /\ CTX(1) \in Nat /\ CTX(3) \in Nat
  /\ OidEcdsaSha256 \in NatSeq /\ OidEcPublicKey \in NatSeq /\ OidPrime256v1 \in NatSeq
  /\ <<>> \in NatSeq /\ <<0>> \in NatSeq /\ <<2>> \in NatSeq /\ <<5>> \in NatSeq
  /\ <<90>> \in NatSeq /\ <<255>> \in NatSeq /\ <<0, 4>> \in NatSeq /\ <<0, 7>> \in NatSeq
<1>1. /\ INTEGER \in Nat /\ BITSTRING \in Nat /\ SEQUENCE \in Nat /\ BOOLEAN_TAG \in Nat
      /\ OCTETS \in Nat /\ OID \in Nat /\ UTCTIME \in Nat /\ GENTIME \in Nat
      /\ CTX(0) \in Nat /\ CTX(1) \in Nat /\ CTX(3) \in Nat
  BY DEF INTEGER, BITSTRING, SEQUENCE, BOOLEAN_TAG, OCTETS, OID, UTCTIME, GENTIME, CTX
<1>2. /\ <<>> \in NatSeq /\ <<0>> \in NatSeq /\ <<2>> \in NatSeq /\ <<5>> \in NatSeq
      /\ <<90>> \in NatSeq /\ <<255>> \in NatSeq
  BY DEF NatSeq
<1>3. /\ <<0, 4>> \in NatSeq /\ <<0, 7>> \in NatSeq
  BY DEF NatSeq
<1>4. OidEcdsaSha256 \in NatSeq /\ OidEcPublicKey \in NatSeq /\ OidPrime256v1 \in NatSeq
  BY DEF NatSeq, OidEcdsaSha256, OidEcPublicKey, OidPrime256v1
<1> QED
  BY <1>1, <1>2, <1>3, <1>4

\* A certificate's extension
LEMMA IssuedExtensionType ==
  ASSUME NEW e \in [oid : Octets, critical : BOOLEAN, ca : Octets]
  PROVE  IssuedExtension(e) \in NatSeq
<1>1. e.oid \in NatSeq /\ e.ca \in NatSeq
  BY OctetNumbers
<1> DEFINE a == Tlv(OID, e.oid)
           b == IF e.critical THEN Tlv(BOOLEAN_TAG, <<255>>) ELSE <<>>
           d == IF e.ca = <<>> THEN <<>> ELSE Tlv(BOOLEAN_TAG, e.ca)
           f == Tlv(OCTETS, Tlv(SEQUENCE, d))
<1>2. a \in NatSeq /\ Tlv(BOOLEAN_TAG, <<255>>) \in NatSeq /\ Tlv(BOOLEAN_TAG, e.ca) \in NatSeq
  BY <1>1, DerParts, TlvNumbers
<1>3. b \in NatSeq /\ d \in NatSeq
  BY <1>2, DerParts
<1> HIDE DEF a, b, d
<1>4. f \in NatSeq
  BY <1>3, DerParts, TlvNumbers
<1> HIDE DEF f
<1>5. a \o b \o f \in NatSeq
  BY <1>2, <1>3, <1>4, JoinNumbers
<1>6. Tlv(SEQUENCE, a \o b \o f) \in NatSeq
  BY <1>5, DerParts, TlvNumbers
<1> QED
  BY <1>6 DEF IssuedExtension, a, b, d, f

\* A date
LEMMA IssuedTimeType ==
  ASSUME NEW t \in Nat \X Octets
  PROVE  IssuedTime(t) \in NatSeq
<1> DEFINE y == t[1]
           d == t[2]
<1>1. y \in Nat /\ d \in NatSeq
  BY OctetNumbers
<1>2. ASSUME NEW v \in Nat PROVE TwoDigits(v) \in NatSeq
  <2>1. 48 + (v \div 10) \in Nat /\ 48 + (v % 10) \in Nat
    BY <1>2
  <2> QED
    BY <2>1 DEF TwoDigits, NatSeq
<1>3. y % 100 \in Nat /\ y \div 100 \in Nat
  BY <1>1
<1> DEFINE a == TwoDigits(y % 100)
           b == TwoDigits(y \div 100)
<1>4. a \in NatSeq /\ b \in NatSeq
  BY <1>2, <1>3
<1> HIDE DEF a, b, y, d
<1>5. a \o d \o <<90>> \in NatSeq /\ b \o a \o d \o <<90>> \in NatSeq
  BY <1>1, <1>4, DerParts, JoinNumbers
<1>6. Tlv(UTCTIME, a \o d \o <<90>>) \in NatSeq /\ Tlv(GENTIME, b \o a \o d \o <<90>>) \in NatSeq
  BY <1>5, DerParts, TlvNumbers
<1> QED
  BY <1>6 DEF IssuedTime, a, b, y, d

\* The parts of a certificate
LEMMA JoinThree ==
  ASSUME NEW a, NEW b, NEW c
  PROVE  a \in NatSeq /\ b \in NatSeq /\ c \in NatSeq => a \o b \o c \in NatSeq
<1> SUFFICES ASSUME a \in NatSeq, b \in NatSeq, c \in NatSeq PROVE a \o b \o c \in NatSeq
  OBVIOUS
<1>1. a \o b \in NatSeq
  BY JoinNumbers, Zenon
<1> QED
  BY <1>1, JoinNumbers, Zenon

\* What the issuer signs
LEMMA IssuedTbsType ==
  ASSUME NEW c \in OtherFields["x509"]
  PROVE  IssuedTbs(c) \in NatSeq
<1>1. c \in [version : BOOLEAN, issuer : Octets, subject : Octets, not_before : Nat \X Octets,
             not_after : Nat \X Octets, key : Octets, uid : BOOLEAN, r : Blob(ScalarLen),
             s : Blob(ScalarLen), exts : CertExtensions]
  BY OtherFieldsOf, Zenon
<1>2. /\ c.issuer \in NatSeq /\ c.subject \in NatSeq /\ c.key \in NatSeq
      /\ c.not_before \in Nat \X Octets /\ c.not_after \in Nat \X Octets
      /\ c.exts \in CertExtensions
  BY <1>1, OctetNumbers
<1> DEFINE v == IF c.version THEN Tlv(CTX(0), Tlv(INTEGER, <<2>>)) ELSE <<>>
           serial == Tlv(INTEGER, <<5>>)
           alg == Tlv(SEQUENCE, Tlv(OID, OidEcdsaSha256))
           issuer == Tlv(SEQUENCE, c.issuer)
           times == Tlv(SEQUENCE, IssuedTime(c.not_before) \o IssuedTime(c.not_after))
           subject == Tlv(SEQUENCE, c.subject)
           key == Tlv(SEQUENCE, Tlv(SEQUENCE, Tlv(OID, OidEcPublicKey) \o Tlv(OID, OidPrime256v1))
                                  \o Tlv(BITSTRING, <<0, 4>> \o c.key))
           uid == IF c.uid THEN Tlv(CTX(1), <<0, 7>>) ELSE <<>>
           list == Concat(IssuedExtension, c.exts)
           exts == IF c.exts = <<>> THEN <<>> ELSE Tlv(CTX(3), Tlv(SEQUENCE, list))
<1>3. v \in NatSeq
  <2>1. Tlv(INTEGER, <<2>>) \in NatSeq
    BY DerParts, TlvNumbers, Zenon
  <2>2. Tlv(CTX(0), Tlv(INTEGER, <<2>>)) \in NatSeq
    BY <2>1, DerParts, TlvNumbers, Zenon
  <2> QED
    BY <2>2, DerParts, Zenon
<1>4. serial \in NatSeq /\ issuer \in NatSeq /\ subject \in NatSeq
  BY <1>2, DerParts, TlvNumbers, Zenon
<1>5. alg \in NatSeq
  <2>1. Tlv(OID, OidEcdsaSha256) \in NatSeq
    BY DerParts, TlvNumbers, Zenon
  <2> QED
    BY <2>1, DerParts, TlvNumbers, Zenon
<1>6. times \in NatSeq
  <2>1. IssuedTime(c.not_before) \o IssuedTime(c.not_after) \in NatSeq
    BY <1>2, IssuedTimeType, JoinNumbers, Zenon
  <2> QED
    BY <2>1, DerParts, TlvNumbers, Zenon
<1>7. key \in NatSeq
  <2> DEFINE a == Tlv(OID, OidEcPublicKey) \o Tlv(OID, OidPrime256v1)
             b == <<0, 4>> \o c.key
             d == Tlv(SEQUENCE, a) \o Tlv(BITSTRING, b)
  <2>1. Tlv(OID, OidEcPublicKey) \in NatSeq /\ Tlv(OID, OidPrime256v1) \in NatSeq
    BY DerParts, TlvNumbers, Zenon
  <2>2. a \in NatSeq
    BY <2>1, JoinNumbers, Zenon
  <2>3. b \in NatSeq
    BY <1>2, DerParts, JoinNumbers, Zenon
  <2> HIDE DEF a, b
  <2>4. Tlv(SEQUENCE, a) \in NatSeq /\ Tlv(BITSTRING, b) \in NatSeq
    BY <2>2, <2>3, DerParts, TlvNumbers, Zenon
  <2>5. d \in NatSeq
    BY <2>4, JoinNumbers, Zenon
  <2> HIDE DEF d
  <2>6. Tlv(SEQUENCE, d) \in NatSeq
    BY <2>5, DerParts, TlvNumbers, Zenon
  <2> QED
    BY <2>6 DEF d, a, b
<1>8. uid \in NatSeq
  <2>1. Tlv(CTX(1), <<0, 7>>) \in NatSeq
    BY DerParts, TlvNumbers, Zenon
  <2> QED
    BY <2>1, DerParts, Zenon
<1>9. list \in NatSeq
  <2> DEFINE x == c.exts
             f == [i \in 1 .. Len(x) |-> IssuedExtension(x[i])]
  <2>1. x \in Seq([oid : Octets, critical : BOOLEAN, ca : Octets])
    BY <1>2 DEF CertExtensions
  <2> HIDE DEF x
  <2>2. Len(x) \in Nat /\ \A i \in 1 .. Len(x) : IssuedExtension(x[i]) \in NatSeq
    <3> DEFINE R == [oid : Octets, critical : BOOLEAN, ca : Octets]
    <3>1. \A e \in R : IssuedExtension(e) \in NatSeq
      BY IssuedExtensionType, Zenon
    <3>2. x \in Seq(R)
      BY <2>1, Zenon
    <3> HIDE DEF R
    <3>3. Len(x) \in Nat /\ \A i \in 1 .. Len(x) : x[i] \in R
      BY <3>2
    <3> QED
      BY <3>1, <3>3, Zenon
  <2>3. f \in Seq(NatSeq)
    BY <2>2
  <2>4. <<>> \in NatSeq /\ \A p \in NatSeq, q \in NatSeq : p \o q \in NatSeq
    BY DerParts, JoinNumbers, Zenon
  <2> HIDE DEF f
  <2>5. FlattenSeq(f) \in NatSeq
    BY <2>3, <2>4, FlattenClosed
  <2> QED
    BY <2>5 DEF Concat, f, x
<1> HIDE DEF list
<1>10. exts \in NatSeq
  <2>1. Tlv(SEQUENCE, list) \in NatSeq
    BY <1>9, DerParts, TlvNumbers, Zenon
  <2>2. Tlv(CTX(3), Tlv(SEQUENCE, list)) \in NatSeq
    BY <2>1, DerParts, TlvNumbers, Zenon
  <2> QED
    BY <2>2, DerParts, Zenon
<1>11. IssuedTbs(c) = Tlv(SEQUENCE, v \o serial \o alg \o issuer \o times \o subject \o key \o uid \o exts)
  BY DEF IssuedTbs, list
<1> HIDE DEF v, serial, alg, issuer, times, subject, key, uid, exts
<1>12. v \o serial \o alg \in NatSeq
  BY <1>3, <1>4, <1>5, JoinThree, Zenon
<1>13. v \o serial \o alg \o issuer \o times \in NatSeq
  BY <1>4, <1>6, <1>12, JoinThree, Zenon
<1>14. v \o serial \o alg \o issuer \o times \o subject \o key \in NatSeq
  BY <1>4, <1>7, <1>13, JoinThree, Zenon
<1>15. v \o serial \o alg \o issuer \o times \o subject \o key \o uid \o exts \in NatSeq
  BY <1>8, <1>10, <1>14, JoinThree, Zenon
<1> QED
  BY <1>11, <1>15, DerParts, TlvNumbers, Zenon

\* A certificate is a SEQUENCE.
LEMMA CertificateTlv ==
  ASSUME NEW c \in OtherFields["x509"], SignatureSerialize(c).ok
  PROVE  \E body \in Seq(Nat) : IssuedCertificate(c) = Tlv(SEQUENCE, body)
<1>1. c.r \in Blob(ScalarLen) /\ c.s \in Blob(ScalarLen)
  <2>1. c \in [version : BOOLEAN, issuer : Octets, subject : Octets, not_before : Nat \X Octets,
               not_after : Nat \X Octets, key : Octets, uid : BOOLEAN, r : Blob(ScalarLen),
               s : Blob(ScalarLen), exts : CertExtensions]
    BY OtherFieldsOf, Zenon
  <2> QED
    BY <2>1
<1> DEFINE tbs == IssuedTbs(c)
           alg == Tlv(SEQUENCE, Tlv(OID, OidEcdsaSha256))
           sig == SignatureSerialize(c).bytes
           bits == Tlv(BITSTRING, <<0>> \o sig)
           body == tbs \o alg \o bits
<1>2. tbs \in NatSeq
  BY IssuedTbsType, Zenon
<1>3. alg \in NatSeq
  <2>1. Tlv(OID, OidEcdsaSha256) \in NatSeq
    BY DerParts, TlvNumbers, Zenon
  <2> QED
    BY <2>1, DerParts, TlvNumbers, Zenon
<1>4. sig \in NatSeq
  <2>1. PICK d \in Seq(Nat) : sig = Tlv(SEQUENCE, d)
    BY <1>1, SignatureTlv
  <2> QED
    BY <2>1, DerParts, TlvNumbers DEF NatSeq
<1>5. bits \in NatSeq
  <2> HIDE DEF sig
  <2>1. <<0>> \o sig \in NatSeq
    BY <1>4, DerParts, JoinNumbers, Zenon
  <2> QED
    BY <2>1, DerParts, TlvNumbers, Zenon
<1>6. IssuedCertificate(c) = Tlv(SEQUENCE, body)
  BY DEF IssuedCertificate
<1> HIDE DEF tbs, alg, bits
<1>7. body \in NatSeq
  BY <1>2, <1>3, <1>5, JoinThree, Zenon
<1> HIDE DEF body
<1> QED
  BY <1>6, <1>7 DEF NatSeq

\* Part of a certificate is refused.
LEMMA X509Part ==
  ASSUME NEW c \in OtherFields["x509"], LengthsFit("x509", c),
         NEW w \in Seq(Nat), IsStrictPrefix(w, IssuedCertificate(c))
  PROVE  ~X509Parse(w).ok
<1>1. SignatureSerialize(c).ok /\ Len(IssuedCertificate(c)) < 256
  BY DEF LengthsFit
<1>2. PICK body \in Seq(Nat) : IssuedCertificate(c) = Tlv(SEQUENCE, body)
  BY <1>1, CertificateTlv
<1>3. Len(body) < 256 /\ SEQUENCE \in Nat
  <2>1. SEQUENCE \in Nat
    BY DerParts, Zenon
  <2>2. Len(body) \in Nat /\ (Len(Tlv(SEQUENCE, body)) = 2 + Len(body) \/ Len(Tlv(SEQUENCE, body)) = 3 + Len(body))
    <3> DEFINE n == Len(body)
               m == Len(Tlv(SEQUENCE, body))
    <3>1. n \in Nat
      OBVIOUS
    <3>2. (n < 128 => m = 2 + n) /\ (~(n < 128) => m = 3 + n)
      BY <2>1, TlvBytes
    <3> HIDE DEF m, n
    <3>3. n \in Nat /\ (m = 2 + n \/ m = 3 + n)
      BY <3>1, <3>2
    <3> QED
      BY <3>3 DEF m, n
  <2>3. Len(Tlv(SEQUENCE, body)) < 256
    BY <1>1, <1>2
  <2> QED
    BY <2>1, <2>2, <2>3
<1>4. ~TlvParse(w).ok
  BY <1>2, <1>3, TlvPart
<1> QED
  BY <1>4, RejectedNotOk DEF X509Parse, CertificateIn

-----------------------------------------------------------------------------
\* The formats of the other messages
LEMMA OtherFormats ==
  DOMAIN OtherFields =
    {"client_hello", "server_hello", "extensions", "certificate", "signature",
     "peer_client_hello", "peer_server_hello", "x509", "der"}
  BY DEF OtherFields

\* Their serializers
LEMMA SerializeOther ==
  /\ \A m : Serialize("client_hello", m) = ClientHelloSerialize(m)
  /\ \A m : Serialize("server_hello", m) = ServerHelloSerialize(m)
  /\ \A m : Serialize("extensions", m) = EncryptedExtensionsSerialize
  /\ \A m : Serialize("certificate", m) = CertificateSerialize(m.certs)
  /\ \A m : Serialize("signature", m) = SignatureSerialize(m)
  /\ \A m : Serialize("peer_client_hello", m) = Foreign(PeerClientHello(m))
  /\ \A m : Serialize("peer_server_hello", m) = Foreign(PeerServerHello(m))
  /\ \A m : Serialize("x509", m) = Foreign(IssuedCertificate(m))
<1>1. \A m : Serialize("client_hello", m) = ClientHelloSerialize(m)
  BY Zenon DEF Serialize
<1>2. \A m : Serialize("server_hello", m) = ServerHelloSerialize(m)
  BY Zenon DEF Serialize
<1>3. \A m : Serialize("extensions", m) = EncryptedExtensionsSerialize
  BY Zenon DEF Serialize
<1>4. \A m : Serialize("certificate", m) = CertificateSerialize(m.certs)
  BY Zenon DEF Serialize
<1>5. \A m : Serialize("signature", m) = SignatureSerialize(m)
  BY Zenon DEF Serialize
<1>6. \A m : Serialize("peer_client_hello", m) = Foreign(PeerClientHello(m))
  BY Zenon DEF Serialize
<1>7. \A m : Serialize("peer_server_hello", m) = Foreign(PeerServerHello(m))
  BY Zenon DEF Serialize
<1>8. \A m : Serialize("x509", m) = Foreign(IssuedCertificate(m))
  BY Zenon DEF Serialize
<1> QED
  BY <1>1, <1>2, <1>3, <1>4, <1>5, <1>6, <1>7, <1>8, Zenon

\* Their parsers
LEMMA ParseOther ==
  /\ \A b : Parse("client_hello", b) = ClientHelloParse(b)
  /\ \A b : Parse("server_hello", b) = ServerHelloParse(b)
  /\ \A b : Parse("extensions", b) = EncryptedExtensionsParse(b)
  /\ \A b : Parse("certificate", b) = CertificateParse(b)
  /\ \A b : Parse("signature", b) = SignatureParse(b)
  /\ \A b : Parse("peer_client_hello", b) = ClientHelloParse(b)
  /\ \A b : Parse("peer_server_hello", b) = ServerHelloParse(b)
  /\ \A b : Parse("x509", b) = X509Parse(b)
<1>1. \A b : Parse("client_hello", b) = ClientHelloParse(b)
  BY Zenon DEF Parse
<1>2. \A b : Parse("server_hello", b) = ServerHelloParse(b)
  BY Zenon DEF Parse
<1>3. \A b : Parse("extensions", b) = EncryptedExtensionsParse(b)
  BY Zenon DEF Parse
<1>4. \A b : Parse("certificate", b) = CertificateParse(b)
  BY Zenon DEF Parse
<1>5. \A b : Parse("signature", b) = SignatureParse(b)
  BY Zenon DEF Parse
<1>6. \A b : Parse("peer_client_hello", b) = ClientHelloParse(b)
  BY Zenon DEF Parse
<1>7. \A b : Parse("peer_server_hello", b) = ServerHelloParse(b)
  BY Zenon DEF Parse
<1>8. \A b : Parse("x509", b) = X509Parse(b)
  BY Zenon DEF Parse
<1> QED
  BY <1>1, <1>2, <1>3, <1>4, <1>5, <1>6, <1>7, <1>8, Zenon

\* What others send is always written.
LEMMA ForeignIs ==
  ASSUME NEW b
  PROVE  Foreign(b).ok /\ Foreign(b).bytes = b
  BY DEF Foreign

\* What this library writes of the other messages is bytes.
LEMMA OwnBytes ==
  /\ \A m \in OtherFields["client_hello"] :
       ClientHelloSerialize(m).ok => ClientHelloSerialize(m).bytes \in Bytes
  /\ \A m \in OtherFields["server_hello"] :
       ServerHelloSerialize(m).ok => ServerHelloSerialize(m).bytes \in Bytes
  /\ EncryptedExtensionsSerialize.ok => EncryptedExtensionsSerialize.bytes \in Bytes
  /\ \A m \in OtherFields["certificate"] :
       CertificateSerialize(m.certs).ok => CertificateSerialize(m.certs).bytes \in Bytes
<1>1. ASSUME NEW m \in OtherFields["client_hello"], ClientHelloSerialize(m).ok
      PROVE  ClientHelloSerialize(m).bytes \in Bytes
  <2>1. /\ m.random \in Bytes
        /\ \E suites \in Bytes, exts \in Bytes :
             ClientHelloSerialize(m) = Written(HelloBytes(m.random, <<>>, <<>>, suites, exts))
    BY OwnClientHelloIs, Zenon
  <2>2. PICK suites \in Bytes, exts \in Bytes :
          ClientHelloSerialize(m) = Written(HelloBytes(m.random, <<>>, <<>>, suites, exts))
    BY <2>1, Zenon
  <2>3. HelloBytes(m.random, <<>>, <<>>, suites, exts) \in Bytes
    BY <2>1, EmptyType, HelloType, Zenon
  <2> QED
    BY <1>1, <2>2, <2>3, WrittenBytes, Zenon
<1>2. ASSUME NEW m \in OtherFields["server_hello"], ServerHelloSerialize(m).ok
      PROVE  ServerHelloSerialize(m).bytes \in Bytes
  <2>1. /\ m.random \in Bytes
        /\ \E exts \in Bytes :
             ServerHelloSerialize(m) = Written(ServerBytes(m.random, <<>>, Suite, exts))
    BY OwnServerHelloIs, Zenon
  <2>2. PICK exts \in Bytes :
          ServerHelloSerialize(m) = Written(ServerBytes(m.random, <<>>, Suite, exts))
    BY <2>1, Zenon
  <2>3. ServerBytes(m.random, <<>>, Suite, exts) \in Bytes
    BY <2>1, CodePoints, EmptyType, ServerType, Zenon
  <2> QED
    BY <1>2, <2>2, <2>3, WrittenBytes, Zenon
<1>3. EncryptedExtensionsSerialize.ok => EncryptedExtensionsSerialize.bytes \in Bytes
  <2>1. 2 \in Nat /\ 0 \in Nat
    OBVIOUS
  <2>2. Put(2, 0) \in Bytes
    BY <2>1, PutBytes, Zenon
  <2> QED
    BY <2>2, WrittenBytes, Zenon DEF EncryptedExtensionsSerialize
<1>4. ASSUME NEW m \in OtherFields["certificate"], CertificateSerialize(m.certs).ok
      PROVE  CertificateSerialize(m.certs).bytes \in Bytes
  <2> DEFINE body == CertBody(m.certs)
             e == Prefixed(1, <<>>) \o Prefixed(3, body)
  <2>1. m.certs \in Seq(Octets)
    <3>1. m \in [certs : Seq(Octets)]
      BY OtherFieldsOf, Zenon
    <3> QED
      BY <3>1
  <2>2. body \in Bytes /\ 1 \in Nat /\ 3 \in Nat
    BY <2>1, CertBodyType
  <2>3. CertificateSerialize(m.certs) = Written(e)
    BY <1>4, RejectedNotOk, Zenon DEF CertificateSerialize, CertBody
  <2> HIDE DEF body
  <2>4. Prefixed(1, <<>>) \in Bytes /\ Prefixed(3, body) \in Bytes
    BY <2>2, EmptyType, PrefixedType, Zenon
  <2>5. e \in Bytes
    BY <2>4, JoinBytes, Zenon
  <2> HIDE DEF e
  <2> QED
    BY <1>4, <2>3, <2>5, WrittenBytes, Zenon
<1> QED
  BY <1>1, <1>2, <1>3, <1>4

\* What other implementations send is numbers.
LEMMA PeerBytes ==
  /\ \A m \in OtherFields["peer_client_hello"] : PeerClientHello(m) \in Bytes
  /\ \A m \in OtherFields["peer_server_hello"] : PeerServerHello(m) \in Bytes
  /\ \A m \in OtherFields["signature"] :
       SignatureSerialize(m).ok => SignatureSerialize(m).bytes \in NatSeq
  /\ \A m \in OtherFields["x509"] :
       SignatureSerialize(m).ok => IssuedCertificate(m) \in NatSeq
<1>1. ASSUME NEW m \in OtherFields["peer_client_hello"] PROVE PeerClientHello(m) \in Bytes
  <2>1. /\ m.random \in Bytes /\ m.sid \in Bytes /\ m.cookie \in Bytes
        /\ \E suites \in Bytes, exts \in Bytes :
             PeerClientHello(m) = HelloBytes(m.random, m.sid, m.cookie, suites, exts)
    BY PeerClientHelloIs, Zenon
  <2>2. PICK suites \in Bytes, exts \in Bytes :
          PeerClientHello(m) = HelloBytes(m.random, m.sid, m.cookie, suites, exts)
    BY <2>1, Zenon
  <2>3. m.random \in Bytes /\ m.sid \in Bytes /\ m.cookie \in Bytes
    BY <2>1, Zenon
  <2>4. HelloBytes(m.random, m.sid, m.cookie, suites, exts) \in Bytes
    BY <2>3, HelloType
  <2> QED
    BY <2>2, <2>4
<1>2. ASSUME NEW m \in OtherFields["peer_server_hello"] PROVE PeerServerHello(m) \in Bytes
  <2>1. /\ m.random \in Bytes /\ m.sid \in Bytes
        /\ \E suite \in Nat, exts \in Bytes :
             PeerServerHello(m) = ServerBytes(m.random, m.sid, suite, exts)
    BY PeerServerHelloIs, Zenon
  <2> QED
    BY <2>1, ServerType, Zenon
<1>3. ASSUME NEW m \in OtherFields["signature"], SignatureSerialize(m).ok
      PROVE  SignatureSerialize(m).bytes \in NatSeq
  <2>1. m \in [r : Blob(ScalarLen), s : Blob(ScalarLen)]
    BY OtherFieldsOf, Zenon
  <2>2. \E body \in Seq(Nat) : SignatureSerialize(m).bytes = Tlv(SEQUENCE, body)
    BY <1>3, <2>1, SignatureTlv
  <2> QED
    BY <2>2, DerParts, TlvNumbers, Zenon DEF NatSeq
<1>4. ASSUME NEW m \in OtherFields["x509"], SignatureSerialize(m).ok
      PROVE  IssuedCertificate(m) \in NatSeq
  <2>1. \E body \in Seq(Nat) : IssuedCertificate(m) = Tlv(SEQUENCE, body)
    BY <1>4, CertificateTlv, Zenon
  <2> QED
    BY <2>1, DerParts, TlvNumbers, Zenon DEF NatSeq
<1> QED
  BY <1>1, <1>2, <1>3, <1>4

\* Every message has a format with a type, and its lengths fit.
LEMMA SampleType ==
  ASSUME NEW f \in DOMAIN Sample, NEW m \in Sample[f]
  PROVE  /\ LengthsFit(f, m)
         /\ \/ f \in OneEncoding /\ m \in Fields[f]
            \/ f \in DOMAIN OtherFields /\ m \in OtherFields[f]
<1>1. LengthsFit(f, m)
  BY LengthAssumption
<1>2. CASE f \in DOMAIN Fields
  BY <1>1, <1>2, WireAssumption, CanonicalFormats, Zenon
<1>3. CASE f \in DOMAIN OtherFields
  BY <1>1, <1>3, WireAssumption, Zenon
<1> QED
  BY <1>2, <1>3, WireAssumption, Zenon

\* Whatever is sent is a sequence of numbers.
LEMMA SentNumbers ==
  ASSUME NEW f \in DOMAIN Sample, NEW m \in Sample[f], Serialize(f, m).ok
  PROVE  Serialize(f, m).bytes \in Seq(Nat)
<1> DEFINE e == Serialize(f, m).bytes
<1>0. \A b \in Bytes : b \in NatSeq
  BY BytesNat DEF NatSeq
<1>1. CASE f \in OneEncoding
  BY <1>1, SentBytes, BytesNat
<1>2. CASE f \in DOMAIN OtherFields /\ m \in OtherFields[f]
  <2>1. CASE f = "client_hello"
    BY <1>0, <1>2, <2>1, SerializeOther, OwnBytes, Zenon DEF NatSeq
  <2>2. CASE f = "server_hello"
    BY <1>0, <1>2, <2>2, SerializeOther, OwnBytes, Zenon DEF NatSeq
  <2>3. CASE f = "extensions"
    BY <1>0, <1>2, <2>3, SerializeOther, OwnBytes, Zenon DEF NatSeq
  <2>4. CASE f = "certificate"
    BY <1>0, <1>2, <2>4, SerializeOther, OwnBytes, Zenon DEF NatSeq
  <2>5. CASE f = "signature"
    BY <1>2, <2>5, SerializeOther, PeerBytes, Zenon DEF NatSeq
  <2>6. CASE f = "peer_client_hello"
    <3>1. e = PeerClientHello(m)
      BY <2>6, SerializeOther, ForeignIs, Zenon
    <3> QED
      BY <1>0, <1>2, <2>6, <3>1, PeerBytes, Zenon DEF NatSeq
  <2>7. CASE f = "peer_server_hello"
    <3>1. e = PeerServerHello(m)
      BY <2>7, SerializeOther, ForeignIs, Zenon
    <3> QED
      BY <1>0, <1>2, <2>7, <3>1, PeerBytes, Zenon DEF NatSeq
  <2>8. CASE f = "x509"
    <3>1. e = IssuedCertificate(m)
      BY <2>8, SerializeOther, ForeignIs, Zenon
    <3>2. SignatureSerialize(m).ok
      BY <2>8, SampleType DEF LengthsFit
    <3> QED
      BY <1>2, <2>8, <3>1, <3>2, PeerBytes, Zenon DEF NatSeq
  <2>9. CASE f = "der"
    <3>1. e = <<>>
      BY <2>9, DerForeign, ForeignIs, Zenon
    <3> QED
      BY <3>1
  <2> QED
    BY <1>2, <2>1, <2>2, <2>3, <2>4, <2>5, <2>6, <2>7, <2>8, <2>9, OtherFormats, Zenon
<1> QED
  BY <1>1, <1>2, SampleType, Zenon

\* Every parser refuses part of what was sent, unless it is a record without a
\* length.
LEMMA SentPart ==
  ASSUME NEW f \in DOMAIN Sample, NEW m \in Sample[f], Serialize(f, m).ok, f # "der",
         NEW w \in Seq(Nat), IsStrictPrefix(w, Serialize(f, m).bytes), Parse(f, w).ok
  PROVE  f = "unified" /\ ~Parse(f, w).len_present
<1>1. CASE f \in OneEncoding /\ m \in Fields[f]
  <2>1. CASE f = "plaintext"
    BY <1>1, <2>1, SerializeOf, ParseOf, PlaintextPart, Zenon
  <2>2. CASE f = "handshake"
    BY <1>1, <2>2, SerializeOf, ParseOf, HandshakePart, Zenon
  <2>3. CASE f = "unified"
    BY <1>1, <2>3, SerializeOf, ParseOf, SampleType, UnifiedPart, Zenon
  <2>4. CASE f = "record"
    BY <1>1, <2>4, SerializeOf, ParseOf, SampleType, RecordPart, Zenon
  <2>5. CASE f = "ack"
    BY <1>1, <2>5, SerializeOf, ParseOf, AckPart, Zenon
  <2>6. CASE f = "verify"
    BY <1>1, <2>6, SerializeOf, ParseOf, VerifyPart, Zenon
  <2> QED
    BY <1>1, <2>1, <2>2, <2>3, <2>4, <2>5, <2>6, Zenon DEF OneEncoding
<1>2. CASE f \in DOMAIN OtherFields /\ m \in OtherFields[f]
  <2>1. CASE f = "client_hello"
    BY <1>2, <2>1, SerializeOther, ParseOther, OwnClientHelloPart, Zenon
  <2>2. CASE f = "server_hello"
    BY <1>2, <2>2, SerializeOther, ParseOther, OwnServerHelloPart, Zenon
  <2>3. CASE f = "extensions"
    BY <1>2, <2>3, SerializeOther, ParseOther, ExtensionsPart, Zenon
  <2>4. CASE f = "certificate"
    BY <1>2, <2>4, SerializeOther, ParseOther, CertificatePart, Zenon
  <2>5. CASE f = "signature"
    BY <1>2, <2>5, SerializeOther, ParseOther, SignaturePart, Zenon
  <2>6. CASE f = "peer_client_hello"
    <3>1. IsStrictPrefix(w, PeerClientHello(m))
      BY <2>6, SerializeOther, ForeignIs, Zenon
    <3> QED
      BY <1>2, <2>6, <3>1, ParseOther, SampleType, PeerClientHelloPart, Zenon
  <2>7. CASE f = "peer_server_hello"
    <3>1. IsStrictPrefix(w, PeerServerHello(m))
      BY <2>7, SerializeOther, ForeignIs, Zenon
    <3> QED
      BY <1>2, <2>7, <3>1, ParseOther, SampleType, PeerServerHelloPart, Zenon
  <2>8. CASE f = "x509"
    <3>1. IsStrictPrefix(w, IssuedCertificate(m))
      BY <2>8, SerializeOther, ForeignIs, Zenon
    <3> QED
      BY <1>2, <2>8, <3>1, ParseOther, SampleType, X509Part, Zenon
  <2> QED
    BY <1>2, <2>1, <2>2, <2>3, <2>4, <2>5, <2>6, <2>7, <2>8, OtherFormats, Zenon
<1> QED
  BY <1>1, <1>2, SampleType, Zenon

\* Between messages there is no result.  The message under way is one of the
\* samples and was written, its bytes are numbers, however it was damaged, and
\* what was returned is what the parser makes of them.
PartInv ==
  /\ format = Idle => got = Pending
  /\ format # Idle =>
       /\ format \in DOMAIN Sample /\ sent \in Sample[format] /\ Serialize(format, sent).ok
       /\ wire \in Seq(Nat)
       /\ got # Pending => got = Parse(format, wire)

\* At the start nothing is under way.
LEMMA PartInitInv == WireInit => PartInv
  BY DEF WireInit, PartInv

\* Damage makes other numbers of them.
LEMMA PartDamaged ==
  ASSUME PartInv, NEW b, Damaged(b), wire \in Seq(Nat) => b \in Seq(Nat)
  PROVE  PartInv'
<1>1. /\ format' = format /\ sent' = sent /\ got' = got /\ wire' = b
      /\ format # Idle /\ got = Pending
  BY DEF Damaged
<1> QED
  BY <1>1, Zenon DEF PartInv

\* Every step keeps the message one that was sent and the result the parser's.
LEMMA PartNextInv == PartInv /\ [WireNext]_wireVars => PartInv'
<1> SUFFICES ASSUME PartInv, [WireNext]_wireVars PROVE PartInv'
  OBVIOUS
<1>0. \A x \in NoiseByte : x \in Nat
  BY NoiseIsOctet, OctetIsNat
<1>1. ASSUME NEW f \in DOMAIN Sample, NEW m \in Sample[f], Send(f, m) PROVE PartInv'
  <2>1. /\ got = Pending /\ got' = got /\ format' = f /\ sent' = m
        /\ wire' = Serialize(f, m).bytes /\ Serialize(f, m).ok
    BY <1>1 DEF Send, PartInv
  <2>2. wire' \in Seq(Nat)
    BY <2>1, SentNumbers
  <2> QED
    BY <2>1, <2>2, Zenon DEF PartInv
<1>2. ASSUME NEW f \in DOMAIN Sample, NEW m \in Sample[f], SendRefused(f, m) PROVE PartInv'
  BY <1>2 DEF SendRefused, PartInv, wireVars
<1>3. ASSUME NEW k \in 0 .. Len(wire), Truncate(k) PROVE PartInv'
  <2> DEFINE b == SubSeq(wire, 1, k)
  <2>1. Damaged(b)
    BY <1>3 DEF Truncate
  <2>2. wire \in Seq(Nat) => b \in Seq(Nat)
    OBVIOUS
  <2> HIDE DEF b
  <2> QED
    BY <2>1, <2>2, PartDamaged
<1>4. ASSUME NEW i \in 1 .. Len(wire), NEW x \in NoiseByte, Overwrite(i, x) PROVE PartInv'
  <2> DEFINE b == [wire EXCEPT ![i] = x]
  <2>1. Damaged(b)
    BY <1>4 DEF Overwrite
  <2>2. wire \in Seq(Nat) => b \in Seq(Nat)
    BY <1>0
  <2> HIDE DEF b
  <2> QED
    BY <2>1, <2>2, PartDamaged
<1>5. ASSUME NEW x \in NoiseByte, Extend(x) PROVE PartInv'
  <2> DEFINE b == Append(wire, x)
  <2>1. Damaged(b)
    BY <1>5 DEF Extend
  <2>2. wire \in Seq(Nat) => b \in Seq(Nat)
    BY <1>0
  <2> HIDE DEF b
  <2> QED
    BY <2>1, <2>2, PartDamaged
<1>6. ASSUME NEW x \in NoiseByte, Grow(x) PROVE PartInv'
  <2>1. /\ format' = format /\ sent' = sent /\ got' = got /\ wire' = Append(wire, x)
        /\ format # Idle /\ got = Pending
    BY <1>6 DEF Grow, Idle
  <2>2. wire \in Seq(Nat) => Append(wire, x) \in Seq(Nat)
    BY <1>0
  <2> QED
    BY <2>1, <2>2, Zenon DEF PartInv
<1>7. CASE Receive
  BY <1>7, Zenon DEF Receive, PartInv
<1>8. CASE Done
  BY <1>8, Zenon DEF Done, PartInv
<1>9. CASE UNCHANGED wireVars
  BY <1>9 DEF PartInv, wireVars
<1> QED
  BY <1>1, <1>2, <1>3, <1>4, <1>5, <1>6, <1>7, <1>8, <1>9 DEF WireNext

\* Cut short anywhere, no message of any format is taken for a message: the
\* headers, the ACK, the handshake messages of this library and of another
\* implementation, the signature and the certificate.  Only a record that has
\* no length field can be.
THEOREM Wholeness == WireSpec => []NoPartialMessage
<1>1. PartInv => NoPartialMessage
  <2> SUFFICES ASSUME PartInv, Accepted, IsStrictPrefix(wire, Serialize(format, sent).bytes)
               PROVE  format = "unified" /\ ~got.len_present
    BY Zenon DEF NoPartialMessage
  <2>1. got # Pending /\ format # "der" /\ got.ok
    BY Zenon DEF Accepted, Received
  <2>2. format # Idle
    BY <2>1, Zenon DEF PartInv
  <2>3. /\ format \in DOMAIN Sample /\ sent \in Sample[format] /\ Serialize(format, sent).ok
        /\ wire \in Seq(Nat) /\ got = Parse(format, wire)
    BY <2>1, <2>2, Zenon DEF PartInv
  <2> QED
    BY <2>1, <2>3, SentPart, Zenon
<1> QED
  BY <1>1, PartInitInv, PartNextInv, PTL DEF WireSpec
=============================================================================
