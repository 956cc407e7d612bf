------------------------- MODULE RecordLayer_proofs -------------------------
(***************************************************************************)
(* The reconstruction of sequence numbers and epochs (src/record.c) and    *)
(* the record layer that uses it (src/record_protect.c), for every width   *)
(* of the number on the wire, every ceiling and every number of records.   *)
(***************************************************************************)
EXTENDS RecordLayer, NumberLemmas

\* The records on the network carry an epoch and a number.
SentTyped == sent \subseteq [epoch : Epochs, n : Nat]

IInv == TypeOK /\ SentTyped /\ HighestIsNewest

-----------------------------------------------------------------------------
(* Arithmetic: numbers as whole windows and a rest.                        *)

\* The window that a number below the ceiling lies in is below the ceiling
\* as a whole.
LEMMA WholeWindow ==
  ASSUME NEW w \in Nat \ {0}, NEW ceiling \in Nat, (ceiling + 1) % w = 0,
         NEW known \in 0 .. ceiling
  PROVE  /\ known - (known % w) \in Nat
         /\ known - (known % w) + w <= ceiling + 1
<1> DEFINE k == known \div w
           m == (ceiling + 1) \div w
<1>1. known % w \in 0 .. w - 1 /\ k \in Int /\ known = w * k + (known % w)
  BY Rest
<1>2. m \in Int /\ ceiling + 1 = w * m
  BY Rest
<1> HIDE DEF k, m
<1>3. k < m
  <2>1. CASE m <= k
    <3>1. w * m <= w * k
      BY <1>1, <1>2, <2>1, TimesMonotonic
    <3> QED
      BY <1>1, <1>2, <3>1
  <2> QED
    BY <2>1, <1>1, <1>2
<1>4. w * (k + 1) <= w * m
  BY <1>1, <1>2, <1>3, TimesMonotonic
<1>5. 0 <= k
  <2>1. CASE k <= -1
    <3>1. w * k <= w * (-1)
      BY <1>1, <2>1, TimesMonotonic
    <3> QED
      BY <1>1, <3>1
  <2> QED
    BY <2>1, <1>1
<1>6. w * 0 <= w * k
  BY <1>1, <1>5, TimesMonotonic
<1>7. w * (k + 1) = w * k + w /\ w * k \in Int
  BY <1>1
<1> QED
  BY <1>1, <1>2, <1>4, <1>6, <1>7

\* A number less than half a window from a known one lies in the same window
\* or in a neighbouring one.
LEMMA NeighbouringWindow ==
  ASSUME NEW w \in Nat \ {0}, NEW known \in Nat, NEW n \in Nat,
         2 * (n - known) < w, 2 * (known - n) < w
  PROVE  LET base == known - (known % w)
         IN  n \in {base - w + (n % w), base + (n % w), base + w + (n % w)}
<1> DEFINE k == known \div w
           q == n \div w
           s == known % w
           r == n % w
<1>1. s \in 0 .. w - 1 /\ k \in Int /\ known = w * k + s
  BY Rest
<1>2. r \in 0 .. w - 1 /\ q \in Int /\ n = w * q + r
  BY Rest
<1> HIDE DEF k, q, s, r
<1>4. q <= k + 1
  <2>1. CASE k + 2 <= q
    <3>1. w * (k + 2) <= w * q
      BY <1>1, <1>2, <2>1, TimesMonotonic
    <3>2. w * (k + 2) = w * k + 2 * w /\ w * k \in Int /\ w * q \in Int
      BY <1>1, <1>2
    <3> QED
      BY <1>1, <1>2, <3>1, <3>2
  <2> QED
    BY <2>1, <1>1, <1>2
<1>5. k <= q + 1
  <2>1. CASE q + 2 <= k
    <3>1. w * (q + 2) <= w * k
      BY <1>1, <1>2, <2>1, TimesMonotonic
    <3>2. w * (q + 2) = w * q + 2 * w /\ w * k \in Int /\ w * q \in Int
      BY <1>1, <1>2
    <3> QED
      BY <1>1, <1>2, <3>1, <3>2
  <2> QED
    BY <2>1, <1>1, <1>2
<1>6. q = k - 1 \/ q = k \/ q = k + 1
  BY <1>1, <1>2, <1>4, <1>5
<1>7. w * (k - 1) = w * k - w /\ w * (k + 1) = w * k + w /\ w * k \in Int
  BY <1>1
<1>8. n \in {w * k - w + r, w * k + r, w * k + w + r}
  BY <1>2, <1>6, <1>7
<1>9. known - s = w * k
  BY <1>1, <1>7
<1> QED
  BY <1>8, <1>9 DEF s, r

-----------------------------------------------------------------------------
(* nd_reconstruct_sequence_number                                          *)

\* Of three candidates a window apart, the one less than half a window from
\* the known number is chosen.
LEMMA NearestCandidate ==
  ASSUME NEW w \in Nat \ {0}, NEW ceiling \in Nat, NEW known \in 0 .. ceiling,
         NEW base \in Nat, base + w <= ceiling + 1, NEW r \in 0 .. w - 1,
         NEW n \in 0 .. ceiling, n \in {base - w + r, base + r, base + w + r},
         2 * Distance(n, known) < w
  PROVE  Nearer(known, ceiling, Nearer(known, ceiling, base + r, base - w + r), base + w + r) = n
<1>1. CASE n = base - w + r
  <2>1. Nearer(known, ceiling, base + r, base - w + r) = n
    BY <1>1 DEF Nearer, Distance
  <2>2. Nearer(known, ceiling, n, base + w + r) = n
    BY <1>1 DEF Nearer, Distance
  <2> QED
    BY <2>1, <2>2
<1>2. CASE n = base + r
  <2>1. Nearer(known, ceiling, base + r, base - w + r) = n
    BY <1>2 DEF Nearer, Distance
  <2>2. Nearer(known, ceiling, n, base + w + r) = n
    BY <1>2 DEF Nearer, Distance
  <2> QED
    BY <2>1, <2>2
<1>3. CASE n = base + w + r
  <2>1. Nearer(known, ceiling, base + r, base - w + r) \in {base + r, base - w + r}
    BY DEF Nearer
  <2>2. ASSUME NEW b \in {base + r, base - w + r}, b >= 0 PROVE Nearer(known, ceiling, b, n) = n
    BY <1>3, <2>2 DEF Nearer, Distance
  <2>3. Nearer(known, ceiling, base + r, base - w + r) >= 0
    BY DEF Nearer
  <2> QED
    BY <1>3, <2>1, <2>2, <2>3
<1> QED
  BY <1>1, <1>2, <1>3

\* What is reconstructed is always a number of 48 bits.
LEMMA SequenceInRange ==
  ASSUME NEW known \in 0 .. MaxSeq, NEW wire \in 0 .. Window - 1
  PROVE  ReconstructSequence(known, wire) \in 0 .. MaxSeq
<1> DEFINE base == known - (known % Window)
<1>1. Window \in Nat \ {0} /\ MaxSeq \in Nat /\ (MaxSeq + 1) % Window = 0
  BY RecordAssumption
<1>2. base \in Nat /\ base + Window <= MaxSeq + 1
  BY <1>1, WholeWindow
<1> HIDE DEF base
<1> DEFINE below == Nearer(known, MaxSeq, base + wire, base - Window + wire)
<1>3. base + wire \in 0 .. MaxSeq
  BY <1>1, <1>2
<1>4. below \in 0 .. MaxSeq
  BY <1>3 DEF Nearer
<1> HIDE DEF below
<1>5. Nearer(known, MaxSeq, below, base + Window + wire) \in 0 .. MaxSeq
  BY <1>4 DEF Nearer
<1> QED
  BY <1>5 DEF ReconstructSequence, base, below

\* A number less than half a window from the known one is reconstructed.
LEMMA SequenceExact ==
  ASSUME NEW known \in 0 .. MaxSeq, NEW n \in 0 .. MaxSeq,
         2 * Distance(n, known) < Window
  PROVE  ReconstructSequence(known, n % Window) = n
<1> DEFINE base == known - (known % Window)
           r == n % Window
<1>1. Window \in Nat \ {0} /\ MaxSeq \in Nat /\ (MaxSeq + 1) % Window = 0
  BY RecordAssumption
<1>2. base \in Nat /\ base + Window <= MaxSeq + 1
  BY <1>1, WholeWindow
<1>3. r \in 0 .. Window - 1
  BY <1>1, Rest
<1>4. n \in {base - Window + r, base + r, base + Window + r}
  <2>1. 2 * (n - known) < Window /\ 2 * (known - n) < Window
    BY <1>1 DEF Distance
  <2> QED
    BY <1>1, <2>1, NeighbouringWindow
<1>5. ReconstructSequence(known, r) =
        Nearer(known, MaxSeq, Nearer(known, MaxSeq, base + r, base - Window + r), base + Window + r)
  BY DEF ReconstructSequence
<1> HIDE DEF base, r
<1>6. Nearer(known, MaxSeq, Nearer(known, MaxSeq, base + r, base - Window + r), base + Window + r) = n
  BY <1>1, <1>2, <1>3, <1>4, NearestCandidate
<1> QED
  BY <1>5, <1>6 DEF r

-----------------------------------------------------------------------------
(* nd_reconstruct_epoch                                                    *)

\* Of all epochs with the two low bits given, the nearest to the known one is
\* chosen, and the lower one of two as near.
LEMMA EpochNearest ==
  ASSUME NEW known \in 0 .. MaxEpoch, NEW low2 \in 0 .. 3
  PROVE  LET e == ReconstructEpoch(known, low2)
         IN  /\ e \in 0 .. MaxEpoch /\ e % 4 = low2
             /\ \A other \in 0 .. MaxEpoch :
                  other % 4 = low2 =>
                    \/ Distance(e, known) < Distance(other, known)
                    \/ Distance(e, known) = Distance(other, known) /\ e <= other
<1>1. MaxEpoch \in Nat /\ (MaxEpoch + 1) % 4 = 0
  BY RecordAssumption
<1> DEFINE base == known - (known % 4)
           below == Nearer(known, MaxEpoch, -1, base - 4 + low2)
           same == Nearer(known, MaxEpoch, below, base + low2)
           e == Nearer(known, MaxEpoch, same, base + 4 + low2)
<1>2. base \in Nat /\ base + 4 <= MaxEpoch + 1 /\ base % 4 = 0 /\ known - base \in 0 .. 3
  BY <1>1
<1> HIDE DEF base
<1>3. below = IF base >= 4 THEN base - 4 + low2 ELSE -1
  BY <1>1, <1>2 DEF Nearer
<1> HIDE DEF below
<1>4. same = IF base >= 4 /\ known - base + 2 <= low2 THEN base - 4 + low2 ELSE base + low2
  BY <1>1, <1>2, <1>3 DEF Nearer, Distance
<1> HIDE DEF same
<1>5. e = IF base >= 4 /\ known - base + 2 <= low2 THEN base - 4 + low2
          ELSE IF base + 4 + low2 <= MaxEpoch /\ low2 + 2 < known - base THEN base + 4 + low2
          ELSE base + low2
  BY <1>1, <1>2, <1>4 DEF Nearer, Distance
<1>6. e = ReconstructEpoch(known, low2)
  BY DEF ReconstructEpoch, e, same, below, base
<1> HIDE DEF e
<1>7. e \in 0 .. MaxEpoch /\ e % 4 = low2
  BY <1>1, <1>2, <1>5
<1>8. ASSUME NEW other \in 0 .. MaxEpoch, other % 4 = low2
      PROVE  \/ Distance(e, known) < Distance(other, known)
             \/ Distance(e, known) = Distance(other, known) /\ e <= other
  BY <1>1, <1>2, <1>5, <1>8 DEF Distance
<1> QED
  BY <1>6, <1>7, <1>8

\* The contexts' own epoch is reconstructed from its two low bits.
LEMMA OwnEpoch == ASSUME TypeOK PROVE ReconstructEpoch(epoch, epoch % 4) = epoch
<1>1. epoch \in 0 .. MaxEpoch /\ MaxEpoch \in Nat
  BY RecordAssumption DEF TypeOK
<1>2. epoch % 4 \in 0 .. 3
  BY <1>1
<1> DEFINE e == ReconstructEpoch(epoch, epoch % 4)
<1>3. /\ e \in 0 .. MaxEpoch
      /\ Distance(e, epoch) < Distance(epoch, epoch) \/ Distance(e, epoch) = Distance(epoch, epoch)
  BY <1>1, <1>2, EpochNearest
<1> HIDE DEF e
<1>4. e = epoch
  BY <1>1, <1>3 DEF Distance
<1> QED
  BY <1>4 DEF e

-----------------------------------------------------------------------------
LEMMA InitIInv == Init => IInv
<1> SUFFICES ASSUME Init PROVE IInv
  OBVIOUS
<1>1. sent \subseteq [epoch : Epochs, n : Nat]
  BY DEF Init
<1> QED
  BY <1>1, RecordAssumption DEF Init, IInv, TypeOK, SentTyped, HighestIsNewest

LEMMA NextIInv == IInv /\ [Next]_vars => IInv'
<1> SUFFICES ASSUME IInv, [Next]_vars PROVE IInv'
  OBVIOUS
<1> USE DEF IInv
<1>a. Window \in Nat \ {0} /\ MaxSeq \in Nat /\ MaxSent \in Nat
  BY RecordAssumption
<1>1. CASE Protect
  <2>1. next_send \in Nat /\ next_send < MaxSent
    BY <1>1 DEF Protect, TypeOK
  <2>2. SentTyped'
    BY <1>1, <2>1 DEF Protect, TypeOK, SentTyped
  <2>3. TypeOK' /\ HighestIsNewest'
    BY <1>1, <1>a DEF Protect, TypeOK, HighestIsNewest
  <2> QED
    BY <2>2, <2>3
<1>2. ASSUME NEW d \in sent, Opens(d) PROVE IInv'
  <2>1. d.n \in Int
    BY DEF SentTyped
  <2>2. d.n % Window \in 0 .. Window - 1
    BY <2>1, <1>a, Rest
  <2>3. Tried(d) \in 0 .. MaxSeq
    BY <2>2, SequenceInRange DEF Tried, TypeOK
  <2>4. Tried(d) = d.n
    BY <1>2 DEF Opens, Authentic
  <2>5. /\ opened' = opened \cup {d.n}
        /\ highest' = IF d.n > highest THEN d.n ELSE highest
        /\ UNCHANGED <<epoch, next_send, sent>>
    BY <1>2, <2>4 DEF Opens
  <2>6. d.n \in 0 .. MaxSeq
    BY <2>3, <2>4
  <2>7. TypeOK' /\ SentTyped'
    BY <2>5, <2>6 DEF TypeOK, SentTyped
  <2>8. HighestIsNewest'
    BY <2>5, <2>6, <1>a DEF HighestIsNewest, TypeOK
  <2> QED
    BY <2>7, <2>8
<1>3. ASSUME NEW d \in sent, UnprotectRejects(d) \/ UnprotectUnusable(d) PROVE IInv'
  BY <1>3 DEF UnprotectRejects, UnprotectUnusable, vars, TypeOK, SentTyped, HighestIsNewest
<1>4. CASE UNCHANGED vars
  BY <1>4 DEF vars, TypeOK, SentTyped, HighestIsNewest
<1> QED
  BY <1>1, <1>2, <1>3, <1>4 DEF Next, Unprotect

\* Every reachable state has its types, and the reference number is that of
\* the newest record opened.
THEOREM Invariance == Spec => []IInv
  BY InitIInv, NextIInv, PTL DEF Spec

\* No number above the ceiling ever opens or becomes the reference, although
\* nd_record_protect does not stop there.
THEOREM Typing == Spec => []TypeOK
<1>1. IInv => TypeOK
  BY DEF IInv
<1> QED
  BY Invariance, <1>1, PTL

\* Records that do not open leave highest_seen_sequence alone.
THEOREM Newest == Spec => []HighestIsNewest
<1>1. IInv => HighestIsNewest
  BY DEF IInv
<1> QED
  BY Invariance, <1>1, PTL

\* For every wire width, a record less than half a window early or late opens.
THEOREM HalfWindow == Spec => []HalfWindowOpens
<1>1. IInv => HalfWindowOpens
  <2> SUFFICES ASSUME IInv, NEW d \in sent, d.epoch = epoch, d.n <= MaxSeq,
                      2 * Distance(d.n, highest) < Window
               PROVE  Authentic(d)
    BY DEF HalfWindowOpens
  <2>1. d.n \in 0 .. MaxSeq /\ highest \in 0 .. MaxSeq
    BY RecordAssumption DEF IInv, TypeOK, SentTyped
  <2>2. Tried(d) = d.n
    BY <2>1, SequenceExact DEF Tried
  <2> QED
    BY <2>2, OwnEpoch DEF Authentic, IInv
<1> QED
  BY Invariance, <1>1, PTL

\* For every ceiling, the epoch reconstructed is the nearest one.
THEOREM EpochReconstruction == Spec => []EpochIsNearest
<1>1. IInv => EpochIsNearest
  <2>1. IInv => epoch \in 0 .. MaxEpoch
    BY RecordAssumption DEF IInv, TypeOK
  <2> QED
    BY <2>1, EpochNearest DEF EpochIsNearest
<1> QED
  BY Invariance, <1>1, PTL
=============================================================================
