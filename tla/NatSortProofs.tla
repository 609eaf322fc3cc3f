--------------------------- MODULE NatSortProofs ----------------------------
(***************************************************************************)
(* The order of interface names is a strict total order of all names, of   *)
(* any length: proofs about module NatSort.  The loop of natCompare is a   *)
(* recursive function; what it returns is shown by induction, which is the *)
(* least-number principle applied to a set of positions.                   *)
(***************************************************************************)
EXTENDS NatSort, WellFoundedInduction, SequenceTheorems, TLAPS

----------------------------------------------------------------------------
(* Induction.                                                              *)

\* A set of natural numbers that is not empty has a least element.
LEMMA Least ==
  ASSUME NEW T, T \subseteq Nat, T # {}
  PROVE  \E n \in T : \A m \in T : n <= m
<1> DEFINE R == OpToRel(<, Nat)
<1>1. IsWellFoundedOn(R, Nat)
  BY NatLessThanWellFounded, Zenon
<1>2. \A k, l \in Nat : k < l => <<k, l>> \in R
  BY DEF OpToRel
<1> HIDE DEF R
<1>3. PICK n \in T : \A m \in T : <<m, n>> \notin R
  BY <1>1, WFMin
<1>4. ASSUME NEW m \in T PROVE n <= m
  <2>1. n \in Nat /\ m \in Nat
    OBVIOUS
  <2>2. ~(m < n)
    BY <1>2, <1>3, <2>1, Zenon
  <2> QED
    BY <2>1, <2>2
<1> QED
  BY <1>4

\* Induction over positions from the first to the last.
LEMMA Forward ==
  ASSUME NEW N \in Nat, NEW S,
         \A i \in 0..N : (\A j \in 0..(i - 1) : j \in S) => i \in S
  PROVE  0..N \subseteq S
<1> SUFFICES ASSUME ~(0..N \subseteq S) PROVE FALSE
  OBVIOUS
<1> DEFINE T == {i \in 0..N : i \notin S}
<1>1. T \subseteq Nat /\ T # {}
  OBVIOUS
<1> HIDE DEF T
<1>2. PICK i \in T : \A j \in T : i <= j
  BY <1>1, Least
<1> QED
  BY <1>2 DEF T

\* Induction over positions from the last to the first.
LEMMA Backward ==
  ASSUME NEW N \in Nat, NEW S,
         \A i \in 0..N : (\A j \in (i + 1)..N : j \in S) => i \in S
  PROVE  0..N \subseteq S
<1> DEFINE U == {i \in 0..N : N - i \in S}
<1>1. ASSUME NEW i \in 0..N, \A j \in 0..(i - 1) : j \in U PROVE i \in U
  <2>1. ASSUME NEW j \in ((N - i) + 1)..N PROVE j \in S
    <3>1. N - j \in 0..(i - 1)
      OBVIOUS
    <3>2. N - j \in U /\ N - (N - j) = j
      BY <1>1, <3>1
    <3> QED
      BY <3>2
  <2> QED
    BY <2>1
<1>2. 0..N \subseteq U
  <2> HIDE DEF U
  <2> QED
    BY <1>1, Forward
<1>3. ASSUME NEW i \in 0..N PROVE i \in S
  <2>1. N - i \in 0..N /\ N - (N - i) = i
    OBVIOUS
  <2> QED
    BY <1>2, <2>1
<1> QED
  BY <1>3

----------------------------------------------------------------------------
(* strconv.Atoi.                                                           *)

\* The function that Digits takes from its equation exists.
LEMMA DigitsEquation ==
  ASSUME NEW s \in Seq(Nat)
  PROVE  Digits(s) = [n \in 0..Len(s) |->
           IF n = 0 THEN 0 ELSE 10 * Digits(s)[n - 1] + (s[n] - 48)]
<1> DEFINE Upto(f, n) ==
             f = [i \in 0..n |->
                    IF i = 0 THEN 0 ELSE 10 * f[i - 1] + (s[i] - 48)]
<1> DEFINE S == {n \in 0..Len(s) : \E f : Upto(f, n)}
<1>1. ASSUME NEW n \in 0..Len(s), \A j \in 0..(n - 1) : j \in S PROVE n \in S
  <2>1. CASE n = 0
    <3>1. Upto([i \in 0..0 |-> 0], 0)
      OBVIOUS
    <3> QED
      BY <2>1, <3>1
  <2>2. CASE n # 0
    <3>1. n - 1 \in 0..(n - 1) /\ n \in Nat /\ n - 1 \in Nat
      BY <2>2
    <3>2. PICK f : Upto(f, n - 1)
      BY <1>1, <3>1
    <3> DEFINE h == [i \in 0..n |->
                       IF i = n THEN 10 * f[n - 1] + (s[n] - 48) ELSE f[i]]
    <3>3. ASSUME NEW i \in 0..n
          PROVE  h[i] = IF i = 0 THEN 0 ELSE 10 * h[i - 1] + (s[i] - 48)
      BY <2>2, <3>2
    <3>4. Upto(h, n)
      BY <3>3
    <3> QED
      BY <3>4
  <2> QED
    BY <2>1, <2>2
<1>2. 0..Len(s) \subseteq S
  <2>1. Len(s) \in Nat
    OBVIOUS
  <2> HIDE DEF S
  <2> QED
    BY <1>1, <2>1, Forward
<1>3. PICK f : Upto(f, Len(s))
  BY <1>2
<1> QED
  BY <1>3 DEF Digits

\* strconv.Atoi gives an integer.
LEMMA AtoiType == ASSUME NEW s \in Seq(Nat) PROVE Atoi(s) \in Int
<1> DEFINE S == {n \in 0..Len(s) : Digits(s)[n] \in Int}
<1>1. ASSUME NEW n \in 0..Len(s), \A j \in 0..(n - 1) : j \in S PROVE n \in S
  <2>1. Digits(s)[n] =
          IF n = 0 THEN 0 ELSE 10 * Digits(s)[n - 1] + (s[n] - 48)
    BY DigitsEquation
  <2>2. n # 0 => Digits(s)[n - 1] \in Int /\ s[n] \in Nat
    BY <1>1
  <2> QED
    BY <2>1, <2>2
<1>2. 0..Len(s) \subseteq S
  <2>1. Len(s) \in Nat
    OBVIOUS
  <2> HIDE DEF S
  <2> QED
    BY <1>1, <2>1, Forward
<1> QED
  BY <1>2 DEF Atoi

----------------------------------------------------------------------------
(* strings.Compare.                                                        *)

\* The first position where s and t differ.
FirstDiff(s, t, i) ==
  /\ i \in 1..Len(s) \intersect 1..Len(t)
  /\ s[i] # t[i]
  /\ \A j \in 1..(i - 1) : s[j] = t[j]

\* s comes before t in the order of strings.
Before(s, t) ==
  \/ /\ Len(s) < Len(t)
     /\ \A j \in 1..Len(s) : s[j] = t[j]
  \/ \E i : FirstDiff(s, t, i) /\ s[i] < t[i]

\* Two strings are equal, one is shorter, or there is a first difference.
LEMMA DiffCases ==
  ASSUME NEW s \in Seq(Nat), NEW t \in Seq(Nat), s # t
  PROVE  \/ Len(s) # Len(t) /\ \A j \in 1..Len(s) \intersect 1..Len(t) :
                                  s[j] = t[j]
         \/ \E i : FirstDiff(s, t, i)
<1> DEFINE D == {i \in 1..Len(s) \intersect 1..Len(t) : s[i] # t[i]}
<1>1. CASE D = {}
  <2>1. Len(s) # Len(t)
    BY <1>1, SeqEqual
  <2> QED
    BY <1>1, <2>1
<1>2. CASE D # {}
  <2>1. D \subseteq Nat
    OBVIOUS
  <2>2. PICK i \in D : \A j \in D : i <= j
    <3> HIDE DEF D
    <3> QED
      BY <1>2, <2>1, Least
  <2>3. FirstDiff(s, t, i)
    BY <2>2 DEF FirstDiff
  <2> QED
    BY <2>3
<1> QED
  BY <1>1, <1>2

\* strings.Compare returns 0 for equal strings, -1 if the first one comes
\* before the second, and 1 otherwise.
LEMMA CompareIs ==
  ASSUME NEW s \in Seq(Nat), NEW t \in Seq(Nat)
  PROVE  /\ Compare(s, t) \in {-1, 0, 1}
         /\ Compare(s, t) = 0 <=> s = t
         /\ Compare(s, t) = -1 <=> Before(s, t)
<1> DEFINE D == {i \in 1..Len(s) \intersect 1..Len(t) : s[i] # t[i]}
           first == CHOOSE i \in D : \A j \in D : i <= j
<1>1. CASE s = t
  BY <1>1 DEF Compare, Before, FirstDiff
<1>2. CASE s # t /\ D = {}
  <2>1. Compare(s, t) = IF Len(s) < Len(t) THEN -1 ELSE 1
    BY <1>2 DEF Compare
  <2>2. ~\E i : FirstDiff(s, t, i)
    BY <1>2 DEF FirstDiff
  <2>3. \A j \in 1..Len(s) \intersect 1..Len(t) : s[j] = t[j]
    BY <1>2
  <2>4. ASSUME Len(s) < Len(t), NEW j \in 1..Len(s) PROVE s[j] = t[j]
    <3>1. j \in 1..Len(t)
      BY <2>4
    <3> QED
      BY <2>3, <3>1
  <2>5. Before(s, t) <=> Len(s) < Len(t)
    BY <2>2, <2>4 DEF Before
  <2> QED
    BY <1>2, <2>1, <2>5
<1>3. CASE s # t /\ D # {}
  <2>1. D \subseteq Nat
    OBVIOUS
  <2>2. first \in D /\ \A j \in D : first <= j
    <3> HIDE DEF D
    <3>1. \E i \in D : \A j \in D : i <= j
      BY <1>3, <2>1, Least
    <3> QED
      BY <3>1
  <2>3. Compare(s, t) = IF s[first] < t[first] THEN -1 ELSE 1
    BY <1>3 DEF Compare
  <2> HIDE DEF first
  <2>4. FirstDiff(s, t, first)
    <3>1. first \in 1..Len(s) \intersect 1..Len(t) /\ s[first] # t[first]
      BY <2>2
    <3>2. ASSUME NEW j \in 1..(first - 1) PROVE s[j] = t[j]
      <4>1. j \in 1..Len(s) \intersect 1..Len(t) /\ ~(first <= j)
        BY <3>1
      <4> QED
        BY <2>2, <4>1
    <3> QED
      BY <3>1, <3>2 DEF FirstDiff
  <2>5. \A i : FirstDiff(s, t, i) => i = first
    BY <2>4 DEF FirstDiff
  <2>6. Before(s, t) <=> s[first] < t[first]
    BY <2>4, <2>5 DEF Before, FirstDiff
  <2> QED
    BY <1>3, <2>3, <2>6
<1> QED
  BY <1>1, <1>2, <1>3

\* The order of strings is strict and total.
LEMMA BeforeTotal ==
  ASSUME NEW s \in Seq(Nat), NEW t \in Seq(Nat)
  PROVE  /\ Before(s, t) => ~Before(t, s)
         /\ s = t \/ Before(s, t) \/ Before(t, s)
         /\ ~Before(s, s)
<1>1. ~Before(s, s)
  BY DEF Before, FirstDiff
<1>2. ASSUME Before(s, t), Before(t, s) PROVE FALSE
  <2> DEFINE Short(a, b) == Len(a) < Len(b) /\ \A j \in 1..Len(a) : a[j] = b[j]
  <2>1. CASE Short(s, t)
    BY <1>2, <2>1 DEF Before, FirstDiff
  <2>2. CASE Short(t, s)
    BY <1>2, <2>2 DEF Before, FirstDiff
  <2>3. ASSUME NEW i, FirstDiff(s, t, i), s[i] < t[i],
               NEW k, FirstDiff(t, s, k), t[k] < s[k]
        PROVE  FALSE
    <3>1. i \in Nat /\ k \in Nat /\ s[i] \in Nat /\ t[i] \in Nat
      BY <2>3 DEF FirstDiff
    <3>2. ~(i < k) /\ ~(k < i)
      BY <2>3, <3>1 DEF FirstDiff
    <3> QED
      BY <2>3, <3>1, <3>2
  <2> QED
    BY <1>2, <2>1, <2>2, <2>3 DEF Before
<1>3. s = t \/ Before(s, t) \/ Before(t, s)
  <2> SUFFICES ASSUME s # t PROVE Before(s, t) \/ Before(t, s)
    OBVIOUS
  <2>1. ASSUME NEW i, FirstDiff(s, t, i) PROVE Before(s, t) \/ Before(t, s)
    <3>1. FirstDiff(t, s, i)
      BY <2>1 DEF FirstDiff
    <3>2. s[i] < t[i] \/ t[i] < s[i]
      BY <2>1 DEF FirstDiff
    <3> QED
      BY <2>1, <3>1, <3>2 DEF Before
  <2>2. CASE Len(s) # Len(t) /\ \A j \in 1..Len(s) \intersect 1..Len(t) :
                                   s[j] = t[j]
    BY <2>2 DEF Before
  <2> QED
    BY <2>1, <2>2, DiffCases
<1> QED
  BY <1>1, <1>2, <1>3

\* It is transitive.
LEMMA BeforeTransitive ==
  ASSUME NEW s \in Seq(Nat), NEW t \in Seq(Nat), NEW u \in Seq(Nat),
         Before(s, t), Before(t, u)
  PROVE  Before(s, u)
<1> DEFINE Short(a, b) == Len(a) < Len(b) /\ \A j \in 1..Len(a) : a[j] = b[j]
<1>1. CASE Short(s, t) /\ Short(t, u)
  BY <1>1 DEF Before
<1>2. ASSUME NEW k, Short(s, t), FirstDiff(t, u, k), t[k] < u[k]
      PROVE  Before(s, u)
  <2>1. CASE k <= Len(s)
    <3>1. FirstDiff(s, u, k) /\ s[k] < u[k]
      BY <1>2, <2>1 DEF FirstDiff
    <3> QED
      BY <3>1 DEF Before
  <2>2. CASE k > Len(s)
    BY <1>2, <2>2 DEF Before, FirstDiff
  <2> QED
    BY <1>2, <2>1, <2>2 DEF FirstDiff
<1>3. ASSUME NEW i, FirstDiff(s, t, i), s[i] < t[i], Short(t, u)
      PROVE  Before(s, u)
  <2>1. FirstDiff(s, u, i) /\ s[i] < u[i]
    BY <1>3 DEF FirstDiff
  <2> QED
    BY <2>1 DEF Before
<1>4. ASSUME NEW i, FirstDiff(s, t, i), s[i] < t[i],
             NEW k, FirstDiff(t, u, k), t[k] < u[k]
      PROVE  Before(s, u)
  <2>1. i \in Nat /\ k \in Nat
    BY <1>4 DEF FirstDiff
  <2>2. CASE i <= k
    <3>1. i \in 1..Len(s) \intersect 1..Len(u) /\ i \in 1..Len(t)
      BY <1>4, <2>1, <2>2 DEF FirstDiff
    <3>2. s[i] \in Nat /\ t[i] \in Nat /\ u[i] \in Nat
      BY <3>1
    <3>3. i = k \/ i \in 1..(k - 1)
      BY <2>1, <2>2, <3>1
    <3>4. t[i] <= u[i]
      <4>1. CASE i = k
        BY <1>4, <3>2, <4>1
      <4>2. CASE i \in 1..(k - 1)
        <5>1. t[i] = u[i]
          BY <1>4, <4>2 DEF FirstDiff
        <5> QED
          BY <3>2, <5>1
      <4> QED
        BY <3>3, <4>1, <4>2
    <3>5. \A j \in 1..(i - 1) : s[j] = t[j] /\ t[j] = u[j]
      <4>1. \A j \in 1..(i - 1) : j \in 1..(k - 1)
        BY <2>1, <2>2
      <4> QED
        BY <1>4, <4>1 DEF FirstDiff
    <3>6. FirstDiff(s, u, i) /\ s[i] < u[i]
      <4>1. s[i] < u[i]
        BY <1>4, <3>4, <3>2
      <4>2. s[i] # u[i]
        BY <3>2, <4>1
      <4> QED
        BY <3>1, <3>5, <4>1, <4>2 DEF FirstDiff
    <3> QED
      BY <3>6 DEF Before
  <2>3. CASE k < i
    <3>1. k \in 1..Len(s) \intersect 1..Len(u) /\ k \in 1..(i - 1)
      BY <1>4, <2>1, <2>3 DEF FirstDiff
    <3>2. \A j \in 1..k : s[j] = t[j]
      <4>1. \A j \in 1..k : j \in 1..(i - 1)
        BY <2>1, <2>3
      <4> QED
        BY <1>4, <4>1 DEF FirstDiff
    <3>3. s[k] = t[k] /\ \A j \in 1..(k - 1) : s[j] = u[j]
      <4>1. k \in 1..k /\ \A j \in 1..(k - 1) : j \in 1..k
        BY <2>1, <3>1
      <4> QED
        BY <1>4, <3>2, <4>1 DEF FirstDiff
    <3>4. FirstDiff(s, u, k) /\ s[k] < u[k]
      BY <1>4, <3>1, <3>3 DEF FirstDiff
    <3> QED
      BY <3>4 DEF Before
  <2> QED
    BY <2>1, <2>2, <2>3
<1> QED
  BY <1>1, <1>2, <1>3, <1>4 DEF Before

----------------------------------------------------------------------------
(* One turn of the loop.                                                   *)

\* What nextChunk can return: it takes a byte before it looks at the rest.
Chunk == Seq(Nat) \ {<<>>}

\* nextChunk takes a run of bytes of one kind, as long as there are any.
LEMMA ChunkFacts ==
  ASSUME NEW s \in Seq(Nat), NEW i \in Nat, i < Len(s)
  PROVE  /\ ChunkEnd(s, i) \in (i + 1)..Len(s)
         /\ \A j \in (i + 1)..ChunkEnd(s, i) :
              isASCIIDigit(s[j]) <=> isASCIIDigit(s[i + 1])
         /\ \A n \in (i + 1)..Len(s) :
              (\A j \in (i + 1)..n :
                 isASCIIDigit(s[j]) <=> isASCIIDigit(s[i + 1]))
              => n <= ChunkEnd(s, i)
<1> DEFINE A == Alike(s, i)
           U == {m \in Nat : \E n \in A : m = Len(s) - n}
<1>1. A \subseteq (i + 1)..Len(s) /\ i + 1 \in A
  BY DEF Alike
<1>2. U \subseteq Nat /\ U # {}
  <2>1. Len(s) - (i + 1) \in U
    BY <1>1
  <2> QED
    BY <2>1
<1>3. PICK m \in U : \A k \in U : m <= k
  <2> HIDE DEF U
  <2> QED
    BY <1>2, Least
<1>4. PICK n \in A : m = Len(s) - n
  BY <1>3
<1>5. ASSUME NEW k \in A PROVE k <= n
  <2>1. k \in Int /\ n \in Int /\ Len(s) - k \in U
    BY <1>1
  <2>2. m <= Len(s) - k
    BY <1>3, <2>1
  <2> QED
    BY <1>4, <2>1, <2>2
<1>6. ChunkEnd(s, i) \in A /\ \A k \in A : k <= ChunkEnd(s, i)
  <2> HIDE DEF A
  <2> QED
    BY <1>4, <1>5 DEF ChunkEnd, A
<1> QED
  BY <1>1, <1>6 DEF Alike

\* The bytes of a chunk.
LEMMA NextChunk ==
  ASSUME NEW s \in Seq(Nat), NEW i \in Nat, i < Len(s)
  PROVE  /\ nextChunk(s, i) \in Chunk
         /\ Len(nextChunk(s, i)) = ChunkEnd(s, i) - i
         /\ \A k \in 1..(ChunkEnd(s, i) - i) : nextChunk(s, i)[k] = s[i + k]
<1>1. ChunkEnd(s, i) \in (i + 1)..Len(s)
  BY ChunkFacts
<1> DEFINE e == ChunkEnd(s, i)
           c == SubSeq(s, i + 1, e)
<1> HIDE DEF e
<1>2. i + 1 \in 1..(Len(s) + 1) /\ e \in i..Len(s) /\ e >= i + 1
  BY <1>1 DEF e
<1> DEFINE m == i + 1
<1>3. m \in 1..(Len(s) + 1) /\ e \in (m - 1)..Len(s)
  BY <1>2
<1>4. /\ SubSeq(s, m, e) \in Seq(Nat)
      /\ Len(SubSeq(s, m, e)) = e - m + 1
      /\ \A k \in 1..(e - m + 1) : SubSeq(s, m, e)[k] = s[m + k - 1]
  <2> HIDE DEF m
  <2> QED
    BY <1>3, SubSeqProperties
<1>5. e - m + 1 = e - i /\ \A k \in Int : m + k - 1 = i + k
  BY <1>2
<1>6. /\ c \in Seq(Nat) /\ Len(c) = e - i
      /\ \A k \in 1..(e - i) : c[k] = s[i + k]
  BY <1>4, <1>5
<1>7. c # <<>>
  <2>1. Len(c) # 0
    BY <1>2, <1>6
  <2>2. Len(<<>>) = 0
    OBVIOUS
  <2> QED
    BY <2>1, <2>2, Zenon
<1> QED
  BY <1>6, <1>7 DEF nextChunk, e, Chunk

\* Chunks that begin with different bytes are in the order of these.
LEMMA FirstByte ==
  ASSUME NEW a \in Chunk, NEW b \in Chunk, a[1] # b[1]
  PROVE  Before(a, b) <=> a[1] < b[1]
<1>1. Len(a) >= 1 /\ Len(b) >= 1 /\ a \in Seq(Nat) /\ b \in Seq(Nat)
  BY DEF Chunk
<1>2. FirstDiff(a, b, 1)
  BY <1>1 DEF FirstDiff
<1>3. \A i : FirstDiff(a, b, i) => i = 1
  BY <1>1 DEF FirstDiff
<1>4. ~(\A j \in 1..Len(a) : a[j] = b[j])
  BY <1>1
<1> QED
  BY <1>2, <1>3, <1>4 DEF Before

\* a is before b: by value if both are numbers, and by their bytes if not, or
\* if the values are the same.
ChunkBefore(a, b) ==
  IF Numeric(a, b)
  THEN Atoi(a) < Atoi(b) \/ (Atoi(a) = Atoi(b) /\ Before(a, b))
  ELSE Before(a, b)

\* This is what a turn of the loop finds out.
LEMMA CompareChunksIs ==
  ASSUME NEW a \in Chunk, NEW b \in Chunk
  PROVE  /\ CompareChunks(a, b) \in {-1, 0, 1}
         /\ CompareChunks(a, b) = 0 <=> a = b
         /\ CompareChunks(a, b) = -1 <=> ChunkBefore(a, b)
<1>1. a \in Seq(Nat) /\ b \in Seq(Nat)
  BY DEF Chunk
<1>2. Atoi(a) \in Int /\ Atoi(b) \in Int
  BY <1>1, AtoiType
<1>3. /\ Compare(a, b) \in {-1, 0, 1}
      /\ Compare(a, b) = 0 <=> a = b
      /\ Compare(a, b) = -1 <=> Before(a, b)
  BY <1>1, CompareIs
<1>4. CASE ~Numeric(a, b)
  BY <1>3, <1>4 DEF CompareChunks, ChunkBefore
<1>5. CASE Numeric(a, b) /\ Atoi(a) > Atoi(b)
  BY <1>2, <1>5 DEF CompareChunks, ChunkBefore
<1>6. CASE Numeric(a, b) /\ Atoi(a) < Atoi(b)
  BY <1>2, <1>6 DEF CompareChunks, ChunkBefore
<1>7. CASE Numeric(a, b) /\ Atoi(a) = Atoi(b)
  BY <1>2, <1>3, <1>7 DEF CompareChunks, ChunkBefore
<1> QED
  BY <1>2, <1>4, <1>5, <1>6, <1>7

\* It is a strict total order of chunks.
LEMMA ChunkTotal ==
  ASSUME NEW a \in Chunk, NEW b \in Chunk
  PROVE  /\ ChunkBefore(a, b) => ~ChunkBefore(b, a)
         /\ a = b \/ ChunkBefore(a, b) \/ ChunkBefore(b, a)
<1>1. a \in Seq(Nat) /\ b \in Seq(Nat)
  BY DEF Chunk
<1>2. Atoi(a) \in Int /\ Atoi(b) \in Int
  BY <1>1, AtoiType
<1>3. /\ Before(a, b) => ~Before(b, a)
      /\ a = b \/ Before(a, b) \/ Before(b, a)
  BY <1>1, BeforeTotal
<1>4. Numeric(a, b) <=> Numeric(b, a)
  BY DEF Numeric
<1> QED
  BY <1>2, <1>3, <1>4 DEF ChunkBefore

\* It is transitive also for numbers and other chunks together: the digits
\* are next to each other, so another chunk is before or after all numbers.
LEMMA ChunkTransitive ==
  ASSUME NEW a \in Chunk, NEW b \in Chunk, NEW c \in Chunk,
         ChunkBefore(a, b), ChunkBefore(b, c)
  PROVE  ChunkBefore(a, c)
<1>1. a \in Seq(Nat) /\ b \in Seq(Nat) /\ c \in Seq(Nat)
  BY DEF Chunk
<1>2. Atoi(a) \in Int /\ Atoi(b) \in Int /\ Atoi(c) \in Int
  BY <1>1, AtoiType
<1>3. Before(a, b) /\ Before(b, c) => Before(a, c)
  BY <1>1, BeforeTransitive
<1>4. a[1] \in Nat /\ b[1] \in Nat /\ c[1] \in Nat
  BY <1>1 DEF Chunk
<1>5. /\ a[1] # b[1] => (Before(a, b) <=> a[1] < b[1])
      /\ b[1] # c[1] => (Before(b, c) <=> b[1] < c[1])
      /\ a[1] # c[1] => (Before(a, c) <=> a[1] < c[1])
  BY FirstByte
<1> DEFINE D(s) == isASCIIDigit(s[1])
<1>6. CASE D(a) /\ D(b) /\ D(c)
  BY <1>2, <1>3, <1>6 DEF ChunkBefore, Numeric
<1>7. CASE ~(D(a) /\ D(b)) /\ ~(D(b) /\ D(c)) /\ ~(D(a) /\ D(c))
  BY <1>3, <1>7 DEF ChunkBefore, Numeric
<1>8. CASE D(a) /\ D(b) /\ ~D(c)
  <2>1. Before(b, c)
    BY <1>8 DEF ChunkBefore, Numeric
  <2>2. a[1] < c[1]
    BY <1>4, <1>5, <1>8, <2>1 DEF isASCIIDigit
  <2>3. Before(a, c)
    BY <1>4, <1>5, <2>2
  <2> QED
    BY <1>8, <2>3 DEF ChunkBefore, Numeric
<1>9. CASE ~D(a) /\ D(b) /\ D(c)
  <2>1. Before(a, b)
    BY <1>9 DEF ChunkBefore, Numeric
  <2>2. a[1] < c[1]
    BY <1>4, <1>5, <1>9, <2>1 DEF isASCIIDigit
  <2>3. Before(a, c)
    BY <1>4, <1>5, <2>2
  <2> QED
    BY <1>9, <2>3 DEF ChunkBefore, Numeric
<1>10. CASE D(a) /\ ~D(b) /\ D(c)
  <2>1. Before(a, b) /\ Before(b, c)
    BY <1>10 DEF ChunkBefore, Numeric
  <2>2. a[1] < b[1] /\ b[1] < c[1]
    BY <1>4, <1>5, <1>10, <2>1 DEF isASCIIDigit
  <2> QED
    BY <1>4, <1>10, <2>2 DEF isASCIIDigit
<1> QED
  BY <1>6, <1>7, <1>8, <1>9, <1>10

----------------------------------------------------------------------------
(* The loop of natCompare.                                                 *)

\* The value of f at a position is given by a, or is its value at a later one.
Unwinds(f, N, D, a, e) ==
  f = [i \in 0..N |-> IF i \in D THEN a[i] ELSE f[e[i]]]

\* There is such a function.
LEMMA Unwind ==
  ASSUME NEW N \in Nat, NEW D, NEW a, NEW e,
         \A i \in 0..N : i \notin D => e[i] \in (i + 1)..N
  PROVE  \E f : Unwinds(f, N, D, a, e)
<1> DEFINE Fits(f, n) == f = [i \in n..N |-> IF i \in D THEN a[i] ELSE f[e[i]]]
           S == {n \in 0..N : \E f : Fits(f, n)}
<1>1. ASSUME NEW n \in 0..N, \A j \in (n + 1)..N : j \in S PROVE n \in S
  <2>1. CASE n = N
    <3>1. n \in D /\ n..N = {n}
      BY <2>1
    <3>2. Fits([i \in n..N |-> a[i]], n)
      BY <3>1
    <3> QED
      BY <3>2
  <2>2. CASE n # N
    <3>1. n + 1 \in (n + 1)..N /\ n \in Nat
      BY <2>2
    <3>2. PICK f : Fits(f, n + 1)
      BY <1>1, <3>1
    <3> DEFINE v == IF n \in D THEN a[n] ELSE f[e[n]]
               h == [i \in n..N |-> IF i = n THEN v ELSE f[i]]
    <3>3. ASSUME NEW i \in n..N
          PROVE  h[i] = IF i \in D THEN a[i] ELSE h[e[i]]
      <4>1. i \notin D => e[i] \in (i + 1)..N /\ e[i] \in (n + 1)..N
        BY <3>1
      <4>2. i \notin D => h[e[i]] = f[e[i]]
        BY <3>1, <4>1
      <4>3. i # n => i \in (n + 1)..N
        BY <3>1
      <4>4. i # n => f[i] = IF i \in D THEN a[i] ELSE f[e[i]]
        BY <3>2, <4>3
      <4> QED
        BY <4>2, <4>4
    <3>4. Fits(h, n)
      BY <3>3
    <3> QED
      BY <3>4
  <2> QED
    BY <2>1, <2>2
<1>2. 0..N \subseteq S
  <2> HIDE DEF S
  <2> QED
    BY <1>1, Backward
<1>3. 0 \in S
  BY <1>2
<1> QED
  BY <1>3 DEF Unwinds

\* The function that Loop takes from its equation exists.
LEMMA LoopEquation ==
  ASSUME NEW s \in Seq(Nat), NEW t \in Seq(Nat)
  PROVE  Loop(s, t) = [i \in 0..Len(s) |->
           IF i >= Len(s) \/ i >= Len(t) THEN Len(s) - Len(t)
           ELSE LET c == CompareChunks(nextChunk(s, i), nextChunk(t, i))
                IN  IF c # 0 THEN c ELSE Loop(s, t)[ChunkEnd(s, i)]]
<1> DEFINE Over(i) == i >= Len(s) \/ i >= Len(t)
           C(i) == CompareChunks(nextChunk(s, i), nextChunk(t, i))
           D == {i \in 0..Len(s) : Over(i) \/ C(i) # 0}
           a == [i \in 0..Len(s) |-> IF Over(i) THEN Len(s) - Len(t) ELSE C(i)]
           e == [i \in 0..Len(s) |-> ChunkEnd(s, i)]
<1>1. ASSUME NEW i \in 0..Len(s), i \notin D PROVE e[i] \in (i + 1)..Len(s)
  <2>1. i \in Nat /\ i < Len(s)
    BY <1>1
  <2> QED
    BY <2>1, ChunkFacts
<1>2. PICK f : Unwinds(f, Len(s), D, a, e)
  <2>1. Len(s) \in Nat
    OBVIOUS
  <2> HIDE DEF D, a, e
  <2> QED
    BY <1>1, <2>1, Unwind
<1>3. ASSUME NEW i \in 0..Len(s)
      PROVE  (IF i \in D THEN a[i] ELSE f[e[i]])
             = IF Over(i) THEN Len(s) - Len(t)
               ELSE IF C(i) # 0 THEN C(i) ELSE f[ChunkEnd(s, i)]
  <2> HIDE DEF Over, C
  <2> QED
    OBVIOUS
<1>4. f = [i \in 0..Len(s) |-> IF Over(i) THEN Len(s) - Len(t)
               ELSE IF C(i) # 0 THEN C(i) ELSE f[ChunkEnd(s, i)]]
  <2> HIDE DEF D, a, e, Over, C
  <2> QED
    BY <1>2, <1>3 DEF Unwinds
<1> QED
  BY <1>4 DEF Loop

\* The loop ends when a name is used up, returns when a chunk is before the
\* other, and goes on after the same chunk of both.
LEMMA LoopStep ==
  ASSUME NEW s \in Seq(Nat), NEW t \in Seq(Nat),
         NEW i \in 0..Len(s), i <= Len(t)
  PROVE  /\ i = Len(s) \/ i = Len(t) => Loop(s, t)[i] = Len(s) - Len(t)
         /\ i < Len(s) /\ i < Len(t) =>
              \/ /\ ChunkBefore(nextChunk(s, i), nextChunk(t, i))
                 /\ Loop(s, t)[i] = -1
              \/ /\ ChunkBefore(nextChunk(t, i), nextChunk(s, i))
                 /\ Loop(s, t)[i] = 1
              \/ /\ nextChunk(s, i) = nextChunk(t, i)
                 /\ ChunkEnd(s, i) = ChunkEnd(t, i)
                 /\ Loop(s, t)[i] = Loop(s, t)[ChunkEnd(s, i)]
<1> DEFINE a == nextChunk(s, i)
           b == nextChunk(t, i)
           c == CompareChunks(a, b)
<1>1. Loop(s, t)[i] = IF i >= Len(s) \/ i >= Len(t) THEN Len(s) - Len(t)
                      ELSE IF c # 0 THEN c ELSE Loop(s, t)[ChunkEnd(s, i)]
  BY LoopEquation
<1>2. Len(s) \in Nat /\ Len(t) \in Nat /\ i \in Nat
  OBVIOUS
<1> HIDE DEF c
<1>3. i = Len(s) \/ i = Len(t) => Loop(s, t)[i] = Len(s) - Len(t)
  BY <1>1, <1>2
<1>4. ASSUME i < Len(s), i < Len(t)
      PROVE  \/ ChunkBefore(a, b) /\ Loop(s, t)[i] = -1
             \/ ChunkBefore(b, a) /\ Loop(s, t)[i] = 1
             \/ /\ a = b /\ ChunkEnd(s, i) = ChunkEnd(t, i)
                /\ Loop(s, t)[i] = Loop(s, t)[ChunkEnd(s, i)]
  <2>1. Loop(s, t)[i] = IF c # 0 THEN c ELSE Loop(s, t)[ChunkEnd(s, i)]
    BY <1>1, <1>2, <1>4
  <2>2. a \in Chunk /\ Len(a) = ChunkEnd(s, i) - i
    BY <1>2, <1>4, NextChunk
  <2>3. b \in Chunk /\ Len(b) = ChunkEnd(t, i) - i
    BY <1>2, <1>4, NextChunk
  <2>4. ChunkEnd(s, i) \in Int /\ ChunkEnd(t, i) \in Int
    BY <1>2, <1>4, ChunkFacts
  <2> HIDE DEF a, b
  <2>5. c \in {-1, 0, 1} /\ (c = 0 <=> a = b) /\ (c = -1 <=> ChunkBefore(a, b))
    BY <2>2, <2>3, CompareChunksIs DEF c
  <2>6. a = b \/ ChunkBefore(a, b) \/ ChunkBefore(b, a)
    BY <2>2, <2>3, ChunkTotal
  <2>7. a = b => ChunkEnd(s, i) = ChunkEnd(t, i)
    BY <1>2, <2>2, <2>3, <2>4
  <2> QED
    BY <2>1, <2>5, <2>6, <2>7
<1> QED
  BY <1>3, <1>4

----------------------------------------------------------------------------
(* The order.                                                              *)

\* What the loop returns for two names, and for the same two exchanged.
LEMMA LoopTotal ==
  ASSUME NEW s \in Seq(Nat), NEW t \in Seq(Nat)
  PROVE  \A i \in 0..Len(s) : i <= Len(t) =>
           /\ Loop(s, t)[i] \in Int
           /\ Loop(t, s)[i] = -Loop(s, t)[i]
           /\ Loop(s, t)[i] = 0 => /\ Len(s) = Len(t)
                                   /\ \A j \in (i + 1)..Len(s) : s[j] = t[j]
<1> DEFINE P(i) == i <= Len(t) =>
             /\ Loop(s, t)[i] \in Int
             /\ Loop(t, s)[i] = -Loop(s, t)[i]
             /\ Loop(s, t)[i] = 0 => /\ Len(s) = Len(t)
                                     /\ \A j \in (i + 1)..Len(s) : s[j] = t[j]
           S == {i \in 0..Len(s) : P(i)}
<1>1. Len(s) \in Nat /\ Len(t) \in Nat
  OBVIOUS
<1>2. ASSUME NEW i \in 0..Len(s), \A j \in (i + 1)..Len(s) : j \in S,
             i <= Len(t)
      PROVE  P(i)
  <2>1. i \in Nat /\ i \in 0..Len(t) /\ i <= Len(s)
    BY <1>1, <1>2
  <2>2. CASE i = Len(s) \/ i = Len(t)
    <3>1. Loop(s, t)[i] = Len(s) - Len(t)
      BY <1>2, <2>2, LoopStep
    <3>2. Loop(t, s)[i] = Len(t) - Len(s)
      BY <2>1, <2>2, LoopStep
    <3>3. Len(s) = Len(t) => (i + 1)..Len(s) = {}
      BY <1>1, <2>1, <2>2
    <3> QED
      BY <1>1, <3>1, <3>2, <3>3
  <2>3. CASE i < Len(s) /\ i < Len(t)
    <3> DEFINE a == nextChunk(s, i)
               b == nextChunk(t, i)
               e == ChunkEnd(s, i)
    <3>1. a \in Chunk /\ b \in Chunk
      BY <2>1, <2>3, NextChunk
    <3>2. \/ ChunkBefore(a, b) /\ Loop(s, t)[i] = -1
          \/ ChunkBefore(b, a) /\ Loop(s, t)[i] = 1
          \/ a = b /\ e = ChunkEnd(t, i) /\ Loop(s, t)[i] = Loop(s, t)[e]
      BY <1>2, <2>3, LoopStep
    <3>3. \/ ChunkBefore(b, a) /\ Loop(t, s)[i] = -1
          \/ ChunkBefore(a, b) /\ Loop(t, s)[i] = 1
          \/ /\ b = a /\ ChunkEnd(t, i) = e
             /\ Loop(t, s)[i] = Loop(t, s)[ChunkEnd(t, i)]
      BY <2>1, <2>3, LoopStep
    <3>4. ASSUME a # b PROVE P(i)
      <4> HIDE DEF a, b, e
      <4>1. ~(ChunkBefore(a, b) /\ ChunkBefore(b, a))
        BY <3>1, ChunkTotal
      <4> QED
        BY <3>2, <3>3, <3>4, <4>1
    <3>5. ASSUME a = b PROVE P(i)
      <4>1. ~ChunkBefore(a, b) /\ ~ChunkBefore(b, a)
        BY <3>1, <3>5, ChunkTotal
      <4>2. /\ Loop(s, t)[i] = Loop(s, t)[e] /\ Loop(t, s)[i] = Loop(t, s)[e]
            /\ e = ChunkEnd(t, i)
        BY <3>2, <3>3, <4>1
      <4>3. e \in (i + 1)..Len(s)
        BY <2>1, <2>3, ChunkFacts
      <4>4. e <= Len(t)
        BY <2>1, <2>3, <4>2, ChunkFacts
      <4>5. P(e)
        BY <1>2, <4>3
      <4>6. ASSUME NEW j \in (i + 1)..e PROVE s[j] = t[j]
        <5>1. j - i \in 1..(e - i) /\ i + (j - i) = j
          BY <2>1, <4>3
        <5>2. a[j - i] = s[i + (j - i)]
          BY <2>1, <2>3, <5>1, NextChunk
        <5>3. b[j - i] = t[i + (j - i)]
          BY <2>1, <2>3, <4>2, <5>1, NextChunk
        <5> QED
          BY <3>5, <5>1, <5>2, <5>3
      <4> HIDE DEF a, b, e
      <4>7. \A j \in (i + 1)..Len(s) : j \in (i + 1)..e \/ j \in (e + 1)..Len(s)
        BY <2>1, <4>3
      <4> QED
        BY <4>2, <4>4, <4>5, <4>6, <4>7
    <3> QED
      BY <3>4, <3>5
  <2> QED
    BY <1>1, <1>2, <2>1, <2>2, <2>3
<1>3. 0..Len(s) \subseteq S
  <2>1. ASSUME NEW i \in 0..Len(s), \A j \in (i + 1)..Len(s) : j \in S
        PROVE  i \in S
    BY <1>2, <2>1
  <2> HIDE DEF S
  <2> QED
    BY <1>1, <2>1, Backward
<1> QED
  BY <1>3

\* What the loop says of a first and a second, and of a second and a third
\* name, it says of the first and the third.
LEMMA LoopTransitive ==
  ASSUME NEW s \in Seq(Nat), NEW t \in Seq(Nat), NEW u \in Seq(Nat)
  PROVE  \A i \in 0..Len(s) :
           /\ i <= Len(t) /\ i <= Len(u)
           /\ Loop(s, t)[i] < 0 /\ Loop(t, u)[i] < 0
           => Loop(s, u)[i] < 0
<1> DEFINE P(i) == /\ i <= Len(t) /\ i <= Len(u)
                   /\ Loop(s, t)[i] < 0 /\ Loop(t, u)[i] < 0
                   => Loop(s, u)[i] < 0
           S == {i \in 0..Len(s) : P(i)}
<1>1. Len(s) \in Nat /\ Len(t) \in Nat /\ Len(u) \in Nat
  OBVIOUS
<1>2. ASSUME NEW i \in 0..Len(s), \A j \in (i + 1)..Len(s) : j \in S,
             i <= Len(t), i <= Len(u),
             Loop(s, t)[i] < 0, Loop(t, u)[i] < 0
      PROVE  Loop(s, u)[i] < 0
  <2>1. i \in Nat /\ i \in 0..Len(t) /\ i <= Len(s)
    BY <1>1, <1>2
  <2>2. CASE i = Len(s)
    <3>1. Loop(s, t)[i] = Len(s) - Len(t) /\ Loop(s, u)[i] = Len(s) - Len(u)
      BY <1>2, <2>2, LoopStep
    <3>2. i < Len(t)
      BY <1>1, <1>2, <2>2, <3>1
    <3>3. i = Len(u) => Loop(t, u)[i] = Len(t) - Len(u)
      BY <1>2, <2>1, LoopStep
    <3>4. i # Len(u)
      BY <1>1, <1>2, <3>2, <3>3
    <3> QED
      BY <1>1, <1>2, <2>2, <3>1, <3>4
  <2>3. CASE i = Len(t)
    <3>1. Loop(s, t)[i] = Len(s) - Len(t)
      BY <1>2, <2>3, LoopStep
    <3> QED
      BY <1>1, <1>2, <2>1, <2>3, <3>1
  <2>4. CASE i = Len(u) /\ i < Len(t)
    <3>1. Loop(t, u)[i] = Len(t) - Len(u)
      BY <1>2, <2>1, <2>4, LoopStep
    <3> QED
      BY <1>1, <1>2, <2>4, <3>1
  <2>5. CASE i < Len(s) /\ i < Len(t) /\ i < Len(u)
    <3> DEFINE a == nextChunk(s, i)
               b == nextChunk(t, i)
               c == nextChunk(u, i)
               e == ChunkEnd(s, i)
    <3>1. a \in Chunk /\ b \in Chunk /\ c \in Chunk
      BY <2>1, <2>5, NextChunk
    <3>2. \/ ChunkBefore(a, b)
          \/ a = b /\ e = ChunkEnd(t, i) /\ Loop(s, t)[i] = Loop(s, t)[e]
      BY <1>2, <2>5, LoopStep
    <3>3. \/ ChunkBefore(b, c)
          \/ /\ b = c /\ ChunkEnd(t, i) = ChunkEnd(u, i)
             /\ Loop(t, u)[i] = Loop(t, u)[ChunkEnd(t, i)]
      BY <1>2, <2>1, <2>5, LoopStep
    <3>4. \/ ChunkBefore(a, c) /\ Loop(s, u)[i] = -1
          \/ ChunkBefore(c, a)
          \/ a = c /\ e = ChunkEnd(u, i) /\ Loop(s, u)[i] = Loop(s, u)[e]
      BY <1>2, <2>5, LoopStep
    <3>5. ASSUME ChunkBefore(a, c) PROVE Loop(s, u)[i] < 0
      <4> HIDE DEF a, b, c, e
      <4>1. ~ChunkBefore(c, a) /\ a # c
        BY <3>1, <3>5, ChunkTotal
      <4> QED
        BY <3>4, <4>1
    <3>6. CASE ChunkBefore(a, b) \/ ChunkBefore(b, c)
      <4> HIDE DEF a, b, c, e
      <4>1. ChunkBefore(a, b) /\ ChunkBefore(b, c) => ChunkBefore(a, c)
        BY <3>1, ChunkTransitive
      <4>2. ChunkBefore(a, c)
        BY <3>2, <3>3, <3>6, <4>1
      <4> QED
        BY <3>5, <4>2
    <3>7. CASE ~ChunkBefore(a, b) /\ ~ChunkBefore(b, c)
      <4>1. e \in (i + 1)..Len(s)
        BY <2>1, <2>5, ChunkFacts
      <4>2. ChunkEnd(t, i) <= Len(t) /\ ChunkEnd(u, i) <= Len(u)
        BY <2>1, <2>5, ChunkFacts
      <4>3. P(e)
        BY <1>2, <4>1
      <4> HIDE DEF a, b, c, e
      <4>4. ~ChunkBefore(a, a)
        BY <3>1, ChunkTotal
      <4>5. Loop(s, u)[i] = Loop(s, u)[e]
        BY <3>2, <3>3, <3>4, <3>7, <4>4
      <4> QED
        BY <1>2, <3>2, <3>3, <3>7, <4>2, <4>3, <4>5
    <3> QED
      BY <3>6, <3>7
  <2> QED
    BY <1>1, <1>2, <2>1, <2>2, <2>3, <2>4, <2>5
<1>3. 0..Len(s) \subseteq S
  <2>1. ASSUME NEW i \in 0..Len(s), \A j \in (i + 1)..Len(s) : j \in S
        PROVE  i \in S
    BY <1>2, <2>1
  <2> HIDE DEF S
  <2> QED
    BY <1>1, <2>1, Backward
<1> QED
  BY <1>3

\* natCompare is antisymmetric, 0 for equal names only, and transitive.
LEMMA NatCompareOrder ==
  ASSUME NEW s \in Seq(Nat), NEW t \in Seq(Nat)
  PROVE  /\ natCompare(s, t) \in Int
         /\ natCompare(t, s) = -natCompare(s, t)
         /\ natCompare(s, t) = 0 => s = t
         /\ \A u \in Seq(Nat) : natCompare(s, t) < 0 /\ natCompare(t, u) < 0
                                => natCompare(s, u) < 0
<1>1. 0 \in 0..Len(s) /\ 0 <= Len(t)
  OBVIOUS
<1>2. /\ Loop(s, t)[0] \in Int /\ Loop(t, s)[0] = -Loop(s, t)[0]
      /\ Loop(s, t)[0] = 0 => /\ Len(s) = Len(t)
                              /\ \A j \in (0 + 1)..Len(s) : s[j] = t[j]
  BY <1>1, LoopTotal
<1>3. Loop(s, t)[0] = 0 => s = t
  BY <1>2, SeqEqual
<1>4. ASSUME NEW u \in Seq(Nat), Loop(s, t)[0] < 0, Loop(t, u)[0] < 0
      PROVE  Loop(s, u)[0] < 0
  <2>1. 0 <= Len(u)
    OBVIOUS
  <2> QED
    BY <1>1, <1>4, <2>1, LoopTransitive
<1> QED
  BY <1>2, <1>3, <1>4 DEF natCompare

----------------------------------------------------------------------------
(* The theorems.                                                           *)

\* Names are sequences of bytes, and so are those of the three variables.
LEMMA NamesAreStrings == Name \subseteq Seq(Nat)
<1>1. ASSUME NEW n \in 0..MaxLen, NEW s \in [1..n -> Byte]
      PROVE  s \in Seq(Nat)
  <2>1. n \in Nat /\ \A i \in 1..n : s[i] \in Byte
    BY NatSortAssumption
  <2>2. \A b \in Byte : b \in Nat
    BY NatSortAssumption
  <2>3. \A i \in 1..n : s[i] \in Nat
    BY <2>1, <2>2
  <2>4. s \in [1..n -> Nat]
    BY <2>3
  <2> QED
    BY <2>1, <2>4
<1>2. Eth0 \in Seq(Nat)
  BY DEF Eth0
<1> QED
  BY <1>1, <1>2 DEF Name

\* The variables are names.
LEMMA Names == Spec => [](x \in Seq(Nat) /\ y \in Seq(Nat) /\ z \in Seq(Nat))
<1> DEFINE I == x \in Seq(Nat) /\ y \in Seq(Nat) /\ z \in Seq(Nat)
<1>1. Init => I
  BY NamesAreStrings DEF Init
<1>2. I /\ [Next]_<<x, y, z>> => I'
  BY NamesAreStrings DEF Next
<1> QED
  BY <1>1, <1>2, PTL DEF Spec

\* The function given to sort.Slice is a strict total order of all names, of
\* any length, with eth0 first: sort.Slice has one result, however it works.
THEOREM OrderIsStrict == Spec => []StrictOrder
<1>1. ASSUME x \in Seq(Nat), y \in Seq(Nat), z \in Seq(Nat) PROVE StrictOrder
  <2>1. /\ natCompare(x, y) \in Int
        /\ natCompare(y, x) = -natCompare(x, y)
        /\ natCompare(x, y) = 0 => x = y
        /\ natCompare(x, y) < 0 /\ natCompare(y, z) < 0 => natCompare(x, z) < 0
    BY <1>1, NatCompareOrder
  <2>2. Less(x, y) => ~Less(y, x)
    BY <2>1 DEF Less
  <2>3. x = y \/ Less(x, y) \/ Less(y, x)
    BY <2>1 DEF Less
  <2>4. Less(x, y) /\ Less(y, z) => Less(x, z)
    BY <2>1 DEF Less
  <2>5. x # Eth0 => ~Less(x, Eth0)
    BY DEF Less
  <2> QED
    BY <2>2, <2>3, <2>4, <2>5 DEF StrictOrder
<1> QED
  BY <1>1, Names, PTL

\* s has only digits after its first n bytes, and at least one, and the byte
\* before them, if there is one, is none.
NumberFrom(s, n) ==
  /\ n < Len(s)
  /\ \A j \in (n + 1)..Len(s) : isASCIIDigit(s[j])
  /\ n = 0 \/ ~isASCIIDigit(s[n])

\* This is so if what is left of s after n bytes is a number.
LEMMA TailNumber ==
  ASSUME NEW s \in Seq(Nat), NEW n \in Nat, n <= Len(s),
         n = 0 \/ ~isASCIIDigit(s[n]),
         SubSeq(s, n + 1, Len(s)) # <<>>,
         \A i \in 1..Len(SubSeq(s, n + 1, Len(s))) :
           isASCIIDigit(SubSeq(s, n + 1, Len(s))[i])
  PROVE  NumberFrom(s, n)
<1> DEFINE m == n + 1
           a == SubSeq(s, m, Len(s))
<1>1. Len(s) \in Nat /\ m \in 1..(Len(s) + 1)
  OBVIOUS
<1>2. \A i \in m..Len(s) : s[i] \in Nat
  BY <1>1
<1>3. /\ Len(a) = IF m <= Len(s) THEN Len(s) - m + 1 ELSE 0
      /\ \A i \in 1..(Len(s) - m + 1) : a[i] = s[m + i - 1]
      /\ a \in Seq(Nat)
  <2> HIDE DEF m
  <2> QED
    BY <1>1, <1>2, SubSeqProperties
<1>4. Len(a) # 0
  BY <1>3
<1>5. n < Len(s) /\ Len(a) = Len(s) - n
  BY <1>1, <1>3, <1>4
<1>6. ASSUME NEW j \in m..Len(s) PROVE isASCIIDigit(s[j])
  <2>1. j - n \in 1..Len(a) /\ m + (j - n) - 1 = j
        /\ j - n \in 1..(Len(s) - m + 1)
    BY <1>1, <1>5
  <2>2. a[j - n] = s[j]
    BY <1>3, <2>1
  <2> QED
    BY <2>1, <2>2
<1> QED
  BY <1>5, <1>6 DEF NumberFrom

\* No chunk that starts before the number goes into it.
LEMMA ChunkStops ==
  ASSUME NEW s \in Seq(Nat), NEW n \in Nat, NumberFrom(s, n),
         NEW i \in Nat, i < n
  PROVE  ChunkEnd(s, i) \in (i + 1)..n
<1>1. Len(s) \in Nat /\ i < Len(s) /\ n < Len(s)
  BY DEF NumberFrom
<1> DEFINE e == ChunkEnd(s, i)
<1>2. /\ e \in (i + 1)..Len(s)
      /\ \A j \in (i + 1)..e : isASCIIDigit(s[j]) <=> isASCIIDigit(s[i + 1])
  BY <1>1, ChunkFacts
<1> HIDE DEF e
<1>3. ASSUME e > n PROVE FALSE
  <2>1. n \in (i + 1)..e /\ n + 1 \in (i + 1)..e /\ n + 1 \in (n + 1)..Len(s)
    BY <1>1, <1>2, <1>3
  <2>2. isASCIIDigit(s[n]) <=> isASCIIDigit(s[n + 1])
    BY <1>2, <2>1
  <2> QED
    BY <2>1, <2>2 DEF NumberFrom
<1>4. e \in (i + 1)..n
  BY <1>2, <1>3
<1> QED
  BY <1>4 DEF e

\* Names that agree up to the number have the same chunks before it.
LEMMA SameChunk ==
  ASSUME NEW s \in Seq(Nat), NEW t \in Seq(Nat), NEW n \in Nat,
         NumberFrom(s, n), NumberFrom(t, n),
         \A j \in 1..n : s[j] = t[j],
         NEW i \in Nat, i < n
  PROVE  /\ ChunkEnd(s, i) \in (i + 1)..n
         /\ nextChunk(s, i) = nextChunk(t, i)
<1>1. Len(s) \in Nat /\ Len(t) \in Nat /\ n < Len(s) /\ n < Len(t)
      /\ i < Len(s) /\ i < Len(t)
  BY DEF NumberFrom
<1> DEFINE d == ChunkEnd(s, i)
           e == ChunkEnd(t, i)
<1>2. d \in (i + 1)..n
  BY ChunkStops
<1>3. e \in (i + 1)..n
  BY ChunkStops
<1>4. /\ \A j \in (i + 1)..d : isASCIIDigit(s[j]) <=> isASCIIDigit(s[i + 1])
      /\ \A m \in (i + 1)..Len(s) :
           (\A j \in (i + 1)..m :
              isASCIIDigit(s[j]) <=> isASCIIDigit(s[i + 1])) => m <= d
  BY <1>1, ChunkFacts
<1>5. /\ \A j \in (i + 1)..e : isASCIIDigit(t[j]) <=> isASCIIDigit(t[i + 1])
      /\ \A m \in (i + 1)..Len(t) :
           (\A j \in (i + 1)..m :
              isASCIIDigit(t[j]) <=> isASCIIDigit(t[i + 1])) => m <= e
  BY <1>1, ChunkFacts
<1>6. /\ nextChunk(s, i) \in Seq(Nat) /\ Len(nextChunk(s, i)) = d - i
      /\ \A k \in 1..(d - i) : nextChunk(s, i)[k] = s[i + k]
  BY <1>1, NextChunk DEF Chunk
<1>7. /\ nextChunk(t, i) \in Seq(Nat) /\ Len(nextChunk(t, i)) = e - i
      /\ \A k \in 1..(e - i) : nextChunk(t, i)[k] = t[i + k]
  BY <1>1, NextChunk DEF Chunk
<1> HIDE DEF d, e
<1>8. \A j \in (i + 1)..n : s[j] = t[j]
  OBVIOUS
<1>9. i + 1 \in (i + 1)..n
  OBVIOUS
<1>10. d <= e
  <2>1. \A j \in (i + 1)..d : isASCIIDigit(t[j]) <=> isASCIIDigit(t[i + 1])
    BY <1>2, <1>4, <1>8, <1>9
  <2>2. d \in (i + 1)..Len(t)
    BY <1>1, <1>2
  <2> QED
    BY <1>5, <2>1, <2>2
<1>11. e <= d
  <2>1. \A j \in (i + 1)..e : isASCIIDigit(s[j]) <=> isASCIIDigit(s[i + 1])
    BY <1>3, <1>5, <1>8, <1>9
  <2>2. e \in (i + 1)..Len(s)
    BY <1>1, <1>3
  <2> QED
    BY <1>4, <2>1, <2>2
<1>12. d = e
  BY <1>2, <1>3, <1>10, <1>11
<1>13. \A k \in 1..(d - i) : i + k \in 1..n
  BY <1>2
<1>14. \A k \in 1..(d - i) : nextChunk(s, i)[k] = nextChunk(t, i)[k]
  BY <1>6, <1>7, <1>12, <1>13
<1>15. nextChunk(s, i) = nextChunk(t, i)
  BY <1>6, <1>7, <1>12, <1>14, SeqEqual
<1> QED
  BY <1>2, <1>15 DEF d

\* The number is one chunk.
LEMMA NumberChunk ==
  ASSUME NEW s \in Seq(Nat), NEW n \in Nat, NumberFrom(s, n)
  PROVE  /\ nextChunk(s, n) = SubSeq(s, n + 1, Len(s))
         /\ nextChunk(s, n) \in Chunk
         /\ isASCIIDigit(nextChunk(s, n)[1])
<1>1. Len(s) \in Nat /\ n < Len(s) /\ n + 1 \in (n + 1)..Len(s)
      /\ Len(s) \in (n + 1)..Len(s)
  BY DEF NumberFrom
<1>2. /\ ChunkEnd(s, n) \in (n + 1)..Len(s)
      /\ \A m \in (n + 1)..Len(s) :
           (\A j \in (n + 1)..m :
              isASCIIDigit(s[j]) <=> isASCIIDigit(s[n + 1]))
           => m <= ChunkEnd(s, n)
  BY <1>1, ChunkFacts
<1>3. \A j \in (n + 1)..Len(s) : isASCIIDigit(s[j]) <=> isASCIIDigit(s[n + 1])
  BY <1>1 DEF NumberFrom
<1>4. ChunkEnd(s, n) = Len(s)
  BY <1>1, <1>2, <1>3
<1>5. /\ nextChunk(s, n) \in Chunk
      /\ \A k \in 1..(ChunkEnd(s, n) - n) : nextChunk(s, n)[k] = s[n + k]
  BY <1>1, NextChunk
<1>6. 1 \in 1..(Len(s) - n)
  BY <1>1
<1>7. nextChunk(s, n)[1] = s[n + 1]
  BY <1>4, <1>5, <1>6
<1> QED
  BY <1>1, <1>4, <1>5, <1>7 DEF nextChunk, NumberFrom

\* The loop goes past what the names share and returns at the number.
LEMMA LoopNatural ==
  ASSUME NEW s \in Seq(Nat), NEW t \in Seq(Nat), NEW n \in Nat,
         NumberFrom(s, n), NumberFrom(t, n),
         \A j \in 1..n : s[j] = t[j],
         Atoi(SubSeq(s, n + 1, Len(s))) < Atoi(SubSeq(t, n + 1, Len(t)))
  PROVE  Loop(s, t)[0] < 0
<1> DEFINE S == {i \in 0..n : Loop(s, t)[i] < 0}
<1>1. Len(s) \in Nat /\ Len(t) \in Nat /\ n < Len(s) /\ n < Len(t)
  BY DEF NumberFrom
<1>2. ASSUME NEW i \in 0..n, \A j \in (i + 1)..n : j \in S
      PROVE  Loop(s, t)[i] < 0
  <2> DEFINE a == nextChunk(s, i)
             b == nextChunk(t, i)
             e == ChunkEnd(s, i)
  <2>1. i \in Nat /\ i \in 0..Len(s) /\ i < Len(s) /\ i < Len(t) /\ i <= Len(t)
    BY <1>1
  <2>2. \/ ChunkBefore(a, b) /\ Loop(s, t)[i] = -1
        \/ ChunkBefore(b, a)
        \/ a = b /\ Loop(s, t)[i] = Loop(s, t)[e]
    BY <2>1, LoopStep
  <2>3. a \in Chunk /\ b \in Chunk
    BY <2>1, NextChunk
  <2>4. CASE i = n
    <3>1. a = SubSeq(s, n + 1, Len(s)) /\ isASCIIDigit(a[1])
      BY <2>4, NumberChunk
    <3>2. b = SubSeq(t, n + 1, Len(t)) /\ isASCIIDigit(b[1])
      BY <2>4, NumberChunk
    <3>3. Atoi(a) < Atoi(b)
      BY <3>1, <3>2
    <3> HIDE DEF a, b, e
    <3>4. Atoi(a) \in Int /\ Atoi(b) \in Int
      BY <2>3, AtoiType DEF Chunk
    <3>5. ChunkBefore(a, b) /\ a # b
      <4>1. Numeric(a, b)
        BY <3>1, <3>2 DEF Numeric
      <4>2. a # b
        BY <3>3, <3>4
      <4> QED
        BY <3>3, <4>1, <4>2 DEF ChunkBefore
    <3>6. ~ChunkBefore(b, a)
      BY <2>3, <3>5, ChunkTotal
    <3> QED
      BY <2>2, <3>5, <3>6
  <2>5. CASE i < n
    <3>1. e \in (i + 1)..n /\ a = b
      BY <2>1, <2>5, SameChunk
    <3> HIDE DEF a, b, e
    <3>2. ~ChunkBefore(a, b) /\ ~ChunkBefore(b, a)
      BY <2>3, <3>1, ChunkTotal
    <3>3. Loop(s, t)[e] < 0
      BY <1>2, <3>1
    <3> QED
      BY <2>2, <3>2, <3>3
  <2> QED
    BY <2>4, <2>5
<1>3. 0..n \subseteq S
  <2>1. ASSUME NEW i \in 0..n, \A j \in (i + 1)..n : j \in S PROVE i \in S
    BY <1>2, <2>1
  <2> HIDE DEF S
  <2> QED
    BY <2>1, Backward
<1> QED
  BY <1>3

\* swp2 comes before swp10: names that agree up to a number are in the order
\* of the numbers, whatever the names and however many digits there are.
THEOREM OrderIsNatural == Spec => []NaturalOrder
<1>1. ASSUME x \in Seq(Nat), y \in Seq(Nat) PROVE NaturalOrder
  <2> DEFINE a(n) == SubSeq(x, n + 1, Len(x))
             b(n) == SubSeq(y, n + 1, Len(y))
             Number(s) == s # <<>> /\ \A i \in 1..Len(s) : isASCIIDigit(s[i])
  <2>1. ASSUME NEW n \in 0..Len(x), n <= Len(y),
               SubSeq(x, 1, n) = SubSeq(y, 1, n),
               n = 0 \/ ~isASCIIDigit(x[n]), Eth0 \notin {x, y},
               Number(a(n)), Number(b(n)), Atoi(a(n)) < Atoi(b(n))
        PROVE  Less(x, y)
    <3>1. n \in Nat /\ Len(x) \in Nat /\ Len(y) \in Nat /\ n <= Len(x)
      OBVIOUS
    <3>2. \A j \in 1..n : x[j] = y[j]
      <4>1. /\ Len(SubSeq(x, 1, n)) = n
            /\ \A j \in 1..n : SubSeq(x, 1, n)[j] = x[j]
        BY <1>1, <3>1
      <4>2. \A j \in 1..n : SubSeq(y, 1, n)[j] = y[j]
        BY <1>1, <2>1, <3>1
      <4> QED
        BY <2>1, <4>1, <4>2
    <3>3. n = 0 \/ ~isASCIIDigit(y[n])
      BY <2>1, <3>1, <3>2
    <3>4. NumberFrom(x, n)
      BY <1>1, <2>1, <3>1, TailNumber
    <3>5. NumberFrom(y, n)
      BY <1>1, <2>1, <3>1, <3>3, TailNumber
    <3>6. Loop(x, y)[0] < 0
      BY <1>1, <2>1, <3>1, <3>2, <3>4, <3>5, LoopNatural
    <3> QED
      BY <2>1, <3>6 DEF Less, natCompare
  <2> QED
    BY <2>1 DEF NaturalOrder
<1> QED
  BY <1>1, Names, PTL
=============================================================================
