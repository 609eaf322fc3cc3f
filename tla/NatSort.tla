------------------------------ MODULE NatSort -------------------------------
(***************************************************************************)
(* The order of a device's interfaces (natCompare in runner/libvirt/       *)
(* helper.go and the function given to sort.Slice in buildInventory).  A   *)
(* name is a sequence of bytes.  sort.Slice leaves the slice in an         *)
(* unspecified order unless the function is a strict weak order; the names *)
(* come from the ports of the DOT file, so nothing is known about them.    *)
(*                                                                         *)
(*   x, y, z   three names                                                 *)
(***************************************************************************)
EXTENDS Integers, Sequences

CONSTANTS
  Byte,    \* the bytes that names are made of
  MaxLen,  \* the longest name
  MaxInt   \* the largest int

ASSUME NatSortAssumption ==
  Byte \subseteq 0..255 /\ MaxLen \in Nat /\ MaxInt \in Nat

isASCIIDigit(c) == c \in 48..57

\* Bytes after the first i of s that are all digits, or all not: where the
\* run that starts there may be cut.
Alike(s, i) ==
  {n \in (i + 1)..Len(s) :
     \A j \in (i + 1)..n : isASCIIDigit(s[j]) <=> isASCIIDigit(s[i + 1])}

\* The end of the chunk that nextChunk takes when i bytes of s are gone.
ChunkEnd(s, i) == CHOOSE n \in Alike(s, i) : \A m \in Alike(s, i) : m <= n

nextChunk(s, i) == SubSeq(s, i + 1, ChunkEnd(s, i))

\* strconv.Atoi of a chunk of digits, digit by digit.
Digits(s) ==
  LET upTo[n \in 0..Len(s)] ==
        IF n = 0 THEN 0 ELSE 10 * upTo[n - 1] + (s[n] - 48)
  IN  upTo

Atoi(s) == Digits(s)[Len(s)]

\* strings.Compare
Compare(s, t) ==
  LET differ == {i \in 1..Len(s) \intersect 1..Len(t) : s[i] # t[i]}
      first == CHOOSE i \in differ : \A j \in differ : i <= j
  IN  IF s = t THEN 0
      ELSE IF differ = {} THEN (IF Len(s) < Len(t) THEN -1 ELSE 1)
      ELSE IF s[first] < t[first] THEN -1 ELSE 1

Numeric(cs, ct) == isASCIIDigit(cs[1]) /\ isASCIIDigit(ct[1])

\* Mutant: chunks of digits are compared like the others.
CompareChunks_Plain(cs, ct) == Compare(cs, ct)

\* Mutant: chunks of digits with the same value are taken for equal.
CompareChunks_NoTie(cs, ct) ==
  IF Numeric(cs, ct)
  THEN CASE Atoi(cs) > Atoi(ct) -> 1 [] Atoi(cs) < Atoi(ct) -> -1 [] OTHER -> 0
  ELSE Compare(cs, ct)

\* One turn of the loop of natCompare: not 0 if it returns.
CompareChunks(cs, ct) ==
  CASE Numeric(cs, ct) /\ Atoi(cs) > Atoi(ct) -> 1
    [] Numeric(cs, ct) /\ Atoi(cs) < Atoi(ct) -> -1
    [] OTHER -> Compare(cs, ct)

\* What the loop of natCompare returns once i bytes of each name are gone; the
\* chunks that it goes past are the same in both.
Loop(s, t) ==
  LET from[i \in 0..Len(s)] ==
        IF i >= Len(s) \/ i >= Len(t) THEN Len(s) - Len(t)
        ELSE LET c == CompareChunks(nextChunk(s, i), nextChunk(t, i))
             IN  IF c # 0 THEN c ELSE from[ChunkEnd(s, i)]
  IN  from

natCompare(s, t) == Loop(s, t)[0]

\* mustAtoi panics on a number that is no int, if the loop comes to it.
Panics(s, t) ==
  LET from[i \in 0..Len(s)] ==
        /\ i < Len(s) /\ i < Len(t)
        /\ LET cs == nextChunk(s, i)
               ct == nextChunk(t, i)
           IN  \/ Numeric(cs, ct) /\ (Atoi(cs) > MaxInt \/ Atoi(ct) > MaxInt)
               \/ CompareChunks(cs, ct) = 0 /\ from[ChunkEnd(s, i)]
  IN  from[0]

Eth0 == <<101, 116, 104, 48>>

\* The function given to sort.Slice.
Less(s, t) ==
  IF s = Eth0 THEN t # Eth0 ELSE t # Eth0 /\ natCompare(s, t) < 0

----------------------------------------------------------------------------

VARIABLES x, y, z

Name == (UNION {[1..n -> Byte] : n \in 0..MaxLen}) \union {Eth0}

Init == x \in Name /\ y \in Name /\ z = <<>>

\* A third name.
Next == z = <<>> /\ z' \in Name \ {<<>>} /\ UNCHANGED <<x, y>>

Spec == Init /\ [][Next]_<<x, y, z>>

Comparable == ~Panics(x, y) /\ ~Panics(y, z) /\ ~Panics(x, z)

\* The function is a strict total order of the names: two names are equal, or
\* one of them is less than the other; it is transitive; eth0 comes first.
StrictOrder ==
  Comparable =>
    /\ Less(x, y) => ~Less(y, x)
    /\ x = y \/ Less(x, y) \/ Less(y, x)
    /\ Less(x, y) /\ Less(y, z) => Less(x, z)
    /\ x # Eth0 => ~Less(x, Eth0)

\* Names that agree up to a number are in the order of the numbers.
NaturalOrder ==
  \A n \in 0..Len(x) :
    LET a == SubSeq(x, n + 1, Len(x))
        b == SubSeq(y, n + 1, Len(y))
        Number(s) == s # <<>> /\ \A i \in 1..Len(s) : isASCIIDigit(s[i])
    IN  /\ n <= Len(y) /\ SubSeq(x, 1, n) = SubSeq(y, 1, n)
        /\ (n = 0 \/ ~isASCIIDigit(x[n])) /\ Eth0 \notin {x, y}
        /\ Number(a) /\ Number(b) /\ Atoi(a) < Atoi(b) /\ ~Panics(x, y)
        => Less(x, y)

=============================================================================
