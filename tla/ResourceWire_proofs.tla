-------------------------- MODULE ResourceWire_proofs --------------------------
(* Theorems about the resource wire codec, for every resource, every damage   *)
(* of its wire form and every format: any base, widths and list of fields.    *)
(* The decoder accepts exactly the wire forms, and gives back what was        *)
(* encoded; it stops at the first defect; what it has read is canonical; the  *)
(* encoder writes the bytes that it reserved.  The numbers, concatenations    *)
(* and lengths of the format are recursive functions: what they compute is    *)
(* proved by induction up to a number, with a set in place of the predicate.  *)
EXTENDS ResourceWire, SequenceTheorems, WellFoundedInduction, TLAPS

-----------------------------------------------------------------------------
(* Induction up to n, with a set for the predicate: the least number that is  *)
(* not in the set cannot be.                                                  *)
LEMMA UpTo ==
  ASSUME NEW n \in Nat, NEW T, 0 \in T, \A i \in 0 .. n - 1 : i \in T => i + 1 \in T
  PROVE  0 .. n \subseteq T
<1> SUFFICES ASSUME NEW m \in 0 .. n, m \notin T
             PROVE  FALSE
  OBVIOUS
<1> DEFINE Bad == {i \in 0 .. n : i \notin T}
<1> DEFINE Less == OpToRel(<, Nat)
<1>1. PICK x \in Bad : \A y \in Bad : ~(<<y, x>> \in Less)
  <2>1. IsWellFoundedOn(Less, Nat)
    BY NatLessThanWellFounded
  <2>2. Bad \subseteq Nat /\ Bad # {}
    OBVIOUS
  <2> HIDE DEF Bad, Less
  <2>. QED
    BY <2>1, <2>2, WFMin, Zenon
<1>2. x \in 0 .. n /\ x \notin T
  OBVIOUS
<1>3. x - 1 \in 0 .. n - 1
  BY <1>2
<1>4. x - 1 \in T
  <2>1. SUFFICES ASSUME x - 1 \in Bad
                 PROVE  FALSE
    BY <1>3
  <2>2. <<x - 1, x>> \in Less
    BY <1>2, <1>3 DEF OpToRel
  <2>. QED
    BY <1>1, <2>1, <2>2
<1>5. (x - 1) + 1 = x
  BY <1>2
<1>. QED
  BY <1>2, <1>3, <1>4, <1>5

(* A recurrence over 0 .. n has one solution.                                 *)
Recurrence(n, V, a, g) == n \in Nat /\ a \in V /\ g \in [1 .. n -> [V -> V]]

Solution(f, n, V, a, g) ==
  /\ f \in [0 .. n -> V]
  /\ f[0] = a
  /\ \A i \in 1 .. n : f[i] = g[i][f[i - 1]]

SameRecurrence(f, h, n) ==
  /\ n \in Nat
  /\ f = [i \in 0 .. n |-> f[i]]
  /\ h = [i \in 0 .. n |-> h[i]]
  /\ f[0] = h[0]
  /\ \A i \in 1 .. n : f[i - 1] = h[i - 1] => f[i] = h[i]

(* Two solutions of a recurrence agree.                                       *)
LEMMA RecursionUnique ==
  ASSUME NEW n, NEW f, NEW h, SameRecurrence(f, h, n)
  PROVE  f = h
<1> USE DEF SameRecurrence
<1> DEFINE T == {i \in 0 .. n : f[i] = h[i]}
<1>1. 0 \in T /\ n \in Nat
  OBVIOUS
<1>2. ASSUME NEW i \in 0 .. n - 1, i \in T
      PROVE  i + 1 \in T
  <2>1. i + 1 \in 1 .. n /\ (i + 1) - 1 = i
    BY <1>1
  <2>2. f[i] = h[i]
    BY <1>2
  <2>3. f[i + 1] = h[i + 1]
    BY <2>1, <2>2
  <2>. QED
    BY <2>1, <2>3
<1>3. 0 .. n \subseteq T
  <2> HIDE DEF T, SameRecurrence
  <2>. QED
    BY <1>1, <1>2, UpTo
<1>. QED
  BY <1>3

(* Every recurrence has a solution.                                           *)
LEMMA RecursionExists ==
  ASSUME NEW n, NEW V, NEW a, NEW g, Recurrence(n, V, a, g)
  PROVE  \E f : Solution(f, n, V, a, g)
<1> USE DEF Recurrence
<1> DEFINE Solves(f, m) ==
             /\ f \in [0 .. m -> V] /\ f[0] = a
             /\ \A i \in 1 .. m : f[i] = g[i][f[i - 1]]
<1> DEFINE T == {m \in 0 .. n : \E f : Solves(f, m)}
<1>1. 0 \in T
  <2>1. Solves([i \in 0 .. 0 |-> a], 0)
    OBVIOUS
  <2> HIDE DEF Solves
  <2>. QED
    BY <2>1
<1>2. ASSUME NEW m \in 0 .. n - 1, m \in T
      PROVE  m + 1 \in T
  <2>1. PICK f : Solves(f, m)
    BY <1>2
  <2> DEFINE next_f == [i \in 0 .. m + 1 |-> IF i = m + 1 THEN g[m + 1][f[m]] ELSE f[i]]
  <2>2. g[m + 1][f[m]] \in V
    BY <2>1
  <2>3. next_f \in [0 .. m + 1 -> V] /\ next_f[0] = a
    BY <2>1, <2>2
  <2>4. ASSUME NEW i \in 1 .. m + 1
        PROVE  next_f[i] = g[i][next_f[i - 1]]
    <3>1. i - 1 \in 0 .. m /\ next_f[i - 1] = f[i - 1]
      OBVIOUS
    <3>2. CASE i = m + 1
      BY <3>1, <3>2
    <3>3. CASE i # m + 1
      BY <3>1, <3>3, <2>1
    <3>. QED
      BY <3>2, <3>3
  <2>5. Solves(next_f, m + 1)
    BY <2>3, <2>4
  <2> HIDE DEF Solves, next_f
  <2>. QED
    BY <2>5
<1>3. 0 .. n \subseteq T
  <2>1. n \in Nat
    OBVIOUS
  <2> HIDE DEF T, Recurrence
  <2>. QED
    BY <1>1, <1>2, <2>1, UpTo
<1>4. PICK f : Solves(f, n)
  BY <1>3
<1>. QED
  BY <1>4 DEF Solution

(* The low digit of a number, and the rest of it.                             *)
LEMMA DivMod ==
  ASSUME NEW b \in Nat \ {0}, NEW n \in Nat, NEW d \in 0 .. b - 1
  PROVE  /\ (n * b + d) \div b = n
         /\ (n * b + d) % b = d
         /\ n \div b \in Nat
         /\ n % b \in 0 .. b - 1
         /\ n * b + d \in Nat
<1>1. (n * b + d) \div b = n
  OBVIOUS
<1>2. (n * b + d) % b = d
  OBVIOUS
<1>3. n \div b \in Nat /\ n % b \in 0 .. b - 1
  OBVIOUS
<1>4. n * b + d \in Nat
  OBVIOUS
<1>. QED
  BY <1>1, <1>2, <1>3, <1>4

-----------------------------------------------------------------------------
(* Numbers.                                                                   *)
LEMMA ShiftedIs ==
  ASSUME NEW n \in Nat, NEW width \in Nat
  PROVE  \E f \in [0 .. width -> Nat] :
           /\ f[0] = n
           /\ \A i \in 1 .. width : f[i] = f[i - 1] \div Base
           /\ BigEndian(n, width) = [i \in 1 .. width |-> f[width - i] % Base]
<1> DEFINE Solves(f) == f = [i \in 0 .. width |-> IF i = 0 THEN n ELSE f[i - 1] \div Base]
<1> DEFINE shifted == CHOOSE f : Solves(f)
<1> DEFINE g == [i \in 1 .. width |-> [m \in Nat |-> m \div Base]]
<1>1. Base \in Nat \ {0}
  BY FormatAssumption
<1>2. \A m \in Nat : m \div Base \in Nat
  BY <1>1
<1>3. g \in [1 .. width -> [Nat -> Nat]]
  BY <1>2
<1>4. \E f \in [0 .. width -> Nat] :
        f[0] = n /\ \A i \in 1 .. width : f[i] = g[i][f[i - 1]]
  <2>1. Recurrence(width, Nat, n, g)
    BY <1>3 DEF Recurrence
  <2>2. PICK f : Solution(f, width, Nat, n, g)
    BY <2>1, RecursionExists
  <2>. QED
    BY <2>2 DEF Solution
<1>5. PICK f \in [0 .. width -> Nat] :
        f[0] = n /\ \A i \in 1 .. width : f[i] = g[i][f[i - 1]]
  BY <1>4
<1>6. f[0] = n /\ \A i \in 1 .. width : f[i] = f[i - 1] \div Base
  <2>1. \A i \in 1 .. width : f[i - 1] \in Nat
    OBVIOUS
  <2>2. \A i \in 1 .. width, m \in Nat : g[i][m] = m \div Base
    OBVIOUS
  <2> HIDE DEF g
  <2>. QED
    BY <1>5, <2>1, <2>2, Zenon
<1>7. Solves(f)
  BY <1>6
<1>8. Solves(shifted)
  <2> HIDE DEF Solves
  <2>. QED
    BY <1>7
<1>9. shifted = f
  <2>1. /\ shifted = [i \in 0 .. width |-> shifted[i]] /\ shifted[0] = n
        /\ \A i \in 1 .. width : shifted[i] = shifted[i - 1] \div Base
    <3> HIDE DEF shifted
    <3>1. shifted = [i \in 0 .. width |-> IF i = 0 THEN n ELSE shifted[i - 1] \div Base]
      BY <1>8, Zenon
    <3>2. \A i \in 0 .. width : shifted[i] = IF i = 0 THEN n ELSE shifted[i - 1] \div Base
      BY <3>1, Zenon
    <3>3. shifted = [i \in 0 .. width |-> shifted[i]]
      BY <3>1, <3>2, Zenon
    <3>4. 0 \in 0 .. width /\ \A i \in 1 .. width : i \in 0 .. width /\ i # 0
      OBVIOUS
    <3>. QED
      BY <3>2, <3>3, <3>4, Zenon
  <2> HIDE DEF shifted
  <2>2. f = [i \in 0 .. width |-> f[i]]
    OBVIOUS
  <2>3. \A i \in 1 .. width : shifted[i - 1] = f[i - 1] => shifted[i] = f[i]
    BY <1>6, <2>1
  <2>4. SameRecurrence(shifted, f, width)
    BY <1>6, <2>1, <2>2, <2>3, Zenon DEF SameRecurrence
  <2>. QED
    BY <2>4, RecursionUnique
<1>10. BigEndian(n, width) = [i \in 1 .. width |-> shifted[width - i] % Base]
  BY DEF BigEndian
<1> HIDE DEF shifted
<1>. QED
  BY <1>6, <1>9, <1>10

(* to_be_bytes returns as many bytes as the integer is wide.                  *)
LEMMA BigEndianTyped ==
  ASSUME NEW n \in Nat, NEW width \in Nat
  PROVE  /\ BigEndian(n, width) \in [1 .. width -> Byte]
         /\ BigEndian(n, width) \in Seq(Byte)
         /\ Len(BigEndian(n, width)) = width
<1>1. PICK f \in [0 .. width -> Nat] :
        BigEndian(n, width) = [i \in 1 .. width |-> f[width - i] % Base]
  BY ShiftedIs, ZenonT(30)
<1>2. \A i \in 1 .. width : f[width - i] % Base \in Byte
  <2>. TAKE i \in 1 .. width
  <2>1. f[width - i] \in Nat /\ Base \in Nat \ {0}
    BY FormatAssumption
  <2>2. 0 \in 0 .. Base - 1
    BY <2>1
  <2>. QED
    BY <2>1, <2>2, DivMod, Zenon DEF Byte
<1>3. BigEndian(n, width) \in [1 .. width -> Byte]
  BY <1>1, <1>2
<1>. QED
  BY <1>3

(* from_be_bytes is the last value of a recurrence.                           *)
LEMMA ValueIs ==
  ASSUME NEW bytes \in Seq(Byte)
  PROVE  \E f \in [0 .. Len(bytes) -> Nat] :
           /\ f[0] = 0
           /\ \A i \in 1 .. Len(bytes) : f[i] = f[i - 1] * Base + bytes[i]
           /\ Number(bytes) = f[Len(bytes)]
<1> DEFINE n == Len(bytes)
<1> DEFINE Solves(f) == f = [i \in 0 .. n |-> IF i = 0 THEN 0 ELSE f[i - 1] * Base + bytes[i]]
<1> DEFINE value == CHOOSE f : Solves(f)
<1> DEFINE g == [i \in 1 .. n |-> [m \in Nat |-> m * Base + bytes[i]]]
<1>1. Base \in Nat \ {0} /\ n \in Nat /\ \A i \in 1 .. n : bytes[i] \in Byte
  BY FormatAssumption
<1>2. \A m \in Nat, d \in Byte : m * Base + d \in Nat
  BY <1>1, DivMod DEF Byte
<1>3. g \in [1 .. n -> [Nat -> Nat]]
  BY <1>1, <1>2
<1>4. \E f \in [0 .. n -> Nat] :
        f[0] = 0 /\ \A i \in 1 .. n : f[i] = g[i][f[i - 1]]
  <2> HIDE DEF g, n
  <2>1. Recurrence(n, Nat, 0, g)
    BY <1>1, <1>3 DEF Recurrence
  <2>2. PICK f : Solution(f, n, Nat, 0, g)
    BY <2>1, RecursionExists
  <2>. QED
    BY <2>2 DEF Solution
<1>5. PICK f \in [0 .. n -> Nat] :
        f[0] = 0 /\ \A i \in 1 .. n : f[i] = g[i][f[i - 1]]
  BY <1>4
<1>6. f[0] = 0 /\ \A i \in 1 .. n : f[i] = f[i - 1] * Base + bytes[i]
  <2>1. \A i \in 1 .. n : f[i - 1] \in Nat
    <3> HIDE DEF n
    <3>. QED
      BY <1>1
  <2>2. \A i \in 1 .. n, m \in Nat : g[i][m] = m * Base + bytes[i]
    <3> HIDE DEF n
    <3>. QED
      OBVIOUS
  <2> HIDE DEF g, n
  <2>. QED
    BY <1>5, <2>1, <2>2, Zenon
<1>7. Solves(f)
  <2> HIDE DEF n
  <2>. QED
    BY <1>1, <1>6
<1>8. Solves(value)
  <2> HIDE DEF Solves
  <2>. QED
    BY <1>7
<1>9. value = f
  <2> HIDE DEF value, n
  <2>1. value = [i \in 0 .. n |-> IF i = 0 THEN 0 ELSE value[i - 1] * Base + bytes[i]]
    BY <1>8
  <2>2. value = [i \in 0 .. n |-> value[i]] /\ value[0] = 0
    BY <1>1, <2>1
  <2>3. \A i \in 1 .. n : value[i] = value[i - 1] * Base + bytes[i]
    BY <1>1, <2>1
  <2>4. f = [i \in 0 .. n |-> f[i]]
    OBVIOUS
  <2>5. \A i \in 1 .. n : value[i - 1] = f[i - 1] => value[i] = f[i]
    BY <1>6, <2>3, Zenon
  <2>6. SameRecurrence(value, f, n)
    BY <1>1, <1>6, <2>2, <2>4, <2>5, Zenon DEF SameRecurrence
  <2>. QED
    BY <2>6, RecursionUnique
<1>10. Number(bytes) = value[n]
  BY DEF Number
<1> HIDE DEF value
<1>. QED
  BY <1>6, <1>9, <1>10

(* from_be_bytes returns a number.                                            *)
LEMMA NumberNat ==
  ASSUME NEW bytes \in Seq(Byte)
  PROVE  Number(bytes) \in Nat
<1>1. PICK f \in [0 .. Len(bytes) -> Nat] : Number(bytes) = f[Len(bytes)]
  BY ValueIs
<1>. QED
  BY <1>1

(* to_be_bytes undoes from_be_bytes.                                          *)
LEMMA BigEndianOfNumber ==
  ASSUME NEW bytes \in Seq(Byte)
  PROVE  BigEndian(Number(bytes), Len(bytes)) = bytes
<1> DEFINE n == Len(bytes)
<1>1. PICK value \in [0 .. n -> Nat] :
        /\ value[0] = 0
        /\ \A i \in 1 .. n : value[i] = value[i - 1] * Base + bytes[i]
        /\ Number(bytes) = value[n]
  BY ValueIs
<1>2. n \in Nat /\ Number(bytes) \in Nat /\ \A i \in 1 .. n : bytes[i] \in Byte
  BY NumberNat
<1>3. PICK shifted \in [0 .. n -> Nat] :
        /\ shifted[0] = Number(bytes)
        /\ \A i \in 1 .. n : shifted[i] = shifted[i - 1] \div Base
        /\ BigEndian(Number(bytes), n) = [i \in 1 .. n |-> shifted[n - i] % Base]
  BY <1>2, ShiftedIs
<1> HIDE DEF n
<1>4. \A i \in 1 .. n : value[i] \div Base = value[i - 1] /\ value[i] % Base = bytes[i]
  <2>. TAKE i \in 1 .. n
  <2>1. value[i - 1] \in Nat /\ bytes[i] \in 0 .. Base - 1 /\ Base \in Nat \ {0}
    BY <1>2, FormatAssumption DEF Byte
  <2>2. value[i] = value[i - 1] * Base + bytes[i]
    BY <1>1
  <2>3. /\ (value[i - 1] * Base + bytes[i]) \div Base = value[i - 1]
        /\ (value[i - 1] * Base + bytes[i]) % Base = bytes[i]
    BY <2>1, DivMod, Zenon
  <2>. QED
    BY <2>2, <2>3, Zenon
<1> DEFINE T == {i \in 0 .. n : shifted[i] = value[n - i]}
<1>5. 0 \in T
  BY <1>1, <1>2, <1>3
<1>6. ASSUME NEW i \in 0 .. n - 1, i \in T
      PROVE  i + 1 \in T
  <2>1. i + 1 \in 1 .. n /\ n - i \in 1 .. n /\ (i + 1) - 1 = i /\ (n - i) - 1 = n - (i + 1)
    BY <1>2
  <2>2. shifted[i + 1] = value[n - i] \div Base
    BY <1>3, <1>6, <2>1
  <2>3. value[n - i] \div Base = value[n - (i + 1)]
    BY <1>4, <2>1
  <2>. QED
    BY <2>1, <2>2, <2>3
<1>7. 0 .. n \subseteq T
  <2> HIDE DEF T
  <2>. QED
    BY <1>2, <1>5, <1>6, UpTo
<1>8. \A i \in 1 .. n : shifted[n - i] % Base = bytes[i]
  <2>. TAKE i \in 1 .. n
  <2>1. n - i \in 0 .. n /\ n - (n - i) = i
    BY <1>2
  <2>2. shifted[n - i] = value[i]
    BY <1>7, <2>1
  <2>. QED
    BY <1>4, <2>2
<1>9. bytes = [i \in 1 .. n |-> bytes[i]]
  BY DEF n
<1>. QED
  BY <1>3, <1>8, <1>9 DEF n

-----------------------------------------------------------------------------
(* Concatenations of sequences of sequences.                                  *)
Flattening(f, s, A) ==
  /\ f \in [0 .. Len(s) -> Seq(A)]
  /\ f[0] = <<>>
  /\ \A i \in 1 .. Len(s) : f[i] = f[i - 1] \o s[i]

(* The parts can be added up, one after the other.                            *)
LEMMA FlatteningExists ==
  ASSUME NEW A, NEW s \in Seq(Seq(A))
  PROVE  \E f : Flattening(f, s, A)
<1> DEFINE n == Len(s)
<1> DEFINE g == [i \in 1 .. n |-> [t \in Seq(A) |-> t \o s[i]]]
<1>1. n \in Nat /\ \A i \in 1 .. n : s[i] \in Seq(A)
  OBVIOUS
<1>2. \A t \in Seq(A), u \in Seq(A) : t \o u \in Seq(A)
  OBVIOUS
<1>3. g \in [1 .. n -> [Seq(A) -> Seq(A)]]
  BY <1>1, <1>2
<1>4. <<>> \in Seq(A)
  OBVIOUS
<1>5. \A i \in 1 .. n : \A t \in Seq(A) : g[i][t] = t \o s[i]
  OBVIOUS
<1> HIDE DEF n, g
<1>6. Recurrence(n, Seq(A), <<>>, g)
  BY <1>1, <1>3, <1>4 DEF Recurrence
<1>7. PICK f : Solution(f, n, Seq(A), <<>>, g)
  BY <1>6, RecursionExists
<1>8. f \in [0 .. n -> Seq(A)] /\ f[0] = <<>>
  BY <1>7 DEF Solution
<1>9. \A i \in 1 .. n : f[i] = f[i - 1] \o s[i]
  <2>. TAKE i \in 1 .. n
  <2>1. f[i - 1] \in Seq(A)
    BY <1>1, <1>8
  <2>2. f[i] = g[i][f[i - 1]]
    BY <1>7 DEF Solution
  <2>. QED
    BY <1>5, <2>1, <2>2, Zenon
<1>10. Flattening(f, s, A)
  BY <1>8, <1>9, Zenon DEF Flattening, n
<1>. QED
  BY <1>10

(* There is one way to add them up.                                           *)
LEMMA FlatteningUnique ==
  ASSUME NEW A, NEW s \in Seq(Seq(A)), NEW f, NEW h,
         Flattening(f, s, A), Flattening(h, s, A)
  PROVE  f = h
<1> DEFINE n == Len(s)
<1>1. n \in Nat
  OBVIOUS
<1>2. f = [i \in 0 .. n |-> f[i]] /\ h = [i \in 0 .. n |-> h[i]] /\ f[0] = h[0]
  BY DEF Flattening
<1>3. \A i \in 1 .. n : f[i - 1] = h[i - 1] => f[i] = h[i]
  BY Zenon DEF Flattening
<1> HIDE DEF n
<1>4. SameRecurrence(f, h, n)
  BY <1>1, <1>2, <1>3, Zenon DEF SameRecurrence
<1>. QED
  BY <1>4, RecursionUnique

(* FlattenSeq is the last of the sums.                                        *)
LEMMA FlattenIs ==
  ASSUME NEW A, NEW s \in Seq(Seq(A)), NEW f, Flattening(f, s, A)
  PROVE  FlattenSeq(s) = f[Len(s)]
<1> DEFINE n == Len(s)
<1> DEFINE Solves(h) == h = [i \in 1 .. n |-> IF i = 1 THEN s[i] ELSE h[i - 1] \o s[i]]
<1> DEFINE c == CHOOSE h : Solves(h)
<1>0. n \in Nat
  OBVIOUS
<1>1. CASE n = 0
  <2>1. s = <<>> /\ f[0] = <<>>
    BY <1>1 DEF Flattening
  <2>2. FlattenSeq(s) = s
    BY <1>1 DEF FlattenSeq
  <2>. QED
    BY <1>1, <2>1, <2>2
<1>2. CASE n # 0
  <2>1. \A i \in 1 .. n : f[i] = IF i = 1 THEN s[i] ELSE f[i - 1] \o s[i]
    <3>. TAKE i \in 1 .. n
    <3>1. f[i] = f[i - 1] \o s[i]
      BY DEF Flattening
    <3>2. s[i] \in Seq(A)
      OBVIOUS
    <3>3. CASE i = 1
      <4>1. f[i - 1] = <<>>
        BY <3>3 DEF Flattening
      <4>. QED
        BY <3>1, <3>2, <3>3, <4>1
    <3>. QED
      BY <3>1, <3>3, Zenon
  <2>2. Solves([i \in 1 .. n |-> f[i]])
    <3> HIDE DEF n
    <3>. QED
      BY <1>0, <2>1
  <2>3. Solves(c)
    <3> HIDE DEF Solves
    <3>. QED
      BY <2>2
  <2> DEFINE h == [i \in 0 .. n |-> IF i = 0 THEN <<>> ELSE c[i]]
  <2>4. \A i \in 1 .. n : c[i] = IF i = 1 THEN s[i] ELSE c[i - 1] \o s[i]
    <3> HIDE DEF c, n
    <3>. QED
      BY <2>3, <1>0
  <2>5. h[0] = <<>> /\ \A i \in 1 .. n : h[i] = h[i - 1] \o s[i]
    <3>1. h[0] = <<>> /\ \A i \in 1 .. n : h[i] = c[i]
      <4> HIDE DEF c, n
      <4>. QED
        BY <1>0
    <3>2. ASSUME NEW i \in 1 .. n
          PROVE  h[i] = h[i - 1] \o s[i]
      <4>1. s[i] \in Seq(A)
        OBVIOUS
      <4> HIDE DEF c, n, h
      <4>2. CASE i = 1
        <5>1. h[i - 1] = <<>>
          BY <3>1, <4>2
        <5>. QED
          BY <2>4, <3>1, <4>1, <4>2, <5>1
      <4>3. CASE i # 1
        <5>1. i - 1 \in 1 .. n
          BY <1>0, <4>3
        <5>. QED
          BY <2>4, <3>1, <4>3, <5>1
      <4>. QED
        BY <4>2, <4>3
    <3>. QED
      BY <3>1, <3>2, Zenon
  <2>6. h = f
    <3>1. h = [i \in 0 .. n |-> h[i]] /\ f = [i \in 0 .. n |-> f[i]] /\ h[0] = f[0]
      BY DEF Flattening
    <3>2. \A i \in 1 .. n : h[i - 1] = f[i - 1] => h[i] = f[i]
      <4> HIDE DEF h
      <4>. QED
        BY <2>5, Zenon DEF Flattening
    <3> HIDE DEF h, n
    <3>3. SameRecurrence(h, f, n)
      BY <1>0, <3>1, <3>2, Zenon DEF SameRecurrence
    <3>. QED
      BY <3>3, RecursionUnique
  <2>7. FlattenSeq(s) = c[n]
    BY <1>2 DEF FlattenSeq
  <2>8. c[n] = h[n]
    <3> HIDE DEF c, n
    <3>. QED
      BY <1>0, <1>2
  <2>. QED
    <3> HIDE DEF h, c
    <3>. QED
      BY <2>6, <2>7, <2>8
<1>. QED
  BY <1>1, <1>2

(* One more part is concatenated at the end.                                  *)
LEMMA FlattenAppend ==
  ASSUME NEW A, NEW s \in Seq(Seq(A)), NEW t \in Seq(A)
  PROVE  /\ FlattenSeq(s) \in Seq(A)
         /\ FlattenSeq(Append(s, t)) = FlattenSeq(s) \o t
<1>1. PICK f : Flattening(f, s, A)
  BY FlatteningExists
<1> DEFINE n == Len(s)
<1> DEFINE h == [i \in 0 .. n + 1 |-> IF i = n + 1 THEN f[n] \o t ELSE f[i]]
<1> DEFINE u == Append(s, t)
<1>2. /\ n \in Nat /\ Len(u) = n + 1 /\ u[n + 1] = t /\ u \in Seq(Seq(A))
      /\ \A i \in 1 .. n : u[i] = s[i]
  OBVIOUS
<1>3. /\ f \in [0 .. n -> Seq(A)] /\ f[0] = <<>>
      /\ \A i \in 1 .. n : f[i] = f[i - 1] \o s[i]
  BY <1>1 DEF Flattening
<1> HIDE DEF n, u
<1>4. f[n] \in Seq(A) /\ f[n] \o t \in Seq(A)
  BY <1>2, <1>3
<1>5. h \in [0 .. n + 1 -> Seq(A)] /\ h[0] = <<>>
  BY <1>2, <1>3, <1>4
<1>6. ASSUME NEW i \in 1 .. n + 1
      PROVE  h[i] = h[i - 1] \o u[i]
  <2>1. CASE i = n + 1
    <3>1. h[i] = f[n] \o t /\ h[i - 1] = f[n] /\ u[i] = t
      BY <1>2, <2>1
    <3> HIDE DEF h
    <3>. QED
      BY <3>1, Zenon
  <2>2. CASE i # n + 1
    <3>1. i \in 1 .. n /\ h[i] = f[i] /\ h[i - 1] = f[i - 1]
      BY <1>2, <2>2
    <3>2. f[i] = f[i - 1] \o s[i] /\ u[i] = s[i]
      BY <1>2, <1>3, <3>1
    <3> HIDE DEF h
    <3>. QED
      BY <3>1, <3>2, Zenon
  <2>. QED
    BY <2>1, <2>2
<1>7. h[n + 1] = f[n] \o t
  BY <1>2
<1> HIDE DEF h
<1>8. Flattening(h, u, A)
  BY <1>2, <1>5, <1>6 DEF Flattening
<1>9. FlattenSeq(u) = h[n + 1]
  BY <1>2, <1>8, FlattenIs
<1>10. FlattenSeq(s) = f[n]
  BY <1>1, FlattenIs DEF n
<1>. QED
  BY <1>4, <1>7, <1>9, <1>10 DEF u

(* No parts add up to nothing.                                                *)
LEMMA FlattenEmpty == FlattenSeq(<<>>) = <<>>
  BY DEF FlattenSeq

(* What the first parts add up to is the beginning of what all add up to.     *)
LEMMA FlattenFront ==
  ASSUME NEW A, NEW s \in Seq(Seq(A)), NEW f, Flattening(f, s, A), NEW k \in 0 .. Len(s)
  PROVE  FlattenSeq(SubSeq(s, 1, k)) = f[k]
<1> DEFINE u == SubSeq(s, 1, k)
<1> DEFINE h == [i \in 0 .. k |-> f[i]]
<1>1. /\ k \in Nat /\ u \in Seq(Seq(A)) /\ Len(u) = k
      /\ \A i \in 1 .. k : u[i] = s[i]
  OBVIOUS
<1>2. /\ f \in [0 .. Len(s) -> Seq(A)] /\ f[0] = <<>>
      /\ \A i \in 1 .. Len(s) : f[i] = f[i - 1] \o s[i]
  BY DEF Flattening
<1>3. h \in [0 .. k -> Seq(A)] /\ h[0] = <<>> /\ h[k] = f[k]
  <2>1. \A i \in 0 .. k : i \in 0 .. Len(s)
    OBVIOUS
  <2>2. \A i \in 0 .. k : f[i] \in Seq(A)
    BY <1>2, <2>1
  <2>. QED
    BY <1>1, <1>2, <2>2
<1>4. ASSUME NEW i \in 1 .. k
      PROVE  h[i] = h[i - 1] \o u[i]
  <2>1. i \in 1 .. Len(s) /\ h[i] = f[i] /\ h[i - 1] = f[i - 1]
    OBVIOUS
  <2> HIDE DEF h, u
  <2>. QED
    BY <1>1, <1>2, <2>1
<1> HIDE DEF h, u
<1>5. Flattening(h, u, A)
  BY <1>1, <1>3, <1>4 DEF Flattening
<1>. QED
  BY <1>1, <1>3, <1>5, FlattenIs DEF u

(* A concatenation begins with that of its first parts.                       *)
LEMMA FlattenSplit ==
  ASSUME NEW A, NEW s \in Seq(Seq(A)), NEW k \in 0 .. Len(s)
  PROVE  \E t \in Seq(A) : FlattenSeq(s) = FlattenSeq(SubSeq(s, 1, k)) \o t
<1>1. PICK f : Flattening(f, s, A)
  BY FlatteningExists
<1> DEFINE n == Len(s)
<1>2. n \in Nat /\ k \in 0 .. n /\ \A i \in 1 .. n : s[i] \in Seq(A)
  OBVIOUS
<1>3. /\ f \in [0 .. n -> Seq(A)]
      /\ \A i \in 1 .. n : f[i] = f[i - 1] \o s[i]
  BY <1>1 DEF Flattening
<1> DEFINE T == {i \in 0 .. n : k <= i => \E t \in Seq(A) : f[i] = f[k] \o t}
<1> HIDE DEF n
<1>4. \E t \in Seq(A) : f[k] = f[k] \o t
  <2>1. f[k] \in Seq(A)
    BY <1>2, <1>3
  <2>2. <<>> \in Seq(A) /\ f[k] = f[k] \o <<>>
    BY <2>1
  <2>. QED
    BY <2>2
<1>5. 0 \in T
  <2>1. k <= 0 => k = 0
    BY <1>2
  <2>. QED
    BY <1>2, <1>4, <2>1
<1>6. ASSUME NEW i \in 0 .. n - 1, i \in T
      PROVE  i + 1 \in T
  <2>1. i + 1 \in 1 .. n /\ (i + 1) - 1 = i /\ i + 1 \in 0 .. n
    BY <1>2
  <2>2. SUFFICES ASSUME k <= i + 1
                 PROVE  \E t \in Seq(A) : f[i + 1] = f[k] \o t
    BY <2>1
  <2>3. CASE k = i + 1
    BY <1>4, <2>3
  <2>4. CASE k # i + 1
    <3>1. k <= i
      BY <1>2, <2>2, <2>4
    <3>2. PICK t \in Seq(A) : f[i] = f[k] \o t
      BY <1>6, <3>1
    <3>3. f[i + 1] = f[i] \o s[i + 1]
      BY <1>3, <2>1
    <3>4. s[i + 1] \in Seq(A) /\ f[k] \in Seq(A)
      BY <1>2, <1>3, <2>1
    <3>5. (f[k] \o t) \o s[i + 1] = f[k] \o (t \o s[i + 1])
      <4>1. t \in Seq(A)
        BY <3>2
      <4>2. \A x \in Seq(A), y \in Seq(A), z \in Seq(A) : (x \o y) \o z = x \o (y \o z)
        BY ConcatAssociative
      <4>. QED
        BY <3>4, <4>1, <4>2, Zenon
    <3>6. t \o s[i + 1] \in Seq(A)
      BY <3>2, <3>4
    <3>. QED
      BY <3>2, <3>3, <3>5, <3>6, Zenon
  <2>. QED
    BY <2>3, <2>4
<1>7. 0 .. n \subseteq T
  <2> HIDE DEF T
  <2>. QED
    BY <1>2, <1>5, <1>6, UpTo
<1>8. \E t \in Seq(A) : f[n] = f[k] \o t
  <2>1. n \in 0 .. n /\ k <= n
    BY <1>2
  <2>2. n \in T
    BY <1>7, <2>1, Zenon
  <2>. QED
    BY <2>1, <2>2, Zenon
<1>9. FlattenSeq(s) = f[n] /\ FlattenSeq(SubSeq(s, 1, k)) = f[k]
  BY <1>1, FlattenIs, FlattenFront DEF n
<1>. QED
  BY <1>8, <1>9

(* It goes on with the next part.                                             *)
LEMMA FlattenNext ==
  ASSUME NEW A, NEW s \in Seq(Seq(A)), NEW k \in 1 .. Len(s)
  PROVE  /\ FlattenSeq(SubSeq(s, 1, k - 1)) \in Seq(A)
         /\ FlattenSeq(SubSeq(s, 1, k)) = FlattenSeq(SubSeq(s, 1, k - 1)) \o s[k]
         /\ \E t \in Seq(A) :
              FlattenSeq(s) = (FlattenSeq(SubSeq(s, 1, k - 1)) \o s[k]) \o t
<1>1. /\ SubSeq(s, 1, k - 1) \in Seq(Seq(A)) /\ s[k] \in Seq(A)
      /\ k \in 0 .. Len(s)
  OBVIOUS
<1>2. SubSeq(s, 1, k) = Append(SubSeq(s, 1, k - 1), s[k])
  OBVIOUS
<1>3. /\ FlattenSeq(SubSeq(s, 1, k - 1)) \in Seq(A)
      /\ FlattenSeq(SubSeq(s, 1, k)) = FlattenSeq(SubSeq(s, 1, k - 1)) \o s[k]
  BY <1>1, <1>2, FlattenAppend
<1>4. \E t \in Seq(A) : FlattenSeq(s) = FlattenSeq(SubSeq(s, 1, k)) \o t
  BY <1>1, FlattenSplit
<1>. QED
  BY <1>3, <1>4

-----------------------------------------------------------------------------
(* Bytes at a position of other bytes.                                        *)
StandsAt(form, position_, wire_) ==
  /\ position_ + Len(form) <= Len(wire_)
  /\ SubSeq(wire_, position_ + 1, position_ + Len(form)) = form

(* Concatenation is associative.                                              *)
LEMMA ConcatAssoc ==
  ASSUME NEW A
  PROVE  \A x \in Seq(A), y \in Seq(A), z \in Seq(A) : (x \o y) \o z = x \o (y \o z)
BY ConcatAssociative

(* A longer beginning is a shorter one and what follows it.                   *)
LEMMA CutGrows ==
  ASSUME NEW A, NEW w \in Seq(A), NEW p \in 0 .. Len(w), NEW q \in p .. Len(w)
  PROVE  SubSeq(w, 1, p) \o SubSeq(w, p + 1, q) = SubSeq(w, 1, q)
<1>1. 1 \in 1 .. Len(w) + 1 /\ p \in 1 - 1 .. Len(w)
  OBVIOUS
<1>. QED
  BY <1>1, ConcatAdjacentSubSeq

(* Standing at a position, byte by byte.                                      *)
LEMMA StandsIndexed ==
  ASSUME NEW A, NEW w \in Seq(A), NEW form \in Seq(A), NEW p \in Nat
  PROVE  StandsAt(form, p, w) <=>
           /\ p + Len(form) <= Len(w)
           /\ \A i \in 1 .. Len(form) : w[p + i] = form[i]
<1> DEFINE u == SubSeq(w, p + 1, p + Len(form))
<1>1. SUFFICES ASSUME p + Len(form) <= Len(w)
               PROVE  u = form <=> \A i \in 1 .. Len(form) : w[p + i] = form[i]
  BY DEF StandsAt
<1>2. u \in Seq(A) /\ Len(u) = Len(form) /\ \A i \in 1 .. Len(form) : u[i] = w[p + i]
  BY <1>1
<1> HIDE DEF u
<1>3. ASSUME \A i \in 1 .. Len(form) : w[p + i] = form[i]
      PROVE  u = form
  <2>1. \A i \in 1 .. Len(u) : u[i] = form[i]
    BY <1>2, <1>3
  <2>. QED
    BY <1>2, <2>1, SeqEqual
<1>. QED
  BY <1>2, <1>3

(* A concatenation stands where its two parts stand in a row.                 *)
LEMMA StandsConcat ==
  ASSUME NEW A, NEW w \in Seq(A), NEW p \in Nat, NEW x \in Seq(A), NEW y \in Seq(A)
  PROVE  StandsAt(x \o y, p, w) <=> StandsAt(x, p, w) /\ StandsAt(y, p + Len(x), w)
<1> DEFINE z == x \o y
<1>1. /\ z \in Seq(A) /\ Len(z) = Len(x) + Len(y) /\ Len(x) \in Nat /\ Len(y) \in Nat
      /\ \A i \in 1 .. Len(x) : z[i] = x[i]
      /\ \A i \in 1 .. Len(y) : z[Len(x) + i] = y[i]
  OBVIOUS
<1> HIDE DEF z
<1>2. ASSUME StandsAt(z, p, w)
      PROVE  StandsAt(x, p, w) /\ StandsAt(y, p + Len(x), w)
  <2>1. /\ p + Len(z) <= Len(w)
        /\ \A i \in 1 .. Len(z) : w[p + i] = z[i]
    <3>1. z \in Seq(A)
      BY <1>1
    <3>. QED
      BY <1>2, <3>1, StandsIndexed
  <2>2. \A i \in 1 .. Len(x) : w[p + i] = x[i]
    <3>. TAKE i \in 1 .. Len(x)
    <3>1. i \in 1 .. Len(z)
      BY <1>1
    <3>. QED
      BY <1>1, <2>1, <3>1
  <2>3. \A i \in 1 .. Len(y) : w[(p + Len(x)) + i] = y[i]
    <3>. TAKE i \in 1 .. Len(y)
    <3>1. Len(x) + i \in 1 .. Len(z) /\ p + (Len(x) + i) = (p + Len(x)) + i
      BY <1>1
    <3>. QED
      BY <1>1, <2>1, <3>1
  <2>4. p + Len(x) <= Len(w) /\ (p + Len(x)) + Len(y) <= Len(w) /\ p + Len(x) \in Nat
    <3> HIDE DEF StandsAt
    <3>1. Len(w) \in Nat
      OBVIOUS
    <3>. QED
      BY <1>1, <2>1, <3>1
  <2>5. StandsAt(x, p, w)
    BY <2>2, <2>4, StandsIndexed
  <2>6. StandsAt(y, p + Len(x), w)
    BY <2>3, <2>4, StandsIndexed
  <2>. QED
    BY <2>5, <2>6
<1>3. ASSUME StandsAt(x, p, w), StandsAt(y, p + Len(x), w)
      PROVE  StandsAt(z, p, w)
  <2>1. p + Len(x) \in Nat
    BY <1>1
  <2>2. \A i \in 1 .. Len(x) : w[p + i] = x[i]
    BY <1>3, StandsIndexed
  <2>3. /\ (p + Len(x)) + Len(y) <= Len(w)
        /\ \A i \in 1 .. Len(y) : w[(p + Len(x)) + i] = y[i]
    BY <1>3, <2>1, StandsIndexed
  <2>4. \A i \in 1 .. Len(z) : w[p + i] = z[i]
    <3>. TAKE i \in 1 .. Len(z)
    <3>1. CASE i \in 1 .. Len(x)
      BY <1>1, <2>2, <3>1
    <3>2. CASE i \notin 1 .. Len(x)
      <4>1. /\ i - Len(x) \in 1 .. Len(y) /\ Len(x) + (i - Len(x)) = i
            /\ (p + Len(x)) + (i - Len(x)) = p + i
        BY <1>1, <3>2
      <4>. QED
        BY <1>1, <2>3, <4>1
    <3>. QED
      BY <3>1, <3>2
  <2>5. p + Len(z) <= Len(w)
    BY <1>1, <2>3
  <2>. QED
    BY <1>1, <2>4, <2>5, StandsIndexed
<1>. QED
  BY <1>2, <1>3 DEF z

(* What is written after x stands after x.                                    *)
LEMMA StandsAfter ==
  ASSUME NEW A, NEW x \in Seq(A), NEW y \in Seq(A), NEW z \in Seq(A)
  PROVE  /\ Len(x) <= Len((x \o y) \o z)
         /\ SubSeq((x \o y) \o z, 1, Len(x)) = x
         /\ StandsAt(y, Len(x), (x \o y) \o z)
<1> DEFINE w == (x \o y) \o z
<1>1. w \in Seq(A) /\ x \o y \in Seq(A) /\ 0 \in Nat
  OBVIOUS
<1>2. StandsAt(w, 0, w)
  BY DEF StandsAt
<1> HIDE DEF w
<1>3. StandsAt(x \o y, 0, w)
  BY <1>1, <1>2, StandsConcat DEF w
<1>4. StandsAt(x, 0, w) /\ StandsAt(y, 0 + Len(x), w)
  BY <1>1, <1>3, StandsConcat
<1>5. Len(x) <= Len(w) /\ SubSeq(w, 1, Len(x)) = x /\ 0 + Len(x) = Len(x)
  BY <1>4 DEF StandsAt
<1>. QED
  BY <1>4, <1>5 DEF w

(* Standing at the cursor is being a prefix of what the cursor has left.      *)
LEMMA StandsIsPrefix ==
  ASSUME NEW A, NEW w \in Seq(A), NEW form \in Seq(A), NEW p \in 0 .. Len(w)
  PROVE  IsPrefix(form, SubSeq(w, p + 1, Len(w))) <=> StandsAt(form, p, w)
<1> DEFINE rest == SubSeq(w, p + 1, Len(w))
<1>1. rest \in Seq(A) /\ Len(rest) = Len(w) - p /\ Len(form) \in Nat
  OBVIOUS
<1>2. SubSeq(form, 1, Len(form)) = form
  OBVIOUS
<1>3. Len(form) <= Len(rest) <=> p + Len(form) <= Len(w)
  BY <1>1
<1>4. ASSUME p + Len(form) <= Len(w)
      PROVE  SubSeq(rest, 1, Len(form)) = SubSeq(w, p + 1, p + Len(form))
  BY <1>4
<1> HIDE DEF rest
<1>. QED
  BY <1>2, <1>3, <1>4 DEF IsPrefix, StandsAt, rest

-----------------------------------------------------------------------------
(* One field: what is written is read, and what is read was written.          *)
LEMMA FieldTyped ==
  ASSUME NEW k \in DOMAIN Fields
  PROVE  /\ Fields[k].kind \in {"bytes", "number", "expiry"}
         /\ Fields[k].width \in Nat /\ Fields[k].width # 0
         /\ k \in 1 .. Len(Fields) /\ Len(Fields) \in Nat
         /\ Fits(k, ShortWidth)
         /\ \A n \in 0 .. Fields[k].width + 1 : Fits(n, LengthWidth)
<1> DEFINE Field == [kind : Kinds, width : Nat \ {0}]
<1>1. Fields \in Seq(Field)
  BY FormatAssumption
<1>2. /\ Fields[k] \in Field
      /\ k \in 1 .. Len(Fields) /\ Len(Fields) \in Nat
  <2> HIDE DEF Field
  <2>. QED
    BY <1>1
<1>3. k \in 0 .. Len(Fields)
  BY <1>2
<1>4. Fits(k, ShortWidth)
  BY <1>3, FormatAssumption
<1>5. \A n \in 0 .. Fields[k].width + 1 : Fits(n, LengthWidth)
  BY FormatAssumption
<1>. QED
  BY <1>2, <1>4, <1>5 DEF Kinds

(* The widths of frames, and the two option tags.                             *)
LEMMA WidthsTyped == ShortWidth \in Nat /\ LengthWidth \in Nat /\ 0 \in Byte /\ 1 \in Byte
BY FormatAssumption DEF Byte

OptionFits(field, bytes) ==
  field.kind = "expiry" => bytes[1] = (IF Len(bytes) = 1 THEN 0 ELSE 1)

(* The bytes of a value have a length and an option tag that the decoder      *)
(* takes, and are parsed to that value.                                       *)
LEMMA PayloadReads ==
  ASSUME NEW k \in DOMAIN Fields, NEW value, IsValue(Fields[k], value)
  PROVE  /\ Payload(Fields[k], value) \in Seq(Byte)
         /\ Len(Payload(Fields[k], value)) \in Lengths(Fields[k])
         /\ OptionFits(Fields[k], Payload(Fields[k], value))
         /\ Parsed(Fields[k], Payload(Fields[k], value)) = value
<1> DEFINE field == Fields[k]
<1> DEFINE payload == Payload(field, value)
<1>1. field.kind \in {"bytes", "number", "expiry"} /\ field.width \in Nat /\ field.width # 0
  BY FieldTyped
<1> HIDE DEF field
<1>2. CASE field.kind = "bytes"
  <2>1. value \in [1 .. field.width -> Byte]
    BY <1>2 DEF IsValue, field
  <2>2. value \in Seq(Byte) /\ Len(value) = field.width
    BY <1>1, <2>1
  <2>3. payload = value /\ Parsed(field, value) = value
    BY <1>2 DEF Payload, Parsed
  <2>4. Lengths(field) = {field.width} /\ OptionFits(field, value)
    BY <1>2 DEF Lengths, OptionFits
  <2>. QED
    BY <2>2, <2>3, <2>4 DEF field
<1>3. CASE field.kind = "number"
  <2>1. Fits(value, field.width)
    BY <1>3 DEF IsValue, field
  <2>2. value \in Nat /\ Number(BigEndian(value, field.width)) = value
    BY <2>1 DEF Fits
  <2>3. /\ BigEndian(value, field.width) \in Seq(Byte)
        /\ Len(BigEndian(value, field.width)) = field.width
    BY <1>1, <2>2, BigEndianTyped
  <2>4. /\ payload = BigEndian(value, field.width)
        /\ Parsed(field, payload) = Number(payload)
    BY <1>3 DEF Payload, Parsed
  <2>5. Lengths(field) = {field.width} /\ OptionFits(field, payload)
    BY <1>3 DEF Lengths, OptionFits
  <2>. QED
    BY <2>2, <2>3, <2>4, <2>5 DEF field
<1>4. CASE field.kind = "expiry"
  <2>1. value = Absent \/ (value = Some(value[1]) /\ Fits(value[1], field.width))
    <3>1. \A any : IsValue(field, any)
                      <=> \/ any = Absent
                          \/ any = Some(any[1]) /\ Fits(any[1], field.width)
      BY <1>4 DEF IsValue
    <3>2. IsValue(field, value)
      BY DEF field
    <3>. QED
      BY <3>1, <3>2
  <2>2. Lengths(field) = {1, 1 + field.width}
    BY <1>4 DEF Lengths
  <2>3. \A bytes : Parsed(field, bytes)
                     = IF Len(bytes) = 1 THEN Absent ELSE Some(Number(Tail(bytes)))
    BY <1>4 DEF Parsed
  <2>4. CASE value = Absent
    <3>1. payload = <<0>>
      BY <1>4, <2>4 DEF Payload
    <3>2. /\ <<0>> \in Seq(Byte) /\ Len(<<0>>) = 1 /\ <<0>>[1] = 0
      BY WidthsTyped
    <3>3. OptionFits(field, <<0>>)
      BY <3>2 DEF OptionFits
    <3>. QED
      BY <2>2, <2>3, <2>4, <3>1, <3>2, <3>3 DEF field
  <2>5. CASE value # Absent
    <3> DEFINE epoch == BigEndian(value[1], field.width)
    <3>1. value[1] \in Nat /\ Number(epoch) = value[1] /\ value = Some(value[1])
      BY <2>1, <2>5 DEF Fits
    <3>2. epoch \in Seq(Byte) /\ Len(epoch) = field.width
      BY <1>1, <3>1, BigEndianTyped
    <3>3. payload = <<1>> \o epoch
      BY <1>4, <2>5 DEF Payload
    <3> HIDE DEF epoch, payload
    <3>4. <<1>> \in Seq(Byte)
      BY WidthsTyped
    <3>5. /\ payload \in Seq(Byte) /\ Len(payload) = 1 + field.width
          /\ payload[1] = 1
      BY <1>1, <3>2, <3>3, <3>4
    <3>6. Tail(payload) = epoch
      <4>1. Len(Tail(payload)) = Len(epoch) /\ Tail(payload) \in Seq(Byte)
        BY <1>1, <3>2, <3>5
      <4>2. \A i \in 1 .. Len(Tail(payload)) : Tail(payload)[i] = epoch[i]
        BY <1>1, <3>2, <3>3, <3>4, <3>5
      <4>. QED
        BY <3>2, <4>1, <4>2, SeqEqual
    <3>7. Len(payload) # 1
      BY <1>1, <3>5
    <3>8. OptionFits(field, payload)
      BY <3>5, <3>7 DEF OptionFits
    <3>9. Parsed(field, payload) = value
      BY <2>3, <3>1, <3>6, <3>7
    <3>. QED
      BY <2>2, <3>5, <3>8, <3>9 DEF field, payload
  <2>. QED
    BY <2>4, <2>5
<1>. QED
  BY <1>1, <1>2, <1>3, <1>4

(* Bytes that the decoder takes are those of the value parsed from them.      *)
LEMMA BytesWrite ==
  ASSUME NEW k \in DOMAIN Fields, NEW bytes \in Seq(Byte),
         Len(bytes) \in Lengths(Fields[k]), OptionFits(Fields[k], bytes)
  PROVE  /\ IsValue(Fields[k], Parsed(Fields[k], bytes))
         /\ Payload(Fields[k], Parsed(Fields[k], bytes)) = bytes
<1> DEFINE field == Fields[k]
<1> DEFINE value == Parsed(field, bytes)
<1>1. field.kind \in {"bytes", "number", "expiry"} /\ field.width \in Nat /\ field.width # 0
  BY FieldTyped
<1> HIDE DEF field
<1>2. CASE field.kind = "bytes"
  <2>1. Len(bytes) = field.width
    BY <1>2 DEF Lengths, field
  <2>2. bytes \in [1 .. field.width -> Byte]
    BY <2>1
  <2>3. value = bytes
    BY <1>2 DEF Parsed
  <2>4. IsValue(field, bytes) /\ Payload(field, bytes) = bytes
    BY <1>2, <2>2 DEF IsValue, Payload
  <2>. QED
    BY <2>3, <2>4 DEF field
<1>3. CASE field.kind = "number"
  <2>1. Len(bytes) = field.width
    BY <1>3 DEF Lengths, field
  <2>2. value = Number(bytes)
    BY <1>3 DEF Parsed
  <2>3. Number(bytes) \in Nat /\ BigEndian(Number(bytes), field.width) = bytes
    BY <2>1, NumberNat, BigEndianOfNumber
  <2>4. Fits(Number(bytes), field.width)
    BY <2>3 DEF Fits
  <2>5. /\ IsValue(field, Number(bytes))
        /\ Payload(field, Number(bytes)) = BigEndian(Number(bytes), field.width)
    BY <1>3, <2>4 DEF IsValue, Payload
  <2>. QED
    BY <2>2, <2>3, <2>5 DEF field
<1>4. CASE field.kind = "expiry"
  <2>1. Len(bytes) \in {1, 1 + field.width}
    BY <1>4 DEF Lengths, field
  <2>2. bytes[1] = IF Len(bytes) = 1 THEN 0 ELSE 1
    BY <1>4 DEF OptionFits, field
  <2>3. value = IF Len(bytes) = 1 THEN Absent ELSE Some(Number(Tail(bytes)))
    BY <1>4 DEF Parsed
  <2>4. \A any : /\ IsValue(field, any)
                      <=> \/ any = Absent
                          \/ any = Some(any[1]) /\ Fits(any[1], field.width)
                 /\ Payload(field, any)
                      = IF any = Absent THEN <<0>> ELSE <<1>> \o BigEndian(any[1], field.width)
    BY <1>4 DEF IsValue, Payload
  <2> HIDE DEF value
  <2>5. CASE Len(bytes) = 1
    <3>1. bytes = <<0>>
      BY <2>2, <2>5
    <3>. QED
      BY <2>3, <2>4, <2>5, <3>1 DEF field, value
  <2>6. CASE Len(bytes) # 1
    <3> DEFINE epoch == Tail(bytes)
    <3>1. epoch \in Seq(Byte) /\ Len(epoch) = field.width /\ Len(bytes) = 1 + field.width
      BY <1>1, <2>1, <2>6
    <3>2. bytes[1] = 1
      BY <2>2, <2>6
    <3>3. bytes = <<1>> \o epoch
      <4>1. <<1>> \in Seq(Byte)
        BY WidthsTyped
      <4>2. <<1>> \o epoch \in Seq(Byte) /\ Len(<<1>> \o epoch) = Len(bytes)
        BY <1>1, <3>1, <4>1
      <4>3. \A i \in 1 .. Len(bytes) : bytes[i] = (<<1>> \o epoch)[i]
        BY <1>1, <3>1, <3>2
      <4>. QED
        BY <4>2, <4>3, SeqEqual
    <3> HIDE DEF epoch
    <3>4. Number(epoch) \in Nat /\ BigEndian(Number(epoch), field.width) = epoch
      BY <3>1, NumberNat, BigEndianOfNumber
    <3>5. Fits(Number(epoch), field.width)
      BY <3>4 DEF Fits
    <3>6. value = Some(Number(epoch))
      BY <2>3, <2>6 DEF epoch
    <3>7. value[1] = Number(epoch) /\ value # Absent
      BY <3>6 DEF Some, Absent
    <3>. QED
      BY <2>4, <3>3, <3>4, <3>5, <3>6, <3>7 DEF field, value
  <2>. QED
    BY <2>5, <2>6
<1>. QED
  BY <1>1, <1>2, <1>3, <1>4

(* A framed payload: the widths of its three parts.                           *)
LEMMA FormTyped ==
  ASSUME NEW k \in DOMAIN Fields, NEW payload \in Seq(Byte)
  PROVE  /\ BigEndian(k, ShortWidth) \in Seq(Byte)
         /\ Len(BigEndian(k, ShortWidth)) = ShortWidth
         /\ BigEndian(Len(payload), LengthWidth) \in Seq(Byte)
         /\ Len(BigEndian(Len(payload), LengthWidth)) = LengthWidth
         /\ Framed(k, payload) \in Seq(Byte)
         /\ Len(Framed(k, payload)) = FieldHeaderWidth + Len(payload)
<1> DEFINE tag == BigEndian(k, ShortWidth)
<1> DEFINE length == BigEndian(Len(payload), LengthWidth)
<1>1. k \in Nat /\ Len(payload) \in Nat /\ ShortWidth \in Nat /\ LengthWidth \in Nat
  BY FieldTyped, WidthsTyped
<1>2. /\ tag \in Seq(Byte) /\ Len(tag) = ShortWidth
      /\ length \in Seq(Byte) /\ Len(length) = LengthWidth
  BY <1>1, BigEndianTyped
<1>3. Framed(k, payload) = (tag \o length) \o payload
  BY DEF Framed
<1> HIDE DEF tag, length
<1>4. tag \o length \in Seq(Byte) /\ Len(tag \o length) = ShortWidth + LengthWidth
  BY <1>1, <1>2
<1>5. /\ (tag \o length) \o payload \in Seq(Byte)
      /\ Len((tag \o length) \o payload) = (ShortWidth + LengthWidth) + Len(payload)
  BY <1>1, <1>4
<1>. QED
  BY <1>2, <1>3, <1>5 DEF tag, length, FieldHeaderWidth

-----------------------------------------------------------------------------
(* The cursor.                                                                *)
Cursor == wire \in Seq(Byte) /\ position \in 0 .. Len(wire)

(* Cursor::take returns the bytes it was asked for.                           *)
LEMMA TakenTyped ==
  ASSUME Cursor, NEW offset \in Nat, NEW length \in Nat, Left(offset, length)
  PROVE  /\ Taken(offset, length) \in Seq(Byte)
         /\ Len(Taken(offset, length)) = length
BY DEF Cursor, Left, Taken

(* What it takes is what stands at the cursor.                                *)
LEMMA TakenStands ==
  ASSUME NEW offset, NEW length, NEW form, Len(form) = length
  PROVE  StandsAt(form, position + offset, wire)
           <=> Left(offset, length) /\ Taken(offset, length) = form
BY DEF StandsAt, Left, Taken

(* A framed payload stands at the cursor when its parts are taken there.      *)
LEMMA FormStands ==
  ASSUME Cursor, NEW k \in DOMAIN Fields, NEW payload \in Seq(Byte)
  PROVE  StandsAt(Framed(k, payload), position, wire)
           <=> /\ Left(0, ShortWidth) /\ Taken(0, ShortWidth) = BigEndian(k, ShortWidth)
               /\ Left(ShortWidth, LengthWidth)
               /\ Taken(ShortWidth, LengthWidth) = BigEndian(Len(payload), LengthWidth)
               /\ Left(FieldHeaderWidth, Len(payload))
               /\ Taken(FieldHeaderWidth, Len(payload)) = payload
<1> DEFINE tag == BigEndian(k, ShortWidth)
<1> DEFINE length == BigEndian(Len(payload), LengthWidth)
<1>1. /\ tag \in Seq(Byte) /\ Len(tag) = ShortWidth
      /\ length \in Seq(Byte) /\ Len(length) = LengthWidth
  BY FormTyped
<1>2. Framed(k, payload) = (tag \o length) \o payload
  BY DEF Framed
<1>3. wire \in Seq(Byte) /\ position \in Nat /\ ShortWidth \in Nat /\ LengthWidth \in Nat
  BY WidthsTyped DEF Cursor
<1> HIDE DEF tag, length
<1>4. tag \o length \in Seq(Byte) /\ Len(tag \o length) = FieldHeaderWidth
  <2>1. tag \o length \in Seq(Byte) /\ Len(tag \o length) = Len(tag) + Len(length)
    BY <1>1
  <2>. QED
    BY <1>1, <2>1, Zenon DEF FieldHeaderWidth
<1>5. StandsAt((tag \o length) \o payload, position, wire)
        <=> /\ StandsAt(tag \o length, position, wire)
            /\ StandsAt(payload, position + FieldHeaderWidth, wire)
  BY <1>3, <1>4, StandsConcat
<1>6. StandsAt(tag \o length, position, wire)
        <=> StandsAt(tag, position, wire) /\ StandsAt(length, position + ShortWidth, wire)
  BY <1>1, <1>3, StandsConcat
<1>7. position + 0 = position
  BY <1>3
<1>8. StandsAt(tag, position + 0, wire) <=> Left(0, ShortWidth) /\ Taken(0, ShortWidth) = tag
  BY <1>1, TakenStands
<1>9. StandsAt(length, position + ShortWidth, wire)
        <=> Left(ShortWidth, LengthWidth) /\ Taken(ShortWidth, LengthWidth) = length
  BY <1>1, TakenStands
<1>10. StandsAt(payload, position + FieldHeaderWidth, wire)
         <=> /\ Left(FieldHeaderWidth, Len(payload))
             /\ Taken(FieldHeaderWidth, Len(payload)) = payload
  BY TakenStands
<1>. QED
  BY <1>2, <1>5, <1>6, <1>7, <1>8, <1>9, <1>10 DEF tag, length

(* A number that fits a width comes back from its bytes.                      *)
LEMMA FitsIs ==
  ASSUME NEW n, NEW width, Fits(n, width)
  PROVE  n \in Nat /\ Number(BigEndian(n, width)) = n
BY DEF Fits

(* A form of the field at the cursor is read, as the value that it is of.     *)
LEMMA FormIsRead ==
  ASSUME Cursor, Reading, NEW value, IsValue(Fields[next], value),
         StandsAt(EncodedField(next, value), position, wire)
  PROVE  /\ Complete /\ OptionTagFits
         /\ Parsed(Fields[next], Value) = value
         /\ FieldHeaderWidth + DeclaredLength = Len(EncodedField(next, value))
<1> DEFINE payload == Payload(Fields[next], value)
<1>1. next \in DOMAIN Fields
  BY DEF Reading
<1>2. /\ payload \in Seq(Byte) /\ Len(payload) \in Lengths(Fields[next])
      /\ OptionFits(Fields[next], payload) /\ Parsed(Fields[next], payload) = value
  BY <1>1, PayloadReads
<1>3. EncodedField(next, value) = Framed(next, payload)
  BY DEF EncodedField
<1> HIDE DEF payload
<1>4. /\ Left(0, ShortWidth) /\ Taken(0, ShortWidth) = BigEndian(next, ShortWidth)
      /\ Left(ShortWidth, LengthWidth)
      /\ Taken(ShortWidth, LengthWidth) = BigEndian(Len(payload), LengthWidth)
      /\ Left(FieldHeaderWidth, Len(payload))
      /\ Taken(FieldHeaderWidth, Len(payload)) = payload
  BY <1>1, <1>2, <1>3, FormStands
<1>5. Len(payload) \in 0 .. Fields[next].width + 1
  <2> DEFINE width == Fields[next].width
  <2>1. width \in Nat
    BY <1>1, FieldTyped
  <2>2. \/ Len(payload) = 1
        \/ Len(payload) = 1 + width
        \/ Len(payload) = width
    BY <1>2 DEF Lengths
  <2> HIDE DEF width
  <2>3. Len(payload) \in 0 .. width + 1
    BY <2>1, <2>2
  <2>. QED
    BY <2>3 DEF width
<1>6. DeclaredTag = next
  BY <1>1, <1>4, FieldTyped, FitsIs DEF DeclaredTag
<1>7. DeclaredLength = Len(payload)
  <2>1. Fits(Len(payload), LengthWidth)
    BY <1>1, <1>5, FieldTyped
  <2>. QED
    BY <1>4, <2>1, FitsIs DEF DeclaredLength
<1>8. Left(0, FieldHeaderWidth)
  BY <1>2, <1>4, WidthsTyped DEF Left, FieldHeaderWidth, Cursor
<1>9. Value = payload
  BY <1>4, <1>7 DEF Value
<1>10. Complete
  BY <1>2, <1>4, <1>6, <1>7, <1>8 DEF Complete, Sized, Tagged, Framing
<1>11. OptionTagFits
  BY <1>2, <1>7, <1>9 DEF OptionTagFits, OptionFits
<1>12. Len(Framed(next, payload)) = FieldHeaderWidth + Len(payload)
  BY <1>1, <1>2, FormTyped
<1>. QED
  BY <1>2, <1>3, <1>7, <1>9, <1>10, <1>11, <1>12

(* A field that is read is a form of what it is read as.                      *)
LEMMA ReadIsForm ==
  ASSUME Cursor, Complete, OptionTagFits
  PROVE  /\ IsValue(Fields[next], Parsed(Fields[next], Value))
         /\ StandsAt(EncodedField(next, Parsed(Fields[next], Value)), position, wire)
         /\ Len(EncodedField(next, Parsed(Fields[next], Value)))
              = FieldHeaderWidth + DeclaredLength
         /\ DeclaredLength \in Nat
<1> DEFINE value == Parsed(Fields[next], Value)
<1>1. /\ next \in DOMAIN Fields /\ Left(0, FieldHeaderWidth) /\ DeclaredTag = next
      /\ DeclaredLength \in Lengths(Fields[next]) /\ Left(FieldHeaderWidth, DeclaredLength)
  BY DEF Complete, Sized, Tagged, Framing, Reading
<1>2. /\ ShortWidth \in Nat /\ LengthWidth \in Nat /\ FieldHeaderWidth \in Nat
      /\ position \in Nat /\ 0 \in Nat /\ Len(wire) \in Nat
  BY WidthsTyped DEF FieldHeaderWidth, Cursor
<1>3. Left(0, ShortWidth) /\ Left(ShortWidth, LengthWidth)
  BY <1>1, <1>2 DEF Left, FieldHeaderWidth
<1>4. /\ Taken(0, ShortWidth) \in Seq(Byte) /\ Len(Taken(0, ShortWidth)) = ShortWidth
      /\ Taken(ShortWidth, LengthWidth) \in Seq(Byte)
      /\ Len(Taken(ShortWidth, LengthWidth)) = LengthWidth
  BY <1>2, <1>3, TakenTyped
<1>5. DeclaredLength \in Nat
  BY <1>4, NumberNat DEF DeclaredLength
<1>6. Value \in Seq(Byte) /\ Len(Value) = DeclaredLength
  BY <1>1, <1>2, <1>5, TakenTyped DEF Value
<1>7. /\ BigEndian(next, ShortWidth) = Taken(0, ShortWidth)
      /\ BigEndian(DeclaredLength, LengthWidth) = Taken(ShortWidth, LengthWidth)
  BY <1>1, <1>4, BigEndianOfNumber DEF DeclaredTag, DeclaredLength
<1>8. OptionFits(Fields[next], Value)
  BY <1>6 DEF OptionTagFits, OptionFits
<1>9. IsValue(Fields[next], value) /\ Payload(Fields[next], value) = Value
  BY <1>1, <1>6, <1>8, BytesWrite
<1>10. EncodedField(next, value) = Framed(next, Value)
  BY <1>9 DEF EncodedField
<1>11. StandsAt(Framed(next, Value), position, wire)
  BY <1>1, <1>3, <1>6, <1>7, FormStands DEF Value
<1>12. Len(Framed(next, Value)) = FieldHeaderWidth + DeclaredLength
  BY <1>1, <1>6, FormTyped
<1>. QED
  BY <1>5, <1>9, <1>10, <1>11, <1>12

-----------------------------------------------------------------------------
(* The fields of a resource, or the first of them.                            *)
FieldValues == Nat \cup Seq(Nat)

Leading(list) ==
  /\ list \in Seq(FieldValues)
  /\ Len(list) <= Len(Fields)
  /\ \A k \in 1 .. Len(list) : IsValue(Fields[k], list[k])

Forms(list) == [k \in DOMAIN list |-> EncodedField(k, list[k])]

(* A value of a field is a number or a sequence of numbers.                   *)
LEMMA ValueTyped ==
  ASSUME NEW k \in DOMAIN Fields, NEW value, IsValue(Fields[k], value)
  PROVE  value \in FieldValues
<1> DEFINE field == Fields[k]
<1>1. field.kind \in {"bytes", "number", "expiry"} /\ field.width \in Nat
  BY FieldTyped
<1>2. IsValue(field, value)
  OBVIOUS
<1>3. \A n \in Byte : n \in Nat
  BY FormatAssumption DEF Byte
<1> HIDE DEF field
<1>4. CASE field.kind = "bytes"
  <2>1. value \in [1 .. field.width -> Byte]
    BY <1>2, <1>4 DEF IsValue
  <2>2. value \in [1 .. field.width -> Nat]
    BY <1>3, <2>1
  <2>. QED
    BY <1>1, <2>2 DEF FieldValues
<1>5. CASE field.kind = "number"
  BY <1>2, <1>5 DEF IsValue, Fits, FieldValues
<1>6. CASE field.kind = "expiry"
  <2>1. \A any : IsValue(field, any)
                    <=> \/ any = Absent
                        \/ any = Some(any[1]) /\ Fits(any[1], field.width)
    BY <1>6 DEF IsValue
  <2>2. Absent \in Seq(Nat) /\ \A n \in Nat : Some(n) \in Seq(Nat)
    BY DEF Absent, Some
  <2>. QED
    BY <1>2, <2>1, <2>2, FitsIs DEF FieldValues
<1>. QED
  BY <1>1, <1>4, <1>5, <1>6

(* The form of one field: bytes, and how many.                                *)
LEMMA EncodedFieldTyped ==
  ASSUME NEW k \in DOMAIN Fields, NEW value, IsValue(Fields[k], value)
  PROVE  /\ EncodedField(k, value) \in Seq(Byte)
         /\ Len(EncodedField(k, value)) = FieldHeaderWidth + Len(Payload(Fields[k], value))
BY PayloadReads, FormTyped DEF EncodedField

(* The forms of leading fields, and the concatenation that encode writes.     *)
LEMMA FormsTyped ==
  ASSUME NEW list, Leading(list)
  PROVE  /\ Forms(list) \in Seq(Seq(Byte))
         /\ Len(Forms(list)) = Len(list)
         /\ \A k \in 1 .. Len(list) : Forms(list)[k] = EncodedField(k, list[k])
         /\ EncodedFields(list) = FlattenSeq(Forms(list))
<1>1. list \in Seq(FieldValues) /\ DOMAIN list = 1 .. Len(list) /\ Len(list) \in Nat
  BY DEF Leading
<1>2. DOMAIN Fields = 1 .. Len(Fields) /\ Len(Fields) \in Nat
  BY FormatAssumption
<1>3. \A k \in 1 .. Len(list) : EncodedField(k, list[k]) \in Seq(Byte)
  BY <1>1, <1>2, EncodedFieldTyped DEF Leading
<1>4. Forms(list) \in [1 .. Len(list) -> Seq(Byte)]
  BY <1>1, <1>3 DEF Forms
<1>5. \A k \in 1 .. Len(list) : Forms(list)[k] = EncodedField(k, list[k])
  BY <1>1 DEF Forms
<1>6. EncodedFields(list) = FlattenSeq(Forms(list))
  BY DEF EncodedFields, Forms
<1>7. Forms(list) \in Seq(Seq(Byte)) /\ Len(Forms(list)) = Len(list)
  BY <1>1, <1>4
<1>. QED
  BY <1>5, <1>6, <1>7

(* Encoded fields are bytes.                                                  *)
LEMMA EncodedFieldsTyped ==
  ASSUME NEW list, Leading(list)
  PROVE  EncodedFields(list) \in Seq(Byte)
<1>1. Forms(list) \in Seq(Seq(Byte)) /\ <<>> \in Seq(Byte)
  BY FormsTyped
<1>. QED
  BY <1>1, FormsTyped, FlattenAppend

(* The encoding of one more field appends the form of that field.             *)
LEMMA EncodedFieldsGrow ==
  ASSUME NEW list, Leading(list), NEW value, Len(list) + 1 <= Len(Fields),
         IsValue(Fields[Len(list) + 1], value)
  PROVE  /\ Leading(Append(list, value))
         /\ EncodedFields(Append(list, value))
              = EncodedFields(list) \o EncodedField(Len(list) + 1, value)
<1> DEFINE n == Len(list) + 1
<1> DEFINE more == Append(list, value)
<1>1. list \in Seq(FieldValues) /\ Len(list) \in Nat
  BY DEF Leading
<1>2. DOMAIN Fields = 1 .. Len(Fields) /\ Len(Fields) \in Nat
  BY FormatAssumption
<1>3. n \in DOMAIN Fields
  BY <1>1, <1>2
<1>4. value \in FieldValues
  BY <1>3, ValueTyped
<1>5. /\ more \in Seq(FieldValues) /\ Len(more) = n /\ more[n] = value
      /\ \A k \in 1 .. Len(list) : more[k] = list[k]
  BY <1>1, <1>4
<1> HIDE DEF more
<1>6. Leading(more)
  <2>1. ASSUME NEW k \in 1 .. n
        PROVE  IsValue(Fields[k], more[k])
    <3>1. CASE k = n
      BY <1>5, <3>1
    <3>2. CASE k # n
      <4>1. k \in 1 .. Len(list)
        BY <1>1, <3>2
      <4>. QED
        BY <1>5, <4>1 DEF Leading
    <3>. QED
      BY <3>1, <3>2
  <2>. QED
    BY <1>5, <2>1 DEF Leading
<1>7. Forms(more) = Append(Forms(list), EncodedField(n, value))
  <2>1. EncodedField(n, value) \in Seq(Byte)
    BY <1>3, EncodedFieldTyped
  <2>2. /\ Forms(list) \in Seq(Seq(Byte)) /\ Len(Forms(list)) = Len(list)
        /\ \A k \in 1 .. Len(list) : Forms(list)[k] = EncodedField(k, list[k])
    BY FormsTyped
  <2>3. /\ Forms(more) \in Seq(Seq(Byte)) /\ Len(Forms(more)) = n
        /\ \A k \in 1 .. n : Forms(more)[k] = EncodedField(k, more[k])
    BY <1>5, <1>6, FormsTyped
  <2> DEFINE appended == Append(Forms(list), EncodedField(n, value))
  <2>4. /\ appended \in Seq(Seq(Byte)) /\ Len(appended) = n
        /\ appended[n] = EncodedField(n, value)
        /\ \A k \in 1 .. Len(list) : appended[k] = Forms(list)[k]
    BY <1>1, <2>1, <2>2
  <2> HIDE DEF appended
  <2>5. ASSUME NEW k \in 1 .. n
        PROVE  Forms(more)[k] = appended[k]
    <3>1. CASE k = n
      BY <1>5, <2>3, <2>4, <3>1
    <3>2. CASE k # n
      <4>1. k \in 1 .. Len(list)
        BY <1>1, <3>2
      <4>2. /\ Forms(more)[k] = EncodedField(k, more[k]) /\ more[k] = list[k]
            /\ appended[k] = Forms(list)[k] /\ Forms(list)[k] = EncodedField(k, list[k])
        BY <1>5, <2>2, <2>3, <2>4, <4>1
      <4>. QED
        BY <4>2, Zenon
    <3>. QED
      BY <3>1, <3>2
  <2>6. Forms(more) = appended
    BY <2>3, <2>4, <2>5, SeqEqual
  <2>. QED
    BY <2>6 DEF appended
<1>8. Forms(list) \in Seq(Seq(Byte)) /\ EncodedField(n, value) \in Seq(Byte)
  BY <1>3, FormsTyped, EncodedFieldTyped
<1>9. FlattenSeq(Append(Forms(list), EncodedField(n, value)))
        = FlattenSeq(Forms(list)) \o EncodedField(n, value)
  BY <1>8, FlattenAppend
<1>. QED
  BY <1>6, <1>7, <1>9, FormsTyped DEF more

(* The first of some leading fields are leading fields.                       *)
LEMMA FrontLeads ==
  ASSUME NEW list, Leading(list), NEW k \in 0 .. Len(list)
  PROVE  /\ Leading(SubSeq(list, 1, k))
         /\ Len(SubSeq(list, 1, k)) = k
         /\ Forms(SubSeq(list, 1, k)) = SubSeq(Forms(list), 1, k)
<1> DEFINE front == SubSeq(list, 1, k)
<1>1. list \in Seq(FieldValues) /\ Len(list) \in Nat /\ Len(list) <= Len(Fields)
  BY DEF Leading
<1>2. Len(Fields) \in Nat
  BY FormatAssumption
<1>3. /\ front \in Seq(FieldValues) /\ Len(front) = k
      /\ \A i \in 1 .. k : front[i] = list[i]
  BY <1>1
<1> HIDE DEF front
<1>4. Leading(front)
  <2>1. \A i \in 1 .. k : i \in 1 .. Len(list)
    BY <1>1
  <2>2. k <= Len(Fields)
    BY <1>1, <1>2
  <2>. QED
    BY <1>3, <2>1, <2>2 DEF Leading
<1>5. /\ Forms(list) \in Seq(Seq(Byte)) /\ Len(Forms(list)) = Len(list)
      /\ \A i \in 1 .. Len(list) : Forms(list)[i] = EncodedField(i, list[i])
  BY FormsTyped
<1>6. /\ Forms(front) \in Seq(Seq(Byte)) /\ Len(Forms(front)) = k
      /\ \A i \in 1 .. k : Forms(front)[i] = EncodedField(i, front[i])
  BY <1>3, <1>4, FormsTyped
<1> DEFINE cut == SubSeq(Forms(list), 1, k)
<1>7. /\ cut \in Seq(Seq(Byte)) /\ Len(cut) = k
      /\ \A i \in 1 .. k : cut[i] = Forms(list)[i]
  BY <1>1, <1>5
<1> HIDE DEF cut
<1>8. ASSUME NEW i \in 1 .. k
      PROVE  Forms(front)[i] = cut[i]
  <2>1. i \in 1 .. Len(list)
    BY <1>1
  <2>2. /\ Forms(front)[i] = EncodedField(i, front[i]) /\ front[i] = list[i]
        /\ cut[i] = Forms(list)[i] /\ Forms(list)[i] = EncodedField(i, list[i])
    BY <1>3, <1>5, <1>6, <1>7, <2>1
  <2>. QED
    BY <2>2, Zenon
<1>9. Forms(front) = cut
  BY <1>6, <1>7, <1>8, SeqEqual
<1>. QED
  BY <1>3, <1>4, <1>9 DEF front, cut

(* The k-th field of a resource stands where the first ones end.              *)
LEMMA EncodedFieldsAt ==
  ASSUME NEW list, Leading(list), NEW k \in 1 .. Len(list)
  PROVE  /\ EncodedFields(SubSeq(list, 1, k))
              = EncodedFields(SubSeq(list, 1, k - 1)) \o EncodedField(k, list[k])
         /\ \E t \in Seq(Byte) :
              EncodedFields(list)
                = (EncodedFields(SubSeq(list, 1, k - 1)) \o EncodedField(k, list[k])) \o t
<1>1. Len(list) \in Nat
  BY DEF Leading
<1>2. k \in 0 .. Len(list) /\ k - 1 \in 0 .. Len(list)
  BY <1>1
<1>3. /\ Leading(SubSeq(list, 1, k)) /\ Leading(SubSeq(list, 1, k - 1))
      /\ Forms(SubSeq(list, 1, k)) = SubSeq(Forms(list), 1, k)
      /\ Forms(SubSeq(list, 1, k - 1)) = SubSeq(Forms(list), 1, k - 1)
  BY <1>2, FrontLeads
<1>4. /\ Forms(list) \in Seq(Seq(Byte)) /\ Len(Forms(list)) = Len(list)
      /\ Forms(list)[k] = EncodedField(k, list[k])
  BY FormsTyped
<1>5. /\ EncodedFields(list) = FlattenSeq(Forms(list))
      /\ EncodedFields(SubSeq(list, 1, k)) = FlattenSeq(SubSeq(Forms(list), 1, k))
      /\ EncodedFields(SubSeq(list, 1, k - 1)) = FlattenSeq(SubSeq(Forms(list), 1, k - 1))
  BY <1>3, FormsTyped
<1> DEFINE forms == Forms(list)
<1> HIDE DEF forms
<1>6. forms \in Seq(Seq(Byte)) /\ k \in 1 .. Len(forms)
  BY <1>4 DEF forms
<1>7. /\ FlattenSeq(SubSeq(forms, 1, k)) = FlattenSeq(SubSeq(forms, 1, k - 1)) \o forms[k]
      /\ \E t \in Seq(Byte) :
           FlattenSeq(forms) = (FlattenSeq(SubSeq(forms, 1, k - 1)) \o forms[k]) \o t
  BY <1>6, FlattenNext
<1>. QED
  BY <1>4, <1>5, <1>7, Zenon DEF forms

-----------------------------------------------------------------------------
(* The header and the whole encoding.                                         *)
LEMMA HeaderTyped ==
  /\ HeaderParts \in Seq(Seq(Byte)) /\ Len(HeaderParts) = 4
  /\ DOMAIN HeaderParts = 1 .. 4
  /\ Header \in Seq(Byte)
<1> DEFINE version == BigEndian(SchemaVersion, ShortWidth)
<1> DEFINE object == BigEndian(ObjectTag, ShortWidth)
<1> DEFINE count == BigEndian(Len(Fields), ShortWidth)
<1>1. SchemaVersion \in Nat /\ ObjectTag \in Nat /\ Len(Fields) \in Nat
  <2>1. Fits(SchemaVersion, ShortWidth) /\ Fits(ObjectTag, ShortWidth)
    BY FormatAssumption
  <2>2. Len(Fields) \in Nat
    BY FormatAssumption
  <2>. QED
    BY <2>1, <2>2, FitsIs
<1>2. version \in Seq(Byte) /\ object \in Seq(Byte) /\ count \in Seq(Byte)
  BY <1>1, WidthsTyped, BigEndianTyped
<1>3. HeaderParts = <<Magic, version, object, count>>
  BY DEF HeaderParts
<1>4. Magic \in Seq(Byte) /\ <<>> \in Seq(Byte)
  BY FormatAssumption
<1> DEFINE B == Seq(Byte)
<1> HIDE DEF version, object, count, B
<1>5. <<Magic, version, object, count>> \in Seq(B)
  <2>1. Magic \in B /\ version \in B /\ object \in B /\ count \in B
    BY <1>2, <1>4 DEF B
  <2>. QED
    BY <2>1
<1>6. HeaderParts \in Seq(Seq(Byte)) /\ Len(HeaderParts) = 4 /\ DOMAIN HeaderParts = 1 .. 4
  BY <1>3, <1>5 DEF B
<1>7. FlattenSeq(HeaderParts) \in Seq(Byte)
  BY <1>4, <1>6, FlattenAppend
<1>. QED
  BY <1>6, <1>7 DEF Header

HeaderFront(n) == FlattenSeq(SubSeq(HeaderParts, 1, n))

(* The header is written part after part.                                     *)
LEMMA HeaderFrontIs ==
  ASSUME NEW i \in 1 .. 4
  PROVE  /\ HeaderFront(i - 1) \in Seq(Byte)
         /\ HeaderParts[i] \in Seq(Byte)
         /\ HeaderFront(i) = HeaderFront(i - 1) \o HeaderParts[i]
         /\ \E t \in Seq(Byte) : Header = (HeaderFront(i - 1) \o HeaderParts[i]) \o t
<1>1. HeaderParts \in Seq(Seq(Byte)) /\ i \in 1 .. Len(HeaderParts)
  BY HeaderTyped
<1>2. HeaderParts[i] \in Seq(Byte)
  BY <1>1
<1>. QED
  BY <1>1, <1>2, FlattenNext DEF HeaderFront, Header

(* It begins with nothing and ends with its fourth part.                      *)
LEMMA HeaderFrontEnds == HeaderFront(0) = <<>> /\ HeaderFront(4) = Header
<1>1. HeaderParts \in Seq(Seq(Byte)) /\ Len(HeaderParts) = 4
  BY HeaderTyped
<1>2. SubSeq(HeaderParts, 1, 0) = <<>> /\ SubSeq(HeaderParts, 1, 4) = HeaderParts
  BY <1>1
<1>. QED
  BY <1>2, FlattenEmpty DEF HeaderFront, Header

(* No fields have no bytes.                                                   *)
LEMMA EncodedNothing == EncodedFields(<<>>) = <<>>
<1>1. [k \in DOMAIN <<>> |-> EncodedField(k, <<>>[k])] = <<>>
  OBVIOUS
<1>. QED
  BY <1>1, FlattenEmpty DEF EncodedFields

(* An encoding is the header and the bytes of the fields.                     *)
LEMMA EncodingTyped ==
  ASSUME NEW list, Leading(list)
  PROVE  /\ Encoding(list) \in Seq(Byte)
         /\ Encoding(list) = Header \o EncodedFields(list)
         /\ Len(Encoding(list)) = Len(Header) + Len(EncodedFields(list))
         /\ Len(Header) \in Nat /\ Len(EncodedFields(list)) \in Nat
<1>1. Header \in Seq(Byte) /\ EncodedFields(list) \in Seq(Byte)
  BY HeaderTyped, EncodedFieldsTyped
<1>. QED
  BY <1>1 DEF Encoding

(* The i-th part of the header stands where the parts before it end.          *)
LEMMA PartStands ==
  ASSUME NEW list, Leading(list), NEW i \in 1 .. 4
  PROVE  /\ StandsAt(HeaderParts[i], Len(HeaderFront(i - 1)), Encoding(list))
         /\ Len(HeaderFront(i - 1)) + Len(HeaderParts[i]) <= Len(Header)
         /\ SubSeq(Encoding(list), 1, Len(HeaderFront(i - 1))) = HeaderFront(i - 1)
<1> DEFINE x == HeaderFront(i - 1)
<1> DEFINE y == HeaderParts[i]
<1> DEFINE z == EncodedFields(list)
<1>1. PICK t \in Seq(Byte) : Header = (x \o y) \o t
  BY HeaderFrontIs
<1>2. x \in Seq(Byte) /\ y \in Seq(Byte) /\ z \in Seq(Byte) /\ t \in Seq(Byte)
  BY <1>1, HeaderFrontIs, EncodedFieldsTyped
<1> HIDE DEF x, y, z
<1>3. x \o y \in Seq(Byte) /\ t \o z \in Seq(Byte)
  BY <1>2
<1>4. ((x \o y) \o t) \o z = (x \o y) \o (t \o z)
  BY <1>2, <1>3, ConcatAssoc
<1>5. Encoding(list) = (x \o y) \o (t \o z)
  BY <1>1, <1>4 DEF Encoding, z
<1>6. /\ SubSeq((x \o y) \o (t \o z), 1, Len(x)) = x
      /\ StandsAt(y, Len(x), (x \o y) \o (t \o z))
  <2>1. \A v \in Seq(Byte) : /\ SubSeq((x \o y) \o v, 1, Len(x)) = x
                             /\ StandsAt(y, Len(x), (x \o y) \o v)
    BY <1>2, StandsAfter
  <2>. QED
    BY <1>3, <2>1, Zenon
<1>7. Len(x) + Len(y) <= Len(Header)
  BY <1>1, <1>2
<1>. QED
  BY <1>5, <1>6, <1>7 DEF x, y

(* The k-th field of a resource stands where the fields before it end.        *)
LEMMA FieldStands ==
  ASSUME NEW list, Leading(list), NEW k \in 1 .. Len(list)
  PROVE  LET front == Encoding(SubSeq(list, 1, k - 1)) IN
         /\ Encoding(SubSeq(list, 1, k)) = front \o EncodedField(k, list[k])
         /\ Len(front) <= Len(Encoding(list))
         /\ SubSeq(Encoding(list), 1, Len(front)) = front
         /\ StandsAt(EncodedField(k, list[k]), Len(front), Encoding(list))
<1> DEFINE e == EncodedFields(SubSeq(list, 1, k - 1))
<1> DEFINE f == EncodedField(k, list[k])
<1>1. Len(list) \in Nat /\ Len(list) <= Len(Fields) /\ IsValue(Fields[k], list[k])
  BY DEF Leading
<1>2. k \in DOMAIN Fields /\ k - 1 \in 0 .. Len(list)
  <2>1. DOMAIN Fields = 1 .. Len(Fields) /\ Len(Fields) \in Nat
    BY FormatAssumption
  <2>. QED
    BY <1>1, <2>1
<1>3. e \in Seq(Byte) /\ f \in Seq(Byte) /\ Header \in Seq(Byte)
  BY <1>1, <1>2, FrontLeads, EncodedFieldsTyped, EncodedFieldTyped, HeaderTyped
<1>4. PICK t \in Seq(Byte) : EncodedFields(list) = (e \o f) \o t
  BY EncodedFieldsAt
<1>5. EncodedFields(SubSeq(list, 1, k)) = e \o f
  BY EncodedFieldsAt
<1> HIDE DEF e, f
<1>6. /\ e \o f \in Seq(Byte) /\ Header \o e \in Seq(Byte)
      /\ (Header \o e) \o f = Header \o (e \o f)
  BY <1>3, ConcatAssoc
<1>7. (Header \o (e \o f)) \o t = Header \o ((e \o f) \o t)
  <2>1. \A x \in Seq(Byte), y \in Seq(Byte), z \in Seq(Byte) :
          (x \o y) \o z = x \o (y \o z)
    BY ConcatAssoc
  <2>2. t \in Seq(Byte)
    BY <1>4
  <2>. QED
    BY <1>3, <1>6, <2>1, <2>2, Zenon
<1>8. Encoding(list) = ((Header \o e) \o f) \o t
  BY <1>4, <1>6, <1>7 DEF Encoding
<1>9. /\ Len(Header \o e) <= Len(((Header \o e) \o f) \o t)
      /\ SubSeq(((Header \o e) \o f) \o t, 1, Len(Header \o e)) = Header \o e
      /\ StandsAt(f, Len(Header \o e), ((Header \o e) \o f) \o t)
  BY <1>3, <1>4, <1>6, StandsAfter
<1>10. Encoding(SubSeq(list, 1, k - 1)) = Header \o e
  BY DEF Encoding, e
<1>11. Encoding(SubSeq(list, 1, k)) = (Header \o e) \o f
  BY <1>5, <1>6 DEF Encoding
<1>. QED
  BY <1>8, <1>9, <1>10, <1>11 DEF f

(* The fields of a resource are leading fields: all of them.                  *)
LEMMA ResourcesLead ==
  ASSUME NEW any \in AllResources
  PROVE  /\ Leading(any) /\ Len(any) = Len(Fields) /\ IsResource(any)
         /\ SubSeq(any, 1, 0) = <<>> /\ SubSeq(any, 1, Len(Fields)) = any
<1>1. IsResource(any) /\ any = [k \in DOMAIN Fields |-> any[k]]
  BY WireFormsAssumption
<1>2. DOMAIN Fields = 1 .. Len(Fields) /\ Len(Fields) \in Nat
  BY FormatAssumption
<1>3. \A k \in DOMAIN Fields : any[k] \in FieldValues
  BY <1>1, ValueTyped DEF IsResource
<1>4. any \in [1 .. Len(Fields) -> FieldValues]
  <2> DEFINE f == [k \in DOMAIN Fields |-> any[k]]
  <2>1. f \in [1 .. Len(Fields) -> FieldValues]
    BY <1>2, <1>3
  <2>2. any = f
    BY <1>1
  <2> HIDE DEF f
  <2>. QED
    BY <2>1, <2>2
<1>5. any \in Seq(FieldValues) /\ Len(any) = Len(Fields)
  BY <1>2, <1>4
<1>6. Leading(any)
  BY <1>1, <1>2, <1>5 DEF Leading, IsResource
<1>. QED
  BY <1>1, <1>5, <1>6

-----------------------------------------------------------------------------
(* The bytes reserved are those of the whole encoding.                        *)
ShortestValue(field) == IF field.kind = "expiry" THEN 1 ELSE field.width

(* The bytes of the last fields, field by field.                              *)
LEMMA LastFieldsIs ==
  /\ LastFieldsBytes[0] = 0
  /\ \A i \in 1 .. Len(Fields) :
       LastFieldsBytes[i] = LastFieldsBytes[i - 1] + FieldHeaderWidth
                              + ShortestValue(Fields[Len(Fields) - i + 1])
  /\ \A i \in 0 .. Len(Fields) : LastFieldsBytes[i] \in Nat
<1> DEFINE n == Len(Fields)
<1> DEFINE add == [i \in 1 .. n |-> FieldHeaderWidth + ShortestValue(Fields[n - i + 1])]
<1> DEFINE Solves(f) ==
      f = [i \in 0 .. n |->
             IF i = 0 THEN 0
             ELSE LET field == Fields[n - i + 1] IN
                  f[i - 1] + FieldHeaderWidth
                    + (IF field.kind = "expiry" THEN 1 ELSE field.width)]
<1> DEFINE g == [i \in 1 .. n |-> [m \in Nat |-> m + add[i]]]
<1>1. n \in Nat /\ FieldHeaderWidth \in Nat
  BY FormatAssumption, WidthsTyped DEF FieldHeaderWidth
<1>2. ASSUME NEW i \in 1 .. n
      PROVE  /\ ShortestValue(Fields[n - i + 1]) \in Nat
             /\ add[i] = FieldHeaderWidth + ShortestValue(Fields[n - i + 1])
             /\ add[i] \in Nat
  <2>1. n - i + 1 \in DOMAIN Fields
    <3>1. DOMAIN Fields = 1 .. n
      BY FormatAssumption
    <3>. QED
      BY <1>1, <3>1
  <2>2. Fields[n - i + 1].width \in Nat
    BY <2>1, FieldTyped
  <2>3. ShortestValue(Fields[n - i + 1]) \in Nat
    BY <2>2 DEF ShortestValue
  <2>. QED
    BY <1>1, <2>3
<1> HIDE DEF n, add
<1>3. g \in [1 .. n -> [Nat -> Nat]]
  BY <1>2
<1>4. \A i \in 1 .. n : \A m \in Nat : g[i][m] = m + add[i]
  OBVIOUS
<1> HIDE DEF g
<1>5. Recurrence(n, Nat, 0, g)
  BY <1>1, <1>3 DEF Recurrence
<1>6. PICK f : Solution(f, n, Nat, 0, g)
  BY <1>5, RecursionExists
<1>7. f \in [0 .. n -> Nat] /\ f[0] = 0
  BY <1>6 DEF Solution
<1>8. \A i \in 1 .. n : f[i] = f[i - 1] + add[i]
  <2>. TAKE i \in 1 .. n
  <2>1. f[i - 1] \in Nat
    BY <1>1, <1>7
  <2>2. f[i] = g[i][f[i - 1]]
    BY <1>6 DEF Solution
  <2>. QED
    BY <1>4, <2>1, <2>2, Zenon
<1>9. \A h, i : \/ i \notin 1 .. n
                \/ h[i - 1] \notin Nat
                \/ h[i - 1] + add[i]
                     = h[i - 1] + FieldHeaderWidth + ShortestValue(Fields[n - i + 1])
  BY <1>1, <1>2
<1>10. Solves(f)
  <2>1. \A i \in 1 .. n : f[i] = f[i - 1] + FieldHeaderWidth + ShortestValue(Fields[n - i + 1])
    <3>. TAKE i \in 1 .. n
    <3>1. f[i - 1] \in Nat
      BY <1>1, <1>7
    <3>. QED
      BY <1>8, <1>9, <3>1
  <2>. QED
    BY <1>1, <1>7, <2>1 DEF ShortestValue
<1> DEFINE c == CHOOSE h : Solves(h)
<1>11. Solves(c)
  <2> HIDE DEF Solves
  <2>. QED
    BY <1>10
<1>12. LastFieldsBytes = c
  BY DEF LastFieldsBytes, n
<1> HIDE DEF c
<1>13. /\ c = [i \in 0 .. n |-> c[i]] /\ c[0] = 0
       /\ \A i \in 1 .. n :
            c[i] = c[i - 1] + FieldHeaderWidth + ShortestValue(Fields[n - i + 1])
  <2>1. c = [i \in 0 .. n |->
               IF i = 0 THEN 0
               ELSE c[i - 1] + FieldHeaderWidth + ShortestValue(Fields[n - i + 1])]
    BY <1>11, Zenon DEF ShortestValue
  <2>2. DOMAIN c = 0 .. n /\ c = [i \in 0 .. n |-> c[i]]
    BY <2>1
  <2>3. c[0] = 0
    BY <1>1, <2>1
  <2>4. ASSUME NEW i \in 1 .. n
        PROVE  c[i] = c[i - 1] + FieldHeaderWidth + ShortestValue(Fields[n - i + 1])
    <3>1. i \in 0 .. n /\ i # 0
      BY <1>1
    <3>. QED
      BY <2>1, <3>1, Zenon
  <2>. QED
    BY <2>2, <2>3, <2>4
<1>14. c = f
  <2>1. ASSUME NEW i \in 1 .. n, f[i - 1] = c[i - 1]
        PROVE  f[i] = c[i]
    <3>1. f[i - 1] \in Nat
      BY <1>1, <1>7
    <3>2. /\ c[i] = c[i - 1] + FieldHeaderWidth + ShortestValue(Fields[n - i + 1])
          /\ f[i] = f[i - 1] + add[i]
          /\ f[i - 1] + add[i] = f[i - 1] + FieldHeaderWidth + ShortestValue(Fields[n - i + 1])
      BY <1>8, <1>9, <1>13, <3>1
    <3>. QED
      BY <2>1, <3>2, Zenon
  <2>2. f = [i \in 0 .. n |-> f[i]]
    BY <1>7
  <2>3. SameRecurrence(f, c, n)
    BY <1>1, <1>7, <1>13, <2>1, <2>2 DEF SameRecurrence
  <2>. QED
    BY <2>3, RecursionUnique
<1>15. \A i \in 0 .. n : c[i] \in Nat
  BY <1>7, <1>14
<1>. QED
  BY <1>12, <1>13, <1>15 DEF n

(* A payload has its shortest length, or that and an epoch.                   *)
LEMMA PayloadLength ==
  ASSUME NEW k \in DOMAIN Fields, NEW value, IsValue(Fields[k], value)
  PROVE  Len(Payload(Fields[k], value))
           = ShortestValue(Fields[k])
               + (IF Fields[k].kind = "expiry" /\ value # Absent THEN Fields[k].width ELSE 0)
<1> DEFINE field == Fields[k]
<1>1. field.kind \in {"bytes", "number", "expiry"} /\ field.width \in Nat /\ field.width # 0
  BY FieldTyped
<1>2. IsValue(field, value) /\ Len(Payload(field, value)) \in Lengths(field)
  BY PayloadReads
<1>3. Parsed(field, Payload(field, value)) = value
  BY PayloadReads
<1> HIDE DEF field
<1>4. CASE field.kind # "expiry"
  <2>1. Len(Payload(field, value)) = field.width /\ ShortestValue(field) = field.width
    BY <1>2, <1>4 DEF Lengths, ShortestValue
  <2>. QED
    BY <1>1, <1>4, <2>1 DEF field
<1>5. CASE field.kind = "expiry"
  <2>1. Len(Payload(field, value)) \in {1, 1 + field.width} /\ ShortestValue(field) = 1
    BY <1>2, <1>5 DEF Lengths, ShortestValue
  <2>2. \A bytes : Parsed(field, bytes)
                     = IF Len(bytes) = 1 THEN Absent ELSE Some(Number(Tail(bytes)))
    BY <1>5 DEF Parsed
  <2>3. Len(Payload(field, value)) = 1 <=> value = Absent
    BY <1>3, <2>2 DEF Some, Absent
  <2>4. Len(Payload(field, value)) = 1 + (IF value # Absent THEN field.width ELSE 0)
    <3> DEFINE length == Len(Payload(field, value))
    <3> HIDE DEF length
    <3>1. length \in {1, 1 + field.width} /\ (length = 1 <=> value = Absent)
      BY <2>1, <2>3 DEF length
    <3>2. length = 1 + (IF value # Absent THEN field.width ELSE 0)
      BY <1>1, <3>1
    <3>. QED
      BY <3>2 DEF length
  <2>. QED
    BY <1>5, <2>1, <2>4 DEF field
<1>. QED
  BY <1>4, <1>5 DEF field

(* The length constants are numbers, and not above MAX_RESOURCE_BYTES.        *)
LEMMA LengthsTyped ==
  /\ ExpiryField \in DOMAIN Fields
  /\ \A k \in DOMAIN Fields : Fields[k].kind = "expiry" <=> k = ExpiryField
  /\ Fields[ExpiryField].width \in Nat
  /\ AbsentExpiryBytes = Len(Header) + LastFieldsBytes[Len(Fields)]
  /\ PresentExpiryBytes = AbsentExpiryBytes + Fields[ExpiryField].width
  /\ AbsentExpiryBytes \in Nat /\ PresentExpiryBytes \in Nat
  /\ MaxResourceBytes \in Nat
  /\ AbsentExpiryBytes <= MaxResourceBytes /\ PresentExpiryBytes <= MaxResourceBytes
<1>1. /\ ExpiryField \in DOMAIN Fields
      /\ \A k \in DOMAIN Fields : Fields[k].kind = "expiry" <=> k = ExpiryField
      /\ AbsentExpiryBytes = Len(Header) + LastFieldsBytes[Len(Fields)]
      /\ PresentExpiryBytes = AbsentExpiryBytes + Fields[ExpiryField].width
      /\ MaxResourceBytes \in Nat /\ PresentExpiryBytes <= MaxResourceBytes
  BY LengthsAssumption
<1>2. Fields[ExpiryField].width \in Nat
  BY <1>1, FieldTyped
<1>3. LastFieldsBytes[Len(Fields)] \in Nat
  <2>1. Len(Fields) \in 0 .. Len(Fields)
    BY FormatAssumption
  <2>. QED
    BY <2>1, LastFieldsIs
<1>4. Len(Header) \in Nat
  BY HeaderTyped
<1>5. \A h \in Nat, l \in Nat, w \in Nat, m \in Nat :
        /\ h + l \in Nat /\ (h + l) + w \in Nat
        /\ (h + l) + w <= m => h + l <= m
  OBVIOUS
<1>. QED
  BY <1>1, <1>2, <1>3, <1>4, <1>5, Zenon

(* A wire form has the length that encoded_length reserves for it, and no     *)
(* beginning of it is longer.                                                 *)
LEMMA EncodingLength ==
  ASSUME NEW any \in AllResources
  PROVE  /\ Len(Encoding(any)) = EncodedLength(any[ExpiryField])
         /\ Len(Encoding(any)) <= MaxResourceBytes
         /\ \A k \in 0 .. Len(Fields) :
              /\ Encoding(SubSeq(any, 1, k)) \in Seq(Byte)
              /\ Len(Encoding(SubSeq(any, 1, k))) <= Len(Encoding(any))
<1> DEFINE n == Len(Fields)
<1> DEFINE extra == IF any[ExpiryField] = Absent THEN 0 ELSE Fields[ExpiryField].width
<1> DEFINE Pending(k) == IF k < ExpiryField THEN extra ELSE 0
<1> DEFINE size == [k \in 0 .. n |-> Len(Encoding(SubSeq(any, 1, k)))]
<1> DEFINE total == EncodedLength(any[ExpiryField])
<1> DEFINE T == {k \in 0 .. n : size[k] + LastFieldsBytes[n - k] + Pending(k) = total}
<1>1. n \in Nat /\ DOMAIN Fields = 1 .. n /\ ExpiryField \in 1 .. n /\ extra \in Nat
  BY FormatAssumption, LengthsTyped
<1>2. Leading(any) /\ Len(any) = n /\ SubSeq(any, 1, 0) = <<>> /\ SubSeq(any, 1, n) = any
  BY ResourcesLead
<1>3. /\ total = Len(Header) + LastFieldsBytes[n] + extra
      /\ total <= MaxResourceBytes /\ total \in Nat
  BY LengthsTyped, LastFieldsIs, HeaderTyped DEF EncodedLength
<1>4. ASSUME NEW k \in 0 .. n
      PROVE  /\ Encoding(SubSeq(any, 1, k)) \in Seq(Byte)
             /\ size[k] = Len(Encoding(SubSeq(any, 1, k)))
             /\ size[k] \in Nat
  <2>1. Leading(SubSeq(any, 1, k))
    BY <1>2, FrontLeads
  <2>. QED
    BY <2>1, EncodingTyped
<1> HIDE DEF n, extra, total, size
<1>5. 0 \in T
  <2>1. 0 \in 0 .. n /\ n - 0 = n /\ 0 < ExpiryField
    BY <1>1
  <2>2. size[0] = Len(Encoding(<<>>))
    BY <1>2, <1>4, <2>1
  <2>3. Encoding(<<>>) = Header
    BY HeaderTyped, EncodedNothing DEF Encoding
  <2>4. size[0] + LastFieldsBytes[n - 0] + Pending(0) = total
    BY <1>3, <2>1, <2>2, <2>3
  <2>. QED
    BY <2>1, <2>4
<1>6. ASSUME NEW k \in 0 .. n - 1, k \in T
      PROVE  k + 1 \in T
  <2>1. /\ k + 1 \in 1 .. n /\ (k + 1) - 1 = k /\ k + 1 \in 0 .. n /\ k \in 0 .. n
        /\ n - k \in 1 .. n /\ (n - k) - 1 = n - (k + 1) /\ n - (n - k) + 1 = k + 1
    BY <1>1
  <2> DEFINE form == EncodedField(k + 1, any[k + 1])
  <2>2. Encoding(SubSeq(any, 1, k + 1)) = Encoding(SubSeq(any, 1, k)) \o form
    BY <1>2, <2>1, FieldStands
  <2>3. IsValue(Fields[k + 1], any[k + 1])
    BY <1>2, <2>1 DEF Leading
  <2>4. form \in Seq(Byte)
    BY <1>1, <2>1, <2>3, EncodedFieldTyped
  <2> DEFINE short == ShortestValue(Fields[k + 1])
  <2> DEFINE grown == IF k + 1 = ExpiryField THEN extra ELSE 0
  <2>5. Len(form) = FieldHeaderWidth + (short + grown)
    <3>1. Len(form) = FieldHeaderWidth + Len(Payload(Fields[k + 1], any[k + 1]))
      BY <1>1, <2>1, <2>3, EncodedFieldTyped
    <3>2. Len(Payload(Fields[k + 1], any[k + 1]))
            = short + (IF Fields[k + 1].kind = "expiry" /\ any[k + 1] # Absent
                       THEN Fields[k + 1].width ELSE 0)
      BY <1>1, <2>1, <2>3, PayloadLength
    <3>3. Fields[k + 1].kind = "expiry" <=> k + 1 = ExpiryField
      BY <1>1, <2>1, LengthsTyped
    <3>4. grown = IF Fields[k + 1].kind = "expiry" /\ any[k + 1] # Absent
                  THEN Fields[k + 1].width ELSE 0
      BY <3>3, Zenon DEF extra
    <3>. QED
      BY <3>1, <3>2, <3>4
  <2>6. size[k + 1] = size[k] + Len(form)
    BY <1>4, <2>1, <2>2, <2>4
  <2>7. LastFieldsBytes[n - k] = LastFieldsBytes[n - (k + 1)] + FieldHeaderWidth + short
    <3>1. \A i \in 1 .. n :
            LastFieldsBytes[i] = LastFieldsBytes[i - 1] + FieldHeaderWidth
                                   + ShortestValue(Fields[n - i + 1])
      BY LastFieldsIs DEF n
    <3>2. LastFieldsBytes[n - k] = LastFieldsBytes[(n - k) - 1] + FieldHeaderWidth
                                     + ShortestValue(Fields[n - (n - k) + 1])
      BY <2>1, <3>1, Zenon
    <3>. QED
      BY <2>1, <3>2, Zenon
  <2>8. Pending(k) = Pending(k + 1) + grown
    BY <1>1, <2>1
  <2>9. /\ LastFieldsBytes[n - (k + 1)] \in Nat /\ FieldHeaderWidth \in Nat /\ short \in Nat
        /\ size[k] \in Nat /\ grown \in Nat /\ Pending(k + 1) \in Nat
    <3>1. n - (k + 1) \in 0 .. n
      BY <1>1, <2>1
    <3>2. LastFieldsBytes[n - (k + 1)] \in Nat
      BY <3>1, LastFieldsIs DEF n
    <3>3. Fields[k + 1].width \in Nat
      BY <1>1, <2>1, FieldTyped
    <3>. QED
      BY <1>1, <1>4, <2>1, <3>2, <3>3, WidthsTyped DEF FieldHeaderWidth, ShortestValue
  <2>10. size[k] + LastFieldsBytes[n - k] + Pending(k) = total
    BY <1>6
  <2> HIDE DEF form, short, grown, Pending
  <2>11. size[k + 1] + LastFieldsBytes[n - (k + 1)] + Pending(k + 1) = total
    <3>1. size[k + 1] = size[k] + (FieldHeaderWidth + (short + grown))
      BY <2>5, <2>6, Zenon
    <3>. QED
      BY <2>7, <2>8, <2>9, <2>10, <3>1
  <2>. QED
    BY <2>1, <2>11
<1>7. 0 .. n \subseteq T
  <2> HIDE DEF T
  <2>. QED
    BY <1>1, <1>5, <1>6, UpTo
<1>8. Len(Encoding(any)) = total
  <2>1. n \in 0 .. n /\ n - n = 0 /\ ~(n < ExpiryField)
    BY <1>1
  <2>2. n \in T
    <3> HIDE DEF T
    <3>. QED
      BY <1>7, <2>1
  <2>3. size[n] + LastFieldsBytes[n - n] + Pending(n) = total
    BY <2>2
  <2>4. Pending(n) = 0
    BY <2>1
  <2>5. LastFieldsBytes[n - n] = 0
    BY <2>1, LastFieldsIs
  <2>6. size[n] = Len(Encoding(any)) /\ size[n] \in Nat
    BY <1>2, <1>4, <2>1
  <2> HIDE DEF Pending
  <2>. QED
    BY <2>3, <2>4, <2>5, <2>6
<1>9. ASSUME NEW k \in 0 .. n
      PROVE  Len(Encoding(SubSeq(any, 1, k))) <= Len(Encoding(any))
  <2>1. CASE k = n
    <3>1. SubSeq(any, 1, k) = any
      BY <1>2, <2>1
    <3>2. Len(Encoding(any)) \in Nat
      BY <1>3, <1>8
    <3>3. Len(Encoding(any)) <= Len(Encoding(any))
      BY <3>2
    <3>. QED
      BY <3>1, <3>3, Zenon
  <2>2. CASE k # n
    <3>1. k + 1 \in 1 .. Len(any) /\ (k + 1) - 1 = k
      BY <1>1, <1>2, <2>2
    <3>2. Len(Encoding(SubSeq(any, 1, (k + 1) - 1))) <= Len(Encoding(any))
      BY <1>2, <3>1, FieldStands
    <3>. QED
      BY <3>1, <3>2
  <2>. QED
    BY <2>1, <2>2
<1>. QED
  BY <1>3, <1>4, <1>8, <1>9 DEF n, total

IInv == WireInv /\ Leading(values)

(* The facts of the invariant that most steps use.                            *)
LEMMA Facts ==
  ASSUME IInv
  PROVE  /\ Cursor /\ position \in Nat /\ Len(wire) \in Nat /\ position <= Len(wire)
         /\ resource \in AllResources /\ Leading(resource) /\ Len(resource) = Len(Fields)
         /\ Leading(values) /\ Len(values) \in Nat /\ Len(values) <= Len(Fields)
         /\ Len(Fields) \in Nat /\ DOMAIN Fields = 1 .. Len(Fields)
<1>1. resource \in AllResources
  BY WireFormsAssumption DEF IInv, WireInv, TypeOK
<1>2. Len(Fields) \in Nat /\ DOMAIN Fields = 1 .. Len(Fields)
  BY FormatAssumption
<1>3. Leading(values) /\ Len(values) \in Nat /\ Len(values) <= Len(Fields)
  BY DEF IInv, Leading
<1>4. wire \in Seq(Byte) /\ position \in 0 .. Len(wire)
  BY DEF IInv, WireInv, TypeOK
<1>. QED
  BY <1>1, <1>2, <1>3, <1>4, ResourcesLead DEF Cursor

(* In phase "fields" the cursor stands behind the fields decoded.             *)
LEMMA Position ==
  ASSUME IInv, phase \in {"fields", "accepted"}
  PROVE  /\ SubSeq(wire, 1, position) = Encoding(values)
         /\ position = Len(Encoding(values))
         /\ position >= Len(Header)
<1>1. SubSeq(wire, 1, position) = Encoding(values)
  BY Facts, EncodingTyped DEF IInv, WireInv, CanonicalPrefix
<1>2. Len(SubSeq(wire, 1, position)) = position
  BY Facts DEF Cursor
<1>. QED
  BY <1>1, <1>2, Facts, EncodingTyped

(* Only inputs of a size that the decoder looks at are read.                  *)
LEMMA SizeFits ==
  ASSUME IInv, phase \in {"header", "fields"}
  PROVE  Len(wire) \in Len(Header) .. MaxResourceBytes /\ Len(wire) <= MaxResourceBytes
<1>1. Len(wire) \in Len(Header) .. MaxResourceBytes
  BY DEF IInv, WireInv, Passed
<1>. QED
  BY <1>1, Facts, HeaderTyped, LengthsTyped

(* Where a field does not read as it should, there is no wire form, and the   *)
(* fields before the cursor are canonical.                                    *)
LEMMA NoForm ==
  ASSUME IInv, Reading, ~(Complete /\ OptionTagFits)
  PROVE  /\ wire \notin WireForms
         /\ SubSeq(wire, 1, position) = Header \o EncodedFields(values)
         /\ Len(values) + 1 = next /\ Len(values) < Len(Fields)
         /\ Len(wire) <= MaxResourceBytes
<1>1. phase = "fields" /\ next \in DOMAIN Fields /\ next \in 1 .. Len(Fields)
  BY Facts DEF Reading
<1>2. ASSUME NEW any \in AllResources
      PROVE  ~StandsAt(EncodedField(next, any[next]), position, wire)
  <2>1. IsValue(Fields[next], any[next])
    BY <1>1, ResourcesLead DEF Leading
  <2>. QED
    BY <2>1, Facts, FormIsRead
<1>3. ASSUME wire \in WireForms
      PROVE  FALSE
  <2>1. PICK any \in AllResources : wire = Encoding(any)
    BY <1>3, WireFormsAssumption
  <2>2. values = SubSeq(any, 1, next - 1)
    BY <1>1, <2>1 DEF IInv, WireInv, Passed
  <2>3. Leading(any) /\ next \in 1 .. Len(any)
    BY <1>1, <2>1, ResourcesLead
  <2>4. StandsAt(EncodedField(next, any[next]), Len(Encoding(SubSeq(any, 1, next - 1))),
                 Encoding(any))
    BY <2>3, FieldStands
  <2>5. position = Len(Encoding(SubSeq(any, 1, next - 1)))
    BY <1>1, <2>2, Position
  <2>. QED
    BY <1>2, <2>1, <2>4, <2>5, Zenon
<1>4. Len(values) + 1 = next /\ Len(values) < Len(Fields)
  <2>1. Len(values) = next - 1
    BY <1>1 DEF IInv, WireInv, Passed
  <2>. QED
    BY <1>1, <2>1, Facts
<1>5. Len(wire) <= MaxResourceBytes
  BY <1>1, SizeFits
<1>6. SubSeq(wire, 1, position) = Header \o EncodedFields(values)
  BY <1>1 DEF IInv, WireInv, CanonicalPrefix
<1>. QED
  BY <1>3, <1>4, <1>5, <1>6

(* Phase "header": the parts before next are read.                            *)
LEMMA HeaderPosition ==
  ASSUME IInv, phase = "header"
  PROVE  /\ next \in 1 .. 4 /\ values = <<>>
         /\ SubSeq(wire, 1, position) = HeaderFront(next - 1)
         /\ position = Len(HeaderFront(next - 1))
         /\ HeaderParts[next] \in Seq(Byte)
<1>1. next \in 1 .. 4 /\ values = <<>> /\ SubSeq(wire, 1, position) = HeaderFront(next - 1)
  BY HeaderTyped DEF IInv, WireInv, Passed, HeaderFront
<1>2. Len(SubSeq(wire, 1, position)) = position
  BY Facts DEF Cursor
<1>. QED
  BY <1>1, <1>2, HeaderFrontIs

(* The decoder finds a header part where that part stands.                    *)
LEMMA PartIs ==
  ASSUME IInv, phase = "header"
  PROVE  HeaderPartFits <=> StandsAt(HeaderParts[next], position, wire)
<1>1. StandsAt(HeaderParts[next], position + 0, wire)
        <=> Left(0, Len(HeaderParts[next]))
            /\ Taken(0, Len(HeaderParts[next])) = HeaderParts[next]
  BY TakenStands
<1>2. position + 0 = position
  BY Facts
<1>. QED
  BY <1>1, <1>2 DEF HeaderPartFits

(* No fields are leading fields.                                              *)
LEMMA NothingLeads == Leading(<<>>)
BY FormatAssumption DEF Leading

(* Where a header part does not read as it should, there is no wire form.     *)
LEMMA NoPart ==
  ASSUME IInv, phase = "header", ~HeaderPartFits
  PROVE  /\ wire \notin WireForms
         /\ ~IsPrefix(HeaderParts[next], SubSeq(wire, position + 1, Len(wire)))
         /\ SubSeq(wire, 1, position) = FlattenSeq(SubSeq(HeaderParts, 1, next - 1))
<1>1. /\ next \in 1 .. 4 /\ values = <<>>
      /\ SubSeq(wire, 1, position) = HeaderFront(next - 1)
      /\ position = Len(HeaderFront(next - 1))
      /\ HeaderParts[next] \in Seq(Byte)
  BY HeaderPosition
<1>2. ~StandsAt(HeaderParts[next], position, wire)
  BY PartIs
<1>3. ASSUME wire \in WireForms
      PROVE  FALSE
  <2>1. PICK any \in AllResources : wire = Encoding(any)
    BY <1>3, WireFormsAssumption
  <2>2. StandsAt(HeaderParts[next], Len(HeaderFront(next - 1)), Encoding(any))
    BY <1>1, <2>1, ResourcesLead, PartStands
  <2>. QED
    BY <1>1, <1>2, <2>1, <2>2, Zenon
<1>4. ~IsPrefix(HeaderParts[next], SubSeq(wire, position + 1, Len(wire)))
  BY <1>1, <1>2, Facts, StandsIsPrefix DEF Cursor
<1>. QED
  BY <1>1, <1>3, <1>4, Zenon DEF HeaderFront

(* What is too short or too long is no wire form.                             *)
LEMMA NoLength ==
  ASSUME IInv, TooLong \/ Len(wire) < Len(Header)
  PROVE  wire \notin WireForms
<1>1. SUFFICES ASSUME wire \in WireForms
               PROVE  FALSE
  OBVIOUS
<1>2. PICK any \in AllResources : wire = Encoding(any)
  BY <1>1, WireFormsAssumption
<1>3. Len(wire) <= MaxResourceBytes
  BY <1>2, EncodingLength, Zenon
<1>4. /\ Len(wire) = Len(Header) + Len(EncodedFields(any))
      /\ Len(Header) \in Nat /\ Len(EncodedFields(any)) \in Nat
  BY <1>2, ResourcesLead, EncodingTyped
<1>. QED
  BY <1>3, <1>4, Facts, LengthsTyped DEF TooLong

(* Bytes after the last field make the input no wire form.                    *)
LEMMA NoTrailing ==
  ASSUME IInv, AllRead
  PROVE  /\ Len(values) = Len(Fields)
         /\ SubSeq(wire, 1, position) = Header \o EncodedFields(values)
         /\ Len(wire) <= MaxResourceBytes
         /\ position # Len(wire) =>
              /\ wire \notin WireForms
              /\ SubSeq(wire, position + 1, Len(wire)) # <<>>
<1>1. phase = "fields" /\ next = Len(Fields) + 1 /\ Len(values) = Len(Fields)
  <2>1. phase = "fields" /\ next \notin 1 .. Len(Fields)
    BY Facts DEF AllRead
  <2>2. Len(values) = next - 1 /\ next \in (1 .. 4) \cup (1 .. Len(Fields) + 1)
    BY <2>1, HeaderTyped DEF IInv, WireInv, Passed, TypeOK
  <2>. QED
    BY <2>1, <2>2, Facts
<1>2. /\ SubSeq(wire, 1, position) = Header \o EncodedFields(values)
      /\ Len(wire) <= MaxResourceBytes
  BY <1>1, SizeFits DEF IInv, WireInv, CanonicalPrefix
<1>3. ASSUME wire \in WireForms
      PROVE  position = Len(wire)
  <2>1. PICK any \in AllResources : wire = Encoding(any)
    BY <1>3, WireFormsAssumption
  <2>2. values = SubSeq(any, 1, next - 1)
    BY <1>1, <2>1 DEF IInv, WireInv, Passed
  <2>3. next - 1 = Len(Fields)
    BY <1>1, Facts
  <2>4. values = any
    BY <2>1, <2>2, <2>3, ResourcesLead
  <2>. QED
    BY <1>1, <2>1, <2>4, Position
<1>4. ASSUME position # Len(wire)
      PROVE  SubSeq(wire, position + 1, Len(wire)) # <<>>
  <2> DEFINE rest == SubSeq(wire, position + 1, Len(wire))
  <2>1. Len(rest) = Len(wire) - position
    BY Facts DEF Cursor
  <2>2. Len(rest) # 0
    BY <1>4, <2>1, Facts
  <2> HIDE DEF rest
  <2>3. rest # <<>>
    BY <2>2
  <2>. QED
    BY <2>3 DEF rest
<1>. QED
  BY <1>1, <1>2, <1>3, <1>4

(* The invariant holds before encode is called.                               *)
LEMMA InitInv == Init => IInv
<1> SUFFICES ASSUME Init
             PROVE  IInv
  OBVIOUS
<1>1. Leading(values)
  BY NothingLeads DEF Init
<1>2. /\ phase = "reserve" /\ next = 1 /\ output = <<>> /\ capacity = 0 /\ wire = <<>>
      /\ position = 0 /\ values = <<>> /\ code = "none" /\ resource \in Resources
  BY DEF Init
<1>3. TypeOK
  BY <1>2, HeaderTyped DEF TypeOK, Phases
<1>4. Written
  BY <1>2 DEF Written, Decoding
<1>5. Passed
  BY <1>2 DEF Passed
<1>6. CanonicalPrefix /\ StopsAtFirstDefect
  BY <1>2 DEF CanonicalPrefix, StopsAtFirstDefect
<1>. QED
  BY <1>1, <1>3, <1>4, <1>5, <1>6 DEF IInv, WireInv

-----------------------------------------------------------------------------
(* The encoder's steps.                                                       *)
LEMMA ReserveKeeps == ASSUME IInv, ReserveOutput PROVE IInv'
<1>1. /\ phase = "reserve" /\ phase' = "append" /\ next = 1 /\ output' = Header
      /\ capacity' = EncodedLength(resource[ExpiryField])
      /\ UNCHANGED <<resource, next, wire, position, values, code>>
  BY DEF ReserveOutput, IInv, WireInv, Written
<1>2. Leading(values)'
  BY <1>1 DEF IInv, Leading
<1>3. TypeOK'
  BY <1>1, HeaderTyped DEF IInv, WireInv, TypeOK, Phases, EncodedLength
<1>4. Written'
  <2>1. Header = Header \o EncodedFields(SubSeq(resource, 1, next - 1))
    <3>1. SubSeq(resource, 1, next - 1) = <<>>
      BY <1>1, Facts, ResourcesLead
    <3>2. Header \o <<>> = Header
      BY HeaderTyped
    <3>. QED
      BY <3>1, <3>2, EncodedNothing
  <2>2. next \in 1 .. Len(Fields) + 1
    BY <1>1, Facts
  <2>. QED
    BY <1>1, <2>1, <2>2 DEF Written, Decoding
<1>5. Passed'
  BY <1>1 DEF IInv, WireInv, Passed
<1>6. CanonicalPrefix' /\ StopsAtFirstDefect'
  BY <1>1 DEF CanonicalPrefix, StopsAtFirstDefect
<1>. QED
  BY <1>2, <1>3, <1>4, <1>5, <1>6 DEF IInv, WireInv

(* AllocationFailed: nothing was written.                                     *)
LEMMA FailKeeps == ASSUME IInv, FailReserve PROVE IInv'
<1>1. /\ phase = "reserve" /\ phase' = "unallocated"
      /\ UNCHANGED <<resource, next, output, capacity, wire, position, values, code>>
  BY DEF FailReserve
<1>2. Leading(values)'
  BY <1>1 DEF IInv, Leading
<1>3. TypeOK'
  BY <1>1 DEF IInv, WireInv, TypeOK, Phases
<1>4. Written'
  BY <1>1 DEF IInv, WireInv, Written, Decoding
<1>5. Passed'
  BY <1>1 DEF IInv, WireInv, Passed
<1>6. CanonicalPrefix' /\ StopsAtFirstDefect'
  BY <1>1 DEF CanonicalPrefix, StopsAtFirstDefect
<1>. QED
  BY <1>2, <1>3, <1>4, <1>5, <1>6 DEF IInv, WireInv

(* append_fixed_field, append_expiry_field: the form of the next field.       *)
LEMMA AppendKeeps == ASSUME IInv, AppendField PROVE IInv'
<1>1. /\ phase = "append" /\ next \in 1 .. Len(Fields) /\ next' = next + 1
      /\ output' = output \o EncodedField(next, resource[next])
      /\ UNCHANGED <<phase, resource, capacity, wire, position, values, code>>
  BY Facts DEF AppendField
<1>2. /\ Encoding(SubSeq(resource, 1, next))
           = Encoding(SubSeq(resource, 1, next - 1)) \o EncodedField(next, resource[next])
      /\ Encoding(SubSeq(resource, 1, next)) \in Seq(Byte)
  <2>1. Leading(resource) /\ next \in 1 .. Len(resource) /\ next \in 0 .. Len(Fields)
    BY <1>1, Facts
  <2>. QED
    BY <2>1, Facts, FieldStands, EncodingLength
<1>3. output' = Encoding(SubSeq(resource, 1, next))
  BY <1>1, <1>2 DEF IInv, WireInv, Written, Encoding
<1>4. Leading(values)'
  BY <1>1 DEF IInv, Leading
<1>5. TypeOK'
  <2>1. output' \in Seq(Byte) /\ next' \in 1 .. Len(Fields) + 1
    BY <1>1, <1>2, <1>3, Facts
  <2>. QED
    BY <1>1, <2>1 DEF IInv, WireInv, TypeOK, Phases
<1>6. Written'
  <2>1. next' \in 1 .. Len(Fields) + 1 /\ next' - 1 = next
    BY <1>1, Facts
  <2>2. output' = Header \o EncodedFields(SubSeq(resource', 1, next' - 1))
    BY <1>1, <1>3, <2>1 DEF Encoding
  <2>. QED
    BY <1>1, <2>1, <2>2 DEF IInv, WireInv, Written, Decoding
<1>7. Passed'
  BY <1>1 DEF IInv, WireInv, Passed
<1>8. CanonicalPrefix' /\ StopsAtFirstDefect'
  BY <1>1 DEF CanonicalPrefix, StopsAtFirstDefect
<1>. QED
  BY <1>4, <1>5, <1>6, <1>7, <1>8 DEF IInv, WireInv

(* After the last field the output is the wire form.                          *)
LEMMA ReturnKeeps == ASSUME IInv, ReturnOutput PROVE IInv'
<1>1. /\ phase = "append" /\ next \notin 1 .. Len(Fields) /\ phase' = "encoded"
      /\ UNCHANGED <<resource, next, output, capacity, wire, position, values, code>>
  BY Facts DEF ReturnOutput
<1>2. Leading(values)'
  BY <1>1 DEF IInv, Leading
<1>3. TypeOK'
  BY <1>1 DEF IInv, WireInv, TypeOK, Phases
<1>4. Written'
  <2>1. next \in 1 .. Len(Fields) + 1
        /\ output = Header \o EncodedFields(SubSeq(resource, 1, next - 1))
    BY <1>1 DEF IInv, WireInv, Written
  <2>2. next - 1 = Len(Fields)
    BY <1>1, <2>1, Facts
  <2>3. SubSeq(resource, 1, next - 1) = resource
    BY <2>2, Facts, ResourcesLead
  <2>4. output = Encoding(resource)
    BY <2>1, <2>3 DEF Encoding
  <2>. QED
    BY <1>1, <2>4 DEF IInv, WireInv, Written, Decoding
<1>5. Passed'
  BY <1>1 DEF IInv, WireInv, Passed
<1>6. CanonicalPrefix' /\ StopsAtFirstDefect'
  BY <1>1 DEF CanonicalPrefix, StopsAtFirstDefect
<1>. QED
  BY <1>2, <1>3, <1>4, <1>5, <1>6 DEF IInv, WireInv

(* The decoder's input is any damage of the bytes.                            *)
LEMMA DeliverKeeps == ASSUME IInv, Deliver PROVE IInv'
<1>1. /\ phase = "encoded" /\ next' = 1 /\ phase' = "ingress"
      /\ UNCHANGED <<resource, output, capacity, position, values, code>>
      /\ output = Encoding(resource) /\ position = 0 /\ values = <<>>
  BY DEF Deliver, IInv, WireInv, Written, Passed
<1>2. wire' \in Seq(Byte)
  BY <1>1, WireFormsAssumption DEF Deliver, IInv, WireInv, TypeOK
<1>3. Leading(values)'
  BY <1>1 DEF IInv, Leading
<1>4. TypeOK'
  <2>1. position' \in 0 .. Len(wire') /\ next' \in 1 .. Len(Fields) + 1
    BY <1>1, <1>2, Facts
  <2>. QED
    BY <1>1, <1>2, <2>1 DEF IInv, WireInv, TypeOK, Phases
<1>5. Written'
  BY <1>1 DEF IInv, WireInv, Written, Decoding
<1>6. Passed'
  BY <1>1 DEF Passed
<1>7. CanonicalPrefix' /\ StopsAtFirstDefect'
  BY <1>1 DEF CanonicalPrefix, StopsAtFirstDefect
<1>. QED
  BY <1>3, <1>4, <1>5, <1>6, <1>7 DEF IInv, WireInv

-----------------------------------------------------------------------------
(* The decoder's steps.                                                       *)
LEMMA AcceptIngressKeeps == ASSUME IInv, AcceptIngress PROVE IInv'
<1>1. /\ phase = "ingress" /\ phase' = "header" /\ next = 1 /\ position = 0 /\ values = <<>>
      /\ UNCHANGED <<resource, next, output, capacity, wire, position, values, code>>
  BY DEF AcceptIngress, IInv, WireInv, Passed
<1>7. Len(wire) \in Len(Header) .. MaxResourceBytes
  BY Facts, HeaderTyped, LengthsTyped DEF AcceptIngress, TooLong
<1>2. Leading(values)'
  BY <1>1 DEF IInv, Leading
<1>3. TypeOK'
  BY <1>1 DEF IInv, WireInv, TypeOK, Phases
<1>4. Written'
  BY <1>1 DEF IInv, WireInv, Written, Decoding
<1>5. Passed'
  <2>1. next' \in DOMAIN HeaderParts
    BY <1>1, HeaderTyped
  <2>2. SubSeq(wire, 1, 0) = <<>> /\ HeaderFront(0) = <<>>
    BY Facts, HeaderFrontEnds DEF Cursor
  <2>3. SubSeq(wire', 1, position') = FlattenSeq(SubSeq(HeaderParts, 1, next' - 1))
    <3>1. next' - 1 = 0
      BY <1>1
    <3>. QED
      BY <1>1, <2>2, <3>1 DEF HeaderFront
  <2>. QED
    BY <1>1, <1>7, <2>1, <2>3 DEF Passed
<1>6. CanonicalPrefix' /\ StopsAtFirstDefect'
  BY <1>1 DEF CanonicalPrefix, StopsAtFirstDefect
<1>. QED
  BY <1>2, <1>3, <1>4, <1>5, <1>6 DEF IInv, WireInv

(* A header part that fits is that of the header.                             *)
LEMMA ReadPartKeeps == ASSUME IInv, ReadHeaderPart PROVE IInv'
<1> DEFINE part == HeaderParts[next]
<1>1. /\ phase = "header" /\ next \in 1 .. 4 /\ values = <<>>
      /\ position' = position + Len(part)
      /\ next' = IF next < 4 THEN next + 1 ELSE 1
      /\ phase' = IF next < 4 THEN "header" ELSE "fields"
      /\ UNCHANGED <<resource, output, capacity, wire, values, code>>
  BY HeaderPosition, HeaderTyped DEF ReadHeaderPart
<1>2. part \in Seq(Byte) /\ StandsAt(part, position, wire)
  BY HeaderPosition, PartIs DEF ReadHeaderPart
<1> HIDE DEF part
<1>3. /\ position' \in position .. Len(wire)
      /\ SubSeq(wire, position + 1, position') = part
  BY <1>1, <1>2, Facts DEF StandsAt
<1>4. SubSeq(wire', 1, position') = HeaderFront(next)
  <2>1. SubSeq(wire, 1, position) \o SubSeq(wire, position + 1, position')
          = SubSeq(wire, 1, position')
    BY <1>3, Facts, CutGrows DEF Cursor
  <2>2. SubSeq(wire, 1, position) = HeaderFront(next - 1)
    BY <1>1, HeaderPosition
  <2>3. HeaderFront(next) = HeaderFront(next - 1) \o part
    BY <1>1, HeaderFrontIs DEF part
  <2>. QED
    BY <1>1, <1>3, <2>1, <2>2, <2>3
<1>5. Leading(values)'
  BY <1>1 DEF IInv, Leading
<1>6. TypeOK'
  <2>1. position' \in 0 .. Len(wire') /\ next' \in 1 .. Len(HeaderParts)
    BY <1>1, <1>3, Facts, HeaderTyped
  <2>. QED
    BY <1>1, <2>1 DEF IInv, WireInv, TypeOK, Phases
<1>7. Written'
  BY <1>1 DEF IInv, WireInv, Written, Decoding
<1>11. Len(wire') \in Len(Header) .. MaxResourceBytes
  BY <1>1, SizeFits
<1>8. Passed'
  <2>1. CASE next < 4
    <3>1. next' \in DOMAIN HeaderParts /\ next' - 1 = next /\ phase' = "header"
      BY <1>1, <2>1, HeaderTyped
    <3>2. SubSeq(wire', 1, position') = FlattenSeq(SubSeq(HeaderParts, 1, next' - 1))
      BY <1>4, <3>1 DEF HeaderFront
    <3>. QED
      BY <1>1, <1>11, <3>1, <3>2 DEF Passed
  <2>2. CASE ~(next < 4)
    <3>1. phase' = "fields" /\ next' - 1 = 0 /\ Len(values') = 0
      BY <1>1, <2>2
    <3>2. \A any \in AllResources : values' = SubSeq(any, 1, next' - 1)
      BY <1>1, <3>1, ResourcesLead
    <3>. QED
      BY <1>1, <1>11, <3>1, <3>2 DEF Passed
  <2>. QED
    BY <2>1, <2>2
<1>9. CanonicalPrefix'
  <2>1. ASSUME phase' \in {"fields", "accepted"}
        PROVE  SubSeq(wire', 1, position') = Header \o EncodedFields(values')
    <3>1. next = 4
      BY <1>1, <2>1
    <3>2. SubSeq(wire', 1, position') = Header
      BY <1>4, <3>1, HeaderFrontEnds
    <3>3. EncodedFields(values') = <<>>
      BY <1>1, EncodedNothing
    <3>4. Header \o <<>> = Header
      BY HeaderTyped
    <3>. QED
      BY <3>2, <3>3, <3>4
  <2>. QED
    BY <2>1 DEF CanonicalPrefix
<1>10. StopsAtFirstDefect'
  BY <1>1 DEF StopsAtFirstDefect
<1>. QED
  BY <1>5, <1>6, <1>7, <1>8, <1>9, <1>10 DEF IInv, WireInv

(* One more field of a resource.                                              *)
LEMMA FrontAppends ==
  ASSUME NEW any \in AllResources, NEW k \in 1 .. Len(Fields)
  PROVE  SubSeq(any, 1, k) = Append(SubSeq(any, 1, k - 1), any[k])
<1>1. any \in Seq(FieldValues) /\ Len(any) = Len(Fields)
  BY ResourcesLead DEF Leading
<1>. QED
  BY <1>1

(* A field that reads as it should is the form of its value, and of no other. *)
LEMMA ReadFieldKeeps == ASSUME IInv, ReadField PROVE IInv'
<1> DEFINE value == Parsed(Fields[next], Value)
<1> DEFINE form == EncodedField(next, value)
<1>1. /\ phase = "fields" /\ next \in 1 .. Len(Fields) /\ next \in DOMAIN Fields
      /\ values' = Append(values, value) /\ next' = next + 1
      /\ position' = position + FieldHeaderWidth + DeclaredLength
      /\ UNCHANGED <<phase, resource, output, capacity, wire, code>>
      /\ Complete /\ OptionTagFits /\ Reading
  BY Facts DEF ReadField, Complete, Sized, Tagged, Framing, Reading
<1>2. IsValue(Fields[next], value)
  BY <1>1, Facts, ReadIsForm
<1>3. /\ StandsAt(form, position, wire)
      /\ Len(form) = FieldHeaderWidth + DeclaredLength /\ DeclaredLength \in Nat
  BY <1>1, Facts, ReadIsForm
<1>4. form \in Seq(Byte)
  BY <1>1, <1>2, EncodedFieldTyped
<1>5. Len(values) = next - 1 /\ Len(values) + 1 = next
  BY <1>1 DEF IInv, WireInv, Passed
<1>6. Leading(Append(values, value)) /\ EncodedFields(Append(values, value))
                                          = EncodedFields(values) \o form
  <2> HIDE DEF value
  <2>1. Leading(values) /\ Len(values) + 1 <= Len(Fields)
    BY <1>1, <1>5, Facts
  <2>2. IsValue(Fields[Len(values) + 1], value)
    BY <1>2, <1>5, Zenon
  <2>3. /\ Leading(Append(values, value))
        /\ EncodedFields(Append(values, value))
             = EncodedFields(values) \o EncodedField(Len(values) + 1, value)
    BY <2>1, <2>2, EncodedFieldsGrow
  <2>. QED
    BY <1>5, <2>3, Zenon
<1>7. \A any \in AllResources : wire = Encoding(any) => value = any[next]
  <2> SUFFICES ASSUME NEW any \in AllResources, wire = Encoding(any)
               PROVE  value = any[next]
    OBVIOUS
  <2>1. values = SubSeq(any, 1, next - 1)
    BY <1>1 DEF IInv, WireInv, Passed
  <2>2. Leading(any) /\ next \in 1 .. Len(any) /\ IsValue(Fields[next], any[next])
    BY <1>1, ResourcesLead DEF Leading
  <2>3. StandsAt(EncodedField(next, any[next]), Len(Encoding(SubSeq(any, 1, next - 1))),
                 Encoding(any))
    BY <2>2, FieldStands
  <2>4. position = Len(Encoding(SubSeq(any, 1, next - 1)))
    BY <1>1, <2>1, Position
  <2>5. StandsAt(EncodedField(next, any[next]), position, wire)
    BY <2>3, <2>4, Zenon
  <2>. QED
    BY <1>1, <2>2, <2>5, Facts, FormIsRead
<1> HIDE DEF value
<1>8. position' = position + Len(form)
  BY <1>1, <1>3, Facts, WidthsTyped DEF FieldHeaderWidth
<1>9. /\ position' \in position .. Len(wire)
      /\ SubSeq(wire, position + 1, position') = form
  BY <1>3, <1>4, <1>8, Facts DEF StandsAt
<1>10. CanonicalPrefix'
  <2>1. SubSeq(wire, 1, position) \o SubSeq(wire, position + 1, position')
          = SubSeq(wire, 1, position')
    BY <1>9, Facts, CutGrows DEF Cursor
  <2>2. SubSeq(wire, 1, position) = Header \o EncodedFields(values)
    BY <1>1 DEF IInv, WireInv, CanonicalPrefix
  <2>3. (Header \o EncodedFields(values)) \o form = Header \o (EncodedFields(values) \o form)
    <3>1. Header \in Seq(Byte) /\ EncodedFields(values) \in Seq(Byte)
      BY Facts, HeaderTyped, EncodedFieldsTyped
    <3>2. \A x \in Seq(Byte), y \in Seq(Byte), z \in Seq(Byte) :
            (x \o y) \o z = x \o (y \o z)
      BY ConcatAssoc
    <3>. QED
      BY <1>4, <3>1, <3>2, Zenon
  <2>4. SubSeq(wire', 1, position') = Header \o EncodedFields(values')
    BY <1>1, <1>6, <1>9, <2>1, <2>2, <2>3, Zenon
  <2>. QED
    BY <2>4 DEF CanonicalPrefix
<1>11. Leading(values)'
  BY <1>1, <1>6 DEF Leading
<1>12. Len(values') = next' - 1 /\ next' \in 1 .. Len(Fields) + 1
  <2>1. Len(Append(values, value)) = Len(values) + 1
    BY Facts DEF Leading
  <2>. QED
    BY <1>1, <1>5, <2>1, Facts
<1>13. TypeOK'
  <2>1. position' \in 0 .. Len(wire')
    BY <1>1, <1>9, Facts
  <2>2. /\ DOMAIN values' \subseteq DOMAIN Fields
        /\ \A k \in DOMAIN values' : IsValue(Fields[k], values'[k])
    <3> DEFINE list == values'
    <3>1. /\ list \in Seq(FieldValues) /\ Len(list) <= Len(Fields)
          /\ \A k \in 1 .. Len(list) : IsValue(Fields[k], list[k])
      BY <1>11 DEF Leading
    <3> HIDE DEF list
    <3>2. DOMAIN list = 1 .. Len(list) /\ Len(list) \in Nat
      BY <3>1
    <3>3. DOMAIN list \subseteq DOMAIN Fields
      BY <3>1, <3>2, Facts
    <3>4. \A k \in DOMAIN list : IsValue(Fields[k], list[k])
      BY <3>1, <3>2, Zenon
    <3>. QED
      BY <3>3, <3>4 DEF list
  <2>. QED
    BY <1>1, <1>12, <2>1, <2>2 DEF IInv, WireInv, TypeOK
<1>14. Written'
  BY <1>1 DEF IInv, WireInv, Written, Decoding
<1>15. Passed'
  <2>1. ASSUME NEW any \in AllResources, wire' = Encoding(any)
        PROVE  values' = SubSeq(any, 1, next' - 1)
    <3>1. values = SubSeq(any, 1, next - 1) /\ value = any[next]
      BY <1>1, <1>7, <2>1 DEF IInv, WireInv, Passed
    <3>2. SubSeq(any, 1, next) = Append(SubSeq(any, 1, next - 1), any[next])
      BY <1>1, FrontAppends
    <3>3. next' - 1 = next
      BY <1>1
    <3>. QED
      BY <1>1, <3>1, <3>2, <3>3
  <2>2. Len(wire') \in Len(Header) .. MaxResourceBytes
    BY <1>1, SizeFits
  <2>. QED
    BY <1>1, <1>12, <2>1, <2>2 DEF Passed
<1>16. StopsAtFirstDefect'
  BY <1>1 DEF StopsAtFirstDefect
<1>. QED
  BY <1>10, <1>11, <1>13, <1>14, <1>15, <1>16 DEF IInv, WireInv

(* Acceptance leaves nothing unread.                                          *)
LEMMA AcceptKeeps == ASSUME IInv, AcceptWire PROVE IInv'
<1>1. /\ phase = "fields" /\ phase' = "accepted" /\ position = Len(wire)
      /\ Len(values) = Len(Fields)
      /\ UNCHANGED <<resource, next, output, capacity, wire, position, values, code>>
  BY NoTrailing DEF AcceptWire, AllRead
<1>2. Leading(values)'
  BY <1>1 DEF IInv, Leading
<1>3. TypeOK'
  BY <1>1 DEF IInv, WireInv, TypeOK, Phases
<1>4. Written'
  BY <1>1 DEF IInv, WireInv, Written, Decoding
<1>5. Passed'
  BY <1>1 DEF Passed
<1>6. CanonicalPrefix' /\ StopsAtFirstDefect'
  BY <1>1 DEF IInv, WireInv, CanonicalPrefix, StopsAtFirstDefect
<1>. QED
  BY <1>2, <1>3, <1>4, <1>5, <1>6 DEF IInv, WireInv

-----------------------------------------------------------------------------
(* Rejection.  The bytes that the cursor has left.                            *)
Rest == SubSeq(wire, position + 1, Len(wire))

(* A slice that lies within a sequence, entry by entry.                       *)
LEMMA SliceWithin ==
  ASSUME NEW S, NEW s \in Seq(S), NEW start \in Nat, NEW length \in Nat,
         start + length <= Len(s)
  PROVE  /\ SubSeq(s, start + 1, start + length) \in Seq(S)
         /\ Len(SubSeq(s, start + 1, start + length)) = length
         /\ \A i \in 1 .. length : SubSeq(s, start + 1, start + length)[i] = s[start + i]
<1> DEFINE first == start + 1
           last == start + length
<1>1. first \in Int /\ last \in Int /\ last - first + 1 = length
      /\ (first <= last <=> length # 0)
  OBVIOUS
<1>2. \A i \in first .. last : s[i] \in S
  OBVIOUS
<1>3. \A i \in 1 .. length : first + i - 1 = start + i
  OBVIOUS
<1> HIDE DEF first, last
<1>4. /\ SubSeq(s, first, last) \in Seq(S)
      /\ Len(SubSeq(s, first, last)) = IF first <= last THEN last - first + 1 ELSE 0
      /\ \A i \in 1 .. last - first + 1 : SubSeq(s, first, last)[i] = s[first + i - 1]
  BY <1>1, <1>2, SubSeqProperties
<1>5. /\ SubSeq(s, first, last) \in Seq(S)
      /\ Len(SubSeq(s, first, last)) = length
      /\ \A i \in 1 .. length : SubSeq(s, first, last)[i] = s[start + i]
  BY <1>1, <1>3, <1>4
<1>. QED
  BY <1>5 DEF first, last

(* They are taken from their beginning.                                       *)
LEMMA RestTaken ==
  ASSUME Cursor, NEW offset \in Nat, NEW length \in Nat
  PROVE  /\ Rest \in Seq(Byte) /\ Len(Rest) \in Nat
         /\ Left(offset, length) <=> Len(Rest) >= offset + length
         /\ Left(offset, length) =>
              /\ SubSeq(Rest, offset + 1, offset + length) = Taken(offset, length)
              /\ \A i \in 1 .. length : Rest[offset + i] = Taken(offset, length)[i]
<1>1. Rest \in Seq(Byte) /\ Len(Rest) = Len(wire) - position
      /\ \A i \in 1 .. Len(wire) - position : Rest[i] = wire[position + i]
  BY DEF Cursor, Rest
<1>2. Len(wire) \in Nat /\ position \in 0 .. Len(wire)
  BY DEF Cursor
<1>3. Left(offset, length) <=> Len(Rest) >= offset + length
  BY <1>1, <1>2 DEF Left
<1>4. ASSUME Left(offset, length)
      PROVE  /\ SubSeq(Rest, offset + 1, offset + length) = Taken(offset, length)
             /\ \A i \in 1 .. length : Rest[offset + i] = Taken(offset, length)[i]
  <2>1. /\ Taken(offset, length) \in Seq(Byte) /\ Len(Taken(offset, length)) = length
        /\ \A i \in 1 .. length : Taken(offset, length)[i] = wire[position + offset + i]
    <3> DEFINE start == position + offset
    <3>1. wire \in Seq(Byte) /\ start \in Nat /\ start + length <= Len(wire)
      BY <1>2, <1>4 DEF Left, Cursor
    <3>2. Taken(offset, length) = SubSeq(wire, start + 1, start + length)
      BY DEF Taken
    <3> HIDE DEF start
    <3>3. /\ SubSeq(wire, start + 1, start + length) \in Seq(Byte)
          /\ Len(SubSeq(wire, start + 1, start + length)) = length
          /\ \A i \in 1 .. length : SubSeq(wire, start + 1, start + length)[i] = wire[start + i]
      BY <3>1, SliceWithin
    <3>. QED
      BY <3>2, <3>3 DEF start
  <2>2. \A i \in 1 .. length : Rest[offset + i] = wire[position + offset + i]
    <3> TAKE i \in 1 .. length
    <3>1. offset + i \in 1 .. Len(wire) - position
      BY <1>2, <1>4 DEF Left
    <3>2. position + (offset + i) = position + offset + i
      BY <1>2
    <3>. QED
      BY <1>1, <3>1, <3>2
  <2> DEFINE part == SubSeq(Rest, offset + 1, offset + length)
  <2>3. /\ part \in Seq(Byte) /\ Len(part) = length
        /\ \A i \in 1 .. length : part[i] = Rest[offset + i]
    BY <1>1, <1>2, <1>3, <1>4
  <2> HIDE DEF part
  <2>4. part = Taken(offset, length)
    BY <2>1, <2>2, <2>3, SeqEqual
  <2>. QED
    BY <2>1, <2>2, <2>4 DEF part
<1>. QED
  BY <1>1, <1>2, <1>3, <1>4

(* The frame that read_field_header takes is the tag and length that the      *)
(* format has there.                                                          *)
LEMMA FrameRead ==
  ASSUME Cursor, Reading
  PROVE  /\ Framing <=> Len(Rest) >= FieldHeaderWidth
         /\ Framing =>
              /\ DeclaredTag = next <=> SubSeq(Rest, 1, ShortWidth) = BigEndian(next, ShortWidth)
              /\ \A n \in 0 .. Fields[next].width + 1 :
                   DeclaredLength = n <=>
                     SubSeq(Rest, ShortWidth + 1, FieldHeaderWidth) = BigEndian(n, LengthWidth)
<1>1. /\ ShortWidth \in Nat /\ LengthWidth \in Nat /\ FieldHeaderWidth \in Nat
      /\ FieldHeaderWidth = ShortWidth + LengthWidth /\ 0 \in Nat
      /\ 0 + 1 = 1 /\ 0 + ShortWidth = ShortWidth /\ 0 + FieldHeaderWidth = FieldHeaderWidth
  BY WidthsTyped DEF FieldHeaderWidth
<1>2. Framing <=> Len(Rest) >= FieldHeaderWidth
  <2>1. Left(0, FieldHeaderWidth) <=> Len(Rest) >= 0 + FieldHeaderWidth
    BY <1>1, RestTaken
  <2>. QED
    BY <1>1, <2>1 DEF Framing
<1>3. SUFFICES ASSUME Framing
               PROVE  /\ DeclaredTag = next
                           <=> SubSeq(Rest, 1, ShortWidth) = BigEndian(next, ShortWidth)
                      /\ \A n \in 0 .. Fields[next].width + 1 :
                           DeclaredLength = n <=>
                             SubSeq(Rest, ShortWidth + 1, FieldHeaderWidth)
                               = BigEndian(n, LengthWidth)
  BY <1>2
<1>4. Left(0, ShortWidth) /\ Left(ShortWidth, LengthWidth)
  BY <1>1, <1>3 DEF Framing, Left, Cursor
<1>5. /\ SubSeq(Rest, 1, ShortWidth) = Taken(0, ShortWidth)
      /\ SubSeq(Rest, ShortWidth + 1, FieldHeaderWidth) = Taken(ShortWidth, LengthWidth)
  <2>1. SubSeq(Rest, 0 + 1, 0 + ShortWidth) = Taken(0, ShortWidth)
    BY <1>1, <1>4, RestTaken
  <2>2. SubSeq(Rest, ShortWidth + 1, ShortWidth + LengthWidth) = Taken(ShortWidth, LengthWidth)
    BY <1>1, <1>4, RestTaken
  <2>. QED
    BY <1>1, <2>1, <2>2
<1>6. /\ Taken(0, ShortWidth) \in Seq(Byte) /\ Len(Taken(0, ShortWidth)) = ShortWidth
      /\ Taken(ShortWidth, LengthWidth) \in Seq(Byte)
      /\ Len(Taken(ShortWidth, LengthWidth)) = LengthWidth
  BY <1>1, <1>4, TakenTyped
<1>7. /\ BigEndian(DeclaredTag, ShortWidth) = Taken(0, ShortWidth)
      /\ BigEndian(DeclaredLength, LengthWidth) = Taken(ShortWidth, LengthWidth)
  BY <1>6, BigEndianOfNumber DEF DeclaredTag, DeclaredLength
<1>8. /\ Fits(next, ShortWidth)
      /\ \A n \in 0 .. Fields[next].width + 1 : Fits(n, LengthWidth)
  BY FieldTyped DEF Reading
<1>9. DeclaredTag = next <=> Taken(0, ShortWidth) = BigEndian(next, ShortWidth)
  BY <1>7, <1>8, FitsIs, Zenon DEF DeclaredTag
<1>10. \A n \in 0 .. Fields[next].width + 1 :
         DeclaredLength = n <=> Taken(ShortWidth, LengthWidth) = BigEndian(n, LengthWidth)
  BY <1>7, <1>8, FitsIs, Zenon DEF DeclaredLength
<1>. QED
  BY <1>5, <1>9, <1>10, Zenon

(* The two lengths of an expiry, or the one of another field.                 *)
LEMMA LengthsAre ==
  ASSUME NEW k \in DOMAIN Fields
  PROVE  /\ Lengths(Fields[k]) = IF Fields[k].kind = "expiry" THEN {1, 1 + Fields[k].width}
                                                             ELSE {Fields[k].width}
         /\ Lengths(Fields[k]) \subseteq 0 .. Fields[k].width + 1
         /\ \A n \in Lengths(Fields[k]) : n \in Nat /\ n >= 1
<1> DEFINE width == Fields[k].width
<1>1. width \in Nat /\ width # 0
  BY FieldTyped
<1>2. Lengths(Fields[k]) = IF Fields[k].kind = "expiry" THEN {1, 1 + width} ELSE {width}
  BY DEF Lengths
<1> HIDE DEF width
<1>3. {1, 1 + width} \subseteq 0 .. width + 1 /\ {width} \subseteq 0 .. width + 1
      /\ \A n \in {1, 1 + width} \cup {width} : n \in Nat /\ n >= 1
  BY <1>1
<1>4. /\ Lengths(Fields[k]) \subseteq 0 .. width + 1
      /\ \A n \in Lengths(Fields[k]) : n \in Nat /\ n >= 1
  BY <1>2, <1>3
<1>. QED
  BY <1>2, <1>4 DEF width

(* The five checks of a field fail where the format has that defect.          *)
LEMMA FieldDefects ==
  ASSUME Cursor, Reading
  PROVE  /\ ~Framing => FieldDefect("FIELD_HEADER", next, Rest)
         /\ Framing /\ ~Tagged => FieldDefect("FIELD_TAG", next, Rest)
         /\ Tagged /\ ~Sized => FieldDefect("FIELD_LENGTH", next, Rest)
         /\ Sized /\ ~Complete => FieldDefect("FIELD_VALUE", next, Rest)
         /\ Complete /\ ~OptionTagFits => FieldDefect("OPTION_TAG", next, Rest)
<1> DEFINE tag == SubSeq(Rest, 1, ShortWidth)
<1> DEFINE length == SubSeq(Rest, ShortWidth + 1, FieldHeaderWidth)
<1> DEFINE allowed == IF Fields[next].kind = "expiry" THEN {1, 1 + Fields[next].width}
                                                      ELSE {Fields[next].width}
<1>1. next \in DOMAIN Fields /\ FieldHeaderWidth \in Nat
  BY WidthsTyped DEF Reading, FieldHeaderWidth
<1>2. /\ Framing <=> Len(Rest) >= FieldHeaderWidth
      /\ Framing => (DeclaredTag = next <=> tag = BigEndian(next, ShortWidth))
      /\ Framing => \A n \in 0 .. Fields[next].width + 1 :
                      DeclaredLength = n <=> length = BigEndian(n, LengthWidth)
  BY FrameRead
<1>3. /\ Lengths(Fields[next]) = allowed /\ allowed \subseteq 0 .. Fields[next].width + 1
      /\ \A n \in allowed : n \in Nat /\ n >= 1
  BY <1>1, LengthsAre
<1> HIDE DEF tag, length, allowed
<1>4. Tagged <=> Len(Rest) >= FieldHeaderWidth /\ tag = BigEndian(next, ShortWidth)
  BY <1>2, Zenon DEF Tagged
<1>5. \A n \in allowed :
        (Tagged /\ DeclaredLength = n) <=> (Tagged /\ length = BigEndian(n, LengthWidth))
  BY <1>2, <1>3, Zenon DEF Tagged
<1>6. \A n \in allowed : Left(FieldHeaderWidth, n) <=> Len(Rest) >= FieldHeaderWidth + n
  BY <1>1, <1>3, RestTaken
<1>7. ~Framing => FieldDefect("FIELD_HEADER", next, Rest)
  BY <1>2, Zenon DEF FieldDefect
<1>8. Framing /\ ~Tagged => FieldDefect("FIELD_TAG", next, Rest)
  BY <1>2, <1>4, Zenon DEF FieldDefect, tag
<1>9. Tagged /\ ~Sized => FieldDefect("FIELD_LENGTH", next, Rest)
  <2> SUFFICES ASSUME Tagged, ~Sized
               PROVE  FieldDefect("FIELD_LENGTH", next, Rest)
    OBVIOUS
  <2>1. \A n \in allowed : length # BigEndian(n, LengthWidth)
    BY <1>3, <1>5, Zenon DEF Sized
  <2>. QED
    BY <1>4, <2>1, Zenon DEF FieldDefect, tag, length, allowed
<1>10. Sized /\ ~Complete => FieldDefect("FIELD_VALUE", next, Rest)
  <2> SUFFICES ASSUME Sized, ~Complete
               PROVE  FieldDefect("FIELD_VALUE", next, Rest)
    OBVIOUS
  <2>1. Tagged /\ DeclaredLength \in allowed /\ ~Left(FieldHeaderWidth, DeclaredLength)
    BY <1>3, Zenon DEF Sized, Complete
  <2>2. /\ length = BigEndian(DeclaredLength, LengthWidth)
        /\ ~(Len(Rest) >= FieldHeaderWidth + DeclaredLength)
    BY <1>5, <1>6, <2>1, Zenon
  <2>. QED
    BY <1>4, <2>1, <2>2, Zenon DEF FieldDefect, tag, length, allowed
<1>11. Complete /\ ~OptionTagFits => FieldDefect("OPTION_TAG", next, Rest)
  <2> SUFFICES ASSUME Complete, ~OptionTagFits
               PROVE  FieldDefect("OPTION_TAG", next, Rest)
    OBVIOUS
  <2>1. Tagged /\ DeclaredLength \in allowed /\ Left(FieldHeaderWidth, DeclaredLength)
    BY <1>3, Zenon DEF Sized, Complete
  <2>2. /\ length = BigEndian(DeclaredLength, LengthWidth)
        /\ Len(Rest) >= FieldHeaderWidth + DeclaredLength
    BY <1>5, <1>6, <2>1, Zenon
  <2>3. 1 \in 1 .. DeclaredLength /\ DeclaredLength \in Nat
    BY <1>3, <2>1
  <2>4. Rest[FieldHeaderWidth + 1] = Value[1]
    BY <1>1, <2>1, <2>3, RestTaken DEF Value
  <2>5. /\ Fields[next].kind = "expiry"
        /\ Rest[FieldHeaderWidth + 1] # (IF DeclaredLength = 1 THEN 0 ELSE 1)
    BY <2>4, Zenon DEF OptionTagFits
  <2>. QED
    BY <1>4, <2>1, <2>2, <2>5, Zenon DEF FieldDefect, tag, length, allowed
<1>. QED
  BY <1>7, <1>8, <1>9, <1>10, <1>11

(* A rejection of an input that is no wire form, for the defect it has.       *)
LEMMA RejectKeeps ==
  ASSUME IInv, NEW reason \in Codec!RejectCodes, Reject(reason),
         phase \in {"ingress", "header", "fields"}, wire \notin WireForms, Defect(reason)
  PROVE  IInv'
<1>1. /\ phase' = "rejected" /\ code' = reason
      /\ UNCHANGED <<resource, next, output, capacity, wire, position, values>>
  BY DEF Reject
<1>2. Leading(values)'
  BY <1>1 DEF IInv, Leading
<1>3. TypeOK'
  BY <1>1 DEF IInv, WireInv, TypeOK, Phases
<1>4. Written'
  BY <1>1 DEF IInv, WireInv, Written, Decoding
<1>5. Passed'
  BY <1>1 DEF Passed
<1>6. CanonicalPrefix'
  BY <1>1 DEF CanonicalPrefix
<1>7. StopsAtFirstDefect'
  BY <1>1, Zenon DEF StopsAtFirstDefect, Defect
<1>. QED
  BY <1>2, <1>3, <1>4, <1>5, <1>6, <1>7 DEF IInv, WireInv

(* RESOURCE_WIRE_BYTES and RESOURCE_WIRE_HEADER.                              *)
LEMMA IngressRejectKeeps == ASSUME IInv, RejectIngress PROVE IInv'
<1>1. phase = "ingress" /\ wire \notin WireForms
  BY NoLength DEF RejectIngress
<1>2. "BYTES" \in Codec!RejectCodes /\ "HEADER" \in Codec!RejectCodes
  BY DEF Codec!RejectCodes
<1>3. CASE TooLong /\ Reject("BYTES")
  <2>1. Defect("BYTES")
    BY <1>3, Zenon DEF Defect, TooLong
  <2>. QED
    BY <1>1, <1>2, <1>3, <2>1, RejectKeeps
<1>4. CASE ~TooLong /\ Len(wire) < Len(Header) /\ Reject("HEADER")
  <2>1. Len(wire) <= MaxResourceBytes
    BY <1>4, Facts, LengthsTyped DEF TooLong
  <2>2. Defect("HEADER")
    BY <1>4, <2>1, Zenon DEF Defect
  <2>. QED
    BY <1>1, <1>2, <1>4, <2>2, RejectKeeps
<1>. QED
  BY <1>3, <1>4 DEF RejectIngress

(* The reject codes of the header parts.                                      *)
LEMMA PartRejectKeeps == ASSUME IInv, RejectHeaderPart PROVE IInv'
<1>1. phase = "header" /\ ~HeaderPartFits /\ next \in 1 .. 4 /\ Reject(HeaderCodes[next])
  BY HeaderPosition DEF RejectHeaderPart
<1>2. /\ wire \notin WireForms
      /\ ~IsPrefix(HeaderParts[next], SubSeq(wire, position + 1, Len(wire)))
      /\ SubSeq(wire, 1, position) = FlattenSeq(SubSeq(HeaderParts, 1, next - 1))
  BY <1>1, NoPart
<1>3. HeaderCodes[next] = <<"MAGIC", "VERSION", "OBJECT", "FIELD_COUNT">>[next]
  BY <1>1 DEF HeaderCodes
<1>4. HeaderCodes[next] \in Codec!RejectCodes
  BY <1>1 DEF HeaderCodes, Codec!RejectCodes
<1>5. Len(wire) \in Len(Header) .. MaxResourceBytes
  BY <1>1, SizeFits
<1> DEFINE reason == HeaderCodes[next]
<1> HIDE DEF reason
<1>6. Defect(reason)
  BY <1>1, <1>2, <1>3, <1>5, Zenon DEF Defect, reason
<1>. QED
  BY <1>1, <1>2, <1>4, <1>6, RejectKeeps DEF reason

(* The reject codes of a field.                                               *)
LEMMA FieldRejectKeeps ==
  ASSUME IInv, Reading, ~(Complete /\ OptionTagFits),
         NEW reason \in {"FIELD_HEADER", "FIELD_TAG", "FIELD_LENGTH", "FIELD_VALUE",
                         "OPTION_TAG"},
         Reject(reason), FieldDefect(reason, next, Rest)
  PROVE  IInv'
<1>1. /\ wire \notin WireForms
      /\ SubSeq(wire, 1, position) = Header \o EncodedFields(values)
      /\ Len(values) + 1 = next /\ Len(values) < Len(Fields)
      /\ Len(wire) <= MaxResourceBytes
  BY NoForm
<1>2. reason \in Codec!RejectCodes
  BY DEF Codec!RejectCodes
<1>3. FieldDefect(reason, Len(values) + 1, SubSeq(wire, position + 1, Len(wire)))
  BY <1>1, Zenon DEF Rest
<1>4. Defect(reason)
  BY <1>1, <1>3, Zenon DEF Defect
<1>. QED
  BY <1>1, <1>2, <1>4, RejectKeeps DEF Reading

(* Each check of a field rejects with its own code.                           *)
LEMMA FieldChecksKeep ==
  ASSUME IInv,
         \/ RejectFieldHeader \/ RejectFieldTag \/ RejectFieldLength
         \/ RejectFieldValue \/ RejectOptionTag
  PROVE  IInv'
<1>1. Reading /\ ~(Complete /\ OptionTagFits)
  BY DEF RejectFieldHeader, RejectFieldTag, RejectFieldLength, RejectFieldValue,
         RejectOptionTag, Framing, Tagged, Sized, Complete
<1>2. /\ ~Framing => FieldDefect("FIELD_HEADER", next, Rest)
      /\ Framing /\ ~Tagged => FieldDefect("FIELD_TAG", next, Rest)
      /\ Tagged /\ ~Sized => FieldDefect("FIELD_LENGTH", next, Rest)
      /\ Sized /\ ~Complete => FieldDefect("FIELD_VALUE", next, Rest)
      /\ Complete /\ ~OptionTagFits => FieldDefect("OPTION_TAG", next, Rest)
  BY <1>1, Facts, FieldDefects
<1>3. \E reason \in {"FIELD_HEADER", "FIELD_TAG", "FIELD_LENGTH", "FIELD_VALUE",
                     "OPTION_TAG"} :
        Reject(reason) /\ FieldDefect(reason, next, Rest)
  BY <1>2, Zenon DEF RejectFieldHeader, RejectFieldTag, RejectFieldLength, RejectFieldValue,
                     RejectOptionTag
<1>. QED
  BY <1>1, <1>3, FieldRejectKeeps

(* RESOURCE_WIRE_TRAILING.                                                    *)
LEMMA TrailingRejectKeeps == ASSUME IInv, RejectTrailing PROVE IInv'
<1>1. AllRead /\ phase = "fields" /\ position # Len(wire) /\ Reject("TRAILING")
  BY DEF RejectTrailing, AllRead
<1>2. /\ Len(values) = Len(Fields)
      /\ SubSeq(wire, 1, position) = Header \o EncodedFields(values)
      /\ Len(wire) <= MaxResourceBytes /\ wire \notin WireForms
      /\ SubSeq(wire, position + 1, Len(wire)) # <<>>
  BY <1>1, NoTrailing
<1>3. "TRAILING" \in Codec!RejectCodes
  BY DEF Codec!RejectCodes
<1>4. Defect("TRAILING")
  BY <1>2, Zenon DEF Defect
<1>. QED
  BY <1>1, <1>2, <1>3, <1>4, RejectKeeps

(* Steps of others keep the invariant.                                        *)
LEMMA StutterKeeps == ASSUME IInv, UNCHANGED vars PROVE IInv'
<1>1. UNCHANGED <<phase, resource, next, output, capacity, wire, position, values, code>>
  BY DEF vars
<1>2. Leading(values)'
  BY <1>1 DEF IInv, Leading
<1>3. TypeOK'
  BY <1>1 DEF IInv, WireInv, TypeOK
<1>4. Written'
  BY <1>1 DEF IInv, WireInv, Written, Decoding
<1>5. Passed'
  BY <1>1 DEF IInv, WireInv, Passed
<1>6. CanonicalPrefix' /\ StopsAtFirstDefect'
  BY <1>1 DEF IInv, WireInv, CanonicalPrefix, StopsAtFirstDefect, Defect
<1>. QED
  BY <1>2, <1>3, <1>4, <1>5, <1>6 DEF IInv, WireInv

(* The invariant is inductive.                                                *)
LEMMA StepInv == IInv /\ [Next]_vars => IInv'
<1> SUFFICES ASSUME IInv, [Next]_vars
             PROVE  IInv'
  OBVIOUS
<1>1. CASE Encode
  BY <1>1, ReserveKeeps, FailKeeps, AppendKeeps, ReturnKeeps DEF Encode
<1>2. CASE Deliver
  BY <1>2, DeliverKeeps
<1>3. CASE RejectIngress \/ AcceptIngress \/ ReadHeaderPart \/ RejectHeaderPart
  BY <1>3, IngressRejectKeeps, AcceptIngressKeeps, ReadPartKeeps, PartRejectKeeps
<1>4. CASE ReadField \/ RejectTrailing \/ AcceptWire
  BY <1>4, ReadFieldKeeps, TrailingRejectKeeps, AcceptKeeps
<1>5. CASE \/ RejectFieldHeader \/ RejectFieldTag \/ RejectFieldLength
           \/ RejectFieldValue \/ RejectOptionTag
  BY <1>5, FieldChecksKeep
<1>6. CASE UNCHANGED vars
  BY <1>6, StutterKeeps
<1>. QED
  BY <1>1, <1>2, <1>3, <1>4, <1>5, <1>6 DEF Next, Decode

(* The inductive invariant holds in every state.                              *)
THEOREM WireInvariant == Spec => []IInv
<1>. QED
  BY InitInv, StepInv, PTL DEF Spec

(* So does the part of it that TLC evaluates.                                 *)
THEOREM WireInvHolds == Spec => []WireInv
<1>1. IInv => WireInv
  BY DEF IInv
<1>. QED
  BY <1>1, WireInvariant, PTL

(* The cursor stays in the input, and decoded fields have their Rust types.   *)
THEOREM TypeCorrect == Spec => []TypeOK
<1>1. IInv => TypeOK
  BY DEF IInv, WireInv
<1>. QED
  BY <1>1, WireInvariant, PTL

(* What the cursor has passed is the encoding of what was decoded from it: no *)
(* two inputs that differ there decode alike.                                 *)
THEOREM PrefixIsCanonical == Spec => []CanonicalPrefix
<1>1. IInv => CanonicalPrefix
  BY DEF IInv, WireInv
<1>. QED
  BY <1>1, WireInvariant, PTL

(* decode_resource_wire_v1 rejects with the code of the first defect: all     *)
(* before the cursor is canonical, and what the code says is wrong with the   *)
(* rest is wrong with it.                                                     *)
THEOREM RejectIsFirst == Spec => []StopsAtFirstDefect
<1>1. IInv => StopsAtFirstDefect
  BY DEF IInv, WireInv
<1>. QED
  BY <1>1, WireInvariant, PTL

(* Beginnings of the wire form fit in the reservation; the whole form fills   *)
(* it.                                                                        *)
LEMMA ReservedIsEnough == IInv => WithinReservation
<1> SUFFICES ASSUME IInv
             PROVE  WithinReservation
  OBVIOUS
<1> DEFINE whole == Encoding(resource)
<1>1. /\ Len(whole) = EncodedLength(resource[ExpiryField])
      /\ \A k \in 0 .. Len(Fields) :
           /\ Encoding(SubSeq(resource, 1, k)) \in Seq(Byte)
           /\ Len(Encoding(SubSeq(resource, 1, k))) <= Len(whole)
  BY Facts, EncodingLength
<1>2. whole \in Seq(Byte)
  BY Facts, EncodingTyped
<1> HIDE DEF whole
<1>3. Len(whole) \in Nat
  BY <1>2
<1>4. CASE phase \in {"reserve", "unallocated"}
  <2>1. output = <<>> /\ Len(output) = 0
    BY <1>4 DEF IInv, WireInv, Written
  <2>2. capacity \in Nat
    BY LengthsTyped DEF IInv, WireInv, TypeOK
  <2>. QED
    BY <1>4, <2>1, <2>2 DEF WithinReservation
<1>5. CASE phase = "append"
  <2>1. /\ next \in 1 .. Len(Fields) + 1 /\ capacity = Len(whole)
        /\ output = Encoding(SubSeq(resource, 1, next - 1))
    BY <1>1, <1>5 DEF IInv, WireInv, Written, Encoding
  <2>2. next - 1 \in 0 .. Len(Fields)
    BY <2>1, Facts
  <2>3. Len(output) <= capacity
    BY <1>1, <2>1, <2>2, Zenon
  <2>. QED
    BY <1>5, <2>3 DEF WithinReservation
<1>6. CASE phase = "encoded" \/ Decoding
  <2>1. output = whole /\ capacity = Len(whole)
    BY <1>1, <1>6 DEF IInv, WireInv, Written, Decoding, whole
  <2>. QED
    BY <1>3, <2>1 DEF WithinReservation
<1>. QED
  BY <1>4, <1>5, <1>6 DEF IInv, WireInv, TypeOK, Phases, Decoding

(* encode never writes more than it reserved, and returns exactly as much: the*)
(* length constants of zrm-codec/src/lib.rs are those of the two forms.       *)
THEOREM NoReallocation == Spec => []WithinReservation
<1>. QED
  BY WireInvariant, ReservedIsEnough, PTL

(* The operators of the abstract specification are those of this one.         *)
LEMMA CodecFormat ==
  /\ Codec!Byte = Byte
  /\ \A list : Codec!Encoding(list) = Encoding(list)
  /\ \A list : Codec!IsResource(list) <=> IsResource(list)
<1>1. \A n, width : Codec!BigEndian(n, width) = BigEndian(n, width)
  BY DEF Codec!BigEndian, BigEndian
<1>2. \A bytes : Codec!Number(bytes) = Number(bytes)
  BY DEF Codec!Number, Number
<1>3. Codec!Byte = Byte
  BY DEF Codec!Byte, Byte
<1>4. \A s : Codec!FlattenSeq(s) = FlattenSeq(s)
  BY DEF Codec!FlattenSeq, FlattenSeq
<1>5. Codec!HeaderParts = HeaderParts
  BY <1>1, Zenon DEF Codec!HeaderParts, HeaderParts
<1>6. Codec!Header = Header
  BY <1>4, <1>5, Zenon DEF Codec!Header, Header
<1>7. \A n, width : Codec!Fits(n, width) <=> Fits(n, width)
  BY <1>1, <1>2, Zenon DEF Codec!Fits, Fits
<1>8. \A field, value : Codec!IsValue(field, value) <=> IsValue(field, value)
  <2> TAKE field, value
  <2>1. /\ Codec!Absent = Absent /\ Codec!Some(value[1]) = Some(value[1])
        /\ Codec!Fits(value, field.width) <=> Fits(value, field.width)
        /\ Codec!Fits(value[1], field.width) <=> Fits(value[1], field.width)
    BY <1>7, Zenon DEF Codec!Absent, Codec!Some, Absent, Some
  <2>. QED
    BY <1>3, <2>1 DEF Codec!IsValue, IsValue
<1>9. \A list : Codec!IsResource(list) <=> IsResource(list)
  BY <1>8, Zenon DEF Codec!IsResource, IsResource
<1>10. \A field, value : Codec!Payload(field, value) = Payload(field, value)
  <2> TAKE field, value
  <2>1. /\ Codec!Absent = Absent
        /\ Codec!BigEndian(value, field.width) = BigEndian(value, field.width)
        /\ Codec!BigEndian(value[1], field.width) = BigEndian(value[1], field.width)
    BY <1>1, Zenon DEF Codec!Absent, Absent
  <2>. QED
    BY <2>1 DEF Codec!Payload, Payload
<1>11. \A k, payload : Codec!Framed(k, payload) = Framed(k, payload)
  BY <1>1, Zenon DEF Codec!Framed, Framed
<1>12. \A k, value : Codec!EncodedField(k, value) = EncodedField(k, value)
  BY <1>10, <1>11, Zenon DEF Codec!EncodedField, EncodedField
<1>13. \A list : Codec!EncodedFields(list) = EncodedFields(list)
  <2> TAKE list
  <2>1. [k \in DOMAIN list |-> Codec!EncodedField(k, list[k])]
          = [k \in DOMAIN list |-> EncodedField(k, list[k])]
    BY <1>12
  <2>. QED
    BY <1>4, <2>1, Zenon DEF Codec!EncodedFields, EncodedFields
<1>14. \A list : Codec!Encoding(list) = Encoding(list)
  BY <1>6, <1>13, Zenon DEF Codec!Encoding, Encoding
<1>. QED
  BY <1>3, <1>9, <1>14, Zenon

(* What the abstract specification sees of the codec.                         *)
Sent ==
  CASE phase \in {"reserve", "append"} -> [status |-> "nothing"]
    [] phase = "unallocated" -> [status |-> "AllocationFailed"]
    [] OTHER -> [status |-> "bytes", bytes |-> output]

Received ==
  IF Decoding THEN [status |-> "bytes", bytes |-> wire] ELSE [status |-> "nothing"]

Result ==
  CASE phase = "accepted" -> [status |-> "decoded", values |-> values]
    [] phase = "rejected" -> [status |-> "rejected", code |-> code]
    [] OTHER -> [status |-> "nothing"]

(* Initially nothing was encoded, received or decoded.                        *)
LEMMA CodecInit == Init => Codec!Init
BY DEF Init, Codec!Init, Codec!Nothing, Decoding

(* Steps inside encode or the decoder change nothing that callers see.        *)
LEMMA CodecStutters ==
  ASSUME UNCHANGED resource, Sent' = Sent, Received' = Received, Result' = Result
  PROVE  UNCHANGED Codec!vars
BY DEF Codec!vars, Sent, Received, Result

(* encode returns once, with the wire form or AllocationFailed.               *)
LEMMA CodecEncode ==
  ASSUME Sent = [status |-> "nothing"],
         \/ Sent' = [status |-> "bytes", bytes |-> Encoding(resource)]
         \/ Sent' = [status |-> "AllocationFailed"],
         UNCHANGED resource, Received' = Received, Result' = Result
  PROVE  Codec!Encode
<1>1. Codec!Encoding(resource) = Encoding(resource)
  BY CodecFormat
<1>. QED
  BY <1>1 DEF Codec!Encode, Codec!Nothing, Codec!Bytes, Codec!AllocationFailed,
              Sent, Received, Result

(* The decoder is given some bytes.                                           *)
LEMMA CodecDeliver ==
  ASSUME NEW bytes \in Seq(Byte), Sent.status = "bytes", Received = [status |-> "nothing"],
         Received' = [status |-> "bytes", bytes |-> bytes],
         UNCHANGED resource, Sent' = Sent, Result' = Result
  PROVE  Codec!Deliver
<1>1. Received'.bytes = bytes
  OBVIOUS
<1>2. Codec!Byte = Byte
  BY CodecFormat
<1>. QED
  BY <1>1, <1>2 DEF Codec!Deliver, Codec!Nothing, Codec!Bytes, Sent, Received, Result

(* The decoder returns the resource of which the input is the wire form.      *)
LEMMA CodecAccept ==
  ASSUME Received = [status |-> "bytes", bytes |-> Encoding(values)], IsResource(values),
         Result = [status |-> "nothing"],
         Result' = [status |-> "decoded", values |-> values],
         UNCHANGED resource, Sent' = Sent, Received' = Received
  PROVE  Codec!Decode
<1>1. Codec!Encoding(values) = Encoding(values) /\ (Codec!IsResource(values) <=> IsResource(values))
  BY CodecFormat
<1>2. Received.status = "bytes" /\ Received.bytes = Encoding(values)
  OBVIOUS
<1>3. Result'.status = "decoded" /\ Result'.values = values
  OBVIOUS
<1>4. Codec!Accept
  BY <1>1, <1>2, <1>3 DEF Codec!Accept, Codec!Decoded, Received, Result
<1>. QED
  BY <1>2, <1>4 DEF Codec!Decode, Codec!Nothing, Sent, Received, Result

(* The decoder rejects an input that is no wire form.                         *)
LEMMA CodecReject ==
  ASSUME Received = [status |-> "bytes", bytes |-> wire], wire \notin WireForms,
         Result = [status |-> "nothing"],
         NEW reason \in Codec!RejectCodes,
         Result' = [status |-> "rejected", code |-> reason],
         UNCHANGED resource, Sent' = Sent, Received' = Received
  PROVE  Codec!Decode
<1>1. Received.status = "bytes" /\ Received.bytes = wire
  OBVIOUS
<1>2. Codec!Reject
  BY <1>1 DEF Codec!Reject, Codec!Rejected, Received, Result
<1>. QED
  BY <1>1, <1>2 DEF Codec!Decode, Codec!Nothing, Sent, Received, Result

(* Every rejection is one that the abstract decoder may make.                 *)
LEMMA RejectImplements ==
  ASSUME IInv, IInv', NEW reason \in Codec!RejectCodes, Reject(reason),
         phase \in {"ingress", "header", "fields"}
  PROVE  Codec!Decode
<1>1. /\ phase' = "rejected" /\ code' = reason
      /\ UNCHANGED <<resource, next, output, capacity, wire, position, values>>
  BY DEF Reject
<1>2. wire \notin WireForms
  BY <1>1 DEF IInv, WireInv, Passed
<1>3. /\ Received = [status |-> "bytes", bytes |-> wire] /\ Received' = Received
      /\ Result = [status |-> "nothing"]
      /\ Result' = [status |-> "rejected", code |-> reason]
      /\ Sent' = Sent
  BY <1>1 DEF Received, Result, Sent, Decoding
<1>. QED
  BY <1>1, <1>2, <1>3, CodecReject

(* Acceptance is one that the abstract decoder may make.                      *)
LEMMA AcceptImplements == ASSUME IInv, AcceptWire PROVE Codec!Decode
<1>1. /\ phase = "fields" /\ phase' = "accepted" /\ position = Len(wire)
      /\ Len(values) = Len(Fields)
      /\ UNCHANGED <<resource, next, output, capacity, wire, position, values, code>>
  BY NoTrailing DEF AcceptWire, AllRead
<1>2. wire = Encoding(values)
  <2>1. SubSeq(wire, 1, Len(wire)) = wire
    BY Facts DEF Cursor
  <2>. QED
    BY <1>1, <2>1, Position
<1>3. IsResource(values)
  BY <1>1, Facts DEF IsResource, Leading
<1>4. /\ Received = [status |-> "bytes", bytes |-> wire] /\ Received' = Received
      /\ Result = [status |-> "nothing"]
      /\ Result' = [status |-> "decoded", values |-> values]
      /\ Sent' = Sent
  BY <1>1 DEF Received, Result, Sent, Decoding
<1>. QED
  BY <1>1, <1>2, <1>3, <1>4, CodecAccept

(* Every step is one of the abstract specification, or none that callers see. *)
LEMMA StepImplements ==
  IInv /\ IInv' /\ [Next]_vars => Codec!Next \/ UNCHANGED Codec!vars
<1> SUFFICES ASSUME IInv, IInv', [Next]_vars
             PROVE  Codec!Next \/ UNCHANGED Codec!vars
  OBVIOUS
<1>1. ASSUME Codec!Encode \/ Codec!Deliver \/ Codec!Decode
      PROVE  Codec!Next
  BY <1>1 DEF Codec!Next
<1>2. CASE ReserveOutput
  <2>1. UNCHANGED resource /\ Sent' = Sent /\ Received' = Received /\ Result' = Result
    BY <1>2 DEF ReserveOutput, Sent, Received, Result, Decoding
  <2>. QED
    BY <2>1, CodecStutters
<1>3. CASE FailReserve
  <2>1. /\ UNCHANGED resource /\ Received' = Received /\ Result' = Result
        /\ Sent = [status |-> "nothing"] /\ Sent' = [status |-> "AllocationFailed"]
    BY <1>3 DEF FailReserve, Sent, Received, Result, Decoding
  <2>. QED
    BY <1>1, <2>1, CodecEncode
<1>4. CASE AppendField
  <2>1. UNCHANGED resource /\ Sent' = Sent /\ Received' = Received /\ Result' = Result
    BY <1>4 DEF AppendField, Sent, Received, Result, Decoding
  <2>. QED
    BY <2>1, CodecStutters
<1>5. CASE ReturnOutput
  <2>1. output' = Encoding(resource) /\ UNCHANGED <<resource, output>>
    BY <1>5 DEF ReturnOutput, IInv, WireInv, Written
  <2>2. /\ UNCHANGED resource /\ Received' = Received /\ Result' = Result
        /\ Sent = [status |-> "nothing"]
        /\ Sent' = [status |-> "bytes", bytes |-> Encoding(resource)]
    BY <1>5, <2>1 DEF ReturnOutput, Sent, Received, Result, Decoding
  <2>. QED
    BY <1>1, <2>2, CodecEncode
<1>6. CASE Deliver
  <2>1. wire' \in Seq(Byte)
    BY DEF IInv, WireInv, TypeOK
  <2>2. /\ UNCHANGED resource /\ Sent' = Sent /\ Result' = Result
        /\ Sent.status = "bytes" /\ Received = [status |-> "nothing"]
        /\ Received' = [status |-> "bytes", bytes |-> wire']
    BY <1>6 DEF Deliver, Sent, Received, Result, Decoding
  <2>. QED
    BY <1>1, <2>1, <2>2, CodecDeliver
<1>7. CASE RejectIngress
  BY <1>1, <1>7, RejectImplements DEF RejectIngress, Codec!RejectCodes
<1>8. CASE AcceptIngress
  <2>1. UNCHANGED resource /\ Sent' = Sent /\ Received' = Received /\ Result' = Result
    BY <1>8 DEF AcceptIngress, Sent, Received, Result, Decoding
  <2>. QED
    BY <2>1, CodecStutters
<1>9. CASE ReadHeaderPart
  <2>1. phase = "header" /\ phase' \in {"header", "fields"}
        /\ UNCHANGED <<resource, output, wire>>
    BY <1>9 DEF ReadHeaderPart
  <2>2. UNCHANGED resource /\ Sent' = Sent /\ Received' = Received /\ Result' = Result
    BY <2>1 DEF Sent, Received, Result, Decoding
  <2>. QED
    BY <2>2, CodecStutters
<1>10. CASE RejectHeaderPart
  <2>1. phase = "header" /\ next \in 1 .. 4 /\ Reject(HeaderCodes[next])
    BY <1>10, HeaderPosition DEF RejectHeaderPart
  <2>2. HeaderCodes[next] \in Codec!RejectCodes
    BY <2>1 DEF HeaderCodes, Codec!RejectCodes
  <2>. QED
    BY <1>1, <2>1, <2>2, RejectImplements
<1>11. CASE ReadField
  <2>1. phase = "fields" /\ UNCHANGED <<phase, resource, output, wire>>
    BY <1>11 DEF ReadField, Complete, Sized, Tagged, Framing, Reading
  <2>2. UNCHANGED resource /\ Sent' = Sent /\ Received' = Received /\ Result' = Result
    BY <2>1 DEF Sent, Received, Result, Decoding
  <2>. QED
    BY <2>2, CodecStutters
<1>12. CASE \/ RejectFieldHeader \/ RejectFieldTag \/ RejectFieldLength
            \/ RejectFieldValue \/ RejectOptionTag \/ RejectTrailing
  <2>1. phase = "fields"
    BY <1>12 DEF RejectFieldHeader, RejectFieldTag, RejectFieldLength, RejectFieldValue,
                 RejectOptionTag, RejectTrailing, AllRead, Complete, Sized, Tagged,
                 Framing, Reading
  <2>2. PICK reason \in {"FIELD_HEADER", "FIELD_TAG", "FIELD_LENGTH", "FIELD_VALUE",
                         "OPTION_TAG", "TRAILING"} : Reject(reason)
    BY <1>12, Zenon DEF RejectFieldHeader, RejectFieldTag, RejectFieldLength,
                        RejectFieldValue, RejectOptionTag, RejectTrailing
  <2>3. reason \in Codec!RejectCodes
    BY <2>2 DEF Codec!RejectCodes
  <2>. QED
    BY <1>1, <2>1, <2>2, <2>3, RejectImplements
<1>13. CASE AcceptWire
  BY <1>1, <1>13, AcceptImplements
<1>14. CASE UNCHANGED vars
  <2>1. UNCHANGED resource /\ Sent' = Sent /\ Received' = Received /\ Result' = Result
    BY <1>14 DEF vars, Sent, Received, Result, Decoding
  <2>. QED
    BY <2>1, CodecStutters
<1>. QED
  BY <1>2, <1>3, <1>4, <1>5, <1>6, <1>7, <1>8, <1>9, <1>10, <1>11, <1>12, <1>13, <1>14
     DEF Next, Encode, Decode

(* Strict decoding is the inverse of encode: whatever bytes it is given, the  *)
(* decoder accepts exactly the wire forms and returns the resource encoded.   *)
THEOREM StrictCodec == Spec => ImplementsCodec
<1>. QED
  BY WireInvariant, CodecInit, StepImplements, PTL DEF Spec, ImplementsCodec, Codec!Spec

-----------------------------------------------------------------------------
(* The code is prefix-free: what stands at one place in the same bytes is the *)
(* form of one payload, and of one value.                                     *)
LEMMA PayloadsAgree ==
  ASSUME NEW w \in Seq(Byte), NEW p \in Nat, NEW k \in DOMAIN Fields,
         NEW x \in Seq(Byte), NEW y \in Seq(Byte),
         Fits(Len(x), LengthWidth), Fits(Len(y), LengthWidth),
         StandsAt(Framed(k, x), p, w), StandsAt(Framed(k, y), p, w)
  PROVE  x = y
<1> DEFINE tag == BigEndian(k, ShortWidth)
<1> DEFINE LengthOf(z) == BigEndian(Len(z), LengthWidth)
<1>1. ShortWidth \in Nat /\ LengthWidth \in Nat
  BY WidthsTyped
<1>2. ASSUME NEW z \in Seq(Byte), StandsAt(Framed(k, z), p, w)
      PROVE  /\ StandsAt(LengthOf(z), p + ShortWidth, w) /\ Len(LengthOf(z)) = LengthWidth
             /\ StandsAt(z, p + (ShortWidth + LengthWidth), w)
  <2>1. /\ tag \in Seq(Byte) /\ Len(tag) = ShortWidth
        /\ LengthOf(z) \in Seq(Byte) /\ Len(LengthOf(z)) = LengthWidth
    BY FormTyped
  <2>2. Framed(k, z) = (tag \o LengthOf(z)) \o z
    BY DEF Framed
  <2> DEFINE length == LengthOf(z)
  <2> HIDE DEF tag, LengthOf, length
  <2>3. length \in Seq(Byte) /\ Len(length) = LengthWidth
    BY <2>1 DEF length
  <2>4. tag \o length \in Seq(Byte) /\ Len(tag \o length) = ShortWidth + LengthWidth
    BY <1>1, <2>1, <2>3
  <2>5. StandsAt((tag \o length) \o z, p, w)
    BY <1>2, <2>2, Zenon DEF length
  <2>6. StandsAt(tag \o length, p, w) /\ StandsAt(z, p + Len(tag \o length), w)
    BY <2>4, <2>5, StandsConcat
  <2>7. StandsAt(length, p + Len(tag), w)
    BY <2>1, <2>3, <2>6, StandsConcat
  <2>. QED
    BY <2>1, <2>3, <2>4, <2>6, <2>7 DEF length
<1>3. LengthOf(x) = LengthOf(y)
  <2>1. /\ StandsAt(LengthOf(x), p + ShortWidth, w) /\ Len(LengthOf(x)) = LengthWidth
        /\ StandsAt(LengthOf(y), p + ShortWidth, w) /\ Len(LengthOf(y)) = LengthWidth
    BY <1>2
  <2> HIDE DEF LengthOf
  <2>. QED
    BY <2>1, Zenon DEF StandsAt
<1>4. Len(x) = Len(y)
  <2>1. Number(LengthOf(x)) = Len(x) /\ Number(LengthOf(y)) = Len(y)
    BY FitsIs
  <2> HIDE DEF LengthOf
  <2>. QED
    BY <1>3, <2>1, Zenon
<1>5. StandsAt(x, p + (ShortWidth + LengthWidth), w)
      /\ StandsAt(y, p + (ShortWidth + LengthWidth), w)
  BY <1>2
<1>. QED
  BY <1>4, <1>5, Zenon DEF StandsAt

(* The length of a payload fits the bytes that declare it.                    *)
LEMMA PayloadFits ==
  ASSUME NEW k \in DOMAIN Fields, NEW value, IsValue(Fields[k], value)
  PROVE  /\ Payload(Fields[k], value) \in Seq(Byte)
         /\ Fits(Len(Payload(Fields[k], value)), LengthWidth)
         /\ Parsed(Fields[k], Payload(Fields[k], value)) = value
<1> DEFINE payload == Payload(Fields[k], value)
<1> DEFINE width == Fields[k].width
<1>1. /\ payload \in Seq(Byte) /\ Len(payload) \in Lengths(Fields[k])
      /\ Parsed(Fields[k], payload) = value
  BY PayloadReads
<1>2. width \in Nat
  BY FieldTyped
<1>3. Len(payload) = 1 \/ Len(payload) = 1 + width \/ Len(payload) = width
  BY <1>1 DEF Lengths
<1> HIDE DEF payload, width
<1>4. Len(payload) \in 0 .. width + 1
  <2> DEFINE length == Len(payload)
  <2>1. length = 1 \/ length = 1 + width \/ length = width
    BY <1>3
  <2> HIDE DEF length
  <2>2. length \in 0 .. width + 1
    BY <1>2, <2>1
  <2>. QED
    BY <2>2 DEF length
<1>5. Fits(Len(payload), LengthWidth)
  BY <1>4, FieldTyped DEF width
<1>. QED
  BY <1>1, <1>5 DEF payload

(* One form stands for one value.                                             *)
LEMMA ValuesAgree ==
  ASSUME NEW w \in Seq(Byte), NEW p \in Nat, NEW k \in DOMAIN Fields, NEW u, NEW v,
         IsValue(Fields[k], u), IsValue(Fields[k], v),
         StandsAt(EncodedField(k, u), p, w), StandsAt(EncodedField(k, v), p, w)
  PROVE  u = v
<1> DEFINE x == Payload(Fields[k], u)
<1> DEFINE y == Payload(Fields[k], v)
<1>1. /\ x \in Seq(Byte) /\ Fits(Len(x), LengthWidth) /\ Parsed(Fields[k], x) = u
      /\ y \in Seq(Byte) /\ Fits(Len(y), LengthWidth) /\ Parsed(Fields[k], y) = v
  BY PayloadFits
<1>2. StandsAt(Framed(k, x), p, w) /\ StandsAt(Framed(k, y), p, w)
  BY DEF EncodedField
<1> HIDE DEF x, y
<1>3. x = y
  BY <1>1, <1>2, PayloadsAgree
<1>. QED
  BY <1>1, <1>3

(* What stands in a prefix stands in what the prefix begins.                  *)
LEMMA StandsLonger ==
  ASSUME NEW A, NEW w \in Seq(A), NEW x \in Seq(A), IsPrefix(x, w),
         NEW form \in Seq(A), NEW p \in Nat, StandsAt(form, p, x)
  PROVE  StandsAt(form, p, w)
<1>1. Len(x) <= Len(w) /\ SubSeq(x, 1, Len(x)) = SubSeq(w, 1, Len(x))
  BY DEF IsPrefix
<1>2. \A i \in 1 .. Len(x) : x[i] = w[i]
  <2> TAKE i \in 1 .. Len(x)
  <2>1. SubSeq(x, 1, Len(x))[i] = x[i]
    OBVIOUS
  <2>2. SubSeq(w, 1, Len(x))[i] = w[i]
    BY <1>1
  <2>. QED
    BY <1>1, <2>1, <2>2
<1>3. p + Len(form) <= Len(x) /\ \A i \in 1 .. Len(form) : x[p + i] = form[i]
  BY StandsIndexed
<1>4. \A i \in 1 .. Len(form) : w[p + i] = form[i]
  <2> TAKE i \in 1 .. Len(form)
  <2>1. p + i \in 1 .. Len(x)
    <3>1. Len(form) \in Nat /\ Len(x) \in Nat
      OBVIOUS
    <3>. QED
      BY <1>3, <3>1
  <2>2. x[p + i] = w[p + i]
    BY <1>2, <2>1, Zenon
  <2>. QED
    BY <1>3, <2>2, Zenon
<1>5. p + Len(form) <= Len(w)
  BY <1>1, <1>3
<1>. QED
  BY <1>4, <1>5, StandsIndexed

(* The wire form of a resource is not the beginning of the wire form of       *)
(* another one: derive_resource_id hashes different bytes for different       *)
(* resources.                                                                 *)
THEOREM OneWireForm ==
  ASSUME NEW one \in AllResources, NEW other \in AllResources,
         IsPrefix(Encoding(one), Encoding(other))
  PROVE  one = other
<1> DEFINE n == Len(Fields)
<1> DEFINE T == {k \in 0 .. n : SubSeq(one, 1, k) = SubSeq(other, 1, k)}
<1>1. /\ Leading(one) /\ Len(one) = n /\ SubSeq(one, 1, 0) = <<>> /\ SubSeq(one, 1, n) = one
      /\ Leading(other) /\ Len(other) = n
      /\ SubSeq(other, 1, 0) = <<>> /\ SubSeq(other, 1, n) = other
  BY ResourcesLead
<1>2. n \in Nat /\ DOMAIN Fields = 1 .. n
  BY FormatAssumption
<1>3. Encoding(one) \in Seq(Byte) /\ Encoding(other) \in Seq(Byte)
  BY <1>1, EncodingTyped
<1>4. 0 \in T
  BY <1>1, <1>2
<1>5. ASSUME NEW k \in 0 .. n - 1, k \in T
      PROVE  k + 1 \in T
  <2>1. k + 1 \in 1 .. n /\ (k + 1) - 1 = k /\ k + 1 \in 0 .. n /\ k \in 0 .. n
    BY <1>2
  <2>2. SubSeq(one, 1, k) = SubSeq(other, 1, k)
    BY <1>5
  <2> DEFINE p == Len(Encoding(SubSeq(one, 1, k)))
  <2> HIDE DEF T, n
  <2>3. p \in Nat
    BY <2>1, EncodingLength DEF n
  <2>4. IsValue(Fields[k + 1], one[k + 1]) /\ IsValue(Fields[k + 1], other[k + 1])
    BY <1>1, <2>1 DEF Leading
  <2>5. EncodedField(k + 1, one[k + 1]) \in Seq(Byte)
    BY <1>2, <2>1, <2>4, EncodedFieldTyped
  <2>6. StandsAt(EncodedField(k + 1, one[k + 1]), p, Encoding(one))
    <3>1. StandsAt(EncodedField(k + 1, one[k + 1]),
                   Len(Encoding(SubSeq(one, 1, (k + 1) - 1))), Encoding(one))
      BY <1>1, <2>1, FieldStands
    <3>. QED
      BY <2>1, <3>1, Zenon
  <2>7. StandsAt(EncodedField(k + 1, one[k + 1]), p, Encoding(other))
    BY <1>3, <2>3, <2>5, <2>6, StandsLonger
  <2>8. StandsAt(EncodedField(k + 1, other[k + 1]), p, Encoding(other))
    <3>1. StandsAt(EncodedField(k + 1, other[k + 1]),
                   Len(Encoding(SubSeq(other, 1, (k + 1) - 1))), Encoding(other))
      BY <1>1, <2>1, FieldStands
    <3>. QED
      BY <2>1, <2>2, <3>1, Zenon
  <2> HIDE DEF p
  <2>9. one[k + 1] = other[k + 1]
    BY <1>2, <1>3, <2>1, <2>3, <2>4, <2>7, <2>8, ValuesAgree
  <2>10. SubSeq(one, 1, k + 1) = SubSeq(other, 1, k + 1)
    <3>1. /\ SubSeq(one, 1, k + 1) = Append(SubSeq(one, 1, (k + 1) - 1), one[k + 1])
          /\ SubSeq(other, 1, k + 1) = Append(SubSeq(other, 1, (k + 1) - 1), other[k + 1])
      BY <2>1, FrontAppends DEF n
    <3>. QED
      BY <2>1, <2>2, <2>9, <3>1, Zenon
  <2>. QED
    BY <2>1, <2>10 DEF T
<1>6. 0 .. n \subseteq T
  <2> HIDE DEF T
  <2>. QED
    BY <1>2, <1>4, <1>5, UpTo
<1>7. n \in T
  <2> HIDE DEF T
  <2>1. n \in 0 .. n
    BY <1>2
  <2>. QED
    BY <1>6, <2>1
<1>. QED
  BY <1>1, <1>7
=============================================================================
