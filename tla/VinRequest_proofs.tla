--------------------------- MODULE VinRequest_proofs ---------------------------
(***************************************************************************)
(* Proofs about the hosts' writes and the request for the VIN, for every   *)
(* table of signals and commands, every set of requests, every number of   *)
(* buses and every size of their queues; of what goes out on the wire, and *)
(* of what the numbers and bits of BitField add up to.                     *)
(***************************************************************************)
EXTENDS VinRequest, SequenceLemmas, FiniteSetTheorems, WellFoundedInduction, TLAPS

-----------------------------------------------------------------------------
(* The inductive invariant.                                                 *)

Elements(q) == {q[i] : i \in 1 .. Len(q)}

\* A sequence of what is in it.
IsList(q) == q \in Seq(Elements(q))

\* What was asked may be sent: it is a raw write, a forced one or one of a writable signal.
Permitted(by) == by.signal = 0 \/ by.force \/ vehicle.signals[by.signal].writable

\* The word for what was asked: the data of a raw write, or the signal's field with the
\* nearest raw value, if the signal can hold it.
Carries(by, word) ==
    IF by.signal = 0
    THEN by.value = [type |-> "string", word |-> word] /\ word \subseteq WordBits
    ELSE LET signal == vehicle.signals[by.signal]
         IN  /\ by.signal \in 1 .. Len(vehicle.signals) /\ Intended(by) \in Int
             /\ Representable(by) =>
                   word = setBitField({}, Word(Nearest(by)), signal.bitPosition, signal.bitSize)

\* A message of a queue holds a word for what was asked, and may be sent.
Sound(message) == /\ Permitted(message.by)
                  /\ \E word : message.data = Swapped(word) /\ Carries(message.by, word)

QueuesInv == /\ sendQueue = [b \in Bus |-> sendQueue[b]]
             /\ \A b \in Bus : /\ IsList(sendQueue[b]) /\ Len(sendQueue[b]) <= QueueCapacity
                               /\ \A message \in Elements(sendQueue[b]) : Sound(message)

FramesInv == \A frame \in OnBus : \E message : Sound(message) /\ frame = sendCanMessage(message)

VinInv == /\ pc \in {"receive", "hosts", "write", "custom"}
          /\ loopCount \in 0 .. Period
          /\ mVin \subseteq Part /\ answers \subseteq Part
          /\ VinSentOnce

ConstantInv == /\ vehicle \in Vehicles /\ board \in Boards
               /\ requests \in 0 .. MaxRequests

WriteInv == ConstantInv /\ QueuesInv /\ FramesInv /\ VinInv

-----------------------------------------------------------------------------
(* Powers of two, and the digits of numbers.                                *)

\* A power of two is twice the one before: a set with one element more has twice as
\* many subsets.
LEMMA PowerDoubles ==
  ASSUME NEW n \in Nat
  PROVE  /\ 2 ^ n \in Nat \ {0}
         /\ 2 ^ (n + 1) = 2 * 2 ^ n
<1> DEFINE S == 1 .. n
           T == 1 .. n + 1
           With == {A \cup {n + 1} : A \in (SUBSET S)}
<1>1. /\ IsFiniteSet(S) /\ Cardinality(S) = n
      /\ IsFiniteSet(T) /\ Cardinality(T) = n + 1
  BY FS_Interval
<1>2. /\ IsFiniteSet(SUBSET S) /\ Cardinality(SUBSET S) = 2 ^ n
      /\ IsFiniteSet(SUBSET T) /\ Cardinality(SUBSET T) = 2 ^ (n + 1)
  BY <1>1, FS_SUBSET
<1>3. SUBSET T = (SUBSET S) \cup With
  <2>1. T = S \cup {n + 1} /\ n + 1 \notin S
    OBVIOUS
  <2> HIDE DEF S, T
  <2>2. ASSUME NEW A \in SUBSET T
        PROVE  A \in (SUBSET S) \cup With
    <3>1. CASE n + 1 \in A
      <4>1. A \ {n + 1} \in SUBSET S /\ A = (A \ {n + 1}) \cup {n + 1}
        BY <2>1, <3>1
      <4> QED
        BY <4>1
    <3>2. CASE n + 1 \notin A
      BY <2>1, <3>2
    <3> QED
      BY <3>1, <3>2
  <2>3. ASSUME NEW A \in (SUBSET S) \cup With
        PROVE  A \in SUBSET T
    BY <2>1
  <2> QED
    BY <2>2, <2>3
<1>4. (SUBSET S) \cap With = {}
  OBVIOUS
<1>5. IsFiniteSet(With) /\ Cardinality(With) = 2 ^ n
  <2> DEFINE f == [A \in SUBSET S |-> A \cup {n + 1}]
  <2>1. f \in Bijection(SUBSET S, With)
    <3>1. n + 1 \notin S
      OBVIOUS
    <3> HIDE DEF S
    <3>2. f \in [SUBSET S -> With]
      OBVIOUS
    <3>3. \A A, B \in SUBSET S : f[A] = f[B] => A = B
      <4> TAKE A, B \in SUBSET S
      <4>1. A = (A \cup {n + 1}) \ {n + 1} /\ B = (B \cup {n + 1}) \ {n + 1}
        BY <3>1
      <4> QED
        BY <4>1
    <3>4. \A C \in With : \E A \in SUBSET S : f[A] = C
      OBVIOUS
    <3> HIDE DEF f, With
    <3> QED
      BY <3>2, <3>3, <3>4 DEF Bijection, Injection, Surjection, IsInjective
  <2>2. ExistsBijection(SUBSET S, With)
    BY <2>1 DEF ExistsBijection
  <2> QED
    BY <1>2, <2>2, FS_Bijection
<1>6. Cardinality(SUBSET T) = Cardinality(SUBSET S) + Cardinality(With) - Cardinality((SUBSET S) \cap With)
  BY <1>2, <1>3, <1>5, FS_Union
<1>7. 2 ^ (n + 1) = 2 ^ n + 2 ^ n /\ 2 ^ n \in Nat
  <2>1. Cardinality(SUBSET S) \in Nat
    BY <1>2, FS_CardinalityType
  <2>2. Cardinality((SUBSET S) \cap With) = 0
    BY <1>4, FS_EmptySet
  <2> QED
    BY <1>2, <1>5, <1>6, <2>1, <2>2
<1>8. 2 ^ n # 0
  BY <1>2, FS_EmptySet
<1> QED
  BY <1>7, <1>8

\* A set of numbers that has zero, and with a number the next, has them all.
LEMMA SetInduction ==
  ASSUME NEW S \in SUBSET Nat, 0 \in S, \A n \in S : n + 1 \in S
  PROVE  S = Nat
<1> SUFFICES ASSUME Nat \ S # {}
             PROVE  FALSE
  OBVIOUS
<1>1. PICK n \in Nat \ S : \A m \in Nat \ S : ~(<<m, n>> \in OpToRel(<, Nat))
  BY NatLessThanWellFounded, WFMin
<1>2. n \in Nat /\ n # 0 /\ n - 1 \in Nat /\ n - 1 < n
  <2>1. n \in Nat /\ n # 0
    OBVIOUS
  <2> QED
    BY <2>1
<1>3. <<n - 1, n>> \in OpToRel(<, Nat)
  BY <1>2 DEF OpToRel
<1>4. n - 1 \in S
  BY <1>1, <1>2, <1>3
<1>5. (n - 1) + 1 = n
  BY <1>2
<1> QED
  BY <1>1, <1>4, <1>5

\* Powers of two grow.
LEMMA PowerGrows ==
  ASSUME NEW m \in Nat, NEW n \in Nat, m <= n
  PROVE  2 ^ m <= 2 ^ n
<1> DEFINE S == {d \in Nat : 2 ^ m <= 2 ^ (m + d)}
<1>1. 0 \in S
  <2>1. m + 0 = m /\ 2 ^ m \in Nat
    BY PowerDoubles
  <2> QED
    BY <2>1
<1>2. ASSUME NEW d \in S
      PROVE  d + 1 \in S
  <2>1. 2 ^ m <= 2 ^ (m + d) /\ 2 ^ m \in Nat /\ 2 ^ (m + d) \in Nat
    BY PowerDoubles
  <2>2. m + (d + 1) = (m + d) + 1 /\ 2 ^ ((m + d) + 1) = 2 * 2 ^ (m + d)
    BY PowerDoubles
  <2> QED
    BY <2>1, <2>2
<1> HIDE DEF S
<1>3. S = Nat
  BY <1>1, <1>2, SetInduction DEF S
<1>4. n - m \in S /\ m + (n - m) = n
  BY <1>3
<1> QED
  BY <1>4 DEF S

\* A number below a power of two has no digit from there on.
LEMMA DigitsFit ==
  ASSUME NEW n \in Nat, NEW size \in Nat, n < 2 ^ size
  PROVE  Word(n) \subseteq 0 .. size - 1
<1> SUFFICES ASSUME NEW b \in Word(n)
             PROVE  b \in 0 .. size - 1
  OBVIOUS
<1>1. b \in 0 .. 30 /\ (n \div 2 ^ b) % 2 = 1
  BY DEF Word
<1>2. 2 ^ b \in Nat \ {0}
  BY <1>1, PowerDoubles
<1>3. ASSUME n < 2 ^ b
      PROVE  FALSE
  <2>1. n \div 2 ^ b = 0
    BY <1>2, <1>3
  <2>2. 0 % 2 = 0
    OBVIOUS
  <2>3. (n \div 2 ^ b) % 2 = 0
    BY <2>1, <2>2
  <2> QED
    BY <1>1, <2>3
<1>4. ~(size <= b)
  <2>1. 2 ^ size \in Nat
    BY PowerDoubles
  <2>2. size <= b => 2 ^ size <= 2 ^ b
    BY <1>1, PowerGrows
  <2> QED
    BY <1>2, <1>3, <2>1, <2>2
<1> QED
  BY <1>1, <1>4

\* What a function gives that adds up powers of two, whichever it takes first.
AddsUp(f, S) == /\ f \in [SUBSET S -> Nat] /\ f[{}] = 0
                /\ \A s \in SUBSET S : \A x \in s : f[s] = 2 ^ x + f[s \ {x}]

\* Unsigned is the fold that takes out one position after the other.
LEMMA UnsignedFolds ==
  ASSUME NEW word
  PROVE  Unsigned(word) =
           (CHOOSE g : g = [s \in SUBSET word |->
                              IF s = {} THEN 0
                              ELSE 2 ^ (CHOOSE x \in s : TRUE) + g[s \ {CHOOSE x \in s : TRUE}]])[word]
  BY DEF Unsigned, MapThenSumSet, MapThenFoldSet

\* Unsigned adds up powers of two, so it gives what any such function does.
LEMMA UnsignedAddsUp ==
  ASSUME NEW S \in SUBSET Nat, NEW f, AddsUp(f, S), NEW word \in SUBSET S
  PROVE  Unsigned(word) = f[word]
<1> DEFINE Sum(g, s) == IF s = {} THEN 0
                         ELSE 2 ^ (CHOOSE x \in s : TRUE) + g[s \ {CHOOSE x \in s : TRUE}]
           Folds(g) == g = [s \in SUBSET word |-> Sum(g, s)]
           iter == CHOOSE g : Folds(g)
           part == [s \in SUBSET word |-> f[s]]
<1>1. Unsigned(word) = iter[word]
  BY UnsignedFolds
<1>2. ASSUME NEW s \in SUBSET word, s # {}
      PROVE  LET x == CHOOSE x \in s : TRUE
             IN  x \in s /\ s \ {x} \in SUBSET word
  BY <1>2
<1>3. \A s \in SUBSET word : f[s] \in Nat
  BY DEF AddsUp
<1>4. ASSUME NEW s \in SUBSET word
      PROVE  f[s] = Sum(f, s)
  <2>1. CASE s = {}
    BY <2>1 DEF AddsUp
  <2>2. CASE s # {}
    <3> DEFINE x == CHOOSE x \in s : TRUE
    <3>1. x \in s
      BY <2>2
    <3> HIDE DEF x
    <3>2. f[s] = 2 ^ x + f[s \ {x}]
      BY <3>1 DEF AddsUp
    <3> QED
      BY <2>2, <3>2 DEF x
  <2> QED
    BY <2>1, <2>2
<1>5. Folds(part)
  <2>1. ASSUME NEW s \in SUBSET word
        PROVE  Sum(part, s) = Sum(f, s)
    BY <1>2
  <2> HIDE DEF Sum
  <2>2. part = [s \in SUBSET word |-> Sum(part, s)]
    BY <1>4, <2>1
  <2> QED
    BY <2>2
<1>6. Folds(iter)
  <2> HIDE DEF Folds, part
  <2> QED
    BY <1>5
<1>7. \A s \in SUBSET word : iter[s] = Sum(iter, s)
  <2> HIDE DEF iter, Sum
  <2> QED
    BY <1>6
<1> HIDE DEF iter, part
<1>8. ASSUME NEW s \in SUBSET word, iter[s] # f[s]
      PROVE  \E t \in SUBSET word : iter[t] # f[t] /\ f[t] < f[s]
  <2> DEFINE x == CHOOSE x \in s : TRUE
  <2>1. s # {}
    BY <1>4, <1>7, <1>8
  <2>2. x \in s /\ s \ {x} \in SUBSET word
    BY <2>1
  <2>3. iter[s] = 2 ^ x + iter[s \ {x}] /\ f[s] = 2 ^ x + f[s \ {x}]
    BY <1>4, <1>7, <2>1
  <2> HIDE DEF x
  <2>4. iter[s \ {x}] # f[s \ {x}]
    BY <1>8, <2>3
  <2>5. f[s \ {x}] < f[s]
    <3>1. 2 ^ x \in Nat \ {0} /\ f[s \ {x}] \in Nat
      BY <1>3, <2>2, PowerDoubles
    <3> QED
      BY <2>3, <3>1
  <2> QED
    BY <2>2, <2>4, <2>5
<1> DEFINE Wrong == {f[s] : s \in {s \in SUBSET word : iter[s] # f[s]}}
<1>9. Wrong = {}
  <2> SUFFICES ASSUME Wrong # {}
               PROVE  FALSE
    OBVIOUS
  <2>1. Wrong \subseteq Nat
    BY <1>3
  <2>2. PICK n \in Wrong : \A m \in Wrong : ~(<<m, n>> \in OpToRel(<, Nat))
    BY <2>1, NatLessThanWellFounded, WFMin
  <2>3. PICK s \in SUBSET word : iter[s] # f[s] /\ n = f[s]
    BY <2>2
  <2>4. PICK t \in SUBSET word : iter[t] # f[t] /\ f[t] < f[s]
    BY <1>8, <2>3
  <2>5. f[t] \in Wrong /\ <<f[t], n>> \in OpToRel(<, Nat)
    BY <1>3, <2>3, <2>4 DEF OpToRel
  <2> QED
    BY <2>2, <2>5
<1>10. iter[word] = f[word]
  BY <1>9
<1> QED
  BY <1>1, <1>10

\* Powers of two multiply.
LEMMA PowerSum ==
  ASSUME NEW m \in Nat, NEW n \in Nat
  PROVE  2 ^ (m + n) = 2 ^ m * 2 ^ n
<1> DEFINE S == {d \in Nat : 2 ^ (m + d) = 2 ^ m * 2 ^ d}
<1>1. 0 \in S
  <2>1. m + 0 = m /\ 2 ^ m \in Nat /\ 2 ^ 0 = 1
    BY PowerDoubles
  <2> QED
    BY <2>1
<1>2. ASSUME NEW d \in S
      PROVE  d + 1 \in S
  <2> DEFINE p == 2 ^ m
             q == 2 ^ d
  <2>1. p \in Nat /\ q \in Nat /\ 2 ^ (m + d) = p * q
    BY PowerDoubles
  <2>2. m + (d + 1) = (m + d) + 1 /\ 2 ^ ((m + d) + 1) = 2 * 2 ^ (m + d) /\ 2 ^ (d + 1) = 2 * q
    BY PowerDoubles
  <2> HIDE DEF p, q
  <2>3. 2 * (p * q) = p * (2 * q)
    BY <2>1
  <2>4. 2 ^ (m + (d + 1)) = p * 2 ^ (d + 1)
    BY <2>1, <2>2, <2>3
  <2> QED
    BY <2>4 DEF p
<1> HIDE DEF S
<1>3. S = Nat
  BY <1>1, <1>2, SetInduction DEF S
<1> QED
  BY <1>3 DEF S

\* A quotient moves by as many divisors as the dividend.
LEMMA QuotientMoves ==
  ASSUME NEW m \in Nat, NEW c \in Nat, NEW d \in Nat \ {0}
  PROVE  (m + c * d) \div d = (m \div d) + c
<1> DEFINE q == m \div d
           r == m % d
<1>1. q \in Nat /\ r \in 0 .. d - 1 /\ m = d * q + r
  OBVIOUS
<1> HIDE DEF q, r
<1>2. m + c * d = d * (q + c) + r /\ q + c \in Nat
  BY <1>1
<1>3. ASSUME NEW x \in Nat, NEW y \in Nat, x = d * y + r
      PROVE  x \div d = y
  BY <1>1, <1>3
<1>4. m + c * d \in Nat
  OBVIOUS
<1>5. (m + c * d) \div d = q + c
  BY <1>2, <1>3, <1>4
<1> QED
  BY <1>5 DEF q

\* The digits of a number whose first is the k-th are those of what is left without it.
LEMMA FirstDigit ==
  ASSUME NEW k \in 0 .. 30, NEW n \in Nat, 2 ^ k <= n, n < 2 ^ (k + 1)
  PROVE  n - 2 ^ k \in Nat /\ k \in Word(n) /\ Word(n - 2 ^ k) = Word(n) \ {k}
<1> DEFINE m == n - 2 ^ k
<1>1. 2 ^ k \in Nat \ {0} /\ 2 ^ (k + 1) = 2 * 2 ^ k
  BY PowerDoubles
<1>2. m \in Nat /\ m < 2 ^ k /\ n = m + 2 ^ k
  BY <1>1
<1>3. Word(m) \subseteq 0 .. k - 1 /\ Word(n) \subseteq 0 .. k
  BY <1>2, DigitsFit
<1>4. k \in Word(n)
  <2>1. n \div 2 ^ k = 1
    BY <1>1
  <2>2. 1 % 2 = 1
    OBVIOUS
  <2>3. (n \div 2 ^ k) % 2 = 1
    BY <2>1, <2>2
  <2> QED
    BY <2>3 DEF Word
<1> HIDE DEF m
<1>5. ASSUME NEW b \in 0 .. k - 1
      PROVE  b \in Word(n) <=> b \in Word(m)
  <2> DEFINE d == 2 ^ b
             c == 2 ^ (k - b - 1)
  <2>1. d \in Nat \ {0} /\ c \in Nat /\ 2 ^ (k - b) = 2 * c
    BY PowerDoubles
  <2>2. 2 ^ k = d * 2 ^ (k - b)
    BY PowerSum
  <2> HIDE DEF c
  <2>3. n = m + (2 * c) * d
    BY <1>2, <2>1, <2>2
  <2>4. n \div d = (m \div d) + 2 * c
    <3>1. 2 * c \in Nat
      BY <2>1
    <3> HIDE DEF d
    <3>2. (m + (2 * c) * d) \div d = (m \div d) + 2 * c
      BY <1>2, <2>1, <3>1, QuotientMoves
    <3> QED
      BY <2>3, <3>2
  <2>5. m \div d \in Nat
    BY <1>2, <2>1
  <2>6. (n \div d) % 2 = (m \div d) % 2
    BY <2>1, <2>4, <2>5
  <2> QED
    BY <1>2, <2>6 DEF Word
<1>6. Word(m) = Word(n) \ {k}
  BY <1>3, <1>5
<1> QED
  BY <1>2, <1>4, <1>6 DEF m

\* There is a function that adds up powers of two, and gives of the digits of a number
\* that number.
LEMMA DigitsAddUp ==
  ASSUME NEW size \in 0 .. 31
  PROVE  \E f : /\ AddsUp(f, 0 .. size - 1)
                /\ \A n \in Nat : n < 2 ^ size => f[Word(n)] = n
<1> DEFINE Values(f, k) == /\ AddsUp(f, 0 .. k - 1)
                           /\ \A n \in Nat : n < 2 ^ k => f[Word(n)] = n
           S == {k \in Nat : k <= 31 => \E f : Values(f, k)}
<1>1. 0 \in S
  <2> DEFINE f == [s \in SUBSET (0 .. 0 - 1) |-> 0]
  <2>1. 0 .. 0 - 1 = {}
    OBVIOUS
  <2>2. AddsUp(f, 0 .. 0 - 1)
    BY <2>1 DEF AddsUp
  <2>3. ASSUME NEW n \in Nat, n < 2 ^ 0
        PROVE  f[Word(n)] = n
    <3>1. n = 0
      BY <2>3
    <3>2. Word(n) = {}
      BY <2>1, <2>3, DigitsFit
    <3> QED
      BY <2>1, <3>1, <3>2
  <2> HIDE DEF f
  <2> QED
    BY <2>2, <2>3
<1>2. ASSUME NEW k \in S
      PROVE  k + 1 \in S
  <2> SUFFICES ASSUME k + 1 <= 31
               PROVE  \E g : Values(g, k + 1)
    BY DEF S
  <2>1. PICK f : Values(f, k)
    OBVIOUS
  <2>2. k \in 0 .. 30 /\ (k + 1) - 1 = k
    OBVIOUS
  <2> DEFINE T == 0 .. k - 1
             U == 0 .. k
             g == [s \in SUBSET U |-> f[s \ {k}] + (IF k \in s THEN 2 ^ k ELSE 0)]
  <2>3. U = T \cup {k} /\ k \notin T
    BY <2>2
  <2>4. f \in [SUBSET T -> Nat] /\ f[{}] = 0
    BY <2>1 DEF AddsUp
  <2>5. \A s \in SUBSET T : \A x \in s : f[s] = 2 ^ x + f[s \ {x}]
    BY <2>1 DEF AddsUp
  <2>6. \A x \in U : 2 ^ x \in Nat
    BY <2>2, PowerDoubles
  <2> HIDE DEF T
  <2>7. AddsUp(g, U)
    <3>1. \A s \in SUBSET U : s \ {k} \in SUBSET T /\ f[s \ {k}] \in Nat
      BY <2>3, <2>4
    <3>2. g \in [SUBSET U -> Nat] /\ g[{}] = 0
      <4>1. {} \ {k} = {} /\ {} \in SUBSET U /\ k \notin {}
        OBVIOUS
      <4>2. ASSUME NEW s \in SUBSET U
            PROVE  f[s \ {k}] + (IF k \in s THEN 2 ^ k ELSE 0) \in Nat
        <5> DEFINE p == 2 ^ k
                   r == f[s \ {k}]
        <5>1. p \in Nat /\ r \in Nat
          BY <2>3, <2>6, <3>1
        <5> HIDE DEF p, r
        <5>2. r + (IF k \in s THEN p ELSE 0) \in Nat
          BY <5>1
        <5> QED
          BY <5>2 DEF p, r
      <4>3. g[{}] = f[{}] + 0
        BY <4>1
      <4>4. g[{}] = 0
        BY <2>4, <4>3
      <4>5. g \in [SUBSET U -> Nat]
        BY <4>2
      <4> QED
        BY <4>4, <4>5
    <3>3. ASSUME NEW s \in SUBSET U, NEW x \in s
          PROVE  g[s] = 2 ^ x + g[s \ {x}]
      <4>1. CASE x = k
        <5>1. (s \ {x}) \ {k} = s \ {k} /\ k \notin s \ {x} /\ s \ {x} \in SUBSET U
          BY <4>1
        <5>2. g[s] = f[s \ {k}] + 2 ^ k
          BY <4>1
        <5>3. g[s \ {x}] = f[s \ {k}] + 0
          BY <5>1
        <5>4. 2 ^ x \in Nat /\ f[s \ {k}] \in Nat
          BY <2>6, <3>1
        <5> QED
          BY <4>1, <5>2, <5>3, <5>4
      <4>2. CASE x # k
        <5>1. /\ (s \ {x}) \ {k} = (s \ {k}) \ {x} /\ x \in s \ {k}
              /\ k \in s \ {x} <=> k \in s
              /\ s \ {x} \in SUBSET U
          BY <4>2
        <5>2. f[s \ {k}] = 2 ^ x + f[(s \ {k}) \ {x}]
          BY <2>5, <3>1, <5>1
        <5>3. f[(s \ {k}) \ {x}] \in Nat
          BY <3>1, <5>1
        <5>4. g[s] = f[s \ {k}] + (IF k \in s THEN 2 ^ k ELSE 0)
          OBVIOUS
        <5>5. g[s \ {x}] = f[(s \ {k}) \ {x}] + (IF k \in s THEN 2 ^ k ELSE 0)
          BY <5>1
        <5> QED
          BY <2>3, <2>6, <5>2, <5>3, <5>4, <5>5
      <4> QED
        BY <4>1, <4>2
    <3> HIDE DEF g
    <3> QED
      BY <3>2, <3>3 DEF AddsUp
  <2>8. ASSUME NEW n \in Nat, n < 2 ^ (k + 1)
        PROVE  g[Word(n)] = n
    <3>1. Word(n) \in SUBSET U
      BY <2>2, <2>8, DigitsFit
    <3>2. CASE n < 2 ^ k
      <4>1. Word(n) \subseteq T
        BY <2>2, <3>2, DigitsFit DEF T
      <4>2. Word(n) \ {k} = Word(n) /\ k \notin Word(n)
        BY <2>3, <4>1
      <4>3. f[Word(n)] = n
        BY <2>1, <3>2
      <4>4. g[Word(n)] = f[Word(n) \ {k}] + 0
        BY <3>1, <4>2
      <4>5. f[Word(n) \ {k}] = n
        BY <4>2, <4>3
      <4> QED
        BY <4>4, <4>5
    <3>3. CASE ~(n < 2 ^ k)
      <4>1. 2 ^ k \in Nat /\ 2 ^ (k + 1) = 2 * 2 ^ k
        BY <2>2, PowerDoubles
      <4>2. n - 2 ^ k \in Nat /\ n - 2 ^ k < 2 ^ k /\ 2 ^ k <= n
        BY <2>8, <3>3, <4>1
      <4>3. k \in Word(n) /\ Word(n - 2 ^ k) = Word(n) \ {k}
        BY <2>2, <2>8, <4>2, FirstDigit
      <4>4. f[Word(n) \ {k}] = n - 2 ^ k
        BY <2>1, <4>2, <4>3
      <4>5. g[Word(n)] = f[Word(n) \ {k}] + 2 ^ k
        BY <3>1, <4>3
      <4> QED
        BY <4>1, <4>4, <4>5
    <3> QED
      BY <3>2, <3>3
  <2> HIDE DEF g
  <2> QED
    BY <2>2, <2>7, <2>8
<1> HIDE DEF S
<1>3. S = Nat
  BY <1>1, <1>2, SetInduction DEF S
<1>4. size \in S /\ size <= 31
  BY <1>3
<1> QED
  BY <1>4 DEF S

\* The digits of a number make up the number.
LEMMA UnsignedWord ==
  ASSUME NEW n \in Nat, n < 2 ^ 31
  PROVE  Unsigned(Word(n)) = n
<1>1. PICK f : AddsUp(f, 0 .. 31 - 1) /\ \A m \in Nat : m < 2 ^ 31 => f[Word(m)] = m
  BY DigitsAddUp
<1>2. Word(n) \in SUBSET (0 .. (31 - 1)) /\ (0 .. (31 - 1)) \in SUBSET Nat
  <2>1. Word(n) \subseteq 0 .. (31 - 1)
    BY DigitsFit
  <2> QED
    BY <2>1
<1>3. f[Word(n)] = n
  BY <1>1
<1> QED
  BY <1>1, <1>2, <1>3, UnsignedAddsUp

-----------------------------------------------------------------------------
(* The bits of a word, of a message and of a field.                         *)

\* The bytes of a number of a bit and of a byte.
LEMMA BitPlaces ==
  /\ \A c \in WordBits : c \div 8 \in 0 .. 7 /\ c % 8 \in 0 .. 7 /\ c = 8 * (c \div 8) + (c % 8)
  /\ \A i, k \in 0 .. 7 : /\ 8 * i + k \in WordBits
                          /\ (8 * i + k) \div 8 = i /\ (8 * i + k) % 8 = k
<1>1. \A c \in WordBits : c \div 8 \in 0 .. 7 /\ c % 8 \in 0 .. 7 /\ c = 8 * (c \div 8) + (c % 8)
  BY DEF WordBits
<1>2. \A i, k \in 0 .. 7 : /\ 8 * i + k \in WordBits
                          /\ (8 * i + k) \div 8 = i /\ (8 * i + k) % 8 = k
  BY DEF WordBits
<1> QED
  BY <1>1, <1>2

\* The i-th byte of a swapped word in memory.
LEMMA SwappedByte ==
  ASSUME NEW word \in SUBSET WordBits, NEW i \in 0 .. 7
  PROVE  MemoryByte(Swapped(word), i) = {k \in 0 .. 7 : 8 * (7 - i) + k \in word}
<1> DEFINE M == MemoryByte(Swapped(word), i)
<1>1. \A k : k \in M <=> k \in 0 .. 7 /\ \E c \in word : k = 8 * (7 - (c \div 8)) + (c % 8) - 8 * i
  <2>1. \A b : b \in Swapped(word) <=> \E c \in word : b = 8 * (7 - (c \div 8)) + (c % 8)
    BY DEF Swapped
  <2>2. \A k : k \in M <=> /\ k \in WordBits /\ k \in 0 .. 7
                           /\ \E b \in Swapped(word) : k = b - 8 * i
    BY DEF MemoryByte, ShiftRight
  <2>3. 0 .. 7 \subseteq WordBits
    BY DEF WordBits
  <2> HIDE DEF M
  <2>4. ASSUME NEW k \in M
        PROVE  k \in 0 .. 7 /\ \E c \in word : k = 8 * (7 - (c \div 8)) + (c % 8) - 8 * i
    <3>1. PICK b \in Swapped(word) : k = b - 8 * i
      BY <2>2
    <3>2. PICK c \in word : b = 8 * (7 - (c \div 8)) + (c % 8)
      BY <2>1
    <3>3. c \div 8 \in 0 .. 7 /\ c % 8 \in 0 .. 7
      BY BitPlaces
    <3>4. k = 8 * (7 - (c \div 8)) + (c % 8) - 8 * i
      BY <3>1, <3>2, <3>3
    <3> QED
      BY <2>2, <3>4
  <2>5. ASSUME NEW k \in 0 .. 7, NEW c \in word, k = 8 * (7 - (c \div 8)) + (c % 8) - 8 * i
        PROVE  k \in M
    <3>1. 8 * (7 - (c \div 8)) + (c % 8) \in Swapped(word)
      BY <2>1
    <3>2. c \div 8 \in 0 .. 7 /\ c % 8 \in 0 .. 7
      BY BitPlaces
    <3>3. \E b \in Swapped(word) : k = b - 8 * i
      BY <2>5, <3>1, <3>2
    <3> QED
      BY <2>2, <2>3, <3>3
  <2> QED
    BY <2>4, <2>5
<1>2. ASSUME NEW k \in 0 .. 7, 8 * (7 - i) + k \in word
      PROVE  k \in M
  <2> DEFINE c == 8 * (7 - i) + k
  <2>1. c \div 8 = 7 - i /\ c % 8 = k
    BY BitPlaces
  <2> QED
    BY <1>1, <1>2, <2>1
<1>3. ASSUME NEW k \in M
      PROVE  k \in 0 .. 7 /\ 8 * (7 - i) + k \in word
  <2>1. PICK c \in word : k = 8 * (7 - (c \div 8)) + (c % 8) - 8 * i
    BY <1>1
  <2> DEFINE q == c \div 8
             r == c % 8
  <2>2. q \in 0 .. 7 /\ r \in 0 .. 7 /\ c = 8 * q + r
    BY BitPlaces
  <2>3. k \in 0 .. 7 /\ k = 8 * (7 - q) + r - 8 * i
    BY <1>1, <2>1
  <2> HIDE DEF q, r
  <2>4. 7 - q = i /\ r = k
    BY <2>2, <2>3
  <2>5. c = 8 * (7 - i) + k
    BY <2>2, <2>4
  <2> QED
    BY <2>3, <2>5
<1> QED
  BY <1>2, <1>3

\* On both boards the bytes of a message go out as they are in memory.
LEMMA BytesOfMessage ==
  ASSUME NEW word \in SUBSET WordBits, NEW build
  PROVE  copyToMessageBuffer(Swapped(word), build) =
            [i \in 0 .. 7 |-> {k \in 0 .. 7 : 8 * (7 - i) + k \in word}]
<1>1. \A i \in 0 .. 7 : nthByte(Swapped(word), 7 - i) = MemoryByte(Swapped(word), i)
  <2> TAKE i \in 0 .. 7
  <2>1. 64 - (7 - i + 1) * 8 = 8 * i
    OBVIOUS
  <2> QED
    BY <2>1 DEF nthByte, MemoryByte
<1> QED
  BY <1>1, SwappedByte DEF copyToMessageBuffer

\* So the word's bits go out the most significant first.
LEMMA WireOrder ==
  ASSUME NEW word \in SUBSET WordBits, NEW build
  PROVE  OnWire(copyToMessageBuffer(Swapped(word), build)) = {63 - c : c \in word}
<1> DEFINE frame == copyToMessageBuffer(Swapped(word), build)
<1>1. frame = [i \in 0 .. 7 |-> {k \in 0 .. 7 : 8 * (7 - i) + k \in word}]
  BY BytesOfMessage
<1> HIDE DEF frame
<1>2. \A p : p \in OnWire(frame) <=> \E i \in 0 .. 7 : \E k \in frame[i] : p = 8 * i + 7 - k
  BY DEF OnWire
<1>3. ASSUME NEW p \in OnWire(frame)
      PROVE  \E c \in word : p = 63 - c
  <2>1. PICK i \in 0 .. 7 : \E k \in frame[i] : p = 8 * i + 7 - k
    BY <1>2
  <2>2. PICK k \in 0 .. 7 : 8 * (7 - i) + k \in word /\ p = 8 * i + 7 - k
    BY <1>1, <2>1
  <2>3. p = 63 - (8 * (7 - i) + k)
    BY <2>2
  <2> QED
    BY <2>2, <2>3
<1>4. ASSUME NEW c \in word
      PROVE  63 - c \in OnWire(frame)
  <2> DEFINE i == 7 - (c \div 8)
             k == c % 8
  <2>1. /\ c \div 8 \in 0 .. 7 /\ k \in 0 .. 7 /\ c = 8 * (c \div 8) + k
    BY BitPlaces
  <2>2. i \in 0 .. 7 /\ 8 * (7 - i) + k = c /\ 63 - c = 8 * i + 7 - k
    BY <2>1
  <2>3. k \in frame[i]
    BY <1>1, <2>1, <2>2
  <2> QED
    BY <1>2, <2>2, <2>3
<1>5. \A p : p \in OnWire(frame) <=> p \in {63 - c : c \in word}
  BY <1>3, <1>4
<1> QED
  BY <1>5 DEF frame

\* What is received on either board is the word in memory again.
LEMMA MessageRead ==
  ASSUME NEW word \in SUBSET WordBits, NEW build
  PROVE  receiveCanMessage(copyToMessageBuffer(Swapped(word), build)) = Swapped(word)
<1> DEFINE frame == copyToMessageBuffer(Swapped(word), build)
<1>1. \A i \in 0 .. 7 : frame[i] = {k \in 0 .. 7 : 8 * (7 - i) + k \in word}
  BY BytesOfMessage
<1> HIDE DEF frame
<1>2. \A b : b \in receiveCanMessage(frame) <=>
                \E i \in 0 .. 7 : \E k \in frame[i] : b = k + 8 * i /\ b \in WordBits
  BY DEF receiveCanMessage, ShiftLeft
<1>3. \A b : b \in Swapped(word) <=> \E c \in word : b = 8 * (7 - (c \div 8)) + (c % 8)
  BY DEF Swapped
<1>4. ASSUME NEW b \in receiveCanMessage(frame)
      PROVE  b \in Swapped(word)
  <2>1. PICK i \in 0 .. 7, k \in 0 .. 7 : 8 * (7 - i) + k \in word /\ b = k + 8 * i
    BY <1>1, <1>2
  <2> DEFINE c == 8 * (7 - i) + k
  <2>2. c \in word /\ c \div 8 = 7 - i /\ c % 8 = k
    BY <2>1, BitPlaces
  <2> HIDE DEF c
  <2>3. b = 8 * (7 - (c \div 8)) + (c % 8)
    BY <2>1, <2>2
  <2> QED
    BY <1>3, <2>2, <2>3
<1>5. ASSUME NEW b \in Swapped(word)
      PROVE  b \in receiveCanMessage(frame)
  <2>1. PICK c \in word : b = 8 * (7 - (c \div 8)) + (c % 8)
    BY <1>3
  <2> DEFINE i == 7 - (c \div 8)
             k == c % 8
  <2>2. /\ i \in 0 .. 7 /\ k \in 0 .. 7 /\ 8 * (7 - i) + k = c
    <3>1. c \div 8 \in 0 .. 7 /\ k \in 0 .. 7 /\ c = 8 * (c \div 8) + k
      BY BitPlaces
    <3> QED
      BY <3>1
  <2>3. k \in frame[i]
    BY <1>1, <2>2
  <2> HIDE DEF k
  <2>4. b = k + 8 * i /\ b \in WordBits
    <3> HIDE DEF i
    <3>1. b = 8 * i + k
      BY <2>1 DEF i, k
    <3> QED
      BY <2>2, <3>1 DEF WordBits
  <2> QED
    BY <1>2, <2>2, <2>3, <2>4
<1> QED
  BY <1>4, <1>5 DEF frame

\* Hosts are told of the bytes in the order in which they were on the wire.
LEMMA BytesTold ==
  ASSUME NEW word \in SUBSET WordBits
  PROVE  UNION {ShiftLeft(MemoryByte(Swapped(word), i), 8 * (7 - i)) : i \in 0 .. 7} = word
<1> DEFINE U == UNION {ShiftLeft(MemoryByte(Swapped(word), i), 8 * (7 - i)) : i \in 0 .. 7}
<1>1. \A b : b \in U <=> \E i \in 0 .. 7 : \E k \in MemoryByte(Swapped(word), i) :
                            b = k + 8 * (7 - i) /\ b \in WordBits
  BY DEF ShiftLeft
<1>2. \A i \in 0 .. 7 : MemoryByte(Swapped(word), i) = {k \in 0 .. 7 : 8 * (7 - i) + k \in word}
  BY SwappedByte
<1> HIDE DEF U
<1>3. ASSUME NEW b \in U
      PROVE  b \in word
  <2>1. PICK i \in 0 .. 7, k \in 0 .. 7 : 8 * (7 - i) + k \in word /\ b = k + 8 * (7 - i)
    BY <1>1, <1>2
  <2>2. b = 8 * (7 - i) + k
    BY <2>1
  <2> QED
    BY <2>1, <2>2
<1>4. ASSUME NEW b \in word
      PROVE  b \in U
  <2> DEFINE i == 7 - (b \div 8)
             k == b % 8
  <2>1. i \in 0 .. 7 /\ k \in 0 .. 7 /\ 8 * (7 - i) + k = b
    <3>1. b \div 8 \in 0 .. 7 /\ k \in 0 .. 7 /\ b = 8 * (b \div 8) + k
      BY BitPlaces
    <3> QED
      BY <3>1
  <2> HIDE DEF i, k
  <2>2. k \in MemoryByte(Swapped(word), i) /\ b = k + 8 * (7 - i)
    BY <1>2, <2>1
  <2> QED
    BY <1>1, <2>1, <2>2
<1> QED
  BY <1>3, <1>4 DEF U

\* A value that fits its field is the only thing in the word, and goes out from the bit
\* where the field starts.
LEMMA FieldOnWire ==
  ASSUME NEW position \in Nat, NEW size \in Nat, position + size <= 64,
         NEW raw \in SUBSET (0 .. size - 1)
  PROVE  LET word == setBitField({}, raw, position, size)
         IN  /\ word = {r + (64 - position - size) : r \in raw} /\ word \in SUBSET WordBits
             /\ {63 - c : c \in word} = {position + size - 1 - r : r \in raw}
<1> DEFINE word == setBitField({}, raw, position, size)
           d    == 64 - position - size
<1>1. d \in Nat /\ \A r \in raw : r \in Nat /\ r + d \in WordBits
  BY DEF WordBits
<1>2. word = {r + d : r \in raw} \cap WordBits
  BY DEF setBitField, ShiftLeft
<1> HIDE DEF word
<1>3. word = {r + d : r \in raw}
  BY <1>1, <1>2
<1>4. \A r \in raw : 63 - (r + d) = position + size - 1 - r
  BY <1>1
<1>5. {63 - c : c \in word} = {position + size - 1 - r : r \in raw}
  <2>1. \A p : p \in {63 - c : c \in word} <=> \E r \in raw : p = 63 - (r + d)
    BY <1>3
  <2>2. \A p : p \in {position + size - 1 - r : r \in raw} <=>
                  \E r \in raw : p = position + size - 1 - r
    OBVIOUS
  <2> HIDE DEF d
  <2> QED
    BY <1>4, <2>1, <2>2
<1> QED
  BY <1>2, <1>3, <1>5 DEF word

\* A field is read as it was written.
LEMMA FieldRead ==
  ASSUME NEW position \in Nat, NEW size \in Nat \ {0}, position + size <= 64,
         NEW raw \in SUBSET (0 .. size - 1)
  PROVE  getBitField(Swapped(setBitField({}, raw, position, size)), position, size) = raw
<1> DEFINE word  == setBitField({}, raw, position, size)
           d     == 64 - position - size
           first == startingByte(position)
           last  == endingByte(position, size)
           gap   == 8 - findEndBit(position, size)
           Read  == getBitField(Swapped(word), position, size)
           joined == UNION {ShiftLeft(MemoryByte(Swapped(word), i), 8 * (last - i)) :
                               i \in first .. last}
<1>1. word = {r + d : r \in raw} /\ word \in SUBSET WordBits
  BY FieldOnWire
<1>2. /\ first \in 0 .. 7 /\ last \in 0 .. 7 /\ gap \in 0 .. 7
      /\ d = 8 * (7 - last) + gap
      /\ 8 * first <= position /\ position + size <= 8 * last + 8
  BY DEF startingByte, endingByte, findEndBit
<1>3. Read = ShiftRight(joined, gap) \cap 0 .. size - 1
  BY DEF getBitField, bitmask
<1>4. \A b : b \in joined <=> \E i \in first .. last : \E k \in MemoryByte(Swapped(word), i) :
                                 b = k + 8 * (last - i) /\ b \in WordBits
  BY DEF ShiftLeft
<1>5. \A i \in 0 .. 7 : MemoryByte(Swapped(word), i) = {k \in 0 .. 7 : 8 * (7 - i) + k \in word}
  BY <1>1, SwappedByte
<1> HIDE DEF word, d, first, last, gap, Read, joined
<1>6. d \in Nat
  BY DEF d
<1>7. ASSUME NEW r \in Read
      PROVE  r \in raw
  <2>1. PICK b \in joined : r = b - gap /\ r \in 0 .. size - 1
    BY <1>3 DEF ShiftRight
  <2>2. PICK i \in first .. last, k \in 0 .. 7 :
            8 * (7 - i) + k \in word /\ b = k + 8 * (last - i)
    <3>1. PICK i \in first .. last : \E k \in MemoryByte(Swapped(word), i) : b = k + 8 * (last - i)
      BY <1>4, <2>1
    <3>2. MemoryByte(Swapped(word), i) = {k \in 0 .. 7 : 8 * (7 - i) + k \in word}
      <4>1. i \in 0 .. 7
        BY <1>2
      <4> QED
        BY <1>5, <4>1
    <3> QED
      BY <3>1, <3>2
  <2>3. PICK s \in raw : 8 * (7 - i) + k = s + d
    BY <1>1, <2>2
  <2>4. r = s
    BY <1>2, <2>1, <2>2, <2>3
  <2> QED
    BY <2>4
<1>8. ASSUME NEW r \in raw
      PROVE  r \in Read
  <2> DEFINE c == r + d
             q == c \div 8
             k == c % 8
             i == 7 - q
             b == k + 8 * (last - i)
  <2>1. c \in word
    BY <1>1
  <2>2. q \in 0 .. 7 /\ k \in 0 .. 7 /\ c = 8 * q + k
    BY <1>1, <2>1, BitPlaces
  <2>3. r \in 0 .. size - 1 /\ c <= 63 - position
    BY DEF d
  <2> HIDE DEF q, k, c
  <2>4. i \in 0 .. 7 /\ 8 * (7 - i) + k = c
    BY <2>2
  <2>5. i \in first .. last
    <3>1. 8 * (7 - last) <= c
      BY <1>2, <1>6, <2>3 DEF c
    <3>2. 7 - last <= q
      BY <1>2, <2>2, <3>1
    <3>3. q <= 7 - first
      BY <1>2, <2>2, <2>3
    <3> QED
      BY <1>2, <2>2, <3>2, <3>3
  <2>6. b = c - 8 * (7 - last) /\ b = r + gap
    <3>1. c = r + d
      BY DEF c
    <3> QED
      BY <1>2, <2>2, <2>3, <3>1
  <2>7. b \in WordBits
    <3>1. c \in WordBits
      BY <1>1, <2>1
    <3> QED
      BY <1>2, <2>3, <2>6, <3>1 DEF WordBits
  <2>8. k \in MemoryByte(Swapped(word), i)
    BY <1>5, <2>1, <2>2, <2>4
  <2> HIDE DEF i
  <2>9. b \in joined
    BY <1>4, <2>5, <2>7, <2>8
  <2> HIDE DEF b
  <2>10. r = b - gap
    BY <1>2, <2>3, <2>6
  <2>11. r \in WordBits
    BY <2>3 DEF WordBits
  <2> QED
    BY <1>3, <2>3, <2>9, <2>10, <2>11 DEF ShiftRight
<1> QED
  BY <1>7, <1>8 DEF Read, word

-----------------------------------------------------------------------------
(* Operators of the model.                                                  *)

\* A sequence stays one when an element is appended.
LEMMA ListGrows ==
  ASSUME NEW q, IsList(q), NEW m
  PROVE  /\ IsList(Append(q, m)) /\ Len(q) \in Nat /\ Len(Append(q, m)) = Len(q) + 1
         /\ \A i \in 1 .. Len(Append(q, m)) :
               Append(q, m)[i] = m \/ (i \in 1 .. Len(q) /\ Append(q, m)[i] = q[i])
<1> DEFINE S == {q[i] : i \in 1 .. Len(q)} \cup {m}
           r == Append(q, m)
<1>1. q \in Seq(S)
  <2>1. q \in Seq({q[i] : i \in 1 .. Len(q)})
    BY DEF IsList, Elements
  <2> QED
    BY <2>1
<1> HIDE DEF S
<1>2. m \in S
  BY DEF S
<1>3. /\ r \in Seq(S) /\ Len(q) \in Nat /\ Len(r) = Len(q) + 1
      /\ \A i \in 1 .. Len(q) : r[i] = q[i]
      /\ r[Len(q) + 1] = m
  BY <1>1, <1>2
<1>4. \A i \in 1 .. Len(r) : i = Len(q) + 1 \/ i \in 1 .. Len(q)
  BY <1>3
<1> HIDE DEF r
<1>5. IsList(r)
  <2>1. r \in [1 .. Len(r) -> S] /\ Len(r) \in Nat
    BY <1>3
  <2>2. r \in [1 .. Len(r) -> {r[i] : i \in 1 .. Len(r)}]
    BY <2>1
  <2> QED
    BY <2>1, <2>2 DEF IsList, Elements
<1> QED
  BY <1>3, <1>4, <1>5 DEF r

\* A set of numbers has a least one.
LEMMA LeastOne ==
  ASSUME NEW I, I \subseteq Nat, I # {}
  PROVE  Min(I) \in I /\ \A i \in I : Min(I) <= i
<1>1. \E x \in I : \A y \in I : ~(<<y, x>> \in OpToRel(<, Nat))
  BY NatLessThanWellFounded, WFMin
<1>2. \A x, y \in Nat : y < x => <<y, x>> \in OpToRel(<, Nat)
  BY DEF OpToRel
<1>3. PICK x \in I : \A y \in I : ~(<<y, x>> \in OpToRel(<, Nat))
  BY <1>1
<1>4. \A y \in I : ~(y < x) /\ x \in Nat /\ y \in Nat
  BY <1>2, <1>3
<1>5. \A y \in I : x <= y
  BY <1>4
<1> QED
  BY <1>5 DEF Min

\* A search that finds something finds an index of the table.
LEMMA LookupFacts ==
  ASSUME NEW name
  PROVE  /\ lookupSignal(name) # 0 => lookupSignal(name) \in 1 .. Len(vehicle.signals)
         /\ lookupWritableSignal(name) # 0 =>
               lookupWritableSignal(name) \in 1 .. Len(vehicle.signals)
<1> DEFINE I == {i \in 1 .. Len(vehicle.signals) : signalComparator(name, vehicle.signals[i])}
           J == {i \in 1 .. Len(vehicle.signals) : writableSignalComparator(name, vehicle.signals[i])}
<1>1. lookupSignal(name) = IF I # {} THEN Min(I) ELSE 0
  BY DEF lookupSignal, SelectInSeq
<1>2. lookupWritableSignal(name) = IF J # {} THEN Min(J) ELSE 0
  BY DEF lookupWritableSignal, SelectInSeq
<1>3. I \subseteq 1 .. Len(vehicle.signals) /\ J \subseteq 1 .. Len(vehicle.signals)
  OBVIOUS
<1> HIDE DEF I, J
<1>4. I # {} => Min(I) \in I
  <2>1. I \subseteq Nat
    BY <1>3
  <2> QED
    BY <2>1, LeastOne
<1>5. J # {} => Min(J) \in J
  <2>1. J \subseteq Nat
    BY <1>3
  <2> QED
    BY <2>1, LeastOne
<1> QED
  BY <1>1, <1>2, <1>3, <1>4, <1>5

\* The text of the VIN is complete with all of its parts.
LEMMA Complete ==
  ASSUME NEW parts \in SUBSET Part
  PROVE  strlen(parts) = 17 <=> parts = Part
<1>1. Part = {0, 1, 2}
  BY DEF Part
<1>2. parts = Part <=> 0 \in parts /\ 1 \in parts /\ 2 \in parts
  BY <1>1
<1>3. strlen(parts) = 17 <=> 0 \in parts /\ 1 \in parts /\ 2 \in parts
  BY DEF strlen
<1> QED
  BY <1>2, <1>3

\* A search among a signal's states finds the first of a name.
LEMMA StateFacts ==
  ASSUME NEW signal, NEW name, lookupSignalState(name, signal) # 0
  PROVE  /\ lookupSignalState(name, signal) \in 1 .. Len(signal.states)
         /\ lookupSignalState(name, signal) =
               CHOOSE i \in 1 .. Len(signal.states) :
                   /\ signal.states[i].name = name
                   /\ \A j \in 1 .. i - 1 : signal.states[j].name # name
<1> DEFINE I == {i \in 1 .. Len(signal.states) : signal.states[i].name = name}
           First(i) == /\ signal.states[i].name = name
                       /\ \A j \in 1 .. i - 1 : signal.states[j].name # name
           least == lookupSignalState(name, signal)
<1>1. least = IF I # {} THEN Min(I) ELSE 0
  BY DEF lookupSignalState, SelectInSeq
<1>2. \A i : i \in I <=> i \in 1 .. Len(signal.states) /\ signal.states[i].name = name
  OBVIOUS
<1>3. I \subseteq Nat
  OBVIOUS
<1>4. I # {} /\ least = Min(I)
  BY <1>1
<1> HIDE DEF I, least
<1>5. least \in I /\ \A i \in I : least <= i
  BY <1>3, <1>4, LeastOne
<1>6. First(least)
  <2> SUFFICES ASSUME NEW j \in 1 .. least - 1
               PROVE  signal.states[j].name # name
    BY <1>2, <1>5
  <2>1. least \in 1 .. Len(signal.states) /\ least \in Nat
    BY <1>2, <1>3, <1>5
  <2>2. j \in 1 .. Len(signal.states) /\ ~(least <= j)
    BY <2>1
  <2> QED
    BY <1>2, <1>5, <2>2
<1>7. ASSUME NEW i \in 1 .. Len(signal.states), First(i)
      PROVE  i = least
  <2>1. i \in I /\ i \in Nat /\ least \in Nat /\ 1 <= least /\ least <= i
    BY <1>2, <1>3, <1>5, <1>7
  <2>2. ~(least \in 1 .. i - 1)
    BY <1>2, <1>5, <1>7
  <2> QED
    BY <2>1, <2>2
<1> HIDE DEF First
<1>8. least \in 1 .. Len(signal.states)
  BY <1>2, <1>5
<1>9. least = CHOOSE i \in 1 .. Len(signal.states) : First(i)
  BY <1>6, <1>7, <1>8
<1> QED
  BY <1>8, <1>9 DEF least, First

-----------------------------------------------------------------------------
(* Writers.                                                                 *)

\* The raw value nearest to a quotient, half-way the greater, is within half a unit of it
\* and no greater than what is divided.
LEMMA RawFacts ==
  ASSUME NEW difference \in Nat, NEW factor \in Nat \ {0}
  PROVE  LET nearest == (2 * difference + factor) \div (2 * factor)
         IN  /\ nearest \in Nat
             /\ 2 * (nearest * factor - difference) \in -factor .. factor
             /\ nearest <= difference
<1> DEFINE dividend   == 2 * difference + factor
           divisor    == 2 * factor
           q          == dividend \div divisor
           r          == dividend % divisor
<1>2. dividend \in Nat /\ divisor \in Nat \ {0}
  OBVIOUS
<1>3. dividend = 2 * difference + factor /\ divisor = 2 * factor
  OBVIOUS
<1> HIDE DEF dividend, divisor
<1>4. q \in Nat /\ r \in 0 .. divisor - 1 /\ dividend = divisor * q + r
  BY <1>2
<1> HIDE DEF q, r
<1>5. 2 * (q * factor - difference) = factor - r
  <2>1. divisor * q = 2 * (q * factor)
    BY <1>3, <1>4
  <2>2. q * factor \in Nat
    BY <1>4
  <2> QED
    BY <1>2, <1>3, <1>4, <2>1, <2>2
<1>6. 2 * (q * factor - difference) \in -factor .. factor
  BY <1>3, <1>4, <1>5
<1>7. ASSUME ~(q <= difference)
      PROVE  FALSE
  <2>1. PICK more \in Nat : q = difference + 1 + more
    <3>1. q - difference - 1 \in Nat /\ q = difference + 1 + (q - difference - 1)
      BY <1>4, <1>7
    <3> QED
      BY <3>1
  <2>2. PICK less \in Nat : factor = 1 + less
    <3>1. factor - 1 \in Nat /\ factor = 1 + (factor - 1)
      OBVIOUS
    <3> QED
      BY <3>1
  <2>3. q * factor = difference + difference * less + factor + more * factor
    BY <2>1, <2>2
  <2>4. difference * less \in Nat /\ more * factor \in Nat
    BY <2>1, <2>2
  <2>5. q * factor - difference >= factor
    BY <2>3, <2>4
  <2>6. q * factor \in Nat
    BY <1>4
  <2> QED
    BY <1>6, <2>5, <2>6
<1> QED
  BY <1>4, <1>6, <1>7 DEF q, dividend, divisor

\* What a signal's tables may hold of a factor and an offset.
LEMMA ScaleFacts ==
  ASSUME vehicle \in Vehicles, NEW index \in 1 .. Len(vehicle.signals)
  PROVE  LET signal == vehicle.signals[index]
         IN  /\ signal.factor \in Nat \ {0} /\ signal.scale \in Nat \ {0}
             /\ signal.offset \in Int
  BY VehicleAssumption

\* A value that is not below the offset, and that floats tell from its neighbours, is the
\* offset or above it by less than 2^20 units of 1 / scale.
LEMMA ExactFacts ==
  ASSUME NEW signal, signal.scale \in Nat \ {0}, signal.offset \in Int,
         NEW value \in Int, value >= signal.offset, Exact(signal, value)
  PROVE  /\ Difference(signal, value) \in Nat
         /\ Difference(signal, value) < 2 ^ 20
         /\ \A n \in Int : Near(n, signal, value) = {n}
<1> DEFINE offset == signal.offset
           scale  == signal.scale
           size   == (IF value < 0 THEN -value ELSE value) + (IF offset < 0 THEN -offset ELSE offset)
<1>1. /\ scale \in Nat \ {0} /\ offset \in Int
      /\ Difference(signal, value) = (value - offset) * scale
      /\ Magnitude(signal, value) = size * scale
      /\ Magnitude(signal, value) < 2 ^ 20
  BY DEF Difference, Magnitude, Exact
<1>2. \A n \in Int : Near(n, signal, value) = {n}
  <2>1. \A n \in Int : Near(n, signal, value) = n - 0 .. n + 0
    BY DEF Near
  <2>2. \A n \in Int : n - 0 .. n + 0 = {n}
    OBVIOUS
  <2> QED
    BY <2>1, <2>2
<1> HIDE DEF offset, scale
<1>3. PICK rest \in Nat : size = (value - offset) + rest
  <2>1. size - (value - offset) \in Nat /\ size = (value - offset) + (size - (value - offset))
    BY <1>1
  <2> QED
    BY <2>1
<1>4. value - offset \in Nat
  BY <1>1 DEF offset
<1> HIDE DEF size
<1>5. size * scale = (value - offset) * scale + rest * scale
  BY <1>1, <1>3, <1>4
<1>6. (value - offset) * scale \in Nat /\ rest * scale \in Nat
  BY <1>1, <1>3, <1>4
<1>7. 2 ^ 20 \in Nat
  BY PowerDoubles
<1> QED
  BY <1>1, <1>2, <1>5, <1>6, <1>7

\* What a writer makes of the number that was asked for is the word for it.
LEMMA EncodeFacts ==
  ASSUME vehicle \in Vehicles, NEW by, by.signal \in 1 .. Len(vehicle.signals),
         NEW value \in Int, Intended(by) = value,
         NEW word \in encodeCanSignal(vehicle.signals[by.signal], value)
  PROVE  Carries(by, word)
<1> DEFINE signal     == vehicle.signals[by.signal]
           difference == Difference(signal, value)
           nearest    == NearestRaw(signal, value)
<1>1. signal.factor \in Nat \ {0} /\ signal.scale \in Nat \ {0} /\ signal.offset \in Int
  BY ScaleFacts
<1>2. Nearest(by) = nearest
  BY DEF Nearest
<1>3. by.signal # 0
  OBVIOUS
<1>4. PICK raw \in RawWords(signal, value) :
          word = setBitField({}, raw, signal.bitPosition, signal.bitSize)
  BY DEF encodeCanSignal
<1>5. Representable(by) => value >= signal.offset /\ Exact(signal, value)
  BY DEF Representable
<1> HIDE DEF signal
<1>6. ASSUME value >= signal.offset, Exact(signal, value)
      PROVE  raw = Word(nearest)
  <2>1. difference \in Nat /\ \A n \in Int : Near(n, signal, value) = {n}
    BY <1>1, <1>6, ExactFacts
  <2>2. /\ nearest = (2 * difference + signal.factor) \div (2 * signal.factor)
        /\ raw \in IF difference > 0
                   THEN {Word(n) : n \in Near(nearest, signal, value) \cap Nat}
                   ELSE {Word(0)} \cup
                        {Word(n) : n \in {m \in Near(-((-difference) \div signal.factor), signal, value) :
                                             m < 0}}
    BY <1>4 DEF RawWords, NearestRaw
  <2> HIDE DEF difference, nearest
  <2>3. nearest \in Nat /\ nearest <= difference
    BY <1>1, <2>1, <2>2, RawFacts
  <2>4. CASE difference > 0
    <3>1. Near(nearest, signal, value) = {nearest}
      BY <2>1, <2>3
    <3> QED
      BY <2>2, <2>3, <2>4, <3>1
  <2>5. CASE difference = 0
    <3>1. nearest = 0
      BY <2>3, <2>5
    <3>2. -((-difference) \div signal.factor) = 0
      <4>1. 0 \div signal.factor = 0
        BY <1>1
      <4> QED
        BY <2>5, <4>1
    <3>3. Near(0, signal, value) = {0}
      BY <2>1
    <3> QED
      BY <2>2, <2>5, <3>1, <3>2, <3>3
  <2> QED
    BY <2>1, <2>4, <2>5
<1> HIDE DEF nearest
<1>7. Representable(by) => word = setBitField({}, Word(Nearest(by)), signal.bitPosition, signal.bitSize)
  BY <1>2, <1>4, <1>5, <1>6
<1> QED
  BY <1>3, <1>7 DEF Carries, signal

\* A writer that agrees to send has found the signal writable, and made the word that was
\* asked for; the boolean one makes it in any case.
LEMMA WrittenFacts ==
  ASSUME vehicle \in Vehicles, NEW index \in 1 .. Len(vehicle.signals),
         NEW value, valuedouble(value) \in Int,
         NEW writer \in {"booleanWriter", "numberWriter", "stateWriter"}, NEW force,
         NEW outcome \in Written(vehicle.signals[index], value, writer)
  PROVE  LET by == [signal |-> index, value |-> value, writer |-> writer, force |-> force]
         IN  /\ outcome.send => vehicle.signals[index].writable /\ Carries(by, outcome.data)
             /\ writer = "booleanWriter" => Carries(by, outcome.data)
<1> DEFINE signal == vehicle.signals[index]
           by     == [signal |-> index, value |-> value, writer |-> writer, force |-> force]
<1>1. by.signal = index /\ by.value = value /\ by.writer = writer
  OBVIOUS
<1>2. outcome \in Written(signal, value, writer)
  OBVIOUS
<1> HIDE DEF by
<1>3. ASSUME NEW v \in Int, outcome \in Encoded(signal, v), Intended(by) = v
      PROVE  /\ outcome.send => signal.writable
             /\ Carries(by, outcome.data)
  <2>1. /\ outcome.send => signal.writable
        /\ outcome.data \in encodeCanSignal(signal, v)
    BY <1>3 DEF Encoded
  <2>2. outcome.data \in encodeCanSignal(vehicle.signals[by.signal], v)
    BY <1>1, <2>1
  <2> HIDE DEF signal
  <2>3. Carries(by, outcome.data)
    BY <1>1, <1>3, <2>2, EncodeFacts
  <2> QED
    BY <2>1, <2>3
<1>4. CASE writer = "booleanWriter"
  <2>1. Written(signal, value, writer) = booleanWriter(signal, value)
    BY <1>4 DEF Written
  <2> DEFINE v == IF value.type = "true" THEN 1 ELSE 0
  <2>2. outcome \in Encoded(signal, v)
    BY <1>2, <2>1 DEF booleanWriter
  <2>3. Intended(by) = v /\ v \in Int
    BY <1>1, <1>4 DEF Intended
  <2> HIDE DEF v, signal
  <2> QED
    BY <1>3, <2>2, <2>3 DEF by, signal
<1>5. CASE writer = "numberWriter"
  <2>1. Written(signal, value, writer) = numberWriter(signal, value)
    BY <1>5 DEF Written
  <2>2. outcome \in Encoded(signal, valuedouble(value))
    BY <1>2, <2>1 DEF numberWriter
  <2>3. Intended(by) = valuedouble(value)
    BY <1>1, <1>5 DEF Intended
  <2> HIDE DEF signal
  <2> QED
    BY <1>3, <1>5, <2>2, <2>3 DEF by, signal
<1>6. CASE writer = "stateWriter"
  <2>1. Written(signal, value, writer) = stateWriter(signal, value)
    BY <1>6 DEF Written
  <2> DEFINE state == lookupSignalState(value.string, signal)
             found == value.type = "string" /\ state # 0
  <2>2. \/ found /\ outcome \in Encoded(signal, signal.states[state].value)
        \/ outcome = [send |-> FALSE, data |-> {}]
    BY <1>2, <2>1 DEF stateWriter
  <2>3. CASE found /\ outcome \in Encoded(signal, signal.states[state].value)
    <3> DEFINE v == signal.states[state].value
    <3>1. /\ state \in 1 .. Len(signal.states)
          /\ state = CHOOSE i \in 1 .. Len(signal.states) :
                         /\ signal.states[i].name = value.string
                         /\ \A j \in 1 .. i - 1 : signal.states[j].name # value.string
      <4> HIDE DEF signal
      <4> QED
        BY <2>3, StateFacts
    <3>2. Intended(by) = v
      <4>1. Intended(by) = signal.states[CHOOSE i \in 1 .. Len(signal.states) :
                                /\ signal.states[i].name = value.string
                                /\ \A j \in 1 .. i - 1 : signal.states[j].name # value.string].value
        BY <1>1, <1>6 DEF Intended
      <4> HIDE DEF state
      <4> QED
        BY <3>1, <4>1
    <3>3. v \in Int
      <4> HIDE DEF state
      <4> QED
        BY <3>1, VehicleAssumption
    <3>4. outcome \in Encoded(signal, v)
      BY <2>3
    <3> HIDE DEF v, signal
    <3> QED
      BY <1>3, <1>6, <3>2, <3>3, <3>4 DEF by, signal
  <2>4. CASE outcome = [send |-> FALSE, data |-> {}]
    BY <1>6, <2>4
  <2> HIDE DEF found
  <2> QED
    BY <2>2, <2>3, <2>4
<1> QED
  BY <1>4, <1>5, <1>6

-----------------------------------------------------------------------------
(* Steps.                                                                   *)

\* The tables are constant, and with them what may be sent and how.
LEMMA SoundStays ==
  ASSUME vehicle' = vehicle, NEW message
  PROVE  Sound(message)' <=> Sound(message)
  BY DEF Sound, Permitted, Carries, Representable, Nearest, Intended

\* A queue in which nothing is put keeps its messages.
LEMMA QueuesStay ==
  ASSUME QueuesInv, vehicle' = vehicle, sendQueue' = sendQueue
  PROVE  QueuesInv'
  BY SoundStays DEF QueuesInv

\* Frames of the last drain stay those of sound messages.
LEMMA FramesStay ==
  ASSUME FramesInv, UNCHANGED <<vehicle, board, frames>>
  PROVE  FramesInv'
<1>1. OnBus' = OnBus /\ \A message : sendCanMessage(message)' = sendCanMessage(message)
  BY DEF OnBus, sendCanMessage
<1> QED
  BY <1>1, SoundStays DEF FramesInv

\* What is put into a queue, if there is room, keeps the bound and the rest.
LEMMA EnqueueStep ==
  ASSUME QueuesInv, NEW bus, NEW id, NEW data, NEW by,
         Permitted(by), Carries(by, data),
         enqueueCanMessage(bus, id, data, by), vehicle' = vehicle
  PROVE  QueuesInv'
<1>1. CASE sendQueue' = sendQueue
  BY <1>1, QueuesStay
<1>2. CASE HasRoom(sendQueue[bus]) /\ bus \in Bus
  <2> DEFINE m == [id |-> id, data |-> Swapped(data), by |-> by]
             q == sendQueue[bus]
  <2>1. sendQueue' = [sendQueue EXCEPT ![bus] = Append(q, m)]
    BY <1>2 DEF enqueueCanMessage
  <2>2. Sound(m)
    <3>1. m.by = by /\ m.data = Swapped(data)
      OBVIOUS
    <3> HIDE DEF m
    <3> QED
      BY <3>1 DEF Sound
  <2> HIDE DEF m
  <2>3. sendQueue = [b \in Bus |-> sendQueue[b]] /\ IsList(q)
    BY <1>2 DEF QueuesInv
  <2>4. /\ IsList(Append(q, m)) /\ Len(q) \in Nat /\ Len(Append(q, m)) = Len(q) + 1
        /\ \A i \in 1 .. Len(Append(q, m)) :
              Append(q, m)[i] = m \/ (i \in 1 .. Len(q) /\ Append(q, m)[i] = q[i])
    BY <2>3, ListGrows
  <2>5. Len(q) < QueueCapacity /\ QueueCapacity \in Nat
    BY <1>2, WriteAssumption DEF HasRoom
  <2>6. Len(Append(q, m)) <= QueueCapacity
    BY <2>4, <2>5
  <2>7. \A message \in Elements(Append(q, m)) : Sound(message)
    <3>1. \A message \in Elements(q) : Sound(message)
      BY <1>2 DEF QueuesInv
    <3> QED
      BY <2>2, <2>4, <3>1 DEF Elements
  <2>8. /\ sendQueue' = [b \in Bus |-> sendQueue'[b]]
        /\ \A b \in Bus : sendQueue'[b] = IF b = bus THEN Append(q, m) ELSE sendQueue[b]
    BY <1>2, <2>1, <2>3
  <2> HIDE DEF q
  <2>9. ASSUME NEW b \in Bus
        PROVE  /\ IsList(sendQueue'[b]) /\ Len(sendQueue'[b]) <= QueueCapacity
               /\ \A message \in Elements(sendQueue'[b]) : Sound(message)
    <3>1. CASE b = bus
      BY <2>4, <2>6, <2>7, <2>8, <3>1
    <3>2. CASE b # bus
      BY <2>8, <3>2 DEF QueuesInv
    <3> QED
      BY <3>1, <3>2
  <2> QED
    BY <2>8, <2>9, SoundStays DEF QueuesInv, Elements, IsList
<1>3. CASE bus \notin Bus
  <2>1. sendQueue = [b \in Bus |-> sendQueue[b]]
    BY DEF QueuesInv
  <2>2. sendQueue' = sendQueue
    BY <1>3, <2>1 DEF enqueueCanMessage
  <2> QED
    BY <1>1, <2>2
<1> QED
  BY <1>1, <1>2, <1>3 DEF enqueueCanMessage

\* A signal is sent when it is writable or the sending is forced.
LEMMA SignalStep ==
  ASSUME QueuesInv, vehicle \in Vehicles, vehicle' = vehicle,
         NEW index \in 1 .. Len(vehicle.signals), NEW value, valuedouble(value) \in Int,
         NEW writer \in {"booleanWriter", "numberWriter", "stateWriter"},
         NEW force \in BOOLEAN, force = TRUE => writer = "booleanWriter",
         sendCanSignal(index, value, writer, force)
  PROVE  QueuesInv'
<1> DEFINE signal == vehicle.signals[index]
           by     == [signal |-> index, value |-> value, writer |-> writer, force |-> force]
<1>1. PICK outcome \in Written(signal, value, writer) :
          IF force \/ outcome.send
          THEN enqueueCanMessage(signal.bus, signal.id, outcome.data, by)
          ELSE UNCHANGED sendQueue
  BY DEF sendCanSignal
<1>2. /\ outcome.send => signal.writable /\ Carries(by, outcome.data)
      /\ writer = "booleanWriter" => Carries(by, outcome.data)
  BY <1>1, WrittenFacts
<1>3. by.signal = index /\ by.force = force
  OBVIOUS
<1> HIDE DEF by
<1>4. CASE force \/ outcome.send
  <2>1. enqueueCanMessage(signal.bus, signal.id, outcome.data, by)
    BY <1>1, <1>4
  <2>2. Permitted(by) /\ Carries(by, outcome.data)
    BY <1>2, <1>3, <1>4 DEF Permitted
  <2> HIDE DEF signal
  <2> QED
    BY <2>1, <2>2, EnqueueStep
<1>5. CASE ~(force \/ outcome.send)
  <2>1. sendQueue' = sendQueue
    BY <1>1, <1>5
  <2> QED
    BY <2>1, QueuesStay
<1> QED
  BY <1>4, <1>5

\* The writer that receiveTranslatedWriteRequest and requestVIN call.
LEMMA WriterFacts ==
  ASSUME vehicle \in Vehicles, NEW index \in 1 .. Len(vehicle.signals)
  PROVE  Writer(vehicle.signals[index]) \in {"booleanWriter", "numberWriter", "stateWriter"}
  BY VehicleAssumption DEF Writer

\* Whatever a host asks for.
LEMMA HostStep ==
  ASSUME QueuesInv, vehicle \in Vehicles, NEW request \in Requests, receiveWriteRequest(request)
  PROVE  /\ UNCHANGED <<vehicle, board, frames>> /\ QueuesInv'
         /\ requests < MaxRequests /\ requests' = requests + 1
<1>1. /\ requests < MaxRequests /\ requests' = requests + 1
      /\ vehicle' = vehicle /\ board' = board /\ frames' = frames
  BY DEF receiveWriteRequest
<1>2. CASE UNCHANGED sendQueue
  BY <1>1, <1>2, QueuesStay
<1>3. CASE "name" \in DOMAIN request /\ receiveTranslatedWriteRequest(request)
  <2> DEFINE index == lookupWritableSignal(request.name)
  <2>1. index # 0 => index \in 1 .. Len(vehicle.signals)
    BY LookupFacts
  <2> HIDE DEF index
  <2>2. \/ UNCHANGED sendQueue
        \/ /\ index # 0
           /\ sendCanSignal(index, request.value, Writer(vehicle.signals[index]), FALSE)
        \/ handleTurnSignalCommand(request.value)
    BY <1>3 DEF receiveTranslatedWriteRequest, index
  <2>3. CASE /\ index # 0
             /\ sendCanSignal(index, request.value, Writer(vehicle.signals[index]), FALSE)
    <3> DEFINE writer == Writer(vehicle.signals[index])
    <3>1. writer \in {"booleanWriter", "numberWriter", "stateWriter"}
      BY <2>1, <2>3, WriterFacts
    <3>2. valuedouble(request.value) \in Int
      BY <1>3, RequestAssumption
    <3>3. sendCanSignal(index, request.value, writer, FALSE)
      BY <2>3
    <3> HIDE DEF writer
    <3> QED
      BY <1>1, <2>1, <2>3, <3>1, <3>2, <3>3, SignalStep
  <2>4. CASE handleTurnSignalCommand(request.value)
    <3> DEFINE true == [type |-> "true"]
    <3>1. PICK turn : /\ turn # 0 => turn \in 1 .. Len(vehicle.signals)
                      /\ IF turn # 0 THEN sendCanSignal(turn, true, "booleanWriter", TRUE)
                                     ELSE UNCHANGED sendQueue
      BY <2>4, LookupFacts DEF handleTurnSignalCommand
    <3>2. valuedouble(true) \in Int
      BY DEF valuedouble
    <3> HIDE DEF true
    <3>3. CASE turn # 0
      BY <1>1, <3>1, <3>2, <3>3, SignalStep
    <3>4. CASE turn = 0
      BY <1>2, <3>1, <3>4
    <3> QED
      BY <3>3, <3>4
  <2> QED
    BY <1>1, <1>2, <2>2, <2>3, <2>4
<1>4. CASE "id" \in DOMAIN request /\ receiveRawWriteRequest(request)
  <2>1. CASE request.data = Missing
    BY <1>2, <1>4, <2>1 DEF receiveRawWriteRequest
  <2>2. CASE request.data # Missing
    <3> DEFINE data == request.data
               by   == [signal |-> 0, value |-> data]
    <3>1. enqueueCanMessage(1, request.id, data.word, by)
      BY <1>4, <2>2 DEF receiveRawWriteRequest
    <3>2. data = [type |-> "string", word |-> data.word] /\ data.word \subseteq WordBits
      <4>1. data \in [type : {"string"}, word : SUBSET WordBits]
        BY <1>4, <2>2, RequestAssumption
      <4> HIDE DEF data
      <4> QED
        BY <4>1
    <3>3. by.signal = 0 /\ by.value = data
      OBVIOUS
    <3> HIDE DEF data, by
    <3>4. Permitted(by) /\ Carries(by, data.word)
      BY <3>2, <3>3 DEF Permitted, Carries
    <3> QED
      BY <1>1, <3>1, <3>4, EnqueueStep
  <2> QED
    BY <2>1, <2>2
<1>5. \/ "name" \in DOMAIN request /\ receiveTranslatedWriteRequest(request)
      \/ "id" \in DOMAIN request /\ receiveRawWriteRequest(request)
      \/ UNCHANGED sendQueue
  <2>1. CASE "name" \in DOMAIN request
    BY <2>1 DEF receiveWriteRequest
  <2>2. CASE DOMAIN request \cap {"name", "id"} = {"id"}
    <3>1. "name" \notin DOMAIN request /\ DOMAIN request \cap {"name", "id"} # {}
      BY <2>2
    <3>2. "id" \in DOMAIN request
      BY <2>2
    <3> QED
      BY <2>2, <3>1, <3>2 DEF receiveWriteRequest
  <2>3. CASE DOMAIN request \cap {"name", "id"} = {}
    <3>1. "name" \notin DOMAIN request /\ DOMAIN request \cap {"name", "id"} # {"id"}
      BY <2>3
    <3> QED
      BY <2>3, <3>1 DEF receiveWriteRequest
  <2> QED
    BY <2>1, <2>2, <2>3
<1> QED
  BY <1>1, <1>2, <1>3, <1>4, <1>5

\* What the queues hold is what a drain puts on the wire.
LEMMA DrainStep ==
  ASSUME QueuesInv, NEW accepted \in Acceptable, processCanWriteQueue(accepted)
  PROVE  UNCHANGED <<vehicle, board, requests>> /\ QueuesInv' /\ FramesInv'
<1>1. /\ sendQueue' = [b \in Bus |-> <<>>]
      /\ frames' = [b \in Bus |-> {sendCanMessage(sendQueue[b][i]) : i \in accepted[b]}]
      /\ UNCHANGED <<vehicle, board, requests>>
  BY DEF processCanWriteQueue
<1>2. QueuesInv'
  <2>1. IsList(<<>>) /\ Len(<<>>) = 0 /\ QueueCapacity \in Nat
    BY WriteAssumption DEF IsList
  <2>2. Elements(<<>>) = {}
    BY DEF Elements
  <2>3. \A b \in Bus : sendQueue'[b] = <<>>
    BY <1>1
  <2>4. sendQueue' = [b \in Bus |-> sendQueue'[b]]
    BY <1>1
  <2>5. \A b \in Bus : /\ IsList(sendQueue'[b]) /\ Len(sendQueue'[b]) <= QueueCapacity
                       /\ Elements(sendQueue'[b]) = {}
    BY <2>1, <2>2, <2>3
  <2> QED
    BY <2>4, <2>5 DEF QueuesInv, IsList, Elements
<1>3. FramesInv'
  <2>1. ASSUME NEW frame \in OnBus'
        PROVE  \E message : Sound(message) /\ frame = sendCanMessage(message)
    <3>1. PICK b \in Bus : frame \in frames'[b]
      BY DEF OnBus
    <3>2. PICK i \in accepted[b] : frame = sendCanMessage(sendQueue[b][i])
      BY <1>1, <3>1
    <3>3. i \in 1 .. Len(sendQueue[b])
      BY DEF Acceptable
    <3>4. Sound(sendQueue[b][i])
      <4>1. sendQueue[b][i] \in Elements(sendQueue[b])
        BY <3>3 DEF Elements
      <4> QED
        BY <4>1 DEF QueuesInv
    <3> QED
      BY <3>2, <3>4
  <2>2. \A message : sendCanMessage(message)' = sendCanMessage(message)
    BY <1>1 DEF sendCanMessage
  <2> QED
    BY <1>1, <2>1, <2>2, SoundStays DEF FramesInv
<1> QED
  BY <1>1, <1>2, <1>3

-----------------------------------------------------------------------------
(* The invariant.                                                           *)

\* At first all is empty.
LEMMA WriteInit == Init => WriteInv
<1> SUFFICES ASSUME Init
             PROVE  WriteInv
  OBVIOUS
<1>1. /\ vehicle \in Vehicles /\ board \in Boards /\ requests = 0
      /\ sendQueue = [b \in Bus |-> <<>>] /\ frames = [b \in Bus |-> {}]
      /\ pc = "receive" /\ loopCount = 0 /\ mVin = {} /\ answers = {} /\ sent = 0
  BY DEF Init, InitWrite
<1>2. QueueCapacity \in Nat /\ MaxRequests \in Nat /\ Period \in Nat
  BY WriteAssumption, PeriodAssumption
<1>3. ConstantInv
  BY <1>1, <1>2 DEF ConstantInv
<1>4. QueuesInv
  <2>1. IsList(<<>>) /\ Len(<<>>) = 0 /\ Elements(<<>>) = {}
    BY DEF IsList, Elements
  <2>2. sendQueue = [b \in Bus |-> sendQueue[b]] /\ \A b \in Bus : sendQueue[b] = <<>>
    BY <1>1
  <2> QED
    BY <1>2, <2>1, <2>2 DEF QueuesInv
<1>5. FramesInv
  BY <1>1 DEF FramesInv, OnBus
<1>6. VinInv
  BY <1>1, <1>2 DEF VinInv, VinSentOnce, Part
<1> QED
  BY <1>3, <1>4, <1>5, <1>6 DEF WriteInv

\* A part that comes in.
LEMMA PartStep ==
  ASSUME mVin \subseteq Part, VinSentOnce, NEW part \in Part, handleVINMessage(part)
  PROVE  mVin' \subseteq Part /\ VinSentOnce'
<1>1. /\ mVin' = mVin \cup {part} /\ mVin' \subseteq Part
      /\ sent' = IF strlen(mVin') # strlen(mVin) /\ strlen(mVin') = 17 THEN sent + 1 ELSE sent
  BY DEF handleVINMessage
<1>2. /\ strlen(mVin) = 17 <=> mVin = Part
      /\ strlen(mVin') = 17 <=> mVin' = Part
  BY <1>1, Complete
<1>3. mVin = Part => mVin' = Part
  BY <1>1
<1> QED
  BY <1>1, <1>2, <1>3 DEF VinSentOnce

\* Every step keeps the invariant: the queues hold what was asked for and may be sent,
\* the frames come from there, and the parts of the VIN count once.
LEMMA WriteNext == WriteInv /\ [Next]_vars => WriteInv'
<1> SUFFICES ASSUME WriteInv, [Next]_vars
             PROVE  WriteInv'
  OBVIOUS
<1>1. ConstantInv /\ QueuesInv /\ FramesInv /\ VinInv
  BY DEF WriteInv
<1>2. /\ vehicle \in Vehicles /\ board \in Boards /\ requests \in 0 .. MaxRequests
      /\ MaxRequests \in Nat /\ Period \in Nat
      /\ loopCount \in 0 .. Period /\ mVin \subseteq Part /\ answers \subseteq Part /\ VinSentOnce
  BY <1>1, WriteAssumption, PeriodAssumption DEF ConstantInv, VinInv
<1>3. ASSUME UNCHANGED writeVars
      PROVE  ConstantInv' /\ QueuesInv' /\ FramesInv'
  <2>1. UNCHANGED <<vehicle, board, sendQueue, requests, frames>>
    BY <1>3 DEF writeVars
  <2> QED
    BY <1>1, <2>1, QueuesStay, FramesStay DEF ConstantInv
<1>4. ASSUME UNCHANGED <<vehicle, board, frames>>
      PROVE  FramesInv'
  BY <1>1, <1>4, FramesStay
<1>5. CASE UNCHANGED vars
  BY <1>1, <1>3, <1>5 DEF vars, vinVars, VinInv, VinSentOnce, WriteInv
<1>6. CASE receiveCan
  <2>1. pc' = "hosts" /\ UNCHANGED <<writeVars, loopCount>>
    BY <1>6 DEF receiveCan
  <2>2. mVin' \subseteq Part /\ answers' \subseteq Part /\ VinSentOnce'
    <3>1. CASE UNCHANGED <<answers, mVin, sent>>
      BY <1>2, <3>1 DEF VinSentOnce
    <3>2. ASSUME NEW part \in answers, answers' = answers \ {part}, handleVINMessage(part)
          PROVE  mVin' \subseteq Part /\ answers' \subseteq Part /\ VinSentOnce'
      BY <1>2, <3>2, PartStep
    <3> QED
      BY <1>6, <3>1, <3>2 DEF receiveCan
  <2> QED
    BY <1>2, <1>3, <2>1, <2>2 DEF WriteInv, VinInv
<1>7. CASE HostRequest
  <2>1. PICK request \in Requests : receiveWriteRequest(request)
    BY <1>7 DEF HostRequest
  <2>2. UNCHANGED <<pc, vinVars>>
    BY <1>7 DEF HostRequest
  <2>3. /\ UNCHANGED <<vehicle, board, frames>> /\ QueuesInv'
        /\ requests < MaxRequests /\ requests' = requests + 1
    BY <1>1, <1>2, <2>1, HostStep
  <2>4. ConstantInv'
    BY <1>2, <2>3 DEF ConstantInv
  <2>5. VinInv'
    BY <1>1, <2>2 DEF vinVars, VinInv, VinSentOnce
  <2> QED
    BY <1>4, <2>3, <2>4, <2>5 DEF WriteInv
<1>8. CASE HostsRead
  BY <1>1, <1>3, <1>8 DEF HostsRead, vinVars, VinInv, VinSentOnce, WriteInv
<1>9. ASSUME NEW heard \in SUBSET Part, Write(heard)
      PROVE  WriteInv'
  <2>1. PICK accepted \in Acceptable : processCanWriteQueue(accepted)
    BY <1>9 DEF Write
  <2>2. /\ pc' = "custom" /\ UNCHANGED <<loopCount, mVin, sent>>
        /\ answers' \subseteq answers \cup heard
    BY <1>9 DEF Write
  <2>3. UNCHANGED <<vehicle, board, requests>> /\ QueuesInv' /\ FramesInv'
    BY <1>1, <2>1, DrainStep
  <2>4. VinInv'
    BY <1>2, <2>2 DEF VinInv, VinSentOnce
  <2>5. ConstantInv'
    BY <1>2, <2>3 DEF ConstantInv
  <2> QED
    BY <2>3, <2>4, <2>5 DEF WriteInv
<1>10. CASE customLoopHandler
  <2>1. pc' = "receive" /\ UNCHANGED <<vehicle, board, requests, frames, mVin, answers, sent>>
    BY <1>10 DEF customLoopHandler
  <2>2. loopCount' \in 0 .. Period
    <3>1. \/ loopCount >= Period /\ loopCount' = 0
          \/ ~(loopCount >= Period) /\ loopCount' = loopCount + 1
      BY <1>10 DEF customLoopHandler
    <3> QED
      BY <1>2, <3>1
  <2>3. requestVIN \/ UNCHANGED sendQueue
    BY <1>10 DEF customLoopHandler
  <2>4. ASSUME UNCHANGED sendQueue
        PROVE  QueuesInv'
    BY <1>1, <2>1, <2>4, QueuesStay
  <2>5. ASSUME requestVIN
        PROVE  QueuesInv'
    <3> DEFINE index == lookupSignal("service_id")
               value == [type |-> "number", number |-> 2306]
               asks  == sendCanSignal(index, value, Writer(vehicle.signals[index]), FALSE)
    <3>1. index # 0 => index \in 1 .. Len(vehicle.signals)
      BY LookupFacts
    <3>2. IF strlen(mVin) # 17 /\ index # 0 THEN asks ELSE UNCHANGED sendQueue
      BY <2>5, Zenon DEF requestVIN
    <3>3. valuedouble(value) \in Int
      BY DEF valuedouble
    <3> HIDE DEF index, value
    <3>4. vehicle' = vehicle
      BY <2>1
    <3>5. CASE index # 0 /\ asks
      <4> DEFINE writer == Writer(vehicle.signals[index])
      <4>1. /\ QueuesInv /\ vehicle \in Vehicles /\ index \in 1 .. Len(vehicle.signals)
            /\ sendCanSignal(index, value, writer, FALSE)
        BY <1>1, <1>2, <3>1, <3>5
      <4>2. writer \in {"booleanWriter", "numberWriter", "stateWriter"}
        BY <4>1, WriterFacts
      <4> HIDE DEF writer
      <4> QED
        BY <3>4, <3>3, <4>1, <4>2, SignalStep
    <3> HIDE DEF asks
    <3> QED
      BY <2>4, <3>2, <3>5
  <2>6. ConstantInv' /\ VinInv'
    BY <1>2, <2>1, <2>2 DEF ConstantInv, VinInv, VinSentOnce
  <2> QED
    BY <1>4, <2>1, <2>3, <2>4, <2>5, <2>6 DEF WriteInv
<1> QED
  BY <1>5, <1>6, <1>7, <1>8, <1>9, <1>10 DEF Next, LoopStep

\* The inductive invariant holds.
THEOREM WriteInvariant == Spec => []WriteInv
  BY WriteInit, WriteNext, PTL DEF Spec

\* The VIN is handed on exactly once, when its last part has come (handlers.cpp).
THEOREM VinOnce == Spec => []VinSentOnce
<1>1. WriteInv => VinSentOnce
  BY DEF WriteInv, VinInv
<1> QED
  BY <1>1, WriteInvariant, PTL

\* No signal that is not writable gets on a bus, unless a command forces it, whichever
\* part of the program asked for it (canwrite.cpp).
THEOREM PermissionKept == Spec => []WritePermission
<1>1. WriteInv => WritePermission
  <2> SUFFICES ASSUME WriteInv, NEW frame \in OnBus
               PROVE  Permitted(frame.by)
    BY DEF WritePermission, Permitted
  <2>1. PICK message : Sound(message) /\ frame = sendCanMessage(message)
    BY DEF WriteInv, FramesInv
  <2>2. frame.by = message.by
    BY <2>1 DEF sendCanMessage
  <2> QED
    BY <2>1, <2>2 DEF Sound
<1> QED
  BY <1>1, WriteInvariant, PTL

\* The frame of a message on the wire, and the word it carries.
LEMMA FrameFacts ==
  ASSUME WriteInv, NEW frame \in OnBus
  PROVE  /\ vehicle \in Vehicles
         /\ \E word : /\ frame.bytes = copyToMessageBuffer(Swapped(word), board)
                      /\ Carries(frame.by, word)
<1>1. FramesInv /\ vehicle \in Vehicles
  BY DEF WriteInv, ConstantInv
<1>2. PICK message : Sound(message) /\ frame = sendCanMessage(message)
  BY <1>1 DEF FramesInv
<1>3. frame.by = message.by /\ frame.bytes = copyToMessageBuffer(message.data, board)
  BY <1>2 DEF sendCanMessage
<1> QED
  BY <1>1, <1>2, <1>3 DEF Sound

\* The raw value that a field carries, if the signal can hold it.
LEMMA FieldFacts ==
  ASSUME vehicle \in Vehicles, NEW by, NEW word, Carries(by, word),
         by.signal # 0, Representable(by)
  PROVE  LET signal == vehicle.signals[by.signal]
         IN  /\ signal.bitPosition \in Nat /\ signal.bitSize \in 1 .. 63
             /\ signal.bitPosition + signal.bitSize <= 64
             /\ Nearest(by) \in Nat /\ Nearest(by) < 2 ^ 31
             /\ Word(Nearest(by)) \in SUBSET (0 .. signal.bitSize - 1)
             /\ signal.twosComplement => signal.bitSize - 1 \notin Word(Nearest(by))
             /\ word = setBitField({}, Word(Nearest(by)), signal.bitPosition, signal.bitSize)
             /\ 2 * (Nearest(by) * signal.factor - Difference(signal, Intended(by)))
                   \in -signal.factor .. signal.factor
             /\ signal.factor \in Nat /\ signal.scale \in Nat
             /\ signal.offset \in Int /\ Intended(by) \in Int
<1> DEFINE signal     == vehicle.signals[by.signal]
           nearest    == Nearest(by)
           difference == Difference(signal, Intended(by))
<1>1. /\ by.signal \in 1 .. Len(vehicle.signals) /\ Intended(by) \in Int
      /\ word = setBitField({}, Word(nearest), signal.bitPosition, signal.bitSize)
  BY DEF Carries
<1>2. /\ signal.bitPosition \in Nat /\ signal.bitSize \in 1 .. 63
      /\ signal.bitPosition + signal.bitSize <= 64 /\ signal.twosComplement \in BOOLEAN
      /\ signal.factor \in Nat \ {0} /\ signal.scale \in Nat \ {0} /\ signal.offset \in Int
      /\ signal.twosComplement => signal.bitSize < 31
  BY <1>1, VehicleAssumption
<1> DEFINE width == IF signal.twosComplement THEN signal.bitSize - 1 ELSE signal.bitSize
<1>3. /\ Intended(by) >= signal.offset /\ Exact(signal, Intended(by))
      /\ width > 30 \/ nearest < 2 ^ width
  BY DEF Representable
<1>4. nearest = (2 * difference + signal.factor) \div (2 * signal.factor)
  BY DEF Nearest, NearestRaw
<1> HIDE DEF signal, nearest
<1>5. difference \in Nat /\ difference < 2 ^ 20
  BY <1>1, <1>2, <1>3, ExactFacts
<1>6. /\ width \in 0 .. signal.bitSize /\ width \in Nat
      /\ signal.twosComplement => width = signal.bitSize - 1
  BY <1>2
<1> HIDE DEF difference, width
<1>7. /\ nearest \in Nat /\ nearest <= difference
      /\ 2 * (nearest * signal.factor - difference) \in -signal.factor .. signal.factor
  BY <1>2, <1>4, <1>5, RawFacts
<1>8. nearest < 2 ^ 31
  <2>1. 2 ^ 20 <= 2 ^ 31 /\ 2 ^ 20 \in Nat /\ 2 ^ 31 \in Nat
    BY PowerGrows, PowerDoubles
  <2> QED
    BY <1>5, <1>7, <2>1
<1>9. Word(nearest) \subseteq 0 .. width - 1
  <2>1. CASE width > 30
    <3>1. Word(nearest) \subseteq 0 .. 30
      BY <1>7 DEF Word
    <3> QED
      BY <1>6, <2>1, <3>1
  <2>2. CASE nearest < 2 ^ width
    BY <1>6, <1>7, <2>2, DigitsFit
  <2> QED
    BY <1>3, <2>1, <2>2
<1>10. Word(nearest) \in SUBSET (0 .. signal.bitSize - 1)
  BY <1>2, <1>6, <1>9
<1>11. signal.twosComplement => signal.bitSize - 1 \notin Word(nearest)
  BY <1>2, <1>6, <1>9
<1> QED
  BY <1>1, <1>2, <1>7, <1>8, <1>10, <1>11 DEF signal, nearest, difference

\* What goes out on a bus is what was asked for, on both boards: the raw value in the
\* bits of its signal, or the data of a raw write (canwrite.cpp, bitfield.c).
THEOREM RequestsOnTheWire == Spec => []OnTheWire
<1>1. ASSUME WriteInv, NEW frame \in OnBus
      PROVE  IF frame.by.signal = 0
             THEN OnWire(frame.bytes) = {63 - b : b \in frame.by.value.word}
             ELSE LET signal == vehicle.signals[frame.by.signal]
                  IN  Representable(frame.by) =>
                          OnWire(frame.bytes) = {signal.bitPosition + signal.bitSize - 1 - b :
                                                     b \in Word(Nearest(frame.by))}
  <2>1. PICK word : /\ frame.bytes = copyToMessageBuffer(Swapped(word), board)
                    /\ Carries(frame.by, word)
    BY <1>1, FrameFacts
  <2>2. CASE frame.by.signal = 0
    <3>1. frame.by.value.word = word /\ word \in SUBSET WordBits
      BY <2>1, <2>2 DEF Carries
    <3> QED
      BY <2>1, <2>2, <3>1, WireOrder
  <2>3. CASE frame.by.signal # 0 /\ Representable(frame.by)
    <3> DEFINE by     == frame.by
               signal == vehicle.signals[by.signal]
               raw    == Word(Nearest(by))
    <3>1. /\ signal.bitPosition \in Nat /\ signal.bitSize \in Nat
          /\ signal.bitPosition + signal.bitSize <= 64
          /\ raw \in SUBSET (0 .. signal.bitSize - 1)
          /\ word = setBitField({}, raw, signal.bitPosition, signal.bitSize)
      BY <1>1, <2>1, <2>3, FrameFacts, FieldFacts
    <3> HIDE DEF signal, raw
    <3>2. /\ word \in SUBSET WordBits
          /\ {63 - c : c \in word} = {signal.bitPosition + signal.bitSize - 1 - r : r \in raw}
      BY <3>1, FieldOnWire
    <3>3. OnWire(frame.bytes) = {63 - c : c \in word}
      BY <2>1, <3>2, WireOrder
    <3> QED
      BY <2>3, <3>2, <3>3 DEF signal, raw
  <2> QED
    BY <2>2, <2>3
<1>2. WriteInv => OnTheWire
  BY <1>1 DEF OnTheWire
<1> QED
  BY <1>2, WriteInvariant, PTL

\* A unit that reads what was written gets back what was asked for, to within half a unit
\* of the factor, or the very data of a raw write (bitfield.c, canwrite.cpp:108).
THEOREM ReadBack == Spec => []DecodedAsWritten
<1>1. ASSUME WriteInv, NEW frame \in OnBus
      PROVE  LET data == receiveCanMessage(frame.bytes)
             IN  IF frame.by.signal = 0
                 THEN passthroughCanMessage(frame.id, data) =
                         [id |-> frame.id, data |-> frame.by.value]
                 ELSE LET signal == vehicle.signals[frame.by.signal]
                          error  == decodeCanSignal(signal, data) - Intended(frame.by) * signal.scale
                      IN  Representable(frame.by) => 2 * error \in -signal.factor .. signal.factor
  <2>1. PICK word : /\ frame.bytes = copyToMessageBuffer(Swapped(word), board)
                    /\ Carries(frame.by, word)
    BY <1>1, FrameFacts
  <2> DEFINE data == receiveCanMessage(frame.bytes)
  <2>2. ASSUME word \in SUBSET WordBits
        PROVE  data = Swapped(word)
    BY <2>1, <2>2, MessageRead
  <2> HIDE DEF data
  <2>3. CASE frame.by.signal = 0
    <3>1. frame.by.value = [type |-> "string", word |-> word] /\ word \in SUBSET WordBits
      BY <2>1, <2>3 DEF Carries
    <3>2. data = Swapped(word)
      BY <2>2, <3>1
    <3>3. UNION {ShiftLeft(MemoryByte(data, i), 8 * (7 - i)) : i \in 0 .. 7} = word
      BY <3>1, <3>2, BytesTold
    <3>4. passthroughCanMessage(frame.id, data) = [id |-> frame.id, data |-> frame.by.value]
      BY <3>1, <3>3 DEF passthroughCanMessage
    <3> QED
      BY <2>3, <3>4 DEF data
  <2>4. CASE frame.by.signal # 0 /\ Representable(frame.by)
    <3> DEFINE by      == frame.by
               signal  == vehicle.signals[by.signal]
               nearest == Nearest(by)
               raw     == Word(nearest)
    <3>1. /\ signal.bitPosition \in Nat /\ signal.bitSize \in 1 .. 63
          /\ signal.bitPosition + signal.bitSize <= 64
          /\ nearest \in Nat /\ nearest < 2 ^ 31
          /\ raw \in SUBSET (0 .. signal.bitSize - 1)
          /\ signal.twosComplement => signal.bitSize - 1 \notin raw
          /\ word = setBitField({}, raw, signal.bitPosition, signal.bitSize)
          /\ 2 * (nearest * signal.factor - Difference(signal, Intended(by)))
                \in -signal.factor .. signal.factor
          /\ signal.factor \in Nat /\ signal.scale \in Nat
          /\ signal.offset \in Int /\ Intended(by) \in Int
      BY <1>1, <2>1, <2>4, FrameFacts, FieldFacts
    <3> HIDE DEF signal, nearest
    <3>2. Unsigned(raw) = nearest
      BY <3>1, UnsignedWord
    <3> HIDE DEF raw
    <3>3. getBitField(data, signal.bitPosition, signal.bitSize) = raw
      <4> signal.bitSize \in Nat \ {0}
        BY <3>1
      <4>1. word \in SUBSET WordBits
        BY <3>1, FieldOnWire
      <4>2. data = Swapped(word)
        BY <2>2, <4>1
      <4> QED
        BY <3>1, <4>2, FieldRead
    <3>4. signal.twosComplement => Signed(getTwosComplement(raw, signal.bitSize)) = Unsigned(raw)
      <4>1. 63 \notin raw
        BY <3>1
      <4> QED
        BY <3>1, <4>1 DEF getTwosComplement, Signed
    <3>5. decodeCanSignal(signal, data) = nearest * signal.factor + signal.offset * signal.scale
      BY <3>2, <3>3, <3>4 DEF decodeCanSignal
    <3>6. 2 * (decodeCanSignal(signal, data) - Intended(by) * signal.scale)
             \in -signal.factor .. signal.factor
      <4> DEFINE product == nearest * signal.factor
                 shift   == signal.offset * signal.scale
                 scaled  == Intended(by) * signal.scale
      <4>1. product \in Nat /\ shift \in Int /\ scaled \in Int
        BY <3>1
      <4>2. Difference(signal, Intended(by)) = scaled - shift
        BY <3>1 DEF Difference
      <4> HIDE DEF product, shift, scaled
      <4>3. product + shift - scaled = product - (scaled - shift)
        BY <4>1
      <4> QED
        BY <3>1, <3>5, <4>2, <4>3 DEF product, shift, scaled
    <3> QED
      BY <2>4, <3>6 DEF signal, data
  <2> QED
    BY <2>3, <2>4 DEF data
<1>2. WriteInv => DecodedAsWritten
  BY <1>1 DEF DecodedAsWritten
<1> QED
  BY <1>2, WriteInvariant, PTL

\* The queues stay within their bounds.
THEOREM WriteTypeCorrect == Spec => []TypeOK
<1>1. WriteInv => TypeOK
  <2> SUFFICES ASSUME WriteInv
               PROVE  TypeOK
    OBVIOUS
  <2>1. ConstantInv /\ QueuesInv /\ VinInv
    BY DEF WriteInv
  <2>2. QueuesBounded
    BY <2>1 DEF QueuesInv, QueuesBounded
  <2>3. sent \in Nat
    BY <2>1 DEF VinInv, VinSentOnce
  <2> QED
    BY <2>1, <2>2, <2>3 DEF ConstantInv, VinInv, TypeOK
<1> QED
  BY <1>1, WriteInvariant, PTL
================================================================================
