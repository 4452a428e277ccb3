--------------------------- MODULE SequenceLemmas ---------------------------
(***************************************************************************)
(* Facts about queues that the proofs of this project share: how elements  *)
(* move between neighbouring sequences without changing their              *)
(* concatenation, and what a prefix keeps.                                 *)
(***************************************************************************)
EXTENDS Integers, Sequences, SequenceTheorems, TLAPS

-----------------------------------------------------------------------------
(* How bytes move between neighbouring sequences without changing their     *)
(* concatenation.                                                           *)

\* A non-empty sequence is its head followed by its tail.
LEMMA HeadThenTail ==
  ASSUME NEW S, NEW q \in Seq(S), q # <<>>
  PROVE  /\ Head(q) \in S
         /\ Tail(q) \in Seq(S)
         /\ Len(Tail(q)) = Len(q) - 1
         /\ q = <<Head(q)>> \o Tail(q)
<1>1. Head(q) \in S /\ Tail(q) \in Seq(S) /\ Len(Tail(q)) = Len(q) - 1
  BY Len(q) # 0
<1>2. <<Head(q)>> \o Tail(q) \in Seq(S)
  BY <1>1
<1>3. Len(<<Head(q)>> \o Tail(q)) = Len(q)
  BY <1>1
<1>4. \A i \in 1 .. Len(q) : q[i] = (<<Head(q)>> \o Tail(q))[i]
  BY <1>1
<1> QED
  BY <1>1, <1>2, <1>3, <1>4, SeqEqual

\* Moving the head of the right-hand sequence to the end of the left-hand one
\* leaves their concatenation as it was.
LEMMA MoveHead ==
  ASSUME NEW S, NEW p \in Seq(S), NEW q \in Seq(S), q # <<>>
  PROVE  p \o q = Append(p, Head(q)) \o Tail(q)
<1>1. p \o q = p \o (<<Head(q)>> \o Tail(q))
  BY HeadThenTail
<1>2. p \o (<<Head(q)>> \o Tail(q)) = (p \o <<Head(q)>>) \o Tail(q)
  BY HeadThenTail, ConcatAssociative, <<Head(q)>> \in Seq(S)
<1>3. p \o <<Head(q)>> = Append(p, Head(q))
  BY HeadThenTail, AppendIsConcat
<1> QED
  BY <1>1, <1>2, <1>3

\* A sequence with room for one more element does not outgrow its bound.
LEMMA AppendWithRoom ==
  ASSUME NEW S, NEW q \in Seq(S), NEW b \in S, NEW n \in Nat, Len(q) < n
  PROVE  Append(q, b) \in Seq(S) /\ Len(Append(q, b)) <= n
  OBVIOUS

\* Appending to a concatenation is appending to its last part.
LEMMA AppendRight ==
  ASSUME NEW S, NEW p \in Seq(S), NEW q \in Seq(S), NEW b \in S
  PROVE  p \o Append(q, b) = Append(p \o q, b)
<1>1. p \o Append(q, b) = p \o (q \o <<b>>)
  BY AppendIsConcat
<1>2. p \o (q \o <<b>>) = (p \o q) \o <<b>>
  BY ConcatAssociative, <<b>> \in Seq(S)
<1>3. (p \o q) \o <<b>> = Append(p \o q, b)
  BY AppendIsConcat, p \o q \in Seq(S)
<1> QED
  BY <1>1, <1>2, <1>3

\* A concatenation begins with its first part.
LEMMA KeepsPrefix ==
  ASSUME NEW S, NEW p \in Seq(S), NEW q \in Seq(S), NEW n \in 1 .. Len(p)
  PROVE  /\ p \o q \in Seq(S)
         /\ n \in 1 .. Len(p \o q)
         /\ (p \o q)[n] = p[n]
  BY ConcatProperties

\* A sequence of one element is the singleton of that element.
LEMMA Singleton ==
  ASSUME NEW S, NEW s \in Seq(S), Len(s) <= 1, s # <<>>
  PROVE  s[1] \in S /\ s = <<s[1]>>
<1>1. Len(s) = 1
  <2>1. Len(s) \in Nat /\ Len(s) # 0
    BY EmptySeq
  <2> QED
    BY <2>1
<1>2. s[1] \in S
  BY <1>1, ElementOfSeq
<1> DEFINE t == <<s[1]>>
<1>3. t \in Seq(S) /\ Len(t) = Len(s) /\ \A i \in 1 .. Len(s) : s[i] = t[i]
  BY <1>1, <1>2
<1> HIDE DEF t
<1>4. s = t
  BY <1>3, SeqEqual
<1> QED
  BY <1>2, <1>4 DEF t

\* A sequence cut in two is the concatenation of its parts.
LEMMA CutInTwo ==
  ASSUME NEW S, NEW s \in Seq(S), NEW n \in 0 .. Len(s)
  PROVE  /\ SubSeq(s, 1, n) \in Seq(S)
         /\ Len(SubSeq(s, 1, n)) = n
         /\ SubSeq(s, n + 1, Len(s)) \in Seq(S)
         /\ Len(SubSeq(s, n + 1, Len(s))) = Len(s) - n
         /\ s = SubSeq(s, 1, n) \o SubSeq(s, n + 1, Len(s))
<1> DEFINE front == SubSeq(s, 1, n)
           back  == SubSeq(s, n + 1, Len(s))
<1>1. front \in Seq(S) /\ Len(front) = n /\ \A i \in 1 .. n : front[i] = s[i]
  OBVIOUS
<1>2. /\ back \in Seq(S) /\ Len(back) = Len(s) - n
      /\ \A i \in 1 .. Len(s) - n : back[i] = s[n + i]
  OBVIOUS
<1> HIDE DEF front, back
<1>3. /\ front \o back \in Seq(S) /\ Len(front \o back) = Len(s)
      /\ \A i \in 1 .. Len(s) : (front \o back)[i] = s[i]
  <2>1. front \o back \in Seq(S) /\ Len(front \o back) = Len(s)
    BY <1>1, <1>2, ConcatProperties
  <2>2. ASSUME NEW i \in 1 .. Len(s), i <= n
        PROVE  (front \o back)[i] = s[i]
    <3>1. i \in 1 .. n
      BY <2>2
    <3>2. (front \o back)[i] = front[i]
      BY <1>1, <1>2, <3>1, ConcatProperties
    <3> QED
      BY <1>1, <3>1, <3>2
  <2>3. ASSUME NEW i \in 1 .. Len(s), ~(i <= n)
        PROVE  (front \o back)[i] = s[i]
    <3>1. i - n \in 1 .. Len(s) - n /\ n + (i - n) = i
      BY <2>3
    <3>2. (front \o back)[i] = back[i - n]
      BY <1>1, <1>2, <2>3, ConcatProperties
    <3> QED
      BY <1>2, <3>1, <3>2
  <2> QED
    BY <2>1, <2>2, <2>3
<1>4. s = front \o back
  BY <1>3, SeqEqual
<1> QED
  BY <1>1, <1>2, <1>4 DEF front, back
\* What is left of a sequence without its first elements.
LEMMA RestOf ==
  ASSUME NEW S, NEW s \in Seq(S), NEW n \in 0 .. Len(s)
  PROVE  /\ SubSeq(s, n + 1, Len(s)) \in Seq(S)
         /\ Len(SubSeq(s, n + 1, Len(s))) = Len(s) - n
         /\ \A k \in 1 .. Len(s) - n : /\ n + k \in 1 .. Len(s)
                                       /\ SubSeq(s, n + 1, Len(s))[k] = s[n + k]
  OBVIOUS

\* The elements of a concatenation are those of its parts.
LEMMA ConcatElements ==
  ASSUME NEW S, NEW p \in Seq(S), NEW q \in Seq(S)
  PROVE  /\ p \o q \in Seq(S) /\ Len(p \o q) = Len(p) + Len(q)
         /\ \A i \in 1 .. Len(p) : (p \o q)[i] = p[i]
         /\ \A i \in Len(p) + 1 .. Len(p \o q) : /\ i - Len(p) \in 1 .. Len(q)
                                                 /\ (p \o q)[i] = q[i - Len(p)]
  OBVIOUS

\* The first element of a sequence.
LEMMA FirstElement ==
  ASSUME NEW S, NEW s \in Seq(S), s # <<>>
  PROVE  Len(s) \in Nat /\ Len(s) > 0 /\ Head(s) = s[1] /\ s[1] \in S
  OBVIOUS

\* Without its first element a sequence is what comes from its second on.
LEMMA TailIsRest ==
  ASSUME NEW S, NEW s \in Seq(S), s # <<>>
  PROVE  Tail(s) = SubSeq(s, 2, Len(s))
<1>1. Len(s) \in Nat /\ Len(s) # 0
  OBVIOUS
<1>2. /\ Tail(s) \in Seq(S) /\ Len(Tail(s)) = Len(s) - 1
      /\ \A i \in 1 .. Len(s) - 1 : Tail(s)[i] = s[i + 1]
  BY <1>1
<1> DEFINE t == SubSeq(s, 2, Len(s))
<1>3. /\ t \in Seq(S) /\ Len(t) = Len(s) - 1
      /\ \A i \in 1 .. Len(s) - 1 : t[i] = s[i + 1]
  <2>1. 1 \in 0 .. Len(s) /\ 1 + 1 = 2
    BY <1>1
  <2>2. /\ t \in Seq(S) /\ Len(t) = Len(s) - 1
        /\ \A i \in 1 .. Len(s) - 1 : t[i] = s[1 + i]
    BY <2>1, RestOf
  <2> HIDE DEF t
  <2> QED
    BY <1>1, <2>2
<1> HIDE DEF t
<1>4. t = Tail(s)
  BY <1>1, <1>2, <1>3, SeqEqual
<1> QED
  BY <1>4 DEF t

=============================================================================
