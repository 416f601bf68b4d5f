----------------------------- MODULE SequenceFacts -----------------------------
(***************************************************************************)
(* Facts about sequences whose elements have no set of their own, such as  *)
(* frames that carry payloads of several types.                            *)
(***************************************************************************)
EXTENDS Integers, Sequences, SequencesExt, SequenceTheorems, WellFoundedInduction, TLAPS

\* A sequence of whatever its elements are.
IsSeq(s) == s \in Seq(ToSet(s))

\* Its positions, and the sets it is a sequence over.
LEMMA SeqFacts ==
  ASSUME NEW s, IsSeq(s)
  PROVE  /\ Len(s) \in Nat /\ DOMAIN s = 1..Len(s)
         /\ s \o <<>> = s
         /\ \A S : (\A i \in 1..Len(s) : s[i] \in S) => s \in Seq(S)
<1>1. Len(s) \in Nat /\ DOMAIN s = 1..Len(s)
  BY DEF IsSeq
<1>2. s \o <<>> = s
  BY DEF IsSeq
<1>3. s \in [1..Len(s) -> ToSet(s)]
  BY DEF IsSeq
<1>4. ASSUME NEW S, \A i \in 1..Len(s) : s[i] \in S
      PROVE  s \in Seq(S)
  <2>1. s \in [1..Len(s) -> S]
    BY <1>3, <1>4
  <2> QED
    BY <1>1, <2>1, SeqDef
<1> QED
  BY <1>1, <1>2, <1>4

\* Any sequence is one over the set of its elements.
LEMMA SeqIsSeq ==
  ASSUME NEW S, NEW s \in Seq(S)
  PROVE  IsSeq(s)
<1>1. s \in [1..Len(s) -> S] /\ Len(s) \in Nat
  OBVIOUS
<1>2. s \in [1..Len(s) -> ToSet(s)]
  BY <1>1 DEF ToSet
<1> QED
  BY <1>1, <1>2, SeqDef DEF IsSeq

\* The empty sequence.
LEMMA SeqEmpty == IsSeq(<<>>) /\ DOMAIN <<>> = {} /\ Len(<<>>) = 0
<1>1. <<>> \in Seq({}) /\ Len(<<>>) = 0
  OBVIOUS
<1>2. IsSeq(<<>>)
  BY <1>1, SeqIsSeq
<1> QED
  BY <1>1, <1>2

\* Concatenation keeps the elements of both.
LEMMA SeqConcat ==
  ASSUME NEW s, NEW t, IsSeq(s), IsSeq(t)
  PROVE  /\ IsSeq(s \o t) /\ Len(s \o t) = Len(s) + Len(t)
         /\ \A i \in 1..Len(s) : (s \o t)[i] = s[i]
         /\ \A i \in 1..Len(t) : (s \o t)[Len(s) + i] = t[i]
<1> DEFINE S == ToSet(s) \cup ToSet(t)
<1>1. s \in Seq(S) /\ t \in Seq(S)
  BY SeqFacts DEF ToSet
<1> HIDE DEF S
<1>2. s \o t \in Seq(S)
  BY <1>1
<1>3. IsSeq(s \o t)
  BY <1>2, SeqIsSeq
<1> QED
  BY <1>1, <1>3, ConcatProperties

\* Appending keeps the elements and adds one.
LEMMA SeqAppend ==
  ASSUME NEW s, NEW e, IsSeq(s)
  PROVE  /\ IsSeq(Append(s, e)) /\ Len(Append(s, e)) = Len(s) + 1
         /\ \A i \in 1..Len(s) : Append(s, e)[i] = s[i]
         /\ Append(s, e)[Len(s) + 1] = e
<1> DEFINE S == ToSet(s) \cup {e}
<1>1. s \in Seq(S) /\ e \in S
  BY SeqFacts DEF ToSet
<1> HIDE DEF S
<1>2. Append(s, e) \in Seq(S)
  BY <1>1
<1>3. IsSeq(Append(s, e))
  BY <1>2, SeqIsSeq
<1> QED
  BY <1>1, <1>3, AppendProperties

\* Appending to the second part appends to the whole.
LEMMA ConcatAppend ==
  ASSUME NEW s, NEW t, NEW e, IsSeq(s), IsSeq(t)
  PROVE  s \o Append(t, e) = Append(s \o t, e)
<1> DEFINE S == ToSet(s) \cup ToSet(t) \cup {e}
<1>1. s \in Seq(S) /\ t \in Seq(S) /\ e \in S
  BY SeqFacts DEF ToSet
<1> QED
  BY <1>1

\* Taking the head away moves the others up.
LEMMA SeqTail ==
  ASSUME NEW s, IsSeq(s), s # <<>>
  PROVE  /\ IsSeq(Tail(s)) /\ Len(Tail(s)) = Len(s) - 1 /\ Len(s) \in Nat \ {0}
         /\ \A i \in 1..Len(Tail(s)) : Tail(s)[i] = s[i + 1]
         /\ Head(s) = s[1]
<1>1. Tail(s) \in Seq(ToSet(s))
  BY DEF IsSeq
<1>2. IsSeq(Tail(s))
  BY <1>1, SeqIsSeq
<1> QED
  BY <1>2 DEF IsSeq
\* The positions of the longer sequence.
LEMMA AppendDomain ==
  ASSUME NEW rs, NEW f, IsSeq(rs)
  PROVE  /\ DOMAIN Append(rs, f) = DOMAIN rs \cup {Len(rs) + 1} /\ IsSeq(Append(rs, f))
         /\ Len(rs) + 1 \in Nat
         /\ \A i \in DOMAIN rs : Append(rs, f)[i] = rs[i] /\ i \in Nat /\ i < Len(rs) + 1
         /\ Append(rs, f)[Len(rs) + 1] = f
<1>1. Len(rs) \in Nat /\ DOMAIN rs = 1..Len(rs)
  BY SeqFacts
<1>2. /\ IsSeq(Append(rs, f)) /\ Len(Append(rs, f)) = Len(rs) + 1
      /\ \A i \in 1..Len(rs) : Append(rs, f)[i] = rs[i]
      /\ Append(rs, f)[Len(rs) + 1] = f
  BY SeqAppend
<1>3. DOMAIN Append(rs, f) = 1..(Len(rs) + 1)
  BY <1>2, SeqFacts
<1> QED
  BY <1>1, <1>2, <1>3

\* The positions of what is behind the head.
LEMMA TailDomain ==
  ASSUME NEW s, IsSeq(s), s # <<>>
  PROVE  /\ IsSeq(Tail(s)) /\ 1 \in DOMAIN s /\ Head(s) = s[1]
         /\ \A i \in DOMAIN Tail(s) : i \in Nat /\ i + 1 \in DOMAIN s /\ Tail(s)[i] = s[i + 1] /\ 1 < i + 1
         /\ \A i \in DOMAIN s :
              i \in Nat /\ 1 <= i /\ (i # 1 => 1 < i /\ i - 1 \in DOMAIN Tail(s) /\ Tail(s)[i - 1] = s[i])
<1>1. /\ IsSeq(Tail(s)) /\ Len(Tail(s)) = Len(s) - 1 /\ Len(s) \in Nat \ {0} /\ Head(s) = s[1]
      /\ \A i \in 1..Len(Tail(s)) : Tail(s)[i] = s[i + 1]
  BY SeqTail
<1>2. DOMAIN s = 1..Len(s) /\ DOMAIN Tail(s) = 1..Len(Tail(s))
  BY <1>1, SeqFacts
<1> DEFINE t == Tail(s)
           n == Len(s)
<1>3. DOMAIN s = 1..n /\ DOMAIN t = 1..(n - 1) /\ n \in Nat \ {0}
  BY <1>1, <1>2
<1>4. \A i \in 1..(n - 1) : t[i] = s[i + 1]
  BY <1>1
<1> HIDE DEF t, n
<1>5. \A i \in DOMAIN t : i \in Nat /\ i + 1 \in DOMAIN s /\ t[i] = s[i + 1] /\ 1 < i + 1
  BY <1>3, <1>4
<1>6. \A i \in DOMAIN s :
        i \in Nat /\ 1 <= i /\ (i # 1 => 1 < i /\ i - 1 \in DOMAIN t /\ t[i - 1] = s[i])
  BY <1>3, <1>4
<1>7. 1 \in DOMAIN s
  BY <1>3
<1> QED
  BY <1>1, <1>5, <1>6, <1>7, Zenon DEF t

\* Every set of naturals has a least element.
LEMMA LeastNat ==
  ASSUME NEW T, T \subseteq Nat, T # {}
  PROVE  \E n \in T : \A m \in T : n <= m
<1> DEFINE R == OpToRel(<, Nat)
<1>1. IsWellFoundedOn(R, Nat)
  BY NatLessThanWellFounded
<1>2. R = {ss \in Nat \X Nat : ss[1] < ss[2]}
  BY Zenon DEF OpToRel
<1> HIDE DEF R
<1>3. \E x \in T : \A y \in T : ~(<<y, x>> \in R)
  BY <1>1, WFMin
<1>4. PICK x \in T : \A y \in T : ~(<<y, x>> \in R)
  BY <1>3
<1>5. ASSUME NEW m \in T
      PROVE  x <= m
  <2>1. x \in Nat /\ m \in Nat /\ ~(<<m, x>> \in R)
    BY <1>4
  <2>2. ~(m < x)
    BY <1>2, <2>1
  <2> QED
    BY <2>1, <2>2
<1> QED
  BY <1>5

\* Induction over the naturals, for the members of a set.
LEMMA SetInduction ==
  ASSUME NEW T, 0 \in T, \A n \in Nat : n \in T => n + 1 \in T
  PROVE  \A n \in Nat : n \in T
<1> SUFFICES ASSUME NEW n \in Nat, n \notin T PROVE FALSE
  OBVIOUS
<1> DEFINE B == {k \in Nat : k \notin T}
<1>1. PICK k \in B : \A m \in B : k <= m
  BY LeastNat
<1>2. k # 0 /\ k - 1 \in Nat /\ k - 1 \notin B
  BY <1>1
<1>3. k - 1 \in T
  BY <1>2
<1> QED
  BY <1>1, <1>2, <1>3
================================================================================
