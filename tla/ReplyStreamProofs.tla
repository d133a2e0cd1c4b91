-------------------------- MODULE ReplyStreamProofs --------------------------
(***************************************************************************)
(* Machine-checked proofs about ReplyStream, for any number of items,      *)
(* deltas, fragments and retries; and, at the end, about EventQueue, the   *)
(* channel on which what a turn shows reaches the consumers of a session.  *)
(***************************************************************************)
EXTENDS ReplyStream, SequenceTheorems, WellFoundedInduction, TLAPS

-----------------------------------------------------------------------------
(* Lists.  What is said of a list put together from lists is shown by      *)
(* induction on its length: a set of numbers that holds 0, and with each   *)
(* number the next, holds them all.                                        *)

\* A set of numbers that is not empty has a least one.
LEMMA LeastNat ==
  ASSUME NEW T, T \subseteq Nat, T # {}
  PROVE  \E x \in T : \A y \in T : x <= y
<1> DEFINE R == {ss \in Nat \X Nat : ss[1] < ss[2]}
<1>1. IsWellFoundedOn(R, Nat)
  BY NatLessThanWellFounded, Zenon DEF OpToRel
<1> HIDE DEF R
<1>2. PICK x \in T : \A y \in T : ~ (<<y, x>> \in R)
  BY <1>1, WFMin
<1>3. ASSUME NEW y \in T PROVE x <= y
  <2>1. x \in Nat /\ y \in Nat
    OBVIOUS
  <2>2. ~(y < x)
    BY <1>2, <2>1 DEF R
  <2> QED BY <2>1, <2>2
<1> QED BY <1>3

\* A set that holds 0, and with each number the next, holds them all: the
\* induction that the lemmas about lists use.
LEMMA SetInduction ==
  ASSUME NEW S, 0 \in S, \A n \in Nat : n \in S => n + 1 \in S
  PROVE  Nat \subseteq S
<1> DEFINE T == Nat \ S
<1> SUFFICES ASSUME T # {} PROVE FALSE
  OBVIOUS
<1> HIDE DEF T
<1>1. PICK x \in T : \A y \in T : x <= y
  BY LeastNat DEF T
<1>2. x \in Nat /\ x # 0 /\ x \notin S
  BY DEF T
<1>3. x - 1 \in Nat /\ ~(x <= x - 1) /\ (x - 1) + 1 = x
  BY <1>2
<1>4. x - 1 \in S
  BY <1>1, <1>3 DEF T
<1> QED BY <1>2, <1>3, <1>4

\* A set that holds the empty sequence, and with each sequence those that are
\* one longer, holds them all.
LEMMA SequenceInduction ==
  ASSUME NEW A, NEW T, <<>> \in T,
         \A s \in Seq(A), e \in A : s \in T => Append(s, e) \in T
  PROVE  Seq(A) \subseteq T
<1> DEFINE S == {n \in Nat : \A s \in Seq(A) : Len(s) = n => s \in T}
<1>1. 0 \in S
  BY EmptySeq
<1>2. ASSUME NEW n \in Nat, n \in S PROVE n + 1 \in S
  <2> SUFFICES ASSUME NEW s \in Seq(A), Len(s) = n + 1 PROVE s \in T
    OBVIOUS
  <2>1. PICK t \in Seq(A), e \in A : s = Append(t, e)
    <3>1. s # <<>>
      BY EmptySeq
    <3> QED BY <3>1, SequenceEmptyOrAppend
  <2>2. Len(t) = n
    <3>1. Len(s) = Len(t) + 1 /\ Len(t) \in Nat
      BY <2>1, AppendProperties, LenProperties
    <3> QED BY <3>1
  <2> QED BY <1>2, <2>1, <2>2
<1>3. Nat \subseteq S
  <2> HIDE DEF S
  <2> QED BY <1>1, <1>2, SetInduction
<1> QED BY <1>3, LenProperties

\* The laws of joining lists.
LEMMA ListLaws ==
  ASSUME NEW A
  PROVE  /\ <<>> \in Seq(A)
         /\ \A s, t \in Seq(A) : s \o t \in Seq(A)
         /\ \A s \in Seq(A) : s \o <<>> = s /\ <<>> \o s = s
         /\ \A s, t, u \in Seq(A) : (s \o t) \o u = s \o (t \o u)
<1>1. <<>> \in Seq(A)
  BY EmptySeq
<1>2. \A s, t \in Seq(A) : s \o t \in Seq(A)
  BY ConcatProperties
<1>3. \A s \in Seq(A) : s \o <<>> = s /\ <<>> \o s = s
  BY ConcatEmptySeq
<1>4. \A s, t, u \in Seq(A) : (s \o t) \o u = s \o (t \o u)
  BY ConcatAssociative
<1> QED BY <1>1, <1>2, <1>3, <1>4

\* What FlattenSeq defines exists, and is computed list by list.
LEMMA FlattenEquation ==
  ASSUME NEW T, NEW c \in Seq(T), \A s, t \in T : s \o t \in T,
         <<>> \in T, \A s \in T : <<>> \o s = s
  PROVE  \E f \in [0..Len(c) -> T] :
           /\ f[0] = <<>>
           /\ \A i \in 1..Len(c) : f[i] = f[i - 1] \o c[i]
           /\ FlattenSeq(c) = f[Len(c)]
<1>1. Len(c) \in Nat /\ \A i \in 1..Len(c) : c[i] \in T
  BY LenProperties, ElementOfSeq
<1> DEFINE Adds(f, n) ==
             f = [i \in 1..n |-> IF i = 1 THEN c[i] ELSE f[i - 1] \o c[i]]
           S == {n \in Nat : n <= Len(c) =>
                   \E f \in [1..n -> T] : Adds(f, n)}
<1>2. 0 \in S
  <2> DEFINE f == [i \in 1..0 |-> <<>>]
  <2>1. f \in [1..0 -> T]
    OBVIOUS
  <2>2. Adds(f, 0)
    OBVIOUS
  <2> QED BY <2>1, <2>2
<1>3. ASSUME NEW n \in Nat, n \in S PROVE n + 1 \in S
  <2> HIDE DEF Adds
  <2> SUFFICES ASSUME n + 1 <= Len(c)
               PROVE  \E f \in [1..n + 1 -> T] : Adds(f, n + 1)
    OBVIOUS
  <2>1. n <= Len(c) /\ n + 1 \in 1..Len(c)
    BY <1>1
  <2>2. PICK f \in [1..n -> T] : Adds(f, n)
    BY <1>3, <2>1
  <2> USE DEF Adds
  <2> DEFINE last == IF n = 0 THEN c[1] ELSE f[n] \o c[n + 1]
             g == [i \in 1..n + 1 |-> IF i <= n THEN f[i] ELSE last]
  <2>3. last \in T
    BY <1>1, <2>1, <2>2
  <2>4. \A i \in 1..n + 1 : i <= n => i \in 1..n
    OBVIOUS
  <2>5. g \in [1..n + 1 -> T]
    BY <2>3, <2>4
  <2>6. ASSUME NEW i \in 1..n + 1
        PROVE  g[i] = IF i = 1 THEN c[i] ELSE g[i - 1] \o c[i]
    <3>1. CASE i = n + 1
      <4>1. n # 0 => i # 1 /\ i - 1 = n /\ n \in 1..n + 1
        BY <3>1
      <4>2. n = 0 => i = 1
        BY <3>1
      <4>3. g[i] = last /\ (n # 0 => g[n] = f[n])
        BY <3>1, <4>1
      <4> QED BY <3>1, <4>1, <4>2, <4>3
    <3>2. CASE i <= n
      <4>1. i \in 1..n /\ (i # 1 => i - 1 \in 1..n + 1 /\ i - 1 <= n)
        BY <3>2
      <4>2. f[i] = IF i = 1 THEN c[i] ELSE f[i - 1] \o c[i]
        BY <2>2, <4>1
      <4> QED BY <3>2, <4>1, <4>2
    <3> QED BY <3>1, <3>2
  <2>7. Adds(g, n + 1)
    BY <2>6
  <2> HIDE DEF g, Adds
  <2> QED BY <2>5, <2>7
<1>4. Nat \subseteq S
  <2> HIDE DEF S
  <2> QED BY <1>2, <1>3, SetInduction
<1>5. PICK f \in [1..Len(c) -> T] : Adds(f, Len(c))
  <2> HIDE DEF Adds
  <2> QED BY <1>1, <1>4
<1> DEFINE flatten == CHOOSE g : Adds(g, Len(c))
<1>6. Adds(flatten, Len(c))
  <2> HIDE DEF Adds
  <2> QED BY <1>5
<1>7. FlattenSeq(c) = IF Len(c) = 0 THEN c ELSE flatten[Len(c)]
  BY DEF FlattenSeq
<1>8. \A i \in 1..Len(c) :
        flatten[i] = IF i = 1 THEN c[i] ELSE flatten[i - 1] \o c[i]
  <2> HIDE DEF flatten
  <2> QED BY <1>6
<1> HIDE DEF flatten, Adds
<1> DEFINE g == [i \in 0..Len(c) |-> IF i = 0 THEN <<>> ELSE flatten[i]]
           U == {n \in Nat : n <= Len(c) => g[n] \in T}
<1>9. g[0] = <<>>
  BY <1>1
<1>10. ASSUME NEW i \in 1..Len(c), g[i - 1] \in T
       PROVE  g[i] = g[i - 1] \o c[i]
  <2>1. i \in 0..Len(c) /\ i - 1 \in 0..Len(c) /\ i # 0
        /\ (i - 1 = 0 <=> i = 1)
    BY <1>1
  <2>2. g[i] = flatten[i]
    BY <2>1
  <2>3. CASE i = 1
    <3>1. g[i - 1] = <<>>
      BY <2>1, <2>3
    <3>2. c[i] \in T
      BY <1>1
    <3>3. flatten[i] = c[i]
      BY <1>8, <2>3
    <3> QED BY <2>2, <3>1, <3>2, <3>3
  <2>4. CASE i # 1
    <3>1. g[i - 1] = flatten[i - 1]
      BY <2>1, <2>4
    <3>2. flatten[i] = flatten[i - 1] \o c[i]
      BY <1>8, <2>4
    <3> QED BY <2>2, <3>1, <3>2
  <2> QED BY <2>3, <2>4
<1>11. Nat \subseteq U
  <2>1. 0 \in U
    BY <1>9
  <2>2. ASSUME NEW n \in Nat, n \in U PROVE n + 1 \in U
    <3> SUFFICES ASSUME n + 1 <= Len(c) PROVE g[n + 1] \in T
      OBVIOUS
    <3>1. n + 1 \in 1..Len(c) /\ n <= Len(c) /\ (n + 1) - 1 = n
      BY <1>1
    <3>2. g[n] \in T
      BY <2>2, <3>1
    <3> HIDE DEF g
    <3>3. g[n + 1] = g[n] \o c[n + 1]
      BY <1>10, <3>1, <3>2
    <3> QED BY <1>1, <3>1, <3>2, <3>3
  <2> HIDE DEF U
  <2> QED BY <2>1, <2>2, SetInduction
<1>12. \A n \in 0..Len(c) : g[n] \in T
  <2> HIDE DEF g
  <2> QED BY <1>11, <1>1
<1>13. g \in [0..Len(c) -> T]
  BY <1>12
<1>14. \A i \in 1..Len(c) : g[i] = g[i - 1] \o c[i]
  <2>1. \A i \in 1..Len(c) : i - 1 \in 0..Len(c)
    BY <1>1
  <2> HIDE DEF g
  <2> QED BY <1>10, <1>12, <2>1
<1>15. FlattenSeq(c) = g[Len(c)]
  <2>1. CASE Len(c) = 0
    <3>1. c = <<>>
      BY <2>1, EmptySeq
    <3> QED BY <1>7, <1>9, <2>1, <3>1
  <2>2. CASE Len(c) # 0
    <3>1. Len(c) \in 0..Len(c)
      BY <1>1
    <3> QED BY <1>7, <2>2, <3>1
  <2> QED BY <2>1, <2>2
<1> HIDE DEF g
<1> QED BY <1>9, <1>13, <1>14, <1>15

\* What FlattenSeq makes of lists is a list, and a list more is added to it.
LEMMA FlattenOfAppend ==
  ASSUME NEW A, NEW c \in Seq(Seq(A)), NEW x \in Seq(A)
  PROVE  /\ FlattenSeq(<<>>) = <<>>
         /\ FlattenSeq(c) \in Seq(A)
         /\ FlattenSeq(Append(c, x)) = FlattenSeq(c) \o x
<1> DEFINE T == Seq(A)
           d == Append(c, x)
<1>1. /\ d \in Seq(T) /\ Len(d) = Len(c) + 1 /\ Len(c) \in Nat
      /\ d[Len(c) + 1] = x /\ \A i \in 1..Len(c) : d[i] = c[i]
  BY AppendProperties, LenProperties
<1>2. /\ <<>> \in T /\ \A s, t \in T : s \o t \in T
      /\ \A s \in T : <<>> \o s = s
  BY ListLaws
<1> HIDE DEF d, T
<1>3. c \in Seq(T) /\ <<>> \in Seq(T) /\ Len(<<>>) = 0
  BY EmptySeq DEF T
<1>4. PICK f \in [0..Len(c) -> T] :
        /\ f[0] = <<>>
        /\ \A i \in 1..Len(c) : f[i] = f[i - 1] \o c[i]
        /\ FlattenSeq(c) = f[Len(c)]
  BY <1>2, <1>3, FlattenEquation
<1>5. PICK g \in [0..Len(d) -> T] :
        /\ g[0] = <<>>
        /\ \A i \in 1..Len(d) : g[i] = g[i - 1] \o d[i]
        /\ FlattenSeq(d) = g[Len(d)]
  BY <1>1, <1>2, FlattenEquation
<1>6. PICK h \in [0..Len(<<>>) -> T] :
        h[0] = <<>> /\ FlattenSeq(<<>>) = h[Len(<<>>)]
  BY <1>2, <1>3, FlattenEquation
<1> DEFINE S == {n \in Nat : n <= Len(c) => f[n] = g[n]}
<1>7. 0 \in S
  BY <1>4, <1>5
<1>8. ASSUME NEW n \in Nat, n \in S PROVE n + 1 \in S
  <2> SUFFICES ASSUME n + 1 <= Len(c) PROVE f[n + 1] = g[n + 1]
    OBVIOUS
  <2>1. /\ n + 1 \in 1..Len(c) /\ n + 1 \in 1..Len(d) /\ n <= Len(c)
        /\ (n + 1) - 1 = n
    BY <1>1
  <2>2. f[n + 1] = f[n] \o c[n + 1]
    BY <1>4, <2>1
  <2>3. g[n + 1] = g[n] \o c[n + 1]
    BY <1>1, <1>5, <2>1
  <2> QED BY <1>8, <2>1, <2>2, <2>3
<1>9. f[Len(c)] = g[Len(c)]
  <2>1. Nat \subseteq S
    <3> HIDE DEF S
    <3> QED BY <1>7, <1>8, SetInduction
  <2>2. Len(c) \in S
    BY <1>1, <2>1
  <2> QED BY <2>2
<1>10. Len(d) \in 1..Len(d) /\ Len(d) - 1 = Len(c) /\ Len(c) \in 0..Len(c)
  BY <1>1
<1>11. FlattenSeq(d) = g[Len(c)] \o x
  BY <1>1, <1>5, <1>10
<1>12. FlattenSeq(c) \in T
  BY <1>4, <1>10
<1> QED BY <1>3, <1>4, <1>6, <1>9, <1>11, <1>12 DEF d, T

-----------------------------------------------------------------------------
(* A list whose entries are each told as a list: g says what one entry is  *)
(* told as.                                                                *)

Told(g, s) == FlattenSeq([i \in DOMAIN s |-> g[s[i]]])

\* g tells each member of B as a list over A.
Tells(g, B, A) == g \in [B -> Seq(A)]

\* What is told of no entry, and of a list with an entry more.
LEMMA ToldOfAppend ==
  ASSUME NEW A, NEW B, NEW g \in [B -> Seq(A)], NEW s \in Seq(B), NEW e \in B
  PROVE  /\ Told(g, <<>>) = <<>>
         /\ Told(g, s) \in Seq(A)
         /\ Told(g, Append(s, e)) = Told(g, s) \o g[e]
<1> DEFINE c == [i \in DOMAIN s |-> g[s[i]]]
           t == Append(s, e)
           d == [i \in DOMAIN t |-> g[t[i]]]
<1>1. /\ Len(s) \in Nat /\ DOMAIN s = 1..Len(s)
      /\ \A i \in 1..Len(s) : s[i] \in B
  BY LenProperties, ElementOfSeq
<1>2. /\ t \in Seq(B) /\ DOMAIN t = 1..Len(s) + 1
      /\ t[Len(s) + 1] = e /\ \A i \in 1..Len(s) : t[i] = s[i]
  BY <1>1, AppendProperties, LenProperties
<1> HIDE DEF t
<1>3. c \in [1..Len(s) -> Seq(A)] /\ Len(c) = Len(s)
  BY <1>1
<1>4. c \in Seq(Seq(A))
  BY <1>1, <1>3, SeqDef
<1>5. /\ DOMAIN d = 1..Len(s) + 1 /\ d[Len(s) + 1] = g[e]
      /\ \A i \in 1..Len(s) : d[i] = c[i]
  <2>1. \A i \in 1..Len(s) : i \in 1..Len(s) + 1 /\ i \in DOMAIN s
    BY <1>1
  <2>2. Len(s) + 1 \in 1..Len(s) + 1
    BY <1>1
  <2> QED BY <1>2, <2>1, <2>2
<1>6. d = Append(c, g[e])
  <2>1. g[e] \in Seq(A)
    OBVIOUS
  <2> DEFINE u == Append(c, g[e])
  <2>2. /\ u \in Seq(Seq(A)) /\ Len(u) = Len(s) + 1 /\ u[Len(s) + 1] = g[e]
        /\ \A i \in 1..Len(s) : u[i] = c[i]
    <3> HIDE DEF c
    <3> QED BY <1>3, <1>4, <2>1, AppendProperties
  <2> HIDE DEF c, u
  <2>3. \A i \in 1..Len(s) + 1 : d[i] = u[i]
    <3>1. \A i \in 1..Len(s) + 1 : i \in 1..Len(s) \/ i = Len(s) + 1
      BY <1>1
    <3> HIDE DEF d
    <3> QED BY <1>5, <2>2, <3>1
  <2>4. DOMAIN u = 1..Len(s) + 1 /\ u \in [1..Len(s) + 1 -> Seq(A)]
    BY <2>2, LenProperties
  <2>5. d \in [1..Len(s) + 1 -> Seq(A)]
    <3> HIDE DEF d
    <3>1. \A i \in 1..Len(s) + 1 : d[i] \in Seq(A)
      BY <2>3, <2>4
    <3> QED BY <1>5, <3>1 DEF d
  <2> HIDE DEF d
  <2>6. d = u
    BY <2>3, <2>4, <2>5
  <2> QED BY <2>6 DEF u
<1>7. Told(g, s) = FlattenSeq(c) /\ Told(g, t) = FlattenSeq(d)
  BY DEF Told
<1>8. Told(g, <<>>) = FlattenSeq(<<>>)
  <2>1. [i \in DOMAIN <<>> |-> g[<<>>[i]]] = <<>>
    OBVIOUS
  <2> QED BY <2>1 DEF Told
<1>9. g[e] \in Seq(A)
  OBVIOUS
<1> HIDE DEF c, d
<1>10. /\ FlattenSeq(<<>>) = <<>> /\ FlattenSeq(c) \in Seq(A)
       /\ FlattenSeq(Append(c, g[e])) = FlattenSeq(c) \o g[e]
  BY <1>4, <1>9, FlattenOfAppend
<1> QED BY <1>6, <1>7, <1>8, <1>10 DEF t

\* Told as a list, joined: the parts one behind the other.
LEMMA ToldLaws ==
  ASSUME NEW A, NEW B, NEW g, Tells(g, B, A)
  PROVE  /\ Told(g, <<>>) = <<>>
         /\ \A s \in Seq(B) : Told(g, s) \in Seq(A)
         /\ \A s \in Seq(B), e \in B :
              Told(g, Append(s, e)) = Told(g, s) \o g[e]
         /\ \A s, t \in Seq(B) : Told(g, s \o t) = Told(g, s) \o Told(g, t)
<1>0. g \in [B -> Seq(A)]
  BY DEF Tells
<1>1. \A s \in Seq(B), e \in B :
        Told(g, s) \in Seq(A) /\ Told(g, Append(s, e)) = Told(g, s) \o g[e]
  <2> SUFFICES ASSUME NEW s \in Seq(B), NEW e \in B
               PROVE  Told(g, s) \in Seq(A)
                      /\ Told(g, Append(s, e)) = Told(g, s) \o g[e]
    OBVIOUS
  <2> QED BY <1>0, ToldOfAppend
<1>2. Told(g, <<>>) = <<>>
  <2>1. [i \in DOMAIN <<>> |-> g[<<>>[i]]] = <<>>
    OBVIOUS
  <2>2. <<>> \in Seq(Seq(A)) /\ <<>> \in Seq(A)
    BY EmptySeq
  <2>3. FlattenSeq(<<>>) = <<>>
    BY <2>2, FlattenOfAppend
  <2> QED BY <2>1, <2>3 DEF Told
<1>3. ASSUME NEW s \in Seq(B) PROVE Told(g, s) \in Seq(A)
  <2>1. CASE s = <<>>
    BY <2>1, <1>2, EmptySeq
  <2>2. CASE s # <<>>
    <3>1. PICK u \in Seq(B), e \in B : s = Append(u, e)
      BY <2>2, SequenceEmptyOrAppend
    <3> QED BY <1>1
  <2> QED BY <2>1, <2>2
<1>4. ASSUME NEW s \in Seq(B), NEW t \in Seq(B)
      PROVE  Told(g, s \o t) = Told(g, s) \o Told(g, t)
  <2> DEFINE T == {u \in Seq(B) : Told(g, s \o u) = Told(g, s) \o Told(g, u)}
  <2>1. <<>> \in T
    <3>1. s \o <<>> = s /\ <<>> \in Seq(B)
      BY ConcatEmptySeq, EmptySeq
    <3>2. Told(g, s) \o <<>> = Told(g, s)
      BY <1>3, ListLaws
    <3> QED BY <1>2, <3>1, <3>2
  <2>2. ASSUME NEW u \in Seq(B), NEW e \in B, u \in T
        PROVE  Append(u, e) \in T
    <3>1. s \o u \in Seq(B) /\ <<e>> \in Seq(B) /\ Append(u, e) \in Seq(B)
      BY ConcatProperties, AppendProperties
    <3>2. s \o Append(u, e) = Append(s \o u, e)
      <4>1. Append(s \o u, e) = (s \o u) \o <<e>> /\ Append(u, e) = u \o <<e>>
        BY <3>1, AppendIsConcat
      <4>2. (s \o u) \o <<e>> = s \o (u \o <<e>>)
        BY <3>1, ConcatAssociative
      <4> QED BY <4>1, <4>2
    <3>3. Told(g, Append(s \o u, e)) = Told(g, s \o u) \o g[e]
      BY <1>1, <3>1
    <3>4. Told(g, Append(u, e)) = Told(g, u) \o g[e]
      BY <1>1
    <3>5. Told(g, s \o u) = Told(g, s) \o Told(g, u)
      BY <2>2
    <3>6. (Told(g, s) \o Told(g, u)) \o g[e]
            = Told(g, s) \o (Told(g, u) \o g[e])
      <4>1. /\ g[e] \in Seq(A) /\ Told(g, s) \in Seq(A)
            /\ Told(g, u) \in Seq(A)
        BY <1>0, <1>3
      <4>2. \A a, b, c \in Seq(A) : (a \o b) \o c = a \o (b \o c)
        BY ListLaws
      <4> QED BY <4>1, <4>2
    <3> QED BY <3>1, <3>2, <3>3, <3>4, <3>5, <3>6
  <2>3. Seq(B) \subseteq T
    <3> HIDE DEF T
    <3> QED BY <2>1, <2>2, SequenceInduction
  <2> QED BY <2>3
<1> QED BY <1>1, <1>2, <1>3, <1>4

\* Nothing is told of nothing.
LEMMA ToldNothing ==
  ASSUME NEW A, NEW B, NEW g, Tells(g, B, A)
  PROVE  Told(g, <<>>) = <<>>
BY ToldLaws

\* What is told of a list is a list.
LEMMA ToldIsList ==
  ASSUME NEW A, NEW B, NEW g, Tells(g, B, A), NEW s \in Seq(B)
  PROVE  Told(g, s) \in Seq(A)
BY ToldLaws

\* What is told of two lists joined is told of one and of the other.
LEMMA ToldOfParts ==
  ASSUME NEW A, NEW B, NEW g, Tells(g, B, A), NEW s \in Seq(B),
         NEW t \in Seq(B)
  PROVE  Told(g, s \o t) = Told(g, s) \o Told(g, t)
BY ToldLaws

\* What is told of a single entry.
LEMMA ToldOfOne ==
  ASSUME NEW A, NEW B, NEW g, Tells(g, B, A), NEW e \in B
  PROVE  Told(g, <<e>>) = g[e]
<1>1. <<>> \in Seq(B) /\ <<e>> = Append(<<>>, e)
  BY EmptySeq
<1>2. \A s \in Seq(B) : Told(g, Append(s, e)) = Told(g, s) \o g[e]
  BY ToldLaws
<1>3. Told(g, <<>>) = <<>>
  BY ToldLaws
<1>4. g[e] \in Seq(A)
  BY DEF Tells
<1>5. <<>> \o g[e] = g[e]
  BY <1>4, ListLaws
<1> QED BY <1>1, <1>2, <1>3, <1>5

\* An entry that is told as nothing leaves no trace, nor do many.
LEMMA ToldAsNothing ==
  ASSUME NEW A, NEW B, NEW g, Tells(g, B, A), NEW s \in Seq(B),
         \A i \in 1..Len(s) : g[s[i]] = <<>>
  PROVE  Told(g, s) = <<>>
<1> DEFINE T == {u \in Seq(B) :
                   (\A i \in 1..Len(u) : g[u[i]] = <<>>) => Told(g, u) = <<>>}
<1>0. /\ Told(g, <<>>) = <<>>
      /\ \A u \in Seq(B), e \in B : Told(g, Append(u, e)) = Told(g, u) \o g[e]
  BY ToldLaws
<1>1. <<>> \in T
  BY <1>0, EmptySeq
<1>2. ASSUME NEW u \in Seq(B), NEW e \in B, u \in T PROVE Append(u, e) \in T
  <2>1. /\ Append(u, e) \in Seq(B) /\ Len(Append(u, e)) = Len(u) + 1
        /\ Append(u, e)[Len(u) + 1] = e /\ Len(u) \in Nat
        /\ \A i \in 1..Len(u) : Append(u, e)[i] = u[i]
    BY AppendProperties, LenProperties
  <2> SUFFICES ASSUME \A i \in 1..Len(u) + 1 : g[Append(u, e)[i]] = <<>>
               PROVE  Told(g, Append(u, e)) = <<>>
    BY <2>1
  <2>2. /\ Len(u) + 1 \in 1..Len(u) + 1
        /\ \A i \in 1..Len(u) : i \in 1..Len(u) + 1
    BY <2>1
  <2>3. g[e] = <<>> /\ \A i \in 1..Len(u) : g[u[i]] = <<>>
    BY <2>1, <2>2
  <2>4. Told(g, u) = <<>>
    BY <1>2, <2>3
  <2>5. <<>> \o <<>> = <<>>
    BY ListLaws
  <2> QED BY <1>0, <2>3, <2>4, <2>5
<1>3. Seq(B) \subseteq T
  <2> HIDE DEF T
  <2> QED BY <1>1, <1>2, SequenceInduction
<1> QED BY <1>3

\* Telling what was told: g's entries are told again, by h.
LEMMA ToldAgain ==
  ASSUME NEW A, NEW B, NEW C, NEW g, NEW h, NEW k, Tells(g, B, C),
         Tells(h, C, A), Tells(k, B, A), \A b \in B : k[b] = Told(h, g[b]),
         NEW s \in Seq(B)
  PROVE  Told(h, Told(g, s)) = Told(k, s)
<1> DEFINE T == {u \in Seq(B) : Told(h, Told(g, u)) = Told(k, u)}
<1>1. /\ Told(g, <<>>) = <<>>
      /\ \A u \in Seq(B) : Told(g, u) \in Seq(C)
      /\ \A u \in Seq(B), e \in B : Told(g, Append(u, e)) = Told(g, u) \o g[e]
  BY ToldLaws
<1>2. /\ Told(h, <<>>) = <<>>
      /\ \A u, v \in Seq(C) : Told(h, u \o v) = Told(h, u) \o Told(h, v)
  BY ToldLaws
<1>3. /\ Told(k, <<>>) = <<>>
      /\ \A u \in Seq(B), e \in B : Told(k, Append(u, e)) = Told(k, u) \o k[e]
  BY ToldLaws
<1>4. <<>> \in T
  BY <1>1, <1>2, <1>3, EmptySeq
<1>5. ASSUME NEW u \in Seq(B), NEW e \in B, u \in T PROVE Append(u, e) \in T
  <2>1. Append(u, e) \in Seq(B) /\ g[e] \in Seq(C)
    BY AppendProperties DEF Tells
  <2>2. Told(h, Told(g, u) \o g[e]) = Told(h, Told(g, u)) \o Told(h, g[e])
    BY <1>1, <1>2, <2>1
  <2> QED BY <1>1, <1>3, <1>5, <2>1, <2>2
<1>6. Seq(B) \subseteq T
  <2> HIDE DEF T
  <2> QED BY <1>4, <1>5, SequenceInduction
<1> QED BY <1>6

\* The numbers up to n, of which the next list is the one with n + 1 added.
Numbers(n) == [i \in 1..n |-> i]

\* The numbers up to n are a list of them, and the next is added last.
LEMMA NumbersGrow ==
  /\ Numbers(0) = <<>>
  /\ \A m \in Nat : \A n \in 0..m : Numbers(n) \in Seq(1..m)
  /\ \A n \in Nat : Numbers(n + 1) = Append(Numbers(n), n + 1)
<1>1. Numbers(0) = <<>>
  BY DEF Numbers
<1>2. ASSUME NEW m \in Nat, NEW n \in 0..m PROVE Numbers(n) \in Seq(1..m)
  <2>1. Numbers(n) \in [1..n -> 1..m] /\ n \in Nat
    BY DEF Numbers
  <2> QED BY <2>1, SeqDef
<1>3. ASSUME NEW n \in Nat PROVE Numbers(n + 1) = Append(Numbers(n), n + 1)
  <2>1. Numbers(n) \in Seq(1..n + 1) /\ n + 1 \in 1..n + 1
    BY <1>2
  <2>2. Len(Numbers(n)) = n
    BY DEF Numbers
  <2> DEFINE u == Append(Numbers(n), n + 1)
  <2>3. /\ u \in Seq(1..n + 1) /\ Len(u) = n + 1 /\ u[n + 1] = n + 1
        /\ \A i \in 1..n : u[i] = Numbers(n)[i]
    BY <2>1, <2>2, AppendProperties
  <2> HIDE DEF u
  <2>4. DOMAIN u = 1..n + 1 /\ u \in [1..n + 1 -> 1..n + 1]
    BY <2>3, LenProperties
  <2>5. \A i \in 1..n + 1 : u[i] = i
    <3>1. \A i \in 1..n + 1 : i \in 1..n \/ i = n + 1
      OBVIOUS
    <3>2. \A i \in 1..n : Numbers(n)[i] = i
      BY DEF Numbers
    <3> QED BY <2>3, <3>1, <3>2
  <2>6. Numbers(n + 1) = u
    BY <2>4, <2>5 DEF Numbers
  <2> QED BY <2>6 DEF u
<1> QED BY <1>1, <1>2, <1>3

\* A list of numbers told entry by entry.
LEMMA ToldNumbers ==
  ASSUME NEW A, NEW m \in Nat, NEW g \in [1..m -> Seq(A)]
  PROVE  /\ Told(g, Numbers(0)) = <<>>
         /\ \A n \in 0..m : Told(g, Numbers(n)) \in Seq(A)
         /\ \A n \in 0..m : n + 1 <= m =>
              Told(g, Numbers(n + 1)) = Told(g, Numbers(n)) \o g[n + 1]
<1>1. /\ Told(g, <<>>) = <<>>
      /\ \A s \in Seq(1..m) : Told(g, s) \in Seq(A)
      /\ \A s \in Seq(1..m), e \in 1..m :
           Told(g, Append(s, e)) = Told(g, s) \o g[e]
  <2>1. Tells(g, 1..m, A)
    BY DEF Tells
  <2> QED BY <2>1, ToldLaws
<1>2. /\ Numbers(0) = <<>>
      /\ \A n \in 0..m : Numbers(n) \in Seq(1..m)
      /\ \A n \in 0..m : Numbers(n + 1) = Append(Numbers(n), n + 1)
  <2>1. \A n \in 0..m : n \in Nat
    OBVIOUS
  <2> QED BY <2>1, NumbersGrow
<1>3. \A n \in 0..m : n + 1 <= m => n + 1 \in 1..m
  OBVIOUS
<1> QED BY <1>1, <1>2, <1>3

\* When the number i is told as nothing or as one entry with the index i, the
\* entries come in the order of their indices, and each number that is told
\* has one.
ByIndex(g, n, s) ==
  /\ \A p, q \in 1..Len(s) : p < q => s[p].index < s[q].index
  /\ \A p \in 1..Len(s) :
       s[p].index \in 1..n /\ g[s[p].index] = <<s[p]>>
  /\ \A i \in 1..n : g[i] = <<>> \/ \E p \in 1..Len(s) : s[p].index = i

\* A list told of the numbers up to m, of each at most one entry that bears
\* the number, is in the order of the numbers.
LEMMA ToldByIndex ==
  ASSUME NEW A, NEW m \in Nat, NEW g \in [1..m -> Seq(A)],
         \A i \in 1..m : g[i] # <<>> =>
           \E x \in A : g[i] = <<x>> /\ x.index = i
  PROVE  ByIndex(g, m, Told(g, Numbers(m)))
<1> DEFINE t(n) == Told(g, Numbers(n))
           S == {n \in Nat : n <= m => ByIndex(g, n, t(n))}
<1>1. /\ t(0) = <<>>
      /\ \A n \in 0..m : t(n) \in Seq(A)
      /\ \A n \in 0..m : n + 1 <= m => t(n + 1) = t(n) \o g[n + 1]
  BY ToldNumbers
<1> HIDE DEF t
<1>2. 0 \in S
  <2>1. Len(t(0)) = 0
    BY <1>1, EmptySeq
  <2> QED BY <2>1 DEF ByIndex
<1>3. ASSUME NEW n \in Nat, n \in S PROVE n + 1 \in S
  <2> SUFFICES ASSUME n + 1 <= m PROVE ByIndex(g, n + 1, t(n + 1))
    OBVIOUS
  <2>1. n \in 0..m /\ n + 1 \in 1..m /\ n <= m
    OBVIOUS
  <2>2. t(n) \in Seq(A) /\ t(n + 1) = t(n) \o g[n + 1]
    BY <1>1, <2>1
  <2>3. ByIndex(g, n, t(n))
    BY <1>3, <2>1
  <2>4. \A i \in 1..n + 1 : i \in 1..n \/ i = n + 1
    OBVIOUS
  <2>5. CASE g[n + 1] = <<>>
    <3>1. t(n + 1) = t(n)
      BY <2>2, <2>5, ListLaws
    <3>2. \A i \in 1..n : i \in 1..n + 1
      OBVIOUS
    <3> QED BY <2>3, <2>4, <2>5, <3>1, <3>2 DEF ByIndex
  <2>6. CASE g[n + 1] # <<>>
    <3>1. PICK x \in A : g[n + 1] = <<x>> /\ x.index = n + 1
      BY <2>1, <2>6
    <3>2. t(n + 1) = Append(t(n), x)
      BY <2>2, <3>1, AppendIsConcat
    <3> DEFINE l == Len(t(n))
               u == t(n + 1)
    <3>3. /\ Len(u) = l + 1 /\ u[l + 1] = x /\ l \in Nat
          /\ \A p \in 1..l : u[p] = t(n)[p]
      BY <2>2, <3>2, AppendProperties, LenProperties
    <3> HIDE DEF l, u
    <3>4. \A p \in 1..l + 1 : p \in 1..l \/ p = l + 1
      BY <3>3
    <3>5. \A p \in 1..l : t(n)[p].index \in 1..n
      BY <2>3 DEF ByIndex, l
    <3>6. ASSUME NEW p \in 1..l + 1, NEW q \in 1..l + 1, p < q
          PROVE  u[p].index < u[q].index
      <4>1. p \in 1..l
        BY <3>3, <3>6
      <4>2. CASE q \in 1..l
        <5>1. t(n)[p].index < t(n)[q].index
          BY <2>3, <3>6, <4>1, <4>2 DEF ByIndex, l
        <5> QED BY <3>3, <4>1, <4>2, <5>1
      <4>3. CASE q = l + 1
        <5>1. u[q].index = n + 1 /\ u[p].index \in 1..n
          BY <3>1, <3>3, <3>5, <4>1, <4>3
        <5> QED BY <5>1
      <4> QED BY <3>4, <4>2, <4>3
    <3>7. ASSUME NEW p \in 1..l + 1
          PROVE  u[p].index \in 1..n + 1 /\ g[u[p].index] = <<u[p]>>
      <4>1. CASE p \in 1..l
        <5>1. t(n)[p].index \in 1..n /\ g[t(n)[p].index] = <<t(n)[p]>>
          BY <2>3, <4>1 DEF ByIndex, l
        <5> QED BY <3>3, <4>1, <5>1
      <4>2. CASE p = l + 1
        BY <3>1, <3>3, <4>2
      <4> QED BY <3>4, <4>1, <4>2
    <3>8. ASSUME NEW i \in 1..n + 1
          PROVE  g[i] = <<>> \/ \E p \in 1..l + 1 : u[p].index = i
      <4>1. CASE i \in 1..n
        <5>1. g[i] = <<>> \/ \E p \in 1..l : t(n)[p].index = i
          BY <2>3, <4>1 DEF ByIndex, l
        <5>2. \A p \in 1..l : p \in 1..l + 1
          BY <3>3
        <5> QED BY <3>3, <5>1, <5>2
      <4>2. CASE i = n + 1
        <5>1. l + 1 \in 1..l + 1
          BY <3>3
        <5> QED BY <3>1, <3>3, <4>2, <5>1
      <4> QED BY <2>4, <4>1, <4>2
    <3>9. ByIndex(g, n + 1, u)
      BY <3>3, <3>6, <3>7, <3>8 DEF ByIndex
    <3> QED BY <3>9 DEF u
  <2> QED BY <2>5, <2>6
<1>4. Nat \subseteq S
  <2> HIDE DEF S
  <2> QED BY <1>2, <1>3, SetInduction
<1>5. ByIndex(g, m, t(m))
  BY <1>4
<1> QED BY <1>5 DEF t

\* Telling one number more, behind those that are told, adds its entry.
LEMMA ToldOneMore ==
  ASSUME NEW A, NEW m \in Nat, NEW g \in [1..m -> Seq(A)],
         NEW h \in [1..m -> Seq(A)], NEW j \in 1..m, NEW x \in A,
         h[j] = <<x>>, \A i \in 1..m : i # j => h[i] = g[i],
         \A i \in 1..m : j <= i => g[i] = <<>>
  PROVE  Told(h, Numbers(m)) = Append(Told(g, Numbers(m)), x)
<1> DEFINE t(n) == Told(g, Numbers(n))
           u(n) == Told(h, Numbers(n))
           S == {n \in Nat : n <= m =>
                   /\ n < j => u(n) = t(n)
                   /\ ~(n < j) => u(n) = Append(t(n), x)}
<1>1. /\ t(0) = <<>>
      /\ \A n \in 0..m : t(n) \in Seq(A)
      /\ \A n \in 0..m : n + 1 <= m => t(n + 1) = t(n) \o g[n + 1]
  BY ToldNumbers
<1>2. /\ u(0) = <<>>
      /\ \A n \in 0..m : n + 1 <= m => u(n + 1) = u(n) \o h[n + 1]
  BY ToldNumbers
<1> HIDE DEF t, u
<1>3. 0 \in S
  BY <1>1, <1>2
<1>4. ASSUME NEW n \in Nat, n \in S PROVE n + 1 \in S
  <2> SUFFICES ASSUME n + 1 <= m
               PROVE  /\ n + 1 < j => u(n + 1) = t(n + 1)
                      /\ ~(n + 1 < j) => u(n + 1) = Append(t(n + 1), x)
    OBVIOUS
  <2>1. n \in 0..m /\ n + 1 \in 1..m /\ n <= m
    OBVIOUS
  <2>2. /\ t(n) \in Seq(A) /\ t(n + 1) = t(n) \o g[n + 1]
        /\ u(n + 1) = u(n) \o h[n + 1]
        /\ n < j => u(n) = t(n)
        /\ ~(n < j) => u(n) = Append(t(n), x)
    BY <1>1, <1>2, <1>4, <2>1
  <2>3. CASE n + 1 < j
    <3>1. h[n + 1] = g[n + 1] /\ n < j
      BY <2>1, <2>3
    <3> QED BY <2>2, <2>3, <3>1
  <2>4. CASE n + 1 = j
    <3>1. g[n + 1] = <<>> /\ n < j /\ h[n + 1] = <<x>> /\ ~(n + 1 < j)
      <4>1. j <= n + 1 /\ n < j /\ ~(n + 1 < j)
        BY <2>4
      <4> QED BY <2>1, <2>4, <4>1
    <3>2. t(n + 1) = t(n)
      <4>1. t(n) \o <<>> = t(n)
        BY <2>2, ListLaws
      <4> QED BY <2>2, <3>1, <4>1
    <3>3. Append(t(n), x) = t(n) \o <<x>>
      BY <2>2, AppendIsConcat
    <3> QED BY <2>2, <2>4, <3>1, <3>2, <3>3
  <2>5. CASE j < n + 1
    <3>1. /\ g[n + 1] = <<>> /\ ~(n < j) /\ h[n + 1] = <<>>
          /\ ~(n + 1 < j)
      BY <2>1, <2>5
    <3>2. t(n + 1) = t(n) /\ Append(t(n), x) \in Seq(A)
      BY <2>2, <3>1, ListLaws, AppendProperties
    <3>3. u(n + 1) = u(n)
      BY <2>2, <3>1, <3>2, ListLaws
    <3> QED BY <2>2, <3>1, <3>2, <3>3
  <2>6. n + 1 < j \/ n + 1 = j \/ j < n + 1
    OBVIOUS
  <2> QED BY ONLY <2>3, <2>4, <2>5, <2>6
<1>5. Nat \subseteq S
  <2> HIDE DEF S
  <2> QED BY <1>3, <1>4, SetInduction
<1>6. u(m) = Append(t(m), x)
  BY <1>5
<1> QED BY <1>6 DEF t, u

USE ReplyStreamAssumption

-----------------------------------------------------------------------------
(* The agent's assembler and the kernel's list of calls.                   *)

\* A call that the kernel does not hold the agent does not hold either, and
\* one that the kernel has open is one the agent would refuse the reply for.
Watched ==
  /\ calls \in [Indices -> {"none", "open", "whole", "empty"}]
  /\ observed \in [Indices -> {"none", "unknown", "open", "ended"}]
  /\ driver = "agent" =>
       /\ \A i \in Indices :
            /\ calls[i] = "none" => observed[i] = "none"
            /\ calls[i] = "open" => observed[i] \in {"open", "unknown"}
       /\ stage = "finishing" => ~InvalidCalls
       /\ result # "unassembled"

\* A push and what the agent's assembler makes of the same event.
LEMMA PushKeepsWatch ==
  ASSUME Watched, Push(Event), Observe(Event), UNCHANGED <<driver, result>>,
         stage' = "finishing" /\ driver = "agent" =>
           ~InvalidCalls /\ Event.kind = "done"
  PROVE  Watched'
<1> DEFINE e == Event
<1>1. /\ calls' \in [Indices -> {"none", "open", "whole", "empty"}]
      /\ observed' \in [Indices -> {"none", "unknown", "open", "ended"}]
  <2>1. calls' \in [Indices -> {"none", "open", "whole", "empty"}]
    <3>1. \/ UNCHANGED calls
          \/ calls' = [calls EXCEPT ![e.index] = IF IsNew(e) THEN "open" ELSE @]
          \/ calls' = [calls EXCEPT ![e.index] =
                         IF e.whole THEN "whole" ELSE "empty"]
      BY DEF Push
    <3> QED BY <3>1 DEF Watched
  <2>2. observed' \in [Indices -> {"none", "unknown", "open", "ended"}]
    BY DEF Watched, Observe, Held
  <2> QED BY <2>1, <2>2
<1>2. ASSUME driver = "agent", NEW i \in Indices
      PROVE  /\ calls'[i] = "none" => observed'[i] = "none"
             /\ calls'[i] = "open" => observed'[i] \in {"open", "unknown"}
  <2>1. CASE e.kind \notin CallKinds
    BY <1>2, <2>1 DEF Watched, Push, Observe, CallKinds
  <2>2. CASE e.kind \in CallKinds /\ e.index # i
    BY <1>2, <2>2 DEF Watched, Push, Observe, CallKinds
  <2>3. CASE e.kind \in CallKinds /\ e.index = i
    BY <1>2, <2>3 DEF Watched, Push, Observe, CallKinds, Held, IsNew
  <2> QED BY <2>1, <2>2, <2>3
<1>3. driver = "agent" /\ stage' = "finishing" => ~InvalidCalls'
  BY DEF Observe, InvalidCalls, CallKinds
<1> QED BY <1>1, <1>2, <1>3 DEF Watched

\* Steps that leave both lists alone.
LEMMA QuietKeepsWatch ==
  ASSUME Watched, UNCHANGED <<driver, calls, observed>>,
         stage' = "finishing" => stage = "finishing",
         result' = "unassembled" =>
           result = "unassembled" \/ (stage = "finishing" /\ ~AllFinished)
  PROVE  Watched'
BY DEF Watched, InvalidCalls, AllFinished

LEMMA StepKeepsWatch == Watched /\ [Next]_vars => Watched'
<1> SUFFICES ASSUME Watched, [Next]_vars PROVE Watched'
  OBVIOUS
<1>1. CASE UNCHANGED vars
  BY <1>1, QuietKeepsWatch DEF vars, turn, outcome
<1>2. CASE \/ Answered \/ ItemAdded \/ ItemDelta \/ ArgumentsArrive
           \/ ItemDone \/ Completed \/ ContentDelta \/ CallDelta
           \/ FinishReason \/ StreamCloses \/ Retry \/ Abort
  BY <1>2, QuietKeepsWatch
     DEF Answered, ItemAdded, ItemDelta, ArgumentsArrive, ItemDone, Completed,
         ContentDelta, CallDelta, FinishReason, StreamCloses, Retry, Abort,
         turn, outcome
<1>3. CASE TakeEvent
  BY <1>3, PushKeepsWatch DEF TakeEvent, Accepts, outcome, Running
<1>4. CASE PushInterrupted
  BY <1>4, PushKeepsWatch DEF PushInterrupted, outcome
<1>5. CASE CancelInterrupted \/ Interrupt \/ RefuseReply
  BY <1>5, QuietKeepsWatch
     DEF CancelInterrupted, Interrupt, RefuseReply, CancelTurn
<1>6. CASE StreamBreaks \/ RequestFails
  BY <1>6, QuietKeepsWatch
     DEF StreamBreaks, RequestFails, HandleError, CancelTurn, FailTurn, turn
<1>7. CASE FinishTurn
  BY <1>7, QuietKeepsWatch DEF FinishTurn, FailTurn, turn
<1> QED BY <1>1, <1>2, <1>3, <1>4, <1>5, <1>6, <1>7
        DEF Next, ServerStep, DriverStep, RequestStep

\* When the agent lets a reply end, the kernel does not find a call
\* unfinished, whatever the provider sent.
THEOREM AssemblersAlwaysAgree == Spec => []AssemblersAgree
<1>1. Init => Watched
  BY DEF Init, Watched
<1>2. Watched => AssemblersAgree
  BY DEF Watched, AssemblersAgree
<1> QED BY <1>1, <1>2, StepKeepsWatch, PTL DEF Spec

EventType ==
  [kind : {"none", "delta", "end", "callStart", "callDelta", "callEnd", "done"},
   of : Kinds, tokens : Seq(Nat), index : Indices, known : BOOLEAN,
   whole : BOOLEAN, stop : StopReasons]
BlockType ==
  [of : Kinds \cup {"call"}, tokens : Seq(Nat), index : Nat, whole : BOOLEAN]
ItemType ==
  [what : {"text", "call", "output"}, tokens : Seq(Nat), index : Nat]

\* What the lists of the model tell of one entry.
CallPart == [b \in BlockType |-> Only(b.of = "call", b)]
TextPart(k) == [b \in BlockType |-> IF b.of = k THEN b.tokens ELSE <<>>]
ItemPart == [b \in BlockType |-> ConvertBlock(b)]
SortPart(w) == [t \in ItemType |-> Only(t.what = w, t)]
TokenPart == [t \in ItemType |-> t.tokens]
EventPart(i) ==
  [e \in EventType |-> Only(e.kind \in CallKinds /\ e.index = i, e)]
DeltaPart(k) ==
  [e \in EventType |->
     IF e.kind = "delta" /\ e.of = k THEN e.tokens ELSE <<>>]

\* The fields of the records.
LEMMA Fields ==
  /\ \A b \in BlockType : b.of \in Kinds \cup {"call"} /\ b.tokens \in Seq(Nat)
                          /\ b.index \in Nat /\ b.whole \in BOOLEAN
  /\ \A t \in ItemType : /\ t.what \in {"text", "call", "output"}
                         /\ t.tokens \in Seq(Nat) /\ t.index \in Nat
  /\ \A e \in EventType :
       /\ e.kind \in {"none", "delta", "end", "callStart", "callDelta",
                      "callEnd", "done"}
       /\ e.of \in Kinds /\ e.tokens \in Seq(Nat) /\ e.index \in Indices
       /\ e.known \in BOOLEAN /\ e.whole \in BOOLEAN /\ e.stop \in StopReasons
BY DEF BlockType, ItemType, EventType

\* At most one entry is a list.
LEMMA OnlyIsList ==
  ASSUME NEW A, NEW x \in A, NEW is \in BOOLEAN
  PROVE  /\ Only(is, x) \in Seq(A)
         /\ is => Only(is, x) = <<x>>
         /\ ~is => Only(is, x) = <<>>
<1>1. <<x>> \in Seq(A) /\ <<>> \in Seq(A)
  BY EmptySeq, AppendProperties
<1> QED BY <1>1 DEF Only

\* The events, blocks and items that the model makes have their types.
LEMMA Makers ==
  /\ \A w \in {"text", "call", "output"}, s \in Seq(Nat), n \in Nat :
       Item(w, s, n) \in ItemType
  /\ \A k \in Kinds, s \in Seq(Nat) : Block(k, s) \in BlockType
  /\ \A i \in Nat, whole \in BOOLEAN : CallBlock(i, whole) \in BlockType
  /\ NoEvent \in EventType
  /\ \A k \in Kinds, n \in Nat : Delta(k, n) \in EventType
  /\ \A k \in Kinds, s \in Seq(Nat) : End(k, s) \in EventType
  /\ \A kind \in CallKinds, i \in Indices, known \in BOOLEAN :
       CallEvent(kind, i, known) \in EventType
  /\ \A i \in Indices, whole \in BOOLEAN : CallEnd(i, whole) \in EventType
  /\ \A stop \in StopReasons : Done(stop) \in EventType
<1>1. <<>> \in Seq(Nat) /\ \A n \in Nat : <<n>> \in Seq(Nat)
  BY EmptySeq
<1>2. NoEvent \in EventType
  BY <1>1 DEF NoEvent, EventType, Kinds, Indices, StopReasons
<1>3. /\ \A k \in Kinds, n \in Nat : Delta(k, n) \in EventType
      /\ \A k \in Kinds, s \in Seq(Nat) : End(k, s) \in EventType
  <2>1. ASSUME NEW k \in Kinds, NEW n \in Nat PROVE Delta(k, n) \in EventType
    <3>1. <<n>> \in Seq(Nat)
      BY <1>1
    <3> QED BY <3>1, <1>2 DEF Delta, EventType
  <2>2. ASSUME NEW k \in Kinds, NEW s \in Seq(Nat)
        PROVE  End(k, s) \in EventType
    BY <1>2 DEF End, EventType
  <2> QED BY <2>1, <2>2
<1>4. \A kind \in CallKinds, i \in Indices, known \in BOOLEAN :
        CallEvent(kind, i, known) \in EventType
  BY <1>2 DEF CallEvent, EventType, CallKinds
<1>5. \A i \in Indices, whole \in BOOLEAN : CallEnd(i, whole) \in EventType
  BY <1>2 DEF CallEnd, EventType
<1>6. \A stop \in StopReasons : Done(stop) \in EventType
  BY <1>2 DEF Done, EventType
<1>7. /\ \A w \in {"text", "call", "output"}, s \in Seq(Nat), n \in Nat :
           Item(w, s, n) \in ItemType
      /\ \A k \in Kinds, s \in Seq(Nat) : Block(k, s) \in BlockType
      /\ \A i \in Nat, whole \in BOOLEAN : CallBlock(i, whole) \in BlockType
  BY <1>1 DEF Item, ItemType, Block, BlockType, CallBlock, Kinds
<1> QED BY <1>2, <1>3, <1>4, <1>5, <1>6, <1>7

\* What the lists of the model are told by.
LEMMA PartTypes ==
  /\ Tells(CallPart, BlockType, BlockType)
  /\ \A k : Tells(TextPart(k), BlockType, Nat)
  /\ Tells(ItemPart, BlockType, ItemType)
  /\ \A w : Tells(SortPart(w), ItemType, ItemType)
  /\ Tells(TokenPart, ItemType, Nat)
  /\ \A i : Tells(EventPart(i), EventType, EventType)
  /\ \A k : Tells(DeltaPart(k), EventType, Nat)
<1>1. ASSUME NEW b \in BlockType PROVE Only(b.of = "call", b) \in Seq(BlockType)
  BY OnlyIsList
<1>2. \A s : s = <<>> => s \in Seq(Nat)
  BY EmptySeq
<1>3. ASSUME NEW b \in BlockType PROVE ConvertBlock(b) \in Seq(ItemType)
  <2>1. <<>> \in Seq(Nat) /\ <<>> \in Seq(ItemType)
    BY EmptySeq
  <2>2. /\ Item("text", b.tokens, 0) \in ItemType
        /\ Item("call", <<>>, b.index) \in ItemType
    BY <2>1, Fields, Makers
  <2>3. /\ <<Item("text", b.tokens, 0)>> \in Seq(ItemType)
        /\ <<Item("call", <<>>, b.index)>> \in Seq(ItemType)
    BY <2>2
  <2> QED BY <2>1, <2>3 DEF ConvertBlock
<1>4. ASSUME NEW t \in ItemType, NEW w
      PROVE  Only(t.what = w, t) \in Seq(ItemType)
  BY OnlyIsList
<1>5. ASSUME NEW e \in EventType, NEW i
      PROVE  Only(e.kind \in CallKinds /\ e.index = i, e) \in Seq(EventType)
  BY OnlyIsList
<1> QED BY <1>1, <1>2, <1>3, <1>4, <1>5, Fields
        DEF CallPart, TextPart, ItemPart, SortPart, TokenPart, EventPart,
            DeltaPart, Tells

\* The lists of the reply and of the request, told entry by entry.
LEMMA AsTold ==
  /\ \A s \in Seq(BlockType) :
       /\ CallsOf(s) = Told(CallPart, s)
       /\ \A k : TextOf(k, s) = Told(TextPart(k), s)
       /\ Items(s) = Told(ItemPart, s)
  /\ \A s \in Seq(ItemType) :
       /\ \A w : OfSort(w, s) = Told(SortPart(w), s)
       /\ Tokens(s) = Told(TokenPart, s)
<1>1. ASSUME NEW s \in Seq(BlockType)
      PROVE  /\ CallsOf(s) = Told(CallPart, s)
             /\ \A k : TextOf(k, s) = Told(TextPart(k), s)
             /\ Items(s) = Told(ItemPart, s)
  <2>1. \A i \in DOMAIN s : s[i] \in BlockType
    BY LenProperties, ElementOfSeq
  <2>2. \A i \in DOMAIN s : CallPart[s[i]] = Only(s[i].of = "call", s[i])
    BY <2>1 DEF CallPart
  <2>3. \A k : \A i \in DOMAIN s :
          TextPart(k)[s[i]] = IF s[i].of = k THEN s[i].tokens ELSE <<>>
    BY <2>1 DEF TextPart
  <2>4. \A i \in DOMAIN s : ItemPart[s[i]] = ConvertBlock(s[i])
    BY <2>1 DEF ItemPart
  <2> QED BY <2>2, <2>3, <2>4 DEF CallsOf, TextOf, Items, Told
<1>2. ASSUME NEW s \in Seq(ItemType)
      PROVE  /\ \A w : OfSort(w, s) = Told(SortPart(w), s)
             /\ Tokens(s) = Told(TokenPart, s)
  <2>1. \A i \in DOMAIN s : s[i] \in ItemType
    BY LenProperties, ElementOfSeq
  <2>2. ASSUME NEW w, NEW i \in DOMAIN s
        PROVE  SortPart(w)[s[i]] = Only(s[i].what = w, s[i])
    BY <2>1 DEF SortPart
  <2>3. \A i \in DOMAIN s : TokenPart[s[i]] = s[i].tokens
    BY <2>1 DEF TokenPart
  <2>4. ASSUME NEW w PROVE OfSort(w, s) = Told(SortPart(w), s)
    BY <2>2 DEF OfSort, Told
  <2> QED BY <2>3, <2>4 DEF Tokens, Told
<1> QED BY <1>1, <1>2

\* So are the lists of what was shown.
LEMMA ShownAsTold ==
  ASSUME shown \in Seq(EventType)
  PROVE  /\ \A i : ShownOf(i) = Told(EventPart(i), shown)
         /\ \A k : ShownTokens(k) = Told(DeltaPart(k), shown)
<1>1. \A j \in DOMAIN shown : shown[j] \in EventType
  BY LenProperties, ElementOfSeq
<1>2. \A i : \A j \in DOMAIN shown :
        EventPart(i)[shown[j]]
          = Only(shown[j].kind \in CallKinds /\ shown[j].index = i, shown[j])
  BY <1>1 DEF EventPart
<1>3. \A k : \A j \in DOMAIN shown :
        DeltaPart(k)[shown[j]]
          = IF shown[j].kind = "delta" /\ shown[j].of = k
            THEN shown[j].tokens ELSE <<>>
  BY <1>1 DEF DeltaPart
<1> QED BY <1>2, <1>3 DEF ShownOf, ShownTokens, Told

\* A list that is not empty ends with an entry.
LEMMA LastEntry ==
  ASSUME NEW A, NEW d \in Seq(A), d # <<>>
  PROVE  \E b \in Seq(A), x \in A : d = Append(b, x)
BY SequenceEmptyOrAppend

\* Entries that are each told as one make a list as long as they are.
OneByOne(g, s, r) ==
  Len(r) = Len(s) /\ \A i \in 1..Len(s) : g[s[i]] = <<r[i]>>

\* A list each of whose entries is told as one is told as these.
LEMMA ToldAsOne ==
  ASSUME NEW A, NEW B, NEW g, Tells(g, B, A), NEW s \in Seq(B),
         NEW r \in Seq(A), OneByOne(g, s, r)
  PROVE  Told(g, s) = r
<1> DEFINE T == {u \in Seq(B) : \A v \in Seq(A) :
                   OneByOne(g, u, v) => Told(g, u) = v}
<1>a. \A v \in Seq(A) : v # <<>> =>
        \E b \in Seq(A), x \in A : v = Append(b, x)
  BY LastEntry
<1>0. /\ Told(g, <<>>) = <<>>
      /\ \A u \in Seq(B), e \in B : Told(g, Append(u, e)) = Told(g, u) \o g[e]
  BY ToldLaws
<1>1. <<>> \in T
  <2>1. \A v \in Seq(A) : Len(v) = Len(<<>>) => v = <<>>
    BY EmptySeq
  <2> QED BY <2>1, <1>0, EmptySeq DEF OneByOne
<1>2. ASSUME NEW u \in Seq(B), NEW e \in B, u \in T PROVE Append(u, e) \in T
  <2>1. /\ Append(u, e) \in Seq(B) /\ Len(Append(u, e)) = Len(u) + 1
        /\ Append(u, e)[Len(u) + 1] = e /\ Len(u) \in Nat
        /\ \A i \in 1..Len(u) : Append(u, e)[i] = u[i]
    BY AppendProperties, LenProperties
  <2> SUFFICES ASSUME NEW v \in Seq(A), Len(v) = Len(u) + 1,
                      \A i \in 1..Len(u) + 1 : g[Append(u, e)[i]] = <<v[i]>>
               PROVE  Told(g, Append(u, e)) = v
    BY <2>1 DEF OneByOne
  <2>2. PICK b \in Seq(A), x \in A : v = Append(b, x)
    <3>1. v # <<>>
      BY <2>1, EmptySeq
    <3> QED BY <1>a, <3>1
  <2>3. /\ Len(v) = Len(b) + 1 /\ v[Len(b) + 1] = x /\ Len(b) \in Nat
        /\ \A i \in 1..Len(b) : v[i] = b[i]
    BY <2>2, AppendProperties, LenProperties
  <2>4. Len(b) = Len(u)
    BY <2>1, <2>3
  <2>5. g[e] = <<x>>
    <3>1. Len(u) + 1 \in 1..Len(u) + 1
      BY <2>1
    <3> QED BY <2>1, <2>3, <2>4, <3>1
  <2>6. \A i \in 1..Len(u) : g[u[i]] = <<b[i]>>
    <3>1. \A i \in 1..Len(u) : i \in 1..Len(u) + 1
      BY <2>1
    <3> QED BY <2>1, <2>3, <2>4, <3>1
  <2>7. Told(g, u) = b
    BY <1>2, <2>4, <2>6 DEF OneByOne
  <2>8. Append(b, x) = b \o <<x>>
    BY AppendIsConcat
  <2> QED BY <1>0, <2>2, <2>5, <2>7, <2>8
<1>3. Seq(B) \subseteq T
  <2> HIDE DEF T
  <2> QED BY <1>1, <1>2, SequenceInduction
<1> QED BY <1>3

-----------------------------------------------------------------------------
(* The next request, list by list.                                         *)

\* What each list of blocks tells, of joined lists and of single blocks.
LEMMA BlockLaws ==
  /\ CallsOf(<<>>) = <<>>
  /\ \A s \in Seq(BlockType) : CallsOf(s) \in Seq(BlockType)
  /\ \A s, t \in Seq(BlockType) : CallsOf(s \o t) = CallsOf(s) \o CallsOf(t)
  /\ \A b \in BlockType : CallsOf(<<b>>) = Only(b.of = "call", b)
  /\ \A s \in Seq(BlockType) : Items(s) \in Seq(ItemType)
<1>1. /\ <<>> \in Seq(BlockType)
      /\ \A s, t \in Seq(BlockType) : s \o t \in Seq(BlockType)
      /\ \A b \in BlockType : <<b>> \in Seq(BlockType)
  BY ListLaws
<1>2. /\ Tells(CallPart, BlockType, BlockType)
      /\ Tells(ItemPart, BlockType, ItemType)
  BY PartTypes
<1>3. \A s \in Seq(BlockType) :
        CallsOf(s) = Told(CallPart, s) /\ Items(s) = Told(ItemPart, s)
  BY AsTold
<1>a. Told(CallPart, <<>>) = <<>>
  BY <1>2, ToldNothing
<1>b. \A s \in Seq(BlockType) : Told(CallPart, s) \in Seq(BlockType)
  BY <1>2, ToldIsList
<1>c. \A s, t \in Seq(BlockType) :
        Told(CallPart, s \o t) = Told(CallPart, s) \o Told(CallPart, t)
  BY <1>2, ToldOfParts
<1>4. /\ CallsOf(<<>>) = <<>>
      /\ \A s \in Seq(BlockType) : CallsOf(s) \in Seq(BlockType)
  BY <1>1, <1>3, <1>a, <1>b
<1>5. \A s, t \in Seq(BlockType) : CallsOf(s \o t) = CallsOf(s) \o CallsOf(t)
  BY <1>1, <1>3, <1>c
<1>6. \A b \in BlockType : CallsOf(<<b>>) = Only(b.of = "call", b)
  <2> SUFFICES ASSUME NEW b \in BlockType
               PROVE  CallsOf(<<b>>) = Only(b.of = "call", b)
    OBVIOUS
  <2>1. Told(CallPart, <<b>>) = CallPart[b]
    BY <1>2, ToldOfOne
  <2> QED BY <1>1, <1>3, <2>1 DEF CallPart
<1>7. \A s \in Seq(BlockType) : Items(s) \in Seq(ItemType)
  BY <1>2, <1>3, ToldLaws
<1> QED BY <1>4, <1>5, <1>6, <1>7

\* The text of a reply, part by part.
LEMMA BlockTextLaws ==
  ASSUME NEW k
  PROVE  /\ TextOf(k, <<>>) = <<>>
         /\ \A s \in Seq(BlockType) : TextOf(k, s) \in Seq(Nat)
         /\ \A s, t \in Seq(BlockType) :
              TextOf(k, s \o t) = TextOf(k, s) \o TextOf(k, t)
         /\ \A b \in BlockType :
              TextOf(k, <<b>>) = IF b.of = k THEN b.tokens ELSE <<>>
<1>1. /\ <<>> \in Seq(BlockType)
      /\ \A s, t \in Seq(BlockType) : s \o t \in Seq(BlockType)
      /\ \A b \in BlockType : <<b>> \in Seq(BlockType)
  BY ListLaws
<1> DEFINE g == TextPart(k)
<1>2. Tells(g, BlockType, Nat)
  BY PartTypes
<1>3. \A s \in Seq(BlockType) : TextOf(k, s) = Told(g, s)
  BY AsTold
<1> HIDE DEF g
<1>a. Told(g, <<>>) = <<>>
  BY <1>2, ToldNothing
<1>b. \A s \in Seq(BlockType) : Told(g, s) \in Seq(Nat)
  BY <1>2, ToldIsList
<1>c. \A s, t \in Seq(BlockType) :
        Told(g, s \o t) = Told(g, s) \o Told(g, t)
  BY <1>2, ToldOfParts
<1>4. /\ TextOf(k, <<>>) = <<>>
      /\ \A s \in Seq(BlockType) : TextOf(k, s) \in Seq(Nat)
  BY <1>1, <1>3, <1>a, <1>b
<1>5. ASSUME NEW s \in Seq(BlockType), NEW t \in Seq(BlockType)
      PROVE  TextOf(k, s \o t) = TextOf(k, s) \o TextOf(k, t)
  <2>1. s \o t \in Seq(BlockType)
    BY <1>1
  <2>2. Told(g, s \o t) = Told(g, s) \o Told(g, t)
    BY <1>c
  <2> QED BY <1>3, <2>1, <2>2
<1>6. \A b \in BlockType :
        TextOf(k, <<b>>) = IF b.of = k THEN b.tokens ELSE <<>>
  <2> SUFFICES ASSUME NEW b \in BlockType
               PROVE  TextOf(k, <<b>>) = IF b.of = k THEN b.tokens ELSE <<>>
    OBVIOUS
  <2>1. Told(g, <<b>>) = g[b]
    BY <1>2, ToldOfOne
  <2> QED BY <1>1, <1>3, <2>1 DEF TextPart, g
<1> QED BY <1>4, <1>5, <1>6

\* The same of the items of a request.
LEMMA ItemLaws ==
  ASSUME NEW w
  PROVE  /\ OfSort(w, <<>>) = <<>>
         /\ \A s \in Seq(ItemType) : OfSort(w, s) \in Seq(ItemType)
         /\ \A s, t \in Seq(ItemType) :
              OfSort(w, s \o t) = OfSort(w, s) \o OfSort(w, t)
         /\ \A t \in ItemType : OfSort(w, <<t>>) = Only(t.what = w, t)
<1>1. /\ <<>> \in Seq(ItemType)
      /\ \A s, t \in Seq(ItemType) : s \o t \in Seq(ItemType)
      /\ \A t \in ItemType : <<t>> \in Seq(ItemType)
  BY ListLaws
<1> DEFINE g == SortPart(w)
<1>2. Tells(g, ItemType, ItemType)
  BY PartTypes
<1>3. \A s \in Seq(ItemType) : OfSort(w, s) = Told(g, s)
  BY AsTold
<1> HIDE DEF g
<1>a. Told(g, <<>>) = <<>>
  BY <1>2, ToldNothing
<1>b. \A s \in Seq(ItemType) : Told(g, s) \in Seq(ItemType)
  BY <1>2, ToldIsList
<1>c. \A s, t \in Seq(ItemType) :
        Told(g, s \o t) = Told(g, s) \o Told(g, t)
  BY <1>2, ToldOfParts
<1>4. /\ OfSort(w, <<>>) = <<>>
      /\ \A s \in Seq(ItemType) : OfSort(w, s) \in Seq(ItemType)
  BY <1>1, <1>3, <1>a, <1>b
<1>5. ASSUME NEW s \in Seq(ItemType), NEW t \in Seq(ItemType)
      PROVE  OfSort(w, s \o t) = OfSort(w, s) \o OfSort(w, t)
  <2>1. s \o t \in Seq(ItemType)
    BY <1>1
  <2>2. Told(g, s \o t) = Told(g, s) \o Told(g, t)
    BY <1>c
  <2> QED BY <1>3, <2>1, <2>2
<1>6. \A t \in ItemType : OfSort(w, <<t>>) = Only(t.what = w, t)
  <2> SUFFICES ASSUME NEW t \in ItemType
               PROVE  OfSort(w, <<t>>) = Only(t.what = w, t)
    OBVIOUS
  <2>1. Told(g, <<t>>) = g[t]
    BY <1>2, ToldOfOne
  <2> QED BY <1>1, <1>3, <2>1 DEF SortPart, g
<1> QED BY <1>4, <1>5, <1>6

\* The tokens of the items of a request, part by part.
LEMMA TokenLaws ==
  /\ Tokens(<<>>) = <<>>
  /\ \A s \in Seq(ItemType) : Tokens(s) \in Seq(Nat)
  /\ \A t \in ItemType : <<t>> \in Seq(ItemType) /\ Tokens(<<t>>) = t.tokens
<1>1. <<>> \in Seq(ItemType) /\ \A t \in ItemType : <<t>> \in Seq(ItemType)
  BY ListLaws
<1>2. Tells(TokenPart, ItemType, Nat)
  BY PartTypes
<1>3. \A s \in Seq(ItemType) : Tokens(s) = Told(TokenPart, s)
  BY AsTold
<1>a. Told(TokenPart, <<>>) = <<>>
  BY <1>2, ToldNothing
<1>b. \A s \in Seq(ItemType) : Told(TokenPart, s) \in Seq(Nat)
  BY <1>2, ToldIsList
<1>c. \A s, t \in Seq(ItemType) :
        Told(TokenPart, s \o t) = Told(TokenPart, s) \o Told(TokenPart, t)
  BY <1>2, ToldOfParts
<1>4. /\ Tokens(<<>>) = <<>>
      /\ \A s \in Seq(ItemType) : Tokens(s) \in Seq(Nat)
  BY <1>1, <1>3, <1>a, <1>b
<1>5. \A t \in ItemType : Tokens(<<t>>) = t.tokens
  <2> SUFFICES ASSUME NEW t \in ItemType PROVE Tokens(<<t>>) = t.tokens
    OBVIOUS
  <2>1. Told(TokenPart, <<t>>) = TokenPart[t]
    BY <1>2, ToldOfOne
  <2> QED BY <1>1, <1>3, <2>1 DEF TokenPart
<1> QED BY <1>1, <1>4, <1>5

\* A block is at most one item, of its own sort.
LEMMA SortOfBlock ==
  ASSUME NEW b \in BlockType
  PROVE  /\ OfSort("call", ItemPart[b])
              = Only(b.of = "call", Item("call", <<>>, b.index))
         /\ OfSort("text", ItemPart[b])
              = Only(b.of = "text", Item("text", b.tokens, 0))
         /\ OfSort("output", ItemPart[b]) = <<>>
<1>1. <<>> \in Seq(Nat)
  BY EmptySeq
<1>2. /\ Item("text", b.tokens, 0) \in ItemType
      /\ Item("call", <<>>, b.index) \in ItemType
  BY <1>1, Fields, Makers
<1>3. ItemPart[b] = ConvertBlock(b)
  BY DEF ItemPart
<1>4. CASE b.of = "text"
  <2>1. ItemPart[b] = <<Item("text", b.tokens, 0)>>
    BY <1>3, <1>4 DEF ConvertBlock
  <2>2. Item("text", b.tokens, 0).what = "text"
    BY DEF Item
  <2> DEFINE t == Item("text", b.tokens, 0)
  <2>3. \A w : OfSort(w, <<t>>) = Only(t.what = w, t)
    BY <1>2, ItemLaws
  <2> HIDE DEF t
  <2> QED BY <1>4, <2>1, <2>2, <2>3 DEF Only, t
<1>5. CASE b.of = "call"
  <2>1. ItemPart[b] = <<Item("call", <<>>, b.index)>>
    BY <1>3, <1>5 DEF ConvertBlock
  <2>2. Item("call", <<>>, b.index).what = "call"
    BY DEF Item
  <2> DEFINE t == Item("call", <<>>, b.index)
  <2>3. \A w : OfSort(w, <<t>>) = Only(t.what = w, t)
    BY <1>2, ItemLaws
  <2> HIDE DEF t
  <2> QED BY <1>5, <2>1, <2>2, <2>3 DEF Only, t
<1>6. CASE b.of # "text" /\ b.of # "call"
  <2>1. ItemPart[b] = <<>>
    BY <1>3, <1>6 DEF ConvertBlock
  <2> QED BY <1>6, <2>1, ItemLaws DEF Only
<1> QED BY <1>4, <1>5, <1>6

\* The items of a reply: the calls of it, its text, no outputs.
LEMMA SortOfItems ==
  ASSUME NEW c \in Seq(BlockType)
  PROVE  /\ OfSort("call", Items(c))
              = [j \in DOMAIN CallsOf(c) |->
                   Item("call", <<>>, CallsOf(c)[j].index)]
         /\ Tokens(OfSort("text", Items(c))) = TextOf("text", c)
         /\ OfSort("output", Items(c)) = <<>>
<1>1. Items(c) \in Seq(ItemType) /\ CallsOf(c) \in Seq(BlockType)
  BY BlockLaws
<1>2. \A w : \A s \in Seq(ItemType) : OfSort(w, s) = Told(SortPart(w), s)
  BY AsTold
<1>3. Items(c) = Told(ItemPart, c) /\ CallsOf(c) = Told(CallPart, c)
  BY AsTold
<1>4. \A b \in BlockType : ItemPart[b] \in Seq(ItemType)
  BY PartTypes DEF Tells
<1>a. /\ Tells(ItemPart, BlockType, ItemType)
      /\ Tells(CallPart, BlockType, BlockType)
      /\ Tells(TokenPart, ItemType, Nat)
  BY PartTypes
<1>b. \A w : Tells(SortPart(w), ItemType, ItemType)
  BY PartTypes DEF Tells
<1>5. OfSort("output", Items(c)) = <<>>
  <2> DEFINE k == [b \in BlockType |-> OfSort("output", ItemPart[b])]
  <2>1. \A b \in BlockType : k[b] = <<>>
    BY SortOfBlock
  <2>2. Tells(k, BlockType, ItemType)
    BY <1>4, ItemLaws DEF Tells
  <2>3. \A b \in BlockType : k[b] = Told(SortPart("output"), ItemPart[b])
    BY <1>2, <1>4
  <2> HIDE DEF k
  <2>4. Told(SortPart("output"), Told(ItemPart, c)) = Told(k, c)
    BY <1>a, <1>b, <2>2, <2>3, ToldAgain
  <2>5. Told(k, c) = <<>>
    <3>1. \A i \in 1..Len(c) : c[i] \in BlockType
      BY ElementOfSeq
    <3> QED BY <2>1, <2>2, <3>1, ToldAsNothing
  <2> QED BY <1>1, <1>2, <1>3, <2>4, <2>5
<1>6. Tokens(OfSort("text", Items(c))) = TextOf("text", c)
  <2> DEFINE k == [b \in BlockType |-> OfSort("text", ItemPart[b])]
  <2>1. Tells(k, BlockType, ItemType)
    BY <1>4, ItemLaws DEF Tells
  <2>2. \A b \in BlockType : k[b] = Told(SortPart("text"), ItemPart[b])
    BY <1>2, <1>4
  <2>3. \A b \in BlockType : TextPart("text")[b] = Told(TokenPart, k[b])
    <3> SUFFICES ASSUME NEW b \in BlockType
                 PROVE  TextPart("text")[b] = Told(TokenPart, k[b])
      OBVIOUS
    <3>1. k[b] = Only(b.of = "text", Item("text", b.tokens, 0))
      BY SortOfBlock
    <3>2. Told(TokenPart, k[b]) = Tokens(k[b])
      <4>1. k[b] \in Seq(ItemType)
        BY <2>1 DEF Tells
      <4> HIDE DEF k
      <4> QED BY <4>1, AsTold
    <3>3. Item("text", b.tokens, 0) \in ItemType
      BY Fields, Makers
    <3>4. Item("text", b.tokens, 0).tokens = b.tokens
      BY DEF Item
    <3> HIDE DEF k
    <3>5. Tokens(k[b]) = IF b.of = "text" THEN b.tokens ELSE <<>>
      BY <3>1, <3>3, <3>4, TokenLaws DEF Only
    <3> QED BY <3>2, <3>5 DEF TextPart
  <2> HIDE DEF k
  <2>4. Told(SortPart("text"), Told(ItemPart, c)) = Told(k, c)
    BY <1>a, <1>b, <2>1, <2>2, ToldAgain
  <2>5. Told(TokenPart, Told(k, c)) = Told(TextPart("text"), c)
    <3>1. Tells(TextPart("text"), BlockType, Nat)
      BY PartTypes
    <3> QED BY <1>a, <2>1, <2>3, <3>1, ToldAgain
  <2>6. OfSort("text", Items(c)) = Told(k, c)
    BY <1>1, <1>2, <1>3, <2>4
  <2>7. OfSort("text", Items(c)) \in Seq(ItemType)
    BY <1>1, ItemLaws
  <2> QED BY <2>5, <2>6, <2>7, AsTold
<1>7. OfSort("call", Items(c))
        = [j \in DOMAIN CallsOf(c) |-> Item("call", <<>>, CallsOf(c)[j].index)]
  <2> DEFINE k == [b \in BlockType |-> OfSort("call", ItemPart[b])]
             g == [b \in BlockType |-> <<Item("call", <<>>, b.index)>>]
             d == CallsOf(c)
             r == [j \in DOMAIN d |-> Item("call", <<>>, d[j].index)]
  <2>0. \A b \in BlockType : Item("call", <<>>, b.index) \in ItemType
    <3>1. <<>> \in Seq(Nat)
      BY EmptySeq
    <3> QED BY <3>1, Fields, Makers
  <2>1. Tells(k, BlockType, ItemType)
    BY <1>4, ItemLaws DEF Tells
  <2>2. \A b \in BlockType : k[b] = Told(SortPart("call"), ItemPart[b])
    BY <1>2, <1>4
  <2>3. Tells(g, BlockType, ItemType)
    BY <2>0, ItemLaws DEF Tells
  <2>4. \A b \in BlockType : k[b] = Told(g, CallPart[b])
    <3> SUFFICES ASSUME NEW b \in BlockType PROVE k[b] = Told(g, CallPart[b])
      OBVIOUS
    <3>1. k[b] = Only(b.of = "call", Item("call", <<>>, b.index))
      BY SortOfBlock
    <3>2. CallPart[b] = Only(b.of = "call", b)
      BY DEF CallPart
    <3>3. g[b] = <<Item("call", <<>>, b.index)>>
      OBVIOUS
    <3> HIDE DEF k, g
    <3>4. Told(g, <<>>) = <<>> /\ Told(g, <<b>>) = g[b]
      BY <2>3, ToldLaws, ToldOfOne
    <3> QED BY <3>1, <3>2, <3>3, <3>4 DEF Only
  <2> HIDE DEF k, g
  <2>5. Told(SortPart("call"), Told(ItemPart, c)) = Told(k, c)
    BY <1>a, <1>b, <2>1, <2>2, ToldAgain
  <2>6. Told(g, Told(CallPart, c)) = Told(k, c)
    BY <1>a, <2>1, <2>3, <2>4, ToldAgain
  <2> HIDE DEF d
  <2>7. d \in Seq(BlockType)
    BY <1>1 DEF d
  <2>8. /\ Len(d) \in Nat /\ DOMAIN d = 1..Len(d)
        /\ \A j \in 1..Len(d) : d[j] \in BlockType
    BY <2>7, LenProperties, ElementOfSeq
  <2>9. r \in [1..Len(d) -> ItemType] /\ Len(r) = Len(d)
    BY <2>0, <2>8
  <2>10. r \in Seq(ItemType)
    BY <2>8, <2>9, SeqDef
  <2>11. \A j \in 1..Len(d) : g[d[j]] = <<r[j]>>
    BY <2>8 DEF g
  <2> HIDE DEF r
  <2>a. OneByOne(g, d, r)
    BY <2>9, <2>11 DEF OneByOne
  <2>12. Told(g, d) = r
    BY <2>3, <2>7, <2>10, <2>a, ToldAsOne
  <2> QED BY <1>1, <1>2, <1>3, <2>5, <2>6, <2>12 DEF d, r
<1> QED BY <1>5, <1>6, <1>7

\* The outputs of the calls handed over.
Outputs == [j \in DOMAIN handed |-> Item("output", <<>>, handed[j].index)]

\* The outputs are all of one sort.
LEMMA SortOfOutputs ==
  ASSUME handed \in Seq(BlockType)
  PROVE  /\ Outputs \in Seq(ItemType)
         /\ OfSort("output", Outputs) = Outputs
         /\ OfSort("call", Outputs) = <<>>
         /\ OfSort("text", Outputs) = <<>>
<1>1. /\ Len(handed) \in Nat /\ DOMAIN handed = 1..Len(handed)
      /\ \A j \in 1..Len(handed) : handed[j] \in BlockType
  BY LenProperties, ElementOfSeq
<1>2. \A b \in BlockType : /\ Item("output", <<>>, b.index) \in ItemType
                           /\ Item("output", <<>>, b.index).what = "output"
  <2>1. <<>> \in Seq(Nat)
    BY EmptySeq
  <2>2. \A b \in BlockType : Item("output", <<>>, b.index) \in ItemType
    BY <2>1, Fields, Makers
  <2>3. \A i : Item("output", <<>>, i).what = "output"
    BY DEF Item
  <2> QED BY <2>2, <2>3
<1>3. Outputs \in [1..Len(handed) -> ItemType] /\ Len(Outputs) = Len(handed)
  BY <1>1, <1>2 DEF Outputs
<1>4. Outputs \in Seq(ItemType)
  BY <1>1, <1>3, SeqDef
<1>5. \A j \in 1..Len(Outputs) : /\ Outputs[j] \in ItemType
                                 /\ Outputs[j].what = "output"
  BY <1>1, <1>2, <1>3 DEF Outputs
<1>6. \A w : /\ OfSort(w, Outputs) = Told(SortPart(w), Outputs)
             /\ Tells(SortPart(w), ItemType, ItemType)
  BY <1>4, AsTold, PartTypes
<1>7. ASSUME NEW w, NEW j \in 1..Len(Outputs)
      PROVE  SortPart(w)[Outputs[j]] = Only(w = "output", Outputs[j])
  BY <1>5 DEF SortPart
<1>8. OfSort("output", Outputs) = Outputs
  <2>1. OneByOne(SortPart("output"), Outputs, Outputs)
    BY <1>7 DEF OneByOne, Only
  <2>2. Told(SortPart("output"), Outputs) = Outputs
    BY <1>4, <1>6, <2>1, ToldAsOne
  <2> QED BY <1>6, <2>2
<1>9. ASSUME NEW w, w # "output" PROVE OfSort(w, Outputs) = <<>>
  <2>1. \A j \in 1..Len(Outputs) : SortPart(w)[Outputs[j]] = <<>>
    BY <1>7, <1>9 DEF Only
  <2>2. Tells(SortPart(w), ItemType, ItemType)
    BY <1>6
  <2>3. Told(SortPart(w), Outputs) = <<>>
    BY <1>4, <2>1, <2>2, ToldAsNothing
  <2> QED BY <1>6, <2>3
<1> QED BY <1>4, <1>8, <1>9

\* What is of one sort is of no other.
LEMMA SortAgain ==
  ASSUME NEW s \in Seq(ItemType), NEW w, NEW v
  PROVE  OfSort(v, OfSort(w, s)) = IF v = w THEN OfSort(w, s) ELSE <<>>
<1> DEFINE g == SortPart(w)
           h == SortPart(v)
           k == [t \in ItemType |-> OfSort(v, g[t])]
<1>1. Tells(g, ItemType, ItemType) /\ Tells(h, ItemType, ItemType)
  BY PartTypes
<1>2. \A t \in ItemType : g[t] \in Seq(ItemType) /\ g[t] = Only(t.what = w, t)
  BY <1>1 DEF Tells, SortPart
<1>3. Tells(k, ItemType, ItemType)
  <2>1. \A t \in ItemType : OfSort(v, g[t]) \in Seq(ItemType)
    <3> HIDE DEF g
    <3> QED BY <1>2, ItemLaws
  <2> HIDE DEF g
  <2> QED BY <2>1 DEF Tells
<1>4. \A t \in ItemType : k[t] = Told(h, g[t])
  <2> HIDE DEF g
  <2>1. \A x \in Seq(ItemType) : OfSort(v, x) = Told(h, x)
    BY AsTold
  <2> QED BY <1>2, <2>1
<1>5. \A t \in ItemType : k[t] = IF v = w THEN g[t] ELSE <<>>
  <2> SUFFICES ASSUME NEW t \in ItemType
               PROVE  k[t] = IF v = w THEN g[t] ELSE <<>>
    OBVIOUS
  <2>1. k[t] = OfSort(v, g[t])
    OBVIOUS
  <2> HIDE DEF g, h, k
  <2>2. OfSort(v, <<>>) = <<>> /\ OfSort(v, <<t>>) = Only(t.what = v, t)
    BY ItemLaws
  <2> QED BY <1>2, <2>1, <2>2 DEF Only
<1>6. OfSort(w, s) = Told(g, s) /\ OfSort(w, s) \in Seq(ItemType)
  BY AsTold, ItemLaws
<1>7. OfSort(v, OfSort(w, s)) = Told(h, OfSort(w, s))
  BY <1>6, AsTold
<1> HIDE DEF g, h, k
<1>8. Told(h, Told(g, s)) = Told(k, s)
  BY <1>1, <1>3, <1>4, ToldAgain
<1>9. CASE v = w
  <2>1. k = g
    <3>1. DOMAIN k = ItemType /\ k = [t \in ItemType |-> k[t]]
      BY <1>3 DEF Tells
    <3>2. DOMAIN g = ItemType /\ g = [t \in ItemType |-> g[t]]
      BY <1>1 DEF Tells
    <3> QED BY <1>5, <1>9, <3>1, <3>2
  <2> QED BY <1>6, <1>7, <1>8, <1>9, <2>1
<1>10. CASE v # w
  <2>1. \A i \in 1..Len(s) : k[s[i]] = <<>>
    BY <1>5, <1>10, ElementOfSeq
  <2>2. Told(k, s) = <<>>
    BY <1>3, <2>1, ToldAsNothing
  <2> QED BY <1>6, <1>7, <1>8, <1>10, <2>2
<1> QED BY <1>9, <1>10

\* The sorts of a request: its calls and its outputs, and its text.
LEMMA RequestRepeats ==
  ASSUME content \in Seq(BlockType), handed \in Seq(BlockType),
         CallsOf(content) = handed
  PROVE  /\ IndicesOf("call") = IndicesOf("output")
         /\ Tokens(OfSort("text", Request)) = TokensOf("text")
<1> DEFINE its == Items(content)
           calling == OfSort("call", its)
           text == OfSort("text", its)
           t == Item("text", Tokens(text), 0)
<1>1. its \in Seq(ItemType)
  BY BlockLaws
<1>2. /\ calling \in Seq(ItemType) /\ text \in Seq(ItemType)
      /\ OfSort("output", its) = <<>>
      /\ Tokens(text) = TokensOf("text")
      /\ calling = [j \in DOMAIN handed |-> Item("call", <<>>, handed[j].index)]
  BY <1>1, ItemLaws, SortOfItems DEF TokensOf
<1>3. /\ Outputs \in Seq(ItemType) /\ OfSort("output", Outputs) = Outputs
      /\ OfSort("call", Outputs) = <<>> /\ OfSort("text", Outputs) = <<>>
  BY SortOfOutputs
<1>4. ToModelMessages = [reply |-> content, results |-> Outputs]
  BY DEF ToModelMessages, Outputs
<1>5. \A w : \A a, b \in Seq(ItemType) :
        OfSort(w, a \o b) = OfSort(w, a) \o OfSort(w, b)
  BY ItemLaws
<1>6. /\ \A a, b \in Seq(ItemType) : a \o b \in Seq(ItemType)
      /\ \A a \in Seq(ItemType) : a \o <<>> = a /\ <<>> \o a = a
  BY ListLaws
<1>7. /\ OfSort("call", Request) = calling
      /\ OfSort("output", Request) = Outputs
      /\ Tokens(OfSort("text", Request)) = Tokens(text)
  <2>1. CASE provider = "codex"
    <3>1. Request = its \o Outputs
      BY <1>4, <2>1 DEF Request, CodexRequest, ConvertMessage
    <3> HIDE DEF its, calling, text, t
    <3>2. \A w : OfSort(w, Request) = OfSort(w, its) \o OfSort(w, Outputs)
      BY <1>1, <1>3, <1>5, <3>1
    <3>3. OfSort("call", Request) = calling \o <<>>
      BY <1>3, <3>2 DEF calling
    <3>4. OfSort("text", Request) = text \o <<>>
      BY <1>3, <3>2 DEF text
    <3>5. OfSort("output", Request) = <<>> \o Outputs
      BY <1>2, <1>3, <3>2
    <3> QED BY <1>2, <1>3, <1>6, <3>3, <3>4, <3>5
  <2>2. CASE provider # "codex"
    <3>1. Request = (<<t>> \o calling) \o Outputs
      BY <1>4, <2>2 DEF Request, OpenRouterRequest, ConvertAssistant
    <3>2. t \in ItemType /\ t.what = "text" /\ t.tokens = Tokens(text)
      <4>1. Tokens(text) \in Seq(Nat)
        BY <1>2, TokenLaws
      <4>2. Item("text", Tokens(text), 0) \in ItemType
        BY <4>1, Makers
      <4> HIDE DEF text
      <4> QED BY <4>2 DEF Item
    <3> HIDE DEF t
    <3>3. /\ <<t>> \in Seq(ItemType) /\ Tokens(<<t>>) = t.tokens
          /\ \A w : OfSort(w, <<t>>) = Only(t.what = w, t)
      BY <3>2, TokenLaws, ItemLaws
    <3>4. /\ OfSort("call", calling) = calling
          /\ OfSort("text", calling) = <<>>
          /\ OfSort("output", calling) = <<>>
      BY <1>1, SortAgain
    <3> HIDE DEF its, calling, text
    <3>5. <<t>> \o calling \in Seq(ItemType)
      BY <1>2, <1>6, <3>3
    <3>6. ASSUME NEW w
          PROVE  OfSort(w, Request)
                   = (OfSort(w, <<t>>) \o OfSort(w, calling))
                       \o OfSort(w, Outputs)
      <4>1. OfSort(w, <<t>> \o calling) = OfSort(w, <<t>>) \o OfSort(w, calling)
        BY <1>2, <1>5, <3>3
      <4>2. OfSort(w, (<<t>> \o calling) \o Outputs)
              = OfSort(w, <<t>> \o calling) \o OfSort(w, Outputs)
        BY <1>3, <1>5, <3>5
      <4> QED BY <3>1, <4>1, <4>2
    <3>7. /\ OfSort("call", <<t>>) = <<>> /\ OfSort("output", <<t>>) = <<>>
          /\ OfSort("text", <<t>>) = <<t>>
      BY <3>2, <3>3 DEF Only
    <3>8. OfSort("call", Request) = (<<>> \o calling) \o <<>>
      BY <1>3, <3>4, <3>6, <3>7
    <3>9. OfSort("output", Request) = (<<>> \o <<>>) \o Outputs
      BY <1>3, <3>4, <3>6, <3>7
    <3>10. OfSort("text", Request) = (<<t>> \o <<>>) \o <<>>
      BY <1>3, <3>4, <3>6, <3>7
    <3>11. OfSort("call", Request) = calling
      BY <1>2, <1>6, <3>8
    <3>12. OfSort("output", Request) = Outputs
      <4>1. <<>> \in Seq(ItemType)
        BY EmptySeq
      <4> QED BY <1>3, <1>6, <3>9, <4>1
    <3>13. OfSort("text", Request) = <<t>>
      BY <1>6, <3>3, <3>10
    <3> QED BY <3>2, <3>3, <3>11, <3>12, <3>13
  <2> QED BY <2>1, <2>2
<1>8. IndicesOf("call") = [i \in DOMAIN handed |-> handed[i].index]
  <2>1. IndicesOf("call") = [i \in DOMAIN calling |-> calling[i].index]
    BY <1>7 DEF IndicesOf
  <2>2. /\ DOMAIN calling = DOMAIN handed
        /\ \A j \in DOMAIN handed : calling[j].index = handed[j].index
    BY <1>2 DEF Item
  <2> HIDE DEF calling
  <2> QED BY <2>1, <2>2
<1>9. IndicesOf("output") = [i \in DOMAIN handed |-> handed[i].index]
  <2>1. IndicesOf("output") = [i \in DOMAIN Outputs |-> Outputs[i].index]
    BY <1>7 DEF IndicesOf
  <2>2. /\ DOMAIN Outputs = DOMAIN handed
        /\ \A j \in DOMAIN handed : Outputs[j].index = handed[j].index
    BY DEF Item, Outputs
  <2> QED BY <2>1, <2>2
<1> QED BY <1>2, <1>7, <1>8, <1>9

-----------------------------------------------------------------------------
(* The types of the variables.                                             *)

ToolType == [known : BOOLEAN, arguments : Nat]
Stages ==
  {"request", "streaming", "closed", "finishing", "interrupted", "over"}
CallStates == {"none", "open", "whole", "empty"}

\* The server and the parser.
SourceTyped ==
  /\ provider \in {"codex", "openrouter"} /\ driver \in {"core", "agent"}
  /\ item \in Kinds \cup {"none", "call", "ended"}
  /\ items \in Nat /\ items <= MaxItems /\ sent \in Nat
  /\ block \in [Kinds -> Seq(Nat)]
  /\ tools \in Seq(ToolType) /\ Len(tools) <= MaxItems
  /\ provider = "codex" => Len(tools) <= items
  /\ item = "call" => provider = "codex" /\ Len(tools) # 0
  /\ stopSeen \in StopReasons

\* The turn and what becomes of it.
TurnTyped ==
  /\ stage \in Stages
  /\ content \in Seq(BlockType) /\ buffer \in [Kinds -> Seq(Nat)]
  /\ calls \in [Indices -> CallStates]
  /\ turnStop \in StopReasons
  /\ shown \in Seq(EventType) /\ handed \in Seq(BlockType)
  /\ (result = "none") <=> (stage # "over")

Typed == SourceTyped /\ TurnTyped /\ pending \in Seq(EventType)

\* What a flush adds to the reply: blocks of text and of thinking that hold
\* what was buffered, and no call.
LEMMA FlushAdds ==
  ASSUME buffer \in [Kinds -> Seq(Nat)]
  PROVE  /\ Flush \in Seq(BlockType)
         /\ CallsOf(Flush) = <<>>
         /\ \A k \in Kinds : TextOf(k, Flush) = buffer[k]
<1>1. ASSUME NEW j \in Kinds
      PROVE  /\ Buffered(j) \in Seq(BlockType)
             /\ CallsOf(Buffered(j)) = <<>>
             /\ \A k \in Kinds : TextOf(k, Buffered(j))
                                   = IF k = j THEN buffer[k] ELSE <<>>
  <2> DEFINE b == Block(j, buffer[j])
  <2>1. b \in BlockType /\ b.of = j /\ b.tokens = buffer[j] /\ b.of # "call"
    <3>1. Block(j, buffer[j]) \in BlockType
      BY Makers
    <3> QED BY <3>1 DEF Block, Kinds
  <2>2. CASE buffer[j] = <<>>
    <3>1. Buffered(j) = <<>>
      BY <2>2 DEF Buffered, Only
    <3>2. <<>> \in Seq(BlockType)
      BY EmptySeq
    <3>3. \A k : TextOf(k, <<>>) = <<>>
      BY BlockTextLaws
    <3> QED BY <2>2, <3>1, <3>2, <3>3, BlockLaws
  <2>3. CASE buffer[j] # <<>>
    <3>1. Buffered(j) = <<b>>
      BY <2>3 DEF Buffered, Only
    <3> HIDE DEF b
    <3>2. <<b>> \in Seq(BlockType)
      BY <2>1, ListLaws
    <3>3. CallsOf(<<b>>) = <<>>
      BY <2>1, BlockLaws DEF Only
    <3>4. \A k : TextOf(k, <<b>>) = IF b.of = k THEN b.tokens ELSE <<>>
      BY <2>1, BlockTextLaws
    <3> QED BY <2>1, <3>1, <3>2, <3>3, <3>4
  <2> QED BY <2>2, <2>3
<1> DEFINE a == Buffered("thinking")
           c == Buffered("text")
<1>2. "thinking" \in Kinds /\ "text" \in Kinds
      /\ \A k \in Kinds : k = "text" \/ k = "thinking"
  BY DEF Kinds
<1>3. /\ a \in Seq(BlockType) /\ c \in Seq(BlockType)
      /\ CallsOf(a) = <<>> /\ CallsOf(c) = <<>>
  BY <1>1, <1>2
<1>4. Flush = a \o c
  BY DEF Flush
<1>5. \A k \in Kinds :
        /\ TextOf(k, a) = IF k = "thinking" THEN buffer[k] ELSE <<>>
        /\ TextOf(k, c) = IF k = "text" THEN buffer[k] ELSE <<>>
  BY <1>1, <1>2
<1> HIDE DEF a, c
<1>6. Flush \in Seq(BlockType)
  BY <1>3, <1>4, ListLaws
<1>7. CallsOf(Flush) = <<>>
  <2>1. CallsOf(Flush) = <<>> \o <<>>
    BY <1>3, <1>4, BlockLaws
  <2>2. <<>> \o <<>> = <<>>
    BY ListLaws
  <2> QED BY <2>1, <2>2
<1>8. ASSUME NEW k \in Kinds PROVE TextOf(k, Flush) = buffer[k]
  <2>1. TextOf(k, a \o c) = TextOf(k, a) \o TextOf(k, c)
    BY <1>3, BlockTextLaws
  <2>2. buffer[k] \in Seq(Nat)
    OBVIOUS
  <2>3. buffer[k] \o <<>> = buffer[k] /\ <<>> \o buffer[k] = buffer[k]
    BY <2>2, ListLaws
  <2> QED BY <1>2, <1>4, <1>5, <2>1, <2>3
<1> QED BY <1>6, <1>7, <1>8

\* A flush keeps the types of the turn.
LEMMA FlushTyped ==
  ASSUME content \in Seq(BlockType), buffer \in [Kinds -> Seq(Nat)], FlushTurn
  PROVE  content' \in Seq(BlockType) /\ buffer' \in [Kinds -> Seq(Nat)]
<1>1. content \o Flush \in Seq(BlockType)
  <2>1. Flush \in Seq(BlockType)
    BY FlushAdds
  <2> QED BY <2>1, ListLaws
<1>2. <<>> \in Seq(Nat)
  BY EmptySeq
<1> QED BY <1>1, <1>2 DEF FlushTurn, Bare

\* A push keeps the types of the turn.
LEMMA PushTyped ==
  ASSUME NEW e \in EventType, Push(e), content \in Seq(BlockType),
         buffer \in [Kinds -> Seq(Nat)], calls \in [Indices -> CallStates],
         turnStop \in StopReasons
  PROVE  /\ content' \in Seq(BlockType) /\ buffer' \in [Kinds -> Seq(Nat)]
         /\ calls' \in [Indices -> CallStates] /\ turnStop' \in StopReasons
<1>1. /\ e.of \in Kinds /\ e.tokens \in Seq(Nat) /\ e.index \in Indices
      /\ e.whole \in BOOLEAN /\ e.stop \in StopReasons
  BY Fields
<1>2. CASE e.kind = "delta"
  <2>1. buffer[e.of] \o e.tokens \in Seq(Nat)
    BY <1>1, ListLaws
  <2> QED BY <1>1, <1>2, <2>1 DEF Push
<1>3. CASE e.kind = "end"
  BY <1>1, <1>3 DEF Push
<1>4. CASE e.kind \in {"callStart", "callDelta"}
  <2>1. /\ calls' = [calls EXCEPT ![e.index] = IF IsNew(e) THEN "open" ELSE @]
        /\ UNCHANGED turnStop
        /\ FlushTurn \/ UNCHANGED <<content, buffer>>
    BY <1>4 DEF Push
  <2>2. calls' \in [Indices -> CallStates]
    BY <1>1, <2>1 DEF CallStates
  <2> QED BY <2>1, <2>2, FlushTyped
<1>5. CASE e.kind = "callEnd"
  <2>1. CallBlock(e.index, e.whole) \in BlockType
    <3>1. e.index \in Nat
      BY <1>1 DEF Indices
    <3> QED BY <1>1, <3>1, Makers
  <2>2. Append(content, CallBlock(e.index, e.whole)) \in Seq(BlockType)
    BY <2>1, AppendProperties
  <2>3. /\ calls' = [calls EXCEPT ![e.index] =
                       IF e.whole THEN "whole" ELSE "empty"]
        /\ content' = Append(content, CallBlock(e.index, e.whole))
        /\ UNCHANGED <<buffer, turnStop>>
    BY <1>5 DEF Push
  <2>4. calls' \in [Indices -> CallStates]
    BY <1>1, <2>3 DEF CallStates
  <2> QED BY <2>2, <2>3, <2>4
<1>6. CASE e.kind \notin {"delta", "end", "callStart", "callDelta", "callEnd"}
  BY <1>1, <1>6 DEF Push
<1> QED BY <1>2, <1>3, <1>4, <1>5, <1>6

\* Events are announced.
LEMMA AnnouncedTyped ==
  ASSUME NEW e \in EventType
  PROVE  Announced(e) \in Seq(EventType)
<1>1. <<e>> \in Seq(EventType) /\ <<>> \in Seq(EventType)
  BY ListLaws
<1>2. Only(IsNew(e), e) \in Seq(EventType)
  BY <1>1 DEF Only
<1>3. Only(IsNew(e), CallEvent("callStart", e.index, e.known)) \o <<e>>
        \in Seq(EventType)
  <2> DEFINE f == CallEvent("callStart", e.index, e.known)
  <2>1. f \in EventType
    BY Fields, Makers DEF CallKinds
  <2>2. Only(IsNew(e), f) \in Seq(EventType)
    <3> HIDE DEF f
    <3>1. <<f>> \in Seq(EventType)
      BY <2>1, ListLaws
    <3> QED BY <1>1, <3>1 DEF Only
  <2> QED BY <1>1, <2>2, ListLaws
<1> QED BY <1>1, <1>2, <1>3 DEF Announced

\* The calls handed over are blocks of calls.
LEMMA AssembledTyped ==
  ASSUME calls \in [Indices -> CallStates]
  PROVE  Assembled \in Seq(BlockType)
<1> DEFINE g == [i \in Indices |->
                   Only(i \in FinishedCalls, CallBlock(i, calls[i] = "whole"))]
<1>1. Tells(g, Indices, BlockType)
  <2>1. ASSUME NEW i \in Indices
        PROVE  Only(i \in FinishedCalls, CallBlock(i, calls[i] = "whole"))
                 \in Seq(BlockType)
    <3>1. i \in Nat
      BY DEF Indices
    <3>2. CallBlock(i, calls[i] = "whole") \in BlockType
      BY <3>1, Makers
    <3>3. /\ <<CallBlock(i, calls[i] = "whole")>> \in Seq(BlockType)
          /\ <<>> \in Seq(BlockType)
      BY <3>2, ListLaws
    <3> QED BY <3>3 DEF Only
  <2> QED BY <2>1 DEF Tells
<1>2. Assembled = Told(g, Numbers(MaxItems))
  <2>1. DOMAIN Numbers(MaxItems) = Indices
        /\ \A i \in Indices : Numbers(MaxItems)[i] = i
    BY DEF Numbers, Indices
  <2>2. [i \in DOMAIN Numbers(MaxItems) |-> g[Numbers(MaxItems)[i]]]
          = [i \in Indices |->
               Only(i \in FinishedCalls, CallBlock(i, calls[i] = "whole"))]
    BY <2>1
  <2> HIDE DEF g
  <2> QED BY <2>2 DEF Told, Assembled
<1>3. Numbers(MaxItems) \in Seq(Indices)
  BY NumbersGrow DEF Indices
<1> HIDE DEF g
<1> QED BY <1>1, <1>2, <1>3, ToldIsList

\* A text item is no call, and neither none nor the end.
LEMMA KindsApart ==
  /\ "text" \in Kinds /\ "thinking" \in Kinds
  /\ \A k \in Kinds : k \notin {"none", "call", "ended"}
BY DEF Kinds

\* One event after the other: a list of one.
LEMMA OneEvent ==
  ASSUME NEW e \in EventType
  PROVE  /\ <<e>> \in Seq(EventType) /\ Len(<<e>>) = 1 /\ <<e>>[1] = e
         /\ \A is \in BOOLEAN : Only(is, e) \in Seq(EventType)
<1>1. <<e>> \in Seq(EventType)
  BY ListLaws
<1> QED BY <1>1, OnlyIsList

\* The next token keeps the types of the parser.
LEMMA TokenTyped ==
  ASSUME SourceTyped, NEW k \in Kinds, Token(k)
  PROVE  /\ sent' \in Nat /\ block' \in [Kinds -> Seq(Nat)]
         /\ pending' \in Seq(EventType)
<1>1. sent + 1 \in Nat
  BY DEF SourceTyped
<1>2. Append(block[k], sent + 1) \in Seq(Nat)
  <2>1. block[k] \in Seq(Nat)
    BY DEF SourceTyped
  <2> QED BY <1>1, <2>1, AppendProperties
<1>3. <<Delta(k, sent + 1)>> \in Seq(EventType)
  BY <1>1, Makers, OneEvent
<1> QED BY <1>1, <1>2, <1>3 DEF Token, SourceTyped

\* The types of a call's entry when it is merged, and of the events of that.
LEMMA MergedTyped ==
  ASSUME NEW i \in Indices, NEW old \in ToolType, NEW named \in BOOLEAN,
         NEW n \in 0..1
  PROVE  /\ Merged(old, named, n) \in ToolType
         /\ \A new \in ToolType : MergedEvents(i, old, new) \in Seq(EventType)
<1>1. Merged(old, named, n) \in ToolType
  BY DEF Merged, ToolType
<1>2. ASSUME NEW new \in ToolType
      PROVE  MergedEvents(i, old, new) \in Seq(EventType)
  <2>1. /\ CallEvent("callStart", i, TRUE) \in EventType
        /\ CallEvent("callDelta", i, new.known) \in EventType
    BY Makers DEF CallKinds, ToolType
  <2>2. /\ Only(new.known /\ ~old.known, CallEvent("callStart", i, TRUE))
             \in Seq(EventType)
        /\ Only(new.arguments # old.arguments,
                CallEvent("callDelta", i, new.known)) \in Seq(EventType)
    <3>1. (new.known /\ ~old.known) \in BOOLEAN
          /\ (new.arguments # old.arguments) \in BOOLEAN
      OBVIOUS
    <3> QED BY <2>1, <3>1, OnlyIsList
  <2> QED BY <2>2, ListLaws DEF MergedEvents
<1> QED BY <1>1, <1>2

\* The entry after the last is where the next is added.
LEMMA AddTool ==
  ASSUME SourceTyped, NEW t \in ToolType
  PROVE  /\ Append(tools, t) \in Seq(ToolType)
         /\ Len(Append(tools, t)) = Len(tools) + 1
         /\ Append(tools, t)[Len(tools) + 1] = t
         /\ \A i \in 1..Len(tools) : Append(tools, t)[i] = tools[i]
         /\ \A i \in 1..Len(tools) :
              /\ [tools EXCEPT ![i] = t] \in Seq(ToolType)
              /\ Len([tools EXCEPT ![i] = t]) = Len(tools)
              /\ [tools EXCEPT ![i] = t][i] = t
              /\ \A j \in 1..Len(tools) :
                   j # i => [tools EXCEPT ![i] = t][j] = tools[j]
<1>1. tools \in Seq(ToolType)
  BY DEF SourceTyped
<1>2. /\ Append(tools, t) \in Seq(ToolType)
      /\ Len(Append(tools, t)) = Len(tools) + 1
      /\ Append(tools, t)[Len(tools) + 1] = t
      /\ \A i \in 1..Len(tools) : Append(tools, t)[i] = tools[i]
  BY <1>1, AppendProperties
<1>3. ASSUME NEW i \in 1..Len(tools)
      PROVE  /\ [tools EXCEPT ![i] = t] \in Seq(ToolType)
             /\ Len([tools EXCEPT ![i] = t]) = Len(tools)
             /\ \A j \in 1..Len(tools) : [tools EXCEPT ![i] = t][j]
                                           = IF j = i THEN t ELSE tools[j]
  BY <1>1, ExceptSeq
<1> QED BY <1>2, <1>3

\* What is held of the calls is a list with a place for each.
LEMMA ToolFacts ==
  ASSUME SourceTyped
  PROVE  /\ Len(tools) \in Nat /\ DOMAIN tools = 1..Len(tools)
         /\ \A i \in 1..Len(tools) :
              tools[i] \in ToolType /\ i \in Indices
              /\ tools[i].known \in BOOLEAN /\ tools[i].arguments \in Nat
         /\ Count = Len(tools)
<1>1. tools \in Seq(ToolType)
  BY DEF SourceTyped
<1>2. /\ Len(tools) \in Nat /\ DOMAIN tools = 1..Len(tools)
      /\ \A i \in 1..Len(tools) : tools[i] \in ToolType
  BY <1>1, LenProperties, ElementOfSeq
<1>3. \A i \in 1..Len(tools) : i \in Indices
  BY <1>2 DEF SourceTyped, Indices
<1> QED BY <1>2, <1>3 DEF ToolType, Count

\* A new item keeps the types of the parser.
LEMMA ItemAddedTyped ==
  ASSUME SourceTyped, ItemAdded
  PROVE  SourceTyped' /\ pending' \in Seq(EventType)
<1> USE KindsApart
<1>1. /\ items < MaxItems /\ items' = items + 1 /\ provider = "codex"
      /\ UNCHANGED <<provider, driver, sent, stopSeen>>
  BY DEF ItemAdded, Codex
<1>2. <<>> \in Seq(Nat) /\ <<>> \in Seq(EventType)
  BY EmptySeq
<1>3. ASSUME NEW k \in Kinds, item' = k, block' = [block EXCEPT ![k] = <<>>],
             pending' = AddedEvents(k, TRUE), UNCHANGED tools
      PROVE  SourceTyped' /\ pending' \in Seq(EventType)
  <2>1. pending' = <<>>
    BY <1>3 DEF AddedEvents, Only
  <2>2. block' \in [Kinds -> Seq(Nat)]
    BY <1>2, <1>3 DEF SourceTyped
  <2>3. items' \in Nat /\ items' <= MaxItems /\ Len(tools) <= items'
    <3>1. Len(tools) \in Nat
      BY ToolFacts
    <3> QED BY <1>1, <3>1 DEF SourceTyped
  <2> QED BY <1>1, <1>2, <1>3, <2>1, <2>2, <2>3 DEF SourceTyped
<1>4. ASSUME NEW known \in BOOLEAN, item' = "call",
             tools' = Append(tools, [known |-> known, arguments |-> 0]),
             pending' = AddedEvents("call", known), UNCHANGED block
      PROVE  SourceTyped' /\ pending' \in Seq(EventType)
  <2> DEFINE t == [known |-> known, arguments |-> 0]
  <2>1. t \in ToolType
    BY DEF ToolType
  <2> HIDE DEF t
  <2>2. /\ tools' \in Seq(ToolType) /\ Len(tools') = Len(tools) + 1
        /\ Len(tools) \in Nat
    BY <1>4, <2>1, AddTool, ToolFacts DEF t
  <2>3. /\ Len(tools') <= items' /\ Len(tools') <= MaxItems /\ Len(tools') # 0
        /\ items' \in Nat /\ items' <= MaxItems
    BY <1>1, <2>2 DEF SourceTyped
  <2>4. pending' \in Seq(EventType)
    <3>1. Count + 1 \in Indices
      BY <2>2, <2>3 DEF Count, Indices
    <3>2. CallEvent("callStart", Count + 1, known) \in EventType
      BY <3>1, Makers DEF CallKinds
    <3>3. pending' = <<CallEvent("callStart", Count + 1, known)>>
      BY <1>4 DEF AddedEvents, Only
    <3> QED BY <3>2, <3>3, OneEvent
  <2> QED BY <1>1, <1>4, <2>2, <2>3, <2>4 DEF SourceTyped
<1> QED BY <1>3, <1>4 DEF ItemAdded

\* A fragment of arguments keeps them.
LEMMA ArgumentsTyped ==
  ASSUME SourceTyped, ArgumentsArrive
  PROVE  SourceTyped' /\ pending' \in Seq(EventType)
<1>1. /\ Count \in 1..Len(tools) /\ Count \in Indices
      /\ LastTool.known \in BOOLEAN /\ LastTool.arguments \in Nat
      /\ tools[Count] \in ToolType
  BY ToolFacts DEF LastTool, ArgumentsArrive, SourceTyped
<1>2. PICK n \in {LastTool.arguments + 1, Fragments} :
        tools' = [tools EXCEPT ![Count].arguments = n]
  BY DEF ArgumentsArrive
<1>3. n \in Nat
  BY <1>1
<1> DEFINE t == [tools[Count] EXCEPT !.arguments = n]
<1>4. t \in ToolType
  BY <1>1, <1>3 DEF ToolType
<1>5. tools' = [tools EXCEPT ![Count] = t]
  BY <1>2
<1> HIDE DEF t
<1>6. tools' \in Seq(ToolType) /\ Len(tools') = Len(tools)
  BY <1>1, <1>4, <1>5, AddTool
<1>7. pending' \in Seq(EventType)
  <2>1. CallEvent("callDelta", Count, LastTool.known) \in EventType
    BY <1>1, Makers DEF CallKinds
  <2> QED BY <2>1, OneEvent DEF ArgumentsArrive
<1> QED BY <1>6, <1>7 DEF ArgumentsArrive, SourceTyped, server

\* An entry of tool_calls keeps them.
LEMMA CallDeltaTyped ==
  ASSUME SourceTyped, CallDelta
  PROVE  SourceTyped' /\ pending' \in Seq(EventType)
<1>1. PICK i \in 1..(Count + 1), named \in BOOLEAN, n \in 0..1 :
        LET old == IF i <= Count THEN tools[i]
                   ELSE [known |-> FALSE, arguments |-> 0]
            new == Merged(old, named, n)
        IN  /\ i <= MaxItems /\ new # old /\ new.arguments <= Fragments
            /\ tools' = IF i <= Count THEN [tools EXCEPT ![i] = new]
                        ELSE Append(tools, new)
            /\ pending' = MergedEvents(i, old, new)
  BY DEF CallDelta
<1> DEFINE old == IF i <= Count THEN tools[i]
                  ELSE [known |-> FALSE, arguments |-> 0]
           new == Merged(old, named, n)
<1>2. /\ i <= MaxItems /\ pending' = MergedEvents(i, old, new)
      /\ i <= Count => tools' = [tools EXCEPT ![i] = new]
      /\ ~(i <= Count) => tools' = Append(tools, new)
  BY <1>1
<1>3. /\ Count \in Nat /\ Count = Len(tools)
      /\ i \in 1..(Count + 1) /\ i \in Indices
  BY <1>2, ToolFacts DEF Indices
<1>4. old \in ToolType
  <2>1. CASE i <= Count
    <3>1. i \in 1..Len(tools)
      BY <1>3, <2>1
    <3> QED BY <2>1, <3>1, ToolFacts
  <2>2. CASE ~(i <= Count)
    BY <2>2 DEF ToolType
  <2> QED BY <2>1, <2>2
<1> HIDE DEF old
<1>5. new \in ToolType /\ pending' \in Seq(EventType)
  BY <1>2, <1>3, <1>4, MergedTyped
<1> HIDE DEF new
<1>6. tools' \in Seq(ToolType) /\ Len(tools') <= MaxItems
  <2>1. CASE i <= Count
    <3>1. i \in 1..Len(tools)
      BY <1>3, <2>1
    <3> QED BY <1>2, <1>5, <2>1, <3>1, AddTool DEF SourceTyped
  <2>2. CASE ~(i <= Count)
    <3>1. i = Len(tools) + 1
      BY <1>3, <2>2
    <3> QED BY <1>2, <1>5, <2>2, <3>1, AddTool
  <2> QED BY <2>1, <2>2
<1>7. provider # "codex"
  BY DEF CallDelta, OpenRouter
<1> QED BY <1>5, <1>6, <1>7 DEF CallDelta, SourceTyped, server

\* What the flush of an openrouter stream says of each call that has a name.
FlushPart ==
  [i \in 1..Len(tools) |->
     Only(tools[i].known, CallEnd(i, tools[i].arguments = Fragments))]

\* What the parser flushes at the end of a stream are ends of calls, in
\* their order; of a codex stream none.
LEMMA FlushedEnds ==
  ASSUME SourceTyped
  PROVE  /\ Flushed \in Seq(EventType)
         /\ provider = "codex" => Flushed = <<>>
         /\ provider # "codex" => ByIndex(FlushPart, Len(tools), Flushed)
         /\ \A p \in 1..Len(Flushed) : Flushed[p].kind = "callEnd"
<1>1. CASE provider = "codex"
  <2>1. Flushed = <<>>
    BY <1>1 DEF Flushed
  <2> QED BY <1>1, <2>1, EmptySeq
<1>2. CASE provider # "codex"
  <2> DEFINE m == Len(tools)
             g == FlushPart
  <2>1. m \in Nat /\ DOMAIN tools = 1..m
    BY ToolFacts
  <2>2. ASSUME NEW i \in 1..m
        PROVE  /\ g[i] \in Seq(EventType)
               /\ g[i] # <<>> => \E x \in EventType :
                                   g[i] = <<x>> /\ x.index = i
               /\ \A x : g[i] = <<x>> => x.kind = "callEnd"
    <3> DEFINE x == CallEnd(i, tools[i].arguments = Fragments)
    <3>1. x \in EventType /\ x.index = i /\ x.kind = "callEnd"
      <4>1. i \in Indices
        BY ToolFacts
      <4>2. CallEnd(i, tools[i].arguments = Fragments) \in EventType
        BY <4>1, Makers
      <4> QED BY <4>2 DEF CallEnd, NoEvent
    <3>2. g[i] = Only(tools[i].known, x)
      BY DEF FlushPart
    <3> HIDE DEF x, g
    <3>3. <<x>> \in Seq(EventType) /\ <<>> \in Seq(EventType)
      BY <3>1, ListLaws
    <3>4. CASE tools[i].known
      <4>1. g[i] = <<x>>
        BY <3>2, <3>4 DEF Only
      <4> QED BY <3>1, <3>3, <4>1
    <3>5. CASE ~tools[i].known
      <4>1. g[i] = <<>>
        BY <3>2, <3>5 DEF Only
      <4>2. \A y : <<y>> # <<>>
        OBVIOUS
      <4> QED BY <3>3, <4>1, <4>2
    <3> QED BY <3>4, <3>5
  <2>3. g \in [1..m -> Seq(EventType)]
    BY <2>2 DEF FlushPart
  <2>4. Flushed = Told(g, Numbers(m))
    <3>1. /\ DOMAIN Numbers(m) = DOMAIN tools
          /\ \A i \in DOMAIN tools : Numbers(m)[i] = i
      BY <2>1 DEF Numbers
    <3>2. [i \in DOMAIN Numbers(m) |-> g[Numbers(m)[i]]]
            = [i \in DOMAIN tools |->
                 Only(tools[i].known,
                      CallEnd(i, tools[i].arguments = Fragments))]
      BY <2>1, <3>1 DEF FlushPart
    <3> HIDE DEF g
    <3> QED BY <1>2, <3>2 DEF Told, Flushed
  <2> HIDE DEF g
  <2>5. ByIndex(g, m, Told(g, Numbers(m)))
    BY <2>1, <2>2, <2>3, ToldByIndex
  <2>6. Told(g, Numbers(m)) \in Seq(EventType)
    <3>1. m \in 0..m
      BY <2>1
    <3> QED BY <2>1, <2>3, <3>1, ToldNumbers
  <2>7. \A p \in 1..Len(Flushed) : Flushed[p].kind = "callEnd"
    <3>1. \A i \in 1..m : \A x : g[i] = <<x>> => x.kind = "callEnd"
      BY <2>2
    <3> SUFFICES ASSUME NEW p \in 1..Len(Flushed)
                 PROVE  Flushed[p].kind = "callEnd"
      OBVIOUS
    <3> DEFINE x == Flushed[p]
    <3>2. x.index \in 1..m /\ g[x.index] = <<x>>
      BY <2>4, <2>5 DEF ByIndex
    <3> HIDE DEF x
    <3>3. x.kind = "callEnd"
      BY <3>1, <3>2
    <3> QED BY <3>3 DEF x
  <2> QED BY <1>2, <2>4, <2>5, <2>6, <2>7 DEF g
<1> QED BY <1>1, <1>2

\* The end of the stream keeps the types of the parser.
LEMMA ClosesTyped ==
  ASSUME SourceTyped, StreamCloses
  PROVE  SourceTyped' /\ pending' \in Seq(EventType)
<1>1. FinalStop \in StopReasons
  BY DEF FinalStop, SourceTyped, StopReasons
<1>2. Done(FinalStop) \in EventType
  BY <1>1, Makers
<1>3. Append(Flushed, Done(FinalStop)) \in Seq(EventType)
  BY <1>2, FlushedEnds, AppendProperties
<1> QED BY <1>3 DEF StreamCloses, SourceTyped, server, parser

\* Each step of the model keeps the types.
LEMMA StepKeepsTypes == Typed /\ [Next]_vars => Typed'
<1> SUFFICES ASSUME Typed, [Next]_vars PROVE Typed'
  OBVIOUS
<1> USE DEF Typed
<1>1. CASE UNCHANGED vars
  BY <1>1 DEF vars, server, parser, turn, outcome, SourceTyped, TurnTyped
<1>2. CASE Answered \/ Retry \/ Abort
  BY <1>2 DEF Answered, Retry, Abort, server, parser, turn, outcome,
              SourceTyped, TurnTyped, Stages
<1>3. CASE ItemAdded
  <2>1. TurnTyped'
    BY <1>3 DEF ItemAdded, turn, outcome, TurnTyped
  <2> QED BY <1>3, <2>1, ItemAddedTyped
<1>4. CASE ItemDelta \/ ContentDelta
  <2>1. PICK k \in Kinds : Token(k)
    BY <1>4 DEF ItemDelta, ContentDelta
  <2>2. SourceTyped' /\ pending' \in Seq(EventType)
    <3>1. /\ sent' \in Nat /\ block' \in [Kinds -> Seq(Nat)]
          /\ pending' \in Seq(EventType)
      BY <2>1, TokenTyped
    <3> QED BY <1>4, <3>1 DEF ItemDelta, ContentDelta, SourceTyped
  <2>3. TurnTyped'
    BY <1>4 DEF ItemDelta, ContentDelta, turn, outcome, TurnTyped
  <2> QED BY <2>2, <2>3
<1>5. CASE ArgumentsArrive
  <2>1. TurnTyped'
    BY <1>5 DEF ArgumentsArrive, turn, outcome, TurnTyped
  <2> QED BY <1>5, <2>1, ArgumentsTyped
<1>6. CASE ItemDone
  <2>1. TurnTyped'
    BY <1>6 DEF ItemDone, turn, outcome, TurnTyped
  <2>2. SourceTyped'
    BY <1>6 DEF ItemDone, SourceTyped, parser
  <2>3. pending' \in Seq(EventType)
    <3>1. CASE item \in Kinds
      <4>1. End(item, block[item]) \in EventType
        <5>1. block[item] \in Seq(Nat)
          BY <3>1 DEF SourceTyped
        <5> QED BY <3>1, <5>1, Makers
      <4>2. pending' = <<End(item, block[item])>>
        BY <1>6, <3>1, KindsApart DEF ItemDone
      <4> QED BY <4>1, <4>2, OneEvent
    <3>2. CASE item \notin Kinds /\ item = "call" /\ LastTool.known
      <4>1. CallEnd(Count, TRUE) \in EventType
        <5>1. Count \in 1..Len(tools)
          BY <3>2, ToolFacts DEF SourceTyped
        <5> QED BY <5>1, ToolFacts, Makers
      <4>2. pending' = <<CallEnd(Count, TRUE)>>
        BY <1>6, <3>2 DEF ItemDone
      <4> QED BY <4>1, <4>2, OneEvent
    <3>3. CASE item \notin Kinds /\ ~(item = "call" /\ LastTool.known)
      <4>1. pending' = <<>>
        BY <1>6, <3>3 DEF ItemDone
      <4> QED BY <4>1, EmptySeq
    <3> QED BY <3>1, <3>2, <3>3
  <2> QED BY <2>1, <2>2, <2>3
<1>7. CASE Completed \/ FinishReason
  BY <1>7 DEF Completed, FinishReason, turn, outcome, SourceTyped, TurnTyped,
              StopReasons, Kinds
<1>8. CASE CallDelta
  <2>1. TurnTyped'
    BY <1>8 DEF CallDelta, turn, outcome, TurnTyped
  <2> QED BY <1>8, <2>1, CallDeltaTyped
<1>9. CASE StreamCloses
  <2>1. TurnTyped'
    BY <1>9 DEF StreamCloses, turn, outcome, TurnTyped, Stages, Reading
  <2> QED BY <1>9, <2>1, ClosesTyped
<1>10. CASE TakeEvent \/ PushInterrupted
  <2>1. /\ pending # <<>> /\ Push(Event) /\ pending' = Tail(pending)
        /\ Running
        /\ UNCHANGED <<provider, driver, server, parser, outcome>>
    BY <1>10 DEF TakeEvent, PushInterrupted
  <2>2. Event \in EventType /\ pending' \in Seq(EventType)
    BY <2>1, HeadTailProperties DEF Event
  <2>3. /\ content' \in Seq(BlockType) /\ buffer' \in [Kinds -> Seq(Nat)]
        /\ calls' \in [Indices -> CallStates] /\ turnStop' \in StopReasons
    BY <2>1, <2>2, PushTyped DEF TurnTyped
  <2>4. SourceTyped'
    BY <2>1 DEF SourceTyped, server, parser
  <2>5. shown' \in Seq(EventType)
    <3>1. Announced(Event) \in Seq(EventType)
      BY <2>2, AnnouncedTyped
    <3>2. CASE TakeEvent
      BY <3>1, <3>2, ListLaws DEF TakeEvent, TurnTyped
    <3>3. CASE PushInterrupted
      <4>1. PICK n \in 0..(Len(Announced(Event)) - 1) :
              shown' = shown \o SubSeq(Announced(Event), 1, n)
        BY <3>3 DEF PushInterrupted
      <4>2. SubSeq(Announced(Event), 1, n) \in Seq(EventType)
        <5>1. /\ Len(Announced(Event)) \in Nat
              /\ \A i \in 1..Len(Announced(Event)) :
                   Announced(Event)[i] \in EventType
          BY <3>1, LenProperties, ElementOfSeq
        <5>2. \A i \in 1..n : i \in 1..Len(Announced(Event))
          BY <5>1
        <5>3. n \in Int /\ \A i \in 1..n : Announced(Event)[i] \in EventType
          BY <5>1, <5>2
        <5> QED BY <5>3, SubSeqProperties
      <4> QED BY <4>1, <4>2, ListLaws DEF TurnTyped
    <3> QED BY <1>10, <3>2, <3>3
  <2>6. stage' \in Stages /\ stage' # "over" /\ stage # "over"
    BY <1>10, <2>1 DEF TakeEvent, PushInterrupted, TurnTyped, Stages, Running
  <2> QED BY <2>1, <2>2, <2>3, <2>4, <2>5, <2>6 DEF TurnTyped, outcome
<1>11. CASE \/ CancelInterrupted \/ Interrupt \/ RefuseReply \/ StreamBreaks
            \/ RequestFails \/ FinishTurn
  <2>1. UNCHANGED <<provider, driver, server, parser, pending>>
    BY <1>11 DEF CancelInterrupted, Interrupt, RefuseReply, StreamBreaks,
                 RequestFails, FinishTurn, HandleError
  <2>2. SourceTyped'
    BY <2>1 DEF SourceTyped, server, parser
  <2>3. /\ stage' = "over" /\ UNCHANGED shown /\ result' # "none"
        /\ UNCHANGED <<calls, turnStop>>
        /\ FlushTurn \/ UNCHANGED <<content, buffer>>
        /\ handed' \in {<<>>, Assembled}
    BY <1>11 DEF CancelInterrupted, Interrupt, RefuseReply, StreamBreaks,
                 RequestFails, FinishTurn, HandleError, CancelTurn, FailTurn,
                 turn
  <2>4. content' \in Seq(BlockType) /\ buffer' \in [Kinds -> Seq(Nat)]
    BY <2>3, FlushTyped DEF TurnTyped
  <2>5. handed' \in Seq(BlockType)
    BY <2>3, AssembledTyped, EmptySeq DEF TurnTyped
  <2> QED BY <2>1, <2>2, <2>3, <2>4, <2>5 DEF TurnTyped, Stages
<1> QED BY <1>1, <1>2, <1>3, <1>4, <1>5, <1>6, <1>7, <1>8, <1>9, <1>10, <1>11
        DEF Next, ServerStep, DriverStep, RequestStep

-----------------------------------------------------------------------------
(* The calls of a turn that is not over.                                   *)

Live == stage \notin {"interrupted", "over"}
IsEnd(e) == e.kind = "callEnd"
Begins(e) == e.kind \in {"callStart", "callDelta"}
Waiting == 1..Len(pending)
Begun == 1..Len(tools)

\* Where what is yielded stands: nothing before and after the stream, events
\* of items while it is read, and at its end the flush and the one Done.
Flow ==
  /\ stage \in {"request", "finishing"} => Len(pending) = 0
  /\ stage = "streaming" => \A p \in Waiting : pending[p].kind # "done"
  /\ stage = "closed" =>
       /\ Len(pending) # 0
       /\ pending[Len(pending)] = Done(FinalStop)
       /\ \A p \in Waiting : p # Len(pending) => IsEnd(pending[p])
  /\ stage = "finishing" => turnStop = FinalStop

\* A call is complete before the next item, and before the stop reason, unless
\* that says that the reply was cut short.
Stops ==
  /\ provider = "codex" => stopSeen \in {"stop", "length"}
  /\ stopSeen # "stop" => item = "ended"
  /\ stopSeen = "toolUse" =>
       Len(tools) # 0 /\ \A i \in Begun : tools[i].arguments = Fragments
  /\ provider = "codex" /\ stopSeen = "stop" =>
       \A i \in Begun :
         i < Len(tools) \/ item # "call" => tools[i].arguments = Fragments

\* The ends that wait are of open calls, come in the order of the calls, and
\* behind those that were taken; nothing is told of a call behind its end.
Ends ==
  \A p \in Waiting :
    /\ IsEnd(pending[p]) =>
         /\ calls[pending[p].index] = "open"
         /\ \A i \in FinishedCalls : i < pending[p].index
         /\ \A q \in Waiting :
              p < q => /\ ~Begins(pending[q])
                       /\ IsEnd(pending[q]) =>
                            pending[p].index < pending[q].index
    /\ Begins(pending[p]) =>
         pending[p].index \in Begun /\ pending[p].index \notin FinishedCalls

\* The kernel hears of a call as soon as there is something to be heard.
Audible(i) ==
  provider = "codex" \/ tools[i].known \/ tools[i].arguments # 0
Heard ==
  \A i \in Begun :
    Audible(i) =>
      \/ calls[i] # "none"
      \/ \E p \in Waiting : Begins(pending[p]) /\ pending[p].index = i

\* The calls that are ended, or will be by what waits, are those that have a
\* name and are complete: of codex one that is not the open item, of openrouter
\* all when the stream has closed.
Ended(i) ==
  \/ i \in FinishedCalls
  \/ \E p \in Waiting : IsEnd(pending[p]) /\ pending[p].index = i
Due(i) ==
  /\ i \in Begun /\ tools[i].known
  /\ IF provider = "codex" THEN i < Len(tools) \/ item # "call"
     ELSE stage \in {"closed", "finishing"}
CutShort == provider = "codex" /\ stopSeen = "length"
Owed == ~CutShort => \A i \in Indices : Ended(i) <=> Due(i)

CallsInOrder == CallsOf(content) = Assembled

CallsSound == Flow /\ Stops /\ Ends /\ Heard /\ Owed /\ CallsInOrder

\* What the parser finds when everything it yielded was taken.
LEMMA NothingWaits ==
  ASSUME Typed, CallsSound, stage = "streaming", pending = <<>>
  PROVE  /\ Len(pending) = 0 /\ Waiting = {}
         /\ \A i \in Begun : Audible(i) => calls[i] # "none"
         /\ ~CutShort => \A i \in Indices : i \in FinishedCalls <=> Due(i)
<1>1. Len(pending) = 0
  BY EmptySeq
<1>2. Waiting = {}
  BY <1>1 DEF Waiting
<1> QED BY <1>1, <1>2 DEF CallsSound, Heard, Owed, Ended

\* A step of the parser: it is enough to look at the events it yields.
Yields(events) ==
  /\ stage = "streaming" /\ pending = <<>>
  /\ stage' = stage /\ pending' = events
  /\ UNCHANGED <<provider, driver, turn>>

\* A frame that yields nothing.
LEMMA YieldsNothing ==
  ASSUME Typed, CallsSound, Yields(<<>>), Stops', UNCHANGED tools,
         \A i \in Indices : ~CutShort' => ~CutShort /\ (Due(i)' <=> Due(i))
  PROVE  CallsSound'
<1>1. /\ Len(pending) = 0 /\ Waiting = {}
      /\ \A i \in Begun : Audible(i) => calls[i] # "none"
      /\ ~CutShort => \A i \in Indices : i \in FinishedCalls <=> Due(i)
  BY NothingWaits DEF Yields
<1>2. pending' = <<>> /\ Len(pending') = 0 /\ Waiting' = {}
  <2>1. Len(<<>>) = 0
    BY EmptySeq
  <2> QED BY <2>1 DEF Yields, Waiting
<1>3. stage' = "streaming" /\ UNCHANGED <<provider, content, calls, turnStop>>
  BY DEF Yields, turn
<1>4. Flow' /\ Ends'
  BY <1>2, <1>3 DEF Flow, Ends
<1>5. Heard'
  BY <1>1, <1>3 DEF Heard, Audible, Begun
<1>6. FinishedCalls' = FinishedCalls /\ Assembled' = Assembled
  BY <1>3 DEF FinishedCalls, Assembled
<1>7. Owed'
  <2> SUFFICES ASSUME ~CutShort', NEW i \in Indices PROVE Ended(i)' <=> Due(i)'
    BY DEF Owed
  <2>1. Ended(i)' <=> i \in FinishedCalls
    BY <1>2, <1>6 DEF Ended
  <2> QED BY <1>1, <2>1
<1>8. CallsInOrder'
  BY <1>3, <1>6 DEF CallsInOrder, CallsSound
<1> QED BY <1>4, <1>5, <1>7, <1>8 DEF CallsSound

\* One event that says nothing of a call.
LEMMA YieldsText ==
  ASSUME Typed, CallsSound, NEW e \in EventType, Yields(<<e>>), Stops',
         e.kind \in {"delta", "end"}, UNCHANGED tools,
         \A i \in Indices : ~CutShort' => ~CutShort /\ (Due(i)' <=> Due(i))
  PROVE  CallsSound'
<1>1. /\ Len(pending) = 0 /\ Waiting = {}
      /\ \A i \in Begun : Audible(i) => calls[i] # "none"
      /\ ~CutShort => \A i \in Indices : i \in FinishedCalls <=> Due(i)
  BY NothingWaits DEF Yields
<1>2. pending' = <<e>> /\ Len(pending') = 1 /\ pending'[1] = e
      /\ \A p \in Waiting' : p = 1
  <2>1. Len(<<e>>) = 1 /\ <<e>>[1] = e
    BY OneEvent
  <2>2. pending' = <<e>>
    BY DEF Yields
  <2> QED BY <2>1, <2>2 DEF Waiting
<1>3. stage' = "streaming" /\ UNCHANGED <<provider, content, calls, turnStop>>
  BY DEF Yields, turn
<1>4. ~IsEnd(e) /\ ~Begins(e) /\ e.kind # "done"
  BY DEF IsEnd, Begins
<1>5. Flow' /\ Ends'
  BY <1>2, <1>3, <1>4 DEF Flow, Ends
<1>6. Heard'
  BY <1>1, <1>3 DEF Heard, Audible, Begun
<1>7. FinishedCalls' = FinishedCalls /\ Assembled' = Assembled
  BY <1>3 DEF FinishedCalls, Assembled
<1>8. Owed'
  <2> SUFFICES ASSUME ~CutShort', NEW i \in Indices PROVE Ended(i)' <=> Due(i)'
    BY DEF Owed
  <2>1. Ended(i)' <=> i \in FinishedCalls
    BY <1>2, <1>4, <1>7 DEF Ended
  <2> QED BY <1>1, <2>1
<1>9. CallsInOrder'
  BY <1>3, <1>7 DEF CallsInOrder, CallsSound
<1> QED BY <1>5, <1>6, <1>8, <1>9 DEF CallsSound

\* The start or a fragment of a call that is not ended.
LEMMA YieldsBegin ==
  ASSUME Typed, CallsSound, Stops', NEW events \in Seq(EventType),
         Yields(events), NEW j \in Begun', j \notin FinishedCalls,
         \A p \in 1..Len(events) :
           Begins(events[p]) /\ events[p].index = j,
         Len(events) # 0 \/ ~Audible(j)',
         \A i \in Begun' : i # j => i \in Begun /\ tools'[i] = tools[i],
         \A i \in Indices : ~CutShort' => ~CutShort /\ (Due(i)' <=> Due(i))
  PROVE  CallsSound'
<1>1. /\ Len(pending) = 0 /\ Waiting = {}
      /\ \A i \in Begun : Audible(i) => calls[i] # "none"
      /\ ~CutShort => \A i \in Indices : i \in FinishedCalls <=> Due(i)
  BY NothingWaits DEF Yields
<1>2. pending' = events /\ Waiting' = 1..Len(events) /\ Len(events) \in Nat
  BY LenProperties DEF Yields, Waiting
<1>3. stage' = "streaming" /\ UNCHANGED <<provider, content, calls, turnStop>>
  BY DEF Yields, turn
<1>4. \A p \in Waiting' : /\ ~IsEnd(pending'[p]) /\ pending'[p].kind # "done"
                          /\ Begins(pending'[p]) /\ pending'[p].index = j
  BY <1>2 DEF IsEnd, Begins
<1>5. FinishedCalls' = FinishedCalls /\ Assembled' = Assembled
  BY <1>3 DEF FinishedCalls, Assembled
<1>6. Flow'
  BY <1>3, <1>4 DEF Flow
<1>7. Ends'
  BY <1>4, <1>5 DEF Ends
<1>8. Heard'
  <2> SUFFICES ASSUME NEW i \in Begun', Audible(i)'
               PROVE  \/ calls'[i] # "none"
                      \/ \E p \in Waiting' :
                           Begins(pending'[p]) /\ pending'[p].index = i
    BY DEF Heard
  <2>1. CASE i = j
    <3>1. 1 \in Waiting'
      BY <1>2, <2>1
    <3> QED BY <1>4, <2>1, <3>1
  <2>2. CASE i # j
    <3>1. Audible(i)
      BY <1>3, <2>2 DEF Audible
    <3> QED BY <1>1, <1>3, <2>2, <3>1
  <2> QED BY <2>1, <2>2
<1>9. Owed'
  <2> SUFFICES ASSUME ~CutShort', NEW i \in Indices PROVE Ended(i)' <=> Due(i)'
    BY DEF Owed
  <2>1. Ended(i)' <=> i \in FinishedCalls
    BY <1>4, <1>5 DEF Ended
  <2> QED BY <1>1, <2>1
<1>10. CallsInOrder'
  BY <1>3, <1>5 DEF CallsInOrder, CallsSound
<1> QED BY <1>6, <1>7, <1>8, <1>9, <1>10 DEF CallsSound

-----------------------------------------------------------------------------
(* The steps of the parser.                                                *)

\* What a live turn says of the provider and of the stop reason.
LEMMA Streaming ==
  ASSUME Typed, CallsSound, Reading
  PROVE  /\ stage = "streaming" /\ pending = <<>>
         /\ stopSeen # "stop" => item = "ended"
         /\ provider # "codex" => provider = "openrouter" /\ ~CutShort
         /\ item # "ended" => stopSeen = "stop" /\ ~CutShort
         /\ \A i \in Begun : Audible(i) => calls[i] # "none"
         /\ ~CutShort => \A i \in Indices : i \in FinishedCalls <=> Due(i)
         /\ provider # "codex" => \A i : ~Due(i)
BY NothingWaits DEF Reading, CallsSound, Stops, Typed, SourceTyped, CutShort,
                     Due

\* The event of an item that says nothing of a call.
LEMMA TokenSound ==
  ASSUME Typed, CallsSound, ItemDelta \/ ContentDelta
  PROVE  CallsSound'
<1>1. PICK k \in Kinds : Token(k)
  BY DEF ItemDelta, ContentDelta
<1> DEFINE e == Delta(k, sent + 1)
<1>2. e \in EventType /\ e.kind = "delta"
  <2>1. sent + 1 \in Nat
    BY DEF Typed, SourceTyped
  <2>2. Delta(k, sent + 1) \in EventType
    BY <2>1, Makers
  <2> QED BY <2>2 DEF Delta, NoEvent
<1>3. /\ Reading /\ pending' = <<e>>
      /\ UNCHANGED <<provider, driver, stage, item, tools, stopSeen, turn>>
  BY <1>1 DEF ItemDelta, ContentDelta, Codex, OpenRouter, Token
<1> HIDE DEF e
<1>4. Yields(<<e>>)
  BY <1>3 DEF Yields, Reading
<1>5. Stops'
  BY <1>3 DEF CallsSound, Stops, Begun
<1>6. \A i \in Indices : ~CutShort' => ~CutShort /\ (Due(i)' <=> Due(i))
  BY <1>3 DEF CutShort, Due, Begun
<1> QED BY <1>2, <1>3, <1>4, <1>5, <1>6, YieldsText

\* A new item: its call is the next one, and is owed an end.
LEMMA ItemAddedSound ==
  ASSUME Typed, CallsSound, ItemAdded
  PROVE  CallsSound'
<1>1. /\ Codex /\ item = "none" /\ provider = "codex" /\ Reading
      /\ UNCHANGED <<provider, driver, stage, stopSeen, turn>>
  BY DEF ItemAdded, Codex
<1>2. /\ stopSeen = "stop" /\ ~CutShort /\ ~CutShort'
      /\ \A i \in Begun : tools[i].arguments = Fragments
      /\ \A i \in Indices : i \in FinishedCalls <=> Due(i)
  <2>1. item # "ended"
    BY <1>1
  <2>2. /\ stopSeen = "stop" /\ ~CutShort
        /\ ~CutShort => \A i \in Indices : i \in FinishedCalls <=> Due(i)
    BY <1>1, <2>1, Streaming
  <2>3. \A i \in Begun : tools[i].arguments = Fragments
    BY <1>1, <2>2 DEF CallsSound, Stops
  <2> QED BY <1>1, <2>2, <2>3 DEF CutShort
<1>3. ASSUME NEW k \in Kinds, item' = k, pending' = AddedEvents(k, TRUE),
             UNCHANGED tools
      PROVE  CallsSound'
  <2>1. Yields(<<>>)
    BY <1>1, <1>3, KindsApart DEF Yields, Reading, AddedEvents, Only
  <2>2. Stops'
    BY <1>1, <1>2, <1>3 DEF Stops, Begun
  <2>3. \A i \in Indices : Due(i)' <=> Due(i)
    BY <1>1, <1>3, KindsApart DEF Due, Begun
  <2> QED BY <1>2, <1>3, <2>1, <2>2, <2>3, YieldsNothing
<1>4. ASSUME NEW known \in BOOLEAN, item' = "call",
             tools' = Append(tools, [known |-> known, arguments |-> 0]),
             pending' = AddedEvents("call", known)
      PROVE  CallsSound'
  <2> DEFINE t == [known |-> known, arguments |-> 0]
             j == Len(tools) + 1
             e == CallEvent("callStart", j, known)
  <2>1. t \in ToolType
    BY DEF ToolType
  <2>2. tools' = Append(tools, t)
    BY <1>4
  <2> HIDE DEF t
  <2>3. /\ Len(tools) \in Nat /\ Len(tools') = j /\ Count = Len(tools)
        /\ \A i \in 1..Len(tools) : tools'[i] = tools[i]
    BY <2>1, <2>2, AddTool, ToolFacts DEF Typed
  <2>4. j \in Indices
    <3>1. Len(tools') <= MaxItems
      BY StepKeepsTypes DEF Typed, SourceTyped, Next, ServerStep
    <3> QED BY <2>3, <3>1 DEF Indices
  <2>5. e \in EventType /\ Begins(e) /\ e.index = j
    <3>1. CallEvent("callStart", j, known) \in EventType
      BY <2>4, Makers DEF CallKinds
    <3> QED BY <3>1 DEF CallEvent, NoEvent, Begins
  <2>6. pending' = <<e>>
    BY <1>4, <2>3 DEF AddedEvents, Only
  <2> HIDE DEF e
  <2>7. /\ <<e>> \in Seq(EventType) /\ Len(<<e>>) = 1 /\ <<e>>[1] = e
    BY <2>5, OneEvent
  <2>8. \A p \in 1..Len(<<e>>) : Begins(<<e>>[p]) /\ <<e>>[p].index = j
    <3>1. \A p \in 1..Len(<<e>>) : p = 1
      BY <2>7
    <3> QED BY <2>5, <2>7, <3>1
  <2>9. Yields(<<e>>)
    BY <1>1, <2>6 DEF Yields, Reading
  <2>10. Stops'
    <3>1. \A i \in Begun' : i < Len(tools') => i \in 1..Len(tools)
      BY <2>3 DEF Begun
    <3> QED BY <1>1, <1>2, <1>4, <2>3, <3>1 DEF Stops, Begun
  <2>11. j \in Begun' /\ j \notin FinishedCalls
         /\ \A i \in Begun' : i # j => i \in Begun /\ tools'[i] = tools[i]
    <3>1. ~Due(j)
      BY <2>3 DEF Due, Begun
    <3> QED BY <1>2, <2>3, <2>4, <3>1 DEF Begun
  <2>12. ASSUME NEW i \in Indices PROVE Due(i)' <=> Due(i)
    <3>1. CASE i \in 1..Len(tools)
      BY <1>1, <1>4, <2>3, <3>1 DEF Due, Begun
    <3>2. CASE i \notin 1..Len(tools)
      BY <1>1, <1>4, <2>3, <3>2 DEF Due, Begun
    <3> QED BY <3>1, <3>2
  <2>13. Len(<<e>>) # 0
    BY <2>7
  <2> HIDE DEF j
  <2> QED BY <1>2, <2>7, <2>8, <2>9, <2>10, <2>11, <2>12, <2>13, YieldsBegin
<1> QED BY <1>3, <1>4 DEF ItemAdded

\* More of the arguments of the open call.
LEMMA ArgumentsSound ==
  ASSUME Typed, CallsSound, ArgumentsArrive
  PROVE  CallsSound'
<1> DEFINE j == Len(tools)
           e == CallEvent("callDelta", Count, LastTool.known)
<1>1. /\ provider = "codex" /\ Reading /\ item = "call" /\ pending' = <<e>>
      /\ UNCHANGED <<provider, driver, stage, item, stopSeen, turn>>
  BY DEF ArgumentsArrive, Codex, server
<1>2. /\ j \in 1..Len(tools) /\ j \in Indices /\ Count = j
      /\ LastTool.known \in BOOLEAN /\ tools[j] \in ToolType
      /\ LastTool = tools[j] /\ LastTool.arguments \in Nat
  BY <1>1, ToolFacts DEF LastTool, Typed, SourceTyped
<1>3. /\ Len(tools') = Len(tools) /\ tools'[j].known = tools[j].known
      /\ \A i \in 1..Len(tools) : i # j => tools'[i] = tools[i]
  <2>1. PICK n \in {LastTool.arguments + 1, Fragments} :
          tools' = [tools EXCEPT ![Count].arguments = n]
    BY DEF ArgumentsArrive
  <2> DEFINE t == [tools[j] EXCEPT !.arguments = n]
  <2>2. t \in ToolType /\ t.known = tools[j].known
    <3>1. n \in Nat
      BY <1>2
    <3> QED BY <1>2, <3>1 DEF ToolType
  <2>3. tools' = [tools EXCEPT ![j] = t]
    BY <1>2, <2>1
  <2> HIDE DEF t
  <2> QED BY <1>2, <2>2, <2>3, AddTool DEF Typed
<1>4. /\ e \in EventType /\ Begins(e) /\ e.index = j
  <2>1. CallEvent("callDelta", Count, LastTool.known) \in EventType
    BY <1>2, Makers DEF CallKinds
  <2> QED BY <1>2, <2>1 DEF CallEvent, NoEvent, Begins
<1> HIDE DEF e
<1>5. /\ <<e>> \in Seq(EventType) /\ Len(<<e>>) = 1 /\ <<e>>[1] = e
  BY <1>4, OneEvent
<1>6. \A p \in 1..Len(<<e>>) : Begins(<<e>>[p]) /\ <<e>>[p].index = j
  <2>1. \A p \in 1..Len(<<e>>) : p = 1
    BY <1>5
  <2> QED BY <1>4, <1>5, <2>1
<1>7. Yields(<<e>>)
  BY <1>1 DEF Yields, Reading
<1>8. /\ stopSeen = "stop" /\ ~CutShort /\ ~CutShort'
      /\ \A i \in Indices : i \in FinishedCalls <=> Due(i)
  <2>1. item # "ended"
    BY <1>1
  <2> QED BY <1>1, <2>1, Streaming DEF CutShort
<1>9. Stops'
  <2>1. \A i \in Begun : i < Len(tools) => i # j
    BY <1>2 DEF Begun
  <2>2. \A i \in Begun : i < Len(tools) => tools[i].arguments = Fragments
    BY <1>1, <1>8 DEF CallsSound, Stops
  <2> QED BY <1>1, <1>3, <1>8, <2>1, <2>2 DEF Stops, Begun
<1>10. j \in Begun' /\ j \notin FinishedCalls
  <2>1. ~Due(j)
    BY <1>1, <1>2 DEF Due
  <2> QED BY <1>2, <1>3, <1>8, <2>1 DEF Begun
<1>11. \A i \in Begun' : i # j => i \in Begun /\ tools'[i] = tools[i]
  BY <1>3 DEF Begun
<1>12. \A i \in Indices : Due(i)' <=> Due(i)
  BY <1>1, <1>2, <1>3 DEF Due, Begun
<1>13. Len(<<e>>) # 0
  BY <1>5
<1> HIDE DEF j
<1> QED BY <1>5, <1>6, <1>7, <1>8, <1>9, <1>10, <1>11, <1>12, <1>13,
           YieldsBegin

\* The server completes the reply, or cuts it short.
LEMMA CompletedSound ==
  ASSUME Typed, CallsSound, Completed
  PROVE  CallsSound'
<1>1. /\ provider = "codex" /\ Reading /\ item # "ended" /\ item' = "ended"
      /\ stopSeen' \in {"stop", "length"}
      /\ stopSeen' = "stop" => item = "none"
      /\ pending' = pending
      /\ UNCHANGED <<provider, driver, stage, tools, turn>>
  BY DEF Completed, Codex
<1>2. stopSeen = "stop" /\ ~CutShort
  BY <1>1, Streaming
<1>3. Yields(<<>>)
  BY <1>1 DEF Yields, Reading
<1>4. Stops'
  BY <1>1, <1>2 DEF CallsSound, Stops, Begun
<1>5. \A i \in Indices : ~CutShort' => ~CutShort /\ (Due(i)' <=> Due(i))
  BY <1>1, <1>2 DEF CutShort, Due, Begun
<1> QED BY <1>1, <1>3, <1>4, <1>5, YieldsNothing

\* The openrouter server says why the reply ends.
LEMMA FinishReasonSound ==
  ASSUME Typed, CallsSound, FinishReason
  PROVE  CallsSound'
<1>1. /\ provider = "openrouter" /\ Reading /\ item' = "ended"
      /\ pending' = pending
      /\ stopSeen' = "toolUse" =>
           /\ tools # <<>>
           /\ \A i \in DOMAIN tools : tools[i].arguments = Fragments
      /\ UNCHANGED <<provider, driver, stage, tools, turn>>
  BY DEF FinishReason, OpenRouter
<1>2. Yields(<<>>)
  BY <1>1 DEF Yields, Reading
<1>3. Stops'
  <2>1. DOMAIN tools = Begun
    BY ToolFacts DEF Typed, Begun
  <2>2. tools # <<>> => Len(tools) # 0
    BY EmptySeq DEF Typed, SourceTyped
  <2> QED BY <1>1, <2>1, <2>2 DEF Stops, Begun
<1>4. \A i \in Indices : ~CutShort' => ~CutShort /\ (Due(i)' <=> Due(i))
  BY <1>1 DEF CutShort, Due, Begun, Reading
<1> QED BY <1>1, <1>2, <1>3, <1>4, YieldsNothing

\* The events of a merged entry are of its call, and it is merged only when
\* there is something to be said.
LEMMA MergedBegins ==
  ASSUME NEW i \in Indices, NEW old \in ToolType, NEW new \in ToolType,
         old.known => new.known, new # old
  PROVE  /\ Len(MergedEvents(i, old, new)) # 0
         /\ \A p \in 1..Len(MergedEvents(i, old, new)) :
              LET e == MergedEvents(i, old, new)[p]
              IN  Begins(e) /\ e.index = i
<1> DEFINE a == CallEvent("callStart", i, TRUE)
           b == CallEvent("callDelta", i, new.known)
           start == new.known /\ ~old.known
           more == new.arguments # old.arguments
           events == MergedEvents(i, old, new)
<1>1. /\ a \in EventType /\ b \in EventType
      /\ Begins(a) /\ a.index = i /\ Begins(b) /\ b.index = i
  <2>1. /\ CallEvent("callStart", i, TRUE) \in EventType
        /\ CallEvent("callDelta", i, new.known) \in EventType
    BY Makers DEF CallKinds, ToolType
  <2> QED BY <2>1 DEF CallEvent, NoEvent, Begins
<1>2. start \/ more
  BY DEF ToolType
<1>3. events = Only(start, a) \o Only(more, b)
  BY DEF MergedEvents
<1> HIDE DEF a, b, start, more, events
<1>4. /\ <<a>> \in Seq(EventType) /\ <<b>> \in Seq(EventType)
      /\ <<>> \in Seq(EventType)
      /\ Len(<<a>>) = 1 /\ <<a>>[1] = a /\ Len(<<b>>) = 1 /\ <<b>>[1] = b
  BY <1>1, OneEvent, EmptySeq
<1>5. CASE ~more
  <2>1. events = <<a>> \o <<>>
    BY <1>2, <1>3, <1>5 DEF Only
  <2>2. events = <<a>>
    BY <1>4, <2>1, ListLaws
  <2>3. Len(events) = 1 /\ \A p \in 1..1 : events[p] = a
    BY <1>4, <2>2
  <2> QED BY <1>1, <2>3 DEF events
<1>6. CASE more /\ ~start
  <2>1. events = <<>> \o <<b>>
    BY <1>2, <1>3, <1>6 DEF Only
  <2>2. events = <<b>>
    BY <1>4, <2>1, ListLaws
  <2>3. Len(events) = 1 /\ \A p \in 1..1 : events[p] = b
    BY <1>4, <2>2
  <2> QED BY <1>1, <2>3 DEF events
<1>7. CASE more /\ start
  <2>1. events = <<a>> \o <<b>>
    BY <1>2, <1>3, <1>7 DEF Only
  <2>2. /\ Len(events) = 2
        /\ \A p \in 1..2 : events[p] = IF p <= 1 THEN a ELSE b
    <3>1. Len(<<a>> \o <<b>>) = Len(<<a>>) + Len(<<b>>)
          /\ \A p \in 1..(Len(<<a>>) + Len(<<b>>)) : (<<a>> \o <<b>>)[p] =
               IF p <= Len(<<a>>) THEN <<a>>[p] ELSE <<b>>[p - Len(<<a>>)]
      BY <1>4, ConcatProperties
    <3> QED BY <1>4, <2>1, <3>1
  <2> QED BY <1>1, <2>2 DEF events
<1> QED BY <1>5, <1>6, <1>7

\* An entry of tool_calls: a new call, or more of one that has begun.
LEMMA CallDeltaSound ==
  ASSUME Typed, CallsSound, CallDelta
  PROVE  CallsSound'
<1>1. PICK i \in 1..(Count + 1), named \in BOOLEAN, n \in 0..1 :
        LET old == IF i <= Count THEN tools[i]
                   ELSE [known |-> FALSE, arguments |-> 0]
            new == Merged(old, named, n)
        IN  /\ i <= MaxItems /\ new # old /\ new.arguments <= Fragments
            /\ tools' = IF i <= Count THEN [tools EXCEPT ![i] = new]
                        ELSE Append(tools, new)
            /\ pending' = MergedEvents(i, old, new)
  BY DEF CallDelta
<1> DEFINE old == IF i <= Count THEN tools[i]
                  ELSE [known |-> FALSE, arguments |-> 0]
           new == Merged(old, named, n)
           events == MergedEvents(i, old, new)
<1>2. /\ i <= MaxItems /\ pending' = events /\ new # old
      /\ i <= Count => tools' = [tools EXCEPT ![i] = new]
      /\ ~(i <= Count) => tools' = Append(tools, new)
  BY <1>1
<1>3. /\ Count \in Nat /\ Count = Len(tools)
      /\ i \in 1..(Count + 1) /\ i \in Indices
  BY <1>2, ToolFacts DEF Indices, Typed
<1>4. old \in ToolType
  <2>1. CASE i <= Count
    <3>1. i \in 1..Len(tools)
      BY <1>3, <2>1
    <3> QED BY <2>1, <3>1, ToolFacts DEF Typed
  <2>2. CASE ~(i <= Count)
    BY <2>2 DEF ToolType
  <2> QED BY <2>1, <2>2
<1> HIDE DEF old
<1>5. new \in ToolType /\ events \in Seq(EventType)
      /\ (old.known => new.known)
  <2>1. new \in ToolType /\ events \in Seq(EventType)
    BY <1>3, <1>4, MergedTyped
  <2>2. old.known => new.known
    BY DEF Merged
  <2> QED BY <2>1, <2>2
<1> HIDE DEF new
<1>6. /\ Len(events) # 0
      /\ \A p \in 1..Len(events) : Begins(events[p]) /\ events[p].index = i
  BY <1>2, <1>3, <1>4, <1>5, MergedBegins
<1> HIDE DEF events
<1>7. /\ provider = "openrouter" /\ Reading /\ item # "ended"
      /\ UNCHANGED <<provider, driver, stage, item, stopSeen, turn>>
  BY DEF CallDelta, OpenRouter, server
<1>8. Yields(events)
  BY <1>2, <1>7 DEF Yields, Reading
<1>9. /\ stopSeen = "stop" /\ ~CutShort /\ ~CutShort'
      /\ \A j \in Indices : j \in FinishedCalls <=> Due(j)
  BY <1>7, Streaming DEF CutShort
<1>10. Stops'
  BY <1>7, <1>9 DEF Stops
<1>11. /\ \A j \in Indices : ~Due(j) /\ ~Due(j)'
       /\ i \notin FinishedCalls
  <2>1. \A j : ~Due(j) /\ ~Due(j)'
    BY <1>7, <1>8 DEF Due, Yields
  <2> QED BY <1>3, <1>9, <2>1
<1>12. i \in Begun' /\ \A j \in Begun' :
                         j # i => j \in Begun /\ tools'[j] = tools[j]
  <2>1. CASE i <= Count
    <3>1. i \in 1..Len(tools)
      BY <1>3, <2>1
    <3>2. /\ Len(tools') = Len(tools)
          /\ \A j \in 1..Len(tools) : j # i => tools'[j] = tools[j]
      BY <1>2, <1>5, <2>1, <3>1, AddTool DEF Typed
    <3> QED BY <3>1, <3>2 DEF Begun
  <2>2. CASE ~(i <= Count)
    <3>1. i = Len(tools) + 1
      BY <1>3, <2>2
    <3>2. /\ Len(tools') = Len(tools) + 1
          /\ \A j \in 1..Len(tools) : tools'[j] = tools[j]
      <4>1. tools' = Append(tools, new)
        BY <1>2, <2>2
      <4> QED BY <1>5, <4>1, AddTool DEF Typed
    <3> QED BY <1>3, <3>1, <3>2 DEF Begun
  <2> QED BY <2>1, <2>2
<1> QED BY <1>5, <1>6, <1>8, <1>9, <1>10, <1>11, <1>12, YieldsBegin

\* An item that is done: the text of it, or the end of a call that has a name.
LEMMA ItemDoneSound ==
  ASSUME Typed, CallsSound, ItemDone
  PROVE  CallsSound'
<1>1. /\ provider = "codex" /\ Reading /\ item' = "none"
      /\ item \in Kinds \cup {"call"} /\ item # "ended"
      /\ item = "call" => LastTool.arguments = Fragments
      /\ UNCHANGED <<provider, driver, stage, tools, stopSeen, turn>>
  BY KindsApart DEF ItemDone, Codex, parser
<1>2. /\ stopSeen = "stop" /\ ~CutShort /\ ~CutShort'
      /\ stage = "streaming" /\ pending = <<>>
      /\ \A i \in Begun : calls[i] # "none"
      /\ \A i \in Indices : i \in FinishedCalls <=> Due(i)
  <2>1. \A i : Audible(i)
    BY <1>1 DEF Audible
  <2> QED BY <1>1, <2>1, Streaming DEF CutShort
<1> DEFINE j == Len(tools)
<1>3. /\ j \in Nat /\ Count = j /\ LastTool = tools[j]
      /\ \A i \in Begun : i < j \/ i = j
      /\ item = "call" => j \in Begun /\ j \in Indices
  BY ToolFacts DEF LastTool, Typed, SourceTyped, Begun
<1>4. Stops'
  <2>1. \A i \in Begun :
          i < j \/ item # "call" => tools[i].arguments = Fragments
    BY <1>1, <1>2 DEF CallsSound, Stops
  <2>2. \A i \in Begun : tools[i].arguments = Fragments
    BY <1>1, <1>3, <2>1
  <2> QED BY <1>1, <1>2, <2>2 DEF Stops, Begun
<1>5. CASE item \in Kinds
  <2> DEFINE e == End(item, block[item])
  <2>1. e \in EventType /\ e.kind = "end"
    <3>1. block[item] \in Seq(Nat)
      BY <1>5 DEF Typed, SourceTyped
    <3>2. End(item, block[item]) \in EventType
      BY <1>5, <3>1, Makers
    <3> QED BY <3>2 DEF End, NoEvent
  <2>2. pending' = <<e>>
    BY <1>5, KindsApart DEF ItemDone
  <2> HIDE DEF e
  <2>3. Yields(<<e>>)
    BY <1>1, <1>2, <2>2 DEF Yields
  <2>4. \A i \in Indices : Due(i)' <=> Due(i)
    BY <1>1, <1>5, KindsApart DEF Due, Begun
  <2> QED BY <1>1, <1>2, <1>4, <2>1, <2>3, <2>4, YieldsText
<1>6. CASE item = "call" /\ ~LastTool.known
  <2>1. pending' = <<>>
    BY <1>6, KindsApart DEF ItemDone
  <2>2. Yields(<<>>)
    BY <1>1, <1>2, <2>1 DEF Yields
  <2>3. ASSUME NEW i \in Indices PROVE Due(i)' <=> Due(i)
    <3>1. i \in Begun /\ tools[i].known => i < j
      BY <1>3, <1>6
    <3> QED BY <1>1, <3>1 DEF Due, Begun
  <2> QED BY <1>1, <1>2, <1>4, <2>2, <2>3, YieldsNothing
<1>7. CASE item = "call" /\ LastTool.known
  <2> DEFINE e == CallEnd(j, TRUE)
  <2>1. e \in EventType /\ IsEnd(e) /\ ~Begins(e) /\ e.index = j
    <3>1. CallEnd(j, TRUE) \in EventType
      BY <1>3, <1>7, Makers
    <3> QED BY <3>1 DEF CallEnd, NoEvent, IsEnd, Begins
  <2>2. pending' = <<e>>
    BY <1>3, <1>7, KindsApart DEF ItemDone
  <2> HIDE DEF e
  <2>3. Len(pending') = 1 /\ pending'[1] = e /\ \A p \in Waiting' : p = 1
    <3>1. Len(<<e>>) = 1 /\ <<e>>[1] = e
      BY <2>1, OneEvent
    <3> QED BY <2>2, <3>1 DEF Waiting
  <2>4. 1 \in Waiting' /\ \A p \in Waiting' : pending'[p] = e
    BY <2>3 DEF Waiting
  <2>5. /\ stage' = "streaming" /\ FinishedCalls' = FinishedCalls
        /\ Assembled' = Assembled
        /\ UNCHANGED <<provider, content, calls, turnStop>>
    BY <1>1, <1>2 DEF turn, FinishedCalls, Assembled
  <2>6. \A i \in Indices : Due(i) => i < j
    BY <1>1, <1>3, <1>7 DEF Due
  <2>7. calls[j] = "open"
    <3>1. ~Due(j)
      BY <1>3, <1>7, <2>6
    <3>2. j \notin FinishedCalls
      BY <1>2, <1>3, <1>7, <3>1
    <3>3. calls[j] \in CallStates /\ calls[j] # "none"
      BY <1>2, <1>3, <1>7 DEF Typed, TurnTyped
    <3> QED BY <1>3, <1>7, <3>2, <3>3 DEF FinishedCalls, CallStates
  <2>8. Flow'
    BY <2>1, <2>4, <2>5 DEF Flow, IsEnd
  <2>9. Ends'
    <3>1. \A i \in FinishedCalls : i < j
      BY <1>2, <2>6 DEF FinishedCalls
    <3>2. \A p, q \in Waiting' : ~(p < q)
      BY <2>3
    <3> QED BY <2>1, <2>4, <2>5, <2>7, <3>1, <3>2 DEF Ends
  <2>10. Heard'
    BY <1>1, <1>2, <2>5 DEF Heard, Audible, Begun
  <2>11. Owed'
    <3> SUFFICES ASSUME NEW i \in Indices PROVE Ended(i)' <=> Due(i)'
      BY DEF Owed
    <3>1. Ended(i)' <=> i \in FinishedCalls \/ i = j
      BY <2>1, <2>4, <2>5 DEF Ended
    <3>2. Due(i)' <=> i \in Begun /\ tools[i].known
      BY <1>1, <2>5 DEF Due, Begun
    <3>3. Due(i) <=> i \in Begun /\ tools[i].known /\ i < j
      BY <1>1, <1>7 DEF Due
    <3> QED BY <1>2, <1>3, <1>7, <3>1, <3>2, <3>3
  <2>12. CallsInOrder'
    BY <2>5 DEF CallsInOrder, CallsSound
  <2> QED BY <1>4, <2>8, <2>9, <2>10, <2>11, <2>12 DEF CallsSound
<1> QED BY <1>1, <1>5, <1>6, <1>7

\* The end of the stream: the calls are ended in their order, then Done.
LEMMA StreamClosesSound ==
  ASSUME Typed, CallsSound, StreamCloses
  PROVE  CallsSound'
<1> DEFINE m == Len(Flushed)
           last == Done(FinalStop)
<1>1. /\ Reading /\ stage' = "closed" /\ pending' = Append(Flushed, last)
      /\ UNCHANGED <<provider, item, tools, stopSeen, content, calls, turnStop>>
  BY DEF StreamCloses, server, parser, turn
<1>2. /\ provider # "codex" => provider = "openrouter" /\ ~CutShort
      /\ \A i \in Begun : Audible(i) => calls[i] # "none"
      /\ ~CutShort => \A i \in Indices : i \in FinishedCalls <=> Due(i)
      /\ provider # "codex" => \A i : ~Due(i)
  BY <1>1, Streaming
<1>3. FinalStop' = FinalStop /\ CutShort' = CutShort
      /\ FinishedCalls' = FinishedCalls /\ Assembled' = Assembled
  BY <1>1 DEF FinalStop, SawToolCall, Count, CutShort, FinishedCalls, Assembled
<1>4. last \in EventType /\ ~IsEnd(last) /\ ~Begins(last)
  <2>1. FinalStop \in StopReasons
    BY DEF FinalStop, Typed, SourceTyped, StopReasons
  <2>2. Done(FinalStop) \in EventType
    BY <2>1, Makers
  <2> QED BY <2>2 DEF Done, NoEvent, IsEnd, Begins
<1>5. /\ Flushed \in Seq(EventType)
      /\ provider = "codex" => Flushed = <<>>
      /\ provider # "codex" => ByIndex(FlushPart, Len(tools), Flushed)
      /\ \A p \in 1..m : IsEnd(Flushed[p]) /\ ~Begins(Flushed[p])
  BY FlushedEnds DEF Typed, IsEnd, Begins
<1>6. m \in Nat /\ (provider = "codex" => m = 0)
  BY <1>5, LenProperties, EmptySeq
<1>7. last' = last
  BY <1>3 DEF Done, NoEvent
<1> HIDE DEF last
<1>8. /\ Len(pending') = m + 1 /\ pending'[m + 1] = last
      /\ \A p \in 1..m : pending'[p] = Flushed[p]
  BY <1>1, <1>4, <1>5, AppendProperties
<1> HIDE DEF m
<1>9. /\ Waiting' = 1..(m + 1) /\ m + 1 # 0
      /\ \A p \in Waiting' : p \in 1..m \/ p = m + 1
      /\ \A p \in 1..m : p \in Waiting'
  BY <1>6, <1>8 DEF Waiting
<1>10. Flow'
  <2>1. \A p \in Waiting' : p # Len(pending') => IsEnd(pending'[p])
    BY <1>5, <1>8, <1>9
  <2> QED BY <1>1, <1>7, <1>8, <1>9, <2>1 DEF Flow, last
<1>11. Stops'
  BY <1>1 DEF CallsSound, Stops, Begun
<1>12. Heard'
  BY <1>1, <1>2 DEF Heard, Audible, Begun
<1>13. CallsInOrder'
  BY <1>1, <1>3 DEF CallsInOrder, CallsSound
<1>14. \A p \in Waiting' : ~Begins(pending'[p])
                           /\ (IsEnd(pending'[p]) <=> p \in 1..m)
  BY <1>4, <1>5, <1>6, <1>8, <1>9
<1>15. \A i : Ended(i)' <=> \/ i \in FinishedCalls
                            \/ \E p \in 1..m : Flushed[p].index = i
  BY <1>3, <1>8, <1>9, <1>14 DEF Ended
<1>16. CASE provider = "codex"
  <2>1. \A p \in Waiting' : ~IsEnd(pending'[p]) /\ ~Begins(pending'[p])
    BY <1>6, <1>14, <1>16
  <2>2. Ends'
    BY <2>1 DEF Ends
  <2>3. \A i \in Indices :
          (Due(i)' <=> Due(i)) /\ (Ended(i)' <=> i \in FinishedCalls)
    BY <1>1, <1>6, <1>15, <1>16 DEF Due, Begun
  <2>4. Owed'
    BY <1>2, <1>3, <2>3 DEF Owed
  <2> QED BY <1>10, <1>11, <1>12, <1>13, <2>2, <2>4 DEF CallsSound
<1>17. CASE provider # "codex"
  <2>1. FinishedCalls = {}
    BY <1>2, <1>17 DEF FinishedCalls
  <2>2. ByIndex(FlushPart, Len(tools), Flushed)
    BY <1>5, <1>17
  <2>3. \A i \in Begun : /\ tools[i].known => FlushPart[i] # <<>>
                         /\ ~tools[i].known => FlushPart[i] = <<>>
    BY DEF FlushPart, Only, Begun
  <2>4. ASSUME NEW p \in 1..m
        PROVE  /\ Flushed[p].index \in Begun /\ tools[Flushed[p].index].known
               /\ calls[Flushed[p].index] = "open"
    <3> DEFINE i == Flushed[p].index
    <3>1. i \in Begun /\ FlushPart[i] = <<Flushed[p]>>
      BY <2>2 DEF ByIndex, Begun, m
    <3> HIDE DEF i
    <3>2. tools[i].known
      BY <2>3, <3>1
    <3>3. i \in Indices
      BY <3>1, ToolFacts DEF Begun, Typed
    <3>4. calls[i] \in CallStates /\ calls[i] # "none"
      BY <1>2, <3>1, <3>2, <3>3 DEF Audible, Typed, TurnTyped
    <3>5. calls[i] = "open"
      BY <2>1, <3>3, <3>4 DEF FinishedCalls, CallStates
    <3> QED BY <3>1, <3>2, <3>5 DEF i
  <2>5. \A p, q \in 1..m : p < q => Flushed[p].index < Flushed[q].index
    BY <2>2 DEF ByIndex, m
  <2>6. Ends'
    <3>1. \A p, q \in Waiting' :
            IsEnd(pending'[p]) /\ p < q /\ IsEnd(pending'[q]) =>
              pending'[p].index < pending'[q].index
      BY <1>8, <1>14, <2>5
    <3>2. \A p \in Waiting' :
            IsEnd(pending'[p]) => calls'[pending'[p].index] = "open"
      BY <1>1, <1>8, <1>14, <2>4
    <3> QED BY <1>3, <1>14, <2>1, <3>1, <3>2 DEF Ends
  <2>7. Owed'
    <3> SUFFICES ASSUME NEW i \in Indices PROVE Ended(i)' <=> Due(i)'
      BY DEF Owed
    <3>1. Due(i)' <=> i \in Begun /\ tools[i].known
      BY <1>1, <1>17 DEF Due, Begun
    <3>2. Ended(i)' <=> \E p \in 1..m : Flushed[p].index = i
      BY <1>15, <2>1
    <3>3. ASSUME i \in Begun, tools[i].known
          PROVE  \E p \in 1..m : Flushed[p].index = i
      BY <2>2, <2>3, <3>3 DEF ByIndex, Begun, m
    <3> QED BY <2>4, <3>1, <3>2, <3>3
  <2> QED BY <1>10, <1>11, <1>12, <1>13, <2>6, <2>7 DEF CallsSound
<1> QED BY <1>16, <1>17

-----------------------------------------------------------------------------
(* The steps of the driver.                                                *)

\* What waits when the first of it is taken.
LEMMA TakesHead ==
  ASSUME Typed, pending # <<>>, pending' = Tail(pending)
  PROVE  /\ Event \in EventType /\ Event = pending[1]
         /\ 1 \in Waiting /\ Len(pending) \in Nat
         /\ Len(pending') = Len(pending) - 1
         /\ \A p \in Waiting' : p + 1 \in Waiting /\ p + 1 # 1
                                /\ pending'[p] = pending[p + 1]
         /\ \A p, q \in Waiting' : p < q => p + 1 < q + 1
         /\ \A p \in Waiting' : 1 < p + 1
         /\ \A q \in Waiting :
              q # 1 => \E p \in Waiting' : pending'[p] = pending[q]
<1>1. /\ pending \in Seq(EventType) /\ Len(pending) \in Nat /\ Len(pending) # 0
  BY LenProperties, EmptySeq DEF Typed
<1>2. /\ Event \in EventType /\ Event = pending[1]
      /\ Len(pending') = Len(pending) - 1
      /\ \A p \in 1..(Len(pending) - 1) : pending'[p] = pending[p + 1]
  BY <1>1, HeadTailProperties DEF Event
<1>3. /\ Waiting = 1..Len(pending) /\ Waiting' = 1..(Len(pending) - 1)
  BY <1>2 DEF Waiting
<1>4. ASSUME NEW q \in Waiting, q # 1
      PROVE  \E p \in Waiting' : pending'[p] = pending[q]
  <2>1. q - 1 \in Waiting' /\ (q - 1) + 1 = q
    BY <1>1, <1>3, <1>4
  <2> QED BY <1>2, <1>3, <2>1
<1> QED BY <1>1, <1>2, <1>3, <1>4

\* An event that is not the last.
LEMMA FlowGoesOn ==
  ASSUME Typed, CallsSound, Running, pending # <<>>, pending' = Tail(pending),
         Event.kind # "done", stage' = stage,
         UNCHANGED <<provider, item, tools, stopSeen>>
  PROVE  Flow' /\ Stops' /\ CutShort' = CutShort
         /\ \A i : Due(i)' <=> Due(i)
<1>1. /\ Event = pending[1] /\ 1 \in Waiting /\ Len(pending) \in Nat
      /\ Len(pending') = Len(pending) - 1
      /\ \A p \in Waiting' : p + 1 \in Waiting
                             /\ pending'[p] = pending[p + 1]
  BY TakesHead
<1>2. stage \in {"streaming", "closed"}
  BY DEF Running
<1>3. FinalStop' = FinalStop /\ Done(FinalStop') = Done(FinalStop)
  BY DEF FinalStop, SawToolCall, Count, Done, NoEvent
<1>4. CASE stage = "streaming"
  <2>1. Flow'
    BY <1>1, <1>4 DEF Flow, CallsSound
  <2> QED BY <2>1 DEF CallsSound, Stops, Begun, CutShort, Due
<1>5. CASE stage = "closed"
  <2>1. /\ Len(pending) # 0 /\ pending[Len(pending)] = Done(FinalStop)
        /\ \A p \in Waiting : p # Len(pending) => IsEnd(pending[p])
    BY <1>5 DEF Flow, CallsSound
  <2>2. Len(pending) # 1
    <3>1. Done(FinalStop).kind = "done"
      BY DEF Done, NoEvent
    <3> QED BY <1>1, <2>1, <3>1
  <2>3. /\ Len(pending') # 0 /\ Len(pending') \in Waiting'
        /\ Len(pending') + 1 = Len(pending)
    <3>1. Len(pending') = Len(pending) - 1 /\ Len(pending) \in Nat
      BY <1>1
    <3>2. Len(pending) >= 2
      BY <2>1, <2>2, <3>1
    <3> QED BY <3>1, <3>2 DEF Waiting
  <2>4. pending'[Len(pending')] = Done(FinalStop')
    <3>1. pending'[Len(pending')] = pending[Len(pending') + 1]
      BY <1>1, <2>3
    <3>2. pending[Len(pending') + 1] = pending[Len(pending)]
      BY <2>3
    <3>3. pending[Len(pending)] = Done(FinalStop)
      BY <2>1
    <3> QED BY ONLY <1>3, <3>1, <3>2, <3>3
  <2>5. ASSUME NEW p \in Waiting', p # Len(pending') PROVE IsEnd(pending'[p])
    <3>1. p + 1 \in Waiting /\ pending'[p] = pending[p + 1]
      BY <1>1
    <3>2. p + 1 # Len(pending)
      <4>1. p \in Int
        BY DEF Waiting
      <4> DEFINE a == Len(pending')
                 b == Len(pending)
      <4>2. a \in Int /\ a + 1 = b /\ p # a
        BY <1>1, <2>3, <2>5
      <4> HIDE DEF a, b
      <4>3. p + 1 # b
        BY ONLY <4>1, <4>2
      <4> QED BY <4>3 DEF b
    <3> QED BY <2>1, <3>1, <3>2
  <2>6. Flow'
    BY <1>5, <2>3, <2>4, <2>5 DEF Flow
  <2> QED BY <2>6 DEF CallsSound, Stops, Begun, CutShort, Due
<1> QED BY <1>2, <1>4, <1>5

\* The ends that wait when the first event is taken: those that did, if the
\* calls they are of are open still.
LEMMA EndsGoOn ==
  ASSUME Typed, CallsSound, pending # <<>>, pending' = Tail(pending),
         UNCHANGED tools,
         \A q \in Waiting : q # 1 /\ IsEnd(pending[q]) =>
           calls'[pending[q].index] = "open",
         \A i \in FinishedCalls' :
           i \in FinishedCalls \/ (IsEnd(Event) /\ i = Event.index)
  PROVE  Ends'
<1>1. /\ Event = pending[1] /\ 1 \in Waiting
      /\ \A p \in Waiting' : /\ p + 1 \in Waiting /\ p + 1 # 1 /\ 1 < p + 1
                              /\ pending'[p] = pending[p + 1]
      /\ \A p, q \in Waiting' : p < q => p + 1 < q + 1
  BY TakesHead
<1>2. ASSUME NEW p \in Waiting' PROVE p + 1 \in Waiting
  BY <1>1
<1>3. ASSUME NEW p \in Waiting', IsEnd(pending'[p])
      PROVE  /\ calls'[pending'[p].index] = "open"
             /\ \A i \in FinishedCalls' : i < pending'[p].index
             /\ \A q \in Waiting' :
                  p < q => /\ ~Begins(pending'[q])
                           /\ IsEnd(pending'[q]) =>
                                pending'[p].index < pending'[q].index
  <2> DEFINE s == p + 1
  <2>1. s \in Waiting /\ s # 1 /\ 1 < s /\ pending'[p] = pending[s]
        /\ IsEnd(pending[s])
    BY <1>1, <1>3
  <2>2. \A q \in Waiting' : p < q => s < q + 1
    BY <1>1
  <2> HIDE DEF s
  <2>3. /\ \A i \in FinishedCalls : i < pending[s].index
        /\ \A q \in Waiting :
             s < q => /\ ~Begins(pending[q])
                      /\ IsEnd(pending[q]) =>
                           pending[s].index < pending[q].index
    BY <2>1 DEF CallsSound, Ends
  <2>4. IsEnd(Event) => Event.index < pending[s].index
    BY <1>1, <2>1 DEF CallsSound, Ends
  <2>5. \A i \in FinishedCalls' : i < pending[s].index
    BY <2>3, <2>4
  <2>6. calls'[pending[s].index] = "open"
    BY <2>1
  <2>7. ASSUME NEW q \in Waiting', p < q
        PROVE  /\ ~Begins(pending'[q])
               /\ IsEnd(pending'[q]) => pending'[p].index < pending'[q].index
    <3> DEFINE t == q + 1
    <3>1. t \in Waiting /\ s < t /\ pending'[q] = pending[t]
      BY <1>1, <2>2, <2>7
    <3> HIDE DEF t
    <3> QED BY <2>1, <2>3, <3>1
  <2> QED BY <2>1, <2>5, <2>6, <2>7
<1>4. ASSUME NEW p \in Waiting', Begins(pending'[p])
      PROVE  /\ pending'[p].index \in Begun'
             /\ pending'[p].index \notin FinishedCalls'
  <2> DEFINE s == p + 1
  <2>1. s \in Waiting /\ s # 1 /\ 1 < s /\ pending'[p] = pending[s]
        /\ Begins(pending[s])
    BY <1>1, <1>4
  <2> HIDE DEF s
  <2>2. pending[s].index \in Begun /\ pending[s].index \notin FinishedCalls
    BY <2>1 DEF CallsSound, Ends
  <2>3. ~IsEnd(Event)
    BY <1>1, <2>1 DEF CallsSound, Ends
  <2> QED BY <2>1, <2>2, <2>3 DEF Begun
<1> QED BY <1>3, <1>4 DEF Ends

\* What is told of the calls when the first event is taken.
LEMMA HeardGoesOn ==
  ASSUME Typed, CallsSound, pending # <<>>, pending' = Tail(pending),
         UNCHANGED <<provider, tools>>,
         \A i \in Indices : calls[i] # "none" => calls'[i] # "none",
         Begins(Event) => calls'[Event.index] # "none"
  PROVE  Heard'
<1>1. /\ Event = pending[1]
      /\ \A q \in Waiting :
           q # 1 => \E p \in Waiting' : pending'[p] = pending[q]
  BY TakesHead
<1> SUFFICES ASSUME NEW i \in Begun, Audible(i)
             PROVE  \/ calls'[i] # "none"
                    \/ \E p \in Waiting' :
                         Begins(pending'[p]) /\ pending'[p].index = i
  BY DEF Heard, Audible, Begun
<1>2. i \in Indices
  BY ToolFacts DEF Begun, Typed
<1>3. CASE calls[i] # "none"
  BY <1>2, <1>3
<1>4. CASE \E p \in Waiting : Begins(pending[p]) /\ pending[p].index = i
  <2>1. PICK p \in Waiting : Begins(pending[p]) /\ pending[p].index = i
    BY <1>4
  <2>2. CASE p = 1
    BY <1>1, <2>1, <2>2
  <2>3. CASE p # 1
    BY <1>1, <2>1, <2>3
  <2> QED BY <2>2, <2>3
<1> QED BY <1>3, <1>4 DEF CallsSound, Heard

\* The calls that are or will be ended, when an event is taken.
LEMMA EndedGoOn ==
  ASSUME Typed, pending # <<>>, pending' = Tail(pending),
         \A i \in Indices :
           i \in FinishedCalls' <=>
             i \in FinishedCalls \/ (IsEnd(Event) /\ i = Event.index)
  PROVE  \A i \in Indices : Ended(i)' <=> Ended(i)
<1>1. /\ Event = pending[1] /\ 1 \in Waiting
      /\ \A p \in Waiting' : p + 1 \in Waiting /\ pending'[p] = pending[p + 1]
      /\ \A q \in Waiting :
           q # 1 => \E p \in Waiting' : pending'[p] = pending[q]
  BY TakesHead
<1> SUFFICES ASSUME NEW i \in Indices PROVE Ended(i)' <=> Ended(i)
  OBVIOUS
<1>2. ASSUME Ended(i) PROVE Ended(i)'
  <2>1. CASE i \in FinishedCalls
    BY <2>1 DEF Ended
  <2>2. CASE i \notin FinishedCalls
    <3>1. PICK q \in Waiting : IsEnd(pending[q]) /\ pending[q].index = i
      BY <1>2, <2>2 DEF Ended
    <3>2. CASE q = 1
      BY <1>1, <3>1, <3>2 DEF Ended
    <3>3. CASE q # 1
      BY <1>1, <3>1, <3>3 DEF Ended
    <3> QED BY <3>2, <3>3
  <2> QED BY <2>1, <2>2
<1>3. ASSUME Ended(i)' PROVE Ended(i)
  <2>1. CASE i \in FinishedCalls'
    BY <1>1, <2>1 DEF Ended
  <2>2. CASE i \notin FinishedCalls'
    <3>1. PICK p \in Waiting' : IsEnd(pending'[p]) /\ pending'[p].index = i
      BY <1>3, <2>2 DEF Ended
    <3>2. p + 1 \in Waiting /\ pending'[p] = pending[p + 1]
      BY <1>1
    <3> QED BY <3>1, <3>2 DEF Ended
  <2> QED BY <2>1, <2>2
<1> QED BY <1>2, <1>3

\* An event that says nothing of a call.
LEMMA TakesText ==
  ASSUME Typed, CallsSound, Running, pending # <<>>, pending' = Tail(pending),
         Event.kind # "done", ~IsEnd(Event), ~Begins(Event), stage' = stage,
         UNCHANGED <<provider, item, tools, stopSeen, content, calls>>
  PROVE  CallsSound'
<1>1. Flow' /\ Stops' /\ CutShort' = CutShort /\ \A i : Due(i)' <=> Due(i)
  BY FlowGoesOn
<1>2. FinishedCalls' = FinishedCalls
  BY DEF FinishedCalls
<1>3. Assembled' = Assembled
  BY <1>2 DEF Assembled
<1>4. Ends'
  <2>1. \A q \in Waiting :
          IsEnd(pending[q]) => calls'[pending[q].index] = "open"
    BY DEF CallsSound, Ends
  <2> QED BY <1>2, <2>1, EndsGoOn
<1>5. Heard'
  BY HeardGoesOn
<1>6. Owed'
  <2>1. \A i \in Indices : Ended(i)' <=> Ended(i)
    BY <1>2, EndedGoOn
  <2> QED BY <1>1, <2>1 DEF CallsSound, Owed
<1>7. CallsInOrder'
  BY <1>3 DEF CallsSound, CallsInOrder
<1> QED BY <1>1, <1>4, <1>5, <1>6, <1>7 DEF CallsSound

\* A flush adds no call.
LEMMA FlushKeepsCalls ==
  ASSUME Typed, FlushTurn \/ UNCHANGED <<content, buffer>>
  PROVE  CallsOf(content') = CallsOf(content)
<1>1. CASE UNCHANGED <<content, buffer>>
  BY <1>1
<1>2. CASE FlushTurn
  <2>1. content \in Seq(BlockType) /\ content' = content \o Flush
    BY <1>2 DEF FlushTurn, Typed, TurnTyped
  <2>2. Flush \in Seq(BlockType) /\ CallsOf(Flush) = <<>>
    BY FlushAdds DEF Typed, TurnTyped
  <2>3. CallsOf(content') = CallsOf(content) \o <<>>
    BY <2>1, <2>2, BlockLaws
  <2>4. CallsOf(content) \in Seq(BlockType)
    BY <2>1, BlockLaws
  <2> QED BY <2>3, <2>4, ListLaws
<1> QED BY <1>1, <1>2

\* The start or a fragment of a call: what was text before it is closed, and
\* the call is open.
LEMMA TakesBegin ==
  ASSUME Typed, CallsSound, Running, pending # <<>>, pending' = Tail(pending),
         Begins(Event), Push(Event), stage' = stage,
         UNCHANGED <<provider, item, tools, stopSeen>>
  PROVE  CallsSound'
<1> DEFINE j == Event.index
<1>1. /\ Event = pending[1] /\ 1 \in Waiting /\ Event \in EventType
  BY TakesHead
<1>2. Event.kind # "done" /\ ~IsEnd(Event)
  BY DEF Begins, IsEnd
<1>3. Flow' /\ Stops' /\ CutShort' = CutShort /\ \A i : Due(i)' <=> Due(i)
  BY <1>2, FlowGoesOn
<1>4. /\ calls' = [calls EXCEPT ![j] = IF IsNew(Event) THEN "open" ELSE @]
      /\ FlushTurn \/ UNCHANGED <<content, buffer>>
  BY DEF Begins, Push
<1>5. calls \in [Indices -> CallStates] /\ j \in Indices
  BY <1>1, Fields DEF Typed, TurnTyped
<1>6. j \in Begun /\ j \notin FinishedCalls
  BY <1>1 DEF CallsSound, Ends
<1>7. /\ calls[j] \in {"none", "open"} /\ calls'[j] = "open"
      /\ \A i \in Indices : i # j => calls'[i] = calls[i]
  <2>1. calls[j] \in CallStates
    BY <1>5
  <2>2. calls[j] \in {"none", "open"}
    BY <1>5, <1>6, <2>1 DEF FinishedCalls, CallStates
  <2> QED BY <1>4, <1>5, <2>2 DEF IsNew
<1>8. /\ \A i \in Indices : calls[i] = "open" => calls'[i] = "open"
      /\ \A i \in Indices : calls[i] # "none" => calls'[i] # "none"
      /\ \A i \in Indices : (calls'[i] = "whole") <=> (calls[i] = "whole")
      /\ \A i \in Indices : (calls'[i] = "empty") <=> (calls[i] = "empty")
  BY <1>7
<1> HIDE DEF j
<1>9. FinishedCalls' = FinishedCalls
  BY <1>8 DEF FinishedCalls
<1>10. Assembled' = Assembled
  <2>1. \A i \in Indices : (calls'[i] = "whole") = (calls[i] = "whole")
    BY <1>8
  <2> QED BY <1>9, <2>1 DEF Assembled
<1>11. \A p \in Waiting : pending[p].index \in Indices
  <2>1. \A p \in Waiting : pending[p] \in EventType
    BY ElementOfSeq DEF Waiting, Typed
  <2> QED BY <2>1, Fields
<1>12. Ends'
  <2>1. \A q \in Waiting :
          IsEnd(pending[q]) => calls'[pending[q].index] = "open"
    BY <1>8, <1>11 DEF CallsSound, Ends
  <2> QED BY <1>9, <2>1, EndsGoOn
<1>13. Heard'
  BY <1>7, <1>8, HeardGoesOn DEF j
<1>14. Owed'
  <2>1. \A i \in Indices : Ended(i)' <=> Ended(i)
    BY <1>2, <1>9, EndedGoOn
  <2> QED BY <1>3, <2>1 DEF CallsSound, Owed
<1>15. CallsInOrder'
  <2>1. CallsOf(content') = CallsOf(content)
    BY <1>4, FlushKeepsCalls
  <2> QED BY <1>10, <2>1 DEF CallsSound, CallsInOrder
<1> QED BY <1>3, <1>12, <1>13, <1>14, <1>15 DEF CallsSound

\* The calls that are finished, one more of them behind the others.
LEMMA OneMoreFinished ==
  ASSUME calls \in [Indices -> CallStates], calls' \in [Indices -> CallStates],
         NEW j \in Indices, j \notin FinishedCalls,
         \A i \in FinishedCalls : i < j,
         calls'[j] \in {"whole", "empty"},
         \A i \in Indices : i # j => calls'[i] = calls[i]
  PROVE  /\ FinishedCalls' = FinishedCalls \cup {j}
         /\ Assembled'
              = Append(Assembled, CallBlock(j, calls'[j] = "whole"))
<1> DEFINE g == [i \in Indices |->
                   Only(i \in FinishedCalls, CallBlock(i, calls[i] = "whole"))]
           h == [i \in Indices |->
                   Only(i \in FinishedCalls',
                        CallBlock(i, calls'[i] = "whole"))]
           x == CallBlock(j, calls'[j] = "whole")
<1>1. FinishedCalls' = FinishedCalls \cup {j}
  BY DEF FinishedCalls
<1>2. h[j] = <<x>>
  BY <1>1 DEF Only
<1>3. ASSUME NEW i \in Indices, i # j PROVE h[i] = g[i]
  <2>1. calls'[i] = calls[i] /\ (i \in FinishedCalls' <=> i \in FinishedCalls)
    BY <1>1, <1>3
  <2> QED BY <2>1 DEF Only
<1>4. ASSUME NEW i \in Indices, j <= i PROVE g[i] = <<>>
  <2>1. i \notin FinishedCalls
    BY <1>4 DEF Indices
  <2> QED BY <2>1 DEF Only
<1>5. /\ g \in [Indices -> Seq(BlockType)] /\ h \in [Indices -> Seq(BlockType)]
      /\ x \in BlockType
  <2>1. ASSUME NEW i \in Indices, NEW whole \in BOOLEAN, NEW is \in BOOLEAN
        PROVE  CallBlock(i, whole) \in BlockType
               /\ Only(is, CallBlock(i, whole)) \in Seq(BlockType)
    <3>1. i \in Nat
      BY DEF Indices
    <3>2. CallBlock(i, whole) \in BlockType
      BY <3>1, Makers
    <3> QED BY <3>2, OnlyIsList
  <2>2. ASSUME NEW i \in Indices
        PROVE  g[i] \in Seq(BlockType) /\ h[i] \in Seq(BlockType)
    <3>1. /\ (calls[i] = "whole") \in BOOLEAN
          /\ (calls'[i] = "whole") \in BOOLEAN
          /\ (i \in FinishedCalls) \in BOOLEAN
          /\ (i \in FinishedCalls') \in BOOLEAN
      OBVIOUS
    <3> QED BY <2>1, <3>1
  <2>3. x \in BlockType
    BY <2>1
  <2> QED BY <2>2, <2>3
<1>6. Assembled = Told(g, Numbers(MaxItems))
      /\ Assembled' = Told(h, Numbers(MaxItems))
  <2>1. DOMAIN Numbers(MaxItems) = Indices
        /\ \A i \in Indices : Numbers(MaxItems)[i] = i
    BY DEF Numbers, Indices
  <2>2. /\ [i \in DOMAIN Numbers(MaxItems) |-> g[Numbers(MaxItems)[i]]] = g
        /\ [i \in DOMAIN Numbers(MaxItems) |-> h[Numbers(MaxItems)[i]]] = h
    BY <2>1
  <2>3. Assembled = FlattenSeq(g) /\ Assembled' = FlattenSeq(h)
    BY DEF Assembled
  <2> HIDE DEF g, h
  <2> QED BY <2>2, <2>3 DEF Told
<1> HIDE DEF g, h, x
<1>7. Told(h, Numbers(MaxItems)) = Append(Told(g, Numbers(MaxItems)), x)
  <2>1. /\ j \in 1..MaxItems /\ MaxItems \in Nat
        /\ g \in [1..MaxItems -> Seq(BlockType)]
        /\ h \in [1..MaxItems -> Seq(BlockType)]
        /\ \A i \in 1..MaxItems : i # j => h[i] = g[i]
        /\ \A i \in 1..MaxItems : j <= i => g[i] = <<>>
    BY <1>3, <1>4, <1>5 DEF Indices
  <2> DEFINE m == MaxItems
  <2>2. /\ j \in 1..m /\ m \in Nat
        /\ g \in [1..m -> Seq(BlockType)]
        /\ h \in [1..m -> Seq(BlockType)]
        /\ \A i \in 1..m : i # j => h[i] = g[i]
        /\ \A i \in 1..m : j <= i => g[i] = <<>>
    BY <2>1
  <2> HIDE DEF m
  <2>3. Told(h, Numbers(m)) = Append(Told(g, Numbers(m)), x)
    BY ONLY <1>2, <1>5, <2>2, ToldOneMore
  <2> QED BY <2>3 DEF m
<1> QED BY <1>1, <1>6, <1>7 DEF x

\* The end of a call: the block of it, behind those of the calls before it.
LEMMA TakesEnd ==
  ASSUME Typed, CallsSound, Running, pending # <<>>, pending' = Tail(pending),
         IsEnd(Event), Push(Event), stage' = stage, Typed',
         UNCHANGED <<provider, item, tools, stopSeen>>
  PROVE  CallsSound'
<1> DEFINE j == Event.index
           x == CallBlock(j, Event.whole)
<1>1. Event = pending[1] /\ 1 \in Waiting /\ Event \in EventType
  BY TakesHead
<1>2. Event.kind = "callEnd" /\ Event.kind # "done" /\ ~Begins(Event)
  BY DEF IsEnd, Begins
<1>3. Flow' /\ Stops' /\ CutShort' = CutShort /\ \A i : Due(i)' <=> Due(i)
  BY <1>2, FlowGoesOn
<1>4. /\ calls' = [calls EXCEPT ![j] = IF Event.whole THEN "whole" ELSE "empty"]
      /\ content' = Append(content, x)
  BY <1>2 DEF Push
<1>5. /\ calls \in [Indices -> CallStates] /\ calls' \in [Indices -> CallStates]
      /\ content \in Seq(BlockType)
      /\ j \in Indices /\ Event.whole \in BOOLEAN
  BY <1>1, Fields DEF Typed, TurnTyped
<1>6. /\ calls[j] = "open"
      /\ \A i \in FinishedCalls : i < j
      /\ \A q \in Waiting : q # 1 /\ IsEnd(pending[q]) => j < pending[q].index
  <2>1. \A q \in Waiting : q # 1 => 1 < q
    BY DEF Waiting
  <2> QED BY <1>1, <2>1 DEF CallsSound, Ends
<1>7. /\ calls'[j] = IF Event.whole THEN "whole" ELSE "empty"
      /\ \A i \in Indices : i # j => calls'[i] = calls[i]
  BY <1>4, <1>5
<1>8. x \in BlockType /\ x.of = "call"
  <2>1. j \in Nat
    BY <1>5 DEF Indices
  <2>2. CallBlock(j, Event.whole) \in BlockType
    BY <1>5, <2>1, Makers
  <2> QED BY <2>2 DEF CallBlock
<1>9. \A p \in Waiting : pending[p].index \in Indices
  <2>1. \A p \in Waiting : pending[p] \in EventType
    BY ElementOfSeq DEF Waiting, Typed
  <2> QED BY <2>1, Fields
<1>10. (calls'[j] = "whole") = Event.whole
  BY <1>5, <1>7
<1> HIDE DEF x
<1>11. j \notin FinishedCalls
  BY <1>6 DEF FinishedCalls
<1>12. /\ FinishedCalls' = FinishedCalls \cup {j}
       /\ Assembled' = Append(Assembled, x)
  <2>1. calls'[j] \in {"whole", "empty"}
    BY <1>7
  <2>2. /\ FinishedCalls' = FinishedCalls \cup {j}
        /\ Assembled' = Append(Assembled, CallBlock(j, calls'[j] = "whole"))
    BY <1>5, <1>6, <1>7, <1>11, <2>1, OneMoreFinished
  <2> QED BY <1>10, <2>2 DEF x
<1>13. Ends'
  <2>1. ASSUME NEW q \in Waiting, q # 1, IsEnd(pending[q])
        PROVE  calls'[pending[q].index] = "open"
    <3> DEFINE i == pending[q].index
    <3>1. j < i /\ calls[i] = "open" /\ i \in Indices
      BY <1>6, <1>9, <2>1 DEF CallsSound, Ends
    <3>2. i # j
      BY <1>5, <3>1 DEF Indices
    <3> QED BY <1>7, <3>1, <3>2
  <2>2. \A i \in FinishedCalls' :
          i \in FinishedCalls \/ (IsEnd(Event) /\ i = Event.index)
    BY <1>12
  <2> HIDE DEF j
  <2> QED BY <2>1, <2>2, EndsGoOn
<1>14. Heard'
  <2>1. \A i \in Indices : calls[i] # "none" => calls'[i] # "none"
    BY <1>7
  <2> HIDE DEF j
  <2> QED BY <1>2, <2>1, HeardGoesOn
<1>15. Owed'
  <2>1. \A i \in Indices :
          i \in FinishedCalls' <=>
            i \in FinishedCalls \/ (IsEnd(Event) /\ i = Event.index)
    BY <1>12
  <2> HIDE DEF j
  <2>2. \A i \in Indices : Ended(i)' <=> Ended(i)
    BY <2>1, EndedGoOn
  <2> QED BY <1>3, <2>2 DEF CallsSound, Owed
<1>16. CallsInOrder'
  <2>1. <<x>> \in Seq(BlockType) /\ Append(content, x) = content \o <<x>>
    BY <1>5, <1>8, ListLaws, AppendIsConcat
  <2>2. CallsOf(<<x>>) = <<x>>
    BY <1>8, BlockLaws DEF Only
  <2>3. CallsOf(content \o <<x>>) = CallsOf(content) \o <<x>>
    BY <1>5, <2>1, <2>2, BlockLaws
  <2>4. CallsOf(content) \in Seq(BlockType)
    BY <1>5, BlockLaws
  <2>5. CallsOf(content) \o <<x>> = Append(CallsOf(content), x)
    BY <1>8, <2>4, AppendIsConcat
  <2>6. CallsOf(content') = Append(CallsOf(content), x)
    BY <1>4, <2>1, <2>3, <2>5 DEF x
  <2> QED BY <1>12, <2>6 DEF CallsSound, CallsInOrder
<1> QED BY <1>3, <1>13, <1>14, <1>15, <1>16 DEF CallsSound

\* Done: all that the stream had to say was said.
LEMMA TakesDone ==
  ASSUME Typed, CallsSound, Running, pending # <<>>, pending' = Tail(pending),
         Event.kind = "done", Push(Event), stage' = "finishing",
         UNCHANGED <<provider, item, tools, stopSeen>>
  PROVE  CallsSound'
<1>1. /\ Event = pending[1] /\ 1 \in Waiting /\ Len(pending) \in Nat
      /\ Len(pending') = Len(pending) - 1
  BY TakesHead
<1>2. ~IsEnd(Event) /\ ~Begins(Event)
  BY DEF IsEnd, Begins
<1>3. stage = "closed" /\ Len(pending) = 1 /\ Event = Done(FinalStop)
  <2>1. stage \in {"streaming", "closed"} /\ stage # "streaming"
    BY <1>1 DEF Running, CallsSound, Flow
  <2>2. Len(pending) = 1
    BY <1>1, <1>2, <2>1 DEF CallsSound, Flow
  <2> QED BY <1>1, <2>1, <2>2 DEF CallsSound, Flow
<1>4. /\ turnStop' = FinalStop /\ UNCHANGED <<content, calls>>
  BY <1>3 DEF Push, Done, NoEvent
<1>5. FinalStop' = FinalStop /\ CutShort' = CutShort
  BY DEF FinalStop, SawToolCall, Count, CutShort
<1>6. FinishedCalls' = FinishedCalls
  BY <1>4 DEF FinishedCalls
<1>7. Assembled' = Assembled
  BY <1>4, <1>6 DEF Assembled
<1>8. Flow'
  BY <1>1, <1>3, <1>4, <1>5 DEF Flow
<1>9. Stops'
  BY DEF CallsSound, Stops, Begun
<1>10. Ends'
  <2>1. \A q \in Waiting :
          IsEnd(pending[q]) => calls'[pending[q].index] = "open"
    BY <1>4 DEF CallsSound, Ends
  <2> QED BY <1>6, <2>1, EndsGoOn
<1>11. Heard'
  BY <1>2, <1>4, HeardGoesOn
<1>12. Owed'
  <2>1. \A i \in Indices : Ended(i)' <=> Ended(i)
    BY <1>2, <1>6, EndedGoOn
  <2>2. \A i \in Indices : Due(i)' <=> Due(i)
    BY <1>3 DEF Due, Begun
  <2> QED BY <1>5, <2>1, <2>2 DEF CallsSound, Owed
<1>13. CallsInOrder'
  BY <1>4, <1>7 DEF CallsSound, CallsInOrder
<1> QED BY <1>8, <1>9, <1>10, <1>11, <1>12, <1>13 DEF CallsSound

\* The driver takes an event of any kind.
LEMMA TakeEventSound ==
  ASSUME Typed, CallsSound, TakeEvent
  PROVE  CallsSound'
<1>1. /\ Running /\ pending # <<>> /\ Push(Event) /\ pending' = Tail(pending)
      /\ stage' = IF Event.kind = "done" THEN "finishing" ELSE stage
      /\ UNCHANGED <<provider, item, tools, stopSeen>>
  BY DEF TakeEvent, server, parser
<1>2. CASE Event.kind = "done"
  BY <1>1, <1>2, TakesDone
<1>3. CASE IsEnd(Event)
  <2>1. Typed'
    BY StepKeepsTypes DEF Next, DriverStep
  <2> QED BY <1>1, <1>3, <2>1, TakesEnd DEF IsEnd
<1>4. CASE Begins(Event)
  BY <1>1, <1>4, TakesBegin DEF Begins
<1>5. CASE Event.kind # "done" /\ ~IsEnd(Event) /\ ~Begins(Event)
  <2>1. UNCHANGED <<content, calls>>
    BY <1>1, <1>5 DEF Push, IsEnd, Begins
  <2> QED BY <1>1, <1>5, <2>1, TakesText
<1> QED BY <1>2, <1>3, <1>4, <1>5

-----------------------------------------------------------------------------
(* The whole specification.                                                *)

Counted == Typed /\ (Live => CallsSound)

\* The invariant about the calls holds at first.
LEMMA CountedAtFirst == Init => Counted
<1> SUFFICES ASSUME Init PROVE Counted
  OBVIOUS
<1>1. /\ <<>> \in Seq(ToolType) /\ <<>> \in Seq(EventType)
      /\ <<>> \in Seq(BlockType) /\ <<>> \in Seq(Nat)
      /\ Len(tools) = 0 /\ Len(pending) = 0
  BY EmptySeq DEF Init
<1>2. Typed
  <2>1. SourceTyped
    BY <1>1 DEF Init, SourceTyped, Bare, StopReasons
  <2>2. TurnTyped
    BY <1>1 DEF Init, TurnTyped, Bare, StopReasons, Stages, CallStates
  <2> QED BY <1>1, <2>1, <2>2 DEF Init, Typed
<1>3. Waiting = {} /\ Begun = {} /\ FinishedCalls = {}
  BY <1>1 DEF Waiting, Begun, FinishedCalls, Init
<1>4. Flow /\ Stops /\ Ends /\ Heard
  BY <1>1, <1>3 DEF Flow, Stops, Ends, Heard, Init
<1>5. Owed
  BY <1>3 DEF Owed, Ended, Due
<1>6. CallsInOrder
  <2> DEFINE g == [i \in Indices |->
                     Only(i \in FinishedCalls,
                          CallBlock(i, calls[i] = "whole"))]
  <2>1. \A i \in Indices : g[i] = <<>>
    BY <1>3 DEF Only
  <2>2. /\ DOMAIN Numbers(MaxItems) = Indices
        /\ \A i \in Indices : Numbers(MaxItems)[i] = i
    BY DEF Numbers, Indices
  <2>3. [i \in DOMAIN Numbers(MaxItems) |-> g[Numbers(MaxItems)[i]]] = g
    BY <2>2
  <2>4. Assembled = FlattenSeq(g)
    BY DEF Assembled
  <2>5. Numbers(MaxItems) \in Seq(Indices)
    BY NumbersGrow DEF Indices
  <2>6. Tells(g, Indices, BlockType)
    BY <1>1, <2>1 DEF Tells
  <2> HIDE DEF g
  <2>7. Told(g, Numbers(MaxItems)) = <<>>
    <3>1. \A i \in 1..Len(Numbers(MaxItems)) : Numbers(MaxItems)[i] \in Indices
      BY <2>5, ElementOfSeq
    <3>2. \A i \in 1..Len(Numbers(MaxItems)) : g[Numbers(MaxItems)[i]] = <<>>
      BY <2>1, <3>1
    <3> QED BY <2>5, <2>6, <3>2, ToldAsNothing
  <2>8. Assembled = <<>>
    BY <2>3, <2>4, <2>7 DEF Told
  <2>9. CallsOf(content) = <<>>
    BY BlockLaws DEF Init
  <2> QED BY <2>8, <2>9 DEF CallsInOrder
<1> QED BY <1>2, <1>4, <1>5, <1>6 DEF Counted, CallsSound

\* Each step keeps it.
LEMMA StepKeepsCounted == Counted /\ [Next]_vars => Counted'
<1> SUFFICES ASSUME Counted, [Next]_vars PROVE Counted'
  OBVIOUS
<1>1. Typed /\ Typed'
  BY StepKeepsTypes DEF Counted
<1> SUFFICES ASSUME Live' PROVE CallsSound'
  BY <1>1 DEF Counted
<1>2. ASSUME UNCHANGED <<provider, stage, item, tools, stopSeen, pending,
                         content, calls, turnStop>>
      PROVE  CallsSound'
  <2>1. CallsSound
    BY <1>2 DEF Counted, Live
  <2> QED BY <1>2, <2>1 DEF CallsSound, Flow, Stops, Ends, Heard, Owed,
            CallsInOrder, FinalStop, SawToolCall, Count, Waiting, Begun,
            FinishedCalls, Audible, Ended, Due, CutShort, Assembled
<1>3. CASE UNCHANGED vars \/ Retry \/ Abort
  BY <1>2, <1>3 DEF vars, server, parser, turn, Retry, Abort
<1>4. CASE Answered
  <2>1. /\ stage = "request" /\ stage' = "streaming"
        /\ UNCHANGED <<provider, item, tools, stopSeen, pending, content, calls,
                       turnStop>>
    BY <1>4 DEF Answered, server, parser, turn
  <2>2. CallsSound
    BY <2>1 DEF Counted, Live
  <2>3. Waiting' = {} /\ Waiting = {}
    BY <2>1, <2>2 DEF CallsSound, Flow, Waiting
  <2>4. Flow'
    BY <2>1, <2>3 DEF Flow
  <2>5. Stops' /\ Ends' /\ Heard'
    BY <2>1, <2>2, <2>3 DEF CallsSound, Stops, Ends, Heard, Begun, Audible
  <2>6. \A i : Due(i)' <=> Due(i)
    BY <2>1 DEF Due, Begun
  <2>7. FinishedCalls' = FinishedCalls /\ CutShort' = CutShort
        /\ Assembled' = Assembled
    BY <2>1 DEF FinishedCalls, CutShort, Assembled
  <2>8. Owed'
    BY <2>2, <2>3, <2>6, <2>7 DEF CallsSound, Owed, Ended
  <2>9. CallsInOrder'
    BY <2>1, <2>2, <2>7 DEF CallsSound, CallsInOrder
  <2> QED BY <2>4, <2>5, <2>8, <2>9 DEF CallsSound
<1>5. CASE \/ ItemAdded \/ ItemDelta \/ ArgumentsArrive \/ ItemDone
           \/ Completed \/ ContentDelta \/ CallDelta \/ FinishReason
           \/ StreamCloses
  <2>1. Live
    BY <1>5 DEF Live, ItemAdded, ItemDelta, ArgumentsArrive, ItemDone,
                Completed, ContentDelta, CallDelta, FinishReason,
                StreamCloses, Codex, OpenRouter, Reading
  <2>2. CallsSound
    BY <2>1 DEF Counted
  <2> QED BY <1>1, <1>5, <2>2, ItemAddedSound, TokenSound, ArgumentsSound,
             ItemDoneSound, CompletedSound, CallDeltaSound, FinishReasonSound,
             StreamClosesSound
<1>6. CASE TakeEvent
  <2>1. CallsSound
    BY <1>6 DEF Counted, Live, TakeEvent, Running
  <2> QED BY <1>1, <1>6, <2>1, TakeEventSound
<1>7. CASE \/ PushInterrupted \/ CancelInterrupted \/ Interrupt \/ RefuseReply
           \/ StreamBreaks \/ RequestFails \/ FinishTurn
  BY <1>7 DEF Live, PushInterrupted, CancelInterrupted, Interrupt, RefuseReply,
              StreamBreaks, RequestFails, FinishTurn, HandleError
<1> QED BY <1>3, <1>4, <1>5, <1>6, <1>7
        DEF Next, ServerStep, DriverStep, RequestStep

\* What is handed over: a block for each finished call, in their order.
LEMMA AssembledFacts ==
  ASSUME calls \in [Indices -> CallStates]
  PROVE  /\ \A p, q \in 1..Len(Assembled) :
              p < q => Assembled[p].index < Assembled[q].index
         /\ \A p \in 1..Len(Assembled) : Assembled[p].index \in FinishedCalls
         /\ \A i \in FinishedCalls : \E p \in 1..Len(Assembled) :
              Assembled[p].index = i
<1> DEFINE m == MaxItems
           g == [i \in Indices |->
                   Only(i \in FinishedCalls, CallBlock(i, calls[i] = "whole"))]
<1>1. ASSUME NEW i \in Indices
      PROVE  /\ g[i] \in Seq(BlockType)
             /\ i \in FinishedCalls =>
                  \E x \in BlockType : g[i] = <<x>> /\ x.index = i
             /\ i \notin FinishedCalls => g[i] = <<>>
  <2> DEFINE x == CallBlock(i, calls[i] = "whole")
  <2>1. x \in BlockType /\ x.index = i
    <3>1. i \in Nat /\ (calls[i] = "whole") \in BOOLEAN
      BY DEF Indices
    <3>2. CallBlock(i, calls[i] = "whole") \in BlockType
      BY <3>1, Makers
    <3> QED BY <3>2 DEF CallBlock
  <2>2. g[i] = Only(i \in FinishedCalls, x)
    OBVIOUS
  <2> HIDE DEF x, g
  <2>3. <<x>> \in Seq(BlockType) /\ <<>> \in Seq(BlockType)
    BY <2>1, ListLaws
  <2>4. CASE i \in FinishedCalls
    <3>1. g[i] = <<x>>
      BY <2>2, <2>4 DEF Only
    <3> QED BY <2>1, <2>3, <2>4, <3>1
  <2>5. CASE i \notin FinishedCalls
    <3>1. g[i] = <<>>
      BY <2>2, <2>5 DEF Only
    <3> QED BY <2>3, <2>5, <3>1
  <2> QED BY <2>4, <2>5
<1>2. Assembled = Told(g, Numbers(m))
  <2>1. /\ DOMAIN Numbers(m) = Indices
        /\ \A i \in Indices : Numbers(m)[i] = i
    BY DEF Numbers, Indices
  <2>2. [i \in DOMAIN Numbers(m) |-> g[Numbers(m)[i]]] = g
    BY <2>1
  <2>3. Assembled = FlattenSeq(g)
    BY DEF Assembled
  <2> HIDE DEF g, m
  <2> QED BY <2>2, <2>3 DEF Told
<1>3. g \in [1..m -> Seq(BlockType)] /\ m \in Nat /\ 1..m = Indices
  BY <1>1 DEF Indices
<1> HIDE DEF g, m
<1>4. \A i \in 1..m :
        g[i] # <<>> => \E x \in BlockType : g[i] = <<x>> /\ x.index = i
  BY <1>1, <1>3
<1>5. ByIndex(g, m, Assembled)
  BY <1>2, <1>3, <1>4, ToldByIndex
<1>6. \A p \in 1..Len(Assembled) : Assembled[p].index \in FinishedCalls
  <2> SUFFICES ASSUME NEW p \in 1..Len(Assembled)
               PROVE  Assembled[p].index \in FinishedCalls
    OBVIOUS
  <2> DEFINE a == Assembled[p]
  <2>1. a.index \in Indices /\ g[a.index] = <<a>>
    BY <1>3, <1>5 DEF ByIndex
  <2> HIDE DEF a
  <2>2. <<a>> # <<>>
    OBVIOUS
  <2>3. a.index \in FinishedCalls
    BY <1>1, <2>1, <2>2
  <2> QED BY <2>3 DEF a
<1>7. \A i \in FinishedCalls :
        \E p \in 1..Len(Assembled) : Assembled[p].index = i
  <2> SUFFICES ASSUME NEW i \in FinishedCalls
               PROVE  \E p \in 1..Len(Assembled) : Assembled[p].index = i
    OBVIOUS
  <2>1. i \in Indices
    BY DEF FinishedCalls
  <2>2. g[i] # <<>>
    <3>1. \A x : <<x>> # <<>>
      OBVIOUS
    <3> QED BY <1>1, <2>1, <3>1
  <2> QED BY <1>3, <1>5, <2>1, <2>2 DEF ByIndex
<1> QED BY <1>5, <1>6, <1>7 DEF ByIndex

\* The stop reason of a reply whose calls are all finished.
LEMMA StopSaysCalls ==
  ASSUME Typed, CallsSound, stage = "finishing", AllFinished,
         turnStop \notin {"length", "error"}
  PROVE  turnStop = "toolUse" <=> FinishedCalls # {}
<1>1. /\ Waiting = {} /\ turnStop = FinalStop
      /\ provider \in {"codex", "openrouter"} /\ stopSeen \in StopReasons
      /\ provider = "codex" => stopSeen \in {"stop", "length"}
  BY DEF CallsSound, Flow, Stops, Waiting, Typed, SourceTyped
<1>2. /\ Count = Len(tools) /\ DOMAIN tools = Begun
      /\ \A i \in Begun : i \in Indices /\ tools[i].arguments \in Nat
  BY ToolFacts DEF Typed, Begun
<1>3. ~CutShort => \A i \in Indices : i \in FinishedCalls <=> Due(i)
  BY <1>1 DEF CallsSound, Owed, Ended
<1>4. ASSUME turnStop = "toolUse" PROVE FinishedCalls # {}
  <2>1. CASE SawToolCall /\ stopSeen = "stop"
    <3>1. PICK i \in Begun : /\ tools[i].known
                             /\ provider = "codex" =>
                                  (i < Count \/ item # "call")
      BY <1>2, <2>1 DEF SawToolCall
    <3>2. Due(i)
      BY <1>1, <1>2, <3>1 DEF Due
    <3> QED BY <1>2, <1>3, <2>1, <3>2 DEF CutShort
  <2>2. CASE ~(SawToolCall /\ stopSeen = "stop")
    <3>1. stopSeen = "toolUse"
      BY <1>1, <1>4, <2>2 DEF FinalStop
    <3>2. /\ 1 \in Begun /\ tools[1].arguments = Fragments
      <4>1. Len(tools) # 0 /\ Len(tools) \in Nat
            /\ \A i \in Begun : tools[i].arguments = Fragments
        BY <3>1, ToolFacts DEF CallsSound, Stops, Typed
      <4> QED BY <4>1 DEF Begun
    <3>3. Audible(1)
      BY <3>2 DEF Audible
    <3>4. calls[1] # "none" /\ calls[1] # "open" /\ calls[1] \in CallStates
      BY <1>1, <1>2, <3>2, <3>3
         DEF CallsSound, Heard, AllFinished, Typed, TurnTyped
    <3> QED BY <1>2, <3>2, <3>4 DEF FinishedCalls, CallStates
  <2> QED BY <2>1, <2>2
<1>5. ASSUME NEW i \in FinishedCalls, turnStop # "toolUse" PROVE FALSE
  <2>1. stopSeen = "stop" /\ ~SawToolCall /\ ~CutShort
    BY <1>1, <1>5 DEF FinalStop, StopReasons, CutShort
  <2>2. Due(i) /\ i \in Begun /\ tools[i].known
    <3>1. i \in Indices
      BY DEF FinishedCalls
    <3> QED BY <1>3, <2>1, <3>1 DEF Due
  <2>3. provider = "codex" =>
          (i < Count \/ item # "call") /\ tools[i].arguments = Fragments
    BY <1>2, <2>1, <2>2 DEF Due, CallsSound, Stops
  <2> QED BY <1>2, <2>1, <2>2, <2>3 DEF SawToolCall
<1> QED BY <1>4, <1>5

\* A reply that is completed.
Agreed ==
  result = "completed" =>
    /\ CallsOf(content) = handed
    /\ \A i, j \in DOMAIN handed : handed[i].index = handed[j].index => i = j
    /\ turnStop \notin {"length", "error"} =>
         (turnStop = "toolUse" <=> handed # <<>>)

\* A turn that is finished hands over the calls of the reply.
LEMMA FinishAgrees ==
  ASSUME Counted, FinishTurn
  PROVE  Agreed'
<1> SUFFICES ASSUME result' = "completed" PROVE Agreed'
  BY DEF Agreed
<1>1. /\ AllFinished /\ FlushTurn /\ handed' = Assembled
      /\ UNCHANGED turnStop /\ stage = "finishing"
  BY DEF FinishTurn, FailTurn
<1>2. Typed /\ CallsSound
  BY <1>1 DEF Counted, Live
<1>3. calls \in [Indices -> CallStates]
  BY <1>2 DEF Typed, TurnTyped
<1>4. CallsOf(content') = handed'
  <2>1. CallsOf(content') = CallsOf(content)
    BY <1>1, <1>2, FlushKeepsCalls
  <2> QED BY <1>1, <1>2, <2>1 DEF CallsSound, CallsInOrder
<1>5. Assembled \in Seq(BlockType)
  BY <1>3, AssembledTyped
<1>6. DOMAIN Assembled = 1..Len(Assembled) /\ Len(Assembled) \in Nat
  BY <1>5, LenProperties
<1>7. ASSUME NEW i \in 1..Len(Assembled), NEW j \in 1..Len(Assembled),
             Assembled[i].index = Assembled[j].index, i # j
      PROVE  FALSE
  <2>1. i < j \/ j < i
    BY <1>7
  <2>2. Assembled[i].index < Assembled[j].index
        \/ Assembled[j].index < Assembled[i].index
    BY <1>3, <2>1, AssembledFacts
  <2>3. Assembled[i].index \in FinishedCalls
    BY <1>3, AssembledFacts
  <2>4. Assembled[i].index \in Int
    BY <2>3 DEF FinishedCalls, Indices
  <2> DEFINE a == Assembled[i].index
  <2>5. a \in Int /\ a < a
    BY <1>7, <2>2, <2>4
  <2> HIDE DEF a
  <2> QED BY <2>5
<1>8. Assembled # <<>> <=> FinishedCalls # {}
  <2>1. Assembled # <<>> <=> Len(Assembled) # 0
    BY <1>5, EmptySeq
  <2>2. ASSUME Len(Assembled) # 0 PROVE FinishedCalls # {}
    <3>1. 1 \in 1..Len(Assembled)
      BY <1>6, <2>2
    <3> QED BY <1>3, <3>1, AssembledFacts
  <2>3. ASSUME FinishedCalls # {} PROVE Len(Assembled) # 0
    <3>1. PICK i \in FinishedCalls : TRUE
      BY <2>3
    <3>2. PICK p \in 1..Len(Assembled) : Assembled[p].index = i
      BY <1>3, AssembledFacts
    <3> QED BY <1>6, <3>2
  <2> QED BY <2>1, <2>2, <2>3
<1>9. turnStop \notin {"length", "error"} =>
        (turnStop = "toolUse" <=> FinishedCalls # {})
  BY <1>1, <1>2, StopSaysCalls
<1> QED BY <1>1, <1>4, <1>6, <1>7, <1>8, <1>9 DEF Agreed

\* A reply that is over stays as it is.
LEMMA OverStays ==
  ASSUME Typed, [Next]_vars, result # "none"
  PROVE  UNCHANGED <<provider, content, turnStop, result, handed, stage, shown,
                     calls>>
<1>1. stage = "over"
  BY DEF Typed, TurnTyped
<1> QED
  BY <1>1 DEF Next, ServerStep, DriverStep, RequestStep, vars, turn, outcome,
     Answered, Retry, Codex, OpenRouter, Reading, Running, ItemAdded, ItemDelta,
     ArgumentsArrive, ItemDone, Completed, ContentDelta, CallDelta,
     FinishReason, StreamCloses, TakeEvent, PushInterrupted, CancelInterrupted,
     Interrupt, RefuseReply, StreamBreaks, RequestFails, FinishTurn, Abort

\* And nothing changes that afterwards.
LEMMA StepKeepsAgreed == Counted /\ Agreed /\ [Next]_vars => Agreed'
<1> SUFFICES ASSUME Counted, Agreed, [Next]_vars, result' = "completed"
             PROVE  Agreed'
  BY DEF Agreed
<1>1. CASE result # "none"
  <2>1. UNCHANGED <<content, turnStop, result, handed>>
    BY <1>1, OverStays DEF Counted
  <2> QED BY <2>1 DEF Agreed
<1>2. CASE result = "none"
  <2>1. FinishTurn
    BY <1>2 DEF Next, ServerStep, DriverStep, RequestStep, vars, outcome,
     Answered, Retry, ItemAdded, ItemDelta,
     ArgumentsArrive, ItemDone, Completed, ContentDelta, CallDelta,
     FinishReason, StreamCloses, TakeEvent, PushInterrupted, CancelInterrupted,
     Interrupt, RefuseReply, StreamBreaks, RequestFails, HandleError,
     CancelTurn, FailTurn, Abort
  <2> QED BY <2>1, FinishAgrees
<1> QED BY <1>1, <1>2

\* The calls of a reply that is committed are those handed over, and the next
\* request repeats each of them with its output and all of the text: a
\* theorem for replies with any number of items, deltas and fragments.
THEOREM CallsStayCommitted == Spec => []CallsAreCommitted
<1>1. Init => Counted /\ Agreed
  BY CountedAtFirst DEF Init, Agreed
<1>2. Counted /\ Agreed /\ [Next]_vars => (Counted /\ Agreed)'
  BY StepKeepsCounted, StepKeepsAgreed
<1>3. Counted /\ Agreed => CallsAreCommitted
  <2> SUFFICES ASSUME Counted, Agreed, result = "completed"
               PROVE  /\ CallsOf(content) = handed
                      /\ \A i, j \in DOMAIN handed :
                           handed[i].index = handed[j].index => i = j
                      /\ turnStop \notin {"length", "error"} =>
                           /\ turnStop = "toolUse" <=> handed # <<>>
                           /\ IndicesOf("call") = IndicesOf("output")
                           /\ Tokens(OfSort("text", Request)) = TokensOf("text")
    BY DEF CallsAreCommitted
  <2>1. content \in Seq(BlockType) /\ handed \in Seq(BlockType)
    BY DEF Counted, Typed, TurnTyped
  <2>2. CallsOf(content) = handed
    BY DEF Agreed
  <2>3. /\ IndicesOf("call") = IndicesOf("output")
        /\ Tokens(OfSort("text", Request)) = TokensOf("text")
    BY <2>1, <2>2, RequestRepeats
  <2> QED BY <2>3 DEF Agreed
<1> QED BY <1>1, <1>2, <1>3, PTL DEF Spec

-----------------------------------------------------------------------------
(* The text of a turn.                                                     *)

Asc(s) == \A i, j \in 1..Len(s) : i < j => s[i] < s[j]
AtMost(s, n) == \A i \in 1..Len(s) : s[i] <= n
Below(s, t) == \A i \in 1..Len(s), j \in 1..Len(t) : s[i] < t[j]

\* An entry of a joined list is one of a part.
LEMMA EntriesOfJoined ==
  ASSUME NEW s \in Seq(Nat), NEW t \in Seq(Nat)
  PROVE  /\ s \o t \in Seq(Nat) /\ Len(s \o t) = Len(s) + Len(t)
         /\ Len(s) \in Nat /\ Len(t) \in Nat
         /\ \A i \in 1..Len(s) : (s \o t)[i] = s[i] /\ s[i] \in Nat
         /\ \A i \in 1..(Len(s) + Len(t)) :
              ~(i <= Len(s)) => /\ i - Len(s) \in 1..Len(t)
                                /\ (s \o t)[i] = t[i - Len(s)]
                                /\ t[i - Len(s)] \in Nat
<1>1. /\ Len(s) \in Nat /\ Len(t) \in Nat
      /\ \A i \in 1..Len(s) : s[i] \in Nat
      /\ \A i \in 1..Len(t) : t[i] \in Nat
  BY LenProperties, ElementOfSeq
<1>2. /\ s \o t \in Seq(Nat) /\ Len(s \o t) = Len(s) + Len(t)
      /\ \A i \in 1..(Len(s) + Len(t)) :
           (s \o t)[i] = IF i <= Len(s) THEN s[i] ELSE t[i - Len(s)]
  BY ConcatProperties
<1> QED BY <1>1, <1>2

\* Two ascending lists, one below the other, are one.
LEMMA AscJoined ==
  ASSUME NEW s \in Seq(Nat), NEW t \in Seq(Nat), Asc(s), Asc(t), Below(s, t)
  PROVE  Asc(s \o t)
<1> DEFINE u == s \o t
           m == Len(s)
<1>1. /\ Len(u) = m + Len(t) /\ m \in Nat /\ Len(t) \in Nat
      /\ \A i \in 1..m : u[i] = s[i]
      /\ \A i \in 1..(m + Len(t)) :
           ~(i <= m) => i - m \in 1..Len(t) /\ u[i] = t[i - m]
  BY EntriesOfJoined
<1> SUFFICES ASSUME NEW i \in 1..Len(u), NEW j \in 1..Len(u), i < j
             PROVE  u[i] < u[j]
  BY DEF Asc
<1> HIDE DEF u, m
<1>2. CASE j <= m
  <2>1. i \in 1..m /\ j \in 1..m
    BY <1>1, <1>2
  <2> QED BY <1>1, <2>1 DEF Asc, m
<1>3. CASE i <= m /\ ~(j <= m)
  <2>1. i \in 1..m /\ j - m \in 1..Len(t) /\ u[j] = t[j - m] /\ u[i] = s[i]
    BY <1>1, <1>3
  <2>2. s[i] < t[j - m]
    BY <2>1 DEF Below, m
  <2> QED BY <2>1, <2>2
<1>4. CASE ~(i <= m)
  <2>1. ~(j <= m) /\ i - m < j - m
    BY <1>1, <1>4
  <2>2. /\ i - m \in 1..Len(t) /\ u[i] = t[i - m]
        /\ j - m \in 1..Len(t) /\ u[j] = t[j - m]
    BY <1>1, <1>4, <2>1
  <2> DEFINE a == i - m
             b == j - m
  <2>3. t[a] < t[b]
    <3>1. a \in 1..Len(t) /\ b \in 1..Len(t) /\ a < b
      BY <2>1, <2>2
    <3> HIDE DEF a, b
    <3> QED BY <3>1 DEF Asc
  <2> QED BY <2>2, <2>3
<1> QED BY <1>1, <1>2, <1>3, <1>4

\* A bound on a joined list is one on its parts.
LEMMA AtMostJoined ==
  ASSUME NEW s \in Seq(Nat), NEW t \in Seq(Nat), NEW n
  PROVE  /\ AtMost(s \o t, n) => AtMost(s, n)
         /\ AtMost(s, n) /\ AtMost(t, n) => AtMost(s \o t, n)
<1> DEFINE u == s \o t
           m == Len(s)
<1>1. /\ Len(u) = m + Len(t) /\ m \in Nat /\ Len(t) \in Nat
      /\ \A i \in 1..m : u[i] = s[i]
      /\ \A i \in 1..(m + Len(t)) :
           ~(i <= m) => i - m \in 1..Len(t) /\ u[i] = t[i - m]
  BY EntriesOfJoined
<1> HIDE DEF u
<1>2. ASSUME AtMost(u, n) PROVE AtMost(s, n)
  <2> SUFFICES ASSUME NEW i \in 1..m PROVE s[i] <= n
    BY DEF AtMost
  <2> HIDE DEF m
  <2>1. i \in 1..Len(u) /\ u[i] = s[i]
    BY <1>1
  <2> QED BY <1>2, <2>1 DEF AtMost
<1>3. ASSUME AtMost(s, n), AtMost(t, n), NEW i \in 1..Len(u) PROVE u[i] <= n
  <2>1. CASE i <= m
    <3>1. i \in 1..Len(s) /\ u[i] = s[i]
      BY <1>1, <2>1
    <3> QED BY <1>3, <3>1 DEF AtMost
  <2>2. CASE ~(i <= m)
    <3>1. i - m \in 1..Len(t) /\ u[i] = t[i - m]
      BY <1>1, <2>2
    <3> QED BY <1>3, <3>1 DEF AtMost
  <2> QED BY <2>1, <2>2
<1> QED BY <1>2, <1>3 DEF AtMost, u

\* What is below both parts is below a joined list.
LEMMA BelowJoined ==
  ASSUME NEW s \in Seq(Nat), NEW t \in Seq(Nat), NEW r \in Seq(Nat)
  PROVE  Below(r, s) /\ Below(r, t) => Below(r, s \o t)
<1> DEFINE u == s \o t
           m == Len(s)
<1>1. /\ Len(u) = m + Len(t) /\ m \in Nat /\ Len(t) \in Nat
      /\ \A i \in 1..m : u[i] = s[i]
      /\ \A i \in 1..(m + Len(t)) :
           ~(i <= m) => i - m \in 1..Len(t) /\ u[i] = t[i - m]
  BY EntriesOfJoined
<1> HIDE DEF u
<1> SUFFICES ASSUME Below(r, s), Below(r, t), NEW j \in 1..Len(r),
                    NEW i \in 1..Len(u)
             PROVE  r[j] < u[i]
  BY DEF Below, u
<1>2. CASE i <= m
  <2>1. i \in 1..Len(s) /\ u[i] = s[i]
    BY <1>1, <1>2
  <2> QED BY <2>1 DEF Below
<1>3. CASE ~(i <= m)
  <2>1. i - m \in 1..Len(t) /\ u[i] = t[i - m]
    BY <1>1, <1>3
  <2> QED BY <2>1 DEF Below
<1> QED BY <1>2, <1>3

\* The next number is above all that came before.
LEMMA NextToken ==
  ASSUME NEW s \in Seq(Nat), NEW n \in Nat
  PROVE  /\ <<n + 1>> \in Seq(Nat) /\ Asc(<<n + 1>>) /\ AtMost(<<n + 1>>, n + 1)
         /\ AtMost(s, n) => AtMost(s, n + 1) /\ Below(s, <<n + 1>>)
         /\ Append(s, n + 1) = s \o <<n + 1>>
<1> DEFINE t == <<n + 1>>
<1>1. t \in Seq(Nat) /\ Len(t) = 1 /\ t[1] = n + 1
  OBVIOUS
<1>2. Asc(t) /\ AtMost(t, n + 1)
  BY <1>1 DEF Asc, AtMost
<1>3. ASSUME AtMost(s, n) PROVE AtMost(s, n + 1) /\ Below(s, t)
  <2>1. \A i \in 1..Len(s) : s[i] \in Nat /\ s[i] <= n
    BY <1>3, ElementOfSeq DEF AtMost
  <2> QED BY <1>1, <2>1 DEF AtMost, Below
<1>4. Append(s, n + 1) = s \o t
  BY AppendIsConcat
<1> QED BY <1>1, <1>2, <1>3, <1>4

\* No tokens are in order, and below any others.
LEMMA NoTokens ==
  ASSUME NEW n, NEW s
  PROVE  Asc(<<>>) /\ AtMost(<<>>, n) /\ Below(s, <<>>)
<1>1. Len(<<>>) = 0
  BY EmptySeq
<1> QED BY <1>1 DEF Asc, AtMost, Below

\* The text of the reply and what is buffered behind it.
Text(k) == TextOf(k, content) \o buffer[k]

\* Tokens come in the order they were sent, in the turn and in the parser.
Rising ==
  \A k \in Kinds : /\ Asc(Text(k)) /\ AtMost(Text(k), sent)
                   /\ Asc(block[k]) /\ AtMost(block[k], sent)

\* A delta waits alone, and its token is new.
Fresh ==
  \A p \in Waiting :
    pending[p].kind = "delta" =>
      /\ Len(pending) = 1
      /\ Asc(pending[p].tokens) /\ AtMost(pending[p].tokens, sent)
      /\ \A k \in Kinds : Below(Text(k), pending[p].tokens)

\* What waits of a codex stream is of its open item, or of the one just done.
OfItem(p) ==
  /\ pending[p].kind = "delta" => item = pending[p].of
  /\ pending[p].kind = "end" =>
       item = "none" /\ pending[p].tokens = block[pending[p].of]
  /\ Begins(pending[p]) => item = "call"

\* The text of an item that is not in the reply yet, and will replace what is
\* buffered of it.
Coming(k) ==
  \/ item = k
  \/ \E p \in Waiting : pending[p].kind = "end" /\ pending[p].of = k
OneByItem ==
  IF provider = "codex"
  THEN /\ \A p \in Waiting : OfItem(p)
       /\ \A k \in Kinds : Coming(k) => Below(TextOf(k, content), block[k])
  ELSE \A p \in Waiting : pending[p].kind # "end"

\* What the consumer was shown of an openrouter stream is what the turn holds.
ShownText ==
  provider = "openrouter" => \A k \in Kinds : ShownTokens(k) = Text(k)

TextSound == Rising /\ Fresh /\ OneByItem /\ ShownText

\* The text of the turn is a list of tokens.
LEMMA TextTyped ==
  ASSUME TurnTyped, NEW k \in Kinds
  PROVE  /\ TextOf(k, content) \in Seq(Nat) /\ buffer[k] \in Seq(Nat)
         /\ Text(k) \in Seq(Nat)
<1>1. TextOf(k, content) \in Seq(Nat) /\ buffer[k] \in Seq(Nat)
  BY BlockTextLaws DEF TurnTyped
<1> QED BY <1>1, ListLaws DEF Text

\* A step of the parser that sends no text: it is enough to look at what waits.
LEMMA SendsNoText ==
  ASSUME Typed, TextSound, pending = <<>>,
         UNCHANGED <<provider, sent, turn, shown>>,
         \A k \in Kinds : block'[k] \in {block[k], <<>>},
         \A p \in Waiting' : pending'[p].kind # "delta",
         OneByItem'
  PROVE  TextSound'
<1>1. \A k \in Kinds : /\ Text(k)' = Text(k)
                       /\ ShownTokens(k)' = ShownTokens(k)
  BY DEF Text, TextOf, ShownTokens, turn
<1>2. Rising'
  <2> SUFFICES ASSUME NEW k \in Kinds
               PROVE  /\ Asc(Text(k)') /\ AtMost(Text(k)', sent')
                      /\ Asc(block'[k]) /\ AtMost(block'[k], sent')
    BY DEF Rising, Asc, AtMost
  <2>1. /\ Asc(Text(k)) /\ AtMost(Text(k), sent)
        /\ Asc(block[k]) /\ AtMost(block[k], sent)
    BY DEF TextSound, Rising
  <2>2. Asc(<<>>) /\ AtMost(<<>>, sent)
    BY NoTokens
  <2> QED BY <1>1, <2>1, <2>2
<1>3. Fresh'
  BY DEF Fresh
<1>4. ShownText'
  BY <1>1 DEF TextSound, ShownText
<1> QED BY <1>2, <1>3, <1>4 DEF TextSound

\* The next token is above all that came before.
LEMMA TokenText ==
  ASSUME Typed, TextSound, ItemDelta \/ ContentDelta
  PROVE  TextSound'
<1>1. PICK k \in Kinds : Token(k) /\ (provider = "codex" => item = k)
  BY DEF ItemDelta, ContentDelta, OpenRouter
<1> DEFINE e == Delta(k, sent + 1)
           t == <<sent + 1>>
<1>2. /\ pending' = <<e>> /\ sent' = sent + 1
      /\ block' = [block EXCEPT ![k] = Append(@, sent + 1)]
      /\ UNCHANGED <<provider, item, turn, shown>>
  BY <1>1 DEF Token, ItemDelta, ContentDelta
<1>3. sent \in Nat /\ block \in [Kinds -> Seq(Nat)] /\ TurnTyped
  BY DEF Typed, SourceTyped
<1>4. e \in EventType /\ e.kind = "delta" /\ e.of = k /\ e.tokens = t
      /\ ~Begins(e)
  <2>1. sent + 1 \in Nat
    BY <1>3
  <2>2. Delta(k, sent + 1) \in EventType
    BY <2>1, Makers
  <2> QED BY <2>2 DEF Delta, NoEvent, Begins
<1> HIDE DEF e, t
<1>5. Len(pending') = 1 /\ pending'[1] = e /\ \A p \in Waiting' : p = 1
  <2>1. Len(<<e>>) = 1 /\ <<e>>[1] = e
    BY <1>4, OneEvent
  <2> QED BY <1>2, <2>1 DEF Waiting
<1>6. /\ t \in Seq(Nat) /\ Asc(t) /\ AtMost(t, sent')
      /\ \A s \in Seq(Nat) : AtMost(s, sent) =>
           AtMost(s, sent') /\ Below(s, t) /\ Append(s, sent + 1) = s \o t
  BY <1>2, <1>3, NextToken DEF t
<1>7. ASSUME NEW j \in Kinds
      PROVE  /\ Text(j)' = Text(j) /\ ShownTokens(j)' = ShownTokens(j)
             /\ TextOf(j, content)' = TextOf(j, content)
             /\ Text(j) \in Seq(Nat) /\ TextOf(j, content) \in Seq(Nat)
             /\ Asc(Text(j)) /\ AtMost(Text(j), sent)
             /\ AtMost(TextOf(j, content), sent)
             /\ Asc(block[j]) /\ AtMost(block[j], sent) /\ block[j] \in Seq(Nat)
  <2>1. /\ TextOf(j, content) \in Seq(Nat) /\ buffer[j] \in Seq(Nat)
        /\ Text(j) \in Seq(Nat)
    BY <1>3, TextTyped
  <2>2. /\ Asc(Text(j)) /\ AtMost(Text(j), sent)
        /\ Asc(block[j]) /\ AtMost(block[j], sent)
    BY DEF TextSound, Rising
  <2>3. AtMost(TextOf(j, content), sent)
    BY <2>1, <2>2, AtMostJoined DEF Text
  <2> QED BY <1>2, <1>3, <2>1, <2>2, <2>3 DEF Text, TextOf, ShownTokens, turn
<1>8. /\ block'[k] = block[k] \o t
      /\ \A j \in Kinds : j # k => block'[j] = block[j]
  BY <1>2, <1>3, <1>6, <1>7
<1>9. Asc(block'[k]) /\ AtMost(block'[k], sent')
  <2>1. Below(block[k], t) /\ AtMost(block[k], sent')
    BY <1>6, <1>7
  <2> QED BY <1>6, <1>7, <1>8, <2>1, AscJoined, AtMostJoined
<1>10. Rising'
  <2> SUFFICES ASSUME NEW j \in Kinds
               PROVE  /\ Asc(Text(j)') /\ AtMost(Text(j)', sent')
                      /\ Asc(block'[j]) /\ AtMost(block'[j], sent')
    BY DEF Rising, Asc, AtMost
  <2>1. CASE j = k
    BY <1>6, <1>7, <1>9, <2>1
  <2>2. CASE j # k
    BY <1>6, <1>7, <1>8, <2>2
  <2> QED BY <2>1, <2>2
<1>11. Fresh'
  <2> SUFFICES /\ Asc(e.tokens) /\ AtMost(e.tokens, sent')
               /\ \A j \in Kinds : Below(Text(j)', e.tokens)
    BY <1>5 DEF Fresh, Asc, AtMost, Below
  <2> QED BY <1>4, <1>6, <1>7
<1>12. OneByItem'
  <2>1. CASE provider = "codex"
    <3>1. \A p \in Waiting' : OfItem(p)'
      BY <1>1, <1>2, <1>4, <1>5, <2>1 DEF OfItem, Begins
    <3>2. \A j \in Kinds : Coming(j)' => j = k
      BY <1>1, <1>2, <1>4, <1>5, <2>1 DEF Coming
    <3>3. Below(TextOf(k, content), block'[k])
      <4>1. Below(TextOf(k, content), block[k])
        BY <1>1, <2>1 DEF TextSound, OneByItem, Coming
      <4> QED BY <1>6, <1>7, <1>8, <4>1, BelowJoined
    <3>4. \A j \in Kinds : Coming(j)' => Below(TextOf(j, content)', block'[j])
      BY <1>7, <3>2, <3>3
    <3> QED BY <1>2, <2>1, <3>1, <3>4 DEF OneByItem, Below
  <2>2. CASE provider # "codex"
    BY <1>2, <1>4, <1>5, <2>2 DEF OneByItem
  <2> QED BY <2>1, <2>2
<1>13. ShownText'
  BY <1>2, <1>7 DEF TextSound, ShownText
<1> QED BY <1>10, <1>11, <1>12, <1>13 DEF TextSound

\* One event waits, or none.
LEMMA WaitsForOne ==
  /\ \A e \in EventType : pending' = <<e>> =>
       \A p \in Waiting' : pending'[p] = e
  /\ pending' = <<>> => Waiting' = {}
<1>1. ASSUME NEW e \in EventType, pending' = <<e>>, NEW p \in Waiting'
      PROVE  pending'[p] = e
  <2>1. Len(<<e>>) = 1 /\ <<e>>[1] = e
    BY OneEvent
  <2>2. p = 1
    BY <1>1, <2>1 DEF Waiting
  <2> QED BY <1>1, <2>1, <2>2
<1>2. ASSUME pending' = <<>> PROVE Waiting' = {}
  <2>1. Len(<<>>) = 0
    BY EmptySeq
  <2> QED BY <1>2, <2>1 DEF Waiting
<1> QED BY <1>1, <1>2

\* The steps of the parser that send no text.
LEMMA OtherItemsText ==
  ASSUME Typed, TextSound, Typed',
         ItemAdded \/ ArgumentsArrive \/ ItemDone \/ Completed
  PROVE  TextSound'
<1>1. /\ provider = "codex" /\ pending = <<>>
      /\ UNCHANGED <<provider, sent, turn, shown>>
      /\ item' \in {"none", "call", "ended"} \/ item = "none"
  BY DEF ItemAdded, ArgumentsArrive, ItemDone, Completed, Codex, Reading,
         server, parser
<1>2. block \in [Kinds -> Seq(Nat)]
  BY DEF Typed, SourceTyped
<1>3. \A j \in Kinds : TextOf(j, content)' = TextOf(j, content)
  BY <1>1 DEF TextOf, turn
<1>4. CASE ItemDone /\ item \in Kinds
  <2> DEFINE e == End(item, block[item])
  <2>1. /\ e \in EventType /\ e.kind = "end" /\ e.of = item
        /\ e.tokens = block[item] /\ ~Begins(e)
    <3>1. block[item] \in Seq(Nat)
      BY <1>2, <1>4
    <3>2. End(item, block[item]) \in EventType
      BY <1>4, <3>1, Makers
    <3> QED BY <3>2 DEF End, NoEvent, Begins
  <2>2. pending' = <<e>> /\ item' = "none" /\ block' = block
    BY <1>4, KindsApart DEF ItemDone, parser
  <2> HIDE DEF e
  <2>3. \A p \in Waiting' : pending'[p] = e
    BY <2>1, <2>2, WaitsForOne
  <2>4. \A p \in Waiting' : OfItem(p)'
    BY <2>1, <2>2, <2>3 DEF OfItem, Begins
  <2>5. \A j \in Kinds : Coming(j)' => j = item
    BY <2>1, <2>2, <2>3, KindsApart DEF Coming
  <2>6. Below(TextOf(item, content), block[item])
    BY <1>1, <1>4 DEF TextSound, OneByItem, Coming
  <2>7. \A j \in Kinds : Coming(j)' => Below(TextOf(j, content)', block'[j])
    BY <1>3, <2>2, <2>5, <2>6
  <2>8. OneByItem'
    BY <1>1, <2>4, <2>7 DEF OneByItem, Below
  <2> QED BY <1>1, <2>1, <2>2, <2>3, <2>8, SendsNoText
<1>5. CASE ~(ItemDone /\ item \in Kinds)
  <2>1. /\ \A j \in Kinds : block'[j] \in {block[j], <<>>}
        /\ \A j \in Kinds : item' = j => block'[j] = <<>>
        /\ \A p \in Waiting' :
             LET e == pending'[p]
             IN  /\ e.kind \notin {"delta", "end"}
                 /\ Begins(e) => item' = "call"
    <3>1. CASE ItemAdded
      <4>1. CASE \E k \in Kinds : /\ item' = k
                                  /\ block' = [block EXCEPT ![k] = <<>>]
                                  /\ pending' = AddedEvents(k, TRUE)
        <5>1. pending' = <<>>
          BY <4>1, KindsApart DEF AddedEvents, Only
        <5>2. Waiting' = {}
          BY <5>1, WaitsForOne
        <5> QED BY <1>2, <4>1, <5>2
      <4>2. CASE \E known \in BOOLEAN : /\ item' = "call"
                                        /\ pending' = AddedEvents("call", known)
                                        /\ UNCHANGED block
        <5>1. PICK known \in BOOLEAN : pending' = AddedEvents("call", known)
          BY <4>2
        <5> DEFINE e == CallEvent("callStart", Count + 1, known)
        <5>2. pending' = <<e>>
          BY <5>1 DEF AddedEvents, Only
        <5>3. e.kind = "callStart"
          BY DEF CallEvent, NoEvent
        <5> HIDE DEF e
        <5>4. \A p \in Waiting' : pending'[p] = e
          <6>1. Len(<<e>>) = 1 /\ <<e>>[1] = e
            OBVIOUS
          <6>2. \A p \in Waiting' : p = 1
            BY <5>2, <6>1 DEF Waiting
          <6> QED BY <5>2, <6>1, <6>2
        <5> QED BY <4>2, <5>3, <5>4, KindsApart
      <4> QED BY <3>1, <4>1, <4>2 DEF ItemAdded
    <3>2. CASE ArgumentsArrive
      <4> DEFINE e == CallEvent("callDelta", Count, LastTool.known)
      <4>1. /\ pending' = <<e>> /\ item' = "call" /\ block' = block
        BY <3>2 DEF ArgumentsArrive, server
      <4>2. e.kind = "callDelta"
        BY DEF CallEvent, NoEvent
      <4> HIDE DEF e
      <4>3. \A p \in Waiting' : pending'[p] = e
        <5>1. Len(<<e>>) = 1 /\ <<e>>[1] = e
          OBVIOUS
        <5>2. \A p \in Waiting' : p = 1
          BY <4>1, <5>1 DEF Waiting
        <5> QED BY <4>1, <5>1, <5>2
      <4> QED BY <4>1, <4>2, <4>3, KindsApart
    <3>3. CASE ItemDone
      <4>1. /\ item' = "none" /\ block' = block /\ item = "call"
            /\ pending' = <<CallEnd(Count, TRUE)>> \/ pending' = <<>>
        BY <1>5, <3>3 DEF ItemDone, parser
      <4>2. CASE pending' = <<>>
        <5>1. Waiting' = {}
          BY <4>2, WaitsForOne
        <5> QED BY <4>1, <5>1, KindsApart
      <4>3. CASE pending' = <<CallEnd(Count, TRUE)>>
        <5> DEFINE e == CallEnd(Count, TRUE)
        <5>1. e.kind = "callEnd"
          BY DEF CallEnd, NoEvent
        <5>2. pending' = <<e>>
          BY <4>3
        <5> HIDE DEF e
        <5>3. \A p \in Waiting' : pending'[p] = e
          <6>1. Len(<<e>>) = 1 /\ <<e>>[1] = e
            OBVIOUS
          <6>2. \A p \in Waiting' : p = 1
            BY <5>2, <6>1 DEF Waiting
          <6> QED BY <5>2, <6>1, <6>2
        <5> QED BY <4>1, <5>1, <5>3, KindsApart DEF Begins
      <4> QED BY <4>1, <4>2, <4>3
    <3>4. CASE Completed
      <4>1. item' = "ended" /\ block' = block /\ pending' = <<>>
        BY <1>1, <3>4 DEF Completed
      <4>2. Waiting' = {}
        BY <4>1, WaitsForOne
      <4> QED BY <4>1, <4>2, KindsApart
    <3> QED BY <3>1, <3>2, <3>3, <3>4
  <2>2. \A p \in Waiting' : OfItem(p)'
    BY <2>1 DEF OfItem, Begins
  <2>3. \A j \in Kinds : Coming(j)' => Below(TextOf(j, content)', block'[j])
    BY <2>1, NoTokens DEF Coming
  <2>4. OneByItem'
    BY <1>1, <2>2, <2>3 DEF OneByItem, Below
  <2> QED BY <1>1, <2>1, <2>4, SendsNoText
<1> QED BY <1>4, <1>5

\* An entry of tool_calls yields the start of a call or a fragment.
LEMMA CallDeltaBegins ==
  ASSUME Typed, CallDelta
  PROVE  \A p \in Waiting' : Begins(pending'[p])
<1>1. PICK i \in 1..(Count + 1), named \in BOOLEAN, n \in 0..1 :
        LET old == IF i <= Count THEN tools[i]
                   ELSE [known |-> FALSE, arguments |-> 0]
            new == Merged(old, named, n)
        IN  /\ i <= MaxItems /\ new # old
            /\ pending' = MergedEvents(i, old, new)
  BY DEF CallDelta
<1> DEFINE old == IF i <= Count THEN tools[i]
                  ELSE [known |-> FALSE, arguments |-> 0]
           new == Merged(old, named, n)
<1>2. i <= MaxItems /\ pending' = MergedEvents(i, old, new) /\ new # old
  BY <1>1
<1>3. /\ Count \in Nat /\ Count = Len(tools)
      /\ i \in 1..(Count + 1) /\ i \in Indices
  BY <1>2, ToolFacts DEF Indices, Typed
<1>4. old \in ToolType
  <2>1. CASE i <= Count
    <3>1. i \in 1..Len(tools)
      BY <1>3, <2>1
    <3> QED BY <2>1, <3>1, ToolFacts DEF Typed
  <2>2. CASE ~(i <= Count)
    BY <2>2 DEF ToolType
  <2> QED BY <2>1, <2>2
<1> HIDE DEF old
<1>5. new \in ToolType /\ (old.known => new.known)
  <2>1. new \in ToolType
    BY <1>3, <1>4, MergedTyped
  <2>2. old.known => new.known
    BY DEF Merged
  <2> QED BY <2>1, <2>2
<1> HIDE DEF new
<1>6. \A p \in 1..Len(MergedEvents(i, old, new)) :
        Begins(MergedEvents(i, old, new)[p])
  BY <1>2, <1>3, <1>4, <1>5, MergedBegins
<1> QED BY <1>2, <1>6 DEF Waiting

\* A frame of an openrouter stream that has no text.
LEMMA OpenRouterText ==
  ASSUME Typed, TextSound, CallDelta \/ FinishReason
  PROVE  TextSound'
<1>1. /\ provider # "codex" /\ pending = <<>>
      /\ UNCHANGED <<provider, sent, turn, shown, block>>
  BY DEF CallDelta, FinishReason, OpenRouter, Reading, server
<1>2. \A p \in Waiting' : pending'[p].kind \notin {"delta", "end"}
  <2>1. CASE CallDelta
    BY <2>1, CallDeltaBegins DEF Begins
  <2>2. CASE FinishReason
    <3>1. Waiting' = {}
      BY <1>1, <2>2, WaitsForOne DEF FinishReason
    <3> QED BY <3>1
  <2> QED BY <2>1, <2>2
<1>3. OneByItem'
  BY <1>1, <1>2 DEF OneByItem
<1> QED BY <1>1, <1>2, <1>3, SendsNoText

\* The end of the stream yields no text.
LEMMA StreamClosesText ==
  ASSUME Typed, TextSound, StreamCloses
  PROVE  TextSound'
<1> DEFINE m == Len(Flushed)
           last == Done(FinalStop)
<1>1. /\ pending = <<>> /\ pending' = Append(Flushed, last)
      /\ UNCHANGED <<provider, item, sent, turn, shown, block>>
  BY DEF StreamCloses, server, parser, Reading
<1>2. last \in EventType /\ last.kind = "done"
  <2>1. FinalStop \in StopReasons
    BY DEF FinalStop, Typed, SourceTyped, StopReasons
  <2>2. Done(FinalStop) \in EventType
    BY <2>1, Makers
  <2> QED BY <2>2 DEF Done, NoEvent
<1>3. /\ Flushed \in Seq(EventType) /\ m \in Nat
      /\ \A p \in 1..m : Flushed[p].kind = "callEnd"
  BY FlushedEnds, LenProperties DEF Typed
<1> HIDE DEF last
<1>4. /\ Len(pending') = m + 1 /\ pending'[m + 1] = last
      /\ \A p \in 1..m : pending'[p] = Flushed[p]
  BY <1>1, <1>2, <1>3, AppendProperties
<1> HIDE DEF m
<1>5. \A p \in Waiting' : pending'[p].kind \in {"callEnd", "done"}
  <2>1. \A p \in Waiting' : p \in 1..m \/ p = m + 1
    BY <1>3, <1>4 DEF Waiting
  <2> QED BY <1>2, <1>3, <1>4, <2>1
<1>6. OneByItem'
  <2>1. CASE provider = "codex"
    <3>1. \A p \in Waiting' : OfItem(p)'
      BY <1>5 DEF OfItem, Begins
    <3>2. \A j \in Kinds : Coming(j)' => item = j
      BY <1>1, <1>5 DEF Coming
    <3>3. \A j \in Kinds : item = j => Below(TextOf(j, content), block[j])
      BY <2>1 DEF TextSound, OneByItem, Coming
    <3>4. \A j \in Kinds : TextOf(j, content)' = TextOf(j, content)
      BY <1>1 DEF TextOf, turn
    <3>5. \A j \in Kinds : Coming(j)' => Below(TextOf(j, content)', block'[j])
      BY <1>1, <3>2, <3>3, <3>4
    <3> QED BY <1>1, <2>1, <3>1, <3>5 DEF OneByItem, Below
  <2>2. CASE provider # "codex"
    BY <1>1, <1>5, <2>2 DEF OneByItem
  <2> QED BY <2>1, <2>2
<1> QED BY <1>1, <1>5, <1>6, SendsNoText

-----------------------------------------------------------------------------
(* What a pushed event does to the text.                                   *)

\* A flush moves text from the buffer into the reply.
LEMMA FlushKeepsText ==
  ASSUME TurnTyped, FlushTurn
  PROVE  \A k \in Kinds : /\ Text(k)' = Text(k)
                          /\ TextOf(k, content)' = Text(k)
<1> SUFFICES ASSUME NEW k \in Kinds
             PROVE  Text(k)' = Text(k) /\ TextOf(k, content)' = Text(k)
  OBVIOUS
<1>1. /\ content \in Seq(BlockType) /\ buffer \in [Kinds -> Seq(Nat)]
      /\ content' = content \o Flush /\ buffer' = Bare
  BY DEF FlushTurn, TurnTyped
<1>2. Flush \in Seq(BlockType) /\ TextOf(k, Flush) = buffer[k]
  BY <1>1, FlushAdds
<1>3. TextOf(k, content \o Flush) = TextOf(k, content) \o buffer[k]
  <2>1. TextOf(k, content \o Flush) = TextOf(k, content) \o TextOf(k, Flush)
    BY <1>1, <1>2, BlockTextLaws
  <2> QED BY <1>2, <2>1
<1>4. TextOf(k, content)' = TextOf(k, content')
  BY DEF TextOf
<1>5. TextOf(k, content)' = Text(k)
  BY <1>1, <1>3, <1>4 DEF Text
<1>6. buffer'[k] = <<>> /\ Text(k) \in Seq(Nat)
  BY <1>1, TextTyped DEF Bare
<1>7. Text(k)' = TextOf(k, content)' \o buffer'[k]
  BY DEF Text
<1>8. Text(k) \o <<>> = Text(k)
  BY <1>6, ListLaws
<1> QED BY <1>5, <1>6, <1>7, <1>8

\* What the push of an event makes of the text of each kind.
LEMMA PushText ==
  ASSUME TurnTyped, NEW e \in EventType, Push(e), NEW k \in Kinds
  PROVE  /\ e.kind = "delta" /\ e.of = k => Text(k)' = Text(k) \o e.tokens
         /\ e.kind = "end" /\ e.of = k =>
              Text(k)' = TextOf(k, content) \o e.tokens
         /\ ~(e.kind \in {"delta", "end"} /\ e.of = k) => Text(k)' = Text(k)
         /\ ~Begins(e) => TextOf(k, content)' = TextOf(k, content)
<1>1. /\ content \in Seq(BlockType) /\ buffer \in [Kinds -> Seq(Nat)]
      /\ e.of \in Kinds /\ e.tokens \in Seq(Nat)
      /\ e.index \in Indices /\ e.whole \in BOOLEAN
  BY Fields DEF TurnTyped
<1>2. /\ Text(k)' = TextOf(k, content)' \o buffer'[k]
      /\ content' = content => TextOf(k, content)' = TextOf(k, content)
      /\ TextOf(k, content)' = TextOf(k, content')
  BY DEF Text, TextOf
<1>3. CASE e.kind = "delta"
  <2>1. /\ buffer' = [buffer EXCEPT ![e.of] = @ \o e.tokens]
        /\ content' = content /\ ~Begins(e)
    BY <1>3 DEF Push, Begins
  <2>2. CASE e.of = k
    <3>1. buffer'[k] = buffer[k] \o e.tokens
      BY <1>1, <2>1, <2>2
    <3>2. (TextOf(k, content) \o buffer[k]) \o e.tokens
            = TextOf(k, content) \o (buffer[k] \o e.tokens)
      <4>1. TextOf(k, content) \in Seq(Nat) /\ buffer[k] \in Seq(Nat)
        BY TextTyped
      <4>2. e.tokens \in Seq(Nat)
        BY <1>1
      <4>3. \A s, t, u \in Seq(Nat) : (s \o t) \o u = s \o (t \o u)
        BY ListLaws
      <4> QED BY ONLY <4>1, <4>2, <4>3
    <3> QED BY <1>2, <1>3, <2>1, <2>2, <3>1, <3>2 DEF Text
  <2>3. CASE e.of # k
    <3>1. buffer'[k] = buffer[k]
      BY <1>1, <2>1, <2>3
    <3> QED BY <1>2, <1>3, <2>1, <2>3, <3>1 DEF Text
  <2> QED BY <2>2, <2>3
<1>4. CASE e.kind = "end"
  <2>1. /\ buffer' = [buffer EXCEPT ![e.of] = e.tokens]
        /\ content' = content /\ ~Begins(e)
    BY <1>4 DEF Push, Begins
  <2>2. buffer'[k] = IF e.of = k THEN e.tokens ELSE buffer[k]
    BY <1>1, <2>1
  <2> QED BY <1>2, <1>4, <2>1, <2>2 DEF Text
<1>5. CASE Begins(e)
  <2>1. FlushTurn \/ UNCHANGED <<content, buffer>>
    BY <1>5 DEF Push, Begins
  <2>2. Text(k)' = Text(k)
    BY <1>2, <2>1, FlushKeepsText DEF Text
  <2> QED BY <1>5, <2>2 DEF Begins
<1>6. CASE e.kind = "callEnd"
  <2> DEFINE x == CallBlock(e.index, e.whole)
  <2>1. content' = Append(content, x) /\ buffer' = buffer
    BY <1>6 DEF Push
  <2>2. x \in BlockType /\ x.of # k
    <3>1. e.index \in Nat
      BY <1>1 DEF Indices
    <3>2. CallBlock(e.index, e.whole) \in BlockType
      BY <1>1, <3>1, Makers
    <3> QED BY <3>2, KindsApart DEF CallBlock
  <2> HIDE DEF x
  <2>3. <<x>> \in Seq(BlockType) /\ Append(content, x) = content \o <<x>>
    BY <1>1, <2>2, ListLaws, AppendIsConcat
  <2>4. TextOf(k, <<x>>) = <<>>
    BY <2>2, BlockTextLaws
  <2>5. TextOf(k, content \o <<x>>) = TextOf(k, content) \o <<>>
    <3>1. TextOf(k, content \o <<x>>) = TextOf(k, content) \o TextOf(k, <<x>>)
      BY <1>1, <2>3, BlockTextLaws
    <3> QED BY <2>4, <3>1
  <2>6. TextOf(k, content) \o <<>> = TextOf(k, content)
    <3>1. TextOf(k, content) \in Seq(Nat)
      BY TextTyped
    <3> QED BY <3>1, ListLaws
  <2>7. TextOf(k, content)' = TextOf(k, content)
    BY <1>2, <2>1, <2>3, <2>5, <2>6
  <2> QED BY <1>2, <1>6, <2>1, <2>7 DEF Text
<1>7. CASE e.kind \notin {"delta", "end", "callStart", "callDelta", "callEnd"}
  <2>1. UNCHANGED <<content, buffer>>
    BY <1>7 DEF Push
  <2> QED BY <1>2, <1>7, <2>1 DEF Text
<1> QED BY <1>3, <1>4, <1>5, <1>6, <1>7 DEF Begins

\* The first part of an ascending list ascends.
LEMMA AscPart ==
  ASSUME NEW s \in Seq(Nat), NEW t \in Seq(Nat), Asc(s \o t)
  PROVE  Asc(s)
<1>1. /\ Len(s \o t) = Len(s) + Len(t) /\ Len(s) \in Nat /\ Len(t) \in Nat
      /\ \A i \in 1..Len(s) : (s \o t)[i] = s[i]
  BY EntriesOfJoined
<1> SUFFICES ASSUME NEW i \in 1..Len(s), NEW j \in 1..Len(s), i < j
             PROVE  s[i] < s[j]
  BY DEF Asc
<1>2. i \in 1..Len(s \o t) /\ j \in 1..Len(s \o t)
  BY <1>1
<1>3. (s \o t)[i] < (s \o t)[j]
  BY <1>2 DEF Asc
<1> QED BY <1>1, <1>3

\* Whatever is pushed, the tokens of the turn stay in the order they were sent.
LEMMA PushRises ==
  ASSUME Typed, TextSound, pending # <<>>, Push(Event), NEW k \in Kinds
  PROVE  Asc(Text(k)') /\ AtMost(Text(k)', sent)
<1>1. /\ Event \in EventType /\ Event = pending[1] /\ 1 \in Waiting
  <2>1. Len(pending) \in Nat /\ Len(pending) # 0 /\ pending \in Seq(EventType)
    BY LenProperties, EmptySeq DEF Typed
  <2>2. Event \in EventType /\ Event = pending[1]
    BY <2>1, HeadTailProperties DEF Event
  <2> QED BY <2>1, <2>2 DEF Waiting
<1>2. /\ TextOf(k, content) \in Seq(Nat) /\ Text(k) \in Seq(Nat)
      /\ buffer[k] \in Seq(Nat) /\ Event.tokens \in Seq(Nat)
      /\ block[k] \in Seq(Nat) /\ Event.of \in Kinds /\ TurnTyped
  BY <1>1, TextTyped, Fields DEF Typed, SourceTyped
<1>3. /\ Asc(Text(k)) /\ AtMost(Text(k), sent)
      /\ Asc(block[k]) /\ AtMost(block[k], sent)
  BY DEF TextSound, Rising
<1>4. /\ Event.kind = "delta" /\ Event.of = k =>
           Text(k)' = Text(k) \o Event.tokens
      /\ Event.kind = "end" /\ Event.of = k =>
           Text(k)' = TextOf(k, content) \o Event.tokens
      /\ ~(Event.kind \in {"delta", "end"} /\ Event.of = k) =>
           Text(k)' = Text(k)
  BY <1>1, <1>2, PushText
<1>5. CASE Event.kind = "delta" /\ Event.of = k
  <2>1. /\ Asc(Event.tokens) /\ AtMost(Event.tokens, sent)
        /\ Below(Text(k), Event.tokens)
    BY <1>1, <1>5 DEF TextSound, Fresh
  <2>2. /\ Asc(Text(k) \o Event.tokens)
        /\ AtMost(Text(k) \o Event.tokens, sent)
    BY <1>2, <1>3, <2>1, AscJoined, AtMostJoined
  <2> QED BY <1>4, <1>5, <2>2
<1>6. CASE Event.kind = "end" /\ Event.of = k
  <2>1. provider = "codex"
    BY <1>1, <1>6 DEF TextSound, OneByItem
  <2>2. Event.tokens = block[k]
    BY <1>1, <1>6, <2>1 DEF TextSound, OneByItem, OfItem
  <2>3. Below(TextOf(k, content), block[k])
    BY <1>1, <1>6, <2>1 DEF TextSound, OneByItem, Coming
  <2>4. Asc(TextOf(k, content)) /\ AtMost(TextOf(k, content), sent)
    BY <1>2, <1>3, AscPart, AtMostJoined DEF Text
  <2>5. /\ Asc(TextOf(k, content) \o block[k])
        /\ AtMost(TextOf(k, content) \o block[k], sent)
    BY <1>2, <1>3, <2>3, <2>4, AscJoined, AtMostJoined
  <2> QED BY <1>4, <1>6, <2>2, <2>5
<1>7. CASE ~(Event.kind \in {"delta", "end"} /\ Event.of = k)
  BY <1>3, <1>4, <1>7
<1> QED BY <1>5, <1>6, <1>7

-----------------------------------------------------------------------------
(* What the consumer is shown.                                             *)

\* Each event that is announced is of the call the pushed one is of, but a
\* delta.
LEMMA AnnouncedKinds ==
  ASSUME NEW e \in EventType
  PROVE  /\ e.kind = "delta" => Announced(e) = <<e>>
         /\ e.kind # "delta" =>
              \A p \in 1..Len(Announced(e)) :
                /\ Announced(e)[p].kind \in CallKinds
                /\ Announced(e)[p].index = e.index
<1> DEFINE s == CallEvent("callStart", e.index, e.known)
<1>1. s \in EventType /\ s.kind = "callStart" /\ s.index = e.index
  <2>1. CallEvent("callStart", e.index, e.known) \in EventType
    BY Fields, Makers DEF CallKinds
  <2> QED BY <2>1 DEF CallEvent, NoEvent
<1>2. /\ Len(<<e>>) = 1 /\ <<e>>[1] = e /\ Len(<<>>) = 0
      /\ \A p \in 1..Len(<<e>>) : <<e>>[p] = e
  BY OneEvent, EmptySeq
<1>3. CASE e.kind = "delta"
  BY <1>3 DEF Announced
<1>4. CASE e.kind = "callStart"
  <2>1. Announced(e) = <<e>> \/ Announced(e) = <<>>
    BY <1>4 DEF Announced, Only
  <2> QED BY <1>2, <1>4, <2>1 DEF CallKinds
<1>5. CASE e.kind = "callDelta"
  <2>1. Announced(e) = Only(IsNew(e), s) \o <<e>>
    BY <1>5 DEF Announced
  <2> HIDE DEF s
  <2>2. <<s>> \in Seq(EventType) /\ <<e>> \in Seq(EventType)
        /\ Len(<<s>>) = 1 /\ <<s>>[1] = s /\ <<>> \in Seq(EventType)
    BY <1>1, OneEvent, EmptySeq
  <2>3. CASE IsNew(e)
    <3>1. Announced(e) = <<s>> \o <<e>>
      BY <2>1, <2>3 DEF Only
    <3>2. /\ Len(<<s>> \o <<e>>) = Len(<<s>>) + Len(<<e>>)
          /\ \A p \in 1..(Len(<<s>>) + Len(<<e>>)) : (<<s>> \o <<e>>)[p] =
               IF p <= Len(<<s>>) THEN <<s>>[p] ELSE <<e>>[p - Len(<<s>>)]
      BY <2>2, ConcatProperties
    <3>3. \A p \in 1..2 : p <= 1 => p = 1
      OBVIOUS
    <3>4. \A p \in 1..2 : ~(p <= 1) => p - 1 = 1
      OBVIOUS
    <3>5. Len(Announced(e)) = 2
          /\ \A p \in 1..2 : Announced(e)[p] = s \/ Announced(e)[p] = e
      BY <1>2, <2>2, <3>1, <3>2, <3>3, <3>4
    <3> QED BY <1>1, <1>5, <3>5 DEF CallKinds
  <2>4. CASE ~IsNew(e)
    <3>1. Announced(e) = <<>> \o <<e>>
      BY <2>1, <2>4 DEF Only
    <3>2. Announced(e) = <<e>>
      BY <2>2, <3>1, ListLaws
    <3> QED BY <1>2, <1>5, <3>2 DEF CallKinds
  <2> QED BY <2>3, <2>4
<1>6. CASE e.kind = "callEnd"
  <2>1. Announced(e) = <<e>>
    BY <1>6 DEF Announced
  <2> QED BY <1>2, <1>6, <2>1 DEF CallKinds
<1>7. CASE e.kind \notin {"delta", "callStart", "callDelta", "callEnd"}
  <2>1. Announced(e) = <<>>
    BY <1>7 DEF Announced
  <2> QED BY <1>2, <1>7, <2>1
<1> QED BY <1>3, <1>4, <1>5, <1>6, <1>7

\* What is told of a list that is shown more.
LEMMA ShownMore ==
  ASSUME shown \in Seq(EventType), NEW more \in Seq(EventType),
         shown' = shown \o more
  PROVE  /\ \A k : ShownTokens(k)' = ShownTokens(k) \o Told(DeltaPart(k), more)
         /\ \A i : ShownOf(i)' = ShownOf(i) \o Told(EventPart(i), more)
<1>1. shown' \in Seq(EventType)
  BY ListLaws
<1>2. /\ \A k : ShownTokens(k) = Told(DeltaPart(k), shown)
      /\ \A i : ShownOf(i) = Told(EventPart(i), shown)
  BY ShownAsTold
<1>3. /\ \A k : ShownTokens(k)' = Told(DeltaPart(k), shown')
      /\ \A i : ShownOf(i)' = Told(EventPart(i), shown')
  <2> DEFINE s == shown'
  <2>1. s \in Seq(EventType)
    BY <1>1
  <2>2. DOMAIN s = 1..Len(s) /\ \A j \in 1..Len(s) : s[j] \in EventType
    BY <2>1, LenProperties, ElementOfSeq
  <2>3. ASSUME NEW k PROVE ShownTokens(k)' = Told(DeltaPart(k), s)
    <3>1. ShownTokens(k)' = FlattenSeq([j \in DOMAIN s |->
            IF s[j].kind = "delta" /\ s[j].of = k THEN s[j].tokens ELSE <<>>])
      BY DEF ShownTokens
    <3>2. [j \in DOMAIN s |-> DeltaPart(k)[s[j]]] = [j \in DOMAIN s |->
            IF s[j].kind = "delta" /\ s[j].of = k THEN s[j].tokens ELSE <<>>]
      BY <2>2 DEF DeltaPart
    <3> QED BY <3>1, <3>2 DEF Told
  <2>4. ASSUME NEW i PROVE ShownOf(i)' = Told(EventPart(i), s)
    <3>1. ShownOf(i)' = FlattenSeq([j \in DOMAIN s |->
            Only(s[j].kind \in CallKinds /\ s[j].index = i, s[j])])
      BY DEF ShownOf
    <3>2. [j \in DOMAIN s |-> EventPart(i)[s[j]]] = [j \in DOMAIN s |->
            Only(s[j].kind \in CallKinds /\ s[j].index = i, s[j])]
      BY <2>2 DEF EventPart
    <3> QED BY <3>1, <3>2 DEF Told
  <2> QED BY <2>3, <2>4
<1>4. /\ \A k : Told(DeltaPart(k), shown \o more)
                  = Told(DeltaPart(k), shown) \o Told(DeltaPart(k), more)
      /\ \A i : Told(EventPart(i), shown \o more)
                  = Told(EventPart(i), shown) \o Told(EventPart(i), more)
  <2>1. /\ \A k : Tells(DeltaPart(k), EventType, Nat)
        /\ \A i : Tells(EventPart(i), EventType, EventType)
    BY PartTypes
  <2> QED BY <2>1, ToldOfParts
<1> QED BY <1>2, <1>3, <1>4

\* The text of what is announced: the tokens of a delta; and nothing of an
\* announcement that was broken off.
LEMMA AnnouncedText ==
  ASSUME NEW e \in EventType, NEW k
  PROVE  /\ Told(DeltaPart(k), Announced(e))
              = IF e.kind = "delta" /\ e.of = k THEN e.tokens ELSE <<>>
         /\ \A n \in 0..(Len(Announced(e)) - 1) :
              /\ SubSeq(Announced(e), 1, n) \in Seq(EventType)
              /\ Told(DeltaPart(k), SubSeq(Announced(e), 1, n)) = <<>>
<1> DEFINE a == Announced(e)
<1>1. /\ a \in Seq(EventType) /\ Len(a) \in Nat
      /\ \A p \in 1..Len(a) : a[p] \in EventType
  BY AnnouncedTyped, LenProperties, ElementOfSeq
<1>2. Tells(DeltaPart(k), EventType, Nat)
  BY PartTypes
<1>3. /\ e.kind = "delta" => a = <<e>>
      /\ e.kind # "delta" => \A p \in 1..Len(a) : a[p].kind \in CallKinds
  BY AnnouncedKinds
<1>4. \A f \in EventType : f.kind \in CallKinds => DeltaPart(k)[f] = <<>>
  BY DEF DeltaPart, CallKinds
<1> HIDE DEF a
<1>5. ASSUME NEW n \in 0..(Len(a) - 1)
      PROVE  /\ SubSeq(a, 1, n) \in Seq(EventType) /\ Len(SubSeq(a, 1, n)) = n
             /\ \A p \in 1..n : SubSeq(a, 1, n)[p] = a[p] /\ p \in 1..Len(a)
  <2>1. \A p \in 1..n : p \in 1..Len(a) /\ a[p] \in EventType
    BY <1>1
  <2>2. n \in Int /\ \A p \in 1..n : a[p] \in EventType
    BY <1>1, <2>1
  <2>3. /\ SubSeq(a, 1, n) \in Seq(EventType)
        /\ Len(SubSeq(a, 1, n)) = n
        /\ \A p \in 1..n : SubSeq(a, 1, n)[p] = a[p]
    <3>1. 1 \in Int /\ n >= 0
      BY <1>1
    <3> QED BY <2>2, <3>1, SubSeqProperties
  <2> QED BY <2>1, <2>3
<1>6. CASE e.kind = "delta"
  <2>1. Told(DeltaPart(k), <<e>>) = DeltaPart(k)[e]
    BY <1>2, ToldOfOne
  <2>2. DeltaPart(k)[e] = IF e.of = k THEN e.tokens ELSE <<>>
    BY <1>6 DEF DeltaPart
  <2>3. Len(a) = 1
    BY <1>3, <1>6, OneEvent
  <2>4. ASSUME NEW n \in 0..(Len(a) - 1)
        PROVE  Told(DeltaPart(k), SubSeq(a, 1, n)) = <<>>
    <3> DEFINE b == SubSeq(a, 1, n)
    <3>1. n = 0
      BY <2>3
    <3>2. b \in Seq(EventType) /\ \A p \in 1..Len(b) : DeltaPart(k)[b[p]] = <<>>
      BY <1>5, <3>1
    <3> HIDE DEF b
    <3>3. Told(DeltaPart(k), b) = <<>>
      BY <1>2, <3>2, ToldAsNothing
    <3> QED BY <3>3 DEF b
  <2> QED BY <1>3, <1>5, <1>6, <2>1, <2>2, <2>4 DEF a
<1>7. CASE e.kind # "delta"
  <2>1. \A p \in 1..Len(a) : DeltaPart(k)[a[p]] = <<>>
    BY <1>1, <1>3, <1>4, <1>7
  <2>2. Told(DeltaPart(k), a) = <<>>
    BY <1>1, <1>2, <2>1, ToldAsNothing
  <2>3. ASSUME NEW n \in 0..(Len(a) - 1)
        PROVE  Told(DeltaPart(k), SubSeq(a, 1, n)) = <<>>
    <3> DEFINE b == SubSeq(a, 1, n)
    <3>1. b \in Seq(EventType) /\ \A p \in 1..Len(b) : DeltaPart(k)[b[p]] = <<>>
      BY <1>5, <2>1
    <3> HIDE DEF b
    <3>2. Told(DeltaPart(k), b) = <<>>
      BY <1>2, <3>1, ToldAsNothing
    <3> QED BY <3>2 DEF b
  <2> QED BY <1>5, <1>7, <2>2, <2>3 DEF a
<1> QED BY <1>6, <1>7

\* Pushed and announced in full: an openrouter consumer has what the turn has.
LEMMA PushShows ==
  ASSUME Typed, TextSound, pending # <<>>, Push(Event), NEW k \in Kinds,
         provider # "codex", shown' = shown \o Announced(Event)
  PROVE  ShownTokens(k)' = Text(k)'
<1>1. Event \in EventType /\ Event = pending[1] /\ 1 \in Waiting
  <2>1. Len(pending) \in Nat /\ Len(pending) # 0 /\ pending \in Seq(EventType)
    BY LenProperties, EmptySeq DEF Typed
  <2>2. Event \in EventType /\ Event = pending[1]
    BY <2>1, HeadTailProperties DEF Event
  <2> QED BY <2>1, <2>2 DEF Waiting
<1>2. Event.kind # "end" /\ ShownTokens(k) = Text(k)
  BY <1>1 DEF TextSound, OneByItem, ShownText, Typed, SourceTyped
<1>3. /\ Event.kind = "delta" /\ Event.of = k =>
           Text(k)' = Text(k) \o Event.tokens
      /\ ~(Event.kind \in {"delta", "end"} /\ Event.of = k) =>
           Text(k)' = Text(k)
  BY <1>1, PushText DEF Typed
<1>4. /\ ShownTokens(k)'
           = ShownTokens(k) \o Told(DeltaPart(k), Announced(Event))
  <2>1. shown \in Seq(EventType) /\ Announced(Event) \in Seq(EventType)
    BY <1>1, AnnouncedTyped DEF Typed, TurnTyped
  <2> QED BY <2>1, ShownMore
<1>5. Told(DeltaPart(k), Announced(Event))
        = IF Event.kind = "delta" /\ Event.of = k THEN Event.tokens ELSE <<>>
  BY <1>1, AnnouncedText
<1>6. Text(k) \o <<>> = Text(k)
  <2>1. Text(k) \in Seq(Nat)
    BY TextTyped DEF Typed
  <2> QED BY <2>1, ListLaws
<1>7. CASE Event.kind = "delta" /\ Event.of = k
  BY <1>2, <1>3, <1>4, <1>5, <1>7
<1>8. CASE ~(Event.kind = "delta" /\ Event.of = k)
  BY <1>2, <1>3, <1>4, <1>5, <1>6, <1>8
<1> QED BY <1>7, <1>8

\* The driver takes an event: the text stays in order, and openrouter's is
\* shown.
LEMMA TakeEventText ==
  ASSUME Typed, TextSound, TakeEvent
  PROVE  TextSound'
<1>1. /\ pending # <<>> /\ pending' = Tail(pending) /\ Push(Event)
      /\ shown' = shown \o Announced(Event)
      /\ UNCHANGED <<provider, item, sent, block>>
  BY DEF TakeEvent, server, parser
<1>2. /\ Event \in EventType /\ Event = pending[1] /\ 1 \in Waiting
      /\ Len(pending) \in Nat
      /\ \A p \in Waiting' : p + 1 \in Waiting /\ p + 1 # 1 /\ 1 < p + 1
                             /\ pending'[p] = pending[p + 1]
  BY <1>1, TakesHead
<1>3. Rising'
  <2> SUFFICES ASSUME NEW k \in Kinds
               PROVE  /\ Asc(Text(k)') /\ AtMost(Text(k)', sent')
                      /\ Asc(block'[k]) /\ AtMost(block'[k], sent')
    BY DEF Rising, Asc, AtMost
  <2>1. Asc(Text(k)') /\ AtMost(Text(k)', sent)
    BY <1>1, PushRises
  <2>2. Asc(block[k]) /\ AtMost(block[k], sent)
    BY DEF TextSound, Rising
  <2> QED BY <1>1, <2>1, <2>2
<1>4. Fresh'
  <2>1. ASSUME NEW p \in Waiting' PROVE pending'[p].kind # "delta"
    <3> DEFINE q == p + 1
    <3>1. q \in Waiting /\ 1 < q /\ pending'[p] = pending[q]
      BY <1>2
    <3> HIDE DEF q
    <3>2. Len(pending) # 1
      BY <3>1 DEF Waiting
    <3>3. pending[q].kind # "delta"
      BY <3>1, <3>2 DEF TextSound, Fresh
    <3> QED BY <3>1, <3>3
  <2> QED BY <2>1 DEF Fresh
<1>5. OneByItem'
  <2>1. CASE provider = "codex"
    <3>1. ASSUME NEW p \in Waiting' PROVE OfItem(p)' /\ OfItem(p + 1)
      <4> DEFINE q == p + 1
      <4>1. q \in Waiting /\ pending'[p] = pending[q]
        BY <1>2
      <4> HIDE DEF q
      <4>2. OfItem(q)
        BY <2>1, <4>1 DEF TextSound, OneByItem
      <4>3. OfItem(p)'
        BY <1>1, <4>1, <4>2 DEF OfItem, Begins
      <4> QED BY <4>2, <4>3 DEF q
    <3>2. ASSUME NEW j \in Kinds, Coming(j)'
          PROVE  Below(TextOf(j, content)', block'[j])
      <4>1. Coming(j)
        <5>1. CASE item = j
          BY <5>1 DEF Coming
        <5>2. CASE item # j
          <6>1. PICK p \in Waiting' : pending'[p].kind = "end"
                                      /\ pending'[p].of = j
            BY <1>1, <3>2, <5>2 DEF Coming
          <6>2. p + 1 \in Waiting /\ pending'[p] = pending[p + 1]
            BY <1>2
          <6> QED BY <6>1, <6>2 DEF Coming
        <5> QED BY <5>1, <5>2
      <4>2. item \in {j, "none"}
        BY <2>1, <4>1 DEF Coming, TextSound, OneByItem, OfItem
      <4>3. ~Begins(Event)
        <5>1. item # "call"
          BY <4>2, KindsApart
        <5> QED BY <1>2, <2>1, <5>1 DEF TextSound, OneByItem, OfItem
      <4>4. TextOf(j, content)' = TextOf(j, content)
        BY <1>1, <1>2, <4>3, PushText DEF Typed
      <4>5. Below(TextOf(j, content), block[j])
        BY <2>1, <4>1 DEF TextSound, OneByItem
      <4> QED BY <1>1, <4>4, <4>5
    <3> QED BY <1>1, <2>1, <3>1, <3>2 DEF OneByItem, Below
  <2>2. CASE provider # "codex"
    <3>1. \A p \in Waiting : pending[p].kind # "end"
      BY <2>2 DEF TextSound, OneByItem
    <3>2. \A p \in Waiting' : pending'[p].kind # "end"
      BY <1>2, <3>1
    <3> QED BY <1>1, <2>2, <3>2 DEF OneByItem
  <2> QED BY <2>1, <2>2
<1>6. ShownText'
  <2> SUFFICES ASSUME provider = "openrouter", NEW k \in Kinds
               PROVE  ShownTokens(k)' = Text(k)'
    BY <1>1 DEF ShownText
  <2> QED BY <1>1, PushShows
<1> QED BY <1>3, <1>4, <1>5, <1>6 DEF TextSound

-----------------------------------------------------------------------------
(* What the consumer hears of a call.                                      *)

\* One start first, and nothing behind the end.
Shape(es) ==
  /\ es # <<>> => es[1].kind = "callStart"
  /\ \A j \in DOMAIN es :
       /\ es[j].kind = "callStart" => j = 1
       /\ es[j].kind = "callEnd" => j = Len(es)
NoEndIn(es) == \A j \in 1..Len(es) : es[j].kind # "callEnd"

Shapes == \A i \in Indices : Shape(ShownOf(i))

\* A call of which something was said has a state in the kernel; and as long as
\* that is open, its end was not announced.
HeardOf(i) ==
  /\ ShownOf(i) = <<>> <=> calls[i] = "none"
  /\ calls[i] \in {"none", "open"} => NoEndIn(ShownOf(i))
ShownCalls == \A i \in Indices : HeardOf(i)

\* One entry more.
LEMMA OneMore ==
  ASSUME NEW A, NEW s \in Seq(A), NEW b \in Seq(A), Len(b) = 1
  PROVE  /\ s \o b \in Seq(A) /\ Len(s \o b) = Len(s) + 1 /\ Len(s) \in Nat
         /\ \A j \in 1..Len(s) : (s \o b)[j] = s[j]
         /\ (s \o b)[Len(s) + 1] = b[1]
<1>1. /\ s \o b \in Seq(A) /\ Len(s \o b) = Len(s) + Len(b)
      /\ \A j \in 1..(Len(s) + Len(b)) :
           (s \o b)[j] = IF j <= Len(s) THEN s[j] ELSE b[j - Len(s)]
  BY ConcatProperties
<1>2. Len(s) \in Nat
  BY LenProperties
<1> QED BY <1>1, <1>2

\* One event more: a start if it is the first, and else anything but a start.
LEMMA ShapeGrows ==
  ASSUME NEW es \in Seq(EventType), NEW x \in EventType,
         NEW b \in Seq(EventType),
         Len(b) = 1, b[1] = x, Shape(es), NoEndIn(es),
         es = <<>> <=> x.kind = "callStart"
  PROVE  /\ es \o b \in Seq(EventType) /\ es \o b # <<>>
         /\ Shape(es \o b)
         /\ x.kind # "callEnd" => NoEndIn(es \o b)
<1> DEFINE u == es \o b
           m == Len(es)
<1>1. /\ u \in Seq(EventType) /\ Len(u) = m + 1 /\ m \in Nat
      /\ \A j \in 1..m : u[j] = es[j]
      /\ u[m + 1] = x
  BY OneMore DEF u, m
<1>2. /\ DOMAIN u = 1..(m + 1) /\ DOMAIN es = 1..m
      /\ u # <<>> /\ (es = <<>> <=> m = 0)
  BY <1>1, LenProperties, EmptySeq
<1> HIDE DEF u
<1>3. \A j \in DOMAIN u :
        (j \in 1..m /\ u[j] = es[j]) \/ (j = m + 1 /\ u[j] = x)
  BY <1>1, <1>2
<1>4. u[1].kind = "callStart"
  <2>1. CASE m = 0
    BY <1>1, <1>2, <2>1
  <2>2. CASE m # 0
    <3>1. 1 \in 1..m
      BY <1>1, <2>2
    <3> QED BY <1>1, <1>2, <2>2, <3>1 DEF Shape
  <2> QED BY <2>1, <2>2
<1> HIDE DEF m
<1>5. ASSUME NEW j \in DOMAIN u
      PROVE  /\ u[j].kind = "callStart" => j = 1
             /\ u[j].kind = "callEnd" => j = m + 1
  <2>1. CASE j \in 1..m /\ u[j] = es[j]
    BY <1>2, <2>1 DEF Shape, NoEndIn, m
  <2>2. CASE j = m + 1 /\ u[j] = x
    BY <1>1, <1>2, <2>2
  <2> QED BY <1>3, <2>1, <2>2
<1>6. x.kind # "callEnd" => NoEndIn(u)
  <2> SUFFICES ASSUME x.kind # "callEnd", NEW j \in DOMAIN u
               PROVE  u[j].kind # "callEnd"
    BY <1>1, <1>2 DEF NoEndIn
  <2>1. CASE j \in 1..m /\ u[j] = es[j]
    BY <2>1 DEF NoEndIn, m
  <2>2. CASE j = m + 1 /\ u[j] = x
    BY <2>2
  <2> QED BY <1>3, <2>1, <2>2
<1>7. Shape(u)
  BY <1>1, <1>2, <1>4, <1>5 DEF Shape
<1> QED BY <1>1, <1>2, <1>6, <1>7 DEF u

\* What is told of a call by events that are all of one call.
LEMMA ToldOfCall ==
  ASSUME NEW b \in Seq(EventType), NEW c, NEW i,
         \A p \in 1..Len(b) : b[p].kind \in CallKinds /\ b[p].index = c
  PROVE  Told(EventPart(i), b) = IF i = c THEN b ELSE <<>>
<1>1. Tells(EventPart(i), EventType, EventType)
  BY PartTypes
<1>2. \A p \in 1..Len(b) : b[p] \in EventType
  BY ElementOfSeq
<1>3. CASE i = c
  <2>1. \A p \in 1..Len(b) : EventPart(i)[b[p]] = <<b[p]>>
    BY <1>2, <1>3 DEF EventPart, Only
  <2>2. OneByOne(EventPart(i), b, b)
    BY <2>1 DEF OneByOne
  <2> QED BY <1>1, <1>3, <2>2, ToldAsOne
<1>4. CASE i # c
  <2>1. \A p \in 1..Len(b) : EventPart(i)[b[p]] = <<>>
    BY <1>2, <1>4 DEF EventPart, Only
  <2> QED BY <1>1, <1>4, <2>1, ToldAsNothing
<1> QED BY <1>3, <1>4

\* What is announced of a pushed event, call by call.
LEMMA AnnouncedCalls ==
  ASSUME NEW e \in EventType, NEW i
  PROVE  /\ Told(EventPart(i), Announced(e))
              = IF e.kind # "delta" /\ i = e.index THEN Announced(e) ELSE <<>>
         /\ \A n \in 0..(Len(Announced(e)) - 1) :
              Told(EventPart(i), SubSeq(Announced(e), 1, n))
                = IF e.kind # "delta" /\ i = e.index
                  THEN SubSeq(Announced(e), 1, n) ELSE <<>>
<1> DEFINE a == Announced(e)
<1>1. /\ a \in Seq(EventType) /\ Len(a) \in Nat
      /\ \A p \in 1..Len(a) : a[p] \in EventType
  BY AnnouncedTyped, LenProperties, ElementOfSeq
<1>2. Tells(EventPart(i), EventType, EventType)
  BY PartTypes
<1>3. /\ e.kind = "delta" => a = <<e>>
      /\ e.kind # "delta" => \A p \in 1..Len(a) :
                               a[p].kind \in CallKinds /\ a[p].index = e.index
  BY AnnouncedKinds
<1> HIDE DEF a
<1>4. ASSUME NEW n \in 0..(Len(a) - 1)
      PROVE  /\ SubSeq(a, 1, n) \in Seq(EventType) /\ Len(SubSeq(a, 1, n)) = n
             /\ \A p \in 1..n : SubSeq(a, 1, n)[p] = a[p] /\ p \in 1..Len(a)
  <2>1. \A p \in 1..n : p \in 1..Len(a) /\ a[p] \in EventType
    BY <1>1
  <2>2. n \in Int /\ \A p \in 1..n : a[p] \in EventType
    BY <1>1, <2>1
  <2>3. /\ SubSeq(a, 1, n) \in Seq(EventType)
        /\ Len(SubSeq(a, 1, n)) = n
        /\ \A p \in 1..n : SubSeq(a, 1, n)[p] = a[p]
    <3>1. 1 \in Int /\ n >= 0
      BY <1>1
    <3> QED BY <2>2, <3>1, SubSeqProperties
  <2> QED BY <2>1, <2>3
<1>5. CASE e.kind = "delta"
  <2>1. Told(EventPart(i), <<e>>) = EventPart(i)[e]
    BY <1>2, ToldOfOne
  <2>2. EventPart(i)[e] = <<>>
    BY <1>5 DEF EventPart, CallKinds, Only
  <2>3. Len(a) = 1
    BY <1>3, <1>5, OneEvent
  <2>4. ASSUME NEW n \in 0..(Len(a) - 1)
        PROVE  Told(EventPart(i), SubSeq(a, 1, n)) = <<>>
    <3> DEFINE b == SubSeq(a, 1, n)
    <3>1. n = 0
      BY <2>3
    <3>2. b \in Seq(EventType) /\ \A p \in 1..Len(b) : EventPart(i)[b[p]] = <<>>
      BY <1>4, <3>1
    <3> HIDE DEF b
    <3>3. Told(EventPart(i), b) = <<>>
      BY <1>2, <3>2, ToldAsNothing
    <3> QED BY <3>3 DEF b
  <2> QED BY <1>3, <1>5, <2>1, <2>2, <2>4 DEF a
<1>6. CASE e.kind # "delta"
  <2>1. Told(EventPart(i), a) = IF i = e.index THEN a ELSE <<>>
    BY <1>1, <1>3, <1>6, ToldOfCall
  <2>2. ASSUME NEW n \in 0..(Len(a) - 1)
        PROVE  Told(EventPart(i), SubSeq(a, 1, n))
                 = IF i = e.index THEN SubSeq(a, 1, n) ELSE <<>>
    <3> DEFINE b == SubSeq(a, 1, n)
    <3>1. /\ b \in Seq(EventType)
          /\ \A p \in 1..Len(b) :
               b[p].kind \in CallKinds /\ b[p].index = e.index
      BY <1>3, <1>4, <1>6
    <3> HIDE DEF b
    <3>2. Told(EventPart(i), b) = IF i = e.index THEN b ELSE <<>>
      BY <3>1, ToldOfCall
    <3> QED BY <3>2 DEF b
  <2> QED BY <1>6, <2>1, <2>2 DEF a
<1> QED BY <1>5, <1>6

\* The calls of what is pushed: open, if nothing ended them.
LEMMA PushedCall ==
  ASSUME Typed, CallsSound, pending # <<>>
  PROVE  /\ Event \in EventType /\ Event.index \in Indices
         /\ Event = pending[1] /\ 1 \in Waiting
         /\ IsEnd(Event) => calls[Event.index] = "open"
         /\ Begins(Event) => calls[Event.index] \in {"none", "open"}
<1>1. /\ Event \in EventType /\ Event = pending[1] /\ 1 \in Waiting
  <2>1. Len(pending) \in Nat /\ Len(pending) # 0 /\ pending \in Seq(EventType)
    BY LenProperties, EmptySeq DEF Typed
  <2>2. Event \in EventType /\ Event = pending[1]
    BY <2>1, HeadTailProperties DEF Event
  <2> QED BY <2>1, <2>2 DEF Waiting
<1>2. Event.index \in Indices
  BY <1>1, Fields
<1>3. IsEnd(Event) => calls[Event.index] = "open"
  BY <1>1 DEF CallsSound, Ends
<1>4. Begins(Event) => calls[Event.index] \in {"none", "open"}
  <2>1. Begins(Event) => Event.index \notin FinishedCalls
    BY <1>1 DEF CallsSound, Ends
  <2>2. calls[Event.index] \in CallStates
    BY <1>2 DEF Typed, TurnTyped
  <2> QED BY <1>2, <2>1, <2>2 DEF FinishedCalls, CallStates
<1> QED BY <1>1, <1>2, <1>3, <1>4

\* The lists that are told of a call are of events.
LEMMA ShownOfTyped ==
  ASSUME shown \in Seq(EventType), NEW i
  PROVE  ShownOf(i) \in Seq(EventType)
<1>1. Tells(EventPart(i), EventType, EventType)
  BY PartTypes
<1> QED BY <1>1, ShownAsTold, ToldIsList

\* Pushed and announced in full.
LEMMA PushShapes ==
  ASSUME Typed, CallsSound, Shapes, ShownCalls, pending # <<>>, Push(Event),
         shown' = shown \o Announced(Event), NEW i \in Indices
  PROVE  /\ Shape(ShownOf(i)')
         /\ ShownOf(i)' = <<>> <=> calls'[i] = "none"
         /\ calls'[i] \in {"none", "open"} => NoEndIn(ShownOf(i)')
<1> DEFINE e == Event
           es == ShownOf(i)
           a == Announced(e)
<1>1. /\ e \in EventType /\ e.index \in Indices
      /\ e.kind = "callEnd" => calls[e.index] = "open"
      /\ e.kind \in {"callStart", "callDelta"} =>
           calls[e.index] \in {"none", "open"}
      /\ calls \in [Indices -> CallStates] /\ shown \in Seq(EventType)
  BY PushedCall DEF IsEnd, Begins, Typed, TurnTyped
<1>2. /\ a \in Seq(EventType) /\ es \in Seq(EventType)
      /\ <<e>> \in Seq(EventType) /\ Len(<<e>>) = 1 /\ <<e>>[1] = e
  BY <1>1, AnnouncedTyped, ShownOfTyped, OneEvent
<1>3. ShownOf(i)' = es \o IF e.kind # "delta" /\ i = e.index THEN a ELSE <<>>
  <2>1. ShownOf(i)' = ShownOf(i) \o Told(EventPart(i), Announced(e))
    BY <1>1, <1>2, ShownMore
  <2>2. Told(EventPart(i), Announced(e))
          = IF e.kind # "delta" /\ i = e.index THEN Announced(e) ELSE <<>>
    BY <1>1, AnnouncedCalls
  <2> QED BY <2>1, <2>2
<1>4. /\ Shape(es) /\ (es = <<>> <=> calls[i] = "none")
      /\ calls[i] \in {"none", "open"} => NoEndIn(es)
  BY DEF Shapes, ShownCalls, HeardOf
<1>5. es \o <<>> = es
  BY <1>2, ListLaws
<1>6. ASSUME ShownOf(i)' = es, calls'[i] = calls[i]
      PROVE  /\ Shape(ShownOf(i)')
             /\ ShownOf(i)' = <<>> <=> calls'[i] = "none"
             /\ calls'[i] \in {"none", "open"} => NoEndIn(ShownOf(i)')
  BY <1>4, <1>6
<1>7. CASE i # e.index
  <2>1. calls'[i] = calls[i]
    BY <1>1, <1>7 DEF Push
  <2>2. ShownOf(i)' = es
    BY <1>3, <1>5, <1>7
  <2> QED BY <1>6, <2>1, <2>2
<1>8. CASE i = e.index /\ e.kind \notin CallKinds
  <2>1. calls'[i] = calls[i]
    BY <1>8 DEF Push, CallKinds
  <2>2. e.kind # "delta" => a = <<>>
    BY <1>8 DEF Announced, CallKinds
  <2>3. ShownOf(i)' = es
    BY <1>3, <1>5, <2>2
  <2> QED BY <1>6, <2>1, <2>3
<1>9. CASE i = e.index /\ e.kind = "callStart"
  <2>1. calls'[i] = "open" /\ ShownOf(i)' = es \o a
        /\ calls[i] \in {"none", "open"}
    BY <1>1, <1>3, <1>9 DEF Push, IsNew
  <2>2. a = IF calls[i] = "none" THEN <<e>> ELSE <<>>
    BY <1>9 DEF Announced, IsNew, Only
  <2>3. CASE calls[i] = "none"
    <3> HIDE DEF e, es, a
    <3>1. /\ es \o <<e>> # <<>> /\ Shape(es \o <<e>>)
          /\ NoEndIn(es \o <<e>>)
      BY <1>1, <1>2, <1>4, <1>9, <2>3, ShapeGrows
    <3> QED BY <2>1, <2>2, <2>3, <3>1
  <2>4. CASE calls[i] = "open"
    <3>1. ShownOf(i)' = es
      BY <1>5, <2>1, <2>2, <2>4
    <3> QED BY <1>6, <2>1, <2>4, <3>1
  <2> QED BY <2>1, <2>3, <2>4
<1>10. CASE i = e.index /\ e.kind = "callDelta"
  <2> DEFINE s == CallEvent("callStart", e.index, e.known)
  <2>1. calls'[i] = "open" /\ ShownOf(i)' = es \o a
        /\ calls[i] \in {"none", "open"}
    BY <1>1, <1>3, <1>10 DEF Push, IsNew
  <2>2. a = IF calls[i] = "none" THEN <<s>> \o <<e>> ELSE <<>> \o <<e>>
    BY <1>10 DEF Announced, IsNew, Only
  <2>3. s \in EventType /\ s.kind = "callStart"
    <3>1. CallEvent("callStart", e.index, e.known) \in EventType
      BY <1>1, Fields, Makers DEF CallKinds
    <3> QED BY <3>1 DEF CallEvent, NoEvent
  <2> HIDE DEF s
  <2>4. <<s>> \in Seq(EventType) /\ Len(<<s>>) = 1 /\ <<s>>[1] = s
    BY <2>3, OneEvent
  <2>5. <<>> \o <<e>> = <<e>>
    BY <1>2, ListLaws
  <2>6. CASE calls[i] = "none"
    <3> DEFINE b == es \o <<s>>
    <3>1. /\ b \in Seq(EventType) /\ b # <<>> /\ Shape(b) /\ NoEndIn(b)
      <4> HIDE DEF es
      <4>1. /\ es \o <<s>> \in Seq(EventType) /\ es \o <<s>> # <<>>
            /\ Shape(es \o <<s>>) /\ NoEndIn(es \o <<s>>)
        BY <1>2, <1>4, <2>3, <2>4, <2>6, ShapeGrows
      <4> QED BY <4>1
    <3>2. es \o (<<s>> \o <<e>>) = b \o <<e>>
      <4>1. \A r, t, u \in Seq(EventType) : (r \o t) \o u = r \o (t \o u)
        BY ListLaws
      <4> HIDE DEF es
      <4> QED BY <1>2, <2>4, <4>1
    <3> HIDE DEF b, e, es, a
    <3>3. /\ b \o <<e>> # <<>> /\ Shape(b \o <<e>>) /\ NoEndIn(b \o <<e>>)
      BY <1>1, <1>2, <1>10, <3>1, ShapeGrows
    <3> QED BY <2>1, <2>2, <2>6, <3>2, <3>3
  <2>7. CASE calls[i] = "open"
    <3> HIDE DEF e, es, a
    <3>1. /\ es \o <<e>> # <<>> /\ Shape(es \o <<e>>)
          /\ NoEndIn(es \o <<e>>)
      BY <1>1, <1>2, <1>4, <1>10, <2>7, ShapeGrows
    <3> QED BY <2>1, <2>2, <2>5, <2>7, <3>1
  <2> QED BY <2>1, <2>6, <2>7
<1>11. CASE i = e.index /\ e.kind = "callEnd"
  <2>1. calls'[i] \in {"whole", "empty"} /\ ShownOf(i)' = es \o a
        /\ calls[i] = "open"
    BY <1>1, <1>3, <1>11 DEF Push
  <2>2. a = <<e>>
    BY <1>11 DEF Announced
  <2> HIDE DEF e, es, a
  <2>3. es \o <<e>> # <<>> /\ Shape(es \o <<e>>)
    BY <1>1, <1>2, <1>4, <1>11, <2>1, ShapeGrows
  <2> QED BY <2>1, <2>2, <2>3
<1> QED BY <1>7, <1>8, <1>9, <1>10, <1>11 DEF CallKinds

\* Pushed and announced in part: at most the start of a call of which nothing
\* was said.
LEMMA PartShapes ==
  ASSUME Typed, CallsSound, Shapes, ShownCalls, pending # <<>>,
         NEW n \in 0..(Len(Announced(Event)) - 1),
         shown' = shown \o SubSeq(Announced(Event), 1, n), NEW i \in Indices
  PROVE  Shape(ShownOf(i)')
<1> DEFINE e == Event
           es == ShownOf(i)
           a == Announced(e)
           b == SubSeq(a, 1, n)
<1>1. /\ e \in EventType /\ e.index \in Indices /\ shown \in Seq(EventType)
  BY PushedCall DEF Typed, TurnTyped
<1>2. /\ a \in Seq(EventType) /\ b \in Seq(EventType) /\ es \in Seq(EventType)
      /\ Len(a) \in Nat /\ n \in Nat /\ n <= Len(a) - 1
  BY <1>1, AnnouncedTyped, AnnouncedText, ShownOfTyped, LenProperties
<1>3. ShownOf(i)' = es \o IF e.kind # "delta" /\ i = e.index THEN b ELSE <<>>
  <2>1. ShownOf(i)' = ShownOf(i) \o Told(EventPart(i), b)
    BY <1>1, <1>2, ShownMore
  <2>2. Told(EventPart(i), b)
          = IF e.kind # "delta" /\ i = e.index THEN b ELSE <<>>
    BY <1>1, AnnouncedCalls
  <2> QED BY <2>1, <2>2
<1>4. /\ Shape(es) /\ (es = <<>> <=> calls[i] = "none")
      /\ calls[i] \in {"none", "open"} => NoEndIn(es)
  BY DEF Shapes, ShownCalls, HeardOf
<1>5. es \o <<>> = es
  BY <1>2, ListLaws
<1>6. CASE n = 0
  <2>1. b = <<>>
    BY <1>6, SubSeqEmpty
  <2>2. ShownOf(i)' = es
    BY <1>3, <1>5, <2>1
  <2> QED BY <1>4, <2>2
<1>7. CASE n # 0 /\ ~(e.kind # "delta" /\ i = e.index)
  BY <1>3, <1>4, <1>5, <1>7
<1>8. CASE n # 0 /\ e.kind # "delta" /\ i = e.index
  <2> DEFINE s == CallEvent("callStart", e.index, e.known)
  <2>1. s \in EventType /\ s.kind = "callStart"
    <3>1. CallEvent("callStart", e.index, e.known) \in EventType
      BY <1>1, Fields, Makers DEF CallKinds
    <3> QED BY <3>1 DEF CallEvent, NoEvent
  <2>2. Len(a) # 1 /\ Len(a) # 0
    <3>1. n # 0
      BY <1>8
    <3>2. Len(a) \in Nat /\ n \in Nat /\ n <= Len(a) - 1
      BY <1>2
    <3> DEFINE m == Len(a)
    <3>3. m \in Nat /\ n \in Nat /\ n <= m - 1 /\ n # 0
      BY <3>1, <3>2
    <3> HIDE DEF m
    <3>4. m # 1 /\ m # 0
      BY <3>3
    <3> QED BY <3>4 DEF m
  <2>3. Len(<<e>>) = 1 /\ Len(<<>>) = 0 /\ <<e>> \in Seq(EventType)
    <3>1. Len(<<e>>) = 1 /\ <<e>> \in Seq(EventType)
      BY <1>1, OneEvent
    <3>2. Len(<<>>) = 0
      BY EmptySeq
    <3> QED BY <3>1, <3>2
  <2>4. a # <<e>> /\ a # <<>>
    <3> HIDE DEF a, e
    <3> DEFINE o == <<e>>
               z == <<>>
    <3>1. Len(o) = 1 /\ Len(z) = 0
      BY <2>3
    <3> HIDE DEF o, z
    <3>2. Len(a) # 1 /\ Len(a) # 0
      BY <2>2
    <3>3. a # o
      BY <3>1, <3>2, Zenon
    <3>4. a # z
      BY <3>1, <3>2, Zenon
    <3> QED BY <3>3, <3>4 DEF o, z
  <2>5. e.kind = "callDelta" /\ IsNew(e) /\ a = <<s>> \o <<e>>
    <3>1. e.kind = "callDelta"
      BY <2>4 DEF Announced, Only
    <3>2. a = Only(IsNew(e), s) \o <<e>>
      BY <3>1 DEF Announced
    <3>3. <<>> \o <<e>> = <<e>>
      BY <2>3, ListLaws
    <3>4. IsNew(e)
      BY <2>4, <3>2, <3>3 DEF Only
    <3> QED BY <3>1, <3>2, <3>4 DEF Only
  <2> HIDE DEF s
  <2>6. <<s>> \in Seq(EventType) /\ Len(<<s>>) = 1 /\ <<s>>[1] = s
    BY <2>1, OneEvent
  <2>7. Len(a) = 2 /\ a[1] = s
    <3>1. /\ Len(<<s>> \o <<e>>) = Len(<<s>>) + Len(<<e>>)
          /\ \A p \in 1..(Len(<<s>>) + Len(<<e>>)) : (<<s>> \o <<e>>)[p] =
               IF p <= Len(<<s>>) THEN <<s>>[p] ELSE <<e>>[p - Len(<<s>>)]
      BY <2>3, <2>6, ConcatProperties
    <3>2. 1 \in 1..2 /\ 1 <= 1
      OBVIOUS
    <3> QED BY <2>3, <2>5, <2>6, <3>1, <3>2
  <2>8. n = 1
    BY <1>2, <1>8, <2>7
  <2>9. Len(b) = 1 /\ b[1] = s
    <3>1. \A p \in 1..1 : a[p] \in EventType
      BY <2>1, <2>7
    <3>2. /\ Len(SubSeq(a, 1, 1)) = 1
          /\ SubSeq(a, 1, 1)[1] = a[1]
      <4>1. /\ Len(SubSeq(a, 1, 1)) = IF 1 <= 1 THEN 1 - 1 + 1 ELSE 0
            /\ \A p \in 1..(1 - 1 + 1) : SubSeq(a, 1, 1)[p] = a[1 + p - 1]
        BY <3>1, SubSeqProperties
      <4>2. 1 \in 1..(1 - 1 + 1)
        OBVIOUS
      <4> QED BY <4>1, <4>2
    <3> QED BY <2>7, <2>8, <3>2
  <2>10. es = <<>> /\ NoEndIn(es)
    BY <1>4, <1>8, <2>5 DEF IsNew
  <2>11. ShownOf(i)' = es \o b
    BY <1>3, <1>8
  <2> HIDE DEF e, es, a, b
  <2>12. Shape(es \o b)
    BY <1>2, <1>4, <2>1, <2>9, <2>10, ShapeGrows
  <2> QED BY <2>11, <2>12
<1> QED BY <1>6, <1>7, <1>8

\* A list begins each list it is continued to.
LEMMA PrefixOfJoined ==
  ASSUME NEW s \in Seq(Nat), NEW t \in Seq(Nat)
  PROVE  IsPrefix(s, s) /\ IsPrefix(s, s \o t)
<1>1. /\ s \o t \in Seq(Nat) /\ Len(s \o t) = Len(s) + Len(t)
      /\ Len(s) \in Nat /\ Len(t) \in Nat
      /\ \A i \in 1..Len(s) : (s \o t)[i] = s[i] /\ s[i] \in Nat
  BY EntriesOfJoined
<1> DEFINE u == s \o t
           m == Len(s)
<1>2. /\ SubSeq(s, 1, m) \in Seq(Nat) /\ Len(SubSeq(s, 1, m)) = m
      /\ \A i \in 1..m : SubSeq(s, 1, m)[i] = s[i]
  <2>1. 1 \in Int /\ m \in Int /\ m >= 0 /\ \A i \in 1..m : s[i] \in Nat
    BY <1>1
  <2> HIDE DEF m
  <2> QED BY <2>1, SubSeqProperties
<1>3. /\ SubSeq(u, 1, m) \in Seq(Nat) /\ Len(SubSeq(u, 1, m)) = m
      /\ \A i \in 1..m : SubSeq(u, 1, m)[i] = s[i]
  <2>1. /\ 1 \in Int /\ m \in Int /\ m >= 0
        /\ \A i \in 1..m : u[i] \in Nat /\ u[i] = s[i]
    BY <1>1
  <2> HIDE DEF m, u
  <2>2. /\ SubSeq(u, 1, m) \in Seq(Nat) /\ Len(SubSeq(u, 1, m)) = m
        /\ \A i \in 1..m : SubSeq(u, 1, m)[i] = u[i]
    BY <2>1, SubSeqProperties
  <2> QED BY <2>1, <2>2
<1>4. SubSeq(s, 1, m) = SubSeq(u, 1, m)
  <2> DEFINE p == SubSeq(s, 1, m)
             q == SubSeq(u, 1, m)
  <2>1. p \in Seq(Nat) /\ q \in Seq(Nat) /\ Len(p) = m /\ Len(q) = m
        /\ \A i \in 1..m : p[i] = q[i]
    BY <1>2, <1>3
  <2> HIDE DEF p, q, m, u
  <2>2. p = q
    BY <2>1, SeqEqual
  <2> QED BY <2>2 DEF p, q
<1>5. m <= Len(u) /\ m <= m
  BY <1>1
<1> QED BY <1>4, <1>5 DEF IsPrefix

-----------------------------------------------------------------------------
(* What the consumer was shown, and what the reply keeps.                  *)

\* Tokens in their order, and of an openrouter reply all that was shown.
Kept(k, text) ==
  /\ Asc(text)
  /\ provider = "openrouter" => IsPrefix(ShownTokens(k), text)
TextKept == \A k \in Kinds : Kept(k, Text(k))

Shown ==
  /\ Shapes
  /\ Live => TextSound /\ ShownCalls
  /\ stage = "interrupted" => TextKept
  /\ Settled => \A k \in Kinds : Kept(k, TokensOf(k))

\* While the turn runs nothing shown is missing from it.
LEMMA TextIsKept ==
  ASSUME Typed, Shown, result = "none"
  PROVE  TextKept
<1>1. CASE stage = "interrupted"
  BY <1>1 DEF Shown
<1>2. CASE stage # "interrupted"
  <2>1. Live
    BY <1>2 DEF Typed, TurnTyped, Live
  <2> SUFFICES ASSUME NEW k \in Kinds PROVE Kept(k, Text(k))
    BY DEF TextKept
  <2>2. Asc(Text(k)) /\ (provider = "openrouter" => ShownTokens(k) = Text(k))
    BY <2>1 DEF Shown, TextSound, Rising, ShownText
  <2>3. Text(k) \in Seq(Nat)
    BY TextTyped DEF Typed
  <2>4. IsPrefix(Text(k), Text(k))
    BY <2>3, PrefixOfJoined
  <2> QED BY <2>2, <2>4 DEF Kept
<1> QED BY <1>1, <1>2

\* A turn that is flushed into the reply keeps it.
LEMMA FlushKeeps ==
  ASSUME Typed, Shown, result = "none", FlushTurn,
         UNCHANGED <<provider, shown>>, NEW k \in Kinds
  PROVE  Kept(k, TokensOf(k))'
<1>1. TokensOf(k)' = Text(k)
  BY FlushKeepsText DEF Typed, TokensOf
<1>2. Kept(k, Text(k))
  BY TextIsKept DEF TextKept
<1>3. ShownTokens(k)' = ShownTokens(k)
  BY DEF ShownTokens
<1> QED BY <1>1, <1>2, <1>3 DEF Kept

\* The calls, when nothing is shown.
LEMMA ShapesStay ==
  ASSUME UNCHANGED shown
  PROVE  /\ Shapes => Shapes'
         /\ ShownCalls /\ UNCHANGED calls => ShownCalls'
<1>1. \A i : ShownOf(i)' = ShownOf(i)
  BY DEF ShownOf
<1> QED BY <1>1 DEF Shapes, ShownCalls, HeardOf

\* The invariant about what is shown holds at first.
LEMMA ShownAtFirst == Init => Shown
<1> SUFFICES ASSUME Init PROVE Shown
  OBVIOUS
<1>1. Typed
  BY CountedAtFirst DEF Counted
<1>2. shown = <<>> /\ shown \in Seq(EventType) /\ Len(shown) = 0
  BY EmptySeq DEF Init
<1>3. /\ \A i : ShownOf(i) = <<>>
      /\ \A k : ShownTokens(k) = <<>>
  <2>1. /\ \A i : ShownOf(i) = Told(EventPart(i), shown)
        /\ \A k : ShownTokens(k) = Told(DeltaPart(k), shown)
    BY <1>2, ShownAsTold
  <2>2. \A i : Told(EventPart(i), <<>>) = <<>>
    <3> SUFFICES ASSUME NEW i PROVE Told(EventPart(i), <<>>) = <<>>
      OBVIOUS
    <3>1. Tells(EventPart(i), EventType, EventType)
      BY PartTypes
    <3> QED BY <3>1, ToldNothing
  <2>3. \A k : Told(DeltaPart(k), <<>>) = <<>>
    <3> SUFFICES ASSUME NEW k PROVE Told(DeltaPart(k), <<>>) = <<>>
      OBVIOUS
    <3>1. Tells(DeltaPart(k), EventType, Nat)
      BY PartTypes
    <3> QED BY <3>1, ToldNothing
  <2> QED BY <1>2, <2>1, <2>2, <2>3
<1>4. /\ DOMAIN <<>> = {} /\ 1..Len(<<>>) = {} /\ <<>> = <<>>
      /\ Waiting = {}
  <2>1. Len(<<>>) = 0 /\ <<>> \in Seq(Nat)
    BY EmptySeq
  <2>2. DOMAIN <<>> = 1..Len(<<>>)
    BY <2>1, LenProperties
  <2> QED BY <2>1, <2>2 DEF Init, Waiting
<1>5. Shape(<<>>) /\ NoEndIn(<<>>)
  BY <1>4 DEF Shape, NoEndIn
<1>6. Shapes /\ ShownCalls
  BY <1>3, <1>5 DEF Shapes, ShownCalls, HeardOf, Init
<1>7. \A k \in Kinds : Text(k) = <<>> /\ block[k] = <<>>
                       /\ TextOf(k, content) = <<>>
  <2> SUFFICES ASSUME NEW k \in Kinds
               PROVE  Text(k) = <<>> /\ block[k] = <<>>
                      /\ TextOf(k, content) = <<>>
    OBVIOUS
  <2>1. TextOf(k, <<>>) = <<>>
    BY BlockTextLaws
  <2>2. <<>> \o <<>> = <<>>
    <3>1. <<>> \in Seq(Nat)
      BY EmptySeq
    <3> QED BY <3>1, ConcatEmptySeq
  <2> QED BY <2>1, <2>2 DEF Init, Bare, Text
<1>8. sent \in Nat /\ provider \in {"codex", "openrouter"} /\ item = "none"
  BY DEF Init
<1>9. Rising /\ Fresh /\ ShownText
  BY <1>3, <1>4, <1>7, NoTokens DEF Rising, Fresh, ShownText
<1>10. OneByItem
  BY <1>4, <1>7, <1>8, NoTokens DEF OneByItem, Coming, Kinds
<1> QED BY <1>6, <1>9, <1>10 DEF Shown, TextSound, Settled, Init

\* An event that is taken.
LEMMA TakeEventShown ==
  ASSUME Typed, CallsSound, Shown, TakeEvent
  PROVE  Shapes' /\ ShownCalls' /\ TextSound'
<1>1. /\ pending # <<>> /\ Push(Event) /\ shown' = shown \o Announced(Event)
      /\ Live
  BY DEF TakeEvent, Running, Live
<1>2. Shapes /\ TextSound /\ ShownCalls
  BY <1>1 DEF Shown
<1>3. \A i \in Indices :
        /\ Shape(ShownOf(i)')
        /\ ShownOf(i)' = <<>> <=> calls'[i] = "none"
        /\ calls'[i] \in {"none", "open"} => NoEndIn(ShownOf(i)')
  BY <1>1, <1>2, PushShapes
<1>4. Shapes' /\ ShownCalls'
  BY <1>3 DEF Shapes, ShownCalls, HeardOf
<1>5. TextSound'
  BY <1>2, TakeEventText
<1> QED BY <1>4, <1>5

\* An event whose announcement is broken off: what was sent of it is not in
\* what the turn lacks.
LEMMA InterruptedShown ==
  ASSUME Typed, CallsSound, Shown, PushInterrupted
  PROVE  Shapes' /\ TextKept'
<1>1. /\ pending # <<>> /\ Push(Event) /\ Live
      /\ UNCHANGED provider
  BY DEF PushInterrupted, Running, Live
<1>2. PICK n \in 0..(Len(Announced(Event)) - 1) :
        shown' = shown \o SubSeq(Announced(Event), 1, n)
  BY DEF PushInterrupted
<1>3. Shapes /\ TextSound /\ ShownCalls
  BY <1>1 DEF Shown
<1>4. Shapes'
  <2>1. \A i \in Indices : Shape(ShownOf(i)')
    BY <1>1, <1>2, <1>3, PartShapes
  <2> QED BY <2>1 DEF Shapes
<1>5. Event \in EventType
  BY <1>1, PushedCall
<1> SUFFICES ASSUME NEW k \in Kinds PROVE Kept(k, Text(k))'
  BY <1>4 DEF TextKept
<1>6. Asc(Text(k)')
  BY <1>1, <1>3, PushRises
<1>7. ShownTokens(k)' = ShownTokens(k)
  <2> DEFINE more == SubSeq(Announced(Event), 1, n)
  <2>1. more \in Seq(EventType) /\ Told(DeltaPart(k), more) = <<>>
    BY <1>2, <1>5, AnnouncedText
  <2>2. shown \in Seq(EventType) /\ shown' = shown \o more
    BY <1>2 DEF Typed, TurnTyped
  <2> HIDE DEF more
  <2>3. ShownTokens(k)' = ShownTokens(k) \o <<>>
    BY <2>1, <2>2, ShownMore
  <2>4. ShownTokens(k) \in Seq(Nat)
    <3>1. Tells(DeltaPart(k), EventType, Nat)
      BY PartTypes
    <3>2. ShownTokens(k) = Told(DeltaPart(k), shown)
      BY <2>2, ShownAsTold
    <3> QED BY <2>2, <3>1, <3>2, ToldIsList
  <2> QED BY <2>3, <2>4, ConcatEmptySeq
<1>8. provider = "openrouter" => IsPrefix(ShownTokens(k), Text(k)')
  <2> SUFFICES ASSUME provider = "openrouter"
               PROVE  IsPrefix(ShownTokens(k), Text(k)')
    OBVIOUS
  <2>1. ShownTokens(k) = Text(k) /\ Text(k) \in Seq(Nat)
    BY <1>3, TextTyped DEF TextSound, ShownText, Typed
  <2>2. Event.kind # "end"
    <3>1. Event = pending[1] /\ 1 \in Waiting
      BY <1>1, PushedCall
    <3> QED BY <1>3, <3>1 DEF TextSound, OneByItem
  <2>3. /\ Event.kind = "delta" /\ Event.of = k =>
             Text(k)' = Text(k) \o Event.tokens
        /\ ~(Event.kind \in {"delta", "end"} /\ Event.of = k) =>
             Text(k)' = Text(k)
    BY <1>1, <1>5, PushText DEF Typed
  <2>4. Event.tokens \in Seq(Nat)
    BY <1>5, Fields
  <2> QED BY <2>1, <2>2, <2>3, <2>4, PrefixOfJoined
<1> QED BY <1>1, <1>6, <1>7, <1>8 DEF Kept

\* Each step keeps it.
LEMMA StepKeepsShown == Counted /\ Shown /\ [Next]_vars => Shown'
<1> SUFFICES ASSUME Counted, Shown, [Next]_vars PROVE Shown'
  OBVIOUS
<1>1. Typed /\ Typed' /\ (Live => CallsSound)
  BY StepKeepsTypes DEF Counted
<1>2. CASE result # "none"
  <2>1. /\ UNCHANGED <<provider, content, result, stage, shown>>
        /\ stage = "over"
    BY <1>1, <1>2, OverStays DEF Typed, TurnTyped
  <2>2. Shapes'
    BY <2>1, ShapesStay DEF Shown
  <2>3. Settled' => \A k \in Kinds : Kept(k, TokensOf(k))'
    BY <2>1 DEF Shown, Settled, Kept, TokensOf, ShownTokens
  <2> QED BY <2>1, <2>2, <2>3 DEF Shown, Live
<1> SUFFICES ASSUME result = "none" PROVE Shown'
  BY <1>2
<1>3. ASSUME UNCHANGED <<stage, shown, calls, result>>, Live => TextSound',
             stage = "interrupted" => TextKept'
      PROVE  Shown'
  BY <1>3, ShapesStay DEF Shown, Live, Settled
<1>4. CASE UNCHANGED vars \/ Retry \/ Abort
  <2>1. UNCHANGED <<provider, stage, item, sent, block, pending, content,
                    buffer, calls, shown, result>>
    BY <1>4 DEF vars, server, parser, turn, outcome, Retry, Abort
  <2>2. TextSound => TextSound'
    BY <2>1 DEF TextSound, Rising, Fresh, OneByItem, ShownText, Text, Waiting,
                OfItem, Coming, ShownTokens
  <2>3. TextKept => TextKept'
    BY <2>1 DEF TextKept, Kept, Text, ShownTokens
  <2> QED BY <1>3, <2>1, <2>2, <2>3 DEF Shown
<1>5. CASE Answered
  <2>1. /\ stage = "request" /\ stage' = "streaming"
        /\ UNCHANGED <<provider, item, sent, block, pending, content,
                       buffer, calls, shown, result>>
    BY <1>5 DEF Answered, server, parser, turn, outcome
  <2>2. TextSound'
    BY <2>1 DEF Shown, Live, TextSound, Rising, Fresh, OneByItem, ShownText,
                Text, Waiting, OfItem, Coming, ShownTokens
  <2> QED BY <2>1, <2>2, ShapesStay DEF Shown, Live, Settled
<1>6. CASE \/ ItemAdded \/ ItemDelta \/ ArgumentsArrive \/ ItemDone
           \/ Completed \/ ContentDelta \/ CallDelta \/ FinishReason
           \/ StreamCloses
  <2>1. /\ Live /\ Live' /\ UNCHANGED <<shown, calls, result>>
        /\ stage' # "interrupted"
    BY <1>6 DEF Live, ItemAdded, ItemDelta, ArgumentsArrive, ItemDone,
                Completed, ContentDelta, CallDelta, FinishReason,
                StreamCloses, Codex, OpenRouter, Reading, turn, outcome
  <2>2. TextSound'
    BY <1>1, <1>6, <2>1, TokenText, OtherItemsText, OpenRouterText,
       StreamClosesText DEF Shown
  <2> QED BY <2>1, <2>2, ShapesStay DEF Shown, Settled
<1>7. CASE TakeEvent
  <2>1. CallsSound
    BY <1>1, <1>7 DEF Live, TakeEvent, Running
  <2>2. Shapes' /\ ShownCalls' /\ TextSound'
    BY <1>1, <1>7, <2>1, TakeEventShown
  <2>3. result' = "none" /\ stage' # "interrupted"
    BY <1>7 DEF TakeEvent, Running, outcome
  <2> QED BY <2>2, <2>3 DEF Shown, Settled
<1>8. CASE PushInterrupted
  <2>1. CallsSound
    BY <1>1, <1>8 DEF Live, PushInterrupted, Running
  <2>2. Shapes' /\ TextKept'
    BY <1>1, <1>8, <2>1, InterruptedShown
  <2>3. result' = "none" /\ stage' = "interrupted"
    BY <1>8 DEF PushInterrupted, outcome
  <2> QED BY <2>2, <2>3 DEF Shown, Settled, Live
<1>9. CASE \/ CancelInterrupted \/ Interrupt \/ RefuseReply
           \/ StreamBreaks \/ RequestFails \/ FinishTurn
  <2>1. stage' = "over" /\ UNCHANGED <<provider, shown>>
    BY <1>9 DEF CancelInterrupted, Interrupt, RefuseReply, StreamBreaks,
                RequestFails, HandleError, FinishTurn
  <2>2. FlushTurn \/ result' \in {"failed", "unassembled"}
    BY <1>9 DEF CancelInterrupted, Interrupt, RefuseReply, StreamBreaks,
                RequestFails, HandleError, FinishTurn, CancelTurn, FailTurn
  <2>3. Settled' => \A k \in Kinds : Kept(k, TokensOf(k))'
    <3> SUFFICES ASSUME FlushTurn, NEW k \in Kinds
                 PROVE  Kept(k, TokensOf(k))'
      BY <2>2 DEF Settled
    <3> QED BY <1>1, <2>1, FlushKeeps
  <2>4. Shapes'
    BY <2>1, ShapesStay DEF Shown
  <2> QED BY <2>1, <2>3, <2>4 DEF Shown, Live
<1> QED BY <1>4, <1>5, <1>6, <1>7, <1>8, <1>9
        DEF Next, ServerStep, DriverStep, RequestStep

\* What the consumer hears of a call begins with its start and ends with its
\* end; the reply has the text in the order it arrived, and of an openrouter
\* reply all that was shown: a theorem for replies of any length.
THEOREM ShownStaysInOrder == Spec => []ShownInOrder
<1>1. Init => Counted /\ Shown
  BY CountedAtFirst, ShownAtFirst
<1>2. Counted /\ Shown /\ [Next]_vars => (Counted /\ Shown)'
  BY StepKeepsCounted, StepKeepsShown
<1>3. Counted /\ Shown => ShownInOrder
  <2> SUFFICES ASSUME Counted, Shown PROVE ShownInOrder
    OBVIOUS
  <2>1. ASSUME NEW i \in Indices
        PROVE  LET es == ShownOf(i)
               IN  /\ es # <<>> => es[1].kind = "callStart"
                   /\ \A j \in DOMAIN es :
                        /\ es[j].kind = "callStart" => j = 1
                        /\ es[j].kind = "callEnd" => j = Len(es)
    BY DEF Shown, Shapes, Shape
  <2>2. ASSUME Settled, NEW k \in Kinds
        PROVE  /\ \A i, j \in DOMAIN TokensOf(k) :
                    i < j => TokensOf(k)[i] < TokensOf(k)[j]
               /\ provider = "openrouter" =>
                    IsPrefix(ShownTokens(k), TokensOf(k))
    <3>1. Kept(k, TokensOf(k))
      BY <2>2 DEF Shown
    <3>2. DOMAIN TokensOf(k) = 1..Len(TokensOf(k))
      <4>1. TokensOf(k) \in Seq(Nat)
        BY TextTyped DEF Counted, Typed, TokensOf
      <4> QED BY <4>1, LenProperties
    <3> QED BY <3>1, <3>2 DEF Kept, Asc
  <2> QED BY <2>1, <2>2 DEF ShownInOrder
<1> QED BY <1>1, <1>2, <1>3, PTL DEF Spec

-----------------------------------------------------------------------------
(* The channel on which a session's events reach its consumers.            *)

CONSTANTS Senders, Receivers, Capacity, MaxBatch
VARIABLES handle, open, closed, cancelled, closing, channel, lock, listening,
          woken, pc, accepted, received, since
Queue == INSTANCE EventQueue

\* Where a call is, and where one is that was not told that there is nothing.
Places == {"start", "checked", "ready", "listening", "sending", "sent",
           "refused", "idle", "called", "trying", "waiting", "empty", "null"}
Nothing == {"empty", "null"}

\* Every event that was accepted was received or waits in the channel; and who
\* found nothing has at least what was accepted before it asked.
Delivered ==
  /\ received \in Seq(Senders) /\ channel \in Seq(Senders)
  /\ accepted \in Seq(Senders)
  /\ Len(accepted) = Len(received) + Len(channel)
  /\ pc \in [Queue!Tasks -> Places] /\ since \in [Receivers -> Nat]
  /\ \A r \in Receivers :
       /\ since[r] <= Len(accepted)
       /\ pc[r] \in Nothing => since[r] <= Len(received)

\* The lengths of what is taken and of what is left.
LEMMA TakenEvents ==
  ASSUME Delivered, NEW r, Queue!TakeEvents(r)
  PROVE  /\ received' \in Seq(Senders) /\ channel' \in Seq(Senders)
         /\ Len(received') + Len(channel') = Len(received) + Len(channel)
         /\ Len(received) <= Len(received')
<1> DEFINE m == Len(channel)
           k == Len(received)
<1>1. /\ m \in Nat /\ k \in Nat /\ \A p \in 1..m : channel[p] \in Senders
  BY LenProperties, ElementOfSeq DEF Delivered
<1>2. PICK n \in 1..MaxBatch :
        /\ n <= m
        /\ received' = received \o SubSeq(channel, 1, n)
        /\ channel' = SubSeq(channel, n + 1, m)
  BY DEF Queue!TakeEvents
<1> DEFINE b == SubSeq(channel, 1, n)
           c == SubSeq(channel, n + 1, m)
<1> HIDE DEF m
<1>3. n \in Int /\ 1 <= n /\ n <= m
  BY <1>2
<1>4. b \in Seq(Senders) /\ Len(b) = n
  <2>1. 1 \in Int /\ n \in Int /\ \A p \in 1..n : channel[p] \in Senders
    BY <1>1, <1>3
  <2>2. b \in Seq(Senders) /\ Len(b) = IF 1 <= n THEN n - 1 + 1 ELSE 0
    BY <2>1, SubSeqProperties
  <2> HIDE DEF b
  <2> QED BY <1>3, <2>2
<1>5. c \in Seq(Senders) /\ Len(c) = m - n
  <2>1. /\ n + 1 \in Int /\ m \in Int
        /\ \A p \in n + 1..m : channel[p] \in Senders
    BY <1>1, <1>3
  <2>2. c \in Seq(Senders)
        /\ Len(c) = IF n + 1 <= m THEN m - (n + 1) + 1 ELSE 0
    BY <2>1, SubSeqProperties
  <2> HIDE DEF c
  <2> QED BY <1>1, <1>3, <2>2
<1>6. received \o b \in Seq(Senders) /\ Len(received \o b) = k + n
  <2> HIDE DEF b
  <2>1. received \in Seq(Senders)
    BY DEF Delivered
  <2> QED BY <1>4, <2>1, ConcatProperties
<1> HIDE DEF b, c, k
<1>7. received' = received \o b /\ channel' = c
  BY <1>2 DEF b, c
<1>8. /\ received' \in Seq(Senders) /\ channel' \in Seq(Senders)
      /\ Len(received') = k + n /\ Len(channel') = m - n
  BY <1>5, <1>6, <1>7
<1>9. (k + n) + (m - n) = k + m /\ k <= k + n
  BY <1>1, <1>3
<1>10. /\ Len(received') + Len(channel') = k + m
       /\ k <= Len(received')
  BY <1>8, <1>9
<1> QED BY <1>8, <1>10 DEF k, m

\* No step of a call or of close breaks it.
LEMMA StepKeepsDelivered == Delivered /\ [Queue!Next]_(Queue!vars) => Delivered'
<1> SUFFICES ASSUME Delivered, [Queue!Next]_(Queue!vars) PROVE Delivered'
  OBVIOUS
<1>1. /\ Len(channel) \in Nat /\ Len(received) \in Nat /\ Len(accepted) \in Nat
      /\ channel = <<>> => Len(channel) = 0
  BY LenProperties, EmptySeq DEF Delivered
<1>2. ASSUME UNCHANGED <<channel, accepted, received, since>>,
             pc' \in [Queue!Tasks -> Places],
             \A r \in Receivers : pc'[r] \in Nothing =>
                                    pc[r] \in Nothing \/ channel = <<>>
      PROVE  Delivered'
  BY <1>1, <1>2 DEF Delivered
<1>3. ASSUME NEW t \in Queue!Tasks, NEW x \in Places, Queue!Goto(t, x)
      PROVE  /\ pc' \in [Queue!Tasks -> Places] /\ pc'[t] = x
             /\ \A r \in Receivers : r # t => pc'[r] = pc[r]
  BY <1>3 DEF Queue!Goto, Delivered, Queue!Tasks
<1>4. CASE UNCHANGED Queue!vars \/ Queue!Close
  BY <1>2, <1>4 DEF Queue!vars, Queue!events, Queue!Close, Delivered
<1>5. ASSUME NEW t \in Queue!Tasks, NEW x \in Places, Queue!Goto(t, x),
             UNCHANGED <<channel, accepted, received, since>>,
             x \in Nothing => pc[t] \in Nothing \/ channel = <<>>
      PROVE  Delivered'
  <2>1. /\ pc' \in [Queue!Tasks -> Places] /\ pc'[t] = x
        /\ \A r \in Receivers : r # t => pc'[r] = pc[r]
    BY <1>3, <1>5
  <2>2. \A r \in Receivers : pc'[r] \in Nothing =>
                               pc[r] \in Nothing \/ channel = <<>>
    BY <1>5, <2>1
  <2> QED BY <1>2, <1>5, <2>1, <2>2
<1>6. ASSUME NEW s \in Senders,
             Queue!BeginSend(s) \/ Queue!SendStep(s) \/ Queue!Complete(s)
      PROVE  Delivered'
  <2>1. s \in Queue!Tasks
    BY DEF Queue!Tasks
  <2>2. ASSUME NEW x \in {"checked", "ready", "listening", "sending", "sent",
                          "refused"},
               Queue!Goto(s, x),
               UNCHANGED <<channel, accepted, received, since>>
        PROVE  Delivered'
    <3>1. x \in Places /\ x \notin Nothing
      BY DEF Places, Nothing
    <3> QED BY <1>5, <2>1, <2>2, <3>1
  <2>3. CASE \/ Queue!BeginSend(s) \/ Queue!CloneSender(s)
             \/ Queue!Listen(s, "ready", "listening") \/ Queue!CheckAgain(s)
             \/ Queue!StopSend(s)
    <3>1. UNCHANGED <<channel, accepted, received, since>>
      BY <2>3 DEF Queue!BeginSend, Queue!CloneSender, Queue!Listen,
                  Queue!CheckAgain, Queue!StopSend, Queue!events
    <3>2. \E x \in {"checked", "ready", "listening", "sending", "sent",
                    "refused"} : Queue!Goto(s, x)
      BY <2>3 DEF Queue!BeginSend, Queue!CloneSender, Queue!Listen,
                  Queue!CheckAgain, Queue!StopSend, Queue!Refuse
    <3> QED BY <2>2, <3>1, <3>2
  <2>4. CASE Queue!Complete(s)
    <3>1. Queue!Goto(s, "sent") /\ UNCHANGED since
      BY <2>4 DEF Queue!Complete
    <3>2. CASE UNCHANGED Queue!events
      BY <2>2, <3>1, <3>2 DEF Queue!events
    <3>3. CASE /\ channel' = Append(channel, s)
               /\ accepted' = Append(accepted, s) /\ UNCHANGED received
      <4>1. /\ channel' \in Seq(Senders) /\ Len(channel') = Len(channel) + 1
            /\ accepted' \in Seq(Senders) /\ Len(accepted') = Len(accepted) + 1
        BY <3>3, AppendProperties DEF Delivered
      <4>2. "sent" \in Places /\ "sent" \notin Nothing
        BY DEF Places, Nothing
      <4>3. /\ pc' \in [Queue!Tasks -> Places] /\ pc'[s] = "sent"
            /\ \A r \in Receivers : r # s => pc'[r] = pc[r]
        BY <1>3, <2>1, <3>1, <4>2
      <4>4. Len(accepted') = Len(received') + Len(channel')
        BY <1>1, <3>3, <4>1 DEF Delivered
      <4>5. ASSUME NEW r \in Receivers
            PROVE  /\ since'[r] <= Len(accepted')
                   /\ pc'[r] \in Nothing => since'[r] <= Len(received')
        <5>1. since[r] \in Nat /\ since[r] <= Len(accepted)
          BY DEF Delivered
        <5>2. since'[r] <= Len(accepted')
          BY <1>1, <3>1, <4>1, <5>1
        <5>3. pc'[r] \in Nothing => since[r] <= Len(received)
          BY <4>2, <4>3 DEF Delivered
        <5> QED BY <3>1, <3>3, <5>2, <5>3
      <4> QED BY <3>1, <3>3, <4>1, <4>3, <4>4, <4>5 DEF Delivered
    <3> QED BY <2>4, <3>2, <3>3 DEF Queue!Complete
  <2> QED BY <1>6, <2>3, <2>4 DEF Queue!SendStep
<1>7. ASSUME NEW r \in Receivers, Queue!BeginReceive(r) \/ Queue!ReceiveStep(r)
      PROVE  Delivered'
  <2>1. r \in Queue!Tasks
    BY DEF Queue!Tasks
  <2>2. /\ {"called", "trying", "idle", "ready", "listening", "waiting"}
             \subseteq Places
        /\ \A x \in {"called", "trying", "idle", "ready", "listening",
                     "waiting"} : x \notin Nothing
        /\ "empty" \in Places /\ "null" \in Places /\ "empty" \in Nothing
    BY DEF Places, Nothing
  <2>3. ASSUME Queue!TakeEvents(r) PROVE Delivered'
    <3>1. /\ received' \in Seq(Senders) /\ channel' \in Seq(Senders)
          /\ Len(received') + Len(channel') = Len(received) + Len(channel)
          /\ Len(received) <= Len(received')
      BY <2>3, TakenEvents
    <3>2. /\ Queue!Goto(r, "idle") /\ UNCHANGED <<accepted, since>>
      BY <2>3 DEF Queue!TakeEvents
    <3>3. /\ pc' \in [Queue!Tasks -> Places] /\ pc'[r] = "idle"
          /\ \A q \in Receivers : q # r => pc'[q] = pc[q]
      BY <1>3, <2>1, <2>2, <3>2
    <3>4. Len(received') \in Nat
      BY <3>1, LenProperties
    <3>5. Len(accepted') = Len(received') + Len(channel')
      BY <3>1, <3>2 DEF Delivered
    <3>6. ASSUME NEW q \in Receivers
          PROVE  /\ since'[q] <= Len(accepted')
                 /\ pc'[q] \in Nothing => since'[q] <= Len(received')
      <4>1. since[q] \in Nat /\ since[q] <= Len(accepted)
        BY DEF Delivered
      <4>2. pc'[q] \in Nothing => since[q] <= Len(received)
        BY <2>2, <3>3 DEF Delivered
      <4> QED BY <1>1, <3>1, <3>2, <3>4, <4>1, <4>2
    <3> QED BY <3>1, <3>2, <3>3, <3>5, <3>6 DEF Delivered
  <2>4. CASE Queue!BeginReceive(r)
    <3>1. /\ Queue!Goto(r, "called")
          /\ UNCHANGED <<channel, accepted, received>>
          /\ since' = [since EXCEPT ![r] = Len(accepted)]
      BY <2>4 DEF Queue!BeginReceive, Queue!events
    <3>2. /\ pc' \in [Queue!Tasks -> Places] /\ pc'[r] = "called"
          /\ \A q \in Receivers : q # r => pc'[q] = pc[q]
      BY <1>3, <2>1, <2>2, <3>1
    <3>3. /\ since' \in [Receivers -> Nat] /\ since'[r] = Len(accepted)
          /\ \A q \in Receivers : q # r => since'[q] = since[q]
      BY <1>1, <3>1 DEF Delivered
    <3> QED BY <1>1, <2>2, <3>1, <3>2, <3>3 DEF Delivered
  <2>5. CASE Queue!TryReceive(r) \/ Queue!CheckClosed(r) \/ Queue!Receive(r)
    <3>1. CASE Queue!TakeEvents(r)
      BY <2>3, <3>1
    <3>2. CASE ~Queue!TakeEvents(r)
      <4>1. UNCHANGED <<channel, accepted, received, since>>
        BY <2>5, <3>2 DEF Queue!TryReceive, Queue!CheckClosed, Queue!Receive,
                          Queue!ReturnNull, Queue!events
      <4>2. \/ Queue!Goto(r, "empty") /\ channel = <<>>
            \/ Queue!Goto(r, "null") /\ (pc[r] = "empty" \/ channel = <<>>)
            \/ Queue!Goto(r, "ready")
        BY <2>5, <3>2 DEF Queue!TryReceive, Queue!CheckClosed, Queue!Receive,
                          Queue!ReturnNull
      <4> QED BY <1>5, <2>1, <2>2, <4>1, <4>2
    <3> QED BY <3>1, <3>2
  <2>6. CASE \/ Queue!Acquire(r) \/ Queue!Listen(r, "ready", "listening")
             \/ Queue!CheckBeforeWaiting(r) \/ Queue!WakeReceiver(r)
    <3>1. UNCHANGED <<channel, accepted, received, since>>
      BY <2>6 DEF Queue!Acquire, Queue!Listen, Queue!CheckBeforeWaiting,
                  Queue!WakeReceiver, Queue!events
    <3>2. \E x \in {"trying", "listening", "waiting"} : Queue!Goto(r, x)
      BY <2>6 DEF Queue!Acquire, Queue!Listen, Queue!CheckBeforeWaiting,
                  Queue!WakeReceiver
    <3> QED BY <1>5, <2>1, <2>2, <3>1, <3>2
  <2> QED BY <1>7, <2>4, <2>5, <2>6 DEF Queue!ReceiveStep
<1> QED BY <1>4, <1>6, <1>7 DEF Queue!Next

\* A consumer that is told null had every event that was accepted before it
\* asked: a theorem for any number of senders and consumers, a channel of any
\* capacity and batches of any size.
THEOREM EarlierEventsStayFirst == Queue!Spec => []Queue!EarlierEventsFirst
<1>1. Queue!Init => Delivered
  <2> SUFFICES ASSUME Queue!Init PROVE Delivered
    OBVIOUS
  <2>1. <<>> \in Seq(Senders) /\ Len(<<>>) = 0
    BY EmptySeq
  <2>2. /\ received = <<>> /\ channel = <<>> /\ accepted = <<>>
        /\ pc \in [Queue!Tasks -> {"start", "idle"}]
        /\ since \in [Receivers -> {0}]
    BY DEF Queue!Init
  <2>3. {"start", "idle"} \subseteq Places /\ "start" \notin Nothing
        /\ "idle" \notin Nothing
    BY DEF Places, Nothing
  <2> QED BY <2>1, <2>2, <2>3 DEF Delivered, Queue!Tasks
<1>2. Delivered /\ [Queue!Next]_(Queue!vars) => Delivered'
  BY StepKeepsDelivered
<1>3. Delivered => Queue!EarlierEventsFirst
  <2> SUFFICES ASSUME Delivered, NEW r \in Receivers, pc[r] = "null"
               PROVE  Len(received) >= since[r]
    BY DEF Queue!EarlierEventsFirst
  <2>1. since[r] <= Len(received) /\ Len(received) \in Nat /\ since[r] \in Nat
    BY LenProperties DEF Delivered, Nothing
  <2> QED BY <2>1
<1> QED BY <1>1, <1>2, <1>3, PTL DEF Queue!Spec
=============================================================================
