------------------------- MODULE UDPConnectionProofs -------------------------
(***************************************************************************)
(* Proofs about UDPConnection, for all values of its constants: a message  *)
(* layer runs over the chunk layer of UDPChunks, whose theorems it         *)
(* therefore inherits, and each direction is a reliable channel of         *)
(* messages, however they are cut into chunks and chunks into packets.     *)
(***************************************************************************)
EXTENDS UDPConnection, UDPChunksProofs, WellFoundedInduction

-----------------------------------------------------------------------------
(* Induction and recursion over the natural numbers, about sets and        *)
(* functions.                                                              *)

LEMMA LeastElement ==
    ASSUME NEW T \in SUBSET Nat, T # {}
    PROVE  \E x \in T : \A y \in T : x <= y
<1> DEFINE R == {r \in Nat \X Nat : r[1] < r[2]}
<1>1. IsWellFoundedOn(R, Nat)
  BY NatLessThanWellFounded DEF OpToRel
<1>2. \A x, y \in Nat : <<y, x>> \notin R => x <= y
  OBVIOUS
<1> HIDE DEF R
<1>3. PICK x \in T : \A y \in T : <<y, x>> \notin R
  BY <1>1, WFMin
<1> QED BY <1>2, <1>3

LEMMA Induction ==
    ASSUME NEW T \in SUBSET Nat, 0 \in T, \A n \in T : n + 1 \in T
    PROVE  \A n \in Nat : n \in T
<1> SUFFICES ASSUME NEW n \in Nat, n \notin T PROVE FALSE
  OBVIOUS
<1>1. PICK m \in Nat \ T : \A k \in Nat \ T : m <= k
  BY LeastElement
<1>2. m - 1 \in Nat /\ m - 1 \in T /\ m = (m - 1) + 1
  BY <1>1
<1> QED BY <1>1, <1>2

Iterates(f, S, s0, G) ==
    /\ f \in [Nat -> S] /\ f[0] = s0
    /\ \A n \in Nat : f[n + 1] = G[<<f[n], n>>]

LEMMA Recursion ==
    ASSUME NEW S, NEW s0 \in S, NEW G \in [S \X Nat -> S]
    PROVE  \E f : Iterates(f, S, s0, G)
<1> DEFINE Upto(n, h) == /\ h \in [0..n -> S] /\ h[0] = s0
                         /\ \A i \in 0..(n - 1) : h[i + 1] = G[<<h[i], i>>]
<1>1. \A n \in Nat : \E h : Upto(n, h)
  <2> DEFINE T == {n \in Nat : \E h : Upto(n, h)}
  <2>1. 0 \in T
    <3>1. Upto(0, [i \in 0..0 |-> s0])
      OBVIOUS
    <3> QED  BY <3>1
  <2>2. ASSUME NEW n \in T PROVE n + 1 \in T
    <3>1. n \in Nat
      OBVIOUS
    <3>2. PICK h : Upto(n, h)
      OBVIOUS
    <3> DEFINE g == [i \in 0..(n + 1) |-> IF i <= n THEN h[i] ELSE G[<<h[n], n>>]]
    <3>3. g \in [0..(n + 1) -> S] /\ g[0] = s0
      BY <3>1, <3>2
    <3>4. ASSUME NEW i \in 0..n PROVE g[i + 1] = G[<<g[i], i>>]
      <4>1. CASE i < n
        <5>1. i \in 0..(n - 1) /\ i + 1 \in 0..n
          BY <3>1, <4>1
        <5> QED  BY <3>1, <3>2, <5>1
      <4>2. CASE i = n
        <5>1. g[n + 1] = G[<<h[n], n>>] /\ g[n] = h[n]
          BY <3>1
        <5> QED  BY <4>2, <5>1
      <4> QED  BY <3>1, <4>1, <4>2
    <3>5. Upto(n + 1, g)
      <4> HIDE DEF g
      <4>1. (n + 1) - 1 = n
        BY <3>1
      <4> QED  BY <3>3, <3>4, <4>1
    <3>6. n + 1 \in Nat /\ \E k : Upto(n + 1, k)
      <4> HIDE DEF Upto, g
      <4> QED  BY <3>1, <3>5
    <3> QED  BY <3>6
  <2> HIDE DEF T
  <2>3. \A n \in Nat : n \in T
    <3>1. T \in SUBSET Nat
      BY DEF T
    <3> QED  BY <2>1, <2>2, <3>1, Induction
  <2> QED  BY <2>3 DEF T
<1>2. ASSUME NEW n \in Nat, NEW h, Upto(n, h), NEW m \in Nat, NEW k, Upto(m, k), n <= m
      PROVE  \A i \in 0..n : h[i] = k[i]
  <2> DEFINE T == {i \in Nat : i <= n => h[i] = k[i]}
  <2>1. 0 \in T
    BY <1>2
  <2>2. ASSUME NEW i \in T PROVE i + 1 \in T
    <3>1. i \in Nat
      OBVIOUS
    <3> SUFFICES ASSUME i + 1 <= n PROVE h[i + 1] = k[i + 1]
      BY <3>1
    <3>2. i \in 0..(n - 1) /\ i \in 0..(m - 1) /\ h[i] = k[i]
      BY <1>2, <3>1
    <3> QED  BY <1>2, <3>2
  <2>3. T \in SUBSET Nat
    OBVIOUS
  <2> HIDE DEF T
  <2>4. \A i \in Nat : i \in T
    BY <2>1, <2>2, <2>3, Induction
  <2> QED  BY <2>4 DEF T
<1> DEFINE H == [n \in Nat |-> CHOOSE h : Upto(n, h)]
           f == [n \in Nat |-> H[n][n]]
<1>3. \A n \in Nat : Upto(n, H[n])
  <2> HIDE DEF Upto
  <2> QED  BY <1>1
<1> HIDE DEF H
<1>4. f \in [Nat -> S]
  BY <1>3
<1>5. f[0] = s0
  BY <1>3
<1>6. ASSUME NEW n \in Nat PROVE f[n + 1] = G[<<f[n], n>>]
  <2>1. H[n + 1][n + 1] = G[<<H[n + 1][n], n>>]
    BY <1>3
  <2>2. H[n + 1][n] = H[n][n]
    <3> HIDE DEF Upto
    <3>1. n + 1 \in Nat /\ n <= n + 1 /\ n \in 0..n
      OBVIOUS
    <3>2. \A i \in 0..n : H[n][i] = H[n + 1][i]
      BY <1>2, <1>3, <3>1
    <3> QED  BY <3>1, <3>2
  <2> QED  BY <2>1, <2>2
<1> HIDE DEF f
<1> QED  BY <1>4, <1>5, <1>6 DEF Iterates

-----------------------------------------------------------------------------
(* Joining sequences. *)

(* The function that FlattenSeq builds. *)
LEMMA FlatUnfold ==
    ASSUME NEW B, NEW s \in Seq(Seq(B)), s # <<>>
    PROVE  \E g \in [1..Len(s) -> Seq(B)] :
              /\ g[1] = s[1]
              /\ \A i \in 1..(Len(s) - 1) : g[i + 1] = g[i] \o s[i + 1]
              /\ FlattenSeq(s) = g[Len(s)]
<1> DEFINE n == Len(s)
           F(g) == [i \in 1..n |-> IF i = 1 THEN s[i] ELSE g[i - 1] \o s[i]]
           h == CHOOSE g : g = F(g)
           G == [p \in Seq(B) \X Nat |->
                    IF p[2] + 1 \in 1..n THEN p[1] \o s[p[2] + 1] ELSE p[1]]
<1>1. n \in Nat \ {0} /\ \A i \in 1..n : s[i] \in Seq(B)
  OBVIOUS
<1>2. FlattenSeq(s) = h[n]
  BY <1>1 DEF FlattenSeq
<1> HIDE DEF n
<1>3. PICK f \in [Nat -> Seq(B)] :
        f[0] = <<>> /\ \A i \in Nat : f[i + 1] = G[<<f[i], i>>]
  <2>1. ASSUME NEW v \in Seq(B), NEW i \in Nat, i + 1 \in 1..n
        PROVE  v \o s[i + 1] \in Seq(B)
    BY <1>1, <2>1, ConcatProperties
  <2>2. G \in [Seq(B) \X Nat -> Seq(B)]
    BY <2>1
  <2>3. <<>> \in Seq(B)
    OBVIOUS
  <2> HIDE DEF G
  <2>4. PICK f : Iterates(f, Seq(B), <<>>, G)
    BY <2>2, <2>3, Recursion
  <2> QED  BY <2>4 DEF Iterates
<1> DEFINE k == [i \in 1..n |-> f[i]]
<1>4. ASSUME NEW i \in Nat, i + 1 \in 1..n PROVE f[i + 1] = f[i] \o s[i + 1]
  BY <1>3, <1>4
<1>5. f[1] = s[1]
  <2>1. f[0 + 1] = f[0] \o s[0 + 1]
    <3>1. 0 \in Nat /\ 0 + 1 \in 1..n
      BY <1>1
    <3> QED  BY <1>4, <3>1
  <2>2. <<>> \o s[1] = s[1]
    BY <1>1, ConcatEmptySeq
  <2> QED  BY <1>3, <2>1, <2>2
<1>6. k = F(k)
  <2> SUFFICES ASSUME NEW i \in 1..n
               PROVE  f[i] = IF i = 1 THEN s[i] ELSE k[i - 1] \o s[i]
    OBVIOUS
  <2>1. CASE i # 1
    <3>1. i - 1 \in Nat /\ (i - 1) + 1 = i /\ i - 1 \in 1..n
      BY <1>1, <2>1
    <3> QED  BY <1>4, <2>1, <3>1
  <2> QED  BY <1>5, <2>1
<1>7. h = F(h)
  <2> HIDE DEF F, k
  <2> QED  BY <1>6
<1> HIDE DEF h
<1>8. h[1] = s[1] /\ \A i \in 1..(n - 1) : h[i + 1] = h[i] \o s[i + 1]
  <2>1. h[1] = s[1]
    BY <1>1, <1>7
  <2>2. ASSUME NEW i \in 1..(n - 1) PROVE h[i + 1] = h[i] \o s[i + 1]
    <3>1. i + 1 \in 1..n /\ i + 1 # 1 /\ (i + 1) - 1 = i
      BY <1>1
    <3> QED  BY <1>7, <3>1
  <2> QED  BY <2>1, <2>2
<1>9. \A i \in 1..n : h[i] \in Seq(B)
  <2> DEFINE T == {i \in Nat : i \in 1..n => h[i] = f[i]}
  <2>1. T \in SUBSET Nat /\ 0 \in T
    OBVIOUS
  <2>2. ASSUME NEW i \in T PROVE i + 1 \in T
    <3> SUFFICES ASSUME i + 1 \in 1..n PROVE h[i + 1] = f[i + 1]
      OBVIOUS
    <3>1. CASE i = 0
      BY <1>5, <1>8, <3>1
    <3>2. CASE i # 0
      <4>1. i \in Nat /\ i \in 1..n /\ i \in 1..(n - 1) /\ h[i] = f[i]
        BY <1>1, <3>2
      <4> QED  BY <1>4, <1>8, <4>1
    <3> QED  BY <3>1, <3>2
  <2> HIDE DEF T
  <2>3. \A i \in Nat : i \in T
    BY <2>1, <2>2, Induction
  <2>4. \A i \in 1..n : i \in Nat
    BY <1>1
  <2>5. \A i \in 1..n : h[i] = f[i]
    BY <2>3, <2>4 DEF T
  <2>6. \A i \in Nat : f[i] \in Seq(B)
    BY <1>3
  <2> QED  BY <2>4, <2>5, <2>6
<1>10. h \in [1..n -> Seq(B)]
  BY <1>7, <1>9
<1> QED  BY <1>2, <1>8, <1>10 DEF n

LEMMA FlatEmpty == FlattenSeq(<<>>) = <<>>
BY DEF FlattenSeq

LEMMA FlatAppend ==
    ASSUME NEW B, NEW s \in Seq(Seq(B)), NEW x \in Seq(B)
    PROVE  /\ FlattenSeq(s) \in Seq(B)
           /\ FlattenSeq(Append(s, x)) = FlattenSeq(s) \o x
<1> DEFINE n == Len(s)
           t == Append(s, x)
<1>1. /\ n \in Nat /\ t \in Seq(Seq(B)) /\ t # <<>> /\ Len(t) = n + 1
      /\ \A i \in 1..n : t[i] = s[i]
      /\ t[n + 1] = x
  BY AppendProperties
<1> HIDE DEF t
<1>2. PICK h \in [1..Len(t) -> Seq(B)] :
        /\ h[1] = t[1]
        /\ \A i \in 1..(Len(t) - 1) : h[i + 1] = h[i] \o t[i + 1]
        /\ FlattenSeq(t) = h[Len(t)]
  BY <1>1, FlatUnfold
<1>3. CASE s = <<>>
  <2>1. n = 0 /\ FlattenSeq(s) = <<>>
    BY <1>3, FlatEmpty
  <2>2. FlattenSeq(t) = x
    BY <1>1, <1>2, <2>1
  <2>3. <<>> \o x = x /\ <<>> \in Seq(B)
    BY ConcatEmptySeq
  <2> QED  BY <2>1, <2>2, <2>3 DEF t
<1>4. CASE s # <<>>
  <2>1. PICK g \in [1..Len(s) -> Seq(B)] :
          /\ g[1] = s[1]
          /\ \A i \in 1..(Len(s) - 1) : g[i + 1] = g[i] \o s[i + 1]
          /\ FlattenSeq(s) = g[Len(s)]
    BY <1>4, FlatUnfold
  <2>2. n \in Nat \ {0}
    BY <1>1, <1>4
  <2> HIDE DEF n
  <2> DEFINE T == {i \in Nat : i \in 1..n => g[i] = h[i]}
  <2>3. T \in SUBSET Nat /\ 0 \in T
    OBVIOUS
  <2>4. ASSUME NEW i \in T PROVE i + 1 \in T
    <3> SUFFICES ASSUME i + 1 \in 1..n PROVE g[i + 1] = h[i + 1]
      OBVIOUS
    <3>1. CASE i = 0
      <4>1. t[1] = s[1]
        BY <1>1, <2>2
      <4> QED  BY <1>2, <2>1, <3>1, <4>1
    <3>2. CASE i # 0
      <4>1. i \in Nat /\ i \in 1..n /\ i \in 1..(n - 1) /\ i \in 1..(n + 1 - 1)
            /\ g[i] = h[i]
        BY <2>2, <3>2
      <4>2. t[i + 1] = s[i + 1]
        BY <1>1
      <4>3. h[i + 1] = h[i] \o t[i + 1]
        <5>1. i \in 1..(Len(t) - 1)
          BY <1>1, <4>1
        <5> QED  BY <1>2, <5>1
      <4>4. g[i + 1] = g[i] \o s[i + 1]
        BY <2>1, <4>1 DEF n
      <4> QED  BY <4>1, <4>2, <4>3, <4>4
    <3> QED  BY <3>1, <3>2
  <2> HIDE DEF T
  <2>5. \A i \in Nat : i \in T
    BY <2>3, <2>4, Induction
  <2>6. g[n] = h[n] /\ g[n] \in Seq(B)
    BY <2>1, <2>2, <2>5 DEF T, n
  <2>7. h[n + 1] = h[n] \o t[n + 1]
    <3>1. n \in 1..(Len(t) - 1)
      BY <1>1, <2>2
    <3> QED  BY <1>2, <3>1
  <2> QED  BY <1>1, <1>2, <2>1, <2>6, <2>7 DEF n, t
<1> QED  BY <1>3, <1>4

LEMMA FlatType ==
    ASSUME NEW B, NEW s \in Seq(Seq(B))
    PROVE  FlattenSeq(s) \in Seq(B) /\ Len(FlattenSeq(s)) \in Nat
<1>1. <<>> \in Seq(B)
  OBVIOUS
<1>2. FlattenSeq(s) \in Seq(B)
  BY <1>1, FlatAppend
<1> QED  BY <1>2, LenProperties

LEMMA FlatOne ==
    ASSUME NEW B, NEW x \in Seq(B)
    PROVE  FlattenSeq(<<x>>) = x
<1>1. <<>> \in Seq(Seq(B)) /\ Append(<<>>, x) = <<x>>
  OBVIOUS
<1>2. FlattenSeq(Append(<<>>, x)) = FlattenSeq(<<>>) \o x
  BY <1>1, FlatAppend
<1>3. <<>> \o x = x
  BY ConcatEmptySeq
<1> QED  BY <1>1, <1>2, <1>3, FlatEmpty

(* A sequence is its first k elements and the others. *)
LEMMA Cutting ==
    ASSUME NEW S, NEW s \in Seq(S), NEW k \in 0..Len(s)
    PROVE  /\ SubSeq(s, 1, k) \in Seq(S) /\ Len(SubSeq(s, 1, k)) = k
           /\ \A i \in 1..k : SubSeq(s, 1, k)[i] = s[i]
           /\ SubSeq(s, k + 1, Len(s)) \in Seq(S)
           /\ Len(SubSeq(s, k + 1, Len(s))) = Len(s) - k
           /\ \A i \in 1..(Len(s) - k) : SubSeq(s, k + 1, Len(s))[i] = s[k + i]
           /\ s = SubSeq(s, 1, k) \o SubSeq(s, k + 1, Len(s))
<1>1. Len(s) \in Nat /\ k \in Nat /\ k <= Len(s)
  OBVIOUS
<1>2. /\ SubSeq(s, 1, k) \in Seq(S) /\ Len(SubSeq(s, 1, k)) = k
      /\ \A i \in 1..k : SubSeq(s, 1, k)[i] = s[i]
  BY <1>1, SubSeqProperties
<1>3. /\ SubSeq(s, k + 1, Len(s)) \in Seq(S)
      /\ Len(SubSeq(s, k + 1, Len(s))) = Len(s) - k
      /\ \A i \in 1..(Len(s) - k) : SubSeq(s, k + 1, Len(s))[i] = s[k + i]
  BY <1>1, SubSeqProperties
<1>4. SubSeq(s, 1, k) \o SubSeq(s, k + 1, Len(s)) = SubSeq(s, 1, Len(s))
  <2>1. 1 \in 1..(Len(s) + 1) /\ k \in (1 - 1)..Len(s) /\ Len(s) \in k..Len(s)
    BY <1>1
  <2> QED  BY <2>1, ConcatAdjacentSubSeq
<1>5. SubSeq(s, 1, Len(s)) = s
  BY SubSeqFull
<1> QED  BY <1>2, <1>3, <1>4, <1>5

LEMMA NextElement ==
    ASSUME NEW S, NEW s \in Seq(S), NEW k \in 0..(Len(s) - 1)
    PROVE  SubSeq(s, 1, k + 1) = Append(SubSeq(s, 1, k), s[k + 1])
<1>1. Len(s) \in Nat /\ k \in Nat /\ k + 1 \in 0..Len(s) /\ k \in 0..Len(s)
  OBVIOUS
<1> DEFINE a == SubSeq(s, 1, k + 1)
           b == SubSeq(s, 1, k)
           c == Append(b, s[k + 1])
<1>2. a \in Seq(S) /\ Len(a) = k + 1 /\ \A i \in 1..(k + 1) : a[i] = s[i]
  BY <1>1, Cutting
<1>3. b \in Seq(S) /\ Len(b) = k /\ \A i \in 1..k : b[i] = s[i]
  BY <1>1, Cutting
<1>4. s[k + 1] \in S
  BY <1>1
<1> HIDE DEF a, b
<1>5. /\ c \in Seq(S) /\ Len(c) = k + 1 /\ c[k + 1] = s[k + 1]
      /\ \A i \in 1..k : c[i] = b[i]
  BY <1>3, <1>4, AppendProperties
<1>6. \A i \in 1..(k + 1) : c[i] = a[i]
  BY <1>1, <1>2, <1>3, <1>5
<1> HIDE DEF c
<1>7. a = c
  BY <1>2, <1>5, <1>6, SeqEqual
<1> QED  BY <1>7 DEF a, b, c

LEMMA FlatConcat ==
    ASSUME NEW B, NEW s \in Seq(Seq(B)), NEW t \in Seq(Seq(B))
    PROVE  FlattenSeq(s \o t) = FlattenSeq(s) \o FlattenSeq(t)
<1> DEFINE n == Len(t)
           front(k) == SubSeq(t, 1, k)
           T == {k \in Nat : k <= n =>
                   FlattenSeq(s \o front(k)) = FlattenSeq(s) \o FlattenSeq(front(k))}
<1>1. n \in Nat /\ front(n) = t
  BY SubSeqFull
<1>2. 0 \in T
  <2>1. front(0) = <<>>
    BY SubSeqEmpty
  <2>2. s \o <<>> = s /\ FlattenSeq(s) \o <<>> = FlattenSeq(s)
    BY FlatType, ConcatEmptySeq
  <2> QED  BY <2>1, <2>2, FlatEmpty
<1>3. ASSUME NEW k \in T PROVE k + 1 \in T
  <2> SUFFICES ASSUME k + 1 <= n
               PROVE  FlattenSeq(s \o front(k + 1))
                         = FlattenSeq(s) \o FlattenSeq(front(k + 1))
    OBVIOUS
  <2>1. /\ k \in 0..n /\ k \in 0..(n - 1) /\ k + 1 \in 1..n
        /\ FlattenSeq(s \o front(k)) = FlattenSeq(s) \o FlattenSeq(front(k))
    BY <1>1
  <2>2. front(k) \in Seq(Seq(B)) /\ t[k + 1] \in Seq(B)
    BY <1>1, <2>1, Cutting
  <2>3. front(k + 1) = Append(front(k), t[k + 1])
    BY <2>1, NextElement
  <2> DEFINE u == front(k)
             x == t[k + 1]
             w == s \o u
  <2>4. s \o Append(u, x) = Append(w, x) /\ w \in Seq(Seq(B))
    <3> HIDE DEF u, x
    <3> QED  BY <2>2, ConcatProperties DEF u, x
  <2> HIDE DEF w, u, x, front
  <2>5. FlattenSeq(Append(w, x)) = FlattenSeq(w) \o x
    BY <2>2, <2>4, FlatAppend DEF u, x
  <2>6. FlattenSeq(Append(u, x)) = FlattenSeq(u) \o x
    BY <2>2, FlatAppend DEF u, x
  <2> DEFINE fs == FlattenSeq(s)
             fu == FlattenSeq(u)
  <2>7. fs \in Seq(B) /\ fu \in Seq(B) /\ x \in Seq(B)
    BY <2>2, FlatType DEF u, x
  <2>8. FlattenSeq(w) = fs \o fu
    BY <2>1 DEF u, w
  <2> HIDE DEF fs, fu
  <2>9. (fs \o fu) \o x = fs \o (fu \o x)
    BY ONLY <2>7, ConcatAssociative, SMTT(30)
  <2>10. FlattenSeq(s \o Append(u, x)) = fs \o FlattenSeq(Append(u, x))
    BY <2>4, <2>5, <2>6, <2>8, <2>9 DEF fu
  <2> QED  BY <2>3, <2>10 DEF fs, u, x
<1>4. T \in SUBSET Nat
  OBVIOUS
<1> HIDE DEF T, front
<1>5. \A k \in Nat : k \in T
  BY <1>2, <1>3, <1>4, Induction
<1>6. n <= n => FlattenSeq(s \o front(n)) = FlattenSeq(s) \o FlattenSeq(front(n))
  BY <1>1, <1>5 DEF T
<1> QED  BY <1>1, <1>6

-----------------------------------------------------------------------------
(* The chunks that Flush cuts hold the bytes of its messages, in order.    *)

LEMMA Rounding ==
    ASSUME NEW L \in Nat, NEW M \in Nat \ {0}
    PROVE  LET count == (L + M - 1) \div M IN
           /\ count \in Nat /\ count * M \in Nat /\ L <= count * M
           /\ \A i \in 1..count : /\ (i - 1) * M \in Nat /\ (i - 1) * M < L
                                 /\ i * M = (i - 1) * M + M
<1> DEFINE count == (L + M - 1) \div M
<1>1. count \in Nat /\ count * M >= L /\ count * M < L + M
  OBVIOUS
<1> HIDE DEF count
<1>2. ASSUME NEW i \in 1..count
      PROVE  (i - 1) * M \in Nat /\ (i - 1) * M < L /\ i * M = (i - 1) * M + M
  <2>1. i * M <= count * M
    BY <1>1
  <2>2. i * M = (i - 1) * M + M /\ (i - 1) * M \in Nat /\ count * M \in Nat
    BY <1>1
  <2> QED  BY <1>1, <2>1, <2>2
<1>3. count * M \in Nat
  BY <1>1
<1> QED  BY <1>1, <1>2, <1>3 DEF count

LEMMA Pieces ==
    ASSUME NEW B, NEW s \in Seq(B), NEW M \in Nat \ {0}
    PROVE  LET count == (Len(s) + M - 1) \div M
               c == [i \in 1..count |->
                       SubSeq(s, (i - 1) * M + 1, Lesser(i * M, Len(s)))]
           IN  /\ count \in Nat /\ c \in Seq(Seq(B)) /\ Len(c) = count
               /\ \A i \in 1..count : Len(c[i]) \in 1..M
               /\ FlattenSeq(c) = s
<1> DEFINE L == Len(s)
           count == (L + M - 1) \div M
           c == [i \in 1..count |->
                   SubSeq(s, (i - 1) * M + 1, Lesser(i * M, L))]
           end(i) == Lesser(i * M, L)
<1>1. L \in Nat
  OBVIOUS
<1>2. /\ count \in Nat /\ count * M \in Nat /\ L <= count * M
      /\ \A i \in 1..count : /\ (i - 1) * M \in Nat /\ (i - 1) * M < L
                            /\ i * M = (i - 1) * M + M
  <2> HIDE DEF L
  <2> QED  BY <1>1, Rounding
<1> HIDE DEF count, L
<1>3. \A i \in 1..count : end(i) \in ((i - 1) * M + 1)..((i - 1) * M + M) /\ end(i) <= L
  BY <1>1, <1>2 DEF Lesser
<1> HIDE DEF end
<1>4. ASSUME NEW i \in 1..count
      PROVE  /\ SubSeq(s, (i - 1) * M + 1, end(i)) \in Seq(B)
             /\ Len(SubSeq(s, (i - 1) * M + 1, end(i))) \in 1..M
  <2> DEFINE m == (i - 1) * M + 1
             n == end(i)
  <2>1. m \in Nat \ {0} /\ n \in Nat /\ m <= n /\ n <= L /\ n - m + 1 \in 1..M
    <3>1. PICK x \in Nat : x = (i - 1) * M
      BY <1>2
    <3>2. n \in (x + 1)..(x + M) /\ n <= L /\ m = x + 1
      BY <1>3, <3>1
    <3> QED  BY <3>1, <3>2
  <2> HIDE DEF m, n
  <2>2. \A j \in m..n : s[j] \in B
    BY <1>1, <2>1 DEF L
  <2>3. SubSeq(s, m, n) \in Seq(B) /\ Len(SubSeq(s, m, n)) = n - m + 1
    BY <2>1, <2>2, SubSeqProperties
  <2> QED  BY <2>1, <2>3 DEF m, n
<1>5. c \in Seq(Seq(B)) /\ Len(c) = count /\ \A i \in 1..count : Len(c[i]) \in 1..M
  <2>1. \A i \in 1..count : c[i] \in Seq(B) /\ Len(c[i]) \in 1..M
    BY <1>4 DEF end
  <2>2. c = [i \in 1..count |-> c[i]]
    OBVIOUS
  <2> HIDE DEF c
  <2>3. PICK f : f = [i \in 1..count |-> c[i]]
    OBVIOUS
  <2>4. f \in [1..count -> Seq(B)]
    BY <2>1, <2>3
  <2>5. f \in Seq(Seq(B)) /\ Len(f) = count
    BY <1>2, <2>4
  <2> QED  BY <2>1, <2>2, <2>3, <2>5
<1>6. \A i \in 1..count : c[i] = SubSeq(s, (i - 1) * M + 1, end(i))
  BY DEF end
<1> HIDE DEF c
<1> DEFINE T == {i \in Nat : i <= count =>
                   FlattenSeq(SubSeq(c, 1, i)) = SubSeq(s, 1, end(i))}
<1>7. 0 \in T
  <2>1. end(0) = 0
    BY <1>1 DEF end, Lesser
  <2>2. SubSeq(c, 1, 0) = <<>> /\ SubSeq(s, 1, 0) = <<>>
    BY SubSeqEmpty
  <2> QED  BY <2>1, <2>2, FlatEmpty
<1>8. ASSUME NEW i \in T PROVE i + 1 \in T
  <2> SUFFICES ASSUME i + 1 <= count
               PROVE  FlattenSeq(SubSeq(c, 1, i + 1)) = SubSeq(s, 1, end(i + 1))
    OBVIOUS
  <2>1. i \in Nat /\ i + 1 \in 1..count /\ (i + 1) - 1 = i /\ i \in 0..(count - 1)
    BY <1>2
  <2>2. i * M \in Nat /\ i * M < L /\ end(i) = i * M
    BY <1>1, <1>2, <2>1 DEF end, Lesser
  <2>3. end(i + 1) \in (i * M + 1)..(i * M + M) /\ end(i + 1) <= L
    BY <1>3, <2>1
  <2>4. SubSeq(c, 1, i + 1) = Append(SubSeq(c, 1, i), c[i + 1])
    BY <1>5, <2>1, NextElement
  <2>5. SubSeq(c, 1, i) \in Seq(Seq(B)) /\ c[i + 1] \in Seq(B)
    BY <1>5, <2>1, Cutting
  <2>6. FlattenSeq(SubSeq(c, 1, i + 1)) = FlattenSeq(SubSeq(c, 1, i)) \o c[i + 1]
    BY <2>4, <2>5, FlatAppend
  <2>7. FlattenSeq(SubSeq(c, 1, i)) = SubSeq(s, 1, i * M)
    <3>1. i <= count
      BY <1>2, <2>1
    <3>2. FlattenSeq(SubSeq(c, 1, i)) = SubSeq(s, 1, end(i))
      BY <3>1
    <3> QED  BY <2>2, <3>2
  <2>8. c[i + 1] = SubSeq(s, i * M + 1, end(i + 1))
    BY <1>6, <2>1
  <2>9. SubSeq(s, 1, i * M) \o SubSeq(s, i * M + 1, end(i + 1)) = SubSeq(s, 1, end(i + 1))
    <3>1. PICK x \in Nat, y \in Nat : x = i * M /\ y = end(i + 1)
      <4>1. end(i + 1) \in Int /\ end(i + 1) > i * M
        BY <2>2, <2>3
      <4>2. end(i + 1) \in Nat
        BY <2>2, <4>1
      <4> QED  BY <2>2, <4>2
    <3>2. x < L /\ y >= x + 1 /\ y <= L
      BY <2>2, <2>3, <3>1
    <3>3. 1 \in 1..(Len(s) + 1) /\ x \in (1 - 1)..Len(s) /\ y \in x..Len(s)
      BY <1>1, <3>2 DEF L
    <3>4. SubSeq(s, 1, x) \o SubSeq(s, x + 1, y) = SubSeq(s, 1, y)
      BY <3>3, ConcatAdjacentSubSeq
    <3> QED  BY <3>1, <3>4
  <2> QED  BY <2>6, <2>7, <2>8, <2>9
<1>9. \A i \in Nat : i \in T
  <2>1. T \in SUBSET Nat
    OBVIOUS
  <2> HIDE DEF T
  <2> QED  BY <1>7, <1>8, <2>1, Induction
<1>10. FlattenSeq(SubSeq(c, 1, count)) = SubSeq(s, 1, end(count))
  BY <1>2, <1>9 DEF T
<1>11. end(count) = L
  BY <1>1, <1>2 DEF end, Lesser
<1>12. SubSeq(c, 1, count) = c /\ SubSeq(s, 1, L) = s
  BY <1>5, SubSeqFull DEF L
<1> QED  BY <1>2, <1>5, <1>10, <1>11, <1>12 DEF c, count, L

-----------------------------------------------------------------------------
(* Messages as bytes. *)

Byte == (DOMAIN MsgLen) \X (Nat \ {0})

(* the messages that Flush does not discard, as their bytes *)
Wire == {Bytes(m) : m \in {x \in DOMAIN MsgLen : IsValidPacket(x)}}

(* r begins a message and does not complete it, or is nothing *)
Unfinished(r) ==
    r = <<>> \/ \E x \in Wire : /\ Len(r) < Len(x)
                               /\ \A i \in 1..Len(r) : r[i] = x[i]

LEMMA BytesType ==
    ASSUME NEW m \in DOMAIN MsgLen
    PROVE  /\ MsgLen[m] \in Nat
           /\ Bytes(m) \in Seq(Byte) /\ Len(Bytes(m)) = MsgLen[m]
           /\ \A i \in 1..MsgLen[m] : Bytes(m)[i] = <<m, i>>
<1>1. MsgLen[m] \in Nat
  BY MessageAssumption
<1>2. \A i \in 1..MsgLen[m] : <<m, i>> \in Byte
  BY DEF Byte
<1> QED  BY <1>1, <1>2 DEF Bytes

(* The length of a message is told by bytes of its own.                    *)
LEMMA WireMessages ==
    ASSUME NEW x \in Wire
    PROVE  /\ x \in Seq(Byte) /\ Len(x) \in Nat \ {0}
           /\ \E m \in DOMAIN MsgLen :
                 /\ Len(x) = MsgLen[m] /\ HeaderLen[m] \in Nat
                 /\ HeaderLen[m] <= Len(x)
                 /\ \A i \in 1..Len(x) : x[i] = <<m, i>>
<1>1. PICK m \in DOMAIN MsgLen : x = Bytes(m) /\ MsgLen[m] > 0
  BY DEF Wire, IsValidPacket
<1>2. HeaderLen[m] \in Nat /\ HeaderLen[m] <= MsgLen[m]
  BY <1>1, BytesType, MessageAssumption
<1>3. /\ x \in Seq(Byte) /\ Len(x) = MsgLen[m] /\ Len(x) \in Nat \ {0}
      /\ \A i \in 1..Len(x) : x[i] = <<m, i>>
  BY <1>1, BytesType
<1> QED  BY <1>2, <1>3

LEMMA SkipType ==
    ASSUME NEW S, NEW s \in Seq(S), NEW k \in Nat
    PROVE  /\ Skip(s, k) \in Seq(S)
           /\ k <= Len(s) => /\ Len(Skip(s, k)) = Len(s) - k
                             /\ \A i \in 1..(Len(s) - k) : Skip(s, k)[i] = s[k + i]
<1>1. CASE k <= Len(s)
  BY <1>1, Cutting DEF Skip
<1>2. CASE ~(k <= Len(s))
  <2>1. Skip(s, k) = <<>>
    BY <1>2, SubSeqEmpty, LenProperties DEF Skip
  <2> QED  BY <1>2, <2>1
<1> QED  BY <1>1, <1>2

LEMMA FirstNType ==
    ASSUME NEW S, NEW s \in Seq(S), NEW k \in 0..Len(s)
    PROVE  /\ FirstN(s, k) \in Seq(S) /\ Len(FirstN(s, k)) = k
           /\ \A i \in 1..k : FirstN(s, k)[i] = s[i]
BY Cutting DEF FirstN

(* One pass of the loop keeps its type.                                    *)
Passes == [pos : Nat, whole : Seq(Seq(Byte))]

LEMMA PassType ==
    ASSUME NEW buf \in Seq(Byte), NEW at \in Passes
    PROVE  AfterPass(buf, at) \in Passes
<1> DEFINE left == Skip(buf, at.pos)
           length == PacketLength(left)
<1>1. at.pos \in Nat /\ at.whole \in Seq(Seq(Byte))
  BY DEF Passes
<1>2. left \in Seq(Byte)
  BY <1>1, SkipType
<1> HIDE DEF left
<1>3. CASE left = <<>>
  BY <1>3 DEF AfterPass, left
<1>4. CASE left # <<>>
  <2>1. length \in Int
    <3>1. left[1] \in Byte
      BY <1>2, <1>4
    <3>2. left[1][1] \in DOMAIN MsgLen
      BY <3>1 DEF Byte
    <3> QED  BY <3>2, MessageAssumption DEF PacketLength
  <2> HIDE DEF length
  <2>2. CASE length > 0 /\ length <= Len(left)
    <3>1. FirstN(left, length) \in Seq(Byte)
      BY <1>2, <2>1, <2>2, FirstNType
    <3>2. Append(at.whole, FirstN(left, length)) \in Seq(Seq(Byte))
      BY <1>1, <3>1, AppendProperties
    <3>3. at.pos + length \in Nat
      BY <1>1, <2>1, <2>2
    <3>4. AfterPass(buf, at) = [pos |-> at.pos + length,
                                whole |-> Append(at.whole, FirstN(left, length))]
      BY <1>4, <2>2 DEF AfterPass, left, length
    <3> QED  BY <3>2, <3>3, <3>4 DEF Passes
  <2>3. CASE ~(length > 0 /\ length <= Len(left)) /\ length >= 0
    BY <1>4, <2>3 DEF AfterPass, left, length
  <2>4. CASE ~(length > 0 /\ length <= Len(left)) /\ ~(length >= 0)
    <3>1. AfterPass(buf, at) = [at EXCEPT !.pos = @ + 1]
      BY <1>4, <2>4 DEF AfterPass, left, length
    <3>2. at.pos + 1 \in Nat
      BY <1>1
    <3> QED  BY <3>1, <3>2 DEF Passes
  <2> QED  BY <2>2, <2>3, <2>4
<1> QED  BY <1>3, <1>4

(* The passes of the loop over buf, one after the other.                   *)
LoopOver(buf, h) ==
    /\ h[0] = [pos |-> 0, whole |-> <<>>]
    /\ \A n \in Nat : h[n + 1] = AfterPass(buf, h[n])

LEMMA ReassembleLoop ==
    ASSUME NEW buf \in Seq(Byte)
    PROVE  \E h : /\ LoopOver(buf, h)
                  /\ Reassemble(buf) = [whole |-> h[Len(buf)].whole,
                                        rest |-> Skip(buf, h[Len(buf)].pos)]
<1> DEFINE start == [pos |-> 0, whole |-> <<>>]
           F(g) == [n \in Nat |-> IF n = 0 THEN start ELSE AfterPass(buf, g[n - 1])]
           h == CHOOSE g : g = F(g)
           G == [p \in Passes \X Nat |-> AfterPass(buf, p[1])]
<1>1. start \in Passes /\ G \in [Passes \X Nat -> Passes]
  BY PassType DEF Passes
<1>2. Reassemble(buf) = [whole |-> h[Len(buf)].whole, rest |-> Skip(buf, h[Len(buf)].pos)]
  BY DEF Reassemble
<1>3. PICK f : Iterates(f, Passes, start, G)
  <2> HIDE DEF start, G
  <2> QED  BY <1>1, Recursion
<1>4. /\ f \in [Nat -> Passes] /\ f[0] = start
      /\ \A n \in Nat : f[n + 1] = AfterPass(buf, f[n])
  <2>1. f \in [Nat -> Passes] /\ f[0] = start
    BY <1>3 DEF Iterates
  <2>2. ASSUME NEW n \in Nat PROVE f[n + 1] = AfterPass(buf, f[n])
    <3>1. f[n + 1] = G[<<f[n], n>>] /\ <<f[n], n>> \in Passes \X Nat
      BY <1>3 DEF Iterates
    <3> QED  BY <3>1
  <2> QED  BY <2>1, <2>2
<1> HIDE DEF start
<1>5. f = F(f)
  <2> SUFFICES ASSUME NEW n \in Nat
               PROVE  f[n] = IF n = 0 THEN start ELSE AfterPass(buf, f[n - 1])
    BY <1>4
  <2>1. CASE n # 0
    <3>1. n - 1 \in Nat /\ (n - 1) + 1 = n
      BY <2>1
    <3> QED  BY <1>4, <2>1, <3>1
  <2> QED  BY <1>4, <2>1
<1>6. h = F(h)
  <2> HIDE DEF F
  <2> QED  BY <1>5
<1> HIDE DEF h
<1>7. h[0] = start
  BY <1>6
<1>8. ASSUME NEW n \in Nat PROVE h[n + 1] = AfterPass(buf, h[n])
  <2>1. n + 1 \in Nat /\ n + 1 # 0 /\ (n + 1) - 1 = n
    OBVIOUS
  <2> QED  BY <1>6, <2>1
<1>9. LoopOver(buf, h)
  BY <1>7, <1>8 DEF LoopOver, start
<1> QED  BY <1>2, <1>9

(* A pass over a whole message takes it out.                               *)
LEMMA PassWhole ==
    ASSUME NEW buf \in Seq(Byte), NEW pos \in Nat, NEW whole \in Seq(Seq(Byte)),
           NEW x \in Wire, pos + Len(x) <= Len(buf),
           \A i \in 1..Len(x) : buf[pos + i] = x[i]
    PROVE  AfterPass(buf, [pos |-> pos, whole |-> whole])
              = [pos |-> pos + Len(x), whole |-> Append(whole, x)]
<1> DEFINE left == Skip(buf, pos)
<1>1. PICK m \in DOMAIN MsgLen :
        /\ Len(x) = MsgLen[m] /\ HeaderLen[m] \in Nat /\ HeaderLen[m] <= Len(x)
        /\ \A i \in 1..Len(x) : x[i] = <<m, i>>
  BY WireMessages
<1>2. x \in Seq(Byte) /\ Len(x) \in Nat \ {0} /\ Len(buf) \in Nat
  BY WireMessages, LenProperties
<1>3. /\ left \in Seq(Byte) /\ Len(left) = Len(buf) - pos
      /\ \A i \in 1..(Len(buf) - pos) : left[i] = buf[pos + i]
  <2>1. pos <= Len(buf)
    BY <1>2
  <2> QED  BY <2>1, SkipType
<1> HIDE DEF left
<1>4. Len(left) >= Len(x) /\ left # <<>>
  BY <1>2, <1>3
<1>5. \A i \in 1..Len(x) : left[i] = x[i]
  BY <1>2, <1>3
<1>6. PacketLength(left) = Len(x)
  <2>1. left[1] = <<m, 1>>
    <3>1. 1 \in 1..Len(x)
      BY <1>2
    <3> QED  BY <1>1, <1>5, <3>1
  <2>2. ~(Len(left) < HeaderLen[m])
    BY <1>1, <1>2, <1>3, <1>4
  <2> QED  BY <1>1, <2>1, <2>2 DEF PacketLength
<1>7. FirstN(left, Len(x)) = x
  <2>1. /\ FirstN(left, Len(x)) \in Seq(Byte) /\ Len(FirstN(left, Len(x))) = Len(x)
        /\ \A i \in 1..Len(x) : FirstN(left, Len(x))[i] = left[i]
    <3>1. Len(x) \in 0..Len(left)
      BY <1>2, <1>3, <1>4
    <3> QED  BY <1>3, <3>1, FirstNType
  <2>2. \A i \in 1..Len(x) : FirstN(left, Len(x))[i] = x[i]
    BY <1>5, <2>1
  <2> QED  BY <1>2, <2>1, <2>2, SeqEqual
<1>8. Len(x) > 0 /\ Len(x) <= Len(left)
  BY <1>2, <1>3, <1>4
<1> QED  BY <1>4, <1>6, <1>7, <1>8 DEF AfterPass, left

(* At an unfinished message, or at the end of the bytes, the loop ends.    *)
LEMMA PassUnfinished ==
    ASSUME NEW buf \in Seq(Byte), NEW at \in Passes, Unfinished(Skip(buf, at.pos))
    PROVE  AfterPass(buf, at) = at
<1> DEFINE left == Skip(buf, at.pos)
<1>1. left \in Seq(Byte) /\ Len(left) \in Nat
  BY SkipType, LenProperties DEF Passes
<1> HIDE DEF left
<1>2. CASE left = <<>>
  BY <1>2 DEF AfterPass, left
<1>3. CASE left # <<>>
  <2>1. PICK x \in Wire : /\ Len(left) < Len(x)
                          /\ \A i \in 1..Len(left) : left[i] = x[i]
    BY <1>3 DEF Unfinished, left
  <2>2. PICK m \in DOMAIN MsgLen :
          /\ Len(x) = MsgLen[m] /\ HeaderLen[m] \in Nat /\ HeaderLen[m] <= Len(x)
          /\ \A i \in 1..Len(x) : x[i] = <<m, i>>
    BY WireMessages
  <2>3. Len(x) \in Nat \ {0}
    BY WireMessages
  <2>4. left[1] = <<m, 1>>
    <3>1. 1 \in 1..Len(left) /\ 1 \in 1..Len(x)
      BY <1>1, <1>3, <2>3
    <3> QED  BY <2>1, <2>2, <3>1
  <2>5. PacketLength(left) = 0 \/ PacketLength(left) = Len(x)
    BY <2>2, <2>4 DEF PacketLength
  <2>6. /\ ~(PacketLength(left) > 0 /\ PacketLength(left) <= Len(left))
        /\ PacketLength(left) >= 0
    BY <1>1, <2>1, <2>3, <2>5
  <2> QED  BY <1>3, <2>6 DEF AfterPass, left
<1> QED  BY <1>2, <1>3

(* Where an element of a joined sequence begins, and what is there.        *)
LEMMA FlatAt ==
    ASSUME NEW B, NEW s \in Seq(Seq(B)), NEW i \in 0..(Len(s) - 1)
    PROVE  LET start == Len(FlattenSeq(SubSeq(s, 1, i))) IN
           /\ start \in Nat /\ s[i + 1] \in Seq(B)
           /\ Len(FlattenSeq(SubSeq(s, 1, i + 1))) = start + Len(s[i + 1])
           /\ start + Len(s[i + 1]) <= Len(FlattenSeq(s))
           /\ \A j \in 1..Len(s[i + 1]) : FlattenSeq(s)[start + j] = s[i + 1][j]
<1> DEFINE front == SubSeq(s, 1, i)
           back == SubSeq(s, i + 2, Len(s))
           a == FlattenSeq(front)
           b == s[i + 1]
           c == FlattenSeq(back)
<1>1. Len(s) \in Nat /\ i \in Nat /\ i \in 0..Len(s) /\ i + 1 \in 0..Len(s) /\ i + 1 \in 1..Len(s)
  BY LenProperties
<1>2. front \in Seq(Seq(B)) /\ b \in Seq(B)
  BY <1>1, Cutting, ElementOfSeq
<1>3. /\ SubSeq(s, 1, i + 1) \in Seq(Seq(B)) /\ back \in Seq(Seq(B))
      /\ s = SubSeq(s, 1, i + 1) \o back
  <2>1. PICK k : k = i + 1
    OBVIOUS
  <2>2. k \in 0..Len(s) /\ k + 1 = i + 2
    BY <1>1, <2>1
  <2>3. /\ SubSeq(s, 1, k) \in Seq(Seq(B)) /\ SubSeq(s, k + 1, Len(s)) \in Seq(Seq(B))
        /\ s = SubSeq(s, 1, k) \o SubSeq(s, k + 1, Len(s))
    BY ONLY s \in Seq(Seq(B)), <2>2, Cutting
  <2> QED  BY <2>1, <2>2, <2>3
<1>4. SubSeq(s, 1, i + 1) = Append(front, b)
  BY NextElement
<1> HIDE DEF front, back, b
<1>5. FlattenSeq(SubSeq(s, 1, i + 1)) = a \o b
  BY <1>2, <1>4, FlatAppend
<1>6. a \in Seq(B) /\ c \in Seq(B)
  BY <1>2, <1>3, FlatType
<1>7. FlattenSeq(s) = FlattenSeq(SubSeq(s, 1, i + 1)) \o c
  BY <1>3, FlatConcat
<1>8. FlattenSeq(s) = (a \o b) \o c
  BY <1>5, <1>7
<1> HIDE DEF a, c
<1>9. /\ Len(a) \in Nat /\ Len(b) \in Nat /\ Len(c) \in Nat
      /\ a \o b \in Seq(B) /\ Len(a \o b) = Len(a) + Len(b)
      /\ \A j \in 1..(Len(a) + Len(b)) :
            (a \o b)[j] = IF j <= Len(a) THEN a[j] ELSE b[j - Len(a)]
  BY <1>2, <1>6, ConcatProperties, LenProperties
<1>10. PICK d : d = a \o b
  OBVIOUS
<1>11. /\ Len(d \o c) = Len(d) + Len(c)
       /\ \A j \in 1..(Len(d) + Len(c)) :
             (d \o c)[j] = IF j <= Len(d) THEN d[j] ELSE c[j - Len(d)]
  BY <1>6, <1>9, <1>10, ConcatProperties
<1>12. Len(FlattenSeq(s)) = Len(a) + Len(b) + Len(c)
  BY <1>8, <1>9, <1>10, <1>11
<1>13. ASSUME NEW j \in 1..Len(b) PROVE FlattenSeq(s)[Len(a) + j] = b[j]
  <2>1. /\ Len(a) + j \in 1..(Len(a) + Len(b)) /\ ~(Len(a) + j <= Len(a))
        /\ (Len(a) + j) - Len(a) = j
    BY <1>9
  <2>2. d[Len(a) + j] = b[j]
    BY <1>9, <1>10, <2>1
  <2>3. Len(a) + j \in 1..(Len(d) + Len(c)) /\ Len(a) + j <= Len(d)
    BY <1>9, <1>10, <2>1
  <2> QED  BY <1>8, <1>10, <1>11, <2>2, <2>3
<1>14. Len(a) \in Nat /\ Len(a) + Len(b) <= Len(FlattenSeq(s))
  BY <1>9, <1>12
<1>15. Len(FlattenSeq(SubSeq(s, 1, i + 1))) = Len(a) + Len(b)
  BY <1>5, <1>9
<1> QED  BY <1>2, <1>13, <1>14, <1>15 DEF a, b, front

(***************************************************************************)
(* The bytes of some whole messages and of an unfinished one are taken     *)
(* apart into just these.                                                  *)
(***************************************************************************)
LEMMA Reassembles ==
    ASSUME NEW q \in Seq(Wire), NEW r \in Seq(Byte), Unfinished(r)
    PROVE  Reassemble(FlattenSeq(q) \o r) = [whole |-> q, rest |-> r]
<1> DEFINE text == FlattenSeq(q)
           buf == text \o r
           n == Len(q)
           off(i) == Len(FlattenSeq(SubSeq(q, 1, i)))
<1>1. q \in Seq(Seq(Byte)) /\ n \in Nat
  <2>1. Wire \subseteq Seq(Byte)
    BY WireMessages
  <2> QED  BY <2>1, SeqMonotonic, LenProperties
<1>2. text \in Seq(Byte) /\ Len(text) \in Nat /\ Len(r) \in Nat
  BY <1>1, FlatType, LenProperties
<1>3. off(0) = 0 /\ SubSeq(q, 1, 0) = <<>>
  <2>1. SubSeq(q, 1, 0) = <<>>
    BY SubSeqEmpty
  <2>2. FlattenSeq(SubSeq(q, 1, 0)) = <<>>
    BY ONLY <2>1, FlatEmpty
  <2>3. PICK z : z = FlattenSeq(SubSeq(q, 1, 0))
    OBVIOUS
  <2>4. Len(z) = 0
    BY <2>2, <2>3
  <2> QED  BY <2>1, <2>3, <2>4
<1>4. ASSUME NEW i \in 0..(n - 1)
      PROVE  /\ off(i) \in Nat /\ off(i + 1) = off(i) + Len(q[i + 1])
             /\ off(i) + Len(q[i + 1]) <= Len(text)
             /\ \A j \in 1..Len(q[i + 1]) : text[off(i) + j] = q[i + 1][j]
  BY <1>1, FlatAt
<1>5. off(n) = Len(text) /\ SubSeq(q, 1, n) = q
  BY <1>1, SubSeqFull
<1> HIDE DEF text, n, off
<1>6. /\ buf \in Seq(Byte) /\ Len(buf) = Len(text) + Len(r)
      /\ \A j \in 1..(Len(text) + Len(r)) :
            buf[j] = IF j <= Len(text) THEN text[j] ELSE r[j - Len(text)]
  BY <1>2, ConcatProperties
<1> HIDE DEF buf
<1>7. PICK h : /\ LoopOver(buf, h)
               /\ Reassemble(buf) = [whole |-> h[Len(buf)].whole,
                                     rest |-> Skip(buf, h[Len(buf)].pos)]
  BY <1>6, ReassembleLoop
<1> DEFINE T == {i \in Nat : i <= n =>
                   /\ h[i] = [pos |-> off(i), whole |-> SubSeq(q, 1, i)]
                   /\ off(i) \in Nat /\ i <= off(i)}
<1>8. 0 \in T
  <2>1. h[0] = [pos |-> off(0), whole |-> SubSeq(q, 1, 0)]
    BY <1>3, <1>7 DEF LoopOver
  <2>2. off(0) \in Nat /\ 0 <= off(0)
    BY <1>3
  <2> QED  BY <2>1, <2>2
<1>9. ASSUME NEW i \in T PROVE i + 1 \in T
  <2> SUFFICES ASSUME i + 1 <= n
               PROVE  /\ h[i + 1] = [pos |-> off(i + 1), whole |-> SubSeq(q, 1, i + 1)]
                      /\ off(i + 1) \in Nat /\ i + 1 <= off(i + 1)
    OBVIOUS
  <2>1. i \in Nat /\ i \in 0..(n - 1) /\ i \in 0..n /\ i + 1 \in 1..n
    BY <1>1
  <2>2. /\ h[i] = [pos |-> off(i), whole |-> SubSeq(q, 1, i)]
        /\ off(i) \in Nat /\ i <= off(i)
    BY <1>1, <2>1
  <2>3. /\ off(i + 1) = off(i) + Len(q[i + 1])
        /\ off(i) + Len(q[i + 1]) <= Len(text)
        /\ \A j \in 1..Len(q[i + 1]) : text[off(i) + j] = q[i + 1][j]
    BY <1>4, <2>1
  <2>4. q[i + 1] \in Wire /\ Len(q[i + 1]) \in Nat \ {0}
    BY <2>1, WireMessages DEF n
  <2>5. SubSeq(q, 1, i) \in Seq(Seq(Byte))
    BY <1>1, <2>1, Cutting DEF n
  <2>6. off(i) + Len(q[i + 1]) <= Len(buf)
    BY <1>2, <1>6, <2>2, <2>3, <2>4
  <2>7. ASSUME NEW j \in 1..Len(q[i + 1]) PROVE buf[off(i) + j] = q[i + 1][j]
    <3>1. /\ off(i) + j \in 1..(Len(text) + Len(r)) /\ off(i) + j <= Len(text)
      BY <1>2, <2>2, <2>3, <2>4
    <3> QED  BY <1>6, <2>3, <3>1
  <2>8. AfterPass(buf, h[i]) = [pos |-> off(i + 1),
                                whole |-> Append(SubSeq(q, 1, i), q[i + 1])]
    <3>1. PICK x, w, p : x = q[i + 1] /\ w = SubSeq(q, 1, i) /\ p = off(i)
      OBVIOUS
    <3>2. /\ p \in Nat /\ w \in Seq(Seq(Byte)) /\ x \in Wire
          /\ p + Len(x) <= Len(buf) /\ \A j \in 1..Len(x) : buf[p + j] = x[j]
      BY <2>2, <2>4, <2>5, <2>6, <2>7, <3>1
    <3>3. AfterPass(buf, [pos |-> p, whole |-> w])
             = [pos |-> p + Len(x), whole |-> Append(w, x)]
      BY ONLY <1>6, <3>2, PassWhole
    <3> QED  BY <2>2, <2>3, <3>1, <3>3
  <2>9. SubSeq(q, 1, i + 1) = Append(SubSeq(q, 1, i), q[i + 1])
    BY <2>1, NextElement DEF n
  <2>10. h[i + 1] = AfterPass(buf, h[i])
    BY <1>7, <2>1 DEF LoopOver
  <2>11. off(i + 1) \in Nat /\ i + 1 <= off(i + 1)
    BY <2>1, <2>2, <2>3, <2>4
  <2> QED  BY <2>8, <2>9, <2>10, <2>11
<1>10. T \in SUBSET Nat
  OBVIOUS
<1>11. \A i \in Nat : i \in T
  <2> HIDE DEF T
  <2> QED  BY <1>8, <1>9, <1>10, Induction
<1>12. h[n] = [pos |-> Len(text), whole |-> q] /\ n <= Len(text)
  <2>1. n \in T /\ n <= n
    BY <1>1, <1>11
  <2> QED  BY <1>5, <2>1
<1>13. Skip(buf, Len(text)) = r
  <2>1. Len(text) <= Len(buf) /\ Len(buf) - Len(text) = Len(r)
    BY <1>2, <1>6
  <2>2. /\ Skip(buf, Len(text)) \in Seq(Byte) /\ Len(Skip(buf, Len(text))) = Len(r)
        /\ \A j \in 1..Len(r) : Skip(buf, Len(text))[j] = buf[Len(text) + j]
    <3>1. /\ Skip(buf, Len(text)) \in Seq(Byte)
          /\ Len(Skip(buf, Len(text))) = Len(buf) - Len(text)
          /\ \A j \in 1..(Len(buf) - Len(text)) :
                Skip(buf, Len(text))[j] = buf[Len(text) + j]
      BY <1>2, <1>6, <2>1, SkipType
    <3> QED  BY <2>1, <3>1
  <2>3. ASSUME NEW j \in 1..Len(r) PROVE buf[Len(text) + j] = r[j]
    <3>1. /\ Len(text) + j \in 1..(Len(text) + Len(r)) /\ ~(Len(text) + j <= Len(text))
          /\ (Len(text) + j) - Len(text) = j
      BY <1>2
    <3> QED  BY <1>6, <3>1
  <2> QED  BY <2>2, <2>3, SeqEqual
<1>14. AfterPass(buf, h[n]) = h[n]
  <2>1. h[n] \in Passes /\ h[n].pos = Len(text)
    BY <1>1, <1>2, <1>12 DEF Passes
  <2> QED  BY <1>6, <1>13, <2>1, PassUnfinished
<1> DEFINE U == {k \in Nat : h[n + k] = h[n]}
<1>15. 0 \in U
  BY <1>1
<1>16. ASSUME NEW k \in U PROVE k + 1 \in U
  <2>1. k \in Nat /\ h[n + k] = h[n] /\ n + k \in Nat /\ n + (k + 1) = (n + k) + 1
    BY <1>1
  <2>2. h[n + (k + 1)] = AfterPass(buf, h[n + k])
    BY <1>7, <2>1 DEF LoopOver
  <2> QED  BY <1>14, <2>1, <2>2
<1>17. U \in SUBSET Nat
  OBVIOUS
<1>18. \A k \in Nat : k \in U
  <2> HIDE DEF U
  <2> QED  BY <1>15, <1>16, <1>17, Induction
<1>19. h[Len(buf)] = h[n]
  <2>1. Len(buf) - n \in Nat /\ n + (Len(buf) - n) = Len(buf)
    BY <1>1, <1>2, <1>6, <1>12
  <2>2. Len(buf) - n \in U
    BY <1>18, <2>1
  <2> QED  BY <2>1, <2>2
<1>20. Reassemble(buf) = [whole |-> q, rest |-> r]
  BY <1>7, <1>12, <1>13, <1>19
<1> QED  BY <1>20 DEF buf, text

LEMMA CancelLeft ==
    ASSUME NEW B, NEW a \in Seq(B), NEW b \in Seq(B), NEW c \in Seq(B), a \o b = a \o c
    PROVE  b = c
<1>1. /\ Len(a) \in Nat /\ Len(b) \in Nat /\ Len(c) \in Nat
      /\ Len(a \o b) = Len(a) + Len(b) /\ Len(a \o c) = Len(a) + Len(c)
  BY ConcatProperties, LenProperties
<1>2. Len(b) = Len(c)
  BY <1>1
<1>3. ASSUME NEW i \in 1..Len(b) PROVE b[i] = c[i]
  <2>1. /\ Len(a) + i \in 1..(Len(a) + Len(b)) /\ ~(Len(a) + i <= Len(a))
        /\ (Len(a) + i) - Len(a) = i
    BY <1>1
  <2>2. (a \o b)[Len(a) + i] = b[i]
    BY <2>1, ConcatProperties
  <2>3. (a \o c)[Len(a) + i] = c[i]
    BY <1>2, <2>1, ConcatProperties
  <2> QED  BY <2>2, <2>3
<1> QED  BY <1>2, <1>3, SeqEqual

(* r is nothing, or a part of the first of the messages z                  *)
Begins(r, z) ==
    r = <<>> \/ /\ z # <<>> /\ Len(r) < Len(z[1])
                /\ \A i \in 1..Len(r) : r[i] = z[1][i]

(* The first bytes of some messages are whole messages and a part of the   *)
(* next.                                                                   *)
LEMMA Locate ==
    ASSUME NEW z \in Seq(Wire), NEW x \in Seq(Byte), NEW y \in Seq(Byte),
           x \o y = FlattenSeq(z)
    PROVE  \E q \in Seq(Wire), w \in Seq(Wire), t \in Seq(Byte) :
              z = q \o w /\ x = FlattenSeq(q) \o t /\ Begins(t, w)
<1> DEFINE n == Len(z)
           off(i) == Len(FlattenSeq(SubSeq(z, 1, i)))
           text == FlattenSeq(z)
<1>1. z \in Seq(Seq(Byte)) /\ n \in Nat
  <2>1. Wire \subseteq Seq(Byte)
    BY WireMessages
  <2> QED  BY <2>1, SeqMonotonic, LenProperties
<1>2. /\ Len(x) \in Nat /\ Len(y) \in Nat /\ Len(text) = Len(x) + Len(y)
      /\ \A i \in 1..Len(x) : text[i] = x[i]
  BY ConcatProperties, LenProperties
<1>3. off(0) = 0
  <2>1. SubSeq(z, 1, 0) = <<>>
    BY SubSeqEmpty
  <2>2. FlattenSeq(SubSeq(z, 1, 0)) = <<>>
    BY ONLY <2>1, FlatEmpty
  <2>3. PICK u : u = FlattenSeq(SubSeq(z, 1, 0))
    OBVIOUS
  <2>4. Len(u) = 0
    BY <2>2, <2>3
  <2> QED  BY <2>3, <2>4
<1>4. ASSUME NEW i \in 0..(n - 1)
      PROVE  /\ off(i) \in Nat /\ off(i + 1) = off(i) + Len(z[i + 1])
             /\ off(i) + Len(z[i + 1]) <= Len(text)
             /\ \A j \in 1..Len(z[i + 1]) : text[off(i) + j] = z[i + 1][j]
  BY <1>1, FlatAt
<1>5. SubSeq(z, 1, n) = z /\ off(n) = Len(text)
  BY <1>1, SubSeqFull
<1>6. CASE off(n) <= Len(x)
  <2>1. Len(y) = 0
    BY <1>2, <1>5, <1>6
  <2>2. y = <<>>
    BY <2>1
  <2>3. x = text /\ x = text \o <<>>
    BY <2>2, ConcatEmptySeq
  <2>4. z = z \o <<>> /\ <<>> \in Seq(Wire) /\ <<>> \in Seq(Byte)
    BY ConcatEmptySeq
  <2> QED  BY <2>3, <2>4 DEF Begins
<1>7. ASSUME NEW k \in 0..(n - 1), off(k) <= Len(x), Len(x) < off(k + 1)
      PROVE  \E q \in Seq(Wire), w \in Seq(Wire), t \in Seq(Byte) :
                z = q \o w /\ x = FlattenSeq(q) \o t /\ Begins(t, w)
  <2>1. k \in 0..Len(z) /\ k \in Nat
    BY <1>1
  <2>2. PICK q, w : q = SubSeq(z, 1, k) /\ w = SubSeq(z, k + 1, Len(z))
    OBVIOUS
  <2>3. /\ q \in Seq(Wire) /\ w \in Seq(Wire) /\ z = q \o w /\ Len(w) = Len(z) - k
        /\ \A i \in 1..(Len(z) - k) : w[i] = z[k + i]
    BY <2>1, <2>2, Cutting
  <2>4. w # <<>> /\ w[1] = z[k + 1]
    BY <1>1, <2>1, <2>3
  <2>5. q \in Seq(Seq(Byte)) /\ w \in Seq(Seq(Byte))
    <3>1. Wire \subseteq Seq(Byte)
      BY WireMessages
    <3> QED  BY <2>3, <3>1, SeqMonotonic
  <2>6. PICK a, b : a = FlattenSeq(q) /\ b = FlattenSeq(w)
    OBVIOUS
  <2>7. a \in Seq(Byte) /\ b \in Seq(Byte) /\ text = a \o b
    BY <2>3, <2>5, <2>6, FlatType, FlatConcat
  <2>8. PICK p \in Nat : p = Len(a) /\ p = off(k)
    BY <2>2, <2>6, <2>7, LenProperties
  <2>9. \A i \in 1..p : text[i] = a[i]
    <3>1. Len(b) \in Nat /\ \A i \in 1..(Len(a) + Len(b)) :
             (a \o b)[i] = IF i <= Len(a) THEN a[i] ELSE b[i - Len(a)]
      BY <2>7, ConcatProperties, LenProperties
    <3>2. \A i \in 1..p : i \in 1..(Len(a) + Len(b)) /\ i <= Len(a)
      BY ONLY <2>8, <3>1
    <3> QED  BY <2>7, <3>1, <3>2
  <2>10. PICK t : t = SubSeq(x, p + 1, Len(x))
    OBVIOUS
  <2>11. /\ p \in 0..Len(x) /\ t \in Seq(Byte) /\ Len(t) = Len(x) - p
         /\ \A i \in 1..(Len(x) - p) : t[i] = x[p + i]
         /\ SubSeq(x, 1, p) \in Seq(Byte) /\ Len(SubSeq(x, 1, p)) = p
         /\ \A i \in 1..p : SubSeq(x, 1, p)[i] = x[i]
         /\ x = SubSeq(x, 1, p) \o t
    <3>1. p \in 0..Len(x)
      BY <1>2, <1>7, <2>8
    <3> QED  BY <2>10, <3>1, Cutting
  <2>12. SubSeq(x, 1, p) = a
    <3>1. \A i \in 1..p : SubSeq(x, 1, p)[i] = a[i]
      BY <1>2, <2>9, <2>11
    <3> QED  BY <2>7, <2>8, <2>11, <3>1, SeqEqual
  <2>13. Len(t) < Len(z[k + 1]) /\ \A i \in 1..Len(t) : t[i] = z[k + 1][i]
    <3>1. z[k + 1] \in Seq(Byte) /\ Len(z[k + 1]) \in Nat
      BY <1>1, <2>1, ElementOfSeq, LenProperties
    <3>2. /\ off(k + 1) = p + Len(z[k + 1])
          /\ \A j \in 1..Len(z[k + 1]) : text[p + j] = z[k + 1][j]
      BY <1>4, <2>8
    <3>3. PICK u \in Nat : u = off(k + 1)
      <4>1. PICK v \in Nat : v = Len(z[k + 1])
        BY <3>1
      <4>2. p + v \in Nat /\ off(k + 1) = p + v
        BY <3>2, <4>1
      <4> QED  BY <4>2
    <3>4. Len(x) < u /\ u = p + Len(z[k + 1])
      BY <1>7, <3>2, <3>3
    <3>5. Len(t) \in Nat /\ Len(t) < Len(z[k + 1])
      BY <1>2, <2>11, <3>1, <3>4
    <3>6. ASSUME NEW i \in 1..Len(t) PROVE t[i] = z[k + 1][i]
      <4>1. i \in 1..(Len(x) - p) /\ p + i \in 1..Len(x) /\ i \in 1..Len(z[k + 1])
        BY <1>2, <2>11, <3>1, <3>5
      <4>2. t[i] = x[p + i] /\ x[p + i] = text[p + i] /\ text[p + i] = z[k + 1][i]
        BY <1>2, <2>11, <3>2, <4>1
      <4> QED  BY <4>2
    <3> QED  BY <3>5, <3>6
  <2>14. Begins(t, w)
    BY <2>4, <2>13 DEF Begins
  <2>15. x = FlattenSeq(q) \o t
    BY <2>6, <2>11, <2>12
  <2> QED  BY <2>3, <2>11, <2>14, <2>15
<1> DEFINE T == {i \in Nat : i <= n =>
                   \/ off(i) <= Len(x)
                   \/ \E k \in 0..(n - 1) : off(k) <= Len(x) /\ Len(x) < off(k + 1)}
<1> HIDE DEF n, text
<1>8. 0 \in T
  BY <1>2, <1>3
<1>9. ASSUME NEW i \in T PROVE i + 1 \in T
  <2> SUFFICES ASSUME i + 1 <= n, ~(off(i + 1) <= Len(x))
               PROVE  \E k \in 0..(n - 1) : off(k) <= Len(x) /\ Len(x) < off(k + 1)
    OBVIOUS
  <2>1. i \in Nat /\ i <= n /\ i \in 0..(n - 1)
    BY <1>1
  <2>2. CASE off(i) <= Len(x)
    <3>1. off(i) \in Nat /\ off(i + 1) = off(i) + Len(z[i + 1]) /\ Len(z[i + 1]) \in Nat
      <4>1. i + 1 \in 1..Len(z)
        BY <2>1 DEF n
      <4>2. z[i + 1] \in Seq(Byte)
        BY <1>1, <4>1, ElementOfSeq
      <4>3. Len(z[i + 1]) \in Nat
        BY <4>2, LenProperties
      <4> QED  BY <1>4, <2>1, <4>3
    <3>2. Len(x) < off(i + 1)
      <4>1. off(i + 1) \in Nat
        BY <3>1
      <4> QED  BY <1>2, <4>1
    <3> QED  BY <2>1, <2>2, <3>2
  <2>3. CASE ~(off(i) <= Len(x))
    BY <2>1, <2>3
  <2> QED  BY <2>2, <2>3
<1>10. \A i \in Nat : i \in T
  <2>1. T \in SUBSET Nat
    OBVIOUS
  <2> HIDE DEF T
  <2> QED  BY <1>8, <1>9, <2>1, Induction
<1>11. \/ off(n) <= Len(x)
       \/ \E k \in 0..(n - 1) : off(k) <= Len(x) /\ Len(x) < off(k + 1)
  <2>1. n \in T /\ n <= n
    BY <1>1, <1>10
  <2> QED  BY <2>1
<1> QED  BY <1>6, <1>7, <1>11

-----------------------------------------------------------------------------
(* The receiver's place in the stream.                                     *)

(* the bytes x of the stream of messages v are those of the messages q and *)
(* the beginning r of the message after them                               *)
Parsed(v, q, r, x) ==
    /\ q \in Seq(Wire) /\ r \in Seq(Byte)
    /\ x = FlattenSeq(q) \o r
    /\ \E z \in Seq(Wire) : v = q \o z /\ Begins(r, z)

LEMMA BeginsUnfinished ==
    ASSUME NEW r \in Seq(Byte), NEW z \in Seq(Wire), Begins(r, z)
    PROVE  Unfinished(r)
<1>1. CASE r = <<>>
  BY <1>1 DEF Unfinished
<1>2. CASE r # <<>>
  <2>1. z # <<>> /\ Len(r) < Len(z[1]) /\ \A i \in 1..Len(r) : r[i] = z[1][i]
    BY <1>2 DEF Begins
  <2>2. 1 \in 1..Len(z)
    BY <2>1
  <2>3. z[1] \in Wire
    BY <2>2, ElementOfSeq
  <2> QED  BY <2>1, <2>3 DEF Unfinished
<1> QED  BY <1>1, <1>2

LEMMA WireBytes ==
    ASSUME NEW q \in Seq(Wire)
    PROVE  q \in Seq(Seq(Byte)) /\ FlattenSeq(q) \in Seq(Byte)
<1>1. Wire \subseteq Seq(Byte)
  BY WireMessages
<1>2. q \in Seq(Seq(Byte))
  BY <1>1, SeqMonotonic
<1> QED  BY <1>2, FlatType

(* A chunk c of the stream after the fragment r takes the receiver on.     *)
LEMMA ParseNext ==
    ASSUME NEW v \in Seq(Wire), NEW q, NEW r, NEW x \in Seq(Byte), Parsed(v, q, r, x),
           NEW c \in Seq(Byte), NEW y \in Seq(Byte), (x \o c) \o y = FlattenSeq(v)
    PROVE  LET got == Reassemble(r \o c) IN
           /\ got.whole \in Seq(Wire)
           /\ Parsed(v, q \o got.whole, got.rest, x \o c)
<1>1. /\ q \in Seq(Wire) /\ r \in Seq(Byte) /\ x = FlattenSeq(q) \o r
  BY DEF Parsed
<1>2. PICK z \in Seq(Wire) : v = q \o z /\ Begins(r, z)
  BY DEF Parsed
<1>3. PICK fq, fz : fq = FlattenSeq(q) /\ fz = FlattenSeq(z)
  OBVIOUS
<1>4. fq \in Seq(Byte) /\ fz \in Seq(Byte)
  BY <1>1, <1>2, <1>3, WireBytes
<1>5. FlattenSeq(v) = fq \o fz
  <2>1. q \in Seq(Seq(Byte)) /\ z \in Seq(Seq(Byte))
    BY <1>1, <1>2, WireBytes
  <2> QED  BY <1>2, <1>3, <2>1, FlatConcat
<1>6. PICK rc : rc = r \o c
  OBVIOUS
<1>7. rc \in Seq(Byte) /\ rc \o y \in Seq(Byte)
  <2>1. rc \in Seq(Byte)
    BY <1>1, <1>6, ConcatProperties
  <2> QED  BY <2>1, ConcatProperties
<1>8. x \o c = fq \o rc
  <2>1. fq \in Seq(Byte) /\ r \in Seq(Byte) /\ c \in Seq(Byte)
    BY <1>1, <1>4
  <2>2. (fq \o r) \o c = fq \o (r \o c)
    BY ONLY <2>1, ConcatAssociative, SMTT(30)
  <2> QED  BY <1>1, <1>3, <1>6, <2>2
<1>9. fq \o (rc \o y) = fq \o fz
  <2>1. (fq \o rc) \o y = fq \o (rc \o y)
    <3>1. fq \in Seq(Byte) /\ rc \in Seq(Byte) /\ y \in Seq(Byte)
      BY <1>4, <1>7
    <3> QED  BY ONLY <3>1, ConcatAssociative, SMTT(30)
  <2>2. (fq \o rc) \o y = fq \o fz
    BY <1>5, <1>8
  <2> QED  BY <2>1, <2>2
<1>10. rc \o y = fz
  BY ONLY <1>4, <1>7, <1>9, CancelLeft
<1>11. PICK p \in Seq(Wire), w \in Seq(Wire), t \in Seq(Byte) :
         z = p \o w /\ rc = FlattenSeq(p) \o t /\ Begins(t, w)
  <2>1. rc \in Seq(Byte) /\ y \in Seq(Byte) /\ rc \o y = FlattenSeq(z)
    BY <1>3, <1>7, <1>10
  <2> QED  BY <2>1, Locate
<1>12. Reassemble(rc) = [whole |-> p, rest |-> t]
  BY <1>11, BeginsUnfinished, Reassembles
<1>13. q \o p \in Seq(Wire)
  BY <1>1, <1>11, ConcatProperties
<1>14. v = (q \o p) \o w
  <2>1. q \in Seq(Wire) /\ p \in Seq(Wire) /\ w \in Seq(Wire)
    BY <1>1
  <2>2. (q \o p) \o w = q \o (p \o w)
    BY ONLY <2>1, ConcatAssociative, SMTT(30)
  <2> QED  BY <1>2, <1>11, <2>2
<1>15. x \o c = FlattenSeq(q \o p) \o t
  <2>1. PICK fp : fp = FlattenSeq(p)
    OBVIOUS
  <2>2. FlattenSeq(q \o p) = fq \o fp /\ fp \in Seq(Byte)
    <3>1. q \in Seq(Seq(Byte)) /\ p \in Seq(Seq(Byte)) /\ FlattenSeq(p) \in Seq(Byte)
      BY <1>1, <1>11, WireBytes
    <3> QED  BY <1>3, <2>1, <3>1, FlatConcat
  <2>3. (fq \o fp) \o t = fq \o (fp \o t)
    <3>1. fq \in Seq(Byte) /\ fp \in Seq(Byte) /\ t \in Seq(Byte)
      BY <1>4, <2>2
    <3> QED  BY ONLY <3>1, ConcatAssociative, SMTT(30)
  <2> QED  BY <1>8, <1>11, <2>1, <2>2, <2>3
<1>16. Parsed(v, q \o p, t, x \o c)
  BY <1>11, <1>13, <1>14, <1>15 DEF Parsed
<1> QED  BY <1>6, <1>11, <1>12, <1>16

(* More messages in the stream change nothing of this.                     *)
LEMMA ParsedLonger ==
    ASSUME NEW v \in Seq(Wire), NEW q, NEW r, NEW x, Parsed(v, q, r, x), NEW u \in Seq(Wire)
    PROVE  Parsed(v \o u, q, r, x)
<1>1. /\ q \in Seq(Wire) /\ r \in Seq(Byte) /\ x = FlattenSeq(q) \o r
  BY DEF Parsed
<1>2. PICK z \in Seq(Wire) : v = q \o z /\ Begins(r, z)
  BY DEF Parsed
<1>3. z \o u \in Seq(Wire)
  BY <1>2, ConcatProperties
<1>4. v \o u = q \o (z \o u)
  <2>1. q \in Seq(Wire) /\ z \in Seq(Wire) /\ u \in Seq(Wire)
    BY <1>1
  <2>2. (q \o z) \o u = q \o (z \o u)
    BY ONLY <2>1, ConcatAssociative, SMTT(30)
  <2> QED  BY <1>2, <2>2
<1>5. Begins(r, z \o u)
  <2>1. CASE r = <<>>
    BY <2>1 DEF Begins
  <2>2. CASE r # <<>>
    <3>1. z # <<>> /\ Len(r) < Len(z[1]) /\ \A i \in 1..Len(r) : r[i] = z[1][i]
      BY <1>2, <2>2 DEF Begins
    <3>2. Len(z) \in Nat \ {0} /\ Len(u) \in Nat
      BY <3>1
    <3>3. Len(z \o u) = Len(z) + Len(u) /\ (z \o u)[1] = z[1]
      BY <3>2, ConcatProperties
    <3>4. z \o u # <<>>
      BY <1>3, <3>2, <3>3
    <3> QED  BY <3>1, <3>3, <3>4 DEF Begins
  <2> QED  BY <2>1, <2>2
<1> QED  BY <1>1, <1>3, <1>4, <1>5 DEF Parsed

-----------------------------------------------------------------------------
(* The chunks that one packet brings in order.                             *)

Progress == [whole : Seq(Seq(Byte)), rest : Seq(Byte)]

LEMMA ReassembleType ==
    ASSUME NEW buf \in Seq(Byte)
    PROVE  Reassemble(buf) \in Progress
<1>1. PICK h : /\ LoopOver(buf, h)
               /\ Reassemble(buf) = [whole |-> h[Len(buf)].whole,
                                     rest |-> Skip(buf, h[Len(buf)].pos)]
  BY ReassembleLoop
<1> DEFINE T == {n \in Nat : h[n] \in Passes}
<1>2. 0 \in T
  <2>1. [pos |-> 0, whole |-> <<>>] \in Passes
    BY DEF Passes
  <2> QED  BY <1>1, <2>1 DEF LoopOver
<1>3. ASSUME NEW n \in T PROVE n + 1 \in T
  <2>1. h[n] \in Passes /\ h[n + 1] = AfterPass(buf, h[n])
    BY <1>1 DEF LoopOver
  <2>2. AfterPass(buf, h[n]) \in Passes
    BY <2>1, PassType
  <2> QED  BY <2>1, <2>2
<1>4. T \in SUBSET Nat
  OBVIOUS
<1>5. \A n \in Nat : n \in T
  <2> HIDE DEF T
  <2> QED  BY <1>2, <1>3, <1>4, Induction
<1>6. PICK at \in Passes : at = h[Len(buf)]
  <2>1. Len(buf) \in Nat
    BY LenProperties
  <2> QED  BY <1>5, <2>1
<1>7. at.whole \in Seq(Seq(Byte)) /\ at.pos \in Nat
  BY DEF Passes
<1>8. Skip(buf, at.pos) \in Seq(Byte)
  BY <1>7, SkipType
<1> QED  BY <1>1, <1>6, <1>7, <1>8 DEF Progress

(* The function after of ConsumeChunks, for the count chunks that follow   *)
(* the first a of the chunks d.                                            *)
Consuming(h, d, a, r, count) ==
    h = [n \in 0..count |->
           IF n = 0 THEN [whole |-> <<>>, rest |-> r]
           ELSE ConsumeChunk(h[n - 1], d[a + n])]

LEMMA ConsumingExists ==
    ASSUME NEW d \in Seq(Seq(Byte)), NEW a \in 0..Len(d), NEW r \in Seq(Byte),
           NEW count \in 0..(Len(d) - a)
    PROVE  \E h : Consuming(h, d, a, r, count)
<1> DEFINE start == [whole |-> <<>>, rest |-> r]
           G == [p \in Progress \X Nat |->
                   IF p[2] + 1 \in 1..count THEN ConsumeChunk(p[1], d[a + (p[2] + 1)])
                   ELSE p[1]]
<1>1. start \in Progress
  BY DEF Progress
<1>2. Len(d) \in Nat /\ a \in Nat /\ count \in Nat /\ a + count <= Len(d)
  BY LenProperties
<1>3. ASSUME NEW p \in Progress, NEW c \in Seq(Byte) PROVE ConsumeChunk(p, c) \in Progress
  <2>1. p.rest \o c \in Seq(Byte) /\ p.whole \in Seq(Seq(Byte))
    BY ConcatProperties DEF Progress
  <2>2. PICK got \in Progress : got = Reassemble(p.rest \o c)
    BY <2>1, ReassembleType
  <2>3. got.whole \in Seq(Seq(Byte)) /\ got.rest \in Seq(Byte)
    BY DEF Progress
  <2>4. p.whole \o got.whole \in Seq(Seq(Byte))
    BY <2>1, <2>3, ConcatProperties
  <2> QED  BY <2>2, <2>3, <2>4 DEF ConsumeChunk, Progress
<1>4. ASSUME NEW n \in Nat, n + 1 \in 1..count PROVE d[a + (n + 1)] \in Seq(Byte)
  <2>1. a + (n + 1) \in 1..Len(d)
    BY <1>2, <1>4
  <2> QED  BY <2>1, ElementOfSeq
<1>5. G \in [Progress \X Nat -> Progress]
  BY <1>3, <1>4
<1>6. PICK f : Iterates(f, Progress, start, G)
  <2> HIDE DEF start, G
  <2> QED  BY <1>1, <1>5, Recursion
<1>7. f \in [Nat -> Progress] /\ f[0] = start
  BY <1>6 DEF Iterates
<1>8. ASSUME NEW n \in 1..count PROVE f[n] = ConsumeChunk(f[n - 1], d[a + n])
  <2>1. PICK m \in Nat : m + 1 = n /\ m = n - 1
    BY <1>2
  <2>2. f[m + 1] = G[<<f[m], m>>] /\ <<f[m], m>> \in Progress \X Nat
    BY <1>6, <1>7 DEF Iterates
  <2>3. G[<<f[m], m>>] = ConsumeChunk(f[m], d[a + (m + 1)])
    BY <2>1, <2>2
  <2> QED  BY <2>1, <2>2, <2>3
<1> DEFINE h == [n \in 0..count |-> f[n]]
<1>9. ASSUME NEW n \in 0..count
      PROVE  f[n] = IF n = 0 THEN start ELSE ConsumeChunk(h[n - 1], d[a + n])
  <2>1. CASE n = 0
    BY <1>7, <2>1
  <2>2. CASE n # 0
    <3>1. n \in 1..count /\ n - 1 \in 0..count
      BY <1>2, <2>2
    <3>2. h[n - 1] = f[n - 1]
      BY <3>1
    <3> QED  BY <1>8, <2>2, <3>1, <3>2
  <2> QED  BY <2>1, <2>2
<1>10. Consuming(h, d, a, r, count)
  BY <1>9 DEF Consuming
<1> QED  BY <1>10

(* The receiver's place after these chunks of the stream v.                *)
LEMMA ConsumeAll ==
    ASSUME NEW v \in Seq(Wire), NEW d \in Seq(Seq(Byte)), NEW y \in Seq(Byte),
           FlattenSeq(d) \o y = FlattenSeq(v),
           NEW a \in 0..Len(d), NEW q, NEW r, Parsed(v, q, r, FlattenSeq(SubSeq(d, 1, a))),
           NEW count \in 0..(Len(d) - a), NEW h, Consuming(h, d, a, r, count)
    PROVE  /\ h[count].whole \in Seq(Wire)
           /\ Parsed(v, q \o h[count].whole, h[count].rest,
                     FlattenSeq(SubSeq(d, 1, a + count)))
<1>1. q \in Seq(Wire) /\ r \in Seq(Byte)
  BY DEF Parsed
<1>2. Len(d) \in Nat /\ a \in Nat /\ count \in Nat /\ a + count <= Len(d)
  BY LenProperties
<1> DEFINE Good(n) == /\ h[n].whole \in Seq(Wire)
                      /\ Parsed(v, q \o h[n].whole, h[n].rest,
                                FlattenSeq(SubSeq(d, 1, a + n)))
           T == {n \in Nat : n <= count => Good(n)}
<1>3. 0 \in T
  <2>1. h[0].whole = <<>> /\ h[0].rest = r
    <3>1. 0 \in 0..count
      BY <1>2
    <3>2. h[0] = [whole |-> <<>>, rest |-> r]
      BY <3>1 DEF Consuming
    <3> QED  BY <3>2
  <2>2. q \o <<>> = q /\ <<>> \in Seq(Wire) /\ a + 0 = a
    BY <1>1, <1>2, ConcatEmptySeq
  <2>3. Good(0)
    BY <2>1, <2>2
  <2> QED  BY <2>3
<1>4. ASSUME NEW n \in T PROVE n + 1 \in T
  <2> SUFFICES ASSUME n + 1 <= count PROVE Good(n + 1)
    OBVIOUS
  <2>1. n \in Nat /\ n + 1 \in 0..count /\ n + 1 # 0 /\ (n + 1) - 1 = n /\ n <= count
    BY <1>2
  <2>2. Good(n)
    BY <2>1
  <2>3. PICK w, t : w = h[n].whole /\ t = h[n].rest
    OBVIOUS
  <2>4. PICK k \in Nat : k = a + n
    BY <1>2, <2>1
  <2>5. k \in 0..(Len(d) - 1) /\ k \in 0..Len(d) /\ k + 1 \in 0..Len(d)
        /\ k + 1 \in 1..Len(d) /\ k + 1 = a + (n + 1)
    BY <1>2, <2>1, <2>4
  <2>6. PICK c \in Seq(Byte) : c = d[k + 1]
    BY <2>5, ElementOfSeq
  <2>7. PICK x : x = FlattenSeq(SubSeq(d, 1, k))
    OBVIOUS
  <2>8. SubSeq(d, 1, k) \in Seq(Seq(Byte)) /\ x \in Seq(Byte)
    <3>1. SubSeq(d, 1, k) \in Seq(Seq(Byte))
      BY <2>5, Cutting
    <3> QED  BY <2>7, <3>1, FlatType
  <2>9. FlattenSeq(SubSeq(d, 1, k + 1)) = x \o c
    <3>1. SubSeq(d, 1, k + 1) = Append(SubSeq(d, 1, k), c)
      BY <2>5, <2>6, NextElement
    <3> QED  BY <2>7, <2>8, <3>1, FlatAppend
  <2>10. PICK z \in Seq(Byte) : (x \o c) \o z = FlattenSeq(v)
    <3>1. PICK u \in Seq(Seq(Byte)) : SubSeq(d, 1, k + 1) \in Seq(Seq(Byte))
                                      /\ d = SubSeq(d, 1, k + 1) \o u
      <4>1. PICK j \in 0..Len(d) : j = k + 1
        BY <2>5
      <4>2. /\ SubSeq(d, 1, j) \in Seq(Seq(Byte))
            /\ SubSeq(d, j + 1, Len(d)) \in Seq(Seq(Byte))
            /\ d = SubSeq(d, 1, j) \o SubSeq(d, j + 1, Len(d))
        BY Cutting
      <4> QED  BY <4>1, <4>2
    <3>2. PICK fu : fu = FlattenSeq(u)
      OBVIOUS
    <3>3. FlattenSeq(d) = (x \o c) \o fu /\ fu \in Seq(Byte)
      BY <2>9, <3>1, <3>2, FlatConcat, FlatType
    <3>4. PICK xc : xc = x \o c
      OBVIOUS
    <3>5. xc \in Seq(Byte) /\ fu \in Seq(Byte) /\ y \in Seq(Byte)
      BY <2>8, <3>3, <3>4, ConcatProperties
    <3>6. (xc \o fu) \o y = xc \o (fu \o y)
      BY ONLY <3>5, ConcatAssociative, SMTT(30)
    <3>7. fu \o y \in Seq(Byte)
      BY <3>5, ConcatProperties
    <3> QED  BY <3>3, <3>4, <3>6, <3>7
  <2>11. w \in Seq(Wire) /\ Parsed(v, q \o w, t, x) /\ t \in Seq(Byte)
    BY <2>2, <2>3, <2>4, <2>7 DEF Parsed
  <2>12. PICK got : got = Reassemble(t \o c)
    OBVIOUS
  <2>13. got.whole \in Seq(Wire) /\ Parsed(v, (q \o w) \o got.whole, got.rest, x \o c)
    BY <2>8, <2>10, <2>11, <2>12, ParseNext
  <2>14. (q \o w) \o got.whole = q \o (w \o got.whole)
    <3>1. PICK g \in Seq(Wire) : g = got.whole
      BY <2>13
    <3>2. q \in Seq(Wire) /\ w \in Seq(Wire) /\ g \in Seq(Wire)
      BY <1>1, <2>11
    <3>3. (q \o w) \o g = q \o (w \o g)
      BY ONLY <3>2, ConcatAssociative, SMTT(30)
    <3> QED  BY <3>1, <3>3
  <2>15. h[n + 1].whole = w \o got.whole /\ h[n + 1].rest = got.rest
    <3>1. h[n + 1] = ConsumeChunk(h[n], d[a + (n + 1)])
      BY <2>1 DEF Consuming
    <3>2. h[n + 1] = [whole |-> w \o got.whole, rest |-> got.rest]
      BY <2>3, <2>5, <2>6, <2>12, <3>1 DEF ConsumeChunk
    <3>3. PICK g : g = h[n + 1]
      OBVIOUS
    <3>4. g = [whole |-> w \o got.whole, rest |-> got.rest]
      BY ONLY <3>2, <3>3
    <3>5. g.whole = w \o got.whole /\ g.rest = got.rest
      BY ONLY <3>4
    <3> QED  BY <3>3, <3>5
  <2>16. w \o got.whole \in Seq(Wire)
    BY <2>11, <2>13, ConcatProperties
  <2>17. FlattenSeq(SubSeq(d, 1, a + (n + 1))) = x \o c
    BY <2>5, <2>9
  <2> QED  BY <2>13, <2>14, <2>15, <2>16, <2>17
<1>5. T \in SUBSET Nat
  OBVIOUS
<1>6. \A n \in Nat : n \in T
  <2> HIDE DEF T
  <2> QED  BY <1>3, <1>4, <1>5, Induction
<1>7. Good(count)
  <2>1. count \in T /\ count <= count
    BY <1>2, <1>6
  <2> HIDE DEF Good
  <2> QED  BY <2>1
<1> QED  BY <1>7

-----------------------------------------------------------------------------
(* The sender's stream.                                                    *)

Maps(f, D, R) == f \in [D -> R]
MapSeq(f, s) == [i \in 1..Len(s) |-> f[s[i]]]

LEMMA MapType ==
    ASSUME NEW D, NEW R, NEW f \in [D -> R], NEW s \in Seq(D)
    PROVE  MapSeq(f, s) \in Seq(R)
<1>1. Len(s) \in Nat /\ \A i \in 1..Len(s) : s[i] \in D
  BY LenProperties, ElementOfSeq
<1>2. PICK g : g = MapSeq(f, s)
  OBVIOUS
<1>3. g \in [1..Len(s) -> R] /\ \A i \in 1..Len(s) : g[i] = f[s[i]]
  BY <1>1, <1>2 DEF MapSeq
<1>4. g \in Seq(R) /\ Len(g) = Len(s)
  BY <1>1, <1>3
<1> QED  BY <1>2, <1>3, <1>4

LEMMA MapConcat ==
    ASSUME NEW D, NEW R, NEW f, Maps(f, D, R), NEW s \in Seq(D), NEW t \in Seq(D)
    PROVE  MapSeq(f, s \o t) = MapSeq(f, s) \o MapSeq(f, t)
<1> USE DEF Maps
<1>1. PICK u \in Seq(D) : u = s \o t
  BY ConcatProperties
<1>2. /\ Len(s) \in Nat /\ Len(t) \in Nat /\ Len(u) = Len(s) + Len(t)
      /\ \A i \in 1..(Len(s) + Len(t)) : u[i] = IF i <= Len(s) THEN s[i] ELSE t[i - Len(s)]
  BY <1>1, ConcatProperties, LenProperties
<1>3. PICK a, b, c : a = MapSeq(f, s) /\ b = MapSeq(f, t) /\ c = MapSeq(f, u)
  OBVIOUS
<1>4. /\ a \in Seq(R) /\ Len(a) = Len(s) /\ \A i \in 1..Len(s) : a[i] = f[s[i]]
      /\ b \in Seq(R) /\ Len(b) = Len(t) /\ \A i \in 1..Len(t) : b[i] = f[t[i]]
      /\ c \in Seq(R) /\ Len(c) = Len(u) /\ \A i \in 1..Len(u) : c[i] = f[u[i]]
  <2>1. a \in Seq(R) /\ Len(a) = Len(s) /\ \A i \in 1..Len(s) : a[i] = f[s[i]]
    <3>1. a \in Seq(R)
      BY <1>3, MapType, Zenon
    <3>2. Len(s) \in Nat
      BY LenProperties
    <3>3. a = [i \in 1..Len(s) |-> f[s[i]]]
      BY <1>3 DEF MapSeq
    <3>4. Len(a) = Len(s) /\ \A i \in 1..Len(s) : a[i] = f[s[i]]
      BY ONLY <3>2, <3>3
    <3> QED  BY <3>1, <3>4
  <2>2. b \in Seq(R) /\ Len(b) = Len(t) /\ \A i \in 1..Len(t) : b[i] = f[t[i]]
    <3>1. b \in Seq(R)
      BY <1>3, MapType, Zenon
    <3>2. Len(t) \in Nat
      BY LenProperties
    <3>3. b = [i \in 1..Len(t) |-> f[t[i]]]
      BY <1>3 DEF MapSeq
    <3>4. Len(b) = Len(t) /\ \A i \in 1..Len(t) : b[i] = f[t[i]]
      BY ONLY <3>2, <3>3
    <3> QED  BY <3>1, <3>4
  <2>3. c \in Seq(R) /\ Len(c) = Len(u) /\ \A i \in 1..Len(u) : c[i] = f[u[i]]
    <3>1. c \in Seq(R)
      BY <1>3, MapType, Zenon
    <3>2. Len(u) \in Nat
      BY LenProperties
    <3>3. c = [i \in 1..Len(u) |-> f[u[i]]]
      BY <1>3 DEF MapSeq
    <3>4. Len(c) = Len(u) /\ \A i \in 1..Len(u) : c[i] = f[u[i]]
      BY ONLY <3>2, <3>3
    <3> QED  BY <3>1, <3>4
  <2> QED  BY <2>1, <2>2, <2>3
<1>5. PICK d \in Seq(R) : d = a \o b
  BY <1>4, ConcatProperties
<1>6. /\ Len(d) = Len(s) + Len(t)
      /\ \A i \in 1..(Len(s) + Len(t)) : d[i] = IF i <= Len(s) THEN a[i] ELSE b[i - Len(s)]
  <2>1. /\ Len(d) = Len(a) + Len(b)
        /\ \A i \in 1..(Len(a) + Len(b)) : d[i] = IF i <= Len(a) THEN a[i] ELSE b[i - Len(a)]
    <3>1. a \in Seq(R) /\ b \in Seq(R)
      BY <1>4
    <3> QED  BY ONLY <1>5, <3>1, ConcatProperties
  <2>2. Len(a) = Len(s) /\ Len(b) = Len(t)
    BY <1>4
  <2> QED  BY ONLY <2>1, <2>2
<1>7. ASSUME NEW i \in 1..(Len(s) + Len(t)) PROVE c[i] = d[i]
  <2>1. CASE i <= Len(s)
    <3>1. i \in 1..Len(s) /\ i \in 1..Len(u)
      BY <1>2, <2>1
    <3>2. c[i] = f[u[i]] /\ u[i] = s[i]
      BY <1>2, <1>4, <2>1, <3>1
    <3>3. d[i] = a[i] /\ a[i] = f[s[i]]
      BY <1>4, <1>6, <2>1, <3>1
    <3> QED  BY <3>2, <3>3
  <2>2. CASE ~(i <= Len(s))
    <3>1. i - Len(s) \in 1..Len(t) /\ i \in 1..Len(u)
      BY <1>2, <2>2
    <3>2. c[i] = f[u[i]] /\ u[i] = t[i - Len(s)]
      BY <1>2, <1>4, <2>2, <3>1
    <3>3. d[i] = b[i - Len(s)] /\ b[i - Len(s)] = f[t[i - Len(s)]]
      BY <1>4, <1>6, <2>2, <3>1
    <3> QED  BY <3>2, <3>3
  <2> QED  BY <2>1, <2>2
<1>8. c = d
  BY <1>2, <1>4, <1>6, <1>7, SeqEqual
<1> QED  BY <1>1, <1>3, <1>5, <1>8

LEMMA FlatMap ==
    ASSUME NEW D, NEW B, NEW f, Maps(f, D, Seq(B)), NEW s \in Seq(D), NEW t \in Seq(D)
    PROVE  /\ FlattenSeq(MapSeq(f, s)) \in Seq(B)
           /\ FlattenSeq(MapSeq(f, s \o t))
                 = FlattenSeq(MapSeq(f, s)) \o FlattenSeq(MapSeq(f, t))
<1>1. PICK R : R = Seq(B)
  OBVIOUS
<1>2. f \in [D -> R] /\ Maps(f, D, R)
  BY <1>1 DEF Maps
<1>3. PICK a, b : a = MapSeq(f, s) /\ b = MapSeq(f, t)
  OBVIOUS
<1>4. a \in Seq(R) /\ b \in Seq(R)
  BY ONLY <1>2, <1>3, s \in Seq(D), t \in Seq(D), MapType
<1>5. MapSeq(f, s \o t) = a \o b
  <2>1. Maps(f, D, R) /\ s \in Seq(D) /\ t \in Seq(D)
    BY <1>2
  <2>2. MapSeq(f, s \o t) = MapSeq(f, s) \o MapSeq(f, t)
    BY ONLY <2>1, MapConcat
  <2> QED  BY <1>3, <2>2
<1>6. a \in Seq(Seq(B)) /\ b \in Seq(Seq(B))
  BY <1>1, <1>4
<1>7. FlattenSeq(a) \in Seq(B) /\ FlattenSeq(a \o b) = FlattenSeq(a) \o FlattenSeq(b)
  BY ONLY <1>6, FlatConcat, FlatType
<1> QED  BY <1>3, <1>5, <1>7

LEMMA FlatMapOne ==
    ASSUME NEW D, NEW B, NEW f, Maps(f, D, Seq(B)), NEW m \in D
    PROVE  FlattenSeq(MapSeq(f, <<m>>)) = f[m]
<1> USE DEF Maps
<1>1. <<m>> \in Seq(D) /\ Len(<<m>>) = 1 /\ <<m>>[1] = m
  OBVIOUS
<1>2. PICK g : g = MapSeq(f, <<m>>)
  OBVIOUS
<1>3. g \in Seq(Seq(B)) /\ Len(g) = 1 /\ g[1] = f[m]
  <2>1. PICK R, s : R = Seq(B) /\ s = <<m>>
    OBVIOUS
  <2>2. f \in [D -> R] /\ s \in Seq(D) /\ g = MapSeq(f, s)
    BY <1>1, <1>2, <2>1
  <2>3. g \in Seq(R) /\ Len(g) = Len(s) /\ \A i \in 1..Len(s) : g[i] = f[s[i]]
    <3>1. g \in Seq(R)
      BY <2>2, MapType, Zenon
    <3>2. Len(s) \in Nat
      BY <2>2, LenProperties
    <3>3. g = [i \in 1..Len(s) |-> f[s[i]]]
      BY <2>2 DEF MapSeq
    <3>4. Len(g) = Len(s) /\ \A i \in 1..Len(s) : g[i] = f[s[i]]
      BY ONLY <3>2, <3>3
    <3> QED  BY <3>1, <3>4
  <2>4. Len(s) = 1 /\ s[1] = m /\ 1 \in 1..Len(s)
    BY <1>1, <2>1
  <2> QED  BY <2>1, <2>3, <2>4
<1>4. g = <<f[m]>>
  BY <1>3
<1> QED  BY <1>2, <1>4, FlatOne

(* What a message adds to the bytes and to the messages of the stream.     *)
Sent == [m \in DOMAIN MsgLen |-> IF IsValidPacket(m) THEN Bytes(m) ELSE <<>>]
Kept == [m \in DOMAIN MsgLen |-> IF IsValidPacket(m) THEN <<Bytes(m)>> ELSE <<>>]

LEMMA SentKept ==
    /\ Sent \in [DOMAIN MsgLen -> Seq(Byte)]
    /\ Kept \in [DOMAIN MsgLen -> Seq(Wire)]
    /\ \A m \in DOMAIN MsgLen : FlattenSeq(Kept[m]) = Sent[m]
<1>1. ASSUME NEW m \in DOMAIN MsgLen
      PROVE  /\ Sent[m] \in Seq(Byte) /\ Kept[m] \in Seq(Wire)
             /\ FlattenSeq(Kept[m]) = Sent[m]
  <2>1. Bytes(m) \in Seq(Byte)
    BY BytesType
  <2>2. CASE IsValidPacket(m)
    <3>1. Bytes(m) \in Wire
      BY <2>2 DEF Wire
    <3>2. <<Bytes(m)>> \in Seq(Wire)
      BY <3>1
    <3> QED  BY <2>1, <2>2, <3>2, FlatOne DEF Sent, Kept
  <2>3. CASE ~IsValidPacket(m)
    BY <2>3, FlatEmpty DEF Sent, Kept
  <2> QED  BY <2>2, <2>3
<1> QED  BY <1>1 DEF Sent, Kept

LEMMA JoinedIs ==
    ASSUME NEW s \in Seq(DOMAIN MsgLen)
    PROVE  Joined(s) = FlattenSeq(MapSeq(Sent, s))
<1>1. \A i \in 1..Len(s) : s[i] \in DOMAIN MsgLen
  BY ElementOfSeq
<1>2. [i \in 1..Len(s) |-> IF IsValidPacket(s[i]) THEN Bytes(s[i]) ELSE <<>>]
         = MapSeq(Sent, s)
  BY <1>1 DEF MapSeq, Sent
<1> QED  BY <1>2 DEF Joined

LEMMA JoinedConcat ==
    ASSUME NEW s \in Seq(DOMAIN MsgLen), NEW t \in Seq(DOMAIN MsgLen)
    PROVE  /\ Joined(s) \in Seq(Byte)
           /\ Joined(s \o t) = Joined(s) \o Joined(t)
<1>1. PICK D, f : D = DOMAIN MsgLen /\ f = Sent
  OBVIOUS
<1>2. s \in Seq(D) /\ t \in Seq(D) /\ Maps(f, D, Seq(Byte))
  BY <1>1, SentKept DEF Maps
<1>3. s \o t \in Seq(D)
  BY <1>2, ConcatProperties
<1>4. \A u \in Seq(D) : Joined(u) = FlattenSeq(MapSeq(f, u))
  BY <1>1, JoinedIs
<1>5. /\ FlattenSeq(MapSeq(f, s)) \in Seq(Byte)
      /\ FlattenSeq(MapSeq(f, s \o t))
            = FlattenSeq(MapSeq(f, s)) \o FlattenSeq(MapSeq(f, t))
  BY ONLY <1>2, FlatMap
<1> QED  BY <1>2, <1>3, <1>4, <1>5

LEMMA JoinedOne ==
    ASSUME NEW m \in DOMAIN MsgLen
    PROVE  <<m>> \in Seq(DOMAIN MsgLen) /\ Joined(<<m>>) = Sent[m]
<1>1. <<m>> \in Seq(DOMAIN MsgLen)
  OBVIOUS
<1>2. Maps(Sent, DOMAIN MsgLen, Seq(Byte))
  BY SentKept DEF Maps
<1> QED  BY <1>1, <1>2, JoinedIs, FlatMapOne

-----------------------------------------------------------------------------
(* The message layer runs over the chunk layer.                            *)

(* What the steps do to the state of the messages.                         *)
Handed(e, k) ==
    /\ CutMessages(e, k)
    /\ created' = [created EXCEPT ![e] = @ + Len(Cut(e, k))]
    /\ UNCHANGED lastInOrder

LEMMA MsgStepCases ==
    ASSUME [MsgNext]_allVars
    PROVE  /\ [Next]_vars
           /\ \/ UNCHANGED <<messages, created, lastInOrder>>
              \/ \E e \in End : SendData(e)
              \/ \E e \in End : \E p \in net[e] : MsgReceive(e, p)
              \/ \E e \in End : \E k \in 0..Len(outgoingData[e]) : Handed(e, k)
<1> DEFINE Cases ==
              \/ UNCHANGED <<messages, created, lastInOrder>>
              \/ \E e \in End : SendData(e)
              \/ \E e \in End : \E p \in net[e] : MsgReceive(e, p)
              \/ \E e \in End : \E k \in 0..Len(outgoingData[e]) : Handed(e, k)
           Goal == [Next]_vars /\ Cases
<1>1. ASSUME UNCHANGED allVars PROVE Goal
  BY <1>1 DEF allVars, vars, sender, receiver
<1>2. ASSUME NEW e \in End, SendData(e) PROVE Goal
  BY <1>2 DEF SendData
<1>3. ASSUME NEW e \in End, (Unmute(e) \/ UpdateMuted(e)) /\ UNCHANGED messages PROVE Goal
  <2>1. UNCHANGED <<messages, created, lastInOrder>>
    BY <1>3 DEF Unmute, UpdateMuted, sender, receiver
  <2>2. Next
    BY <1>3 DEF Next
  <2> QED  BY <2>1, <2>2
<1>4. ASSUME NEW e \in End, NEW p \in net[e], MsgReceive(e, p) PROVE Goal
  <2>1. Next
    BY <1>4 DEF Next, MsgReceive
  <2> QED  BY <1>4, <2>1
<1>5. ASSUME NEW e \in End, MsgUpdateStep(e) PROVE Goal
  <2>1. PICK k \in 0..Len(outgoingData[e]), nakDue \in NakTimer(e), idle \in BOOLEAN :
          \E resendDue \in ResendTimer(e, Len(Cut(e, k))) :
             MsgUpdate(e, k, nakDue, resendDue, idle)
    BY <1>5 DEF MsgUpdateStep
  <2>2. PICK n : n = Len(Cut(e, k))
    OBVIOUS
  <2>3. PICK resendDue \in ResendTimer(e, n) : MsgUpdate(e, k, nakDue, resendDue, idle)
    BY <2>1, <2>2
  <2>4. n \in Cuts(e) /\ Update(e, n, nakDue, resendDue, idle) /\ CutMessages(e, k)
    BY <2>2, <2>3 DEF MsgUpdate, Fits
  <2>5. UpdateStep(e)
    BY <2>4 DEF UpdateStep
  <2>6. Next
    BY <2>5 DEF Next
  <2>7. Handed(e, k)
    BY <2>2, <2>4 DEF Handed, Update, FlushChunks, receiver
  <2> QED  BY <2>6, <2>7
<1>6. ASSUME NEW e \in End, MsgFlushStep(e), Len(outgoingData[e]) \in Nat PROVE Goal
  <2>1. PICK k : k = Len(outgoingData[e])
    OBVIOUS
  <2>2. PICK n : n = Len(Cut(e, k))
    OBVIOUS
  <2>3. PICK nakDue \in NakTimer(e) : \E resendDue \in ResendTimer(e, n) :
          MsgFlush(e, nakDue, resendDue)
    BY <1>6, <2>1, <2>2 DEF MsgFlushStep
  <2>4. PICK resendDue \in ResendTimer(e, n) : MsgFlush(e, nakDue, resendDue)
    BY <2>3
  <2>5. n \in Cuts(e) /\ ForcedFlush(e, n, nakDue, resendDue) /\ CutMessages(e, k)
    BY <2>1, <2>2, <2>4 DEF MsgFlush, Fits
  <2>6. FlushStep(e)
    BY <2>5 DEF FlushStep
  <2>7. Next
    BY <2>6 DEF Next
  <2>8. Handed(e, k) /\ k \in 0..Len(outgoingData[e])
    BY <1>6, <2>1, <2>2, <2>5 DEF Handed, ForcedFlush, FlushChunks, receiver
  <2> QED  BY <2>7, <2>8
<1>7. ASSUME NEW e \in End, MsgCloseStep(e) PROVE Goal
  <2>1. CASE CloseMuted(e) /\ UNCHANGED messages
    <3>1. CloseStep(e)
      BY <1>7, <2>1 DEF MsgCloseStep, CloseStep
    <3>2. Next
      BY <3>1 DEF Next
    <3>3. UNCHANGED <<messages, created, lastInOrder>>
      BY <2>1 DEF CloseMuted, sender, receiver
    <3> QED  BY <3>2, <3>3
  <2>2. CASE ~(CloseMuted(e) /\ UNCHANGED messages)
    <3>1. PICK k \in 0..Len(outgoingData[e]), flush \in BOOLEAN, idle \in BOOLEAN,
               nakDue \in NakTimer(e) :
            \E resendDue \in ResendTimer(e, Len(Cut(e, k))) :
               MsgClose(e, flush, k, nakDue, resendDue, idle)
      BY <1>7, <2>2 DEF MsgCloseStep
    <3>2. PICK n : n = Len(Cut(e, k))
      OBVIOUS
    <3>3. PICK resendDue \in ResendTimer(e, n) :
            MsgClose(e, flush, k, nakDue, resendDue, idle)
      BY <3>1, <3>2
    <3>4. /\ n \in Cuts(e) /\ Close(e, flush, n, nakDue, resendDue, idle)
          /\ CutMessages(e, k) /\ e \in Closing
      BY <1>7, <3>2, <3>3 DEF MsgClose, Fits, MsgCloseStep
    <3>5. CloseStep(e)
      BY <3>4 DEF CloseStep
    <3>6. Next
      BY <3>5 DEF Next
    <3>7. Handed(e, k)
      BY <3>2, <3>4 DEF Handed, Close, FlushChunks, receiver
    <3> QED  BY <3>6, <3>7
  <2> QED  BY <2>1, <2>2
<1> QED  BY <1>1, <1>2, <1>3, <1>4, <1>5, <1>6, <1>7 DEF MsgNext

(***************************************************************************)
(* Every step of the connection with its messages is a step of the chunk   *)
(* layer, or leaves it alone: what is proved about chunks holds of it.     *)
(***************************************************************************)
THEOREM ChunkLayer == MsgSpec => Spec
<1>1. MsgInit => Init
  BY DEF MsgInit
<1>2. [MsgNext]_allVars => [Next]_vars
  BY MsgStepCases
<1> QED  BY <1>1, <1>2, PTL DEF MsgSpec, Spec

-----------------------------------------------------------------------------
(* The invariant of the messages.                                          *)

MsgTypes ==
    /\ numSent \in [End -> Nat]
    /\ outgoingData \in [End -> Seq(DOMAIN MsgLen)]
    /\ data \in [End -> Seq(Seq(Byte))]
    /\ fragmentBuffer \in [End -> Seq(Byte)]
    /\ msgQueue \in [End -> Seq(Wire)]
    /\ \A e \in End : numSent[e] <= Len(Script[e])

(* a chunk is never empty and never too long, and has its bytes            *)
ChunksCut ==
    \A e \in End :
        /\ Len(data[e]) = created[e]
        /\ \A i \in 1..Len(data[e]) : Len(data[e][i]) \in 1..maxChunkSize

(* the chunks and what is not yet cut are the bytes handed over            *)
StreamKept ==
    \A e \in End :
        FlattenSeq(data[e]) \o Joined(outgoingData[e]) = FlattenSeq(Accepted(e))

(* the receiver has taken apart all that has come in order                 *)
PlaceKept ==
    \A e \in End :
        Parsed(Accepted(Other(e)), msgQueue[e], fragmentBuffer[e],
               FlattenSeq(SubSeq(data[Other(e)], 1, lastInOrder[e] + 1)))

MsgInv == MsgTypes /\ ChunksCut /\ StreamKept /\ PlaceKept

LEMMA GivenType ==
    ASSUME NEW e \in End, NEW n \in Nat, n <= Len(Script[e])
    PROVE  /\ Script[e] \in Seq(DOMAIN MsgLen)
           /\ FirstN(Script[e], n) \in Seq(DOMAIN MsgLen)
           /\ n < Len(Script[e]) =>
                /\ Script[e][n + 1] \in DOMAIN MsgLen
                /\ FirstN(Script[e], n + 1)
                      = FirstN(Script[e], n) \o <<Script[e][n + 1]>>
<1>1. PICK s \in Seq(DOMAIN MsgLen) : s = Script[e]
  BY MessageAssumption
<1>2. Len(s) \in Nat
  BY LenProperties
<1>3. n \in 0..Len(s)
  BY <1>1, <1>2
<1>4. FirstN(s, n) \in Seq(DOMAIN MsgLen)
  BY <1>3, FirstNType
<1>5. ASSUME n < Len(s)
      PROVE  /\ s[n + 1] \in DOMAIN MsgLen
             /\ FirstN(s, n + 1) = FirstN(s, n) \o <<s[n + 1]>>
  <2>1. n \in 0..(Len(s) - 1) /\ n + 1 \in 1..Len(s)
    BY <1>2, <1>5
  <2>2. s[n + 1] \in DOMAIN MsgLen
    BY <2>1, ElementOfSeq
  <2>3. SubSeq(s, 1, n + 1) = Append(SubSeq(s, 1, n), s[n + 1])
    BY <2>1, NextElement
  <2>4. PICK a \in Seq(DOMAIN MsgLen), m \in DOMAIN MsgLen :
          a = SubSeq(s, 1, n) /\ m = s[n + 1]
    BY <1>4, <2>2 DEF FirstN
  <2>5. Append(a, m) = a \o <<m>>
    BY AppendIsConcat
  <2> QED  BY <2>2, <2>3, <2>4, <2>5 DEF FirstN
<1> QED  BY <1>1, <1>4, <1>5

(* the messages of the stream when n were handed over                      *)
Chosen(e, n) == FlattenSeq(MapSeq(Kept, FirstN(Script[e], n)))

LEMMA ChosenType ==
    ASSUME NEW e \in End, NEW n \in Nat, n <= Len(Script[e])
    PROVE  /\ Chosen(e, n) \in Seq(Wire)
           /\ n < Len(Script[e]) =>
                Chosen(e, n + 1) = Chosen(e, n) \o Kept[Script[e][n + 1]]
           /\ numSent[e] = n => Accepted(e) = Chosen(e, n)
           /\ numSent'[e] = n => Accepted(e)' = Chosen(e, n)
<1>1. PICK s \in Seq(DOMAIN MsgLen) : s = FirstN(Script[e], n)
  BY GivenType
<1>2. Maps(Kept, DOMAIN MsgLen, Seq(Wire))
  BY SentKept DEF Maps
<1>3. Chosen(e, n) \in Seq(Wire)
  <2>1. FlattenSeq(MapSeq(Kept, s)) \in Seq(Wire)
    BY <1>2, FlatMap
  <2> QED  BY <1>1, <2>1 DEF Chosen
<1>4. ASSUME n < Len(Script[e])
      PROVE  Chosen(e, n + 1) = Chosen(e, n) \o Kept[Script[e][n + 1]]
  <2>1. PICK m \in DOMAIN MsgLen : /\ m = Script[e][n + 1]
                                   /\ FirstN(Script[e], n + 1) = s \o <<m>>
    BY <1>1, <1>4, GivenType
  <2>2. PICK t \in Seq(DOMAIN MsgLen) : t = <<m>>
    BY JoinedOne
  <2>3. FlattenSeq(MapSeq(Kept, s \o t))
           = FlattenSeq(MapSeq(Kept, s)) \o FlattenSeq(MapSeq(Kept, t))
    BY <1>2, FlatMap
  <2>4. FlattenSeq(MapSeq(Kept, t)) = Kept[m]
    BY <1>2, <2>2, FlatMapOne
  <2> QED  BY <1>1, <2>1, <2>2, <2>3, <2>4 DEF Chosen
<1>5. [i \in 1..Len(s) |-> IF IsValidPacket(s[i]) THEN <<Bytes(s[i])>> ELSE <<>>]
         = MapSeq(Kept, s)
  <2>1. \A i \in 1..Len(s) : s[i] \in DOMAIN MsgLen
    BY ElementOfSeq
  <2> QED  BY <2>1 DEF MapSeq, Kept
<1>6. numSent[e] = n => Accepted(e) = Chosen(e, n)
  BY <1>1, <1>5 DEF Accepted, Chosen
<1>7. numSent'[e] = n => Accepted(e)' = Chosen(e, n)
  BY <1>1, <1>5 DEF Accepted, Chosen
<1> QED  BY <1>3, <1>4, <1>6, <1>7

LEMMA AcceptedType ==
    ASSUME MsgTypes, NEW e \in End
    PROVE  Accepted(e) \in Seq(Wire)
<1>1. PICK n \in Nat : n = numSent[e] /\ n <= Len(Script[e])
  BY DEF MsgTypes
<1> QED  BY <1>1, ChosenType

(* A message handed over goes into the stream, unless it is not valid.     *)
LEMMA SendStep ==
    ASSUME MsgTypes, NEW e \in End, SendData(e)
    PROVE  /\ MsgTypes'
           /\ UNCHANGED <<data, fragmentBuffer, msgQueue, created, lastInOrder>>
           /\ \A d \in End \ {e} : /\ Accepted(d)' = Accepted(d)
                                   /\ outgoingData'[d] = outgoingData[d]
           /\ \E m \in DOMAIN MsgLen :
                 /\ outgoingData'[e] = outgoingData[e] \o <<m>>
                 /\ Accepted(e)' = Accepted(e) \o Kept[m]
<1>1. PICK n \in Nat : n = numSent[e] /\ n < Len(Script[e]) /\ n <= Len(Script[e])
  <2>1. PICK n \in Nat : n = numSent[e]
    BY DEF MsgTypes
  <2>2. PICK s \in Seq(DOMAIN MsgLen) : s = Script[e]
    BY MessageAssumption
  <2>3. n < Len(s) /\ Len(s) \in Nat
    BY <2>1, <2>2, LenProperties DEF SendData
  <2>4. n <= Len(s)
    BY <2>3
  <2> QED  BY <2>1, <2>2, <2>3, <2>4
<1>2. PICK m \in DOMAIN MsgLen : m = Script[e][n + 1]
  BY <1>1, GivenType
<1>3. PICK o \in Seq(DOMAIN MsgLen) : o = outgoingData[e]
  BY DEF MsgTypes
<1>4. Append(o, m) = o \o <<m>> /\ Append(o, m) \in Seq(DOMAIN MsgLen)
  BY AppendIsConcat, AppendProperties
<1>5. /\ numSent' = [numSent EXCEPT ![e] = n + 1]
      /\ outgoingData' = [outgoingData EXCEPT ![e] = o \o <<m>>]
      /\ UNCHANGED <<vars, data, fragmentBuffer, msgQueue>>
  BY <1>1, <1>2, <1>3, <1>4 DEF SendData
<1>6. /\ numSent'[e] = n + 1 /\ outgoingData'[e] = o \o <<m>>
      /\ \A d \in End \ {e} : /\ numSent'[d] = numSent[d]
                              /\ outgoingData'[d] = outgoingData[d]
  BY <1>5 DEF MsgTypes
<1>7. MsgTypes'
  <2>1. /\ numSent' \in [End -> Nat]
        /\ outgoingData' \in [End -> Seq(DOMAIN MsgLen)]
    BY <1>4, <1>5 DEF MsgTypes
  <2>2. n + 1 <= Len(Script[e])
    <3>1. PICK s \in Seq(DOMAIN MsgLen) : s = Script[e]
      BY MessageAssumption
    <3>2. Len(s) \in Nat /\ n < Len(s)
      BY <1>1, <3>1, LenProperties
    <3>3. n + 1 <= Len(s)
      BY <3>2
    <3> QED  BY <3>1, <3>3
  <2>3. \A d \in End : numSent'[d] <= Len(Script[d])
    BY <1>6, <2>2 DEF MsgTypes
  <2> QED  BY <1>5, <2>1, <2>3 DEF MsgTypes
<1>8. Accepted(e)' = Accepted(e) \o Kept[m]
  <2>1. PICK k \in Nat : k = n + 1 /\ k <= Len(Script[e])
    BY <1>6, <1>7 DEF MsgTypes
  <2>2. Accepted(e)' = Chosen(e, k)
    BY <1>6, <2>1, ChosenType
  <2>3. Accepted(e) = Chosen(e, n) /\ Chosen(e, n + 1) = Chosen(e, n) \o Kept[m]
    BY <1>1, <1>2, ChosenType
  <2> QED  BY <2>1, <2>2, <2>3
<1>9. \A d \in End \ {e} : Accepted(d)' = Accepted(d)
  BY <1>6 DEF Accepted
<1>10. UNCHANGED <<created, lastInOrder>>
  BY <1>5 DEF vars, sender, receiver
<1> QED  BY <1>3, <1>5, <1>6, <1>7, <1>8, <1>9, <1>10

LEMMA PrefixOfConcat ==
    ASSUME NEW S, NEW s \in Seq(S), NEW t \in Seq(S), NEW k \in 0..Len(s)
    PROVE  SubSeq(s \o t, 1, k) = SubSeq(s, 1, k)
<1>1. /\ Len(s) \in Nat /\ Len(t) \in Nat
      /\ s \o t \in Seq(S) /\ Len(s \o t) = Len(s) + Len(t)
      /\ \A i \in 1..(Len(s) + Len(t)) :
            (s \o t)[i] = IF i <= Len(s) THEN s[i] ELSE t[i - Len(s)]
  BY ConcatProperties, LenProperties
<1>2. PICK u \in Seq(S) : u = s \o t
  BY <1>1
<1>3. k \in 0..Len(u)
  BY <1>1, <1>2
<1>4. /\ SubSeq(u, 1, k) \in Seq(S) /\ Len(SubSeq(u, 1, k)) = k
      /\ \A i \in 1..k : SubSeq(u, 1, k)[i] = u[i]
  BY <1>3, Cutting
<1>5. /\ SubSeq(s, 1, k) \in Seq(S) /\ Len(SubSeq(s, 1, k)) = k
      /\ \A i \in 1..k : SubSeq(s, 1, k)[i] = s[i]
  BY Cutting
<1>6. \A i \in 1..k : u[i] = s[i]
  BY <1>1, <1>2
<1> QED  BY <1>2, <1>4, <1>5, <1>6, SeqEqual

(* The chunks that a flush cuts.                                           *)
LEMMA CutType ==
    ASSUME MsgTypes, NEW e \in End, NEW k \in 0..Len(outgoingData[e])
    PROVE  /\ Cut(e, k) \in Seq(Seq(Byte)) /\ Len(Cut(e, k)) \in Nat
           /\ \A i \in 1..Len(Cut(e, k)) : Len(Cut(e, k)[i]) \in 1..maxChunkSize
           /\ FlattenSeq(Cut(e, k)) = Joined(FirstN(outgoingData[e], k))
<1>1. PICK o \in Seq(DOMAIN MsgLen) : o = outgoingData[e]
  BY DEF MsgTypes
<1>2. FirstN(o, k) \in Seq(DOMAIN MsgLen)
  BY <1>1, FirstNType
<1>3. PICK s \in Seq(Byte) : s = Joined(FirstN(o, k))
  BY <1>2, JoinedConcat
<1>4. PICK M \in Nat \ {0} : M = maxChunkSize
  BY MessageAssumption
<1> DEFINE count == (Len(s) + M - 1) \div M
           c == [i \in 1..count |->
                   SubSeq(s, (i - 1) * M + 1, Lesser(i * M, Len(s)))]
<1>5. Cut(e, k) = c
  BY <1>1, <1>3, <1>4 DEF Cut
<1>6. /\ count \in Nat /\ c \in Seq(Seq(Byte)) /\ Len(c) = count
      /\ \A i \in 1..count : Len(c[i]) \in 1..M
      /\ FlattenSeq(c) = s
  BY Pieces
<1> HIDE DEF c, count
<1> QED  BY <1>1, <1>3, <1>4, <1>5, <1>6

LEMMA HandedStep ==
    ASSUME MsgTypes, ChunksCut, StreamKept, TypeOK, NEW e \in End,
           NEW k \in 0..Len(outgoingData[e]), Handed(e, k)
    PROVE  /\ MsgTypes' /\ ChunksCut' /\ StreamKept'
           /\ UNCHANGED <<fragmentBuffer, msgQueue, lastInOrder>>
           /\ \A d \in End : /\ Accepted(d)' = Accepted(d)
                             /\ \E c \in Seq(Seq(Byte)) : data'[d] = data[d] \o c
<1>1. PICK c \in Seq(Seq(Byte)) :
        /\ c = Cut(e, k) /\ Len(c) \in Nat
        /\ \A i \in 1..Len(c) : Len(c[i]) \in 1..maxChunkSize
        /\ FlattenSeq(c) = Joined(FirstN(outgoingData[e], k))
  BY CutType
<1>2. PICK o \in Seq(DOMAIN MsgLen), b \in Seq(Seq(Byte)) :
        o = outgoingData[e] /\ b = data[e]
  BY DEF MsgTypes
<1>3. PICK x, y \in Seq(DOMAIN MsgLen) : /\ x = FirstN(o, k) /\ y = Skip(o, k)
                                         /\ o = x \o y
  <2>1. k \in 0..Len(o)
    BY <1>2
  <2>2. /\ SubSeq(o, 1, k) \in Seq(DOMAIN MsgLen)
        /\ SubSeq(o, k + 1, Len(o)) \in Seq(DOMAIN MsgLen)
        /\ o = SubSeq(o, 1, k) \o SubSeq(o, k + 1, Len(o))
    BY <2>1, Cutting
  <2> QED  BY <2>2 DEF FirstN, Skip
<1>4. /\ outgoingData' = [outgoingData EXCEPT ![e] = y]
      /\ data' = [data EXCEPT ![e] = b \o c]
      /\ created' = [created EXCEPT ![e] = @ + Len(c)]
      /\ UNCHANGED <<numSent, fragmentBuffer, msgQueue, lastInOrder>>
  BY <1>1, <1>2, <1>3 DEF Handed, CutMessages
<1>5. /\ outgoingData'[e] = y /\ data'[e] = b \o c /\ created'[e] = created[e] + Len(c)
      /\ \A d \in End \ {e} : /\ outgoingData'[d] = outgoingData[d]
                              /\ data'[d] = data[d] /\ created'[d] = created[d]
  BY <1>4 DEF MsgTypes, TypeOK
<1>6. b \o c \in Seq(Seq(Byte))
  BY ConcatProperties
<1>7. MsgTypes'
  BY <1>4, <1>6 DEF MsgTypes
<1>8. ChunksCut'
  <2>1. /\ Len(b) \in Nat /\ Len(c) \in Nat /\ Len(b \o c) = Len(b) + Len(c)
        /\ \A i \in 1..(Len(b) + Len(c)) :
              (b \o c)[i] = IF i <= Len(b) THEN b[i] ELSE c[i - Len(b)]
    BY ConcatProperties, LenProperties
  <2>2. Len(b) = created[e] /\ \A i \in 1..Len(b) : Len(b[i]) \in 1..maxChunkSize
    BY <1>2 DEF ChunksCut
  <2>3. ASSUME NEW i \in 1..(Len(b) + Len(c)) PROVE Len((b \o c)[i]) \in 1..maxChunkSize
    <3>1. CASE i <= Len(b)
      <4>1. i \in 1..Len(b)
        BY <2>1, <3>1
      <4> QED  BY <2>1, <2>2, <3>1, <4>1
    <3>2. CASE ~(i <= Len(b))
      <4>1. i - Len(b) \in 1..Len(c)
        BY <2>1, <3>2
      <4> QED  BY <1>1, <2>1, <3>2, <4>1
    <3> QED  BY <3>1, <3>2
  <2>4. Len(data'[e]) = created'[e]
    BY <1>5, <2>1, <2>2
  <2>5. \A i \in 1..Len(data'[e]) : Len(data'[e][i]) \in 1..maxChunkSize
    BY <1>5, <2>1, <2>3
  <2>6. \A d \in End \ {e} :
          /\ Len(data'[d]) = created'[d]
          /\ \A i \in 1..Len(data'[d]) : Len(data'[d][i]) \in 1..maxChunkSize
    BY <1>5 DEF ChunksCut
  <2> QED  BY <2>4, <2>5, <2>6 DEF ChunksCut
<1>9. \A d \in End : Accepted(d)' = Accepted(d)
  BY <1>4 DEF Accepted
<1>10. StreamKept'
  <2>1. PICK fb, jx, jy : fb = FlattenSeq(b) /\ jx = Joined(x) /\ jy = Joined(y)
    OBVIOUS
  <2>2. fb \in Seq(Byte) /\ jx \in Seq(Byte) /\ jy \in Seq(Byte)
    BY <2>1, FlatType, JoinedConcat
  <2>3. Joined(o) = jx \o jy
    BY <1>3, <2>1, JoinedConcat
  <2>4. FlattenSeq(b \o c) = fb \o jx
    BY <1>1, <1>2, <1>3, <2>1, FlatConcat
  <2>5. (fb \o jx) \o jy = fb \o (jx \o jy)
    BY ONLY <2>2, ConcatAssociative, SMTT(30)
  <2>6. fb \o Joined(o) = FlattenSeq(Accepted(e))
    BY <1>2, <2>1 DEF StreamKept
  <2>7. FlattenSeq(data'[e]) \o Joined(outgoingData'[e]) = FlattenSeq(Accepted(e))
    BY <1>5, <2>1, <2>3, <2>4, <2>5, <2>6
  <2>8. \A d \in End \ {e} :
          FlattenSeq(data'[d]) \o Joined(outgoingData'[d]) = FlattenSeq(Accepted(d))
    BY <1>5 DEF StreamKept
  <2>9. \A d \in End :
          FlattenSeq(data'[d]) \o Joined(outgoingData'[d]) = FlattenSeq(Accepted(d)')
    BY <1>9, <2>7, <2>8
  <2> QED  BY <2>9 DEF StreamKept
<1>11. ASSUME NEW d \in End PROVE \E u \in Seq(Seq(Byte)) : data'[d] = data[d] \o u
  <2>1. CASE d = e
    BY <1>2, <1>5, <2>1
  <2>2. CASE d # e
    <3>1. data[d] \in Seq(Seq(Byte)) /\ data'[d] = data[d]
      BY <1>5, <2>2 DEF MsgTypes
    <3>2. data[d] \o <<>> = data[d] /\ <<>> \in Seq(Seq(Byte))
      BY <3>1, ConcatEmptySeq
    <3> QED  BY <3>1, <3>2
  <2> QED  BY <2>1, <2>2
<1> QED  BY <1>4, <1>7, <1>8, <1>9, <1>10, <1>11

LEMMA ReceiveChunks ==
    ASSUME IInv, ChunksExist, ChunksExist', TypeOK', NEW e \in End, NEW p \in net[e],
           Receive(e, p)
    PROVE  /\ UNCHANGED created
           /\ \A d \in End \ {e} : lastInOrder'[d] = lastInOrder[d]
           /\ lastInOrder[e] \in Int /\ lastInOrder'[e] \in Int
           /\ -1 <= lastInOrder[e] /\ lastInOrder[e] <= lastInOrder'[e]
           /\ lastInOrder'[e] < created[Other(e)]
<1>1. TypeOK /\ WaitingAhead
  BY DEF IInv
<1>2. p \in Packet
  BY <1>1 DEF TypeOK
<1>3. UNCHANGED created
  BY DEF Receive
<1>4. /\ \A d \in End : lastInOrder[d] <= lastInOrder'[d]
      /\ \A d \in End \ {e} : lastInOrder'[d] = lastInOrder[d]
  <2>1. \A d \in End : lastInOrder[d] \in Int
    BY <1>1, LastInOrderType
  <2>2. CASE Superfluous(e, p)
    <3>1. UNCHANGED lastInOrder
      BY <2>2 DEF Receive, ProcessRawPacket, receiver
    <3> QED  BY <2>1, <3>1
  <2>3. CASE ~Superfluous(e, p)
    <3>1. ProcessChunks(e, p)
      BY <2>3 DEF Receive, ProcessRawPacket
    <3> QED  BY <1>1, <1>2, <3>1, ChunksAhead
  <2> QED  BY <2>2, <2>3
<1>5. lastInOrder[e] \in Int /\ -1 <= lastInOrder[e]
  BY <1>1, LastInOrderType
<1>6. lastInOrder'[e] \in Int
  <2>1. lastInOrder'[e] \in Nat \cup {-1}
    BY DEF TypeOK
  <2> QED  BY <2>1
<1>7. lastInOrder'[e] < created[Other(e)]
  BY <1>3 DEF ChunksExist
<1> QED  BY <1>3, <1>4, <1>5, <1>6, <1>7

(* A packet takes the receiver on by the chunks that come in order with it. *)
LEMMA ReceiveStep ==
    ASSUME MsgInv, IInv, ChunksExist, ChunksExist', TypeOK', NEW e \in End,
           NEW p \in net[e], MsgReceive(e, p)
    PROVE  /\ MsgInv'
           /\ \A d \in End : Accepted(d)' = Accepted(d)
           /\ \E w \in Seq(Wire) : msgQueue' = [msgQueue EXCEPT ![e] = @ \o w]
<1>1. /\ UNCHANGED created
      /\ \A d \in End \ {e} : lastInOrder'[d] = lastInOrder[d]
      /\ lastInOrder[e] \in Int /\ lastInOrder'[e] \in Int
      /\ -1 <= lastInOrder[e] /\ lastInOrder[e] <= lastInOrder'[e]
      /\ lastInOrder'[e] < created[Other(e)]
  BY ReceiveChunks DEF MsgReceive
<1>2. PICK o \in End : o = Other(e)
  BY OtherEnd
<1>3. PICK d \in Seq(Seq(Byte)), q \in Seq(Wire), r \in Seq(Byte), v \in Seq(Wire) :
        d = data[o] /\ q = msgQueue[e] /\ r = fragmentBuffer[e] /\ v = Accepted(o)
  BY AcceptedType DEF MsgInv, MsgTypes
<1>4. Len(d) = created[o] /\ Len(d) \in Nat
  BY <1>3, LenProperties DEF MsgInv, ChunksCut
<1>5. PICK a \in 0..Len(d), count \in Nat :
        /\ a = lastInOrder[e] + 1 /\ count = lastInOrder'[e] - lastInOrder[e]
        /\ count \in 0..(Len(d) - a)
        /\ a + count = lastInOrder'[e] + 1
  <2>1. PICK l, m \in Int : l = lastInOrder[e] /\ m = lastInOrder'[e]
    BY <1>1
  <2>2. -1 <= l /\ l <= m /\ m < Len(d)
    BY <1>1, <1>2, <1>4, <2>1
  <2>3. PICK k \in Nat : k = Len(d)
    BY <1>4
  <2>4. l \in Int /\ m \in Int /\ k \in Nat /\ -1 <= l /\ l <= m /\ m < k
    BY <2>2, <2>3
  <2>5. l + 1 \in 0..k
    BY ONLY <2>4
  <2>6. m - l \in Nat /\ m - l \in 0..(k - (l + 1))
    BY ONLY <2>4
  <2>7. (l + 1) + (m - l) = m + 1
    BY ONLY <2>4
  <2> QED  BY <2>1, <2>3, <2>5, <2>6, <2>7
<1> DEFINE h == CHOOSE g : g = [n \in 0..(lastInOrder'[e] - lastInOrder[e]) |->
                   IF n = 0 THEN [whole |-> <<>>, rest |-> fragmentBuffer[e]]
                   ELSE ConsumeChunk(g[n - 1],
                                     data[Other(e)][lastInOrder[e] + 1 + n])]
           result == h[lastInOrder'[e] - lastInOrder[e]]
<1>6. /\ msgQueue' = [msgQueue EXCEPT ![e] = @ \o result.whole]
      /\ fragmentBuffer' = [fragmentBuffer EXCEPT ![e] = result.rest]
      /\ UNCHANGED <<numSent, outgoingData, data>>
  BY DEF MsgReceive, ConsumeChunks
<1>7. Consuming(h, d, a, r, count)
  <2>1. PICK f : Consuming(f, d, a, r, count)
    BY <1>5, ConsumingExists
  <2>2. \A g : Consuming(g, d, a, r, count) <=>
           g = [n \in 0..(lastInOrder'[e] - lastInOrder[e]) |->
                   IF n = 0 THEN [whole |-> <<>>, rest |-> fragmentBuffer[e]]
                   ELSE ConsumeChunk(g[n - 1],
                                     data[Other(e)][lastInOrder[e] + 1 + n])]
    BY <1>2, <1>3, <1>5 DEF Consuming
  <2> QED  BY <2>1, <2>2
<1> HIDE DEF h
<1>8. PICK w, t : w = h[count].whole /\ t = h[count].rest
  OBVIOUS
<1>9. /\ w \in Seq(Wire)
      /\ Parsed(v, q \o w, t, FlattenSeq(SubSeq(d, 1, a + count)))
  <2>1. Parsed(v, q, r, FlattenSeq(SubSeq(d, 1, a)))
    BY <1>2, <1>3, <1>5 DEF MsgInv, PlaceKept
  <2>2. PICK y \in Seq(Byte) : FlattenSeq(d) \o y = FlattenSeq(v)
    <3>1. outgoingData[o] \in Seq(DOMAIN MsgLen)
      BY DEF MsgInv, MsgTypes
    <3>2. Joined(outgoingData[o]) \in Seq(Byte)
      BY <3>1, JoinedConcat
    <3>3. FlattenSeq(d) \o Joined(outgoingData[o]) = FlattenSeq(v)
      BY <1>3 DEF MsgInv, StreamKept
    <3> QED  BY <3>2, <3>3
  <2> QED  BY <1>5, <1>7, <1>8, <2>1, <2>2, ConsumeAll
<1>10. q \o w \in Seq(Wire) /\ t \in Seq(Byte)
  BY <1>9 DEF Parsed
<1>11. /\ msgQueue' = [msgQueue EXCEPT ![e] = q \o w]
       /\ fragmentBuffer' = [fragmentBuffer EXCEPT ![e] = t]
  BY <1>3, <1>5, <1>6, <1>8
<1>12. MsgTypes'
  BY <1>6, <1>10, <1>11 DEF MsgInv, MsgTypes
<1>13. ChunksCut'
  BY <1>1, <1>6 DEF MsgInv, ChunksCut
<1>14. \A c \in End : Accepted(c)' = Accepted(c)
  BY <1>6 DEF Accepted
<1>15. StreamKept'
  BY <1>6, <1>14 DEF MsgInv, StreamKept
<1>16. PlaceKept'
  <2>1. /\ msgQueue'[e] = q \o w /\ fragmentBuffer'[e] = t
        /\ \A c \in End \ {e} : /\ msgQueue'[c] = msgQueue[c]
                                /\ fragmentBuffer'[c] = fragmentBuffer[c]
    BY <1>11 DEF MsgInv, MsgTypes
  <2>2. Parsed(Accepted(Other(e)), msgQueue'[e], fragmentBuffer'[e],
               FlattenSeq(SubSeq(data[Other(e)], 1, lastInOrder'[e] + 1)))
    BY <1>2, <1>3, <1>5, <1>9, <2>1
  <2>3. \A c \in End \ {e} :
          Parsed(Accepted(Other(c)), msgQueue'[c], fragmentBuffer'[c],
                 FlattenSeq(SubSeq(data[Other(c)], 1, lastInOrder'[c] + 1)))
    BY <1>1, <2>1 DEF MsgInv, PlaceKept
  <2>4. \A c \in End : Accepted(Other(c))' = Accepted(Other(c)) /\ data' = data
    BY <1>6, <1>14, OtherEnd
  <2>5. \A c \in End :
          Parsed(Accepted(Other(c))', msgQueue'[c], fragmentBuffer'[c],
                 FlattenSeq(SubSeq(data'[Other(c)], 1, lastInOrder'[c] + 1)))
    BY <2>2, <2>3, <2>4
  <2> QED  BY <2>5 DEF PlaceKept, Other
<1>17. msgQueue' = [msgQueue EXCEPT ![e] = @ \o w]
  BY <1>3, <1>11
<1> QED  BY <1>9, <1>12, <1>13, <1>14, <1>15, <1>16, <1>17 DEF MsgInv

LEMMA MsgInvStep ==
    ASSUME MsgInv, IInv, ChunksExist, ChunksExist', TypeOK', [MsgNext]_allVars
    PROVE  MsgInv'
<1>1. CASE UNCHANGED <<messages, created, lastInOrder>>
  BY <1>1 DEF MsgInv, MsgTypes, ChunksCut, StreamKept, PlaceKept, Accepted, messages
<1>2. ASSUME NEW e \in End, SendData(e) PROVE MsgInv'
  <2>1. PICK m \in DOMAIN MsgLen :
          /\ outgoingData'[e] = outgoingData[e] \o <<m>>
          /\ Accepted(e)' = Accepted(e) \o Kept[m]
    BY <1>2, SendStep DEF MsgInv
  <2>2. /\ MsgTypes'
        /\ UNCHANGED <<data, fragmentBuffer, msgQueue, created, lastInOrder>>
        /\ \A d \in End \ {e} : /\ Accepted(d)' = Accepted(d)
                                /\ outgoingData'[d] = outgoingData[d]
    BY <1>2, SendStep DEF MsgInv
  <2>3. PICK o \in Seq(DOMAIN MsgLen), d \in Seq(Seq(Byte)), v \in Seq(Wire) :
          o = outgoingData[e] /\ d = data[e] /\ v = Accepted(e)
    BY AcceptedType DEF MsgInv, MsgTypes
  <2>4. PICK k \in Seq(Wire) : k = Kept[m] /\ FlattenSeq(k) = Sent[m]
    BY SentKept
  <2>5. ChunksCut'
    BY <2>2 DEF MsgInv, ChunksCut
  <2>6. FlattenSeq(data'[e]) \o Joined(outgoingData'[e]) = FlattenSeq(Accepted(e)')
    <3>1. PICK fd, jo, b : fd = FlattenSeq(d) /\ jo = Joined(o) /\ b = Sent[m]
      OBVIOUS
    <3>2. fd \in Seq(Byte) /\ jo \in Seq(Byte) /\ b \in Seq(Byte)
      BY <3>1, FlatType, JoinedConcat, SentKept
    <3>3. Joined(o \o <<m>>) = jo \o b
      <4>1. <<m>> \in Seq(DOMAIN MsgLen) /\ Joined(<<m>>) = b
        BY <3>1, JoinedOne
      <4> QED  BY <3>1, <4>1, JoinedConcat
    <3>4. (fd \o jo) \o b = fd \o (jo \o b)
      BY ONLY <3>2, ConcatAssociative, SMTT(30)
    <3>5. fd \o jo = FlattenSeq(v)
      BY <2>3, <3>1 DEF MsgInv, StreamKept
    <3>6. FlattenSeq(v \o k) = FlattenSeq(v) \o b
      <4>1. v \in Seq(Seq(Byte)) /\ k \in Seq(Seq(Byte))
        BY WireBytes
      <4> QED  BY <2>4, <3>1, <4>1, FlatConcat
    <3> QED  BY <2>1, <2>2, <2>3, <2>4, <3>1, <3>3, <3>4, <3>5, <3>6
  <2>7. StreamKept'
    <3>1. \A c \in End \ {e} :
            FlattenSeq(data'[c]) \o Joined(outgoingData'[c]) = FlattenSeq(Accepted(c)')
      BY <2>2 DEF MsgInv, StreamKept
    <3>2. \A c \in End :
            FlattenSeq(data'[c]) \o Joined(outgoingData'[c]) = FlattenSeq(Accepted(c)')
      BY <2>6, <3>1
    <3> QED  BY <3>2 DEF StreamKept
  <2>8. PlaceKept'
    <3>1. ASSUME NEW c \in End
          PROVE  Parsed(Accepted(Other(c))', msgQueue'[c], fragmentBuffer'[c],
                        FlattenSeq(SubSeq(data'[Other(c)], 1, lastInOrder'[c] + 1)))
      <4>1. PICK x : x = FlattenSeq(SubSeq(data[Other(c)], 1, lastInOrder[c] + 1))
        OBVIOUS
      <4>2. Parsed(Accepted(Other(c)), msgQueue[c], fragmentBuffer[c], x)
        BY <4>1 DEF MsgInv, PlaceKept
      <4>3. Parsed(Accepted(Other(c))', msgQueue[c], fragmentBuffer[c], x)
        <5>1. CASE Other(c) = e
          <6>1. Parsed(v, msgQueue[c], fragmentBuffer[c], x)
            BY <2>3, <4>2, <5>1
          <6>2. Parsed(v \o k, msgQueue[c], fragmentBuffer[c], x)
            BY <6>1, ParsedLonger
          <6>3. Accepted(Other(c))' = v \o k
            BY <2>1, <2>3, <2>4, <5>1
          <6> QED  BY <6>2, <6>3
        <5>2. CASE Other(c) # e
          BY <2>2, <4>2, <5>2, OtherEnd
        <5> QED  BY <5>1, <5>2
      <4> QED  BY <2>2, <4>1, <4>3
    <3> QED  BY <3>1 DEF PlaceKept, Other
  <2> QED  BY <2>2, <2>5, <2>7, <2>8 DEF MsgInv
<1>3. ASSUME NEW e \in End, NEW p \in net[e], MsgReceive(e, p) PROVE MsgInv'
  BY <1>3, ReceiveStep
<1>4. ASSUME NEW e \in End, NEW k \in 0..Len(outgoingData[e]), Handed(e, k) PROVE MsgInv'
  <2>1. /\ MsgTypes' /\ ChunksCut' /\ StreamKept'
        /\ UNCHANGED <<fragmentBuffer, msgQueue, lastInOrder>>
        /\ \A d \in End : /\ Accepted(d)' = Accepted(d)
                          /\ \E c \in Seq(Seq(Byte)) : data'[d] = data[d] \o c
    BY <1>4, HandedStep DEF MsgInv, IInv
  <2>2. ASSUME NEW d \in End
        PROVE  Parsed(Accepted(Other(d))', msgQueue'[d], fragmentBuffer'[d],
                      FlattenSeq(SubSeq(data'[Other(d)], 1, lastInOrder'[d] + 1)))
    <3>1. PICK o \in End : o = Other(d)
      BY OtherEnd
    <3>2. PICK b \in Seq(Seq(Byte)) : b = data[o]
      BY DEF MsgInv, MsgTypes
    <3>3. PICK c \in Seq(Seq(Byte)) : data'[o] = b \o c
      BY <2>1, <3>2
    <3>4. lastInOrder[d] + 1 \in 0..Len(b)
      <4>1. lastInOrder[d] \in Int /\ lastInOrder[d] >= -1
        BY LastInOrderType DEF IInv
      <4>2. lastInOrder[d] < created[o] /\ Len(b) = created[o] /\ Len(b) \in Nat
        BY <3>1, <3>2, LenProperties DEF ChunksExist, MsgInv, ChunksCut
      <4> QED  BY <4>1, <4>2
    <3>5. SubSeq(b \o c, 1, lastInOrder[d] + 1) = SubSeq(b, 1, lastInOrder[d] + 1)
      BY <3>4, PrefixOfConcat
    <3>6. Parsed(Accepted(o), msgQueue[d], fragmentBuffer[d],
                 FlattenSeq(SubSeq(b, 1, lastInOrder[d] + 1)))
      BY <3>1, <3>2 DEF MsgInv, PlaceKept
    <3> QED  BY <2>1, <3>1, <3>3, <3>5, <3>6
  <2>3. PlaceKept'
    BY <2>2 DEF PlaceKept, Other
  <2> QED  BY <2>1, <2>3 DEF MsgInv
<1> QED  BY <1>1, <1>2, <1>3, <1>4, MsgStepCases

LEMMA MsgInvInit == MsgInit => MsgInv
<1> SUFFICES ASSUME MsgInit PROVE MsgInv
  OBVIOUS
<1>1. /\ \A e \in End : /\ numSent[e] = 0 /\ outgoingData[e] = <<>> /\ data[e] = <<>>
                        /\ fragmentBuffer[e] = <<>> /\ msgQueue[e] = <<>>
                        /\ created[e] = 0 /\ lastInOrder[e] = -1
  BY DEF MsgInit, Init
<1>2. \A e \in End : Len(Script[e]) \in Nat
  <2> SUFFICES ASSUME NEW e \in End PROVE Len(Script[e]) \in Nat
    OBVIOUS
  <2>1. Script[e] \in Seq(DOMAIN MsgLen)
    BY MessageAssumption
  <2> QED  BY <2>1, LenProperties
<1>3. MsgTypes
  <2>1. /\ numSent \in [End -> Nat]
        /\ outgoingData \in [End -> Seq(DOMAIN MsgLen)]
        /\ data \in [End -> Seq(Seq(Byte))]
        /\ fragmentBuffer \in [End -> Seq(Byte)]
        /\ msgQueue \in [End -> Seq(Wire)]
    BY DEF MsgInit
  <2> QED  BY <1>1, <1>2, <2>1 DEF MsgTypes
<1>4. ChunksCut
  BY <1>1 DEF ChunksCut
<1>5. \A e \in End : Accepted(e) = <<>>
  <2> SUFFICES ASSUME NEW e \in End PROVE Accepted(e) = <<>>
    OBVIOUS
  <2>1. FirstN(Script[e], 0) = <<>>
    BY SubSeqEmpty DEF FirstN
  <2>2. Accepted(e) = Chosen(e, 0)
    BY <1>1, <1>2, ChosenType
  <2>3. MapSeq(Kept, <<>>) = <<>>
    BY DEF MapSeq
  <2> QED  BY <2>1, <2>2, <2>3, FlatEmpty DEF Chosen
<1>6. Joined(<<>>) = <<>>
  BY FlatEmpty DEF Joined
<1>7. <<>> \o <<>> = <<>>
  OBVIOUS
<1>8. StreamKept
  BY <1>1, <1>5, <1>6, <1>7, FlatEmpty DEF StreamKept
<1>9. PlaceKept
  <2> SUFFICES ASSUME NEW e \in End
               PROVE  Parsed(Accepted(Other(e)), msgQueue[e], fragmentBuffer[e],
                             FlattenSeq(SubSeq(data[Other(e)], 1, lastInOrder[e] + 1)))
    BY DEF PlaceKept
  <2>1. FlattenSeq(SubSeq(data[Other(e)], 1, lastInOrder[e] + 1)) = <<>>
    <3>1. lastInOrder[e] + 1 = 0
      BY <1>1
    <3>2. SubSeq(data[Other(e)], 1, 0) = <<>>
      BY SubSeqEmpty
    <3> QED  BY <3>1, <3>2, FlatEmpty
  <2>2. <<>> \in Seq(Wire) /\ <<>> \in Seq(Byte)
    OBVIOUS
  <2>3. Parsed(<<>>, <<>>, <<>>, <<>>)
    BY <1>7, <2>2, FlatEmpty DEF Parsed, Begins
  <2> QED  BY <1>1, <1>5, <2>1, <2>3, OtherEnd
<1> QED  BY <1>3, <1>4, <1>8, <1>9 DEF MsgInv

LEMMA MsgInvHolds == MsgSpec => [](MsgInv /\ IInv /\ ChunksExist)
<1>1. MsgInit => MsgInv
  BY MsgInvInit
<1>2. IInv => TypeOK
  BY DEF IInv
<1>3. MsgInv /\ IInv /\ ChunksExist /\ ChunksExist' /\ TypeOK' /\ [MsgNext]_allVars => MsgInv'
  BY MsgInvStep
<1> QED  BY <1>1, <1>2, <1>3, ChunkLayer, IInvHolds, OnlyCreatedChunks, PTL DEF MsgSpec

-----------------------------------------------------------------------------
(* What the connection promises its users.                                 *)

LEMMA MsgTyped ==
    ASSUME MsgTypes, ChunksCut, TypeOK
    PROVE  MsgTypeOK
<1>1. ASSUME NEW e \in End PROVE numSent[e] \in 0..Len(Script[e])
  <2>1. PICK s \in Seq(DOMAIN MsgLen) : s = Script[e]
    BY MessageAssumption
  <2>2. Len(s) \in Nat /\ numSent[e] \in Nat /\ numSent[e] <= Len(s)
    BY <2>1, LenProperties DEF MsgTypes
  <2> QED  BY <2>1, <2>2
<1>2. \A e \in End : outgoingData[e] \in Seq(DOMAIN MsgLen)
  BY DEF MsgTypes
<1> QED  BY <1>1, <1>2 DEF MsgTypeOK, ChunksCut

(***************************************************************************)
(* The sender's queue and its chunks have their types: Flush never cuts an *)
(* empty chunk, nor one longer than maxChunkSize bytes, and makes exactly  *)
(* as many as it numbers.                                                  *)
(***************************************************************************)
THEOREM MsgTypeCorrect == MsgSpec => []MsgTypeOK
<1>1. MsgInv /\ IInv => MsgTypeOK
  BY MsgTyped DEF MsgInv, IInv
<1> QED  BY <1>1, MsgInvHolds, PTL

LEMMA NextIsBegun ==
    ASSUME MsgInv, NEW e \in End, fragmentBuffer[e] # <<>>
    PROVE  LET next == Len(msgQueue[e]) + 1 IN
           /\ next <= Len(Accepted(Other(e)))
           /\ IsStrictPrefix(fragmentBuffer[e], Accepted(Other(e))[next])
<1>1. PICK v \in Seq(Wire), q \in Seq(Wire), r \in Seq(Byte) :
        v = Accepted(Other(e)) /\ q = msgQueue[e] /\ r = fragmentBuffer[e]
  BY AcceptedType, OtherEnd DEF MsgInv, MsgTypes
<1>2. PICK z \in Seq(Wire) : v = q \o z /\ Begins(r, z)
  BY <1>1 DEF MsgInv, PlaceKept, Parsed
<1>3. /\ z # <<>> /\ Len(r) < Len(z[1]) /\ \A i \in 1..Len(r) : r[i] = z[1][i]
  BY <1>1, <1>2 DEF Begins
<1>4. 1 \in 1..Len(z) /\ Len(z) \in Nat /\ Len(q) \in Nat
  BY <1>3
<1>5. PICK x \in Wire : x = z[1]
  BY <1>4, ElementOfSeq
<1>6. x \in Seq(Byte) /\ Len(x) \in Nat /\ Len(r) \in Nat
  BY WireMessages, LenProperties
<1>7. Len(v) = Len(q) + Len(z) /\ v[Len(q) + 1] = z[1]
  <2>1. /\ Len(q \o z) = Len(q) + Len(z)
        /\ \A i \in 1..(Len(q) + Len(z)) :
              (q \o z)[i] = IF i <= Len(q) THEN q[i] ELSE z[i - Len(q)]
    BY ConcatProperties
  <2>2. /\ Len(q) + 1 \in 1..(Len(q) + Len(z)) /\ ~(Len(q) + 1 <= Len(q))
        /\ (Len(q) + 1) - Len(q) = 1
    BY <1>4
  <2>3. (q \o z)[Len(q) + 1] = z[1]
    BY <2>1, <2>2
  <2> QED  BY <1>2, <2>1, <2>3
<1>8. SubSeq(r, 1, Len(r)) = SubSeq(x, 1, Len(r))
  <2>1. Len(r) \in 0..Len(r) /\ Len(r) \in 0..Len(x)
    BY <1>3, <1>5, <1>6
  <2>2. /\ SubSeq(r, 1, Len(r)) \in Seq(Byte) /\ Len(SubSeq(r, 1, Len(r))) = Len(r)
        /\ \A i \in 1..Len(r) : SubSeq(r, 1, Len(r))[i] = r[i]
    BY <2>1, Cutting
  <2>3. /\ SubSeq(x, 1, Len(r)) \in Seq(Byte) /\ Len(SubSeq(x, 1, Len(r))) = Len(r)
        /\ \A i \in 1..Len(r) : SubSeq(x, 1, Len(r))[i] = x[i]
    BY <1>6, <2>1, Cutting
  <2>4. \A i \in 1..Len(r) : r[i] = x[i]
    BY <1>3, <1>5
  <2> QED  BY <2>2, <2>3, <2>4, SeqEqual
<1>9. IsStrictPrefix(r, x)
  BY <1>3, <1>5, <1>6, <1>8 DEF IsStrictPrefix, IsPrefix
<1>10. Len(q) + 1 <= Len(v)
  BY <1>4, <1>7
<1> QED  BY <1>1, <1>5, <1>7, <1>9, <1>10

(***************************************************************************)
(* The fragment buffer of ProcessRawPacket is empty or the beginning of    *)
(* the very message that the other end handed over next, and never all of  *)
(* it: the receiver finds the beginning of every message.                  *)
(***************************************************************************)
THEOREM FragmentIsNext == MsgSpec => []FragmentIsNextMessage
<1>1. MsgInv => FragmentIsNextMessage
  BY NextIsBegun DEF FragmentIsNextMessage
<1> QED  BY <1>1, MsgInvHolds, PTL

-----------------------------------------------------------------------------
(* Each direction implements ReliableChannel.                              *)

(* a step of the channel that was given v and gave q, or none of its steps *)
ChannelStep(v, vNext, q, qNext) ==
    \/ vNext = v /\ qNext = q
    \/ qNext = q /\ \E m \in WireMessage : vNext = Append(v, m)
    \/ vNext = v /\ \E n \in (Len(q) + 1)..Len(v) : qNext = SubSeq(v, 1, n)

(* A step gives one message to a channel, or takes some from it, those     *)
(* that are next, or does nothing to it.                                   *)
LEMMA StreamStep ==
    ASSUME MsgInv, IInv, ChunksExist, ChunksExist', TypeOK', [MsgNext]_allVars,
           NEW o \in End, NEW e \in End, e = Other(o)
    PROVE  ChannelStep(Accepted(o), Accepted(o)', msgQueue[e], msgQueue'[e])
<1>1. CASE UNCHANGED <<messages, created, lastInOrder>>
  <2>1. Accepted(o)' = Accepted(o) /\ msgQueue'[e] = msgQueue[e]
    BY <1>1 DEF messages, Accepted
  <2> QED  BY <2>1 DEF ChannelStep
<1>2. CASE \E d \in End : SendData(d)
  <2>1. PICK d \in End : SendData(d)
    BY <1>2
  <2>2. PICK m \in DOMAIN MsgLen : Accepted(d)' = Accepted(d) \o Kept[m]
    BY <2>1, SendStep DEF MsgInv
  <2>3. /\ msgQueue' = msgQueue
        /\ \A c \in End \ {d} : Accepted(c)' = Accepted(c)
    BY <2>1, SendStep DEF MsgInv
  <2>4. CASE o # d
    BY <2>3, <2>4 DEF ChannelStep
  <2>5. CASE o = d /\ IsValidPacket(m)
    <3>1. PICK v \in Seq(Wire) : v = Accepted(o)
      BY AcceptedType DEF MsgInv
    <3>2. PICK x \in Wire : x = Bytes(m)
      BY <2>5 DEF Wire
    <3>3. Kept[m] = <<x>>
      BY <2>5, <3>2 DEF Kept
    <3>4. v \o <<x>> = Append(v, x)
      BY AppendIsConcat
    <3>5. x \in WireMessage
      BY <3>2 DEF WireMessage
    <3> QED  BY <2>2, <2>3, <2>5, <3>1, <3>3, <3>4, <3>5 DEF ChannelStep
  <2>6. CASE o = d /\ ~IsValidPacket(m)
    <3>1. PICK v \in Seq(Wire) : v = Accepted(o)
      BY AcceptedType DEF MsgInv
    <3>2. Kept[m] = <<>>
      BY <2>6 DEF Kept
    <3>3. v \o <<>> = v
      BY ConcatEmptySeq
    <3> QED  BY <2>2, <2>3, <2>6, <3>1, <3>2, <3>3 DEF ChannelStep
  <2> QED  BY <2>4, <2>5, <2>6
<1>3. CASE \E d \in End : \E p \in net[d] : MsgReceive(d, p)
  <2>0. PICK d \in End : \E p \in net[d] : MsgReceive(d, p)
    BY <1>3
  <2>1. PICK p \in net[d] : MsgReceive(d, p)
    BY <2>0
  <2>2. MsgInv' /\ Accepted(o)' = Accepted(o)
    BY <2>1, ReceiveStep
  <2>3. PICK w \in Seq(Wire) : msgQueue' = [msgQueue EXCEPT ![d] = @ \o w]
    BY <2>1, ReceiveStep
  <2>4. CASE d # e
    <3>1. msgQueue'[e] = msgQueue[e]
      BY <2>3, <2>4 DEF MsgInv, MsgTypes
    <3> QED  BY <2>2, <3>1 DEF ChannelStep
  <2>5. CASE d = e
    <3>1. PICK v \in Seq(Wire), q \in Seq(Wire) : v = Accepted(o) /\ q = msgQueue[e]
      BY AcceptedType DEF MsgInv, MsgTypes
    <3>2. msgQueue'[e] = q \o w
      BY <2>3, <2>5, <3>1 DEF MsgInv, MsgTypes
    <3>3. PICK z \in Seq(Wire) : v = (q \o w) \o z
      <4>1. Accepted(Other(e))' = v
        BY <2>2, <3>1, OtherEnd
      <4>2. \E z \in Seq(Wire) : Accepted(Other(e))' = msgQueue'[e] \o z
        BY <2>2 DEF MsgInv, PlaceKept, Parsed, Other
      <4> QED  BY <3>2, <4>1, <4>2
    <3>4. CASE w = <<>>
      <4>1. q \o w = q
        BY <3>4, ConcatEmptySeq
      <4> QED  BY <2>2, <3>1, <3>2, <4>1 DEF ChannelStep
    <3>5. CASE w # <<>>
      <4>1. PICK u \in Seq(Wire) : u = q \o w /\ Len(u) = Len(q) + Len(w)
        BY ConcatProperties
      <4>2. Len(q) \in Nat /\ Len(w) \in Nat /\ Len(w) > 0 /\ Len(z) \in Nat
        BY <3>5
      <4>3. Len(v) = Len(u) + Len(z)
        BY <3>3, <4>1, ConcatProperties
      <4>4. Len(u) \in (Len(q) + 1)..Len(v) /\ Len(u) \in 0..Len(u)
        BY <4>1, <4>2, <4>3
      <4>5. SubSeq(v, 1, Len(u)) = SubSeq(u, 1, Len(u))
        BY <3>3, <4>1, <4>4, PrefixOfConcat
      <4>6. SubSeq(u, 1, Len(u)) = u
        BY SubSeqFull
      <4> QED  BY <2>2, <3>1, <3>2, <4>1, <4>4, <4>5, <4>6 DEF ChannelStep
    <3> QED  BY <3>4, <3>5
  <2> QED  BY <2>4, <2>5
<1>4. CASE \E d \in End : \E k \in 0..Len(outgoingData[d]) : Handed(d, k)
  <2>0. PICK d \in End : \E k \in 0..Len(outgoingData[d]) : Handed(d, k)
    BY <1>4
  <2>1. PICK k \in 0..Len(outgoingData[d]) : Handed(d, k)
    BY <2>0
  <2>2. msgQueue' = msgQueue /\ Accepted(o)' = Accepted(o)
    BY <2>1, HandedStep DEF MsgInv, IInv
  <2> QED  BY <2>2 DEF ChannelStep
<1> QED  BY <1>1, <1>2, <1>3, <1>4, MsgStepCases

LEMMA ChannelsBegin ==
    ASSUME MsgInit, NEW o \in End
    PROVE  Accepted(o) = <<>> /\ msgQueue[o] = <<>>
<1>1. numSent[o] = 0 /\ msgQueue[o] = <<>>
  BY DEF MsgInit
<1>2. PICK s \in Seq(DOMAIN MsgLen) : s = Script[o]
  BY MessageAssumption
<1>3. Accepted(o) = Chosen(o, 0)
  BY <1>1, <1>2, LenProperties, ChosenType
<1>4. FirstN(Script[o], 0) = <<>>
  BY SubSeqEmpty DEF FirstN
<1>5. MapSeq(Kept, <<>>) = <<>>
  BY DEF MapSeq
<1> QED  BY <1>1, <1>3, <1>4, <1>5, FlatEmpty DEF Chosen

(***************************************************************************)
(* What the client hands to SendData comes out of the message queue of the *)
(* server unchanged, in order and once, whatever the network loses, doubles *)
(* and reorders, whatever Flush cuts and however often a chunk is resent.  *)
(***************************************************************************)
THEOREM ToServerHolds == MsgSpec => ToServerReliable
<1>1. Client \in End /\ Server \in End /\ Server = Other(Client)
  BY DEF End, Other
<1>2. MsgInit => ToServer!Init
  BY <1>1, ChannelsBegin DEF ToServer!Init
<1>3. IInv => TypeOK
  BY DEF IInv
<1>4. MsgInv /\ IInv /\ ChunksExist /\ ChunksExist' /\ TypeOK' /\ [MsgNext]_allVars
         => [ToServer!Next]_<<Accepted(Client), msgQueue[Server]>>
  <2> SUFFICES ASSUME MsgInv, IInv, ChunksExist, ChunksExist', TypeOK', [MsgNext]_allVars
               PROVE  [ToServer!Next]_<<Accepted(Client), msgQueue[Server]>>
    OBVIOUS
  <2>1. ChannelStep(Accepted(Client), Accepted(Client)', msgQueue[Server], msgQueue'[Server])
    BY <1>1, StreamStep
  <2> QED  BY <2>1 DEF ChannelStep, ToServer!Next, ToServer!Send, ToServer!Deliver
<1> QED  BY <1>2, <1>3, <1>4, MsgInvHolds, PTL DEF MsgSpec, ToServerReliable, ToServer!Spec

(***************************************************************************)
(* The same of what the server hands over to the client.                   *)
(***************************************************************************)
THEOREM ToClientHolds == MsgSpec => ToClientReliable
<1>1. Client \in End /\ Server \in End /\ Client = Other(Server)
  BY EndAssumption DEF End, Other
<1>2. MsgInit => ToClient!Init
  BY <1>1, ChannelsBegin DEF ToClient!Init
<1>3. IInv => TypeOK
  BY DEF IInv
<1>4. MsgInv /\ IInv /\ ChunksExist /\ ChunksExist' /\ TypeOK' /\ [MsgNext]_allVars
         => [ToClient!Next]_<<Accepted(Server), msgQueue[Client]>>
  <2> SUFFICES ASSUME MsgInv, IInv, ChunksExist, ChunksExist', TypeOK', [MsgNext]_allVars
               PROVE  [ToClient!Next]_<<Accepted(Server), msgQueue[Client]>>
    OBVIOUS
  <2>1. ChannelStep(Accepted(Server), Accepted(Server)', msgQueue[Client], msgQueue'[Client])
    BY <1>1, StreamStep
  <2> QED  BY <2>1 DEF ChannelStep, ToClient!Next, ToClient!Send, ToClient!Deliver
<1> QED  BY <1>2, <1>3, <1>4, MsgInvHolds, PTL DEF MsgSpec, ToClientReliable, ToClient!Spec

=============================================================================
