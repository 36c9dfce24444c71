-------------------------- MODULE Subsequences_proofs --------------------------
(***************************************************************************)
(* What Only returns, for every sequence and every set.                    *)
(*                                                                         *)
(* The induction is over a set of numbers: that a set of naturals has a    *)
(* least element follows from the library's theorem that strict inclusion  *)
(* of finite sets is well-founded, and needs no operator parameter.        *)
(***************************************************************************)
EXTENDS Subsequences, SequenceTheorems, FiniteSetTheorems, WellFoundedInduction, TLAPS

-----------------------------------------------------------------------------
(* Induction. *)

\* A set of naturals that is not empty has a least element.
LEMMA LeastNatural ==
  ASSUME NEW T \in SUBSET Nat, NEW k \in T
  PROVE  \E n \in T : \A m \in T : n <= m
<1> DEFINE U == {1 .. n : n \in T}
<1>1. U \subseteq FiniteSubsetsOf(Nat) /\ U # {}
  BY FS_Interval DEF FiniteSubsetsOf
<1>2. PICK x \in U : \A y \in U : ~(<<y, x>> \in StrictSubsetOrdering(Nat))
  <2>1. IsWellFoundedOn(StrictSubsetOrdering(Nat), FiniteSubsetsOf(Nat))
    BY FS_StrictSubsetOrderingWellFounded
  <2> QED BY <1>1, <2>1, WFMin, Zenon
<1>3. PICK n \in T : x = 1 .. n
  BY <1>2
<1>4. ASSUME NEW m \in T, m < n PROVE FALSE
  <2>1. /\ 1 .. m \in U /\ 1 .. m \subseteq Nat /\ 1 .. n \subseteq Nat
        /\ 1 .. m \subseteq 1 .. n /\ n \in 1 .. n /\ n \notin 1 .. m
    BY <1>4
  <2>2. <<1 .. m, 1 .. n>> \in StrictSubsetOrdering(Nat)
    BY <2>1, Zenon DEF StrictSubsetOrdering
  <2> QED BY <1>2, <1>3, <2>1, <2>2
<1> QED BY <1>4

\* Induction over the naturals, for a set in place of a predicate.
LEMMA SetInduction ==
  ASSUME NEW T, 0 \in T, \A n \in Nat : n \in T => n + 1 \in T
  PROVE  Nat \subseteq T
<1> SUFFICES ASSUME NEW k \in Nat \ T PROVE FALSE
  OBVIOUS
<1>1. PICK n \in Nat \ T : \A m \in Nat \ T : n <= m
  BY LeastNatural
<1>2. n - 1 \in Nat /\ n - 1 \notin T
  BY <1>1
<1> QED BY <1>1, <1>2

-----------------------------------------------------------------------------
(* The filter. *)

Filtered(q, S, n, f) ==
  f = [i \in 0 .. n |->
        IF i = 0 THEN <<>>
        ELSE IF q[i] \in S THEN Append(f[i - 1], q[i]) ELSE f[i - 1]]

\* The recursive definition in Only has a solution.
LEMMA FilteredExist ==
  ASSUME NEW q, NEW S
  PROVE  \A n \in Nat : \E f : Filtered(q, S, n, f)
<1> DEFINE T == {n \in Nat : \E f : Filtered(q, S, n, f)}
<1>1. 0 \in T
  <2> DEFINE f == [i \in 0 .. 0 |-> <<>>]
  <2>1. Filtered(q, S, 0, f)
    BY DEF Filtered
  <2> QED BY <2>1
<1>2. ASSUME NEW n \in T PROVE n + 1 \in T
  <2>1. PICK f : Filtered(q, S, n, f)
    OBVIOUS
  <2> DEFINE last == IF q[n + 1] \in S THEN Append(f[n], q[n + 1]) ELSE f[n]
             g == [i \in 0 .. n + 1 |-> IF i = n + 1 THEN last ELSE f[i]]
  <2>2. \A i \in 0 .. n : f[i] = IF i = 0 THEN <<>>
                                 ELSE IF q[i] \in S THEN Append(f[i - 1], q[i]) ELSE f[i - 1]
    BY <2>1 DEF Filtered
  <2>3. \A i \in 0 .. n + 1 :
          g[i] = IF i = 0 THEN <<>>
                 ELSE IF q[i] \in S THEN Append(g[i - 1], q[i]) ELSE g[i - 1]
    <3>1. TAKE i \in 0 .. n + 1
    <3>2. CASE i = n + 1
      BY <3>2
    <3>3. CASE i # n + 1
      BY <2>2, <3>3
    <3> QED BY <3>2, <3>3
  <2>4. Filtered(q, S, n + 1, g)
    <3> DEFINE h == [i \in 0 .. n + 1 |->
                       IF i = 0 THEN <<>>
                       ELSE IF q[i] \in S THEN Append(g[i - 1], q[i]) ELSE g[i - 1]]
    <3>1. g = h
      BY <2>3, Zenon
    <3> QED BY <3>1 DEF Filtered
  <2> QED BY <2>4
<1> HIDE DEF T
<1>3. Nat \subseteq T
  BY <1>1, <1>2, SetInduction
<1> QED BY <1>3 DEF T

\* f embeds t into the first n elements of q: in order, exactly those in S.
Embeds(f, t, q, n, S) ==
  /\ f \in [1 .. Len(t) -> 1 .. n]
  /\ \A i, j \in 1 .. Len(t) : i < j => f[i] < f[j]
  /\ \A i \in 1 .. Len(t) : t[i] = q[f[i]] /\ t[i] \in S
  /\ \A k \in 1 .. n : q[k] \in S => \E i \in 1 .. Len(t) : f[i] = k

\* One more element that stays.
LEMMA EmbedOneMore ==
  ASSUME NEW T, NEW q, NEW t \in Seq(T), NEW n \in Nat, NEW S, NEW f,
         Embeds(f, t, q, n, S), q[n + 1] \in T, q[n + 1] \in S
  PROVE  \E g : Embeds(g, Append(t, q[n + 1]), q, n + 1, S)
<1> DEFINE u == Append(t, q[n + 1])
           g == [i \in 1 .. Len(t) + 1 |-> IF i = Len(t) + 1 THEN n + 1 ELSE f[i]]
<1>1. /\ Len(t) \in Nat /\ Len(u) = Len(t) + 1
      /\ \A i \in 1 .. Len(t) : u[i] = t[i]
      /\ u[Len(t) + 1] = q[n + 1]
  BY AppendProperties
<1> HIDE DEF u
<1>2. /\ f \in [1 .. Len(t) -> 1 .. n]
      /\ \A i, j \in 1 .. Len(t) : i < j => f[i] < f[j]
      /\ \A i \in 1 .. Len(t) : t[i] = q[f[i]] /\ t[i] \in S
      /\ \A k \in 1 .. n : q[k] \in S => \E i \in 1 .. Len(t) : f[i] = k
  BY DEF Embeds
<1>3. g \in [1 .. Len(u) -> 1 .. n + 1]
  BY <1>1, <1>2
<1>4. \A i, j \in 1 .. Len(u) : i < j => g[i] < g[j]
  BY <1>1, <1>2
<1>5. \A i \in 1 .. Len(u) : u[i] = q[g[i]] /\ u[i] \in S
  BY <1>1, <1>2
<1>6. \A k \in 1 .. n + 1 : q[k] \in S => \E i \in 1 .. Len(u) : g[i] = k
  <2> SUFFICES ASSUME NEW k \in 1 .. n + 1, q[k] \in S
               PROVE  \E i \in 1 .. Len(u) : g[i] = k
    OBVIOUS
  <2>1. CASE k = n + 1
    BY <1>1, <2>1
  <2>2. CASE k # n + 1
    <3>1. PICK i \in 1 .. Len(t) : f[i] = k
      BY <1>2, <2>2
    <3> QED BY <1>1, <3>1
  <2> QED BY <2>1, <2>2
<1>7. Embeds(g, u, q, n + 1, S)
  BY <1>3, <1>4, <1>5, <1>6 DEF Embeds
<1> QED BY <1>7 DEF u

\* One more element that goes.
LEMMA EmbedNoMore ==
  ASSUME NEW q, NEW t, NEW n \in Nat, NEW S, NEW f,
         Len(t) \in Nat, Embeds(f, t, q, n, S), q[n + 1] \notin S
  PROVE  Embeds(f, t, q, n + 1, S)
<1>1. f \in [1 .. Len(t) -> 1 .. n + 1]
  BY DEF Embeds
<1>2. \A k \in 1 .. n + 1 : q[k] \in S => k \in 1 .. n
  OBVIOUS
<1> QED BY <1>1, <1>2 DEF Embeds

\* Only returns the elements that are in the set, all of them, in their order.
THEOREM OnlyEmbeds ==
  ASSUME NEW T, NEW q \in Seq(T), NEW S
  PROVE  /\ Only(q, S) \in Seq(T) /\ Len(Only(q, S)) <= Len(q)
         /\ \E f : Embeds(f, Only(q, S), q, Len(q), S)
<1> DEFINE F == CHOOSE g : Filtered(q, S, Len(q), g)
           Good(n) == /\ F[n] \in Seq(T) /\ Len(F[n]) <= n
                      /\ \E f : Embeds(f, F[n], q, n, S)
           G == {n \in Nat : n <= Len(q) => Good(n)}
<1>1. Len(q) \in Nat /\ \A n \in 1 .. Len(q) : q[n] \in T
  BY LenProperties, ElementOfSeq
<1>2. Only(q, S) = F[Len(q)]
  BY Zenon DEF Only, Filtered
<1>3. Filtered(q, S, Len(q), F)
  BY <1>1, FilteredExist, Zenon
<1> HIDE DEF F
<1>4. F[0] = <<>>
  BY <1>1, <1>3 DEF Filtered
<1>5. \A n \in 1 .. Len(q) :
        F[n] = IF q[n] \in S THEN Append(F[n - 1], q[n]) ELSE F[n - 1]
  <2>1. \A n \in 0 .. Len(q) :
          F[n] = IF n = 0 THEN <<>>
                 ELSE IF q[n] \in S THEN Append(F[n - 1], q[n]) ELSE F[n - 1]
    BY <1>3, Zenon DEF Filtered
  <2>2. \A n \in 1 .. Len(q) : n \in 0 .. Len(q) /\ n # 0
    BY <1>1
  <2> QED BY <2>1, <2>2, Zenon
<1>6. Good(0)
  <2>1. F[0] \in Seq(T) /\ Len(F[0]) = 0
    BY <1>4, EmptySeq, Zenon
  <2>2. Embeds([i \in 1 .. 0 |-> i], F[0], q, 0, S)
    BY <2>1 DEF Embeds
  <2> QED BY <2>1, <2>2
<1>7. ASSUME NEW n \in Nat, n + 1 <= Len(q), Good(n) PROVE Good(n + 1)
  <2>1. n + 1 \in 1 .. Len(q) /\ (n + 1) - 1 = n /\ q[n + 1] \in T
    BY <1>1, <1>7
  <2>2. PICK f : Embeds(f, F[n], q, n, S)
    BY <1>7
  <2>3. F[n] \in Seq(T) /\ Len(F[n]) \in Nat /\ Len(F[n]) <= n
    BY <1>7, LenProperties
  <2>4. CASE q[n + 1] \in S
    <3>1. F[n + 1] = Append(F[n], q[n + 1])
      BY <1>5, <2>1, <2>4
    <3>2. F[n + 1] \in Seq(T) /\ Len(F[n + 1]) = Len(F[n]) + 1
      BY <2>1, <2>3, <3>1, AppendProperties
    <3>3. \E g : Embeds(g, F[n + 1], q, n + 1, S)
      BY <2>1, <2>2, <2>3, <2>4, <3>1, EmbedOneMore, Zenon
    <3> QED BY <2>3, <3>2, <3>3
  <2>5. CASE q[n + 1] \notin S
    <3>1. F[n + 1] = F[n]
      BY <1>5, <2>1, <2>5
    <3>2. Embeds(f, F[n + 1], q, n + 1, S)
      BY <2>2, <2>3, <2>5, <3>1, EmbedNoMore, Zenon
    <3> QED BY <2>3, <3>1, <3>2
  <2> QED BY <2>4, <2>5
<1> HIDE DEF Good
<1>8. 0 \in G /\ \A n \in Nat : n \in G => n + 1 \in G
  BY <1>1, <1>6, <1>7
<1>9. Len(q) \in G
  <2> HIDE DEF G
  <2> QED BY <1>1, <1>8, SetInduction
<1>10. Good(Len(q))
  BY <1>1, <1>9
<1> QED BY <1>2, <1>10 DEF Good

\* What is left was there and is in the set.
LEMMA OnlyElements ==
  ASSUME NEW T, NEW q \in Seq(T), NEW S
  PROVE  /\ Only(q, S) \in Seq(T) /\ Len(Only(q, S)) <= Len(q)
         /\ \A i \in DOMAIN Only(q, S) :
              Only(q, S)[i] \in S /\ \E k \in DOMAIN q : Only(q, S)[i] = q[k]
         /\ \A k \in DOMAIN q : q[k] \in S => \E i \in DOMAIN Only(q, S) : Only(q, S)[i] = q[k]
<1>1. PICK f : Embeds(f, Only(q, S), q, Len(q), S)
  BY OnlyEmbeds
<1>2. /\ Only(q, S) \in Seq(T) /\ Len(Only(q, S)) <= Len(q)
      /\ DOMAIN Only(q, S) = 1 .. Len(Only(q, S)) /\ DOMAIN q = 1 .. Len(q)
  BY OnlyEmbeds, LenProperties
<1> HIDE DEF Embeds
<1>3. /\ f \in [1 .. Len(Only(q, S)) -> 1 .. Len(q)]
      /\ \A i \in 1 .. Len(Only(q, S)) : Only(q, S)[i] = q[f[i]] /\ Only(q, S)[i] \in S
      /\ \A k \in 1 .. Len(q) : q[k] \in S => \E i \in 1 .. Len(Only(q, S)) : f[i] = k
  BY <1>1, Zenon DEF Embeds
<1> QED BY <1>2, <1>3

\* The order of what is left is the order it was in: two elements of the result are
\* two of the sequence, in the same order.
LEMMA OnlyKeepsOrder ==
  ASSUME NEW T, NEW q \in Seq(T), NEW S,
         NEW i \in DOMAIN Only(q, S), NEW j \in DOMAIN Only(q, S), i < j
  PROVE  \E k, l \in DOMAIN q : k < l /\ Only(q, S)[i] = q[k] /\ Only(q, S)[j] = q[l]
<1>1. PICK f : Embeds(f, Only(q, S), q, Len(q), S)
  BY OnlyEmbeds
<1>2. /\ DOMAIN Only(q, S) = 1 .. Len(Only(q, S)) /\ DOMAIN q = 1 .. Len(q)
  BY OnlyEmbeds, LenProperties
<1>3. f[i] \in DOMAIN q /\ f[j] \in DOMAIN q /\ f[i] < f[j]
  BY <1>1, <1>2 DEF Embeds
<1>4. Only(q, S)[i] = q[f[i]] /\ Only(q, S)[j] = q[f[j]]
  BY <1>1, <1>2 DEF Embeds
<1> QED BY <1>3, <1>4
=============================================================================
