------------------------------ MODULE Filters ------------------------------
(***************************************************************************)
(* Sequences as lists of entries.  Only is what SelectSeq selects, as a    *)
(* recursive function that can be reasoned about: the entries that belong  *)
(* to a set, in their order.  The lemmas say what joining two lists,       *)
(* taking an end off, and filtering leave.  Filtering, whatever the        *)
(* length, leaves exactly the entries in the set; that proof is by         *)
(* induction, and the induction principle itself, stated for sets of       *)
(* numbers, follows from the well-foundedness of <.                        *)
(***************************************************************************)
EXTENDS Integers, Sequences, Functions, TLAPS, WellFoundedInduction

OnlySoFar(s, S) ==
    LET kept[i \in 0 .. Len(s)] ==
            IF i = 0 THEN <<>>
            ELSE IF s[i] \in S THEN Append(kept[i - 1], s[i]) ELSE kept[i - 1]
    IN kept
Only(s, S) == OnlySoFar(s, S)[Len(s)]

(* The first entry and the others. *)
LEMMA TailFacts ==
    ASSUME NEW A, NEW s \in Seq(A), s # <<>>
    PROVE  /\ Head(s) \in A /\ Head(s) \in Range(s) /\ Tail(s) \in Seq(A)
           /\ Range(s) = {Head(s)} \cup Range(Tail(s))
           /\ Len(s) = 1 <=> Tail(s) = <<>>
           /\ IsInjective(s) => IsInjective(Tail(s)) /\ Head(s) \notin Range(Tail(s))
<1>1. /\ Len(s) \in Nat \ {0} /\ DOMAIN s = 1 .. Len(s) /\ Head(s) = s[1] /\ s[1] \in A
      /\ Tail(s) \in Seq(A) /\ Len(Tail(s)) = Len(s) - 1 /\ DOMAIN Tail(s) = 1 .. Len(s) - 1
      /\ \A i \in 1 .. Len(s) - 1 : Tail(s)[i] = s[i + 1]
  OBVIOUS
<1>2. Range(s) = {Head(s)} \cup Range(Tail(s))
  <2>1. \A k \in 2 .. Len(s) : k - 1 \in 1 .. Len(s) - 1 /\ Tail(s)[k - 1] = s[k]
    BY <1>1
  <2>2. \A k \in 1 .. Len(s) - 1 : k + 1 \in 1 .. Len(s)
    BY <1>1
  <2>3. \A k \in 1 .. Len(s) : k = 1 \/ k \in 2 .. Len(s)
    BY <1>1
  <2>4. Range(Tail(s)) \subseteq Range(s)
    BY <1>1, <2>2 DEF Range
  <2>5. Head(s) \in Range(s)
    BY <1>1 DEF Range
  <2>6. Range(s) \subseteq {Head(s)} \cup Range(Tail(s))
    <3> SUFFICES ASSUME NEW k \in 1 .. Len(s) PROVE s[k] \in {Head(s)} \cup Range(Tail(s))
      BY <1>1 DEF Range
    <3>1. CASE k = 1
      BY <1>1, <3>1
    <3>2. CASE k \in 2 .. Len(s)
      BY <1>1, <2>1, <3>2 DEF Range
    <3> QED  BY <2>3, <3>1, <3>2
  <2> QED  BY <2>4, <2>5, <2>6
<1>3. ASSUME IsInjective(s) PROVE IsInjective(Tail(s)) /\ Head(s) \notin Range(Tail(s))
  <2>1. ASSUME NEW i \in 1 .. Len(s) - 1, NEW k \in 1 .. Len(s) - 1, Tail(s)[i] = Tail(s)[k]
        PROVE  i = k
    <3>1. s[i + 1] = s[k + 1] /\ i + 1 \in DOMAIN s /\ k + 1 \in DOMAIN s
      BY <1>1, <2>1
    <3>2. i + 1 = k + 1
      BY <1>3, <3>1 DEF IsInjective
    <3> QED  BY <1>1, <3>2
  <2>2. ASSUME NEW i \in 1 .. Len(s) - 1, Tail(s)[i] = Head(s) PROVE FALSE
    <3>1. s[i + 1] = s[1] /\ i + 1 \in DOMAIN s /\ 1 \in DOMAIN s /\ i + 1 # 1
      BY <1>1, <2>2
    <3> QED  BY <1>3, <3>1 DEF IsInjective
  <2> QED  BY <1>1, <2>1, <2>2 DEF IsInjective, Range
<1> QED  BY <1>1, <1>2, <1>3

(* The last entry and the others. *)
LEMMA LastFacts ==
    ASSUME NEW A, NEW s \in Seq(A), s # <<>>
    PROVE  LET t == SubSeq(s, 1, Len(s) - 1) IN
           /\ s[Len(s)] \in A /\ s[Len(s)] \in Range(s) /\ t \in Seq(A) /\ Len(t) = Len(s) - 1
           /\ \A i \in 1 .. Len(t) : t[i] = s[i]
           /\ Range(s) = {s[Len(s)]} \cup Range(t)
           /\ IsInjective(s) => IsInjective(t) /\ s[Len(s)] \notin Range(t)
<1> DEFINE t == SubSeq(s, 1, Len(s) - 1)
<1>1. /\ Len(s) \in Nat \ {0} /\ DOMAIN s = 1 .. Len(s) /\ s[Len(s)] \in A
      /\ t \in Seq(A) /\ Len(t) = Len(s) - 1 /\ DOMAIN t = 1 .. Len(s) - 1
      /\ \A i \in 1 .. Len(s) - 1 : t[i] = s[i]
  <2>1. Len(s) \in Nat \ {0} /\ DOMAIN s = 1 .. Len(s) /\ s[Len(s)] \in A
    OBVIOUS
  <2>2. \A i \in 1 .. Len(s) - 1 : s[i] \in A
    OBVIOUS
  <2>3. t = [i \in 1 .. Len(s) - 1 |-> s[i]]
    BY <2>1
  <2> DEFINE m == Len(s) - 1
  <2>4. m \in Nat /\ t = [i \in 1 .. m |-> s[i]]
    BY <2>1, <2>3
  <2> HIDE DEF t, m
  <2>5. t \in [1 .. m -> A]
    BY <2>2, <2>4 DEF m
  <2>6. t \in Seq(A) /\ Len(t) = m /\ DOMAIN t = 1 .. m
    BY <2>4, <2>5
  <2> QED  BY <2>1, <2>4, <2>6 DEF m
<1> HIDE DEF t
<1>2. Range(s) = {s[Len(s)]} \cup Range(t)
  <2>1. Len(s) \in Nat \ {0}
    BY <1>1
  <2> DEFINE m == Len(s)
  <2> HIDE DEF m
  <2>2. /\ \A k \in 1 .. m : k = m \/ k \in 1 .. m - 1
        /\ \A k \in 1 .. m - 1 : k \in 1 .. m
        /\ m \in 1 .. m
    BY <2>1 DEF m
  <2>3. s[m] \in Range(s) /\ Range(t) \subseteq Range(s)
    BY <1>1, <2>2 DEF Range, m
  <2>4. Range(s) \subseteq {s[m]} \cup Range(t)
    <3> SUFFICES ASSUME NEW k \in 1 .. m PROVE s[k] \in {s[m]} \cup Range(t)
      BY <1>1 DEF Range, m
    <3>1. CASE k = m
      BY <3>1
    <3>2. CASE k \in 1 .. m - 1
      BY <1>1, <3>2 DEF Range, m
    <3> QED  BY <2>2, <3>1, <3>2
  <2> QED  BY <2>3, <2>4 DEF m
<1>3. ASSUME IsInjective(s) PROVE IsInjective(t) /\ s[Len(s)] \notin Range(t)
  <2>1. ASSUME NEW i \in 1 .. Len(s) - 1, NEW k \in 1 .. Len(s) - 1, t[i] = t[k] PROVE i = k
    BY <1>1, <1>3, <2>1 DEF IsInjective
  <2>2. ASSUME NEW i \in 1 .. Len(s) - 1, t[i] = s[Len(s)] PROVE FALSE
    BY <1>1, <1>3, <2>2 DEF IsInjective
  <2> QED  BY <1>1, <2>1, <2>2 DEF IsInjective, Range
<1> QED  BY <1>1, <1>2, <1>3 DEF t

(* One entry more. *)
LEMMA AppendFacts ==
    ASSUME NEW A, NEW s \in Seq(A), NEW x \in A
    PROVE  /\ Append(s, x) \in Seq(A) /\ Len(Append(s, x)) = Len(s) + 1
           /\ \A i \in 1 .. Len(s) : Append(s, x)[i] = s[i]
           /\ Append(s, x)[Len(s) + 1] = x
           /\ Range(Append(s, x)) = Range(s) \cup {x}
           /\ IsInjective(s) /\ x \notin Range(s) => IsInjective(Append(s, x))
<1> DEFINE t == Append(s, x)
<1>1. /\ Len(s) \in Nat /\ DOMAIN s = 1 .. Len(s) /\ t \in Seq(A) /\ Len(t) = Len(s) + 1
      /\ DOMAIN t = 1 .. Len(s) + 1 /\ t[Len(s) + 1] = x
      /\ \A i \in 1 .. Len(s) : t[i] = s[i]
  OBVIOUS
<1> HIDE DEF t
<1>2. \A k \in 1 .. Len(s) + 1 : k = Len(s) + 1 \/ k \in 1 .. Len(s)
  BY <1>1
<1>3. Range(t) = Range(s) \cup {x}
  BY <1>1, <1>2 DEF Range
<1>4. ASSUME IsInjective(s), x \notin Range(s), NEW i \in 1 .. Len(s) + 1, NEW k \in 1 .. Len(s) + 1,
             t[i] = t[k]
      PROVE  i = k
  BY <1>1, <1>2, <1>4 DEF IsInjective, Range
<1> QED  BY <1>1, <1>3, <1>4 DEF IsInjective, t

(* Two sequences, one after the other. *)
LEMMA JoinFacts ==
    ASSUME NEW A, NEW a \in Seq(A), NEW b \in Seq(A)
    PROVE  /\ a \o b \in Seq(A) /\ Range(a \o b) = Range(a) \cup Range(b)
           /\ IsInjective(a) /\ IsInjective(b) /\ Range(a) \cap Range(b) = {} => IsInjective(a \o b)
<1> DEFINE c == a \o b
<1>1. /\ c \in Seq(A) /\ Len(a) \in Nat /\ Len(b) \in Nat
      /\ DOMAIN a = 1 .. Len(a) /\ DOMAIN b = 1 .. Len(b)
      /\ DOMAIN c = 1 .. Len(a) + Len(b)
      /\ \A k \in 1 .. Len(a) : c[k] = a[k]
      /\ \A k \in Len(a) + 1 .. Len(a) + Len(b) : c[k] = b[k - Len(a)]
  OBVIOUS
<1> HIDE DEF c
<1>2. \A k \in 1 .. Len(b) : /\ k + Len(a) \in Len(a) + 1 .. Len(a) + Len(b)
                            /\ (k + Len(a)) - Len(a) = k
  BY <1>1
<1>3. \A k \in Len(a) + 1 .. Len(a) + Len(b) : k - Len(a) \in 1 .. Len(b)
  BY <1>1
<1>4. Range(c) = Range(a) \cup Range(b)
  <2>1. \A k \in 1 .. Len(b) : c[k + Len(a)] = b[k]
    BY <1>1, <1>2
  <2>2. Range(a) \subseteq Range(c)
    BY <1>1 DEF Range
  <2>3. Range(b) \subseteq Range(c)
    BY <1>1, <1>2, <2>1 DEF Range
  <2>4. Range(c) \subseteq Range(a) \cup Range(b)
    <3>1. \A k \in 1 .. Len(a) + Len(b) :
              k \in 1 .. Len(a) \/ k \in Len(a) + 1 .. Len(a) + Len(b)
      BY <1>1
    <3> QED  BY <1>1, <1>3, <3>1 DEF Range
  <2> QED  BY <2>2, <2>3, <2>4
<1>5. ASSUME IsInjective(a), IsInjective(b), Range(a) \cap Range(b) = {},
             NEW i \in 1 .. Len(a) + Len(b), NEW k \in 1 .. Len(a) + Len(b), c[i] = c[k]
      PROVE  i = k
  <2>1. \A h \in 1 .. Len(a) : c[h] = a[h] /\ a[h] \in Range(a)
    BY <1>1 DEF Range
  <2>2. \A h \in Len(a) + 1 .. Len(a) + Len(b) :
            h - Len(a) \in DOMAIN b /\ c[h] = b[h - Len(a)] /\ b[h - Len(a)] \in Range(b)
    BY <1>1, <1>3 DEF Range
  <2>3. CASE i \in 1 .. Len(a) /\ k \in 1 .. Len(a)
    BY <1>1, <1>5, <2>1, <2>3 DEF IsInjective
  <2>4. CASE i \notin 1 .. Len(a) /\ k \notin 1 .. Len(a)
    <3>1. /\ i \in Len(a) + 1 .. Len(a) + Len(b) /\ k \in Len(a) + 1 .. Len(a) + Len(b)
          /\ b[i - Len(a)] = b[k - Len(a)]
      BY <1>1, <1>5, <2>2, <2>4
    <3>2. i - Len(a) = k - Len(a)
      BY <1>5, <2>2, <3>1 DEF IsInjective
    <3> QED  BY <1>1, <3>1, <3>2
  <2>5. CASE i \in 1 .. Len(a) /\ k \notin 1 .. Len(a)
    BY <1>1, <1>5, <2>1, <2>2, <2>5
  <2>6. CASE i \notin 1 .. Len(a) /\ k \in 1 .. Len(a)
    BY <1>1, <1>5, <2>1, <2>2, <2>6
  <2> QED  BY <2>3, <2>4, <2>5, <2>6
<1> QED  BY <1>1, <1>4, <1>5 DEF IsInjective, c

\* One step of that function.
Extended(s, S, t, i) == IF s[i] \in S THEN Append(t, s[i]) ELSE t

Less == {p \in Nat \X Nat : p[1] < p[2]}
LEMMA LessIsWellFounded == IsWellFoundedOn(Less, Nat)
  BY NatLessThanWellFounded, Zenon DEF OpToRel, Less

(* Induction: a set of numbers that holds 0 and with every number the next holds all. *)
LEMMA AllNumbers ==
    ASSUME NEW M, 0 \in M, \A n \in Nat : n \in M => n + 1 \in M
    PROVE  Nat \subseteq M
<1>1. SUFFICES ASSUME Nat \ M # {} PROVE FALSE
  OBVIOUS
<1>2. PICK x \in Nat \ M : \A y \in Nat \ M : <<y, x>> \notin Less
  <2>1. Nat \ M \subseteq Nat
    OBVIOUS
  <2> QED  BY <1>1, <2>1, LessIsWellFounded, WFMin
<1>3. x # 0 /\ x - 1 \in Nat /\ (x - 1) + 1 = x
  BY <1>2
<1>4. <<x - 1, x>> \in Less
  BY <1>2, <1>3 DEF Less
<1>5. x - 1 \in M
  BY <1>2, <1>3, <1>4
<1> QED  BY <1>2, <1>3, <1>5

(* The recursive function satisfies its equations. *)
LEMMA OnlyEquations ==
    ASSUME NEW A, NEW s \in Seq(A), NEW S
    PROVE  /\ OnlySoFar(s, S)[0] = <<>>
           /\ \A i \in 1 .. Len(s) :
                OnlySoFar(s, S)[i] = Extended(s, S, OnlySoFar(s, S)[i - 1], i)
<1> DEFINE R(f, n) == f = [i \in 0 .. n |-> IF i = 0 THEN <<>> ELSE
                                IF s[i] \in S THEN Append(f[i - 1], s[i]) ELSE f[i - 1]]
           M == {n \in Nat : \E f : R(f, n)}
<1>1. 0 \in M
  <2>1. R([i \in 0 .. 0 |-> <<>>], 0)
    OBVIOUS
  <2> QED  BY <2>1
<1>2. ASSUME NEW n \in Nat, n \in M PROVE n + 1 \in M
  <2>1. PICK f : R(f, n)
    BY <1>2
  <2> DEFINE g == [i \in 0 .. n + 1 |-> IF i = n + 1 THEN Extended(s, S, f[n], n + 1) ELSE f[i]]
  <2>2. \A i \in 0 .. n : g[i] = f[i]
    OBVIOUS
  <2>3. \A i \in 0 .. n : f[i] = IF i = 0 THEN <<>> ELSE
                                IF s[i] \in S THEN Append(f[i - 1], s[i]) ELSE f[i - 1]
    BY <2>1
  <2>4. ASSUME NEW i \in 0 .. n + 1
        PROVE  g[i] = IF i = 0 THEN <<>> ELSE
                                IF s[i] \in S THEN Append(g[i - 1], s[i]) ELSE g[i - 1]
    <3>1. CASE i = n + 1
      BY <3>1, <2>2 DEF Extended
    <3>2. CASE i \in 0 .. n
      <4>1. i # 0 => i - 1 \in 0 .. n
        BY <3>2
      <4> QED  BY <3>2, <4>1, <2>2, <2>3
    <3> QED  BY <3>1, <3>2
  <2>5. R(g, n + 1)
    BY <2>4
  <2> HIDE DEF R
  <2>6. \E h : R(h, n + 1)
    BY <2>5
  <2> QED  BY <2>6
<1>3. Len(s) \in M
  <2>1. Len(s) \in Nat
    OBVIOUS
  <2> HIDE DEF M
  <2> QED  BY <1>1, <1>2, <2>1, AllNumbers
<1>4. \E f : R(f, Len(s))
  BY <1>3
<1>5. OnlySoFar(s, S) = CHOOSE f : R(f, Len(s))
  BY DEF OnlySoFar
<1>6. R(OnlySoFar(s, S), Len(s))
  BY <1>4, <1>5
<1> DEFINE F == OnlySoFar(s, S)
<1> HIDE DEF F
<1>7. F = [i \in 0 .. Len(s) |-> IF i = 0 THEN <<>> ELSE
                IF s[i] \in S THEN Append(F[i - 1], s[i]) ELSE F[i - 1]]
  BY <1>6 DEF F
<1>8. Len(s) \in Nat
  OBVIOUS
<1>9. F[0] = <<>>
  BY <1>7, <1>8
<1>10. ASSUME NEW i \in 1 .. Len(s)
       PROVE  F[i] = IF s[i] \in S THEN Append(F[i - 1], s[i]) ELSE F[i - 1]
  <2>1. i \in 0 .. Len(s) /\ i # 0
    BY <1>8
  <2>2. \A h \in 0 .. Len(s) : F[h] = IF h = 0 THEN <<>> ELSE
                IF s[h] \in S THEN Append(F[h - 1], s[h]) ELSE F[h - 1]
    BY <1>7, Zenon
  <2> QED  BY <2>1, <2>2, Zenon
<1> QED  BY <1>9, <1>10 DEF Extended, F

(* What is left are the entries in the set, all of them. *)
LEMMA OnlySelects ==
    ASSUME NEW A, NEW s \in Seq(A), NEW S
    PROVE  /\ Only(s, S) \in Seq(A)
           /\ Range(Only(s, S)) = Range(s) \cap S
<1> DEFINE F == OnlySoFar(s, S)
           Holds(n) == /\ F[n] \in Seq(A)
                       /\ Range(F[n]) = {s[i] : i \in 1 .. n} \cap S
           M == {n \in Nat : n <= Len(s) => Holds(n)}
<1>1. /\ F[0] = <<>>
      /\ \A i \in 1 .. Len(s) : F[i] = Extended(s, S, F[i - 1], i)
  BY OnlyEquations
<1>2. Len(s) \in Nat /\ DOMAIN s = 1 .. Len(s) /\ \A i \in 1 .. Len(s) : s[i] \in A
  OBVIOUS
<1> HIDE DEF F
<1>3. 0 \in M
  <2>1. <<>> \in Seq(A) /\ Range(<<>>) = {}
    BY DEF Range
  <2>2. {s[i] : i \in 1 .. 0} = {}
    OBVIOUS
  <2> QED  BY <1>1, <2>1, <2>2
<1>4. ASSUME NEW n \in Nat, n \in M PROVE n + 1 \in M
  <2> SUFFICES ASSUME n + 1 <= Len(s) PROVE Holds(n + 1)
    OBVIOUS
  <2>1. Holds(n) /\ n + 1 \in 1 .. Len(s) /\ (n + 1) - 1 = n
    BY <1>2, <1>4
  <2>2. F[n + 1] = Extended(s, S, F[n], n + 1)
    BY <1>1, <2>1
  <2>3. {s[i] : i \in 1 .. n + 1} = {s[i] : i \in 1 .. n} \cup {s[n + 1]}
    <3>1. 1 .. n + 1 = (1 .. n) \cup {n + 1}
      OBVIOUS
    <3> QED  BY <3>1
  <2>4. CASE s[n + 1] \in S
    <3>1. F[n + 1] = Append(F[n], s[n + 1])
      BY <2>2, <2>4 DEF Extended
    <3>2. Range(F[n + 1]) = Range(F[n]) \cup {s[n + 1]}
      <4>1. s[n + 1] \in A /\ F[n] \in Seq(A)
        BY <1>2, <2>1
      <4>2. /\ DOMAIN F[n] = 1 .. Len(F[n]) /\ Len(F[n]) \in Nat
            /\ DOMAIN F[n + 1] = 1 .. Len(F[n]) + 1
            /\ F[n + 1][Len(F[n]) + 1] = s[n + 1]
            /\ \A i \in 1 .. Len(F[n]) : F[n + 1][i] = F[n][i]
        BY <3>1, <4>1
      <4> QED  BY <4>2 DEF Range
    <3>3. F[n + 1] \in Seq(A)
      BY <1>2, <2>1, <3>1
    <3> QED  BY <2>1, <2>3, <2>4, <3>2, <3>3
  <2>5. CASE s[n + 1] \notin S
    <3>1. F[n + 1] = F[n]
      BY <2>2, <2>5 DEF Extended
    <3> QED  BY <2>1, <2>3, <2>5, <3>1
  <2> QED  BY <2>4, <2>5
<1>5. Len(s) \in M
  <2> HIDE DEF M
  <2> QED  BY <1>2, <1>3, <1>4, AllNumbers
<1>6. Holds(Len(s))
  BY <1>2, <1>5
<1>7. Range(s) = {s[i] : i \in 1 .. Len(s)}
  BY <1>2 DEF Range
<1> QED  BY <1>6, <1>7 DEF Only, F

(* It lists no entry twice that was listed once. *)
LEMMA OnlyOnce ==
    ASSUME NEW A, NEW s \in Seq(A), NEW S, IsInjective(s)
    PROVE  IsInjective(Only(s, S))
<1> DEFINE F == OnlySoFar(s, S)
           Holds(n) == /\ F[n] \in Seq(A) /\ IsInjective(F[n])
                       /\ \A k \in DOMAIN F[n] : \E i \in 1 .. n : F[n][k] = s[i]
           M == {n \in Nat : n <= Len(s) => Holds(n)}
<1>1. /\ F[0] = <<>>
      /\ \A i \in 1 .. Len(s) : F[i] = Extended(s, S, F[i - 1], i)
  BY OnlyEquations
<1>2. Len(s) \in Nat /\ DOMAIN s = 1 .. Len(s) /\ \A i \in 1 .. Len(s) : s[i] \in A
  OBVIOUS
<1> HIDE DEF F
<1>3. 0 \in M
  <2>1. <<>> \in Seq(A) /\ DOMAIN <<>> = {} /\ IsInjective(<<>>)
    BY DEF IsInjective
  <2> QED  BY <1>1, <2>1
<1>4. ASSUME NEW n \in Nat, n \in M PROVE n + 1 \in M
  <2> SUFFICES ASSUME n + 1 <= Len(s) PROVE Holds(n + 1)
    OBVIOUS
  <2>1. Holds(n) /\ n + 1 \in 1 .. Len(s) /\ (n + 1) - 1 = n
    BY <1>2, <1>4
  <2>2. F[n + 1] = Extended(s, S, F[n], n + 1)
    BY <1>1, <2>1
  <2>3. CASE F[n + 1] = F[n]
    <3>1. \A i \in 1 .. n : i \in 1 .. n + 1
      OBVIOUS
    <3> QED  BY <2>1, <2>3, <3>1
  <2>4. CASE F[n + 1] = Append(F[n], s[n + 1])
    <3>1. s[n + 1] \in A /\ F[n] \in Seq(A)
      BY <1>2, <2>1
    <3>2. /\ DOMAIN F[n] = 1 .. Len(F[n]) /\ Len(F[n]) \in Nat
          /\ DOMAIN F[n + 1] = 1 .. Len(F[n]) + 1 /\ F[n + 1] \in Seq(A)
          /\ F[n + 1][Len(F[n]) + 1] = s[n + 1]
          /\ \A i \in 1 .. Len(F[n]) : F[n + 1][i] = F[n][i]
      BY <2>4, <3>1
    <3>3. \A k \in 1 .. Len(F[n]) : F[n][k] # s[n + 1]
      <4> SUFFICES ASSUME NEW k \in 1 .. Len(F[n]), F[n][k] = s[n + 1] PROVE FALSE
        OBVIOUS
      <4>1. PICK i \in 1 .. n : F[n][k] = s[i]
        BY <2>1, <3>2
      <4>2. i \in DOMAIN s /\ n + 1 \in DOMAIN s /\ i # n + 1 /\ s[i] = s[n + 1]
        BY <1>2, <2>1, <4>1
      <4> QED  BY <4>2 DEF IsInjective
    <3>4. IsInjective(F[n + 1])
      <4> SUFFICES ASSUME NEW a \in 1 .. Len(F[n]) + 1, NEW b \in 1 .. Len(F[n]) + 1,
                          F[n + 1][a] = F[n + 1][b]
                   PROVE  a = b
        BY <3>2 DEF IsInjective
      <4>1. CASE a \in 1 .. Len(F[n]) /\ b \in 1 .. Len(F[n])
        BY <2>1, <3>2, <4>1 DEF IsInjective
      <4>2. CASE a = Len(F[n]) + 1 /\ b # a
        BY <3>2, <3>3, <4>2
      <4>3. CASE b = Len(F[n]) + 1 /\ b # a
        BY <3>2, <3>3, <4>3
      <4> QED  BY <3>2, <4>1, <4>2, <4>3
    <3>5. \A k \in DOMAIN F[n + 1] : \E i \in 1 .. n + 1 : F[n + 1][k] = s[i]
      <4> SUFFICES ASSUME NEW k \in 1 .. Len(F[n]) + 1
                   PROVE  \E i \in 1 .. n + 1 : F[n + 1][k] = s[i]
        BY <3>2
      <4>1. CASE k = Len(F[n]) + 1
        BY <2>1, <3>2, <4>1
      <4>2. CASE k \in 1 .. Len(F[n])
        <5>1. PICK i \in 1 .. n : F[n][k] = s[i]
          BY <2>1, <3>2, <4>2
        <5>2. i \in 1 .. n + 1
          OBVIOUS
        <5> QED  BY <3>2, <4>2, <5>1, <5>2
      <4> QED  BY <3>2, <4>1, <4>2
    <3> QED  BY <3>2, <3>4, <3>5
  <2> QED  BY <2>2, <2>3, <2>4 DEF Extended
<1>5. Len(s) \in M
  <2> HIDE DEF M
  <2> QED  BY <1>2, <1>3, <1>4, AllNumbers
<1> QED  BY <1>2, <1>5 DEF Only, F
=============================================================================
