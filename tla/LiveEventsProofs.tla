-------------------------- MODULE LiveEventsProofs --------------------------
(***************************************************************************)
(* What a grid search reports fits together, and an open page misses none  *)
(* of it: for any numbers of searches, candidates and top models, and any  *)
(* values of rmse.  SearchInv says how far the worker of a search and its  *)
(* job are, point by point; of the ranking it says, beyond Leads, that no  *)
(* fit is left out while there is room.                                    *)
(***************************************************************************)
EXTENDS LiveEvents, Filters, FiniteSetTheorems

-----------------------------------------------------------------------------
(* What each operation of the job store does to the stored jobs, for any   *)
(* payloads and any number of jobs.  StoreOK is what all preserve.         *)

\* The finished jobs are listed once they have finished, and only they are.
StoreOK ==
    /\ Stored \subseteq Jobs
    /\ ended \in Seq(Jobs)
    /\ Range(ended) = Stored \ Live

\* The jobs of a set are what they were.
Same(S) == \A i \in S : i \in Stored /\ jobs'[i] = jobs[i]

(* What is left of the finished jobs when the oldest k are forgotten. *)
LEMMA KeptEnded ==
    ASSUME StoreOK, NEW k \in 0 .. Len(ended)
    PROVE  /\ Kept(k) \in Seq(Jobs)
           /\ Range(Kept(k)) \subseteq Range(ended)
           /\ Range(Kept(k)) \subseteq Stored /\ Range(Kept(k)) \cap Live = {}
<1>1. /\ Kept(k) \in Seq(Jobs) /\ Len(Kept(k)) = Len(ended) - k
      /\ \A i \in 1 .. Len(Kept(k)) : Kept(k)[i] = ended[i + k]
  BY DEF StoreOK, Kept
<1>2. Range(Kept(k)) \subseteq Range(ended)
  BY <1>1 DEF Range, StoreOK
<1> QED  BY <1>1, <1>2 DEF StoreOK

(* Adding a running job to the store keeps all that run and leaves the others that it
   keeps as they are. *)
LEMMA AddStep ==
    ASSUME StoreOK, NEW j \in Jobs, NEW payload, NEW k \in 0 .. Len(ended),
           Add(j, payload, k), payload.status = "running"
    PROVE  /\ StoreOK' /\ Live' = Live \cup {j}
           /\ j \notin Stored /\ j \in Stored' /\ jobs'[j] = payload
           /\ Stored' \subseteq Stored \cup {j} /\ Same(Stored' \ {j})
           /\ ended' = Kept(k)
<1>1. jobs' = [i \in {j} \cup DOMAIN Without(k) |-> IF i = j THEN payload ELSE Without(k)[i]] /\ ended' = Kept(k) /\ j \notin Stored
  BY DEF Add
<1>2. DOMAIN Without(k) = Live \cup Range(Kept(k))
  BY DEF Without
<1>3. /\ Stored' = {j} \cup Live \cup Range(Kept(k))
      /\ jobs'[j] = payload
      /\ \A i \in Stored' \ {j} : jobs'[i] = Without(k)[i]
  BY <1>1, <1>2 DEF Stored
<1>4. Live \subseteq Stored /\ Range(Kept(k)) \subseteq Stored /\ Range(Kept(k)) \cap Live = {}
  BY KeptEnded DEF Live
<1>5. \A i \in Stored' \ {j} : i \in Stored /\ jobs'[i] = jobs[i]
  BY <1>3, <1>4, <1>1 DEF Without
<1>6. Live' = Live \cup {j}
  BY <1>3, <1>4, <1>5, <1>1 DEF Live, StoreOK
<1>7. Range(ended') = Stored' \ Live'
  BY <1>1, <1>3, <1>4, <1>6
<1>8. StoreOK'
  BY <1>1, <1>3, <1>4, <1>7, KeptEnded DEF StoreOK, Range
<1> QED  BY <1>1, <1>3, <1>4, <1>5, <1>6, <1>8 DEF Same

(* Pruning forgets finished jobs only. *)
LEMMA PruneStep ==
    ASSUME StoreOK, NEW k \in 0 .. Len(ended), Prune(k)
    PROVE  /\ StoreOK' /\ Live' = Live
           /\ Stored' \subseteq Stored /\ Same(Stored')
           /\ ended' = Kept(k)
<1>1. jobs' = Without(k) /\ ended' = Kept(k)
  BY DEF Prune
<1>2. Stored' = Live \cup Range(Kept(k)) /\ \A i \in Stored' : jobs'[i] = jobs[i]
  BY <1>1 DEF Without, Stored
<1>3. Live \subseteq Stored /\ Range(Kept(k)) \subseteq Stored /\ Range(Kept(k)) \cap Live = {}
  BY KeptEnded DEF Live
<1>4. Live' = Live
  BY <1>2, <1>3 DEF Live
<1>5. StoreOK'
  BY <1>1, <1>2, <1>3, <1>4, KeptEnded DEF StoreOK
<1> QED  BY <1>1, <1>2, <1>3, <1>4, <1>5 DEF Same

(* An update that leaves the status alone changes one job and no list. *)
LEMMA UpdateStep ==
    ASSUME StoreOK, NEW j, NEW fields, Update(j, fields), "status" \notin DOMAIN fields,
           "status" \in DOMAIN jobs[j]
    PROVE  /\ StoreOK' /\ Live' = Live /\ Stored' = Stored /\ ended' = ended
           /\ j \in Stored /\ jobs'[j] = WithFields(jobs[j], fields)
           /\ Same(Stored \ {j})
<1>1. j \in Stored /\ jobs' = [jobs EXCEPT ![j] = WithFields(jobs[j], fields)] /\ ended' = ended
  BY DEF Update
<1>2. /\ Stored' = Stored /\ jobs'[j] = WithFields(jobs[j], fields)
      /\ \A i \in Stored \ {j} : jobs'[i] = jobs[i]
  BY <1>1 DEF Stored
<1>3. jobs'[j].status = jobs[j].status
  BY <1>2 DEF WithFields
<1>4. Live' = Live
  BY <1>2, <1>3 DEF Live
<1> QED  BY <1>1, <1>2, <1>4 DEF Same, StoreOK

(* A running job that finishes is listed as the latest. *)
LEMMA FinishStep ==
    ASSUME StoreOK, NEW j \in Live, NEW fields, FinishWith(j, fields),
           "status" \in DOMAIN fields, fields.status # "running"
    PROVE  /\ StoreOK' /\ Live' = Live \ {j} /\ Stored' = Stored
           /\ ended' = Append(ended, j)
           /\ jobs'[j] = WithFields(jobs[j], fields)
           /\ Same(Stored \ {j})
<1>1. j \in Stored /\ jobs' = [jobs EXCEPT ![j] = WithFields(jobs[j], fields)] /\ ended' = Append(ended, j)
  BY DEF FinishWith
<1>2. /\ Stored' = Stored /\ jobs'[j] = WithFields(jobs[j], fields)
      /\ \A i \in Stored \ {j} : jobs'[i] = jobs[i]
  BY <1>1 DEF Stored
<1>3. jobs'[j].status # "running"
  BY <1>2 DEF WithFields
<1>4. Live' = Live \ {j}
  BY <1>2, <1>3 DEF Live
<1>5. ended \in Seq(Jobs) /\ j \in Jobs
  BY <1>1 DEF StoreOK
<1>6. Range(ended') = Range(ended) \cup {j}
  <2>1. /\ Len(Append(ended, j)) = Len(ended) + 1 /\ Append(ended, j)[Len(ended) + 1] = j
        /\ \A i \in 1 .. Len(ended) : Append(ended, j)[i] = ended[i]
    BY <1>5
  <2>2. DOMAIN ended = 1 .. Len(ended) /\ DOMAIN Append(ended, j) = 1 .. Len(ended) + 1
    BY <1>5
  <2>3. Len(ended) \in Nat
    BY <1>5
  <2> QED  BY <1>1, <2>1, <2>2, <2>3 DEF Range
<1>7. StoreOK'
  BY <1>1, <1>2, <1>4, <1>5, <1>6 DEF StoreOK, Live
<1> QED  BY <1>1, <1>2, <1>4, <1>7 DEF Same

-----------------------------------------------------------------------------
(* The invariant.                                                          *)

\* The best of the fits, in order, and all of them while there are few.
Ordered(result, fits) == Leads(result, fits) /\ (Len(result.top) < Top => Range(result.top) = fits)

-----------------------------------------------------------------------------
(* The ranking.                                                            *)

(* A part of 1 .. n that holds what is below its members is all that is up to its size. *)
LEMMA InitialPart ==
    ASSUME NEW n \in Nat, NEW S, S \subseteq 1 .. n,
           \A i \in S : \A k \in 1 .. n : k < i => k \in S
    PROVE  /\ Cardinality(S) \in 0 .. n
           /\ S = 1 .. Cardinality(S)
<1> DEFINE Z == {k \in Nat : k >= 1 /\ k \notin S}
<1>1. n + 1 \in Z
  OBVIOUS
<1>2. PICK x \in Z : \A y \in Z : <<y, x>> \notin Less
  <2>1. Z \subseteq Nat
    OBVIOUS
  <2> HIDE DEF Z
  <2> QED  BY <1>1, <2>1, LessIsWellFounded, WFMin
<1>3. x \in Nat /\ x >= 1 /\ x \notin S
  OBVIOUS
<1>4. \A k \in 1 .. x - 1 : k \in S
  <2> SUFFICES ASSUME NEW k \in 1 .. x - 1, k \notin S PROVE FALSE
    OBVIOUS
  <2>1. k \in Z /\ k < x /\ k \in Nat /\ x \in Nat
    BY <1>3
  <2> QED  BY <1>2, <2>1 DEF Less
<1>5. x <= n + 1
  <2> SUFFICES ASSUME n + 1 < x PROVE FALSE
    BY <1>3
  <2>1. <<n + 1, x>> \in Less
    BY <1>3 DEF Less
  <2> HIDE DEF Z
  <2> QED  BY <1>1, <1>2, <2>1
<1>6. S = 1 .. x - 1
  <2>1. \A i \in S : i \in 1 .. x - 1
    BY <1>3, <1>5
  <2> HIDE DEF Z
  <2> QED  BY <1>4, <2>1
<1>7. Cardinality(S) = x - 1
  <2>1. 1 \in Int /\ x - 1 \in Int
    BY <1>3
  <2> QED  BY <1>3, <1>6, <2>1, FS_Interval
<1> QED  BY <1>3, <1>5, <1>6, <1>7

(* Where a fit goes among those in order: before the first that is worse. *)
LEMMA RankedPlaces ==
    ASSUME NEW s \in Seq(Fits), NEW fit \in Fits,
           \A i, k \in DOMAIN s : i < k => s[i].rmse <= s[k].rmse
    PROVE  \E c \in 0 .. Len(s) :
             /\ \A i \in 1 .. Len(s) : i <= c <=> s[i].rmse <= fit.rmse
             /\ Ranked(s, fit) \in Seq(Fits) /\ Len(Ranked(s, fit)) = Len(s) + 1
             /\ \A i \in 1 .. Len(s) + 1 : Ranked(s, fit)[i] =
                    IF i <= c THEN s[i] ELSE IF i = c + 1 THEN fit ELSE s[i - 1]
<1> DEFINE S == {i \in DOMAIN s : s[i].rmse <= fit.rmse}
           c == Cardinality(S)
<1>1. Len(s) \in Nat /\ DOMAIN s = 1 .. Len(s) /\ \A i \in 1 .. Len(s) : s[i] \in Fits
  OBVIOUS
<1>2. \A f \in Fits : f.rmse \in Nat
  BY SearchAssumption DEF Fits
<1>3. \A i \in S : \A k \in 1 .. Len(s) : k < i => k \in S
  <2> SUFFICES ASSUME NEW i \in S, NEW k \in 1 .. Len(s), k < i PROVE k \in S
    OBVIOUS
  <2>1. s[k].rmse <= s[i].rmse /\ s[i].rmse <= fit.rmse
    BY <1>1
  <2>2. s[k].rmse \in Nat /\ s[i].rmse \in Nat /\ fit.rmse \in Nat
    BY <1>1, <1>2
  <2> QED  BY <1>1, <2>1, <2>2
<1>4. c \in 0 .. Len(s) /\ S = 1 .. c
  <2>1. S \subseteq 1 .. Len(s)
    BY <1>1
  <2> HIDE DEF S
  <2> QED  BY <1>1, <1>3, <2>1, InitialPart
<1>5. \A i \in 1 .. Len(s) : i <= c <=> s[i].rmse <= fit.rmse
  BY <1>1, <1>4
<1>6. Ranked(s, fit) = SubSeq(s, 1, c) \o <<fit>> \o SubSeq(s, c + 1, Len(s))
  <2>1. (c + 1) - 1 = c
    BY <1>4
  <2> QED  BY <2>1 DEF Ranked, InsertAt
<1> HIDE DEF c, S
<1>7. /\ SubSeq(s, 1, c) \in Seq(Fits) /\ Len(SubSeq(s, 1, c)) = c
      /\ \A i \in 1 .. c : SubSeq(s, 1, c)[i] = s[i]
  BY <1>1, <1>4
<1>8. /\ SubSeq(s, c + 1, Len(s)) \in Seq(Fits) /\ Len(SubSeq(s, c + 1, Len(s))) = Len(s) - c
      /\ \A i \in 1 .. Len(s) - c : SubSeq(s, c + 1, Len(s))[i] = s[c + i]
  <2>1. \A i \in c + 1 .. Len(s) : s[i] \in Fits
    BY <1>1, <1>4
  <2>2. c + 1 \in 1 .. Len(s) + 1 /\ c \in Nat
    BY <1>1, <1>4
  <2>3. SubSeq(s, c + 1, Len(s)) \in Seq(Fits)
    BY <1>1, <2>1, <2>2
  <2>4. Len(SubSeq(s, c + 1, Len(s))) = Len(s) - c
    <3>0. c \in Nat /\ Len(s) \in Nat /\ c <= Len(s)
      BY <1>1, <1>4
    <3>1. CASE c < Len(s)
      <4>1. c + 1 <= Len(s)
        BY <3>0, <3>1
      <4> QED  BY <3>0, <4>1
    <3>2. CASE c = Len(s)
      <4>1. SubSeq(s, c + 1, Len(s)) = <<>>
        BY <3>0, <3>2
      <4> QED  BY <3>0, <3>2, <4>1
    <3> QED  BY <3>0, <3>1, <3>2
  <2>5. \A i \in 1 .. Len(s) - c : SubSeq(s, c + 1, Len(s))[i] = s[c + i]
    BY <1>1, <2>2
  <2> QED  BY <2>3, <2>4, <2>5
<1> DEFINE a == SubSeq(s, 1, c)
           b == SubSeq(s, c + 1, Len(s))
<1> HIDE DEF a, b
<1>9. LET r == a \o <<fit>> \o b IN
      /\ r \in Seq(Fits) /\ Len(r) = Len(a) + 1 + Len(b)
      /\ \A i \in 1 .. Len(a) : r[i] = a[i]
      /\ r[Len(a) + 1] = fit
      /\ \A i \in 1 .. Len(b) : r[Len(a) + 1 + i] = b[i]
  <2>1. a \in Seq(Fits) /\ b \in Seq(Fits)
    BY <1>7, <1>8 DEF a, b
  <2> QED  BY <2>1
<1>10. /\ Ranked(s, fit) \in Seq(Fits) /\ Len(Ranked(s, fit)) = Len(s) + 1
       /\ \A i \in 1 .. c : Ranked(s, fit)[i] = s[i]
       /\ Ranked(s, fit)[c + 1] = fit
       /\ \A i \in 1 .. Len(s) - c : Ranked(s, fit)[c + 1 + i] = s[c + i]
  <2>1. Ranked(s, fit) = a \o <<fit>> \o b
    BY <1>6 DEF a, b
  <2>2. Len(a) = c /\ Len(b) = Len(s) - c
    BY <1>7, <1>8 DEF a, b
  <2>3. (\A i \in 1 .. c : a[i] = s[i]) /\ (\A i \in 1 .. Len(s) - c : b[i] = s[c + i])
    BY <1>7, <1>8 DEF a, b
  <2>4. c + 1 + (Len(s) - c) = Len(s) + 1
    BY <1>1, <1>4
  <2> QED  BY <1>9, <2>1, <2>2, <2>3, <2>4
<1>11. \A i \in 1 .. Len(s) + 1 : i > c + 1 =>
          /\ i - c - 1 \in 1 .. Len(s) - c /\ c + 1 + (i - c - 1) = i /\ c + (i - c - 1) = i - 1
  BY <1>1, <1>4
<1>12. \A i \in 1 .. Len(s) + 1 : Ranked(s, fit)[i] =
                    IF i <= c THEN s[i] ELSE IF i = c + 1 THEN fit ELSE s[i - 1]
  <2> TAKE i \in 1 .. Len(s) + 1
  <2>1. CASE i <= c
    BY <1>4, <1>10, <2>1
  <2>2. CASE i = c + 1
    BY <1>4, <1>10, <2>2
  <2>3. CASE i > c + 1
    <3>1. i - c - 1 \in 1 .. Len(s) - c /\ c + 1 + (i - c - 1) = i /\ c + (i - c - 1) = i - 1
      BY <1>11, <2>3
    <3>2. Ranked(s, fit)[c + 1 + (i - c - 1)] = s[c + (i - c - 1)]
      BY <1>10, <3>1
    <3> QED  BY <1>4, <2>3, <3>1, <3>2
  <2> QED  BY <1>4, <2>1, <2>2, <2>3
<1> QED  BY <1>4, <1>5, <1>10, <1>12

(* A fit that succeeds takes its place: what is left out is never better than what is kept. *)
LEMMA OrderedStep ==
    ASSUME NEW best, NEW s \in Seq(Fits), NEW fits, IsFiniteSet(fits), fits \subseteq Fits,
           Ordered([best |-> best, top |-> s], fits), NEW fit \in Fits \ fits
    PROVE  /\ Leading(s, fit) \in Seq(Fits) /\ Len(Leading(s, fit)) <= Top
           /\ Better(best, fit) \in Fits
           /\ Ordered([best |-> Better(best, fit), top |-> Leading(s, fit)], fits \cup {fit})
<1> DEFINE n == Cardinality(fits)
           r == Ranked(s, fit)
           u == Leading(s, fit)
<1>1. /\ n \in Nat /\ Cardinality(fits \cup {fit}) = n + 1 /\ Top \in Nat \ {0}
      /\ (n = 0 <=> fits = {}) /\ fits \cup {fit} # {}
  BY FS_CardinalityType, FS_AddElement, FS_EmptySet, SearchAssumption
<1>2. Len(s) \in Nat /\ DOMAIN s = 1 .. Len(s) /\ Range(s) = {s[i] : i \in 1 .. Len(s)}
  BY DEF Range
<1>3. /\ Range(s) \subseteq fits /\ Len(s) = Smaller(Top, n)
      /\ best = (IF fits = {} THEN NoFit ELSE Head(s))
      /\ \A i, k \in DOMAIN s : i < k => s[i].rmse <= s[k].rmse
      /\ \A f \in fits \ Range(s), g \in Range(s) : g.rmse <= f.rmse
      /\ Len(s) < Top => Range(s) = fits
  BY DEF Ordered, Leads
<1>4. \A f \in Fits : f.rmse \in Nat /\ f # NoFit
  <2>1. \A f \in Fits : f.rmse \in Nat /\ f.place \in 1 .. Total
    BY SearchAssumption DEF Fits
  <2>2. NoFit.place = 0 /\ 0 \notin 1 .. Total
    BY SearchAssumption DEF NoFit
  <2> QED  BY <2>1, <2>2
<1> HIDE DEF n
<1>5. PICK c \in 0 .. Len(s) :
         /\ \A i \in 1 .. Len(s) : i <= c <=> s[i].rmse <= fit.rmse
         /\ r \in Seq(Fits) /\ Len(r) = Len(s) + 1
         /\ \A i \in 1 .. Len(s) + 1 : r[i] = IF i <= c THEN s[i] ELSE IF i = c + 1 THEN fit ELSE s[i - 1]
  BY <1>3, RankedPlaces
<1> DEFINE m == Smaller(Top, Len(s) + 1)
<1>6. m \in 1 .. Len(s) + 1 /\ m <= Top /\ (m = Top \/ m = Len(s) + 1)
  BY <1>1, <1>2 DEF Smaller
<1>7. u \in Seq(Fits) /\ Len(u) = m /\ \A i \in 1 .. m : u[i] = r[i]
  <2>1. u = SubSeq(r, 1, m)
    BY <1>1, <1>2, <1>5 DEF Leading, First, Smaller
  <2> HIDE DEF u, r, m
  <2>2. \A i \in 1 .. m : r[i] \in Fits
    BY <1>2, <1>5, <1>6
  <2> QED  BY <1>2, <1>5, <1>6, <2>1, <2>2
<1> HIDE DEF m, r, u
<1>8. Len(s) = Top \/ (Len(s) = n /\ n < Top /\ Range(s) = fits)
  BY <1>1, <1>3 DEF Smaller
<1>9. m = Smaller(Top, n + 1)
  BY <1>1, <1>2, <1>3 DEF Smaller, m
<1>10. /\ DOMAIN u = 1 .. m /\ Range(u) = {u[i] : i \in 1 .. m}
       /\ \A i \in 1 .. m : u[i] = IF i <= c THEN s[i] ELSE IF i = c + 1 THEN fit ELSE s[i - 1]
  <2>1. DOMAIN u = 1 .. m
    BY <1>6, <1>7
  <2> QED  BY <1>2, <1>5, <1>6, <1>7, <2>1 DEF Range
<1>11. Range(u) \subseteq Range(s) \cup {fit}
  <2> SUFFICES ASSUME NEW i \in 1 .. m PROVE u[i] \in Range(s) \cup {fit}
    BY <1>10
  <2>1. CASE i <= c
    <3>1. i \in 1 .. Len(s) /\ u[i] = s[i]
      BY <1>2, <1>5, <1>6, <1>10, <2>1
    <3> QED  BY <1>2, <3>1
  <2>2. CASE i = c + 1
    BY <1>5, <1>10, <2>2
  <2>3. CASE i > c + 1
    <3>1. i - 1 \in 1 .. Len(s) /\ u[i] = s[i - 1]
      BY <1>2, <1>5, <1>6, <1>10, <2>3
    <3> QED  BY <1>2, <3>1
  <2> QED  BY <1>5, <2>1, <2>2, <2>3
<1>12. \A i, k \in 1 .. m : i < k => u[i].rmse <= u[k].rmse
  <2> SUFFICES ASSUME NEW i \in 1 .. m, NEW k \in 1 .. m, i < k PROVE u[i].rmse <= u[k].rmse
    OBVIOUS
  <2>1. \A j \in 1 .. Len(s) : s[j] \in Fits /\ s[j].rmse \in Nat
    BY <1>4
  <2>2. fit.rmse \in Nat
    BY <1>4
  <2>3. CASE k <= c
    BY <1>2, <1>3, <1>5, <1>6, <1>10, <2>3
  <2>4. CASE k = c + 1
    BY <1>2, <1>5, <1>6, <1>10, <2>4
  <2>5. CASE k > c + 1
    <3>1. k - 1 \in 1 .. Len(s) /\ ~(k - 1 <= c) /\ u[k] = s[k - 1]
      BY <1>2, <1>5, <1>6, <1>10, <2>5
    <3>2. fit.rmse <= s[k - 1].rmse
      BY <1>5, <2>1, <2>2, <3>1
    <3>3. CASE i <= c
      <4>1. i \in 1 .. Len(s) /\ i < k - 1 /\ u[i] = s[i]
        BY <1>2, <1>5, <1>6, <1>10, <2>5, <3>3
      <4> QED  BY <1>2, <1>3, <3>1, <4>1
    <3>4. CASE i = c + 1
      BY <1>10, <3>1, <3>2, <3>4, <1>5
    <3>5. CASE i > c + 1
      <4>1. i - 1 \in 1 .. Len(s) /\ i - 1 < k - 1 /\ u[i] = s[i - 1]
        BY <1>2, <1>5, <1>6, <1>10, <2>5, <3>5
      <4> QED  BY <1>2, <1>3, <3>1, <4>1
    <3> QED  BY <1>5, <3>3, <3>4, <3>5
  <2> QED  BY <1>5, <2>3, <2>4, <2>5
<1>13. m < Top => Range(u) = fits \cup {fit}
  <2> SUFFICES ASSUME m < Top PROVE Range(s) \cup {fit} \subseteq Range(u)
    BY <1>1, <1>6, <1>8, <1>11
  <2>1. m = Len(s) + 1
    BY <1>1, <1>6
  <2>2. c + 1 \in 1 .. m /\ u[c + 1] = fit
    BY <1>2, <1>5, <1>10, <2>1
  <2>3. \A i \in 1 .. Len(s) : s[i] \in Range(u)
    <3> TAKE i \in 1 .. Len(s)
    <3>1. CASE i <= c
      <4>1. i \in 1 .. m /\ u[i] = s[i]
        BY <1>2, <1>10, <2>1, <3>1
      <4> QED  BY <1>10, <4>1
    <3>2. CASE i > c
      <4>1. i + 1 \in 1 .. m /\ u[i + 1] = s[i]
        BY <1>2, <1>5, <1>10, <2>1, <3>2
      <4> QED  BY <1>10, <4>1
    <3> QED  BY <1>5, <3>1, <3>2
  <2> QED  BY <1>2, <1>10, <2>2, <2>3
<1>14. \A f \in (fits \cup {fit}) \ Range(u), g \in Range(u) : g.rmse <= f.rmse
  <2> SUFFICES ASSUME NEW f \in (fits \cup {fit}) \ Range(u), NEW i \in 1 .. m PROVE u[i].rmse <= f.rmse
    BY <1>10
  <2>1. m = Top
    BY <1>1, <1>6, <1>13
  <2>2. \A j \in 1 .. Len(s) : s[j] \in Fits /\ s[j].rmse \in Nat
    BY <1>4
  <2>3. fit.rmse \in Nat /\ f.rmse \in Nat /\ u[i].rmse \in Nat
    BY <1>4, <1>7
  <2>4. CASE Len(s) = Top
    <3>1. s[Top] \in Range(s) /\ Top \in 1 .. Len(s)
      BY <1>1, <1>2, <2>4
    <3>2. \A j \in 1 .. Len(s) : s[j].rmse <= s[Top].rmse
      <4> TAKE j \in 1 .. Len(s)
      <4>1. CASE j < Top
        BY <1>2, <1>3, <3>1, <4>1
      <4>2. CASE j = Top
        BY <2>2, <3>1, <4>2
      <4> QED  BY <1>1, <2>4, <4>1, <4>2
    <3>3. CASE c = Top
      <4>1. i <= c /\ u[i] = s[i] /\ i \in 1 .. Len(s)
        BY <1>10, <2>1, <2>4, <3>3
      <4>2. Range(u) = Range(s)
        BY <1>2, <1>10, <2>1, <2>4, <3>3
      <4>3. CASE f = fit
        BY <1>5, <4>1, <4>3
      <4>4. CASE f # fit
        BY <1>2, <1>3, <4>1, <4>2, <4>4
      <4> QED  BY <4>3, <4>4
    <3>4. CASE c < Top
      <4>1. ~(Top <= c) /\ c + 1 \in 1 .. m /\ u[c + 1] = fit
        BY <1>1, <1>5, <1>10, <2>1, <3>4
      <4>2. f # fit /\ f \in fits
        BY <1>10, <4>1
      <4>3. fit.rmse <= s[Top].rmse
        BY <1>5, <2>2, <2>3, <3>1, <4>1
      <4>4. s[Top].rmse <= f.rmse
        <5>1. CASE f \in Range(s)
          <6>1. PICK j \in 1 .. Len(s) : f = s[j]
            BY <1>2, <5>1
          <6>2. j = Top
            <7> SUFFICES ASSUME j < Top PROVE FALSE
              BY <1>1, <2>4
            <7>1. CASE j <= c
              <8>1. j \in 1 .. m /\ u[j] = s[j]
                BY <1>10, <2>1, <2>4, <7>1
              <8> QED  BY <1>10, <6>1, <8>1
            <7>2. CASE j > c
              <8>1. j + 1 \in 1 .. m /\ ~(j + 1 <= c) /\ j + 1 # c + 1 /\ (j + 1) - 1 = j
                BY <1>1, <1>5, <2>1, <2>4, <7>2
              <8>2. u[j + 1] = s[j]
                BY <1>10, <8>1
              <8> QED  BY <1>10, <6>1, <8>1, <8>2
            <7> QED  BY <1>5, <7>1, <7>2
          <6> QED  BY <2>2, <3>1, <6>1, <6>2
        <5>2. CASE f \notin Range(s)
          BY <1>3, <3>1, <4>2, <5>2
        <5> QED  BY <5>1, <5>2
      <4>5. u[i] \in Range(s) \/ u[i] = fit
        BY <1>10, <1>11
      <4>6. CASE u[i] = fit
        BY <2>2, <2>3, <3>1, <4>3, <4>4, <4>6
      <4>7. CASE u[i] \in Range(s)
        <5>1. PICK j \in 1 .. Len(s) : u[i] = s[j]
          BY <1>2, <4>7
        <5>2. s[j].rmse <= s[Top].rmse
          BY <3>2
        <5> QED  BY <2>2, <2>3, <3>1, <4>4, <5>1, <5>2
      <4> QED  BY <4>5, <4>6, <4>7
    <3> QED  BY <1>1, <1>5, <2>4, <3>3, <3>4
  <2>5. CASE Len(s) = n /\ n < Top /\ Range(s) = fits
    <3>1. m = Len(s) + 1
      BY <1>1, <1>6, <2>1, <2>5
    <3>2. \A j \in 1 .. Len(s) : s[j] \in Range(u)
      <4> TAKE j \in 1 .. Len(s)
      <4>1. CASE j <= c
        <5>1. j \in 1 .. m /\ u[j] = s[j]
          BY <1>2, <1>10, <3>1, <4>1
        <5> QED  BY <1>10, <5>1
      <4>2. CASE j > c
        <5>1. j + 1 \in 1 .. m /\ u[j + 1] = s[j]
          BY <1>2, <1>5, <1>10, <3>1, <4>2
        <5> QED  BY <1>10, <5>1
      <4> QED  BY <1>5, <4>1, <4>2
    <3>3. c + 1 \in 1 .. m /\ u[c + 1] = fit
      BY <1>2, <1>5, <1>10, <3>1
    <3> QED  BY <1>2, <1>10, <2>5, <3>2, <3>3
  <2> QED  BY <1>8, <2>4, <2>5
<1>15. Better(best, fit) = Head(u) /\ Better(best, fit) \in Fits
  <2>1. Head(u) = u[1] /\ u[1] \in Fits
    BY <1>6, <1>7
  <2>2. CASE s = <<>>
    <3>1. Len(s) = 0 /\ n = 0 /\ fits = {}
      BY <1>1, <1>3, <2>2 DEF Smaller
    <3>2. u[1] = fit /\ best = NoFit
      BY <1>3, <1>5, <1>6, <1>10, <3>1
    <3> QED  BY <2>1, <3>2 DEF Better
  <2>3. CASE s # <<>>
    <3>1. Len(s) >= 1 /\ Head(s) = s[1] /\ s[1] \in Fits /\ 1 \in 1 .. Len(s)
      BY <1>2, <2>3
    <3>2. fits # {} /\ best = s[1] /\ best # NoFit
      BY <1>2, <1>3, <1>4, <3>1
    <3>3. CASE c >= 1
      <4>1. u[1] = s[1] /\ s[1].rmse <= fit.rmse
        BY <1>5, <1>6, <1>10, <3>1, <3>3
      <4> QED  BY <1>4, <2>1, <3>1, <3>2, <4>1 DEF Better
    <3>4. CASE c = 0
      <4>1. u[1] = fit /\ ~(s[1].rmse <= fit.rmse)
        BY <1>5, <1>6, <1>10, <3>1, <3>4
      <4> QED  BY <1>4, <2>1, <3>1, <3>2, <4>1 DEF Better
    <3> QED  BY <1>5, <3>3, <3>4
  <2> QED  BY <2>2, <2>3
<1>16. Range(u) \subseteq fits \cup {fit}
  BY <1>3, <1>11
<1>17. Ordered([best |-> Better(best, fit), top |-> u], fits \cup {fit})
  BY <1>1, <1>7, <1>9, <1>10, <1>12, <1>13, <1>14, <1>15, <1>16 DEF Ordered, Leads
<1> QED  BY <1>6, <1>7, <1>15, <1>17 DEF u

-----------------------------------------------------------------------------
(* Where the worker of a search and its job are.                           *)

Reports == [status: {"running", "completed", "canceled", "failed"}, cancel: BOOLEAN,
            seen: 0 .. Total, processed: 0 .. Total, good: 0 .. Total,
            bad: 0 .. Total, best: Fits \cup {NoFit}, result: Results]
Workers == [at: {"none", "lost", "serial", "check", "fit", "pool", "poll", "next",
                 "last", "end", "gone"},
            n: 0 .. Total, good: 0 .. Total, bad: 0 .. Total,
            result: Results, fits: SUBSET Fits]
TypesOK ==
    /\ StoreOK
    /\ \A j \in Stored : jobs[j] \in Reports
    /\ thread \in [Jobs -> Workers]
    /\ signal \in Nat /\ notifying \in BOOLEAN

\* What a worker has counted and ranked so far.
Counted(t) ==
    /\ t.n = t.good + t.bad
    /\ IsFiniteSet(t.fits) /\ Cardinality(t.fits) = t.good
    /\ \A f \in t.fits : f.place <= t.n
    /\ Ordered(t.result, t.fits)
    /\ t.at \in {"check", "fit", "next"} => t.n < Total
    /\ t.at \in {"last", "end"} => t.n = Total
    /\ t.at \in {"lost", "pool", "none"} => t = [NewWorker EXCEPT !.at = t.at]

\* What the job says while its worker works: at a fit that a cancellation finds running, no
\* candidate has been processed since; anywhere else at most one.
Follows(job, t) ==
    /\ job.processed = t.n /\ job.good = t.good /\ job.bad = t.bad
    /\ job.cancel => job.processed <= job.seen + (IF t.at \in {"fit", "next"} THEN 0 ELSE 1)
Tells(job, t) ==
    /\ job.processed = job.good + job.bad
    /\ job.status \in {"completed", "canceled"} =>
        /\ job.good = Cardinality(t.fits)
        /\ Leads(job.result, t.fits)
    /\ job.status = "completed" => job.processed = Total
    /\ job.status = "canceled" => job.processed <= job.seen + 1
SearchOK(j) ==
    /\ Counted(thread[j])
    /\ thread[j].at = "none" => j \notin Stored
    /\ thread[j].at = "gone" => j \notin Live
    /\ thread[j].at \notin {"none", "gone"} => j \in Live /\ Follows(jobs[j], thread[j])
    /\ j \in Stored => Tells(jobs[j], thread[j])
SearchInv == TypesOK /\ \A j \in Jobs : SearchOK(j)

(* Nothing is counted before a worker begins. *)
LEMMA NewWorkerCounts ==
    ASSUME NEW point \in {"none", "lost", "serial", "pool"}
    PROVE  /\ [NewWorker EXCEPT !.at = point] \in Workers
           /\ Counted([NewWorker EXCEPT !.at = point])
<1> DEFINE t == [NewWorker EXCEPT !.at = point]
<1>1. /\ t.at = point /\ t.n = 0 /\ t.good = 0 /\ t.bad = 0 /\ t.fits = {} /\ t.result = NoResult
      /\ t = [at |-> point, n |-> 0, good |-> 0, bad |-> 0, result |-> NoResult, fits |-> {}]
  BY DEF NewWorker
<1>2. Total \in Nat /\ Top \in Nat \ {0} /\ 0 \in 0 .. Total /\ 0 \in 0 .. Top
  BY SearchAssumption
<1>3. <<>> \in [1 .. 0 -> Fits]
  OBVIOUS
<1>4. NoResult \in Results
  BY <1>2, <1>3 DEF NoResult, Results
<1>5. Ordered(NoResult, {})
  <2>1. Cardinality({}) = 0 /\ Len(<<>>) = 0 /\ Range(<<>>) = {}
    BY FS_EmptySet DEF Range
  <2> QED  BY <1>2, <2>1 DEF Ordered, Leads, NoResult, Smaller
<1>6. IsFiniteSet({}) /\ Cardinality({}) = 0
  BY FS_EmptySet
<1>7. t \in Workers
  BY <1>1, <1>2, <1>4 DEF Workers
<1> HIDE DEF t
<1>8. Counted(t)
  <2>1. t = [NewWorker EXCEPT !.at = t.at]
    BY <1>1 DEF NewWorker
  <2> QED  BY <1>1, <1>5, <1>6, <2>1 DEF Counted
<1> QED  BY <1>7, <1>8 DEF t

(* A candidate that is finished leaves the worker counted. *)
LEMMA OutcomeCounts ==
    ASSUME NEW t \in Workers, Counted(t), t.n < Total, NEW point \in {"serial", "poll"},
           NEW u \in Outcomes([t EXCEPT !.n = t.n + 1, !.at = point])
    PROVE  u \in Workers /\ Counted(u) /\ u.at = point /\ u.n = t.n + 1
<1> DEFINE v == [t EXCEPT !.n = t.n + 1, !.at = point]
<1>1. Total \in Nat /\ t.n \in Nat /\ t.n + 1 \in 0 .. Total /\ t.n + 1 \in 1 .. Total /\ t.good \in Nat /\ t.bad \in Nat
      /\ t.n = t.good + t.bad
  BY SearchAssumption DEF Workers, Counted
<1>2. /\ v.at = point /\ v.n = t.n + 1 /\ v.good = t.good /\ v.bad = t.bad
      /\ v.fits = t.fits /\ v.result = t.result
      /\ v = [at |-> point, n |-> t.n + 1, good |-> t.good, bad |-> t.bad,
              result |-> t.result, fits |-> t.fits]
  <2>1. t = [at |-> t.at, n |-> t.n, good |-> t.good, bad |-> t.bad,
             result |-> t.result, fits |-> t.fits]
    BY DEF Workers
  <2>2. v.at = point
    BY DEF Workers
  <2>3. v.n = t.n + 1
    BY DEF Workers
  <2>4. v.good = t.good /\ v.bad = t.bad /\ v.fits = t.fits /\ v.result = t.result
    BY DEF Workers
  <2>5. v = [at |-> point, n |-> t.n + 1, good |-> t.good, bad |-> t.bad,
             result |-> t.result, fits |-> t.fits]
    <3>1. v \in [at: {point}, n: {t.n + 1}, good: {t.good}, bad: {t.bad},
                result: {t.result}, fits: {t.fits}]
      BY <2>2, <2>3, <2>4 DEF Workers
    <3> HIDE DEF v
    <3> QED  BY <3>1
  <2> QED  BY <2>2, <2>3, <2>4, <2>5
<1> HIDE DEF v
<1>3. /\ t.result \in Results /\ t.fits \subseteq Fits /\ IsFiniteSet(t.fits)
      /\ Cardinality(t.fits) = t.good /\ Ordered(t.result, t.fits)
      /\ \A f \in t.fits : f.place <= t.n
  BY DEF Workers, Counted
<1>4. CASE u = Failed(v)
  <2>1. u = [at |-> point, n |-> t.n + 1, good |-> t.good, bad |-> t.bad + 1,
             result |-> t.result, fits |-> t.fits]
    BY <1>2, <1>4 DEF Failed
  <2>2. u \in Workers
    BY <1>1, <1>3, <2>1 DEF Workers
  <2>3. \A f \in t.fits : f.place <= t.n + 1
    BY <1>1, <1>3 DEF Fits
  <2> QED  BY <1>1, <1>3, <2>1, <2>2, <2>3 DEF Counted
<1>5. CASE \E x \in Scores : u = Succeeded(v, [place |-> v.n, rmse |-> x])
  <2>1. PICK x \in Scores : u = Succeeded(v, [place |-> v.n, rmse |-> x])
    BY <1>5
  <2> DEFINE fit == [place |-> t.n + 1, rmse |-> x]
             best == t.result.best
             s == t.result.top
  <2>2. fit \in Fits
    BY <1>1 DEF Fits
  <2>3. fit \notin t.fits
    BY <1>1, <1>3
  <2>4. s \in Seq(Fits) /\ Len(s) \in 0 .. Top /\ t.result = [best |-> best, top |-> s]
    BY <1>3, SearchAssumption DEF Results
  <2>5. u = [at |-> point, n |-> t.n + 1, good |-> t.good + 1, bad |-> t.bad,
             result |-> [best |-> Better(best, fit), top |-> Leading(s, fit)],
             fits |-> t.fits \cup {fit}]
    BY <1>2, <2>1 DEF Succeeded
  <2> HIDE DEF fit, best, s
  <2>6. /\ Leading(s, fit) \in Seq(Fits) /\ Len(Leading(s, fit)) <= Top
        /\ Better(best, fit) \in Fits
        /\ Ordered([best |-> Better(best, fit), top |-> Leading(s, fit)], t.fits \cup {fit})
    BY <1>3, <2>2, <2>3, <2>4, OrderedStep
  <2>7. [best |-> Better(best, fit), top |-> Leading(s, fit)] \in Results
    <3>1. Len(Leading(s, fit)) \in 0 .. Top /\ Leading(s, fit) \in [1 .. Len(Leading(s, fit)) -> Fits]
      BY <2>6, SearchAssumption
    <3> HIDE DEF Leading
    <3>2. Leading(s, fit) \in UNION {[1 .. n -> Fits] : n \in 0 .. Top}
      BY <3>1
    <3> QED  BY <2>6, <3>2 DEF Results
  <2>8. t.good + 1 \in 0 .. Total
    BY <1>1
  <2>9. u \in Workers
    BY <1>1, <1>3, <2>2, <2>5, <2>7, <2>8 DEF Workers
  <2>10. IsFiniteSet(t.fits \cup {fit}) /\ Cardinality(t.fits \cup {fit}) = t.good + 1
    BY <1>3, <2>3, FS_AddElement
  <2>11. \A f \in t.fits \cup {fit} : f.place <= t.n + 1
    <3>1. fit.place = t.n + 1
      BY DEF fit
    <3> QED  BY <1>1, <1>3, <3>1 DEF Fits
  <2> QED  BY <1>1, <2>5, <2>6, <2>9, <2>10, <2>11 DEF Counted
<1> QED  BY <1>4, <1>5 DEF Outcomes, v

(* A worker that goes on, has counted what it had. *)
LEMMA MoveCounts ==
    ASSUME NEW t \in Workers, Counted(t),
           NEW point \in {"serial", "check", "fit", "poll", "next", "last", "end", "gone"},
           point \in {"check", "fit", "next"} => t.n < Total,
           point \in {"last", "end"} => t.n = Total,
           NEW u, u = [t EXCEPT !.at = point]
    PROVE  /\ u \in Workers /\ Counted(u) /\ u.at = point
           /\ u.n = t.n /\ u.good = t.good /\ u.bad = t.bad
           /\ u.fits = t.fits /\ u.result = t.result
<1>1. /\ u.at = point /\ u.n = t.n /\ u.good = t.good /\ u.bad = t.bad
      /\ u.fits = t.fits /\ u.result = t.result
  BY DEF Workers
<1>2. u \in Workers
  BY DEF Workers
<1> QED  BY <1>1, <1>2 DEF Counted

-----------------------------------------------------------------------------
(* A step of one search.                                                   *)

(* What concerns one search leaves the others as they are. *)
LEMMA OneSearch ==
    ASSUME SearchInv, StoreOK', signal' \in Nat, notifying' \in BOOLEAN,
           NEW j \in Jobs, NEW u \in Workers, thread' = [thread EXCEPT ![j] = u], Counted(u),
           Stored' \subseteq Stored \cup {j}, Same(Stored' \ {j}), Live \ {j} \subseteq Live',
           j \in Stored' => jobs'[j] \in Reports /\ Tells(jobs'[j], u),
           u.at = "none" => j \notin Stored', u.at = "gone" => j \notin Live',
           u.at \notin {"none", "gone"} => j \in Live' /\ Follows(jobs'[j], u)
    PROVE  SearchInv'
<1>1. /\ thread \in [Jobs -> Workers] /\ thread' \in [Jobs -> Workers] /\ thread'[j] = u
      /\ \A i \in Jobs \ {j} : thread'[i] = thread[i]
  BY DEF SearchInv, TypesOK
<1>2. \A i \in Stored' \ {j} : i \in Stored /\ jobs'[i] = jobs[i]
  BY DEF Same
<1>3. TypesOK'
  <2>1. \A i \in Stored' : jobs'[i] \in Reports
    BY <1>2 DEF SearchInv, TypesOK
  <2>2. Reports' = Reports /\ Workers' = Workers
    OBVIOUS
  <2>3. (\A i \in Stored : jobs[i] \in Reports)'
    BY <2>1, <2>2
  <2>4. (thread \in [Jobs -> Workers])'
    BY <1>1, <2>2
  <2> QED  BY <2>3, <2>4 DEF TypesOK
<1>4. SearchOK(j)'
  BY <1>1 DEF SearchOK
<1>5. ASSUME NEW i \in Jobs \ {j} PROVE SearchOK(i)'
  <2>1. SearchOK(i) /\ thread'[i] = thread[i]
    BY <1>1 DEF SearchInv
  <2>2. i \in Stored' => i \in Stored /\ jobs'[i] = jobs[i]
    BY <1>2
  <2>3. (i \in Live <=> i \in Live') /\ (i \in Live => jobs'[i] = jobs[i])
    BY <2>2 DEF Live
  <2> QED  BY <2>1, <2>2, <2>3 DEF SearchOK
<1> QED  BY <1>3, <1>4, <1>5 DEF SearchInv

(* A search that goes on: it reports or moves, and its job follows. *)
LEMMA Reporting ==
    ASSUME SearchInv, NEW j \in Jobs, j \in Live, NEW u \in Workers, Counted(u),
           u.at \notin {"none", "gone"}, thread' = [thread EXCEPT ![j] = u], Changes,
           NEW fields, Update(j, fields), "status" \notin DOMAIN fields,
           NEW w \in Reports, w = WithFields(jobs[j], fields), Follows(w, u)
    PROVE  SearchInv'
<1>1. StoreOK /\ jobs[j] \in Reports /\ jobs[j].status = "running" /\ signal \in Nat
  BY DEF SearchInv, TypesOK, Live
<1>2. "status" \in DOMAIN jobs[j]
  BY <1>1 DEF Reports
<1>3. /\ StoreOK' /\ Live' = Live /\ Stored' = Stored /\ jobs'[j] = w /\ Same(Stored \ {j})
  BY <1>1, <1>2, UpdateStep
<1>4. w.status = "running"
  BY <1>1, <1>2 DEF WithFields
<1>5. Tells(w, u)
  BY <1>4 DEF Tells, Follows, Counted
<1>6. signal' \in Nat /\ notifying' \in BOOLEAN
  BY <1>1 DEF Changes
<1> QED  BY <1>3, <1>5, <1>6, OneSearch
LEMMA Moving ==
    ASSUME SearchInv, NEW j \in Jobs, j \in Live, NEW u \in Workers, Counted(u),
           u.at \notin {"none", "gone"}, thread' = [thread EXCEPT ![j] = u],
           UNCHANGED <<store, signal, notifying>>, Follows(jobs[j], u)
    PROVE  SearchInv'
<1>1. /\ StoreOK /\ jobs[j] \in Reports /\ jobs[j].status = "running"
      /\ signal \in Nat /\ notifying \in BOOLEAN
  BY DEF SearchInv, TypesOK, Live
<1>2. jobs' = jobs /\ ended' = ended
  BY DEF store
<1>3. StoreOK' /\ Live' = Live /\ Stored' = Stored /\ jobs'[j] = jobs[j] /\ Same(Stored \ {j})
  BY <1>1, <1>2 DEF StoreOK, Live, Stored, Same
<1>4. Tells(jobs[j], u)
  BY <1>1 DEF Tells, Follows, Counted
<1>5. signal' \in Nat /\ notifying' \in BOOLEAN
  BY <1>1
<1> QED  BY <1>1, <1>3, <1>4, <1>5, OneSearch

(* A search that ends: it leaves its last word, and its worker is gone. *)
LEMMA Ending ==
    ASSUME SearchInv, NEW j \in Jobs, j \in Live, NEW u \in Workers, Counted(u),
           u.at = "gone", thread' = [thread EXCEPT ![j] = u], Changes,
           NEW fields, FinishWith(j, fields), "status" \in DOMAIN fields, fields.status # "running",
           NEW w \in Reports, w = WithFields(jobs[j], fields), Tells(w, u)
    PROVE  SearchInv'
<1>1. StoreOK /\ signal \in Nat
  BY DEF SearchInv, TypesOK
<1>2. StoreOK' /\ Live' = Live \ {j} /\ Stored' = Stored /\ jobs'[j] = w /\ Same(Stored \ {j})
  BY <1>1, FinishStep
<1>3. signal' \in Nat /\ notifying' \in BOOLEAN
  BY <1>1 DEF Changes
<1> QED  BY <1>2, <1>3, OneSearch

(* A worker that has reached one of its points. *)
LEMMA WorkerAt ==
    ASSUME SearchInv, NEW j \in Jobs, thread[j].at \notin {"none", "gone"}
    PROVE  /\ j \in Live /\ j \in Stored /\ jobs[j] \in Reports /\ jobs[j].status = "running"
           /\ thread[j] \in Workers /\ Counted(thread[j]) /\ Follows(jobs[j], thread[j])
           /\ Tells(jobs[j], thread[j])
  BY DEF SearchInv, TypesOK, SearchOK, Live
LEMMA Gone ==
    ASSUME SearchInv, NEW j \in Jobs, NEW point, Go(j, point)
    PROVE  thread' = [thread EXCEPT ![j] = [thread[j] EXCEPT !.at = point]]
  BY DEF Go, SearchInv, TypesOK

(* A search that is concluded says what its worker has counted. *)
LEMMA Concluding ==
    ASSUME SearchInv, NEW j \in Jobs, thread[j].at \notin {"none", "gone"},
           NEW outcome \in {"completed", "canceled"}, Conclude(j, thread[j].n, outcome),
           outcome = "completed" => thread[j].n = Total,
           outcome = "canceled" => jobs[j].cancel
    PROVE  SearchInv'
<1> DEFINE t == thread[j]
           u == [t EXCEPT !.at = "gone"]
           fields == Final(t, t.n, outcome)
           w == WithFields(jobs[j], fields)
<1>1. /\ j \in Live /\ jobs[j] \in Reports /\ t \in Workers /\ Counted(t) /\ Follows(jobs[j], t)
      /\ thread' = [thread EXCEPT ![j] = u] /\ Changes /\ FinishWith(j, fields)
  BY WorkerAt, Gone DEF Conclude
<1>2. /\ u \in Workers /\ Counted(u) /\ u.at = "gone" /\ u.n = t.n /\ u.fits = t.fits
  BY <1>1, MoveCounts
<1>3. /\ DOMAIN fields = {"status", "processed", "good", "bad", "best", "result"}
      /\ fields.status = outcome /\ fields.processed = t.n /\ fields.good = t.good
      /\ fields.bad = t.bad /\ fields.best = t.result.best /\ fields.result = t.result
  BY DEF Final
<1>4. /\ t.n \in 0 .. Total /\ t.good \in 0 .. Total /\ t.bad \in 0 .. Total
      /\ t.result \in Results /\ t.result.best \in Fits \cup {NoFit}
  BY <1>1 DEF Workers, Results
<1> HIDE DEF t, u, fields
<1>5. /\ w \in Reports /\ w.status = outcome /\ w.processed = t.n /\ w.good = t.good
      /\ w.bad = t.bad /\ w.result = t.result /\ w.seen = jobs[j].seen
  BY <1>1, <1>3, <1>4 DEF WithFields, Reports
<1> HIDE DEF w
<1>6. outcome = "canceled" => t.n <= jobs[j].seen + 1
  BY <1>1, <1>4 DEF Follows, Reports, t
<1>7. Tells(w, u)
  BY <1>1, <1>2, <1>5, <1>6 DEF Tells, Counted, Ordered, t
<1> QED  BY <1>1, <1>2, <1>3, <1>5, <1>7, Ending DEF w

(* A candidate that is finished is counted and reported. *)
LEMMA Applying ==
    ASSUME SearchInv, NEW j \in Jobs, thread[j].at \in {"fit", "next"},
           NEW point \in {"serial", "poll"}, Apply(j, point)
    PROVE  SearchInv'
<1> DEFINE t == thread[j]
<1>1. /\ j \in Live /\ jobs[j] \in Reports /\ jobs[j].status = "running"
      /\ t \in Workers /\ Counted(t) /\ Follows(jobs[j], t) /\ t.n < Total
  BY WorkerAt DEF Counted
<1>2. PICK u \in Outcomes([t EXCEPT !.n = t.n + 1, !.at = point]) :
        Update(j, Progress(u)) /\ Changes /\ thread' = [thread EXCEPT ![j] = u]
  <2>1. [t EXCEPT !.n = @ + 1, !.at = point] = [t EXCEPT !.n = t.n + 1, !.at = point]
    OBVIOUS
  <2> QED  BY <2>1 DEF Apply
<1>3. u \in Workers /\ Counted(u) /\ u.at = point /\ u.n = t.n + 1
  BY <1>1, OutcomeCounts
<1> DEFINE fields == Progress(u)
           w == WithFields(jobs[j], fields)
<1>4. /\ DOMAIN fields = {"processed", "good", "bad", "best"}
      /\ fields.processed = u.n /\ fields.good = u.good
      /\ fields.bad = u.bad /\ fields.best = u.result.best
  BY DEF Progress
<1>5. /\ u.n \in 0 .. Total /\ u.good \in 0 .. Total /\ u.bad \in 0 .. Total
      /\ u.result.best \in Fits \cup {NoFit} /\ t.n \in Nat /\ jobs[j].seen \in Nat
  BY <1>1, <1>3, SearchAssumption DEF Workers, Results, Reports
<1> HIDE DEF t, fields
<1>6. /\ w \in Reports /\ w.processed = u.n /\ w.good = u.good
      /\ w.bad = u.bad /\ w.seen = jobs[j].seen /\ w.cancel = jobs[j].cancel
  BY <1>1, <1>4, <1>5 DEF WithFields, Reports
<1> HIDE DEF w
<1>7. Follows(w, u)
  BY <1>1, <1>3, <1>5, <1>6 DEF Follows, t
<1>8. "status" \notin DOMAIN fields
  BY <1>4
<1> QED  BY <1>1, <1>2, <1>3, <1>6, <1>7, <1>8, Reporting DEF w, fields

LEMMA StartSearchKeeps ==
    ASSUME SearchInv, NEW j \in Jobs, StartSearch(j) PROVE SearchInv'
<1>1. PICK k \in 0 .. Len(ended) : Add(j, Payload, k)
  BY DEF StartSearch
<1>2. PICK way \in {"serial", "pool", "lost"} : thread' = [thread EXCEPT ![j].at = way]
  BY DEF StartSearch
<1> DEFINE u == [NewWorker EXCEPT !.at = way]
<1>3. thread[j].at = "none" /\ thread[j] \in Workers /\ Counted(thread[j]) /\ StoreOK /\ signal \in Nat
  BY DEF StartSearch, SearchInv, TypesOK, SearchOK
<1>4. thread' = [thread EXCEPT ![j] = u]
  <2>1. thread[j] = [NewWorker EXCEPT !.at = "none"]
    BY <1>3 DEF Counted
  <2>2. thread' = [thread EXCEPT ![j] = [thread[j] EXCEPT !.at = way]]
    BY <1>2
  <2> QED  BY <2>1, <2>2 DEF NewWorker
<1>5. u \in Workers /\ Counted(u) /\ u.at = way
  BY NewWorkerCounts DEF NewWorker
<1>6. Payload.status = "running"
  BY DEF Payload
<1>7. /\ StoreOK' /\ Live' = Live \cup {j} /\ j \in Stored' /\ jobs'[j] = Payload
      /\ Stored' \subseteq Stored \cup {j} /\ Same(Stored' \ {j})
  BY <1>1, <1>3, <1>6, AddStep
<1>8. Payload \in Reports /\ Tells(Payload, u) /\ Follows(Payload, u)
  <2>1. u.n = 0 /\ u.good = 0 /\ u.bad = 0 /\ u.result = NoResult
    BY DEF NewWorker
  <2>2. NoResult \in Results /\ 0 \in 0 .. Total
    BY <1>5, <2>1, SearchAssumption DEF Workers
  <2> QED  BY <2>1, <2>2 DEF Payload, Reports, Tells, Follows
<1>9. signal' \in Nat /\ notifying' \in BOOLEAN
  BY <1>3 DEF StartSearch, Changes
<1> HIDE DEF u
<1> QED  BY <1>4, <1>5, <1>7, <1>8, <1>9, OneSearch

LEMMA CancelSearchKeeps ==
    ASSUME SearchInv, NEW j \in Jobs, CancelSearch(j) PROVE SearchInv'
<1> DEFINE fields == [cancel |-> TRUE, seen |-> jobs[j].processed]
           w == WithFields(jobs[j], fields)
           t == thread[j]
<1>1. /\ j \in Live /\ j \in Stored /\ Update(j, fields) /\ Changes /\ thread' = thread
      /\ thread = [thread EXCEPT ![j] = t] /\ thread \in [Jobs -> Workers]
  BY DEF CancelSearch, RequestCancel, SearchInv, TypesOK, Live
<1>2. jobs[j] \in Reports /\ t \in Workers /\ Counted(t)
  BY <1>1 DEF SearchInv, TypesOK, SearchOK
<1>3. DOMAIN fields = {"cancel", "seen"} /\ fields.cancel = TRUE /\ fields.seen = jobs[j].processed
  OBVIOUS
<1> HIDE DEF fields
<1>4. /\ w \in Reports /\ w.status = jobs[j].status
      /\ w.processed = jobs[j].processed /\ w.good = jobs[j].good
      /\ w.bad = jobs[j].bad /\ w.seen = jobs[j].processed /\ w.cancel = TRUE
  BY <1>2, <1>3 DEF WithFields, Reports
<1> HIDE DEF w
<1>5. jobs[j].processed \in Nat /\ jobs[j].status = "running"
  BY <1>1, <1>2, SearchAssumption DEF Reports, Live
<1>6. "status" \notin DOMAIN fields
  BY <1>3
<1>7. CASE t.at \notin {"none", "gone"}
  <2>1. Follows(w, t)
    <3>1. Follows(jobs[j], t)
      BY <1>7, WorkerAt
    <3> QED  BY <1>4, <1>5, <3>1 DEF Follows
  <2> QED  BY <1>1, <1>2, <1>4, <1>6, <1>7, <2>1, Reporting DEF w
<1>8. CASE t.at = "none"
  BY <1>1, <1>8 DEF SearchInv, SearchOK
<1>9. CASE t.at = "gone"
  BY <1>1, <1>9 DEF SearchInv, SearchOK
<1> QED  BY <1>7, <1>8, <1>9

LEMMA ReadStatusKeeps ==
    ASSUME SearchInv, ReadStatus PROVE SearchInv'
<1>1. PICK k \in 1 .. Len(ended) : Prune(k)
  BY DEF ReadStatus
<1>2. StoreOK /\ k \in 0 .. Len(ended)
  BY DEF SearchInv, TypesOK
<1>3. StoreOK' /\ Live' = Live /\ Stored' \subseteq Stored /\ Same(Stored')
  BY <1>1, <1>2, PruneStep
<1>4. thread' = thread /\ signal' = signal /\ notifying' = notifying
  BY DEF ReadStatus
<1>5. \A i \in Stored' : i \in Stored /\ jobs'[i] = jobs[i]
  BY <1>3 DEF Same
<1>6. \A i \in Live : jobs'[i] = jobs[i]
  BY <1>3, <1>5 DEF Live
<1>7. TypesOK'
  BY <1>3, <1>4, <1>5 DEF SearchInv, TypesOK
<1>8. ASSUME NEW i \in Jobs PROVE SearchOK(i)'
  <2>1. SearchOK(i) /\ thread'[i] = thread[i]
    BY <1>4 DEF SearchInv
  <2> QED  BY <1>3, <1>5, <1>6, <2>1 DEF SearchOK
<1> QED  BY <1>7, <1>8 DEF SearchInv

\* An operation that only says how far it is.
LEMMA ReportingProcessed ==
    ASSUME SearchInv, NEW j \in Jobs, thread[j].at \notin {"none", "gone", "fit", "next"},
           NEW point \in {"check", "poll"}, thread[j].n < Total, Go(j, point),
           Update(j, [processed |-> thread[j].n]), Changes
    PROVE  SearchInv'
<1> DEFINE fields == [processed |-> thread[j].n]
           w == WithFields(jobs[j], fields)
           t == thread[j]
           u == [t EXCEPT !.at = point]
<1>1. /\ j \in Live /\ jobs[j] \in Reports /\ t \in Workers /\ Counted(t) /\ Follows(jobs[j], t)
      /\ thread' = [thread EXCEPT ![j] = u]
  BY WorkerAt, Gone
<1>2. /\ u \in Workers /\ Counted(u) /\ u.at = point /\ u.n = t.n /\ u.good = t.good /\ u.bad = t.bad
  BY <1>1, MoveCounts
<1>3. DOMAIN fields = {"processed"} /\ fields.processed = t.n /\ t.n \in 0 .. Total
  BY <1>1 DEF Workers
<1> HIDE DEF t, u, fields
<1>4. /\ w \in Reports /\ w.status = jobs[j].status
      /\ w.processed = t.n /\ w.good = jobs[j].good
      /\ w.bad = jobs[j].bad /\ w.seen = jobs[j].seen /\ w.cancel = jobs[j].cancel
  BY <1>1, <1>3 DEF WithFields, Reports
<1> HIDE DEF w
<1>5. Follows(w, u)
  BY <1>1, <1>2, <1>4 DEF Follows, t
<1>6. "status" \notin DOMAIN fields
  BY <1>3
<1>7. Update(j, fields)
  BY DEF fields
<1> QED  BY <1>1, <1>2, <1>4, <1>5, <1>6, <1>7, Reporting DEF w

\* An operation that changes nothing but the point.
LEMMA Reading ==
    ASSUME SearchInv, NEW j \in Jobs, thread[j].at \notin {"none", "gone"},
           NEW point \in {"fit", "poll", "next", "last", "end"}, Go(j, point),
           UNCHANGED <<store, signal, notifying>>,
           point \in {"fit", "next"} => thread[j].n < Total /\ ~jobs[j].cancel,
           point = "poll" => thread[j].at = "next",
           point = "last" => thread[j].at \in {"serial", "poll"} /\ thread[j].n = Total,
           point = "end" => thread[j].at = "last"
    PROVE  SearchInv'
<1> DEFINE t == thread[j]
           u == [t EXCEPT !.at = point]
<1>1. /\ j \in Live /\ jobs[j] \in Reports /\ t \in Workers /\ Counted(t) /\ Follows(jobs[j], t)
      /\ thread' = [thread EXCEPT ![j] = u]
  BY WorkerAt, Gone
<1>2. /\ u \in Workers /\ Counted(u) /\ u.at = point /\ u.n = t.n /\ u.good = t.good /\ u.bad = t.bad
  BY <1>1, MoveCounts DEF Counted
<1>3. jobs[j].processed \in Nat /\ jobs[j].seen \in Nat
  BY <1>1, SearchAssumption DEF Reports
<1> HIDE DEF u
<1>4. Follows(jobs[j], u)
  BY <1>1, <1>2, <1>3 DEF Follows
<1> QED  BY <1>1, <1>2, <1>4, Moving

LEMMA RaisesKeeps ==
    ASSUME SearchInv, NEW j \in Jobs, Raises(j) PROVE SearchInv'
<1> DEFINE fields == [status |-> "failed"]
           w == WithFields(jobs[j], fields)
           t == thread[j]
           u == [t EXCEPT !.at = "gone"]
<1>1. /\ j \in Live /\ jobs[j] \in Reports /\ t \in Workers /\ Counted(t) /\ Follows(jobs[j], t)
      /\ Tells(jobs[j], t)
      /\ thread' = [thread EXCEPT ![j] = u] /\ Changes /\ FinishWith(j, fields)
  BY WorkerAt, Gone DEF Raises
<1>2. u \in Workers /\ Counted(u) /\ u.at = "gone"
  BY <1>1, MoveCounts
<1>3. DOMAIN fields = {"status"} /\ fields.status = "failed"
  OBVIOUS
<1> HIDE DEF t, u, fields
<1>4. /\ w \in Reports /\ w.status = "failed" /\ w.processed = jobs[j].processed
      /\ w.good = jobs[j].good /\ w.bad = jobs[j].bad
  BY <1>1, <1>3 DEF WithFields, Reports
<1> HIDE DEF w
<1>5. Tells(w, u)
  BY <1>1, <1>4 DEF Tells
<1> QED  BY <1>1, <1>2, <1>3, <1>4, <1>5, Ending DEF w

LEMMA SerialKeeps ==
    ASSUME SearchInv, NEW j \in Jobs, SerialNext(j) \/ SerialCheck(j) \/ SerialFit(j)
    PROVE  SearchInv'
<1>1. CASE SerialNext(j)
  <2>1. thread[j].at = "serial" /\ thread[j].n \in 0 .. Total
    BY <1>1 DEF SerialNext, At, SearchInv, TypesOK, Workers
  <2>2. CASE thread[j].n < Total
    BY <1>1, <2>1, <2>2, ReportingProcessed DEF SerialNext
  <2>3. CASE ~(thread[j].n < Total)
    <3>1. thread[j].n = Total
      BY <2>1, <2>3, SearchAssumption
    <3>2. Go(j, "last") /\ UNCHANGED <<store, signal, notifying>>
      BY <1>1, <2>3 DEF SerialNext, Reads
    <3> QED  BY <2>1, <3>1, <3>2, Reading
  <2> QED  BY <2>2, <2>3
<1>2. CASE SerialCheck(j)
  <2>1. /\ thread[j].at = "check" /\ thread[j].n < Total /\ j \in Stored
    BY <1>2, WorkerAt DEF SerialCheck, At, Counted
  <2>2. CASE CancelRequested(j)
    BY <1>2, <2>1, <2>2, Concluding DEF SerialCheck, CancelRequested
  <2>3. CASE ~CancelRequested(j)
    <3>1. Go(j, "fit") /\ UNCHANGED <<store, signal, notifying>> /\ ~jobs[j].cancel
      BY <1>2, <2>1, <2>3 DEF SerialCheck, Reads, CancelRequested
    <3> QED  BY <2>1, <3>1, Reading
  <2> QED  BY <2>2, <2>3
<1>3. CASE SerialFit(j)
  <2>1. thread[j].at = "fit" /\ thread[j].n \in Nat
    BY <1>3, SearchAssumption DEF SerialFit, At, SearchInv, TypesOK, Workers
  <2>2. CASE Apply(j, "serial")
    BY <2>1, <2>2, Applying
  <2>3. CASE CancelRequested(j) /\ Conclude(j, CountedFinished(thread[j]), "canceled")
    <3>1. CountedFinished(thread[j]) = thread[j].n
      BY <2>1 DEF CountedFinished, Interrupted
    <3> QED  BY <2>1, <2>3, <3>1, Concluding DEF CancelRequested
  <2> QED  BY <1>3, <2>2, <2>3 DEF SerialFit
<1> QED  BY <1>1, <1>2, <1>3

LEMMA PoolKeeps ==
    ASSUME SearchInv, NEW j \in Jobs,
           PoolStarts(j) \/ Poll(j) \/ PoolResult(j) \/ PoolTimeout(j)
    PROVE  SearchInv'
<1>1. CASE PoolStarts(j)
  <2>1. thread[j].at = "pool" /\ Counted(thread[j])
    BY <1>1, WorkerAt DEF PoolStarts, At
  <2>2. thread[j].n = 0 /\ 0 < Total
    <3>1. thread[j] = [NewWorker EXCEPT !.at = "pool"]
      BY <2>1 DEF Counted
    <3> QED  BY <3>1, SearchAssumption DEF NewWorker
  <2> QED  BY <1>1, <2>1, <2>2, ReportingProcessed DEF PoolStarts
<1>2. CASE Poll(j)
  <2>1. thread[j].at = "poll" /\ thread[j].n \in 0 .. Total /\ j \in Stored
    BY <1>2, WorkerAt DEF Poll, At, Workers
  <2>2. CASE thread[j].n = Total
    BY <1>2, <2>1, <2>2, Reading DEF Poll, Reads
  <2>3. CASE thread[j].n # Total /\ CancelRequested(j)
    BY <1>2, <2>1, <2>3, Concluding DEF Poll, CancelRequested
  <2>4. CASE thread[j].n # Total /\ ~CancelRequested(j)
    <3>1. Go(j, "next") /\ UNCHANGED <<store, signal, notifying>> /\ ~jobs[j].cancel
      BY <1>2, <2>1, <2>4 DEF Poll, Reads, CancelRequested
    <3>2. thread[j].n < Total
      BY <2>1, <2>4, SearchAssumption
    <3> QED  BY <2>1, <3>1, <3>2, Reading
  <2> QED  BY <2>2, <2>3, <2>4
<1>3. CASE PoolResult(j)
  BY <1>3, Applying DEF PoolResult, At
<1>4. CASE PoolTimeout(j)
  BY <1>4, Reading DEF PoolTimeout, TimesOut, At
<1> QED  BY <1>1, <1>2, <1>3, <1>4

LEMMA LastKeeps ==
    ASSUME SearchInv, NEW j \in Jobs, LastCheck(j) \/ Complete(j) PROVE SearchInv'
<1>1. thread[j].at \in {"last", "end"} /\ thread[j].n = Total /\ j \in Stored
  BY WorkerAt DEF LastCheck, Complete, At, Counted
<1>2. CASE LastCheck(j)
  <2>1. CASE CancelRequested(j)
    BY <1>1, <1>2, <2>1, Concluding DEF LastCheck, CancelRequested
  <2>2. CASE ~CancelRequested(j)
    BY <1>2, <2>2, Reading DEF LastCheck, Reads, At
  <2> QED  BY <2>1, <2>2
<1>3. CASE Complete(j)
  BY <1>1, <1>3, Concluding DEF Complete
<1> QED  BY <1>2, <1>3

LEMMA SearchUnchanged ==
    ASSUME SearchInv, UNCHANGED <<store, thread>>, signal' \in Nat, notifying' \in BOOLEAN
    PROVE  SearchInv'
<1>1. jobs' = jobs /\ ended' = ended /\ thread' = thread
  BY DEF store
<1>2. Stored' = Stored /\ Live' = Live
  BY <1>1 DEF Stored, Live
<1>3. TypesOK'
  BY <1>1, <1>2 DEF SearchInv, TypesOK, StoreOK
<1>4. ASSUME NEW i \in Jobs PROVE SearchOK(i)'
  BY <1>1, <1>2 DEF SearchInv, SearchOK
<1> QED  BY <1>3, <1>4 DEF SearchInv

(* Every step of a search keeps its job and its worker together. *)
LEMMA SearchStep ==
    ASSUME SearchInv, SearchNext PROVE SearchInv'
<1>1. signal \in Nat /\ notifying \in BOOLEAN
  BY DEF SearchInv, TypesOK
<1>2. CASE Requests
  <2>1. CASE ReadStatus
    BY <2>1, ReadStatusKeeps
  <2>2. CASE \E j \in Jobs : StartSearch(j) \/ CancelSearch(j)
    BY <2>2, StartSearchKeeps, CancelSearchKeeps
  <2> QED  BY <1>2, <2>1, <2>2 DEF Requests
<1>3. CASE Notify
  <2>1. UNCHANGED <<store, thread>> /\ signal' = signal + 1 /\ notifying' = FALSE
    BY <1>3 DEF Notify
  <2>2. signal + 1 \in Nat
    BY <1>1
  <2>3. signal' \in Nat
    BY <2>1, <2>2
  <2>4. notifying' \in BOOLEAN
    BY <2>1
  <2> QED  BY <2>1, <2>3, <2>4, SearchUnchanged
<1>4. ASSUME NEW j \in Jobs, Work(j) \/ PoolResult(j) \/ Raises(j) PROVE SearchInv'
  BY <1>4, SerialKeeps, PoolKeeps, LastKeeps, RaisesKeeps DEF Work
<1> QED  BY <1>2, <1>3, <1>4 DEF SearchNext

LEMMA SearchBegins == Init => SearchInv
<1> SUFFICES ASSUME Init PROVE SearchInv
  OBVIOUS
<1>1. jobs = << >> /\ ended = <<>> /\ thread = [j \in Jobs |-> NewWorker] /\ signal = 0 /\ notifying = FALSE
  BY DEF Init, SearchInit, StoreInit
<1>2. Stored = {} /\ Live = {}
  BY <1>1 DEF Stored, Live
<1>3. NewWorker = [NewWorker EXCEPT !.at = "none"]
  BY DEF NewWorker
<1>4. NewWorker \in Workers /\ Counted(NewWorker) /\ NewWorker.at = "none"
  BY <1>3, NewWorkerCounts DEF NewWorker
<1>5. Range(<<>>) = {} /\ <<>> \in Seq(Jobs)
  BY DEF Range
<1>6. TypesOK
  BY <1>1, <1>2, <1>4, <1>5 DEF TypesOK, StoreOK
<1>7. ASSUME NEW j \in Jobs PROVE SearchOK(j)
  BY <1>1, <1>2, <1>4 DEF SearchOK
<1> QED  BY <1>6, <1>7 DEF SearchInv

LEMMA SearchKept == SearchInv /\ [Next]_vars => SearchInv'
<1> SUFFICES ASSUME SearchInv, [Next]_vars PROVE SearchInv'
  OBVIOUS
<1>1. signal \in Nat /\ notifying \in BOOLEAN
  BY DEF SearchInv, TypesOK
<1>2. CASE SearchNext
  BY <1>2, SearchStep
<1>3. CASE UNCHANGED search
  BY <1>1, <1>3, SearchUnchanged DEF search
<1> QED  BY <1>2, <1>3 DEF Next, RunChanges, Elapse, StreamStep, Wake, ReadVersion, ReadTasks,
                           Send, Still, vars

LEMMA SearchTold == SearchInv => SearchCoherent
<1> SUFFICES ASSUME SearchInv PROVE SearchCoherent
  OBVIOUS
<1>1. TypeOK
  BY DEF SearchInv, TypesOK, StoreOK, TypeOK, Reports, Workers
<1>2. Stored \subseteq Jobs
  BY DEF SearchInv, TypesOK, StoreOK
<1> QED  BY <1>1, <1>2 DEF SearchInv, SearchCoherent, SearchOK, Tells

(* However many searches run, serially or in pools, and whenever they are cancelled, fail or
   end, what a search reports fits together (grid_jobs.py, _run and _apply_outcome). *)
THEOREM SearchesCoherent == Spec => []SearchCoherent
<1>1. Spec => []SearchInv
  BY SearchBegins, SearchKept, PTL DEF Spec
<1> QED  BY <1>1, SearchTold, PTL

-----------------------------------------------------------------------------
(* The event stream.                                                       *)

\* What the stream holds or has shown is current unless a change is announced or about to
\* be: the version it remembers was read before the tasks.
Current(tasks) == stream.version = signal /\ ~notifying => tasks = SearchTasks
StreamOK ==
    /\ DOMAIN stream = {"at", "version", "tasks", "shown", "runs", "tasksDue", "externalDue"}
    /\ stream.version \in Nat /\ stream.version <= signal
    /\ Stream("send") => Current(stream.tasks)
    /\ Stream("wait") => Current(stream.shown)
StreamInv == SearchInv /\ StreamOK

(* No step of a search changes what the pages show without an announcement. *)
LEMMA ChangesAnnounced ==
    ASSUME SearchInv, SearchNext
    PROVE  \/ signal' = signal /\ notifying' = TRUE
           \/ signal' = signal + 1
           \/ signal' = signal /\ notifying' = notifying /\ SearchTasks' = SearchTasks
<1> DEFINE Announced == signal' = signal /\ notifying' = TRUE
           Quiet == signal' = signal /\ notifying' = notifying /\ SearchTasks' = SearchTasks
<1>1. ASSUME UNCHANGED <<store, signal, notifying>> PROVE Quiet
  BY <1>1 DEF SearchTasks, Task, Live, Stored, store
<1>2. ASSUME Changes PROVE Announced
  BY <1>2 DEF Changes
<1>3. ASSUME Reads PROVE Quiet
  BY <1>1, <1>3 DEF Reads
<1>4. CASE ReadStatus
  <2>1. PICK k \in 1 .. Len(ended) : Prune(k)
    BY <1>4 DEF ReadStatus
  <2>2. StoreOK /\ k \in 0 .. Len(ended)
    BY DEF SearchInv, TypesOK
  <2>3. Live' = Live /\ Same(Stored')
    BY <2>1, <2>2, PruneStep
  <2>4. \A j \in Live : jobs'[j] = jobs[j]
    BY <2>3 DEF Same, Live
  <2>5. SearchTasks' = SearchTasks
    BY <2>3, <2>4 DEF SearchTasks, Task
  <2> QED  BY <1>4, <2>5 DEF ReadStatus
<1>5. CASE \E j \in Jobs : StartSearch(j) \/ CancelSearch(j)
  BY <1>2, <1>5 DEF StartSearch, CancelSearch
<1>6. CASE Notify
  BY <1>6 DEF Notify
<1> HIDE DEF Announced, Quiet
<1>7. ASSUME NEW j \in Jobs, Work(j) \/ PoolResult(j) \/ Raises(j) PROVE Announced \/ Quiet
  <2>1. CASE SerialNext(j)
    BY <1>2, <1>3, <2>1 DEF SerialNext
  <2>2. CASE SerialCheck(j) \/ Poll(j) \/ LastCheck(j)
    BY <1>2, <1>3, <2>2 DEF SerialCheck, Poll, LastCheck, Conclude
  <2>3. CASE SerialFit(j) \/ PoolResult(j)
    BY <1>2, <2>3 DEF SerialFit, PoolResult, Apply, Conclude
  <2>4. CASE PoolStarts(j) \/ Complete(j) \/ Raises(j)
    BY <1>2, <2>4 DEF PoolStarts, Complete, Conclude, Raises
  <2>5. CASE PoolTimeout(j)
    BY <1>1, <2>5 DEF PoolTimeout
  <2> QED  BY <1>7, <2>1, <2>2, <2>3, <2>4, <2>5 DEF Work
<1> QED  BY <1>4, <1>5, <1>6, <1>7 DEF SearchNext, Requests, Announced, Quiet

(* What is current stays so until the next announcement. *)
LEMMA StreamStays ==
    ASSUME StreamInv, stream' = stream,
           \/ SearchNext
           \/ UNCHANGED search
    PROVE  StreamOK'
<1>1. signal \in Nat /\ stream.version \in Nat /\ stream.version <= signal
  BY DEF StreamInv, SearchInv, TypesOK, StreamOK
<1>2. \/ signal' = signal /\ notifying' = TRUE
      \/ signal' = signal + 1
      \/ signal' = signal /\ notifying' = notifying /\ SearchTasks' = SearchTasks
  <2>1. CASE SearchNext
    BY <2>1, ChangesAnnounced DEF StreamInv
  <2>2. CASE UNCHANGED search
    BY <2>2 DEF search, store, SearchTasks, Task, Live, Stored
  <2> QED  BY <2>1, <2>2
<1>3. stream.version <= signal'
  BY <1>1, <1>2
<1>4. ASSUME NEW tasks, Current(tasks)
      PROVE  stream.version = signal' /\ ~notifying' => tasks = SearchTasks'
  BY <1>1, <1>2, <1>4 DEF Current
<1>5. (Stream("send") => Current(stream.tasks)) /\ (Stream("wait") => Current(stream.shown))
  BY DEF StreamInv, StreamOK
<1> QED  BY <1>1, <1>3, <1>4, <1>5 DEF StreamInv, StreamOK, Stream, Current

LEMMA StreamKept == StreamInv /\ [Next]_vars => StreamInv'
<1> SUFFICES ASSUME StreamInv, [Next]_vars PROVE StreamInv'
  OBVIOUS
<1>1. SearchInv'
  BY SearchKept DEF StreamInv
<1>2. /\ DOMAIN stream = {"at", "version", "tasks", "shown", "runs", "tasksDue", "externalDue"}
      /\ stream.version \in Nat /\ stream.version <= signal /\ signal \in Nat
      /\ Stream("send") => Current(stream.tasks)
      /\ Stream("wait") => Current(stream.shown)
  BY DEF StreamInv, StreamOK, SearchInv, TypesOK
<1>3. CASE SearchNext /\ UNCHANGED <<runs, stream>>
  BY <1>1, <1>3, StreamStays DEF StreamInv
<1>4. CASE RunChanges \/ UNCHANGED vars
  BY <1>1, <1>4, StreamStays DEF RunChanges, StreamInv, vars
<1>5. ASSUME UNCHANGED search
      PROVE  /\ signal' = signal /\ notifying' = notifying /\ SearchTasks' = SearchTasks
             /\ \A v, tasks : (v = signal' /\ ~notifying' => tasks = SearchTasks')
                                 <=> (v = signal /\ ~notifying => tasks = SearchTasks)
  BY <1>5 DEF search, store, SearchTasks, Task, Live, Stored
<1>6. CASE Elapse
  <2>1. /\ stream'.at = "wait" /\ stream.at = "wait" /\ stream'.version = stream.version
        /\ stream'.shown = stream.shown /\ DOMAIN stream' = DOMAIN stream /\ UNCHANGED search
    BY <1>2, <1>6 DEF Elapse, Stream, Still
  <2> QED  BY <1>1, <1>2, <1>5, <2>1 DEF StreamInv, StreamOK, Stream, Current
<1>7. CASE Wake
  <2>1. /\ stream'.at = "read" /\ stream'.version = stream.version
        /\ DOMAIN stream' = DOMAIN stream /\ UNCHANGED search
    BY <1>2, <1>7 DEF Wake, Still
  <2> QED  BY <1>1, <1>2, <1>5, <2>1 DEF StreamInv, StreamOK, Stream
<1>8. CASE ReadVersion
  <2>1. /\ stream'.at = "tasks" /\ stream'.version = signal
        /\ DOMAIN stream' = DOMAIN stream /\ UNCHANGED search
    BY <1>2, <1>8 DEF ReadVersion, Still
  <2> QED  BY <1>1, <1>2, <1>5, <2>1 DEF StreamInv, StreamOK, Stream
<1>9. CASE ReadTasks
  <2>1. /\ stream'.at = "send" /\ stream'.version = stream.version /\ stream'.tasks = SearchTasks
        /\ DOMAIN stream' = DOMAIN stream /\ UNCHANGED search
    BY <1>2, <1>9 DEF ReadTasks, Still
  <2> QED  BY <1>1, <1>2, <1>5, <2>1 DEF StreamInv, StreamOK, Stream, Current
<1>10. CASE Send
  <2>1. /\ stream.at = "send" /\ stream'.at = "wait" /\ stream'.version = stream.version
        /\ stream'.shown = stream.tasks /\ DOMAIN stream' = DOMAIN stream /\ UNCHANGED search
    BY <1>2, <1>10 DEF Send, Stream, Still, VersionThen
  <2> QED  BY <1>1, <1>2, <1>5, <2>1 DEF StreamInv, StreamOK, Stream, Current
<1> QED  BY <1>3, <1>4, <1>6, <1>7, <1>8, <1>9, <1>10 DEF Next, StreamStep

(* An open page that has nothing pending shows the searches as they are: a change between
   its look at the version and its look at the tasks, or after both, is announced by a
   version it has not seen (live_event_views.py, stream_live_events). *)
THEOREM PagesMissNothing == Spec => []NothingMissed
<1>1. Init => StreamInv
  <2> SUFFICES ASSUME Init PROVE StreamInv
    OBVIOUS
  <2>1. SearchInv
    BY SearchBegins
  <2>2. /\ stream = [at |-> "read", version |-> 0, tasks |-> NoTasks, shown |-> NoTasks, runs |-> 0,
                     tasksDue |-> FALSE, externalDue |-> FALSE]
        /\ signal = 0
    BY DEF Init, SearchInit
  <2> QED  BY <2>1, <2>2 DEF StreamInv, StreamOK, Stream
<1>2. StreamInv => NothingMissed
  BY DEF StreamInv, StreamOK, Current, NothingMissed
<1> QED  BY <1>1, <1>2, StreamKept, PTL DEF Spec
=============================================================================
