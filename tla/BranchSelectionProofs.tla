------------------------- MODULE BranchSelectionProofs -------------------------
(***************************************************************************)
(* Theorems about BranchSelection, for every set of requests, models,      *)
(* texts and additions and any bounds: what a delta says to the backend,   *)
(* what the contract on full requests refuses, when growing a conversation *)
(* is cheap, and how many tabs a session has.                              *)
(*                                                                         *)
(* The argument: a checkpoint is written together with the transcript that *)
(* was told along the chain of its response, and names its model           *)
(* (HeadSound); a branch for which this ceased to be so is marked apart,   *)
(* and stays so.  What a request was prepared with says where its delta    *)
(* starts: where the snapshot of the branch it matched ends (PlanSound).   *)
(* So what is told with it, the outputs of the chain aside, is the         *)
(* transcript (SentSound), which is what the next checkpoint is stored     *)
(* with.                                                                   *)
(*                                                                         *)
(* Induction over the length of a sequence is done with sets: of those     *)
(* lengths for which a statement fails there is a least one (LeastNat,     *)
(* UpTo).                                                                  *)
(***************************************************************************)
EXTENDS BranchSelection, FiniteSetTheorems, SequenceTheorems, WellFoundedInduction, TLAPS

(***************************************************************************)
(* Induction.  The theorems of the library that take a predicate cannot be *)
(* instantiated; a set of numbers can.                                     *)
(***************************************************************************)

(* A set of natural numbers that is not empty has a least element.            *)
LEMMA LeastNat ==
  ASSUME NEW T \in SUBSET Nat, T # {}
  PROVE  \E n \in T : \A m \in T : n <= m
<1> DEFINE R == {ss \in Nat \X Nat : ss[1] < ss[2]}
<1>1. IsWellFoundedOn(R, Nat)
  BY NatLessThanWellFounded DEF OpToRel
<1>2. PICK x \in T : \A y \in T : ~ (<<y, x>> \in R)
  BY <1>1, WFMin
<1>3. \A y \in T : ~ (y < x)
  <2>1. TAKE y \in T
  <2>2. x \in Nat /\ y \in Nat
    OBVIOUS
  <2>3. ASSUME y < x PROVE FALSE
    BY <2>2, <2>3, <1>2
  <2> QED BY <2>3
<1> QED
  BY <1>3

(* Induction over 0 .. N, with a set for the predicate.                       *)
LEMMA UpTo ==
  ASSUME NEW N \in Nat, NEW T, 0 \in T, \A n \in 1 .. N : n - 1 \in T => n \in T
  PROVE  \A n \in 0 .. N : n \in T
<1> DEFINE Bad == {n \in 0 .. N : n \notin T}
<1>1. SUFFICES ASSUME Bad # {} PROVE FALSE
  OBVIOUS
<1>2. Bad \in SUBSET Nat
  OBVIOUS
<1>3. PICK n \in Bad : \A m \in Bad : n <= m
  <2> HIDE DEF Bad
  <2> QED BY <1>1, <1>2, LeastNat
<1>4. n \in 1 .. N
  BY <1>3
<1>5. n - 1 \notin Bad /\ n - 1 \in 0 .. N
  BY <1>3, <1>4
<1> QED
  BY <1>3, <1>4, <1>5

(***************************************************************************)
(* Chosen: what classify_canonical_messages and the other selections keep. *)
(***************************************************************************)
Keeps(s, I, n, g) ==
  /\ g[0] = <<>>
  /\ \A i \in 1 .. n : g[i] = IF i \in I THEN Append(g[i - 1], s[i]) ELSE g[i - 1]

(* The recursion in Chosen defines a function: what was kept after each step. *)
LEMMA ChosenSteps ==
  ASSUME NEW S, NEW s \in Seq(S), NEW I
  PROVE  \E g \in [0 .. Len(s) -> Seq(S)] : Keeps(s, I, Len(s), g) /\ Chosen(s, I) = g[Len(s)]
<1> DEFINE N    == Len(s)
           T    == {n \in 0 .. N : \E g \in [0 .. n -> Seq(S)] : Keeps(s, I, n, g)}
           F(g) == [n \in 0 .. Len(s) |-> IF n = 0 THEN <<>>
                                          ELSE IF n \in I THEN Append(g[n - 1], s[n])
                                          ELSE g[n - 1]]
<1>1. N \in Nat /\ s \in [1 .. N -> S]
  BY LenProperties
<1>2. 0 \in T
  <2>1. [n \in 0 .. 0 |-> <<>>] \in [0 .. 0 -> Seq(S)]
    BY EmptySeq
  <2>2. Keeps(s, I, 0, [n \in 0 .. 0 |-> <<>>])
    BY DEF Keeps
  <2>3. \E g \in [0 .. 0 -> Seq(S)] : Keeps(s, I, 0, g)
    BY <2>1, <2>2
  <2> QED BY <1>1, <2>3
<1>3. ASSUME NEW n \in 1 .. N, n - 1 \in T PROVE n \in T
  <2>1. PICK g \in [0 .. n - 1 -> Seq(S)] : Keeps(s, I, n - 1, g)
    BY <1>3
  <2> DEFINE x == IF n \in I THEN Append(g[n - 1], s[n]) ELSE g[n - 1]
             h == [i \in 0 .. n |-> IF i = n THEN x ELSE g[i]]
  <2>2. g[n - 1] \in Seq(S) /\ s[n] \in S
    BY <1>1, <1>3, <2>1
  <2>3. x \in Seq(S)
    BY <2>2, AppendProperties
  <2>4. h \in [0 .. n -> Seq(S)]
    BY <1>1, <1>3, <2>1, <2>3
  <2>5. h[0] = <<>>
    BY <1>1, <1>3, <2>1 DEF Keeps
  <2>6. ASSUME NEW i \in 1 .. n
        PROVE  h[i] = IF i \in I THEN Append(h[i - 1], s[i]) ELSE h[i - 1]
    <3>1. CASE i = n
      BY <3>1, <1>1, <1>3
    <3>2. CASE i # n
      <4>1. i \in 1 .. n - 1 /\ i \in 0 .. n /\ i - 1 \in 0 .. n /\ i - 1 # n
        BY <3>2, <2>6, <1>1, <1>3
      <4>2. h[i] = g[i] /\ h[i - 1] = g[i - 1]
        BY <4>1, <3>2
      <4>3. g[i] = IF i \in I THEN Append(g[i - 1], s[i]) ELSE g[i - 1]
        BY <4>1, <2>1 DEF Keeps
      <4> HIDE DEF h
      <4> QED BY <4>2, <4>3
    <3> QED BY <3>1, <3>2
  <2>7. Keeps(s, I, n, h)
    <3> HIDE DEF h
    <3> QED BY <2>5, <2>6 DEF Keeps
  <2> QED
    <3> HIDE DEF h
    <3> QED BY <1>1, <1>3, <2>4, <2>7
<1>4. N \in T
  <2>1. \A n \in 0 .. N : n \in T
    <3> HIDE DEF N, T
    <3> QED BY <1>1, <1>2, <1>3, UpTo
  <2> QED BY <1>1, <2>1
<1>5. PICK g \in [0 .. N -> Seq(S)] : Keeps(s, I, N, g)
  BY <1>4
<1>6. g = F(g)
  <2>1. ASSUME NEW n \in 0 .. N
        PROVE  g[n] = IF n = 0 THEN <<>>
                      ELSE IF n \in I THEN Append(g[n - 1], s[n]) ELSE g[n - 1]
    <3>1. CASE n = 0
      BY <3>1, <1>5 DEF Keeps
    <3>2. CASE n # 0
      <4>1. n \in 1 .. N
        BY <1>1, <3>2
      <4>2. g[n] = IF n \in I THEN Append(g[n - 1], s[n]) ELSE g[n - 1]
        BY <4>1, <1>5 DEF Keeps
      <4> QED BY <3>2, <4>2
    <3> QED BY <3>1, <3>2
  <2> QED BY <1>5, <2>1
<1> DEFINE f == CHOOSE f : f = F(f)
<1>7. f = F(f)
  BY <1>6
<1>8. Chosen(s, I) = f[N]
  BY DEF Chosen
<1>9. \A n \in 0 .. N : f[n] = g[n]
  <2> DEFINE Same == {n \in 0 .. N : f[n] = g[n]}
  <2> HIDE DEF f
  <2>0. ASSUME NEW n \in 0 .. N
        PROVE  f[n] = IF n = 0 THEN <<>>
                      ELSE IF n \in I THEN Append(f[n - 1], s[n]) ELSE f[n - 1]
    BY <1>7
  <2>1. 0 \in Same
    BY <1>1, <1>5, <2>0 DEF Keeps
  <2>2. ASSUME NEW n \in 1 .. N, n - 1 \in Same PROVE n \in Same
    <3>1. n \in 0 .. N /\ n # 0 /\ f[n - 1] = g[n - 1]
      BY <1>1, <2>2
    <3>2. f[n] = IF n \in I THEN Append(f[n - 1], s[n]) ELSE f[n - 1]
      BY <2>0, <3>1
    <3>3. g[n] = IF n \in I THEN Append(g[n - 1], s[n]) ELSE g[n - 1]
      BY <1>5, <2>2 DEF Keeps
    <3>4. f[n] = g[n]
      <4>1. CASE n \in I
        BY ONLY <4>1, <3>1, <3>2, <3>3
      <4>2. CASE n \notin I
        BY ONLY <4>2, <3>1, <3>2, <3>3
      <4> QED BY <4>1, <4>2
    <3> QED BY <3>1, <3>4
  <2> HIDE DEF Same
  <2>3. \A n \in 0 .. N : n \in Same
    BY <1>1, <2>1, <2>2, UpTo
  <2> QED BY <2>3 DEF Same
<1>10. Chosen(s, I) = g[N]
  <2> HIDE DEF f
  <2> QED BY <1>1, <1>8, <1>9
<1> QED
  <2> HIDE DEF f
  <2> QED BY <1>5, <1>10

(* What is kept stands at a chosen position of the sequence.                  *)
LEMMA ChosenRange ==
  ASSUME NEW S, NEW s \in Seq(S), NEW I
  PROVE  /\ Chosen(s, I) \in Seq(S)
         /\ \A k \in 1 .. Len(Chosen(s, I)) :
              \E i \in 1 .. Len(s) : i \in I /\ Chosen(s, I)[k] = s[i]
<1>1. PICK g \in [0 .. Len(s) -> Seq(S)] : Keeps(s, I, Len(s), g) /\ Chosen(s, I) = g[Len(s)]
  BY ChosenSteps
<1> DEFINE N     == Len(s)
           From(t) == \A k \in 1 .. Len(t) : \E i \in 1 .. N : i \in I /\ t[k] = s[i]
           T     == {n \in 0 .. N : From(g[n])}
<1>2. N \in Nat /\ s \in [1 .. N -> S]
  BY LenProperties
<1>3. 0 \in T
  <2>1. g[0] = <<>>
    BY <1>1 DEF Keeps
  <2>2. Len(g[0]) = 0
    BY <2>1, EmptySeq
  <2> QED BY <1>2, <2>2
<1>4. ASSUME NEW n \in 1 .. N, n - 1 \in T PROVE n \in T
  <2>1. From(g[n - 1]) /\ g[n - 1] \in Seq(S) /\ s[n] \in S
    BY <1>1, <1>2, <1>4
  <2>2. g[n] = IF n \in I THEN Append(g[n - 1], s[n]) ELSE g[n - 1]
    BY <1>1, <1>4 DEF Keeps
  <2>3. CASE n \notin I
    <3>1. g[n] = g[n - 1]
      BY <2>2, <2>3
    <3>2. From(g[n])
      BY <2>1, <3>1
    <3> QED BY <3>2, <1>2
  <2>4. CASE n \in I
    <3>1. g[n] = Append(g[n - 1], s[n])
      BY <2>2, <2>4
    <3>2. Len(g[n]) = Len(g[n - 1]) + 1 /\ Len(g[n - 1]) \in Nat
          /\ g[n][Len(g[n - 1]) + 1] = s[n]
          /\ \A k \in 1 .. Len(g[n - 1]) : g[n][k] = g[n - 1][k]
      BY <2>1, <3>1, AppendProperties, LenProperties
    <3>3. ASSUME NEW k \in 1 .. Len(g[n])
          PROVE  \E i \in 1 .. N : i \in I /\ g[n][k] = s[i]
      <4>1. CASE k = Len(g[n - 1]) + 1
        BY <4>1, <3>2, <2>4, <1>4
      <4>2. CASE k # Len(g[n - 1]) + 1
        <5>1. k \in 1 .. Len(g[n - 1])
          BY <4>2, <3>2, <3>3
        <5> QED BY <5>1, <3>2, <2>1
      <4> QED BY <4>1, <4>2
    <3> QED BY <3>3, <1>2
  <2> QED BY <2>3, <2>4
<1>5. \A n \in 0 .. N : n \in T
  <2> HIDE DEF N, T
  <2> QED BY <1>2, <1>3, <1>4, UpTo
<1>6. From(g[N]) /\ g[N] \in Seq(S)
  BY <1>1, <1>2, <1>5
<1> QED
  BY <1>1, <1>6

(* Nothing of it is chosen: nothing is kept.                                  *)
LEMMA ChosenNone ==
  ASSUME NEW S, NEW s \in Seq(S), NEW I, \A i \in 1 .. Len(s) : i \notin I
  PROVE  Chosen(s, I) = <<>>
<1>1. Chosen(s, I) \in Seq(S) /\ \A k \in 1 .. Len(Chosen(s, I)) : FALSE
  BY ChosenRange
<1>2. Len(Chosen(s, I)) = 0
  BY <1>1, LenProperties
<1> QED
  BY <1>1, <1>2, EmptySeq

(* All of it is chosen: all is kept.                                          *)
LEMMA ChosenAll ==
  ASSUME NEW S, NEW s \in Seq(S), NEW I, \A i \in 1 .. Len(s) : i \in I
  PROVE  Chosen(s, I) = s
<1>1. PICK g \in [0 .. Len(s) -> Seq(S)] : Keeps(s, I, Len(s), g) /\ Chosen(s, I) = g[Len(s)]
  BY ChosenSteps
<1> DEFINE N == Len(s)
           T == {n \in 0 .. N : Len(g[n]) = n /\ \A k \in 1 .. n : g[n][k] = s[k]}
<1>2. N \in Nat /\ s \in [1 .. N -> S]
  BY LenProperties
<1>3. 0 \in T
  <2>1. g[0] = <<>>
    BY <1>1 DEF Keeps
  <2>2. Len(g[0]) = 0
    BY <2>1, EmptySeq
  <2> QED BY <1>2, <2>2
<1>4. ASSUME NEW n \in 1 .. N, n - 1 \in T PROVE n \in T
  <2>1. g[n - 1] \in Seq(S) /\ s[n] \in S
    BY <1>1, <1>2, <1>4
  <2>2. Len(g[n - 1]) = n - 1 /\ \A k \in 1 .. n - 1 : g[n - 1][k] = s[k]
    BY <1>4
  <2>3. g[n] = Append(g[n - 1], s[n])
    BY <1>1, <1>4 DEF Keeps
  <2>4. Len(g[n]) = n /\ g[n][n] = s[n] /\ \A k \in 1 .. n - 1 : g[n][k] = g[n - 1][k]
    BY <2>1, <2>2, <2>3, <1>2, <1>4, AppendProperties
  <2>5. \A k \in 1 .. n : g[n][k] = s[k]
    BY <2>2, <2>4, <1>2, <1>4
  <2> QED BY <2>4, <2>5, <1>2
<1>5. \A n \in 0 .. N : n \in T
  <2> HIDE DEF N, T
  <2> QED BY <1>2, <1>3, <1>4, UpTo
<1>6. g[N] \in Seq(S) /\ Len(g[N]) = Len(s) /\ \A k \in 1 .. Len(s) : g[N][k] = s[k]
  BY <1>1, <1>2, <1>5
<1>7. g[N] = s
  BY <1>6, SeqEqual
<1> QED
  BY <1>1, <1>7

(* What is kept of two sequences is what is kept of each.                     *)
LEMMA ChosenConcat ==
  ASSUME NEW S, NEW s \in Seq(S), NEW t \in Seq(S), NEW I, NEW J, NEW K,
         \A i \in 1 .. Len(s) : i \in I <=> i \in J,
         \A i \in 1 .. Len(t) : Len(s) + i \in I <=> i \in K
  PROVE  Chosen(s \o t, I) = Chosen(s, J) \o Chosen(t, K)
<1> DEFINE M == Len(s)
           N == Len(t)
           u == s \o t
<1>1. /\ M \in Nat /\ N \in Nat /\ u \in Seq(S) /\ Len(u) = M + N
      /\ \A i \in 1 .. M : u[i] = s[i] /\ s[i] \in S
      /\ \A i \in 1 .. N : u[M + i] = t[i] /\ t[i] \in S
  <2>1. M \in Nat /\ N \in Nat /\ s \in [1 .. M -> S] /\ t \in [1 .. N -> S]
    BY LenProperties
  <2>2. u \in Seq(S) /\ Len(u) = M + N
    BY ConcatProperties
  <2>3. \A i \in 1 .. M + N : u[i] = IF i <= M THEN s[i] ELSE t[i - M]
    BY ConcatProperties
  <2>4. \A i \in 1 .. N : M + i \in 1 .. M + N /\ ~ (M + i <= M) /\ (M + i) - M = i
    BY <2>1
  <2>5. \A i \in 1 .. M : i \in 1 .. M + N /\ i <= M
    BY <2>1
  <2> HIDE DEF u, M, N
  <2>6. \A i \in 1 .. N : u[M + i] = t[i]
    BY <2>3, <2>4
  <2> QED BY <2>1, <2>2, <2>3, <2>5, <2>6
<1>2. PICK f \in [0 .. M + N -> Seq(S)] : Keeps(u, I, M + N, f) /\ Chosen(u, I) = f[M + N]
  <2> HIDE DEF u, M, N
  <2>0. u \in Seq(S)
    BY <1>1
  <2>1. \E f \in [0 .. Len(u) -> Seq(S)] : Keeps(u, I, Len(u), f) /\ Chosen(u, I) = f[Len(u)]
    BY <2>0, ChosenSteps
  <2> QED BY <1>1, <2>1
<1>3. PICK g \in [0 .. M -> Seq(S)] : Keeps(s, J, M, g) /\ Chosen(s, J) = g[M]
  BY ChosenSteps
<1>4. PICK h \in [0 .. N -> Seq(S)] : Keeps(t, K, N, h) /\ Chosen(t, K) = h[N]
  BY ChosenSteps
<1>5. \A i \in 1 .. M : i \in I <=> i \in J
  OBVIOUS
<1>6. \A i \in 1 .. N : M + i \in I <=> i \in K
  OBVIOUS
<1> HIDE DEF u, M, N
<1>7. \A n \in 0 .. M : f[n] = g[n]
  <2> DEFINE T == {n \in 0 .. M : f[n] = g[n]}
  <2>1. 0 \in T
    BY <1>1, <1>2, <1>3 DEF Keeps
  <2>2. ASSUME NEW n \in 1 .. M, n - 1 \in T PROVE n \in T
    <3>1. n \in 1 .. M + N /\ n \in 0 .. M /\ f[n - 1] = g[n - 1]
      BY <1>1, <2>2
    <3>2. f[n] = IF n \in I THEN Append(f[n - 1], u[n]) ELSE f[n - 1]
      BY <1>2, <3>1 DEF Keeps
    <3>3. g[n] = IF n \in J THEN Append(g[n - 1], s[n]) ELSE g[n - 1]
      BY <1>3, <2>2 DEF Keeps
    <3>4. u[n] = s[n] /\ (n \in I <=> n \in J)
      BY <1>1, <1>5, <2>2
    <3>5. f[n] = g[n]
      <4>1. CASE n \in I
        BY ONLY <4>1, <3>1, <3>2, <3>3, <3>4
      <4>2. CASE n \notin I
        BY ONLY <4>2, <3>1, <3>2, <3>3, <3>4
      <4> QED BY <4>1, <4>2
    <3> QED BY <3>1, <3>5
  <2> HIDE DEF T
  <2>3. \A n \in 0 .. M : n \in T
    BY <1>1, <2>1, <2>2, UpTo
  <2> QED BY <2>3 DEF T
<1>8. \A n \in 0 .. N : f[M + n] = g[M] \o h[n]
  <2> DEFINE T == {n \in 0 .. N : f[M + n] = g[M] \o h[n]}
  <2>0. g[M] \in Seq(S)
    BY <1>1, <1>3
  <2>1. 0 \in T
    <3>1. f[M + 0] = g[M]
      BY <1>1, <1>7
    <3>2. h[0] = <<>>
      BY <1>4 DEF Keeps
    <3>3. g[M] \o h[0] = g[M]
      BY <2>0, <3>2, ConcatEmptySeq
    <3>4. 0 \in 0 .. N
      BY <1>1
    <3> QED BY <3>1, <3>3, <3>4
  <2>2. ASSUME NEW n \in 1 .. N, n - 1 \in T PROVE n \in T
    <3>1. n \in 0 .. N /\ n - 1 \in 0 .. N /\ M + n \in 1 .. M + N /\ (M + n) - 1 = M + (n - 1)
      BY <1>1, <2>2
    <3>2. f[M + (n - 1)] = g[M] \o h[n - 1] /\ h[n - 1] \in Seq(S)
      BY <1>4, <2>2, <3>1
    <3>3. f[M + n] = IF M + n \in I THEN Append(f[M + (n - 1)], u[M + n]) ELSE f[M + (n - 1)]
      BY <1>2, <3>1 DEF Keeps
    <3>4. h[n] = IF n \in K THEN Append(h[n - 1], t[n]) ELSE h[n - 1]
      BY <1>4, <2>2 DEF Keeps
    <3>5. u[M + n] = t[n] /\ t[n] \in S /\ (M + n \in I <=> n \in K)
      BY <1>1, <1>6, <2>2
    <3>6. f[M + n] = g[M] \o h[n]
      <4>1. CASE n \in K
        <5>1. f[M + n] = Append(g[M] \o h[n - 1], t[n])
          BY ONLY <4>1, <3>2, <3>3, <3>5
        <5>2. h[n] = Append(h[n - 1], t[n])
          BY ONLY <4>1, <3>4
        <5>3. Append(g[M] \o h[n - 1], t[n]) = g[M] \o Append(h[n - 1], t[n])
          <6> DEFINE a == g[M]
                     b == h[n - 1]
                     e == t[n]
                     l == <<e>>
          <6>1. a \in Seq(S) /\ b \in Seq(S) /\ e \in S
            BY <2>0, <3>2, <3>5
          <6> HIDE DEF a, b, e
          <6>2. l \in Seq(S) /\ a \o b \in Seq(S)
            BY <6>1, ConcatProperties
          <6>3. Append(a \o b, e) = (a \o b) \o l /\ Append(b, e) = b \o l
            BY <6>1, <6>2, AppendIsConcat
          <6> HIDE DEF l
          <6>4. (a \o b) \o l = a \o (b \o l)
            BY ONLY <6>1, <6>2, ConcatAssociative, SMTT(30)
          <6>5. Append(a \o b, e) = a \o Append(b, e)
            BY <6>3, <6>4
          <6> QED BY <6>5 DEF a, b, e
        <5> QED BY <5>1, <5>2, <5>3
      <4>2. CASE n \notin K
        BY ONLY <4>2, <3>2, <3>3, <3>4, <3>5
      <4> QED BY <4>1, <4>2
    <3> QED BY <3>1, <3>6
  <2> HIDE DEF T
  <2>3. \A n \in 0 .. N : n \in T
    BY <1>1, <2>1, <2>2, UpTo
  <2> QED BY <2>3 DEF T
<1>9. f[M + N] = g[M] \o h[N]
  <2>1. N \in 0 .. N
    BY <1>1
  <2> QED BY ONLY <1>8, <2>1
<1>10. Chosen(u, I) = Chosen(s, J) \o Chosen(t, K)
  BY <1>2, <1>3, <1>4, <1>9
<1> QED
  BY <1>10 DEF u

(***************************************************************************)
(* Messages.                                                               *)
(***************************************************************************)
AllDurable(s) == \A i \in 1 .. Len(s) : IsDurable(s[i])
AllSystem(o)  == \A i \in 1 .. Len(o) : IsSystem(o[i].message)

(* durable_canonical_message keeps messages that are durable ...              *)
LEMMA DurableKeeps ==
  ASSUME NEW s \in Seq(Message)
  PROVE  Durable(s) \in Seq(Message) /\ AllDurable(Durable(s))
<1> DEFINE I == {i \in DOMAIN s : IsDurable(s[i])}
<1>1. Durable(s) = Chosen(s, I)
  BY DEF Durable
<1>2. \A i \in 1 .. Len(s) : i \in I => IsDurable(s[i])
  OBVIOUS
<1> HIDE DEF I
<1>3. /\ Chosen(s, I) \in Seq(Message)
      /\ \A k \in 1 .. Len(Chosen(s, I)) : \E i \in 1 .. Len(s) : i \in I /\ Chosen(s, I)[k] = s[i]
  BY ChosenRange
<1>4. \A k \in 1 .. Len(Chosen(s, I)) : IsDurable(Chosen(s, I)[k])
  BY <1>2, <1>3
<1> QED
  BY <1>1, <1>3, <1>4 DEF AllDurable

(* ... all of them if they are ...                                            *)
LEMMA DurableAll ==
  ASSUME NEW s \in Seq(Message), AllDurable(s)
  PROVE  Durable(s) = s
<1> DEFINE I == {i \in DOMAIN s : IsDurable(s[i])}
<1>1. Durable(s) = Chosen(s, I)
  BY DEF Durable
<1>2. \A i \in 1 .. Len(s) : i \in I
  BY LenProperties DEF AllDurable
<1> HIDE DEF I
<1> QED
  BY <1>1, <1>2, ChosenAll

(* ... and none of the system's.                                              *)
LEMMA DurableNone ==
  ASSUME NEW s \in Seq(Message), \A i \in 1 .. Len(s) : IsSystem(s[i])
  PROVE  Durable(s) = <<>>
<1> DEFINE I == {i \in DOMAIN s : IsDurable(s[i])}
<1>1. Durable(s) = Chosen(s, I)
  BY DEF Durable
<1>2. \A i \in 1 .. Len(s) : i \notin I
  BY DEF IsDurable
<1> HIDE DEF I
<1> QED
  BY <1>1, <1>2, ChosenNone

LEMMA DurableConcat ==
  ASSUME NEW s \in Seq(Message), NEW t \in Seq(Message)
  PROVE  Durable(s \o t) = Durable(s) \o Durable(t)
<1> DEFINE u == s \o t
           I == {i \in DOMAIN u : IsDurable(u[i])}
           J == {i \in DOMAIN s : IsDurable(s[i])}
           K == {i \in DOMAIN t : IsDurable(t[i])}
<1>1. Durable(u) = Chosen(s \o t, I) /\ Durable(s) = Chosen(s, J) /\ Durable(t) = Chosen(t, K)
  BY DEF Durable
<1>2. /\ Len(s) \in Nat /\ DOMAIN s = 1 .. Len(s)
      /\ Len(t) \in Nat /\ DOMAIN t = 1 .. Len(t)
      /\ DOMAIN u = 1 .. Len(s) + Len(t)
      /\ \A i \in 1 .. Len(s) + Len(t) : u[i] = IF i <= Len(s) THEN s[i] ELSE t[i - Len(s)]
  <2>1. u \in Seq(Message) /\ Len(u) = Len(s) + Len(t)
    BY ConcatProperties
  <2> QED BY <2>1, LenProperties, ConcatProperties
<1>3. \A i \in 1 .. Len(s) : i \in I <=> i \in J
  <2>1. TAKE i \in 1 .. Len(s)
  <2>2. i \in DOMAIN u /\ i \in DOMAIN s /\ u[i] = s[i]
    <3> HIDE DEF u
    <3> QED BY <1>2
  <2> HIDE DEF u
  <2> QED BY <2>2
<1>4. \A i \in 1 .. Len(t) : Len(s) + i \in I <=> i \in K
  <2>1. TAKE i \in 1 .. Len(t)
  <2>2. Len(s) + i \in 1 .. Len(s) + Len(t) /\ ~ (Len(s) + i <= Len(s))
        /\ (Len(s) + i) - Len(s) = i
    BY <1>2
  <2> HIDE DEF u
  <2>3. Len(s) + i \in DOMAIN u /\ i \in DOMAIN t /\ u[Len(s) + i] = t[i]
    BY <1>2, <2>2
  <2> QED BY <2>3
<1> HIDE DEF I, J, K
<1>5. Chosen(s \o t, I) = Chosen(s, J) \o Chosen(t, K)
  BY <1>3, <1>4, ChosenConcat
<1> QED
  BY <1>1, <1>5

(* canonical_message_value is of each message on its own.                     *)
LEMMA CanonicalType ==
  ASSUME NEW s \in Seq(Message)
  PROVE  /\ Canonical(s) \in Seq(Message)
         /\ Len(Canonical(s)) = Len(s)
         /\ \A i \in 1 .. Len(s) : Canonical(s)[i] = [s[i] EXCEPT !.cached = FALSE]
<1>1. Len(s) \in Nat /\ DOMAIN s = 1 .. Len(s) /\ \A i \in 1 .. Len(s) : s[i] \in Message
  BY LenProperties
<1>2. Canonical(s) = [i \in 1 .. Len(s) |-> [s[i] EXCEPT !.cached = FALSE]]
  BY <1>1 DEF Canonical
<1>3. \A i \in 1 .. Len(s) : [s[i] EXCEPT !.cached = FALSE] \in Message
  BY <1>1 DEF Message
<1>4. Canonical(s) \in [1 .. Len(s) -> Message]
  BY <1>2, <1>3
<1>5. Canonical(s) \in Seq(Message)
  BY <1>1, <1>4, SeqDef
<1>6. Len(Canonical(s)) = Len(s)
  BY <1>1, <1>4, <1>5, LenProperties
<1> QED
  BY <1>2, <1>5, <1>6

LEMMA CanonicalConcat ==
  ASSUME NEW s \in Seq(Message), NEW t \in Seq(Message)
  PROVE  Canonical(s \o t) = Canonical(s) \o Canonical(t)
<1> DEFINE u == s \o t
           a == Canonical(u)
           b == Canonical(s) \o Canonical(t)
<1>1. /\ Len(s) \in Nat /\ Len(t) \in Nat
      /\ u \in Seq(Message) /\ Len(u) = Len(s) + Len(t)
      /\ \A i \in 1 .. Len(s) + Len(t) : u[i] = IF i <= Len(s) THEN s[i] ELSE t[i - Len(s)]
  BY LenProperties, ConcatProperties
<1>2. /\ a \in Seq(Message) /\ Len(a) = Len(s) + Len(t)
      /\ \A i \in 1 .. Len(s) + Len(t) : a[i] = [u[i] EXCEPT !.cached = FALSE]
  <2> HIDE DEF u
  <2>1. Canonical(u) \in Seq(Message) /\ Len(Canonical(u)) = Len(u)
        /\ \A i \in 1 .. Len(u) : Canonical(u)[i] = [u[i] EXCEPT !.cached = FALSE]
    BY <1>1, CanonicalType
  <2> QED BY <1>1, <2>1
<1>3. /\ Canonical(s) \in Seq(Message) /\ Len(Canonical(s)) = Len(s)
      /\ \A i \in 1 .. Len(s) : Canonical(s)[i] = [s[i] EXCEPT !.cached = FALSE]
  BY CanonicalType
<1>4. /\ Canonical(t) \in Seq(Message) /\ Len(Canonical(t)) = Len(t)
      /\ \A i \in 1 .. Len(t) : Canonical(t)[i] = [t[i] EXCEPT !.cached = FALSE]
  BY CanonicalType
<1>5. /\ b \in Seq(Message) /\ Len(b) = Len(s) + Len(t)
      /\ \A i \in 1 .. Len(s) + Len(t) :
           b[i] = IF i <= Len(s) THEN Canonical(s)[i] ELSE Canonical(t)[i - Len(s)]
  BY <1>3, <1>4, ConcatProperties
<1>6. \A i \in 1 .. Len(s) + Len(t) : a[i] = b[i]
  <2> HIDE DEF a, b, u
  <2>1. TAKE i \in 1 .. Len(s) + Len(t)
  <2>2. CASE i <= Len(s)
    <3>1. i \in 1 .. Len(s)
      BY <1>1, <2>2
    <3> QED BY <1>1, <1>2, <1>3, <1>5, <2>2, <3>1
  <2>3. CASE ~ (i <= Len(s))
    <3>1. i - Len(s) \in 1 .. Len(t)
      BY <1>1, <2>3
    <3>2. a[i] = [t[i - Len(s)] EXCEPT !.cached = FALSE]
      BY <1>1, <1>2, <2>3
    <3>3. b[i] = Canonical(t)[i - Len(s)]
      BY <1>5, <2>3
    <3> QED BY <1>4, <3>1, <3>2, <3>3
  <2> QED BY <2>2, <2>3
<1>7. a = b
  <2> HIDE DEF a, b, u
  <2> QED BY <1>2, <1>5, <1>6, SeqEqual
<1> QED
  BY <1>7

(* A context as a list of messages.                                           *)
Said(d) == [i \in DOMAIN d |-> d[i].message]

LEMMA SaidType ==
  ASSUME NEW d \in Seq(Item)
  PROVE  /\ Said(d) \in Seq(Message) /\ Len(Said(d)) = Len(d)
         /\ \A i \in 1 .. Len(d) : Said(d)[i] = d[i].message
<1>1. Len(d) \in Nat /\ DOMAIN d = 1 .. Len(d) /\ \A i \in 1 .. Len(d) : d[i] \in Item
  BY LenProperties
<1>2. Said(d) = [i \in 1 .. Len(d) |-> d[i].message]
  BY <1>1 DEF Said
<1>3. \A i \in 1 .. Len(d) : d[i].message \in Message
  BY <1>1 DEF Item
<1>4. Said(d) \in [1 .. Len(d) -> Message]
  BY <1>2, <1>3
<1>5. Said(d) \in Seq(Message)
  BY <1>1, <1>4, SeqDef
<1>6. Len(Said(d)) = Len(d)
  BY <1>1, <1>4, <1>5, LenProperties
<1> QED
  BY <1>2, <1>5, <1>6

LEMMA SaidConcat ==
  ASSUME NEW c \in Seq(Item), NEW d \in Seq(Item)
  PROVE  Said(c \o d) = Said(c) \o Said(d)
<1> DEFINE u == c \o d
           a == Said(u)
           b == Said(c) \o Said(d)
<1>1. /\ Len(c) \in Nat /\ Len(d) \in Nat
      /\ u \in Seq(Item) /\ Len(u) = Len(c) + Len(d)
      /\ \A i \in 1 .. Len(c) + Len(d) : u[i] = IF i <= Len(c) THEN c[i] ELSE d[i - Len(c)]
  BY LenProperties, ConcatProperties
<1>2. /\ a \in Seq(Message) /\ Len(a) = Len(c) + Len(d)
      /\ \A i \in 1 .. Len(c) + Len(d) : a[i] = u[i].message
  <2> HIDE DEF u
  <2> QED BY <1>1, SaidType
<1>3. /\ Said(c) \in Seq(Message) /\ Len(Said(c)) = Len(c)
      /\ \A i \in 1 .. Len(c) : Said(c)[i] = c[i].message
  BY SaidType
<1>4. /\ Said(d) \in Seq(Message) /\ Len(Said(d)) = Len(d)
      /\ \A i \in 1 .. Len(d) : Said(d)[i] = d[i].message
  BY SaidType
<1>5. /\ b \in Seq(Message) /\ Len(b) = Len(c) + Len(d)
      /\ \A i \in 1 .. Len(c) + Len(d) :
           b[i] = IF i <= Len(c) THEN Said(c)[i] ELSE Said(d)[i - Len(c)]
  <2> DEFINE x == Said(c)
             y == Said(d)
  <2>1. x \in Seq(Message) /\ y \in Seq(Message) /\ Len(x) = Len(c) /\ Len(y) = Len(d)
    BY <1>3, <1>4
  <2> HIDE DEF x, y
  <2>2. /\ x \o y \in Seq(Message) /\ Len(x \o y) = Len(x) + Len(y)
        /\ \A i \in 1 .. Len(x) + Len(y) :
             (x \o y)[i] = IF i <= Len(x) THEN x[i] ELSE y[i - Len(x)]
    BY <2>1, ConcatProperties
  <2> QED BY <2>1, <2>2 DEF x, y
<1>6. \A i \in 1 .. Len(c) + Len(d) : a[i] = b[i]
  <2> HIDE DEF a, b, u
  <2>1. TAKE i \in 1 .. Len(c) + Len(d)
  <2>2. CASE i <= Len(c)
    <3>1. i \in 1 .. Len(c)
      BY <1>1, <2>2
    <3> QED BY <1>1, <1>2, <1>3, <1>5, <2>2, <3>1
  <2>3. CASE ~ (i <= Len(c))
    <3>1. i - Len(c) \in 1 .. Len(d)
      BY <1>1, <2>3
    <3>2. a[i] = d[i - Len(c)].message
      BY <1>1, <1>2, <2>3
    <3>3. b[i] = Said(d)[i - Len(c)]
      BY <1>5, <2>3
    <3> QED BY <1>4, <3>1, <3>2, <3>3
  <2> QED BY <2>2, <2>3
<1>7. a = b
  <2> HIDE DEF a, b, u
  <2> QED BY <1>2, <1>5, <1>6, SeqEqual
<1> QED
  BY <1>7

(* What the gateway told of a context is what it told of its parts.           *)
LEMMA ToldConcat ==
  ASSUME NEW c \in Seq(Item), NEW d \in Seq(Item)
  PROVE  Told(c \o d) = Told(c) \o Told(d)
<1> DEFINE u == c \o d
           I == {i \in DOMAIN u : ~u[i].output}
           J == {i \in DOMAIN c : ~c[i].output}
           K == {i \in DOMAIN d : ~d[i].output}
<1>1. /\ Told(u) = Said(Chosen(c \o d, I))
      /\ Told(c) = Said(Chosen(c, J)) /\ Told(d) = Said(Chosen(d, K))
  BY DEF Told, Said
<1>2. /\ Len(c) \in Nat /\ DOMAIN c = 1 .. Len(c)
      /\ Len(d) \in Nat /\ DOMAIN d = 1 .. Len(d)
      /\ DOMAIN u = 1 .. Len(c) + Len(d)
      /\ \A i \in 1 .. Len(c) + Len(d) : u[i] = IF i <= Len(c) THEN c[i] ELSE d[i - Len(c)]
  <2>1. u \in Seq(Item) /\ Len(u) = Len(c) + Len(d)
    BY ConcatProperties
  <2> QED BY <2>1, LenProperties, ConcatProperties
<1>3. \A i \in 1 .. Len(c) : i \in I <=> i \in J
  <2>1. TAKE i \in 1 .. Len(c)
  <2>2. i \in DOMAIN u /\ i \in DOMAIN c /\ u[i] = c[i]
    <3> HIDE DEF u
    <3> QED BY <1>2
  <2> HIDE DEF u
  <2> QED BY <2>2
<1>4. \A i \in 1 .. Len(d) : Len(c) + i \in I <=> i \in K
  <2>1. TAKE i \in 1 .. Len(d)
  <2>2. Len(c) + i \in 1 .. Len(c) + Len(d) /\ ~ (Len(c) + i <= Len(c))
        /\ (Len(c) + i) - Len(c) = i
    BY <1>2
  <2> HIDE DEF u
  <2>3. Len(c) + i \in DOMAIN u /\ i \in DOMAIN d /\ u[Len(c) + i] = d[i]
    BY <1>2, <2>2
  <2> QED BY <2>3
<1> HIDE DEF I, J, K
<1>5. Chosen(c \o d, I) = Chosen(c, J) \o Chosen(d, K)
  BY <1>3, <1>4, ChosenConcat
<1>6. Chosen(c, J) \in Seq(Item) /\ Chosen(d, K) \in Seq(Item)
  BY ChosenRange
<1>7. Said(Chosen(c, J) \o Chosen(d, K)) = Said(Chosen(c, J)) \o Said(Chosen(d, K))
  BY <1>6, SaidConcat
<1> QED
  BY <1>1, <1>5, <1>7

LEMMA ToldNothing == <<>> \in Seq(Item) /\ Told(<<>>) = <<>>
<1> DEFINE e == <<>>
           I == {i \in DOMAIN e : ~e[i].output}
<1>1. e \in Seq(Item) /\ Len(e) = 0
  BY EmptySeq
<1>2. Told(e) = Said(Chosen(e, I))
  BY DEF Told, Said
<1> HIDE DEF I, e
<1>3. \A i \in 1 .. Len(e) : i \notin I
  BY <1>1
<1>4. Chosen(e, I) = <<>>
  BY <1>1, <1>3, ChosenNone
<1>5. Told(e) = Said(e)
  BY <1>2, <1>4 DEF e
<1>6. Said(e) \in Seq(Message) /\ Len(Said(e)) = 0
  BY <1>1, SaidType
<1>7. Told(e) = <<>>
  BY <1>5, <1>6, EmptySeq
<1> QED
  BY <1>1, <1>7 DEF e

(* translate_messages_to_backend_items: the durable messages, as the          *)
(* gateway's.                                                                 *)
LEMMA ItemsTold ==
  ASSUME NEW s \in Seq(Message)
  PROVE  Items(s) \in Seq(Item) /\ Told(Items(s)) = Canonical(Durable(s))
<1> DEFINE said == Canonical(Durable(s))
           d    == Items(s)
           I    == {i \in DOMAIN d : ~d[i].output}
<1>1. said \in Seq(Message)
  BY DurableKeeps, CanonicalType
<1>2. d = [i \in DOMAIN said |-> [message |-> said[i], output |-> FALSE]]
  BY DEF Items
<1>3. Told(d) = Said(Chosen(d, I))
  BY DEF Told, Said
<1> HIDE DEF said, d
<1>4. Len(said) \in Nat /\ DOMAIN said = 1 .. Len(said) /\ \A i \in 1 .. Len(said) : said[i] \in Message
  BY <1>1, LenProperties
<1>5. \A i \in 1 .. Len(said) : d[i] = [message |-> said[i], output |-> FALSE]
  BY <1>2, <1>4
<1>6. \A i \in 1 .. Len(said) : d[i] \in Item /\ d[i].message = said[i] /\ ~d[i].output
  <2>1. TAKE i \in 1 .. Len(said)
  <2>2. said[i] \in Message /\ d[i] = [message |-> said[i], output |-> FALSE]
    BY <1>4, <1>5
  <2>3. d[i] \in Item
    BY <2>2 DEF Item
  <2>4. d[i].message = said[i] /\ d[i].output = FALSE
    BY <2>2
  <2> QED BY <2>3, <2>4
<1>7. d \in [1 .. Len(said) -> Item]
  BY <1>2, <1>4, <1>6
<1>8. d \in Seq(Item)
  BY <1>4, <1>7, SeqDef
<1>9. Len(d) = Len(said) /\ DOMAIN d = 1 .. Len(said)
  BY <1>4, <1>7, <1>8, LenProperties
<1>10. \A i \in 1 .. Len(d) : i \in I
  BY <1>6, <1>9
<1> HIDE DEF I
<1>11. Told(d) = Said(d)
  BY <1>3, <1>8, <1>10, ChosenAll
<1>12. /\ Said(d) \in Seq(Message) /\ Len(Said(d)) = Len(said)
       /\ \A i \in 1 .. Len(said) : Said(d)[i] = said[i]
  BY <1>6, <1>8, <1>9, SaidType
<1>13. Said(d) = said
  BY <1>1, <1>12, SeqEqual
<1> QED
  BY <1>8, <1>11, <1>13 DEF d, said

(* The output of a response is not the gateway's.                             *)
LEMMA OutputTold ==
  ASSUME NEW c \in Seq(Item)
  PROVE  Append(c, Output) \in Seq(Item) /\ Told(Append(c, Output)) = Told(c)
<1> DEFINE d == <<Output>>
           I == {i \in DOMAIN d : ~d[i].output}
<1>1. Output \in Item /\ Output.output
  BY WordAssumption DEF Output, Item, Answer, Say, Message
<1>2. d \in Seq(Item) /\ Len(d) = 1 /\ d[1] = Output
  BY <1>1
<1>3. Append(c, Output) = c \o d
  BY <1>1
<1>4. Told(d) = Said(Chosen(d, I))
  BY DEF Told, Said
<1>5. \A i \in 1 .. Len(d) : i \notin I
  BY <1>1, <1>2
<1> HIDE DEF d, I
<1>6. Chosen(d, I) = <<>>
  BY <1>2, <1>5, ChosenNone
<1>7. Told(d) = <<>>
  <2>1. Said(<<>>) \in Seq(Message) /\ Len(Said(<<>>)) = 0
    BY ToldNothing, EmptySeq, SaidType
  <2>2. Said(<<>>) = <<>>
    BY <2>1, EmptySeq
  <2> QED BY <1>4, <1>6, <2>2
<1>8. Told(c \o d) = Told(c) \o <<>> /\ c \o d \in Seq(Item)
  BY <1>2, <1>7, ToldConcat, ConcatProperties
<1>9. Told(c) \in Seq(Message)
  <2> DEFINE J == {i \in DOMAIN c : ~c[i].output}
  <2>1. Told(c) = Said(Chosen(c, J))
    BY DEF Told, Said
  <2> HIDE DEF J
  <2>2. Chosen(c, J) \in Seq(Item)
    BY ChosenRange
  <2> QED BY <2>1, <2>2, SaidType
<1> QED
  BY <1>3, <1>8, <1>9, ConcatEmptySeq

(* classify_canonical_messages: what it sets aside are system messages.       *)
LEMMA OperationalKeeps ==
  ASSUME NEW s \in Seq(Message)
  PROVE  Operational(s) \in Seq(Note) /\ AllSystem(Operational(s))
<1> DEFINE placed(i) == [message |-> s[i], before |-> Len(Durable(Prefix(s, i)))]
           all == [i \in DOMAIN s |-> placed(i)]
           I == {i \in DOMAIN s : IsSystem(s[i])}
<1>1. Len(s) \in Nat /\ DOMAIN s = 1 .. Len(s) /\ \A i \in 1 .. Len(s) : s[i] \in Message
  BY LenProperties
<1>2. Operational(s) = Chosen(all, I)
  BY DEF Operational
<1>3. \A i \in 1 .. Len(s) : placed(i) \in Note
  <2>1. TAKE i \in 1 .. Len(s)
  <2>2. Prefix(s, i) \in Seq(Message)
    <3> DEFINE n == IF i < Len(s) THEN i ELSE Len(s)
    <3>1. n \in Int /\ \A k \in 1 .. n : s[k] \in Message
      BY <1>1
    <3> HIDE DEF n
    <3>2. SubSeq(s, 1, n) \in Seq(Message)
      BY <3>1, SubSeqProperties
    <3> QED BY <3>2 DEF Prefix, n
  <2>3. Len(Durable(Prefix(s, i))) \in Nat
    BY <2>2, DurableKeeps, LenProperties
  <2> QED BY <1>1, <2>3 DEF Note
<1>4. all \in Seq(Note) /\ Len(all) = Len(s) /\ \A i \in 1 .. Len(s) : all[i].message = s[i]
  <2>1. all \in [1 .. Len(s) -> Note]
    BY <1>1, <1>3
  <2>2. all \in Seq(Note)
    BY <1>1, <2>1, SeqDef
  <2>3. Len(all) = Len(s)
    BY <1>1, <2>1, <2>2, LenProperties
  <2> QED BY <1>1, <2>2, <2>3
<1>5. \A i \in 1 .. Len(s) : i \in I => IsSystem(s[i])
  OBVIOUS
<1> HIDE DEF all, I, placed
<1>6. /\ Chosen(all, I) \in Seq(Note)
      /\ \A k \in 1 .. Len(Chosen(all, I)) :
           \E i \in 1 .. Len(all) : i \in I /\ Chosen(all, I)[k] = all[i]
  BY <1>4, ChosenRange
<1>7. \A k \in 1 .. Len(Chosen(all, I)) : IsSystem(Chosen(all, I)[k].message)
  BY <1>4, <1>5, <1>6
<1> QED
  BY <1>2, <1>6, <1>7 DEF AllSystem

(* render_messages_with_operational_context: the durable part of what is      *)
(* rendered is what was to be rendered.                                       *)
LEMMA RenderKeeps ==
  ASSUME NEW d \in Seq(Message), NEW o \in Seq(Note), AllSystem(o), NEW start
  PROVE  /\ Render(d, o, start) \in Seq(Message)
         /\ Render(d, o, start) = <<>> => d = <<>>
         /\ AllDurable(d) => Durable(Render(d, o, start)) = d
<1> DEFINE I == {i \in DOMAIN o : o[i].before >= start}
           later == Chosen(o, I)
           x == [i \in DOMAIN later |-> later[i].message]
<1>1. Render(d, o, start) = d \o x
  BY DEF Render
<1>2. /\ later \in Seq(Note)
      /\ \A k \in 1 .. Len(later) : \E i \in 1 .. Len(o) : i \in I /\ later[k] = o[i]
  <2> HIDE DEF I
  <2> QED BY ChosenRange
<1>3. \A k \in 1 .. Len(later) : IsSystem(later[k].message) /\ later[k].message \in Message
  <2>1. \A i \in 1 .. Len(o) : IsSystem(o[i].message) /\ o[i].message \in Message
    <3>1. TAKE i \in 1 .. Len(o)
    <3>2. o[i] \in Note
      BY LenProperties
    <3> QED BY <3>2 DEF AllSystem, Note
  <2> HIDE DEF later
  <2> QED BY <1>2, <2>1
<1>4. x \in Seq(Message) /\ \A k \in 1 .. Len(x) : IsSystem(x[k])
  <2> HIDE DEF later
  <2>1. Len(later) \in Nat /\ DOMAIN later = 1 .. Len(later)
    BY <1>2, LenProperties
  <2>2. x \in [1 .. Len(later) -> Message]
    BY <1>3, <2>1
  <2>3. x \in Seq(Message)
    BY <2>1, <2>2, SeqDef
  <2>4. Len(x) = Len(later)
    BY <2>1, <2>2, <2>3, LenProperties
  <2> QED BY <1>3, <2>1, <2>3, <2>4
<1> HIDE DEF x
<1>5. d \o x \in Seq(Message)
  BY <1>4, ConcatProperties
<1>6. d \o x = <<>> => d = <<>>
  BY <1>4, ConcatEqualIffEmpty
<1>7. ASSUME AllDurable(d) PROVE Durable(d \o x) = d
  <2>1. Durable(d \o x) = Durable(d) \o Durable(x)
    BY <1>4, DurableConcat
  <2>2. Durable(d) = d /\ Durable(x) = <<>>
    BY <1>4, <1>7, DurableAll, DurableNone
  <2>3. d \o <<>> = d
    BY ConcatEmptySeq
  <2> QED BY <2>1, <2>2, <2>3
<1> QED
  BY <1>1, <1>5, <1>6, <1>7

LEMMA PrefixType ==
  ASSUME NEW S, NEW s \in Seq(S), NEW n \in Nat
  PROVE  /\ Prefix(s, n) \in Seq(S)
         /\ n <= Len(s) => Prefix(s, n) = SubSeq(s, 1, n) /\ Len(Prefix(s, n)) = n
<1>1. Len(s) \in Nat /\ \A i \in 1 .. Len(s) : s[i] \in S
  BY LenProperties
<1> DEFINE m == IF n < Len(s) THEN n ELSE Len(s)
<1>2. m \in Nat /\ (\A i \in 1 .. m : s[i] \in S) /\ (n <= Len(s) => m = n)
  BY <1>1
<1> HIDE DEF m
<1>3. SubSeq(s, 1, m) \in Seq(S) /\ Len(SubSeq(s, 1, m)) = m
  <2>1. 1 \in Int /\ m \in Int
    BY <1>2
  <2>2. SubSeq(s, 1, m) \in Seq(S)
        /\ Len(SubSeq(s, 1, m)) = IF 1 <= m THEN m - 1 + 1 ELSE 0
    BY <1>2, <2>1, SubSeqProperties
  <2> QED BY <1>2, <2>2
<1>4. Prefix(s, n) = SubSeq(s, 1, m)
  BY DEF Prefix, m
<1> QED
  BY <1>2, <1>3, <1>4

(* A delta is what its prefix leaves out, and it is empty only if that is     *)
(* nothing.                                                                   *)
LEMMA DeltaCompletes ==
  ASSUME NEW a \in Seq(Message), AllDurable(a), NEW start \in Nat,
         NEW o \in Seq(Note), AllSystem(o)
  PROVE  LET d == Render(SubSeq(a, start + 1, Len(a)), o, start) IN
         /\ d \in Seq(Message)
         /\ start <= Len(a) => Canonical(Prefix(a, start)) \o Canonical(Durable(d)) = Canonical(a)
         /\ d = <<>> => Len(a) <= start
<1> DEFINE rest == SubSeq(a, start + 1, Len(a))
           d == Render(rest, o, start)
<1>1. Len(a) \in Nat /\ \A i \in 1 .. Len(a) : a[i] \in Message
  BY LenProperties
<1>2. /\ rest \in Seq(Message)
      /\ Len(rest) = IF start + 1 <= Len(a) THEN Len(a) - (start + 1) + 1 ELSE 0
      /\ \A i \in 1 .. Len(a) - (start + 1) + 1 : rest[i] = a[(start + 1) + i - 1]
  <2>1. start + 1 \in Int /\ Len(a) \in Int /\ \A i \in start + 1 .. Len(a) : a[i] \in Message
    BY <1>1
  <2> QED BY <2>1, SubSeqProperties
<1>3. AllDurable(rest)
  <2>1. SUFFICES ASSUME NEW i \in 1 .. Len(rest) PROVE IsDurable(rest[i])
    BY DEF AllDurable
  <2> HIDE DEF rest
  <2>2. i \in 1 .. Len(a) - (start + 1) + 1 /\ (start + 1) + i - 1 \in 1 .. Len(a)
    BY <1>1, <1>2
  <2> QED BY <1>2, <2>2 DEF AllDurable
<1> HIDE DEF rest
<1>4. d \in Seq(Message) /\ (d = <<>> => rest = <<>>) /\ Durable(d) = rest
  BY <1>2, <1>3, RenderKeeps
<1>5. d = <<>> => Len(a) <= start
  <2>1. SUFFICES ASSUME rest = <<>> PROVE Len(a) <= start
    BY <1>4
  <2>2. Len(rest) = 0
    BY <2>1, EmptySeq
  <2> QED BY <1>1, <1>2, <2>2
<1>6. ASSUME start <= Len(a)
      PROVE  Canonical(Prefix(a, start)) \o Canonical(Durable(d)) = Canonical(a)
  <2>1. Prefix(a, start) \in Seq(Message) /\ Prefix(a, start) = SubSeq(a, 1, start)
    BY <1>6, PrefixType
  <2>2. SubSeq(a, 1, start) \o SubSeq(a, start + 1, Len(a)) = SubSeq(a, 1, Len(a))
    <3>1. /\ 1 \in 1 .. Len(a) + 1 /\ start \in 1 - 1 .. Len(a) /\ Len(a) \in start .. Len(a)
      BY <1>1, <1>6
    <3> QED BY <3>1, ConcatAdjacentSubSeq
  <2>3. SubSeq(a, 1, Len(a)) = a
    BY SubSeqFull
  <2>4. Prefix(a, start) \o rest = a
    BY <2>1, <2>2, <2>3 DEF rest
  <2>5. Canonical(Prefix(a, start) \o rest) = Canonical(Prefix(a, start)) \o Canonical(rest)
    BY <1>2, <2>1, CanonicalConcat
  <2> QED BY <1>4, <2>4, <2>5
<1> QED
  BY <1>4, <1>5, <1>6 DEF rest

(***************************************************************************)
(* What the choices return.                                                *)
(***************************************************************************)

(* Of some positions there is one with the largest value, the last of those   *)
(* that tie: what max_by_key finds.                                           *)
LEMMA LargestExists ==
  ASSUME NEW N \in Nat, NEW f \in [1 .. N -> Nat], NEW I \in SUBSET (1 .. N), I # {}
  PROVE  \E i \in I : \A j \in I : f[j] < f[i] \/ (f[j] = f[i] /\ j <= i)
<1> DEFINE Top(i, j) == f[j] < f[i] \/ (f[j] = f[i] /\ j <= i)
           Has(n) == (\E i \in I : i <= n) => \E i \in I : i <= n /\ \A j \in I : j <= n => Top(i, j)
           T == {n \in 0 .. N : Has(n)}
<1>1. 0 \in T
  OBVIOUS
<1>2. ASSUME NEW n \in 1 .. N, n - 1 \in T PROVE n \in T
  <2>0. n \in Nat /\ n \in 0 .. N /\ Has(n - 1)
    BY <1>2
  <2>1. CASE n \notin I
    <3>1. \A i \in I : i <= n <=> i <= n - 1
      BY <2>0, <2>1
    <3> QED BY <2>0, <3>1
  <2>2. CASE n \in I
    <3>1. CASE ~ \E i \in I : i <= n - 1
      <4>1. \A j \in I : j <= n => j = n
        BY <2>0, <3>1
      <4>2. \A j \in I : j <= n => Top(n, j)
        BY <4>1, <2>0
      <4> QED BY <2>0, <2>2, <4>2
    <3>2. CASE \E i \in I : i <= n - 1
      <4>1. PICK i \in I : i <= n - 1 /\ \A j \in I : j <= n - 1 => Top(i, j)
        BY <2>0, <3>2
      <4>2. f[i] \in Nat /\ f[n] \in Nat /\ i \in 1 .. N
        BY <2>2
      <4>3. CASE f[i] <= f[n]
        <5>1. ASSUME NEW j \in I, j <= n PROVE Top(n, j)
          <6>1. j = n \/ (j <= n - 1 /\ Top(i, j))
            BY <5>1, <4>1, <2>0
          <6>2. f[j] \in Nat /\ j \in 1 .. N
            BY <5>1
          <6> QED BY <6>1, <6>2, <4>2, <4>3, <2>0
        <5> QED BY <2>0, <2>2, <5>1
      <4>4. CASE ~ (f[i] <= f[n])
        <5>1. ASSUME NEW j \in I, j <= n PROVE Top(i, j)
          <6>1. j = n \/ (j <= n - 1 /\ Top(i, j))
            BY <5>1, <4>1, <2>0
          <6> QED BY <6>1, <4>2, <4>4
        <5> QED BY <2>0, <4>1, <4>2, <5>1
      <4> QED BY <4>3, <4>4
    <3> QED BY <3>1, <3>2
  <2> QED BY <2>1, <2>2
<1>3. \A n \in 0 .. N : n \in T
  <2> HIDE DEF T
  <2> QED BY <1>1, <1>2, UpTo
<1>4. Has(N)
  <2>1. N \in 0 .. N
    OBVIOUS
  <2>2. N \in T
    <3> HIDE DEF T
    <3> QED BY <1>3, <2>1
  <2> QED BY <2>2
<1>5. \A j \in I : j <= N
  OBVIOUS
<1> QED
  BY <1>4, <1>5

LEMMA NewestIn ==
  ASSUME NEW bs \in Seq(Branch), NEW I \in SUBSET DOMAIN bs, I # {}
  PROVE  Newest(bs, I) \in I
<1>1. Len(bs) \in Nat /\ DOMAIN bs = 1 .. Len(bs) /\ \A i \in 1 .. Len(bs) : bs[i] \in Branch
  BY LenProperties
<1> DEFINE f == [i \in 1 .. Len(bs) |-> bs[i].updated]
<1>2. f \in [1 .. Len(bs) -> Nat] /\ I \in SUBSET (1 .. Len(bs))
  BY <1>1 DEF Branch
<1>3. \E i \in I : \A j \in I : f[j] < f[i] \/ (f[j] = f[i] /\ j <= i)
  <2> HIDE DEF f
  <2> QED BY <1>1, <1>2, LargestExists
<1>4. \E i \in I : \A j \in I : bs[j].updated < bs[i].updated
                                \/ (bs[j].updated = bs[i].updated /\ j <= i)
  BY <1>2, <1>3
<1> QED
  BY <1>4 DEF Newest

(* best_prefix_matched_branch: a longest stored prefix, if there is one.      *)
LEMMA BestPrefixIn ==
  ASSUME NEW bs \in Seq(Branch), NEW m \in Seq(Message)
  PROVE  /\ BestPrefix(bs, m) = None <=> PrefixMatches(bs, m) = {}
         /\ PrefixMatches(bs, m) # {} =>
              /\ BestPrefix(bs, m) \in PrefixMatches(bs, m)
              /\ \A j \in PrefixMatches(bs, m) :
                   Len(bs[j].active) <= Len(bs[BestPrefix(bs, m)].active)
<1> DEFINE I == PrefixMatches(bs, m)
           longest == {i \in I : \A j \in I : Len(bs[j].active) <= Len(bs[i].active)}
<1>1. Len(bs) \in Nat /\ DOMAIN bs = 1 .. Len(bs) /\ \A i \in 1 .. Len(bs) : bs[i] \in Branch
  BY LenProperties
<1>2. BestPrefix(bs, m) = IF I = {} THEN None ELSE Newest(bs, longest)
  BY DEF BestPrefix
<1>3. I \in SUBSET (1 .. Len(bs))
  BY <1>1 DEF PrefixMatches
<1>4. ASSUME I # {} PROVE longest # {}
  <2> DEFINE f == [i \in 1 .. Len(bs) |-> Len(bs[i].active)]
  <2>1. \A i \in 1 .. Len(bs) : Len(bs[i].active) \in Nat
    BY <1>1, LenProperties DEF Branch
  <2>2. f \in [1 .. Len(bs) -> Nat]
    BY <2>1
  <2>3. PICK i \in I : \A j \in I : f[j] < f[i] \/ (f[j] = f[i] /\ j <= i)
    <3> HIDE DEF f, I
    <3> QED BY <1>1, <1>3, <1>4, <2>2, LargestExists
  <2>4. \A j \in I : Len(bs[j].active) <= Len(bs[i].active)
    <3> HIDE DEF I
    <3>1. TAKE j \in I
    <3>2. i \in 1 .. Len(bs) /\ j \in 1 .. Len(bs)
      BY <1>3
    <3>3. f[i] = Len(bs[i].active) /\ f[j] = Len(bs[j].active)
      BY <3>2
    <3> HIDE DEF f
    <3> QED BY <2>1, <2>3, <3>2, <3>3
  <2> QED BY <2>4
<1> HIDE DEF I
<1>5. longest \in SUBSET DOMAIN bs
  BY <1>1, <1>3
<1>6. I # {} => Newest(bs, longest) \in longest
  <2> HIDE DEF longest
  <2> QED BY <1>4, <1>5, NewestIn
<1>7. I # {} => Newest(bs, longest) \in Nat
  <2>1. longest \subseteq I
    OBVIOUS
  <2> DEFINE x == Newest(bs, longest)
  <2>2. I # {} => x \in longest
    BY <1>6
  <2> HIDE DEF longest, x
  <2>3. I # {} => x \in 1 .. Len(bs)
    BY <1>3, <2>1, <2>2
  <2>4. I # {} => x \in Nat
    BY <1>1, <2>3
  <2> QED BY <2>4 DEF x
<1>8. None \notin Nat
  BY SelectionNoneAssumption
<1>9. I # {} => /\ BestPrefix(bs, m) \in I
                /\ \A j \in I : Len(bs[j].active) <= Len(bs[BestPrefix(bs, m)].active)
  BY <1>2, <1>6
<1> QED
  BY <1>2, <1>7, <1>8, <1>9 DEF I

(* durable_branch_match: a branch of those that were read, and where the      *)
(* delta would start.                                                         *)
LEMMA DurableMatchIn ==
  ASSUME NEW bs \in Seq(Branch), bs # <<>>, NEW m \in Seq(Message), NEW compact
  PROVE  LET match == DurableMatch(bs, m, compact) IN
         /\ match.branch \in DOMAIN bs
         /\ match.start \in Nat
         /\ PrefixMatches(bs, m) # {} =>
              match.branch = BestPrefix(bs, m) /\ match.start = Len(bs[match.branch].active)
         /\ PrefixMatches(bs, m) = {} /\ compact # "command" => match.start = 0
<1> DEFINE best   == BestPrefix(bs, m)
           latest == LatestContext(bs)
           match  == DurableMatch(bs, m, compact)
<1>1. Len(bs) \in Nat /\ DOMAIN bs = 1 .. Len(bs) /\ \A i \in 1 .. Len(bs) : bs[i] \in Branch
  BY LenProperties
<1>2. DOMAIN bs # {}
  BY <1>1, EmptySeq
<1>3. \A i \in DOMAIN bs : Len(bs[i].active) \in Nat
  BY <1>1, LenProperties DEF Branch
<1>4. match = IF best # None THEN [branch |-> best, start |-> Len(bs[best].active)]
              ELSE IF latest = None THEN [branch |-> Newest(bs, DOMAIN bs), start |-> 0]
              ELSE [branch |-> latest,
                    start  |-> IF compact = "command" THEN Len(bs[latest].active) ELSE 0]
  BY DEF DurableMatch
<1>5. best # None => best \in DOMAIN bs
  BY BestPrefixIn DEF PrefixMatches
<1>6. latest # None => latest \in DOMAIN bs
  <2>1. WithHead(bs) \in SUBSET DOMAIN bs
    BY DEF WithHead
  <2> QED BY <2>1, NewestIn DEF LatestContext
<1>7. Newest(bs, DOMAIN bs) \in DOMAIN bs
  BY <1>2, NewestIn
<1>8. (best = None) <=> PrefixMatches(bs, m) = {}
  BY BestPrefixIn
<1> HIDE DEF best, latest, match
<1>9. match.branch \in DOMAIN bs /\ match.start \in Nat
  BY <1>3, <1>4, <1>5, <1>6, <1>7
<1>10. best # None => match.branch = best /\ match.start = Len(bs[match.branch].active)
  BY <1>4
<1>11. best = None /\ compact # "command" => match.start = 0
  BY <1>4
<1> QED
  BY <1>8, <1>9, <1>10, <1>11 DEF best, match

(***************************************************************************)
(* The inductive invariant.                                                *)
(***************************************************************************)

(* What a branch, as it is in its file or as it was read, says of responses   *)
(* is true: a checkpoint's response was given by its model, and what the      *)
(* gateway told along its chain is the transcript it is stored with.          *)
HeadSound(b, R) ==
  /\ \A t \in b.turns :
       /\ t.response \in DOMAIN R
       /\ R[t.response].model = t.model
       /\ ~b.apart => Told(R[t.response].context) = t.prefix
  /\ b.head # None =>
       /\ b.head.response \in DOMAIN R
       /\ R[b.head.response].model = b.head.model
       /\ ~b.apart => \E t \in b.turns : /\ t.prefix = Canonical(b.active)
                                         /\ t.response = b.head.response
                                         /\ t.model = b.head.model

AllSound(bs, R) == \A i \in DOMAIN bs : HeadSound(bs[i], R)

(* Rebaselined, of a request and the branches that were read for it.          *)
Rebased(rq, sn) ==
  /\ CompactionOf(Canonical(rq.messages)) = "command"
  /\ PrefixMatches(sn, Durable(rq.messages)) = {}

(* What was prepared: where a delta would start is the end of the branch's    *)
(* snapshot, unless everything is sent for another reason.                    *)
PlanSound(p, rq, sn) ==
  /\ p.active = Durable(rq.messages)
  /\ p.operational = Operational(rq.messages)
  /\ p.main /\ p.start > 0 /\ ~p.branch.pending /\ ~Rebased(rq, sn) =>
       /\ p.start = Len(p.branch.active)
       /\ p.start <= Len(p.active)
       /\ Canonical(Prefix(p.active, p.start)) = Canonical(p.branch.active)
  /\ p.main /\ sn # <<>> /\ CompactionOf(Canonical(rq.messages)) # "command" =>
       LET match == DurableMatch(sn, p.active, CompactionOf(Canonical(rq.messages)))
       IN p.branch = sn[match.branch] /\ p.start = match.start

(* Heard: what was sent, on top of the response it continues.                 *)
ContextOf(s, R) ==
  (IF s.previous = None THEN <<>> ELSE R[s.previous].context) \o Items(s.input)

SentSound(s, p, rq, sn, R) ==
  /\ s.previous # None => s.previous \in DOMAIN R /\ R[s.previous].model = rq.model
  /\ p.main /\ (s.previous = None \/ (~p.branch.apart /\ ~Rebased(rq, sn)))
     => Told(ContextOf(s, R)) = Canonical(p.active)

(* One slot: what its handler holds is of branches that are still there.      *)
SlotSound(rq, sn, p, s, B, R) ==
  /\ rq = None => p = None
  /\ p = None => s = None
  /\ Len(sn) <= Len(B)
  /\ \A i \in DOMAIN sn : HeadSound(sn[i], R) /\ (sn[i].apart => B[i].apart)
  /\ p # None => /\ p.id \in DOMAIN B
                 /\ HeadSound(p.branch, R)
                 /\ p.branch.apart => B[p.id].apart
                 /\ PlanSound(p, rq, sn)
  /\ s # None => SentSound(s, p, rq, sn, R)

SelectionInv ==
  /\ TypeOK
  /\ AllSound(branches, responses)
  /\ \A q \in Slot : SlotSound(request[q], snapshot[q], plan[q], sent[q], branches, responses)

(***************************************************************************)
(* Steps that leave the invariant of what they do not touch alone.         *)
(***************************************************************************)
More(R, R2)  == Len(R) <= Len(R2) /\ \A i \in 1 .. Len(R) : R2[i] = R[i]
Grown(B, B2) == Len(B) <= Len(B2) /\ \A i \in 1 .. Len(B) : B[i].apart => B2[i].apart

LEMMA HeadSoundMore ==
  ASSUME NEW b, NEW R \in Seq(Response), NEW R2 \in Seq(Response), More(R, R2), HeadSound(b, R)
  PROVE  HeadSound(b, R2)
<1>1. /\ Len(R) \in Nat /\ DOMAIN R = 1 .. Len(R)
      /\ Len(R2) \in Nat /\ DOMAIN R2 = 1 .. Len(R2)
  BY LenProperties
<1>2. \A r \in DOMAIN R : r \in DOMAIN R2 /\ R2[r] = R[r]
  BY <1>1 DEF More
<1>3. \A t \in b.turns : /\ t.response \in DOMAIN R2
                         /\ R2[t.response].model = t.model
                         /\ ~b.apart => Told(R2[t.response].context) = t.prefix
  BY <1>2 DEF HeadSound
<1>4. b.head # None => b.head.response \in DOMAIN R2 /\ R2[b.head.response].model = b.head.model
  BY <1>2 DEF HeadSound
<1> QED
  BY <1>3, <1>4 DEF HeadSound

(* A branch keeps what its checkpoints say when its checkpoints are kept, and *)
(* its snapshot is or it is marked.                                           *)
LEMMA HeadSoundKept ==
  ASSUME NEW b, NEW b2, NEW R, HeadSound(b, R), b2.turns = b.turns, b2.head = b.head,
         ~b2.apart => ~b.apart /\ Canonical(b2.active) = Canonical(b.active)
  PROVE  HeadSound(b2, R)
  BY DEF HeadSound

LEMMA SlotSoundMore ==
  ASSUME NEW rq, NEW sn \in Seq(Branch), NEW p, NEW s \in Transport \cup {None},
         NEW B \in Seq(Branch), NEW B2 \in Seq(Branch), Grown(B, B2),
         NEW R \in Seq(Response), NEW R2 \in Seq(Response), More(R, R2),
         SlotSound(rq, sn, p, s, B, R)
  PROVE  SlotSound(rq, sn, p, s, B2, R2)
<1>1. /\ Len(B) \in Nat /\ DOMAIN B = 1 .. Len(B)
      /\ Len(B2) \in Nat /\ DOMAIN B2 = 1 .. Len(B2)
      /\ Len(sn) \in Nat /\ DOMAIN sn = 1 .. Len(sn)
      /\ Len(R) \in Nat /\ DOMAIN R = 1 .. Len(R)
      /\ Len(R2) \in Nat /\ DOMAIN R2 = 1 .. Len(R2)
  BY LenProperties
<1>2. Len(sn) <= Len(B2)
  BY <1>1 DEF SlotSound, Grown
<1>3. \A i \in DOMAIN sn : HeadSound(sn[i], R2) /\ (sn[i].apart => B2[i].apart)
  <2>1. TAKE i \in DOMAIN sn
  <2>2. i \in 1 .. Len(B) /\ HeadSound(sn[i], R) /\ (sn[i].apart => B[i].apart)
    BY <1>1 DEF SlotSound
  <2>3. HeadSound(sn[i], R2)
    BY <2>2, HeadSoundMore
  <2> QED BY <2>2, <2>3 DEF Grown
<1>4. ASSUME p # None
      PROVE  /\ p.id \in DOMAIN B2 /\ HeadSound(p.branch, R2)
             /\ p.branch.apart => B2[p.id].apart
             /\ PlanSound(p, rq, sn)
  <2>1. /\ p.id \in 1 .. Len(B) /\ HeadSound(p.branch, R) /\ (p.branch.apart => B[p.id].apart)
        /\ PlanSound(p, rq, sn)
    BY <1>1, <1>4 DEF SlotSound
  <2>2. HeadSound(p.branch, R2)
    BY <2>1, HeadSoundMore
  <2>3. p.id \in 1 .. Len(B2)
    BY <1>1, <2>1 DEF Grown
  <2> QED BY <1>1, <2>1, <2>2, <2>3 DEF Grown
<1>5. ASSUME s # None PROVE SentSound(s, p, rq, sn, R2)
  <2>1. SentSound(s, p, rq, sn, R)
    BY <1>5 DEF SlotSound
  <2>2. s.previous # None => s.previous \in DOMAIN R /\ R[s.previous].model = rq.model
    BY <2>1 DEF SentSound
  <2>3. s.previous # None => s.previous \in DOMAIN R2 /\ R2[s.previous] = R[s.previous]
    BY <1>1, <2>2 DEF More
  <2>4. ContextOf(s, R2) = ContextOf(s, R)
    BY <2>3 DEF ContextOf
  <2> QED BY <2>1, <2>2, <2>3, <2>4 DEF SentSound
<1>6. (rq = None => p = None) /\ (p = None => s = None)
  BY DEF SlotSound
<1> QED
  BY <1>2, <1>3, <1>4, <1>5, <1>6 DEF SlotSound

Other(q) ==
  \A r \in Slot \ {q} : /\ request'[r] = request[r] /\ snapshot'[r] = snapshot[r]
                        /\ plan'[r] = plan[r] /\ sent'[r] = sent[r]

(* A step of one slot keeps the invariant of the others.                      *)
LEMMA OneSlot ==
  ASSUME SelectionInv, NEW q \in Slot, TypeOK', Other(q),
         Grown(branches, branches'), More(responses, responses'),
         AllSound(branches', responses'),
         SlotSound(request'[q], snapshot'[q], plan'[q], sent'[q], branches', responses')
  PROVE  SelectionInv'
<1>1. ASSUME NEW r \in Slot
      PROVE  SlotSound(request'[r], snapshot'[r], plan'[r], sent'[r], branches', responses')
  <2>1. CASE r = q
    BY <2>1
  <2>2. CASE r # q
    <3>1. SlotSound(request[r], snapshot[r], plan[r], sent[r], branches, responses)
      BY DEF SelectionInv
    <3>2. snapshot[r] \in Seq(Branch) /\ sent[r] \in Transport \cup {None}
          /\ branches \in Seq(Branch) /\ responses \in Seq(Response)
          /\ branches' \in Seq(Branch) /\ responses' \in Seq(Response)
      BY DEF SelectionInv, TypeOK
    <3>3. SlotSound(request[r], snapshot[r], plan[r], sent[r], branches', responses')
      BY <3>1, <3>2, SlotSoundMore
    <3> QED BY <2>2, <3>3 DEF Other
  <2> QED BY <2>1, <2>2
<1> QED
  BY <1>1 DEF SelectionInv

LEMMA SameMore  == ASSUME NEW R \in Seq(Response) PROVE More(R, R)
  BY LenProperties DEF More
LEMMA SameGrown == ASSUME NEW B \in Seq(Branch) PROVE Grown(B, B)
  BY LenProperties DEF Grown

(* A branch is replaced, or one is added.                                     *)
LEMMA Replaced ==
  ASSUME NEW B \in Seq(Branch), NEW i \in DOMAIN B, NEW b \in Branch, NEW R,
         B[i].apart => b.apart, HeadSound(b, R), AllSound(B, R)
  PROVE  /\ [B EXCEPT ![i] = b] \in Seq(Branch)
         /\ Len([B EXCEPT ![i] = b]) = Len(B)
         /\ [B EXCEPT ![i] = b][i] = b
         /\ Grown(B, [B EXCEPT ![i] = b])
         /\ AllSound([B EXCEPT ![i] = b], R)
<1>1. Len(B) \in Nat /\ DOMAIN B = 1 .. Len(B) /\ i \in 1 .. Len(B)
  BY LenProperties
<1> DEFINE C == [B EXCEPT ![i] = b]
<1>2. C \in Seq(Branch) /\ Len(C) = Len(B) /\ \A j \in 1 .. Len(B) : C[j] = IF j = i THEN b ELSE B[j]
  BY <1>1, ExceptSeq
<1> HIDE DEF C
<1>3. DOMAIN C = 1 .. Len(B)
  BY <1>2, LenProperties
<1>4. Grown(B, C)
  BY <1>1, <1>2 DEF Grown
<1>5. AllSound(C, R)
  BY <1>1, <1>2, <1>3 DEF AllSound
<1> QED
  BY <1>1, <1>2, <1>4, <1>5 DEF C

LEMMA Added ==
  ASSUME NEW B \in Seq(Branch), NEW b \in Branch, NEW R, HeadSound(b, R), AllSound(B, R)
  PROVE  /\ Append(B, b) \in Seq(Branch)
         /\ Len(Append(B, b)) = Len(B) + 1
         /\ Append(B, b)[Len(B) + 1] = b
         /\ Grown(B, Append(B, b))
         /\ AllSound(Append(B, b), R)
<1>1. Len(B) \in Nat /\ DOMAIN B = 1 .. Len(B)
  BY LenProperties
<1> DEFINE C == Append(B, b)
<1>2. C \in Seq(Branch) /\ Len(C) = Len(B) + 1 /\ C[Len(B) + 1] = b
      /\ \A j \in 1 .. Len(B) : C[j] = B[j]
  BY AppendProperties
<1> HIDE DEF C
<1>3. DOMAIN C = 1 .. Len(B) + 1
  BY <1>2, LenProperties
<1>4. Grown(B, C)
  BY <1>1, <1>2 DEF Grown
<1>5. AllSound(C, R)
  <2>1. SUFFICES ASSUME NEW j \in 1 .. Len(B) + 1 PROVE HeadSound(C[j], R)
    BY <1>3 DEF AllSound
  <2>2. CASE j = Len(B) + 1
    BY <1>2, <2>2
  <2>3. CASE j # Len(B) + 1
    <3>1. j \in 1 .. Len(B)
      BY <1>1, <2>3
    <3> QED BY <1>1, <1>2, <3>1 DEF AllSound
  <2> QED BY <2>2, <2>3
<1> QED
  BY <1>2, <1>4, <1>5 DEF C

(***************************************************************************)
(* What the steps write.                                                   *)
(***************************************************************************)

LEMMA FingerprintsType ==
  ASSUME NEW m \in Seq(Message), NEW compaction, NEW count \in Nat \cup {None}
  PROVE  Fingerprints(m, compaction, count) \in Fingerprint
<1> DEFINE said  == [i \in DOMAIN m |-> [role |-> m[i].role, text |-> m[i].text]]
           I     == {i \in DOMAIN m : HasText(m[i])}
           texts == Chosen(said, I)
           J     == {i \in DOMAIN texts : texts[i].role = "user"}
           users == Chosen(texts, J)
           low   == IF Len(texts) > 4 THEN Len(texts) - 3 ELSE 1
           tail  == SubSeq(texts, low, Len(texts))
           known == IF count = None THEN texts ELSE Prefix(texts, count)
<1>1. said \in Seq(Text)
  <2>1. Len(m) \in Nat /\ DOMAIN m = 1 .. Len(m) /\ \A i \in 1 .. Len(m) : m[i] \in Message
    BY LenProperties
  <2>2. said \in [1 .. Len(m) -> Text]
    BY <2>1 DEF Message, Text
  <2> QED BY <2>1, <2>2, SeqDef
<1>2. Fingerprints(m, compaction, count) =
        [lastUser |-> IF users = <<>> THEN None ELSE LastOf(users).text,
         tail     |-> IF tail = <<>> THEN None ELSE tail,
         summary  |-> IF ~compaction \/ known = <<>> THEN None ELSE known]
  BY DEF Fingerprints
<1> HIDE DEF said, I
<1>3. texts \in Seq(Text)
  BY <1>1, ChosenRange
<1> HIDE DEF texts, J
<1>4. users \in Seq(Text)
  BY <1>3, ChosenRange
<1>5. tail \in Seq(Text)
  <2>1. Len(texts) \in Nat /\ \A i \in 1 .. Len(texts) : texts[i] \in Text
    BY <1>3, LenProperties
  <2>2. low \in Nat /\ 1 <= low
    BY <2>1
  <2> HIDE DEF low
  <2>3. low \in Int /\ Len(texts) \in Int /\ \A i \in low .. Len(texts) : texts[i] \in Text
    BY <2>1, <2>2
  <2> QED BY <2>3, SubSeqProperties
<1>6. known \in Seq(Text)
  BY <1>3, PrefixType
<1>7. users # <<>> => LastOf(users).text \in Word
  <2>1. SUFFICES ASSUME users # <<>> PROVE LastOf(users).text \in Word
    OBVIOUS
  <2> HIDE DEF users
  <2>2. Len(users) \in 1 .. Len(users) /\ users \in [1 .. Len(users) -> Text]
    BY <1>4, <2>1, EmptySeq, LenProperties
  <2>3. users[Len(users)] \in Text
    BY <2>2
  <2> QED BY <2>3 DEF Text, LastOf
<1> HIDE DEF users, tail, known
<1>8. (IF users = <<>> THEN None ELSE LastOf(users).text) \in Word \cup {None}
  BY <1>7
<1>9. /\ (IF tail = <<>> THEN None ELSE tail) \in Seq(Text) \cup {None}
      /\ (IF ~compaction \/ known = <<>> THEN None ELSE known) \in Seq(Text) \cup {None}
  BY <1>5, <1>6
<1> QED
  BY <1>2, <1>8, <1>9 DEF Fingerprint

LEMMA CompactedSound ==
  ASSUME NEW b \in Branch, NEW fp \in Fingerprint, NEW R, clock \in Nat, HeadSound(b, R)
  PROVE  /\ Compacted(b, fp) \in Branch
         /\ HeadSound(Compacted(b, fp), R)
         /\ Compacted(b, fp).apart = b.apart
         /\ Compacted(b, fp).pending
<1>1. Compacted(b, fp) \in Branch
  BY DEF Compacted, Branch
<1>2. /\ Compacted(b, fp).turns = b.turns /\ Compacted(b, fp).head = b.head
      /\ Compacted(b, fp).active = b.active /\ Compacted(b, fp).apart = b.apart
      /\ Compacted(b, fp).pending
  BY DEF Compacted, Branch
<1>3. HeadSound(Compacted(b, fp), R)
  <2> DEFINE c == Compacted(b, fp)
  <2>1. c.turns = b.turns /\ c.head = b.head
        /\ (~c.apart => ~b.apart /\ Canonical(c.active) = Canonical(b.active))
    BY <1>2
  <2> HIDE DEF c
  <2>2. HeadSound(c, R)
    BY <2>1, HeadSoundKept
  <2> QED BY <2>2 DEF c
<1> QED
  BY <1>1, <1>2, <1>3

LEMMA ContinuedSound ==
  ASSUME NEW b \in Branch, NEW m \in Seq(Message), NEW fp \in Fingerprint, NEW R, HeadSound(b, R)
  PROVE  /\ Continued(b, m, fp) \in Branch
         /\ HeadSound(Continued(b, m, fp), R)
         /\ b.apart => Continued(b, m, fp).apart
<1>1. Continued(b, m, fp) \in Branch
  BY DEF Continued, Branch
<1>2. /\ Continued(b, m, fp).turns = b.turns /\ Continued(b, m, fp).head = b.head
      /\ Continued(b, m, fp).active = m
      /\ Continued(b, m, fp).apart = (b.apart \/ Canonical(m) # Canonical(b.active))
  BY DEF Continued, Branch
<1>3. HeadSound(Continued(b, m, fp), R)
  <2> DEFINE c == Continued(b, m, fp)
  <2>1. c.turns = b.turns /\ c.head = b.head
        /\ (~c.apart => ~b.apart /\ Canonical(c.active) = Canonical(b.active))
    BY <1>2
  <2> HIDE DEF c
  <2>2. HeadSound(c, R)
    BY <2>1, HeadSoundKept
  <2> QED BY <2>2 DEF c
<1> QED
  BY <1>1, <1>2, <1>3

LEMMA NewBranchSound ==
  ASSUME NEW active \in Seq(Message), NEW fp \in Fingerprint, NEW R, clock \in Nat
  PROVE  NewBranch(active, fp) \in Branch /\ HeadSound(NewBranch(active, fp), R)
         /\ ~NewBranch(active, fp).apart
  BY DEF NewBranch, Branch, HeadSound

LEMMA OneIsSome ==
  ASSUME NEW X PROVE Cardinality(X) = 1 => X # {}
<1>1. Cardinality({}) = 0
  BY FS_EmptySet
<1> QED
  BY <1>1

(* select_or_create_branch: one branch goes on, or one is added.              *)
LEMMA SelectedIs ==
  ASSUME NEW B \in Seq(Branch), NEW m \in Seq(Message), NEW fp \in Fingerprint
  PROVE  LET sel == Selected(B, m, fp) IN
         \/ \E i \in DOMAIN B : /\ sel.branch = i
                                /\ sel.bs = [B EXCEPT ![i] = Continued(B[i], m, fp)]
         \/ \E active \in Seq(Message) : /\ sel.branch = Len(B) + 1
                                         /\ sel.bs = Append(B, NewBranch(active, fp))
<1> DEFINE exact     == {i \in DOMAIN B : Exact(B[i].fp, fp)}
           ancestors == {i \in DOMAIN B : Ancestor(B[i].fp, fp)}
           only(I)   == CHOOSE i \in I : TRUE
           created(active, known) ==
             [bs |-> Append(B, NewBranch(active, fp)), branch |-> Len(B) + 1, known |-> known]
           sel == Selected(B, m, fp)
<1>1. sel = IF Cardinality(exact) = 1
            THEN [bs |-> [B EXCEPT ![only(exact)] = Continued(@, m, fp)],
                  branch |-> only(exact), known |-> B[only(exact)].fp.summary]
            ELSE IF exact = {} /\ Cardinality(ancestors) = 1
            THEN created(B[only(ancestors)].active, B[only(ancestors)].fp.summary)
            ELSE created(m, None)
  BY DEF Selected
<1>2. Cardinality(exact) = 1 => exact # {}
  BY OneIsSome
<1>3. Cardinality(ancestors) = 1 => ancestors # {}
  BY OneIsSome
<1>4. exact # {} => only(exact) \in DOMAIN B
  OBVIOUS
<1>5. ancestors # {} => only(ancestors) \in DOMAIN B
  OBVIOUS
<1>6. \A i \in DOMAIN B : B[i].active \in Seq(Message)
  <2>1. TAKE i \in DOMAIN B
  <2>2. B[i] \in Branch
    BY LenProperties
  <2> QED BY <2>2 DEF Branch
<1> HIDE DEF exact, ancestors, sel
<1>7. CASE Cardinality(exact) = 1
  <2> DEFINE i == only(exact)
  <2>1. i \in DOMAIN B
    BY <1>2, <1>4, <1>7
  <2>2. sel = [bs |-> [B EXCEPT ![i] = Continued(@, m, fp)], branch |-> i, known |-> B[i].fp.summary]
    BY <1>1, <1>7
  <2> HIDE DEF i
  <2>3. sel.branch = i /\ sel.bs = [B EXCEPT ![i] = Continued(B[i], m, fp)]
    BY <2>1, <2>2
  <2> QED BY <2>1, <2>3 DEF sel
<1>8. CASE Cardinality(exact) # 1 /\ exact = {} /\ Cardinality(ancestors) = 1
  <2> DEFINE active == B[only(ancestors)].active
  <2>1. active \in Seq(Message)
    BY <1>3, <1>5, <1>6, <1>8
  <2>2. sel = created(active, B[only(ancestors)].fp.summary)
    BY <1>1, <1>8
  <2> HIDE DEF active
  <2>3. sel.branch = Len(B) + 1 /\ sel.bs = Append(B, NewBranch(active, fp))
    BY <2>2
  <2> QED BY <2>1, <2>3 DEF sel
<1>9. CASE Cardinality(exact) # 1 /\ ~ (exact = {} /\ Cardinality(ancestors) = 1)
  <2>1. sel = created(m, None)
    BY <1>1, <1>9
  <2>2. sel.branch = Len(B) + 1 /\ sel.bs = Append(B, NewBranch(m, fp))
    BY <2>1
  <2> QED BY <2>2 DEF sel
<1> QED
  BY <1>7, <1>8, <1>9

(***************************************************************************)
(* The steps.                                                              *)
(***************************************************************************)

(* A request ends: its slot is free again.                                    *)
LEMMA RejectInv ==
  ASSUME SelectionInv, NEW q \in Slot, Reject(q),
         transcript' \in Seq(Message), requests' \in Nat, branches' \in Seq(Branch),
         responses' \in Seq(Response), proven' \in SUBSET Nat, clock' \in Nat,
         Grown(branches, branches'), More(responses, responses'), AllSound(branches', responses')
  PROVE  SelectionInv'
<1>1. /\ request \in [Slot -> Request \cup {None}] /\ snapshot \in [Slot -> Seq(Branch)]
      /\ plan \in [Slot -> Plan \cup {None}] /\ sent \in [Slot -> Transport \cup {None}]
  BY DEF SelectionInv, TypeOK
<1>2. /\ request' \in [Slot -> Request \cup {None}]
      /\ plan' \in [Slot -> Plan \cup {None}]
      /\ sent' \in [Slot -> Transport \cup {None}]
  BY <1>1 DEF Reject
<1>3. snapshot' \in [Slot -> Seq(Branch)]
  <2>1. <<>> \in Seq(Branch)
    BY EmptySeq
  <2> QED BY <1>1, <2>1 DEF Reject
<1>4. TypeOK'
  BY <1>2, <1>3 DEF TypeOK
<1>5. Other(q)
  BY <1>1 DEF Reject, Other
<1>6. /\ request'[q] = None /\ snapshot'[q] = <<>> /\ plan'[q] = None /\ sent'[q] = None
  BY <1>1 DEF Reject
<1>7. SlotSound(None, <<>>, None, None, branches', responses')
  <2>1. Len(branches') \in Nat /\ Len(<<>>) = 0 /\ DOMAIN <<>> = {}
    BY LenProperties, EmptySeq
  <2> QED BY <2>1 DEF SlotSound
<1> QED
  BY <1>4, <1>5, <1>6, <1>7, OneSlot

(* A request is prepared.                                                     *)
LEMMA PlanInv ==
  ASSUME SelectionInv, NEW q \in Slot, Arrived(q), NEW P \in Plan,
         plan' = [plan EXCEPT ![q] = P], UNCHANGED <<clientVars, snapshot, sent, sideVars, clock>>,
         branches' \in Seq(Branch), Grown(branches, branches'), AllSound(branches', responses),
         P.id \in DOMAIN branches', HeadSound(P.branch, responses),
         P.branch.apart => branches'[P.id].apart, PlanSound(P, request[q], snapshot[q])
  PROVE  SelectionInv' /\ plan'[q] # None
<1>1. /\ request \in [Slot -> Request \cup {None}] /\ snapshot \in [Slot -> Seq(Branch)]
      /\ plan \in [Slot -> Plan \cup {None}] /\ sent \in [Slot -> Transport \cup {None}]
      /\ responses \in Seq(Response) /\ branches \in Seq(Branch)
  BY DEF SelectionInv, TypeOK
<1>2. /\ request' = request /\ snapshot' = snapshot /\ sent' = sent /\ responses' = responses
      /\ transcript' = transcript /\ requests' = requests /\ proven' = proven /\ clock' = clock
  BY DEF clientVars, sideVars
<1>3. plan' \in [Slot -> Plan \cup {None}]
  BY <1>1
<1>4. TypeOK'
  BY <1>2, <1>3 DEF TypeOK, SelectionInv
<1>5. Other(q)
  BY <1>1, <1>2 DEF Other
<1>6. More(responses, responses')
  BY <1>1, <1>2, SameMore
<1>7. SlotSound(request[q], snapshot[q], P, sent[q], branches', responses)
  <2>1. SlotSound(request[q], snapshot[q], plan[q], sent[q], branches, responses)
    BY DEF SelectionInv
  <2>2. SlotSound(request[q], snapshot[q], plan[q], sent[q], branches', responses)
    BY <1>1, <1>2, <1>6, <2>1, SlotSoundMore
  <2>3. request[q] # None /\ plan[q] = None /\ sent[q] = None
    BY <2>1 DEF Arrived, SlotSound
  <2>4. P # None
    BY SelectionNoneAssumption
  <2> QED BY <2>2, <2>3, <2>4 DEF SlotSound
<1>8. plan'[q] = P /\ P # None
  BY <1>1, SelectionNoneAssumption
<1> QED
  BY <1>2, <1>4, <1>5, <1>6, <1>7, <1>8, OneSlot

LEMMA MessagesType ==
  ASSUME TypeOK, NEW q \in Slot, request[q] # None
  PROVE  /\ request[q] \in Request
         /\ request[q].messages \in Seq(Message)
         /\ MessagesOf(q) \in Seq(Message) /\ AllDurable(MessagesOf(q))
         /\ Operational(request[q].messages) \in Seq(Note)
<1>1. request[q] \in Request
  BY DEF TypeOK
<1>2. request[q].messages \in Seq(Message)
  BY <1>1 DEF Request
<1> QED
  BY <1>1, <1>2, DurableKeeps, OperationalKeeps DEF MessagesOf

LEMMA FingerprintsOfType ==
  ASSUME TypeOK, NEW q \in Slot, request[q] # None
  PROVE  FingerprintsOf(q) \in Fingerprint
<1> DEFINE best  == BestPrefix(snapshot[q], MessagesOf(q))
           count == IF best = None THEN None ELSE Len(snapshot[q][best].active)
<1>1. snapshot[q] \in Seq(Branch) /\ MessagesOf(q) \in Seq(Message)
  BY MessagesType DEF TypeOK
<1>2. best # None => best \in DOMAIN snapshot[q]
  BY <1>1, BestPrefixIn DEF PrefixMatches
<1>3. \A i \in DOMAIN snapshot[q] : Len(snapshot[q][i].active) \in Nat
  <2>1. TAKE i \in DOMAIN snapshot[q]
  <2>2. snapshot[q][i] \in Branch
    BY <1>1, LenProperties
  <2>3. snapshot[q][i].active \in Seq(Message)
    BY <2>2 DEF Branch
  <2> QED BY <2>3, LenProperties
<1>4. FingerprintsOf(q) = Fingerprints(MessagesOf(q), CompactOf(q) = "command", count)
  BY DEF FingerprintsOf
<1> HIDE DEF best
<1>5. count \in Nat \cup {None}
  BY <1>2, <1>3
<1> HIDE DEF count
<1> QED
  BY <1>1, <1>4, <1>5, FingerprintsType

(* What Planned keeps is a plan.                                              *)
LEMMA PlannedType ==
  ASSUME TypeOK, NEW q \in Slot, request[q] # None, NEW i \in Nat, NEW b \in Branch,
         NEW start \in Nat, NEW zero \in BOOLEAN, NEW main \in BOOLEAN
  PROVE  [id |-> i, branch |-> b, active |-> MessagesOf(q), main |-> main,
          operational |-> Operational(request[q].messages), start |-> start,
          zero |-> zero, fp |-> FingerprintsOf(q)] \in Plan
  BY MessagesType, FingerprintsOfType DEF Plan

(* prepare_reconciled_durable_branch: the delta starts where the branch's     *)
(* snapshot ends, or everything is sent, or a compaction was marked.          *)
LEMMA MatchedInv ==
  ASSUME SelectionInv, NEW q \in Slot, PrepareMatched(q)
  PROVE  SelectionInv' /\ plan'[q] # None
<1> DEFINE rq    == request[q]
           sn    == snapshot[q]
           m     == MessagesOf(q)
           match == DurableMatch(sn, m, CompactOf(q))
           i     == match.branch
           fp    == FingerprintsOf(q)
           reset == MustCompact(CompactOf(q), sn[i].fp.summary, fp)
           chosen == IF reset THEN branches'[i] ELSE sn[i]
           zero  == CompactOf(q) = "history"
<1>1. TypeOK /\ rq # None /\ sn # <<>> /\ Arrived(q)
  BY DEF SelectionInv, PrepareMatched, Arrived, NoBranch
<1>2. sn \in Seq(Branch) /\ m \in Seq(Message) /\ fp \in Fingerprint /\ clock \in Nat
      /\ branches \in Seq(Branch) /\ responses \in Seq(Response)
  BY <1>1, MessagesType, FingerprintsOfType DEF TypeOK
<1>3. /\ branches' = IF reset THEN [branches EXCEPT ![i] = Compacted(@, fp)] ELSE branches
      /\ plan' = [plan EXCEPT ![q] =
            [id |-> i, branch |-> chosen, active |-> MessagesOf(q), main |-> TRUE,
             operational |-> Operational(request[q].messages), start |-> match.start,
             zero |-> zero, fp |-> FingerprintsOf(q)]]
      /\ UNCHANGED <<clientVars, snapshot, sent, sideVars, clock>>
  BY DEF PrepareMatched, Planned
<1>4. /\ i \in DOMAIN sn
      /\ match.start \in Nat
      /\ PrefixMatches(sn, m) # {} => i = BestPrefix(sn, m) /\ match.start = Len(sn[i].active)
      /\ PrefixMatches(sn, m) = {} /\ CompactOf(q) # "command" => match.start = 0
  <2> DEFINE c == CompactOf(q)
  <2> HIDE DEF sn, m, c
  <2> QED BY <1>1, <1>2, DurableMatchIn DEF c
<1>5. SlotSound(rq, sn, plan[q], sent[q], branches, responses) /\ AllSound(branches, responses)
  BY DEF SelectionInv
<1> HIDE DEF match
<1>6. i \in DOMAIN branches /\ i \in Nat /\ sn[i] \in Branch /\ branches[i] \in Branch
      /\ HeadSound(sn[i], responses) /\ HeadSound(branches[i], responses)
      /\ (sn[i].apart => branches[i].apart)
  <2>1. /\ Len(sn) \in Nat /\ DOMAIN sn = 1 .. Len(sn)
        /\ Len(branches) \in Nat /\ DOMAIN branches = 1 .. Len(branches)
        /\ \A j \in 1 .. Len(sn) : sn[j] \in Branch
        /\ \A j \in 1 .. Len(branches) : branches[j] \in Branch
    BY <1>2, LenProperties
  <2>2. Len(sn) <= Len(branches)
    BY <1>5 DEF SlotSound
  <2>3. i \in 1 .. Len(branches)
    BY <1>4, <2>1, <2>2
  <2>4. HeadSound(sn[i], responses) /\ (sn[i].apart => branches[i].apart)
    BY <1>4, <1>5 DEF SlotSound
  <2> QED BY <1>4, <1>5, <2>1, <2>3, <2>4 DEF AllSound
<1>7. /\ chosen \in Branch
      /\ branches' \in Seq(Branch) /\ Grown(branches, branches')
      /\ AllSound(branches', responses) /\ i \in DOMAIN branches'
      /\ HeadSound(chosen, responses) /\ (chosen.apart => branches'[i].apart)
      /\ reset => chosen.pending
  <2>1. CASE reset
    <3> DEFINE b2 == Compacted(branches[i], fp)
    <3>1. b2 \in Branch /\ HeadSound(b2, responses) /\ b2.apart = branches[i].apart /\ b2.pending
      <4> HIDE DEF fp, i
      <4> QED BY <1>2, <1>6, CompactedSound
    <3> HIDE DEF fp
    <3>2. branches' = [branches EXCEPT ![i] = b2]
      BY <1>3, <2>1
    <3> HIDE DEF b2, i
    <3>3. /\ branches' \in Seq(Branch) /\ Len(branches') = Len(branches) /\ branches'[i] = b2
          /\ Grown(branches, branches') /\ AllSound(branches', responses)
      BY <1>2, <1>5, <1>6, <3>1, <3>2, Replaced
    <3>4. i \in DOMAIN branches'
      BY <1>2, <1>6, <3>3, LenProperties
    <3>5. chosen = b2
      BY <2>1, <3>3
    <3> HIDE DEF chosen
    <3> QED BY <3>1, <3>3, <3>4, <3>5
  <2>2. CASE ~reset
    <3>1. branches' = branches /\ chosen = sn[i]
      BY <1>3, <2>2
    <3>2. Grown(branches, branches)
      BY <1>2, SameGrown
    <3> HIDE DEF chosen, i, sn, reset
    <3> QED BY <1>2, <1>5, <1>6, <2>2, <3>1, <3>2
  <2> QED BY <2>1, <2>2
<1> DEFINE P == [id |-> i, branch |-> chosen, active |-> m, main |-> TRUE,
                 operational |-> Operational(request[q].messages), start |-> match.start,
                 zero |-> zero, fp |-> FingerprintsOf(q)]
<1>8. /\ P \in Plan
      /\ plan' = [plan EXCEPT ![q] = P]
      /\ P.id = i /\ P.branch = chosen /\ P.start = match.start /\ P.main = TRUE
      /\ P.active = m /\ P.operational = Operational(request[q].messages)
  <2> DEFINE b == chosen
             st == match.start
             z == zero
  <2>1. b \in Branch /\ i \in Nat /\ st \in Nat /\ z \in BOOLEAN
    BY <1>4, <1>6, <1>7
  <2> HIDE DEF b, st, z, i
  <2>2. [id |-> i, branch |-> b, active |-> MessagesOf(q), main |-> TRUE,
         operational |-> Operational(request[q].messages), start |-> st,
         zero |-> z, fp |-> FingerprintsOf(q)] \in Plan
    BY <1>1, <2>1, PlannedType
  <2>3. P \in Plan
    BY <2>2 DEF b, st, z
  <2>4. plan' = [plan EXCEPT ![q] = P]
    BY <1>3
  <2> QED BY <2>3, <2>4
<1> HIDE DEF P
<1>9. PlanSound(P, rq, sn)
  <2>1. CompactOf(q) = CompactionOf(Canonical(rq.messages)) /\ m = Durable(rq.messages)
    BY DEF CompactOf, MessagesOf
  <2>2. P.active = Durable(rq.messages) /\ P.operational = Operational(rq.messages)
    BY <1>8, <2>1
  <2>3. reset => CompactOf(q) = "command"
    BY DEF MustCompact
  <2>4. ASSUME P.start > 0, ~P.branch.pending, ~Rebased(rq, sn)
        PROVE  /\ P.start = Len(P.branch.active)
               /\ P.start <= Len(P.active)
               /\ Canonical(Prefix(P.active, P.start)) = Canonical(P.branch.active)
    <3>1. PrefixMatches(sn, m) # {}
      <4>1. match.start # 0
        BY <1>4, <1>8, <2>4
      <4> QED BY <1>4, <2>1, <2>4, <4>1 DEF Rebased
    <3>2. ~reset /\ P.branch = sn[i]
      BY <1>7, <1>8, <2>4
    <3>3. P.start = Len(P.branch.active)
      BY <1>4, <1>8, <3>1, <3>2
    <3>4. StoredIsPrefix(sn[i].active, m)
      <4>1. BestPrefix(sn, m) \in PrefixMatches(sn, m)
        <5> HIDE DEF sn, m
        <5> QED BY <1>2, <3>1, BestPrefixIn
      <4> QED BY <1>4, <3>1, <4>1 DEF PrefixMatches
    <3> QED BY <1>8, <3>2, <3>3, <3>4 DEF StoredIsPrefix
  <2>5. ASSUME CompactionOf(Canonical(rq.messages)) # "command"
        PROVE  LET mt == DurableMatch(sn, P.active, CompactionOf(Canonical(rq.messages)))
               IN P.branch = sn[mt.branch] /\ P.start = mt.start
    <3>1. ~reset /\ chosen = sn[i]
      BY <2>1, <2>3, <2>5
    <3>2. match = DurableMatch(sn, P.active, CompactionOf(Canonical(rq.messages)))
      BY <1>8, <2>1 DEF match
    <3> HIDE DEF chosen, reset
    <3> QED BY <1>8, <3>1, <3>2
  <2> HIDE DEF sn, rq, m
  <2> QED BY <2>2, <2>4, <2>5 DEF PlanSound
<1>10. P.id \in DOMAIN branches' /\ HeadSound(P.branch, responses)
       /\ (P.branch.apart => branches'[P.id].apart)
  BY <1>7, <1>8
<1> QED
  BY <1>1, <1>3, <1>7, <1>8, <1>9, <1>10, PlanInv

(* prepare_initial_durable_branch: there is nothing to send a delta of.       *)
LEMMA InitialInv ==
  ASSUME SelectionInv, NEW q \in Slot, PrepareInitial(q)
  PROVE  SelectionInv' /\ plan'[q] # None /\ Len(branches') <= Len(branches) + 1
<1> DEFINE m     == MessagesOf(q)
           fp    == FingerprintsOf(q)
           sel   == Selected(branches, m, fp)
           i     == sel.branch
           reset == MustCompact(CompactOf(q), sel.known, fp)
<1>1. TypeOK /\ request[q] # None /\ snapshot[q] = <<>> /\ Arrived(q)
  BY DEF SelectionInv, PrepareInitial, Arrived, NoBranch
<1>2. m \in Seq(Message) /\ fp \in Fingerprint /\ clock \in Nat
      /\ branches \in Seq(Branch) /\ responses \in Seq(Response) /\ AllSound(branches, responses)
  BY <1>1, MessagesType, FingerprintsOfType DEF TypeOK, SelectionInv
<1>3. /\ branches' = IF reset THEN [sel.bs EXCEPT ![i] = Compacted(@, fp)] ELSE sel.bs
      /\ plan' = [plan EXCEPT ![q] =
            [id |-> i, branch |-> branches'[i], active |-> MessagesOf(q), main |-> TRUE,
             operational |-> Operational(request[q].messages), start |-> 0,
             zero |-> FALSE, fp |-> FingerprintsOf(q)]]
      /\ UNCHANGED <<clientVars, snapshot, sent, sideVars, clock>>
  BY DEF PrepareInitial, Planned
<1>4. /\ sel.bs \in Seq(Branch) /\ Grown(branches, sel.bs) /\ AllSound(sel.bs, responses)
      /\ i \in DOMAIN sel.bs /\ Len(sel.bs) <= Len(branches) + 1
  <2>1. \/ \E j \in DOMAIN branches : /\ i = j
                                      /\ sel.bs = [branches EXCEPT ![j] = Continued(branches[j], m, fp)]
        \/ \E active \in Seq(Message) : /\ i = Len(branches) + 1
                                        /\ sel.bs = Append(branches, NewBranch(active, fp))
    <3> HIDE DEF m, fp
    <3> QED BY <1>2, SelectedIs
  <2> HIDE DEF sel, m, fp
  <2>2. CASE \E j \in DOMAIN branches : /\ i = j
                                        /\ sel.bs = [branches EXCEPT ![j] = Continued(branches[j], m, fp)]
    <3>1. PICK j \in DOMAIN branches : /\ i = j
                                       /\ sel.bs = [branches EXCEPT ![j] = Continued(branches[j], m, fp)]
      BY <2>2
    <3> DEFINE b2 == Continued(branches[j], m, fp)
    <3>2. branches[j] \in Branch /\ HeadSound(branches[j], responses)
      BY <1>2, LenProperties DEF AllSound
    <3>3. b2 \in Branch /\ HeadSound(b2, responses) /\ (branches[j].apart => b2.apart)
      BY <1>2, <3>2, ContinuedSound
    <3> HIDE DEF b2
    <3>4. /\ sel.bs \in Seq(Branch) /\ Len(sel.bs) = Len(branches)
          /\ Grown(branches, sel.bs) /\ AllSound(sel.bs, responses)
      BY <1>2, <3>1, <3>3, Replaced DEF b2
    <3>5. Len(branches) \in Nat /\ DOMAIN sel.bs = DOMAIN branches
      BY <1>2, <3>4, LenProperties
    <3> QED BY <3>1, <3>4, <3>5
  <2>3. CASE \E active \in Seq(Message) : /\ i = Len(branches) + 1
                                          /\ sel.bs = Append(branches, NewBranch(active, fp))
    <3>1. PICK active \in Seq(Message) : /\ i = Len(branches) + 1
                                         /\ sel.bs = Append(branches, NewBranch(active, fp))
      BY <2>3
    <3> DEFINE b == NewBranch(active, fp)
    <3>2. b \in Branch /\ HeadSound(b, responses)
      BY <1>2, NewBranchSound
    <3> HIDE DEF b
    <3>3. /\ sel.bs \in Seq(Branch) /\ Len(sel.bs) = Len(branches) + 1
          /\ Grown(branches, sel.bs) /\ AllSound(sel.bs, responses)
      BY <1>2, <3>1, <3>2, Added DEF b
    <3>4. Len(branches) \in Nat
      BY <1>2, LenProperties
    <3>5. DOMAIN sel.bs = 1 .. Len(branches) + 1
      BY <3>3, LenProperties
    <3> QED BY <3>1, <3>3, <3>4, <3>5
  <2> QED BY <2>1, <2>2, <2>3
<1> HIDE DEF sel, m, fp
<1>5. sel.bs[i] \in Branch /\ HeadSound(sel.bs[i], responses) /\ i \in Nat
  BY <1>4, LenProperties DEF AllSound
<1>6. /\ branches' \in Seq(Branch) /\ Grown(branches, branches')
      /\ AllSound(branches', responses) /\ i \in DOMAIN branches'
      /\ Len(branches') <= Len(branches) + 1
  <2>1. CASE reset
    <3> DEFINE b2 == Compacted(sel.bs[i], fp)
    <3>1. b2 \in Branch /\ HeadSound(b2, responses) /\ b2.apart = sel.bs[i].apart
      BY <1>2, <1>5, CompactedSound
    <3>2. branches' = [sel.bs EXCEPT ![i] = b2]
      BY <1>3, <2>1
    <3> HIDE DEF b2, i
    <3>3. /\ branches' \in Seq(Branch) /\ Len(branches') = Len(sel.bs)
          /\ Grown(sel.bs, branches') /\ AllSound(branches', responses)
      BY <1>4, <3>1, <3>2, Replaced
    <3>4. DOMAIN branches' = DOMAIN sel.bs
      BY <1>4, <3>3, LenProperties
    <3>5. Grown(branches, branches')
      <4>1. Len(branches) \in Nat /\ Len(sel.bs) \in Nat
        BY <1>2, <1>4, LenProperties
      <4> QED BY <1>4, <3>3, <4>1 DEF Grown
    <3> QED BY <1>4, <3>3, <3>4, <3>5
  <2>2. CASE ~reset
    BY <1>3, <1>4, <2>2
  <2> QED BY <2>1, <2>2
<1>7. branches'[i] \in Branch /\ HeadSound(branches'[i], responses)
  BY <1>6, LenProperties DEF AllSound
<1> DEFINE P == [id |-> i, branch |-> branches'[i], active |-> m, main |-> TRUE,
                 operational |-> Operational(request[q].messages), start |-> 0,
                 zero |-> FALSE, fp |-> FingerprintsOf(q)]
<1>8. /\ P \in Plan
      /\ plan' = [plan EXCEPT ![q] = P]
      /\ P.id = i /\ P.branch = branches'[i] /\ P.start = 0 /\ P.main = TRUE
      /\ P.active = m /\ P.operational = Operational(request[q].messages)
  <2> DEFINE b == branches'[i]
             st == 0
             z == FALSE
  <2>1. b \in Branch /\ i \in Nat /\ st \in Nat /\ z \in BOOLEAN
    BY <1>5, <1>7
  <2> HIDE DEF b, st, z, i
  <2>2. [id |-> i, branch |-> b, active |-> MessagesOf(q), main |-> TRUE,
         operational |-> Operational(request[q].messages), start |-> st,
         zero |-> z, fp |-> FingerprintsOf(q)] \in Plan
    BY <1>1, <2>1, PlannedType
  <2>3. P \in Plan
    BY <2>2 DEF b, st, z, m
  <2>4. plan' = [plan EXCEPT ![q] = P]
    BY <1>3 DEF m
  <2> QED BY <2>3, <2>4
<1> HIDE DEF P
<1>9. PlanSound(P, request[q], snapshot[q])
  BY <1>1, <1>8 DEF PlanSound, MessagesOf, m
<1>10. P.id \in DOMAIN branches' /\ HeadSound(P.branch, responses)
       /\ (P.branch.apart => branches'[P.id].apart)
  BY <1>6, <1>7, <1>8
<1> QED
  BY <1>1, <1>3, <1>6, <1>8, <1>9, <1>10, PlanInv

(* prepare_transient_from_latest_context: nothing of the branch changes.      *)
LEMMA TransientInv ==
  ASSUME SelectionInv, NEW q \in Slot, PrepareTransient(q)
  PROVE  SelectionInv' /\ plan'[q] # None
<1> DEFINE sn     == snapshot[q]
           m      == MessagesOf(q)
           i      == LatestContext(sn)
           start  == IF StoredIsPrefix(sn[i].active, m) THEN Len(sn[i].active) ELSE 0
<1>1. TypeOK /\ request[q] # None /\ i # None /\ Arrived(q)
  BY DEF SelectionInv, PrepareTransient, Arrived
<1>2. sn \in Seq(Branch) /\ branches \in Seq(Branch) /\ responses \in Seq(Response)
  BY <1>1 DEF TypeOK
<1>3. /\ plan' = [plan EXCEPT ![q] =
            [id |-> i, branch |-> sn[i], active |-> MessagesOf(q), main |-> FALSE,
             operational |-> Operational(request[q].messages), start |-> start,
             zero |-> FALSE, fp |-> FingerprintsOf(q)]]
      /\ branches' = branches
      /\ UNCHANGED <<clientVars, snapshot, sent, sideVars, clock>>
  BY DEF PrepareTransient, Planned
<1>4. i \in DOMAIN sn
  <2>1. WithHead(sn) \in SUBSET DOMAIN sn
    BY DEF WithHead
  <2> HIDE DEF sn
  <2> QED BY <1>1, <1>2, <2>1, NewestIn DEF LatestContext
<1>5. SlotSound(request[q], sn, plan[q], sent[q], branches, responses) /\ AllSound(branches, responses)
  BY DEF SelectionInv
<1> HIDE DEF i
<1>6. i \in DOMAIN branches /\ i \in Nat /\ sn[i] \in Branch
      /\ HeadSound(sn[i], responses) /\ (sn[i].apart => branches[i].apart)
  <2>1. /\ Len(sn) \in Nat /\ DOMAIN sn = 1 .. Len(sn)
        /\ Len(branches) \in Nat /\ DOMAIN branches = 1 .. Len(branches)
        /\ \A j \in 1 .. Len(sn) : sn[j] \in Branch
    BY <1>2, LenProperties
  <2>2. Len(sn) <= Len(branches)
    BY <1>5 DEF SlotSound
  <2>3. i \in 1 .. Len(branches)
    BY <1>4, <2>1, <2>2
  <2>4. HeadSound(sn[i], responses) /\ (sn[i].apart => branches[i].apart)
    BY <1>4, <1>5 DEF SlotSound
  <2> QED BY <1>4, <2>1, <2>3, <2>4
<1>7. start \in Nat
  <2>1. sn[i].active \in Seq(Message)
    BY <1>6 DEF Branch
  <2>2. Len(sn[i].active) \in Nat
    BY <2>1, LenProperties
  <2> QED BY <2>2
<1> DEFINE P == [id |-> i, branch |-> sn[i], active |-> m, main |-> FALSE,
                 operational |-> Operational(request[q].messages), start |-> start,
                 zero |-> FALSE, fp |-> FingerprintsOf(q)]
<1>8. /\ P \in Plan
      /\ plan' = [plan EXCEPT ![q] = P]
      /\ P.id = i /\ P.branch = sn[i] /\ P.start = start /\ P.main = FALSE
      /\ P.active = m /\ P.operational = Operational(request[q].messages)
  <2> DEFINE b == sn[i]
             st == start
             z == FALSE
  <2>1. b \in Branch /\ i \in Nat /\ st \in Nat /\ z \in BOOLEAN
    BY <1>6, <1>7
  <2> HIDE DEF b, st, z, i
  <2>2. [id |-> i, branch |-> b, active |-> MessagesOf(q), main |-> FALSE,
         operational |-> Operational(request[q].messages), start |-> st,
         zero |-> z, fp |-> FingerprintsOf(q)] \in Plan
    BY <1>1, <2>1, PlannedType
  <2>3. P \in Plan
    BY <2>2 DEF b, st, z
  <2>4. plan' = [plan EXCEPT ![q] = P]
    BY <1>3
  <2> QED BY <2>3, <2>4
<1> HIDE DEF P
<1>9. PlanSound(P, request[q], sn)
  BY <1>8 DEF PlanSound, MessagesOf
<1>10. P.id \in DOMAIN branches' /\ HeadSound(P.branch, responses)
       /\ (P.branch.apart => branches'[P.id].apart)
  BY <1>3, <1>6, <1>8
<1>11. Grown(branches, branches')
  BY <1>2, <1>3, SameGrown
<1> QED
  BY <1>1, <1>2, <1>3, <1>5, <1>8, <1>9, <1>10, <1>11, PlanInv

(* find_turn_openai_checkpoint, and else the head: a response that was given  *)
(* by the checkpoint's model.  A delta that starts at the end of a sound      *)
(* snapshot has a checkpoint of exactly what it leaves out, if any has its    *)
(* model.                                                                     *)
LEMMA CheckpointSound ==
  ASSUME NEW p \in Plan, NEW model, NEW R, HeadSound(p.branch, R),
         CheckpointFor(p, model) # None
  PROVE  /\ CheckpointFor(p, model).response \in DOMAIN R
         /\ CheckpointFor(p, model).response \in Nat
         /\ R[CheckpointFor(p, model).response].model = CheckpointFor(p, model).model
         /\ FromTurn(p, model) /\ ~p.branch.apart =>
              Told(R[CheckpointFor(p, model).response].context) = Canonical(Prefix(p.active, p.start))
         /\ CheckpointFor(p, model).model = model /\ ~p.branch.apart /\ p.main /\ p.start > 0
            /\ Canonical(Prefix(p.active, p.start)) = Canonical(p.branch.active)
            => FromTurn(p, model)
<1> DEFINE c == CheckpointFor(p, model)
           T == TurnCheckpoints(p, model)
           t == CHOOSE x \in T : TRUE
<1>1. c = IF FromTurn(p, model) THEN [response |-> t.response, model |-> t.model] ELSE p.branch.head
  BY DEF CheckpointFor
<1>2. p.branch \in Branch
  BY DEF Plan
<1>3. ASSUME FromTurn(p, model)
      PROVE  /\ t \in p.branch.turns /\ t \in Turn /\ t.model = model
             /\ t.prefix = Canonical(Prefix(p.active, p.start))
  <2>1. t \in T
    BY <1>3 DEF FromTurn
  <2>2. t \in p.branch.turns /\ t.model = model /\ t.prefix = Canonical(Prefix(p.active, p.start))
    BY <2>1 DEF TurnCheckpoints
  <2>3. p.branch.turns \subseteq Turn
    BY <1>2 DEF Branch
  <2> QED BY <2>2, <2>3
<1>4. ASSUME ~FromTurn(p, model)
      PROVE  c = p.branch.head /\ c # None /\ c \in Checkpoint
  <2>1. c = p.branch.head
    BY <1>1, <1>4
  <2>2. p.branch.head \in Checkpoint \cup {None}
    BY <1>2 DEF Branch
  <2> QED BY <2>1, <2>2
<1> HIDE DEF c, t, T
<1>5. CASE FromTurn(p, model)
  <2>1. c.response = t.response /\ c.model = t.model
    BY <1>1, <1>5
  <2>2. /\ t.response \in DOMAIN R /\ R[t.response].model = t.model
        /\ ~p.branch.apart => Told(R[t.response].context) = t.prefix
    BY <1>3, <1>5 DEF HeadSound
  <2>3. t.response \in Nat
    BY <1>3, <1>5 DEF Turn
  <2> QED BY <1>3, <1>5, <2>1, <2>2, <2>3 DEF c
<1>6. CASE ~FromTurn(p, model)
  <2>1. /\ c.response \in DOMAIN R /\ R[c.response].model = c.model
        /\ ~p.branch.apart => \E x \in p.branch.turns : /\ x.prefix = Canonical(p.branch.active)
                                                        /\ x.response = c.response
                                                        /\ x.model = c.model
    BY <1>4, <1>6 DEF HeadSound
  <2>2. c.response \in Nat
    BY <1>4, <1>6 DEF Checkpoint
  <2>3. ASSUME c.model = model, ~p.branch.apart, p.main, p.start > 0,
               Canonical(Prefix(p.active, p.start)) = Canonical(p.branch.active)
        PROVE  FALSE
    <3>1. PICK x \in p.branch.turns : x.prefix = Canonical(p.branch.active) /\ x.model = model
      BY <2>1, <2>3
    <3>2. x \in TurnCheckpoints(p, model)
      BY <2>3, <3>1 DEF TurnCheckpoints
    <3> QED BY <1>6, <2>3, <3>2 DEF FromTurn
  <2> QED BY <1>6, <2>1, <2>2, <2>3 DEF c
<1> QED
  BY <1>5, <1>6

Chain == {"matching", "missing_chain", "mismatching_chain"}

(* select_transport: what a delta needs.                                      *)
LEMMA NoReason ==
  ASSUME NEW p, NEW model, NEW chain \in Chain, FullReason(p, model, chain) = None
  PROVE  /\ CheckpointFor(p, model) # None /\ CheckpointFor(p, model).model = model
         /\ p.main => ~p.branch.pending /\ p.start # 0
<1> DEFINE c == CheckpointFor(p, model)
<1>1. \A x \in Reason : x # None
  BY SelectionNoneAssumption
<1>2. /\ "missing_checkpoint" # None /\ "model_drift" # None
      /\ "compaction_reset" # None /\ "uncheckpointed_snapshot_head" # None
      /\ "zero_delta_start" # None /\ "no_prefix_match" # None
      /\ chain # "matching" => chain # None
  BY <1>1 DEF Reason, Approved, Chain
<1> HIDE DEF c
<1>3. c # None /\ c.model = model /\ (p.main => ~p.branch.pending /\ p.start # 0)
  BY <1>2 DEF FullReason, c
<1> QED BY <1>3 DEF c

(* SendToBackend: what is sent, on top of what it continues, is the           *)
(* transcript.                                                                *)
LEMMA SendSound ==
  ASSUME NEW p \in Plan, NEW rq \in Request, NEW sn, NEW R \in Seq(Response), NEW chain \in Chain,
         HeadSound(p.branch, R), PlanSound(p, rq, sn), NEW s \in Transport,
         s.previous = IF FullReason(p, rq.model, chain) = None
                      THEN CheckpointFor(p, rq.model).response ELSE None,
         s.input = IF FullReason(p, rq.model, chain) = None THEN Delta(p) ELSE Whole(p)
  PROVE  SentSound(s, p, rq, sn, R)
<1> DEFINE c   == CheckpointFor(p, rq.model)
           why == FullReason(p, rq.model, chain)
<1>1. /\ p.active \in Seq(Message) /\ AllDurable(p.active) /\ p.start \in Nat
      /\ p.operational \in Seq(Note) /\ AllSystem(p.operational)
  <2>1. rq.messages \in Seq(Message)
    BY DEF Request
  <2>2. p.active = Durable(rq.messages) /\ p.operational = Operational(rq.messages)
    BY DEF PlanSound
  <2> QED BY <2>1, <2>2, DurableKeeps, OperationalKeeps DEF Plan
<1>4. s.input \in Seq(Message)
  BY DEF Transport
<1>2. CASE why # None
  <2>1. s.previous = None /\ s.input = Whole(p)
    BY <1>2
  <2>2. ContextOf(s, R) = <<>> \o Items(s.input)
    BY <2>1 DEF ContextOf
  <2>3. Durable(s.input) = p.active
    BY <1>1, <2>1, RenderKeeps DEF Whole
  <2>4. Items(s.input) \in Seq(Item) /\ Told(Items(s.input)) = Canonical(p.active)
    BY <1>4, <2>3, ItemsTold
  <2>5. Told(ContextOf(s, R)) = Canonical(p.active)
    BY <2>2, <2>4, ConcatEmptySeq
  <2> QED BY <2>1, <2>5 DEF SentSound
<1>3. CASE why = None
  <2>1. c # None /\ c.model = rq.model /\ (p.main => ~p.branch.pending /\ p.start # 0)
    <3> DEFINE model == rq.model
    <3>1. FullReason(p, model, chain) = None
      BY <1>3
    <3> HIDE DEF model
    <3>2. CheckpointFor(p, model) # None /\ CheckpointFor(p, model).model = model
          /\ (p.main => ~p.branch.pending /\ p.start # 0)
      BY <3>1, NoReason
    <3> QED BY <3>2 DEF model
  <2>2. /\ c.response \in DOMAIN R /\ c.response \in Nat /\ R[c.response].model = c.model
        /\ FromTurn(p, rq.model) /\ ~p.branch.apart =>
             Told(R[c.response].context) = Canonical(Prefix(p.active, p.start))
        /\ c.model = rq.model /\ ~p.branch.apart /\ p.main /\ p.start > 0
           /\ Canonical(Prefix(p.active, p.start)) = Canonical(p.branch.active)
           => FromTurn(p, rq.model)
    <3> DEFINE model == rq.model
    <3>0. CheckpointFor(p, model) # None
      BY <2>1
    <3> HIDE DEF model
    <3>1. /\ CheckpointFor(p, model).response \in DOMAIN R
          /\ CheckpointFor(p, model).response \in Nat
          /\ R[CheckpointFor(p, model).response].model = CheckpointFor(p, model).model
          /\ FromTurn(p, model) /\ ~p.branch.apart =>
               Told(R[CheckpointFor(p, model).response].context)
                 = Canonical(Prefix(p.active, p.start))
          /\ CheckpointFor(p, model).model = model /\ ~p.branch.apart /\ p.main /\ p.start > 0
             /\ Canonical(Prefix(p.active, p.start)) = Canonical(p.branch.active)
             => FromTurn(p, model)
      BY <3>0, CheckpointSound
    <3> QED BY <3>1 DEF model
  <2> HIDE DEF c
  <2>3. s.previous = c.response /\ s.input = Delta(p) /\ s.previous # None
    <3>1. s.previous = c.response /\ s.input = Delta(p)
      BY <1>3 DEF c
    <3> QED BY <2>2, <3>1, SelectionNoneAssumption
  <2>4. ASSUME p.main, ~p.branch.apart, ~Rebased(rq, sn)
        PROVE  Told(ContextOf(s, R)) = Canonical(p.active)
    <3>1. p.start > 0
      BY <1>1, <2>1, <2>4
    <3>2. /\ p.start = Len(p.branch.active) /\ p.start <= Len(p.active)
          /\ Canonical(Prefix(p.active, p.start)) = Canonical(p.branch.active)
      BY <2>1, <2>4, <3>1 DEF PlanSound
    <3>3. Told(R[c.response].context) = Canonical(Prefix(p.active, p.start))
      BY <2>1, <2>2, <2>4, <3>1, <3>2
    <3>4. Canonical(Prefix(p.active, p.start)) \o Canonical(Durable(Delta(p))) = Canonical(p.active)
      BY <1>1, <3>2, DeltaCompletes DEF Delta
    <3>5. ContextOf(s, R) = R[s.previous].context \o Items(s.input)
      BY <2>3 DEF ContextOf
    <3>6. R[s.previous].context \in Seq(Item)
      <4>1. R[s.previous] \in Response
        BY <2>2, <2>3, LenProperties
      <4> QED BY <4>1 DEF Response
    <3>7. Items(s.input) \in Seq(Item) /\ Told(Items(s.input)) = Canonical(Durable(Delta(p)))
      BY <1>4, <2>3, ItemsTold
    <3>8. Told(ContextOf(s, R)) = Told(R[s.previous].context) \o Told(Items(s.input))
      BY <3>5, <3>6, <3>7, ToldConcat
    <3> QED BY <2>3, <3>3, <3>4, <3>7, <3>8
  <2> QED BY <2>1, <2>2, <2>3, <2>4 DEF SentSound
<1> QED
  BY <1>2, <1>3

LEMMA SendInv ==
  ASSUME SelectionInv, NEW q \in Slot, SendToBackend(q)
  PROVE  SelectionInv'
<1> DEFINE p == plan[q]
           rq == request[q]
           c == CheckpointFor(p, rq.model)
<1>1. /\ request \in [Slot -> Request \cup {None}] /\ snapshot \in [Slot -> Seq(Branch)]
      /\ plan \in [Slot -> Plan \cup {None}] /\ sent \in [Slot -> Transport \cup {None}]
      /\ responses \in Seq(Response) /\ branches \in Seq(Branch)
  BY DEF SelectionInv, TypeOK
<1>2. /\ request' = request /\ snapshot' = snapshot /\ plan' = plan /\ responses' = responses
      /\ transcript' = transcript /\ requests' = requests /\ proven' = proven /\ clock' = clock
      /\ branches' = branches
  BY DEF SendToBackend, clientVars, sideVars
<1>3. PICK chain \in ChainDecisions(c) :
        /\ FullReason(p, rq.model, chain) \in Approved \cup {None}
        /\ sent' = [sent EXCEPT ![q] =
                      [previous |-> IF FullReason(p, rq.model, chain) = None THEN c.response ELSE None,
                       why      |-> FullReason(p, rq.model, chain),
                       live     |-> TRUE,
                       input    |-> IF FullReason(p, rq.model, chain) = None THEN Delta(p) ELSE Whole(p)]]
  BY DEF SendToBackend
<1>4. SlotSound(rq, snapshot[q], p, sent[q], branches, responses)
  BY DEF SelectionInv
<1>5. p # None /\ rq # None /\ p \in Plan /\ rq \in Request
  <2>1. p # None
    BY DEF SendToBackend, Prepared
  <2>2. rq # None
    BY <1>4, <2>1 DEF SlotSound
  <2> QED BY <1>1, <2>1, <2>2
<1>6. chain \in Chain
  <2> HIDE DEF c
  <2> QED BY DEF ChainDecisions, Chain
<1>7. HeadSound(p.branch, responses) /\ PlanSound(p, rq, snapshot[q])
  BY <1>4, <1>5 DEF SlotSound
<1> DEFINE why == FullReason(p, rq.model, chain)
           s == [previous |-> IF why = None THEN c.response ELSE None, why |-> why, live |-> TRUE,
                 input |-> IF why = None THEN Delta(p) ELSE Whole(p)]
<1>8. s \in Transport
  <2>1. why \in Reason \cup {None}
    BY <1>3 DEF Reason
  <2>2. Delta(p) \in Seq(Message) /\ Whole(p) \in Seq(Message)
    <3>1. /\ p.active \in Seq(Message) /\ p.start \in Nat
          /\ p.operational \in Seq(Note) /\ AllSystem(p.operational) /\ AllDurable(p.active)
      <4>1. rq.messages \in Seq(Message)
        BY <1>5 DEF Request
      <4>2. p.active = Durable(rq.messages) /\ p.operational = Operational(rq.messages)
        BY <1>7 DEF PlanSound
      <4> QED BY <1>5, <4>1, <4>2, DurableKeeps, OperationalKeeps DEF Plan
    <3> QED BY <3>1, DeltaCompletes, RenderKeeps DEF Delta, Whole
  <2>3. why = None => c.response \in Nat
    <3>1. SUFFICES ASSUME why = None PROVE c.response \in Nat
      OBVIOUS
    <3> DEFINE model == rq.model
    <3>2. FullReason(p, model, chain) = None
      BY <3>1
    <3> HIDE DEF model
    <3>3. CheckpointFor(p, model) # None
      BY <1>6, <3>2, NoReason
    <3>4. CheckpointFor(p, model).response \in Nat
      BY <1>5, <1>7, <3>3, CheckpointSound
    <3> QED BY <3>4 DEF model
  <2> HIDE DEF why, c
  <2>4. (IF why = None THEN c.response ELSE None) \in Nat \cup {None}
        /\ (IF why = None THEN Delta(p) ELSE Whole(p)) \in Seq(Message)
    BY <2>2, <2>3
  <2> QED BY <2>1, <2>4 DEF Transport
<1>9. SentSound(s, p, rq, snapshot[q], responses)
  <2> DEFINE z == s
  <2>1. z \in Transport
        /\ z.previous = (IF FullReason(p, rq.model, chain) = None
                         THEN CheckpointFor(p, rq.model).response ELSE None)
        /\ z.input = (IF FullReason(p, rq.model, chain) = None THEN Delta(p) ELSE Whole(p))
    BY <1>8
  <2> HIDE DEF z, p, rq
  <2>2. SentSound(z, p, rq, snapshot[q], responses)
    BY <1>1, <1>5, <1>6, <1>7, <2>1, SendSound
  <2> QED BY <2>2 DEF z
<1>10. sent' = [sent EXCEPT ![q] = s]
  BY <1>3
<1> HIDE DEF s, p, rq, c
<1>11. sent' \in [Slot -> Transport \cup {None}] /\ sent'[q] = s /\ s # None
  <2>1. s # None
    BY <1>8, SelectionNoneAssumption
  <2> QED BY <1>1, <1>8, <1>10, <2>1
<1>12. TypeOK'
  BY <1>2, <1>11 DEF TypeOK, SelectionInv
<1>13. Other(q)
  BY <1>1, <1>2, <1>10 DEF Other
<1>14. More(responses, responses') /\ Grown(branches, branches')
  BY <1>1, <1>2, SameMore, SameGrown
<1>15. AllSound(branches', responses')
  BY <1>2 DEF SelectionInv
<1>16. SlotSound(rq, snapshot[q], p, s, branches, responses)
  BY <1>4, <1>5, <1>9, <1>11 DEF SlotSound
<1>17. SlotSound(request'[q], snapshot'[q], plan'[q], sent'[q], branches', responses')
  BY <1>2, <1>11, <1>16 DEF p, rq
<1> QED
  BY <1>12, <1>13, <1>14, <1>15, <1>17, OneSlot

(* A request arrives, and its handler reads the branches.                     *)
LEMMA SendsInv ==
  ASSUME SelectionInv, NEW q \in Slot, NEW messages \in Seq(Message), messages # <<>>,
         NEW e \in Envelope, NEW model \in Model, Sends(q, messages, e, model),
         transcript' \in Seq(Message)
  PROVE  SelectionInv'
<1> DEFINE rq == [messages |-> Marked(messages), envelope |-> e, model |-> model]
<1>1. /\ request \in [Slot -> Request \cup {None}] /\ snapshot \in [Slot -> Seq(Branch)]
      /\ plan \in [Slot -> Plan \cup {None}] /\ sent \in [Slot -> Transport \cup {None}]
      /\ responses \in Seq(Response) /\ branches \in Seq(Branch) /\ requests \in Nat
  BY DEF SelectionInv, TypeOK
<1>2. /\ plan' = plan /\ sent' = sent /\ branches' = branches /\ responses' = responses
      /\ proven' = proven /\ clock' = clock /\ requests' = requests + 1
      /\ request' = [request EXCEPT ![q] = rq] /\ snapshot' = [snapshot EXCEPT ![q] = branches]
      /\ request[q] = None
  BY DEF Sends, sideVars
<1>3. rq \in Request
  <2>1. Marked(messages) \in Seq(Message)
    <3> DEFINE n == Len(messages)
               x == [messages[n] EXCEPT !.cached = TRUE]
    <3>1. n \in 1 .. n /\ messages \in [1 .. n -> Message]
      BY EmptySeq, LenProperties
    <3>2. messages[n] \in Message
      BY <3>1
    <3>3. x \in Message
      BY <3>2 DEF Message
    <3>4. Marked(messages) = [messages EXCEPT ![n] = x]
      BY DEF Marked
    <3> HIDE DEF n, x
    <3>5. [messages EXCEPT ![n] = x] \in [1 .. n -> Message]
      BY <3>1, <3>3
    <3>6. n \in Nat
      BY LenProperties DEF n
    <3> QED BY <3>4, <3>5, <3>6, SeqDef
  <2>2. e \in Envelopes
    BY EnvelopeAssumption
  <2> QED BY <2>1, <2>2 DEF Request
<1> HIDE DEF rq
<1>4. request' \in [Slot -> Request \cup {None}] /\ snapshot' \in [Slot -> Seq(Branch)]
  BY <1>1, <1>2, <1>3
<1>5. TypeOK'
  BY <1>1, <1>2, <1>4 DEF TypeOK, SelectionInv
<1>6. Other(q)
  BY <1>1, <1>2 DEF Other
<1>7. SlotSound(rq, branches, None, None, branches, responses)
  <2>1. plan[q] = None /\ sent[q] = None /\ AllSound(branches, responses)
    BY <1>2 DEF SelectionInv, SlotSound
  <2>2. Len(branches) \in Nat
    BY <1>1, LenProperties
  <2> QED BY <2>1, <2>2 DEF SlotSound, AllSound
<1>8. request'[q] = rq /\ snapshot'[q] = branches /\ plan'[q] = None /\ sent'[q] = None
  BY <1>1, <1>2 DEF SelectionInv, SlotSound
<1>9. SlotSound(request'[q], snapshot'[q], plan'[q], sent'[q], branches', responses')
  BY <1>2, <1>7, <1>8
<1>10. AllSound(branches', responses')
  BY <1>2 DEF SelectionInv
<1> QED
  BY <1>1, <1>2, <1>5, <1>6, <1>9, <1>10, OneSlot, SameMore, SameGrown

LEMMA ArrivalInv ==
  ASSUME SelectionInv, NEW q \in Slot, ConversationArrives(q) \/ OffshootArrives(q)
  PROVE  SelectionInv'
<1>1. transcript \in Seq(Message)
  BY DEF SelectionInv, TypeOK
<1>2. CASE ConversationArrives(q)
  <2>1. PICK messages \in NextTranscripts, e \in Envelope, model \in Model :
          Sends(q, messages, e, model) /\ transcript' = messages
    BY <1>2 DEF ConversationArrives
  <2> DEFINE earlier == {Prefix(transcript, n) : n \in 0 .. Len(transcript)}
  <2>2. \/ \E m \in earlier, a \in Addition : messages = m \o a
        \/ messages \in earlier /\ ~Speaking(messages)
    <3> DEFINE follows(x, m) == x = <<ToolResult>> => m # <<>> /\ IsAssistant(LastOf(m))
               G(m) == {m \o a : a \in {x \in Addition : follows(x, m)}}
               S    == {G(m) : m \in {y \in earlier : Speaking(y)}}
               F    == {y \in earlier : ~Speaking(y)}
    <3>1. messages \in (UNION S) \cup F
      BY Zenon DEF NextTranscripts
    <3>2. messages \in UNION S \/ messages \in F
      <4> HIDE DEF S, F
      <4> QED BY <3>1
    <3>3. ASSUME messages \in UNION S PROVE \E m \in earlier, a \in Addition : messages = m \o a
      <4> HIDE DEF earlier
      <4>1. PICK m \in earlier : messages \in G(m)
        <5> HIDE DEF G
        <5> QED BY <3>3
      <4> QED BY <4>1
    <3> QED BY <3>2, <3>3
  <2>3. \A x \in earlier : x \in Seq(Message)
    BY <1>1, PrefixType, LenProperties
  <2>4. messages \in Seq(Message) /\ messages # <<>>
    <3> HIDE DEF earlier
    <3>1. CASE \E m \in earlier, a \in Addition : messages = m \o a
      <4>1. PICK m \in earlier, a \in Addition : messages = m \o a
        BY <3>1
      <4>2. m \in Seq(Message) /\ a \in Seq(Message) /\ a # <<>>
        BY <2>3, AdditionAssumption
      <4>3. messages \in Seq(Message) /\ Len(messages) = Len(m) + Len(a)
        BY <4>1, <4>2, ConcatProperties
      <4>4. Len(m) \in Nat /\ Len(a) \in Nat /\ Len(a) # 0
        BY <4>2, EmptySeq, LenProperties
      <4> QED BY <4>3, <4>4, EmptySeq
    <3>2. CASE messages \in earlier /\ ~Speaking(messages)
      BY <2>3, <3>2 DEF Speaking
    <3> QED BY <2>2, <3>1, <3>2
  <2> QED BY <2>1, <2>4, SendsInv
<1>3. CASE OffshootArrives(q)
  <2>1. PICK messages \in {<<Probe>>, Append(transcript, Probe)}, e \in Envelope, model \in Model :
          Sends(q, messages, e, model) /\ transcript' = transcript
    BY <1>3 DEF OffshootArrives
  <2>2. Probe \in Message
    BY WordAssumption DEF Probe, Say, Message
  <2>3. messages \in Seq(Message) /\ messages # <<>>
    <3> HIDE DEF Probe
    <3>1. CASE messages = <<Probe>>
      BY <2>2, <3>1
    <3>2. CASE messages = Append(transcript, Probe)
      <4>1. messages \in Seq(Message) /\ Len(messages) = Len(transcript) + 1
        BY <1>1, <2>2, <3>2, AppendProperties
      <4>2. Len(transcript) \in Nat
        BY <1>1, LenProperties
      <4> QED BY <4>1, <4>2, EmptySeq
    <3> QED BY <2>1, <3>1, <3>2
  <2> QED BY <1>1, <2>1, <2>3, SendsInv
<1> QED
  BY <1>2, <1>3

LEMMA AllSoundMore ==
  ASSUME NEW B, NEW R \in Seq(Response), NEW R2 \in Seq(Response), More(R, R2), AllSound(B, R)
  PROVE  AllSound(B, R2)
<1>1. SUFFICES ASSUME NEW i \in DOMAIN B PROVE HeadSound(B[i], R2)
  BY DEF AllSound
<1>2. HeadSound(B[i], R)
  BY DEF AllSound
<1> QED
  BY <1>2, HeadSoundMore

(* What a slot that is in flight holds.                                       *)
LEMMA InFlightHas ==
  ASSUME SelectionInv, NEW q \in Slot, InFlight(q)
  PROVE  /\ plan[q] \in Plan /\ request[q] \in Request /\ sent[q] \in Transport
         /\ plan[q].id \in DOMAIN branches /\ branches[plan[q].id] \in Branch
         /\ HeadSound(branches[plan[q].id], responses)
         /\ plan[q].branch.apart => branches[plan[q].id].apart
         /\ SentSound(sent[q], plan[q], request[q], snapshot[q], responses)
<1>1. SlotSound(request[q], snapshot[q], plan[q], sent[q], branches, responses)
  BY DEF SelectionInv
<1>2. sent[q] # None /\ plan[q] # None /\ request[q] # None
  BY <1>1 DEF InFlight, SlotSound
<1>3. plan[q] \in Plan /\ request[q] \in Request /\ sent[q] \in Transport
  BY <1>2 DEF SelectionInv, TypeOK
<1>4. plan[q].id \in DOMAIN branches /\ (plan[q].branch.apart => branches[plan[q].id].apart)
      /\ SentSound(sent[q], plan[q], request[q], snapshot[q], responses)
  BY <1>1, <1>2 DEF SlotSound
<1>5. branches[plan[q].id] \in Branch /\ HeadSound(branches[plan[q].id], responses)
  BY <1>4, LenProperties DEF SelectionInv, TypeOK, AllSound
<1> QED
  BY <1>3, <1>4, <1>5

(* What the client shows next is a transcript.                                *)
LEMMA ShownType ==
  ASSUME TypeOK, NEW q \in Slot, request[q] \in Request
  PROVE  Shown(q) \in Seq(Message)
<1>1. Summary \in Message /\ Answer \in Message
  BY WordAssumption DEF Summary, Answer, Say, Message
<1>2. request[q].messages \in Seq(Message)
  BY DEF Request
<1>3. Canonical(request[q].messages) \in Seq(Message)
  BY <1>2, CanonicalType
<1> HIDE DEF Summary, Answer
<1>4. <<Summary>> \in Seq(Message)
  BY <1>1
<1>5. Append(Canonical(request[q].messages), Answer) \in Seq(Message)
  BY <1>1, <1>3, AppendProperties
<1> QED
  BY <1>4, <1>5 DEF Shown

(* commit_turn: the checkpoint that is stored with a snapshot is of a         *)
(* response along whose chain that snapshot was told.                         *)
LEMMA CommittedSound ==
  ASSUME NEW q \in Slot, NEW b \in Branch, NEW R, NEW r \in DOMAIN R, r \in Nat, clock \in Nat,
         plan[q] \in Plan, request[q] \in Request, HeadSound(b, R),
         R[r].model = request[q].model,
         ~b.apart /\ ~(Rebaselined(q) /\ sent[q].previous # None)
           => Told(R[r].context) = Canonical(plan[q].active)
  PROVE  /\ CommittedTurn(b, q, r) \in Branch
         /\ b.apart => CommittedTurn(b, q, r).apart
         /\ HeadSound(CommittedTurn(b, q, r), R)
<1> DEFINE p     == plan[q]
           model == request[q].model
           seen  == Canonical(p.active)
           head  == [response |-> r, model |-> model]
           turn  == [prefix |-> seen, response |-> r, model |-> model]
           turns == {t \in b.turns : t.prefix # seen} \cup {turn}
           apart == b.apart \/ (Rebaselined(q) /\ sent[q].previous # None)
           b2    == CommittedTurn(b, q, r)
<1>1. /\ p.fp \in Fingerprint /\ p.active \in Seq(Message) /\ model \in Model
      /\ seen \in Seq(Message)
  BY CanonicalType DEF Plan, Request
<1>2. turn \in Turn /\ head \in Checkpoint
  BY <1>1 DEF Turn, Checkpoint
<1>3. b2 = [b EXCEPT !.fp = p.fp, !.active = p.active, !.updated = clock, !.pending = FALSE,
                     !.head = head, !.turns = turns, !.apart = apart]
  BY DEF CommittedTurn
<1>4. turns \subseteq Turn
  <2>1. b.turns \subseteq Turn
    BY DEF Branch
  <2> HIDE DEF turn
  <2> QED BY <1>2, <2>1
<1>5. apart \in BOOLEAN
  <2>1. b.apart \in BOOLEAN
    BY DEF Branch
  <2> QED BY <2>1
<1>6. \A t \in turns : t = turn \/ t \in b.turns
  <2> HIDE DEF turn
  <2> QED OBVIOUS
<1>7. turn \in turns
  OBVIOUS
<1>8. turn.prefix = seen /\ turn.response = r /\ turn.model = model /\ head.response = r
      /\ head.model = model
  OBVIOUS
<1>9. ~apart => ~b.apart /\ Told(R[r].context) = seen
  OBVIOUS
<1>10. b.apart => apart
  OBVIOUS
<1> HIDE DEF p, model, seen, head, turn, turns, apart
<1>11. b2 \in Branch
  <2> HIDE DEF b2
  <2> QED BY <1>1, <1>2, <1>3, <1>4, <1>5 DEF Branch
<1>12. b2.active = p.active /\ b2.head = head /\ b2.turns = turns /\ b2.apart = apart
  <2> HIDE DEF b2
  <2> QED BY <1>3 DEF Branch
<1> HIDE DEF b2
<1>13. \A t \in b2.turns : /\ t.response \in DOMAIN R
                           /\ R[t.response].model = t.model
                           /\ ~b2.apart => Told(R[t.response].context) = t.prefix
  <2>1. TAKE t \in b2.turns
  <2>2. CASE t = turn
    BY <1>8, <1>9, <1>12, <2>2 DEF model
  <2>3. CASE t \in b.turns
    <3>1. /\ t.response \in DOMAIN R /\ R[t.response].model = t.model
          /\ ~b.apart => Told(R[t.response].context) = t.prefix
      BY <2>3 DEF HeadSound
    <3> QED BY <1>9, <1>12, <3>1
  <2> QED BY <1>6, <1>12, <2>2, <2>3
<1>14. /\ b2.head.response \in DOMAIN R
       /\ R[b2.head.response].model = b2.head.model
       /\ \E t \in b2.turns : /\ t.prefix = Canonical(b2.active)
                              /\ t.response = b2.head.response
                              /\ t.model = b2.head.model
  <2>1. R[r].model = model
    BY DEF model
  <2>2. Canonical(b2.active) = turn.prefix
    BY <1>8, <1>12 DEF seen
  <2> QED BY <1>7, <1>8, <1>12, <2>1, <2>2
<1>15. HeadSound(b2, R)
  BY <1>13, <1>14 DEF HeadSound
<1> QED
  BY <1>10, <1>11, <1>12, <1>15 DEF b2

(* A branch is replaced as the request that wrote it ends.                    *)
LEMMA WriteInv ==
  ASSUME SelectionInv, NEW q \in Slot, Reject(q), NEW i \in DOMAIN branches, NEW b \in Branch,
         branches' = [branches EXCEPT ![i] = b], branches[i].apart => b.apart,
         transcript' \in Seq(Message), requests' = requests, responses' \in Seq(Response),
         proven' \in SUBSET Nat, clock' \in Nat, More(responses, responses'),
         HeadSound(b, responses')
  PROVE  SelectionInv'
<1>1. branches \in Seq(Branch) /\ responses \in Seq(Response) /\ requests \in Nat
      /\ AllSound(branches, responses)
  BY DEF SelectionInv, TypeOK
<1>2. AllSound(branches, responses')
  BY <1>1, AllSoundMore
<1>3. /\ branches' \in Seq(Branch) /\ Grown(branches, branches') /\ AllSound(branches', responses')
  BY <1>1, <1>2, Replaced
<1> QED
  BY <1>1, <1>3, RejectInv

LEMMA LaterType == ASSUME clock \in Nat, Later(clock') PROVE clock' \in Nat
  BY DEF Later

LEMMA CommitInv ==
  ASSUME SelectionInv, NEW q \in Slot, CommitTurn(q)
  PROVE  SelectionInv'
<1> DEFINE p == plan[q]
           i == p.id
           r == Len(responses) + 1
<1>1. /\ p \in Plan /\ request[q] \in Request /\ sent[q] \in Transport
      /\ i \in DOMAIN branches /\ branches[i] \in Branch /\ HeadSound(branches[i], responses)
      /\ p.branch.apart => branches[i].apart
      /\ SentSound(sent[q], p, request[q], snapshot[q], responses)
      /\ p.main /\ Reject(q)
  BY InFlightHas DEF CommitTurn
<1>2. /\ TypeOK /\ branches \in Seq(Branch) /\ responses \in Seq(Response) /\ clock \in Nat
      /\ proven \in SUBSET Nat
  BY DEF SelectionInv, TypeOK
<1>3. transcript' \in Seq(Message) /\ requests' = requests /\ clock' \in Nat
  BY <1>1, <1>2, ShownType, LaterType DEF CommitTurn
<1>4. \/ /\ branches'  = [branches EXCEPT ![i] = CommittedTurn(@, q, r)]
         /\ responses' = Append(responses, Produced(q))
         /\ proven'    = proven \cup (IF sent[q].live THEN {r} ELSE {})
      \/ /\ branches' = [branches EXCEPT ![i] = BareTurn(@, q)]
         /\ responses' = responses /\ proven' = proven
  BY DEF CommitTurn, sideVars
<1>5. ASSUME branches'  = [branches EXCEPT ![i] = CommittedTurn(@, q, r)],
             responses' = Append(responses, Produced(q)),
             proven'    = proven \cup (IF sent[q].live THEN {r} ELSE {})
      PROVE  SelectionInv'
  <2> DEFINE R == responses'
             b == CommittedTurn(branches[i], q, r)
  <2>1. Produced(q) \in Response /\ Told(Produced(q).context) = Told(ContextOf(sent[q], responses))
    <3>1. sent[q].previous # None => responses[sent[q].previous] \in Response
      <4>1. sent[q].previous # None => sent[q].previous \in DOMAIN responses
        BY <1>1 DEF SentSound
      <4> QED BY <1>2, <4>1, LenProperties
    <3>2. sent[q].previous # None => responses[sent[q].previous].context \in Seq(Item)
      BY <3>1 DEF Response
    <3>3. sent[q].input \in Seq(Message)
      BY <1>1 DEF Transport
    <3>4. Items(sent[q].input) \in Seq(Item)
      BY <3>3, ItemsTold
    <3>5. (IF sent[q].previous = None THEN <<>> ELSE responses[sent[q].previous].context)
            \in Seq(Item)
      BY <3>2, EmptySeq
    <3>6. ContextOf(sent[q], responses) \in Seq(Item)
      BY <3>4, <3>5, ConcatProperties DEF ContextOf
    <3>8. Heard(q) = ContextOf(sent[q], responses)
      BY DEF Heard, ContextOf
    <3>9. /\ Append(Heard(q), Output) \in Seq(Item)
          /\ Told(Append(Heard(q), Output)) = Told(ContextOf(sent[q], responses))
      BY <3>6, <3>8, OutputTold
    <3>7. i \in Nat /\ request[q].model \in Model
      BY <1>1 DEF Plan, Request
    <3>10. Produced(q) \in Response
      BY <3>7, <3>9 DEF Produced, Response
    <3>11. Produced(q).context = Append(Heard(q), Output)
      BY DEF Produced
    <3> QED BY <3>9, <3>10, <3>11
  <2>2. Len(responses) \in Nat /\ DOMAIN responses = 1 .. Len(responses)
    BY <1>2, LenProperties
  <2>3. /\ R \in Seq(Response) /\ Len(R) = Len(responses) + 1 /\ R[r] = Produced(q)
        /\ \A j \in 1 .. Len(responses) : R[j] = responses[j]
    <3> DEFINE x == Produced(q)
    <3> HIDE DEF x
    <3>1. Append(responses, x) \in Seq(Response) /\ Len(Append(responses, x)) = Len(responses) + 1
          /\ Append(responses, x)[Len(responses) + 1] = x
          /\ \A j \in 1 .. Len(responses) : Append(responses, x)[j] = responses[j]
      BY <1>2, <2>1, AppendProperties DEF x
    <3> QED BY <1>5, <3>1 DEF x
  <2>4. More(responses, R)
    BY <2>2, <2>3 DEF More
  <2>5. r \in DOMAIN R /\ r \in Nat
    BY <2>2, <2>3, LenProperties
  <2>6. R[r].model = request[q].model
    BY <2>3 DEF Produced
  <2>7. ASSUME ~branches[i].apart, ~(Rebaselined(q) /\ sent[q].previous # None)
        PROVE  Told(R[r].context) = Canonical(p.active)
    <3>1. Told(R[r].context) = Told(ContextOf(sent[q], responses))
      <4> HIDE DEF R, r
      <4> QED BY <2>1, <2>3
    <3>2. Rebaselined(q) = Rebased(request[q], snapshot[q])
      BY DEF Rebaselined, Rebased, CompactOf, NoBranchMatches, MessagesOf
    <3> QED BY <1>1, <2>7, <3>1, <3>2 DEF SentSound
  <2>8. HeadSound(branches[i], R)
    BY <1>1, <1>2, <2>3, <2>4, HeadSoundMore
  <2>9. b \in Branch /\ (branches[i].apart => b.apart) /\ HeadSound(b, R)
    <3> DEFINE b0 == branches[i]
    <3>1. b0 \in Branch /\ HeadSound(b0, R)
          /\ (~b0.apart /\ ~(Rebaselined(q) /\ sent[q].previous # None)
               => Told(R[r].context) = Canonical(plan[q].active))
      BY <1>1, <2>7, <2>8
    <3> HIDE DEF b0, R, r
    <3>2. CommittedTurn(b0, q, r) \in Branch /\ (b0.apart => CommittedTurn(b0, q, r).apart)
          /\ HeadSound(CommittedTurn(b0, q, r), R)
      BY <1>1, <1>2, <2>5, <2>6, <3>1, CommittedSound
    <3> QED BY <3>2 DEF b0
  <2>10. branches' = [branches EXCEPT ![i] = b]
    BY <1>5
  <2>11. proven' \in SUBSET Nat
    BY <1>2, <1>5, <2>5
  <2> HIDE DEF b, i
  <2> QED BY <1>1, <1>3, <2>3, <2>4, <2>9, <2>10, <2>11, WriteInv
<1>6. ASSUME branches' = [branches EXCEPT ![i] = BareTurn(@, q)],
             responses' = responses, proven' = proven
      PROVE  SelectionInv'
  <2> DEFINE b0 == branches[i]
             b  == BareTurn(b0, q)
  <2>1. p.fp \in Fingerprint /\ p.active \in Seq(Message)
    BY <1>1 DEF Plan
  <2>2. b = [b0 EXCEPT !.fp = p.fp, !.active = p.active, !.updated = clock, !.apart = TRUE]
    BY DEF BareTurn
  <2>3. b0 \in Branch /\ HeadSound(b0, responses)
    BY <1>1
  <2>4. branches' = [branches EXCEPT ![i] = b]
    BY <1>6
  <2> HIDE DEF b, b0, p
  <2>5. b \in Branch /\ b.turns = b0.turns /\ b.head = b0.head /\ b.apart
    BY <1>2, <2>1, <2>2, <2>3 DEF Branch
  <2>6. HeadSound(b, responses)
    BY <2>3, <2>5, HeadSoundKept
  <2>7. More(responses, responses)
    BY <1>2, SameMore
  <2> HIDE DEF i
  <2>8. responses' \in Seq(Response) /\ proven' \in SUBSET Nat /\ More(responses, responses')
        /\ HeadSound(b, responses') /\ (branches[i].apart => b.apart)
    BY <1>2, <1>6, <2>5, <2>6, <2>7
  <2> QED BY <1>1, <1>3, <2>4, <2>5, <2>8, WriteInv
<1> QED
  BY <1>4, <1>5, <1>6

LEMMA CommitOffshootInv ==
  ASSUME SelectionInv, NEW q \in Slot, CommitOffshoot(q)
  PROVE  SelectionInv'
<1> DEFINE i  == plan[q].id
           b0 == branches[i]
           b  == [b0 EXCEPT !.updated = clock]
<1>1. /\ i \in DOMAIN branches /\ b0 \in Branch /\ HeadSound(b0, responses) /\ Reject(q)
      /\ branches' = [branches EXCEPT ![i].updated = clock]
  BY InFlightHas DEF CommitOffshoot
<1>2. responses \in Seq(Response) /\ clock \in Nat /\ proven \in SUBSET Nat
      /\ transcript \in Seq(Message)
  BY DEF SelectionInv, TypeOK
<1>3. transcript' = transcript /\ requests' = requests /\ responses' = responses
      /\ proven' = proven /\ clock' \in Nat
  BY <1>2, LaterType DEF CommitOffshoot, sideVars
<1>4. branches' = [branches EXCEPT ![i] = b]
  BY <1>1
<1> HIDE DEF b0
<1>5. b \in Branch /\ b.turns = b0.turns /\ b.head = b0.head /\ b.apart = b0.apart
      /\ b.active = b0.active
  BY <1>1, <1>2 DEF Branch
<1> HIDE DEF b
<1>6. HeadSound(b, responses)
  BY <1>1, <1>5, HeadSoundKept
<1>7. branches[i].apart => b.apart
  BY <1>5 DEF b0
<1>8. More(responses, responses)
  BY <1>2, SameMore
<1>9. transcript' \in Seq(Message) /\ responses' \in Seq(Response) /\ proven' \in SUBSET Nat
      /\ More(responses, responses') /\ HeadSound(b, responses')
  BY <1>2, <1>3, <1>6, <1>8
<1> HIDE DEF i
<1> QED
  BY <1>1, <1>3, <1>4, <1>5, <1>7, <1>9, WriteInv

(* A request that is refused, or that fails, changes nothing but its slot.    *)
LEMMA GivenUpInv ==
  ASSUME SelectionInv, NEW q \in Slot, RejectMissing(q) \/ RefuseTransport(q) \/ TurnFails(q)
  PROVE  SelectionInv'
<1>1. /\ Reject(q) /\ transcript' = transcript /\ requests' = requests /\ branches' = branches
      /\ responses' = responses /\ proven' = proven /\ clock' = clock
  BY DEF RejectMissing, RefuseTransport, TurnFails, sideVars
<1>2. /\ transcript \in Seq(Message) /\ requests \in Nat /\ branches \in Seq(Branch)
      /\ responses \in Seq(Response) /\ proven \in SUBSET Nat /\ clock \in Nat
      /\ AllSound(branches, responses)
  BY DEF SelectionInv, TypeOK
<1>3. Grown(branches, branches) /\ More(responses, responses)
  BY <1>2, SameGrown, SameMore
<1>4. /\ transcript' \in Seq(Message) /\ requests' \in Nat /\ branches' \in Seq(Branch)
      /\ responses' \in Seq(Response) /\ proven' \in SUBSET Nat /\ clock' \in Nat
      /\ Grown(branches, branches') /\ More(responses, responses') /\ AllSound(branches', responses')
  BY <1>1, <1>2, <1>3
<1> QED
  BY <1>1, <1>4, RejectInv

(* Responses that can no longer be continued were still given.                *)
LEMMA ChainLostInv ==
  ASSUME SelectionInv, ChainLost
  PROVE  SelectionInv'
<1>1. PICK i \in DOMAIN branches, model \in Model :
        /\ proven' = proven \ {r \in proven : responses[r].branch = i /\ responses[r].model = model}
        /\ sent' = [q \in Slot |->
                      IF InFlight(q) /\ plan[q].id = i /\ request[q].model = model
                      THEN [sent[q] EXCEPT !.live = FALSE] ELSE sent[q]]
        /\ UNCHANGED <<clientVars, snapshot, plan, branches, responses, clock>>
  BY DEF ChainLost
<1>2. TypeOK /\ sent \in [Slot -> Transport \cup {None}]
  BY DEF SelectionInv, TypeOK
<1>3. ASSUME NEW q \in Slot
      PROVE  /\ sent'[q] \in Transport \cup {None}
             /\ sent[q] = None <=> sent'[q] = None
             /\ sent[q] # None => sent'[q].previous = sent[q].previous /\ sent'[q].input = sent[q].input
  <2>1. CASE sent[q] = None
    BY <1>1, <2>1 DEF InFlight
  <2>2. CASE sent[q] # None
    <3> DEFINE s == sent[q]
               s2 == [s EXCEPT !.live = FALSE]
    <3>1. s \in Transport
      BY <1>2, <2>2
    <3>2. s2 \in Transport /\ s2.previous = s.previous /\ s2.input = s.input
      <4> HIDE DEF s
      <4> QED BY <3>1 DEF Transport
    <3>3. sent'[q] = s2 \/ sent'[q] = s
      BY <1>1
    <3>4. None \notin Transport
      BY SelectionNoneAssumption
    <3> HIDE DEF s2
    <3> QED BY <2>2, <3>1, <3>2, <3>3, <3>4
  <2> QED BY <2>1, <2>2
<1>4. sent' \in [Slot -> Transport \cup {None}]
  <2>1. DOMAIN sent' = Slot /\ sent' = [q \in Slot |-> sent'[q]]
    BY <1>1
  <2> QED BY <1>3, <2>1
<1>5. TypeOK'
  <2>1. proven' \in SUBSET Nat
    BY <1>1, <1>2 DEF TypeOK
  <2> QED BY <1>1, <1>2, <1>4, <2>1 DEF TypeOK, clientVars
<1>6. ASSUME NEW q \in Slot
      PROVE  SlotSound(request'[q], snapshot'[q], plan'[q], sent'[q], branches', responses')
  <2> DEFINE s == sent[q]
             s2 == sent'[q]
  <2>1. SlotSound(request[q], snapshot[q], plan[q], s, branches, responses)
    BY DEF SelectionInv
  <2>2. /\ s = None <=> s2 = None
        /\ s # None => s2.previous = s.previous /\ s2.input = s.input
    BY <1>3
  <2>3. request' = request /\ snapshot' = snapshot /\ plan' = plan /\ branches' = branches
        /\ responses' = responses
    BY <1>1 DEF clientVars
  <2> HIDE DEF s, s2
  <2>4. ASSUME s # None, SentSound(s, plan[q], request[q], snapshot[q], responses)
        PROVE  SentSound(s2, plan[q], request[q], snapshot[q], responses)
    <3>1. ContextOf(s2, responses) = ContextOf(s, responses)
      BY <2>2, <2>4 DEF ContextOf
    <3> QED BY <2>2, <2>4, <3>1 DEF SentSound
  <2>5. SlotSound(request[q], snapshot[q], plan[q], s2, branches, responses)
    BY <2>1, <2>2, <2>4 DEF SlotSound
  <2> QED BY <2>3, <2>5 DEF s2
<1>7. AllSound(branches', responses')
  BY <1>1 DEF SelectionInv
<1> QED
  BY <1>5, <1>6, <1>7 DEF SelectionInv

LEMMA InitInv == Init => SelectionInv
<1>1. SUFFICES ASSUME Init PROVE SelectionInv
  OBVIOUS
<1>2. <<>> \in Seq(Branch) /\ <<>> \in Seq(Message) /\ <<>> \in Seq(Response)
      /\ Len(<<>>) = 0 /\ DOMAIN <<>> = {}
  BY EmptySeq
<1>3. TypeOK
  BY <1>1, <1>2 DEF Init, TypeOK
<1>4. ASSUME NEW q \in Slot
      PROVE  SlotSound(request[q], snapshot[q], plan[q], sent[q], branches, responses)
  <2>1. /\ request[q] = None /\ snapshot[q] = <<>> /\ plan[q] = None /\ sent[q] = None
        /\ branches = <<>>
    BY <1>1 DEF Init
  <2> QED BY <1>2, <2>1 DEF SlotSound
<1>5. AllSound(branches, responses)
  BY <1>1, <1>2 DEF Init, AllSound
<1> QED
  BY <1>3, <1>4, <1>5 DEF SelectionInv

LEMMA NextInv == SelectionInv /\ [Next]_vars => SelectionInv'
<1>1. SUFFICES ASSUME SelectionInv, [Next]_vars PROVE SelectionInv'
  OBVIOUS
<1>2. ASSUME NEW q \in Slot, ConversationArrives(q) \/ OffshootArrives(q) PROVE SelectionInv'
  BY <1>1, <1>2, ArrivalInv
<1>3. ASSUME NEW q \in Slot, PrepareMatched(q) PROVE SelectionInv'
  BY <1>1, <1>3, MatchedInv
<1>4. ASSUME NEW q \in Slot, PrepareInitial(q) PROVE SelectionInv'
  BY <1>1, <1>4, InitialInv
<1>5. ASSUME NEW q \in Slot, PrepareTransient(q) PROVE SelectionInv'
  BY <1>1, <1>5, TransientInv
<1>6. ASSUME NEW q \in Slot, SendToBackend(q) PROVE SelectionInv'
  BY <1>1, <1>6, SendInv
<1>7. ASSUME NEW q \in Slot, CommitTurn(q) PROVE SelectionInv'
  BY <1>1, <1>7, CommitInv
<1>8. ASSUME NEW q \in Slot, CommitOffshoot(q) PROVE SelectionInv'
  BY <1>1, <1>8, CommitOffshootInv
<1>9. ASSUME NEW q \in Slot, RejectMissing(q) \/ RefuseTransport(q) \/ TurnFails(q)
      PROVE SelectionInv'
  BY <1>1, <1>9, GivenUpInv
<1>10. CASE ChainLost
  BY <1>1, <1>10, ChainLostInv
<1>11. CASE UNCHANGED vars
  BY <1>1, <1>11 DEF SelectionInv, TypeOK, AllSound, vars, clientVars, sideVars
<1> QED
  BY <1>1, <1>2, <1>3, <1>4, <1>5, <1>6, <1>7, <1>8, <1>9, <1>10, <1>11 DEF Next, Quiet

LEMMA SelectionAlways == Spec => []SelectionInv
  BY InitInv, NextInv, PTL DEF Spec

(***************************************************************************)
(* What follows.                                                           *)
(***************************************************************************)

(* Every variable keeps its type: what the handlers read back from a branch,  *)
(* a plan or a transport is complete.                                         *)
THEOREM TypeCorrect == Spec => []TypeOK
<1>1. SelectionInv => TypeOK
  BY DEF SelectionInv
<1> QED
  BY <1>1, SelectionAlways, PTL

(* What the gateway told along the chain that a delta continues, and the      *)
(* delta, are together the transcript (select_message_transport,              *)
(* commit_turn); the outputs in between are the backend's own.                *)
THEOREM DeltasComplete == Spec => []DeltaCompletesContext
<1>1. SelectionInv => DeltaCompletesContext
  <2>1. SUFFICES ASSUME SelectionInv, NEW q \in Slot, InFlight(q), sent[q].previous # None,
                        plan[q].main, ~plan[q].branch.apart, ~Rebaselined(q)
                 PROVE  /\ Told(Heard(q)) = Canonical(plan[q].active)
                        /\ responses[sent[q].previous].model = request[q].model
    BY DEF DeltaCompletesContext
  <2>2. SentSound(sent[q], plan[q], request[q], snapshot[q], responses)
    BY <2>1, InFlightHas
  <2>3. ~Rebased(request[q], snapshot[q])
    BY <2>1 DEF Rebaselined, Rebased, CompactOf, NoBranchMatches, MessagesOf
  <2>4. Heard(q) = ContextOf(sent[q], responses)
    BY DEF Heard, ContextOf
  <2> QED BY <2>1, <2>2, <2>3, <2>4 DEF SentSound
<1> QED
  BY <1>1, SelectionAlways, PTL

(* What a slot that was prepared holds.                                       *)
LEMMA PreparedHas ==
  ASSUME SelectionInv, NEW q \in Slot, Prepared(q)
  PROVE  /\ plan[q] \in Plan /\ request[q] \in Request
         /\ HeadSound(plan[q].branch, responses)
         /\ PlanSound(plan[q], request[q], snapshot[q])
         /\ plan[q].active \in Seq(Message) /\ AllDurable(plan[q].active)
         /\ plan[q].operational \in Seq(Note) /\ AllSystem(plan[q].operational)
         /\ plan[q].start \in Nat
<1>1. SlotSound(request[q], snapshot[q], plan[q], sent[q], branches, responses)
  BY DEF SelectionInv
<1>2. plan[q] # None /\ request[q] # None
  BY <1>1 DEF Prepared, SlotSound
<1>3. plan[q] \in Plan /\ request[q] \in Request
  BY <1>2 DEF SelectionInv, TypeOK
<1>4. HeadSound(plan[q].branch, responses) /\ PlanSound(plan[q], request[q], snapshot[q])
  BY <1>1, <1>2 DEF SlotSound
<1>5. request[q].messages \in Seq(Message)
  BY <1>3 DEF Request
<1>6. /\ plan[q].active = Durable(request[q].messages)
      /\ plan[q].operational = Operational(request[q].messages)
  BY <1>4 DEF PlanSound
<1>7. plan[q].start \in Nat
  BY <1>3 DEF Plan
<1> QED
  BY <1>3, <1>4, <1>5, <1>6, <1>7, DurableKeeps, OperationalKeeps

(* The contract on full requests refuses nothing: a delta that starts where   *)
(* the transcript ends has a checkpoint of its own                            *)
(* (validate_previous_response_contract).                                     *)
THEOREM RequestsPassTheContract == Spec => []ContractHolds
<1>1. SelectionInv => ContractHolds
  <2>1. SUFFICES ASSUME SelectionInv, NEW q \in Slot, Prepared(q), ~plan[q].branch.apart,
                        ~Rebaselined(q),
                        NEW chain \in ChainDecisions(CheckpointFor(plan[q], request[q].model))
                 PROVE  FullReason(plan[q], request[q].model, chain) \in Approved \cup {None}
    BY DEF ContractHolds
  <2> DEFINE p     == plan[q]
             model == request[q].model
             c     == CheckpointFor(p, model)
  <2>2. /\ p \in Plan /\ HeadSound(p.branch, responses) /\ PlanSound(p, request[q], snapshot[q])
        /\ p.active \in Seq(Message) /\ AllDurable(p.active)
        /\ p.operational \in Seq(Note) /\ AllSystem(p.operational) /\ p.start \in Nat
    BY <2>1, PreparedHas
  <2>3. ~Rebased(request[q], snapshot[q])
    BY <2>1 DEF Rebaselined, Rebased, CompactOf, NoBranchMatches, MessagesOf
  <2>4. ~p.branch.apart
    BY <2>1
  <2>5. chain = "matching" \/ chain \in {"missing_chain", "mismatching_chain"}
    <3> HIDE DEF c
    <3> QED BY <2>1 DEF ChainDecisions
  <2> HIDE DEF p, model
  <2>6. ASSUME c # None, c.model = model, p.main, ~p.branch.pending, ~FromTurn(p, model),
               p.active # <<>>, Delta(p) = <<>>
        PROVE  FALSE
    <3>1. p.start > 0
      <4>1. Len(p.active) <= p.start
        BY <2>2, <2>6, DeltaCompletes DEF Delta
      <4>2. Len(p.active) \in Nat /\ Len(p.active) # 0
        BY <2>2, <2>6, EmptySeq, LenProperties
      <4> QED BY <2>2, <4>1, <4>2
    <3>2. Canonical(Prefix(p.active, p.start)) = Canonical(p.branch.active)
      BY <2>2, <2>3, <2>6, <3>1 DEF PlanSound
    <3> QED BY <2>2, <2>4, <2>6, <3>1, <3>2, CheckpointSound
  <2>7. FullReason(p, model, chain) \in Approved \cup {None}
    BY <2>5, <2>6 DEF FullReason, Approved
  <2> QED BY <2>7 DEF p, model
<1> QED
  BY <1>1, SelectionAlways, PTL

(* Markers do not depend on what follows.                                     *)
LEMMA CanonicalPrefix ==
  ASSUME NEW m \in Seq(Message), NEW n \in Nat, n <= Len(m)
  PROVE  Canonical(Prefix(m, n)) = Prefix(Canonical(m), n)
<1>1. Len(m) \in Nat /\ \A i \in 1 .. Len(m) : m[i] \in Message
  BY LenProperties
<1> DEFINE a == SubSeq(m, 1, n)
           C == Canonical(m)
           d == SubSeq(C, 1, n)
           e == Canonical(a)
<1>2. C \in Seq(Message) /\ Len(C) = Len(m)
      /\ \A i \in 1 .. Len(m) : C[i] = [m[i] EXCEPT !.cached = FALSE]
  BY CanonicalType
<1> HIDE DEF C
<1>3. \A i \in 1 .. Len(C) : C[i] \in Message
  BY <1>2, LenProperties
<1>4. /\ a \in Seq(Message) /\ Len(a) = n /\ \A i \in 1 .. n : a[i] = m[i]
  <2>1. 1 \in Int /\ n \in Int /\ \A i \in 1 .. n : m[i] \in Message
    BY <1>1
  <2> QED BY <2>1, SubSeqProperties
<1>5. /\ d \in Seq(Message) /\ Len(d) = n /\ \A i \in 1 .. n : d[i] = C[i]
  <2>1. 1 \in Int /\ n \in Int /\ \A i \in 1 .. n : C[i] \in Message
    BY <1>1, <1>2, <1>3
  <2> QED BY <2>1, SubSeqProperties
<1> HIDE DEF a, d
<1>6. /\ e \in Seq(Message) /\ Len(e) = n
      /\ \A i \in 1 .. n : e[i] = [a[i] EXCEPT !.cached = FALSE]
  BY <1>4, CanonicalType
<1> HIDE DEF e
<1>7. \A i \in 1 .. n : e[i] = d[i]
  BY <1>1, <1>2, <1>4, <1>5, <1>6
<1>8. e = d
  BY <1>5, <1>6, <1>7, SeqEqual
<1>9. Prefix(m, n) = a /\ Prefix(C, n) = d
  BY <1>1, <1>2, PrefixType DEF a, d
<1> QED
  BY <1>8, <1>9 DEF C, e

(* The branch that a request extends, and no other as long, is the one that   *)
(* best_prefix_matched_branch finds.                                          *)
LEMMA ExtendedIsMatched ==
  ASSUME NEW bs \in Seq(Branch), NEW m \in Seq(Message), NEW i \in DOMAIN bs, NEW compact,
         Extends(Canonical(m), Canonical(bs[i].active)),
         \A j \in DOMAIN bs : j # i => Len(bs[j].active) < Len(bs[i].active)
  PROVE  /\ DurableMatch(bs, m, compact).branch = i
         /\ DurableMatch(bs, m, compact).start = Len(bs[i].active)
         /\ Len(bs[i].active) \in Nat \ {0}
         /\ Canonical(Prefix(m, Len(bs[i].active))) = Canonical(bs[i].active)
<1> DEFINE a == bs[i].active
           n == Len(a)
<1>1. Len(bs) \in Nat /\ DOMAIN bs = 1 .. Len(bs) /\ \A j \in DOMAIN bs : bs[j] \in Branch
  BY LenProperties
<1>2. a \in Seq(Message)
  BY <1>1 DEF Branch
<1>3. \A j \in DOMAIN bs : Len(bs[j].active) \in Nat
  BY <1>1, LenProperties DEF Branch
<1> HIDE DEF a
<1>4. /\ Len(m) \in Nat /\ n \in Nat
      /\ Canonical(a) \in Seq(Message) /\ Len(Canonical(a)) = n
      /\ Canonical(m) \in Seq(Message) /\ Len(Canonical(m)) = Len(m)
  BY <1>2, LenProperties, CanonicalType
<1>5. Canonical(a) # <<>> /\ Prefix(Canonical(m), n) = Canonical(a)
  BY <1>4 DEF Extends, a
<1>6. n # 0 /\ a # <<>>
  BY <1>2, <1>4, <1>5, EmptySeq
<1>7. n <= Len(m)
  <2>1. SUFFICES ASSUME ~ (n <= Len(m)) PROVE FALSE
    OBVIOUS
  <2> DEFINE C == Canonical(m)
  <2>2. Prefix(C, n) = SubSeq(C, 1, Len(m))
    BY <1>4, <2>1 DEF Prefix
  <2>3. Prefix(C, n) = Prefix(C, Len(m))
    BY <1>4, <2>2 DEF Prefix
  <2>4. C \in Seq(Message) /\ Len(m) \in Nat /\ Len(m) <= Len(C)
    BY <1>4
  <2> HIDE DEF C
  <2>5. Len(Prefix(C, Len(m))) = Len(m)
    BY <2>4, PrefixType
  <2> QED BY <1>4, <1>5, <2>1, <2>3, <2>5 DEF C
<1>8. Canonical(Prefix(m, n)) = Canonical(a)
  BY <1>4, <1>5, <1>7, CanonicalPrefix
<1>9. i \in PrefixMatches(bs, m)
  <2>1. StoredIsPrefix(a, m)
    BY <1>6, <1>7, <1>8 DEF StoredIsPrefix
  <2> QED BY <2>1 DEF PrefixMatches, a
<1> DEFINE best == BestPrefix(bs, m)
<1>10. best \in PrefixMatches(bs, m) /\ Len(bs[i].active) <= Len(bs[best].active)
  BY <1>9, BestPrefixIn
<1>11. best = i
  <2>1. best \in DOMAIN bs
    BY <1>10 DEF PrefixMatches
  <2> HIDE DEF best
  <2>2. best # i => Len(bs[best].active) < Len(bs[i].active)
    BY <2>1
  <2> QED BY <1>3, <1>10, <2>1, <2>2
<1> DEFINE match == DurableMatch(bs, m, compact)
<1>12. match.branch = best /\ match.start = Len(bs[match.branch].active)
  <2>1. bs # <<>>
    BY <1>1, EmptySeq
  <2> QED BY <1>9, <2>1, DurableMatchIn
<1> QED
  BY <1>4, <1>6, <1>8, <1>11, <1>12 DEF a

(* Growing a conversation stays cheap: on the model and chain of the branch's *)
(* head, a request that extends what the branch holds is sent as a delta      *)
(* (stored_messages_are_prefix, find_turn_openai_checkpoint).                 *)
THEOREM GrowthIsCheap == Spec => []GrowthContinues
<1>1. SelectionInv => GrowthContinues
  <2>1. SUFFICES ASSUME SelectionInv, NEW q \in Slot, Prepared(q), plan[q].main,
                        CompactOf(q) # "command", Grows(q)
                 PROVE  FullReason(plan[q], request[q].model, "matching") = None
    BY DEF GrowthContinues
  <2> DEFINE p     == plan[q]
             model == request[q].model
             sn    == snapshot[q]
             kind  == CompactOf(q)
  <2>2. /\ p \in Plan /\ HeadSound(p.branch, responses) /\ PlanSound(p, request[q], sn)
        /\ p.active \in Seq(Message) /\ p.main
    BY <2>1, PreparedHas
  <2>3. sn \in Seq(Branch)
    BY <2>1 DEF SelectionInv, TypeOK
  <2>4. PICK i \in DOMAIN sn :
          /\ Extends(Canonical(p.active), Canonical(sn[i].active))
          /\ \A j \in DOMAIN sn : j # i => Len(sn[j].active) < Len(sn[i].active)
          /\ sn[i].head # None /\ ~sn[i].pending
          /\ sn[i].head.model = model
          /\ \E t \in sn[i].turns : /\ t.response = sn[i].head.response
                                    /\ t.prefix = Canonical(sn[i].active)
    BY <2>1 DEF Grows
  <2>5. sn # <<>>
    BY <2>3, <2>4, EmptySeq
  <2>6. p.branch = sn[DurableMatch(sn, p.active, kind).branch]
        /\ p.start = DurableMatch(sn, p.active, kind).start
    BY <2>1, <2>2, <2>5 DEF PlanSound, CompactOf
  <2> HIDE DEF p, model, sn, kind
  <2>7. /\ DurableMatch(sn, p.active, kind).branch = i
        /\ DurableMatch(sn, p.active, kind).start = Len(sn[i].active)
        /\ Len(sn[i].active) \in Nat \ {0}
        /\ Canonical(Prefix(p.active, Len(sn[i].active))) = Canonical(sn[i].active)
    <3> DEFINE m == p.active
    <3>1. m \in Seq(Message) /\ Extends(Canonical(m), Canonical(sn[i].active))
          /\ \A j \in DOMAIN sn : j # i => Len(sn[j].active) < Len(sn[i].active)
      BY <2>2, <2>4
    <3> HIDE DEF m
    <3>2. /\ DurableMatch(sn, m, kind).branch = i
          /\ DurableMatch(sn, m, kind).start = Len(sn[i].active)
          /\ Len(sn[i].active) \in Nat \ {0}
          /\ Canonical(Prefix(m, Len(sn[i].active))) = Canonical(sn[i].active)
      BY <2>3, <3>1, ExtendedIsMatched
    <3> QED BY <3>2 DEF m
  <2>8. /\ p.branch = sn[i] /\ p.start \in Nat /\ p.start > 0
        /\ Canonical(Prefix(p.active, p.start)) = Canonical(p.branch.active)
    BY <2>6, <2>7
  <2>9. /\ p.branch.head # None /\ ~p.branch.pending /\ p.branch.head.model = model
        /\ \E t \in p.branch.turns : /\ t.response = p.branch.head.response
                                     /\ t.prefix = Canonical(p.branch.active)
    BY <2>4, <2>8
  <2>10. FromTurn(p, model)
    <3>1. PICK t \in p.branch.turns : /\ t.response = p.branch.head.response
                                      /\ t.prefix = Canonical(p.branch.active)
      BY <2>9
    <3>2. t.model = model
      BY <2>2, <2>9, <3>1 DEF HeadSound
    <3>3. t \in TurnCheckpoints(p, model)
      BY <2>8, <3>1, <3>2 DEF TurnCheckpoints
    <3> QED BY <2>2, <2>8, <3>3 DEF FromTurn
  <2>11. CheckpointFor(p, model) # None /\ CheckpointFor(p, model).model = model
    <3> DEFINE T == TurnCheckpoints(p, model)
               t == CHOOSE x \in T : TRUE
    <3>1. CheckpointFor(p, model) = [response |-> t.response, model |-> t.model]
      BY <2>10 DEF CheckpointFor
    <3>2. t \in T
      BY <2>10 DEF FromTurn
    <3>3. t \in p.branch.turns /\ t.model = model
      BY <3>2 DEF TurnCheckpoints
    <3>4. t \in Turn
      <4>1. p.branch \in Branch
        BY <2>2 DEF Plan
      <4> HIDE DEF t
      <4> QED BY <3>3, <4>1 DEF Branch
    <3> HIDE DEF t, T
    <3>5. CheckpointFor(p, model) \in Checkpoint
      BY <3>1, <3>4 DEF Turn, Checkpoint
    <3>6. None \notin Checkpoint
      BY SelectionNoneAssumption
    <3> QED BY <3>1, <3>3, <3>5, <3>6
  <2>12. FullReason(p, model, "matching") = None
    BY <2>2, <2>8, <2>9, <2>10, <2>11 DEF FullReason
  <2> QED BY <2>12 DEF p, model
<1> QED
  BY <1>1, SelectionAlways, PTL

(***************************************************************************)
(* Tabs.                                                                   *)
(***************************************************************************)

(* The requests that found no branch: each may still add one.                 *)
Waiting == {q \in Slot : Arrived(q) /\ snapshot[q] = <<>>}
TabsInv == Len(branches) + Cardinality(Waiting) <= Cardinality(Slot)

LEMMA WaitingCount ==
  /\ IsFiniteSet(Waiting) /\ Cardinality(Waiting) \in Nat /\ Cardinality(Slot) \in Nat
  /\ Cardinality(Waiting) <= Cardinality(Slot)
<1>1. Waiting \in SUBSET Slot
  BY DEF Waiting
<1>2. IsFiniteSet(Waiting) /\ Cardinality(Waiting) <= Cardinality(Slot)
  BY <1>1, SlotAssumption, FS_Subset
<1> QED
  BY <1>2, SlotAssumption, FS_CardinalityType

(* A step that adds no branch and leaves no request waiting that was not.     *)
LEMMA TabsSame ==
  ASSUME TabsInv, branches \in Seq(Branch), branches' \in Seq(Branch),
         DOMAIN branches' = DOMAIN branches, Waiting' \subseteq Waiting
  PROVE  TabsInv'
<1>1. Len(branches) \in Nat /\ Len(branches') = Len(branches)
  <2>1. /\ Len(branches) \in Nat /\ DOMAIN branches = 1 .. Len(branches)
        /\ Len(branches') \in Nat /\ DOMAIN branches' = 1 .. Len(branches')
    BY LenProperties
  <2> QED BY <2>1
<1>2. IsFiniteSet(Waiting) /\ Cardinality(Waiting) \in Nat /\ Cardinality(Slot) \in Nat
  BY WaitingCount
<1> DEFINE W == Waiting
           X == Waiting'
<1>3. X \in SUBSET W /\ IsFiniteSet(W)
  BY <1>2
<1> HIDE DEF W, X
<1>4. Cardinality(X) <= Cardinality(W) /\ IsFiniteSet(X)
  BY <1>3, FS_Subset
<1>5. Cardinality(X) \in Nat
  BY <1>4, FS_CardinalityType
<1> QED
  BY <1>1, <1>2, <1>4, <1>5 DEF TabsInv, W, X

LEMMA TabsStep ==
  ASSUME TabsInv, SelectionInv, SelectionInv', Next
  PROVE  TabsInv'
<1>1. /\ branches \in Seq(Branch) /\ branches' \in Seq(Branch)
      /\ request \in [Slot -> Request \cup {None}] /\ snapshot \in [Slot -> Seq(Branch)]
      /\ plan \in [Slot -> Plan \cup {None}]
      /\ Len(branches) \in Nat /\ DOMAIN branches = 1 .. Len(branches)
      /\ Len(branches') \in Nat /\ DOMAIN branches' = 1 .. Len(branches')
  BY LenProperties DEF SelectionInv, TypeOK
<1>2. ASSUME NEW q \in Slot, Reject(q), DOMAIN branches' = DOMAIN branches PROVE TabsInv'
  <2>1. Waiting' \subseteq Waiting
    BY <1>1, <1>2 DEF Reject, Waiting, Arrived
  <2> QED BY <1>1, <1>2, <2>1, TabsSame
<1>3. ASSUME NEW q \in Slot, NEW messages, NEW e, NEW model, Sends(q, messages, e, model)
      PROVE  TabsInv'
  <2>1. branches' = branches /\ snapshot' = [snapshot EXCEPT ![q] = branches] /\ plan' = plan
        /\ request' = [request EXCEPT ![q] =
                         [messages |-> Marked(messages), envelope |-> e, model |-> model]]
    BY <1>3 DEF Sends
  <2>2. CASE branches = <<>>
    <3>1. Len(branches') = 0
      BY <2>1, <2>2, EmptySeq
    <3> DEFINE X == Waiting'
    <3>2. X \in SUBSET Slot
      BY DEF Waiting
    <3> HIDE DEF X
    <3>3. Cardinality(X) <= Cardinality(Slot) /\ IsFiniteSet(X)
      BY <3>2, SlotAssumption, FS_Subset
    <3>4. Cardinality(X) \in Nat
      BY <3>3, FS_CardinalityType
    <3> QED BY <3>1, <3>3, <3>4 DEF TabsInv, X
  <2>3. CASE branches # <<>>
    <3>1. Waiting' \subseteq Waiting
      BY <1>1, <2>1, <2>3 DEF Waiting, Arrived
    <3> QED BY <1>1, <2>1, <3>1, TabsSame
  <2> QED BY <2>2, <2>3
<1>4. ASSUME NEW q \in Slot, PrepareMatched(q) \/ PrepareTransient(q) PROVE TabsInv'
  <2>1. DOMAIN branches' = DOMAIN branches
    BY <1>4 DEF PrepareMatched, PrepareTransient
  <2>2. PICK P : plan' = [plan EXCEPT ![q] = P] /\ request' = request /\ snapshot' = snapshot
    BY <1>4 DEF PrepareMatched, PrepareTransient, Planned, clientVars
  <2>3. plan'[q] # None
    BY <1>4, MatchedInv, TransientInv
  <2>4. Waiting' \subseteq Waiting
    BY <1>1, <2>2, <2>3 DEF Waiting, Arrived
  <2> QED BY <1>1, <2>1, <2>4, TabsSame
<1>5. ASSUME NEW q \in Slot, PrepareInitial(q) PROVE TabsInv'
  <2>1. plan'[q] # None /\ Len(branches') <= Len(branches) + 1
    BY <1>5, InitialInv
  <2>2. PICK P : plan' = [plan EXCEPT ![q] = P] /\ request' = request /\ snapshot' = snapshot
    BY <1>5 DEF PrepareInitial, Planned, clientVars
  <2> DEFINE W == Waiting
             X == Waiting'
  <2>3. q \in W /\ X \in SUBSET (W \ {q})
    BY <1>1, <1>5, <2>1, <2>2 DEF PrepareInitial, NoBranch, Waiting, Arrived
  <2>4. IsFiniteSet(W) /\ Cardinality(W) \in Nat /\ Cardinality(Slot) \in Nat
    BY WaitingCount
  <2> HIDE DEF W, X
  <2>5. IsFiniteSet(W \ {q}) /\ Cardinality(W \ {q}) = Cardinality(W) - 1
    BY <2>3, <2>4, FS_RemoveElement
  <2>6. IsFiniteSet(X) /\ Cardinality(X) <= Cardinality(W) - 1
    BY <2>3, <2>5, FS_Subset
  <2>7. Cardinality(X) \in Nat
    BY <2>6, FS_CardinalityType
  <2> QED BY <1>1, <2>1, <2>4, <2>6, <2>7 DEF TabsInv, W, X
<1>6. ASSUME NEW q \in Slot, SendToBackend(q) PROVE TabsInv'
  BY <1>1, <1>6, TabsSame DEF SendToBackend, Waiting, Arrived, clientVars
<1>7. ASSUME NEW q \in Slot, ConversationArrives(q) \/ OffshootArrives(q) PROVE TabsInv'
  BY <1>3, <1>7 DEF ConversationArrives, OffshootArrives
<1>8. ASSUME NEW q \in Slot,
             \/ RejectMissing(q) \/ RefuseTransport(q) \/ TurnFails(q)
             \/ CommitTurn(q) \/ CommitOffshoot(q)
      PROVE  TabsInv'
  <2>1. Reject(q) /\ DOMAIN branches' = DOMAIN branches
    BY <1>8 DEF RejectMissing, RefuseTransport, TurnFails, CommitTurn, CommitOffshoot
  <2> QED BY <1>2, <2>1
<1>9. CASE ChainLost
  BY <1>1, <1>9, TabsSame DEF ChainLost, Waiting, Arrived, clientVars
<1>10. CASE Quiet
  BY <1>1, <1>10, TabsSame
     DEF Quiet, Waiting, Arrived, vars, clientVars
<1> QED
  BY <1>4, <1>5, <1>6, <1>7, <1>8, <1>9, <1>10 DEF Next

(* Tabs do not explode: a session has no more branches than requests were     *)
(* ever in flight at once (prepare_visible_main_branch).                      *)
THEOREM TabsStayFew == Spec => []FewTabs
<1>1. Init => TabsInv
  <2>1. SUFFICES ASSUME Init PROVE TabsInv
    OBVIOUS
  <2>2. Len(branches) = 0
    BY <2>1, EmptySeq DEF Init
  <2> QED BY <2>2, WaitingCount DEF TabsInv
<1>2. SelectionInv /\ SelectionInv' /\ TabsInv /\ [Next]_vars => TabsInv'
  <2>1. SUFFICES ASSUME SelectionInv, SelectionInv', TabsInv, [Next]_vars PROVE TabsInv'
    OBVIOUS
  <2>2. CASE Next
    BY <2>1, <2>2, TabsStep
  <2>3. CASE UNCHANGED vars
    <3>1. branches' = branches /\ Waiting' = Waiting
      BY <2>3 DEF vars, clientVars, Waiting, Arrived
    <3> QED BY <2>1, <3>1 DEF TabsInv
  <2> QED BY <2>1, <2>2, <2>3
<1>3. SelectionInv /\ TabsInv => FewTabs
  <2>1. SUFFICES ASSUME SelectionInv, TabsInv PROVE FewTabs
    OBVIOUS
  <2>2. Len(branches) \in Nat
    BY <2>1, LenProperties DEF SelectionInv, TypeOK
  <2> QED BY <2>1, <2>2, WaitingCount DEF TabsInv, FewTabs
<1> QED
  BY <1>1, <1>2, <1>3, SelectionAlways, PTL DEF Spec

================================================================================
