----------------------- MODULE RequestTranslationProofs -----------------------
(***************************************************************************)
(* Whatever is edited, cut and marked, a request answers every call, only   *)
(* old blocks are cleared and stay so, and at most one command is not       *)
(* marked as an earlier one.  Editing keeps what each block is (SameShape), *)
(* cutting and marking keep the calls and results in order (SameCalls), so  *)
(* of a transcript whose every call is answered (IsTranscript) the request  *)
(* is one too; Inv says that the request is at each stage what the steps so *)
(* far make of the client's transcript, and Shown that what was cleared in  *)
(* the last request is what the edits clear of a beginning of it.           *)
(***************************************************************************)
EXTENDS RequestTranslation, FiniteSetTheorems, SequenceTheorems, WellFoundedInduction, TLAPS

--------------------------------------------------------------------------------
(* Sequences of sequences. *)

(* A set of natural numbers that is not empty has a least element.            *)
LEMMA LeastNat ==
  ASSUME NEW T \in SUBSET Nat, T # {}
  PROVE  \E n \in T : \A m \in T : n <= m
<1> DEFINE R == {ss \in Nat \X Nat : ss[1] < ss[2]}
<1>1. IsWellFoundedOn(R, Nat)
  BY NatLessThanWellFounded DEF OpToRel
<1>2. PICK x \in T : \A y \in T : ~ (<<y, x>> \in R)
  BY <1>1, WFMin
<1>3. \A y \in T : ~ (y < x)
  <2>1. TAKE y \in T
  <2>2. x \in Nat /\ y \in Nat
    OBVIOUS
  <2>3. ASSUME y < x PROVE FALSE
    BY <2>2, <2>3, <1>2
  <2> QED BY <2>3
<1> QED
  BY <1>3

(* Induction over 0 .. N, with a set for the predicate.                       *)
LEMMA UpTo ==
  ASSUME NEW N \in Nat, NEW T, 0 \in T, \A n \in 1 .. N : n - 1 \in T => n \in T
  PROVE  \A n \in 0 .. N : n \in T
<1> DEFINE Bad == {n \in 0 .. N : n \notin T}
<1>1. SUFFICES ASSUME Bad # {} PROVE FALSE
  OBVIOUS
<1>2. Bad \in SUBSET Nat
  OBVIOUS
<1>3. PICK n \in Bad : \A m \in Bad : n <= m
  <2> HIDE DEF Bad
  <2> QED BY <1>1, <1>2, LeastNat
<1>4. n \in 1 .. N
  BY <1>3
<1>5. n - 1 \notin Bad /\ n - 1 \in 0 .. N
  BY <1>3, <1>4
<1> QED
  BY <1>3, <1>4, <1>5

(* The sequences joined so far, after each of them.                           *)
Joining(ss, n, g) == g[0] = <<>> /\ \A i \in 1 .. n : g[i] = g[i - 1] \o ss[i]

(* The recursion in Joined defines a function.                                *)
LEMMA JoinedSteps ==
  ASSUME NEW S, NEW ss \in Seq(Seq(S))
  PROVE  \E g \in [0 .. Len(ss) -> Seq(S)] : Joining(ss, Len(ss), g) /\ Joined(ss) = g[Len(ss)]
<1> DEFINE N    == Len(ss)
           T    == {n \in 0 .. N : \E g \in [0 .. n -> Seq(S)] : Joining(ss, n, g)}
           F(g) == [n \in 0 .. Len(ss) |-> IF n = 0 THEN <<>> ELSE g[n - 1] \o ss[n]]
<1>1. N \in Nat /\ ss \in [1 .. N -> Seq(S)]
  BY LenProperties
<1>2. 0 \in T
  <2>1. [n \in 0 .. 0 |-> <<>>] \in [0 .. 0 -> Seq(S)]
    BY EmptySeq
  <2> DEFINE e == [n \in 0 .. 0 |-> <<>>]
  <2>2. Joining(ss, 0, e)
    <3>1. e[0] = <<>> /\ \A i \in 1 .. 0 : FALSE
      OBVIOUS
    <3> HIDE DEF e
    <3> QED BY <3>1 DEF Joining
  <2>3. \E g \in [0 .. 0 -> Seq(S)] : Joining(ss, 0, g)
    <3> HIDE DEF e
    <3> QED BY <2>1, <2>2 DEF e
  <2> QED BY <1>1, <2>3
<1>3. ASSUME NEW n \in 1 .. N, n - 1 \in T PROVE n \in T
  <2>1. PICK g \in [0 .. n - 1 -> Seq(S)] : Joining(ss, n - 1, g)
    BY <1>3
  <2> DEFINE x == g[n - 1] \o ss[n]
             h == [i \in 0 .. n |-> IF i = n THEN x ELSE g[i]]
  <2>2. g[n - 1] \in Seq(S) /\ ss[n] \in Seq(S)
    BY <1>1, <1>3, <2>1
  <2>3. x \in Seq(S)
    BY <2>2, ConcatProperties
  <2>4. h \in [0 .. n -> Seq(S)]
    <3> HIDE DEF x
    <3> QED BY <1>1, <1>3, <2>1, <2>3
  <2>5. h[0] = <<>>
    BY <1>1, <1>3, <2>1 DEF Joining
  <2>6. ASSUME NEW i \in 1 .. n PROVE h[i] = h[i - 1] \o ss[i]
    <3>1. CASE i = n
      <4>1. n \in 0 .. n /\ n - 1 \in 0 .. n /\ n - 1 # n
        BY <1>1, <1>3
      <4> HIDE DEF x
      <4>2. h[n] = x /\ h[n - 1] = g[n - 1]
        BY <4>1
      <4> HIDE DEF h
      <4> QED BY <3>1, <4>2 DEF x
    <3>2. CASE i # n
      <4>1. i \in 1 .. n - 1 /\ i \in 0 .. n /\ i - 1 \in 0 .. n /\ i - 1 # n
        BY <3>2, <2>6, <1>1, <1>3
      <4>2. h[i] = g[i] /\ h[i - 1] = g[i - 1]
        BY <4>1, <3>2
      <4>3. g[i] = g[i - 1] \o ss[i]
        BY <4>1, <2>1 DEF Joining
      <4> HIDE DEF h
      <4> QED BY <4>2, <4>3
    <3> QED BY <3>1, <3>2
  <2>7. Joining(ss, n, h)
    <3> HIDE DEF h
    <3> QED BY <2>5, <2>6 DEF Joining
  <2> HIDE DEF h
  <2> QED BY <1>1, <1>3, <2>4, <2>7
<1>4. N \in T
  <2>1. \A n \in 0 .. N : n \in T
    <3> HIDE DEF N, T
    <3> QED BY <1>1, <1>2, <1>3, UpTo
  <2> QED BY <1>1, <2>1
<1>5. PICK g \in [0 .. N -> Seq(S)] : Joining(ss, N, g)
  BY <1>4
<1>6. g = F(g)
  <2>1. ASSUME NEW n \in 0 .. N PROVE g[n] = IF n = 0 THEN <<>> ELSE g[n - 1] \o ss[n]
    <3>1. CASE n = 0
      BY <3>1, <1>5 DEF Joining
    <3>2. CASE n # 0
      <4>1. n \in 1 .. N
        BY <1>1, <3>2
      <4> QED BY <4>1, <3>2, <1>5 DEF Joining
    <3> QED BY <3>1, <3>2
  <2> QED BY <1>5, <2>1
<1> DEFINE f == CHOOSE f : f = F(f)
<1>7. f = F(f)
  BY <1>6
<1>8. Joined(ss) = f[N]
  BY DEF Joined
<1>9. ASSUME NEW n \in 0 .. N PROVE f[n] = IF n = 0 THEN <<>> ELSE f[n - 1] \o ss[n]
  <2> HIDE DEF f
  <2> QED BY <1>7
<1>10. Joining(ss, N, f)
  <2> HIDE DEF f
  <2>1. f[0] = <<>>
    BY <1>1, <1>9
  <2>2. ASSUME NEW n \in 1 .. N PROVE f[n] = f[n - 1] \o ss[n]
    <3>1. n \in 0 .. N /\ n # 0
      BY <1>1
    <3> QED BY <3>1, <1>9
  <2> QED BY <2>1, <2>2 DEF Joining
<1>11. \A n \in 0 .. N : f[n] \in Seq(S)
  <2> DEFINE Typed_ == {n \in 0 .. N : f[n] \in Seq(S)}
  <2> HIDE DEF f
  <2>1. 0 \in Typed_
    <3>1. f[0] = <<>> /\ <<>> \in Seq(S)
      BY <1>10, EmptySeq DEF Joining
    <3>2. 0 \in 0 .. N /\ f[0] \in Seq(S)
      BY <1>1, <3>1
    <3> HIDE DEF N
    <3> QED BY <3>2
  <2>2. ASSUME NEW n \in 1 .. N, n - 1 \in Typed_ PROVE n \in Typed_
    <3>1. f[n - 1] \in Seq(S) /\ ss[n] \in Seq(S) /\ n \in 0 .. N
      BY <1>1, <2>2
    <3>2. f[n] = f[n - 1] \o ss[n]
      BY <1>10 DEF Joining
    <3> QED BY <3>1, <3>2, ConcatProperties
  <2> HIDE DEF Typed_
  <2>3. \A n \in 0 .. N : n \in Typed_
    BY <1>1, <2>1, <2>2, UpTo
  <2> QED BY <2>3 DEF Typed_
<1>12. f \in [0 .. N -> Seq(S)]
  <2>1. f = [n \in 0 .. N |-> f[n]]
    <3> HIDE DEF f
    <3> QED BY <1>7
  <2> HIDE DEF f
  <2> QED BY <2>1, <1>11
<1> QED
  <2> HIDE DEF f
  <2> QED BY <1>8, <1>10, <1>12

(* Two sequences one after the other.                                         *)
LEMMA ConcatAt ==
  ASSUME NEW S, NEW s \in Seq(S), NEW t \in Seq(S)
  PROVE  /\ s \o t \in Seq(S)
         /\ Len(s) \in Nat /\ Len(t) \in Nat
         /\ Len(s \o t) = Len(s) + Len(t)
         /\ \A i \in 1 .. Len(s) : (s \o t)[i] = s[i]
         /\ \A j \in 1 .. Len(t) : (s \o t)[Len(s) + j] = t[j]
<1>1. Len(s) \in Nat /\ Len(t) \in Nat /\ s \o t \in Seq(S) /\ Len(s \o t) = Len(s) + Len(t)
  BY ConcatProperties, LenProperties
<1>2. \A i \in 1 .. Len(s) + Len(t) : (s \o t)[i] = IF i <= Len(s) THEN s[i] ELSE t[i - Len(s)]
  BY ConcatProperties
<1>3. ASSUME NEW i \in 1 .. Len(s) PROVE (s \o t)[i] = s[i]
  <2>1. i \in 1 .. Len(s) + Len(t) /\ i <= Len(s)
    BY <1>1
  <2> QED BY <2>1, <1>2
<1>4. ASSUME NEW j \in 1 .. Len(t) PROVE (s \o t)[Len(s) + j] = t[j]
  <2>1. Len(s) + j \in 1 .. Len(s) + Len(t) /\ ~(Len(s) + j <= Len(s)) /\ (Len(s) + j) - Len(s) = j
    BY <1>1
  <2> QED BY <2>1, <1>2
<1> QED
  BY <1>1, <1>3, <1>4

(* Where the elements of the sequences ss stand in js: at[k][j] is the place  *)
(* of ss[k][j].                                                               *)
Placed(ss, js, at) ==
  /\ \A k \in 1 .. Len(ss) : \A j \in 1 .. Len(ss[k]) :
        at[k][j] \in 1 .. Len(js) /\ js[at[k][j]] = ss[k][j]
  /\ \A i \in 1 .. Len(js) :
        \E k \in 1 .. Len(ss) : \E j \in 1 .. Len(ss[k]) : i = at[k][j]
  /\ \A k \in 1 .. Len(ss), l \in 1 .. Len(ss) :
        \A j \in 1 .. Len(ss[k]), m \in 1 .. Len(ss[l]) :
          k < l \/ (k = l /\ j < m) => at[k][j] < at[l][m]

(* Joining keeps every element once, in the order of the sequences.           *)
LEMMA JoinedPlaces ==
  ASSUME NEW S, NEW ss \in Seq(Seq(S))
  PROVE  Joined(ss) \in Seq(S) /\ \E at : Placed(ss, Joined(ss), at)
<1> DEFINE N == Len(ss)
<1>1. PICK g \in [0 .. N -> Seq(S)] : Joining(ss, N, g) /\ Joined(ss) = g[N]
  BY JoinedSteps
<1>2. N \in Nat /\ \A k \in 1 .. N : ss[k] \in Seq(S) /\ Len(ss[k]) \in Nat
  BY LenProperties
<1> DEFINE off == [k \in 0 .. N |-> Len(g[k])]
<1>3. ASSUME NEW k \in 0 .. N PROVE off[k] = Len(g[k]) /\ off[k] \in Nat /\ g[k] \in Seq(S)
  BY <1>1, LenProperties
<1>4. ASSUME NEW k \in 1 .. N
      PROVE  /\ k - 1 \in 0 .. N /\ k \in 0 .. N
             /\ off[k] = off[k - 1] + Len(ss[k])
             /\ \A i \in 1 .. off[k - 1] : g[k][i] = g[k - 1][i]
             /\ \A j \in 1 .. Len(ss[k]) : g[k][off[k - 1] + j] = ss[k][j]
  <2>1. k - 1 \in 0 .. N /\ k \in 0 .. N
    BY <1>2
  <2>2. g[k] = g[k - 1] \o ss[k]
    BY <1>1 DEF Joining
  <2>3. g[k - 1] \in Seq(S) /\ ss[k] \in Seq(S) /\ off[k - 1] = Len(g[k - 1]) /\ off[k] = Len(g[k])
        /\ Len(g[k - 1]) \in Nat /\ Len(ss[k]) \in Nat
    BY <2>1, <1>2, <1>3
  <2> HIDE DEF off
  <2>4. /\ Len(g[k]) = Len(g[k - 1]) + Len(ss[k])
        /\ \A i \in 1 .. Len(g[k - 1]) : g[k][i] = g[k - 1][i]
        /\ \A j \in 1 .. Len(ss[k]) : g[k][Len(g[k - 1]) + j] = ss[k][j]
    <3> DEFINE a == g[k - 1]
               b == ss[k]
    <3>1. a \in Seq(S) /\ b \in Seq(S)
      BY <2>3
    <3> HIDE DEF a, b
    <3>2. /\ Len(a \o b) = Len(a) + Len(b)
          /\ \A i \in 1 .. Len(a) : (a \o b)[i] = a[i]
          /\ \A j \in 1 .. Len(b) : (a \o b)[Len(a) + j] = b[j]
      BY <3>1, ConcatAt
    <3> QED BY <3>2, <2>2 DEF a, b
  <2> QED BY <2>1, <2>3, <2>4
<1>5. off[0] = 0
  BY <1>1, <1>2, EmptySeq DEF Joining
<1> HIDE DEF off
<1> DEFINE Placing(n) ==
             /\ \A k \in 1 .. n : \A j \in 1 .. Len(ss[k]) :
                  off[k - 1] + j \in 1 .. off[n] /\ g[n][off[k - 1] + j] = ss[k][j]
             /\ \A i \in 1 .. off[n] : \E k \in 1 .. n : \E j \in 1 .. Len(ss[k]) : i = off[k - 1] + j
           T == {n \in 0 .. N : Placing(n)}
<1>6. 0 \in T
  <2>1. Placing(0)
    BY <1>5
  <2> QED BY <2>1, <1>2
<1>7. ASSUME NEW n \in 1 .. N, n - 1 \in T PROVE n \in T
  <2>1. Placing(n - 1)
    BY <1>7
  <2>2. /\ off[n] \in Nat /\ off[n - 1] \in Nat /\ Len(ss[n]) \in Nat
        /\ off[n] = off[n - 1] + Len(ss[n])
        /\ \A i \in 1 .. off[n - 1] : g[n][i] = g[n - 1][i]
        /\ \A j \in 1 .. Len(ss[n]) : g[n][off[n - 1] + j] = ss[n][j]
    BY <1>2, <1>3, <1>4
  <2>3. ASSUME NEW k \in 1 .. n, NEW j \in 1 .. Len(ss[k])
        PROVE  off[k - 1] + j \in 1 .. off[n] /\ g[n][off[k - 1] + j] = ss[k][j]
    <3>1. CASE k = n
      BY <3>1, <2>2, <2>3
    <3>2. CASE k # n
      <4>1. k \in 1 .. n - 1
        BY <3>2, <1>2, <2>3
      <4>2. off[k - 1] + j \in 1 .. off[n - 1] /\ g[n - 1][off[k - 1] + j] = ss[k][j]
        BY <4>1, <2>1, <2>3
      <4>3. \A i \in 1 .. off[n - 1] : i \in 1 .. off[n]
        BY <2>2
      <4> QED BY <4>2, <4>3, <2>2
    <3> QED BY <3>1, <3>2
  <2>4. ASSUME NEW i \in 1 .. off[n]
        PROVE  \E k \in 1 .. n : \E j \in 1 .. Len(ss[k]) : i = off[k - 1] + j
    <3>1. CASE i \in 1 .. off[n - 1]
      <4>1. PICK k \in 1 .. n - 1 : \E j \in 1 .. Len(ss[k]) : i = off[k - 1] + j
        BY <3>1, <2>1
      <4>2. k \in 1 .. n
        BY <1>2
      <4> QED BY <4>1, <4>2
    <3>2. CASE i \notin 1 .. off[n - 1]
      <4>1. i - off[n - 1] \in 1 .. Len(ss[n]) /\ i = off[n - 1] + (i - off[n - 1])
        BY <3>2, <2>2, <2>4
      <4>2. n \in 1 .. n
        BY <1>2
      <4> QED BY <4>1, <4>2
    <3> QED BY <3>1, <3>2
  <2>5. Placing(n)
    BY <2>3, <2>4
  <2> HIDE DEF Placing
  <2> QED BY <2>5, <1>2
<1>8. Placing(N)
  <2>1. \A n \in 0 .. N : n \in T
    <3> HIDE DEF T, N
    <3> QED BY <1>2, <1>6, <1>7, UpTo
  <2> HIDE DEF Placing
  <2> QED BY <2>1, <1>2
<1>9. \A n \in 0 .. N : \A k \in 0 .. n : off[k] <= off[n]
  <2> DEFINE U == {n \in 0 .. N : \A k \in 0 .. n : off[k] <= off[n]}
  <2>1. 0 \in U
    BY <1>2, <1>5
  <2>2. ASSUME NEW n \in 1 .. N, n - 1 \in U PROVE n \in U
    <3>1. off[n] \in Nat /\ off[n - 1] \in Nat /\ off[n - 1] <= off[n] /\ n \in 0 .. N
      <4>1. n \in 0 .. N /\ n - 1 \in 0 .. N /\ off[n] = off[n - 1] + Len(ss[n]) /\ Len(ss[n]) \in Nat
        BY <1>2, <1>4
      <4>2. off[n] \in Nat /\ off[n - 1] \in Nat
        BY <4>1, <1>3
      <4> QED BY <4>1, <4>2
    <3>2. ASSUME NEW k \in 0 .. n PROVE off[k] <= off[n]
      <4>1. CASE k = n
        BY <4>1, <3>1
      <4>2. CASE k # n
        <5>1. k \in 0 .. n - 1 /\ k \in 0 .. N
          BY <4>2, <1>2
        <5>2. off[k] <= off[n - 1] /\ off[k] \in Nat
          BY <5>1, <2>2, <1>3
        <5> QED BY <5>2, <3>1
      <4> QED BY <4>1, <4>2
    <3> QED BY <3>1, <3>2
  <2> HIDE DEF U, N
  <2>3. \A n \in 0 .. N : n \in U
    BY <1>2, <2>1, <2>2, UpTo
  <2> QED BY <2>3 DEF U
<1> DEFINE js == Joined(ss)
           at == [k \in 1 .. N |-> [j \in 1 .. Len(ss[k]) |-> off[k - 1] + j]]
<1>10. js = g[N] /\ Len(js) = off[N] /\ js \in Seq(S)
  BY <1>1, <1>2, <1>3
<1>11. \A k \in 1 .. N : \A j \in 1 .. Len(ss[k]) : at[k][j] = off[k - 1] + j
  OBVIOUS
<1> HIDE DEF at, js, Placing
<1>12. \A k \in 1 .. N : \A j \in 1 .. Len(ss[k]) : at[k][j] \in 1 .. Len(js) /\ js[at[k][j]] = ss[k][j]
  BY <1>8, <1>10, <1>11 DEF Placing
<1>13. ASSUME NEW i \in 1 .. Len(js)
       PROVE  \E k \in 1 .. N : \E j \in 1 .. Len(ss[k]) : i = at[k][j]
  <2>1. PICK k \in 1 .. N : \E j \in 1 .. Len(ss[k]) : i = off[k - 1] + j
    BY <1>8, <1>10 DEF Placing
  <2>2. PICK j \in 1 .. Len(ss[k]) : i = off[k - 1] + j
    BY <2>1
  <2> QED BY <2>2, <1>11
<1>14. ASSUME NEW k \in 1 .. N, NEW l \in 1 .. N, NEW j \in 1 .. Len(ss[k]), NEW m \in 1 .. Len(ss[l]),
              k < l \/ (k = l /\ j < m)
       PROVE  at[k][j] < at[l][m]
  <2>1. at[k][j] = off[k - 1] + j /\ at[l][m] = off[l - 1] + m
    BY <1>11
  <2>2. /\ off[k - 1] \in Nat /\ off[l - 1] \in Nat /\ off[k] = off[k - 1] + Len(ss[k])
        /\ Len(ss[k]) \in Nat /\ j \in Nat /\ m \in Nat /\ j <= Len(ss[k]) /\ 1 <= m
    <3>1. /\ k - 1 \in 0 .. N /\ l - 1 \in 0 .. N /\ off[k] = off[k - 1] + Len(ss[k])
          /\ Len(ss[k]) \in Nat /\ j \in Nat /\ m \in Nat /\ j <= Len(ss[k]) /\ 1 <= m
      BY <1>2, <1>4
    <3> QED BY <3>1, <1>3
  <2>3. CASE k = l /\ j < m
    BY <2>1, <2>2, <2>3
  <2>4. CASE k < l
    <3>1. l - 1 \in 0 .. N /\ k \in 0 .. l - 1
      BY <2>4, <1>2
    <3>2. off[k] <= off[l - 1]
      BY <3>1, <1>9
    <3>3. \A a, b, c, d, e \in Nat : a + b <= c /\ d <= b /\ 1 <= e => a + d < c + e
      OBVIOUS
    <3> QED BY <3>2, <3>3, <2>1, <2>2
  <2> QED BY <2>3, <2>4, <1>14
<1>15. Placed(ss, js, at)
  BY <1>12, <1>13, <1>14 DEF Placed
<1> QED
  BY <1>10, <1>15 DEF js

(* Where the elements of s at the positions in I stand in t.                  *)
Picked(s, I, t, at) ==
  /\ \A i \in 1 .. Len(s) : i \in I => at[i] \in 1 .. Len(t) /\ t[at[i]] = s[i]
  /\ \A k \in 1 .. Len(t) : \E i \in 1 .. Len(s) : i \in I /\ k = at[i]
  /\ \A i, j \in 1 .. Len(s) : i \in I /\ j \in I /\ i < j => at[i] < at[j]

(* Kept keeps the elements at the positions in I, in their order.             *)
LEMMA KeptPlaces ==
  ASSUME NEW S, NEW s \in Seq(S), NEW I
  PROVE  Kept(s, I) \in Seq(S) /\ \E at : Picked(s, I, Kept(s, I), at)
<1> DEFINE ss == [i \in DOMAIN s |-> IF i \in I THEN <<s[i]>> ELSE <<>>]
           t  == Kept(s, I)
<1>1. Len(s) \in Nat /\ DOMAIN s = 1 .. Len(s) /\ \A i \in 1 .. Len(s) : s[i] \in S
  BY LenProperties
<1>2. \A i \in 1 .. Len(s) : ss[i] \in Seq(S) /\ (i \in I => Len(ss[i]) = 1 /\ ss[i][1] = s[i])
                             /\ (i \notin I => Len(ss[i]) = 0)
  BY <1>1
<1>3. ss \in Seq(Seq(S)) /\ Len(ss) = Len(s)
  <2>1. ss \in [1 .. Len(s) -> Seq(S)]
    BY <1>1, <1>2
  <2> HIDE DEF ss
  <2> QED BY <2>1, <1>1, SeqDef, LenProperties
<1>4. t = Joined(ss)
  BY DEF Kept
<1> HIDE DEF ss, t
<1>5. t \in Seq(S) /\ \E at : Placed(ss, t, at)
  BY <1>3, <1>4, JoinedPlaces
<1>6. PICK at : Placed(ss, t, at)
  BY <1>5
<1> DEFINE to == [i \in 1 .. Len(s) |-> at[i][1]]
<1>7. \A i \in 1 .. Len(s) : to[i] = at[i][1]
  OBVIOUS
<1> HIDE DEF to
<1>8. ASSUME NEW i \in 1 .. Len(s), i \in I
      PROVE  to[i] \in 1 .. Len(t) /\ t[to[i]] = s[i]
  <2>1. 1 \in 1 .. Len(ss[i]) /\ ss[i][1] = s[i] /\ i \in 1 .. Len(ss)
    BY <1>2, <1>3, <1>8
  <2>2. at[i][1] \in 1 .. Len(t) /\ t[at[i][1]] = ss[i][1]
    BY <2>1, <1>6 DEF Placed
  <2> QED BY <2>1, <2>2, <1>7
<1>9. ASSUME NEW k \in 1 .. Len(t)
      PROVE  \E i \in 1 .. Len(s) : i \in I /\ k = to[i]
  <2>1. PICK i \in 1 .. Len(ss) : \E j \in 1 .. Len(ss[i]) : k = at[i][j]
    BY <1>6 DEF Placed
  <2>2. PICK j \in 1 .. Len(ss[i]) : k = at[i][j]
    BY <2>1
  <2>3. i \in 1 .. Len(s) /\ i \in I /\ j = 1
    <3>1. i \in 1 .. Len(s)
      BY <1>3
    <3>2. CASE i \in I
      <4>1. Len(ss[i]) = 1
        BY <3>1, <3>2, <1>2
      <4> QED BY ONLY <3>1, <3>2, <4>1, j \in 1 .. Len(ss[i])
    <3>3. CASE i \notin I
      <4>1. Len(ss[i]) = 0
        BY <3>1, <3>3, <1>2
      <4> QED BY ONLY <4>1, j \in 1 .. Len(ss[i])
    <3> QED BY <3>2, <3>3
  <2> QED BY <2>2, <2>3, <1>7
<1>10. ASSUME NEW i \in 1 .. Len(s), NEW j \in 1 .. Len(s), i \in I, j \in I, i < j
       PROVE  to[i] < to[j]
  <2>1. 1 \in 1 .. Len(ss[i]) /\ 1 \in 1 .. Len(ss[j]) /\ i \in 1 .. Len(ss) /\ j \in 1 .. Len(ss)
    BY <1>2, <1>3, <1>10
  <2>2. at[i][1] < at[j][1]
    BY <2>1, <1>6, <1>10 DEF Placed
  <2> QED BY <2>2, <1>7
<1>11. Picked(s, I, t, to)
  BY <1>8, <1>9, <1>10 DEF Picked
<1> QED
  BY <1>5, <1>11 DEF t

(* The least of some numbers.                                                 *)
LEMMA MinIs ==
  ASSUME NEW T \in SUBSET Nat, T # {}
  PROVE  Min(T) \in T /\ \A n \in T : Min(T) <= n
<1>1. \E m \in T : \A n \in T : m <= n
  BY LeastNat
<1> QED
  BY <1>1 DEF Min

(* The greatest of some numbers up to a bound.                                *)
LEMMA MaxIs ==
  ASSUME NEW N \in Nat, NEW T \in SUBSET (1 .. N), T # {}
  PROVE  Max(T) \in T /\ \A n \in T : n <= Max(T)
<1> DEFINE U == {N - n : n \in T}
<1>0. \A n \in T : n \in Nat /\ N - n \in Nat
  OBVIOUS
<1>1. U \in SUBSET Nat /\ U # {}
  BY <1>0
<1>2. PICK u \in U : \A v \in U : u <= v
  <2> HIDE DEF U
  <2> QED BY <1>1, LeastNat
<1>3. PICK m \in T : u = N - m
  BY <1>2
<1>4. \A n \in T : m >= n
  <2>1. TAKE n \in T
  <2>2. N - n \in U
    OBVIOUS
  <2>3. N - m <= N - n
    <3> HIDE DEF U
    <3> QED BY <2>2, <1>2, <1>3
  <2>4. m \in Nat /\ n \in Nat
    BY <1>0
  <2> QED BY <2>3, <2>4
<1>5. Max(T) \in T /\ \A n \in T : Max(T) >= n
  BY <1>4 DEF Max
<1> QED
  BY <1>5

--------------------------------------------------------------------------------
(* Editing keeps what each block is. *)

(* Blocks that differ at most in what clearing changes.                       *)
SameBlock(a, b) == a.type = b.type /\ a.id = b.id /\ a.name = b.name /\ a.text = b.text

(* Messages whose blocks differ at most in what clearing changes.             *)
SameShape(old, new) ==
  /\ old \in Seq(Messages) /\ new \in Seq(Messages) /\ Len(new) = Len(old)
  /\ \A i \in 1 .. Len(old) :
       /\ new[i].role = old[i].role
       /\ Len(new[i].blocks) = Len(old[i].blocks)
       /\ \A j \in 1 .. Len(old[i].blocks) : SameBlock(old[i].blocks[j], new[i].blocks[j])

(* The messages and blocks of a typed request.                                *)
LEMMA MessageTypes ==
  ASSUME NEW ms \in Seq(Messages)
  PROVE  /\ Len(ms) \in Nat /\ DOMAIN ms = 1 .. Len(ms)
         /\ \A i \in 1 .. Len(ms) :
              /\ ms[i] \in Messages /\ ms[i].role \in {"user", "assistant", "system"}
              /\ ms[i].blocks \in Seq(Blocks) /\ Len(ms[i].blocks) \in Nat
              /\ DOMAIN ms[i].blocks = 1 .. Len(ms[i].blocks)
              /\ \A j \in 1 .. Len(ms[i].blocks) : ms[i].blocks[j] \in Blocks
<1>1. Len(ms) \in Nat /\ DOMAIN ms = 1 .. Len(ms) /\ \A i \in 1 .. Len(ms) : ms[i] \in Messages
  BY LenProperties
<1>2. ASSUME NEW i \in 1 .. Len(ms)
      PROVE  ms[i].role \in {"user", "assistant", "system"} /\ ms[i].blocks \in Seq(Blocks)
  BY <1>1 DEF Messages
<1>3. ASSUME NEW i \in 1 .. Len(ms)
      PROVE  /\ Len(ms[i].blocks) \in Nat /\ DOMAIN ms[i].blocks = 1 .. Len(ms[i].blocks)
             /\ \A j \in 1 .. Len(ms[i].blocks) : ms[i].blocks[j] \in Blocks
  <2> DEFINE b == ms[i].blocks
  <2>1. b \in Seq(Blocks)
    BY <1>2
  <2> HIDE DEF b
  <2>2. Len(b) \in Nat /\ DOMAIN b = 1 .. Len(b) /\ \A j \in 1 .. Len(b) : b[j] \in Blocks
    BY <2>1, LenProperties
  <2> QED BY <2>2 DEF b
<1> QED BY <1>1, <1>2, <1>3

(* Every request has its own shape.                                           *)
LEMMA ShapeSelf ==
  ASSUME NEW ms \in Seq(Messages)
  PROVE  SameShape(ms, ms)
BY DEF SameShape, SameBlock

(* The shape is kept from step to step.                                       *)
LEMMA ShapeThen ==
  ASSUME NEW a, NEW b, NEW c, SameShape(a, b), SameShape(b, c)
  PROVE  SameShape(a, c)
<1>1. \A i \in 1 .. Len(a) : i \in 1 .. Len(b)
  BY DEF SameShape
<1>2. ASSUME NEW i \in 1 .. Len(a), NEW j \in 1 .. Len(a[i].blocks)
      PROVE  SameBlock(a[i].blocks[j], c[i].blocks[j])
  <2>1. j \in 1 .. Len(b[i].blocks)
    BY <1>1 DEF SameShape
  <2>2. SameBlock(a[i].blocks[j], b[i].blocks[j]) /\ SameBlock(b[i].blocks[j], c[i].blocks[j])
    BY <1>1, <2>1 DEF SameShape
  <2> QED BY <2>2 DEF SameBlock
<1>3. ASSUME NEW i \in 1 .. Len(a)
      PROVE  c[i].role = a[i].role /\ Len(c[i].blocks) = Len(a[i].blocks)
  BY <1>1 DEF SameShape
<1> QED BY <1>2, <1>3 DEF SameShape

(* A cleared block has the fields of the block.                               *)
LEMMA ClearedBlock ==
  ASSUME NEW b \in Blocks
  PROVE  Cleared(b) \in Blocks /\ SameBlock(b, Cleared(b)) /\ Cleared(b).cleared = TRUE
BY DEF Blocks, Cleared, SameBlock, Placeholder

(* Clearing keeps the shape of a request, and clears what it is to clear.     *)
LEMMA ClearedShape ==
  ASSUME NEW ms \in Seq(Messages), NEW ps
  PROVE  /\ SameShape(ms, ClearedAt(ms, ps))
         /\ \A i \in 1 .. Len(ms) : \A j \in 1 .. Len(ms[i].blocks) :
              ClearedAt(ms, ps)[i].blocks[j] =
                IF <<i, j>> \in ps THEN Cleared(ms[i].blocks[j]) ELSE ms[i].blocks[j]
<1> DEFINE new == ClearedAt(ms, ps)
           bs(i) == [j \in DOMAIN ms[i].blocks |->
                       IF <<i, j>> \in ps THEN Cleared(ms[i].blocks[j]) ELSE ms[i].blocks[j]]
<1>1. new = [i \in DOMAIN ms |-> [ms[i] EXCEPT !.blocks = bs(i)]]
  BY DEF ClearedAt
<1>2. ASSUME NEW i \in 1 .. Len(ms)
      PROVE  /\ bs(i) \in Seq(Blocks) /\ Len(bs(i)) = Len(ms[i].blocks)
             /\ \A j \in 1 .. Len(ms[i].blocks) :
                  bs(i)[j] = IF <<i, j>> \in ps THEN Cleared(ms[i].blocks[j]) ELSE ms[i].blocks[j]
  <2>1. /\ DOMAIN ms[i].blocks = 1 .. Len(ms[i].blocks) /\ Len(ms[i].blocks) \in Nat
        /\ \A j \in 1 .. Len(ms[i].blocks) : ms[i].blocks[j] \in Blocks
    BY MessageTypes
  <2>2. \A j \in 1 .. Len(ms[i].blocks) :
          bs(i)[j] = IF <<i, j>> \in ps THEN Cleared(ms[i].blocks[j]) ELSE ms[i].blocks[j]
    BY <2>1
  <2>3. \A j \in 1 .. Len(ms[i].blocks) : bs(i)[j] \in Blocks
    BY <2>1, <2>2, ClearedBlock
  <2>4. bs(i) \in [1 .. Len(ms[i].blocks) -> Blocks]
    BY <2>1, <2>3
  <2>5. bs(i) \in Seq(Blocks) /\ Len(bs(i)) = Len(ms[i].blocks)
    <3> DEFINE n == Len(ms[i].blocks)
               b == bs(i)
    <3>1. b \in [1 .. n -> Blocks] /\ n \in Nat
      BY <2>1, <2>4
    <3> HIDE DEF b, n
    <3>2. b \in Seq(Blocks) /\ Len(b) = n
      BY <3>1, SeqDef, LenProperties
    <3> QED BY <3>2 DEF b, n
  <2> QED BY <2>2, <2>5
<1> HIDE DEF bs
<1>3. ASSUME NEW i \in 1 .. Len(ms)
      PROVE  new[i] \in Messages /\ new[i].role = ms[i].role /\ new[i].blocks = bs(i)
  <2>1. ms[i] \in Messages /\ i \in DOMAIN ms /\ bs(i) \in Seq(Blocks)
    BY <1>2, MessageTypes
  <2>2. new[i] = [ms[i] EXCEPT !.blocks = bs(i)]
    BY <2>1, <1>1
  <2> HIDE DEF new
  <2> QED BY <2>1, <2>2 DEF Messages
<1>4. new \in Seq(Messages) /\ Len(new) = Len(ms)
  <2>1. DOMAIN ms = 1 .. Len(ms) /\ Len(ms) \in Nat
    BY MessageTypes
  <2>2. new \in [1 .. Len(ms) -> Messages]
    BY <1>1, <1>3, <2>1
  <2> HIDE DEF new
  <2> QED BY <2>1, <2>2, SeqDef, LenProperties
<1>5. ASSUME NEW i \in 1 .. Len(ms), NEW j \in 1 .. Len(ms[i].blocks)
      PROVE  SameBlock(ms[i].blocks[j], new[i].blocks[j])
  <2>1. ms[i].blocks[j] \in Blocks
    BY MessageTypes
  <2>2. new[i].blocks[j] \in {ms[i].blocks[j], Cleared(ms[i].blocks[j])}
    BY <1>2, <1>3
  <2>3. SameBlock(ms[i].blocks[j], ms[i].blocks[j])
    BY DEF SameBlock
  <2> QED BY <2>1, <2>2, <2>3, ClearedBlock
<1> HIDE DEF new
<1>6. SameShape(ms, new)
  BY <1>2, <1>3, <1>4, <1>5 DEF SameShape
<1> QED BY <1>2, <1>3, <1>6 DEF new

(* One edit keeps the shape of a request.                                     *)
LEMMA ApplyEditShape ==
  ASSUME NEW ms \in Seq(Messages), NEW edit
  PROVE  SameShape(ms, ApplyEdit(ms, edit))
<1>1. \A ps : SameShape(ms, ClearedAt(ms, ps))
  BY ClearedShape
<1>2. SameShape(ms, ms)
  BY ShapeSelf
<1>3. SameShape(ms, ClearToolUses(ms, edit))
  BY <1>1, <1>2 DEF ClearToolUses
<1>4. SameShape(ms, ClearThinking(ms, edit.keep))
  BY <1>1 DEF ClearThinking
<1> QED BY <1>2, <1>3, <1>4 DEF ApplyEdit, EditToolUses

(* The request after each of the first n edits.                               *)
Editing(ms, edits, n, g) ==
  g[0] = ms /\ \A i \in 1 .. n : g[i] = ApplyEdit(g[i - 1], edits[i])

(* The recursion in AllApplied defines a function.                            *)
LEMMA AppliedSteps ==
  ASSUME NEW ms, NEW edits, Len(edits) \in Nat
  PROVE  \E g : Editing(ms, edits, Len(edits), g) /\ AllApplied(ms, edits) = g[Len(edits)]
<1> DEFINE N    == Len(edits)
           T    == {n \in 0 .. N : \E g : Editing(ms, edits, n, g) /\ g = [i \in 0 .. n |-> g[i]]}
           F(g) == [n \in 0 .. Len(edits) |-> IF n = 0 THEN ms ELSE ApplyEdit(g[n - 1], edits[n])]
<1>2. 0 \in T
  <2> DEFINE e == [n \in 0 .. 0 |-> ms]
  <2>1. e[0] = ms /\ e = [i \in 0 .. 0 |-> e[i]] /\ \A i \in 1 .. 0 : FALSE
    OBVIOUS
  <2> HIDE DEF e
  <2>2. Editing(ms, edits, 0, e)
    BY <2>1 DEF Editing
  <2>3. \E g : Editing(ms, edits, 0, g) /\ g = [i \in 0 .. 0 |-> g[i]]
    BY <2>1, <2>2
  <2> QED BY <2>3
<1>3. ASSUME NEW n \in 1 .. N, n - 1 \in T PROVE n \in T
  <2>1. PICK g : Editing(ms, edits, n - 1, g)
    BY <1>3
  <2> DEFINE x == ApplyEdit(g[n - 1], edits[n])
             h == [i \in 0 .. n |-> IF i = n THEN x ELSE g[i]]
  <2> HIDE DEF x
  <2>2. \A i \in 0 .. n : h[i] = IF i = n THEN x ELSE g[i]
    OBVIOUS
  <2>3. h = [i \in 0 .. n |-> h[i]]
    OBVIOUS
  <2> HIDE DEF h
  <2>4. h[0] = ms
    BY <2>1, <2>2, 0 \in 0 .. n /\ 0 # n DEF Editing
  <2>5. ASSUME NEW i \in 1 .. n PROVE h[i] = ApplyEdit(h[i - 1], edits[i])
    <3>1. i \in 0 .. n /\ i - 1 \in 0 .. n /\ i - 1 # n
      OBVIOUS
    <3>2. h[i - 1] = g[i - 1]
      BY <3>1, <2>2
    <3>3. CASE i = n
      <4>1. h[i] = x
        BY <3>1, <3>3, <2>2
      <4> QED BY <4>1, <3>2, <3>3 DEF x
    <3>4. CASE i # n
      <4>1. i \in 1 .. n - 1
        BY <3>4
      <4>2. g[i] = ApplyEdit(g[i - 1], edits[i])
        BY <4>1, <2>1 DEF Editing
      <4>3. h[i] = g[i]
        BY <3>1, <3>4, <2>2
      <4> QED BY <4>2, <4>3, <3>2
    <3> QED BY <3>3, <3>4
  <2>6. Editing(ms, edits, n, h)
    BY <2>4, <2>5 DEF Editing
  <2>7. \E f : Editing(ms, edits, n, f) /\ f = [i \in 0 .. n |-> f[i]]
    BY <2>3, <2>6
  <2> QED BY <2>7
<1>4. N \in T
  <2>1. \A n \in 0 .. N : n \in T
    <3> HIDE DEF T
    <3> QED BY <1>2, <1>3, UpTo
  <2> HIDE DEF T
  <2> QED BY <2>1
<1>5. PICK g : Editing(ms, edits, N, g) /\ g = [i \in 0 .. N |-> g[i]]
  BY <1>4
<1>6. g = F(g)
  <2>1. ASSUME NEW n \in 0 .. N PROVE g[n] = IF n = 0 THEN ms ELSE ApplyEdit(g[n - 1], edits[n])
    <3>1. CASE n = 0
      BY <3>1, <1>5 DEF Editing
    <3>2. CASE n # 0
      <4>1. n \in 1 .. N
        BY <3>2
      <4> QED BY <4>1, <3>2, <1>5 DEF Editing
    <3> QED BY <3>1, <3>2
  <2> QED BY <1>5, <2>1
<1> DEFINE f == CHOOSE f : f = F(f)
<1>7. f = F(f)
  BY <1>6
<1>8. AllApplied(ms, edits) = f[N]
  BY DEF AllApplied
<1>9. ASSUME NEW n \in 0 .. N PROVE f[n] = IF n = 0 THEN ms ELSE ApplyEdit(f[n - 1], edits[n])
  <2> HIDE DEF f
  <2> QED BY <1>7
<1> HIDE DEF f
<1>10. f[0] = ms
  BY <1>9
<1>11. ASSUME NEW n \in 1 .. N PROVE f[n] = ApplyEdit(f[n - 1], edits[n])
  <2>1. n \in 0 .. N /\ n # 0
    OBVIOUS
  <2> QED BY <2>1, <1>9
<1>12. Editing(ms, edits, N, f)
  BY <1>10, <1>11 DEF Editing
<1> QED
  BY <1>8, <1>12

(* All the edits of a request keep its shape.                                 *)
LEMMA AllAppliedShape ==
  ASSUME NEW ms \in Seq(Messages), NEW edits, Len(edits) \in Nat
  PROVE  SameShape(ms, AllApplied(ms, edits))
<1> DEFINE N == Len(edits)
<1>1. PICK g : Editing(ms, edits, N, g) /\ AllApplied(ms, edits) = g[N]
  BY AppliedSteps
<1> DEFINE T == {n \in 0 .. N : SameShape(ms, g[n])}
<1>2. 0 \in T
  BY <1>1, ShapeSelf DEF Editing
<1>3. ASSUME NEW n \in 1 .. N, n - 1 \in T PROVE n \in T
  <2>1. SameShape(ms, g[n - 1])
    BY <1>3
  <2>2. g[n] = ApplyEdit(g[n - 1], edits[n])
    BY <1>1 DEF Editing
  <2>3. g[n - 1] \in Seq(Messages)
    BY <2>1 DEF SameShape
  <2>4. SameShape(ms, g[n])
    BY <2>1, <2>2, <2>3, ApplyEditShape, ShapeThen
  <2> QED BY <2>4
<1>4. \A n \in 0 .. N : n \in T
  <2> HIDE DEF T
  <2> QED BY <1>2, <1>3, UpTo
<1> QED BY <1>1, <1>4

(* A hard limit keeps the shape of a request.                                 *)
LEMMA LimitedShape ==
  ASSUME NEW ms \in Seq(Messages), NEW type, NEW limit
  PROVE  SameShape(ms, Limited(ms, type, limit))
<1>1. \A edit : SameShape(ms, ApplyEdit(ms, edit))
  BY ApplyEditShape
<1> QED BY <1>1, ShapeSelf DEF Limited

(* ContextManager::apply keeps the shape of a request.                        *)
LEMMA EditedShape ==
  ASSUME NEW ms \in Seq(Messages), NEW conf, NEW asked, Len(EffectiveEdits(conf, asked)) \in Nat
  PROVE  SameShape(ms, Edited(conf, asked, ms))
<1> DEFINE a == AllApplied(ms, EffectiveEdits(conf, asked))
           t == Limited(a, "clear_tool_uses", conf.limits.tools)
           h == Limited(t, "clear_thinking", conf.limits.thinking)
<1>1. SameShape(ms, a)
  BY AllAppliedShape
<1>2. a \in Seq(Messages)
  BY <1>1 DEF SameShape
<1> HIDE DEF a
<1>3. SameShape(a, t)
  BY <1>2, LimitedShape
<1>4. t \in Seq(Messages)
  BY <1>3 DEF SameShape
<1> HIDE DEF t
<1>5. SameShape(t, h)
  BY <1>4, LimitedShape
<1>6. h \in Seq(Messages)
  BY <1>5 DEF SameShape
<1> HIDE DEF h
<1>7. SameShape(h, ClearedAt(h, Oversized(h, conf.limits.size)))
  BY <1>6, ClearedShape
<1>8. SameShape(ms, ClearedAt(h, Oversized(h, conf.limits.size)))
  BY <1>1, <1>3, <1>5, <1>7, ShapeThen
<1>9. Edited(conf, asked, ms) = IF ~conf.enabled THEN ms ELSE ClearedAt(h, Oversized(h, conf.limits.size))
  BY DEF Edited, HardLimits, a, t, h
<1> QED BY <1>8, <1>9, ShapeSelf

--------------------------------------------------------------------------------
(* What cutting leaves. *)

(* A text of which nothing is to be cut.                                      *)
Clean(pieces) == LocalNames(pieces) = {} /\ LocalStdout(pieces) = {}

(* The positions of the tags in a text.                                       *)
LEMMA TagPlaces ==
  ASSUME NEW S, NEW p \in Seq(S)
  PROVE  /\ Len(p) \in Nat /\ DOMAIN p = 1 .. Len(p)
         /\ \A tag : Tagged(p, tag) \subseteq 1 .. Len(p)
         /\ LocalNames(p) \subseteq 1 .. Len(p) /\ LocalStdout(p) \subseteq 1 .. Len(p)
<1>1. Len(p) \in Nat /\ DOMAIN p = 1 .. Len(p)
  BY LenProperties
<1>2. \A tag : Tagged(p, tag) \subseteq 1 .. Len(p)
  BY <1>1 DEF Tagged
<1> QED BY <1>1, <1>2 DEF LocalNames, LocalStdout

(* A part of a text is a text.                                                *)
LEMMA PartType ==
  ASSUME NEW S, NEW s \in Seq(S), NEW m \in 1 .. Len(s) + 1, NEW n \in 0 .. Len(s)
  PROVE  /\ SubSeq(s, m, n) \in Seq(S)
         /\ Len(SubSeq(s, m, n)) = (IF m <= n THEN n - m + 1 ELSE 0)
         /\ \A i \in 1 .. Len(SubSeq(s, m, n)) : SubSeq(s, m, n)[i] = s[m + i - 1]
<1>1. Len(s) \in Nat /\ m \in Int /\ n \in Int /\ \A i \in 1 .. Len(s) : s[i] \in S
  BY LenProperties
<1>2. \A i \in m .. n : s[i] \in S
  BY <1>1
<1>3. /\ SubSeq(s, m, n) \in Seq(S)
      /\ Len(SubSeq(s, m, n)) = (IF m <= n THEN n - m + 1 ELSE 0)
      /\ \A i \in 1 .. n - m + 1 : SubSeq(s, m, n)[i] = s[m + i - 1]
  BY <1>1, <1>2, SubSeqProperties
<1>4. ASSUME NEW i \in 1 .. Len(SubSeq(s, m, n)) PROVE i \in 1 .. n - m + 1
  BY <1>1, <1>3
<1> QED BY <1>3, <1>4

(* What is left when a part is cut out is a shorter text.                     *)
LEMMA CutShorter ==
  ASSUME NEW S, NEW p \in Seq(S), NEW first \in 1 .. Len(p), NEW last \in first .. Len(p)
  PROVE  Cut(p, first, last) \in Seq(S) /\ Len(Cut(p, first, last)) <= Len(p) - 1
<1>1. Len(p) \in Nat
  BY LenProperties
<1> DEFINE a == SubSeq(p, 1, first - 1)
           b == SubSeq(p, last + 1, Len(p))
<1>2. a \in Seq(S) /\ Len(a) <= first - 1 /\ Len(a) \in Nat
  <2>1. 1 \in 1 .. Len(p) + 1 /\ first - 1 \in 0 .. Len(p)
    BY <1>1
  <2>2. a \in Seq(S) /\ Len(a) = (IF 1 <= first - 1 THEN (first - 1) - 1 + 1 ELSE 0)
    BY <2>1, PartType
  <2> HIDE DEF a
  <2> QED BY <2>1, <2>2
<1>3. b \in Seq(S) /\ Len(b) <= Len(p) - last /\ Len(b) \in Nat
  <2>1. last + 1 \in 1 .. Len(p) + 1 /\ Len(p) \in 0 .. Len(p)
    BY <1>1
  <2>2. b \in Seq(S) /\ Len(b) = (IF last + 1 <= Len(p) THEN Len(p) - (last + 1) + 1 ELSE 0)
    BY <2>1, PartType
  <2> HIDE DEF b
  <2> QED BY <2>1, <2>2, <1>1
<1>4. Cut(p, first, last) = a \o b
  BY DEF Cut
<1> HIDE DEF a, b
<1>5. a \o b \in Seq(S) /\ Len(a \o b) = Len(a) + Len(b)
  BY <1>2, <1>3, ConcatAt
<1>6. first \in Nat /\ last \in Nat /\ first <= last
  BY <1>1
<1> QED BY <1>1, <1>2, <1>3, <1>4, <1>5, <1>6

(* The envelope of a local-only command is cut out of a text.                 *)
LEMMA CommandCut ==
  ASSUME NEW S, NEW p \in Seq(S), LocalNames(p) # {}
  PROVE  WithoutCommand(p) \in Seq(S) /\ Len(WithoutCommand(p)) <= Len(p) - 1
<1> DEFINE name   == Min(LocalNames(p))
           before == {i \in Tagged(p, "command-message") : i < name}
           after  == {i \in Tagged(p, "command-args") : i > name}
           first  == IF before = {} THEN name ELSE Max(before)
           last   == IF after = {} THEN name ELSE Min(after)
<1>1. Len(p) \in Nat /\ (\A tag : Tagged(p, tag) \subseteq 1 .. Len(p)) /\ LocalNames(p) \subseteq 1 .. Len(p)
  BY TagPlaces
<1>2. name \in 1 .. Len(p)
  <2>1. LocalNames(p) \in SUBSET Nat
    BY <1>1
  <2> QED BY <2>1, <1>1, MinIs
<1> HIDE DEF name
<1>3. first \in 1 .. Len(p) /\ first <= name
  <2>1. before \in SUBSET (1 .. Len(p)) /\ \A i \in before : i < name
    BY <1>1
  <2> HIDE DEF before
  <2>2. CASE before = {}
    BY <2>2, <1>2
  <2>3. CASE before # {}
    <3>1. Max(before) \in before
      BY <2>1, <2>3, <1>1, MaxIs
    <3>2. Max(before) \in 1 .. Len(p) /\ Max(before) < name
      BY <3>1, <2>1
    <3> QED BY <3>2, <2>3, <1>1, <1>2
  <2> QED BY <2>2, <2>3
<1>4. last \in 1 .. Len(p) /\ name <= last
  <2>1. after \in SUBSET (1 .. Len(p)) /\ \A i \in after : i > name
    BY <1>1
  <2> HIDE DEF after
  <2>2. CASE after = {}
    BY <2>2, <1>2
  <2>3. CASE after # {}
    <3>1. after \in SUBSET Nat
      BY <2>1
    <3>2. Min(after) \in after
      BY <3>1, <2>3, MinIs
    <3>3. Min(after) \in 1 .. Len(p) /\ Min(after) > name
      BY <3>2, <2>1
    <3> QED BY <3>3, <2>3, <1>1, <1>2
  <2> QED BY <2>2, <2>3
<1>5. WithoutCommand(p) = Cut(p, first, last)
  BY DEF WithoutCommand, name
<1> HIDE DEF first, last
<1>6. last \in first .. Len(p)
  BY <1>1, <1>2, <1>3, <1>4
<1> QED BY <1>3, <1>5, <1>6, CutShorter

(* The output of a local-only command is cut out of a text.                   *)
LEMMA StdoutCut ==
  ASSUME NEW S, NEW p \in Seq(S), LocalStdout(p) # {}
  PROVE  WithoutStdout(p) \in Seq(S) /\ Len(WithoutStdout(p)) <= Len(p) - 1
<1> DEFINE out == Min(LocalStdout(p))
<1>1. out \in 1 .. Len(p) /\ Len(p) \in Nat
  <2>1. LocalStdout(p) \in SUBSET Nat /\ LocalStdout(p) \subseteq 1 .. Len(p) /\ Len(p) \in Nat
    BY TagPlaces
  <2> QED BY <2>1, MinIs
<1>2. WithoutStdout(p) = Cut(p, out, out)
  BY DEF WithoutStdout
<1> HIDE DEF out
<1>3. out \in out .. Len(p)
  BY <1>1
<1> QED BY <1>1, <1>2, <1>3, CutShorter

(* Each cut shortens a text that is not clean, and leaves one that is.        *)
LEMMA CutFirstIs ==
  ASSUME NEW S, NEW s, s.text \in Seq(S)
  PROVE  /\ CutFirst(s).text \in Seq(S)
         /\ ~Clean(s.text) => Len(CutFirst(s).text) <= Len(s.text) - 1
         /\ Clean(s.text) => CutFirst(s) = s
<1> DEFINE p == s.text
           x == s.found \cup {s.text[Min(LocalNames(s.text))].is}
           y == s.found \cup {s.text[Min(LocalStdout(s.text))].is}
<1>1. CASE LocalNames(p) # {}
  <2>1. CutFirst(s) = [text |-> WithoutCommand(p), found |-> x]
    BY <1>1 DEF CutFirst
  <2> QED BY <2>1, <1>1, CommandCut DEF Clean
<1>2. CASE LocalNames(p) = {} /\ LocalStdout(p) # {}
  <2>1. CutFirst(s) = [text |-> WithoutStdout(p), found |-> y]
    BY <1>2 DEF CutFirst
  <2> QED BY <2>1, <1>2, StdoutCut DEF Clean
<1>3. CASE LocalNames(p) = {} /\ LocalStdout(p) = {}
  <2>1. CutFirst(s) = s
    BY <1>3 DEF CutFirst
  <2> QED BY <2>1, <1>3 DEF Clean
<1> QED BY <1>1, <1>2, <1>3

(* The text after each of the first n cuts.                                   *)
Cutting(p, n, g) == g[0] = [text |-> p, found |-> {}] /\ \A i \in 1 .. n : g[i] = CutFirst(g[i - 1])

(* The recursion in CutLocalOnly defines a function.                          *)
LEMMA CutSteps ==
  ASSUME NEW p, Len(p) \in Nat
  PROVE  \E g : Cutting(p, Len(p), g) /\ CutLocalOnly(p) = g[Len(p)]
<1> DEFINE N    == Len(p)
           z    == [text |-> p, found |-> {}]
           T    == {n \in 0 .. N : \E g : Cutting(p, n, g) /\ g = [i \in 0 .. n |-> g[i]]}
           F(g) == [n \in 0 .. Len(p) |-> IF n = 0 THEN [text |-> p, found |-> {}] ELSE CutFirst(g[n - 1])]
<1>2. 0 \in T
  <2> DEFINE e == [n \in 0 .. 0 |-> z]
  <2>1. e[0] = z /\ e = [i \in 0 .. 0 |-> e[i]] /\ \A i \in 1 .. 0 : FALSE
    OBVIOUS
  <2> HIDE DEF e
  <2>2. Cutting(p, 0, e)
    BY <2>1 DEF Cutting
  <2>3. \E g : Cutting(p, 0, g) /\ g = [i \in 0 .. 0 |-> g[i]]
    BY <2>1, <2>2
  <2> QED BY <2>3
<1>3. ASSUME NEW n \in 1 .. N, n - 1 \in T PROVE n \in T
  <2>1. PICK g : Cutting(p, n - 1, g)
    BY <1>3
  <2> DEFINE x == CutFirst(g[n - 1])
             h == [i \in 0 .. n |-> IF i = n THEN x ELSE g[i]]
  <2> HIDE DEF x
  <2>2. \A i \in 0 .. n : h[i] = IF i = n THEN x ELSE g[i]
    OBVIOUS
  <2>3. h = [i \in 0 .. n |-> h[i]]
    OBVIOUS
  <2> HIDE DEF h
  <2>4. h[0] = z
    BY <2>1, <2>2, 0 \in 0 .. n /\ 0 # n DEF Cutting
  <2>5. ASSUME NEW i \in 1 .. n PROVE h[i] = CutFirst(h[i - 1])
    <3>1. i \in 0 .. n /\ i - 1 \in 0 .. n /\ i - 1 # n
      OBVIOUS
    <3>2. h[i - 1] = g[i - 1]
      BY <3>1, <2>2
    <3>3. CASE i = n
      <4>1. h[i] = x
        BY <3>1, <3>3, <2>2
      <4> QED BY <4>1, <3>2, <3>3 DEF x
    <3>4. CASE i # n
      <4>1. i \in 1 .. n - 1
        BY <3>4
      <4>2. g[i] = CutFirst(g[i - 1])
        BY <4>1, <2>1 DEF Cutting
      <4>3. h[i] = g[i]
        BY <3>1, <3>4, <2>2
      <4> QED BY <4>2, <4>3, <3>2
    <3> QED BY <3>3, <3>4
  <2>6. Cutting(p, n, h)
    BY <2>4, <2>5 DEF Cutting
  <2>7. \E f : Cutting(p, n, f) /\ f = [i \in 0 .. n |-> f[i]]
    BY <2>3, <2>6
  <2> QED BY <2>7
<1>4. N \in T
  <2>1. \A n \in 0 .. N : n \in T
    <3> HIDE DEF T
    <3> QED BY <1>2, <1>3, UpTo
  <2> HIDE DEF T
  <2> QED BY <2>1
<1>5. PICK g : Cutting(p, N, g) /\ g = [i \in 0 .. N |-> g[i]]
  BY <1>4
<1>6. g = F(g)
  <2>1. ASSUME NEW n \in 0 .. N PROVE g[n] = IF n = 0 THEN z ELSE CutFirst(g[n - 1])
    <3>1. CASE n = 0
      BY <3>1, <1>5 DEF Cutting
    <3>2. CASE n # 0
      <4>1. n \in 1 .. N
        BY <3>2
      <4> QED BY <4>1, <3>2, <1>5 DEF Cutting
    <3> QED BY <3>1, <3>2
  <2> QED BY <1>5, <2>1
<1> DEFINE f == CHOOSE f : f = F(f)
<1>7. f = F(f)
  BY <1>6
<1>8. CutLocalOnly(p) = f[N]
  BY DEF CutLocalOnly
<1>9. ASSUME NEW n \in 0 .. N PROVE f[n] = IF n = 0 THEN z ELSE CutFirst(f[n - 1])
  <2> HIDE DEF f
  <2> QED BY <1>7
<1> HIDE DEF f
<1>10. f[0] = z
  <2>1. 0 \in 0 .. N
    OBVIOUS
  <2> HIDE DEF z
  <2> QED BY <2>1, <1>9
<1>11. ASSUME NEW n \in 1 .. N PROVE f[n] = CutFirst(f[n - 1])
  <2>1. n \in 0 .. N /\ n # 0
    OBVIOUS
  <2> QED BY <2>1, <1>9
<1>12. Cutting(p, N, f)
  BY <1>10, <1>11 DEF Cutting
<1> QED
  BY <1>8, <1>12

(* What the inclusion policy leaves of a text is clean, and of a clean text   *)
(* it finds nothing.                                                          *)
LEMMA IncludedIsClean ==
  ASSUME NEW S, NEW p \in Seq(S)
  PROVE  /\ Included(p) \in Seq(S) /\ Clean(Included(p))
         /\ Clean(p) => Included(p) = p /\ LocalCommands(p) = {}
<1> DEFINE N == Len(p)
<1>1. N \in Nat
  BY LenProperties
<1>2. PICK g : Cutting(p, N, g) /\ CutLocalOnly(p) = g[N]
  BY <1>1, CutSteps
<1> DEFINE T == {n \in 0 .. N : /\ g[n].text \in Seq(S)
                                /\ Clean(g[n].text) \/ Len(g[n].text) <= N - n
                                /\ Clean(p) => g[n] = [text |-> p, found |-> {}]}
<1>3. 0 \in T
  BY <1>1, <1>2 DEF Cutting
<1>4. ASSUME NEW n \in 1 .. N, n - 1 \in T PROVE n \in T
  <2> DEFINE a == g[n - 1]
             b == g[n]
  <2>1. /\ a.text \in Seq(S) /\ (Clean(a.text) \/ Len(a.text) <= N - (n - 1))
        /\ Clean(p) => a = [text |-> p, found |-> {}]
    BY <1>4
  <2>2. b = CutFirst(a)
    BY <1>2 DEF Cutting
  <2> HIDE DEF a, b
  <2>3. /\ b.text \in Seq(S)
        /\ ~Clean(a.text) => Len(b.text) <= Len(a.text) - 1
        /\ Clean(a.text) => b = a
    BY <2>1, <2>2, CutFirstIs
  <2>4. Len(a.text) \in Nat /\ Len(b.text) \in Nat
    BY <2>1, <2>3, LenProperties
  <2>5. Clean(b.text) \/ Len(b.text) <= N - n
    <3>1. CASE Clean(a.text)
      BY <3>1, <2>3
    <3>2. CASE ~Clean(a.text)
      BY <3>2, <2>1, <2>3, <2>4, <1>1
    <3> QED BY <3>1, <3>2
  <2>6. Clean(p) => b = [text |-> p, found |-> {}]
    BY <2>1, <2>3
  <2> QED BY <2>3, <2>5, <2>6 DEF b
<1>5. \A n \in 0 .. N : n \in T
  <2> HIDE DEF T
  <2> QED BY <1>1, <1>3, <1>4, UpTo
<1> DEFINE z == g[N]
<1>6. /\ z.text \in Seq(S) /\ (Clean(z.text) \/ Len(z.text) <= N - N)
      /\ Clean(p) => z = [text |-> p, found |-> {}]
  <2>1. N \in T
    <3> HIDE DEF T, z
    <3>1. N \in 0 .. N
      BY <1>1
    <3> QED BY <3>1, <1>5
  <2> QED BY <2>1
<1>7. Included(p) = z.text /\ LocalCommands(p) = z.found
  BY <1>2 DEF Included, LocalCommands
<1> HIDE DEF z
<1>8. ASSUME Len(z.text) <= N - N PROVE Clean(z.text)
  <2>1. Len(z.text) = 0
    BY <1>1, <1>6, <1>8, LenProperties
  <2>2. LocalNames(z.text) \subseteq 1 .. Len(z.text) /\ LocalStdout(z.text) \subseteq 1 .. Len(z.text)
    BY <1>6, TagPlaces
  <2> QED BY <2>1, <2>2 DEF Clean
<1> QED BY <1>6, <1>7, <1>8

--------------------------------------------------------------------------------
(* Cutting and marking keep the calls and results. *)

ToolTypes == {"tool_use", "tool_result"}

(* at takes the calls and results among old to those among new.               *)
ToolsAt(old, new, at) ==
  /\ \A j \in 1 .. Len(old) :
       old[j].type \in ToolTypes =>
         at[j] \in 1 .. Len(new) /\ new[at[j]].type = old[j].type /\ new[at[j]].id = old[j].id
  /\ \A k \in 1 .. Len(new) :
       new[k].type \in ToolTypes =>
         \E j \in 1 .. Len(old) : k = at[j] /\ old[j].type = new[k].type /\ old[j].id = new[k].id

(* The blocks new have the calls and results that the blocks old have.        *)
SameTools(old, new) == \E at : ToolsAt(old, new, at)

(* The messages new have the calls and results of the messages old.           *)
SameCalls(old, new) ==
  /\ old \in Seq(Messages) /\ new \in Seq(Messages) /\ Len(new) = Len(old)
  /\ \A i \in 1 .. Len(old) : new[i].role = old[i].role /\ SameTools(old[i].blocks, new[i].blocks)

(* Blocks have their own calls and results.                                   *)
LEMMA ToolsSelf == ASSUME NEW b PROVE SameTools(b, b)
<1> DEFINE at == [j \in 1 .. Len(b) |-> j]
<1>1. \A j \in 1 .. Len(b) : at[j] = j
  OBVIOUS
<1> HIDE DEF at
<1>2. ToolsAt(b, b, at)
  BY <1>1 DEF ToolsAt
<1> QED BY <1>2 DEF SameTools

(* Clearing changes no call and no result.                                    *)
LEMMA ShapeKeepsCalls ==
  ASSUME NEW old, NEW new, SameShape(old, new)
  PROVE  SameCalls(old, new)
<1>1. ASSUME NEW i \in 1 .. Len(old)
      PROVE  SameTools(old[i].blocks, new[i].blocks)
  <2> DEFINE a == old[i].blocks
             b == new[i].blocks
             at == [j \in 1 .. Len(a) |-> j]
  <2>1. Len(b) = Len(a) /\ \A j \in 1 .. Len(a) : SameBlock(a[j], b[j])
    BY DEF SameShape
  <2>2. \A j \in 1 .. Len(a) : at[j] = j
    OBVIOUS
  <2> HIDE DEF at, a, b
  <2>3. ToolsAt(a, b, at)
    BY <2>1, <2>2 DEF ToolsAt, SameBlock
  <2>4. SameTools(a, b)
    BY <2>3 DEF SameTools
  <2> QED BY <2>4 DEF a, b
<1> QED BY <1>1 DEF SameCalls, SameShape

(* Keeping at least the calls and results keeps them.                         *)
LEMMA KeptTools ==
  ASSUME NEW b \in Seq(Blocks), NEW I,
         \A j \in 1 .. Len(b) : b[j].type \in ToolTypes => j \in I
  PROVE  Kept(b, I) \in Seq(Blocks) /\ SameTools(b, Kept(b, I))
<1> DEFINE t == Kept(b, I)
<1>1. PICK at : Picked(b, I, t, at)
  BY KeptPlaces
<1>2. t \in Seq(Blocks)
  BY KeptPlaces
<1> HIDE DEF t
<1>3. ASSUME NEW j \in 1 .. Len(b), b[j].type \in ToolTypes
      PROVE  at[j] \in 1 .. Len(t) /\ t[at[j]].type = b[j].type /\ t[at[j]].id = b[j].id
  <2>1. j \in I
    BY <1>3
  <2> QED BY <2>1, <1>1 DEF Picked
<1>4. ASSUME NEW k \in 1 .. Len(t), t[k].type \in ToolTypes
      PROVE  \E j \in 1 .. Len(b) : k = at[j] /\ b[j].type = t[k].type /\ b[j].id = t[k].id
  <2>1. PICK j \in 1 .. Len(b) : j \in I /\ k = at[j]
    BY <1>1 DEF Picked
  <2>2. t[k] = b[j]
    BY <2>1, <1>1 DEF Picked
  <2> QED BY <2>1, <2>2
<1>5. ToolsAt(b, t, at)
  BY <1>3, <1>4 DEF ToolsAt
<1> QED BY <1>2, <1>5 DEF SameTools, t

(* The calls and results are kept from step to step.                          *)
LEMMA ToolsThen ==
  ASSUME NEW a, NEW b, NEW c, SameTools(a, b), SameTools(b, c)
  PROVE  SameTools(a, c)
<1>1. PICK f : ToolsAt(a, b, f)
  BY DEF SameTools
<1>2. PICK g : ToolsAt(b, c, g)
  BY DEF SameTools
<1> DEFINE h == [j \in 1 .. Len(a) |-> g[f[j]]]
<1>3. \A j \in 1 .. Len(a) : h[j] = g[f[j]]
  OBVIOUS
<1> HIDE DEF h
<1>4. ASSUME NEW j \in 1 .. Len(a), a[j].type \in ToolTypes
      PROVE  h[j] \in 1 .. Len(c) /\ c[h[j]].type = a[j].type /\ c[h[j]].id = a[j].id
  <2>1. f[j] \in 1 .. Len(b) /\ b[f[j]].type = a[j].type /\ b[f[j]].id = a[j].id
    BY <1>1, <1>4 DEF ToolsAt
  <2>2. g[f[j]] \in 1 .. Len(c) /\ c[g[f[j]]].type = b[f[j]].type /\ c[g[f[j]]].id = b[f[j]].id
    BY <1>2, <1>4, <2>1 DEF ToolsAt
  <2> QED BY <1>3, <2>1, <2>2
<1>5. ASSUME NEW k \in 1 .. Len(c), c[k].type \in ToolTypes
      PROVE  \E j \in 1 .. Len(a) : k = h[j] /\ a[j].type = c[k].type /\ a[j].id = c[k].id
  <2>1. PICK i \in 1 .. Len(b) : k = g[i] /\ b[i].type = c[k].type /\ b[i].id = c[k].id
    BY <1>2, <1>5 DEF ToolsAt
  <2>2. PICK j \in 1 .. Len(a) : i = f[j] /\ a[j].type = b[i].type /\ a[j].id = b[i].id
    BY <1>1, <1>5, <2>1 DEF ToolsAt
  <2> QED BY <1>3, <2>1, <2>2
<1>6. ToolsAt(a, c, h)
  BY <1>4, <1>5 DEF ToolsAt
<1> QED BY <1>6 DEF SameTools

(* The blocks of a user message, as apply_conversation_inclusion_policy       *)
(* rewrites them.                                                             *)
LEMMA IncludedBlocksIs ==
  ASSUME NEW b \in Seq(Blocks)
  PROVE  /\ IncludedBlocks(b) \in Seq(Blocks) /\ Len(IncludedBlocks(b)) = Len(b)
         /\ \A j \in 1 .. Len(b) :
              /\ IncludedBlocks(b)[j].type = b[j].type /\ IncludedBlocks(b)[j].id = b[j].id
              /\ IncludedBlocks(b)[j].text = IF b[j].type = "text" THEN Included(b[j].text) ELSE b[j].text
<1>1. Len(b) \in Nat /\ DOMAIN b = 1 .. Len(b) /\ \A j \in 1 .. Len(b) : b[j] \in Blocks
  BY LenProperties
<1>2. ASSUME NEW j \in 1 .. Len(b)
      PROVE  /\ IncludedBlocks(b)[j] \in Blocks
             /\ IncludedBlocks(b)[j].type = b[j].type /\ IncludedBlocks(b)[j].id = b[j].id
             /\ IncludedBlocks(b)[j].text = IF b[j].type = "text" THEN Included(b[j].text) ELSE b[j].text
  <2>1. b[j] \in Blocks /\ b[j].text \in Seq(Pieces)
    BY <1>1 DEF Blocks
  <2>2. Included(b[j].text) \in Seq(Pieces)
    BY <2>1, IncludedIsClean
  <2>3. IncludedBlocks(b)[j] = IF b[j].type = "text" THEN [b[j] EXCEPT !.text = Included(b[j].text)] ELSE b[j]
    BY <1>1 DEF IncludedBlocks
  <2> QED BY <2>1, <2>2, <2>3 DEF Blocks
<1>3. IncludedBlocks(b) \in [1 .. Len(b) -> Blocks]
  BY <1>1, <1>2 DEF IncludedBlocks
<1>4. IncludedBlocks(b) \in Seq(Blocks) /\ Len(IncludedBlocks(b)) = Len(b)
  BY <1>1, <1>3, SeqDef, LenProperties
<1> QED BY <1>2, <1>4

(* The inclusion policy keeps the calls and results of a message.             *)
LEMMA RemainingTools ==
  ASSUME NEW b \in Seq(Blocks)
  PROVE  /\ Remaining(IncludedBlocks(b)) \in Seq(Blocks)
         /\ SameTools(b, Remaining(IncludedBlocks(b)))
<1> DEFINE c == IncludedBlocks(b)
           at == [j \in 1 .. Len(b) |-> j]
<1>1. /\ c \in Seq(Blocks) /\ Len(c) = Len(b)
      /\ \A j \in 1 .. Len(b) : c[j].type = b[j].type /\ c[j].id = b[j].id
  BY IncludedBlocksIs
<1>2. \A j \in 1 .. Len(b) : at[j] = j
  OBVIOUS
<1> HIDE DEF c, at
<1>3. ToolsAt(b, c, at)
  BY <1>1, <1>2 DEF ToolsAt
<1>4. SameTools(b, c)
  BY <1>3 DEF SameTools
<1> DEFINE I == {j \in DOMAIN c : c[j].type # "text" \/ ~IsBlank(c[j].text)}
<1>5. \A j \in 1 .. Len(c) : c[j].type \in ToolTypes => j \in I
  BY <1>1, LenProperties DEF ToolTypes
<1>6. Remaining(c) = Kept(c, I)
  BY DEF Remaining
<1> HIDE DEF I
<1>7. Remaining(c) \in Seq(Blocks) /\ SameTools(c, Remaining(c))
  BY <1>1, <1>5, <1>6, KeptTools
<1> QED BY <1>4, <1>7, ToolsThen DEF c

(* The inclusion policy keeps the messages, with their calls and results.     *)
LEMMA InclusionKeepsCalls ==
  ASSUME NEW ms \in Seq(Messages)
  PROVE  /\ SameCalls(ms, ApplyInclusion(ms))
         /\ \A i \in 1 .. Len(ms) :
              ApplyInclusion(ms)[i].blocks =
                IF ms[i].role # "user" THEN ms[i].blocks ELSE Remaining(IncludedBlocks(ms[i].blocks))
<1> DEFINE new == ApplyInclusion(ms)
<1>1. Len(ms) \in Nat /\ DOMAIN ms = 1 .. Len(ms)
  BY MessageTypes
<1>2. ASSUME NEW i \in 1 .. Len(ms)
      PROVE  /\ new[i] \in Messages /\ new[i].role = ms[i].role
             /\ new[i].blocks = IF ms[i].role # "user" THEN ms[i].blocks
                                ELSE Remaining(IncludedBlocks(ms[i].blocks))
             /\ SameTools(ms[i].blocks, new[i].blocks)
  <2> DEFINE r == Remaining(IncludedBlocks(ms[i].blocks))
  <2>1. ms[i] \in Messages /\ ms[i].blocks \in Seq(Blocks)
    BY MessageTypes
  <2>2. r \in Seq(Blocks) /\ SameTools(ms[i].blocks, r)
    BY <2>1, RemainingTools
  <2>3. new[i] = IF ms[i].role # "user" THEN ms[i] ELSE [ms[i] EXCEPT !.blocks = r]
    BY <1>1 DEF ApplyInclusion
  <2> HIDE DEF r, new
  <2>4. CASE ms[i].role # "user"
    BY <2>1, <2>3, <2>4, ToolsSelf
  <2>5. CASE ms[i].role = "user"
    <3>1. new[i] \in Messages /\ new[i].role = ms[i].role /\ new[i].blocks = r
      BY <2>1, <2>2, <2>3, <2>5 DEF Messages
    <3> QED BY <3>1, <2>2, <2>5 DEF r
  <2> QED BY <2>4, <2>5
<1>3. new \in [1 .. Len(ms) -> Messages]
  <2>1. new = [i \in 1 .. Len(ms) |-> new[i]]
    BY <1>1 DEF ApplyInclusion
  <2> HIDE DEF new
  <2> QED BY <2>1, <1>2
<1> HIDE DEF new
<1>4. new \in Seq(Messages) /\ Len(new) = Len(ms)
  BY <1>1, <1>3, SeqDef, LenProperties
<1> QED BY <1>2, <1>4 DEF SameCalls, new

(* Setting the text of a message keeps its calls and results.                 *)
LEMMA WithTextKeepsCalls ==
  ASSUME NEW m \in Messages, NEW p \in Seq(Pieces)
  PROVE  /\ WithText(m, p) \in Messages /\ WithText(m, p).role = m.role
         /\ SameTools(m.blocks, WithText(m, p).blocks)
<1> DEFINE b == m.blocks
           I == {j \in DOMAIN b : b[j].type # "text"}
           k == Kept(b, I)
           new == IF IsBlank(p) THEN k ELSE Append(k, Text(p))
<1>1. b \in Seq(Blocks)
  BY DEF Messages
<1>2. \A j \in 1 .. Len(b) : b[j].type \in ToolTypes => j \in I
  BY <1>1, LenProperties DEF ToolTypes
<1>3. WithText(m, p) = [m EXCEPT !.blocks = new]
  BY DEF WithText
<1> HIDE DEF b, I
<1>4. k \in Seq(Blocks) /\ SameTools(b, k)
  BY <1>1, <1>2, KeptTools
<1> HIDE DEF k
<1>5. Text(p) \in Blocks /\ Text(p).type = "text"
  <2> DEFINE n == Len(p)
             Texts == Seq(Pieces)
  <2>1. n \in Nat /\ p \in Texts
    BY LenProperties
  <2>2. Text(p) = [type |-> "text", id |-> 0, name |-> "", size |-> n, text |-> p, cleared |-> FALSE]
    BY DEF Text, Block
  <2>3. Blocks = [type : {"text", "tool_use", "tool_result", "thinking"}, id : Nat, name : Names, size : Nat, text : Texts, cleared : BOOLEAN]
    BY DEF Blocks
  <2> HIDE DEF n, Texts
  <2>7. "" \in Names
    BY NamesAssumption
  <2>4. [type |-> "text", id |-> 0, name |-> "", size |-> n, text |-> p, cleared |-> FALSE]
        \in [type : {"text", "tool_use", "tool_result", "thinking"}, id : Nat, name : Names, size : Nat, text : Texts, cleared : BOOLEAN]
    BY <2>1, <2>7
  <2>5. Text(p) \in Blocks
    BY <2>2, <2>3, <2>4
  <2>6. Text(p).type = "text"
    BY DEF Text, Block
  <2> QED BY <2>5, <2>6
<1>6. Append(k, Text(p)) \in Seq(Blocks) /\ SameTools(k, Append(k, Text(p)))
  <2> DEFINE c == Append(k, Text(p))
             at == [j \in 1 .. Len(k) |-> j]
  <2>1. /\ c \in Seq(Blocks) /\ Len(k) \in Nat /\ Len(c) = Len(k) + 1
        /\ c[Len(k) + 1] = Text(p)
        /\ \A j \in 1 .. Len(k) : c[j] = k[j]
    BY <1>4, <1>5, AppendProperties, LenProperties
  <2>2. \A j \in 1 .. Len(k) : at[j] = j
    OBVIOUS
  <2> HIDE DEF c, at
  <2>3. ASSUME NEW j \in 1 .. Len(k), k[j].type \in ToolTypes
        PROVE  at[j] \in 1 .. Len(c) /\ c[at[j]].type = k[j].type /\ c[at[j]].id = k[j].id
    BY <2>1, <2>2
  <2>4. ASSUME NEW j \in 1 .. Len(c), c[j].type \in ToolTypes
        PROVE  \E i \in 1 .. Len(k) : j = at[i] /\ k[i].type = c[j].type /\ k[i].id = c[j].id
    <3>1. j # Len(k) + 1
      BY <2>1, <2>4, <1>5 DEF ToolTypes
    <3>2. j \in 1 .. Len(k)
      BY <3>1, <2>1
    <3> QED BY <3>2, <2>1, <2>2
  <2>5. ToolsAt(k, c, at)
    BY <2>3, <2>4 DEF ToolsAt
  <2> QED BY <2>1, <2>5 DEF SameTools, c
<1>7. new \in Seq(Blocks) /\ SameTools(b, new)
  BY <1>4, <1>6, ToolsThen
<1> HIDE DEF new
<1>8. WithText(m, p) \in Messages /\ WithText(m, p).role = m.role /\ WithText(m, p).blocks = new
  BY <1>3, <1>7 DEF Messages
<1> QED BY <1>7, <1>8 DEF b

(* The texts of the blocks of a message.                                      *)
LEMMA BlockTexts ==
  ASSUME NEW b \in Seq(Blocks)
  PROVE  /\ Len(b) \in Nat /\ DOMAIN b = 1 .. Len(b)
         /\ [j \in DOMAIN b |-> b[j].text] \in Seq(Seq(Pieces))
         /\ Len([j \in DOMAIN b |-> b[j].text]) = Len(b)
<1>1. Len(b) \in Nat /\ DOMAIN b = 1 .. Len(b) /\ \A j \in 1 .. Len(b) : b[j] \in Blocks
  BY LenProperties
<1> DEFINE ts == [j \in DOMAIN b |-> b[j].text]
<1>2. ASSUME NEW j \in 1 .. Len(b) PROVE b[j].text \in Seq(Pieces)
  <2>1. b[j] \in Blocks
    BY <1>1
  <2> QED BY <2>1 DEF Blocks
<1>3. ts \in [1 .. Len(b) -> Seq(Pieces)]
  BY <1>1, <1>2
<1> HIDE DEF ts
<1>4. ts \in Seq(Seq(Pieces)) /\ Len(ts) = Len(b)
  BY <1>1, <1>3, SeqDef, LenProperties
<1> QED BY <1>1, <1>4 DEF ts

(* The text of a message is a text.                                           *)
LEMMA TextType ==
  ASSUME NEW m \in Messages
  PROVE  MessageText(m) \in Seq(Pieces)
<1> DEFINE b  == m.blocks
           ts == [j \in DOMAIN b |-> b[j].text]
<1>1. b \in Seq(Blocks)
  BY DEF Messages
<1>2. ts \in Seq(Seq(Pieces))
  BY <1>1, BlockTexts
<1>3. MessageText(m) = Joined(ts)
  BY DEF MessageText
<1> HIDE DEF ts
<1> QED BY <1>2, <1>3, JoinedPlaces

(* The text of an earlier command, as it is sent.                             *)
LEMMA MarkedType ==
  ASSUME NEW p \in Seq(Pieces)
  PROVE  /\ PreviousNote \in Pieces /\ PreviousNote.tag = "previous"
         /\ <<PreviousNote>> \o p \in Seq(Pieces)
         /\ Len(<<PreviousNote>> \o p) = Len(p) + 1 /\ Len(p) \in Nat
         /\ (<<PreviousNote>> \o p)[1] = PreviousNote
         /\ \A j \in 1 .. Len(p) : (<<PreviousNote>> \o p)[j + 1] = p[j]
<1>1. PreviousNote \in Pieces /\ PreviousNote.tag = "previous"
  BY NamesAssumption DEF PreviousNote, Piece, Pieces
<1> DEFINE s == <<PreviousNote>>
<1>2. s \in Seq(Pieces) /\ Len(s) = 1 /\ s[1] = PreviousNote
  BY <1>1
<1> HIDE DEF s
<1>3. /\ s \o p \in Seq(Pieces) /\ Len(p) \in Nat
      /\ Len(s \o p) = Len(s) + Len(p)
      /\ \A i \in 1 .. Len(s) : (s \o p)[i] = s[i]
      /\ \A j \in 1 .. Len(p) : (s \o p)[Len(s) + j] = p[j]
  BY <1>2, ConcatAt
<1>4. (s \o p)[1] = PreviousNote
  <2>1. 1 \in 1 .. Len(s)
    BY <1>2
  <2> QED BY <2>1, <1>2, <1>3
<1>5. ASSUME NEW j \in 1 .. Len(p) PROVE (s \o p)[j + 1] = p[j]
  <2>1. Len(s) + j = j + 1
    BY <1>2
  <2> QED BY <2>1, <1>3
<1>6. Len(s \o p) = Len(p) + 1
  BY <1>2, <1>3
<1> QED BY <1>1, <1>3, <1>4, <1>5, <1>6 DEF s

(* A message with the command of an earlier turn, and one with a command the  *)
(* gateway runs in this turn.                                                 *)
EarlierCommand(ms, i) ==
  /\ ms[i].role = "user" /\ i \notin ActiveAt(ms)
  /\ IsEnvelope(MessageText(ms[i]))
RunHere(ms, i) == i \in ActiveAt(ms) /\ ActiveCommand(ms) \in Translated

(* Marking and hiding commands keeps the messages, with their calls and       *)
(* results.                                                                   *)
LEMMA NormalizedIs ==
  ASSUME NEW ms \in Seq(Messages)
  PROVE  /\ SameCalls(ms, NormalizeCommands(ms))
         /\ \A i \in 1 .. Len(ms) :
              NormalizeCommands(ms)[i] =
                IF EarlierCommand(ms, i) THEN WithText(ms[i], <<PreviousNote>> \o MessageText(ms[i]))
                ELSE IF RunHere(ms, i) THEN WithText(ms[i], <<>>) ELSE ms[i]
<1> DEFINE new == NormalizeCommands(ms)
<1>1. Len(ms) \in Nat /\ DOMAIN ms = 1 .. Len(ms)
  BY MessageTypes
<1>2. ASSUME NEW i \in 1 .. Len(ms)
      PROVE  new[i] = IF EarlierCommand(ms, i) THEN WithText(ms[i], <<PreviousNote>> \o MessageText(ms[i]))
                      ELSE IF RunHere(ms, i) THEN WithText(ms[i], <<>>) ELSE ms[i]
  <2>1. EarlierCommand(ms, i) => ~RunHere(ms, i)
    BY DEF EarlierCommand, RunHere
  <2>2. new[i] = CASE EarlierCommand(ms, i) -> WithText(ms[i], <<PreviousNote>> \o MessageText(ms[i]))
                   [] RunHere(ms, i)        -> WithText(ms[i], <<>>)
                   [] OTHER                 -> ms[i]
    BY <1>1 DEF NormalizeCommands, EarlierCommand, RunHere
  <2> HIDE DEF new
  <2> QED BY <2>1, <2>2
<1>3. new = [i \in 1 .. Len(ms) |-> new[i]]
  BY <1>1 DEF NormalizeCommands
<1> HIDE DEF new
<1>4. ASSUME NEW i \in 1 .. Len(ms)
      PROVE  new[i] \in Messages /\ new[i].role = ms[i].role /\ SameTools(ms[i].blocks, new[i].blocks)
  <2>1. ms[i] \in Messages
    BY MessageTypes
  <2>2. MessageText(ms[i]) \in Seq(Pieces)
    BY <2>1, TextType
  <2> DEFINE t == <<PreviousNote>> \o MessageText(ms[i])
  <2>3. t \in Seq(Pieces)
    BY <2>2, MarkedType
  <2> HIDE DEF t
  <2>4. \A p \in Seq(Pieces) : /\ WithText(ms[i], p) \in Messages /\ WithText(ms[i], p).role = ms[i].role
                               /\ SameTools(ms[i].blocks, WithText(ms[i], p).blocks)
    BY <2>1, WithTextKeepsCalls
  <2>5. <<>> \in Seq(Pieces)
    BY EmptySeq
  <2>6. new[i] = ms[i] \/ (\E p \in Seq(Pieces) : new[i] = WithText(ms[i], p))
    BY <1>2, <2>3, <2>5 DEF t
  <2> QED BY <2>1, <2>4, <2>6, ToolsSelf
<1>5. new \in [1 .. Len(ms) -> Messages]
  BY <1>3, <1>4
<1>6. new \in Seq(Messages) /\ Len(new) = Len(ms)
  BY <1>1, <1>5, SeqDef, LenProperties
<1> QED BY <1>2, <1>4, <1>6 DEF SameCalls, new

--------------------------------------------------------------------------------
(* Calls that are answered. *)

(* The one block of the type with the id c is at <<i, j>>, in a message that  *)
(* is no system turn.                                                         *)
OnlyAt(ms, type, c, i, j) ==
  /\ i \in 1 .. Len(ms) /\ ms[i].role # "system"
  /\ j \in 1 .. Len(ms[i].blocks)
  /\ ms[i].blocks[j].type = type /\ ms[i].blocks[j].id = c
  /\ \A k \in 1 .. Len(ms) : \A l \in 1 .. Len(ms[k].blocks) :
       ms[k].blocks[l].type = type /\ ms[k].blocks[l].id = c => k = i /\ l = j

(* The call c is in the messages once, and once its result, later.            *)
Answered(ms, c) ==
  \E i1, j1, i2, j2 : /\ OnlyAt(ms, "tool_use", c, i1, j1)
                      /\ OnlyAt(ms, "tool_result", c, i2, j2)
                      /\ i1 < i2

(* Keeping the calls and results keeps a call, or a result, the only one.     *)
LEMMA OnlyAtKept ==
  ASSUME NEW old, NEW new, SameCalls(old, new), NEW type \in ToolTypes, NEW c,
         NEW i, NEW j, OnlyAt(old, type, c, i, j)
  PROVE  \E l : OnlyAt(new, type, c, i, l)
<1>1. /\ i \in 1 .. Len(old) /\ i \in 1 .. Len(new) /\ old[i].role # "system" /\ new[i].role # "system"
      /\ j \in 1 .. Len(old[i].blocks) /\ old[i].blocks[j].type = type /\ old[i].blocks[j].id = c
  BY DEF OnlyAt, SameCalls
<1>2. PICK at : ToolsAt(old[i].blocks, new[i].blocks, at)
  BY <1>1 DEF SameCalls, SameTools
<1>3. at[j] \in 1 .. Len(new[i].blocks) /\ new[i].blocks[at[j]].type = type /\ new[i].blocks[at[j]].id = c
  BY <1>1, <1>2 DEF ToolsAt
<1>4. ASSUME NEW k \in 1 .. Len(new), NEW l \in 1 .. Len(new[k].blocks),
             new[k].blocks[l].type = type, new[k].blocks[l].id = c
      PROVE  k = i /\ l = at[j]
  <2>1. k \in 1 .. Len(old) /\ SameTools(old[k].blocks, new[k].blocks)
    BY DEF SameCalls
  <2>2. \A f : ToolsAt(old[k].blocks, new[k].blocks, f) =>
           \E m \in 1 .. Len(old[k].blocks) :
              l = f[m] /\ old[k].blocks[m].type = type /\ old[k].blocks[m].id = c
    BY <1>4 DEF ToolsAt
  <2>3. \A m \in 1 .. Len(old[k].blocks) :
           old[k].blocks[m].type = type /\ old[k].blocks[m].id = c => k = i /\ m = j
    BY <2>1 DEF OnlyAt
  <2>4. k = i
    BY <2>1, <2>2, <2>3 DEF SameTools
  <2>5. l = at[j]
    BY <1>2, <2>2, <2>3, <2>4
  <2> QED BY <2>4, <2>5
<1>5. OnlyAt(new, type, c, i, at[j])
  BY <1>1, <1>3, <1>4 DEF OnlyAt
<1> QED BY <1>5

(* What keeps the calls and results keeps every call answered.                *)
LEMMA AnsweredKept ==
  ASSUME NEW old, NEW new, SameCalls(old, new), NEW c, Answered(old, c)
  PROVE  Answered(new, c)
<1>1. PICK i1, j1, i2, j2 : /\ OnlyAt(old, "tool_use", c, i1, j1)
                            /\ OnlyAt(old, "tool_result", c, i2, j2)
                            /\ i1 < i2
  BY DEF Answered
<1>2. "tool_use" \in ToolTypes /\ "tool_result" \in ToolTypes
  BY DEF ToolTypes
<1>3. PICK l1 : OnlyAt(new, "tool_use", c, i1, l1)
  BY <1>1, <1>2, OnlyAtKept
<1>4. PICK l2 : OnlyAt(new, "tool_result", c, i2, l2)
  BY <1>1, <1>2, OnlyAtKept
<1> QED BY <1>1, <1>3, <1>4 DEF Answered

(* The calls and results are kept from step to step.                          *)
LEMMA CallsThen ==
  ASSUME NEW a, NEW b, NEW c, SameCalls(a, b), SameCalls(b, c)
  PROVE  SameCalls(a, c)
<1>1. ASSUME NEW i \in 1 .. Len(a)
      PROVE  c[i].role = a[i].role /\ SameTools(a[i].blocks, c[i].blocks)
  <2>1. i \in 1 .. Len(b)
    BY DEF SameCalls
  <2>2. /\ SameTools(a[i].blocks, b[i].blocks) /\ SameTools(b[i].blocks, c[i].blocks)
        /\ c[i].role = a[i].role
    BY <2>1 DEF SameCalls
  <2> QED BY <2>2, ToolsThen
<1> QED BY <1>1 DEF SameCalls

(* Leaving out the system turns keeps every call answered.                    *)
LEMMA AnsweredWithoutSystem ==
  ASSUME NEW ms \in Seq(Messages), NEW c, Answered(ms, c)
  PROVE  LET new == Kept(ms, {i \in DOMAIN ms : ms[i].role # "system"})
         IN  new \in Seq(Messages) /\ Answered(new, c)
<1> DEFINE I   == {i \in DOMAIN ms : ms[i].role # "system"}
           new == Kept(ms, I)
<1>1. Len(ms) \in Nat /\ DOMAIN ms = 1 .. Len(ms)
  BY MessageTypes
<1>2. \A i \in 1 .. Len(ms) : i \in I <=> ms[i].role # "system"
  BY <1>1
<1> HIDE DEF I
<1>3. new \in Seq(Messages)
  BY KeptPlaces
<1>4. PICK at : Picked(ms, I, new, at)
  BY KeptPlaces
<1> HIDE DEF new
<1>5. ASSUME NEW type, NEW i, NEW j, OnlyAt(ms, type, c, i, j)
      PROVE  OnlyAt(new, type, c, at[i], j)
  <2>1. /\ i \in 1 .. Len(ms) /\ i \in I /\ ms[i].role # "system" /\ j \in 1 .. Len(ms[i].blocks)
        /\ ms[i].blocks[j].type = type /\ ms[i].blocks[j].id = c
    BY <1>5, <1>2 DEF OnlyAt
  <2>2. at[i] \in 1 .. Len(new) /\ new[at[i]] = ms[i]
    BY <2>1, <1>4 DEF Picked
  <2>3. ASSUME NEW k \in 1 .. Len(new), NEW l \in 1 .. Len(new[k].blocks),
               new[k].blocks[l].type = type, new[k].blocks[l].id = c
        PROVE  k = at[i] /\ l = j
    <3>1. PICK h \in 1 .. Len(ms) : h \in I /\ k = at[h]
      BY <1>4 DEF Picked
    <3>2. new[k] = ms[h]
      BY <3>1, <1>4 DEF Picked
    <3>3. h = i /\ l = j
      BY <3>2, <2>3, <1>5 DEF OnlyAt
    <3> QED BY <3>1, <3>3
  <2> QED BY <2>1, <2>2, <2>3 DEF OnlyAt
<1>6. Answered(new, c)
  <2>1. PICK i1, j1, i2, j2 : /\ OnlyAt(ms, "tool_use", c, i1, j1)
                              /\ OnlyAt(ms, "tool_result", c, i2, j2)
                              /\ i1 < i2
    BY DEF Answered
  <2>2. i1 \in 1 .. Len(ms) /\ i2 \in 1 .. Len(ms) /\ i1 \in I /\ i2 \in I
    BY <2>1, <1>2 DEF OnlyAt
  <2>3. at[i1] < at[i2]
    BY <2>1, <2>2, <1>4 DEF Picked
  <2>4. OnlyAt(new, "tool_use", c, at[i1], j1) /\ OnlyAt(new, "tool_result", c, at[i2], j2)
    BY <2>1, <1>5
  <2> QED BY <2>3, <2>4 DEF Answered
<1> QED BY <1>3, <1>6 DEF new, I

--------------------------------------------------------------------------------
(* The items of a request. *)

(* The input items of a request.                                              *)
AnyItems == [what : {"call", "output", "message", "result"}, call : Nat,
             role : {"custom", "function", "user", "assistant", "system"},
             text : Seq(Pieces) \cup Seq(Names)]

(* The bridge records custom calls only.                                      *)
KindsTyped == \A c \in DOMAIN kinds : kinds[c] = "custom"

WhatOf(type) == IF type = "tool_use" THEN "call" ELSE "output"

(* The item x stands for the block b.                                         *)
StandsFor(x, b) ==
  b.type \in ToolTypes /\ x.what = WhatOf(b.type) /\ x.call = b.id /\ x.role = KindForCall(b.id)

(* f takes the calls and results of m to their items in its, where the text   *)
(* of m comes last.                                                           *)
ItemsFrom(m, its, f) ==
  /\ \A j \in 1 .. Len(m.blocks) :
       m.blocks[j].type \in ToolTypes => f[j] \in 1 .. Len(its) /\ StandsFor(its[f[j]], m.blocks[j])
  /\ \A k \in 1 .. Len(its) :
       \/ \E j \in 1 .. Len(m.blocks) : k = f[j] /\ StandsFor(its[k], m.blocks[j])
       \/ /\ its[k].what = "message" /\ k = Len(its) /\ its[k].role = m.role
          /\ its[k].text = MessageText(m) /\ ~IsBlank(MessageText(m))

(* The item of a typed record.                                                *)
LEMMA ItemType ==
  ASSUME NEW what \in {"call", "output", "message", "result"}, NEW call \in Nat,
         NEW role \in {"custom", "function", "user", "assistant", "system"},
         NEW text \in Seq(Pieces) \cup Seq(Names)
  PROVE  /\ Item(what, call, role, text) \in AnyItems
         /\ Item(what, call, role, text).what = what /\ Item(what, call, role, text).call = call
         /\ Item(what, call, role, text).role = role /\ Item(what, call, role, text).text = text
<1> DEFINE Texts == Seq(Pieces) \cup Seq(Names)
<1>1. text \in Texts
  OBVIOUS
<1>2. AnyItems = [what : {"call", "output", "message", "result"}, call : Nat,
                  role : {"custom", "function", "user", "assistant", "system"}, text : Texts]
  BY DEF AnyItems
<1> HIDE DEF Texts
<1> QED BY <1>1, <1>2 DEF Item

(* A single item is a sequence of items.                                      *)
LEMMA OneItem ==
  ASSUME NEW x \in AnyItems
  PROVE  <<x>> \in Seq(AnyItems) /\ Len(<<x>>) = 1 /\ <<x>>[1] = x
OBVIOUS

(* The items of a block.                                                      *)
LEMMA BlockItemIs ==
  ASSUME KindsTyped, NEW b \in Blocks
  PROVE  /\ BlockItem(b) \in Seq(AnyItems)
         /\ b.type \in ToolTypes => Len(BlockItem(b)) = 1 /\ StandsFor(BlockItem(b)[1], b)
         /\ b.type \notin ToolTypes => Len(BlockItem(b)) = 0
<1>1. KindForCall(b.id) \in {"custom", "function"}
  BY DEF KindsTyped, KindForCall
<1> DEFINE kind == KindForCall(b.id)
           c    == Item("call", b.id, kind, <<b.name>>)
           o    == Item("output", b.id, kind, <<>>)
<1>2. b.id \in Nat /\ <<b.name>> \in Seq(Names) /\ <<>> \in Seq(Names)
  BY EmptySeq DEF Blocks
<1>3. c \in AnyItems /\ c.what = "call" /\ c.call = b.id /\ c.role = kind
  <2> DEFINE name == <<b.name>>
             id   == b.id
  <2>1. name \in Seq(Pieces) \cup Seq(Names) /\ id \in Nat
    BY <1>2
  <2>2. "call" \in {"call", "output", "message", "result"}
    OBVIOUS
  <2>3. kind \in {"custom", "function", "user", "assistant", "system"}
    BY <1>1
  <2> HIDE DEF kind, name, id
  <2>4. LET y == Item("call", id, kind, name)
        IN  y \in AnyItems /\ y.what = "call" /\ y.call = id /\ y.role = kind
    BY <2>1, <2>2, <2>3, ItemType
  <2> QED BY <2>4 DEF name, id
<1>4. o \in AnyItems /\ o.what = "output" /\ o.call = b.id /\ o.role = kind
  <2> DEFINE none == <<>>
             id   == b.id
  <2>1. none \in Seq(Pieces) \cup Seq(Names) /\ id \in Nat
    BY <1>2
  <2>2. "output" \in {"call", "output", "message", "result"}
    OBVIOUS
  <2>3. kind \in {"custom", "function", "user", "assistant", "system"}
    BY <1>1
  <2> HIDE DEF kind, none, id
  <2>4. LET y == Item("output", id, kind, none)
        IN  y \in AnyItems /\ y.what = "output" /\ y.call = id /\ y.role = kind
    BY <2>1, <2>2, <2>3, ItemType
  <2> QED BY <2>4 DEF none, id
<1>5. BlockItem(b) = CASE b.type = "tool_use" -> <<c>> [] b.type = "tool_result" -> <<o>> [] OTHER -> <<>>
  BY DEF BlockItem, NoItem
<1> HIDE DEF c, o
<1>6. CASE b.type = "tool_use"
  <2>1. BlockItem(b) = <<c>>
    BY <1>5, <1>6
  <2>2. WhatOf(b.type) = "call" /\ b.type \in ToolTypes
    BY <1>6 DEF WhatOf, ToolTypes
  <2>3. <<c>> \in Seq(AnyItems) /\ Len(<<c>>) = 1 /\ <<c>>[1] = c
    BY <1>3, OneItem
  <2>4. StandsFor(c, b)
    BY <2>2, <1>3 DEF StandsFor
  <2> QED BY <2>1, <2>2, <2>3, <2>4
<1>7. CASE b.type = "tool_result"
  <2>1. BlockItem(b) = <<o>>
    BY <1>5, <1>7
  <2>2. WhatOf(b.type) = "output" /\ b.type \in ToolTypes
    BY <1>7 DEF WhatOf, ToolTypes
  <2>3. <<o>> \in Seq(AnyItems) /\ Len(<<o>>) = 1 /\ <<o>>[1] = o
    BY <1>4, OneItem
  <2>4. StandsFor(o, b)
    BY <2>2, <1>4 DEF StandsFor
  <2> QED BY <2>1, <2>2, <2>3, <2>4
<1>8. CASE b.type \notin ToolTypes
  <2>1. BlockItem(b) = <<>>
    BY <1>5, <1>8 DEF ToolTypes
  <2> QED BY <2>1, <1>8, EmptySeq
<1> QED BY <1>6, <1>7, <1>8 DEF ToolTypes

(* The items of a message: one for every call and result, and the text last.  *)
LEMMA ItemsOfIs ==
  ASSUME KindsTyped, NEW m \in Messages
  PROVE  ItemsOf(m) \in Seq(AnyItems) /\ \E f : ItemsFrom(m, ItemsOf(m), f)
<1> DEFINE b  == m.blocks
           ss == [j \in DOMAIN b |-> BlockItem(b[j])]
           js == Joined(ss)
           p  == MessageText(m)
           x  == Item("message", 0, m.role, p)
           t  == IF IsBlank(p) THEN <<>> ELSE <<x>>
<1>1. /\ b \in Seq(Blocks) /\ Len(b) \in Nat /\ DOMAIN b = 1 .. Len(b)
      /\ \A j \in 1 .. Len(b) : b[j] \in Blocks
  <2>1. b \in Seq(Blocks)
    BY DEF Messages
  <2> HIDE DEF b
  <2> QED BY <2>1, LenProperties
<1>2. m.role \in {"user", "assistant", "system"} /\ p \in Seq(Pieces)
  BY TextType DEF Messages
<1>3. ItemsOf(m) = js \o t
  BY DEF ItemsOf, NoItem
<1> HIDE DEF b
<1>4. /\ \A j \in 1 .. Len(b) :
           /\ ss[j] \in Seq(AnyItems)
           /\ b[j].type \in ToolTypes => Len(ss[j]) = 1 /\ StandsFor(ss[j][1], b[j])
           /\ b[j].type \notin ToolTypes => Len(ss[j]) = 0
  BY <1>1, BlockItemIs
<1>5. ss \in Seq(Seq(AnyItems)) /\ Len(ss) = Len(b)
  <2>1. ss \in [1 .. Len(b) -> Seq(AnyItems)]
    BY <1>1, <1>4
  <2> HIDE DEF ss
  <2> QED BY <2>1, <1>1, SeqDef, LenProperties
<1> HIDE DEF ss
<1>6. js \in Seq(AnyItems)
  BY <1>5, JoinedPlaces
<1>7. PICK at : Placed(ss, js, at)
  BY <1>5, JoinedPlaces
<1> HIDE DEF js, p
<1>8. x \in AnyItems /\ x.what = "message" /\ x.role = m.role /\ x.text = p
  BY <1>2, ItemType
<1> HIDE DEF x
<1>9. t \in Seq(AnyItems) /\ Len(t) \in {0, 1} /\ (Len(t) = 1 => t[1] = x /\ ~IsBlank(p))
  <2>1. <<x>> \in Seq(AnyItems) /\ Len(<<x>>) = 1 /\ <<x>>[1] = x
    BY <1>8, OneItem
  <2>2. <<>> \in Seq(AnyItems) /\ Len(<<>>) = 0
    BY EmptySeq
  <2> QED BY <2>1, <2>2
<1> HIDE DEF t
<1> DEFINE its == js \o t
<1>10. /\ its \in Seq(AnyItems) /\ Len(js) \in Nat /\ Len(its) = Len(js) + Len(t)
       /\ \A i \in 1 .. Len(js) : its[i] = js[i]
       /\ \A j \in 1 .. Len(t) : its[Len(js) + j] = t[j]
  BY <1>6, <1>9, ConcatAt
<1> HIDE DEF its
<1> DEFINE f == [j \in 1 .. Len(b) |-> at[j][1]]
<1>11. \A j \in 1 .. Len(b) : f[j] = at[j][1]
  OBVIOUS
<1> HIDE DEF f
<1>12. ASSUME NEW j \in 1 .. Len(b), b[j].type \in ToolTypes
       PROVE  f[j] \in 1 .. Len(its) /\ StandsFor(its[f[j]], b[j])
  <2>1. Len(ss[j]) = 1 /\ StandsFor(ss[j][1], b[j]) /\ j \in 1 .. Len(ss)
    BY <1>4, <1>5, <1>12
  <2>2. 1 \in 1 .. Len(ss[j])
    BY <2>1
  <2>3. at[j][1] \in 1 .. Len(js) /\ js[at[j][1]] = ss[j][1]
    BY <1>7, <2>1, <2>2 DEF Placed
  <2>4. at[j][1] \in 1 .. Len(its) /\ its[at[j][1]] = ss[j][1]
    BY <2>3, <1>9, <1>10
  <2> QED BY <2>1, <2>4, <1>11
<1>13. ASSUME NEW k \in 1 .. Len(its)
       PROVE  \/ \E j \in 1 .. Len(b) : k = f[j] /\ StandsFor(its[k], b[j])
              \/ /\ its[k].what = "message" /\ k = Len(its) /\ its[k].role = m.role
                 /\ its[k].text = p /\ ~IsBlank(p)
  <2>1. CASE k \in 1 .. Len(js)
    <3>1. PICK j \in 1 .. Len(ss) : \E l \in 1 .. Len(ss[j]) : k = at[j][l]
      BY <2>1, <1>7 DEF Placed
    <3>2. PICK l \in 1 .. Len(ss[j]) : k = at[j][l]
      BY <3>1
    <3>3. j \in 1 .. Len(b) /\ b[j].type \in ToolTypes
      <4>1. j \in 1 .. Len(b)
        BY <1>5
      <4>2. Len(ss[j]) # 0
        OBVIOUS
      <4> QED BY <4>1, <4>2, <1>4
    <3>4. Len(ss[j]) = 1 /\ StandsFor(ss[j][1], b[j])
      BY <3>3, <1>4
    <3>5. l = 1
      BY <3>4
    <3>6. its[k] = ss[j][1]
      <4>1. js[at[j][l]] = ss[j][l]
        BY <1>7 DEF Placed
      <4> QED BY <4>1, <3>2, <3>5, <2>1, <1>10
    <3> QED BY <3>2, <3>3, <3>4, <3>5, <3>6, <1>11
  <2>2. CASE k \notin 1 .. Len(js)
    <3>1. Len(t) = 1 /\ k = Len(js) + 1 /\ k = Len(its)
      BY <2>2, <1>9, <1>10
    <3>2. its[k] = t[1]
      <4>1. 1 \in 1 .. Len(t)
        BY <3>1
      <4> QED BY <4>1, <3>1, <1>10
    <3> QED BY <3>1, <3>2, <1>8, <1>9
  <2> QED BY <2>1, <2>2
<1>14. ItemsFrom(m, its, f)
  BY <1>12, <1>13 DEF ItemsFrom, b, p
<1> QED BY <1>3, <1>10, <1>14 DEF its

(* The items of the messages ms, and of a command the gateway ran.            *)
AllItems(ms) == Joined([i \in DOMAIN ms |-> ItemsOf(ms[i])]) \o ExecutorItems

(* The item x is the text of the message m.                                   *)
IsTextOf(x, m) ==
  x.what = "message" /\ x.role = m.role /\ x.text = MessageText(m) /\ ~IsBlank(MessageText(m))

(* Where the items of ms stand: f[i][j] is the place of the call or result j  *)
(* of message i, t[i] that of its text.                                       *)
SentAt(ms, its, f, t) ==
  /\ \A i \in 1 .. Len(ms) : \A j \in 1 .. Len(ms[i].blocks) :
       ms[i].blocks[j].type \in ToolTypes =>
         f[i][j] \in 1 .. Len(its) /\ StandsFor(its[f[i][j]], ms[i].blocks[j])
  /\ \A x \in 1 .. Len(its) :
       \/ \E i \in 1 .. Len(ms) : \E j \in 1 .. Len(ms[i].blocks) :
            x = f[i][j] /\ StandsFor(its[x], ms[i].blocks[j])
       \/ \E i \in 1 .. Len(ms) : x = t[i] /\ IsTextOf(its[x], ms[i]) /\ ItemsOf(ms[i]) # <<>>
       \/ its[x].what = "result"
  /\ \A i \in 1 .. Len(ms), k \in 1 .. Len(ms) :
       i < k => /\ \A j \in 1 .. Len(ms[i].blocks), l \in 1 .. Len(ms[k].blocks) :
                     ms[i].blocks[j].type \in ToolTypes /\ ms[k].blocks[l].type \in ToolTypes =>
                       f[i][j] < f[k][l]
                /\ ItemsOf(ms[i]) # <<>> /\ ItemsOf(ms[k]) # <<>> => t[i] < t[k]

(* Every call, result and text of a request is sent once, in order, and last  *)
(* the output of the command the gateway ran.                                 *)
LEMMA AllItemsSent ==
  ASSUME KindsTyped, NEW ms \in Seq(Messages)
  PROVE  /\ AllItems(ms) \in Seq(AnyItems)
         /\ \E f, t : SentAt(ms, AllItems(ms), f, t)
         /\ command \in Translated => AllItems(ms)[Len(AllItems(ms))].what = "result"
<1> DEFINE ss == [i \in DOMAIN ms |-> ItemsOf(ms[i])]
           js == Joined(ss)
           r  == Item("result", 0, "user", <<Words>>)
           e  == ExecutorItems
<1>1. Len(ms) \in Nat /\ DOMAIN ms = 1 .. Len(ms) /\ \A i \in 1 .. Len(ms) : ms[i] \in Messages
  BY MessageTypes
<1>2. \A i \in 1 .. Len(ms) :
        ss[i] = ItemsOf(ms[i]) /\ ss[i] \in Seq(AnyItems) /\ \E h : ItemsFrom(ms[i], ss[i], h)
  BY <1>1, ItemsOfIs
<1>3. ss \in Seq(Seq(AnyItems)) /\ Len(ss) = Len(ms)
  <2>1. ss \in [1 .. Len(ms) -> Seq(AnyItems)]
    BY <1>1, <1>2
  <2> HIDE DEF ss
  <2> QED BY <2>1, <1>1, SeqDef, LenProperties
<1>4. AllItems(ms) = js \o e
  BY DEF AllItems
<1> HIDE DEF ss
<1>5. js \in Seq(AnyItems)
  BY <1>3, JoinedPlaces
<1>6. PICK at : Placed(ss, js, at)
  BY <1>3, JoinedPlaces
<1> HIDE DEF js
<1>7. r \in AnyItems /\ r.what = "result"
  <2>1. Words \in Pieces
    BY NamesAssumption DEF Words, Piece, Pieces
  <2>2. <<Words>> \in Seq(Pieces) \cup Seq(Names)
    BY <2>1
  <2> DEFINE w == <<Words>>
  <2>3. w \in Seq(Pieces) \cup Seq(Names)
    BY <2>2
  <2> HIDE DEF w
  <2>4. LET y == Item("result", 0, "user", w) IN y \in AnyItems /\ y.what = "result"
    BY <2>3, ItemType
  <2> QED BY <2>4 DEF w
<1>8. e = IF command \in Translated THEN <<r>> ELSE <<>>
  BY DEF ExecutorItems, NoItem
<1> HIDE DEF r, e
<1>9. /\ e \in Seq(AnyItems) /\ Len(e) \in {0, 1}
      /\ Len(e) = 1 => e[1].what = "result"
      /\ command \in Translated => Len(e) = 1
  <2>1. <<r>> \in Seq(AnyItems) /\ Len(<<r>>) = 1 /\ <<r>>[1] = r
    BY <1>7, OneItem
  <2>2. <<>> \in Seq(AnyItems) /\ Len(<<>>) = 0
    BY EmptySeq
  <2> QED BY <2>1, <2>2, <1>7, <1>8
<1> DEFINE its == js \o e
<1>10. /\ its \in Seq(AnyItems) /\ Len(js) \in Nat /\ Len(its) = Len(js) + Len(e)
       /\ \A i \in 1 .. Len(js) : its[i] = js[i]
       /\ \A j \in 1 .. Len(e) : its[Len(js) + j] = e[j]
  BY <1>5, <1>9, ConcatAt
<1> HIDE DEF its
<1>18. Len(js) \in Nat /\ (Len(e) = 0 \/ Len(e) = 1) /\ Len(its) = Len(js) + Len(e)
  BY <1>9, <1>10
<1>19. \A y \in 1 .. Len(js) : y \in 1 .. Len(its)
  BY ONLY <1>18
<1>20. ASSUME NEW y \in 1 .. Len(its), y \notin 1 .. Len(js)
       PROVE  Len(e) = 1 /\ y = Len(js) + 1 /\ y = Len(its)
  <2> DEFINE a == Len(js)
             b == Len(e)
             n == Len(its)
  <2>1. a \in Nat /\ (b = 0 \/ b = 1) /\ n = a + b /\ y \in 1 .. n /\ y \notin 1 .. a
    BY <1>18, <1>20
  <2> HIDE DEF a, b, n
  <2>2. b = 1 /\ y = a + 1 /\ y = n
    BY ONLY <2>1
  <2> QED BY <2>2 DEF a, b, n
<1> DEFINE g == [i \in 1 .. Len(ms) |-> CHOOSE h : ItemsFrom(ms[i], ss[i], h)]
<1>11. \A i \in 1 .. Len(ms) : ItemsFrom(ms[i], ss[i], g[i])
  <2>1. TAKE i \in 1 .. Len(ms)
  <2>2. g[i] = CHOOSE h : ItemsFrom(ms[i], ss[i], h)
    OBVIOUS
  <2> HIDE DEF g
  <2> QED BY <2>2, <1>2
<1> HIDE DEF g
<1> DEFINE f == [i \in 1 .. Len(ms) |-> [j \in 1 .. Len(ms[i].blocks) |-> at[i][g[i][j]]]]
           t == [i \in 1 .. Len(ms) |-> at[i][Len(ss[i])]]
<1>12. /\ \A i \in 1 .. Len(ms) : \A j \in 1 .. Len(ms[i].blocks) : f[i][j] = at[i][g[i][j]]
       /\ \A i \in 1 .. Len(ms) : t[i] = at[i][Len(ss[i])]
  OBVIOUS
<1> HIDE DEF f, t
<1>13. ASSUME NEW i \in 1 .. Len(ms), NEW j \in 1 .. Len(ms[i].blocks), ms[i].blocks[j].type \in ToolTypes
       PROVE  /\ g[i][j] \in 1 .. Len(ss[i])
              /\ f[i][j] \in 1 .. Len(its) /\ StandsFor(its[f[i][j]], ms[i].blocks[j])
  <2>1. g[i][j] \in 1 .. Len(ss[i]) /\ StandsFor(ss[i][g[i][j]], ms[i].blocks[j]) /\ i \in 1 .. Len(ss)
    BY <1>3, <1>11, <1>13 DEF ItemsFrom
  <2>2. at[i][g[i][j]] \in 1 .. Len(js) /\ js[at[i][g[i][j]]] = ss[i][g[i][j]]
    BY <2>1, <1>6 DEF Placed
  <2>3. at[i][g[i][j]] \in 1 .. Len(its) /\ its[at[i][g[i][j]]] = ss[i][g[i][j]]
    BY <2>2, <1>10, <1>19
  <2> QED BY <2>1, <2>3, <1>12
<1>14. ASSUME NEW x \in 1 .. Len(its)
       PROVE  \/ \E i \in 1 .. Len(ms) : \E j \in 1 .. Len(ms[i].blocks) :
                   x = f[i][j] /\ StandsFor(its[x], ms[i].blocks[j])
              \/ \E i \in 1 .. Len(ms) : x = t[i] /\ IsTextOf(its[x], ms[i]) /\ ItemsOf(ms[i]) # <<>>
              \/ its[x].what = "result"
  <2>1. CASE x \in 1 .. Len(js)
    <3>1. PICK i \in 1 .. Len(ss) : \E k \in 1 .. Len(ss[i]) : x = at[i][k]
      BY <2>1, <1>6 DEF Placed
    <3>2. PICK k \in 1 .. Len(ss[i]) : x = at[i][k]
      BY <3>1
    <3>3. its[x] = ss[i][k] /\ i \in 1 .. Len(ms)
      <4>1. js[at[i][k]] = ss[i][k]
        BY <1>6 DEF Placed
      <4> QED BY <4>1, <3>2, <2>1, <1>3, <1>10
    <3>4. CASE \E j \in 1 .. Len(ms[i].blocks) : k = g[i][j] /\ StandsFor(ss[i][k], ms[i].blocks[j])
      BY <3>2, <3>3, <3>4, <1>12
    <3>5. CASE /\ ss[i][k].what = "message" /\ k = Len(ss[i]) /\ ss[i][k].role = ms[i].role
               /\ ss[i][k].text = MessageText(ms[i]) /\ ~IsBlank(MessageText(ms[i]))
      <4>1. ItemsOf(ms[i]) # <<>>
        <5>1. Len(ss[i]) # 0 /\ ss[i] = ItemsOf(ms[i])
          BY <1>2, <3>3
        <5> QED BY <5>1, EmptySeq
      <4>2. x = t[i] /\ IsTextOf(its[x], ms[i])
        BY <3>2, <3>3, <3>5, <1>12 DEF IsTextOf
      <4> QED BY <4>1, <4>2, <3>3
    <3> QED BY <3>3, <3>4, <3>5, <1>11 DEF ItemsFrom
  <2>2. CASE x \notin 1 .. Len(js)
    <3>1. Len(e) = 1 /\ x = Len(js) + 1
      BY <2>2, <1>20
    <3>2. its[x] = e[1]
      <4>1. 1 \in 1 .. Len(e)
        BY <3>1
      <4> QED BY <4>1, <3>1, <1>10
    <3> QED BY <3>1, <3>2, <1>9
  <2> QED BY <2>1, <2>2
<1>15. ASSUME NEW i \in 1 .. Len(ms), NEW k \in 1 .. Len(ms), i < k
       PROVE  /\ \A j \in 1 .. Len(ms[i].blocks), l \in 1 .. Len(ms[k].blocks) :
                   ms[i].blocks[j].type \in ToolTypes /\ ms[k].blocks[l].type \in ToolTypes =>
                     f[i][j] < f[k][l]
              /\ ItemsOf(ms[i]) # <<>> /\ ItemsOf(ms[k]) # <<>> => t[i] < t[k]
  <2>1. \A a \in 1 .. Len(ss[i]), b \in 1 .. Len(ss[k]) : at[i][a] < at[k][b]
    BY <1>3, <1>6, <1>15 DEF Placed
  <2>2. ASSUME NEW j \in 1 .. Len(ms[i].blocks), NEW l \in 1 .. Len(ms[k].blocks),
               ms[i].blocks[j].type \in ToolTypes, ms[k].blocks[l].type \in ToolTypes
        PROVE  f[i][j] < f[k][l]
    <3>1. g[i][j] \in 1 .. Len(ss[i]) /\ g[k][l] \in 1 .. Len(ss[k])
      BY <1>13, <2>2
    <3> QED BY <3>1, <2>1, <1>12
  <2>3. ASSUME ItemsOf(ms[i]) # <<>>, ItemsOf(ms[k]) # <<>>
        PROVE  t[i] < t[k]
    <3>1. ss[i] # <<>> /\ ss[k] # <<>> /\ ss[i] \in Seq(AnyItems) /\ ss[k] \in Seq(AnyItems)
      BY <2>3, <1>2
    <3> DEFINE a == ss[i]
               b == ss[k]
    <3>2. Len(a) \in 1 .. Len(a) /\ Len(b) \in 1 .. Len(b)
      <4>1. a \in Seq(AnyItems) /\ b \in Seq(AnyItems) /\ a # <<>> /\ b # <<>>
        BY <3>1
      <4> HIDE DEF a, b
      <4> QED BY <4>1, EmptySeq, LenProperties
    <3>3. Len(ss[i]) \in 1 .. Len(ss[i]) /\ Len(ss[k]) \in 1 .. Len(ss[k])
      BY <3>2
    <3> HIDE DEF a, b
    <3>4. at[i][Len(ss[i])] < at[k][Len(ss[k])]
      BY <3>3, <2>1
    <3>5. t[i] = at[i][Len(ss[i])] /\ t[k] = at[k][Len(ss[k])]
      BY <1>12
    <3> QED BY <3>4, <3>5
  <2>4. \A j \in 1 .. Len(ms[i].blocks), l \in 1 .. Len(ms[k].blocks) :
          ms[i].blocks[j].type \in ToolTypes /\ ms[k].blocks[l].type \in ToolTypes =>
            f[i][j] < f[k][l]
    BY <2>2
  <2> QED BY <2>3, <2>4
<1>16. SentAt(ms, its, f, t)
  BY <1>13, <1>14, <1>15 DEF SentAt
<1>17. ASSUME command \in Translated PROVE its[Len(its)].what = "result"
  <2>3. Len(e) = 1
    BY <1>9, <1>17
  <2>1. Len(e) = 1 /\ 1 \in 1 .. Len(e) /\ Len(its) = Len(js) + 1
    BY ONLY <2>3, <1>18
  <2>2. its[Len(js) + 1] = e[1]
    BY <2>1, <1>10
  <2> QED BY <2>1, <2>2, <1>9
<1> QED BY <1>4, <1>10, <1>16, <1>17 DEF its

(* A call that is answered is sent once, and its result once, after it.       *)
LEMMA AnsweredIsSent ==
  ASSUME KindsTyped, NEW ms \in Seq(Messages), NEW c, Answered(ms, c)
  PROVE  LET its == AllItems(ms)
             Of(what) == {x \in DOMAIN its : its[x].what = what /\ its[x].call = c}
         IN /\ Cardinality(Of("call")) = 1 /\ Cardinality(Of("output")) = 1
            /\ \A x \in Of("call"), y \in Of("output") : x < y /\ its[x].role = its[y].role
<1> DEFINE its == AllItems(ms)
<1>1. its \in Seq(AnyItems) /\ DOMAIN its = 1 .. Len(its)
  <2>1. its \in Seq(AnyItems)
    BY AllItemsSent
  <2> HIDE DEF its
  <2> QED BY <2>1, LenProperties
<1>2. PICK f, t : SentAt(ms, its, f, t)
  BY AllItemsSent
<1> HIDE DEF its
<1>3. PICK i1, j1, i2, j2 : /\ OnlyAt(ms, "tool_use", c, i1, j1)
                            /\ OnlyAt(ms, "tool_result", c, i2, j2)
                            /\ i1 < i2
  BY DEF Answered
<1>4. "tool_use" \in ToolTypes /\ "tool_result" \in ToolTypes
  BY DEF ToolTypes
<1>5. ASSUME NEW type \in ToolTypes, NEW i, NEW j, OnlyAt(ms, type, c, i, j)
      PROVE  /\ f[i][j] \in DOMAIN its /\ its[f[i][j]].what = WhatOf(type)
             /\ its[f[i][j]].call = c /\ its[f[i][j]].role = KindForCall(c)
             /\ \A x \in DOMAIN its : its[x].what = WhatOf(type) /\ its[x].call = c => x = f[i][j]
  <2>1. /\ i \in 1 .. Len(ms) /\ j \in 1 .. Len(ms[i].blocks)
        /\ ms[i].blocks[j].type = type /\ ms[i].blocks[j].id = c
    BY <1>5 DEF OnlyAt
  <2>2. f[i][j] \in 1 .. Len(its) /\ StandsFor(its[f[i][j]], ms[i].blocks[j])
    BY <2>1, <1>2 DEF SentAt
  <2>3. ASSUME NEW x \in 1 .. Len(its), its[x].what = WhatOf(type), its[x].call = c
        PROVE  x = f[i][j]
    <3>1. its[x].what \in {"call", "output"}
      BY <2>3 DEF WhatOf
    <3>2. PICK k \in 1 .. Len(ms) : \E l \in 1 .. Len(ms[k].blocks) :
                x = f[k][l] /\ StandsFor(its[x], ms[k].blocks[l])
      BY <3>1, <1>2 DEF SentAt, IsTextOf
    <3>3. PICK l \in 1 .. Len(ms[k].blocks) : x = f[k][l] /\ StandsFor(its[x], ms[k].blocks[l])
      BY <3>2
    <3>4. ms[k].blocks[l].type = type /\ ms[k].blocks[l].id = c
      BY <3>3, <2>3, <1>5 DEF StandsFor, WhatOf, ToolTypes
    <3>5. k = i /\ l = j
      BY <3>4, <1>5 DEF OnlyAt
    <3> QED BY <3>3, <3>5
  <2> QED BY <2>1, <2>2, <2>3, <1>1 DEF StandsFor
<1>6. WhatOf("tool_use") = "call" /\ WhatOf("tool_result") = "output"
  BY DEF WhatOf
<1> DEFINE Of(what) == {x \in DOMAIN its : its[x].what = what /\ its[x].call = c}
           a == f[i1][j1]
           b == f[i2][j2]
<1>7. Of("call") = {a} /\ its[a].role = KindForCall(c)
  BY <1>3, <1>4, <1>5, <1>6
<1>8. Of("output") = {b} /\ its[b].role = KindForCall(c)
  BY <1>3, <1>4, <1>5, <1>6
<1>9. a < b
  <2>1. /\ i1 \in 1 .. Len(ms) /\ j1 \in 1 .. Len(ms[i1].blocks) /\ ms[i1].blocks[j1].type \in ToolTypes
        /\ i2 \in 1 .. Len(ms) /\ j2 \in 1 .. Len(ms[i2].blocks) /\ ms[i2].blocks[j2].type \in ToolTypes
    BY <1>3, <1>4 DEF OnlyAt
  <2> QED BY <2>1, <1>2, <1>3 DEF SentAt
<1> HIDE DEF a, b
<1>10. Cardinality({a}) = 1 /\ Cardinality({b}) = 1
  BY FS_Singleton
<1> QED BY <1>7, <1>8, <1>9, <1>10 DEF its

--------------------------------------------------------------------------------
(* The transcript of the client. *)

(* The calls of the messages ms.                                              *)
CallsOf(ms) == {At(ms, p).id : p \in {p \in Positions(ms) : At(ms, p).type = "tool_use"}}

(* A block as the client writes it.                                           *)
IsFresh(b) == /\ b.cleared = FALSE /\ (b.type # "text" => b.text = <<>>)
              /\ CommandsAreNamed(b.text)

(* The messages of a client whose every call was answered.                    *)
IsTranscript(ms) ==
  /\ ms \in Seq(Messages)
  /\ \A i \in 1 .. Len(ms) : \A j \in 1 .. Len(ms[i].blocks) :
       /\ IsFresh(ms[i].blocks[j])
       /\ ms[i].blocks[j].type \in ToolTypes => ms[i].blocks[j].id \in CallsOf(ms)
  /\ \E n \in Nat : CallsOf(ms) = 1 .. n
  /\ \A c \in CallsOf(ms) : Answered(ms, c)

(* The positions of the blocks.                                               *)
LEMMA PositionsAre ==
  ASSUME NEW ms \in Seq(Messages)
  PROVE  /\ \A p \in Positions(ms) : \E i \in 1 .. Len(ms) : \E j \in 1 .. Len(ms[i].blocks) :
              p = <<i, j>> /\ p[1] = i /\ p[2] = j /\ At(ms, p) = ms[i].blocks[j]
         /\ \A i \in 1 .. Len(ms) : \A j \in 1 .. Len(ms[i].blocks) :
              <<i, j>> \in Positions(ms) /\ At(ms, <<i, j>>) = ms[i].blocks[j]
<1>1. DOMAIN ms = 1 .. Len(ms) /\ \A i \in 1 .. Len(ms) : DOMAIN ms[i].blocks = 1 .. Len(ms[i].blocks)
  BY MessageTypes
<1>2. ASSUME NEW p \in Positions(ms)
      PROVE  \E i \in 1 .. Len(ms) : \E j \in 1 .. Len(ms[i].blocks) :
               p = <<i, j>> /\ p[1] = i /\ p[2] = j /\ At(ms, p) = ms[i].blocks[j]
  <2>1. PICK i \in 1 .. Len(ms) : p \in {<<i, j>> : j \in DOMAIN ms[i].blocks}
    BY <1>1 DEF Positions
  <2>2. PICK j \in 1 .. Len(ms[i].blocks) : p = <<i, j>>
    BY <1>1, <2>1
  <2> QED BY <2>2 DEF At
<1>3. ASSUME NEW i \in 1 .. Len(ms), NEW j \in 1 .. Len(ms[i].blocks)
      PROVE  <<i, j>> \in Positions(ms) /\ At(ms, <<i, j>>) = ms[i].blocks[j]
  BY <1>1 DEF Positions, At
<1> QED BY <1>2, <1>3

(* What makes an id a call.                                                   *)
LEMMA CallsOfAre ==
  ASSUME NEW ms \in Seq(Messages), NEW c
  PROVE  c \in CallsOf(ms) <=>
           \E i \in 1 .. Len(ms) : \E j \in 1 .. Len(ms[i].blocks) :
             ms[i].blocks[j].type = "tool_use" /\ ms[i].blocks[j].id = c
<1>1. ASSUME c \in CallsOf(ms)
      PROVE  \E i \in 1 .. Len(ms) : \E j \in 1 .. Len(ms[i].blocks) :
               ms[i].blocks[j].type = "tool_use" /\ ms[i].blocks[j].id = c
  <2>1. PICK p \in Positions(ms) : At(ms, p).type = "tool_use" /\ At(ms, p).id = c
    BY <1>1 DEF CallsOf
  <2> QED BY <2>1, PositionsAre
<1>2. ASSUME NEW i \in 1 .. Len(ms), NEW j \in 1 .. Len(ms[i].blocks),
             ms[i].blocks[j].type = "tool_use", ms[i].blocks[j].id = c
      PROVE  c \in CallsOf(ms)
  <2>1. <<i, j>> \in Positions(ms) /\ At(ms, <<i, j>>) = ms[i].blocks[j]
    BY PositionsAre
  <2> QED BY <2>1, <1>2 DEF CallsOf
<1> QED BY <1>1, <1>2

(* Messages appended to others.                                               *)
LEMMA AppendedAt ==
  ASSUME NEW ms \in Seq(Messages), NEW new \in Seq(Messages)
  PROVE  /\ ms \o new \in Seq(Messages)
         /\ Len(ms) \in Nat /\ Len(new) \in Nat /\ Len(ms \o new) = Len(ms) + Len(new)
         /\ \A i \in 1 .. Len(ms) : i \in 1 .. Len(ms \o new) /\ (ms \o new)[i] = ms[i]
         /\ \A k \in 1 .. Len(new) : Len(ms) + k \in 1 .. Len(ms \o new)
                                     /\ (ms \o new)[Len(ms) + k] = new[k]
         /\ \A i \in 1 .. Len(ms \o new) :
              i \in 1 .. Len(ms) \/ \E k \in 1 .. Len(new) : i = Len(ms) + k
<1>1. /\ ms \o new \in Seq(Messages)
      /\ Len(ms) \in Nat /\ Len(new) \in Nat /\ Len(ms \o new) = Len(ms) + Len(new)
      /\ \A i \in 1 .. Len(ms) : (ms \o new)[i] = ms[i]
      /\ \A k \in 1 .. Len(new) : (ms \o new)[Len(ms) + k] = new[k]
  BY ConcatAt
<1> DEFINE a == Len(ms)
           b == Len(new)
           n == Len(ms \o new)
<1>2. a \in Nat /\ b \in Nat /\ n = a + b
  BY <1>1
<1> HIDE DEF a, b, n
<1>3. /\ \A i \in 1 .. a : i \in 1 .. n
      /\ \A k \in 1 .. b : a + k \in 1 .. n
  BY ONLY <1>2
<1>4. ASSUME NEW i \in 1 .. n, i \notin 1 .. a PROVE \E k \in 1 .. b : i = a + k
  <2>1. i - a \in 1 .. b /\ i = a + (i - a)
    BY ONLY <1>2, <1>4
  <2> QED BY <2>1
<1> QED BY <1>1, <1>3, <1>4 DEF a, b, n

(* Appending messages without the call or result keeps it the only one.       *)
LEMMA OnlyAtAppended ==
  ASSUME NEW ms \in Seq(Messages), NEW new \in Seq(Messages), NEW type, NEW c, NEW i, NEW j,
         OnlyAt(ms, type, c, i, j),
         \A k \in 1 .. Len(new) : \A l \in 1 .. Len(new[k].blocks) :
           ~(new[k].blocks[l].type = type /\ new[k].blocks[l].id = c)
  PROVE  OnlyAt(ms \o new, type, c, i, j)
<1> DEFINE all == ms \o new
<1>1. /\ \A k \in 1 .. Len(ms) : k \in 1 .. Len(all) /\ all[k] = ms[k]
      /\ \A k \in 1 .. Len(new) : all[Len(ms) + k] = new[k]
      /\ \A k \in 1 .. Len(all) : k \in 1 .. Len(ms) \/ \E l \in 1 .. Len(new) : k = Len(ms) + l
  BY AppendedAt
<1> HIDE DEF all
<1>2. ASSUME NEW k \in 1 .. Len(all), NEW l \in 1 .. Len(all[k].blocks),
             all[k].blocks[l].type = type, all[k].blocks[l].id = c
      PROVE  k = i /\ l = j
  <2>1. CASE k \in 1 .. Len(ms)
    <3>1. all[k] = ms[k]
      BY <2>1, <1>1
    <3> QED BY <3>1, <2>1, <1>2 DEF OnlyAt
  <2>2. CASE k \notin 1 .. Len(ms)
    <3>1. PICK h \in 1 .. Len(new) : k = Len(ms) + h
      BY <2>2, <1>1
    <3>2. all[k] = new[h]
      BY <3>1, <1>1
    <3> QED BY <3>2, <1>2
  <2> QED BY <2>1, <2>2
<1>3. /\ i \in 1 .. Len(all) /\ all[i] = ms[i] /\ all[i].role # "system" /\ j \in 1 .. Len(all[i].blocks)
      /\ all[i].blocks[j].type = type /\ all[i].blocks[j].id = c
  BY <1>1 DEF OnlyAt
<1>4. OnlyAt(all, type, c, i, j)
  BY <1>2, <1>3 DEF OnlyAt
<1> QED BY <1>4 DEF all

(* What the user says adds no call and no result.                             *)
LEMMA SpeechKeepsTranscript ==
  ASSUME NEW ms, IsTranscript(ms), NEW new \in Seq(Messages),
         \A k \in 1 .. Len(new) : \A l \in 1 .. Len(new[k].blocks) :
           IsFresh(new[k].blocks[l]) /\ new[k].blocks[l].type = "text"
  PROVE  IsTranscript(ms \o new)
<1> DEFINE all == ms \o new
<1>1. ms \in Seq(Messages)
  BY DEF IsTranscript
<1>2. /\ all \in Seq(Messages)
      /\ \A k \in 1 .. Len(ms) : k \in 1 .. Len(all) /\ all[k] = ms[k]
      /\ \A k \in 1 .. Len(new) : all[Len(ms) + k] = new[k]
      /\ \A k \in 1 .. Len(all) : k \in 1 .. Len(ms) \/ \E l \in 1 .. Len(new) : k = Len(ms) + l
  BY <1>1, AppendedAt
<1>3. \A type \in ToolTypes : \A c, i, j : OnlyAt(ms, type, c, i, j) => OnlyAt(all, type, c, i, j)
  <2>1. \A type \in ToolTypes : \A c :
          \A k \in 1 .. Len(new) : \A l \in 1 .. Len(new[k].blocks) :
            ~(new[k].blocks[l].type = type /\ new[k].blocks[l].id = c)
    BY DEF ToolTypes
  <2> QED BY <1>1, <2>1, OnlyAtAppended
<1> HIDE DEF all
<1>4. CallsOf(all) = CallsOf(ms)
  <2>1. ASSUME NEW c \in CallsOf(all) PROVE c \in CallsOf(ms)
    <3>1. PICK i \in 1 .. Len(all) : \E j \in 1 .. Len(all[i].blocks) :
                 all[i].blocks[j].type = "tool_use" /\ all[i].blocks[j].id = c
      BY <1>2, <2>1, CallsOfAre
    <3>2. PICK j \in 1 .. Len(all[i].blocks) : all[i].blocks[j].type = "tool_use" /\ all[i].blocks[j].id = c
      BY <3>1
    <3>3. i \in 1 .. Len(ms)
      <4>1. ASSUME NEW h \in 1 .. Len(new), i = Len(ms) + h PROVE FALSE
        <5>1. all[i] = new[h]
          BY <4>1, <1>2
        <5> QED BY <5>1, <3>2
      <4> QED BY <4>1, <1>2
    <3>4. all[i] = ms[i]
      BY <3>3, <1>2
    <3> QED BY <3>2, <3>3, <3>4, <1>1, CallsOfAre
  <2>2. ASSUME NEW c \in CallsOf(ms) PROVE c \in CallsOf(all)
    <3>1. PICK i \in 1 .. Len(ms) : \E j \in 1 .. Len(ms[i].blocks) :
                 ms[i].blocks[j].type = "tool_use" /\ ms[i].blocks[j].id = c
      BY <1>1, <2>2, CallsOfAre
    <3>2. i \in 1 .. Len(all) /\ all[i] = ms[i]
      BY <1>2
    <3> QED BY <3>1, <3>2, <1>2, CallsOfAre
  <2> QED BY <2>1, <2>2
<1>5. ASSUME NEW i \in 1 .. Len(all), NEW j \in 1 .. Len(all[i].blocks)
      PROVE  /\ IsFresh(all[i].blocks[j])
             /\ all[i].blocks[j].type \in ToolTypes => all[i].blocks[j].id \in CallsOf(all)
  <2>1. CASE i \in 1 .. Len(ms)
    <3>1. all[i] = ms[i]
      BY <2>1, <1>2
    <3> QED BY <3>1, <2>1, <1>4 DEF IsTranscript
  <2>2. CASE i \notin 1 .. Len(ms)
    <3>1. PICK h \in 1 .. Len(new) : i = Len(ms) + h
      BY <2>2, <1>2
    <3>2. all[i] = new[h]
      BY <3>1, <1>2
    <3>3. IsFresh(all[i].blocks[j]) /\ all[i].blocks[j].type = "text"
      BY <3>2
    <3> QED BY <3>3 DEF ToolTypes
  <2> QED BY <2>1, <2>2
<1>6. ASSUME NEW c \in CallsOf(all) PROVE Answered(all, c)
  <2>1. PICK i1, j1, i2, j2 : /\ OnlyAt(ms, "tool_use", c, i1, j1)
                              /\ OnlyAt(ms, "tool_result", c, i2, j2)
                              /\ i1 < i2
    BY <1>4, <1>6 DEF IsTranscript, Answered
  <2>2. OnlyAt(all, "tool_use", c, i1, j1) /\ OnlyAt(all, "tool_result", c, i2, j2)
    BY <2>1, <1>3 DEF ToolTypes
  <2> QED BY <2>1, <2>2 DEF Answered
<1>7. \E n \in Nat : CallsOf(all) = 1 .. n
  BY <1>4 DEF IsTranscript
<1>8. IsTranscript(all)
  BY <1>2, <1>5, <1>6, <1>7 DEF IsTranscript
<1> QED BY <1>8 DEF all

(* The message m has one call or result, that of c in block j.                *)
HasOneTool(m, type, c, j) ==
  /\ m \in Messages /\ m.role # "system"
  /\ j \in 1 .. Len(m.blocks) /\ m.blocks[j].type = type /\ m.blocks[j].id = c
  /\ \A l \in 1 .. Len(m.blocks) :
       IsFresh(m.blocks[l]) /\ (m.blocks[l].type \in ToolTypes => l = j)

(* A tool round adds a new call and its result.                               *)
LEMMA RoundKeepsTranscript ==
  ASSUME NEW ms, IsTranscript(ms), NEW n \in Nat, CallsOf(ms) = 1 .. n,
         NEW a, NEW u, NEW ja, NEW ju,
         HasOneTool(a, "tool_use", n + 1, ja), HasOneTool(u, "tool_result", n + 1, ju)
  PROVE  IsTranscript(ms \o <<a, u>>)
<1> DEFINE new == <<a, u>>
           all == ms \o new
           c == n + 1
           L == Len(ms)
<1>1. ms \in Seq(Messages) /\ a \in Messages /\ u \in Messages
  BY DEF IsTranscript, HasOneTool
<1>2. new \in Seq(Messages) /\ Len(new) = 2 /\ new[1] = a /\ new[2] = u
  BY <1>1
<1> HIDE DEF new
<1>3. /\ all \in Seq(Messages) /\ L \in Nat /\ Len(all) = L + 2
      /\ \A k \in 1 .. L : k \in 1 .. Len(all) /\ all[k] = ms[k]
      /\ \A k \in 1 .. Len(all) : k \in 1 .. L \/ k = L + 1 \/ k = L + 2
      /\ all[L + 1] = a /\ all[L + 2] = u
      /\ L + 1 \in 1 .. Len(all) /\ L + 2 \in 1 .. Len(all)
  <2>1. /\ all \in Seq(Messages) /\ L \in Nat /\ Len(all) = L + Len(new)
        /\ \A k \in 1 .. L : k \in 1 .. Len(all) /\ all[k] = ms[k]
        /\ \A k \in 1 .. Len(new) : L + k \in 1 .. Len(all) /\ all[L + k] = new[k]
        /\ \A k \in 1 .. Len(all) : k \in 1 .. L \/ \E l \in 1 .. Len(new) : k = L + l
    BY <1>1, <1>2, AppendedAt
  <2> HIDE DEF all, L
  <2>2. 1 \in 1 .. Len(new) /\ 2 \in 1 .. Len(new) /\ \A l \in 1 .. Len(new) : l = 1 \/ l = 2
    BY <1>2
  <2> QED BY <2>1, <2>2, <1>2
<1>4. \A type \in ToolTypes : \A d \in CallsOf(ms) : \A i, j :
        OnlyAt(ms, type, d, i, j) => OnlyAt(all, type, d, i, j)
  <2>1. ASSUME NEW type \in ToolTypes, NEW d \in CallsOf(ms), NEW k \in 1 .. Len(new),
               NEW l \in 1 .. Len(new[k].blocks), new[k].blocks[l].type = type, new[k].blocks[l].id = d
        PROVE  FALSE
    <3>1. d # n + 1
      BY <2>1
    <3>2. new[k] = a \/ new[k] = u
      <4>1. k = 1 \/ k = 2
        BY <1>2
      <4> QED BY <4>1, <1>2
    <3> QED BY <3>1, <3>2, <2>1 DEF HasOneTool
  <2> QED BY <1>1, <1>2, <2>1, OnlyAtAppended
<1> HIDE DEF all, L
<1>5. CallsOf(all) = CallsOf(ms) \cup {c}
  <2>1. ASSUME NEW d \in CallsOf(all) PROVE d \in CallsOf(ms) \cup {c}
    <3>1. PICK i \in 1 .. Len(all) : \E j \in 1 .. Len(all[i].blocks) :
                 all[i].blocks[j].type = "tool_use" /\ all[i].blocks[j].id = d
      BY <1>3, <2>1, CallsOfAre
    <3>2. PICK j \in 1 .. Len(all[i].blocks) : all[i].blocks[j].type = "tool_use" /\ all[i].blocks[j].id = d
      BY <3>1
    <3>3. CASE i \in 1 .. L
      <4>1. all[i] = ms[i] /\ i \in 1 .. Len(ms)
        BY <3>3, <1>3 DEF L
      <4>2. ms[i].blocks[j].type = "tool_use" /\ ms[i].blocks[j].id = d /\ j \in 1 .. Len(ms[i].blocks)
        BY <3>2, <4>1
      <4>3. d \in CallsOf(ms)
        BY <4>1, <4>2, <1>1, CallsOfAre
      <4> QED BY <4>3
    <3>4. CASE i = L + 1
      <4>1. all[i] = a
        BY <3>4, <1>3
      <4> QED BY <3>2, <4>1 DEF HasOneTool, ToolTypes
    <3>5. CASE i = L + 2
      <4>1. all[i] = u
        BY <3>5, <1>3
      <4> QED BY <3>2, <4>1 DEF HasOneTool, ToolTypes
    <3> QED BY <3>3, <3>4, <3>5, <1>3
  <2>2. ASSUME NEW d \in CallsOf(ms) PROVE d \in CallsOf(all)
    <3>1. PICK i \in 1 .. Len(ms) : \E j \in 1 .. Len(ms[i].blocks) :
                 ms[i].blocks[j].type = "tool_use" /\ ms[i].blocks[j].id = d
      BY <1>1, <2>2, CallsOfAre
    <3>2. i \in 1 .. Len(all) /\ all[i] = ms[i]
      BY <1>3 DEF L
    <3> QED BY <3>1, <3>2, <1>3, CallsOfAre
  <2>3. c \in CallsOf(all)
    <3>1. ja \in 1 .. Len(all[L + 1].blocks) /\ all[L + 1].blocks[ja].type = "tool_use"
          /\ all[L + 1].blocks[ja].id = c
      BY <1>3 DEF HasOneTool
    <3> QED BY <3>1, <1>3, CallsOfAre
  <2> QED BY <2>1, <2>2, <2>3
<1>6. ASSUME NEW i \in 1 .. Len(all), NEW j \in 1 .. Len(all[i].blocks)
      PROVE  /\ IsFresh(all[i].blocks[j])
             /\ all[i].blocks[j].type \in ToolTypes => all[i].blocks[j].id \in CallsOf(all)
  <2>1. CASE i \in 1 .. L
    <3>1. all[i] = ms[i] /\ i \in 1 .. Len(ms)
      BY <2>1, <1>3 DEF L
    <3> QED BY <3>1, <1>5 DEF IsTranscript
  <2>2. CASE i = L + 1
    <3>1. all[i] = a
      BY <2>2, <1>3
    <3> QED BY <3>1, <1>5 DEF HasOneTool
  <2>3. CASE i = L + 2
    <3>1. all[i] = u
      BY <2>3, <1>3
    <3> QED BY <3>1, <1>5 DEF HasOneTool
  <2> QED BY <2>1, <2>2, <2>3, <1>3
<1>8. \A i \in 1 .. Len(ms) : \A j \in 1 .. Len(ms[i].blocks) :
        ms[i].blocks[j].type \in ToolTypes => ms[i].blocks[j].id # c
  <2>1. c \notin CallsOf(ms)
    OBVIOUS
  <2> QED BY <2>1 DEF IsTranscript
<1>9. OnlyAt(all, "tool_use", c, L + 1, ja)
  <2>1. ASSUME NEW k \in 1 .. Len(all), NEW l \in 1 .. Len(all[k].blocks),
               all[k].blocks[l].type = "tool_use", all[k].blocks[l].id = c
        PROVE  k = L + 1 /\ l = ja
    <3>1. CASE k \in 1 .. L
      <4>1. all[k] = ms[k] /\ k \in 1 .. Len(ms)
        BY <3>1, <1>3 DEF L
      <4> QED BY <4>1, <2>1, <1>8 DEF ToolTypes
    <3>2. CASE k = L + 1
      <4>1. all[k] = a
        BY <3>2, <1>3
      <4> QED BY <4>1, <3>2, <2>1 DEF HasOneTool, ToolTypes
    <3>3. CASE k = L + 2
      <4>1. all[k] = u
        BY <3>3, <1>3
      <4>2. l = ju
        BY <4>1, <2>1 DEF HasOneTool, ToolTypes
      <4> QED BY <4>1, <4>2, <2>1 DEF HasOneTool
    <3> QED BY <3>1, <3>2, <3>3, <1>3
  <2> QED BY <2>1, <1>3 DEF OnlyAt, HasOneTool
<1>10. OnlyAt(all, "tool_result", c, L + 2, ju)
  <2>1. ASSUME NEW k \in 1 .. Len(all), NEW l \in 1 .. Len(all[k].blocks),
               all[k].blocks[l].type = "tool_result", all[k].blocks[l].id = c
        PROVE  k = L + 2 /\ l = ju
    <3>1. CASE k \in 1 .. L
      <4>1. all[k] = ms[k] /\ k \in 1 .. Len(ms)
        BY <3>1, <1>3 DEF L
      <4> QED BY <4>1, <2>1, <1>8 DEF ToolTypes
    <3>2. CASE k = L + 2
      <4>1. all[k] = u
        BY <3>2, <1>3
      <4> QED BY <4>1, <3>2, <2>1 DEF HasOneTool, ToolTypes
    <3>3. CASE k = L + 1
      <4>1. all[k] = a
        BY <3>3, <1>3
      <4>2. l = ja
        BY <4>1, <2>1 DEF HasOneTool, ToolTypes
      <4> QED BY <4>1, <4>2, <2>1 DEF HasOneTool
    <3> QED BY <3>1, <3>2, <3>3, <1>3
  <2> QED BY <2>1, <1>3 DEF OnlyAt, HasOneTool
<1>11. ASSUME NEW d \in CallsOf(all) PROVE Answered(all, d)
  <2>1. CASE d \in CallsOf(ms)
    <3>1. PICK i1, j1, i2, j2 : /\ OnlyAt(ms, "tool_use", d, i1, j1)
                                /\ OnlyAt(ms, "tool_result", d, i2, j2)
                                /\ i1 < i2
      BY <2>1 DEF IsTranscript, Answered
    <3>2. OnlyAt(all, "tool_use", d, i1, j1) /\ OnlyAt(all, "tool_result", d, i2, j2)
      BY <3>1, <2>1, <1>4 DEF ToolTypes
    <3> QED BY <3>1, <3>2 DEF Answered
  <2>2. CASE d = c
    <3>1. L + 1 < L + 2
      BY <1>3
    <3> QED BY <3>1, <2>2, <1>9, <1>10 DEF Answered
  <2> QED BY <2>1, <2>2, <1>5, <1>11
<1>12. CallsOf(all) = 1 .. n + 1 /\ n + 1 \in Nat
  BY <1>5
<1>13. IsTranscript(all)
  BY <1>3, <1>6, <1>11, <1>12 DEF IsTranscript
<1> QED BY <1>13 DEF all, new

(* A block of the client's.                                                   *)
LEMMA BlockIs ==
  ASSUME NEW type \in {"text", "tool_use", "tool_result", "thinking"}, NEW id \in Nat,
         NEW name \in Names, NEW size \in Nat, NEW text \in Seq(Pieces)
  PROVE  Block(type, id, name, size, text) \in Blocks
<1> DEFINE Texts == Seq(Pieces)
<1>1. text \in Texts
  OBVIOUS
<1>2. Blocks = [type : {"text", "tool_use", "tool_result", "thinking"}, id : Nat, name : Names,
                size : Nat, text : Texts, cleared : BOOLEAN]
  BY DEF Blocks
<1> HIDE DEF Texts
<1> QED BY <1>1, <1>2 DEF Block

(* A text block.                                                              *)
LEMMA TextIs ==
  ASSUME NEW p \in Seq(Pieces)
  PROVE  Text(p) \in Blocks /\ Text(p).type = "text" /\ Text(p).text = p /\ Text(p).cleared = FALSE
<1>1. Len(p) \in Nat
  BY LenProperties
<1>2. Text(p) = Block("text", 0, "", Len(p), p)
  BY DEF Text
<1> DEFINE b == Block("text", 0, "", Len(p), p)
<1>3. "" \in Names /\ 0 \in Nat /\ "text" \in {"text", "tool_use", "tool_result", "thinking"}
  BY NamesAssumption
<1>4. b \in Blocks
  BY <1>1, <1>3, BlockIs
<1>5. b.type = "text" /\ b.text = p /\ b.cleared = FALSE
  BY DEF Block
<1> QED BY <1>2, <1>4, <1>5

(* What the user writes is fresh text.                                        *)
LEMMA WrittenIsFresh ==
  ASSUME NEW b \in Blocks, IsWritten(b)
  PROVE  IsFresh(b) /\ b.type = "text"
<1>1. b.text \in Seq(Pieces)
  BY DEF Blocks
<1>2. b.type = "text" /\ b.cleared = FALSE
  BY <1>1, TextIs DEF IsWritten
<1> QED BY <1>2 DEF IsFresh, IsWritten

(* The words of the model.                                                    *)
LEMMA WordsAre ==
  /\ <<Words>> \in Seq(Pieces) /\ <<>> \in Seq(Pieces)
  /\ CommandsAreNamed(<<Words>>) /\ CommandsAreNamed(<<>>)
<1>1. Words \in Pieces /\ Words.tag = "words"
  BY NamesAssumption DEF Words, Piece, Pieces
<1> DEFINE w == <<Words>>
<1>2. w \in Seq(Pieces) /\ Len(w) = 1 /\ w[1] = Words
  BY <1>1
<1> HIDE DEF w
<1>3. DOMAIN w = 1 .. 1
  BY <1>2, LenProperties
<1>4. Tagged(w, "command-name") = {}
  BY <1>1, <1>2, <1>3 DEF Tagged
<1>5. <<>> \in Seq(Pieces) /\ Tagged(<<>>, "command-name") = {}
  BY EmptySeq DEF Tagged
<1> QED BY <1>2, <1>4, <1>5 DEF CommandsAreNamed, w

(* The model's answer, in words, is fresh text.                               *)
LEMMA AnswerIsFresh ==
  LET b == Text(<<Words>>)
  IN  b \in Blocks /\ b.type = "text" /\ IsFresh(b)
<1>1. LET b == Text(<<Words>>)
      IN  b \in Blocks /\ b.type = "text" /\ b.cleared = FALSE /\ b.text = <<Words>>
  BY WordsAre, TextIs
<1> QED BY <1>1, WordsAre DEF IsFresh

(* A message with a block of words.                                           *)
LEMMA WordsMessage ==
  ASSUME NEW role \in {"user", "assistant", "system"}
  PROVE  LET m == Message(role, <<Text(<<Words>>)>>)
         IN  /\ m \in Messages
             /\ \A l \in 1 .. Len(m.blocks) : IsFresh(m.blocks[l]) /\ m.blocks[l].type = "text"
<1> DEFINE b  == Text(<<Words>>)
           bs == <<b>>
           m  == Message(role, bs)
<1>1. b \in Blocks /\ b.type = "text" /\ IsFresh(b)
  BY AnswerIsFresh
<1> HIDE DEF b
<1>2. bs \in Seq(Blocks) /\ Len(bs) = 1 /\ bs[1] = b
  BY <1>1
<1> HIDE DEF bs
<1>3. m \in Messages /\ m.blocks = bs
  BY <1>2 DEF Message, Messages
<1> HIDE DEF m
<1>4. \A l \in 1 .. Len(m.blocks) : l = 1
  <2>1. Len(m.blocks) = 1
    BY <1>2, <1>3
  <2> QED BY <2>1
<1>5. \A l \in 1 .. Len(m.blocks) : IsFresh(m.blocks[l]) /\ m.blocks[l].type = "text"
  BY <1>1, <1>2, <1>3, <1>4
<1> QED BY <1>3, <1>5 DEF m, bs, b

(* A new conversation.                                                        *)
LEMMA EmptyTranscript == IsTranscript(<<>>)
<1>1. <<>> \in Seq(Messages) /\ Len(<<>>) = 0
  BY EmptySeq
<1>2. CallsOf(<<>>) = {}
  <2> DEFINE e == <<>>
  <2>2. e \in Seq(Messages) /\ Len(e) = 0
    BY <1>1
  <2> HIDE DEF e
  <2>3. ASSUME NEW c, c \in CallsOf(e) PROVE FALSE
    <3>1. \E i \in 1 .. Len(e) : \E j \in 1 .. Len(e[i].blocks) :
            e[i].blocks[j].type = "tool_use" /\ e[i].blocks[j].id = c
      BY <2>2, <2>3, CallsOfAre
    <3> QED BY <3>1, <2>2
  <2>1. \A c : c \notin CallsOf(<<>>)
    BY <2>3 DEF e
  <2> QED BY <2>1
<1>3. CallsOf(<<>>) = 1 .. 0 /\ 0 \in Nat
  BY <1>2
<1> QED BY <1>1, <1>2, <1>3 DEF IsTranscript

(* An opening of the user's is fresh text.                                    *)
LEMMA OpeningIsFresh ==
  ASSUME NEW said \in Openings
  PROVE  /\ said \in Seq(Messages)
         /\ \A k \in 1 .. Len(said) : \A l \in 1 .. Len(said[k].blocks) :
              IsFresh(said[k].blocks[l]) /\ said[k].blocks[l].type = "text"
<1>1. said \in Seq(Messages)
  BY OpeningsAssumption
<1>2. ASSUME NEW k \in 1 .. Len(said), NEW l \in 1 .. Len(said[k].blocks)
      PROVE  IsFresh(said[k].blocks[l]) /\ said[k].blocks[l].type = "text"
  <2>1. k \in DOMAIN said /\ l \in DOMAIN said[k].blocks /\ said[k].blocks[l] \in Blocks
    BY <1>1, MessageTypes
  <2>2. IsWritten(said[k].blocks[l])
    BY <2>1, OpeningsAssumption
  <2> QED BY <2>1, <2>2, WrittenIsFresh
<1> QED BY <1>1, <1>2

(* What the user says, after the model's answer.                              *)
LEMMA SayingIsFresh ==
  ASSUME NEW said \in Openings, NEW x,
         x = <<>> \/ x = <<Message("assistant", <<Text(<<Words>>)>>)>>
  PROVE  /\ x \o said \in Seq(Messages)
         /\ \A k \in 1 .. Len(x \o said) : \A l \in 1 .. Len((x \o said)[k].blocks) :
              IsFresh((x \o said)[k].blocks[l]) /\ (x \o said)[k].blocks[l].type = "text"
<1>1. /\ said \in Seq(Messages)
      /\ \A k \in 1 .. Len(said) : \A l \in 1 .. Len(said[k].blocks) :
           IsFresh(said[k].blocks[l]) /\ said[k].blocks[l].type = "text"
  BY OpeningIsFresh
<1>2. /\ x \in Seq(Messages)
      /\ \A k \in 1 .. Len(x) : \A l \in 1 .. Len(x[k].blocks) :
           IsFresh(x[k].blocks[l]) /\ x[k].blocks[l].type = "text"
  <2>1. CASE x = <<>>
    BY <2>1, EmptySeq
  <2>2. CASE x = <<Message("assistant", <<Text(<<Words>>)>>)>>
    <3> DEFINE m == Message("assistant", <<Text(<<Words>>)>>)
    <3>1. m \in Messages /\ \A l \in 1 .. Len(m.blocks) : IsFresh(m.blocks[l]) /\ m.blocks[l].type = "text"
      BY WordsMessage
    <3>2. x = <<m>>
      BY <2>2
    <3> HIDE DEF m
    <3>3. x \in Seq(Messages) /\ Len(x) = 1 /\ x[1] = m
      BY <3>1, <3>2
    <3>4. \A k \in 1 .. Len(x) : k = 1
      BY <3>3
    <3> QED BY <3>1, <3>3, <3>4
  <2> QED BY <2>1, <2>2
<1> DEFINE all == x \o said
<1>3. /\ all \in Seq(Messages)
      /\ \A k \in 1 .. Len(x) : all[k] = x[k]
      /\ \A k \in 1 .. Len(said) : all[Len(x) + k] = said[k]
      /\ \A k \in 1 .. Len(all) : k \in 1 .. Len(x) \/ \E l \in 1 .. Len(said) : k = Len(x) + l
  BY <1>1, <1>2, AppendedAt
<1> HIDE DEF all
<1>4. ASSUME NEW k \in 1 .. Len(all), NEW l \in 1 .. Len(all[k].blocks)
      PROVE  IsFresh(all[k].blocks[l]) /\ all[k].blocks[l].type = "text"
  <2>1. CASE k \in 1 .. Len(x)
    <3>1. all[k] = x[k]
      BY <2>1, <1>3
    <3> QED BY <3>1, <2>1, <1>2
  <2>2. CASE k \notin 1 .. Len(x)
    <3>1. PICK h \in 1 .. Len(said) : k = Len(x) + h
      BY <2>2, <1>3
    <3>2. all[k] = said[h]
      BY <3>1, <1>3
    <3> QED BY <3>2, <1>1
  <2> QED BY <2>1, <2>2
<1> QED BY <1>3, <1>4 DEF all

(* The model's message in a tool round.                                       *)
LEMMA CallMessage ==
  ASSUME NEW round \in Rounds, NEW call \in Nat
  PROVE  LET thinks == IF round.thought = 0 THEN <<>> ELSE <<Thinking(round.thought)>>
             blocks == thinks \o <<Text(<<Words>>), ToolUse(call, round.tool)>>
         IN  \E j : HasOneTool(Message("assistant", blocks), "tool_use", call, j)
<1> DEFINE t  == Thinking(round.thought)
           w  == Text(<<Words>>)
           u  == ToolUse(call, round.tool)
           x  == IF round.thought = 0 THEN <<>> ELSE <<t>>
           y  == <<w, u>>
           bs == x \o y
           m  == Message("assistant", bs)
<1>1. round.tool \in Names /\ round.thought \in Nat
  BY RoundsAssumption
<1>2. t \in Blocks /\ t.type = "thinking" /\ IsFresh(t)
  <2> DEFINE b == Block("thinking", 0, "", round.thought, <<>>)
  <2>2. "" \in Names /\ 0 \in Nat /\ 1 \in Nat /\ <<>> \in Seq(Pieces)
        /\ "thinking" \in {"text", "tool_use", "tool_result", "thinking"}
    BY NamesAssumption, WordsAre
  <2>3. b \in Blocks
    BY <1>1, <2>2, BlockIs
  <2>4. b.type = "thinking" /\ b.text = <<>> /\ b.cleared = FALSE
    BY DEF Block
  <2>1. t \in Blocks /\ t.type = "thinking" /\ t.text = <<>> /\ t.cleared = FALSE
    BY <2>3, <2>4 DEF Thinking
  <2> QED BY <2>1, WordsAre DEF IsFresh
<1>3. w \in Blocks /\ w.type = "text" /\ IsFresh(w)
  BY AnswerIsFresh
<1>4. u \in Blocks /\ u.type = "tool_use" /\ u.id = call /\ IsFresh(u)
  <2> DEFINE b == Block("tool_use", call, round.tool, 1, <<>>)
  <2>2. "" \in Names /\ 0 \in Nat /\ 1 \in Nat /\ <<>> \in Seq(Pieces)
        /\ "tool_use" \in {"text", "tool_use", "tool_result", "thinking"}
    BY NamesAssumption, WordsAre
  <2>3. b \in Blocks
    BY <1>1, <2>2, BlockIs
  <2>4. b.type = "tool_use" /\ b.id = call /\ b.text = <<>> /\ b.cleared = FALSE
    BY DEF Block
  <2>1. u \in Blocks /\ u.type = "tool_use" /\ u.id = call /\ u.text = <<>> /\ u.cleared = FALSE
    BY <2>3, <2>4 DEF ToolUse
  <2> QED BY <2>1, WordsAre DEF IsFresh
<1> HIDE DEF t, w, u
<1>5. x \in Seq(Blocks) /\ Len(x) \in Nat /\ \A l \in 1 .. Len(x) : x[l] = t
  <2>1. CASE round.thought = 0
    <3>1. x = <<>>
      BY <2>1
    <3> QED BY <3>1, EmptySeq
  <2>2. CASE round.thought # 0
    <3>1. x = <<t>>
      BY <2>2
    <3>2. x \in Seq(Blocks) /\ Len(x) = 1 /\ x[1] = t
      BY <3>1, <1>2
    <3> QED BY <3>2
  <2> QED BY <2>1, <2>2
<1> HIDE DEF x
<1>6. y \in Seq(Blocks) /\ Len(y) = 2 /\ y[1] = w /\ y[2] = u
  BY <1>3, <1>4
<1> HIDE DEF y
<1> DEFINE L == Len(x)
<1>7. /\ bs \in Seq(Blocks) /\ Len(bs) = L + 2 /\ L \in Nat
      /\ \A l \in 1 .. L : bs[l] = x[l]
      /\ bs[L + 1] = w /\ bs[L + 2] = u
  <2>1. /\ bs \in Seq(Blocks) /\ L \in Nat /\ Len(bs) = L + Len(y)
        /\ \A i \in 1 .. L : bs[i] = x[i]
        /\ \A j \in 1 .. Len(y) : bs[L + j] = y[j]
    BY <1>5, <1>6, ConcatAt
  <2>2. 1 \in 1 .. Len(y) /\ 2 \in 1 .. Len(y)
    BY <1>6
  <2> QED BY <2>1, <2>2, <1>6
<1> HIDE DEF bs, L
<1>8. m \in Messages /\ m.role = "assistant" /\ m.blocks = bs
  BY <1>7 DEF Message, Messages
<1> HIDE DEF m
<1>9. ASSUME NEW l \in 1 .. Len(bs)
      PROVE  IsFresh(bs[l]) /\ (bs[l].type \in ToolTypes => l = L + 2)
  <2>1. l \in 1 .. L \/ l = L + 1 \/ l = L + 2
    BY <1>7
  <2>2. CASE l \in 1 .. L
    <3>1. bs[l] = t
      BY <2>2, <1>5, <1>7 DEF L
    <3> QED BY <3>1, <1>2 DEF ToolTypes
  <2>3. CASE l = L + 1
    BY <2>3, <1>3, <1>7 DEF ToolTypes
  <2>4. CASE l = L + 2
    BY <2>4, <1>4, <1>7
  <2> QED BY <2>1, <2>2, <2>3, <2>4
<1>10. L + 2 \in 1 .. Len(bs)
  BY <1>7
<1>11. HasOneTool(m, "tool_use", call, L + 2)
  BY <1>4, <1>7, <1>8, <1>9, <1>10 DEF HasOneTool
<1> QED BY <1>11 DEF m, bs, x, y, t, w, u

(* The client's message in a tool round.                                      *)
LEMMA ResultMessage ==
  ASSUME NEW round \in Rounds, NEW call \in Nat
  PROVE  HasOneTool(Message("user", <<ToolResult(call, round.size)>> \o round.remark),
                    "tool_result", call, 1)
<1> DEFINE r  == ToolResult(call, round.size)
           x  == <<r>>
           y  == round.remark
           bs == x \o y
           m  == Message("user", bs)
<1>1. /\ round.size \in Nat /\ y \in Seq(Blocks)
      /\ \A j \in DOMAIN round.remark : IsWritten(round.remark[j])
  BY RoundsAssumption
<1>2. r \in Blocks /\ r.type = "tool_result" /\ r.id = call /\ IsFresh(r)
  <2> DEFINE b == Block("tool_result", call, "", round.size, <<>>)
  <2>2. "" \in Names /\ 0 \in Nat /\ 1 \in Nat /\ <<>> \in Seq(Pieces)
        /\ "tool_result" \in {"text", "tool_use", "tool_result", "thinking"}
    BY NamesAssumption, WordsAre
  <2>3. b \in Blocks
    BY <1>1, <2>2, BlockIs
  <2>4. b.type = "tool_result" /\ b.id = call /\ b.text = <<>> /\ b.cleared = FALSE
    BY DEF Block
  <2>1. r \in Blocks /\ r.type = "tool_result" /\ r.id = call /\ r.text = <<>> /\ r.cleared = FALSE
    BY <2>3, <2>4 DEF ToolResult
  <2> QED BY <2>1, WordsAre DEF IsFresh
<1> HIDE DEF r
<1>3. x \in Seq(Blocks) /\ Len(x) = 1 /\ x[1] = r
  BY <1>2
<1>4. \A j \in 1 .. Len(y) : IsFresh(y[j]) /\ y[j].type = "text"
  <2> HIDE DEF y
  <2>1. DOMAIN y = 1 .. Len(y) /\ \A j \in 1 .. Len(y) : y[j] \in Blocks
    BY <1>1, LenProperties
  <2> QED BY <2>1, <1>1, WrittenIsFresh DEF y
<1> HIDE DEF x, y
<1>5. /\ bs \in Seq(Blocks) /\ Len(y) \in Nat /\ Len(bs) = 1 + Len(y)
      /\ bs[1] = r
      /\ \A j \in 1 .. Len(y) : bs[1 + j] = y[j]
  <2>3. x \in Seq(Blocks) /\ y \in Seq(Blocks)
    BY <1>1, <1>3 DEF x, y
  <2>1. /\ bs \in Seq(Blocks) /\ Len(y) \in Nat /\ Len(bs) = Len(x) + Len(y)
        /\ \A i \in 1 .. Len(x) : bs[i] = x[i]
        /\ \A j \in 1 .. Len(y) : bs[Len(x) + j] = y[j]
    BY <2>3, ConcatAt
  <2>2. 1 \in 1 .. Len(x)
    BY <1>3
  <2> QED BY <2>1, <2>2, <1>3
<1> HIDE DEF bs
<1>6. m \in Messages /\ m.role = "user" /\ m.blocks = bs
  BY <1>5 DEF Message, Messages
<1> HIDE DEF m
<1>7. ASSUME NEW l \in 1 .. Len(bs)
      PROVE  IsFresh(bs[l]) /\ (bs[l].type \in ToolTypes => l = 1)
  <2>1. CASE l = 1
    BY <2>1, <1>2, <1>5
  <2>2. CASE l # 1
    <3>1. l - 1 \in 1 .. Len(y) /\ 1 + (l - 1) = l
      BY <2>2, <1>5
    <3>2. bs[l] = y[l - 1]
      BY <3>1, <1>5
    <3> QED BY <3>1, <3>2, <1>4 DEF ToolTypes
  <2> QED BY <2>1, <2>2
<1>8. 1 \in 1 .. Len(bs)
  BY <1>5
<1>9. HasOneTool(m, "tool_result", call, 1)
  BY <1>2, <1>5, <1>6, <1>7, <1>8 DEF HasOneTool
<1> QED BY <1>9 DEF m, bs, x, y, r

--------------------------------------------------------------------------------
(* The invariant, and the calls of a request. *)

(* The request of the conversation after each step.                           *)
EditedNow   == Edited(config.context, requested, transcript)
IncludedNow == ApplyInclusion(EditedNow)
PromotedNow == IF config.commands THEN NormalizeCommands(IncludedNow) ELSE IncludedNow
CommandNow  == IF config.commands THEN ActiveCommand(IncludedNow) ELSE NoCommand
SentNow     == Kept(PromotedNow, {i \in DOMAIN PromotedNow : PromotedNow[i].role # "system"})

(* The inductive invariant: every call of the client's transcript has its one *)
(* result, and the request is what the steps so far make of the transcript.   *)
Inv ==
  /\ IsTranscript(transcript)
  /\ config \in Configs /\ requested \in Edits
  /\ KindsTyped
  /\ stage = "received" => messages = transcript
  /\ stage = "edited"   => messages = EditedNow
  /\ stage = "included" => messages = IncludedNow
  /\ stage = "promoted" => messages = PromotedNow /\ command = CommandNow
  /\ stage = "translated" => items = AllItems(SentNow) /\ command = CommandNow

(* The edits of a conversation.                                               *)
LEMMA PolicyIs ==
  ASSUME config \in Configs, requested \in Edits
  PROVE  EffectiveEdits(config.context, requested) \in Seq(ContextEdits)
BY PolicyAssumption DEF EffectiveEdits

(* Clearing, cutting and marking keep the calls and results of the transcript. *)
LEMMA PromotedKeepsCalls ==
  ASSUME Inv
  PROVE  /\ SameShape(transcript, EditedNow)
         /\ IncludedNow \in Seq(Messages) /\ SameCalls(transcript, PromotedNow)
<1>1. transcript \in Seq(Messages)
  BY DEF Inv, IsTranscript
<1>2. Len(EffectiveEdits(config.context, requested)) \in Nat
  BY PolicyIs, LenProperties DEF Inv
<1>3. SameShape(transcript, EditedNow)
  BY <1>1, <1>2, EditedShape DEF EditedNow
<1>4. EditedNow \in Seq(Messages)
  BY <1>3 DEF SameShape
<1>5. SameCalls(transcript, EditedNow)
  BY <1>3, ShapeKeepsCalls
<1>6. SameCalls(EditedNow, IncludedNow)
  BY <1>4, InclusionKeepsCalls DEF IncludedNow
<1>7. IncludedNow \in Seq(Messages)
  BY <1>6 DEF SameCalls
<1>8. SameCalls(transcript, IncludedNow)
  BY <1>5, <1>6, CallsThen
<1>9. SameCalls(IncludedNow, NormalizeCommands(IncludedNow))
  BY <1>7, NormalizedIs
<1>10. SameCalls(transcript, PromotedNow)
  BY <1>8, <1>9, CallsThen DEF PromotedNow
<1> QED BY <1>3, <1>7, <1>10

(* Saying something leaves the client with a transcript.                      *)
LEMMA SpeakingKeeps ==
  ASSUME Inv, UserSpeaks
  PROVE  IsTranscript(transcript')
<1>1. PICK said \in Openings :
        transcript' = transcript \o ((IF transcript = <<>> THEN <<>>
                        ELSE <<Message("assistant", <<Text(<<Words>>)>>)>>) \o said)
  BY DEF UserSpeaks, Says
<1> DEFINE x == IF transcript = <<>> THEN <<>> ELSE <<Message("assistant", <<Text(<<Words>>)>>)>>
           new == x \o said
<1>2. x = <<>> \/ x = <<Message("assistant", <<Text(<<Words>>)>>)>>
  OBVIOUS
<1>3. transcript' = transcript \o new
  BY <1>1
<1> HIDE DEF x
<1>4. /\ new \in Seq(Messages)
      /\ \A k \in 1 .. Len(new) : \A l \in 1 .. Len(new[k].blocks) :
           IsFresh(new[k].blocks[l]) /\ new[k].blocks[l].type = "text"
  BY <1>2, SayingIsFresh
<1> HIDE DEF new
<1>5. IsTranscript(transcript \o new)
  BY <1>4, SpeechKeepsTranscript DEF Inv
<1> QED BY <1>3, <1>5

(* A tool round leaves the client with a transcript.                          *)
LEMMA ToolRoundKeeps ==
  ASSUME Inv, ClientRunsTool
  PROVE  IsTranscript(transcript') /\ KindsTyped'
<1>1. PICK round \in Rounds, recorded \in BOOLEAN :
        LET call   == NextCall
            thinks == IF round.thought = 0 THEN <<>> ELSE <<Thinking(round.thought)>>
            blocks == thinks \o <<Text(<<Words>>), ToolUse(call, round.tool)>>
        IN /\ transcript' = transcript \o <<Message("assistant", blocks),
                                            Message("user", <<ToolResult(call, round.size)>> \o round.remark)>>
           /\ kinds' = IF recorded THEN [c \in DOMAIN kinds \cup {call} |-> "custom"] ELSE kinds
  BY DEF ClientRunsTool, Says
<1>2. PICK n \in Nat : CallsOf(transcript) = 1 .. n
  BY DEF Inv, IsTranscript
<1>3. NextCall = n + 1
  <2>1. Calls = 1 .. n
    BY <1>2 DEF Calls, CallsOf
  <2>2. Cardinality(1 .. n) = n
    BY FS_Interval
  <2> QED BY <2>1, <2>2 DEF NextCall
<1> DEFINE call   == n + 1
           thinks == IF round.thought = 0 THEN <<>> ELSE <<Thinking(round.thought)>>
           blocks == thinks \o <<Text(<<Words>>), ToolUse(call, round.tool)>>
           a == Message("assistant", blocks)
           u == Message("user", <<ToolResult(call, round.size)>> \o round.remark)
<1>4. transcript' = transcript \o <<a, u>>
  BY <1>1, <1>3
<1>5. kinds' = IF recorded THEN [c \in DOMAIN kinds \cup {call} |-> "custom"] ELSE kinds
  BY <1>1, <1>3
<1>6. call \in Nat
  OBVIOUS
<1>7. PICK j : HasOneTool(a, "tool_use", call, j)
  BY <1>6, CallMessage
<1>8. HasOneTool(u, "tool_result", call, 1)
  BY <1>6, ResultMessage
<1> HIDE DEF a, u
<1>9. IsTranscript(transcript \o <<a, u>>)
  BY <1>2, <1>7, <1>8, RoundKeepsTranscript DEF Inv
<1>10. KindsTyped'
  BY <1>5 DEF Inv, KindsTyped
<1> QED BY <1>4, <1>9, <1>10

(* A question of the client's own is a transcript.                            *)
LEMMA AskingKeeps ==
  ASSUME Inv, AskStructured
  PROVE  IsTranscript(transcript')
<1> DEFINE m == Message("user", <<Text(<<Words>>)>>)
           new == <<m>>
<1>1. transcript' = new
  BY DEF AskStructured
<1>2. m \in Messages /\ \A l \in 1 .. Len(m.blocks) : IsFresh(m.blocks[l]) /\ m.blocks[l].type = "text"
  BY WordsMessage
<1> HIDE DEF m
<1>3. new \in Seq(Messages) /\ Len(new) = 1 /\ new[1] = m
  BY <1>2
<1> HIDE DEF new
<1>4. \A k \in 1 .. Len(new) : \A l \in 1 .. Len(new[k].blocks) :
        IsFresh(new[k].blocks[l]) /\ new[k].blocks[l].type = "text"
  <2>1. \A k \in 1 .. Len(new) : k = 1
    BY <1>3
  <2> QED BY <2>1, <1>2, <1>3
<1>5. IsTranscript(<<>> \o new)
  BY <1>3, <1>4, EmptyTranscript, SpeechKeepsTranscript
<1>6. <<>> \o new = new
  BY <1>3, ConcatEmptySeq
<1> QED BY <1>1, <1>5, <1>6

(* The invariant holds initially.                                             *)
LEMMA InvInit == Init => Inv
<1> SUFFICES ASSUME Init PROVE Inv
  OBVIOUS
<1>1. IsTranscript(transcript)
  BY EmptyTranscript DEF Init
<1>2. KindsTyped
  <2>1. kinds = <<>>
    BY DEF Init
  <2>2. DOMAIN kinds = {}
    BY <2>1
  <2> QED BY <2>2 DEF KindsTyped
<1> QED BY <1>1, <1>2 DEF Init, Inv

(* Each step keeps the invariant.                                             *)
LEMMA InvStep == Inv /\ [Next]_vars => Inv'
<1> SUFFICES ASSUME Inv, [Next]_vars PROVE Inv'
  OBVIOUS
<1>1. CASE UserSpeaks
  <2>1. IsTranscript(transcript)'
    BY <1>1, SpeakingKeeps
  <2>2. config' = config /\ requested' = requested /\ kinds' = kinds /\ stage' = "received"
        /\ messages' = transcript'
    BY <1>1 DEF UserSpeaks, Says
  <2> QED BY <2>1, <2>2 DEF Inv, KindsTyped
<1>2. CASE ClientRunsTool
  <2>1. IsTranscript(transcript)' /\ KindsTyped'
    BY <1>2, ToolRoundKeeps
  <2>2. config' = config /\ requested' = requested /\ stage' = "received" /\ messages' = transcript'
    BY <1>2 DEF ClientRunsTool, Says
  <2> QED BY <2>1, <2>2 DEF Inv
<1>3. CASE AskStructured
  <2>1. IsTranscript(transcript)'
    BY <1>3, AskingKeeps
  <2>2. config' = config /\ requested' = requested /\ kinds' = kinds /\ stage' = "received"
        /\ messages' = transcript'
    BY <1>3 DEF AskStructured
  <2> QED BY <2>1, <2>2 DEF Inv, KindsTyped
<1>4. CASE EditContext
  <2>1. /\ config' = config /\ requested' = requested /\ kinds' = kinds /\ stage' = "edited"
        /\ transcript' = transcript /\ messages' = Edited(config.context, requested, messages)
        /\ messages = transcript
    BY <1>4 DEF EditContext, Inv
  <2> QED BY <2>1 DEF Inv, KindsTyped, EditedNow
<1>5. CASE IncludeConversation
  <2>1. /\ config' = config /\ requested' = requested /\ kinds' = kinds /\ stage' = "included"
        /\ transcript' = transcript /\ messages' = ApplyInclusion(messages)
        /\ messages = EditedNow
    BY <1>5 DEF IncludeConversation, Inv
  <2>2. EditedNow' = EditedNow
    BY <2>1 DEF EditedNow
  <2> QED BY <2>1, <2>2 DEF Inv, KindsTyped, IncludedNow
<1>6. CASE PromoteCommand
  <2>1. /\ config' = config /\ requested' = requested /\ kinds' = kinds /\ stage' = "promoted"
        /\ transcript' = transcript
        /\ messages' = IF config.commands THEN NormalizeCommands(messages) ELSE messages
        /\ command' = IF config.commands THEN ActiveCommand(messages) ELSE NoCommand
        /\ messages = IncludedNow
    BY <1>6 DEF PromoteCommand, Inv
  <2>2. IncludedNow' = IncludedNow
    BY <2>1 DEF IncludedNow, EditedNow
  <2>3. messages' = PromotedNow' /\ command' = CommandNow'
    BY <2>1, <2>2 DEF PromotedNow, CommandNow
  <2> QED BY <2>1, <2>3 DEF Inv, KindsTyped
<1>7. CASE TranslateMessages
  <2>1. /\ config' = config /\ requested' = requested /\ kinds' = kinds /\ stage' = "translated"
        /\ transcript' = transcript /\ command' = command
        /\ messages' = Kept(messages, {i \in DOMAIN messages : messages[i].role # "system"})
        /\ items' = Joined([i \in DOMAIN messages' |-> ItemsOf(messages'[i])]) \o ExecutorItems
        /\ messages = PromotedNow /\ command = CommandNow
    BY <1>7 DEF TranslateMessages, Inv
  <2>2. PromotedNow' = PromotedNow /\ CommandNow' = CommandNow
    BY <2>1 DEF PromotedNow, CommandNow, IncludedNow, EditedNow
  <2>3. SentNow' = SentNow /\ messages' = SentNow
    BY <2>1, <2>2 DEF SentNow
  <2>4. items' = AllItems(SentNow)
    BY <2>1, <2>3 DEF AllItems
  <2>6. kinds' = kinds /\ command' = command
    BY <2>1
  <2>5. AllItems(SentNow)' = AllItems(SentNow)
    BY <2>3, <2>6 DEF AllItems, ItemsOf, BlockItem, KindForCall, ExecutorItems
  <2> QED BY <2>1, <2>2, <2>4, <2>5 DEF Inv, KindsTyped
<1>8. CASE AnswerArrives
  <2>1. /\ config' = config /\ requested' = requested /\ kinds' = kinds /\ stage' = "idle"
        /\ transcript' = transcript
    BY <1>8 DEF AnswerArrives
  <2> QED BY <2>1 DEF Inv, KindsTyped
<1>9. CASE UNCHANGED vars
  <2>1. /\ config' = config /\ requested' = requested /\ kinds' = kinds /\ stage' = stage
        /\ transcript' = transcript /\ command' = command /\ items' = items /\ messages' = messages
    BY <1>9 DEF vars
  <2>2. /\ EditedNow' = EditedNow /\ IncludedNow' = IncludedNow /\ PromotedNow' = PromotedNow
        /\ CommandNow' = CommandNow
    BY <2>1 DEF PromotedNow, CommandNow, IncludedNow, EditedNow
  <2>3. SentNow' = SentNow
    BY <2>2 DEF SentNow
  <2>4. AllItems(SentNow)' = AllItems(SentNow)
    BY <2>1, <2>3 DEF AllItems, ItemsOf, BlockItem, KindForCall, ExecutorItems
  <2> QED BY <2>1, <2>2, <2>4 DEF Inv, KindsTyped
<1> QED BY <1>1, <1>2, <1>3, <1>4, <1>5, <1>6, <1>7, <1>8, <1>9 DEF Next

(* The invariant holds in every state.                                        *)
LEMMA InvAlways == Spec => []Inv
<1>1. Init => Inv
  BY InvInit
<1>2. Inv /\ [Next]_vars => Inv'
  BY InvStep
<1> QED BY <1>1, <1>2, PTL DEF Spec

(* The items of a translated request have every call and its result.          *)
LEMMA TranslatedKeepsCalls == Inv => CallsKeepTheirResults
<1> SUFFICES ASSUME Inv, stage = "translated", NEW c \in Calls
             PROVE  LET Of(what) == {i \in DOMAIN items : items[i].what = what /\ items[i].call = c}
                    IN /\ Cardinality(Of("call")) = 1 /\ Cardinality(Of("output")) = 1
                       /\ \A i \in Of("call"), j \in Of("output") : i < j /\ items[i].role = items[j].role
  BY DEF CallsKeepTheirResults
<1>1. Answered(transcript, c)
  BY DEF Inv, IsTranscript, Calls, CallsOf
<1>2. SameCalls(transcript, PromotedNow)
  BY PromotedKeepsCalls
<1>3. Answered(PromotedNow, c) /\ PromotedNow \in Seq(Messages)
  BY <1>1, <1>2, AnsweredKept DEF SameCalls
<1>4. SentNow \in Seq(Messages) /\ Answered(SentNow, c)
  BY <1>3, AnsweredWithoutSystem DEF SentNow
<1>5. items = AllItems(SentNow) /\ KindsTyped
  BY DEF Inv
<1>6. LET its == AllItems(SentNow)
          Of(what) == {x \in DOMAIN its : its[x].what = what /\ its[x].call = c}
      IN /\ Cardinality(Of("call")) = 1 /\ Cardinality(Of("output")) = 1
         /\ \A x \in Of("call"), y \in Of("output") : x < y /\ its[x].role = its[y].role
  BY <1>4, <1>5, AnsweredIsSent
<1> QED BY <1>5, <1>6

(* Whatever is edited, cut and marked, each call of the client's transcript   *)
(* is sent once, and its result once and later.                               *)
THEOREM CallsAreAnswered == Spec => []CallsKeepTheirResults
<1>1. Inv => CallsKeepTheirResults
  BY TranslatedKeepsCalls
<1> QED BY <1>1, InvAlways, PTL

--------------------------------------------------------------------------------
(* What clearing leaves. *)

(* The tool uses in order, and which of them a result answers.                *)
Uses(ms) ==
  Kept(InOrder(ms), {n \in DOMAIN InOrder(ms) :
                       InOrder(ms)[n] \in {p \in Positions(ms) : At(ms, p).type = "tool_use"}})
LatestUse(ms, k, p) ==
  /\ At(ms, Uses(ms)[k]).id = At(ms, p).id
  /\ Before(Uses(ms)[k], p)
  /\ \A l \in k + 1 .. Len(Uses(ms)) :
       At(ms, Uses(ms)[l]).id = At(ms, p).id => Before(p, Uses(ms)[l])

(* The positions of each message.                                             *)
Places(ms) == [i \in DOMAIN ms |-> [j \in DOMAIN ms[i].blocks |-> <<i, j>>]]

(* The positions of each message, in its order.                               *)
LEMMA PlacesAre ==
  ASSUME NEW ms \in Seq(Messages)
  PROVE  /\ Places(ms) \in Seq(Seq(Positions(ms))) /\ Len(Places(ms)) = Len(ms)
         /\ \A i \in 1 .. Len(ms) : /\ Len(Places(ms)[i]) = Len(ms[i].blocks)
                                    /\ \A j \in 1 .. Len(ms[i].blocks) : Places(ms)[i][j] = <<i, j>>
<1> DEFINE P == Positions(ms)
           ss == Places(ms)
<1>1. /\ Len(ms) \in Nat /\ DOMAIN ms = 1 .. Len(ms)
      /\ \A i \in 1 .. Len(ms) : DOMAIN ms[i].blocks = 1 .. Len(ms[i].blocks) /\ Len(ms[i].blocks) \in Nat
  BY MessageTypes
<1>2. \A i \in 1 .. Len(ms) : \A j \in 1 .. Len(ms[i].blocks) : <<i, j>> \in P
  BY PositionsAre
<1> HIDE DEF P
<1>3. ASSUME NEW i \in 1 .. Len(ms)
      PROVE  /\ ss[i] \in Seq(P) /\ Len(ss[i]) = Len(ms[i].blocks)
             /\ \A j \in 1 .. Len(ms[i].blocks) : ss[i][j] = <<i, j>>
  <2> DEFINE n == Len(ms[i].blocks)
             s == [j \in 1 .. n |-> <<i, j>>]
  <2>1. ss[i] = s
    BY <1>1 DEF Places
  <2>2. n \in Nat /\ s \in [1 .. n -> P] /\ \A j \in 1 .. n : s[j] = <<i, j>>
    BY <1>1, <1>2
  <2> HIDE DEF s, n
  <2>3. s \in Seq(P) /\ Len(s) = n
    BY <2>2, SeqDef, LenProperties
  <2> QED BY <2>1, <2>2, <2>3 DEF n
<1>4. ss \in Seq(Seq(P)) /\ Len(ss) = Len(ms)
  <2>1. ss \in [1 .. Len(ms) -> Seq(P)]
    <3>1. ss = [i \in 1 .. Len(ms) |-> ss[i]]
      BY <1>1 DEF Places
    <3> HIDE DEF ss
    <3> QED BY <1>3, <3>1
  <2> HIDE DEF ss
  <2> QED BY <2>1, <1>1, SeqDef, LenProperties
<1> QED BY <1>3, <1>4 DEF P

(* The order of a request has every position once.                            *)
LEMMA InOrderIs ==
  ASSUME NEW ms \in Seq(Messages)
  PROVE  /\ InOrder(ms) \in Seq(Positions(ms))
         /\ \A x, y \in 1 .. Len(InOrder(ms)) : InOrder(ms)[x] = InOrder(ms)[y] => x = y
         /\ \A p \in Positions(ms) : \E x \in 1 .. Len(InOrder(ms)) : InOrder(ms)[x] = p
<1> DEFINE P == Positions(ms)
           ss == Places(ms)
           js == Joined(ss)
<1>1. \A i \in 1 .. Len(ms) : /\ Len(ss[i]) = Len(ms[i].blocks)
                              /\ \A j \in 1 .. Len(ms[i].blocks) : ss[i][j] = <<i, j>>
  BY PlacesAre
<1>2. ss \in Seq(Seq(P)) /\ Len(ss) = Len(ms)
  BY PlacesAre
<1>3. InOrder(ms) = js
  BY DEF InOrder, Places
<1> HIDE DEF ss, P
<1>4. js \in Seq(P)
  BY <1>2, JoinedPlaces
<1>5. PICK at : Placed(ss, js, at)
  BY <1>2, JoinedPlaces
<1> HIDE DEF js
<1>6. ASSUME NEW x \in 1 .. Len(js)
      PROVE  \E i \in 1 .. Len(ms) : \E j \in 1 .. Len(ms[i].blocks) : x = at[i][j] /\ js[x] = <<i, j>>
  <2>1. PICK i \in 1 .. Len(ss) : \E j \in 1 .. Len(ss[i]) : x = at[i][j]
    BY <1>5 DEF Placed
  <2>2. PICK j \in 1 .. Len(ss[i]) : x = at[i][j]
    BY <2>1
  <2>3. js[at[i][j]] = ss[i][j]
    BY <1>5 DEF Placed
  <2>4. i \in 1 .. Len(ms)
    BY <1>2
  <2>5. j \in 1 .. Len(ms[i].blocks) /\ ss[i][j] = <<i, j>>
    BY <2>4, <1>1
  <2>6. js[x] = <<i, j>> /\ x = at[i][j]
    BY <2>2, <2>3, <2>5
  <2> QED BY <2>4, <2>5, <2>6
<1>7. ASSUME NEW x \in 1 .. Len(js), NEW y \in 1 .. Len(js), js[x] = js[y]
      PROVE  x = y
  <2>1. PICK i \in 1 .. Len(ms) : \E j \in 1 .. Len(ms[i].blocks) : x = at[i][j] /\ js[x] = <<i, j>>
    BY <1>6
  <2>2. PICK j \in 1 .. Len(ms[i].blocks) : x = at[i][j] /\ js[x] = <<i, j>>
    BY <2>1
  <2>3. PICK k \in 1 .. Len(ms) : \E l \in 1 .. Len(ms[k].blocks) : y = at[k][l] /\ js[y] = <<k, l>>
    BY <1>6
  <2>4. PICK l \in 1 .. Len(ms[k].blocks) : y = at[k][l] /\ js[y] = <<k, l>>
    BY <2>3
  <2>5. i = k /\ j = l
    BY <2>2, <2>4, <1>7
  <2> QED BY <2>2, <2>4, <2>5
<1>8. ASSUME NEW p \in P PROVE \E x \in 1 .. Len(js) : js[x] = p
  <2>1. PICK i \in 1 .. Len(ms) : \E j \in 1 .. Len(ms[i].blocks) : p = <<i, j>>
    BY PositionsAre DEF P
  <2>2. PICK j \in 1 .. Len(ms[i].blocks) : p = <<i, j>>
    BY <2>1
  <2>3. ss[i][j] = p /\ j \in 1 .. Len(ss[i]) /\ i \in 1 .. Len(ss)
    BY <2>2, <1>1, <1>2
  <2>4. at[i][j] \in 1 .. Len(js) /\ js[at[i][j]] = p
    BY <2>3, <1>5 DEF Placed
  <2> QED BY <2>4
<1> QED BY <1>3, <1>4, <1>7, <1>8 DEF P

(* The tool uses are positions of tool uses, each once.                       *)
LEMMA UsesAre ==
  ASSUME NEW ms \in Seq(Messages)
  PROVE  /\ Uses(ms) \in Seq(Positions(ms)) /\ Len(Uses(ms)) \in Nat
         /\ DOMAIN Uses(ms) = 1 .. Len(Uses(ms))
         /\ \A k \in 1 .. Len(Uses(ms)) :
              Uses(ms)[k] \in Positions(ms) /\ At(ms, Uses(ms)[k]).type = "tool_use"
         /\ \A k, l \in 1 .. Len(Uses(ms)) : Uses(ms)[k] = Uses(ms)[l] => k = l
         /\ \A p \in Positions(ms) :
              At(ms, p).type = "tool_use" => \E k \in 1 .. Len(Uses(ms)) : Uses(ms)[k] = p
<1> DEFINE P == Positions(ms)
           all == InOrder(ms)
           I == {n \in DOMAIN all : all[n] \in {p \in P : At(ms, p).type = "tool_use"}}
           u == Kept(all, I)
<1>1. /\ all \in Seq(P)
      /\ \A x, y \in 1 .. Len(all) : all[x] = all[y] => x = y
      /\ \A p \in P : \E x \in 1 .. Len(all) : all[x] = p
  BY InOrderIs
<1>2. /\ \A n \in I : all[n] \in P /\ At(ms, all[n]).type = "tool_use"
      /\ \A n \in DOMAIN all : all[n] \in P /\ At(ms, all[n]).type = "tool_use" => n \in I
  OBVIOUS
<1>3. DOMAIN all = 1 .. Len(all)
  BY <1>1, LenProperties
<1>4. Uses(ms) = u
  BY DEF Uses
<1> HIDE DEF P, all, I
<1>5. u \in Seq(P)
  BY <1>1, KeptPlaces
<1>6. PICK at : Picked(all, I, u, at)
  BY <1>1, KeptPlaces
<1> HIDE DEF u
<1>7. Len(u) \in Nat /\ DOMAIN u = 1 .. Len(u)
  BY <1>5, LenProperties
<1>8. ASSUME NEW k \in 1 .. Len(u)
      PROVE  \E i \in 1 .. Len(all) : i \in I /\ k = at[i] /\ u[k] = all[i]
  BY <1>6 DEF Picked
<1>9. \A k \in 1 .. Len(u) : u[k] \in P /\ At(ms, u[k]).type = "tool_use"
  BY <1>2, <1>8
<1>10. ASSUME NEW k \in 1 .. Len(u), NEW l \in 1 .. Len(u), u[k] = u[l] PROVE k = l
  <2>1. PICK i \in 1 .. Len(all) : k = at[i] /\ u[k] = all[i]
    BY <1>8
  <2>2. PICK j \in 1 .. Len(all) : l = at[j] /\ u[l] = all[j]
    BY <1>8
  <2>3. all[i] = all[j]
    BY <1>10, <2>1, <2>2
  <2>4. i = j
    BY <2>3, <1>1
  <2> QED BY <2>1, <2>2, <2>4
<1>11. ASSUME NEW p \in P, At(ms, p).type = "tool_use" PROVE \E k \in 1 .. Len(u) : u[k] = p
  <2>1. PICK x \in 1 .. Len(all) : all[x] = p
    BY <1>1
  <2>2. x \in I
    BY <2>1, <1>2, <1>11, <1>3
  <2>3. at[x] \in 1 .. Len(u) /\ u[at[x]] = p
    BY <2>1, <2>2, <1>6 DEF Picked
  <2> QED BY <2>3
<1> QED BY <1>4, <1>5, <1>7, <1>9, <1>10, <1>11 DEF P

(* The results that answer a tool use.                                        *)
ResultsOf(ms, k) ==
  {p \in Positions(ms) : At(ms, p).type = "tool_result" /\ LatestUse(ms, k, p)}

(* The interactions, with their parts by name.                                *)
LEMMA InteractionsForm ==
  ASSUME NEW ms
  PROVE  Interactions(ms) =
           [k \in DOMAIN Uses(ms) |->
              [use |-> Uses(ms)[k], name |-> At(ms, Uses(ms)[k]).name, results |-> ResultsOf(ms, k)]]
<1>1. \A k : {p \in {p \in Positions(ms) : At(ms, p).type = "tool_result"} : LatestUse(ms, k, p)}
             = ResultsOf(ms, k)
  BY DEF ResultsOf
<1>2. Interactions(ms) =
        [k \in DOMAIN Uses(ms) |->
           [use |-> Uses(ms)[k], name |-> At(ms, Uses(ms)[k]).name,
            results |-> {p \in {p \in Positions(ms) : At(ms, p).type = "tool_result"} : LatestUse(ms, k, p)}]]
  BY DEF Interactions, Uses, LatestUse
<1> QED BY <1>1, <1>2

(* The interactions of a request.                                             *)
LEMMA InteractionsAre ==
  ASSUME NEW ms \in Seq(Messages)
  PROVE  LET it == Interactions(ms)
         IN  /\ it \in Seq({it[k] : k \in 1 .. Len(it)})
             /\ Len(it) \in Nat /\ DOMAIN it = 1 .. Len(it) /\ Len(it) = Len(Uses(ms))
             /\ \A k \in 1 .. Len(it) :
                  /\ it[k].use = Uses(ms)[k] /\ it[k].name = At(ms, Uses(ms)[k]).name
                  /\ it[k].results = {p \in Positions(ms) : At(ms, p).type = "tool_result"
                                                            /\ LatestUse(ms, k, p)}
<1> DEFINE it == Interactions(ms)
           u == Uses(ms)
           R(k) == {p \in Positions(ms) : At(ms, p).type = "tool_result" /\ LatestUse(ms, k, p)}
           x(k) == [use |-> u[k], name |-> At(ms, u[k]).name, results |-> R(k)]
<1>1. Len(u) \in Nat /\ DOMAIN u = 1 .. Len(u)
  BY UsesAre
<1>2. it = [k \in DOMAIN u |-> x(k)]
  BY InteractionsForm DEF ResultsOf
<1> HIDE DEF it, u
<1>3. \A k \in 1 .. Len(u) : it[k] = x(k)
  BY <1>1, <1>2
<1>4. DOMAIN it = 1 .. Len(u)
  BY <1>1, <1>2
<1> DEFINE S == {it[k] : k \in 1 .. Len(u)}
<1>5. it \in [1 .. Len(u) -> S]
  BY <1>1, <1>2
<1> HIDE DEF S
<1>6. it \in Seq(S) /\ Len(it) = Len(u)
  BY <1>1, <1>5, SeqDef, LenProperties
<1>7. \A k \in 1 .. Len(u) :
        /\ it[k].use = u[k] /\ it[k].name = At(ms, u[k]).name
        /\ it[k].results = R(k)
  <2>1. TAKE k \in 1 .. Len(u)
  <2> DEFINE r == R(k)
             a == u[k]
             n == At(ms, u[k]).name
  <2>2. it[k] = [use |-> a, name |-> n, results |-> r]
    BY <1>3
  <2> HIDE DEF r, a, n
  <2>3. it[k].use = a /\ it[k].name = n /\ it[k].results = r
    BY <2>2
  <2> QED BY <2>3 DEF r, a, n
<1> QED BY <1>1, <1>4, <1>6, <1>7 DEF it, u, S

(* Every block of an interaction is its own.                                  *)
LEMMA OwnBlocks ==
  ASSUME NEW ms \in Seq(Messages), NEW k \in 1 .. Len(Interactions(ms)), NEW p,
         p \in Interactions(ms)[k].results \cup {Interactions(ms)[k].use}
  PROVE  /\ p \in Positions(ms) /\ At(ms, p).type \in ToolTypes
         /\ \A l \in 1 .. Len(Interactions(ms)) :
              p \in Interactions(ms)[l].results \cup {Interactions(ms)[l].use} => l = k
<1> DEFINE it == Interactions(ms)
           u == Uses(ms)
<1>1. /\ Len(it) = Len(u) /\ Len(u) \in Nat
      /\ \A l \in 1 .. Len(it) :
           /\ it[l].use = u[l]
           /\ it[l].results = {q \in Positions(ms) : At(ms, q).type = "tool_result" /\ LatestUse(ms, l, q)}
  BY InteractionsAre
<1>2. /\ \A l \in 1 .. Len(u) : u[l] \in Positions(ms) /\ At(ms, u[l]).type = "tool_use"
      /\ \A l, m \in 1 .. Len(u) : u[l] = u[m] => l = m
  BY UsesAre
<1>3. \A l, m \in 1 .. Len(u) : l < m => ~(LatestUse(ms, l, p) /\ LatestUse(ms, m, p)) \/ p \notin Positions(ms)
  <2>1. SUFFICES ASSUME NEW l \in 1 .. Len(u), NEW m \in 1 .. Len(u), l < m, p \in Positions(ms),
                        LatestUse(ms, l, p), LatestUse(ms, m, p)
                 PROVE  FALSE
    OBVIOUS
  <2>2. At(ms, u[m]).id = At(ms, p).id /\ Before(u[m], p)
    BY <2>1 DEF LatestUse
  <2>3. m \in l + 1 .. Len(u)
    BY <2>1, <1>1
  <2>4. Before(p, u[m])
    BY <2>1, <2>2, <2>3 DEF LatestUse
  <2>5. u[m][1] \in Nat /\ u[m][2] \in Nat /\ p[1] \in Nat /\ p[2] \in Nat
    <3>1. \A q \in Positions(ms) : q[1] \in Nat /\ q[2] \in Nat
      BY PositionsAre
    <3> QED BY <3>1, <2>1, <1>2
  <2> QED BY <2>2, <2>4, <2>5 DEF Before
<1>4. k \in 1 .. Len(u) /\ p \in it[k].results \cup {it[k].use}
  BY <1>1
<1> HIDE DEF it, u
<1>5. p \in Positions(ms) /\ At(ms, p).type \in ToolTypes
  BY <1>1, <1>2, <1>4 DEF ToolTypes
<1>6. ASSUME NEW l \in 1 .. Len(it), p \in it[l].results \cup {it[l].use}
      PROVE  l = k
  <2>0. l \in 1 .. Len(u) /\ k \in 1 .. Len(u) /\ l \in Nat /\ k \in Nat
    BY <1>1, <1>4
  <2>1. CASE At(ms, p).type = "tool_use"
    <3>1. p = u[k] /\ p = u[l]
      BY <2>1, <1>1, <1>4, <1>6
    <3> QED BY <3>1, <2>0, <1>2
  <2>2. CASE At(ms, p).type # "tool_use"
    <3>1. LatestUse(ms, k, p) /\ LatestUse(ms, l, p)
      BY <2>0, <2>2, <1>1, <1>2, <1>4, <1>6
    <3>2. ~(k < l) /\ ~(l < k)
      BY <3>1, <2>0, <1>3, <1>5
    <3> QED BY <3>2, <2>0
  <2> QED BY <2>1, <2>2
<1> QED BY <1>5, <1>6 DEF it

(* Interactions depend on what clearing does not change.                      *)
LEMMA InteractionsSame ==
  ASSUME NEW a, NEW b, SameShape(a, b)
  PROVE  Interactions(a) = Interactions(b)
<1>1. a \in Seq(Messages) /\ b \in Seq(Messages) /\ Len(a) = Len(b)
  BY DEF SameShape
<1>2. \A i \in 1 .. Len(a) : /\ Len(b[i].blocks) = Len(a[i].blocks)
                             /\ \A j \in 1 .. Len(a[i].blocks) : SameBlock(a[i].blocks[j], b[i].blocks[j])
  BY DEF SameShape
<1>3. Positions(a) = Positions(b)
  <2>1. ASSUME NEW p \in Positions(a) PROVE p \in Positions(b)
    <3>1. PICK i \in 1 .. Len(a) : \E j \in 1 .. Len(a[i].blocks) : p = <<i, j>>
      BY <1>1, PositionsAre
    <3> QED BY <3>1, <1>1, <1>2, PositionsAre
  <2>2. ASSUME NEW p \in Positions(b) PROVE p \in Positions(a)
    <3>1. PICK i \in 1 .. Len(b) : \E j \in 1 .. Len(b[i].blocks) : p = <<i, j>>
      BY <1>1, PositionsAre
    <3> QED BY <3>1, <1>1, <1>2, PositionsAre
  <2> QED BY <2>1, <2>2
<1>4. ASSUME NEW p \in Positions(a)
      PROVE  At(a, p).type = At(b, p).type /\ At(a, p).id = At(b, p).id /\ At(a, p).name = At(b, p).name
  <2>3. PICK i \in 1 .. Len(a) : \E j \in 1 .. Len(a[i].blocks) : p = <<i, j>>
    BY <1>1, PositionsAre
  <2>1. PICK j \in 1 .. Len(a[i].blocks) : p = <<i, j>>
    BY <2>3
  <2>2. At(a, p) = a[i].blocks[j] /\ At(b, p) = b[i].blocks[j]
    BY <2>1 DEF At
  <2> QED BY <2>2, <1>2 DEF SameBlock
<1>5. InOrder(a) = InOrder(b)
  <2>1. DOMAIN a = 1 .. Len(a) /\ DOMAIN b = 1 .. Len(a)
    BY <1>1, MessageTypes
  <2>2. \A i \in 1 .. Len(a) : DOMAIN a[i].blocks = DOMAIN b[i].blocks
    BY <1>1, <1>2, MessageTypes
  <2>3. [i \in DOMAIN a |-> [j \in DOMAIN a[i].blocks |-> <<i, j>>]]
        = [i \in DOMAIN b |-> [j \in DOMAIN b[i].blocks |-> <<i, j>>]]
    <3> DEFINE f(i) == [j \in DOMAIN a[i].blocks |-> <<i, j>>]
               g(i) == [j \in DOMAIN b[i].blocks |-> <<i, j>>]
    <3>1. \A i \in 1 .. Len(a) : f(i) = g(i)
      BY <2>2
    <3> HIDE DEF f, g
    <3>2. [i \in 1 .. Len(a) |-> f(i)] = [i \in 1 .. Len(a) |-> g(i)]
      BY <3>1
    <3> QED BY <2>1, <3>2 DEF f, g
  <2> QED BY <2>3 DEF InOrder
<1>6. Uses(a) = Uses(b)
  <2>1. {p \in Positions(a) : At(a, p).type = "tool_use"} = {p \in Positions(b) : At(b, p).type = "tool_use"}
    BY <1>3, <1>4
  <2> QED BY <1>5, <2>1 DEF Uses
<1>7. /\ DOMAIN Uses(a) = 1 .. Len(Uses(a))
      /\ \A k \in 1 .. Len(Uses(a)) : Uses(a)[k] \in Positions(a)
      /\ Len(Uses(a)) \in Nat
  BY <1>1, UsesAre
<1> DEFINE u == Uses(a)
<1>8. \A k \in 1 .. Len(u) : ResultsOf(a, k) = ResultsOf(b, k)
  <2>1. TAKE k \in 1 .. Len(u)
  <2>2. ASSUME NEW p \in Positions(a) PROVE LatestUse(a, k, p) <=> LatestUse(b, k, p)
    <3>1. \A l \in k + 1 .. Len(u) : At(a, u[l]).id = At(b, u[l]).id
      <4>1. \A l \in k + 1 .. Len(u) : l \in 1 .. Len(u)
        BY <1>7
      <4> QED BY <4>1, <1>4, <1>7
    <3>2. At(a, u[k]).id = At(b, u[k]).id /\ At(a, p).id = At(b, p).id
      BY <1>4, <1>7
    <3> QED BY <3>1, <3>2, <1>6 DEF LatestUse
  <2> QED BY <2>2, <1>3, <1>4 DEF ResultsOf
<1>9. \A k \in 1 .. Len(u) : At(a, u[k]).name = At(b, u[k]).name
  BY <1>4, <1>7
<1> DEFINE x(k) == [use |-> u[k], name |-> At(a, u[k]).name, results |-> ResultsOf(a, k)]
           y(k) == [use |-> u[k], name |-> At(b, u[k]).name, results |-> ResultsOf(b, k)]
<1>10. \A k \in 1 .. Len(u) : x(k) = y(k)
  BY <1>8, <1>9
<1>11. Interactions(a) = [k \in 1 .. Len(u) |-> x(k)]
  BY <1>7, InteractionsForm
<1>12. Interactions(b) = [k \in 1 .. Len(u) |-> y(k)]
  BY <1>6, <1>7, InteractionsForm
<1> HIDE DEF x, y, u
<1>13. [k \in 1 .. Len(u) |-> x(k)] = [k \in 1 .. Len(u) |-> y(k)]
  BY <1>10
<1> QED BY <1>11, <1>12, <1>13

(* The later interactions of all whose tool the edit does not exclude.        *)
NewerThan(all, k, edit) == {l \in k + 1 .. Len(all) : all[l].name \notin edit.exclude}

(* The blocks an edit clears belong to interactions it may clear, with at     *)
(* least `keep` newer ones of the kind.                                       *)
LEMMA ClearsTheOldest ==
  ASSUME NEW ms \in Seq(Messages), NEW edit, edit.keep \in Nat,
         ~(edit.keep >= Len(Eligible(ms, edit))),
         NEW p \in Clearables(SubSeq(Eligible(ms, edit), 1, Len(Eligible(ms, edit)) - edit.keep), edit)
  PROVE  \E k \in 1 .. Len(Interactions(ms)) :
           /\ p \in Interactions(ms)[k].results \cup {Interactions(ms)[k].use}
           /\ Interactions(ms)[k].name \notin edit.exclude
           /\ Cardinality(NewerThan(Interactions(ms), k, edit)) >= edit.keep
<1> DEFINE all == Interactions(ms)
           I   == {k \in DOMAIN all : all[k].name \notin edit.exclude}
           e   == Kept(all, I)
           S   == {all[k] : k \in 1 .. Len(all)}
           n   == Len(e) - edit.keep
           s   == SubSeq(e, 1, n)
<1>1. all \in Seq(S) /\ Len(all) \in Nat /\ DOMAIN all = 1 .. Len(all)
  BY InteractionsAre
<1>2. e = Eligible(ms, edit)
  BY DEF Eligible
<1>3. \A k \in 1 .. Len(all) : k \in I <=> all[k].name \notin edit.exclude
  BY <1>1
<1> HIDE DEF all, I, S
<1>4. e \in Seq(S)
  BY <1>1, KeptPlaces
<1>5. PICK at : Picked(all, I, e, at)
  BY <1>1, KeptPlaces
<1>6. p \in Clearables(s, edit) /\ ~(edit.keep >= Len(e))
  BY <1>2
<1> HIDE DEF e
<1>7. Len(e) \in Nat
  BY <1>4, LenProperties
<1>8. n \in 1 .. Len(e) /\ n + edit.keep = Len(e) /\ n \in Nat
  BY <1>6, <1>7
<1> HIDE DEF n
<1>9. Len(s) = n /\ \A m \in 1 .. n : s[m] = e[m]
  <2>1. 1 \in 1 .. Len(e) + 1 /\ n \in 0 .. Len(e) /\ 1 <= n
    BY <1>7, <1>8
  <2>2. /\ Len(s) = (IF 1 <= n THEN n - 1 + 1 ELSE 0)
        /\ \A i \in 1 .. Len(s) : s[i] = e[1 + i - 1]
    BY <1>4, <2>1, PartType
  <2> HIDE DEF s
  <2>3. Len(s) = n
    BY <2>1, <2>2, <1>8
  <2>4. \A m \in 1 .. n : 1 + m - 1 = m
    OBVIOUS
  <2> QED BY <2>2, <2>3, <2>4
<1>10. DOMAIN s = 1 .. n
  <2>1. s \in Seq(S)
    <3>1. 1 \in 1 .. Len(e) + 1 /\ n \in 0 .. Len(e)
      BY <1>7, <1>8
    <3> QED BY <1>4, <3>1, PartType
  <2> HIDE DEF s
  <2> QED BY <2>1, <1>9, LenProperties
<1> HIDE DEF s
<1>11. PICK m \in 1 .. n : p \in Clearable(s[m], edit)
  BY <1>6, <1>10 DEF Clearables, ToSet
<1>12. m \in 1 .. Len(e)
  BY <1>7, <1>8
<1>13. PICK k \in 1 .. Len(all) : k \in I /\ m = at[k]
  BY <1>5, <1>12 DEF Picked
<1>14. s[m] = all[k]
  BY <1>5, <1>9, <1>13 DEF Picked
<1>15. p \in all[k].results \cup {all[k].use}
  BY <1>11, <1>14 DEF Clearable
<1> DEFINE N  == NewerThan(all, k, edit)
           K  == 1 .. edit.keep
           at_(q) == CHOOSE l \in 1 .. Len(all) : l \in I /\ m + q = at[l]
           f  == [q \in K |-> at_(q)]
<1>16. ASSUME NEW q \in K
       PROVE  at_(q) \in 1 .. Len(all) /\ at_(q) \in I /\ m + q = at[at_(q)]
  <2>1. m + q \in 1 .. Len(e)
    BY <1>7, <1>8, <1>12, <1>16
  <2>2. \E l \in 1 .. Len(all) : l \in I /\ m + q = at[l]
    BY <2>1, <1>5 DEF Picked
  <2> QED BY <2>2
<1>17. \A q \in K : f[q] = at_(q)
  OBVIOUS
<1> HIDE DEF at_
<1>18. ASSUME NEW q \in K PROVE f[q] \in N
  <2> DEFINE l == at_(q)
  <2>1. l \in 1 .. Len(all) /\ l \in I /\ m + q = at[l]
    BY <1>16
  <2> HIDE DEF l
  <2>2. k < l
    <3>1. l < k => at[l] < at[k]
      BY <1>5, <1>13, <2>1 DEF Picked
    <3>2. m < m + q
      BY <1>12, <1>7
    <3>3. l = k => at[l] = at[k]
      OBVIOUS
    <3> QED BY <3>1, <3>2, <3>3, <2>1, <1>13, <1>7, <1>12
  <2>3. l \in k + 1 .. Len(all)
    BY <2>1, <2>2, <1>1
  <2>4. all[l].name \notin edit.exclude
    BY <2>1, <1>3
  <2> QED BY <2>3, <2>4, <1>17 DEF l, NewerThan
<1>19. f \in [K -> N]
  BY <1>18
<1>20. \A q, r \in K : f[q] = f[r] => q = r
  <2>1. TAKE q, r \in K
  <2>2. m + q = at[at_(q)] /\ m + r = at[at_(r)] /\ f[q] = at_(q) /\ f[r] = at_(r)
    BY <1>16, <1>17
  <2> QED BY <2>2, <1>12
<1> HIDE DEF f
<1>21. f \in Injection(K, N)
  BY <1>19, <1>20 DEF Injection, IsInjective
<1>22. IsFiniteSet(N)
  <2>1. N \in SUBSET (1 .. Len(all))
    BY <1>1 DEF NewerThan
  <2>2. IsFiniteSet(1 .. Len(all))
    BY <1>1, FS_Interval
  <2> QED BY <2>1, <2>2, FS_Subset
<1>23. Cardinality(K) <= Cardinality(N)
  BY <1>21, <1>22, FS_Injection
<1>24. Cardinality(K) = edit.keep
  <2> DEFINE w == edit.keep
  <2>1. w \in Nat
    OBVIOUS
  <2> HIDE DEF w
  <2>2. Cardinality(1 .. w) = IF 1 > w THEN 0 ELSE w - 1 + 1
    BY <2>1, FS_Interval
  <2>3. Cardinality(1 .. w) = w
    BY <2>1, <2>2
  <2> QED BY <2>3 DEF w
<1>25. Cardinality(N) \in Nat
  BY <1>22, FS_CardinalityType
<1>26. Cardinality(N) >= edit.keep
  BY <1>23, <1>24, <1>25
<1> QED BY <1>3, <1>13, <1>15, <1>26 DEF all

(* The cleared blocks of the interactions of ms are old by one of the first n *)
(* edits.                                                                     *)
OldOnly(ms, edits, n) ==
  \A k \in 1 .. Len(Interactions(ms)) :
    (\E p \in Interactions(ms)[k].results \cup {Interactions(ms)[k].use} : At(ms, p).cleared) =>
      \E i \in 1 .. n :
        /\ edits[i].type = "clear_tool_uses"
        /\ Interactions(ms)[k].name \notin edits[i].exclude
        /\ Cardinality(NewerThan(Interactions(ms), k, edits[i])) >= edits[i].keep

(* What clearing leaves at each position.                                     *)
LEMMA ClearedAre ==
  ASSUME NEW ms \in Seq(Messages), NEW ps, NEW new, new = ClearedAt(ms, ps)
  PROVE  \A i \in 1 .. Len(ms) : \A j \in 1 .. Len(ms[i].blocks) :
           <<i, j>> \notin ps => new[i].blocks[j] = ms[i].blocks[j]
<1> SUFFICES ASSUME NEW i \in 1 .. Len(ms), NEW j \in 1 .. Len(ms[i].blocks), <<i, j>> \notin ps
             PROVE  new[i].blocks[j] = ms[i].blocks[j]
  OBVIOUS
<1>1. ClearedAt(ms, ps)[i].blocks[j] =
        IF <<i, j>> \in ps THEN Cleared(ms[i].blocks[j]) ELSE ms[i].blocks[j]
  BY ClearedShape
<1> QED BY <1>1

(* Clearing other blocks than those of interactions clears none of theirs.    *)
LEMMA ClearingElsewhere ==
  ASSUME NEW ms \in Seq(Messages), NEW ps, NEW edits, NEW n, OldOnly(ms, edits, n),
         \A p \in ps \cap Positions(ms) : At(ms, p).type \notin ToolTypes
  PROVE  OldOnly(ClearedAt(ms, ps), edits, n)
<1> DEFINE new == ClearedAt(ms, ps)
           all == Interactions(ms)
<1>1. SameShape(ms, new)
  BY ClearedShape
<1>2. \A i \in 1 .. Len(ms) : \A j \in 1 .. Len(ms[i].blocks) :
        <<i, j>> \notin ps => new[i].blocks[j] = ms[i].blocks[j]
  BY ClearedAre
<1> HIDE DEF new
<1>3. Interactions(new) = all
  BY <1>1, InteractionsSame
<1>4. ASSUME NEW k \in 1 .. Len(all), NEW p \in all[k].results \cup {all[k].use}
      PROVE  At(new, p) = At(ms, p)
  <2>1. p \in Positions(ms) /\ At(ms, p).type \in ToolTypes
    BY <1>4, OwnBlocks
  <2>2. p \notin ps
    BY <2>1
  <2>3. PICK i \in 1 .. Len(ms) : \E j \in 1 .. Len(ms[i].blocks) : p = <<i, j>>
    BY <2>1, PositionsAre
  <2>4. PICK j \in 1 .. Len(ms[i].blocks) : p = <<i, j>>
    BY <2>3
  <2>5. new[i].blocks[j] = ms[i].blocks[j]
    BY <2>2, <2>4, <1>2
  <2> QED BY <2>4, <2>5 DEF At
<1> HIDE DEF all
<1>5. OldOnly(new, edits, n)
  BY <1>3, <1>4 DEF OldOnly, all
<1> QED BY <1>5 DEF new

(* Clearing thinking clears no block of an interaction.                       *)
LEMMA ClearThinkingElsewhere ==
  ASSUME NEW ms \in Seq(Messages), NEW keep, NEW edits, NEW n, OldOnly(ms, edits, n)
  PROVE  OldOnly(ClearThinking(ms, keep), edits, n)
<1>1. PICK T : ClearThinking(ms, keep) = ClearedAt(ms, UNION {ThinkingIn(ms, i) : i \in T})
  BY DEF ClearThinking
<1>2. \A p \in UNION {ThinkingIn(ms, i) : i \in T} : At(ms, p).type \notin ToolTypes
  BY DEF ThinkingIn, ToolTypes
<1> QED BY <1>1, <1>2, ClearingElsewhere

(* One more edit clears only what is old by it.                               *)
LEMMA EditClearsOld ==
  ASSUME NEW ms \in Seq(Messages), NEW edits, NEW n \in Nat, OldOnly(ms, edits, n),
         edits[n + 1].keep \in Nat
  PROVE  OldOnly(ApplyEdit(ms, edits[n + 1]), edits, n + 1)
<1> DEFINE e == edits[n + 1]
           all == Interactions(ms)
<1>1. OldOnly(ms, edits, n + 1)
  <2>1. \A i \in 1 .. n : i \in 1 .. n + 1
    OBVIOUS
  <2> QED BY <2>1 DEF OldOnly
<1>2. CASE e.type = "clear_tool_uses" /\ ApplyEdit(ms, e) # ms
  <2> DEFINE el == Eligible(ms, e)
             ps == Clearables(SubSeq(el, 1, Len(el) - e.keep), e)
             new == ClearedAt(ms, ps)
  <2>1. ApplyEdit(ms, e) = new /\ ~(e.keep >= Len(el))
    BY <1>2 DEF ApplyEdit, EditToolUses, ClearToolUses
  <2>2. ASSUME NEW p \in ps
        PROVE  \E k \in 1 .. Len(all) :
                 /\ p \in all[k].results \cup {all[k].use} /\ all[k].name \notin e.exclude
                 /\ Cardinality(NewerThan(all, k, e)) >= e.keep
    <3> HIDE DEF e
    <3> QED BY <2>1, <2>2, ClearsTheOldest DEF e
  <2>3. SameShape(ms, new)
    BY ClearedShape
  <2>4. \A i \in 1 .. Len(ms) : \A j \in 1 .. Len(ms[i].blocks) :
          <<i, j>> \notin ps => new[i].blocks[j] = ms[i].blocks[j]
    <3> HIDE DEF ps, el
    <3> QED BY ClearedAre
  <2> HIDE DEF new, ps, el
  <2>5. Interactions(new) = all
    BY <2>3, InteractionsSame
  <2>6. ASSUME NEW k \in 1 .. Len(all), NEW p \in all[k].results \cup {all[k].use}, At(new, p).cleared
        PROVE  \E i \in 1 .. n + 1 :
                 /\ edits[i].type = "clear_tool_uses" /\ all[k].name \notin edits[i].exclude
                 /\ Cardinality(NewerThan(all, k, edits[i])) >= edits[i].keep
    <3>1. p \in Positions(ms) /\ \A l \in 1 .. Len(all) : p \in all[l].results \cup {all[l].use} => l = k
      BY <2>6, OwnBlocks
    <3>2. CASE p \in ps
      <4>1. /\ all[k].name \notin e.exclude /\ Cardinality(NewerThan(all, k, e)) >= e.keep
        BY <3>1, <3>2, <2>2
      <4>2. n + 1 \in 1 .. n + 1
        OBVIOUS
      <4> QED BY <4>1, <4>2, <1>2
    <3>3. CASE p \notin ps
      <4>1. PICK i \in 1 .. Len(ms) : \E j \in 1 .. Len(ms[i].blocks) : p = <<i, j>>
        BY <3>1, PositionsAre
      <4>2. PICK j \in 1 .. Len(ms[i].blocks) : p = <<i, j>>
        BY <4>1
      <4>3. new[i].blocks[j] = ms[i].blocks[j]
        BY <4>2, <3>3, <2>4
      <4>4. At(ms, p).cleared
        BY <4>2, <4>3, <2>6 DEF At
      <4> QED BY <4>4, <1>1, <2>6 DEF OldOnly
    <3> QED BY <3>2, <3>3
  <2>7. OldOnly(new, edits, n + 1)
    <3> HIDE DEF all
    <3> QED BY <2>5, <2>6 DEF OldOnly
  <2> QED BY <2>1, <2>7
<1>3. CASE e.type = "clear_thinking" /\ ApplyEdit(ms, e) # ms
  <2>1. ApplyEdit(ms, e) = ClearThinking(ms, e.keep)
    BY <1>3 DEF ApplyEdit
  <2> QED BY <2>1, <1>1, ClearThinkingElsewhere
<1>4. CASE ApplyEdit(ms, e) = ms
  BY <1>1, <1>4
<1>5. ApplyEdit(ms, e) = ms \/ e.type = "clear_tool_uses" \/ e.type = "clear_thinking"
  BY DEF ApplyEdit
<1> QED BY <1>2, <1>3, <1>4, <1>5

(* All the edits together clear only what is old.                             *)
LEMMA AllAppliedClearsOld ==
  ASSUME NEW ms \in Seq(Messages), NEW edits \in Seq(ContextEdits), OldOnly(ms, edits, 0)
  PROVE  OldOnly(AllApplied(ms, edits), edits, Len(edits))
<1> DEFINE N == Len(edits)
<1>1. N \in Nat /\ \A i \in 1 .. N : edits[i].keep \in Nat
  <2>1. N \in Nat /\ \A i \in 1 .. N : edits[i] \in ContextEdits
    BY LenProperties
  <2> QED BY <2>1 DEF ContextEdits
<1>2. PICK g : Editing(ms, edits, N, g) /\ AllApplied(ms, edits) = g[N]
  BY <1>1, AppliedSteps
<1> DEFINE T == {n \in 0 .. N : g[n] \in Seq(Messages) /\ OldOnly(g[n], edits, n)}
<1>3. 0 \in T
  BY <1>1, <1>2 DEF Editing
<1>4. ASSUME NEW n \in 1 .. N, n - 1 \in T PROVE n \in T
  <2> DEFINE h == g[n - 1]
  <2>1. h \in Seq(Messages) /\ OldOnly(h, edits, n - 1)
    BY <1>4
  <2>2. g[n] = ApplyEdit(h, edits[n])
    BY <1>2 DEF Editing
  <2> HIDE DEF h
  <2> DEFINE m == n - 1
  <2>3. m \in Nat /\ m + 1 = n /\ OldOnly(h, edits, m)
    BY <1>1, <2>1
  <2> HIDE DEF m
  <2>4. edits[m + 1].keep \in Nat
    BY <2>3, <1>1
  <2>5. OldOnly(ApplyEdit(h, edits[m + 1]), edits, m + 1)
    BY <2>1, <2>3, <2>4, EditClearsOld
  <2>6. g[n] \in Seq(Messages)
    BY <2>1, <2>2, ApplyEditShape DEF SameShape
  <2>7. OldOnly(g[n], edits, n)
    BY <2>2, <2>3, <2>5
  <2> QED BY <2>6, <2>7, <1>1
<1>5. \A n \in 0 .. N : n \in T
  <2> HIDE DEF T, N
  <2> QED BY <1>1, <1>3, <1>4, UpTo
<1>6. N \in T
  BY <1>1, <1>5
<1> QED BY <1>2, <1>6

(* What the edits of a request without hard limits clear is old.              *)
LEMMA EditedClearsOld ==
  ASSUME NEW ms \in Seq(Messages), NEW conf, NEW asked,
         EffectiveEdits(conf, asked) \in Seq(ContextEdits),
         \A i \in 1 .. Len(ms) : \A j \in 1 .. Len(ms[i].blocks) : ms[i].blocks[j].cleared = FALSE,
         conf.limits.tools = {}, conf.limits.size = {}
  PROVE  OldOnly(Edited(conf, asked, ms), EffectiveEdits(conf, asked), Len(EffectiveEdits(conf, asked)))
<1> DEFINE edits == EffectiveEdits(conf, asked)
           N == Len(edits)
           a == AllApplied(ms, edits)
           t == Limited(a, "clear_thinking", conf.limits.thinking)
<1>1. edits \in Seq(ContextEdits) /\ N \in Nat
  BY LenProperties
<1> HIDE DEF edits
<1>2. \A n : OldOnly(ms, edits, n)
  <2>1. ASSUME NEW k \in 1 .. Len(Interactions(ms)),
               NEW p \in Interactions(ms)[k].results \cup {Interactions(ms)[k].use}
        PROVE  At(ms, p).cleared = FALSE
    <3>1. p \in Positions(ms)
      BY <2>1, OwnBlocks
    <3> QED BY <3>1, PositionsAre
  <2> QED BY <2>1 DEF OldOnly
<1>3. OldOnly(a, edits, N) /\ a \in Seq(Messages)
  BY <1>1, <1>2, AllAppliedClearsOld, AllAppliedShape DEF SameShape
<1> HIDE DEF a
<1>4. OldOnly(t, edits, N)
  <2>1. \A keep : LET e == Edit("clear_thinking", keep) IN ApplyEdit(a, e) = ClearThinking(a, keep)
    BY DEF ApplyEdit, Edit
  <2> QED BY <2>1, <1>3, ClearThinkingElsewhere DEF Limited
<1>5. t \in Seq(Messages)
  BY <1>3, LimitedShape DEF SameShape
<1> HIDE DEF t
<1>6. Oversized(t, {}) = {}
  BY DEF Oversized
<1>7. OldOnly(ClearedAt(t, {}), edits, N)
  BY <1>4, <1>5, ClearingElsewhere
<1>8. Edited(conf, asked, ms) = IF ~conf.enabled THEN ms ELSE ClearedAt(t, {})
  <2>1. Limited(a, "clear_tool_uses", {}) = a
    BY DEF Limited
  <2> QED BY <1>6, <2>1 DEF Edited, HardLimits, a, t, edits
<1> QED BY <1>2, <1>7, <1>8 DEF edits

(* The edited request of a reachable state has only old blocks cleared.       *)
LEMMA EditedIsOld == Inv => OnlyOldestAreCleared
<1> SUFFICES ASSUME Inv, stage = "edited", config.context.limits.tools = {},
                    config.context.limits.size = {}
             PROVE  LET all == Interactions(messages)
                        Newer(k, edit) == {l \in k + 1 .. Len(all) : all[l].name \notin edit.exclude}
                    IN \A k \in DOMAIN all :
                         (\E p \in all[k].results \cup {all[k].use} : At(messages, p).cleared) =>
                         \E i \in DOMAIN Policy : /\ Policy[i].type = "clear_tool_uses"
                                                  /\ all[k].name \notin Policy[i].exclude
                                                  /\ Cardinality(Newer(k, Policy[i])) >= Policy[i].keep
  BY DEF OnlyOldestAreCleared
<1>1. /\ transcript \in Seq(Messages)
      /\ \A i \in 1 .. Len(transcript) : \A j \in 1 .. Len(transcript[i].blocks) :
           transcript[i].blocks[j].cleared = FALSE
  BY DEF Inv, IsTranscript, IsFresh
<1>2. Policy \in Seq(ContextEdits)
  BY PolicyIs DEF Policy, Inv
<1>3. DOMAIN Policy = 1 .. Len(Policy)
  BY <1>2, LenProperties
<1>4. messages = EditedNow
  BY DEF Inv
<1>5. OldOnly(messages, Policy, Len(Policy))
  BY <1>1, <1>2, <1>4, EditedClearsOld DEF Policy, EditedNow
<1>6. messages \in Seq(Messages)
  BY <1>4, PromotedKeepsCalls DEF SameShape
<1>7. DOMAIN Interactions(messages) = 1 .. Len(Interactions(messages))
  BY <1>6, InteractionsAre
<1> QED BY <1>3, <1>5, <1>7 DEF OldOnly, NewerThan

(* Without hard limits, whatever the edits and the transcript, what is        *)
(* cleared has enough newer uses of such tools.                               *)
THEOREM ClearedIsOld == Spec => []OnlyOldestAreCleared
<1>1. Inv => OnlyOldestAreCleared
  BY EditedIsOld
<1> QED BY <1>1, InvAlways, PTL

--------------------------------------------------------------------------------
(* The commands of a request. *)

(* The pieces that are not of a local-only command, and those that are not a  *)
(* command without a name.                                                    *)
CleanPieces == {x \in Pieces : /\ ~(x.tag = "command-name" /\ x.is \in LocalOnly)
                               /\ ~(x.tag = "local-command-stdout" /\ x.is \in Announced)}
NamedPieces == {x \in Pieces : x.tag = "command-name" => x.is # ""}

(* A sequence is one over the set its elements are in.                        *)
LEMMA SeqOver ==
  ASSUME NEW T, NEW s \in Seq(T), NEW S
  PROVE  (\A k \in 1 .. Len(s) : s[k] \in S) <=> s \in Seq(S)
<1>1. Len(s) \in Nat /\ s = [k \in 1 .. Len(s) |-> s[k]]
  BY LenProperties
<1>2. ASSUME \A k \in 1 .. Len(s) : s[k] \in S PROVE s \in Seq(S)
  <2>1. s \in [1 .. Len(s) -> S]
    BY <1>1, <1>2
  <2> QED BY <2>1, <1>1, SeqDef
<1>3. ASSUME s \in Seq(S) PROVE \A k \in 1 .. Len(s) : s[k] \in S
  BY <1>3, LenProperties
<1> QED BY <1>2, <1>3

(* What is clean is so piece by piece.                                        *)
LEMMA CleanIs ==
  ASSUME NEW p \in Seq(Pieces)
  PROVE  Clean(p) <=> p \in Seq(CleanPieces)
<1>1. Len(p) \in Nat /\ DOMAIN p = 1 .. Len(p) /\ \A k \in 1 .. Len(p) : p[k] \in Pieces
  BY LenProperties
<1>2. Clean(p) <=> \A k \in 1 .. Len(p) :
                     /\ ~(p[k].tag = "command-name" /\ p[k].is \in LocalOnly)
                     /\ ~(p[k].tag = "local-command-stdout" /\ p[k].is \in Announced)
  BY <1>1 DEF Clean, LocalNames, LocalStdout, Tagged
<1>3. Clean(p) <=> \A k \in 1 .. Len(p) : p[k] \in CleanPieces
  BY <1>1, <1>2 DEF CleanPieces
<1> QED BY <1>3, SeqOver

(* The commands of a text are named piece by piece.                           *)
LEMMA NamedIs ==
  ASSUME NEW p \in Seq(Pieces)
  PROVE  CommandsAreNamed(p) <=> p \in Seq(NamedPieces)
<1>1. Len(p) \in Nat /\ DOMAIN p = 1 .. Len(p) /\ \A k \in 1 .. Len(p) : p[k] \in Pieces
  BY LenProperties
<1>2. CommandsAreNamed(p) <=> \A k \in 1 .. Len(p) : p[k].tag = "command-name" => p[k].is # ""
  BY <1>1 DEF CommandsAreNamed, Tagged
<1>3. CommandsAreNamed(p) <=> \A k \in 1 .. Len(p) : p[k] \in NamedPieces
  BY <1>1, <1>2 DEF NamedPieces
<1> QED BY <1>3, SeqOver

(* The text of a message has the pieces of its blocks.                        *)
LEMMA TextOver ==
  ASSUME NEW m \in Messages, NEW S, \A j \in 1 .. Len(m.blocks) : m.blocks[j].text \in Seq(S)
  PROVE  MessageText(m) \in Seq(S)
<1> DEFINE b  == m.blocks
           ts == [j \in DOMAIN b |-> b[j].text]
<1>1. b \in Seq(Blocks)
  BY DEF Messages
<1>2. Len(b) \in Nat /\ DOMAIN b = 1 .. Len(b)
  BY <1>1, LenProperties
<1>3. ts \in [1 .. Len(b) -> Seq(S)]
  BY <1>2
<1>4. MessageText(m) = Joined(ts)
  BY DEF MessageText
<1> HIDE DEF ts, b
<1>5. ts \in Seq(Seq(S))
  BY <1>2, <1>3, SeqDef
<1> QED BY <1>4, <1>5, JoinedPlaces

(* What is joined to nothing but the last sequence is that sequence.          *)
LEMMA JoinedLast ==
  ASSUME NEW S, NEW ss \in Seq(Seq(S)), Len(ss) # 0, \A i \in 1 .. Len(ss) - 1 : ss[i] = <<>>
  PROVE  Joined(ss) = ss[Len(ss)]
<1> DEFINE N == Len(ss)
<1>1. N \in Nat /\ N # 0 /\ \A i \in 1 .. N : ss[i] \in Seq(S)
  BY LenProperties
<1>2. PICK g \in [0 .. N -> Seq(S)] : Joining(ss, N, g) /\ Joined(ss) = g[N]
  BY JoinedSteps
<1>3. \A i \in 1 .. N : g[i] = g[i - 1] \o ss[i]
  BY <1>2 DEF Joining
<1> DEFINE M == N - 1
           T == {n \in 0 .. M : g[n] = <<>>}
<1>4. M \in Nat /\ N = M + 1 /\ N \in 1 .. N /\ N - 1 = M /\ M \in 0 .. M
  BY <1>1
<1>5. 0 \in T
  BY <1>2, <1>4 DEF Joining
<1>6. ASSUME NEW n \in 1 .. M, n - 1 \in T PROVE n \in T
  <2>1. g[n - 1] = <<>> /\ n \in 1 .. N
    BY <1>4, <1>6
  <2>2. ss[n] = <<>>
    OBVIOUS
  <2>3. g[n] = g[n - 1] \o ss[n]
    BY <1>3, <2>1
  <2>4. <<>> \o <<>> = <<>>
    BY EmptySeq, ConcatEmptySeq
  <2> QED BY <2>1, <2>2, <2>3, <2>4, <1>4
<1>7. \A n \in 0 .. M : n \in T
  <2> HIDE DEF T, M
  <2> QED BY <1>4, <1>5, <1>6, UpTo
<1>8. g[M] = <<>>
  <2> HIDE DEF M
  <2> QED BY <1>4, <1>7
<1> HIDE DEF M, N
<1>9. g[N] = <<>> \o ss[N]
  BY <1>3, <1>4, <1>8
<1>10. <<>> \o ss[N] = ss[N]
  BY <1>1, <1>4, ConcatEmptySeq
<1> QED BY <1>2, <1>9, <1>10 DEF N

(* A message whose only text is set to p says p.                              *)
LEMMA WithTextSays ==
  ASSUME NEW m \in Messages, NEW p \in Seq(Pieces),
         \A j \in 1 .. Len(m.blocks) : m.blocks[j].type # "text" => m.blocks[j].text = <<>>
  PROVE  MessageText(WithText(m, p)) = p
<1> DEFINE b == m.blocks
           I == {j \in DOMAIN b : b[j].type # "text"}
           k == Kept(b, I)
           new == IF IsBlank(p) THEN k ELSE Append(k, Text(p))
           ts == [j \in DOMAIN new |-> new[j].text]
<1>1. b \in Seq(Blocks) /\ Len(b) \in Nat /\ DOMAIN b = 1 .. Len(b)
  <2>1. b \in Seq(Blocks)
    BY DEF Messages
  <2> QED BY <2>1, LenProperties
<1>2. WithText(m, p) = [m EXCEPT !.blocks = new]
  BY DEF WithText
<1>3. \A j \in 1 .. Len(b) : j \in I => b[j].text = <<>>
  OBVIOUS
<1> HIDE DEF b, I
<1>4. k \in Seq(Blocks) /\ \A j \in 1 .. Len(k) : k[j].text = <<>>
  <2>1. k \in Seq(Blocks) /\ \E at : Picked(b, I, k, at)
    BY <1>1, KeptPlaces
  <2>2. PICK at : Picked(b, I, k, at)
    BY <2>1
  <2>3. ASSUME NEW j \in 1 .. Len(k) PROVE k[j].text = <<>>
    <3>1. PICK i \in 1 .. Len(b) : i \in I /\ j = at[i]
      BY <2>2 DEF Picked
    <3>2. k[j] = b[i]
      BY <2>2, <3>1 DEF Picked
    <3> QED BY <3>1, <3>2, <1>3
  <2> QED BY <2>1, <2>3
<1> HIDE DEF k
<1>5. Text(p) \in Blocks /\ Text(p).text = p
  BY TextIs
<1>6. WithText(m, p) \in Messages /\ WithText(m, p).blocks = new
  <2>1. WithText(m, p) \in Messages
    BY WithTextKeepsCalls
  <2>2. "blocks" \in DOMAIN m
    BY DEF Messages
  <2> QED BY <2>1, <2>2, <1>2
<1>7. new \in Seq(Blocks)
  <2> HIDE DEF new
  <2> QED BY <1>6 DEF Messages
<1>8. MessageText(WithText(m, p)) = Joined(ts)
  <2> HIDE DEF new
  <2> QED BY <1>6 DEF MessageText
<1>9. CASE p = <<>>
  <2>1. new = k
    BY <1>9 DEF IsBlank
  <2>2. \A j \in 1 .. Len(new) : new[j].text = <<>>
    BY <1>4, <2>1
  <2> HIDE DEF new
  <2>3. /\ Len(new) \in Nat /\ DOMAIN new = 1 .. Len(new)
        /\ ts \in Seq(Seq(Pieces)) /\ Len(ts) = Len(new)
    BY <1>7, BlockTexts
  <2>4. \A j \in 1 .. Len(ts) : ts[j] = <<>>
    BY <2>2, <2>3
  <2> HIDE DEF ts
  <2>5. CASE Len(ts) = 0
    <3>1. PICK g \in [0 .. Len(ts) -> Seq(Pieces)] : Joining(ts, Len(ts), g) /\ Joined(ts) = g[Len(ts)]
      BY <2>3, JoinedSteps
    <3> QED BY <3>1, <2>5, <1>8, <1>9 DEF Joining
  <2>6. CASE Len(ts) # 0
    <3>1. Len(ts) \in 1 .. Len(ts) /\ \A j \in 1 .. Len(ts) - 1 : j \in 1 .. Len(ts)
      BY <2>3, <2>6
    <3>2. Joined(ts) = ts[Len(ts)]
      BY <2>3, <2>4, <2>6, <3>1, JoinedLast
    <3> QED BY <3>1, <3>2, <2>4, <1>8, <1>9
  <2> QED BY <2>5, <2>6
<1>10. CASE p # <<>>
  <2>1. new = Append(k, Text(p))
    BY <1>10 DEF IsBlank
  <2>2. /\ Len(k) \in Nat /\ Len(new) = Len(k) + 1 /\ new[Len(k) + 1] = Text(p)
        /\ \A j \in 1 .. Len(k) : new[j] = k[j]
    BY <1>4, <1>5, <2>1, AppendProperties, LenProperties
  <2> HIDE DEF new
  <2>3. /\ Len(new) \in Nat /\ DOMAIN new = 1 .. Len(new)
        /\ ts \in Seq(Seq(Pieces)) /\ Len(ts) = Len(new)
    BY <1>7, BlockTexts
  <2>4. \A j \in 1 .. Len(new) : ts[j] = new[j].text
    BY <2>3
  <2> HIDE DEF ts
  <2>5. Len(ts) = Len(k) + 1 /\ Len(ts) # 0 /\ Len(ts) - 1 = Len(k) /\ Len(ts) \in 1 .. Len(new)
        /\ \A j \in 1 .. Len(k) : j \in 1 .. Len(new)
    BY <2>2, <2>3
  <2>6. \A j \in 1 .. Len(ts) - 1 : ts[j] = <<>>
    BY <2>2, <2>4, <2>5, <1>4
  <2>7. Joined(ts) = ts[Len(ts)]
    BY <2>3, <2>5, <2>6, JoinedLast
  <2>8. ts[Len(ts)] = p
    BY <2>2, <2>4, <2>5, <1>5
  <2> QED BY <2>7, <2>8, <1>8
<1> QED BY <1>9, <1>10

(* A block that has a text only if it is one, and names its commands.         *)
IsPlain(b) == (b.type # "text" => b.text = <<>>) /\ CommandsAreNamed(b.text)

(* What the inclusion policy leaves of the blocks of a user's message.        *)
LEMMA RemainingIs ==
  ASSUME NEW b \in Seq(Blocks), \A j \in 1 .. Len(b) : IsPlain(b[j]),
         NEW k \in 1 .. Len(Remaining(IncludedBlocks(b)))
  PROVE  LET r == Remaining(IncludedBlocks(b))
         IN  IsPlain(r[k]) /\ Clean(r[k].text)
<1> DEFINE c == IncludedBlocks(b)
           I == {j \in DOMAIN c : c[j].type # "text" \/ ~IsBlank(c[j].text)}
           r == Remaining(c)
<1>1. /\ c \in Seq(Blocks) /\ Len(c) = Len(b)
      /\ \A j \in 1 .. Len(b) :
           /\ c[j].type = b[j].type
           /\ c[j].text = IF b[j].type = "text" THEN Included(b[j].text) ELSE b[j].text
  BY IncludedBlocksIs
<1>2. r = Kept(c, I)
  BY DEF Remaining
<1>3. k \in 1 .. Len(r)
  OBVIOUS
<1> HIDE DEF c, I, r
<1>4. PICK at : Picked(c, I, r, at)
  BY <1>1, <1>2, KeptPlaces
<1>5. PICK j \in 1 .. Len(c) : j \in I /\ k = at[j]
  BY <1>3, <1>4 DEF Picked
<1>6. r[k] = c[j] /\ j \in 1 .. Len(b)
  BY <1>1, <1>4, <1>5 DEF Picked
<1> DEFINE p == b[j].text
<1>7. p \in Seq(Pieces) /\ (b[j].type # "text" => p = <<>>) /\ CommandsAreNamed(p)
  <2>1. b[j] \in Blocks
    BY <1>6, LenProperties
  <2> QED BY <2>1, <1>6 DEF Blocks, IsPlain
<1>8. r[k].type = b[j].type /\ r[k].text = IF b[j].type = "text" THEN Included(p) ELSE p
  BY <1>1, <1>6
<1> HIDE DEF p
<1>9. Clean(<<>>)
  BY DEF Clean, LocalNames, LocalStdout, Tagged
<1>10. Included(p) \in Seq(Pieces) /\ Clean(Included(p)) /\ CommandsAreNamed(Included(p))
  <2>1. Included(p) \in Seq(Pieces) /\ Clean(Included(p))
    BY <1>7, IncludedIsClean
  <2>2. p \in Seq(NamedPieces)
    BY <1>7, NamedIs
  <2>3. Included(p) \in Seq(NamedPieces)
    BY <2>2, IncludedIsClean
  <2> QED BY <2>1, <2>3, NamedIs
<1>11. IsPlain(r[k]) /\ Clean(r[k].text)
  BY <1>7, <1>8, <1>9, <1>10 DEF IsPlain
<1> QED BY <1>11 DEF r, c

(* The blocks of an included request: plain, and the user's ones clean.       *)
LEMMA IncludedIsPlain ==
  ASSUME NEW ms \in Seq(Messages),
         \A i \in 1 .. Len(ms) : \A j \in 1 .. Len(ms[i].blocks) : IsPlain(ms[i].blocks[j]),
         NEW i \in 1 .. Len(ms)
  PROVE  LET m == ApplyInclusion(ms)[i]
         IN  \A j \in 1 .. Len(m.blocks) :
               IsPlain(m.blocks[j]) /\ (m.role = "user" => Clean(m.blocks[j].text))
<1> DEFINE m == ApplyInclusion(ms)[i]
<1>1. /\ m.role = ms[i].role
      /\ m.blocks = IF ms[i].role # "user" THEN ms[i].blocks ELSE Remaining(IncludedBlocks(ms[i].blocks))
  BY InclusionKeepsCalls DEF SameCalls
<1> HIDE DEF m
<1>2. ms[i].blocks \in Seq(Blocks)
  BY MessageTypes
<1>3. \A j \in 1 .. Len(m.blocks) : IsPlain(m.blocks[j]) /\ (m.role = "user" => Clean(m.blocks[j].text))
  <2> TAKE j \in 1 .. Len(m.blocks)
  <2>1. CASE ms[i].role # "user"
    BY <1>1, <2>1
  <2>2. CASE ms[i].role = "user"
    <3>1. m.blocks = Remaining(IncludedBlocks(ms[i].blocks))
      BY <1>1, <2>2
    <3> DEFINE b == ms[i].blocks
    <3>2. b \in Seq(Blocks) /\ \A l \in 1 .. Len(b) : IsPlain(b[l])
      BY <1>2
    <3>3. j \in 1 .. Len(Remaining(IncludedBlocks(b)))
      BY <3>1
    <3> HIDE DEF b
    <3>4. LET r == Remaining(IncludedBlocks(b)) IN IsPlain(r[j]) /\ Clean(r[j].text)
      BY <3>2, <3>3, RemainingIs
    <3> QED BY <3>1, <3>4 DEF b
  <2> QED BY <2>1, <2>2
<1> QED BY <1>3 DEF m

(* Blocks with the same texts.                                                *)
SameTexts(b, c) ==
  /\ Len(b) = Len(c)
  /\ \A j \in 1 .. Len(b) : b[j].type = c[j].type /\ b[j].text = c[j].text

(* Two sequences of blocks one after the other have the texts of both.        *)
LEMMA TextsJoined ==
  ASSUME NEW x \in Seq(Blocks), NEW y \in Seq(Blocks), NEW u \in Seq(Blocks), NEW v \in Seq(Blocks),
         SameTexts(x, y), SameTexts(u, v)
  PROVE  SameTexts(x \o u, y \o v)
<1>1. /\ Len(x) \in Nat /\ Len(u) \in Nat /\ Len(x \o u) = Len(x) + Len(u)
      /\ \A i \in 1 .. Len(x) : (x \o u)[i] = x[i]
      /\ \A j \in 1 .. Len(u) : (x \o u)[Len(x) + j] = u[j]
  BY ConcatAt
<1>2. /\ Len(y) \in Nat /\ Len(v) \in Nat /\ Len(y \o v) = Len(y) + Len(v)
      /\ \A i \in 1 .. Len(y) : (y \o v)[i] = y[i]
      /\ \A j \in 1 .. Len(v) : (y \o v)[Len(y) + j] = v[j]
  BY ConcatAt
<1> DEFINE a == Len(x)
           n == Len(u)
           p == x \o u
           q == y \o v
<1>3. a \in Nat /\ n \in Nat /\ Len(y) = a /\ Len(v) = n /\ Len(p) = a + n /\ Len(q) = a + n
  BY <1>1, <1>2 DEF SameTexts
<1>4. /\ \A i \in 1 .. a : p[i].type = q[i].type /\ p[i].text = q[i].text
      /\ \A j \in 1 .. n : p[a + j].type = q[a + j].type /\ p[a + j].text = q[a + j].text
  BY <1>1, <1>2, <1>3 DEF SameTexts
<1> HIDE DEF a, n, p, q
<1>5. ASSUME NEW k \in 1 .. a + n PROVE p[k].type = q[k].type /\ p[k].text = q[k].text
  <2>1. CASE k \in 1 .. a
    BY <2>1, <1>4
  <2>2. CASE k \notin 1 .. a
    <3>1. k - a \in 1 .. n /\ a + (k - a) = k
      BY <2>2, <1>3
    <3> QED BY <3>1, <1>4
  <2> QED BY <2>1, <2>2
<1>6. SameTexts(p, q)
  BY <1>3, <1>5 DEF SameTexts
<1> QED BY <1>6 DEF p, q

(* The blocks kept of the same places have the same texts.                    *)
LEMMA KeptTexts ==
  ASSUME NEW b \in Seq(Blocks), NEW c \in Seq(Blocks), SameTexts(b, c), NEW I
  PROVE  SameTexts(Kept(b, I), Kept(c, I))
<1> DEFINE N == Len(b)
           s == [i \in DOMAIN b |-> IF i \in I THEN <<b[i]>> ELSE <<>>]
           t == [i \in DOMAIN c |-> IF i \in I THEN <<c[i]>> ELSE <<>>]
<1>1. /\ N \in Nat /\ Len(c) = N /\ DOMAIN b = 1 .. N /\ DOMAIN c = 1 .. N
      /\ \A i \in 1 .. N : b[i] \in Blocks /\ c[i] \in Blocks /\ b[i].type = c[i].type /\ b[i].text = c[i].text
  BY LenProperties DEF SameTexts
<1>2. Kept(b, I) = Joined(s) /\ Kept(c, I) = Joined(t)
  BY DEF Kept
<1>3. ASSUME NEW i \in 1 .. N
      PROVE  /\ s[i] \in Seq(Blocks) /\ t[i] \in Seq(Blocks)
             /\ (i \in I /\ Len(s[i]) = 1 /\ s[i][1] = b[i] /\ Len(t[i]) = 1 /\ t[i][1] = c[i])
                \/ (i \notin I /\ Len(s[i]) = 0 /\ Len(t[i]) = 0)
  BY <1>1
<1>4. s \in Seq(Seq(Blocks)) /\ t \in Seq(Seq(Blocks)) /\ Len(s) = N /\ Len(t) = N
  <2>1. s \in [1 .. N -> Seq(Blocks)] /\ t \in [1 .. N -> Seq(Blocks)]
    BY <1>1, <1>3
  <2> HIDE DEF s, t, N
  <2> QED BY <2>1, <1>1, SeqDef, LenProperties
<1> HIDE DEF s, t, N
<1>5. ASSUME NEW i \in 1 .. N PROVE SameTexts(s[i], t[i])
  <2>1. CASE i \in I
    <3>1. Len(s[i]) = 1 /\ s[i][1] = b[i] /\ Len(t[i]) = 1 /\ t[i][1] = c[i]
      BY <2>1, <1>3
    <3>2. \A j \in 1 .. Len(s[i]) : j = 1
      BY <3>1
    <3> QED BY <3>1, <3>2, <1>1 DEF SameTexts
  <2>2. CASE i \notin I
    <3>1. Len(s[i]) = 0 /\ Len(t[i]) = 0
      BY <2>2, <1>3
    <3> QED BY <3>1 DEF SameTexts
  <2> QED BY <2>1, <2>2
<1>6. PICK g \in [0 .. N -> Seq(Blocks)] : Joining(s, N, g) /\ Joined(s) = g[N]
  BY <1>4, JoinedSteps
<1>7. PICK h \in [0 .. N -> Seq(Blocks)] : Joining(t, N, h) /\ Joined(t) = h[N]
  BY <1>4, JoinedSteps
<1> DEFINE T == {n \in 0 .. N : SameTexts(g[n], h[n])}
<1>8. 0 \in T
  <2>1. g[0] = <<>> /\ h[0] = <<>>
    BY <1>6, <1>7 DEF Joining
  <2> QED BY <2>1, <1>1 DEF SameTexts
<1>9. ASSUME NEW n \in 1 .. N, n - 1 \in T PROVE n \in T
  <2> DEFINE x == g[n - 1]
             y == h[n - 1]
             u == s[n]
             v == t[n]
  <2>1. SameTexts(x, y)
    BY <1>9
  <2>2. n - 1 \in 0 .. N /\ n \in 0 .. N
    BY <1>1
  <2>3. x \in Seq(Blocks) /\ y \in Seq(Blocks) /\ u \in Seq(Blocks) /\ v \in Seq(Blocks)
    BY <1>3, <1>6, <1>7, <2>2
  <2>4. g[n] = x \o u /\ h[n] = y \o v /\ SameTexts(u, v)
    BY <1>5, <1>6, <1>7 DEF Joining
  <2> HIDE DEF x, y, u, v
  <2>5. SameTexts(x \o u, y \o v)
    BY <2>1, <2>3, <2>4, TextsJoined
  <2> QED BY <2>2, <2>4, <2>5
<1>10. \A n \in 0 .. N : n \in T
  <2> HIDE DEF T
  <2> QED BY <1>1, <1>8, <1>9, UpTo
<1>11. SameTexts(g[N], h[N])
  <2>1. N \in 0 .. N
    BY <1>1
  <2>2. N \in T
    <3> HIDE DEF T
    <3> QED BY <2>1, <1>10
  <2> QED BY <2>2
<1> QED BY <1>2, <1>6, <1>7, <1>11

(* The text of a message is that of its blocks.                               *)
LEMMA TextsSay ==
  ASSUME NEW m \in Messages, NEW n \in Messages, SameTexts(m.blocks, n.blocks)
  PROVE  MessageText(m) = MessageText(n)
<1> DEFINE b == m.blocks
           c == n.blocks
<1>1. b \in Seq(Blocks) /\ c \in Seq(Blocks)
  BY DEF Messages
<1> HIDE DEF b, c
<1>2. Len(b) = Len(c) /\ DOMAIN b = 1 .. Len(b) /\ DOMAIN c = 1 .. Len(c)
  BY <1>1, LenProperties DEF SameTexts, b, c
<1>3. [j \in DOMAIN b |-> b[j].text] = [j \in DOMAIN c |-> c[j].text]
  BY <1>2 DEF SameTexts, b, c
<1> QED BY <1>3 DEF MessageText, b, c

(* What is cut depends on the texts only.                                     *)
LEMMA RemainingTexts ==
  ASSUME NEW x \in Seq(Blocks), NEW y \in Seq(Blocks), SameTexts(x, y)
  PROVE  SameTexts(Remaining(IncludedBlocks(x)), Remaining(IncludedBlocks(y)))
<1> DEFINE c == IncludedBlocks(x)
           d == IncludedBlocks(y)
           I == {j \in DOMAIN c : c[j].type # "text" \/ ~IsBlank(c[j].text)}
           J == {j \in DOMAIN d : d[j].type # "text" \/ ~IsBlank(d[j].text)}
<1>1. /\ c \in Seq(Blocks) /\ Len(c) = Len(x)
      /\ \A j \in 1 .. Len(x) :
           /\ c[j].type = x[j].type
           /\ c[j].text = IF x[j].type = "text" THEN Included(x[j].text) ELSE x[j].text
  BY IncludedBlocksIs
<1>2. /\ d \in Seq(Blocks) /\ Len(d) = Len(y)
      /\ \A j \in 1 .. Len(y) :
           /\ d[j].type = y[j].type
           /\ d[j].text = IF y[j].type = "text" THEN Included(y[j].text) ELSE y[j].text
  BY IncludedBlocksIs
<1>3. Remaining(c) = Kept(c, I) /\ Remaining(d) = Kept(d, J)
  BY DEF Remaining
<1> HIDE DEF c, d
<1>4. SameTexts(c, d)
  BY <1>1, <1>2 DEF SameTexts
<1>5. DOMAIN c = 1 .. Len(c) /\ DOMAIN d = 1 .. Len(d)
  BY <1>1, <1>2, LenProperties
<1>6. I = J
  BY <1>4, <1>5 DEF SameTexts
<1> HIDE DEF I, J
<1> QED BY <1>1, <1>2, <1>3, <1>4, <1>6, KeptTexts DEF c, d

(* Whatever was cleared, the inclusion policy leaves the same texts.          *)
LEMMA InclusionSays ==
  ASSUME NEW a, NEW b, SameShape(a, b), NEW i \in 1 .. Len(a)
  PROVE  /\ ApplyInclusion(a)[i].role = ApplyInclusion(b)[i].role
         /\ MessageText(ApplyInclusion(a)[i]) = MessageText(ApplyInclusion(b)[i])
<1>1. a \in Seq(Messages) /\ b \in Seq(Messages) /\ i \in 1 .. Len(b) /\ a[i].role = b[i].role
  BY DEF SameShape
<1>2. SameTexts(a[i].blocks, b[i].blocks)
  BY DEF SameShape, SameBlock, SameTexts
<1> DEFINE m == ApplyInclusion(a)[i]
           n == ApplyInclusion(b)[i]
<1>3. /\ m \in Messages /\ m.role = a[i].role
      /\ m.blocks = IF a[i].role # "user" THEN a[i].blocks ELSE Remaining(IncludedBlocks(a[i].blocks))
  <2>1. /\ SameCalls(a, ApplyInclusion(a))
        /\ m.blocks = IF a[i].role # "user" THEN a[i].blocks ELSE Remaining(IncludedBlocks(a[i].blocks))
    BY <1>1, InclusionKeepsCalls
  <2>2. ApplyInclusion(a) \in Seq(Messages) /\ Len(ApplyInclusion(a)) = Len(a) /\ m.role = a[i].role
    BY <2>1 DEF SameCalls
  <2>3. m \in Messages
    BY <2>2, MessageTypes
  <2> QED BY <2>1, <2>2, <2>3
<1>4. /\ n \in Messages /\ n.role = b[i].role
      /\ n.blocks = IF b[i].role # "user" THEN b[i].blocks ELSE Remaining(IncludedBlocks(b[i].blocks))
  <2>1. /\ SameCalls(b, ApplyInclusion(b))
        /\ n.blocks = IF b[i].role # "user" THEN b[i].blocks ELSE Remaining(IncludedBlocks(b[i].blocks))
    BY <1>1, InclusionKeepsCalls
  <2>2. ApplyInclusion(b) \in Seq(Messages) /\ Len(ApplyInclusion(b)) = Len(b) /\ n.role = b[i].role
    BY <1>1, <2>1 DEF SameCalls
  <2>3. n \in Messages
    BY <1>1, <2>2, MessageTypes
  <2> QED BY <2>1, <2>2, <2>3
<1> HIDE DEF m, n
<1> DEFINE x == a[i].blocks
           y == b[i].blocks
<1>5. x \in Seq(Blocks) /\ y \in Seq(Blocks) /\ SameTexts(x, y)
  BY <1>1, <1>2, MessageTypes
<1>6. SameTexts(m.blocks, n.blocks)
  <2>1. CASE a[i].role # "user"
    BY <2>1, <1>1, <1>3, <1>4, <1>5
  <2>2. CASE a[i].role = "user"
    <3>1. m.blocks = Remaining(IncludedBlocks(x)) /\ n.blocks = Remaining(IncludedBlocks(y))
      BY <2>2, <1>1, <1>3, <1>4
    <3> HIDE DEF x, y
    <3>2. SameTexts(Remaining(IncludedBlocks(x)), Remaining(IncludedBlocks(y)))
      BY <1>5, RemainingTexts
    <3> QED BY <3>1, <3>2
  <2> QED BY <2>1, <2>2
<1>7. MessageText(m) = MessageText(n)
  BY <1>3, <1>4, <1>6, TextsSay
<1> QED BY <1>1, <1>3, <1>4, <1>7 DEF m, n

(* The messages of the user's that say something.                             *)
LEMMA SpokenIs ==
  ASSUME NEW ms \in Seq(Messages)
  PROVE  /\ \A l : l \in Spoken(ms) <=> /\ l \in 1 .. Len(ms) /\ ms[l].role = "user"
                                        /\ MessageText(ms[l]) # <<>>
         /\ Spoken(ms) # {} => Max(Spoken(ms)) \in Spoken(ms) /\ \A l \in Spoken(ms) : l <= Max(Spoken(ms))
<1>1. Len(ms) \in Nat /\ DOMAIN ms = 1 .. Len(ms)
  BY MessageTypes
<1>2. \A l : l \in Spoken(ms) <=> l \in 1 .. Len(ms) /\ ms[l].role = "user" /\ MessageText(ms[l]) # <<>>
  BY <1>1 DEF Spoken, IsBlank
<1>3. Spoken(ms) \in SUBSET (1 .. Len(ms))
  BY <1>2
<1> QED BY <1>1, <1>2, <1>3, MaxIs

(* A text with a command is not blank, and the command has a name.            *)
LEMMA EnvelopeIs ==
  ASSUME NEW p \in Seq(Pieces), IsEnvelope(p), CommandsAreNamed(p)
  PROVE  p # <<>> /\ CommandOf(p) # NoCommand
<1> DEFINE T == Tagged(p, "command-name")
<1>1. Len(p) \in Nat /\ T \subseteq 1 .. Len(p) /\ T # {}
  BY TagPlaces DEF IsEnvelope
<1>2. p # <<>>
  <2>1. Len(p) # 0
    BY <1>1
  <2> QED BY <2>1
<1> HIDE DEF T
<1>3. Max(T) \in T
  BY <1>1, MaxIs
<1>4. p[Max(T)].is # ""
  BY <1>3 DEF CommandsAreNamed, T
<1> QED BY <1>2, <1>4 DEF CommandOf, NoCommand, T

(* The active command is what the user said last, if that is one.             *)
LEMMA ActiveIs ==
  ASSUME NEW ms \in Seq(Messages)
  PROVE  /\ \A l : l \in ActiveAt(ms) <=> /\ Spoken(ms) # {} /\ l = Max(Spoken(ms))
                                          /\ IsEnvelope(MessageText(ms[l]))
         /\ \A l \in ActiveAt(ms) : ActiveCommand(ms) = CommandOf(MessageText(ms[l]))
<1>1. \A l : l \in ActiveAt(ms) <=> /\ Spoken(ms) # {} /\ l = Max(Spoken(ms))
                                    /\ IsEnvelope(MessageText(ms[l]))
  BY DEF ActiveAt
<1>2. ASSUME NEW l \in ActiveAt(ms) PROVE ActiveCommand(ms) = CommandOf(MessageText(ms[l]))
  <2>1. ActiveAt(ms) = {l}
    BY <1>1, <1>2
  <2>2. l \in 1 .. Len(ms) /\ Len(ms) \in Nat
    BY <1>1, <1>2, SpokenIs, MessageTypes
  <2>3. {l} \in SUBSET (1 .. Len(ms)) /\ {l} # {}
    BY <2>2
  <2>4. Max({l}) = l
    BY <2>2, <2>3, MaxIs
  <2> QED BY <2>1, <2>4 DEF ActiveCommand
<1> QED BY <1>1, <1>2

(* What the messages say once commands are marked and hidden.                 *)
LEMMA PromotedSays ==
  ASSUME NEW ms \in Seq(Messages),
         \A i \in 1 .. Len(ms) : \A j \in 1 .. Len(ms[i].blocks) : IsPlain(ms[i].blocks[j]),
         NEW l \in 1 .. Len(ms)
  PROVE  LET m == NormalizeCommands(ms)[l]
         IN  /\ m.role = ms[l].role
             /\ MessageText(m) = IF EarlierCommand(ms, l) THEN <<PreviousNote>> \o MessageText(ms[l])
                                 ELSE IF RunHere(ms, l) THEN <<>> ELSE MessageText(ms[l])
<1> DEFINE m == NormalizeCommands(ms)[l]
           t == MessageText(ms[l])
           marked == <<PreviousNote>> \o t
<1>1. m = IF EarlierCommand(ms, l) THEN WithText(ms[l], marked)
          ELSE IF RunHere(ms, l) THEN WithText(ms[l], <<>>) ELSE ms[l]
  BY NormalizedIs
<1>2. m.role = ms[l].role
  BY NormalizedIs DEF SameCalls
<1> HIDE DEF m
<1>3. ms[l] \in Messages
  BY MessageTypes
<1>4. marked \in Seq(Pieces) /\ <<>> \in Seq(Pieces)
  <2>1. t \in Seq(Pieces)
    BY <1>3, TextType
  <2> HIDE DEF t
  <2> QED BY <2>1, MarkedType, EmptySeq
<1> HIDE DEF marked, t
<1>5. \A p \in Seq(Pieces) : MessageText(WithText(ms[l], p)) = p
  BY <1>3, WithTextSays DEF IsPlain
<1>6. MessageText(m) = IF EarlierCommand(ms, l) THEN marked ELSE IF RunHere(ms, l) THEN <<>> ELSE t
  BY <1>1, <1>4, <1>5 DEF t
<1> QED BY <1>2, <1>6 DEF m, t, marked

(* Of the messages with a command, all but the active one are marked; each    *)
(* that says something was said by the user, and is clean if that was.        *)
LEMMA PromotedIs ==
  ASSUME NEW ms \in Seq(Messages),
         \A i \in 1 .. Len(ms) : \A j \in 1 .. Len(ms[i].blocks) : IsPlain(ms[i].blocks[j]),
         NEW l \in 1 .. Len(ms), ms[l].role = "user"
  PROVE  LET t == MessageText(NormalizeCommands(ms)[l])
         IN  /\ IsEnvelope(t) /\ t[1] # PreviousNote =>
                  /\ l \in ActiveAt(ms) /\ ActiveCommand(ms) \notin Translated
                  /\ t = MessageText(ms[l])
             /\ t # <<>> => l \in Spoken(ms)
             /\ Clean(MessageText(ms[l])) => Clean(t)
<1> DEFINE u == MessageText(ms[l])
           t == MessageText(NormalizeCommands(ms)[l])
<1>1. t = IF EarlierCommand(ms, l) THEN <<PreviousNote>> \o u ELSE IF RunHere(ms, l) THEN <<>> ELSE u
  BY PromotedSays
<1>2. u \in Seq(Pieces)
  BY MessageTypes, TextType
<1>3. EarlierCommand(ms, l) <=> l \notin ActiveAt(ms) /\ IsEnvelope(u)
  BY DEF EarlierCommand
<1>4. RunHere(ms, l) <=> l \in ActiveAt(ms) /\ ActiveCommand(ms) \in Translated
  BY DEF RunHere
<1>5. l \in Spoken(ms) <=> u # <<>>
  BY SpokenIs
<1> HIDE DEF t, u
<1>6. ~IsEnvelope(<<>>) /\ Clean(<<>>)
  BY DEF IsEnvelope, Tagged, Clean, LocalNames, LocalStdout
<1>7. IsEnvelope(u) => u # <<>>
  BY <1>6
<1>8. CASE EarlierCommand(ms, l)
  <2>1. t = <<PreviousNote>> \o u
    BY <1>1, <1>8
  <2>2. t[1] = PreviousNote
    BY <1>2, <2>1, MarkedType
  <2>3. l \in Spoken(ms)
    BY <1>3, <1>5, <1>7, <1>8
  <2>4. ASSUME Clean(u) PROVE Clean(t)
    <3>1. u \in Seq(CleanPieces)
      BY <1>2, <2>4, CleanIs
    <3>2. PreviousNote \in CleanPieces
      BY MarkedType, <1>2 DEF CleanPieces
    <3> DEFINE s == <<PreviousNote>>
    <3>3. s \in Seq(CleanPieces)
      BY <3>2
    <3> HIDE DEF s
    <3>4. s \o u \in Seq(CleanPieces)
      BY <3>1, <3>3, ConcatAt
    <3>5. t \in Seq(Pieces)
      BY <1>2, <2>1, MarkedType
    <3> QED BY <3>4, <3>5, <2>1, CleanIs DEF s
  <2> QED BY <2>2, <2>3, <2>4 DEF t, u
<1>9. CASE ~EarlierCommand(ms, l) /\ RunHere(ms, l)
  <2>1. t = <<>>
    BY <1>1, <1>9
  <2> QED BY <2>1, <1>6 DEF t, u
<1>10. CASE ~EarlierCommand(ms, l) /\ ~RunHere(ms, l)
  <2>1. t = u
    BY <1>1, <1>10
  <2> QED BY <2>1, <1>3, <1>4, <1>5, <1>10 DEF t, u
<1> QED BY <1>8, <1>9, <1>10

(* The message m is one of those that are sent, and has an item.              *)
Sends(m) == m.role # "system" /\ ItemsOf(m) # <<>>

(* Where the texts of a translated request stand: s[l] is the place of that   *)
(* of message l.                                                              *)
TextsAt(ms, its, s) ==
  /\ \A i \in 1 .. Len(its) :
       its[i].what = "message" =>
         \E l \in 1 .. Len(ms) : i = s[l] /\ IsTextOf(its[i], ms[l]) /\ Sends(ms[l])
  /\ \A k, l \in 1 .. Len(ms) : k < l /\ Sends(ms[k]) /\ Sends(ms[l]) => s[k] < s[l]

(* The texts of a request are sent in their order.                            *)
LEMMA TextsAreSent ==
  ASSUME KindsTyped, NEW ms \in Seq(Messages)
  PROVE  LET sent == Kept(ms, {i \in DOMAIN ms : ms[i].role # "system"})
         IN  /\ AllItems(sent) \in Seq(AnyItems)
             /\ \E s : TextsAt(ms, AllItems(sent), s)
             /\ command \in Translated => AllItems(sent)[Len(AllItems(sent))].what = "result"
<1> DEFINE I    == {i \in DOMAIN ms : ms[i].role # "system"}
           sent == Kept(ms, I)
           its  == AllItems(sent)
<1>1. Len(ms) \in Nat /\ \A i \in 1 .. Len(ms) : i \in I <=> ms[i].role # "system"
  BY MessageTypes
<1> HIDE DEF I
<1>2. sent \in Seq(Messages)
  BY KeptPlaces
<1>3. PICK at : Picked(ms, I, sent, at)
  BY KeptPlaces
<1> HIDE DEF sent
<1>4. /\ its \in Seq(AnyItems)
      /\ command \in Translated => its[Len(its)].what = "result"
  BY <1>2, AllItemsSent
<1>5. PICK f, t : SentAt(sent, its, f, t)
  BY <1>2, AllItemsSent
<1> HIDE DEF its
<1> DEFINE s == [l \in 1 .. Len(ms) |-> t[at[l]]]
<1>6. \A l \in 1 .. Len(ms) : s[l] = t[at[l]]
  OBVIOUS
<1> HIDE DEF s
<1>7. ASSUME NEW i \in 1 .. Len(its), its[i].what = "message"
      PROVE  \E l \in 1 .. Len(ms) : i = s[l] /\ IsTextOf(its[i], ms[l]) /\ Sends(ms[l])
  <2>1. \A b : ~StandsFor(its[i], b)
    BY <1>7 DEF StandsFor, WhatOf
  <2>2. PICK k \in 1 .. Len(sent) : i = t[k] /\ IsTextOf(its[i], sent[k]) /\ ItemsOf(sent[k]) # <<>>
    BY <2>1, <1>5, <1>7 DEF SentAt
  <2>3. PICK l \in 1 .. Len(ms) : l \in I /\ k = at[l]
    BY <1>3 DEF Picked
  <2>4. sent[k] = ms[l] /\ ms[l].role # "system"
    BY <2>3, <1>1, <1>3 DEF Picked
  <2> QED BY <2>2, <2>3, <2>4, <1>6 DEF Sends
<1>8. ASSUME NEW k \in 1 .. Len(ms), NEW l \in 1 .. Len(ms), k < l, Sends(ms[k]), Sends(ms[l])
      PROVE  s[k] < s[l]
  <2>1. k \in I /\ l \in I
    BY <1>1, <1>8 DEF Sends
  <2>2. /\ at[k] \in 1 .. Len(sent) /\ sent[at[k]] = ms[k]
        /\ at[l] \in 1 .. Len(sent) /\ sent[at[l]] = ms[l] /\ at[k] < at[l]
    BY <2>1, <1>3, <1>8 DEF Picked
  <2>3. t[at[k]] < t[at[l]]
    BY <2>2, <1>5, <1>8 DEF SentAt, Sends
  <2> QED BY <2>3, <1>6
<1>9. TextsAt(ms, its, s)
  BY <1>7, <1>8 DEF TextsAt
<1> QED BY <1>4, <1>9 DEF its, sent, I

(* The request of a reachable state before commands are marked.               *)
LEMMA IncludedNowIs ==
  ASSUME Inv
  PROVE  /\ IncludedNow \in Seq(Messages)
         /\ \A i \in 1 .. Len(IncludedNow) : \A j \in 1 .. Len(IncludedNow[i].blocks) :
              IsPlain(IncludedNow[i].blocks[j])
         /\ \A i \in 1 .. Len(IncludedNow) :
              /\ MessageText(IncludedNow[i]) \in Seq(Pieces)
              /\ CommandsAreNamed(MessageText(IncludedNow[i]))
              /\ IncludedNow[i].role = "user" => Clean(MessageText(IncludedNow[i]))
<1> DEFINE E == EditedNow
           N == IncludedNow
<1>1. SameShape(transcript, E) /\ N \in Seq(Messages)
  BY PromotedKeepsCalls
<1>2. N = ApplyInclusion(E)
  BY DEF IncludedNow
<1>3. E \in Seq(Messages)
  BY <1>1 DEF SameShape
<1> HIDE DEF E, N
<1>4. \A i \in 1 .. Len(E) : \A j \in 1 .. Len(E[i].blocks) : IsPlain(E[i].blocks[j])
  <2> TAKE i \in 1 .. Len(E)
  <2> TAKE j \in 1 .. Len(E[i].blocks)
  <2>1. /\ i \in 1 .. Len(transcript) /\ j \in 1 .. Len(transcript[i].blocks)
        /\ SameBlock(transcript[i].blocks[j], E[i].blocks[j])
    BY <1>1 DEF SameShape
  <2>2. IsFresh(transcript[i].blocks[j])
    BY <2>1 DEF Inv, IsTranscript
  <2> QED BY <2>1, <2>2 DEF IsFresh, IsPlain, SameBlock
<1>5. Len(N) = Len(E)
  BY <1>2, <1>3, InclusionKeepsCalls DEF SameCalls
<1>6. \A i \in 1 .. Len(N) : \A j \in 1 .. Len(N[i].blocks) :
        IsPlain(N[i].blocks[j]) /\ (N[i].role = "user" => Clean(N[i].blocks[j].text))
  BY <1>2, <1>3, <1>4, <1>5, IncludedIsPlain
<1>7. ASSUME NEW i \in 1 .. Len(N)
      PROVE  /\ MessageText(N[i]) \in Seq(Pieces)
             /\ CommandsAreNamed(MessageText(N[i]))
             /\ N[i].role = "user" => Clean(MessageText(N[i]))
  <2> DEFINE m == N[i]
  <2>1. m \in Messages /\ \A j \in 1 .. Len(m.blocks) : m.blocks[j] \in Blocks
    BY <1>1, MessageTypes
  <2>2. \A j \in 1 .. Len(m.blocks) : IsPlain(m.blocks[j]) /\ (m.role = "user" => Clean(m.blocks[j].text))
    BY <1>6
  <2> HIDE DEF m
  <2>3. \A j \in 1 .. Len(m.blocks) : m.blocks[j].text \in Seq(Pieces)
    BY <2>1 DEF Blocks
  <2>4. MessageText(m) \in Seq(Pieces)
    BY <2>1, TextType
  <2>5. \A j \in 1 .. Len(m.blocks) : m.blocks[j].text \in Seq(NamedPieces)
    BY <2>2, <2>3, NamedIs DEF IsPlain
  <2>6. MessageText(m) \in Seq(NamedPieces)
    BY <2>1, <2>5, TextOver
  <2>7. CommandsAreNamed(MessageText(m))
    BY <2>4, <2>6, NamedIs
  <2>8. ASSUME m.role = "user" PROVE Clean(MessageText(m))
    <3>1. \A j \in 1 .. Len(m.blocks) : m.blocks[j].text \in Seq(CleanPieces)
      BY <2>2, <2>3, <2>8, CleanIs
    <3>2. MessageText(m) \in Seq(CleanPieces)
      BY <2>1, <3>1, TextOver
    <3> QED BY <2>4, <3>2, CleanIs
  <2> QED BY <2>4, <2>7, <2>8 DEF m
<1> QED BY <1>1, <1>6, <1>7 DEF N

(* Once translated, what the user last said is the active command, if that    *)
(* is one: clearing changes no text.                                          *)
LEMMA LastSaidIs ==
  ASSUME Inv, config.commands, LastSaid # {}, CommandNow = NoCommand, NEW i \in LastSaid
  PROVE  ~IsEnvelope(MessageText(ApplyInclusion(transcript)[i]))
<1> DEFINE A == ApplyInclusion(transcript)
           N == IncludedNow
<1>1. SameShape(transcript, EditedNow) /\ N \in Seq(Messages) /\ N = ApplyInclusion(EditedNow)
  BY PromotedKeepsCalls DEF IncludedNow
<1>2. transcript \in Seq(Messages) /\ EditedNow \in Seq(Messages) /\ Len(EditedNow) = Len(transcript)
  BY <1>1 DEF SameShape
<1>3. A \in Seq(Messages) /\ Len(A) = Len(transcript) /\ Len(N) = Len(transcript)
  BY <1>1, <1>2, InclusionKeepsCalls DEF SameCalls
<1>4. \A l \in 1 .. Len(A) : A[l].role = N[l].role /\ MessageText(A[l]) = MessageText(N[l])
  BY <1>1, <1>3, InclusionSays
<1>5. CommandNow = ActiveCommand(N)
  BY DEF CommandNow
<1>6. \A l \in 1 .. Len(N) : MessageText(N[l]) \in Seq(Pieces) /\ CommandsAreNamed(MessageText(N[l]))
  BY IncludedNowIs
<1>7. Spoken(A) # {} /\ i = Max(Spoken(A))
  BY DEF LastSaid
<1> HIDE DEF A, N
<1>8. Spoken(A) = Spoken(N)
  <2>1. \A l : l \in Spoken(A) <=> l \in 1 .. Len(A) /\ A[l].role = "user" /\ MessageText(A[l]) # <<>>
    BY <1>3, SpokenIs
  <2>2. \A l : l \in Spoken(N) <=> l \in 1 .. Len(N) /\ N[l].role = "user" /\ MessageText(N[l]) # <<>>
    BY <1>1, SpokenIs
  <2>3. ASSUME NEW l PROVE l \in Spoken(A) <=> l \in Spoken(N)
    <3>1. l \in 1 .. Len(A) <=> l \in 1 .. Len(N)
      BY <1>3
    <3>2. l \in 1 .. Len(A) => A[l].role = N[l].role /\ MessageText(A[l]) = MessageText(N[l])
      BY <1>4
    <3> QED BY <2>1, <2>2, <3>1, <3>2
  <2> QED BY <2>3
<1>9. i \in 1 .. Len(N)
  BY <1>3, <1>7, SpokenIs
<1>10. ASSUME IsEnvelope(MessageText(A[i])) PROVE FALSE
  <2>1. IsEnvelope(MessageText(N[i]))
    BY <1>3, <1>4, <1>9, <1>10
  <2>2. i \in ActiveAt(N)
    BY <2>1, <1>1, <1>7, <1>8, ActiveIs
  <2>3. ActiveCommand(N) = CommandOf(MessageText(N[i]))
    BY <2>2, <1>1, ActiveIs
  <2>4. CommandOf(MessageText(N[i])) # NoCommand
    BY <2>1, <1>6, <1>9, EnvelopeIs
  <2> QED BY <2>3, <2>4, <1>5
<1> QED BY <1>10 DEF A

(* Once commands are marked, each text of the user's is clean; a command that *)
(* is not marked is the active one, and the client runs it.                   *)
LEMMA PromotedNowIs ==
  ASSUME Inv, NEW l \in 1 .. Len(PromotedNow), PromotedNow[l].role = "user"
  PROVE  LET t == MessageText(PromotedNow[l])
         IN  /\ LocalCommands(t) = {}
             /\ config.commands =>
                  /\ t # <<>> => l \in Spoken(IncludedNow)
                  /\ IsEnvelope(t) /\ t[1] # PreviousNote =>
                       /\ l \in ActiveAt(IncludedNow)
                       /\ CommandNow \notin Translated /\ CommandOf(t) = CommandNow
<1> DEFINE N == IncludedNow
           P == PromotedNow
           t == MessageText(P[l])
<1>1. N \in Seq(Messages) /\ P = IF config.commands THEN NormalizeCommands(N) ELSE N
  BY IncludedNowIs DEF PromotedNow
<1>2. /\ \A i \in 1 .. Len(N) : \A j \in 1 .. Len(N[i].blocks) : IsPlain(N[i].blocks[j])
      /\ \A i \in 1 .. Len(N) : MessageText(N[i]) \in Seq(Pieces)
                                /\ (N[i].role = "user" => Clean(MessageText(N[i])))
  BY IncludedNowIs
<1>3. P \in Seq(Messages)
  BY PromotedKeepsCalls DEF SameCalls
<1>4. CommandNow = IF config.commands THEN ActiveCommand(N) ELSE NoCommand
  BY DEF CommandNow
<1>5. P[l].role = "user" /\ l \in 1 .. Len(P)
  OBVIOUS
<1> HIDE DEF N, P
<1>6. t \in Seq(Pieces)
  BY <1>3, <1>5, MessageTypes, TextType
<1>7. Clean(t) => LocalCommands(t) = {}
  BY <1>6, IncludedIsClean
<1>8. CASE config.commands
  <2>1. P = NormalizeCommands(N)
    BY <1>1, <1>8
  <2>2. Len(P) = Len(N) /\ \A k \in 1 .. Len(N) : P[k].role = N[k].role
    BY <1>1, <2>1, NormalizedIs DEF SameCalls
  <2>3. l \in 1 .. Len(N) /\ N[l].role = "user"
    BY <1>5, <2>2
  <2>4. /\ IsEnvelope(t) /\ t[1] # PreviousNote =>
             /\ l \in ActiveAt(N) /\ ActiveCommand(N) \notin Translated
             /\ t = MessageText(N[l])
        /\ t # <<>> => l \in Spoken(N)
        /\ Clean(MessageText(N[l])) => Clean(t)
    BY <1>1, <1>2, <2>1, <2>3, PromotedIs
  <2>5. LocalCommands(t) = {}
    BY <1>2, <1>7, <2>3, <2>4
  <2>6. l \in ActiveAt(N) => ActiveCommand(N) = CommandOf(MessageText(N[l]))
    BY <1>1, ActiveIs
  <2> HIDE DEF t
  <2> QED BY <2>4, <2>5, <2>6, <1>4, <1>8 DEF t, N, P
<1>9. CASE ~config.commands
  <2>1. P = N
    BY <1>1, <1>9
  <2>2. LocalCommands(t) = {}
    BY <1>2, <1>5, <1>7, <2>1
  <2> QED BY <2>2, <1>9 DEF P
<1> QED BY <1>8, <1>9

(* Once translated, at most one command of the request is not marked.         *)
LEMMA TranslatedHasOneCommand ==
  ASSUME Inv
  PROVE  OneActiveCommand
<1> SUFFICES ASSUME stage = "translated" PROVE OneActiveCommand
  BY DEF OneActiveCommand
<1> DEFINE N == IncludedNow
           P == PromotedNow
           texts    == {i \in DOMAIN items : items[i].what = "message" /\ items[i].role = "user"}
           unmarked == {i \in {i \in texts : IsEnvelope(items[i].text)} : items[i].text[1] # PreviousNote}
<1>1. items = AllItems(SentNow) /\ command = CommandNow /\ KindsTyped
  BY DEF Inv
<1>2. P \in Seq(Messages)
  BY PromotedKeepsCalls DEF SameCalls
<1>3. SentNow = Kept(P, {i \in DOMAIN P : P[i].role # "system"})
  BY DEF SentNow
<1>4. N \in Seq(Messages)
  BY IncludedNowIs
<1>5. \A l \in 1 .. Len(P) : P[l].role = "user" =>
        /\ LocalCommands(MessageText(P[l])) = {}
        /\ config.commands =>
             /\ MessageText(P[l]) # <<>> => l \in Spoken(N)
             /\ IsEnvelope(MessageText(P[l])) /\ MessageText(P[l])[1] # PreviousNote =>
                  /\ l \in ActiveAt(N)
                  /\ CommandNow \notin Translated /\ CommandOf(MessageText(P[l])) = CommandNow
  BY PromotedNowIs
<1> HIDE DEF N, P
<1>6. /\ items \in Seq(AnyItems)
      /\ command \in Translated => items[Len(items)].what = "result"
  BY <1>1, <1>2, <1>3, TextsAreSent
<1>7. PICK s : TextsAt(P, items, s)
  BY <1>1, <1>2, <1>3, TextsAreSent
<1>8. Len(items) \in Nat /\ DOMAIN items = 1 .. Len(items)
  BY <1>6, LenProperties
<1>9. \A i \in texts : \E l \in 1 .. Len(P) :
        /\ i = s[l] /\ items[i].text = MessageText(P[l]) /\ P[l].role = "user"
        /\ MessageText(P[l]) # <<>> /\ Sends(P[l])
  BY <1>7, <1>8 DEF TextsAt, IsTextOf, IsBlank
<1>10. \A i : i \in unmarked <=> i \in texts /\ IsEnvelope(items[i].text) /\ items[i].text[1] # PreviousNote
  OBVIOUS
<1>11. texts \subseteq 1 .. Len(items) /\ unmarked \subseteq texts
  BY <1>8
<1> HIDE DEF texts, unmarked
<1>12. \A i \in texts : LocalCommands(items[i].text) = {}
  BY <1>5, <1>9
<1>13. ASSUME config.commands, NEW i \in unmarked
       PROVE  /\ \A j \in texts : j <= i
              /\ CommandOf(items[i].text) = command /\ command \notin Translated
  <2>1. PICK l \in 1 .. Len(P) :
          /\ i = s[l] /\ items[i].text = MessageText(P[l]) /\ P[l].role = "user" /\ Sends(P[l])
    BY <1>9, <1>10, <1>13
  <2>2. /\ l \in ActiveAt(N)
        /\ CommandNow \notin Translated /\ CommandOf(MessageText(P[l])) = CommandNow
    BY <1>5, <1>10, <1>13, <2>1
  <2>3. Spoken(N) # {} /\ l = Max(Spoken(N))
    BY <1>4, <2>2, ActiveIs
  <2>4. \A k \in Spoken(N) : k <= l
    BY <1>4, <2>3, SpokenIs
  <2>5. ASSUME NEW j \in texts PROVE j <= i
    <3>1. PICK k \in 1 .. Len(P) :
            /\ j = s[k] /\ P[k].role = "user" /\ MessageText(P[k]) # <<>> /\ Sends(P[k])
      BY <1>9
    <3>2. k <= l
      BY <1>5, <1>13, <2>4, <3>1
    <3>3. k < l => j < i
      BY <1>7, <2>1, <3>1 DEF TextsAt
    <3>4. Len(P) \in Nat /\ i \in Nat /\ j \in Nat
      BY <1>2, <1>8, <1>11, MessageTypes
    <3>5. k = l => j = i
      BY <2>1, <3>1
    <3> QED BY <3>2, <3>3, <3>4, <3>5
  <2> QED BY <1>1, <2>1, <2>2, <2>5
<1>14. ASSUME config.commands PROVE Cardinality(unmarked) <= 1
  <2>1. \A i, j \in unmarked : i = j
    <3> TAKE i, j \in unmarked
    <3>1. i <= j /\ j <= i
      BY <1>11, <1>13, <1>14
    <3>2. i \in Nat /\ j \in Nat
      BY <1>8, <1>11
    <3> QED BY <3>1, <3>2
  <2>2. CASE unmarked = {}
    BY <2>2, FS_EmptySet
  <2>3. CASE unmarked # {}
    <3>1. PICK i : i \in unmarked
      BY <2>3
    <3>2. unmarked = {i}
      BY <2>1, <3>1
    <3>3. Cardinality({i}) = 1
      BY FS_Singleton
    <3> QED BY <3>2, <3>3
  <2> QED BY <2>2, <2>3
<1>15. ASSUME config.commands, command \in Translated
       PROVE  unmarked = {} /\ items[Len(items)].what = "result"
  BY <1>6, <1>13, <1>15
<1>16. ASSUME config.commands, LastSaid # {}, command = NoCommand, NEW i \in LastSaid
       PROVE  ~IsEnvelope(MessageText(ApplyInclusion(transcript)[i]))
  BY <1>1, <1>16, LastSaidIs
<1> QED
  BY <1>12, <1>13, <1>14, <1>15, <1>16 DEF OneActiveCommand, texts, unmarked

(* Whatever commands the transcript holds, no trace of a local-only one is    *)
(* sent, and with slash commands enabled at most one is not marked as an      *)
(* earlier one: the one the user last said, which the gateway does not run.   *)
THEOREM OneCommandIsActive == Spec => []OneActiveCommand
<1>1. Inv => OneActiveCommand
  BY TranslatedHasOneCommand
<1> QED BY <1>1, InvAlways, PTL

--------------------------------------------------------------------------------
(* What stays cleared. *)

(* t starts as s does, up to R.                                               *)
Starts(R, s, t) == Len(s) <= Len(t) /\ \A j \in 1 .. Len(s) : <<s[j], t[j]>> \in R

(* Joining sequences that start alike gives sequences that start alike.       *)
LEMMA JoinedStarts ==
  ASSUME NEW S, NEW ss \in Seq(Seq(S)), NEW T, NEW tt \in Seq(Seq(T)), NEW R, Len(ss) <= Len(tt),
         \A i \in 1 .. Len(ss) : Len(ss[i]) = Len(tt[i]) /\ Starts(R, ss[i], tt[i])
  PROVE  Starts(R, Joined(ss), Joined(tt))
<1> DEFINE M == Len(ss)
           N == Len(tt)
<1>1. /\ M \in Nat /\ N \in Nat /\ M <= N
      /\ \A i \in 1 .. M : ss[i] \in Seq(S)
      /\ \A i \in 1 .. N : tt[i] \in Seq(T)
  BY LenProperties
<1>2. PICK g \in [0 .. M -> Seq(S)] : Joining(ss, M, g) /\ Joined(ss) = g[M]
  BY JoinedSteps
<1>3. PICK h \in [0 .. N -> Seq(T)] : Joining(tt, N, h) /\ Joined(tt) = h[N]
  BY JoinedSteps
<1>4. /\ g[0] = <<>> /\ h[0] = <<>>
      /\ \A i \in 1 .. M : g[i] = g[i - 1] \o ss[i]
      /\ \A i \in 1 .. N : h[i] = h[i - 1] \o tt[i]
  BY <1>2, <1>3 DEF Joining
<1>5. \A i \in 1 .. M : Len(ss[i]) = Len(tt[i]) /\ Starts(R, ss[i], tt[i])
  OBVIOUS
<1> HIDE DEF M, N
<1> DEFINE A == {n \in 0 .. M : Len(g[n]) = Len(h[n]) /\ Starts(R, g[n], h[n])}
<1>6. 0 \in A
  <2>1. Len(g[0]) = 0 /\ Len(h[0]) = 0
    BY <1>4
  <2> QED BY <2>1, <1>1 DEF Starts
<1>7. ASSUME NEW n \in 1 .. M, n - 1 \in A PROVE n \in A
  <2> DEFINE x == g[n - 1]
             y == h[n - 1]
             u == ss[n]
             v == tt[n]
  <2>0. n \in 1 .. N /\ n - 1 \in 0 .. M /\ n - 1 \in 0 .. N /\ n \in 0 .. M
    BY <1>1
  <2>1. x \in Seq(S) /\ y \in Seq(T) /\ u \in Seq(S) /\ v \in Seq(T)
    BY <2>0, <1>1, <1>2, <1>3
  <2>2. g[n] = x \o u /\ h[n] = y \o v
    BY <2>0, <1>4
  <2>3. Len(x) = Len(y) /\ Starts(R, x, y)
    BY <1>7
  <2>4. Len(u) = Len(v) /\ Starts(R, u, v)
    BY <1>5
  <2> HIDE DEF x, y, u, v
  <2>5. /\ Len(x) \in Nat /\ Len(u) \in Nat /\ Len(x \o u) = Len(x) + Len(u)
        /\ \A i \in 1 .. Len(x) : (x \o u)[i] = x[i]
        /\ \A j \in 1 .. Len(u) : (x \o u)[Len(x) + j] = u[j]
    BY <2>1, ConcatAt
  <2>6. /\ Len(y \o v) = Len(y) + Len(v)
        /\ \A i \in 1 .. Len(y) : (y \o v)[i] = y[i]
        /\ \A j \in 1 .. Len(v) : (y \o v)[Len(y) + j] = v[j]
    BY <2>1, ConcatAt
  <2>7. ASSUME NEW k \in 1 .. Len(x \o u) PROVE <<(x \o u)[k], (y \o v)[k]>> \in R
    <3>1. CASE k \in 1 .. Len(x)
      BY <3>1, <2>3, <2>5, <2>6 DEF Starts
    <3>2. CASE k \notin 1 .. Len(x)
      <4>1. PICK j \in 1 .. Len(u) : k = Len(x) + j
        <5>1. k - Len(x) \in 1 .. Len(u) /\ k = Len(x) + (k - Len(x))
          BY <3>2, <2>5, <2>7
        <5> QED BY <5>1
      <4>2. (x \o u)[k] = u[j] /\ (y \o v)[k] = v[j]
        BY <4>1, <2>3, <2>4, <2>5, <2>6
      <4> QED BY <4>2, <2>4 DEF Starts
    <3> QED BY <3>1, <3>2
  <2>8. Len(x \o u) = Len(y \o v) /\ Len(x \o u) \in Nat
    BY <2>3, <2>4, <2>5, <2>6
  <2>9. Starts(R, x \o u, y \o v)
    BY <2>7, <2>8 DEF Starts
  <2> QED BY <2>0, <2>2, <2>8, <2>9
<1>8. \A n \in 0 .. M : n \in A
  <2> HIDE DEF A
  <2> QED BY <1>1, <1>6, <1>7, UpTo
<1>9. Len(g[M]) = Len(h[M]) /\ Starts(R, g[M], h[M])
  BY <1>1, <1>8
<1> HIDE DEF A
<1> DEFINE B == {n \in 0 .. N : n < M \/ Starts(R, g[M], h[n])}
<1>10. 0 \in B
  BY <1>1, <1>9
<1>11. ASSUME NEW n \in 1 .. N, n - 1 \in B PROVE n \in B
  <2>1. CASE n < M
    BY <2>1
  <2>2. CASE n = M
    BY <2>2, <1>9
  <2>3. CASE n > M
    <3> DEFINE x == g[M]
               y == h[n - 1]
               v == tt[n]
    <3>0. M \in 0 .. M /\ n - 1 \in 0 .. N
      BY <1>1
    <3>1. x \in Seq(S) /\ y \in Seq(T) /\ v \in Seq(T) /\ h[n] = y \o v
      BY <3>0, <1>1, <1>2, <1>3, <1>4
    <3>2. Starts(R, x, y)
      BY <2>3, <1>1, <1>11
    <3> HIDE DEF x, y, v
    <3>3. /\ Len(x) \in Nat /\ Len(y) \in Nat /\ Len(v) \in Nat /\ Len(y \o v) = Len(y) + Len(v)
          /\ \A i \in 1 .. Len(y) : (y \o v)[i] = y[i]
      BY <3>1, ConcatAt, LenProperties
    <3>4. \A i \in 1 .. Len(x) : i \in 1 .. Len(y)
      BY <3>2, <3>3 DEF Starts
    <3>5. Starts(R, x, y \o v)
      BY <3>2, <3>3, <3>4 DEF Starts
    <3>6. Starts(R, g[M], h[n])
      BY <3>1, <3>5 DEF x
    <3>7. n \in 0 .. N
      BY <1>1
    <3> QED BY <3>6, <3>7
  <2> QED BY <2>1, <2>2, <2>3, <1>1
<1>12. \A n \in 0 .. N : n \in B
  <2> HIDE DEF B
  <2> QED BY <1>1, <1>10, <1>11, UpTo
<1>13. N \in B
  BY <1>1, <1>12
<1>14. Starts(R, g[M], h[N])
  BY <1>1, <1>13
<1> QED BY <1>2, <1>3, <1>14

(* Of sequences that start alike, what is kept starts alike.                  *)
LEMMA KeptStarts ==
  ASSUME NEW S, NEW s \in Seq(S), NEW T, NEW t \in Seq(T), NEW R, Starts(R, s, t), NEW I, NEW J,
         \A i \in 1 .. Len(s) : i \in I <=> i \in J
  PROVE  Starts(R, Kept(s, I), Kept(t, J))
<1> DEFINE ss == [i \in DOMAIN s |-> IF i \in I THEN <<s[i]>> ELSE <<>>]
           tt == [i \in DOMAIN t |-> IF i \in J THEN <<t[i]>> ELSE <<>>]
<1>1. /\ Len(s) \in Nat /\ DOMAIN s = 1 .. Len(s) /\ \A i \in 1 .. Len(s) : s[i] \in S
      /\ Len(t) \in Nat /\ DOMAIN t = 1 .. Len(t) /\ \A i \in 1 .. Len(t) : t[i] \in T
      /\ Len(s) <= Len(t)
  BY LenProperties DEF Starts
<1>2. ss \in Seq(Seq(S)) /\ Len(ss) = Len(s)
  <2>1. ss \in [1 .. Len(s) -> Seq(S)]
    BY <1>1
  <2> HIDE DEF ss
  <2> QED BY <2>1, <1>1, SeqDef, LenProperties
<1>3. tt \in Seq(Seq(T)) /\ Len(tt) = Len(t)
  <2>1. tt \in [1 .. Len(t) -> Seq(T)]
    BY <1>1
  <2> HIDE DEF tt
  <2> QED BY <2>1, <1>1, SeqDef, LenProperties
<1>4. ASSUME NEW i \in 1 .. Len(s)
      PROVE  Len(ss[i]) = Len(tt[i]) /\ Starts(R, ss[i], tt[i])
  <2>1. i \in 1 .. Len(t) /\ <<s[i], t[i]>> \in R
    BY <1>1 DEF Starts
  <2>2. CASE i \in I
    <3>1. ss[i] = <<s[i]>> /\ tt[i] = <<t[i]>>
      BY <2>1, <2>2, <1>1
    <3>2. Len(<<s[i]>>) = 1 /\ <<s[i]>>[1] = s[i] /\ Len(<<t[i]>>) = 1 /\ <<t[i]>>[1] = t[i]
      OBVIOUS
    <3>3. \A j \in 1 .. 1 : j = 1
      OBVIOUS
    <3> HIDE DEF ss, tt
    <3> QED BY <2>1, <3>1, <3>2, <3>3 DEF Starts
  <2>3. CASE i \notin I
    <3>1. ss[i] = <<>> /\ tt[i] = <<>>
      BY <2>1, <2>3, <1>1
    <3> HIDE DEF ss, tt
    <3>2. Len(<<>>) = 0
      OBVIOUS
    <3> QED BY <3>1, <3>2 DEF Starts
  <2> QED BY <2>2, <2>3
<1>5. Kept(s, I) = Joined(ss) /\ Kept(t, J) = Joined(tt)
  BY DEF Kept
<1> HIDE DEF ss, tt
<1> QED BY <1>1, <1>2, <1>3, <1>4, <1>5, JoinedStarts

(* b has the messages of a, but for what clearing changes, and maybe more.    *)
Grown(a, b) ==
  /\ a \in Seq(Messages) /\ b \in Seq(Messages) /\ Len(a) <= Len(b)
  /\ \A i \in 1 .. Len(a) :
       /\ Len(b[i].blocks) = Len(a[i].blocks)
       /\ \A j \in 1 .. Len(a[i].blocks) : SameBlock(a[i].blocks[j], b[i].blocks[j])

(* The positions of a request are among those of a longer one.                *)
LEMMA PositionsGrow ==
  ASSUME NEW a, NEW b, Grown(a, b)
  PROVE  /\ \A p \in Positions(a) : p \in Positions(b) /\ SameBlock(At(a, p), At(b, p))
         /\ \A p \in Positions(a), q \in Positions(b) : q \notin Positions(a) => Before(p, q)
<1>1. /\ a \in Seq(Messages) /\ b \in Seq(Messages) /\ Len(a) <= Len(b)
      /\ \A i \in 1 .. Len(a) :
           /\ Len(b[i].blocks) = Len(a[i].blocks)
           /\ \A j \in 1 .. Len(a[i].blocks) : SameBlock(a[i].blocks[j], b[i].blocks[j])
  BY DEF Grown
<1>2. Len(a) \in Nat /\ Len(b) \in Nat
  BY <1>1, MessageTypes
<1>3. ASSUME NEW p \in Positions(a) PROVE p \in Positions(b) /\ SameBlock(At(a, p), At(b, p))
  <2>1. PICK i \in 1 .. Len(a) : \E j \in 1 .. Len(a[i].blocks) : p = <<i, j>> /\ At(a, p) = a[i].blocks[j]
    BY <1>1, PositionsAre
  <2>2. PICK j \in 1 .. Len(a[i].blocks) : p = <<i, j>> /\ At(a, p) = a[i].blocks[j]
    BY <2>1
  <2>3. i \in 1 .. Len(b) /\ j \in 1 .. Len(b[i].blocks)
    BY <1>1, <1>2, <2>2
  <2>4. p \in Positions(b) /\ At(b, p) = b[i].blocks[j]
    BY <1>1, <2>2, <2>3, PositionsAre
  <2> QED BY <1>1, <2>2, <2>4
<1>4. ASSUME NEW p \in Positions(a), NEW q \in Positions(b), q \notin Positions(a)
      PROVE  Before(p, q)
  <2>1. PICK i \in 1 .. Len(a) : p[1] = i
    BY <1>1, PositionsAre
  <2>2. PICK k \in 1 .. Len(b) : \E l \in 1 .. Len(b[k].blocks) : q = <<k, l>> /\ q[1] = k
    BY <1>1, PositionsAre
  <2>3. PICK l \in 1 .. Len(b[k].blocks) : q = <<k, l>> /\ q[1] = k
    BY <2>2
  <2>4. ASSUME k \in 1 .. Len(a) PROVE FALSE
    <3>1. l \in 1 .. Len(a[k].blocks)
      BY <1>1, <2>3, <2>4
    <3> QED BY <3>1, <1>1, <1>4, <2>3, <2>4, PositionsAre
  <2>5. i < k
    BY <2>4, <1>2
  <2> QED BY <2>1, <2>3, <2>5 DEF Before
<1> QED BY <1>3, <1>4

(* The uses of a request are the first of those of a longer one.              *)
LEMMA UsesGrow ==
  ASSUME NEW a, NEW b, Grown(a, b)
  PROVE  /\ Len(Uses(a)) <= Len(Uses(b))
         /\ \A k \in 1 .. Len(Uses(a)) : k \in 1 .. Len(Uses(b)) /\ Uses(b)[k] = Uses(a)[k]
<1> DEFINE P == Positions(a)
           Q == Positions(b)
           E == {<<p, p>> : p \in Q}
           I == {n \in DOMAIN InOrder(a) : InOrder(a)[n] \in {p \in Positions(a) : At(a, p).type = "tool_use"}}
           J == {n \in DOMAIN InOrder(b) : InOrder(b)[n] \in {p \in Positions(b) : At(b, p).type = "tool_use"}}
<1>1. a \in Seq(Messages) /\ b \in Seq(Messages) /\ Len(a) <= Len(b) /\ Len(a) \in Nat /\ Len(b) \in Nat
  BY MessageTypes DEF Grown
<1>2. \A p \in P : p \in Q /\ At(a, p).type = At(b, p).type
  BY PositionsGrow DEF SameBlock
<1>3. /\ Places(a) \in Seq(Seq(P)) /\ Len(Places(a)) = Len(a)
      /\ \A i \in 1 .. Len(a) : /\ Len(Places(a)[i]) = Len(a[i].blocks)
                                /\ \A j \in 1 .. Len(a[i].blocks) : Places(a)[i][j] = <<i, j>>
  BY <1>1, PlacesAre
<1>4. /\ Places(b) \in Seq(Seq(Q)) /\ Len(Places(b)) = Len(b)
      /\ \A i \in 1 .. Len(b) : /\ Len(Places(b)[i]) = Len(b[i].blocks)
                                /\ \A j \in 1 .. Len(b[i].blocks) : Places(b)[i][j] = <<i, j>>
  BY <1>1, PlacesAre
<1>5. ASSUME NEW i \in 1 .. Len(a)
      PROVE  Len(Places(a)[i]) = Len(Places(b)[i]) /\ Starts(E, Places(a)[i], Places(b)[i])
  <2>1. i \in 1 .. Len(b) /\ Len(a[i].blocks) = Len(b[i].blocks) /\ Len(a[i].blocks) \in Nat
    BY <1>1, MessageTypes DEF Grown
  <2>2. \A j \in 1 .. Len(a[i].blocks) : <<i, j>> \in P
    BY <1>1, PositionsAre
  <2>3. \A j \in 1 .. Len(a[i].blocks) : <<<<i, j>>, <<i, j>>>> \in E
    BY <2>2, <1>2
  <2> HIDE DEF E
  <2>4. /\ Len(Places(a)[i]) = Len(a[i].blocks) /\ Len(Places(b)[i]) = Len(a[i].blocks)
        /\ \A j \in 1 .. Len(a[i].blocks) : Places(a)[i][j] = <<i, j>> /\ Places(b)[i][j] = <<i, j>>
    BY <2>1, <1>3, <1>4
  <2>5. \A j \in 1 .. Len(Places(a)[i]) : <<Places(a)[i][j], Places(b)[i][j]>> \in E
    BY <2>3, <2>4
  <2>6. Len(Places(a)[i]) <= Len(Places(b)[i])
    BY <2>1, <2>4
  <2> QED BY <2>4, <2>5, <2>6 DEF Starts
<1>6. InOrder(a) = Joined(Places(a)) /\ InOrder(b) = Joined(Places(b))
  BY DEF InOrder, Places
<1>7. \A x, y : <<x, y>> \in E <=> x \in Q /\ x = y
  OBVIOUS
<1> HIDE DEF E, P, Q
<1>8. Starts(E, InOrder(a), InOrder(b))
  BY <1>1, <1>3, <1>4, <1>5, <1>6, JoinedStarts
<1>9. InOrder(a) \in Seq(P) /\ InOrder(b) \in Seq(Q)
  BY <1>1, InOrderIs DEF P, Q
<1>10. /\ DOMAIN InOrder(a) = 1 .. Len(InOrder(a)) /\ DOMAIN InOrder(b) = 1 .. Len(InOrder(b))
       /\ Len(InOrder(a)) \in Nat /\ Len(InOrder(b)) \in Nat
       /\ \A n \in 1 .. Len(InOrder(a)) : InOrder(a)[n] \in P
  BY <1>9, LenProperties
<1>11. ASSUME NEW n \in 1 .. Len(InOrder(a)) PROVE n \in I <=> n \in J
  <2>0. <<InOrder(a)[n], InOrder(b)[n]>> \in E /\ Len(InOrder(a)) <= Len(InOrder(b))
    BY <1>8 DEF Starts
  <2>1. n \in 1 .. Len(InOrder(b)) /\ InOrder(a)[n] = InOrder(b)[n]
    BY <2>0, <1>7, <1>10
  <2>2. InOrder(a)[n] \in P /\ InOrder(a)[n] \in Q
        /\ At(a, InOrder(a)[n]).type = At(b, InOrder(a)[n]).type
    BY <1>2, <1>10
  <2> QED BY <2>1, <2>2, <1>10 DEF P, Q
<1>12. Uses(a) = Kept(InOrder(a), I) /\ Uses(b) = Kept(InOrder(b), J)
  BY DEF Uses
<1> HIDE DEF I, J
<1>13. Starts(E, Uses(a), Uses(b))
  BY <1>8, <1>9, <1>11, <1>12, KeptStarts
<1>14. Len(Uses(a)) \in Nat /\ Len(Uses(b)) \in Nat
  BY <1>1, UsesAre
<1>15. Len(Uses(a)) <= Len(Uses(b)) /\ \A k \in 1 .. Len(Uses(a)) : <<Uses(a)[k], Uses(b)[k]>> \in E
  BY <1>13 DEF Starts
<1>16. \A k \in 1 .. Len(Uses(a)) : Uses(b)[k] = Uses(a)[k]
  BY <1>7, <1>15
<1> QED BY <1>14, <1>15, <1>16

(* The interactions of a request are the first of those of a longer one, each *)
(* with the results that answer it so far.                                    *)
LEMMA InteractionsGrow ==
  ASSUME NEW a, NEW b, Grown(a, b)
  PROVE  /\ Len(Interactions(a)) <= Len(Interactions(b))
         /\ \A k \in 1 .. Len(Interactions(a)) :
              /\ k \in 1 .. Len(Interactions(b))
              /\ Interactions(a)[k].use = Interactions(b)[k].use
              /\ Interactions(a)[k].name = Interactions(b)[k].name
              /\ Interactions(a)[k].results \subseteq Interactions(b)[k].results
<1> DEFINE x == Interactions(a)
           y == Interactions(b)
           u == Uses(a)
           v == Uses(b)
<1>1. a \in Seq(Messages) /\ b \in Seq(Messages)
  BY DEF Grown
<1>2. /\ Len(x) = Len(u) /\ Len(x) \in Nat
      /\ \A k \in 1 .. Len(x) :
           /\ x[k].use = u[k] /\ x[k].name = At(a, u[k]).name
           /\ x[k].results = {p \in Positions(a) : At(a, p).type = "tool_result" /\ LatestUse(a, k, p)}
  BY <1>1, InteractionsAre
<1>3. /\ Len(y) = Len(v) /\ Len(y) \in Nat
      /\ \A k \in 1 .. Len(y) :
           /\ y[k].use = v[k] /\ y[k].name = At(b, v[k]).name
           /\ y[k].results = {p \in Positions(b) : At(b, p).type = "tool_result" /\ LatestUse(b, k, p)}
  BY <1>1, InteractionsAre
<1>4. Len(u) <= Len(v) /\ \A k \in 1 .. Len(u) : k \in 1 .. Len(v) /\ v[k] = u[k]
  BY UsesGrow
<1>5. \A p \in Positions(a) : /\ p \in Positions(b) /\ At(a, p).type = At(b, p).type
                              /\ At(a, p).id = At(b, p).id /\ At(a, p).name = At(b, p).name
  BY PositionsGrow DEF SameBlock
<1>6. \A p \in Positions(a), q \in Positions(b) : q \notin Positions(a) => Before(p, q)
  BY PositionsGrow
<1>7. /\ \A k \in 1 .. Len(u) : u[k] \in Positions(a)
      /\ \A p \in Positions(a) : At(a, p).type = "tool_use" => \E k \in 1 .. Len(u) : u[k] = p
  BY <1>1, UsesAre
<1>8. /\ \A k \in 1 .. Len(v) : v[k] \in Positions(b) /\ At(b, v[k]).type = "tool_use"
      /\ \A k, l \in 1 .. Len(v) : v[k] = v[l] => k = l
  BY <1>1, UsesAre
<1> HIDE DEF x, y, u, v
<1>9. ASSUME NEW k \in 1 .. Len(u), NEW p \in Positions(a), LatestUse(a, k, p)
      PROVE  LatestUse(b, k, p)
  <2>1. At(b, v[k]).id = At(b, p).id /\ Before(v[k], p)
    BY <1>4, <1>5, <1>7, <1>9 DEF LatestUse, u, v
  <2>2. ASSUME NEW l \in k + 1 .. Len(v), At(b, v[l]).id = At(b, p).id PROVE Before(p, v[l])
    <3>0. l \in 1 .. Len(v) /\ (l <= Len(u) => l \in k + 1 .. Len(u) /\ l \in 1 .. Len(u))
      BY <1>2, <1>3
    <3>1. CASE l <= Len(u)
      <4>1. At(a, u[l]).id = At(a, p).id /\ v[l] = u[l]
        BY <3>0, <3>1, <2>2, <1>4, <1>5, <1>7
      <4> QED BY <4>1, <3>0, <3>1, <1>9 DEF LatestUse, u
    <3>2. CASE ~(l <= Len(u))
      <4>1. v[l] \in Positions(b) /\ At(b, v[l]).type = "tool_use"
        BY <3>0, <1>8
      <4>2. ASSUME v[l] \in Positions(a) PROVE FALSE
        <5>1. At(a, v[l]).type = "tool_use"
          BY <4>1, <4>2, <1>5
        <5>2. PICK m \in 1 .. Len(u) : u[m] = v[l]
          BY <4>2, <5>1, <1>7
        <5>3. m = l
          BY <5>2, <3>0, <1>4, <1>8
        <5> QED BY <5>3, <3>2, <1>2
      <4> QED BY <4>1, <4>2, <1>6
    <3> QED BY <3>1, <3>2
  <2> QED BY <2>1, <2>2 DEF LatestUse, v
<1>10. ASSUME NEW k \in 1 .. Len(x)
       PROVE  /\ k \in 1 .. Len(y) /\ x[k].use = y[k].use /\ x[k].name = y[k].name
              /\ x[k].results \subseteq y[k].results
  <2>1. k \in 1 .. Len(u) /\ k \in 1 .. Len(v) /\ k \in 1 .. Len(y) /\ v[k] = u[k]
    BY <1>2, <1>3, <1>4
  <2>2. x[k].use = y[k].use /\ x[k].name = y[k].name
    BY <2>1, <1>2, <1>3, <1>5, <1>7
  <2>3. ASSUME NEW p \in x[k].results PROVE p \in y[k].results
    <3>1. p \in Positions(a) /\ At(a, p).type = "tool_result" /\ LatestUse(a, k, p)
      BY <2>3, <1>2
    <3>2. p \in Positions(b) /\ At(b, p).type = "tool_result" /\ LatestUse(b, k, p)
      BY <3>1, <2>1, <1>5, <1>9
    <3> QED BY <3>2, <2>1, <1>3
  <2> QED BY <2>1, <2>2, <2>3
<1> QED BY <1>2, <1>3, <1>4, <1>10 DEF x, y

First(s) == CHOOSE p \in s : TRUE

(* The sums of the sizes of the blocks at each set of positions in ps.        *)
SumsTo(ms, ps, n, g) ==
  \A s \in SUBSET ps : Cardinality(s) <= n =>
    g[s] = IF s = {} THEN 0 ELSE At(ms, First(s)).size + g[s \ {First(s)}]

(* A set without one of its elements.                                         *)
LEMMA Without ==
  ASSUME NEW ps, IsFiniteSet(ps), NEW s \in SUBSET ps
  PROVE  /\ IsFiniteSet(s) /\ Cardinality(s) \in Nat /\ Cardinality(s) <= Cardinality(ps)
         /\ s = {} <=> Cardinality(s) = 0
         /\ \A p \in s : /\ s \ {p} \in SUBSET ps /\ Cardinality(s \ {p}) = Cardinality(s) - 1
                         /\ Cardinality(s) # 0
         /\ s # {} => First(s) \in s
<1>1. IsFiniteSet(s) /\ Cardinality(s) <= Cardinality(ps)
  BY FS_Subset
<1>2. Cardinality(s) \in Nat /\ (s = {} <=> Cardinality(s) = 0)
  BY <1>1, FS_CardinalityType, FS_EmptySet
<1>3. \A p \in s : Cardinality(s \ {p}) = Cardinality(s) - 1
  BY <1>1, FS_RemoveElement
<1>4. s # {} => First(s) \in s
  BY DEF First
<1> QED BY <1>1, <1>2, <1>3, <1>4

(* The recursion in SizeAt defines a function.                                *)
LEMMA SizeSteps ==
  ASSUME NEW ms, NEW ps, IsFiniteSet(ps)
  PROVE  \E g : SumsTo(ms, ps, Cardinality(ps), g) /\ SizeAt(ms, ps) = g[ps]
<1> DEFINE N == Cardinality(ps)
           T == {n \in 0 .. N : \E g : SumsTo(ms, ps, n, g)}
           F(g) == [s \in SUBSET ps |->
                      IF s = {} THEN 0 ELSE At(ms, First(s)).size + g[s \ {First(s)}]]
<1>1. N \in Nat
  BY FS_CardinalityType
<1> HIDE DEF N
<1>2. 0 \in T
  <2> DEFINE e == [s \in SUBSET ps |-> 0]
  <2>1. \A s \in SUBSET ps : e[s] = 0 /\ (Cardinality(s) <= 0 => s = {})
    BY Without
  <2> HIDE DEF e
  <2>2. SumsTo(ms, ps, 0, e)
    BY <2>1 DEF SumsTo
  <2>3. \E g : SumsTo(ms, ps, 0, g)
    BY <2>2
  <2> QED BY <2>3, <1>1
<1>3. ASSUME NEW n \in 1 .. N, n - 1 \in T PROVE n \in T
  <2>1. PICK g : SumsTo(ms, ps, n - 1, g)
    BY <1>3
  <2> DEFINE val(s) == IF s = {} THEN 0 ELSE At(ms, First(s)).size + g[s \ {First(s)}]
             h == [s \in SUBSET ps |-> val(s)]
  <2>2. \A s \in SUBSET ps : h[s] = val(s)
    OBVIOUS
  <2> HIDE DEF h
  <2>3. \A s \in SUBSET ps : Cardinality(s) <= n - 1 => g[s] = val(s)
    BY <2>1 DEF SumsTo
  <2>4. ASSUME NEW s \in SUBSET ps, Cardinality(s) <= n, s # {}
        PROVE  h[s \ {First(s)}] = g[s \ {First(s)}]
    <3> DEFINE r == s \ {First(s)}
    <3>1. r \in SUBSET ps /\ Cardinality(r) = Cardinality(s) - 1 /\ Cardinality(s) \in Nat
      BY <2>4, Without
    <3> HIDE DEF r
    <3>2. Cardinality(r) <= n - 1
      BY <3>1, <2>4, <1>1
    <3>3. h[r] = val(r) /\ g[r] = val(r)
      BY <3>1, <3>2, <2>2, <2>3
    <3> QED BY <3>3 DEF r
  <2>5. SumsTo(ms, ps, n, h)
    BY <2>2, <2>4 DEF SumsTo
  <2>6. \E f : SumsTo(ms, ps, n, f)
    BY <2>5
  <2> QED BY <2>6, <1>1
<1>4. N \in T
  <2>1. \A n \in 0 .. N : n \in T
    <3> HIDE DEF T
    <3> QED BY <1>1, <1>2, <1>3, UpTo
  <2> HIDE DEF T
  <2> QED BY <2>1, <1>1
<1>5. PICK g : SumsTo(ms, ps, N, g)
  BY <1>4
<1>6. \A s \in SUBSET ps : Cardinality(s) <= N
  BY Without DEF N
<1> DEFINE k == [s \in SUBSET ps |-> g[s]]
<1>7. \A s \in SUBSET ps : k[s] = g[s]
  OBVIOUS
<1>8. k = F(k)
  <2>1. ASSUME NEW s \in SUBSET ps
        PROVE  g[s] = IF s = {} THEN 0 ELSE At(ms, First(s)).size + k[s \ {First(s)}]
    <3> HIDE DEF k
    <3>1. s \ {First(s)} \in SUBSET ps
      OBVIOUS
    <3>2. g[s] = IF s = {} THEN 0 ELSE At(ms, First(s)).size + g[s \ {First(s)}]
      BY <1>5, <1>6 DEF SumsTo
    <3> QED BY <3>1, <3>2, <1>7
  <2> QED BY <2>1
<1> HIDE DEF k
<1> DEFINE f == CHOOSE f : f = F(f)
<1>9. f = F(f)
  BY <1>8
<1>10. SizeAt(ms, ps) = f[ps]
  BY DEF SizeAt, MapThenSumSet, MapThenFoldSet, First
<1> HIDE DEF f
<1>11. \A s \in SUBSET ps : f[s] = IF s = {} THEN 0 ELSE At(ms, First(s)).size + f[s \ {First(s)}]
  BY <1>9
<1>12. SumsTo(ms, ps, N, f)
  BY <1>11 DEF SumsTo
<1> QED BY <1>10, <1>12 DEF N

Sized(ms, ps) == IsFiniteSet(ps) /\ \A p \in ps : At(ms, p).size \in Nat

(* g adds the sizes of the blocks up, in any order.                           *)
Adds(ms, ps, g) ==
  /\ g[{}] = 0
  /\ \A s \in SUBSET ps : g[s] \in Nat /\ \A p \in s : g[s] = At(ms, p).size + g[s \ {p}]

(* A sum is a number, and is that without any element and the element's size. *)
LEMMA SumsAre ==
  ASSUME NEW ms, NEW ps, Sized(ms, ps), NEW g, SumsTo(ms, ps, Cardinality(ps), g)
  PROVE  Adds(ms, ps, g)
<1>0. IsFiniteSet(ps) /\ \A p \in ps : At(ms, p).size \in Nat
  BY DEF Sized
<1> DEFINE N == Cardinality(ps)
           Good(s) == g[s] \in Nat /\ \A p \in s : g[s] = At(ms, p).size + g[s \ {p}]
           T == {n \in 0 .. N : \A s \in SUBSET ps : Cardinality(s) <= n => Good(s)}
<1>1. N \in Nat /\ \A s \in SUBSET ps : Cardinality(s) <= N /\ Cardinality(s) \in Nat
  BY <1>0, Without, FS_CardinalityType
<1>2. \A s \in SUBSET ps : g[s] = IF s = {} THEN 0 ELSE At(ms, First(s)).size + g[s \ {First(s)}]
  BY <1>1 DEF SumsTo
<1>3. g[{}] = 0 /\ Good({})
  <2>1. {} \in SUBSET ps
    OBVIOUS
  <2>2. g[{}] = 0
    BY <2>1, <1>2
  <2> QED BY <2>2
<1> HIDE DEF N
<1>4. 0 \in T
  <2>1. \A s \in SUBSET ps : Cardinality(s) <= 0 => s = {}
    BY <1>0, Without
  <2> HIDE DEF Good
  <2> QED BY <2>1, <1>1, <1>3
<1>5. ASSUME NEW n \in 1 .. N, n - 1 \in T PROVE n \in T
  <2>1. \A s \in SUBSET ps : Cardinality(s) <= n - 1 => Good(s)
    BY <1>5
  <2>2. ASSUME NEW s \in SUBSET ps, Cardinality(s) <= n PROVE Good(s)
    <3>1. CASE s = {}
      BY <3>1, <1>3
    <3>2. CASE s # {}
      <4> DEFINE c == First(s)
                 r == s \ {c}
                 size(p) == At(ms, p).size
      <4>1. /\ c \in s /\ \A p \in s : s \ {p} \in SUBSET ps /\ Cardinality(s \ {p}) = Cardinality(s) - 1
            /\ Cardinality(s) \in Nat
        BY <1>0, <3>2, Without
      <4>2. \A p \in s : Cardinality(s \ {p}) <= n - 1 /\ s \ {p} \in SUBSET ps
        BY <4>1, <2>2, <1>1
      <4>3. g[s] = size(c) + g[r]
        BY <3>2, <1>2
      <4>4. \A p \in s : Good(s \ {p})
        <5> HIDE DEF Good
        <5> QED BY <4>2, <2>1
      <4>5. \A p \in s : size(p) \in Nat
        BY <1>0
      <4> HIDE DEF c, size
      <4>6. g[r] \in Nat
        BY <4>1, <4>4
      <4>7. ASSUME NEW p \in s PROVE g[s] = size(p) + g[s \ {p}]
        <5>1. CASE p = c
          BY <5>1, <4>3
        <5>2. CASE p # c
          <6>1. p \in r /\ c \in s \ {p}
            BY <5>2, <4>1
          <6>2. g[r] = size(p) + g[r \ {p}]
            BY <6>1, <4>1, <4>4 DEF size
          <6>3. g[s \ {p}] = size(c) + g[(s \ {p}) \ {c}] /\ g[s \ {p}] \in Nat
            BY <6>1, <4>4 DEF size
          <6>4. r \ {p} = (s \ {p}) \ {c}
            OBVIOUS
          <6>5. g[r \ {p}] \in Nat
            <7>1. r \ {p} \in SUBSET ps
              OBVIOUS
            <7>2. Cardinality(r \ {p}) <= n - 1
              <8>1. /\ r \in SUBSET ps /\ Cardinality(r) <= n - 1
                BY <4>1, <4>2
              <8> HIDE DEF r
              <8>2. Cardinality(r) \in Nat /\ \A q \in r : Cardinality(r \ {q}) = Cardinality(r) - 1
                BY <1>0, <8>1, Without
              <8> QED BY <8>1, <8>2, <6>1, <1>1
            <7> QED BY <7>1, <7>2, <2>1
          <6> DEFINE x == g[r \ {p}]
          <6>6. g[s] = size(c) + (size(p) + x) /\ g[s \ {p}] = size(c) + x /\ x \in Nat
            BY <4>3, <6>2, <6>3, <6>4, <6>5
          <6> HIDE DEF x
          <6>7. size(c) \in Nat /\ size(p) \in Nat
            BY <4>1, <4>5
          <6> QED BY <6>6, <6>7
        <5> QED BY <5>1, <5>2
      <4>8. g[s] \in Nat
        <5>1. size(c) \in Nat
          BY <4>1, <4>5
        <5> HIDE DEF r
        <5> QED BY <5>1, <4>3, <4>6
      <4> QED BY <4>7, <4>8 DEF size
    <3> QED BY <3>1, <3>2
  <2> HIDE DEF Good
  <2> QED BY <2>2, <1>1
<1>6. \A n \in 0 .. N : n \in T
  <2> HIDE DEF T
  <2> QED BY <1>1, <1>4, <1>5, UpTo
<1>7. N \in T
  BY <1>1, <1>6
<1> QED BY <1>1, <1>3, <1>7 DEF Adds

(* The size of the blocks at some positions is such a sum.                    *)
LEMMA SizeIs ==
  ASSUME NEW ms, NEW ps, Sized(ms, ps)
  PROVE  \E g : Adds(ms, ps, g) /\ SizeAt(ms, ps) = g[ps]
<1>1. IsFiniteSet(ps)
  BY DEF Sized
<1>2. PICK g : SumsTo(ms, ps, Cardinality(ps), g) /\ SizeAt(ms, ps) = g[ps]
  BY <1>1, SizeSteps
<1>3. Adds(ms, ps, g)
  BY <1>2, SumsAre
<1> QED BY <1>2, <1>3

(* More blocks, of which the first are as large, are no smaller together.     *)
LEMMA SizeGrows ==
  ASSUME NEW a, NEW b, NEW ps, NEW qs, IsFiniteSet(qs), ps \in SUBSET qs,
         \A p \in qs : At(b, p).size \in Nat,
         \A p \in ps : At(a, p).size = At(b, p).size
  PROVE  SizeAt(a, ps) \in Nat /\ SizeAt(b, qs) \in Nat /\ SizeAt(a, ps) <= SizeAt(b, qs)
<1> DEFINE N == Cardinality(ps)
<1>1. IsFiniteSet(ps) /\ N \in Nat
  BY FS_Subset, FS_CardinalityType
<1>2. \A p \in ps : At(a, p).size \in Nat
  OBVIOUS
<1>3. PICK g : Adds(a, ps, g) /\ SizeAt(a, ps) = g[ps]
  BY <1>1, <1>2, SizeIs DEF Sized
<1>4. PICK h : Adds(b, qs, h) /\ SizeAt(b, qs) = h[qs]
  BY SizeIs DEF Sized
<1>5. /\ g[{}] = 0
      /\ \A s \in SUBSET ps : g[s] \in Nat /\ \A p \in s : g[s] = At(a, p).size + g[s \ {p}]
  BY <1>3 DEF Adds
<1>6. /\ h[{}] = 0
      /\ \A s \in SUBSET qs : h[s] \in Nat /\ \A p \in s : h[s] = At(b, p).size + h[s \ {p}]
  BY <1>4 DEF Adds
<1> DEFINE Less(s) == \A t \in SUBSET qs : s \subseteq t => g[s] <= h[t]
           T == {n \in 0 .. N : \A s \in SUBSET ps : Cardinality(s) <= n => Less(s)}
<1> HIDE DEF N
<1>7. 0 \in T
  <2>1. \A s \in SUBSET ps : Cardinality(s) <= 0 => s = {}
    BY <1>1, Without
  <2>2. Less({})
    BY <1>5, <1>6
  <2> HIDE DEF Less
  <2> QED BY <2>1, <2>2, <1>1
<1>8. ASSUME NEW n \in 1 .. N, n - 1 \in T PROVE n \in T
  <2>1. \A s \in SUBSET ps : Cardinality(s) <= n - 1 => Less(s)
    BY <1>8
  <2>2. ASSUME NEW s \in SUBSET ps, Cardinality(s) <= n PROVE Less(s)
    <3>1. CASE s = {}
      BY <3>1, <1>5, <1>6
    <3>2. CASE s # {}
      <4>1. PICK p : p \in s
        BY <3>2
      <4> DEFINE r == s \ {p}
      <4>2. r \in SUBSET ps /\ Cardinality(r) = Cardinality(s) - 1 /\ Cardinality(s) \in Nat
        BY <4>1, <1>1, Without
      <4>3. Cardinality(r) <= n - 1
        <5> HIDE DEF r
        <5> QED BY <4>2, <2>2, <1>1
      <4>4. Less(r)
        <5> HIDE DEF Less, r
        <5> QED BY <4>2, <4>3, <2>1
      <4>5. ASSUME NEW t \in SUBSET qs, s \subseteq t PROVE g[s] <= h[t]
        <5>1. p \in t /\ t \ {p} \in SUBSET qs /\ r \subseteq t \ {p}
          BY <4>1, <4>5
        <5>2. g[r] <= h[t \ {p}]
          BY <5>1, <4>4
        <5> DEFINE x == g[r]
                   y == h[t \ {p}]
                   z == At(a, p).size
        <5>3. g[s] = z + x /\ x \in Nat
          BY <4>1, <4>2, <1>5
        <5>4. h[t] = z + y /\ y \in Nat /\ z \in Nat
          BY <4>1, <5>1, <1>2, <1>6
        <5> HIDE DEF x, y, z
        <5>5. x <= y
          BY <5>2 DEF x, y
        <5> QED BY <5>3, <5>4, <5>5
      <4> QED BY <4>5
    <3> QED BY <3>1, <3>2
  <2> HIDE DEF Less
  <2> QED BY <2>2, <1>1
<1>9. \A n \in 0 .. N : n \in T
  <2> HIDE DEF T
  <2> QED BY <1>1, <1>7, <1>8, UpTo
<1>10. N \in T
  BY <1>1, <1>9
<1>11. Less(ps)
  <2>1. Cardinality(ps) <= N
    BY <1>1 DEF N
  <2> HIDE DEF Less
  <2> QED BY <2>1, <1>10
<1>12. g[ps] <= h[qs] /\ g[ps] \in Nat /\ h[qs] \in Nat
  BY <1>5, <1>6, <1>11
<1> QED BY <1>3, <1>4, <1>12

(* y is x with the blocks at the positions ps cleared.                        *)
Clearing(x, ps, y) ==
  /\ SameShape(x, y)
  /\ \A p \in Positions(x) : At(y, p) = IF p \in ps THEN Cleared(At(x, p)) ELSE At(x, p)

(* b is a longer request than a, of which t is what the client holds: what is *)
(* cleared in a is cleared in b, and what is not has the client's size.       *)
Stays(a, b, t) ==
  /\ Grown(a, b)
  /\ \A p \in Positions(a) :
       /\ At(a, p).cleared /\ At(a, p).type = "tool_result" => At(b, p).cleared
       /\ ~At(a, p).cleared => At(a, p).size = At(t, p).size
       /\ ~At(b, p).cleared => At(b, p).size = At(t, p).size

(* A request of the same shape has the same positions.                        *)
LEMMA ShapePositions ==
  ASSUME NEW a, NEW b, SameShape(a, b)
  PROVE  /\ Positions(a) = Positions(b)
         /\ \A p \in Positions(a) : SameBlock(At(a, p), At(b, p))
<1>1. Grown(a, b) /\ Grown(b, a)
  <2>1. /\ a \in Seq(Messages) /\ b \in Seq(Messages) /\ Len(a) = Len(b) /\ Len(a) \in Nat
        /\ \A i \in 1 .. Len(a) :
             /\ Len(b[i].blocks) = Len(a[i].blocks)
             /\ \A j \in 1 .. Len(a[i].blocks) : SameBlock(a[i].blocks[j], b[i].blocks[j])
    BY MessageTypes DEF SameShape
  <2>2. Len(a) <= Len(b) /\ Len(b) <= Len(a)
    BY <2>1
  <2>3. \A i \in 1 .. Len(b) :
          /\ Len(a[i].blocks) = Len(b[i].blocks)
          /\ \A j \in 1 .. Len(b[i].blocks) : SameBlock(b[i].blocks[j], a[i].blocks[j])
    BY <2>1 DEF SameBlock
  <2> QED BY <2>1, <2>2, <2>3 DEF Grown
<1>2. \A p \in Positions(a) : p \in Positions(b) /\ SameBlock(At(a, p), At(b, p))
  BY <1>1, PositionsGrow
<1>3. \A p \in Positions(b) : p \in Positions(a)
  BY <1>1, PositionsGrow
<1> QED BY <1>2, <1>3

(* ClearedAt clears what it says.                                             *)
LEMMA ClearedIsClearing ==
  ASSUME NEW ms \in Seq(Messages), NEW ps
  PROVE  Clearing(ms, ps, ClearedAt(ms, ps))
<1> DEFINE new == ClearedAt(ms, ps)
<1>1. /\ SameShape(ms, new)
      /\ \A i \in 1 .. Len(ms) : \A j \in 1 .. Len(ms[i].blocks) :
           new[i].blocks[j] = IF <<i, j>> \in ps THEN Cleared(ms[i].blocks[j]) ELSE ms[i].blocks[j]
  BY ClearedShape
<1> HIDE DEF new
<1>2. ASSUME NEW p \in Positions(ms)
      PROVE  At(new, p) = IF p \in ps THEN Cleared(At(ms, p)) ELSE At(ms, p)
  <2>1. PICK i \in 1 .. Len(ms) : \E j \in 1 .. Len(ms[i].blocks) : p = <<i, j>>
    BY PositionsAre
  <2>2. PICK j \in 1 .. Len(ms[i].blocks) : p = <<i, j>>
    BY <2>1
  <2>3. At(new, p) = new[i].blocks[j] /\ At(ms, p) = ms[i].blocks[j]
    BY <2>2 DEF At
  <2> QED BY <2>2, <2>3, <1>1
<1>3. Clearing(ms, ps, new)
  BY <1>1, <1>2 DEF Clearing
<1> QED BY <1>3 DEF new

(* A request is itself with no block cleared.                                 *)
LEMMA ItselfIsClearing ==
  ASSUME NEW ms \in Seq(Messages)
  PROVE  Clearing(ms, {}, ms)
BY ShapeSelf DEF Clearing

(* Clearing on both sides keeps the relation when what is cleared on the left *)
(* is cleared on the right.                                                   *)
LEMMA ClearingStays ==
  ASSUME NEW a, NEW b, NEW t, Stays(a, b, t),
         NEW ps, NEW c, Clearing(a, ps, c), NEW qs, NEW d, Clearing(b, qs, d),
         \A p \in Positions(a) : p \in ps /\ At(a, p).type = "tool_result"
                                   => p \in qs \/ At(b, p).cleared
  PROVE  Stays(c, d, t)
<1>1. SameShape(a, c) /\ SameShape(b, d) /\ Grown(a, b)
  BY DEF Stays, Clearing
<1>2. Positions(a) = Positions(c) /\ Positions(b) = Positions(d)
  BY <1>1, ShapePositions
<1>3. \A p \in Positions(a) : p \in Positions(b) /\ SameBlock(At(a, p), At(b, p))
  BY <1>1, PositionsGrow
<1>4. Grown(c, d)
  <2>1. /\ c \in Seq(Messages) /\ d \in Seq(Messages)
        /\ Len(c) = Len(a) /\ Len(d) = Len(b) /\ Len(a) <= Len(b) /\ Len(a) \in Nat /\ Len(b) \in Nat
    BY <1>1, MessageTypes DEF SameShape, Grown
  <2>2. ASSUME NEW i \in 1 .. Len(c)
        PROVE  /\ Len(d[i].blocks) = Len(c[i].blocks)
               /\ \A j \in 1 .. Len(c[i].blocks) : SameBlock(c[i].blocks[j], d[i].blocks[j])
    <3>1. i \in 1 .. Len(a) /\ i \in 1 .. Len(b)
      BY <2>1
    <3>2. Len(c[i].blocks) = Len(a[i].blocks) /\ Len(d[i].blocks) = Len(b[i].blocks)
          /\ Len(b[i].blocks) = Len(a[i].blocks)
      BY <1>1, <3>1 DEF SameShape, Grown
    <3>3. ASSUME NEW j \in 1 .. Len(c[i].blocks) PROVE SameBlock(c[i].blocks[j], d[i].blocks[j])
      <4>1. /\ SameBlock(a[i].blocks[j], c[i].blocks[j]) /\ SameBlock(b[i].blocks[j], d[i].blocks[j])
            /\ SameBlock(a[i].blocks[j], b[i].blocks[j])
        BY <1>1, <3>1, <3>2 DEF SameShape, Grown
      <4> QED BY <4>1 DEF SameBlock
    <3> QED BY <3>2, <3>3
  <2> QED BY <2>1, <2>2 DEF Grown
<1>5. \A x \in Blocks : Cleared(x).cleared = TRUE /\ Cleared(x).type = x.type
  BY ClearedBlock DEF SameBlock
<1>6. /\ \A p \in Positions(a) : At(a, p) \in Blocks
      /\ \A p \in Positions(b) : At(b, p) \in Blocks
  <2>1. \A ms \in Seq(Messages) : \A p \in Positions(ms) : At(ms, p) \in Blocks
    <3>1. TAKE ms \in Seq(Messages)
    <3>2. TAKE p \in Positions(ms)
    <3>3. PICK i \in 1 .. Len(ms) : \E j \in 1 .. Len(ms[i].blocks) : At(ms, p) = ms[i].blocks[j]
      BY PositionsAre
    <3> QED BY <3>3, MessageTypes
  <2> QED BY <2>1, <1>1 DEF Grown
<1>7. ASSUME NEW p \in Positions(c)
      PROVE  /\ At(c, p).cleared /\ At(c, p).type = "tool_result" => At(d, p).cleared
             /\ ~At(c, p).cleared => At(c, p).size = At(t, p).size
             /\ ~At(d, p).cleared => At(d, p).size = At(t, p).size
  <2>1. p \in Positions(a) /\ p \in Positions(b)
    BY <1>2, <1>3
  <2>2. /\ At(c, p) = IF p \in ps THEN Cleared(At(a, p)) ELSE At(a, p)
        /\ At(d, p) = IF p \in qs THEN Cleared(At(b, p)) ELSE At(b, p)
    BY <2>1 DEF Clearing
  <2>3. /\ At(a, p).cleared /\ At(a, p).type = "tool_result" => At(b, p).cleared
        /\ ~At(a, p).cleared => At(a, p).size = At(t, p).size
        /\ ~At(b, p).cleared => At(b, p).size = At(t, p).size
    BY <2>1 DEF Stays
  <2>4. p \in ps /\ At(a, p).type = "tool_result" => p \in qs \/ At(b, p).cleared
    BY <2>1
  <2> DEFINE x == At(a, p)
             y == At(b, p)
  <2>5. /\ Cleared(x).cleared = TRUE /\ Cleared(x).type = x.type
        /\ Cleared(y).cleared = TRUE
    BY <2>1, <1>5, <1>6
  <2> HIDE DEF x, y
  <2>6. At(c, p) = (IF p \in ps THEN Cleared(x) ELSE x) /\ At(d, p) = (IF p \in qs THEN Cleared(y) ELSE y)
    BY <2>2 DEF x, y
  <2>7. /\ x.cleared /\ x.type = "tool_result" => y.cleared
        /\ ~x.cleared => x.size = At(t, p).size
        /\ ~y.cleared => y.size = At(t, p).size
        /\ p \in ps /\ x.type = "tool_result" => p \in qs \/ y.cleared
    BY <2>3, <2>4 DEF x, y
  <2> QED BY ONLY <2>5, <2>6, <2>7
<1> QED BY <1>4, <1>7 DEF Stays

(* The blocks of the first n of some interactions.                            *)
LEMMA FirstClearables ==
  ASSUME NEW S, NEW e \in Seq(S), NEW n \in 1 .. Len(e), NEW edit
  PROVE  \A p : p \in Clearables(SubSeq(e, 1, n), edit) <=> \E m \in 1 .. n : p \in Clearable(e[m], edit)
<1> DEFINE s == SubSeq(e, 1, n)
<1>1. Len(e) \in Nat /\ 1 \in 1 .. Len(e) + 1 /\ n \in 0 .. Len(e) /\ n \in Nat /\ 1 <= n
  BY LenProperties
<1>2. /\ s \in Seq(S) /\ Len(s) = (IF 1 <= n THEN n - 1 + 1 ELSE 0)
      /\ \A i \in 1 .. Len(s) : s[i] = e[1 + i - 1]
  BY <1>1, PartType
<1> HIDE DEF s
<1>3. Len(s) = n /\ DOMAIN s = 1 .. n
  BY <1>1, <1>2, LenProperties
<1>4. \A m \in 1 .. n : 1 + m - 1 = m
  OBVIOUS
<1>5. \A m \in 1 .. n : s[m] = e[m]
  BY <1>2, <1>3, <1>4
<1>6. \A p : p \in Clearables(s, edit) <=> \E m \in 1 .. n : p \in Clearable(s[m], edit)
  BY <1>3 DEF Clearables, ToSet
<1> QED BY <1>5, <1>6 DEF s

(* The interactions that an edit may clear are the first of those of a longer *)
(* request, with fewer results.                                               *)
LEMMA EligibleGrows ==
  ASSUME NEW a, NEW b, Grown(a, b), NEW edit
  PROVE  LET e == Eligible(a, edit)
             f == Eligible(b, edit)
         IN  /\ \E S : e \in Seq(S)
             /\ \E S : f \in Seq(S)
             /\ Len(e) <= Len(f)
             /\ \A m \in 1 .. Len(e) : e[m].use = f[m].use /\ e[m].results \subseteq f[m].results
<1> DEFINE x == Interactions(a)
           y == Interactions(b)
           S == {x[k] : k \in 1 .. Len(x)}
           T == {y[k] : k \in 1 .. Len(y)}
           I == {k \in DOMAIN x : x[k].name \notin edit.exclude}
           J == {k \in DOMAIN y : y[k].name \notin edit.exclude}
           R == {r \in S \X T : r[1].use = r[2].use /\ r[1].results \subseteq r[2].results}
           e == Eligible(a, edit)
           f == Eligible(b, edit)
<1>1. a \in Seq(Messages) /\ b \in Seq(Messages)
  BY DEF Grown
<1>2. x \in Seq(S) /\ Len(x) \in Nat /\ DOMAIN x = 1 .. Len(x)
  BY <1>1, InteractionsAre
<1>3. y \in Seq(T) /\ Len(y) \in Nat /\ DOMAIN y = 1 .. Len(y)
  BY <1>1, InteractionsAre
<1>4. /\ Len(x) <= Len(y)
      /\ \A k \in 1 .. Len(x) :
           /\ k \in 1 .. Len(y) /\ x[k].use = y[k].use /\ x[k].name = y[k].name
           /\ x[k].results \subseteq y[k].results
  BY InteractionsGrow
<1>5. e = Kept(x, I) /\ f = Kept(y, J)
  BY DEF Eligible
<1> HIDE DEF x, y, e, f
<1>6. \A k \in 1 .. Len(x) : k \in I <=> k \in J
  BY <1>2, <1>3, <1>4
<1>7. Starts(R, x, y)
  <2>1. ASSUME NEW k \in 1 .. Len(x) PROVE <<x[k], y[k]>> \in R
    <3>1. x[k] \in S /\ y[k] \in T
      BY <1>4
    <3> HIDE DEF S, T
    <3> QED BY <3>1, <1>4
  <2> HIDE DEF R
  <2> QED BY <2>1, <1>4 DEF Starts
<1>8. \A u, v : <<u, v>> \in R => u.use = v.use /\ u.results \subseteq v.results
  OBVIOUS
<1> HIDE DEF R, I, J, S, T
<1>9. Starts(R, e, f)
  BY <1>2, <1>3, <1>5, <1>6, <1>7, KeptStarts
<1>10. e \in Seq(S) /\ f \in Seq(T)
  BY <1>2, <1>3, <1>5, KeptPlaces
<1>11. Len(e) <= Len(f) /\ \A m \in 1 .. Len(e) : <<e[m], f[m]>> \in R
  BY <1>9 DEF Starts
<1>12. \A m \in 1 .. Len(e) : e[m].use = f[m].use /\ e[m].results \subseteq f[m].results
  BY <1>8, <1>11
<1>13. (\E Z : e \in Seq(Z)) /\ (\E Z : f \in Seq(Z))
  BY <1>10
<1> QED BY <1>11, <1>12, <1>13 DEF e, f

(* What an edit clears of a request.                                          *)
ClearablesOf(ms, edit) ==
  Clearables(SubSeq(Eligible(ms, edit), 1, Len(Eligible(ms, edit)) - edit.keep), edit)

(* What an edit clears of a request it clears of a longer one.                *)
LEMMA ClearablesGrow ==
  ASSUME NEW a, NEW b, Grown(a, b), NEW edit, edit.keep \in Nat,
         ~(edit.keep >= Len(Eligible(a, edit)))
  PROVE  /\ ~(edit.keep >= Len(Eligible(b, edit)))
         /\ ClearablesOf(a, edit) \subseteq ClearablesOf(b, edit)
         /\ ClearablesOf(a, edit) \subseteq Positions(a)
         /\ ClearablesOf(b, edit) \subseteq Positions(b)
<1> DEFINE e == Eligible(a, edit)
           f == Eligible(b, edit)
           k == edit.keep
<1>1. /\ \E S : e \in Seq(S)
      /\ \E S : f \in Seq(S)
      /\ Len(e) <= Len(f)
      /\ \A m \in 1 .. Len(e) : e[m].use = f[m].use /\ e[m].results \subseteq f[m].results
  BY EligibleGrows
<1>2. a \in Seq(Messages) /\ b \in Seq(Messages)
  BY DEF Grown
<1>3. ClearablesOf(a, edit) = Clearables(SubSeq(e, 1, Len(e) - k), edit)
      /\ ClearablesOf(b, edit) = Clearables(SubSeq(f, 1, Len(f) - k), edit)
  BY DEF ClearablesOf
<1>4. k \in Nat /\ ~(k >= Len(e))
  OBVIOUS
<1> HIDE DEF e, f, k
<1>5. Len(e) \in Nat /\ Len(f) \in Nat
  BY <1>1, LenProperties
<1>6. Len(e) - k \in 1 .. Len(e) /\ Len(f) - k \in 1 .. Len(f) /\ Len(e) - k <= Len(f) - k
  BY <1>1, <1>4, <1>5
<1>7. \A p : p \in Clearables(SubSeq(e, 1, Len(e) - k), edit)
               <=> \E m \in 1 .. Len(e) - k : p \in Clearable(e[m], edit)
  BY <1>1, <1>6, FirstClearables
<1>8. \A p : p \in Clearables(SubSeq(f, 1, Len(f) - k), edit)
               <=> \E m \in 1 .. Len(f) - k : p \in Clearable(f[m], edit)
  BY <1>1, <1>6, FirstClearables
<1>9. ASSUME NEW m \in 1 .. Len(e) - k
      PROVE  m \in 1 .. Len(f) - k /\ Clearable(e[m], edit) \subseteq Clearable(f[m], edit)
  <2>1. m \in 1 .. Len(f) - k /\ m \in 1 .. Len(e)
    BY <1>6, <1>5, <1>4
  <2>2. e[m].use = f[m].use /\ e[m].results \subseteq f[m].results
    BY <2>1, <1>1
  <2> QED BY <2>1, <2>2 DEF Clearable
<1>10. ClearablesOf(a, edit) \subseteq ClearablesOf(b, edit)
  BY <1>3, <1>7, <1>8, <1>9
<1>11. ASSUME NEW ms \in Seq(Messages), ~(k >= Len(Eligible(ms, edit)))
       PROVE  ClearablesOf(ms, edit) \subseteq Positions(ms)
  <2>1. \A p \in ClearablesOf(ms, edit) : \E l \in 1 .. Len(Interactions(ms)) :
          p \in Interactions(ms)[l].results \cup {Interactions(ms)[l].use}
    BY <1>11, ClearsTheOldest DEF ClearablesOf, k
  <2> QED BY <2>1, <1>11, OwnBlocks
<1>12. ~(k >= Len(f))
  BY <1>1, <1>4, <1>5
<1> QED BY <1>2, <1>4, <1>10, <1>11, <1>12 DEF e, f, k

(* The positions of a request are finitely many, and its sizes are numbers.   *)
LEMMA RequestSized ==
  ASSUME NEW ms \in Seq(Messages)
  PROVE  Sized(ms, Positions(ms))
<1>1. ASSUME NEW p \in Positions(ms) PROVE At(ms, p).size \in Nat
  <2>1. PICK i \in 1 .. Len(ms) : \E j \in 1 .. Len(ms[i].blocks) : At(ms, p) = ms[i].blocks[j]
    BY PositionsAre
  <2>2. At(ms, p) \in Blocks
    BY <2>1, MessageTypes
  <2> QED BY <2>2 DEF Blocks
<1>2. IsFiniteSet(Positions(ms))
  <2> DEFINE P == Positions(ms)
             s == InOrder(ms)
  <2>1. s \in Seq(P) /\ \A p \in P : \E x \in 1 .. Len(s) : s[x] = p
    BY InOrderIs
  <2> HIDE DEF P, s
  <2>2. Len(s) \in Nat /\ \A x \in 1 .. Len(s) : s[x] \in P
    BY <2>1, LenProperties
  <2> DEFINE f == [x \in 1 .. Len(s) |-> s[x]]
  <2>3. f \in [1 .. Len(s) -> P] /\ \A p \in P : \E x \in 1 .. Len(s) : f[x] = p
    BY <2>1, <2>2
  <2> HIDE DEF f
  <2>4. f \in Surjection(1 .. Len(s), P)
    BY <2>3 DEF Surjection
  <2>5. IsFiniteSet(1 .. Len(s))
    BY <2>2, FS_Interval
  <2>6. IsFiniteSet(P)
    BY <2>4, <2>5, FS_Surjection
  <2> QED BY <2>6 DEF P
<1> QED BY <1>1, <1>2 DEF Sized

SameSizes(a, b) == \A p \in Positions(a) : At(a, p).size = At(b, p).size

(* Of blocks that are as large, more are no smaller together.                 *)
LEMMA ClearableSizes ==
  ASSUME NEW a, NEW b, Grown(a, b), SameSizes(a, b),
         NEW ps \in SUBSET Positions(a), NEW qs \in SUBSET Positions(b), ps \subseteq qs
  PROVE  SizeAt(a, ps) \in Nat /\ SizeAt(b, qs) \in Nat /\ SizeAt(a, ps) <= SizeAt(b, qs)
<1>1. b \in Seq(Messages)
  BY DEF Grown
<1>2. Sized(b, Positions(b))
  BY <1>1, RequestSized
<1>3. IsFiniteSet(qs) /\ \A p \in qs : At(b, p).size \in Nat
  BY <1>2, FS_Subset DEF Sized
<1>4. \A p \in ps : At(a, p).size = At(b, p).size
  BY DEF SameSizes
<1>5. ps \in SUBSET qs
  OBVIOUS
<1> QED BY <1>3, <1>4, <1>5, SizeGrows

(* An edit that is active for a request is active for a longer one, if it     *)
(* counts no tokens or nothing was cleared before.                            *)
LEMMA TriggeredGrows ==
  ASSUME NEW a, NEW b, Grown(a, b), NEW edit, edit.above \in Nat, Triggered(a, edit),
         edit.trigger = "input_tokens" => SameSizes(a, b)
  PROVE  Triggered(b, edit)
<1>1. CASE edit.trigger = "none"
  BY <1>1 DEF Triggered
<1>2. CASE edit.trigger = "tool_uses"
  <2> DEFINE m == Len(Interactions(a))
             n == Len(Interactions(b))
             k == edit.above
  <2>1. a \in Seq(Messages) /\ b \in Seq(Messages)
    BY DEF Grown
  <2>2. m \in Nat /\ n \in Nat /\ k \in Nat
    BY <2>1, InteractionsAre
  <2>3. m <= n
    BY InteractionsGrow
  <2>4. m > k
    BY <1>2 DEF Triggered
  <2>5. Triggered(b, edit) <=> n > k
    BY <1>2 DEF Triggered
  <2> HIDE DEF m, n, k
  <2> QED BY <2>2, <2>3, <2>4, <2>5
<1>3. CASE edit.trigger = "input_tokens"
  <2> DEFINE m == SizeAt(a, Positions(a))
             n == SizeAt(b, Positions(b))
             k == edit.above
  <2>1. SameSizes(a, b)
    BY <1>3
  <2>2. Positions(a) \subseteq Positions(b)
    BY PositionsGrow
  <2>3. m \in Nat /\ n \in Nat /\ m <= n
    BY <2>1, <2>2, ClearableSizes
  <2>4. m > k
    BY <1>3 DEF Triggered
  <2>5. Triggered(b, edit) <=> n > k
    BY <1>3 DEF Triggered
  <2>6. k \in Nat
    OBVIOUS
  <2> HIDE DEF m, n, k
  <2> QED BY <2>3, <2>4, <2>5, <2>6
<1>4. edit.trigger \in {"none", "tool_uses", "input_tokens"}
  BY DEF Triggered
<1> QED BY <1>1, <1>2, <1>3, <1>4

(* One edit of tool results on both sides keeps the relation.                 *)
LEMMA ToolEditStays ==
  ASSUME NEW a, NEW b, NEW t, Stays(a, b, t), NEW edit,
         edit.above \in Nat, edit.keep \in Nat, edit.atLeast \in Nat,
         edit.trigger = "input_tokens" \/ edit.atLeast > 0 => SameSizes(a, b)
  PROVE  Stays(EditToolUses(a, edit), EditToolUses(b, edit), t)
<1> DEFINE c  == EditToolUses(a, edit)
           d  == EditToolUses(b, edit)
           ps == ClearablesOf(a, edit)
           qs == ClearablesOf(b, edit)
           Goes(ms) == /\ Triggered(ms, edit) /\ ~(edit.keep >= Len(Eligible(ms, edit)))
                       /\ ~(SizeAt(ms, ClearablesOf(ms, edit)) < edit.atLeast)
<1>1. Grown(a, b) /\ a \in Seq(Messages) /\ b \in Seq(Messages)
  BY DEF Stays, Grown
<1>2. \A ms : EditToolUses(ms, edit) = IF Goes(ms) THEN ClearedAt(ms, ClearablesOf(ms, edit)) ELSE ms
  BY DEF EditToolUses, ClearToolUses, ClearablesOf
<1>3. ASSUME Goes(a) PROVE Goes(b) /\ ps \subseteq qs
  <2>1. Triggered(b, edit)
    BY <1>1, <1>3, TriggeredGrows
  <2>2. /\ ~(edit.keep >= Len(Eligible(b, edit)))
        /\ ps \subseteq qs /\ ps \subseteq Positions(a) /\ qs \subseteq Positions(b)
    BY <1>1, <1>3, ClearablesGrow
  <2> DEFINE m == SizeAt(a, ps)
             n == SizeAt(b, qs)
             k == edit.atLeast
  <2>3. ~(m < k) /\ k \in Nat
    BY <1>3
  <2>4. CASE k > 0
    <3>1. m \in Nat /\ n \in Nat /\ m <= n
      BY <2>2, <2>4, <1>1, ClearableSizes
    <3> HIDE DEF m, n, k
    <3>2. ~(n < k)
      BY <3>1, <2>3
    <3> QED BY <3>2, <2>1, <2>2 DEF n, k
  <2>5. CASE ~(k > 0)
    <3>1. SameSizes(b, b) /\ Grown(b, b)
      <4>1. Len(b) \in Nat
        BY <1>1, LenProperties
      <4> QED BY <4>1, <1>1 DEF SameSizes, Grown, SameBlock
    <3>2. n \in Nat
      BY <2>2, <3>1, ClearableSizes
    <3> HIDE DEF m, n, k
    <3>3. ~(n < k)
      BY <3>2, <2>3, <2>5
    <3> QED BY <3>3, <2>1, <2>2 DEF n, k
  <2> QED BY <2>4, <2>5
<1> HIDE DEF Goes
<1>4. /\ Clearing(a, ps, ClearedAt(a, ps)) /\ Clearing(a, {}, a)
      /\ Clearing(b, qs, ClearedAt(b, qs)) /\ Clearing(b, {}, b)
  BY <1>1, ClearedIsClearing, ItselfIsClearing
<1>5. CASE Goes(a)
  <2>1. c = ClearedAt(a, ps) /\ d = ClearedAt(b, qs) /\ ps \subseteq qs
    BY <1>2, <1>3, <1>5
  <2> HIDE DEF c, d, ps, qs
  <2> QED BY <2>1, <1>4, ClearingStays DEF c, d
<1>6. CASE ~Goes(a)
  <2>1. c = a
    BY <1>2, <1>6
  <2>2. \E zs : Clearing(b, zs, d)
    <3>1. d = b \/ d = ClearedAt(b, qs)
      BY <1>2
    <3> QED BY <3>1, <1>4
  <2> HIDE DEF c, d, ps, qs
  <2>3. PICK zs : Clearing(b, zs, d)
    BY <2>2
  <2>4. Stays(c, d, t)
    BY <2>1, <2>3, <1>4, ClearingStays
  <2> QED BY <2>4 DEF c, d
<1> QED BY <1>5, <1>6

(* Clearing thinking, however much on either side, keeps the relation.        *)
LEMMA ThinkingEditStays ==
  ASSUME NEW a, NEW b, NEW t, Stays(a, b, t), NEW keep
  PROVE  Stays(ClearThinking(a, keep), ClearThinking(b, keep), t)
<1>1. a \in Seq(Messages) /\ b \in Seq(Messages)
  BY DEF Stays, Grown
<1>2. PICK T : ClearThinking(a, keep) = ClearedAt(a, UNION {ThinkingIn(a, i) : i \in T})
  BY DEF ClearThinking
<1>3. PICK U : ClearThinking(b, keep) = ClearedAt(b, UNION {ThinkingIn(b, i) : i \in U})
  BY DEF ClearThinking
<1> DEFINE ps == UNION {ThinkingIn(a, i) : i \in T}
           qs == UNION {ThinkingIn(b, i) : i \in U}
           c  == ClearThinking(a, keep)
           d  == ClearThinking(b, keep)
<1>4. \A p \in ps : At(a, p).type # "tool_result"
  BY DEF ThinkingIn
<1>5. Clearing(a, ps, c) /\ Clearing(b, qs, d)
  BY <1>1, <1>2, <1>3, ClearedIsClearing
<1> HIDE DEF ps, qs, c, d
<1>6. Stays(c, d, t)
  BY <1>4, <1>5, ClearingStays
<1> QED BY <1>6 DEF c, d

(* One edit on both sides keeps the relation, if it counts no tokens or       *)
(* nothing was cleared before.                                                *)
LEMMA EditStays ==
  ASSUME NEW a, NEW b, NEW t, Stays(a, b, t), NEW edit,
         edit.above \in Nat, edit.keep \in Nat, edit.atLeast \in Nat,
         Counts(edit) => SameSizes(a, b)
  PROVE  Stays(ApplyEdit(a, edit), ApplyEdit(b, edit), t)
<1>1. CASE edit.type = "clear_tool_uses"
  <2>1. Stays(EditToolUses(a, edit), EditToolUses(b, edit), t)
    BY <1>1, ToolEditStays DEF Counts
  <2> QED BY <1>1, <2>1 DEF ApplyEdit
<1>2. CASE edit.type = "clear_thinking"
  <2>1. Stays(ClearThinking(a, edit.keep), ClearThinking(b, edit.keep), t)
    BY ThinkingEditStays
  <2> QED BY <1>2, <2>1 DEF ApplyEdit
<1>3. CASE edit.type # "clear_tool_uses" /\ edit.type # "clear_thinking"
  BY <1>3 DEF ApplyEdit
<1> QED BY <1>1, <1>2, <1>3

(* The messages pre are the first of t.                                       *)
Begins(pre, t) ==
  /\ pre \in Seq(Messages) /\ t \in Seq(Messages) /\ Len(pre) <= Len(t)
  /\ \A i \in 1 .. Len(pre) : pre[i] = t[i]

(* Nothing is cleared of what the client holds.                               *)
LEMMA BeginsStays ==
  ASSUME NEW pre, NEW t, Begins(pre, t),
         \A i \in 1 .. Len(t) : \A j \in 1 .. Len(t[i].blocks) : t[i].blocks[j].cleared = FALSE
  PROVE  Stays(pre, t, t) /\ SameSizes(pre, t)
<1>1. /\ pre \in Seq(Messages) /\ t \in Seq(Messages) /\ Len(pre) <= Len(t)
      /\ \A i \in 1 .. Len(pre) : pre[i] = t[i]
  BY DEF Begins
<1>2. Len(pre) \in Nat /\ Len(t) \in Nat
  BY <1>1, LenProperties
<1>3. Grown(pre, t)
  BY <1>1 DEF Grown, SameBlock
<1>4. ASSUME NEW p \in Positions(pre)
      PROVE  At(pre, p) = At(t, p) /\ At(pre, p).cleared = FALSE
  <2>1. PICK i \in 1 .. Len(pre) : \E j \in 1 .. Len(pre[i].blocks) : p = <<i, j>>
    BY <1>1, PositionsAre
  <2>2. PICK j \in 1 .. Len(pre[i].blocks) : p = <<i, j>>
    BY <2>1
  <2>3. i \in 1 .. Len(t) /\ pre[i] = t[i]
    BY <1>1, <1>2
  <2>4. j \in 1 .. Len(t[i].blocks)
    BY <2>3
  <2>5. t[i].blocks[j].cleared = FALSE
    BY <2>3, <2>4
  <2> QED BY <2>2, <2>3, <2>5 DEF At
<1> QED BY <1>3, <1>4 DEF Stays, SameSizes

(* All the edits on both sides keep the relation, if only the first counts    *)
(* tokens.                                                                    *)
LEMMA AllAppliedStays ==
  ASSUME NEW pre \in Seq(Messages), NEW t \in Seq(Messages), Stays(pre, t, t), SameSizes(pre, t),
         NEW edits \in Seq(ContextEdits), \A i \in 1 .. Len(edits) : Counts(edits[i]) => i = 1
  PROVE  Stays(AllApplied(pre, edits), AllApplied(t, edits), t)
<1> DEFINE N == Len(edits)
<1>1. /\ N \in Nat
      /\ \A i \in 1 .. N : edits[i].keep \in Nat /\ edits[i].above \in Nat /\ edits[i].atLeast \in Nat
  <2>1. N \in Nat /\ \A i \in 1 .. N : edits[i] \in ContextEdits
    BY LenProperties
  <2> QED BY <2>1 DEF ContextEdits
<1>2. PICK g : Editing(pre, edits, N, g) /\ AllApplied(pre, edits) = g[N]
  BY <1>1, AppliedSteps
<1>3. PICK h : Editing(t, edits, N, h) /\ AllApplied(t, edits) = h[N]
  BY <1>1, AppliedSteps
<1> DEFINE T == {n \in 0 .. N : Stays(g[n], h[n], t)}
<1>4. g[0] = pre /\ h[0] = t
  BY <1>2, <1>3 DEF Editing
<1>5. 0 \in T
  BY <1>1, <1>4
<1>6. ASSUME NEW n \in 1 .. N, n - 1 \in T PROVE n \in T
  <2> DEFINE a == g[n - 1]
             b == h[n - 1]
             e == edits[n]
  <2>1. Stays(a, b, t)
    BY <1>6
  <2>2. g[n] = ApplyEdit(a, e) /\ h[n] = ApplyEdit(b, e)
    BY <1>2, <1>3 DEF Editing
  <2>3. Counts(e) => SameSizes(a, b)
    <3>1. ASSUME Counts(e) PROVE SameSizes(a, b)
      <4>1. n = 1
        BY <3>1
      <4> QED BY <4>1, <1>4
    <3> QED BY <3>1
  <2>4. e.keep \in Nat /\ e.above \in Nat /\ e.atLeast \in Nat
    BY <1>1
  <2> HIDE DEF a, b, e
  <2>5. Stays(g[n], h[n], t)
    BY <2>1, <2>2, <2>3, <2>4, EditStays
  <2> QED BY <2>5, <1>1
<1>7. \A n \in 0 .. N : n \in T
  <2> HIDE DEF T, N
  <2> QED BY <1>1, <1>5, <1>6, UpTo
<1>8. N \in T
  BY <1>1, <1>7
<1> QED BY <1>2, <1>3, <1>8

(* A hard limit on both sides keeps the relation: it counts no tokens.        *)
LEMMA LimitedStays ==
  ASSUME NEW a, NEW b, NEW t, Stays(a, b, t), NEW type, NEW limit,
         type = "clear_thinking" \/ limit \subseteq Nat
  PROVE  Stays(Limited(a, type, limit), Limited(b, type, limit), t)
<1> DEFINE keep == CHOOSE keep \in limit : TRUE
           e == Edit(type, keep)
<1>1. CASE limit = {}
  BY <1>1 DEF Limited
<1>2. CASE limit # {}
  <2>1. keep \in limit
    BY <1>2
  <2>2. Limited(a, type, limit) = ApplyEdit(a, e) /\ Limited(b, type, limit) = ApplyEdit(b, e)
    BY <1>2 DEF Limited
  <2> HIDE DEF keep
  <2>3. /\ e.type = type /\ e.above = 0 /\ e.keep = keep /\ e.atLeast = 0 /\ e.all = FALSE
        /\ e.trigger = "none"
    BY DEF Edit
  <2> HIDE DEF e
  <2>4. CASE type = "clear_thinking"
    <3>1. Stays(ClearThinking(a, keep), ClearThinking(b, keep), t)
      BY ThinkingEditStays
    <3>2. ApplyEdit(a, e) = ClearThinking(a, keep) /\ ApplyEdit(b, e) = ClearThinking(b, keep)
      BY <2>3, <2>4 DEF ApplyEdit
    <3> QED BY <3>1, <3>2, <2>2
  <2>5. CASE limit \subseteq Nat
    <3>1. e.keep \in Nat /\ e.above \in Nat /\ e.atLeast \in Nat /\ ~Counts(e)
      BY <2>1, <2>3, <2>5 DEF Counts
    <3> QED BY <3>1, <2>2, EditStays
  <2> QED BY <2>4, <2>5
<1> QED BY <1>1, <1>2

(* So does the limit on the size of a result: what is not cleared has the     *)
(* size it has in the client's transcript.                                    *)
LEMMA OversizedStays ==
  ASSUME NEW a, NEW b, NEW t, Stays(a, b, t), NEW limit
  PROVE  Stays(ClearedAt(a, Oversized(a, limit)), ClearedAt(b, Oversized(b, limit)), t)
<1> DEFINE ps == Oversized(a, limit)
           qs == Oversized(b, limit)
           c  == ClearedAt(a, ps)
           d  == ClearedAt(b, qs)
<1>1. Grown(a, b) /\ a \in Seq(Messages) /\ b \in Seq(Messages)
  BY DEF Stays, Grown
<1>2. ASSUME NEW p \in Positions(a), p \in ps, At(a, p).type = "tool_result"
      PROVE  p \in qs \/ At(b, p).cleared
  <2>1. SUFFICES ASSUME ~At(b, p).cleared PROVE p \in qs
    OBVIOUS
  <2>2. ~At(a, p).cleared
    BY <1>2, <2>1 DEF Stays
  <2>3. At(a, p).size = At(b, p).size
    BY <2>1, <2>2 DEF Stays
  <2>4. p \in Positions(b) /\ At(b, p).type = "tool_result"
    BY <1>1, <1>2, PositionsGrow DEF SameBlock
  <2>5. \E most \in limit : At(a, p).size > most
    BY <1>2 DEF Oversized
  <2> QED BY <2>3, <2>4, <2>5 DEF Oversized
<1>3. Clearing(a, ps, c) /\ Clearing(b, qs, d)
  BY <1>1, ClearedIsClearing
<1> HIDE DEF ps, qs, c, d
<1>4. Stays(c, d, t)
  BY <1>2, <1>3, ClearingStays
<1> QED BY <1>4 DEF c, d, ps, qs

(* Editing a longer transcript keeps cleared what was cleared of a shorter    *)
(* one.                                                                       *)
LEMMA EditedStays ==
  ASSUME NEW pre, NEW t, Begins(pre, t),
         \A i \in 1 .. Len(t) : \A j \in 1 .. Len(t[i].blocks) : t[i].blocks[j].cleared = FALSE,
         NEW conf, NEW asked, conf.limits.tools \subseteq Nat,
         EffectiveEdits(conf, asked) \in Seq(ContextEdits),
         \A i \in 1 .. Len(EffectiveEdits(conf, asked)) : Counts(EffectiveEdits(conf, asked)[i]) => i = 1
  PROVE  Stays(Edited(conf, asked, pre), Edited(conf, asked, t), t)
<1> DEFINE edits == EffectiveEdits(conf, asked)
           tools(ms) == Limited(AllApplied(ms, edits), "clear_tool_uses", conf.limits.tools)
           thinking(ms) == Limited(tools(ms), "clear_thinking", conf.limits.thinking)
           sized(ms) == ClearedAt(thinking(ms), Oversized(thinking(ms), conf.limits.size))
<1>1. Stays(pre, t, t) /\ SameSizes(pre, t) /\ pre \in Seq(Messages) /\ t \in Seq(Messages)
  BY BeginsStays DEF Begins
<1>2. edits \in Seq(ContextEdits) /\ \A i \in 1 .. Len(edits) : Counts(edits[i]) => i = 1
  OBVIOUS
<1>3. \A ms : Edited(conf, asked, ms) = IF ~conf.enabled THEN ms ELSE sized(ms)
  BY DEF Edited, HardLimits
<1> HIDE DEF edits
<1>4. Stays(AllApplied(pre, edits), AllApplied(t, edits), t)
  BY <1>1, <1>2, AllAppliedStays
<1>5. Stays(tools(pre), tools(t), t)
  BY <1>4, LimitedStays
<1> HIDE DEF tools
<1>6. Stays(thinking(pre), thinking(t), t)
  BY <1>5, LimitedStays
<1> HIDE DEF thinking
<1>7. Stays(sized(pre), sized(t), t)
  BY <1>6, OversizedStays
<1> HIDE DEF sized
<1> QED BY <1>1, <1>3, <1>7

(* The results that are cleared when the messages ms are sent.                *)
EditedOf(ms)  == Edited(config.context, requested, ms)
ClearedIn(ms) == {p \in Positions(EditedOf(ms)) : At(EditedOf(ms), p).cleared
                                                  /\ At(EditedOf(ms), p).type = "tool_result"}

(* What was cleared in the last request is what the edits clear of the        *)
(* transcript as it was then, with which it still begins.                     *)
Shown == \E pre \in Seq(Messages) : Begins(pre, transcript) /\ cleared = ClearedIn(pre)

(* What the client says is added to its transcript.                           *)
LEMMA SayingGrows ==
  ASSUME Inv, UserSpeaks \/ ClientRunsTool
  PROVE  /\ \E new \in Seq(Messages) : transcript' = transcript \o new
         /\ config' = config /\ requested' = requested /\ cleared' = cleared
<1>1. CASE UserSpeaks
  <2>1. PICK said \in Openings :
          Says((IF transcript = <<>> THEN <<>> ELSE <<Message("assistant", <<Text(<<Words>>)>>)>>) \o said)
    BY <1>1 DEF UserSpeaks
  <2> DEFINE x == IF transcript = <<>> THEN <<>> ELSE <<Message("assistant", <<Text(<<Words>>)>>)>>
             new == x \o said
  <2>2. x = <<>> \/ x = <<Message("assistant", <<Text(<<Words>>)>>)>>
    OBVIOUS
  <2>3. /\ transcript' = transcript \o new
        /\ config' = config /\ requested' = requested /\ cleared' = cleared
    BY <2>1 DEF Says
  <2> HIDE DEF x
  <2>4. new \in Seq(Messages)
    BY <2>2, SayingIsFresh
  <2> QED BY <2>3, <2>4
<1>2. CASE ClientRunsTool
  <2>1. PICK round \in Rounds :
          LET call   == NextCall
              thinks == IF round.thought = 0 THEN <<>> ELSE <<Thinking(round.thought)>>
              blocks == thinks \o <<Text(<<Words>>), ToolUse(call, round.tool)>>
          IN Says(<<Message("assistant", blocks),
                    Message("user", <<ToolResult(call, round.size)>> \o round.remark)>>)
    BY <1>2 DEF ClientRunsTool
  <2> DEFINE call   == NextCall
             thinks == IF round.thought = 0 THEN <<>> ELSE <<Thinking(round.thought)>>
             blocks == thinks \o <<Text(<<Words>>), ToolUse(call, round.tool)>>
             a == Message("assistant", blocks)
             u == Message("user", <<ToolResult(call, round.size)>> \o round.remark)
  <2>2. /\ transcript' = transcript \o <<a, u>>
        /\ config' = config /\ requested' = requested /\ cleared' = cleared
    BY <2>1 DEF Says
  <2>3. call \in Nat
    <3>1. PICK n \in Nat : CallsOf(transcript) = 1 .. n
      BY DEF Inv, IsTranscript
    <3>2. Calls = 1 .. n /\ Cardinality(1 .. n) = n
      BY <3>1, FS_Interval DEF Calls, CallsOf
    <3> QED BY <3>2 DEF NextCall
  <2>4. a \in Messages
    BY <2>3, CallMessage DEF HasOneTool
  <2>5. u \in Messages
    BY <2>3, ResultMessage DEF HasOneTool
  <2> HIDE DEF a, u
  <2>6. <<a, u>> \in Seq(Messages)
    BY <2>4, <2>5
  <2> QED BY <2>2, <2>6
<1> QED BY <1>1, <1>2

(* The beginning of a transcript stays its beginning.                         *)
LEMMA BeginsLonger ==
  ASSUME NEW pre, NEW t, Begins(pre, t), NEW new \in Seq(Messages)
  PROVE  Begins(pre, t \o new)
<1>1. pre \in Seq(Messages) /\ t \in Seq(Messages) /\ Len(pre) <= Len(t) /\ Len(pre) \in Nat
  BY LenProperties DEF Begins
<1> DEFINE all == t \o new
<1>2. /\ all \in Seq(Messages) /\ Len(t) \in Nat /\ Len(new) \in Nat /\ Len(all) = Len(t) + Len(new)
      /\ \A i \in 1 .. Len(t) : all[i] = t[i]
  BY <1>1, ConcatAt
<1> HIDE DEF all
<1>3. \A i \in 1 .. Len(pre) : i \in 1 .. Len(t) /\ pre[i] = t[i]
  BY <1>1, <1>2 DEF Begins
<1>4. Begins(pre, all)
  BY <1>1, <1>2, <1>3 DEF Begins
<1> QED BY <1>4 DEF all

(* Nothing was cleared at first.                                              *)
LEMMA ShownInit == Init => Shown
<1> SUFFICES ASSUME Init PROVE Shown
  OBVIOUS
<1>1. transcript = <<>> /\ cleared = {} /\ config \in Configs /\ requested \in Edits
  BY DEF Init
<1>2. <<>> \in Seq(Messages) /\ Len(<<>>) = 0
  OBVIOUS
<1>3. Begins(<<>>, transcript)
  BY <1>1, <1>2 DEF Begins
<1>4. SameShape(<<>>, EditedOf(<<>>))
  <2>1. Len(EffectiveEdits(config.context, requested)) \in Nat
    BY <1>1, PolicyIs, LenProperties
  <2> QED BY <1>2, <2>1, EditedShape DEF EditedOf
<1>5. Positions(EditedOf(<<>>)) = Positions(<<>>)
  BY <1>4, ShapePositions
<1>6. Positions(<<>>) = {}
  BY DEF Positions
<1>7. ClearedIn(<<>>) = {}
  BY <1>5, <1>6 DEF ClearedIn
<1> QED BY <1>1, <1>2, <1>3, <1>7 DEF Shown

(* Each step keeps it.                                                        *)
LEMMA ShownStep == Inv /\ Inv' /\ Shown /\ [Next]_vars => Shown'
<1> SUFFICES ASSUME Inv, Inv', Shown, [Next]_vars PROVE Shown'
  OBVIOUS
<1>1. PICK pre \in Seq(Messages) : Begins(pre, transcript) /\ cleared = ClearedIn(pre)
  BY DEF Shown
<1>2. transcript \in Seq(Messages) /\ transcript' \in Seq(Messages)
  BY DEF Inv, IsTranscript
<1>3. ASSUME config' = config, requested' = requested, cleared' = cleared, Begins(pre, transcript')
      PROVE  Shown'
  <2>1. ClearedIn(pre)' = ClearedIn(pre)
    BY <1>3 DEF ClearedIn, EditedOf
  <2> QED BY <1>1, <1>3, <2>1 DEF Shown
<1>4. CASE UserSpeaks \/ ClientRunsTool
  <2>1. PICK new \in Seq(Messages) : transcript' = transcript \o new
    BY <1>4, SayingGrows
  <2>2. Begins(pre, transcript')
    BY <1>1, <2>1, BeginsLonger
  <2> QED BY <2>2, <1>3, <1>4, SayingGrows
<1>5. CASE AskStructured
  <2>1. transcript = <<>> /\ config' = config /\ requested' = requested /\ cleared' = cleared
    BY <1>5 DEF AskStructured
  <2>2. Len(pre) \in Nat /\ Len(pre) <= 0
    BY <1>1, <2>1, LenProperties DEF Begins
  <2>3. Len(transcript') \in Nat
    BY <1>2, LenProperties
  <2>4. Begins(pre, transcript')
    BY <1>2, <2>2, <2>3 DEF Begins
  <2> QED BY <2>1, <2>4, <1>3
<1>6. CASE EditContext
  <2>1. /\ config' = config /\ requested' = requested /\ transcript' = transcript
        /\ messages = transcript /\ messages' = EditedOf(transcript)
        /\ cleared' = {p \in Positions(messages') : At(messages', p).cleared
                                                    /\ At(messages', p).type = "tool_result"}
    BY <1>6 DEF EditContext, Inv, EditedOf
  <2>2. cleared' = ClearedIn(transcript)
    BY <2>1 DEF ClearedIn
  <2>3. ClearedIn(transcript)' = ClearedIn(transcript)
    BY <2>1 DEF ClearedIn, EditedOf
  <2>4. Len(transcript) \in Nat
    BY <1>2, LenProperties
  <2>5. Begins(transcript, transcript)'
    BY <1>2, <2>1, <2>4 DEF Begins
  <2> QED BY <1>2, <2>2, <2>3, <2>5 DEF Shown
<1>7. CASE IncludeConversation \/ PromoteCommand \/ TranslateMessages \/ AnswerArrives \/ UNCHANGED vars
  <2>1. config' = config /\ requested' = requested /\ cleared' = cleared /\ transcript' = transcript
    BY <1>7 DEF IncludeConversation, PromoteCommand, TranslateMessages, AnswerArrives, vars
  <2> QED BY <2>1, <1>1, <1>3
<1> QED BY <1>4, <1>5, <1>6, <1>7 DEF Next

(* A step shows no result again that was cleared.                             *)
LEMMA StepKeepsCleared ==
  ASSUME Inv, Shown, [Next]_vars, Steady
  PROVE  cleared \subseteq cleared'
<1>1. PICK pre \in Seq(Messages) : Begins(pre, transcript) /\ cleared = ClearedIn(pre)
  BY DEF Shown
<1>2. CASE EditContext
  <2>1. /\ messages = transcript /\ messages' = EditedOf(transcript)
        /\ cleared' = {p \in Positions(messages') : At(messages', p).cleared
                                                    /\ At(messages', p).type = "tool_result"}
    BY <1>2 DEF EditContext, Inv, EditedOf
  <2>2. cleared' = ClearedIn(transcript)
    BY <2>1 DEF ClearedIn
  <2>3. /\ Policy \in Seq(ContextEdits) /\ config.context.limits.tools \subseteq Nat
    BY PolicyIs, PolicyAssumption DEF Policy, Inv
  <2>4. \A i \in 1 .. Len(Policy) : Counts(Policy[i]) => i = 1
    <3>1. DOMAIN Policy = 1 .. Len(Policy)
      BY <2>3, LenProperties
    <3> QED BY <3>1 DEF Steady
  <2>5. \A i \in 1 .. Len(transcript) : \A j \in 1 .. Len(transcript[i].blocks) :
          transcript[i].blocks[j].cleared = FALSE
    BY DEF Inv, IsTranscript, IsFresh
  <2> DEFINE a == EditedOf(pre)
             b == EditedOf(transcript)
  <2>6. Stays(a, b, transcript)
    BY <1>1, <2>3, <2>4, <2>5, EditedStays DEF EditedOf, Policy
  <2>7. cleared = {p \in Positions(a) : At(a, p).cleared /\ At(a, p).type = "tool_result"}
        /\ cleared' = {p \in Positions(b) : At(b, p).cleared /\ At(b, p).type = "tool_result"}
    BY <1>1, <2>2 DEF ClearedIn
  <2> HIDE DEF a, b
  <2>8. ASSUME NEW p \in cleared PROVE p \in cleared'
    <3>1. p \in Positions(a) /\ At(a, p).cleared /\ At(a, p).type = "tool_result"
      BY <2>7
    <3>2. At(b, p).cleared
      BY <3>1, <2>6 DEF Stays
    <3>3. p \in Positions(b) /\ At(b, p).type = "tool_result"
      BY <3>1, <2>6, PositionsGrow DEF Stays, SameBlock
    <3> QED BY <3>2, <3>3, <2>7
  <2> QED BY <2>8
<1>3. CASE UserSpeaks \/ ClientRunsTool
  BY <1>3, SayingGrows
<1>4. CASE AskStructured \/ IncludeConversation \/ PromoteCommand \/ TranslateMessages
             \/ AnswerArrives \/ UNCHANGED vars
  BY <1>4 DEF AskStructured, IncludeConversation, PromoteCommand, TranslateMessages, AnswerArrives, vars
<1> QED BY <1>2, <1>3, <1>4 DEF Next

(* Whatever the conversation, the edits and the hard limits, if only the      *)
(* first edit counts tokens, a result that was once cleared stays cleared.    *)
THEOREM ClearedIsNotShown == Spec => ClearedStaysCleared
<1>1. Init => Inv /\ Shown
  BY InvInit, ShownInit
<1>2. Inv /\ Shown /\ [Next]_vars => (Inv /\ Shown)'
  BY InvStep, ShownStep
<1>3. Inv /\ Shown /\ [Next]_vars => [Steady => cleared \subseteq cleared']_vars
  BY StepKeepsCleared
<1> QED BY <1>1, <1>2, <1>3, PTL DEF Spec, ClearedStaysCleared
================================================================================
