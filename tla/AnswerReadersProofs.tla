-------------------------- MODULE AnswerReadersProofs --------------------------
(***************************************************************************)
(* The invariants of AnswerReaders, but for the texts.  While the response *)
(* goes on, Underway relates three things: Coherent, the events shown to    *)
(* the state of the stream; RecordsRight, the rows of the tool call store   *)
(* to the calls shown; and ToolsRight and UnaryRight, what either reader    *)
(* knows of the calls to the items of the response.  From these Closed      *)
(* follows, which says of a response that is over, however it ended, what   *)
(* the properties ask.                                                      *)
(*                                                                         *)
(* IsSeq(s) says that s is a sequence, whatever its elements are.           *)
(***************************************************************************)
EXTENDS AnswerReaders, FiniteSetTheorems, SequenceTheorems, WellFoundedInduction, TLAPS

--------------------------------------------------------------------------------
(* Sequences. *)

(* A sequence, whatever its elements are. *)
IsSeq(s) == s \in Seq({s[k] : k \in DOMAIN s})

(* A sequence over some set is one over its own elements. *)
LEMMA SeqIsSeq ==
  ASSUME NEW S, NEW s \in Seq(S)
  PROVE  IsSeq(s) /\ Len(s) \in Nat /\ DOMAIN s = 1 .. Len(s)
<1> DEFINE T == {s[k] : k \in DOMAIN s}
<1>1. Len(s) \in Nat /\ DOMAIN s = 1 .. Len(s) /\ s = [k \in 1 .. Len(s) |-> s[k]]
  BY LenProperties
<1>2. s \in [1 .. Len(s) -> T]
  BY <1>1
<1>3. s \in Seq(T)
  BY <1>1, <1>2, SeqDef
<1> QED BY <1>1, <1>3 DEF IsSeq

(* The length and the domain of a sequence. *)
LEMMA SeqDomain ==
  ASSUME NEW s, IsSeq(s)
  PROVE  Len(s) \in Nat /\ DOMAIN s = 1 .. Len(s)
BY SeqIsSeq DEF IsSeq

(* Two sequences one after the other. *)
LEMMA SeqConcat ==
  ASSUME NEW s, NEW t, IsSeq(s), IsSeq(t)
  PROVE  /\ IsSeq(s \o t)
         /\ Len(s \o t) = Len(s) + Len(t)
         /\ \A k \in 1 .. Len(s) : (s \o t)[k] = s[k]
         /\ \A k \in 1 .. Len(t) : (s \o t)[Len(s) + k] = t[k]
<1> DEFINE S == {s[k] : k \in DOMAIN s} \cup {t[k] : k \in DOMAIN t}
<1>1. \A U, V : \A x \in Seq(U) : U \subseteq V => x \in Seq(V)
  OBVIOUS
<1>2. s \in Seq(S) /\ t \in Seq(S)
  BY <1>1 DEF IsSeq
<1>3. s \o t \in Seq(S)
  BY <1>2
<1>4. IsSeq(s \o t)
  BY <1>3, SeqIsSeq
<1>5. Len(s) \in Nat /\ Len(t) \in Nat
  BY SeqDomain
<1>6. Len(s \o t) = Len(s) + Len(t)
  BY <1>2, ConcatProperties
<1>7. \A k \in 1 .. Len(s) : (s \o t)[k] = s[k]
  BY <1>2, <1>5, ConcatProperties
<1>8. \A k \in 1 .. Len(t) : (s \o t)[Len(s) + k] = t[k]
  <2> TAKE k \in 1 .. Len(t)
  <2>1. Len(s) + k \in 1 .. Len(s) + Len(t) /\ ~(Len(s) + k <= Len(s)) /\ Len(s) + k - Len(s) = k
    BY <1>5
  <2> QED BY <1>2, <1>5, <2>1, ConcatProperties
<1> QED BY <1>4, <1>6, <1>7, <1>8

(* A sequence and one more element. *)
LEMMA SeqAppend ==
  ASSUME NEW s, NEW e, IsSeq(s)
  PROVE  /\ IsSeq(Append(s, e))
         /\ Len(Append(s, e)) = Len(s) + 1
         /\ \A k \in 1 .. Len(s) : Append(s, e)[k] = s[k]
         /\ Append(s, e)[Len(s) + 1] = e
<1> DEFINE S == {s[k] : k \in DOMAIN s} \cup {e}
<1>1. \A U, V : \A x \in Seq(U) : U \subseteq V => x \in Seq(V)
  OBVIOUS
<1>2. s \in Seq(S) /\ e \in S
  BY <1>1 DEF IsSeq
<1>3. Append(s, e) \in Seq(S)
  BY <1>2
<1>4. IsSeq(Append(s, e))
  BY <1>3, SeqIsSeq
<1>5. Len(s) \in Nat
  BY SeqDomain
<1> QED BY <1>2, <1>4, <1>5, AppendProperties

(* Two sequences with the same elements are the same. *)
LEMMA SeqSame ==
  ASSUME NEW s, NEW t, IsSeq(s), IsSeq(t), Len(s) = Len(t),
         \A k \in 1 .. Len(s) : s[k] = t[k]
  PROVE  s = t
<1>1. s = [k \in 1 .. Len(s) |-> s[k]]
  BY SeqDef DEF IsSeq
<1>2. t = [k \in 1 .. Len(t) |-> t[k]]
  BY SeqDef DEF IsSeq
<1> QED BY <1>1, <1>2

(* One event after the others. *)
LEMMA ConcatOne ==
  ASSUME NEW s, NEW a, IsSeq(s)
  PROVE  s \o <<a>> = Append(s, a)
<1>1. <<a>> \in Seq({a})
  OBVIOUS
<1>2. IsSeq(<<a>>) /\ Len(<<a>>) = 1 /\ <<a>>[1] = a
  BY <1>1, SeqIsSeq
<1> HIDE DEF IsSeq
<1> DEFINE u == s \o <<a>>  v == Append(s, a)  m == Len(s)
<1>3. m \in Nat
  BY SeqDomain
<1>4. IsSeq(u) /\ Len(u) = m + 1 /\ (\A k \in 1 .. m : u[k] = s[k])
  BY <1>2, SeqConcat
<1>5. u[m + 1] = a
  BY <1>2, SeqConcat
<1>6. IsSeq(v) /\ Len(v) = m + 1 /\ (\A k \in 1 .. m : v[k] = s[k]) /\ v[m + 1] = a
  BY SeqAppend
<1> HIDE DEF u, v, m
<1>7. \A k \in 1 .. m + 1 : k \in 1 .. m \/ k = m + 1
  BY <1>3
<1>8. \A k \in 1 .. Len(u) : u[k] = v[k]
  BY <1>4, <1>5, <1>6, <1>7
<1>9. u = v
  BY <1>4, <1>6, <1>8, SeqSame
<1> QED BY <1>9 DEF u, v

(* More events, and one after them. *)
LEMMA ConcatMore ==
  ASSUME NEW s, NEW t, NEW a, IsSeq(s), IsSeq(t)
  PROVE  s \o Append(t, a) = Append(s \o t, a)
<1> DEFINE ta == Append(t, a)  st == s \o t  u == s \o ta  v == Append(st, a)
           m == Len(s)  n == Len(t)
<1>1. m \in Nat /\ n \in Nat
  BY SeqDomain
<1>2. IsSeq(ta) /\ Len(ta) = n + 1 /\ (\A k \in 1 .. n : ta[k] = t[k]) /\ ta[n + 1] = a
  BY SeqAppend
<1>3. IsSeq(st) /\ Len(st) = m + n /\ (\A k \in 1 .. m : st[k] = s[k])
      /\ (\A k \in 1 .. n : st[m + k] = t[k])
  BY SeqConcat
<1>4. IsSeq(u) /\ Len(u) = m + Len(ta) /\ (\A k \in 1 .. m : u[k] = s[k])
      /\ (\A k \in 1 .. Len(ta) : u[m + k] = ta[k])
  <2> HIDE DEF ta
  <2> QED BY <1>2, SeqConcat
<1>5. IsSeq(v) /\ Len(v) = Len(st) + 1 /\ (\A k \in 1 .. Len(st) : v[k] = st[k]) /\ v[Len(st) + 1] = a
  <2> HIDE DEF st
  <2> QED BY <1>3, SeqAppend
<1> HIDE DEF ta, st, u, v, m, n
<1>6. ASSUME NEW k \in 1 .. Len(u) PROVE u[k] = v[k]
  <2>1. CASE k \in 1 .. m
    <3>1. k \in 1 .. m + n
      BY <1>1, <2>1
    <3> QED BY <1>3, <1>4, <1>5, <2>1, <3>1
  <2>2. CASE k \notin 1 .. m /\ k # m + n + 1
    <3>1. k - m \in 1 .. n /\ k = m + (k - m) /\ k \in 1 .. m + n /\ k - m \in 1 .. n + 1
      BY <1>1, <1>2, <1>4, <2>2
    <3> DEFINE j == k - m
    <3>2. j \in 1 .. n /\ k = m + j /\ k \in 1 .. m + n /\ j \in 1 .. n + 1
      BY <3>1
    <3> HIDE DEF j
    <3>3. u[k] = t[j]
      BY <1>2, <1>4, <3>2
    <3>4. v[k] = t[j]
      BY <1>3, <1>5, <3>2
    <3> QED BY <3>3, <3>4
  <2>3. CASE k = m + n + 1
    <3>1. k = m + (n + 1) /\ n + 1 \in 1 .. n + 1 /\ k = Len(st) + 1
      BY <1>1, <1>3, <2>3
    <3> QED BY <1>2, <1>4, <1>5, <3>1
  <2> QED BY <2>1, <2>2, <2>3
<1>7. Len(u) = Len(v)
  BY <1>1, <1>2, <1>3, <1>4, <1>5
<1>8. u = v
  BY <1>4, <1>5, <1>6, <1>7, SeqSame
<1> QED BY <1>8 DEF u, v, ta, st

(* Four events, one after the other. *)
LEMMA ConcatFour ==
  ASSUME NEW s, NEW a, NEW b, NEW c, NEW d, IsSeq(s)
  PROVE  s \o <<a, b, c, d>> = Append(Append(Append(Append(s, a), b), c), d)
<1>1. <<a>> \in Seq({a}) /\ <<a, b>> \in Seq({a, b}) /\ <<a, b, c>> \in Seq({a, b, c})
  OBVIOUS
<1>2. IsSeq(<<a>>) /\ IsSeq(<<a, b>>) /\ IsSeq(<<a, b, c>>)
  BY <1>1, SeqIsSeq
<1>3. <<a, b>> = Append(<<a>>, b)
  OBVIOUS
<1>4. <<a, b, c>> = Append(<<a, b>>, c)
  OBVIOUS
<1>5. <<a, b, c, d>> = Append(<<a, b, c>>, d)
  OBVIOUS
<1>6. s \o <<a, b>> = Append(s \o <<a>>, b)
  BY <1>2, <1>3, ConcatMore
<1>7. s \o <<a, b, c>> = Append(s \o <<a, b>>, c)
  BY <1>2, <1>4, ConcatMore
<1>8. s \o <<a, b, c, d>> = Append(s \o <<a, b, c>>, d)
  BY <1>2, <1>5, ConcatMore
<1> QED BY <1>6, <1>7, <1>8, ConcatOne

--------------------------------------------------------------------------------
(* Events that make up a message. *)

(* The blocks a stream of events starts; calls and searches among them. *)
Starts(sh)        == {k \in 1 .. Len(sh) : sh[k].type = "start"}
StartsUpTo(sh, k) == {j \in Starts(sh) : j <= k}
Tools(sh)         == {k \in Starts(sh) : sh[k].block.type = "tool_use"}
Searches(sh)      == {k \in Starts(sh) : sh[k].block.type = "server_tool_use"}

IsContent(e, n) == e.type \in {"start", "delta", "stop"} /\ e.index \in 1 .. n

(* The events of a message with n blocks, before its end. *)
Legal(sh, n) ==
  /\ IsSeq(sh) /\ n \in Nat
  /\ \A k \in 1 .. Len(sh) : IsContent(sh[k], n)
  /\ Cardinality(Starts(sh)) = n
  /\ \A k \in Starts(sh) : sh[k].index = Cardinality(StartsUpTo(sh, k))
  /\ \A i \in 1 .. n : \E k \in Starts(sh) : sh[k].index = i
  /\ \A k \in 1 .. Len(sh) : sh[k].type = "delta" =>
       /\ \E j \in Starts(sh) : j < k /\ sh[j].index = sh[k].index
       /\ \A j \in 1 .. Len(sh) : j < k /\ sh[j].type = "stop" => sh[j].index # sh[k].index

(* A block that was started and not stopped. *)
Live(sh, n, i) == i \in 1 .. n /\ \A k \in 1 .. Len(sh) : sh[k].type = "stop" => sh[k].index # i

(* The blocks started are finitely many. *)
LEMMA StartsFinite ==
  ASSUME NEW sh, Len(sh) \in Nat
  PROVE  /\ IsFiniteSet(Starts(sh)) /\ IsFiniteSet(Tools(sh)) /\ IsFiniteSet(Searches(sh))
         /\ \A k : IsFiniteSet(StartsUpTo(sh, k))
<1>1. IsFiniteSet(1 .. Len(sh))
  BY FS_Interval
<1>2. Starts(sh) \subseteq 1 .. Len(sh) /\ Tools(sh) \subseteq 1 .. Len(sh) /\ Searches(sh) \subseteq 1 .. Len(sh)
  BY DEF Starts, Tools, Searches
<1>3. \A k : StartsUpTo(sh, k) \subseteq 1 .. Len(sh)
  BY DEF Starts, StartsUpTo
<1>4. \A k : IsFiniteSet(StartsUpTo(sh, k))
  BY <1>1, <1>3, FS_Subset
<1> QED BY <1>1, <1>2, <1>4, FS_Subset

(* A new block starts with the next number. *)
LEMMA LegalStart ==
  ASSUME NEW sh, NEW n, NEW e, Legal(sh, n), e.type = "start", e.index = n + 1
  PROVE  Legal(Append(sh, e), n + 1)
<1> DEFINE t == Append(sh, e)  m == Len(sh)  A == Starts(sh)  B == Starts(t)
<1>1. IsSeq(sh) /\ n \in Nat /\ m \in Nat
  BY SeqDomain DEF Legal
<1>2. IsSeq(t) /\ Len(t) = m + 1 /\ (\A k \in 1 .. m : t[k] = sh[k]) /\ t[m + 1] = e
  BY <1>1, SeqAppend
<1> HIDE DEF t, m
<1>3. \A k \in 1 .. m + 1 : k \in 1 .. m \/ k = m + 1
  BY <1>1
<1>4. 1 .. m \subseteq 1 .. m + 1 /\ m + 1 \in 1 .. m + 1 /\ m + 1 \notin 1 .. m
  BY <1>1
<1>5. B = A \cup {m + 1} /\ m + 1 \notin A
  BY <1>2, <1>3, <1>4 DEF Starts, m
<1>6. \A k \in A : k \in 1 .. m /\ t[k] = sh[k]
  BY <1>2 DEF Starts, m
<1>7. \A k \in 1 .. m : StartsUpTo(t, k) = StartsUpTo(sh, k)
  <2> TAKE k \in 1 .. m
  <2>1. ~(m + 1 <= k)
    BY <1>1
  <2> QED BY <1>5, <2>1 DEF StartsUpTo
<1>8. StartsUpTo(t, m + 1) = B
  BY <1>1, <1>4, <1>5, <1>6 DEF StartsUpTo
<1>9. IsFiniteSet(A)
  BY <1>1, StartsFinite DEF m
<1>10. Cardinality(A) = n
  BY DEF Legal
<1> HIDE DEF A, B
<1>11. Cardinality(A \cup {m + 1}) = Cardinality(A) + 1
  BY <1>5, <1>9, FS_AddElement
<1>12. Cardinality(B) = n + 1
  BY <1>5, <1>10, <1>11
<1>13. \A k \in 1 .. Len(t) : IsContent(t[k], n + 1)
  <2> TAKE k \in 1 .. Len(t)
  <2>1. CASE k \in 1 .. m
    <3>1. IsContent(sh[k], n)
      BY <2>1 DEF Legal, m
    <3> QED BY <1>1, <1>2, <2>1, <3>1 DEF IsContent
  <2>2. CASE k = m + 1
    BY <1>1, <1>2, <2>2 DEF IsContent
  <2> QED BY <1>2, <1>3, <2>1, <2>2
<1>14. \A k \in B : t[k].index = Cardinality(StartsUpTo(t, k))
  <2> TAKE k \in B
  <2>1. CASE k \in A
    <3>1. sh[k].index = Cardinality(StartsUpTo(sh, k))
      BY <2>1 DEF Legal, A
    <3> QED BY <1>6, <1>7, <2>1, <3>1
  <2>2. CASE k = m + 1
    BY <1>2, <1>8, <1>12, <2>2
  <2> QED BY <1>5, <2>1, <2>2
<1>15. \A i \in 1 .. n + 1 : \E k \in B : t[k].index = i
  <2> TAKE i \in 1 .. n + 1
  <2>1. CASE i = n + 1
    BY <1>2, <1>5, <2>1
  <2>2. CASE i # n + 1
    <3>1. i \in 1 .. n
      BY <1>1, <2>2
    <3>2. PICK k \in A : sh[k].index = i
      BY <3>1 DEF Legal, A
    <3> QED BY <1>5, <1>6, <3>2
  <2> QED BY <2>1, <2>2
<1>16. \A k \in 1 .. Len(t) : t[k].type = "delta" =>
         /\ \E j \in B : j < k /\ t[j].index = t[k].index
         /\ \A j \in 1 .. Len(t) : j < k /\ t[j].type = "stop" => t[j].index # t[k].index
  <2> SUFFICES ASSUME NEW k \in 1 .. Len(t), t[k].type = "delta"
               PROVE  /\ \E j \in B : j < k /\ t[j].index = t[k].index
                      /\ \A j \in 1 .. Len(t) : j < k /\ t[j].type = "stop" => t[j].index # t[k].index
    OBVIOUS
  <2>1. k \in 1 .. m /\ t[k] = sh[k]
    BY <1>2, <1>3
  <2>2. /\ \E j \in A : j < k /\ sh[j].index = sh[k].index
        /\ \A j \in 1 .. m : j < k /\ sh[j].type = "stop" => sh[j].index # sh[k].index
    BY <2>1 DEF Legal, A, m
  <2>3. \E j \in B : j < k /\ t[j].index = t[k].index
    BY <1>5, <1>6, <2>1, <2>2
  <2>4. ASSUME NEW j \in 1 .. Len(t), j < k, t[j].type = "stop" PROVE t[j].index # t[k].index
    BY <1>2, <1>3, <2>1, <2>2, <2>4
  <2> QED BY <2>3, <2>4
<1>17. n + 1 \in Nat
  BY <1>1
<1> QED BY <1>2, <1>12, <1>13, <1>14, <1>15, <1>16, <1>17 DEF Legal, t, B

(* Deltas of live blocks follow, or stops. *)
LEMMA LegalMore ==
  ASSUME NEW sh, NEW n, NEW es, Legal(sh, n), IsSeq(es),
         \A j \in 1 .. Len(es) : \/ es[j].type = "delta" /\ Live(sh, n, es[j].index)
                                 \/ es[j].type = "stop" /\ es[j].index \in 1 .. n,
         \A j \in 1 .. Len(es) : es[j].type = "stop" => \A k \in 1 .. Len(es) : es[k].type = "stop"
  PROVE  Legal(sh \o es, n)
<1> DEFINE t == sh \o es  m == Len(sh)  p == Len(es)  A == Starts(sh)
<1>1. IsSeq(sh) /\ n \in Nat /\ m \in Nat /\ p \in Nat
  BY SeqDomain DEF Legal
<1>2. IsSeq(t) /\ Len(t) = m + p /\ (\A k \in 1 .. m : t[k] = sh[k]) /\ (\A k \in 1 .. p : t[m + k] = es[k])
  BY <1>1, SeqConcat
<1> HIDE DEF t
<1>3. \A k \in 1 .. m + p : k \in 1 .. m \/ \E j \in 1 .. p : k = m + j
  <2> SUFFICES ASSUME NEW k \in 1 .. m + p, k \notin 1 .. m PROVE \E j \in 1 .. p : k = m + j
    OBVIOUS
  <2>1. k - m \in 1 .. p /\ k = m + (k - m)
    BY <1>1
  <2> QED BY <2>1
<1>4. 1 .. m \subseteq 1 .. m + p /\ \A j \in 1 .. p : m + j \in 1 .. m + p /\ \A k \in 1 .. m : k < m + j
  BY <1>1
<1>5. \A k \in 1 .. m + p : t[k].type = "start" => k \in 1 .. m
  BY <1>2, <1>3
<1>6. Starts(t) = A
  BY <1>2, <1>4, <1>5 DEF Starts
<1>7. \A k : StartsUpTo(t, k) = StartsUpTo(sh, k)
  BY <1>6 DEF StartsUpTo
<1>8. \A k \in A : k \in 1 .. m /\ t[k] = sh[k]
  BY <1>2 DEF Starts
<1>9. \A k \in 1 .. Len(t) : IsContent(t[k], n)
  <2> TAKE k \in 1 .. Len(t)
  <2>1. CASE k \in 1 .. m
    BY <1>2, <2>1 DEF Legal
  <2>2. CASE \E j \in 1 .. p : k = m + j
    BY <1>2, <2>2 DEF IsContent, Live
  <2> QED BY <1>2, <1>3, <2>1, <2>2
<1>10. \A k \in A : t[k].index = Cardinality(StartsUpTo(t, k))
  <2> TAKE k \in A
  <2>1. sh[k].index = Cardinality(StartsUpTo(sh, k))
    BY DEF Legal
  <2> QED BY <1>7, <1>8, <2>1
<1>11. \A i \in 1 .. n : \E k \in A : t[k].index = i
  <2> TAKE i \in 1 .. n
  <2>1. \E k \in A : sh[k].index = i
    BY DEF Legal
  <2> QED BY <1>8, <2>1
<1>12. ASSUME NEW k \in 1 .. m + p, t[k].type = "delta"
       PROVE  /\ \E j \in A : j < k /\ t[j].index = t[k].index
              /\ \A j \in 1 .. Len(t) : j < k /\ t[j].type = "stop" => t[j].index # t[k].index
  <2>1. CASE k \in 1 .. m
    <3>1. t[k] = sh[k] /\ sh[k].type = "delta"
      BY <1>2, <1>12, <2>1
    <3>2. /\ \E j \in A : j < k /\ sh[j].index = sh[k].index
          /\ \A j \in 1 .. m : j < k /\ sh[j].type = "stop" => sh[j].index # sh[k].index
      BY <2>1, <3>1 DEF Legal
    <3>3. \A j \in 1 .. Len(t) : j < k => j \in 1 .. m /\ t[j] = sh[j]
      BY <1>1, <1>2, <2>1
    <3> QED BY <1>8, <3>1, <3>2, <3>3
  <2>2. CASE k \notin 1 .. m
    <3>1. PICK i \in 1 .. p : k = m + i
      BY <1>3, <2>2
    <3>2. t[k] = es[i] /\ es[i].type = "delta"
      BY <1>2, <1>12, <3>1
    <3>3. Live(sh, n, es[i].index)
      BY <3>2
    <3>4. PICK j \in A : sh[j].index = es[i].index
      BY <3>3 DEF Live, Legal
    <3>5. j < k /\ t[j].index = t[k].index
      BY <1>4, <1>8, <3>1, <3>2, <3>4
    <3>6. ASSUME NEW q \in 1 .. Len(t), t[q].type = "stop" PROVE t[q].index # t[k].index
      <4>1. CASE q \in 1 .. m
        BY <1>2, <3>2, <3>3, <3>6, <4>1 DEF Live
      <4>2. CASE \E r \in 1 .. p : q = m + r
        <5>1. PICK r \in 1 .. p : q = m + r
          BY <4>2
        <5>2. es[r].type = "stop"
          BY <1>2, <3>6, <5>1
        <5>3. es[i].type = "stop"
          BY <5>2
        <5> QED BY <3>2, <5>3
      <4> QED BY <1>2, <1>3, <4>1, <4>2
    <3> QED BY <3>4, <3>5, <3>6
  <2> QED BY <2>1, <2>2
<1>13. Cardinality(A) = n
  BY DEF Legal
<1>14. Legal(t, n)
  <2> HIDE DEF A, m, p
  <2> QED BY <1>1, <1>2, <1>6, <1>9, <1>10, <1>11, <1>12, <1>13 DEF Legal
<1> QED BY <1>14 DEF t

(* What keeps a block live. *)
LEMMA LiveMore ==
  ASSUME NEW sh, NEW n, NEW es, NEW i, NEW n2, Legal(sh, n), IsSeq(es), Live(sh, n, i), n2 \in Nat, n <= n2,
         \A j \in 1 .. Len(es) : es[j].type = "stop" => es[j].index # i
  PROVE  Live(sh \o es, n2, i)
<1> DEFINE t == sh \o es  m == Len(sh)  p == Len(es)
<1>1. IsSeq(sh) /\ n \in Nat /\ m \in Nat /\ p \in Nat
  BY SeqDomain DEF Legal
<1>2. IsSeq(t) /\ Len(t) = m + p /\ (\A k \in 1 .. m : t[k] = sh[k]) /\ (\A k \in 1 .. p : t[m + k] = es[k])
  BY <1>1, SeqConcat
<1> HIDE DEF t
<1>3. i \in 1 .. n2
  BY <1>1 DEF Live
<1>4. ASSUME NEW k \in 1 .. Len(t), t[k].type = "stop" PROVE t[k].index # i
  <2>1. CASE k \in 1 .. m
    BY <1>2, <1>4, <2>1 DEF Live
  <2>2. CASE k \notin 1 .. m
    <3>1. k - m \in 1 .. p /\ k = m + (k - m)
      BY <1>1, <1>2, <2>2
    <3>2. PICK j \in 1 .. p : k = m + j
      BY <3>1
    <3> QED BY <1>2, <1>4, <3>2
  <2> QED BY <2>1, <2>2
<1>5. Live(t, n2, i)
  BY <1>3, <1>4 DEF Live
<1> QED BY <1>5 DEF t

(* The same for one block that starts. *)
LEMMA KindsStart ==
  ASSUME NEW sh, NEW e, IsSeq(sh), e.type = "start"
  PROVE  /\ Len(sh) + 1 \notin Tools(sh) /\ Len(sh) + 1 \notin Searches(sh)
         /\ Tools(Append(sh, e)) = IF e.block.type = "tool_use" THEN Tools(sh) \cup {Len(sh) + 1} ELSE Tools(sh)
         /\ Searches(Append(sh, e)) = IF e.block.type = "server_tool_use" THEN Searches(sh) \cup {Len(sh) + 1}
                                      ELSE Searches(sh)
<1> DEFINE t == Append(sh, e)  m == Len(sh)
<1>1. m \in Nat
  BY SeqDomain
<1>2. Len(t) = m + 1 /\ (\A k \in 1 .. m : t[k] = sh[k]) /\ t[m + 1] = e
  BY SeqAppend
<1> HIDE DEF t
<1>3. \A k \in 1 .. m + 1 : k \in 1 .. m \/ k = m + 1
  BY <1>1
<1>4. 1 .. m \subseteq 1 .. m + 1 /\ m + 1 \in 1 .. m + 1 /\ m + 1 \notin 1 .. m
  BY <1>1
<1>5. Tools(t) = IF e.block.type = "tool_use" THEN Tools(sh) \cup {m + 1} ELSE Tools(sh)
  <2> HIDE DEF m
  <2> QED BY <1>2, <1>3, <1>4 DEF Tools, Starts, m
<1>6. Searches(t) = IF e.block.type = "server_tool_use" THEN Searches(sh) \cup {m + 1} ELSE Searches(sh)
  <2> HIDE DEF m
  <2> QED BY <1>2, <1>3, <1>4 DEF Searches, Starts, m
<1>7. m + 1 \notin Tools(sh) /\ m + 1 \notin Searches(sh)
  BY <1>4 DEF Tools, Searches, Starts
<1> QED BY <1>5, <1>6, <1>7 DEF t

(* Other events start no block. *)
LEMMA KindsMore ==
  ASSUME NEW sh, NEW es, IsSeq(sh), IsSeq(es), \A j \in 1 .. Len(es) : es[j].type # "start"
  PROVE  Starts(sh \o es) = Starts(sh) /\ Tools(sh \o es) = Tools(sh) /\ Searches(sh \o es) = Searches(sh)
<1> DEFINE t == sh \o es  m == Len(sh)  p == Len(es)
<1>1. m \in Nat /\ p \in Nat
  BY SeqDomain
<1>2. Len(t) = m + p /\ (\A k \in 1 .. m : t[k] = sh[k]) /\ (\A k \in 1 .. p : t[m + k] = es[k])
  BY SeqConcat
<1> HIDE DEF t
<1>3. \A k \in 1 .. m + p : k \in 1 .. m \/ \E j \in 1 .. p : k = m + j
  <2> SUFFICES ASSUME NEW k \in 1 .. m + p, k \notin 1 .. m PROVE \E j \in 1 .. p : k = m + j
    OBVIOUS
  <2>1. k - m \in 1 .. p /\ k = m + (k - m)
    BY <1>1
  <2> QED BY <2>1
<1>4. 1 .. m \subseteq 1 .. m + p
  BY <1>1
<1>5. \A k \in 1 .. m + p : t[k].type = "start" => k \in 1 .. m
  BY <1>2, <1>3
<1>6. Starts(t) = Starts(sh)
  BY <1>2, <1>4, <1>5 DEF Starts
<1>7. \A k \in Starts(sh) : t[k] = sh[k]
  BY <1>2 DEF Starts
<1> QED BY <1>6, <1>7 DEF Tools, Searches, t

--------------------------------------------------------------------------------
(* The stream state and the events it has shown. *)

(* What the stream state knows of the events shown: the text and thinking   *)
(* blocks and the blocks of the calls are live, they are all different, and *)
(* only the former have had deltas.                                          *)
Coherent(st) ==
  /\ Legal(st.shown, Len(st.blocks))
  /\ \A i \in {st.textBlock, st.thinkingBlock} : i # None => Live(st.shown, Len(st.blocks), i)
  /\ \A id \in DOMAIN st.tools :
       /\ Live(st.shown, Len(st.blocks), st.tools[id].index)
       /\ st.tools[id].index \notin {st.textBlock, st.thinkingBlock}
       /\ \A other \in DOMAIN st.tools : st.tools[other].index = st.tools[id].index => other = id
       /\ \E k \in Tools(st.shown) : st.shown[k].block.id = id
  /\ \A k \in 1 .. Len(st.shown) :
       st.shown[k].type = "delta" => st.shown[k].index \in {st.textBlock, st.thinkingBlock}
  /\ \A k \in Tools(st.shown) :
       /\ st.shown[k].block.id \in DOMAIN st.tools
       /\ st.shown[k].index = st.tools[st.shown[k].block.id].index
  /\ IsFiniteSet(st.emitted) /\ Cardinality(Searches(st.shown)) = Cardinality(st.emitted)

SameBlocks(st, s) ==
  /\ s.textBlock = st.textBlock /\ s.thinkingBlock = st.thinkingBlock
  /\ DOMAIN s.tools = DOMAIN st.tools
  /\ \A id \in DOMAIN st.tools : s.tools[id].index = st.tools[id].index

(* A step that shows nothing. *)
LEMMA CoherentSame ==
  ASSUME NEW st, NEW s, Coherent(st), SameBlocks(st, s), s.shown = st.shown,
         Len(s.blocks) = Len(st.blocks), s.emitted = st.emitted
  PROVE  Coherent(s)
BY DEF Coherent, SameBlocks

(* A delta of the text or the thinking block. *)
LEMMA CoherentDelta ==
  ASSUME NEW st, NEW s, NEW i, NEW v, Coherent(st), SameBlocks(st, s), Len(s.blocks) = Len(st.blocks),
         s.emitted = st.emitted, i \in {st.textBlock, st.thinkingBlock}, i # None,
         s.shown = st.shown \o <<Delta(i, v)>>
  PROVE  Coherent(s)
<1> DEFINE sh == st.shown  t == s.shown  n == Len(st.blocks)  e == Delta(i, v)  es == <<e>>
<1>1. e.type = "delta" /\ e.index = i
  BY DEF Delta
<1> HIDE DEF e
<1>2. es \in Seq({e}) /\ Len(es) = 1 /\ es[1] = e
  OBVIOUS
<1>3. IsSeq(es)
  BY <1>2, SeqIsSeq
<1>4. \A j \in 1 .. Len(es) : es[j] = e
  BY <1>2
<1> HIDE DEF es
<1>5. Legal(sh, n) /\ Live(sh, n, i)
  BY DEF Coherent
<1>6. t = sh \o es
  BY DEF es, e
<1>7. IsSeq(sh) /\ Len(sh) \in Nat /\ n \in Nat
  BY <1>5, SeqDomain DEF Legal
<1>8. /\ \A k \in 1 .. Len(sh) : t[k] = sh[k]
      /\ t[Len(sh) + 1] = e
      /\ Len(t) = Len(sh) + 1
  BY <1>2, <1>3, <1>6, <1>7, SeqConcat
<1> HIDE DEF sh, t, n
<1>9. Legal(t, n)
  BY <1>1, <1>3, <1>4, <1>5, <1>6, LegalMore
<1>10. \A j : Live(sh, n, j) => Live(t, n, j)
  BY <1>1, <1>3, <1>4, <1>5, <1>6, <1>7, LiveMore
<1>11. Tools(t) = Tools(sh) /\ Searches(t) = Searches(sh)
  BY <1>1, <1>3, <1>4, <1>6, <1>7, KindsMore
<1>12. \A k \in Tools(sh) : t[k] = sh[k]
  BY <1>8 DEF Tools, Starts
<1>13. \A k \in 1 .. Len(t) : t[k].type = "delta" => t[k].index \in {s.textBlock, s.thinkingBlock}
  <2> SUFFICES ASSUME NEW k \in 1 .. Len(t), t[k].type = "delta"
               PROVE  t[k].index \in {s.textBlock, s.thinkingBlock}
    OBVIOUS
  <2>1. k \in 1 .. Len(sh) \/ k = Len(sh) + 1
    BY <1>7, <1>8
  <2>2. CASE k \in 1 .. Len(sh)
    BY <1>8, <2>2 DEF Coherent, SameBlocks, sh
  <2>3. CASE k = Len(sh) + 1
    BY <1>1, <1>8, <2>3 DEF SameBlocks
  <2> QED BY <2>1, <2>2, <2>3
<1>14. \A id \in DOMAIN st.tools : \E k \in Tools(sh) : t[k].block.id = id
  BY <1>12 DEF Coherent, sh
<1>15. \A k \in Tools(sh) : t[k].block.id \in DOMAIN st.tools /\ t[k].index = st.tools[t[k].block.id].index
  BY <1>12 DEF Coherent, sh
<1>16. \A j \in {st.textBlock, st.thinkingBlock} : j # None => Live(t, n, j)
  BY <1>10 DEF Coherent, sh, n
<1>17. \A id \in DOMAIN st.tools : Live(t, n, st.tools[id].index)
  BY <1>10 DEF Coherent, sh, n
<1>18. \A id \in DOMAIN st.tools :
         /\ st.tools[id].index \notin {st.textBlock, st.thinkingBlock}
         /\ \A other \in DOMAIN st.tools : st.tools[other].index = st.tools[id].index => other = id
  BY DEF Coherent
<1>19. IsFiniteSet(st.emitted) /\ Cardinality(Searches(sh)) = Cardinality(st.emitted)
  BY DEF Coherent, sh
<1>20. Len(s.blocks) = n /\ s.emitted = st.emitted /\ SameBlocks(st, s)
  BY DEF n
<1> QED BY ONLY <1>9, <1>11, <1>13, <1>14, <1>15, <1>16, <1>17, <1>18, <1>19, <1>20
        DEF Coherent, SameBlocks, t

(* A new block starts. *)
LEMMA CoherentStart ==
  ASSUME NEW st, NEW s, NEW b, Coherent(st), None \notin Nat,
         s.shown = Append(st.shown, Start(Len(st.blocks) + 1, b)),
         Len(s.blocks) = Len(st.blocks) + 1,
         \/ s.textBlock = st.textBlock
         \/ st.textBlock = None /\ s.textBlock = Len(st.blocks) + 1 /\ b.type # "tool_use",
         \/ s.thinkingBlock = st.thinkingBlock
         \/ st.thinkingBlock = None /\ s.thinkingBlock = Len(st.blocks) + 1 /\ b.type # "tool_use",
         \/ b.type # "tool_use" /\ DOMAIN s.tools = DOMAIN st.tools
         \/ b.type = "tool_use" /\ DOMAIN s.tools = DOMAIN st.tools \cup {b.id} /\ b.id \notin DOMAIN st.tools
            /\ s.tools[b.id].index = Len(st.blocks) + 1,
         \A id \in DOMAIN st.tools : s.tools[id].index = st.tools[id].index,
         \/ b.type # "server_tool_use" /\ s.emitted = st.emitted
         \/ b.type = "server_tool_use" /\ s.emitted = st.emitted \cup {b.id} /\ b.id \notin st.emitted
  PROVE  Coherent(s)
<1> DEFINE sh == st.shown  t == s.shown  n == Len(st.blocks)  e == Start(n + 1, b)  m == Len(sh)
<1>1. e.type = "start" /\ e.index = n + 1 /\ e.block = b
  BY DEF Start
<1>2. t = Append(sh, e)
  OBVIOUS
<1> HIDE DEF e
<1>3. Legal(sh, n)
  BY DEF Coherent
<1>4. IsSeq(sh) /\ m \in Nat /\ n \in Nat
  BY <1>3, SeqDomain DEF Legal
<1> HIDE DEF sh, t
<1>5. /\ \A k \in 1 .. m : t[k] = sh[k]
      /\ t[m + 1] = e
      /\ Len(t) = m + 1
  BY <1>2, <1>4, SeqAppend
<1>6. \A k \in 1 .. m + 1 : k \in 1 .. m \/ k = m + 1
  BY <1>4
<1>61. Len(s.blocks) = n + 1
  OBVIOUS
<1> HIDE DEF m, n
<1>7. Legal(t, n + 1)
  BY <1>1, <1>2, <1>3, LegalStart
<1>8. t = sh \o <<e>>
  BY <1>2, <1>4, ConcatOne
<1>9. IsSeq(<<e>>) /\ Len(<<e>>) = 1 /\ <<e>>[1] = e
  <2>1. <<e>> \in Seq({e})
    OBVIOUS
  <2> QED BY <2>1, SeqIsSeq
<1>10. ASSUME NEW i, Live(sh, n, i) PROVE Live(t, n + 1, i)
  <2> DEFINE es == <<e>>
  <2>1. IsSeq(es) /\ \A j \in 1 .. Len(es) : es[j].type # "stop"
    BY <1>1, <1>9
  <2>2. n + 1 \in Nat /\ n <= n + 1
    BY <1>4
  <2>3. t = sh \o es
    BY <1>8
  <2> HIDE DEF es
  <2> QED BY <1>3, <1>10, <2>1, <2>2, <2>3, LiveMore
<1>11. Live(t, n + 1, n + 1)
  <2>1. n + 1 \in 1 .. n + 1 /\ n + 1 \notin 1 .. n
    BY <1>4
  <2>2. ASSUME NEW k \in 1 .. Len(t), t[k].type = "stop" PROVE t[k].index # n + 1
    <3>1. k \in 1 .. m /\ t[k] = sh[k]
      BY <1>1, <1>5, <1>6, <2>2
    <3>2. sh[k].index \in 1 .. n
      BY <1>3, <3>1 DEF Legal, IsContent, m
    <3> QED BY <2>1, <3>1, <3>2
  <2> QED BY <2>1, <2>2 DEF Live
<1>12. /\ m + 1 \notin Tools(sh) /\ m + 1 \notin Searches(sh)
       /\ Tools(t) = IF b.type = "tool_use" THEN Tools(sh) \cup {m + 1} ELSE Tools(sh)
       /\ Searches(t) = IF b.type = "server_tool_use" THEN Searches(sh) \cup {m + 1} ELSE Searches(sh)
  BY <1>1, <1>2, <1>4, KindsStart DEF m
<1>13. \A k \in Tools(sh) : k \in 1 .. m /\ t[k] = sh[k]
  BY <1>5 DEF Tools, Starts, m
<1>14. \A i \in {st.textBlock, st.thinkingBlock} : i # None => Live(sh, n, i)
  BY DEF Coherent, sh, n
<1>15. \A i \in {s.textBlock, s.thinkingBlock} : i # None => Live(t, n + 1, i)
  <2>1. s.textBlock \in {st.textBlock, n + 1} /\ s.thinkingBlock \in {st.thinkingBlock, n + 1}
    BY DEF n
  <2> QED BY <1>10, <1>11, <1>14, <2>1
<1>16. \A id \in DOMAIN st.tools :
         /\ Live(sh, n, st.tools[id].index)
         /\ st.tools[id].index \notin {st.textBlock, st.thinkingBlock}
         /\ \A other \in DOMAIN st.tools : st.tools[other].index = st.tools[id].index => other = id
         /\ \E k \in Tools(sh) : sh[k].block.id = id
  BY DEF Coherent, sh, n
<1>17. \A id \in DOMAIN st.tools : st.tools[id].index \in 1 .. n /\ st.tools[id].index # n + 1
  <2>1. n + 1 \notin 1 .. n
    BY <1>4
  <2> QED BY <1>16, <2>1 DEF Live
<1>18. ASSUME b.type = "tool_use"
       PROVE  n + 1 \notin {s.textBlock, s.thinkingBlock} /\ s.textBlock = st.textBlock
              /\ s.thinkingBlock = st.thinkingBlock
  <2>1. s.textBlock = st.textBlock /\ s.thinkingBlock = st.thinkingBlock
    BY <1>18
  <2>2. \A i \in {st.textBlock, st.thinkingBlock} : i # None => i \in 1 .. n
    BY <1>14 DEF Live
  <2>3. n + 1 \notin 1 .. n /\ n + 1 \in Nat
    BY <1>4
  <2> QED BY <2>1, <2>2, <2>3
<1>19. \A id \in DOMAIN s.tools :
         id \in DOMAIN st.tools \/ (b.type = "tool_use" /\ id = b.id /\ s.tools[id].index = n + 1)
  BY DEF n
<1>20. \A id \in DOMAIN st.tools : id \in DOMAIN s.tools /\ s.tools[id].index = st.tools[id].index
  OBVIOUS
<1>21. b.type = "tool_use" => m + 1 \in Tools(t) /\ t[m + 1].block.id = b.id /\ b.id \in DOMAIN s.tools
                              /\ t[m + 1].index = s.tools[b.id].index
  BY <1>1, <1>5, <1>12 DEF n
<1>22. ASSUME NEW id \in DOMAIN s.tools
       PROVE  /\ Live(t, n + 1, s.tools[id].index)
              /\ s.tools[id].index \notin {s.textBlock, s.thinkingBlock}
              /\ \A other \in DOMAIN s.tools : s.tools[other].index = s.tools[id].index => other = id
              /\ \E k \in Tools(t) : t[k].block.id = id
  <2>1. CASE id \in DOMAIN st.tools
    <3>1. Live(t, n + 1, s.tools[id].index)
      BY <1>10, <1>16, <1>20, <2>1
    <3>2. s.tools[id].index \notin {s.textBlock, s.thinkingBlock}
      <4>1. s.textBlock \in {st.textBlock, n + 1} /\ s.thinkingBlock \in {st.thinkingBlock, n + 1}
        BY DEF n
      <4> QED BY <1>16, <1>17, <1>20, <2>1, <4>1
    <3>3. \A other \in DOMAIN s.tools : s.tools[other].index = s.tools[id].index => other = id
      BY <1>16, <1>17, <1>19, <1>20, <2>1
    <3>4. \E k \in Tools(t) : t[k].block.id = id
      BY <1>12, <1>13, <1>16, <2>1
    <3> QED BY <3>1, <3>2, <3>3, <3>4
  <2>2. CASE id \notin DOMAIN st.tools
    <3>1. b.type = "tool_use" /\ id = b.id /\ s.tools[id].index = n + 1
      BY <1>19, <2>2
    <3>2. \A other \in DOMAIN s.tools : s.tools[other].index = n + 1 => other = id
      BY <1>17, <1>19, <1>20, <3>1
    <3> QED BY <1>11, <1>18, <1>21, <3>1, <3>2
  <2> QED BY <2>1, <2>2
<1>23. \A k \in 1 .. Len(t) : t[k].type = "delta" => t[k].index \in {s.textBlock, s.thinkingBlock}
  <2> SUFFICES ASSUME NEW k \in 1 .. Len(t), t[k].type = "delta"
               PROVE  t[k].index \in {s.textBlock, s.thinkingBlock}
    OBVIOUS
  <2>1. k \in 1 .. m /\ t[k] = sh[k]
    BY <1>1, <1>5, <1>6
  <2>2. sh[k].index \in {st.textBlock, st.thinkingBlock} /\ sh[k].index \in 1 .. n
    BY <1>3, <2>1 DEF Coherent, Legal, IsContent, sh, m
  <2>3. sh[k].index # None
    BY <1>4, <2>2
  <2> QED BY <2>1, <2>2, <2>3
<1>24. ASSUME NEW k \in Tools(t)
       PROVE  t[k].block.id \in DOMAIN s.tools /\ t[k].index = s.tools[t[k].block.id].index
  <2>1. CASE k \in Tools(sh)
    <3>1. sh[k].block.id \in DOMAIN st.tools /\ sh[k].index = st.tools[sh[k].block.id].index
      BY <2>1 DEF Coherent, sh
    <3> QED BY <1>13, <1>20, <2>1, <3>1
  <2>2. CASE k \notin Tools(sh)
    BY <1>12, <1>21, <2>2
  <2> QED BY <2>1, <2>2
<1>25. IsFiniteSet(st.emitted) /\ Cardinality(Searches(sh)) = Cardinality(st.emitted)
  BY DEF Coherent, sh
<1>26. IsFiniteSet(s.emitted) /\ Cardinality(Searches(t)) = Cardinality(s.emitted)
  <2>1. CASE b.type = "server_tool_use"
    <3> DEFINE A == Searches(sh)  E == st.emitted
    <3>1. IsFiniteSet(A)
      BY <1>4, StartsFinite DEF m
    <3>2. Searches(t) = A \cup {m + 1} /\ m + 1 \notin A /\ s.emitted = E \cup {b.id} /\ b.id \notin E
      BY <1>12, <2>1
    <3>3. IsFiniteSet(E) /\ Cardinality(A) = Cardinality(E)
      BY <1>25
    <3> HIDE DEF A, E
    <3>4. Cardinality(A \cup {m + 1}) = Cardinality(A) + 1
      BY <3>1, <3>2, FS_AddElement
    <3>5. IsFiniteSet(E \cup {b.id}) /\ Cardinality(E \cup {b.id}) = Cardinality(E) + 1
      BY <3>2, <3>3, FS_AddElement
    <3> QED BY <3>2, <3>3, <3>4, <3>5
  <2>2. CASE b.type # "server_tool_use"
    BY <1>12, <1>25, <2>2
  <2> QED BY <2>1, <2>2
<1> QED BY ONLY <1>61, <1>7, <1>15, <1>22, <1>23, <1>24, <1>26 DEF Coherent, t

(* A block that is neither text, nor thinking, nor a call is stopped. *)
LEMMA CoherentStop ==
  ASSUME NEW st, NEW s, NEW i, Coherent(st), SameBlocks(st, s), Len(s.blocks) = Len(st.blocks),
         s.emitted = st.emitted, s.shown = Append(st.shown, Stop(i)), i \in 1 .. Len(st.blocks),
         i \notin {st.textBlock, st.thinkingBlock}, \A id \in DOMAIN st.tools : st.tools[id].index # i
  PROVE  Coherent(s)
<1> DEFINE sh == st.shown  t == s.shown  n == Len(st.blocks)  e == Stop(i)  es == <<e>>
<1>1. e.type = "stop" /\ e.index = i
  BY DEF Stop
<1> HIDE DEF e
<1>2. es \in Seq({e}) /\ Len(es) = 1 /\ es[1] = e
  OBVIOUS
<1>3. IsSeq(es)
  BY <1>2, SeqIsSeq
<1>4. \A j \in 1 .. Len(es) : es[j] = e
  BY <1>2
<1>5. Legal(sh, n)
  BY DEF Coherent
<1>7. IsSeq(sh) /\ Len(sh) \in Nat /\ n \in Nat
  BY <1>5, SeqDomain DEF Legal
<1>61. t = Append(sh, e)
  BY DEF e
<1>6. t = sh \o es
  BY <1>61, <1>7, ConcatOne
<1>62. i \in 1 .. n
  OBVIOUS
<1>8. /\ \A k \in 1 .. Len(sh) : t[k] = sh[k]
      /\ t[Len(sh) + 1] = e
      /\ Len(t) = Len(sh) + 1
  BY <1>61, <1>7, SeqAppend
<1> HIDE DEF sh, t, n, es
<1>9. Legal(t, n)
  BY <1>1, <1>3, <1>4, <1>5, <1>6, <1>62, LegalMore
<1>10. \A j : Live(sh, n, j) /\ j # i => Live(t, n, j)
  BY <1>1, <1>3, <1>4, <1>5, <1>6, <1>7, LiveMore
<1>11. Tools(t) = Tools(sh) /\ Searches(t) = Searches(sh)
  BY <1>1, <1>3, <1>4, <1>6, <1>7, KindsMore
<1>12. \A k \in Tools(sh) : t[k] = sh[k]
  BY <1>8 DEF Tools, Starts
<1>13. \A k \in 1 .. Len(t) : t[k].type = "delta" => t[k].index \in {s.textBlock, s.thinkingBlock}
  <2> SUFFICES ASSUME NEW k \in 1 .. Len(t), t[k].type = "delta"
               PROVE  t[k].index \in {s.textBlock, s.thinkingBlock}
    OBVIOUS
  <2>1. k \in 1 .. Len(sh) \/ k = Len(sh) + 1
    BY <1>7, <1>8
  <2>2. CASE k \in 1 .. Len(sh)
    BY <1>8, <2>2 DEF Coherent, SameBlocks, sh
  <2>3. CASE k = Len(sh) + 1
    BY <1>1, <1>8, <2>3 DEF SameBlocks
  <2> QED BY <2>1, <2>2, <2>3
<1>14. \A id \in DOMAIN st.tools : \E k \in Tools(sh) : t[k].block.id = id
  BY <1>12 DEF Coherent, sh
<1>15. \A k \in Tools(sh) : t[k].block.id \in DOMAIN st.tools /\ t[k].index = st.tools[t[k].block.id].index
  BY <1>12 DEF Coherent, sh
<1>16. \A j \in {st.textBlock, st.thinkingBlock} : j # None => Live(t, n, j)
  BY <1>10 DEF Coherent, sh, n
<1>17. \A id \in DOMAIN st.tools : Live(t, n, st.tools[id].index)
  BY <1>10 DEF Coherent, sh, n
<1>18. \A id \in DOMAIN st.tools :
         /\ st.tools[id].index \notin {st.textBlock, st.thinkingBlock}
         /\ \A other \in DOMAIN st.tools : st.tools[other].index = st.tools[id].index => other = id
  BY DEF Coherent
<1>19. IsFiniteSet(st.emitted) /\ Cardinality(Searches(sh)) = Cardinality(st.emitted)
  BY DEF Coherent, sh
<1>20. Len(s.blocks) = n /\ s.emitted = st.emitted /\ SameBlocks(st, s)
  BY DEF n
<1> QED BY ONLY <1>9, <1>11, <1>13, <1>14, <1>15, <1>16, <1>17, <1>18, <1>19, <1>20
        DEF Coherent, SameBlocks, t

--------------------------------------------------------------------------------
(* Text and reasoning. *)

StreamFields == {"structured", "blocks", "textBlock", "thinkingBlock", "sawDelta", "buffer", "tools",
                 "lastTool", "searches", "emitted", "recorded", "completed", "shown"}
ToolFields   == {"index", "name", "kind", "buffer"}

Fields(st) == st = [f \in StreamFields |-> st[f]]

(* The state of a stream that is not over. *)
IsStream(st) ==
  /\ Fields(st)
  /\ st.tools = [id \in DOMAIN st.tools |-> [f \in ToolFields |-> st.tools[id][f]]]
  /\ st.recorded = [id \in DOMAIN st.recorded |-> st.recorded[id]]
  /\ st.blocks \in Seq({TRUE})
  /\ st.completed = FALSE

SameBut(st, s, F) == \A f \in StreamFields \ F : s[f] = st[f]

(* Showing events leaves the rest of the stream state. *)
LEMMA ShowFields ==
  ASSUME NEW st, NEW es, Fields(st)
  PROVE  /\ Fields(Show(st, es)) /\ Show(st, es).shown = st.shown \o es
         /\ SameBut(st, Show(st, es), {"shown"})
BY DEF Fields, StreamFields, Show, SameBut

(* add_block leaves the rest of the stream state. *)
LEMMA AddedFields ==
  ASSUME NEW st, Fields(st)
  PROVE  /\ Fields(Added(st)) /\ Added(st).blocks = Append(st.blocks, TRUE)
         /\ SameBut(st, Added(st), {"blocks"})
BY DEF Fields, StreamFields, Added, SameBut

(* A block more is open. *)
LEMMA BlocksAdded ==
  ASSUME NEW blocks \in Seq({TRUE})
  PROVE  /\ Append(blocks, TRUE) \in Seq({TRUE}) /\ Len(Append(blocks, TRUE)) = Len(blocks) + 1
         /\ Len(blocks) \in Nat
OBVIOUS

(* A step that shows text or reasoning, or keeps it for later. *)
Talks(st, s) ==
  /\ IsStream(s) /\ Coherent(s)
  /\ s.tools = st.tools /\ s.lastTool = st.lastTool /\ s.searches = st.searches
  /\ s.emitted = st.emitted /\ s.recorded = st.recorded
  /\ Tools(s.shown) = Tools(st.shown)
  /\ \A k \in Tools(st.shown) : s.shown[k] = st.shown[k]

(* One text event after another. *)
LEMMA TalksMore ==
  ASSUME NEW st, NEW s, NEW t, Talks(st, s), Talks(s, t)
  PROVE  Talks(st, t)
BY DEF Talks

(* An event that says nothing. *)
LEMMA SelfTalks ==
  ASSUME NEW st, IsStream(st), Coherent(st)
  PROVE  Talks(st, st)
BY DEF Talks

(* Only the buffer of a structured answer changes. *)
LEMMA QuietTalks ==
  ASSUME NEW st, NEW s, IsStream(st), Coherent(st), Fields(s), SameBut(st, s, {"buffer", "sawDelta"})
  PROVE  Talks(st, s)
<1>1. /\ s.tools = st.tools /\ s.lastTool = st.lastTool /\ s.searches = st.searches
      /\ s.emitted = st.emitted /\ s.recorded = st.recorded /\ s.shown = st.shown
      /\ s.blocks = st.blocks /\ s.textBlock = st.textBlock /\ s.thinkingBlock = st.thinkingBlock
      /\ s.completed = st.completed
  BY DEF SameBut, StreamFields
<1>2. Coherent(s)
  <2>1. SameBlocks(st, s)
    BY <1>1 DEF SameBlocks
  <2> QED BY ONLY <1>1, <2>1, Coherent(st), CoherentSame
<1>3. IsStream(s)
  BY ONLY <1>1, IsStream(st), Fields(s) DEF IsStream
<1> QED BY ONLY <1>1, <1>2, <1>3 DEF Talks

(* The text block, or the thinking block, starts. *)
LEMMA TextBlockOpens ==
  ASSUME NEW st, NEW s, NEW b, IsStream(st), Coherent(st), Fields(s),
         SameBut(st, s, {"blocks", "textBlock", "thinkingBlock", "shown"}),
         s.blocks = Append(st.blocks, TRUE), s.shown = st.shown \o <<Start(Len(st.blocks) + 1, b)>>,
         b.type \in {"text", "thinking"},
         \/ s.textBlock = st.textBlock /\ st.thinkingBlock = None /\ s.thinkingBlock = Len(st.blocks) + 1
         \/ s.thinkingBlock = st.thinkingBlock /\ st.textBlock = None /\ s.textBlock = Len(st.blocks) + 1
  PROVE  Talks(st, s)
<1>1. /\ s.tools = st.tools /\ s.lastTool = st.lastTool /\ s.searches = st.searches
      /\ s.emitted = st.emitted /\ s.recorded = st.recorded /\ s.completed = st.completed
  BY DEF SameBut, StreamFields
<1>2. IsSeq(st.shown)
  BY DEF Coherent, Legal
<1> DEFINE n == Len(st.blocks)  e == Start(n + 1, b)
<1>3. s.shown = Append(st.shown, e)
  <2>1. s.shown = st.shown \o <<e>>
    OBVIOUS
  <2> HIDE DEF e
  <2> QED BY <1>2, <2>1, ConcatOne
<1>4. b.type # "tool_use" /\ b.type # "server_tool_use" /\ e.type = "start" /\ e.block = b
  BY DEF Start
<1>5. s.blocks \in Seq({TRUE}) /\ Len(s.blocks) = Len(st.blocks) + 1
  BY BlocksAdded DEF IsStream
<1>6. Coherent(s)
  BY ONLY <1>1, <1>3, <1>4, <1>5, Coherent(st), NoneIsNoIndex, CoherentStart,
         \/ s.textBlock = st.textBlock /\ st.thinkingBlock = None /\ s.thinkingBlock = Len(st.blocks) + 1
         \/ s.thinkingBlock = st.thinkingBlock /\ st.textBlock = None /\ s.textBlock = Len(st.blocks) + 1
     DEF e, n
<1>7. IsStream(s)
  BY ONLY <1>1, <1>5, IsStream(st), Fields(s) DEF IsStream
<1> HIDE DEF e
<1>8. Tools(s.shown) = Tools(st.shown)
  BY ONLY <1>2, <1>3, <1>4, KindsStart
<1>9. \A k \in Tools(st.shown) : s.shown[k] = st.shown[k]
  BY ONLY <1>2, <1>3, SeqAppend DEF Tools, Starts
<1> QED BY ONLY <1>1, <1>6, <1>7, <1>8, <1>9 DEF Talks

(* A word goes to the text or the thinking block. *)
LEMMA DeltaTalks ==
  ASSUME NEW st, NEW s, NEW i, NEW v, IsStream(st), Coherent(st), Fields(s), SameBut(st, s, {"shown"}),
         i \in {st.textBlock, st.thinkingBlock}, i # None, s.shown = st.shown \o <<Delta(i, v)>>
  PROVE  Talks(st, s)
<1>1. /\ s.tools = st.tools /\ s.lastTool = st.lastTool /\ s.searches = st.searches
      /\ s.emitted = st.emitted /\ s.recorded = st.recorded /\ s.blocks = st.blocks
      /\ s.textBlock = st.textBlock /\ s.thinkingBlock = st.thinkingBlock /\ s.completed = st.completed
  BY DEF SameBut, StreamFields
<1>2. IsSeq(st.shown)
  BY DEF Coherent, Legal
<1>3. Coherent(s)
  <2>1. SameBlocks(st, s) /\ Len(s.blocks) = Len(st.blocks)
    BY <1>1 DEF SameBlocks
  <2> QED BY <1>1, <2>1, CoherentDelta
<1>4. IsStream(s)
  BY ONLY <1>1, IsStream(st), Fields(s) DEF IsStream
<1> DEFINE e == Delta(i, v)
<1>5. e.type = "delta" /\ s.shown = Append(st.shown, e)
  <2>1. e.type = "delta" /\ s.shown = st.shown \o <<e>>
    BY DEF Delta
  <2> HIDE DEF e
  <2> QED BY <1>2, <2>1, ConcatOne
<1>6. s.shown = st.shown \o <<e>>
  OBVIOUS
<1> HIDE DEF e
<1>7. Tools(s.shown) = Tools(st.shown)
  <2>1. <<e>> \in Seq({e}) /\ Len(<<e>>) = 1 /\ <<e>>[1] = e
    OBVIOUS
  <2>2. IsSeq(<<e>>)
    BY <2>1, SeqIsSeq
  <2>3. \A j \in 1 .. Len(<<e>>) : <<e>>[j].type # "start"
    BY <1>5, <2>1
  <2> QED BY ONLY <1>2, <1>6, <2>2, <2>3, KindsMore
<1>8. \A k \in Tools(st.shown) : s.shown[k] = st.shown[k]
  BY ONLY <1>2, <1>5, SeqAppend DEF Tools, Starts
<1> QED BY ONLY <1>1, <1>3, <1>4, <1>7, <1>8 DEF Talks

(* Words are shown in the text block, which is started first if need be. *)
LEMMA TextTalks ==
  ASSUME NEW st, NEW words, IsStream(st), Coherent(st)
  PROVE  /\ Talks(st, ShowText(st, words))
         /\ SameBut(st, ShowText(st, words), {"blocks", "textBlock", "shown"})
<1> DEFINE s == WithTextBlock(st)
<1>1. Talks(st, s) /\ s.textBlock # None /\ SameBut(st, s, {"blocks", "textBlock", "shown"})
  <2>1. CASE st.textBlock # None
    <3>1. s = st
      BY <2>1 DEF WithTextBlock
    <3> QED BY <2>1, <3>1, SelfTalks DEF SameBut
  <2>2. CASE st.textBlock = None
    <3> DEFINE a == Added(st)  b == [a EXCEPT !.textBlock = Len(st.blocks) + 1]
               es == <<Start(Len(st.blocks) + 1, TextBlock)>>
    <3>1. s = Show(b, es)
      BY <2>2 DEF WithTextBlock
    <3>2. Fields(a) /\ a.blocks = Append(st.blocks, TRUE) /\ SameBut(st, a, {"blocks"})
      BY AddedFields DEF IsStream
    <3> HIDE DEF a, es
    <3>3. Fields(b) /\ b.textBlock = Len(st.blocks) + 1 /\ b.blocks = a.blocks /\ b.shown = a.shown
          /\ SameBut(a, b, {"textBlock"})
      BY <3>2 DEF Fields, StreamFields, SameBut
    <3> HIDE DEF b
    <3>4. Fields(s) /\ s.shown = b.shown \o es /\ SameBut(b, s, {"shown"})
      BY <3>1, <3>3, ShowFields
    <3> HIDE DEF s
    <3>5. /\ s.blocks = Append(st.blocks, TRUE) /\ s.shown = st.shown \o es
          /\ s.textBlock = Len(st.blocks) + 1 /\ s.thinkingBlock = st.thinkingBlock
          /\ SameBut(st, s, {"blocks", "textBlock", "shown"})
      BY <3>2, <3>3, <3>4 DEF SameBut, StreamFields
    <3>6. SameBut(st, s, {"blocks", "textBlock", "thinkingBlock", "shown"})
      BY <3>5 DEF SameBut, StreamFields
    <3>7. TextBlock.type \in {"text", "thinking"}
      BY DEF TextBlock
    <3>8. Talks(st, s)
      BY ONLY <2>2, <3>4, <3>5, <3>6, <3>7, IsStream(st), Coherent(st), TextBlockOpens DEF es
    <3>9. s.textBlock # None
      BY <3>5, NoneIsNoIndex, BlocksAdded DEF IsStream
    <3> QED BY <3>5, <3>8, <3>9
  <2> QED BY <2>1, <2>2
<1> HIDE DEF s
<1> DEFINE es == <<Delta(s.textBlock, words)>>  t == Show(s, es)
<1>2. ShowText(st, words) = t
  BY DEF ShowText, s
<1>3. IsStream(s) /\ Coherent(s) /\ Fields(s)
  BY <1>1 DEF Talks, IsStream
<1>4. Fields(t) /\ t.shown = s.shown \o es /\ SameBut(s, t, {"shown"})
  <2> HIDE DEF es
  <2> QED BY <1>3, ShowFields
<1> HIDE DEF t
<1>5. Talks(s, t)
  BY <1>1, <1>3, <1>4, DeltaTalks
<1>6. SameBut(st, t, {"blocks", "textBlock", "shown"})
  BY <1>1, <1>4 DEF SameBut
<1> QED BY <1>1, <1>2, <1>5, <1>6, TalksMore

(* A text delta is shown, or kept for a structured answer. *)
LEMMA TextDeltaTalks ==
  ASSUME NEW st, NEW e, IsStream(st), Coherent(st)
  PROVE  Talks(st, OnTextDelta(st, e))
<1>1. CASE e.word = Blank
  BY <1>1, SelfTalks DEF OnTextDelta
<1>2. CASE e.word # Blank /\ st.structured
  <2> DEFINE s == [st EXCEPT !.buffer = Append(@, e.word), !.sawDelta = TRUE]
  <2>1. Fields(s) /\ SameBut(st, s, {"buffer", "sawDelta"})
    BY DEF IsStream, Fields, StreamFields, SameBut
  <2>2. OnTextDelta(st, e) = s
    BY <1>2 DEF OnTextDelta
  <2> HIDE DEF s
  <2> QED BY <2>1, <2>2, QuietTalks
<1>3. CASE e.word # Blank /\ ~st.structured
  <2> DEFINE s == [st EXCEPT !.sawDelta = TRUE]
  <2>1. Fields(s) /\ SameBut(st, s, {"buffer", "sawDelta"})
    BY DEF IsStream, Fields, StreamFields, SameBut
  <2>2. OnTextDelta(st, e) = ShowText(s, <<e.word>>)
    BY <1>3 DEF OnTextDelta
  <2> HIDE DEF s
  <2>3. Talks(st, s)
    BY <2>1, QuietTalks
  <2>4. Talks(s, ShowText(s, <<e.word>>))
    BY <2>3, TextTalks DEF Talks
  <2> QED BY <2>2, <2>3, <2>4, TalksMore
<1> QED BY <1>1, <1>2, <1>3

(* A message item is shown unless its words came before. *)
LEMMA MessageItemTalks ==
  ASSUME NEW st, NEW words, IsStream(st), Coherent(st)
  PROVE  Talks(st, OnMessageItem(st, words))
<1>1. CASE st.sawDelta \/ IsBlank(words)
  BY <1>1, SelfTalks DEF OnMessageItem
<1>2. CASE ~(st.sawDelta \/ IsBlank(words)) /\ st.structured
  <2> DEFINE s == [st EXCEPT !.buffer = @ \o words, !.sawDelta = TRUE]
  <2>1. Fields(s) /\ SameBut(st, s, {"buffer", "sawDelta"})
    BY DEF IsStream, Fields, StreamFields, SameBut
  <2>2. OnMessageItem(st, words) = s
    BY <1>2 DEF OnMessageItem
  <2> HIDE DEF s
  <2> QED BY <2>1, <2>2, QuietTalks
<1>3. CASE ~(st.sawDelta \/ IsBlank(words)) /\ ~st.structured
  <2>1. OnMessageItem(st, words) = ShowText(st, words)
    BY <1>3 DEF OnMessageItem
  <2> QED BY <2>1, TextTalks
<1> QED BY <1>1, <1>2, <1>3

(* A reasoning delta is shown in the thinking block. *)
LEMMA ReasoningTalks ==
  ASSUME NEW st, NEW e, IsStream(st), Coherent(st)
  PROVE  Talks(st, OnReasoning(st, e))
<1> DEFINE a == Added(st)  b == [a EXCEPT !.thinkingBlock = Len(st.blocks) + 1]
           fs == <<Start(Len(st.blocks) + 1, ThinkingBlock)>>
           s == IF st.thinkingBlock # None THEN st ELSE Show(b, fs)
<1>1. Talks(st, s) /\ s.thinkingBlock # None
  <2>1. CASE st.thinkingBlock # None
    BY <2>1, SelfTalks
  <2>2. CASE st.thinkingBlock = None
    <3>1. s = Show(b, fs)
      BY <2>2
    <3>2. Fields(a) /\ a.blocks = Append(st.blocks, TRUE) /\ SameBut(st, a, {"blocks"})
      BY AddedFields DEF IsStream
    <3> HIDE DEF a, fs
    <3>3. Fields(b) /\ b.thinkingBlock = Len(st.blocks) + 1 /\ b.blocks = a.blocks /\ b.shown = a.shown
          /\ SameBut(a, b, {"thinkingBlock"})
      BY <3>2 DEF Fields, StreamFields, SameBut
    <3> HIDE DEF b
    <3>4. Fields(s) /\ s.shown = b.shown \o fs /\ SameBut(b, s, {"shown"})
      BY <3>1, <3>3, ShowFields
    <3> HIDE DEF s
    <3>5. /\ s.blocks = Append(st.blocks, TRUE) /\ s.shown = st.shown \o fs
          /\ s.thinkingBlock = Len(st.blocks) + 1 /\ s.textBlock = st.textBlock
      BY <3>2, <3>3, <3>4 DEF SameBut, StreamFields
    <3>6. SameBut(st, s, {"blocks", "textBlock", "thinkingBlock", "shown"})
      BY <3>2, <3>3, <3>4 DEF SameBut, StreamFields
    <3>7. ThinkingBlock.type \in {"text", "thinking"}
      BY DEF ThinkingBlock
    <3>8. Talks(st, s)
      BY ONLY <2>2, <3>4, <3>5, <3>6, <3>7, IsStream(st), Coherent(st), TextBlockOpens DEF fs
    <3>9. s.thinkingBlock # None
      BY <3>5, NoneIsNoIndex, BlocksAdded DEF IsStream
    <3> QED BY <3>8, <3>9
  <2> QED BY <2>1, <2>2
<1>2. OnReasoning(st, e) = Show(s, <<Delta(s.thinkingBlock, <<e.word>>)>>)
  BY DEF OnReasoning
<1> HIDE DEF s
<1> DEFINE es == <<Delta(s.thinkingBlock, <<e.word>>)>>  t == Show(s, es)
<1>3. IsStream(s) /\ Coherent(s) /\ Fields(s)
  BY <1>1 DEF Talks, IsStream
<1>4. Fields(t) /\ t.shown = s.shown \o es /\ SameBut(s, t, {"shown"})
  <2> HIDE DEF es
  <2> QED BY <1>3, ShowFields
<1> HIDE DEF t
<1>5. Talks(s, t)
  BY <1>1, <1>3, <1>4, DeltaTalks
<1> QED BY <1>1, <1>2, <1>5, TalksMore DEF t

--------------------------------------------------------------------------------
(* Tool calls. *)

(* What the store should know of a call. *)
Row(call) == [name |-> ParsedCall(call, TRUE).name, kind |-> call.kind]

RecordRight(st, k) ==
  \A call \in Item :
    call.type = "call" /\ call.id = st.shown[k].block.id /\ st.shown[k].block.name # "" =>
      /\ call.id \in DOMAIN st.recorded
      /\ st.recorded[call.id] = Row(call)

(* The store knows every call that was shown under its name. *)
RecordsRight(st) == \A k \in Tools(st.shown) : RecordRight(st, k)

(* The records stay right while no call is shown under a name. *)
LEMMA RecordsSame ==
  ASSUME NEW st, NEW s, RecordsRight(st), s.recorded = st.recorded,
         \A k \in Tools(s.shown) : \/ k \in Tools(st.shown) /\ s.shown[k] = st.shown[k]
                                   \/ s.shown[k].block.name = ""
  PROVE  RecordsRight(s)
BY DEF RecordsRight, RecordRight

(* Text leaves the records of the calls. *)
LEMMA TalksRecords ==
  ASSUME NEW st, NEW s, Talks(st, s), RecordsRight(st)
  PROVE  RecordsRight(s)
BY RecordsSame DEF Talks

NewTool(n) == [index |-> n, name |-> "", kind |-> "function", buffer |-> <<>>]

(* The block of a call starts. *)
Opened(st, s, id, name) ==
  /\ SameBut(st, s, {"blocks", "tools", "shown"})
  /\ DOMAIN s.tools = DOMAIN st.tools \cup {id}
  /\ s.tools[id] = NewTool(Len(st.blocks) + 1)
  /\ \A other \in DOMAIN st.tools : s.tools[other] = st.tools[other]
  /\ Tools(s.shown) = Tools(st.shown) \cup {Len(st.shown) + 1}
  /\ s.shown[Len(st.shown) + 1].block.id = id
  /\ s.shown[Len(st.shown) + 1].block.name = name
  /\ \A k \in Tools(st.shown) : s.shown[k] = st.shown[k]

(* ensure_tool_block starts the block of a call it does not know. *)
LEMMA ToolOpens ==
  ASSUME NEW st, NEW s, NEW id, NEW name, IsStream(st), Coherent(st),
         s = WithTool(st, id, name), id \notin DOMAIN st.tools
  PROVE  IsStream(s) /\ Coherent(s) /\ Opened(st, s, id, name)
<1> DEFINE n == Len(st.blocks)  b == ToolUse(id, name)  e == Start(n + 1, b)  es == <<e>>
           tool == NewTool(n + 1)
           a == Added(st)  c == [a EXCEPT !.tools = Put(@, id, tool)]
<1>1. s = Show(c, es)
  BY DEF WithTool, NewTool
<1>2. Fields(a) /\ a.blocks = Append(st.blocks, TRUE) /\ SameBut(st, a, {"blocks"})
  BY AddedFields DEF IsStream
<1> HIDE DEF a, es, tool
<1>3. Fields(c) /\ c.tools = Put(a.tools, id, tool) /\ SameBut(a, c, {"tools"})
  BY <1>2 DEF Fields, StreamFields, SameBut
<1> HIDE DEF c
<1>4. Fields(s) /\ s.shown = c.shown \o es /\ SameBut(c, s, {"shown"})
  BY <1>1, <1>3, ShowFields
<1>5. /\ s.blocks = Append(st.blocks, TRUE) /\ s.shown = st.shown \o es
      /\ s.tools = Put(st.tools, id, tool)
      /\ s.textBlock = st.textBlock /\ s.thinkingBlock = st.thinkingBlock /\ s.emitted = st.emitted
      /\ s.recorded = st.recorded /\ s.completed = st.completed
      /\ SameBut(st, s, {"blocks", "tools", "shown"})
  BY ONLY <1>2, <1>3, <1>4 DEF SameBut, StreamFields
<1>6. /\ DOMAIN s.tools = DOMAIN st.tools \cup {id} /\ s.tools[id] = tool
      /\ \A other \in DOMAIN st.tools : s.tools[other] = st.tools[other]
      /\ s.tools = [x \in DOMAIN s.tools |-> s.tools[x]]
  BY ONLY <1>5, id \notin DOMAIN st.tools DEF Put
<1>7. IsSeq(st.shown)
  BY DEF Coherent, Legal
<1>8. b.type = "tool_use" /\ b.id = id /\ b.name = name /\ e.type = "start" /\ e.block = b
  BY DEF ToolUse, Start
<1>9. s.shown = Append(st.shown, e)
  <2> HIDE DEF e
  <2> QED BY ONLY <1>5, <1>7, ConcatOne DEF es
<1>10. s.blocks \in Seq({TRUE}) /\ Len(s.blocks) = n + 1
  BY <1>5, BlocksAdded DEF IsStream
<1>11. tool.index = n + 1
  BY DEF tool, NewTool
<1>12. Coherent(s)
  <2> HIDE DEF b
  <2>1. s.shown = Append(st.shown, Start(Len(st.blocks) + 1, b))
    BY <1>9
  <2>2. /\ Len(s.blocks) = Len(st.blocks) + 1
        /\ s.textBlock = st.textBlock /\ s.thinkingBlock = st.thinkingBlock
        /\ b.type = "tool_use" /\ DOMAIN s.tools = DOMAIN st.tools \cup {b.id} /\ b.id \notin DOMAIN st.tools
        /\ s.tools[b.id].index = Len(st.blocks) + 1
        /\ \A x \in DOMAIN st.tools : s.tools[x].index = st.tools[x].index
        /\ b.type # "server_tool_use" /\ s.emitted = st.emitted
    BY ONLY <1>5, <1>6, <1>8, <1>10, <1>11, id \notin DOMAIN st.tools DEF n
  <2> HIDE DEF n
  <2>3. \/ b.type # "tool_use" /\ DOMAIN s.tools = DOMAIN st.tools
        \/ b.type = "tool_use" /\ DOMAIN s.tools = DOMAIN st.tools \cup {b.id} /\ b.id \notin DOMAIN st.tools
           /\ s.tools[b.id].index = Len(st.blocks) + 1
    BY ONLY <2>2
  <2>4. \/ b.type # "server_tool_use" /\ s.emitted = st.emitted
        \/ b.type = "server_tool_use" /\ s.emitted = st.emitted \cup {b.id} /\ b.id \notin st.emitted
    BY ONLY <2>2
  <2>5. /\ Len(s.blocks) = Len(st.blocks) + 1
        /\ s.textBlock = st.textBlock /\ s.thinkingBlock = st.thinkingBlock
        /\ \A x \in DOMAIN st.tools : s.tools[x].index = st.tools[x].index
    BY ONLY <2>2
  <2> QED BY ONLY <2>1, <2>3, <2>4, <2>5, Coherent(st), NoneIsNoIndex, CoherentStart
<1>13. IsStream(s)
  <2>1. tool = [f \in ToolFields |-> tool[f]]
    BY DEF tool, NewTool, ToolFields
  <2>2. \A x \in DOMAIN st.tools : st.tools[x] = [f \in ToolFields |-> st.tools[x][f]]
    BY DEF IsStream
  <2>3. \A x \in DOMAIN s.tools : s.tools[x] = [f \in ToolFields |-> s.tools[x][f]]
    BY ONLY <2>1, <2>2, <1>6
  <2>4. s.tools = [x \in DOMAIN s.tools |-> [f \in ToolFields |-> s.tools[x][f]]]
    BY ONLY <2>3, <1>6
  <2> QED BY ONLY <2>4, <1>4, <1>5, <1>10, IsStream(st) DEF IsStream
<1> HIDE DEF e, b
<1>14. Tools(s.shown) = Tools(st.shown) \cup {Len(st.shown) + 1}
  BY ONLY <1>7, <1>8, <1>9, KindsStart
<1>15. s.shown[Len(st.shown) + 1] = e /\ \A k \in Tools(st.shown) : s.shown[k] = st.shown[k]
  BY ONLY <1>7, <1>9, SeqAppend DEF Tools, Starts
<1> QED BY ONLY <1>5, <1>6, <1>8, <1>12, <1>13, <1>14, <1>15 DEF Opened, tool, n

(* Something is learnt of a call whose block has started. *)
LEMMA ToolChanges ==
  ASSUME NEW st, NEW s, IsStream(st), Coherent(st), Fields(s), SameBut(st, s, {"tools", "lastTool", "recorded"}),
         s.tools = [id \in DOMAIN s.tools |-> [f \in ToolFields |-> s.tools[id][f]]],
         s.recorded = [id \in DOMAIN s.recorded |-> s.recorded[id]],
         DOMAIN s.tools = DOMAIN st.tools, \A id \in DOMAIN st.tools : s.tools[id].index = st.tools[id].index
  PROVE  IsStream(s) /\ Coherent(s)
<1>1. /\ s.blocks = st.blocks /\ s.shown = st.shown /\ s.emitted = st.emitted /\ s.completed = st.completed
      /\ s.textBlock = st.textBlock /\ s.thinkingBlock = st.thinkingBlock
  BY DEF SameBut, StreamFields
<1>2. SameBlocks(st, s)
  BY <1>1 DEF SameBlocks
<1>3. Coherent(s)
  BY ONLY <1>1, <1>2, Coherent(st), CoherentSame
<1>4. s.blocks \in Seq({TRUE}) /\ s.completed = FALSE
  BY <1>1 DEF IsStream
<1> QED BY <1>3, <1>4 DEF IsStream

(* A piece of the arguments of a call. *)
LEMMA PieceKeeps ==
  ASSUME NEW st, NEW s, NEW id, NEW piece, IsStream(st), Coherent(st), RecordsRight(st),
         s = WithPiece(st, id, piece)
  PROVE  /\ IsStream(s) /\ Coherent(s) /\ RecordsRight(s)
         /\ SameBut(st, s, {"blocks", "tools", "shown"})
         /\ DOMAIN s.tools = DOMAIN st.tools \cup {id}
         /\ \A other \in DOMAIN st.tools : other # id => s.tools[other] = st.tools[other]
         /\ id \in DOMAIN st.tools => s.tools[id].name = st.tools[id].name /\ s.tools[id].kind = st.tools[id].kind
<1> DEFINE t == WithTool(st, id, "")
<1>1. /\ IsStream(t) /\ Coherent(t) /\ RecordsRight(t)
      /\ SameBut(st, t, {"blocks", "tools", "shown"})
      /\ DOMAIN t.tools = DOMAIN st.tools \cup {id}
      /\ \A other \in DOMAIN st.tools : t.tools[other] = st.tools[other]
  <2>1. CASE id \in DOMAIN st.tools
    <3>1. t = st
      BY <2>1 DEF WithTool
    <3> QED BY <2>1, <3>1 DEF SameBut
  <2>2. CASE id \notin DOMAIN st.tools
    <3>1. t = WithTool(st, id, "")
      OBVIOUS
    <3> HIDE DEF t
    <3>2. /\ IsStream(t) /\ Coherent(t)
          /\ Opened(st, t, id, "")
      BY ONLY <2>2, <3>1, IsStream(st), Coherent(st), ToolOpens
    <3>3. t.recorded = st.recorded
      BY <3>2 DEF Opened, SameBut, StreamFields
    <3>4. \A k \in Tools(t.shown) : \/ k \in Tools(st.shown) /\ t.shown[k] = st.shown[k]
                                    \/ t.shown[k].block.name = ""
      BY ONLY <3>2 DEF Opened
    <3>5. RecordsRight(t)
      BY <3>3, <3>4, RecordsSame
    <3> QED BY <3>2, <3>5 DEF Opened
  <2> QED BY <2>1, <2>2
<1>2. s = [t EXCEPT !.tools[id].buffer = Append(@, piece)]
  BY DEF WithPiece
<1> HIDE DEF t
<1>3. Fields(t) /\ t.tools = [x \in DOMAIN t.tools |-> [f \in ToolFields |-> t.tools[x][f]]]
      /\ t.recorded = [x \in DOMAIN t.recorded |-> t.recorded[x]]
  BY <1>1 DEF IsStream
<1>4. Fields(s) /\ SameBut(t, s, {"tools"}) /\ s.tools = [t.tools EXCEPT ![id].buffer = Append(@, piece)]
  BY <1>2, <1>3 DEF Fields, StreamFields, SameBut
<1>5. id \in DOMAIN t.tools
  BY <1>1
<1>6. t.tools[id] = [f \in ToolFields |-> t.tools[id][f]]
  BY <1>3, <1>5
<1> DEFINE new == [t.tools[id] EXCEPT !.buffer = Append(@, piece)]
<1>7. new = [f \in ToolFields |-> new[f]] /\ new.index = t.tools[id].index /\ new.name = t.tools[id].name
      /\ new.kind = t.tools[id].kind
  BY <1>6 DEF ToolFields
<1>8. s.tools = [t.tools EXCEPT ![id] = new]
  BY <1>4
<1> HIDE DEF new
<1>9. DOMAIN s.tools = DOMAIN t.tools /\ s.tools[id] = new /\ \A x \in DOMAIN t.tools : x # id => s.tools[x] = t.tools[x]
  BY <1>5, <1>8
<1>10. \A x \in DOMAIN s.tools : s.tools[x] = [f \in ToolFields |-> s.tools[x][f]]
  BY <1>3, <1>7, <1>9
<1>11. s.tools = [x \in DOMAIN s.tools |-> s.tools[x]]
  BY <1>8
<1>12. s.tools = [x \in DOMAIN s.tools |-> [f \in ToolFields |-> s.tools[x][f]]]
  BY ONLY <1>10, <1>11
<1>13. SameBut(t, s, {"tools", "lastTool", "recorded"}) /\ s.recorded = t.recorded /\ s.shown = t.shown
  BY <1>4 DEF SameBut, StreamFields
<1>14. \A x \in DOMAIN t.tools : s.tools[x].index = t.tools[x].index
  BY <1>7, <1>9
<1>15. IsStream(s) /\ Coherent(s)
  BY ONLY <1>1, <1>3, <1>4, <1>9, <1>12, <1>13, <1>14, ToolChanges
<1>16. RecordsRight(s)
  BY <1>1, <1>13, RecordsSame
<1>17. SameBut(st, s, {"blocks", "tools", "shown"})
  BY <1>1, <1>4 DEF SameBut
<1> QED BY <1>1, <1>7, <1>9, <1>15, <1>16, <1>17

(* What a piece of the arguments of the call id changes. *)
PieceTaken(st, s, id) ==
  /\ s.lastTool = st.lastTool
  /\ DOMAIN s.tools = IF id = None THEN DOMAIN st.tools ELSE DOMAIN st.tools \cup {id}
  /\ \A other \in DOMAIN st.tools : other # id => s.tools[other] = st.tools[other]
  /\ id \in DOMAIN st.tools => s.tools[id].name = st.tools[id].name /\ s.tools[id].kind = st.tools[id].kind

(* A piece of arguments, which names its call or goes to the last one. *)
LEMMA ArgsDeltaKeeps ==
  ASSUME NEW st, NEW s, NEW e, NEW id, IsStream(st), Coherent(st), RecordsRight(st),
         s = OnArgsDelta(st, e), id = IF e.id # None THEN e.id ELSE st.lastTool
  PROVE  /\ IsStream(s) /\ Coherent(s) /\ RecordsRight(s)
         /\ SameBut(st, s, {"blocks", "tools", "shown"}) /\ PieceTaken(st, s, id)
<1>1. CASE id = None
  <2>1. s = st
    BY <1>1 DEF OnArgsDelta
  <2> QED BY <1>1, <2>1 DEF SameBut, PieceTaken
<1>2. CASE id # None
  <2>1. s = WithPiece(st, id, e.piece)
    BY <1>2 DEF OnArgsDelta
  <2>2. /\ IsStream(s) /\ Coherent(s) /\ RecordsRight(s)
        /\ SameBut(st, s, {"blocks", "tools", "shown"})
        /\ DOMAIN s.tools = DOMAIN st.tools \cup {id}
        /\ \A other \in DOMAIN st.tools : other # id => s.tools[other] = st.tools[other]
        /\ id \in DOMAIN st.tools => s.tools[id].name = st.tools[id].name /\ s.tools[id].kind = st.tools[id].kind
    BY ONLY <2>1, IsStream(st), Coherent(st), RecordsRight(st), PieceKeeps
  <2>3. s.lastTool = st.lastTool
    BY ONLY <2>2 DEF SameBut, StreamFields
  <2>4. PieceTaken(st, s, id)
    BY ONLY <1>2, <2>2, <2>3 DEF PieceTaken
  <2> QED BY ONLY <2>2, <2>4
<1> QED BY <1>1, <1>2

(* What an item event tells of its call, whether it is filled or not. *)
LEMMA ParsedParts ==
  ASSUME NEW item, NEW filled
  PROVE  /\ ParsedCall(item, filled).id = item.id /\ ParsedCall(item, filled).kind = item.kind
         /\ ParsedCall(item, filled).name = ParsedCall(item, TRUE).name
BY DEF ParsedCall

(* A call is recorded before its block starts. *)
LEMMA CallRecorded ==
  ASSUME NEW st, NEW s, NEW item, NEW final, IsStream(st), Coherent(st), s = Recorded(st, ParsedCall(item, final))
  PROVE  /\ IsStream(s) /\ Coherent(s) /\ SameBut(st, s, {"recorded"})
         /\ \A id \in DOMAIN st.recorded : id # item.id => id \in DOMAIN s.recorded /\ s.recorded[id] = st.recorded[id]
         /\ item.id \notin DOMAIN st.tools => item.id \in DOMAIN s.recorded /\ s.recorded[item.id] = Row(item)
         /\ item.id \in DOMAIN st.tools => s = st
<1> DEFINE call == ParsedCall(item, final)
<1>1. call.id = item.id /\ call.kind = item.kind /\ call.name = ParsedCall(item, TRUE).name
  BY ParsedParts
<1>2. s = Recorded(st, call)
  OBVIOUS
<1> HIDE DEF call
<1>3. CASE item.id \in DOMAIN st.tools
  <2>1. s = st
    BY <1>1, <1>2, <1>3 DEF Recorded
  <2> QED BY <1>3, <2>1 DEF SameBut
<1>4. CASE item.id \notin DOMAIN st.tools
  <2> DEFINE row == Row(item)
  <2>1. row = [name |-> call.name, kind |-> call.kind]
    BY <1>1 DEF Row
  <2>2. s = [st EXCEPT !.recorded = Put(@, item.id, [name |-> call.name, kind |-> call.kind])]
    BY <1>1, <1>2, <1>4 DEF Recorded
  <2>3. s = [st EXCEPT !.recorded = Put(@, item.id, row)]
    BY <2>1, <2>2
  <2> HIDE DEF row
  <2>4. Fields(s) /\ SameBut(st, s, {"recorded"}) /\ s.recorded = Put(st.recorded, item.id, row)
    BY <2>3 DEF IsStream, Fields, StreamFields, SameBut
  <2>5. /\ DOMAIN s.recorded = DOMAIN st.recorded \cup {item.id} /\ s.recorded[item.id] = row
        /\ \A id \in DOMAIN st.recorded : id # item.id => s.recorded[id] = st.recorded[id]
        /\ s.recorded = [x \in DOMAIN s.recorded |-> s.recorded[x]]
    BY <2>4 DEF Put
  <2>6. SameBut(st, s, {"tools", "lastTool", "recorded"}) /\ s.tools = st.tools
    BY <2>4 DEF SameBut, StreamFields
  <2>7. st.tools = [id \in DOMAIN st.tools |-> [f \in ToolFields |-> st.tools[id][f]]]
    BY DEF IsStream
  <2>8. IsStream(s) /\ Coherent(s)
    <3>1. s.tools = [id \in DOMAIN s.tools |-> [f \in ToolFields |-> s.tools[id][f]]]
      BY <2>6, <2>7
    <3> QED BY ONLY <3>1, <2>4, <2>5, <2>6, IsStream(st), Coherent(st), ToolChanges
  <2> QED BY <1>4, <2>4, <2>5, <2>8 DEF row
<1> QED BY <1>3, <1>4

(* What an item event of a call changes. *)
CallTaken(st, s, item, final) ==
  /\ s.lastTool = item.id
  /\ DOMAIN s.tools = DOMAIN st.tools \cup {item.id}
  /\ s.tools[item.id].name = ParsedCall(item, TRUE).name
  /\ s.tools[item.id].kind = item.kind
  /\ final => s.tools[item.id].buffer = Pieces(ParsedCall(item, TRUE).arguments)
  /\ \A other \in DOMAIN st.tools : other # item.id => s.tools[other] = st.tools[other]

(* A call item begins or is finished. *)
LEMMA ToolItemKeeps ==
  ASSUME NEW st, NEW s, NEW item \in Item, NEW final \in BOOLEAN, NEW call, item.type = "call",
         IsStream(st), Coherent(st), RecordsRight(st),
         call = ParsedCall(item, final), s = OnToolItem(st, call, final)
  PROVE  /\ IsStream(s) /\ Coherent(s) /\ RecordsRight(s)
         /\ s.searches = st.searches /\ s.emitted = st.emitted /\ CallTaken(st, s, item, final)
<1> DEFINE r == Recorded(st, call)  t == WithTool(r, call.id, call.name)
<1>1. call.id = item.id /\ call.kind = item.kind /\ call.name = ParsedCall(item, TRUE).name
  BY ParsedParts
<1>2. /\ IsStream(r) /\ Coherent(r) /\ SameBut(st, r, {"recorded"})
      /\ \A id \in DOMAIN st.recorded : id # item.id => id \in DOMAIN r.recorded /\ r.recorded[id] = st.recorded[id]
      /\ item.id \notin DOMAIN st.tools => item.id \in DOMAIN r.recorded /\ r.recorded[item.id] = Row(item)
      /\ item.id \in DOMAIN st.tools => r = st
  BY CallRecorded
<1>3. t = WithTool(r, item.id, call.name)
  BY <1>1
<1> DEFINE F(x) == [index |-> x.index, name |-> call.name, kind |-> call.kind,
                    buffer |-> IF final THEN Pieces(call.arguments) ELSE x.buffer]
<1>4. s = [t EXCEPT !.lastTool = call.id, !.tools[call.id] = F(@)]
  BY DEF OnToolItem
<1> HIDE DEF r, t
<1>5. r.tools = st.tools /\ r.shown = st.shown /\ r.searches = st.searches /\ r.emitted = st.emitted
  BY <1>2 DEF SameBut, StreamFields
<1>6. /\ IsStream(t) /\ Coherent(t) /\ RecordsRight(t)
      /\ t.searches = st.searches /\ t.emitted = st.emitted
      /\ DOMAIN t.tools = DOMAIN st.tools \cup {item.id}
      /\ \A other \in DOMAIN st.tools : t.tools[other] = st.tools[other]
  <2>1. CASE item.id \in DOMAIN st.tools
    <3>1. t = r /\ r = st
      BY <1>2, <1>3, <1>5, <2>1 DEF WithTool
    <3> QED BY <2>1, <3>1
  <2>2. CASE item.id \notin DOMAIN st.tools
    <3>0. /\ IsStream(t) /\ Coherent(t) /\ Opened(r, t, item.id, call.name)
      BY ONLY <1>2, <1>3, <1>5, <2>2, ToolOpens
    <3>1. /\ SameBut(r, t, {"blocks", "tools", "shown"})
          /\ DOMAIN t.tools = DOMAIN r.tools \cup {item.id}
          /\ \A other \in DOMAIN r.tools : t.tools[other] = r.tools[other]
          /\ Tools(t.shown) = Tools(r.shown) \cup {Len(r.shown) + 1}
          /\ t.shown[Len(r.shown) + 1].block.id = item.id
          /\ \A k \in Tools(r.shown) : t.shown[k] = r.shown[k]
      BY ONLY <3>0 DEF Opened
    <3>2. t.recorded = r.recorded /\ t.searches = r.searches /\ t.emitted = r.emitted
      BY <3>1 DEF SameBut, StreamFields
    <3>3. \A k \in Tools(st.shown) : st.shown[k].block.id \in DOMAIN st.tools
      BY DEF Coherent
    <3>4. RecordsRight(t)
      <4> SUFFICES ASSUME NEW k \in Tools(t.shown) PROVE RecordRight(t, k)
        BY DEF RecordsRight
      <4>1. CASE k \in Tools(st.shown)
        <5>1. RecordRight(st, k) /\ t.shown[k] = st.shown[k] /\ st.shown[k].block.id # item.id
          BY <1>5, <2>2, <3>1, <3>3, <4>1 DEF RecordsRight
        <5> QED BY <1>2, <3>2, <5>1 DEF RecordRight
      <4>2. CASE k = Len(r.shown) + 1
        <5>1. t.shown[k].block.id = item.id
          BY <3>1, <4>2
        <5>2. \A other \in Item : other.type = "call" /\ other.id = item.id => other = item
          BY CallAssumption
        <5>3. item.id \in DOMAIN t.recorded /\ t.recorded[item.id] = Row(item)
          BY <1>2, <2>2, <3>2
        <5> QED BY <5>1, <5>2, <5>3 DEF RecordRight
      <4> QED BY <1>5, <3>1, <4>1, <4>2
    <3> QED BY <1>5, <3>0, <3>1, <3>2, <3>4
  <2> QED BY <2>1, <2>2
<1>7. Fields(t) /\ t.tools = [x \in DOMAIN t.tools |-> [f \in ToolFields |-> t.tools[x][f]]]
      /\ t.recorded = [x \in DOMAIN t.recorded |-> t.recorded[x]]
  BY <1>6 DEF IsStream
<1> DEFINE new == F(t.tools[item.id])
<1>8. item.id \in DOMAIN t.tools
  BY <1>6
<1>9. Fields(s) /\ SameBut(t, s, {"tools", "lastTool"}) /\ s.lastTool = item.id
      /\ s.tools = [t.tools EXCEPT ![item.id] = new]
  <2> HIDE DEF F
  <2>1. Fields(s) /\ SameBut(t, s, {"tools", "lastTool"}) /\ s.lastTool = item.id
    BY ONLY <1>1, <1>4, <1>7 DEF Fields, StreamFields, SameBut
  <2>2. s.tools = [t.tools EXCEPT ![call.id] = F(@)]
    BY ONLY <1>4, <1>7 DEF Fields, StreamFields
  <2> QED BY ONLY <1>1, <2>1, <2>2
<1>10. new = [f \in ToolFields |-> new[f]] /\ new.index = t.tools[item.id].index /\ new.name = call.name
       /\ new.kind = call.kind /\ (final => new.buffer = Pieces(call.arguments))
  BY DEF ToolFields
<1> HIDE DEF new
<1>11. DOMAIN s.tools = DOMAIN t.tools /\ s.tools[item.id] = new
       /\ \A x \in DOMAIN t.tools : x # item.id => s.tools[x] = t.tools[x]
  BY <1>8, <1>9
<1>12. \A x \in DOMAIN s.tools : s.tools[x] = [f \in ToolFields |-> s.tools[x][f]]
  BY <1>7, <1>10, <1>11
<1>13. s.tools = [x \in DOMAIN s.tools |-> s.tools[x]]
  BY <1>9
<1>14. s.tools = [x \in DOMAIN s.tools |-> [f \in ToolFields |-> s.tools[x][f]]]
  BY ONLY <1>12, <1>13
<1>15. SameBut(t, s, {"tools", "lastTool", "recorded"}) /\ s.recorded = t.recorded /\ s.shown = t.shown
       /\ s.searches = t.searches /\ s.emitted = t.emitted
  BY <1>9 DEF SameBut, StreamFields
<1>16. \A x \in DOMAIN t.tools : s.tools[x].index = t.tools[x].index
  BY <1>10, <1>11
<1>17. IsStream(s) /\ Coherent(s)
  BY ONLY <1>6, <1>7, <1>9, <1>11, <1>14, <1>15, <1>16, ToolChanges
<1>18. RecordsRight(s)
  BY <1>6, <1>15, RecordsSame
<1>19. \A other \in DOMAIN st.tools : other # item.id => s.tools[other] = st.tools[other]
  BY ONLY <1>6, <1>11
<1>20. final => call = ParsedCall(item, TRUE)
  OBVIOUS
<1>21. CallTaken(st, s, item, final)
  BY ONLY <1>1, <1>6, <1>9, <1>10, <1>11, <1>19, <1>20 DEF CallTaken
<1> QED BY ONLY <1>6, <1>15, <1>17, <1>18, <1>21

--------------------------------------------------------------------------------
(* Web searches. *)

(* The calls shown stay what they were. *)
SameTools(sh, t) == Tools(t) = Tools(sh) /\ \A k \in Tools(sh) : t[k] = sh[k]

(* An event that starts no call leaves the calls shown. *)
LEMMA OtherEvent ==
  ASSUME NEW sh, NEW e, IsSeq(sh), \/ e.type = "stop"
                                   \/ e.type = "start" /\ e.block.type # "tool_use"
  PROVE  SameTools(sh, Append(sh, e)) /\ IsSeq(Append(sh, e))
<1> DEFINE t == Append(sh, e)
<1>1. IsSeq(t) /\ \A k \in 1 .. Len(sh) : t[k] = sh[k]
  BY SeqAppend
<1>2. \A k \in Tools(sh) : t[k] = sh[k]
  BY <1>1 DEF Tools, Starts
<1>3. Tools(t) = Tools(sh)
  <2>1. CASE e.type = "start"
    BY <2>1, KindsStart
  <2>2. CASE e.type = "stop"
    <3>1. t = sh \o <<e>>
      BY ConcatOne
    <3>2. <<e>> \in Seq({e}) /\ Len(<<e>>) = 1 /\ <<e>>[1] = e
      OBVIOUS
    <3>3. IsSeq(<<e>>)
      BY <3>2, SeqIsSeq
    <3>4. \A j \in 1 .. Len(<<e>>) : <<e>>[j].type # "start"
      BY <2>2, <3>2
    <3> QED BY ONLY <3>1, <3>3, <3>4, IsSeq(sh), KindsMore
  <2> QED BY <2>1, <2>2
<1> QED BY <1>1, <1>2, <1>3 DEF SameTools

(* A step that shows web searches. *)
Searched(st, s) ==
  /\ IsStream(s) /\ Coherent(s) /\ SameTools(st.shown, s.shown)
  /\ SameBut(st, s, {"blocks", "shown", "emitted"})

(* One search after another. *)
LEMMA SearchedMore ==
  ASSUME NEW st, NEW s, NEW t, Searched(st, s), Searched(s, t)
  PROVE  Searched(st, t)
BY DEF Searched, SameTools, SameBut

(* A search that was shown before. *)
LEMMA SelfSearched ==
  ASSUME NEW st, IsStream(st), Coherent(st)
  PROVE  Searched(st, st)
BY DEF Searched, SameTools, SameBut

(* A search leaves the records of the calls. *)
LEMMA SearchedRecords ==
  ASSUME NEW st, NEW s, Searched(st, s), RecordsRight(st)
  PROVE  RecordsRight(s)
<1>1. s.recorded = st.recorded
  BY DEF Searched, SameBut, StreamFields
<1> QED BY <1>1, RecordsSame DEF Searched, SameTools

(* What Coherent sees of a state whose text and calls are those of st. *)
Sight(st, blocks, shown, emitted) ==
  [shown |-> shown, blocks |-> blocks, textBlock |-> st.textBlock, thinkingBlock |-> st.thinkingBlock,
   tools |-> st.tools, emitted |-> emitted]

(* Coherence is about what Sight keeps of a stream. *)
LEMMA SightCoherent ==
  ASSUME NEW st, NEW s, s.textBlock = st.textBlock, s.thinkingBlock = st.thinkingBlock, s.tools = st.tools
  PROVE  Coherent(s) <=> Coherent(Sight(st, s.blocks, s.shown, s.emitted))
BY DEF Coherent, Sight

(* A block that is neither text nor a call starts and is stopped at once. *)
LEMMA BlockPasses ==
  ASSUME NEW st, NEW blocks, NEW b, NEW sh, NEW em, NEW em2, blocks \in Seq({TRUE}),
         Coherent(Sight(st, blocks, sh, em)), b.type \notin {"tool_use", "text", "thinking"},
         \/ b.type # "server_tool_use" /\ em2 = em
         \/ b.type = "server_tool_use" /\ em2 = em \cup {b.id} /\ b.id \notin em
  PROVE  LET n == Len(blocks) + 1
             t == Append(Append(sh, Start(n, b)), Stop(n)) IN
         /\ Coherent(Sight(st, Append(blocks, TRUE), t, em2))
         /\ SameTools(sh, t)
<1> DEFINE n == Len(blocks) + 1  more == Append(blocks, TRUE)
           start == Start(n, b)  stop == Stop(n)
           t1 == Append(sh, start)  t == Append(t1, stop)
           x == Sight(st, blocks, sh, em)  y == Sight(st, more, t1, em2)  z == Sight(st, more, t, em2)
<1>1. start.type = "start" /\ start.block = b /\ stop.type = "stop"
  BY DEF Start, Stop
<1>2. more \in Seq({TRUE}) /\ Len(more) = n /\ Len(blocks) \in Nat
  BY BlocksAdded
<1>3. /\ x.shown = sh /\ x.blocks = blocks /\ x.emitted = em
      /\ x.textBlock = st.textBlock /\ x.thinkingBlock = st.thinkingBlock /\ x.tools = st.tools
  BY DEF Sight
<1>4. /\ y.shown = t1 /\ y.blocks = more /\ y.emitted = em2
      /\ y.textBlock = st.textBlock /\ y.thinkingBlock = st.thinkingBlock /\ y.tools = st.tools
  BY DEF Sight
<1>5. /\ z.shown = t /\ z.blocks = more /\ z.emitted = em2
      /\ z.textBlock = st.textBlock /\ z.thinkingBlock = st.thinkingBlock /\ z.tools = st.tools
  BY DEF Sight
<1>6. Coherent(x)
  OBVIOUS
<1> HIDE DEF x, y, z
<1>7. Coherent(y)
  <2>1. y.shown = Append(x.shown, Start(Len(x.blocks) + 1, b)) /\ Len(y.blocks) = Len(x.blocks) + 1
    BY <1>2, <1>3, <1>4
  <2>2. /\ y.textBlock = x.textBlock /\ y.thinkingBlock = x.thinkingBlock
        /\ b.type # "tool_use" /\ DOMAIN y.tools = DOMAIN x.tools
        /\ \A id \in DOMAIN x.tools : y.tools[id].index = x.tools[id].index
    BY <1>3, <1>4
  <2>3. \/ b.type # "server_tool_use" /\ y.emitted = x.emitted
        \/ b.type = "server_tool_use" /\ y.emitted = x.emitted \cup {b.id} /\ b.id \notin x.emitted
    BY <1>3, <1>4
  <2> QED BY ONLY <2>1, <2>2, <2>3, <1>6, NoneIsNoIndex, CoherentStart
<1>8. n \notin {st.textBlock, st.thinkingBlock} /\ \A id \in DOMAIN st.tools : st.tools[id].index # n
  <2>1. \A i \in 1 .. Len(blocks) : i # n
    BY <1>2
  <2>2. n # None
    BY <1>2, NoneIsNoIndex
  <2>3. /\ \A i \in {st.textBlock, st.thinkingBlock} : i # None => i \in 1 .. Len(blocks)
        /\ \A id \in DOMAIN st.tools : st.tools[id].index \in 1 .. Len(blocks)
    BY ONLY <1>3, <1>6 DEF Coherent, Live
  <2> QED BY <2>1, <2>2, <2>3
<1>9. Coherent(z)
  <2>1. z.shown = Append(y.shown, Stop(n)) /\ n \in 1 .. Len(y.blocks) /\ SameBlocks(y, z)
        /\ Len(z.blocks) = Len(y.blocks) /\ z.emitted = y.emitted
    BY <1>2, <1>4, <1>5 DEF SameBlocks
  <2>2. n \notin {y.textBlock, y.thinkingBlock} /\ \A id \in DOMAIN y.tools : y.tools[id].index # n
    BY <1>4, <1>8
  <2> QED BY ONLY <2>1, <2>2, <1>7, CoherentStop
<1>10. IsSeq(sh)
  BY ONLY <1>3, <1>6 DEF Coherent, Legal
<1> HIDE DEF start, stop
<1>11. SameTools(sh, t1) /\ IsSeq(t1)
  BY ONLY <1>1, <1>10, b.type \notin {"tool_use", "text", "thinking"}, OtherEvent
<1>12. SameTools(t1, t)
  <2> HIDE DEF t1
  <2> QED BY ONLY <1>1, <1>11, OtherEvent
<1>13. SameTools(sh, t)
  <2> HIDE DEF t1, t
  <2> QED BY ONLY <1>11, <1>12 DEF SameTools
<1> QED BY <1>9, <1>13 DEF z, start, stop

(* A search shows its two blocks, once. *)
LEMMA SearchKeeps ==
  ASSUME NEW st, NEW id, IsStream(st), Coherent(st)
  PROVE  Searched(st, OnSearch(st, id)) /\ OnSearch(st, id).emitted = st.emitted \cup {id}
<1>1. CASE id \in st.emitted
  <2>1. OnSearch(st, id) = st
    BY <1>1 DEF OnSearch
  <2> QED BY <1>1, <2>1, SelfSearched
<1>2. CASE id \notin st.emitted
  <2> DEFINE n == Len(st.blocks) + 1
             es == <<Start(n, ServerToolUse(id)), Stop(n), Start(n + 1, SearchResult(id)), Stop(n + 1)>>
             a == Added(st)  b == Added(a)  c == [b EXCEPT !.emitted = @ \cup {id}]
             s == OnSearch(st, id)  em == st.emitted \cup {id}
             b1 == Append(st.blocks, TRUE)  b2 == Append(b1, TRUE)
             t1 == Append(Append(st.shown, Start(n, ServerToolUse(id))), Stop(n))
             t2 == Append(Append(t1, Start(n + 1, SearchResult(id))), Stop(n + 1))
  <2>1. s = Show(c, es)
    BY <1>2 DEF OnSearch
  <2>2. Fields(a) /\ a.blocks = b1 /\ SameBut(st, a, {"blocks"})
    BY AddedFields DEF IsStream
  <2> HIDE DEF a, es
  <2>3. Fields(b) /\ b.blocks = Append(a.blocks, TRUE) /\ SameBut(a, b, {"blocks"})
    BY <2>2, AddedFields
  <2> HIDE DEF b
  <2>4. Fields(c) /\ c.emitted = b.emitted \cup {id} /\ SameBut(b, c, {"emitted"})
    BY <2>3 DEF Fields, StreamFields, SameBut
  <2> HIDE DEF c, b1
  <2>5. Fields(s) /\ s.shown = c.shown \o es /\ SameBut(c, s, {"shown"})
    BY <2>1, <2>4, ShowFields
  <2> HIDE DEF s
  <2>6. /\ s.blocks = b2 /\ s.shown = st.shown \o es /\ s.emitted = em
        /\ s.textBlock = st.textBlock /\ s.thinkingBlock = st.thinkingBlock /\ s.tools = st.tools
        /\ s.recorded = st.recorded /\ s.completed = st.completed
        /\ SameBut(st, s, {"blocks", "shown", "emitted"})
    BY ONLY <2>2, <2>3, <2>4, <2>5 DEF SameBut, StreamFields, b2, em
  <2>7. IsSeq(st.shown)
    BY DEF Coherent, Legal
  <2>8. s.shown = t2
    <3> DEFINE e1 == Start(n, ServerToolUse(id))  e2 == Stop(n)
               e3 == Start(n + 1, SearchResult(id))  e4 == Stop(n + 1)
    <3>1. es = <<e1, e2, e3, e4>> /\ t2 = Append(Append(Append(Append(st.shown, e1), e2), e3), e4)
      BY DEF es, t1, t2
    <3> HIDE DEF e1, e2, e3, e4, t2
    <3>2. st.shown \o <<e1, e2, e3, e4>> = Append(Append(Append(Append(st.shown, e1), e2), e3), e4)
      BY ONLY <2>7, ConcatFour
    <3> QED BY ONLY <2>6, <3>1, <3>2
  <2>9. /\ b1 \in Seq({TRUE}) /\ Len(b1) = n /\ b2 \in Seq({TRUE}) /\ st.blocks \in Seq({TRUE})
    BY BlocksAdded DEF IsStream, b1
  <2>10. /\ ServerToolUse(id).type = "server_tool_use" /\ ServerToolUse(id).id = id
         /\ SearchResult(id).type = "web_search_tool_result"
    BY DEF ServerToolUse, SearchResult
  <2>11. Coherent(Sight(st, st.blocks, st.shown, st.emitted))
    BY SightCoherent
  <2>12. Coherent(Sight(st, b1, t1, em)) /\ SameTools(st.shown, t1)
    <3> DEFINE k == ServerToolUse(id)
    <3>1. k.type = "server_tool_use" /\ em = st.emitted \cup {k.id} /\ k.id \notin st.emitted
      BY <1>2, <2>10
    <3> HIDE DEF k, em
    <3> QED BY ONLY <2>9, <2>11, <3>1, BlockPasses DEF b1, t1, n, k
  <2>13. Coherent(Sight(st, b2, t2, em)) /\ SameTools(t1, t2)
    <3> DEFINE k == SearchResult(id)
    <3>1. k.type \notin {"server_tool_use", "tool_use", "text", "thinking"}
      BY <2>10
    <3>2. Len(b1) + 1 = n + 1
      BY <2>9
    <3> HIDE DEF k, em, n, t1
    <3> QED BY ONLY <2>9, <2>12, <3>1, <3>2, BlockPasses DEF b2, t2, k
  <2>14. Coherent(s)
    BY ONLY <2>6, <2>8, <2>13, SightCoherent
  <2>15. SameTools(st.shown, s.shown)
    <3> HIDE DEF t1, t2
    <3> QED BY ONLY <2>8, <2>12, <2>13 DEF SameTools
  <2>16. IsStream(s)
    BY ONLY <2>5, <2>6, <2>9, IsStream(st) DEF IsStream
  <2>17. Searched(st, s)
    BY ONLY <2>6, <2>14, <2>15, <2>16 DEF Searched
  <2> QED BY ONLY <2>6, <2>17 DEF s, em
<1> QED BY <1>1, <1>2

(* A set of natural numbers that is not empty has a least element.            *)
LEMMA LeastNat ==
  ASSUME NEW T \in SUBSET Nat, T # {}
  PROVE  \E n \in T : \A m \in T : n <= m
<1> DEFINE R == {ss \in Nat \X Nat : ss[1] < ss[2]}
<1>1. IsWellFoundedOn(R, Nat)
  BY NatLessThanWellFounded DEF OpToRel
<1>2. PICK x \in T : \A y \in T : ~ (<<y, x>> \in R)
  BY <1>1, WFMin
<1>3. \A y \in T : ~ (y < x)
  <2>1. TAKE y \in T
  <2>2. x \in Nat /\ y \in Nat
    OBVIOUS
  <2>3. ASSUME y < x PROVE FALSE
    BY <2>2, <2>3, <1>2
  <2> QED BY <2>3
<1> QED
  BY <1>3

(* Induction over 0 .. N, with a set for the predicate.                       *)
LEMMA UpTo ==
  ASSUME NEW N \in Nat, NEW T, 0 \in T, \A n \in 1 .. N : n - 1 \in T => n \in T
  PROVE  \A n \in 0 .. N : n \in T
<1> DEFINE Bad == {n \in 0 .. N : n \notin T}
<1>1. SUFFICES ASSUME Bad # {} PROVE FALSE
  OBVIOUS
<1>2. Bad \in SUBSET Nat
  OBVIOUS
<1>3. PICK n \in Bad : \A m \in Bad : n <= m
  <2> HIDE DEF Bad
  <2> QED BY <1>1, <1>2, LeastNat
<1>4. n \in 1 .. N
  BY <1>3
<1>5. n - 1 \notin Bad /\ n - 1 \in 0 .. N
  BY <1>3, <1>4
<1> QED
  BY <1>3, <1>4, <1>5

(* Numbering the elements of a set in their order loses none. *)
LEMMA AscendingLists ==
  ASSUME NEW S \in SUBSET Nat, IsFiniteSet(S)
  PROVE  LET a == Ascending(S) IN
         /\ IsSeq(a) /\ Len(a) = Cardinality(S) /\ Cardinality(S) \in Nat
         /\ \A k \in 1 .. Len(a) : a[k] \in S
         /\ \A i \in S : \E k \in 1 .. Len(a) : a[k] = i
<1> DEFINE N == Cardinality(S)  U(i) == {j \in S : j <= i}  T == 1 .. N
           r == [i \in S |-> Cardinality(U(i))]
<1>1. N \in Nat
  BY FS_CardinalityType
<1>2. \A i \in S : U(i) \subseteq S /\ i \in U(i) /\ IsFiniteSet(U(i))
  <2> TAKE i \in S
  <2>1. U(i) \subseteq S /\ i \in U(i)
    OBVIOUS
  <2> QED BY <2>1, FS_Subset
<1>3. \A i \in S : Cardinality(U(i)) \in T
  <2> TAKE i \in S
  <2>1. IsFiniteSet(U(i)) /\ U(i) # {} /\ U(i) \in SUBSET S
    BY <1>2
  <2> HIDE DEF U
  <2>2. Cardinality(U(i)) \in Nat /\ Cardinality(U(i)) # 0 /\ Cardinality(U(i)) <= N
    BY <2>1, FS_CardinalityType, FS_EmptySet, FS_Subset
  <2> QED BY <1>1, <2>2
<1>4. \A i, j \in S : Cardinality(U(i)) = Cardinality(U(j)) => i = j
  <2>1. ASSUME NEW i \in S, NEW j \in S, i < j, Cardinality(U(i)) = Cardinality(U(j)) PROVE FALSE
    <3>1. U(i) \subseteq U(j) /\ j \in U(j) /\ j \notin U(i) /\ IsFiniteSet(U(j))
      <4>1. i \in Nat /\ j \in Nat /\ (\A k \in S : k \in Nat) /\ ~(j <= i)
        BY <2>1
      <4>2. j \in U(j) /\ j \notin U(i)
        BY <4>1
      <4>3. \A k \in S : k <= i => k <= j
        BY <2>1, <4>1
      <4>4. U(i) \subseteq U(j)
        BY <4>3
      <4> QED BY <1>2, <4>2, <4>4
    <3> HIDE DEF U
    <3>2. U(i) = U(j)
      BY <2>1, <3>1, FS_Subset
    <3> QED BY <3>1, <3>2
  <2>2. \A i, j \in S : i = j \/ i < j \/ j < i
    OBVIOUS
  <2> HIDE DEF U
  <2> QED BY <2>1, <2>2
<1> HIDE DEF U
<1>5. r \in Injection(S, T)
  BY <1>3, <1>4 DEF Injection, IsInjective
<1>6. IsFiniteSet(T) /\ Cardinality(T) = N
  BY <1>1, FS_Interval
<1>7. r \in Surjection(S, T)
  <2> HIDE DEF r, T
  <2> QED BY <1>5, <1>6, FS_Injection
<1>8. \A k \in T : \E i \in S : Cardinality(U(i)) = k
  BY <1>7 DEF Surjection
<1> DEFINE a == Ascending(S)
<1>9. a = [k \in T |-> CHOOSE i \in S : Cardinality(U(i)) = k]
  BY DEF Ascending, U
<1> HIDE DEF a, r
<1>10. \A k \in T : a[k] \in S /\ Cardinality(U(a[k])) = k
  BY <1>8, <1>9
<1>11. a \in [1 .. N -> S]
  BY <1>9, <1>10
<1>12. a \in Seq(S) /\ Len(a) = N
  <2> HIDE DEF N
  <2> QED BY <1>1, <1>11, SeqDef, LenProperties
<1>13. \A i \in S : \E k \in T : a[k] = i
  BY <1>3, <1>4, <1>10
<1>14. IsSeq(a)
  BY <1>12, SeqIsSeq
<1> QED BY <1>1, <1>10, <1>12, <1>13, <1>14 DEF a

(* One output of a completed response. *)
After(st, item) == IF item.type = "search" THEN OnSearch(st, item.id) ELSE st

Steps(st, outputs, n, g) ==
  /\ g = [i \in 0 .. n |-> g[i]]
  /\ g[0] = st
  /\ \A i \in 1 .. n : g[i] = After(g[i - 1], outputs[i])

(* The recursion in OnSearches defines a function: the stream after each     *)
(* output.                                                                   *)
LEMMA SearchSteps ==
  ASSUME NEW st, NEW outputs, Len(outputs) \in Nat
  PROVE  \E g : Steps(st, outputs, Len(outputs), g) /\ OnSearches(st, outputs) = g[Len(outputs)]
<1> DEFINE N    == Len(outputs)
           T    == {n \in 0 .. N : \E g : Steps(st, outputs, n, g)}
           F(g) == [n \in 0 .. Len(outputs) |->
                      IF n = 0 THEN st
                      ELSE IF outputs[n].type = "search" THEN OnSearch(g[n - 1], outputs[n].id)
                      ELSE g[n - 1]]
<1>1. N \in Nat
  OBVIOUS
<1>2. 0 \in T
  <2>1. Steps(st, outputs, 0, [n \in 0 .. 0 |-> st])
    BY DEF Steps
  <2> QED BY <1>1, <2>1
<1>3. ASSUME NEW n \in 1 .. N, n - 1 \in T PROVE n \in T
  <2>1. PICK g : Steps(st, outputs, n - 1, g)
    BY <1>3
  <2> DEFINE x == After(g[n - 1], outputs[n])
             h == [i \in 0 .. n |-> IF i = n THEN x ELSE g[i]]
  <2>2. h = [i \in 0 .. n |-> h[i]] /\ h[0] = st /\ h[n] = x
    BY <1>1, <1>3, <2>1 DEF Steps
  <2>3. ASSUME NEW i \in 1 .. n PROVE h[i] = After(h[i - 1], outputs[i])
    <3>1. CASE i = n
      <4>1. h[i - 1] = g[n - 1]
        BY <1>1, <1>3, <3>1
      <4> HIDE DEF h
      <4> QED BY <2>2, <3>1, <4>1
    <3>2. CASE i # n
      <4>1. i \in 1 .. n - 1 /\ i \in 0 .. n /\ i - 1 \in 0 .. n /\ i - 1 # n
        BY <3>2, <2>3, <1>1, <1>3
      <4>2. h[i] = g[i] /\ h[i - 1] = g[i - 1]
        BY <4>1, <3>2
      <4>3. g[i] = After(g[i - 1], outputs[i])
        BY <4>1, <2>1 DEF Steps
      <4> HIDE DEF h
      <4> QED BY <4>2, <4>3
    <3> QED BY <3>1, <3>2
  <2> HIDE DEF h
  <2>4. Steps(st, outputs, n, h)
    BY <2>2, <2>3 DEF Steps
  <2> QED BY <1>1, <1>3, <2>4
<1>4. N \in T
  <2>1. \A n \in 0 .. N : n \in T
    <3> HIDE DEF N, T
    <3> QED BY <1>1, <1>2, <1>3, UpTo
  <2> QED BY <1>1, <2>1
<1>5. PICK g : Steps(st, outputs, N, g)
  BY <1>4
<1>6. g = F(g)
  <2>1. ASSUME NEW n \in 0 .. N
        PROVE  g[n] = IF n = 0 THEN st
                      ELSE IF outputs[n].type = "search" THEN OnSearch(g[n - 1], outputs[n].id)
                      ELSE g[n - 1]
    <3>1. CASE n = 0
      BY <3>1, <1>5 DEF Steps
    <3>2. CASE n # 0
      <4>1. n \in 1 .. N
        BY <1>1, <3>2
      <4>2. g[n] = After(g[n - 1], outputs[n])
        BY <4>1, <1>5 DEF Steps
      <4> QED BY <3>2, <4>2 DEF After
    <3> QED BY <3>1, <3>2
  <2> QED BY <1>5, <2>1 DEF Steps
<1> DEFINE f == CHOOSE f : f = F(f)
<1>7. f = F(f)
  BY <1>6
<1>8. OnSearches(st, outputs) = f[N]
  BY DEF OnSearches
<1>9. \A n \in 0 .. N : f[n] = g[n]
  <2> DEFINE Same == {n \in 0 .. N : f[n] = g[n]}
  <2> HIDE DEF f
  <2>0. ASSUME NEW n \in 0 .. N
        PROVE  f[n] = IF n = 0 THEN st ELSE After(f[n - 1], outputs[n])
    BY <1>7 DEF After
  <2>1. 0 \in Same
    BY <1>1, <1>5, <2>0 DEF Steps
  <2>2. ASSUME NEW n \in 1 .. N, n - 1 \in Same PROVE n \in Same
    <3>1. n \in 0 .. N /\ n # 0 /\ f[n - 1] = g[n - 1]
      BY <1>1, <2>2
    <3>2. f[n] = After(f[n - 1], outputs[n])
      BY <2>0, <3>1
    <3>3. g[n] = After(g[n - 1], outputs[n])
      BY <1>5, <2>2 DEF Steps
    <3> QED BY <3>1, <3>2, <3>3
  <2> HIDE DEF Same
  <2>3. \A n \in 0 .. N : n \in Same
    BY <1>1, <2>1, <2>2, UpTo
  <2> QED BY <2>3 DEF Same
<1>10. OnSearches(st, outputs) = g[N]
  <2> HIDE DEF f
  <2> QED BY <1>1, <1>8, <1>9
<1> QED BY <1>5, <1>10

SearchedIn(outputs, n) == {outputs[j].id : j \in {i \in 1 .. n : outputs[i].type = "search"}}

(* The outputs of a completed response show the searches that were missed. *)
LEMMA SearchesKeep ==
  ASSUME NEW st, NEW outputs, IsStream(st), Coherent(st), Len(outputs) \in Nat
  PROVE  /\ Searched(st, OnSearches(st, outputs))
         /\ OnSearches(st, outputs).emitted = st.emitted \cup SearchedIn(outputs, Len(outputs))
<1> DEFINE N == Len(outputs)
<1>1. PICK g : Steps(st, outputs, N, g) /\ OnSearches(st, outputs) = g[N]
  BY SearchSteps
<1> DEFINE T == {n \in 0 .. N : Searched(st, g[n]) /\ g[n].emitted = st.emitted \cup SearchedIn(outputs, n)}
<1>2. N \in Nat
  OBVIOUS
<1>3. 0 \in T
  <2>1. g[0] = st
    BY <1>1 DEF Steps
  <2>2. SearchedIn(outputs, 0) = {}
    BY DEF SearchedIn
  <2> QED BY <1>2, <2>1, <2>2, SelfSearched
<1>4. ASSUME NEW n \in 1 .. N, n - 1 \in T PROVE n \in T
  <2>1. g[n] = After(g[n - 1], outputs[n])
    BY <1>1 DEF Steps
  <2>2. Searched(st, g[n - 1]) /\ g[n - 1].emitted = st.emitted \cup SearchedIn(outputs, n - 1)
    BY <1>4
  <2>3. n \in 0 .. N /\ n \in 1 .. n /\ 1 .. n = (1 .. n - 1) \cup {n}
    BY <1>2, <1>4
  <2>4. CASE outputs[n].type = "search"
    <3>1. SearchedIn(outputs, n) = SearchedIn(outputs, n - 1) \cup {outputs[n].id}
      BY <2>3, <2>4 DEF SearchedIn
    <3>2. g[n] = OnSearch(g[n - 1], outputs[n].id)
      BY <2>1, <2>4 DEF After
    <3>3. Searched(g[n - 1], g[n]) /\ g[n].emitted = g[n - 1].emitted \cup {outputs[n].id}
      BY <2>2, <3>2, SearchKeeps DEF Searched
    <3>4. Searched(st, g[n])
      BY <2>2, <3>3, SearchedMore
    <3>5. g[n].emitted = st.emitted \cup SearchedIn(outputs, n)
      BY <2>2, <3>1, <3>3
    <3> QED BY <2>3, <3>4, <3>5
  <2>5. CASE outputs[n].type # "search"
    <3>1. SearchedIn(outputs, n) = SearchedIn(outputs, n - 1)
      BY <2>3, <2>5 DEF SearchedIn
    <3>2. g[n] = g[n - 1]
      BY <2>1, <2>5 DEF After
    <3> QED BY <2>2, <2>3, <3>1, <3>2
  <2> QED BY <2>4, <2>5
<1>5. N \in T
  <2>1. \A n \in 0 .. N : n \in T
    <3> HIDE DEF N, T
    <3> QED BY <1>2, <1>3, <1>4, UpTo
  <2> QED BY <1>2, <2>1
<1> QED BY <1>1, <1>5

--------------------------------------------------------------------------------
(* The events before the end, read by the bridge and by the unary decoder. *)

(* The stream after an event that reports the searches ids. *)
Kept(st, s, ids) ==
  /\ IsStream(s) /\ Coherent(s) /\ RecordsRight(s)
  /\ s.searches = st.searches \cup ids /\ s.emitted = st.emitted \cup ids

(* Nothing is learnt of a call. *)
Quiet(st, s) == s.tools = st.tools /\ s.lastTool = st.lastTool

Healthy(st) == IsStream(st) /\ Coherent(st) /\ RecordsRight(st)

(* What map_backend_event is given: the searches an event reports are noted. *)
Noted(st, e) == [st EXCEPT !.searches = @ \cup SearchIds(e)]

(* Noting the searches of an event leaves the rest of the stream. *)
LEMMA NotedHealthy ==
  ASSUME NEW st, NEW s, NEW e, Healthy(st), s = Noted(st, e)
  PROVE  /\ Healthy(s) /\ s.searches = st.searches \cup SearchIds(e)
         /\ s.tools = st.tools /\ s.lastTool = st.lastTool /\ s.emitted = st.emitted /\ s.shown = st.shown
         /\ s.recorded = st.recorded
<1> DEFINE ids == SearchIds(e)
<1>1. s = [st EXCEPT !.searches = @ \cup ids]
  BY DEF Noted
<1> HIDE DEF ids
<1>2. Fields(s) /\ SameBut(st, s, {"searches"}) /\ s.searches = st.searches \cup ids
  BY <1>1 DEF Healthy, IsStream, Fields, StreamFields, SameBut
<1>3. /\ s.tools = st.tools /\ s.lastTool = st.lastTool /\ s.emitted = st.emitted /\ s.shown = st.shown
      /\ s.recorded = st.recorded /\ s.blocks = st.blocks /\ s.completed = st.completed
      /\ s.textBlock = st.textBlock /\ s.thinkingBlock = st.thinkingBlock
  BY ONLY <1>2 DEF SameBut, StreamFields
<1>4. IsStream(s)
  BY ONLY <1>2, <1>3, Healthy(st) DEF Healthy, IsStream
<1>5. Coherent(s)
  BY <1>3, CoherentSame DEF Healthy, SameBlocks
<1>6. RecordsRight(s)
  BY <1>3, RecordsSame DEF Healthy
<1> QED BY <1>2, <1>3, <1>4, <1>5, <1>6 DEF Healthy, ids

(* An event of a healthy stream is mapped. *)
LEMMA BridgedIs ==
  ASSUME NEW st, NEW e, Healthy(st), e.type \notin {"failed", "broken"}
  PROVE  Bridged(st, e) = Mapped(Noted(st, e), e)
BY DEF Bridged, Noted, Healthy, IsStream

(* A text or reasoning event. *)
LEMMA TextEventKeeps ==
  ASSUME NEW st, NEW s, NEW e, Healthy(st), s = Bridged(st, e),
         e.type \in {"text_delta", "text_done", "reasoning_delta"}
  PROVE  Kept(st, s, {}) /\ Quiet(st, s) /\ SearchIds(e) = {}
<1>1. SearchIds(e) = {}
  BY DEF SearchIds
<1> DEFINE t == Noted(st, e)
<1>2. s = Mapped(t, e)
  BY BridgedIs
<1>3. /\ Healthy(t) /\ t.searches = st.searches \cup SearchIds(e)
      /\ t.tools = st.tools /\ t.lastTool = st.lastTool /\ t.emitted = st.emitted
  BY NotedHealthy
<1> HIDE DEF t
<1>4. Talks(t, s)
  <2>1. CASE e.type = "text_delta"
    <3>1. s = OnTextDelta(t, e)
      BY <1>2, <2>1 DEF Mapped, IsItem
    <3> QED BY <1>3, <3>1, TextDeltaTalks DEF Healthy
  <2>2. CASE e.type = "text_done"
    <3>1. s = t
      BY <1>2, <2>2 DEF Mapped, IsItem
    <3> QED BY <1>3, <3>1, SelfTalks DEF Healthy
  <2>3. CASE e.type = "reasoning_delta"
    <3>1. s = OnReasoning(t, e)
      BY <1>2, <2>3 DEF Mapped, IsItem
    <3> QED BY <1>3, <3>1, ReasoningTalks DEF Healthy
  <2> QED BY <2>1, <2>2, <2>3
<1>5. RecordsRight(s)
  BY <1>3, <1>4, TalksRecords DEF Healthy
<1> QED BY <1>1, <1>3, <1>4, <1>5 DEF Kept, Quiet, Talks

(* A search is shown; both note it. *)
LEMMA SearchEventKeeps ==
  ASSUME NEW st, NEW s, NEW t, NEW e, NEW id, Healthy(st), t = Noted(st, e), SearchIds(e) = {id},
         s = OnSearch(t, id)
  PROVE  Kept(st, s, {id}) /\ Quiet(st, s)
<1>1. /\ Healthy(t) /\ t.searches = st.searches \cup {id}
      /\ t.tools = st.tools /\ t.lastTool = st.lastTool /\ t.emitted = st.emitted
  BY NotedHealthy
<1>2. Searched(t, s) /\ s.emitted = t.emitted \cup {id}
  BY <1>1, SearchKeeps DEF Healthy
<1>3. s.tools = t.tools /\ s.lastTool = t.lastTool /\ s.searches = t.searches
  BY <1>2 DEF Searched, SameBut, StreamFields
<1>4. RecordsRight(s)
  BY <1>1, <1>2, SearchedRecords DEF Healthy
<1> QED BY <1>1, <1>2, <1>3, <1>4 DEF Kept, Quiet, Searched

(* A search that is completed. *)
LEMMA SearchCompletedKeeps ==
  ASSUME NEW st, NEW s, NEW e, Healthy(st), s = Bridged(st, e), e.type = "search_completed"
  PROVE  Kept(st, s, SearchIds(e)) /\ Quiet(st, s)
<1> DEFINE t == Noted(st, e)
<1>1. SearchIds(e) = {e.id}
  BY DEF SearchIds
<1>2. s = OnSearch(t, e.id)
  BY BridgedIs DEF Mapped, IsItem
<1> HIDE DEF t
<1>3. t = Noted(st, e)
  BY DEF t
<1> QED BY <1>1, <1>2, <1>3, SearchEventKeeps

(* An item that is no call. *)
LEMMA OtherItemKeeps ==
  ASSUME NEW st, NEW s, NEW e, Healthy(st), s = Bridged(st, e), IsItem(e),
         e.item.type \in {"message", "reasoning", "search"}
  PROVE  Kept(st, s, SearchIds(e)) /\ Quiet(st, s)
<1> DEFINE t == Noted(st, e)
<1>0. t = Noted(st, e)
  OBVIOUS
<1>1. s = OnItem(t, e)
  BY BridgedIs DEF Mapped, IsItem
<1>2. /\ Healthy(t) /\ t.searches = st.searches \cup SearchIds(e)
      /\ t.tools = st.tools /\ t.lastTool = st.lastTool /\ t.emitted = st.emitted
  BY NotedHealthy
<1> HIDE DEF t
<1>3. CASE e.item.type = "search" /\ IsDone(e)
  <2>1. SearchIds(e) = {e.item.id} /\ s = OnSearch(t, e.item.id)
    BY <1>1, <1>3 DEF SearchIds, OnItem, IsDone
  <2> QED BY <1>0, <2>1, SearchEventKeeps
<1>4. CASE ~(e.item.type = "search" /\ IsDone(e))
  <2>1. SearchIds(e) = {}
    BY <1>4 DEF SearchIds, IsItem, IsDone
  <2>2. Talks(t, s)
    <3>1. CASE e.item.type = "message"
      <4>1. s = OnMessageItem(t, ItemText(e.item, IsDone(e)))
        BY <1>1, <3>1 DEF OnItem
      <4> QED BY <1>2, <4>1, MessageItemTalks DEF Healthy
    <3>2. CASE e.item.type # "message"
      <4>1. s = t
        BY <1>1, <1>4, <3>2 DEF OnItem
      <4> QED BY <1>2, <4>1, SelfTalks DEF Healthy
    <3> QED BY <3>1, <3>2
  <2>3. RecordsRight(s)
    BY <1>2, <2>2, TalksRecords DEF Healthy
  <2> QED BY <1>2, <2>1, <2>2, <2>3 DEF Kept, Quiet, Talks
<1> QED BY <1>3, <1>4

(* A piece of arguments. *)
LEMMA ArgsEventKeeps ==
  ASSUME NEW st, NEW s, NEW e, NEW id, Healthy(st), s = Bridged(st, e), e.type = "args_delta",
         id = IF e.id # None THEN e.id ELSE st.lastTool
  PROVE  Kept(st, s, {}) /\ PieceTaken(st, s, id) /\ SearchIds(e) = {}
<1> DEFINE t == Noted(st, e)
<1>1. SearchIds(e) = {}
  BY DEF SearchIds
<1>2. s = OnArgsDelta(t, e)
  BY BridgedIs DEF Mapped, IsItem
<1>3. /\ Healthy(t) /\ t.searches = st.searches \cup SearchIds(e)
      /\ t.tools = st.tools /\ t.lastTool = st.lastTool /\ t.emitted = st.emitted
  BY NotedHealthy
<1> HIDE DEF t
<1>31. id = IF e.id # None THEN e.id ELSE t.lastTool
  BY <1>3
<1>4. /\ IsStream(s) /\ Coherent(s) /\ RecordsRight(s)
      /\ SameBut(t, s, {"blocks", "tools", "shown"}) /\ PieceTaken(t, s, id)
  BY ONLY <1>2, <1>3, <1>31, ArgsDeltaKeeps DEF Healthy
<1>5. s.lastTool = t.lastTool /\ s.searches = t.searches /\ s.emitted = t.emitted
  BY ONLY <1>4 DEF SameBut, StreamFields
<1> QED BY ONLY <1>1, <1>3, <1>4, <1>5 DEF Kept, PieceTaken

(* An item event of a call. *)
LEMMA CallEventKeeps ==
  ASSUME NEW st, NEW s, NEW e, NEW item \in Item, Healthy(st), s = Bridged(st, e), IsItem(e),
         e.item = item, item.type = "call"
  PROVE  Kept(st, s, {}) /\ CallTaken(st, s, item, IsDone(e)) /\ SearchIds(e) = {}
<1> DEFINE t == Noted(st, e)  final == IsDone(e)  call == ParsedCall(item, final)
<1>1. SearchIds(e) = {}
  BY DEF SearchIds, IsItem
<1>2. s = OnToolItem(t, call, final)
  BY BridgedIs DEF Mapped, IsItem, OnItem
<1>3. /\ Healthy(t) /\ t.searches = st.searches \cup SearchIds(e)
      /\ t.tools = st.tools /\ t.lastTool = st.lastTool /\ t.emitted = st.emitted
  BY NotedHealthy
<1>31. call = ParsedCall(item, final) /\ final \in BOOLEAN
  BY DEF IsDone
<1>32. final => call = ParsedCall(item, TRUE)
  BY DEF IsDone
<1> HIDE DEF t, call, final
<1>4. /\ IsStream(s) /\ Coherent(s) /\ RecordsRight(s)
      /\ s.searches = t.searches /\ s.emitted = t.emitted /\ CallTaken(t, s, item, final)
  BY ONLY <1>2, <1>3, <1>31, item \in Item, item.type = "call", ToolItemKeeps DEF Healthy
<1>5. CallTaken(st, s, item, final)
  BY ONLY <1>3, <1>32, <1>4 DEF CallTaken
<1>6. Kept(st, s, {})
  BY ONLY <1>1, <1>3, <1>4 DEF Kept
<1> QED BY <1>1, <1>5, <1>6 DEF final

(* The answer of the unary decoder. *)
UnaryFields == {"text", "fallback", "sawDelta", "calls", "responseId", "searches", "result"}
IsUnary(u) == u = [f \in UnaryFields |-> u[f]]

(* What the unary decoder does with an event that is no call. *)
LEMMA OtherRead ==
  ASSUME NEW u, NEW v, NEW e, IsUnary(u), v = ReadEvent(u, e),
         \/ e.type \in {"text_delta", "text_done", "reasoning_delta", "search_completed", "args_delta"}
         \/ IsItem(e) /\ e.item.type # "call"
  PROVE  IsUnary(v) /\ v.calls = u.calls /\ v.searches = u.searches \cup SearchIds(e)
<1> DEFINE ids == SearchIds(e)  w == [u EXCEPT !.searches = @ \cup ids]
<1> HIDE DEF ids
<1>1. IsUnary(w) /\ w.calls = u.calls /\ w.searches = u.searches \cup ids
  BY DEF IsUnary, UnaryFields
<1> HIDE DEF w
<1>2. IsUnary(v) /\ v.calls = w.calls /\ v.searches = w.searches
  <2>1. CASE e.type \in {"text_delta", "text_done"}
    <3>1. v = ReadText(w, e)
      <4>1. CASE e.type = "text_delta"
        BY ONLY <4>1, v = ReadEvent(u, e) DEF ReadEvent, IsItem, w, ids
      <4>2. CASE e.type = "text_done"
        BY ONLY <4>2, v = ReadEvent(u, e) DEF ReadEvent, IsItem, w, ids
      <4> QED BY <2>1, <4>1, <4>2
    <3> QED BY <1>1, <2>1, <3>1 DEF ReadText, IsUnary, UnaryFields
  <2>2. CASE e.type = "reasoning_delta"
    <3>1. v = [w EXCEPT !.fallback = <<e.word>>]
      BY <2>2 DEF ReadEvent, IsItem, w, ids
    <3> QED BY <1>1, <3>1 DEF IsUnary, UnaryFields
  <2>3. CASE e.type \in {"search_completed", "args_delta"}
    <3>1. v = w
      BY <2>3 DEF ReadEvent, IsItem, w, ids
    <3> QED BY <1>1, <3>1
  <2>4. CASE IsItem(e) /\ e.item.type # "call"
    <3>1. v = ReadItem(w, e)
      BY <2>4 DEF ReadEvent, IsItem, w, ids
    <3> QED BY <1>1, <2>4, <3>1 DEF ReadItem, IsUnary, UnaryFields
  <2> QED BY <2>1, <2>2, <2>3, <2>4
<1> QED BY <1>1, <1>2 DEF ids

(* What the unary decoder does with an item event of a call. *)
LEMMA CallRead ==
  ASSUME NEW u, NEW v, NEW e, IsUnary(u), v = ReadEvent(u, e), IsItem(e), e.item.type = "call"
  PROVE  /\ IsUnary(v) /\ v.searches = u.searches
         /\ v.calls = Upserted(u.calls, ParsedCall(e.item, IsDone(e)))
<1> DEFINE ids == SearchIds(e)  w == [u EXCEPT !.searches = @ \cup ids]
           call == ParsedCall(e.item, IsDone(e))
<1>0. ids = {}
  BY DEF SearchIds, IsItem
<1> HIDE DEF ids
<1>1. IsUnary(w) /\ w.calls = u.calls /\ w.searches = u.searches
  BY <1>0 DEF IsUnary, UnaryFields
<1> HIDE DEF w
<1>2. v = ReadItem(w, e)
  BY DEF ReadEvent, IsItem, w, ids
<1>3. v = [w EXCEPT !.calls = Upserted(@, call)]
  BY <1>2 DEF ReadItem
<1> HIDE DEF call
<1>4. IsUnary(v) /\ v.calls = Upserted(w.calls, call) /\ v.searches = w.searches
  BY <1>1, <1>3 DEF IsUnary, UnaryFields
<1> QED BY <1>1, <1>4 DEF call

--------------------------------------------------------------------------------
(* The items of a response, and what the readers know of its calls. *)

(* The calls the response has begun, and those it has finished. *)
IsCall(x)  == x.item.type = "call"
Begun(its) == {its[i].item : i \in {j \in DOMAIN its : IsCall(its[j])}}
Done(its)  == {its[i].item : i \in {j \in DOMAIN its : IsCall(its[j]) /\ its[j].done}}

Calls == {call \in Item : call.type = "call"}

ItemRecord == [item : Item, route : {"pieces", "whole", "named", "unannounced"}, sent : Nat, done : BOOLEAN]

ItemsOK(its) ==
  /\ its \in Seq(ItemRecord)
  /\ \A i \in DOMAIN its : its[i].done => its[i].sent = Len(Middle(its[i].item, its[i].route))
  /\ \A i, j \in DOMAIN its : its[i].item = its[j].item => i = j

(* What the stream knows of the calls B begun, of which D are finished:      *)
(* pieces that were mixed up (cr) spoil arguments, but no names or kinds.    *)
ToolsRight(st, B, D, cr) ==
  /\ st.lastTool # None => st.lastTool \in DOMAIN st.tools
  /\ \A id \in DOMAIN st.tools : \E call \in B : call.id = id
  /\ \A call \in D :
       /\ call.id \in DOMAIN st.tools
       /\ st.tools[call.id].name = ParsedCall(call, TRUE).name
       /\ st.tools[call.id].kind = call.kind
       /\ ~cr => st.tools[call.id].buffer = Pieces(ParsedCall(call, TRUE).arguments)

(* What the unary decoder knows of them. *)
UnaryRight(u, B, D) ==
  /\ IsUnary(u) /\ IsSeq(u.calls)
  /\ \A i, j \in DOMAIN u.calls : u.calls[i].id = u.calls[j].id => i = j
  /\ \A i \in DOMAIN u.calls : \E call \in B : call.id = u.calls[i].id
  /\ \A call \in D : \E i \in DOMAIN u.calls : u.calls[i] = ParsedCall(call, TRUE)

(* A call is known by its id. *)
LEMMA CallsDiffer ==
  ASSUME NEW a \in Calls, NEW b \in Calls, a.id = b.id
  PROVE  a = b
BY CallAssumption DEF Calls

(* Every call has an id. *)
LEMMA CallsNamed ==
  ASSUME NEW a \in Calls
  PROVE  a.id # None
BY CallAssumption DEF Calls

(* The calls begun and those finished. *)
LEMMA ItemsCalls ==
  ASSUME NEW its, ItemsOK(its)
  PROVE  /\ Begun(its) \subseteq Calls /\ Done(its) \subseteq Begun(its)
         /\ Len(its) \in Nat /\ DOMAIN its = 1 .. Len(its)
         /\ \A i \in DOMAIN its : its[i] \in ItemRecord
<1>1. Len(its) \in Nat /\ DOMAIN its = 1 .. Len(its) /\ \A i \in DOMAIN its : its[i] \in ItemRecord
  <2>1. its \in Seq(ItemRecord)
    BY DEF ItemsOK
  <2> QED BY <2>1, LenProperties
<1>2. \A i \in DOMAIN its : its[i].item \in Item
  BY <1>1 DEF ItemRecord
<1> QED BY <1>1, <1>2 DEF Begun, Done, Calls, IsCall

(* What is between the first and the last event of an item. *)
LEMMA MiddleEvents ==
  ASSUME NEW item \in Item, NEW route
  PROVE  /\ Len(Middle(item, route)) \in Nat
         /\ \A k \in 1 .. Len(Middle(item, route)) :
              LET e == Middle(item, route)[k] IN
              \/ /\ item.type # "call"
                 /\ e.type \in {"text_delta", "text_done", "reasoning_delta", "search_completed"}
              \/ /\ item.type = "call"
                 /\ e.type = "args_delta" /\ e.id = IF route = "pieces" THEN None ELSE item.id
<1> DEFINE m == Middle(item, route)
           Good(e) == \/ /\ item.type # "call"
                         /\ e.type \in {"text_delta", "text_done", "reasoning_delta", "search_completed"}
                      \/ /\ item.type = "call"
                         /\ e.type = "args_delta" /\ e.id = IF route = "pieces" THEN None ELSE item.id
<1>1. item.type \in {"message", "reasoning", "search", "call"}
  BY ItemAssumption
<1>2. item.type \in {"message", "reasoning"} => IsSeq(item.words) /\ Len(item.words) \in Nat
                                                /\ DOMAIN item.words = 1 .. Len(item.words)
  BY ItemAssumption, SeqIsSeq
<1>3. CASE route = "whole"
  <2>1. m = <<>> /\ Len(m) = 0
    BY <1>3 DEF Middle
  <2> HIDE DEF m
  <2>2. \A k \in 1 .. Len(m) : Good(m[k])
    BY <2>1
  <2> QED BY <2>1, <2>2 DEF m
<1>4. CASE route # "whole" /\ item.type = "message"
  <2> DEFINE w == item.words  n == Len(w)
             a == [i \in 1 .. n |-> TextDelta(w[i])]  d == TextDone(w)  T == {a[i] : i \in 1 .. n}
  <2>1. m = a \o <<d>>
    BY <1>2, <1>4 DEF Middle
  <2>2. a \in [1 .. n -> T] /\ n \in Nat
    BY <1>2, <1>4
  <2>3. a \in Seq(T) /\ Len(a) = n
    BY <2>2, SeqDef, LenProperties
  <2>4. \A i \in 1 .. n : a[i].type = "text_delta"
    BY DEF TextDelta
  <2>5. d.type = "text_done"
    BY DEF TextDone
  <2> HIDE DEF a, d, T, n
  <2>6. IsSeq(a) /\ m = Append(a, d)
    BY <2>1, <2>3, SeqIsSeq, ConcatOne
  <2> HIDE DEF m
  <2>7. Len(m) = n + 1 /\ (\A k \in 1 .. n : m[k] = a[k]) /\ m[n + 1] = d
    BY <2>3, <2>6, SeqAppend
  <2>8. \A k \in 1 .. Len(m) : Good(m[k])
    <3> TAKE k \in 1 .. Len(m)
    <3>1. k \in 1 .. n \/ k = n + 1
      BY <2>2, <2>7
    <3> QED BY <1>4, <2>4, <2>5, <2>7, <3>1
  <2> QED BY <2>2, <2>7, <2>8 DEF m
<1>5. CASE route # "whole" /\ item.type = "reasoning"
  <2> DEFINE w == item.words  n == Len(w)
  <2>1. m = [i \in 1 .. n |-> ReasoningDelta(w[i])] /\ n \in Nat
    BY <1>2, <1>5 DEF Middle
  <2>2. Len(m) = n
    BY <2>1
  <2>3. \A k \in 1 .. n : m[k].type = "reasoning_delta"
    BY <2>1 DEF ReasoningDelta
  <2> HIDE DEF m
  <2>4. \A k \in 1 .. Len(m) : Good(m[k])
    BY <1>5, <2>2, <2>3
  <2> QED BY <2>1, <2>2, <2>4 DEF m
<1>6. CASE route # "whole" /\ item.type = "search"
  <2>1. m = <<SearchCompleted(item.id)>> /\ Len(m) = 1
    BY <1>6 DEF Middle
  <2>2. m[1].type = "search_completed"
    BY <2>1 DEF SearchCompleted
  <2> HIDE DEF m
  <2>3. \A k \in 1 .. Len(m) : Good(m[k])
    BY <1>6, <2>1, <2>2
  <2> QED BY <2>1, <2>3 DEF m
<1>7. CASE route # "whole" /\ item.type = "call"
  <2> DEFINE p == Pieces(item.raw)  n == Len(p)  id == IF route = "pieces" THEN None ELSE item.id
  <2>1. n \in Nat /\ DOMAIN p = 1 .. n
    <3>1. \A x, y : <<x, y>> \in Seq({x, y})
      OBVIOUS
    <3>2. p = <<>> \/ \E x, y : p = <<x, y>>
      BY DEF Pieces
    <3>3. \E S : p \in Seq(S)
      <4>1. CASE p = <<>>
        BY <4>1
      <4>2. CASE \E x, y : p = <<x, y>>
        <5>1. PICK x, y : p = <<x, y>>
          BY <4>2
        <5>2. p \in Seq({x, y})
          BY <3>1, <5>1
        <5> QED BY <5>2
      <4> QED BY <3>2, <4>1, <4>2
    <3> HIDE DEF p
    <3> QED BY <3>3, LenProperties
  <2>2. m = [i \in 1 .. n |-> ArgsDelta(id, p[i])]
    BY <1>7, <2>1 DEF Middle
  <2>3. Len(m) = n
    BY <2>1, <2>2
  <2>4. \A k \in 1 .. n : m[k].type = "args_delta" /\ m[k].id = id
    BY <2>2 DEF ArgsDelta
  <2> HIDE DEF m, p
  <2>5. \A k \in 1 .. Len(m) : Good(m[k])
    BY <1>7, <2>3, <2>4
  <2> QED BY <2>1, <2>3, <2>5 DEF m
<1> QED BY <1>1, <1>3, <1>4, <1>5, <1>6, <1>7

(* An item begins. *)
LEMMA ItemBegins ==
  ASSUME NEW its, NEW item \in Item, NEW new \in ItemRecord, ItemsOK(its), new.item = item, new.done = FALSE,
         \A i \in DOMAIN its : its[i].item # item
  PROVE  LET t == Append(its, new) IN
         /\ ItemsOK(t) /\ Done(t) = Done(its)
         /\ Begun(t) = IF item.type = "call" THEN Begun(its) \cup {item} ELSE Begun(its)
         /\ item \notin Begun(its)
<1> DEFINE t == Append(its, new)  n == Len(its)
<1>1. n \in Nat /\ DOMAIN its = 1 .. n /\ its \in Seq(ItemRecord)
  BY ItemsCalls DEF ItemsOK
<1>2. t \in Seq(ItemRecord) /\ Len(t) = n + 1
      /\ (\A i \in 1 .. n : t[i] = its[i]) /\ t[n + 1] = new
  BY <1>1, AppendProperties
<1> HIDE DEF t, n
<1>3. DOMAIN t = 1 .. n + 1
  BY <1>2, LenProperties
<1>4. \A i \in 1 .. n + 1 : i \in 1 .. n \/ i = n + 1
  BY <1>1
<1>5. 1 .. n \subseteq 1 .. n + 1 /\ n + 1 \in 1 .. n + 1 /\ n + 1 \notin 1 .. n
  BY <1>1
<1>6. ItemsOK(t)
  BY <1>1, <1>2, <1>3, <1>4, <1>5 DEF ItemsOK
<1>7. Done(t) = Done(its)
  BY <1>1, <1>2, <1>3, <1>4, <1>5 DEF Done
<1>8. Begun(t) = IF item.type = "call" THEN Begun(its) \cup {item} ELSE Begun(its)
  BY <1>1, <1>2, <1>3, <1>4, <1>5 DEF Begun, IsCall
<1>9. item \notin Begun(its)
  BY DEF Begun
<1> QED BY <1>6, <1>7, <1>8, <1>9 DEF t

(* An event of an item was sent. *)
LEMMA ItemContinues ==
  ASSUME NEW its, NEW i \in DOMAIN its, ItemsOK(its), NEW t,
         its[i].sent < Len(Middle(its[i].item, its[i].route)), t = [its EXCEPT ![i].sent = @ + 1]
  PROVE  ItemsOK(t) /\ Begun(t) = Begun(its) /\ Done(t) = Done(its) /\ its[i].item \notin Done(its)
<1> DEFINE n == Len(its)
<1>1. n \in Nat /\ DOMAIN its = 1 .. n /\ (\A k \in DOMAIN its : its[k] \in ItemRecord) /\ its \in Seq(ItemRecord)
  BY ItemsCalls DEF ItemsOK
<1>2. its[i].item \in Item /\ its[i].sent \in Nat /\ its[i] \in ItemRecord
  BY <1>1 DEF ItemRecord
<1>3. ~its[i].done
  BY <1>2, MiddleEvents DEF ItemsOK
<1> DEFINE new == [its[i] EXCEPT !.sent = @ + 1]
<1>4. new \in ItemRecord /\ new.item = its[i].item /\ new.route = its[i].route /\ new.done = its[i].done
  BY <1>2 DEF ItemRecord
<1>5. t = [its EXCEPT ![i] = new]
  OBVIOUS
<1> HIDE DEF new
<1>6. t \in Seq(ItemRecord) /\ DOMAIN t = DOMAIN its
  <2>1. its \in [1 .. n -> ItemRecord]
    BY <1>1, LenProperties
  <2>2. t \in [1 .. n -> ItemRecord]
    BY ONLY <1>4, <1>5, <2>1
  <2> QED BY <1>1, <2>1, <2>2, SeqDef
<1>7. \A k \in DOMAIN its : t[k].item = its[k].item /\ t[k].route = its[k].route /\ t[k].done = its[k].done
                            /\ (k # i => t[k] = its[k])
  BY <1>4, <1>5
<1>8. ItemsOK(t)
  BY <1>3, <1>6, <1>7 DEF ItemsOK
<1>9. Begun(t) = Begun(its) /\ Done(t) = Done(its)
  BY <1>6, <1>7 DEF Begun, Done, IsCall
<1>10. its[i].item \notin Done(its)
  BY <1>3 DEF Done, ItemsOK
<1> QED BY <1>8, <1>9, <1>10

(* An item is finished. *)
LEMMA ItemEnds ==
  ASSUME NEW its, NEW i \in DOMAIN its, ItemsOK(its), NEW t,
         its[i].sent = Len(Middle(its[i].item, its[i].route)), t = [its EXCEPT ![i].done = TRUE]
  PROVE  /\ ItemsOK(t) /\ Begun(t) = Begun(its)
         /\ Done(t) = IF its[i].item.type = "call" THEN Done(its) \cup {its[i].item} ELSE Done(its)
         /\ its[i].item.type = "call" => its[i].item \in Begun(its)
<1> DEFINE n == Len(its)
<1>1. n \in Nat /\ DOMAIN its = 1 .. n /\ (\A k \in DOMAIN its : its[k] \in ItemRecord) /\ its \in Seq(ItemRecord)
  BY ItemsCalls DEF ItemsOK
<1> DEFINE new == [its[i] EXCEPT !.done = TRUE]
<1>4. new \in ItemRecord /\ new.item = its[i].item /\ new.route = its[i].route /\ new.sent = its[i].sent /\ new.done = TRUE
  BY <1>1 DEF ItemRecord
<1>5. t = [its EXCEPT ![i] = new]
  OBVIOUS
<1> HIDE DEF new
<1>6. t \in Seq(ItemRecord) /\ DOMAIN t = DOMAIN its
  <2>1. its \in [1 .. n -> ItemRecord]
    BY <1>1, LenProperties
  <2>2. t \in [1 .. n -> ItemRecord]
    BY ONLY <1>4, <1>5, <2>1
  <2> QED BY <1>1, <2>1, <2>2, SeqDef
<1>7. /\ \A k \in DOMAIN its : t[k].item = its[k].item /\ t[k].route = its[k].route /\ t[k].sent = its[k].sent
                               /\ (k # i => t[k] = its[k])
      /\ t[i].done = TRUE
  BY <1>4, <1>5
<1>8. ItemsOK(t)
  BY <1>6, <1>7 DEF ItemsOK
<1>9. Begun(t) = Begun(its)
  BY <1>6, <1>7 DEF Begun, IsCall
<1>10. Done(t) = IF its[i].item.type = "call" THEN Done(its) \cup {its[i].item} ELSE Done(its)
  BY <1>6, <1>7 DEF Done, IsCall
<1>11. its[i].item.type = "call" => its[i].item \in Begun(its)
  BY DEF Begun, IsCall
<1> QED BY <1>8, <1>9, <1>10, <1>11

(* An event that says nothing of a call. *)
LEMMA QuietRight ==
  ASSUME NEW st, NEW s, NEW B, NEW D, NEW cr, NEW B2, ToolsRight(st, B, D, cr), Quiet(st, s), B \subseteq B2
  PROVE  ToolsRight(s, B2, D, cr)
BY DEF ToolsRight, Quiet

(* A piece spoils no finished call, unless pieces were mixed up. *)
LEMMA PieceRight ==
  ASSUME NEW st, NEW s, NEW B, NEW D, NEW cr, NEW cr2, NEW id, ToolsRight(st, B, D, cr), PieceTaken(st, s, id),
         id # None => \E call \in B : call.id = id,
         cr => cr2, ~cr2 => \A call \in D : call.id # id
  PROVE  ToolsRight(s, B, D, cr2)
<1>1. s.lastTool # None => s.lastTool \in DOMAIN s.tools
  BY DEF ToolsRight, PieceTaken
<1>2. \A x \in DOMAIN s.tools : \E call \in B : call.id = x
  BY DEF ToolsRight, PieceTaken
<1>3. ASSUME NEW call \in D
      PROVE  /\ call.id \in DOMAIN s.tools
             /\ s.tools[call.id].name = ParsedCall(call, TRUE).name
             /\ s.tools[call.id].kind = call.kind
             /\ ~cr2 => s.tools[call.id].buffer = Pieces(ParsedCall(call, TRUE).arguments)
  <2>1. /\ call.id \in DOMAIN st.tools
        /\ st.tools[call.id].name = ParsedCall(call, TRUE).name
        /\ st.tools[call.id].kind = call.kind
        /\ ~cr2 => st.tools[call.id].buffer = Pieces(ParsedCall(call, TRUE).arguments)
    BY DEF ToolsRight
  <2>2. CASE call.id = id
    BY <2>1, <2>2 DEF PieceTaken
  <2>3. CASE call.id # id
    <3>1. s.tools[call.id] = st.tools[call.id] /\ call.id \in DOMAIN s.tools
      BY <2>1, <2>3 DEF PieceTaken
    <3> QED BY <2>1, <3>1
  <2> QED BY <2>2, <2>3
<1> QED BY <1>1, <1>2, <1>3 DEF ToolsRight

(* A call item: when it is finished, its arguments are whole. *)
LEMMA CallRight ==
  ASSUME NEW st, NEW s, NEW B \in SUBSET Calls, NEW D \in SUBSET B, NEW cr, NEW item \in Calls, NEW final \in BOOLEAN,
         ToolsRight(st, B, D, cr), CallTaken(st, s, item, final), final \/ item \notin D
  PROVE  ToolsRight(s, B \cup {item}, IF final THEN D \cup {item} ELSE D, cr)
<1>1. s.lastTool # None => s.lastTool \in DOMAIN s.tools
  BY DEF CallTaken
<1>2. \A x \in DOMAIN s.tools : \E call \in B \cup {item} : call.id = x
  BY DEF ToolsRight, CallTaken
<1>3. ASSUME NEW call \in IF final THEN D \cup {item} ELSE D
      PROVE  /\ call.id \in DOMAIN s.tools
             /\ s.tools[call.id].name = ParsedCall(call, TRUE).name
             /\ s.tools[call.id].kind = call.kind
             /\ ~cr => s.tools[call.id].buffer = Pieces(ParsedCall(call, TRUE).arguments)
  <2>1. CASE call = item
    <3>1. final
      BY <1>3, <2>1
    <3> QED BY <2>1, <3>1 DEF CallTaken
  <2>2. CASE call # item
    <3>1. call \in D /\ call.id # item.id
      BY <1>3, <2>2, CallsDiffer
    <3>2. s.tools[call.id] = st.tools[call.id] /\ call.id \in DOMAIN s.tools /\ call.id \in DOMAIN st.tools
      BY <3>1 DEF CallTaken, ToolsRight
    <3> QED BY <3>1, <3>2 DEF ToolsRight
  <2> QED BY <2>1, <2>2
<1> QED BY <1>1, <1>2, <1>3 DEF ToolsRight

(* The unary decoder learns nothing of a call. *)
LEMMA QuietUnary ==
  ASSUME NEW u, NEW v, NEW B, NEW D, NEW B2, UnaryRight(u, B, D), IsUnary(v), v.calls = u.calls, B \subseteq B2
  PROVE  UnaryRight(v, B2, D)
BY DEF UnaryRight

(* The decoder keeps one call for each call_id, the last it was told of. *)
LEMMA CallUnary ==
  ASSUME NEW u, NEW v, NEW B \in SUBSET Calls, NEW D \in SUBSET B, NEW item \in Calls, NEW final \in BOOLEAN,
         UnaryRight(u, B, D), IsUnary(v), v.calls = Upserted(u.calls, ParsedCall(item, final)), final \/ item \notin D
  PROVE  UnaryRight(v, B \cup {item}, IF final THEN D \cup {item} ELSE D)
<1> DEFINE a == u.calls  b == v.calls  call == ParsedCall(item, final)  n == Len(a)
           Known == \E i \in DOMAIN a : a[i].id = item.id
<1>1. call.id = item.id
  BY ParsedParts
<1>2. IsSeq(a) /\ n \in Nat /\ DOMAIN a = 1 .. n
  BY SeqDomain DEF UnaryRight
<1>3. \A i, j \in DOMAIN a : a[i].id = a[j].id => i = j
  BY DEF UnaryRight
<1>4. \A i \in DOMAIN a : \E c \in B : c.id = a[i].id
  BY DEF UnaryRight
<1>5. \A c \in D : \E i \in DOMAIN a : a[i] = ParsedCall(c, TRUE)
  BY DEF UnaryRight
<1>6. final => call = ParsedCall(item, TRUE)
  OBVIOUS
<1>7. \A c \in D : c # item => ParsedCall(c, TRUE).id # item.id
  <2> TAKE c \in D
  <2>1. ParsedCall(c, TRUE).id = c.id
    BY ParsedParts
  <2> QED BY <2>1, CallsDiffer
<1>8. b = Upserted(a, call)
  OBVIOUS
<1> HIDE DEF a, b, call, n
<1>9. CASE Known
  <2>1. b = [i \in 1 .. n |-> IF a[i].id = item.id THEN call ELSE a[i]]
    BY <1>1, <1>2, <1>8, <1>9 DEF Upserted
  <2>2. \A i \in 1 .. n : b[i] = (IF a[i].id = item.id THEN call ELSE a[i]) /\ b[i].id = a[i].id
    BY <1>1, <2>1
  <2>3. DOMAIN b = 1 .. n
    BY <2>1
  <2>4. IsSeq(b)
    <3> DEFINE T == {b[i] : i \in 1 .. n}
    <3>1. b \in [1 .. n -> T]
      BY <2>1
    <3>2. b \in Seq(T)
      BY <1>2, <3>1, SeqDef
    <3> QED BY <3>2, SeqIsSeq
  <2>5. \A i, j \in DOMAIN b : b[i].id = b[j].id => i = j
    BY <1>2, <1>3, <2>2, <2>3
  <2>6. \A i \in DOMAIN b : \E c \in B \cup {item} : c.id = b[i].id
    BY <1>2, <1>4, <2>2, <2>3
  <2>7. ASSUME NEW c \in IF final THEN D \cup {item} ELSE D PROVE \E i \in DOMAIN b : b[i] = ParsedCall(c, TRUE)
    <3>1. CASE c = item
      <4>1. final
        BY <2>7, <3>1
      <4>2. PICK i \in 1 .. n : a[i].id = item.id
        BY <1>2, <1>9
      <4> QED BY <1>6, <2>2, <2>3, <3>1, <4>1, <4>2
    <3>2. CASE c # item
      <4>1. c \in D
        BY <2>7, <3>2
      <4>2. PICK i \in 1 .. n : a[i] = ParsedCall(c, TRUE)
        BY <1>2, <1>5, <4>1
      <4>3. a[i].id # item.id
        BY <1>7, <3>2, <4>1, <4>2
      <4> QED BY <2>2, <2>3, <4>2, <4>3
    <3> QED BY <3>1, <3>2
  <2> QED BY <2>4, <2>5, <2>6, <2>7 DEF UnaryRight, b
<1>10. CASE ~Known
  <2>1. b = Append(a, call)
    BY <1>1, <1>2, <1>8, <1>10 DEF Upserted
  <2>2. IsSeq(b) /\ Len(b) = n + 1 /\ (\A k \in 1 .. n : b[k] = a[k]) /\ b[n + 1] = call
    BY <1>2, <2>1, SeqAppend DEF n
  <2>3. DOMAIN b = 1 .. n + 1
    BY <2>2, SeqDomain
  <2>31. \A i \in 1 .. n + 1 : i \in 1 .. n \/ i = n + 1
    BY <1>2
  <2>32. 1 .. n \subseteq 1 .. n + 1 /\ n + 1 \in 1 .. n + 1
    BY <1>2
  <2>4. \A i, j \in DOMAIN b : b[i].id = b[j].id => i = j
    BY <1>1, <1>2, <1>3, <1>10, <2>2, <2>3, <2>31
  <2>5. \A i \in DOMAIN b : \E c \in B \cup {item} : c.id = b[i].id
    BY <1>1, <1>2, <1>4, <2>2, <2>3, <2>31
  <2>6. ASSUME NEW c \in IF final THEN D \cup {item} ELSE D PROVE \E i \in DOMAIN b : b[i] = ParsedCall(c, TRUE)
    <3>1. CASE c = item
      <4>1. final
        BY <2>6, <3>1
      <4> QED BY <1>6, <2>2, <2>3, <2>32, <3>1, <4>1
    <3>2. CASE c # item
      <4>1. c \in D
        BY <2>6, <3>2
      <4>2. PICK i \in 1 .. n : a[i] = ParsedCall(c, TRUE)
        BY <1>2, <1>5, <4>1
      <4> QED BY <2>2, <2>3, <2>32, <4>2
    <3> QED BY <3>1, <3>2
  <2> QED BY <2>2, <2>4, <2>5, <2>6 DEF UnaryRight, b
<1> QED BY <1>9, <1>10

--------------------------------------------------------------------------------
(* A response that goes on. *)

(* What both readers were told of a response that is not over. *)
Told(st, u, B, D, cr) ==
  /\ Healthy(st) /\ ToolsRight(st, B, D, cr) /\ UnaryRight(u, B, D)
  /\ st.searches = st.emitted /\ u.searches = st.emitted

(* What was told stays right when both readers keep their part. *)
LEMMA KeptTold ==
  ASSUME NEW st, NEW s, NEW u, NEW v, NEW B, NEW D, NEW cr, NEW B2, NEW D2, NEW cr2, NEW ids,
         Told(st, u, B, D, cr), Kept(st, s, ids), ToolsRight(s, B2, D2, cr2), UnaryRight(v, B2, D2),
         v.searches = u.searches \cup ids
  PROVE  Told(s, v, B2, D2, cr2)
BY DEF Told, Kept, Healthy

(* An item event of a call, or of another item. *)
LEMMA CallEventTold ==
  ASSUME NEW st, NEW s, NEW u, NEW v, NEW e, NEW item, NEW B, NEW D, NEW cr, NEW B2, NEW D2,
         item \in Calls, B \in SUBSET Calls, D \in SUBSET B,
         Told(st, u, B, D, cr), s = Bridged(st, e), v = ReadEvent(u, e), IsItem(e), e.item = item,
         IsDone(e) \/ item \notin D, B2 = B \cup {item}, D2 = IF IsDone(e) THEN D \cup {item} ELSE D
  PROVE  Told(s, v, B2, D2, cr) /\ s.lastTool = item.id
<1> DEFINE final == IsDone(e)
<1>1. item \in Item /\ item.type = "call" /\ final \in BOOLEAN
  BY DEF Calls, IsDone
<1>2. Kept(st, s, {}) /\ CallTaken(st, s, item, final)
  BY <1>1, CallEventKeeps DEF Told
<1>3. IsUnary(v) /\ v.searches = u.searches /\ v.calls = Upserted(u.calls, ParsedCall(item, final))
  BY <1>1, CallRead DEF Told, UnaryRight
<1>4. final \/ item \notin D
  OBVIOUS
<1> HIDE DEF final
<1>5. ToolsRight(s, B \cup {item}, IF final THEN D \cup {item} ELSE D, cr)
  BY <1>1, <1>2, <1>4, CallRight DEF Told
<1>6. UnaryRight(v, B \cup {item}, IF final THEN D \cup {item} ELSE D)
  BY <1>1, <1>3, <1>4, CallUnary DEF Told
<1>7. Told(s, v, B \cup {item}, IF final THEN D \cup {item} ELSE D, cr)
  <2>1. v.searches = u.searches \cup {}
    BY <1>3
  <2> QED BY <1>2, <1>5, <1>6, <2>1, KeptTold
<1> QED BY <1>2, <1>7 DEF final, CallTaken

(* The last event of a call. *)
LEMMA CallEndTold ==
  ASSUME NEW st, NEW s, NEW u, NEW v, NEW e, NEW item, NEW B, NEW D, NEW cr,
         item \in Calls, B \in SUBSET Calls, D \in SUBSET B, item \in B,
         Told(st, u, B, D, cr), s = Bridged(st, e), v = ReadEvent(u, e), IsItem(e), e.item = item, IsDone(e)
  PROVE  Told(s, v, B, D \cup {item}, cr) /\ s.lastTool = item.id
<1> DEFINE D2 == D \cup {item}
<1>1. B = B \cup {item} /\ D2 = IF IsDone(e) THEN D \cup {item} ELSE D
  OBVIOUS
<1>2. IsDone(e) \/ item \notin D
  OBVIOUS
<1> HIDE DEF D2
<1>3. Told(s, v, B, D2, cr) /\ s.lastTool = item.id
  BY <1>1, <1>2, CallEventTold
<1> QED BY <1>3 DEF D2

(* An event that is not of a call. *)
LEMMA OtherEventTold ==
  ASSUME NEW st, NEW s, NEW u, NEW v, NEW e, NEW B, NEW D, NEW cr, Told(st, u, B, D, cr),
         s = Bridged(st, e), v = ReadEvent(u, e),
         \/ e.type \in {"text_delta", "text_done", "reasoning_delta", "search_completed"}
         \/ IsItem(e) /\ e.item.type \in {"message", "reasoning", "search"}
  PROVE  Told(s, v, B, D, cr) /\ s.lastTool = st.lastTool
<1>1. Kept(st, s, SearchIds(e)) /\ Quiet(st, s)
  <2>1. CASE e.type \in {"text_delta", "text_done", "reasoning_delta"}
    BY <2>1, TextEventKeeps DEF Told
  <2>2. CASE e.type = "search_completed"
    BY <2>2, SearchCompletedKeeps DEF Told
  <2>3. CASE IsItem(e) /\ e.item.type \in {"message", "reasoning", "search"}
    BY <2>3, OtherItemKeeps DEF Told
  <2> QED BY <2>1, <2>2, <2>3
<1>2. IsUnary(v) /\ v.calls = u.calls /\ v.searches = u.searches \cup SearchIds(e)
  BY OtherRead DEF Told, UnaryRight
<1>3. ToolsRight(s, B, D, cr)
  BY <1>1, QuietRight DEF Told
<1>4. UnaryRight(v, B, D)
  BY <1>2, QuietUnary DEF Told
<1>5. Told(s, v, B, D, cr)
  BY <1>1, <1>2, <1>3, <1>4, KeptTold
<1> QED BY <1>1, <1>5 DEF Quiet

(* The call a piece of arguments is taken for. *)
Addressed(st, e) == IF e.id # None THEN e.id ELSE st.lastTool

Names(calls, id) == \E call \in calls : call.id = id

(* A piece of arguments. *)
LEMMA ArgsEventTold ==
  \A st, s, u, v, e, B, D : \A cr, cr2 \in BOOLEAN :
     /\ Told(st, u, B, D, cr) /\ s = Bridged(st, e) /\ v = ReadEvent(u, e) /\ e.type = "args_delta"
     /\ Addressed(st, e) # None => Names(B, Addressed(st, e))
     /\ cr2 = FALSE => cr = FALSE
     /\ cr2 = FALSE => ~Names(D, Addressed(st, e))
     => Told(s, v, B, D, cr2) /\ s.lastTool = st.lastTool
<1> TAKE st, s, u, v, e, B, D
<1> TAKE cr, cr2 \in BOOLEAN
<1> HAVE /\ Told(st, u, B, D, cr) /\ s = Bridged(st, e) /\ v = ReadEvent(u, e) /\ e.type = "args_delta"
         /\ Addressed(st, e) # None => Names(B, Addressed(st, e))
         /\ cr2 = FALSE => cr = FALSE
         /\ cr2 = FALSE => ~Names(D, Addressed(st, e))
<1> DEFINE id == Addressed(st, e)
<1>0. id = IF e.id # None THEN e.id ELSE st.lastTool
  BY DEF Addressed
<1> HIDE DEF id
<1>1. Kept(st, s, {}) /\ PieceTaken(st, s, id) /\ SearchIds(e) = {}
  <2>1. Healthy(st)
    BY DEF Told
  <2> QED BY ONLY <2>1, <1>0, s = Bridged(st, e), e.type = "args_delta", ArgsEventKeeps
<1>2. IsUnary(v) /\ v.calls = u.calls /\ v.searches = u.searches \cup {}
  <2>1. IsUnary(u)
    BY DEF Told, UnaryRight
  <2>2. IsUnary(v) /\ v.calls = u.calls /\ v.searches = u.searches \cup SearchIds(e)
    BY <2>1, OtherRead
  <2> QED BY <1>1, <2>2
<1>3. ToolsRight(s, B, D, cr2)
  <2>1. (id # None => \E call \in B : call.id = id) /\ (cr2 = FALSE => \A call \in D : call.id # id)
    BY DEF id, Names
  <2> QED BY <1>1, <2>1, PieceRight DEF Told
<1>4. UnaryRight(v, B, D)
  BY <1>2, QuietUnary DEF Told
<1>5. Told(s, v, B, D, cr2)
  BY <1>1, <1>2, <1>3, <1>4, KeptTold
<1> QED BY <1>1, <1>5 DEF PieceTaken

(* A call that was begun without a word. *)
LEMMA MoreBegun ==
  ASSUME NEW st, NEW u, NEW B, NEW D, NEW cr, NEW B2, Told(st, u, B, D, cr), B \subseteq B2
  PROVE  Told(st, u, B2, D, cr)
BY DEF Told, ToolsRight, UnaryRight

(* A response that is not over. *)
Underway ==
  /\ ItemsOK(items) /\ touched = bridge.lastTool /\ crossed \in BOOLEAN
  /\ Told(bridge, unary, Begun(items), Done(items), crossed)

(* An item begins. *)
LEMMA BeginKeeps ==
  ASSUME Underway, NEW item \in Item, NEW route \in Routes(item), Begin(item, route)
  PROVE  Underway'
<1> DEFINE new == [item |-> item, route |-> route, sent |-> 0, done |-> FALSE]
<1>1. new \in ItemRecord /\ new.item = item /\ new.done = FALSE
  BY DEF ItemRecord, Routes
<1>2. items' = Append(items, new) /\ \A i \in DOMAIN items : items[i].item # item
  BY DEF Begin
<1> HIDE DEF new
<1>3. /\ ItemsOK(items') /\ Done(items') = Done(items)
      /\ Begun(items') = IF item.type = "call" THEN Begun(items) \cup {item} ELSE Begun(items)
      /\ item \notin Begun(items)
  BY <1>1, <1>2, ItemBegins DEF Underway
<1>4. Begun(items) \subseteq Calls /\ Done(items) \subseteq Begun(items)
  BY ItemsCalls DEF Underway
<1> DEFINE B == Begun(items)  D == Done(items)
<1>5. crossed' = crossed
  BY DEF Begin
<1>6. Told(bridge, unary, B, D, crossed) /\ touched = bridge.lastTool
  BY DEF Underway
<1>7. CASE route = "unannounced"
  <2>1. touched' = touched /\ bridge' = bridge /\ unary' = unary
    BY <1>7 DEF Begin
  <2>2. Told(bridge, unary, Begun(items'), D, crossed)
    BY <1>3, <1>6, MoreBegun
  <2> QED BY <1>3, <1>5, <1>6, <2>1, <2>2 DEF Underway
<1>8. CASE route # "unannounced"
  <2> DEFINE e == ItemAdded(item)
  <2>1. bridge' = Bridged(bridge, e) /\ unary' = ReadEvent(unary, e)
        /\ touched' = IF item.type = "call" THEN item.id ELSE touched
    BY <1>8 DEF Begin, Arrives
  <2>2. e.item = item /\ IsItem(e) /\ ~IsDone(e)
    BY DEF ItemAdded, IsItem, IsDone
  <2> HIDE DEF e
  <2>3. CASE item.type = "call"
    <3>1. item \in Calls /\ item \notin D
      BY <1>3, <1>4, <2>3 DEF Calls
    <3> DEFINE B2 == B \cup {item}
    <3>2. B \in SUBSET Calls /\ D \in SUBSET B /\ B2 = B \cup {item}
          /\ D = IF IsDone(e) THEN D \cup {item} ELSE D
      BY <1>4, <2>2
    <3> HIDE DEF B, D, B2
    <3>3. Told(bridge', unary', B2, D, crossed) /\ bridge'.lastTool = item.id
      BY ONLY <1>6, <2>1, <2>2, <3>1, <3>2, CallEventTold
    <3> QED BY <1>3, <1>5, <2>1, <2>2, <2>3, <3>2, <3>3 DEF Underway, B, D
  <2>4. CASE item.type # "call"
    <3>1. item.type \in {"message", "reasoning", "search"}
      BY <2>4, ItemAssumption
    <3>2. Told(bridge', unary', B, D, crossed) /\ bridge'.lastTool = bridge.lastTool
      BY ONLY <1>6, <2>1, <2>2, <3>1, OtherEventTold
    <3> QED BY <1>3, <1>5, <1>6, <2>1, <2>4, <3>2 DEF Underway
  <2> QED BY <2>3, <2>4
<1> QED BY <1>7, <1>8

(* An item goes on. *)
LEMMA ContinueKeeps ==
  ASSUME Underway, NEW i \in DOMAIN items, Continue(i)
  PROVE  Underway'
<1> DEFINE item == items[i].item  route == items[i].route  rest == Middle(item, route)
           k == items[i].sent + 1  e == rest[k]  B == Begun(items)  D == Done(items)
<1>1. /\ items' = [items EXCEPT ![i].sent = @ + 1] /\ items[i].sent < Len(rest)
      /\ bridge' = Bridged(bridge, e) /\ unary' = ReadEvent(unary, e) /\ touched' = touched
      /\ crossed' = (crossed \/ (items[i].route = "pieces" /\ item.type = "call" /\ touched # item.id))
  BY DEF Continue, Arrives
<1>2. ItemsOK(items') /\ Begun(items') = B /\ Done(items') = D /\ item \notin D
  BY <1>1, ItemContinues DEF Underway
<1>3. B \subseteq Calls /\ D \subseteq B /\ items[i] \in ItemRecord
  BY ItemsCalls DEF Underway
<1>4. item \in Item /\ items[i].sent \in Nat
  BY <1>3 DEF ItemRecord
<1>5. k \in 1 .. Len(rest)
  BY <1>1, <1>4, MiddleEvents
<1>6. \/ item.type # "call" /\ e.type \in {"text_delta", "text_done", "reasoning_delta", "search_completed"}
      \/ item.type = "call" /\ e.type = "args_delta" /\ e.id = IF route = "pieces" THEN None ELSE item.id
  BY <1>4, <1>5, MiddleEvents
<1>7. Told(bridge, unary, B, D, crossed) /\ touched = bridge.lastTool
  BY DEF Underway
<1>8. item.type = "call" => item \in B /\ item \in Calls
  BY <1>3 DEF Begun, IsCall
<1> HIDE DEF item, route, rest, e, B, D
<1>9. CASE item.type # "call"
  <2>1. Told(bridge', unary', B, D, crossed) /\ bridge'.lastTool = bridge.lastTool
    BY ONLY <1>1, <1>6, <1>7, <1>9, OtherEventTold
  <2>2. crossed' = crossed /\ crossed \in BOOLEAN
    BY <1>1, <1>9 DEF Underway
  <2> QED BY ONLY <1>1, <1>2, <1>7, <2>1, <2>2 DEF Underway
<1>10. CASE item.type = "call"
  <2> DEFINE id == IF e.id # None THEN e.id ELSE bridge.lastTool
  <2>1. e.type = "args_delta" /\ e.id = IF route = "pieces" THEN None ELSE item.id
    BY <1>6, <1>10
  <2>2. item.id # None
    BY <1>8, <1>10, CallsNamed
  <2>3. id # None => \E call \in B : call.id = id
    <3>1. bridge.lastTool # None => \E call \in B : call.id = bridge.lastTool
      BY <1>7 DEF Told, ToolsRight
    <3> QED BY <1>8, <1>10, <2>1, <3>1
  <2>4. ASSUME ~crossed', NEW call \in D PROVE call.id # id
    <3>1. id = item.id
      BY <1>1, <1>7, <1>10, <2>1, <2>2, <2>4 DEF route
    <3>2. call # item /\ call \in Calls
      BY <1>2, <1>3
    <3> QED BY <1>8, <1>10, <3>1, <3>2, CallsDiffer
  <2>5. crossed' = FALSE => crossed = FALSE
    BY <1>1 DEF Underway
  <2>6. id = Addressed(bridge, e)
    BY DEF Addressed
  <2> HIDE DEF id
  <2>7. bridge' = Bridged(bridge, e) /\ unary' = ReadEvent(unary, e) /\ Told(bridge, unary, B, D, crossed)
    BY <1>1, <1>7
  <2>9. crossed \in BOOLEAN /\ crossed' \in BOOLEAN
    BY <1>1 DEF Underway
  <2>8. Told(bridge', unary', B, D, crossed') /\ bridge'.lastTool = bridge.lastTool
    <3>1. crossed' = FALSE => \A call \in D : call.id # id
      BY ONLY <2>4
    <3>2. e.type = "args_delta"
      BY ONLY <2>1
    <3>3. Addressed(bridge, e) # None => Names(B, Addressed(bridge, e))
      BY ONLY <2>3, <2>6 DEF Names
    <3>4. crossed' = FALSE => ~Names(D, Addressed(bridge, e))
      BY ONLY <2>6, <3>1 DEF Names
    <3> QED BY ONLY <2>5, <2>7, <2>9, <3>2, <3>3, <3>4, ArgsEventTold
  <2> QED BY ONLY <1>1, <1>2, <1>7, <2>8, <2>9 DEF Underway
<1> QED BY <1>9, <1>10

(* An item is finished. *)
LEMMA FinishKeeps ==
  ASSUME Underway, NEW i \in DOMAIN items, Finish(i)
  PROVE  Underway'
<1> DEFINE item == items[i].item  e == ItemDone(item)  B == Begun(items)  D == Done(items)
<1>1. /\ items' = [items EXCEPT ![i].done = TRUE] /\ items[i].sent = Len(Middle(items[i].item, items[i].route))
      /\ bridge' = Bridged(bridge, e) /\ unary' = ReadEvent(unary, e) /\ crossed' = crossed
      /\ touched' = IF item.type = "call" THEN item.id ELSE touched
  BY DEF Finish, Arrives
<1>2. /\ ItemsOK(items') /\ Begun(items') = B
      /\ Done(items') = IF item.type = "call" THEN D \cup {item} ELSE D
      /\ item.type = "call" => item \in B
  BY <1>1, ItemEnds DEF Underway
<1>3. B \subseteq Calls /\ D \subseteq B /\ items[i] \in ItemRecord
  BY ItemsCalls DEF Underway
<1>4. item \in Item
  BY <1>3 DEF ItemRecord
<1>5. e.item = item /\ IsItem(e) /\ IsDone(e)
  BY DEF ItemDone, IsItem, IsDone
<1>6. Told(bridge, unary, B, D, crossed) /\ touched = bridge.lastTool
  BY DEF Underway
<1> HIDE DEF item, e, B, D
<1>7. CASE item.type = "call"
  <2>1. item \in Calls
    BY <1>4, <1>7 DEF Calls
  <2>2. B \in SUBSET Calls /\ D \in SUBSET B /\ item \in B
    BY <1>2, <1>3, <1>7
  <2>3. Told(bridge', unary', B, D \cup {item}, crossed) /\ bridge'.lastTool = item.id
    <3>1. bridge' = Bridged(bridge, e) /\ unary' = ReadEvent(unary, e)
      BY <1>1
    <3> QED BY ONLY <1>5, <1>6, <2>1, <2>2, <3>1, CallEndTold
  <2>4. crossed \in BOOLEAN
    BY DEF Underway
  <2> QED BY ONLY <2>4, <1>1, <1>2, <1>7, <2>2, <2>3 DEF Underway
<1>8. CASE item.type # "call"
  <2>1. item.type \in {"message", "reasoning", "search"}
    BY <1>4, <1>8, ItemAssumption
  <2>2. Told(bridge', unary', B, D, crossed) /\ bridge'.lastTool = bridge.lastTool
    BY ONLY <1>1, <1>5, <1>6, <2>1, OtherEventTold
  <2> QED BY <1>1, <1>2, <1>6, <1>8, <2>2 DEF Underway
<1> QED BY <1>7, <1>8

(* Nothing was told of a new response. *)
LEMMA InitUnderway ==
  ASSUME Init
  PROVE  Underway /\ ended = FALSE
<1>1. PICK structured \in BOOLEAN : bridge = NewStream(structured)
  BY DEF Init
<1>2. items = <<>> /\ touched = None /\ crossed = FALSE /\ ended = FALSE /\ unary = NewReading
  BY DEF Init
<1>3. ItemsOK(items) /\ Begun(items) = {} /\ Done(items) = {}
  BY <1>2 DEF ItemsOK, Begun, Done
<1>4. /\ bridge.lastTool = None /\ bridge.searches = {} /\ bridge.emitted = {} /\ DOMAIN bridge.tools = {}
      /\ bridge.shown = <<>> /\ bridge.blocks = <<>> /\ bridge.textBlock = None /\ bridge.thinkingBlock = None
  BY <1>1 DEF NewStream, EmptyObject
<1>5. IsStream(bridge)
  <2>1. Fields(bridge)
    BY <1>1 DEF NewStream, Fields, StreamFields
  <2>2. bridge.completed = FALSE /\ bridge.recorded = EmptyObject /\ bridge.tools = EmptyObject
    BY <1>1 DEF NewStream
  <2>3. bridge.recorded = [id \in DOMAIN bridge.recorded |-> bridge.recorded[id]]
    BY <2>2 DEF EmptyObject
  <2>4. bridge.tools = [id \in DOMAIN bridge.tools |-> [f \in ToolFields |-> bridge.tools[id][f]]]
    BY <2>2 DEF EmptyObject
  <2> QED BY <1>4, <2>1, <2>2, <2>3, <2>4, EmptySeq DEF IsStream
<1>6. bridge.shown \in Seq({}) /\ Len(bridge.shown) = 0 /\ Len(bridge.blocks) = 0
  BY <1>4
<1>7. IsSeq(bridge.shown) /\ 1 .. Len(bridge.shown) = {}
  BY <1>6, SeqIsSeq
<1>8. Starts(bridge.shown) = {} /\ Tools(bridge.shown) = {} /\ Searches(bridge.shown) = {}
  BY <1>7 DEF Starts, Tools, Searches
<1>9. Legal(bridge.shown, 0)
  BY <1>7, <1>8, FS_EmptySet DEF Legal
<1>10. Coherent(bridge)
  BY <1>4, <1>6, <1>7, <1>8, <1>9, FS_EmptySet DEF Coherent
<1>11. RecordsRight(bridge)
  BY <1>8 DEF RecordsRight
<1>12. IsUnary(unary) /\ unary.calls = <<>> /\ unary.searches = {}
  BY <1>2 DEF NewReading, IsUnary, UnaryFields
<1>13. IsSeq(unary.calls) /\ DOMAIN unary.calls = {}
  <2>1. <<>> \in Seq({}) /\ DOMAIN <<>> = {}
    OBVIOUS
  <2> QED BY <1>12, <2>1, SeqIsSeq
<1>14. UnaryRight(unary, {}, {})
  BY <1>12, <1>13 DEF UnaryRight
<1>15. ToolsRight(bridge, {}, {}, crossed)
  BY <1>4 DEF ToolsRight
<1> QED BY <1>2, <1>3, <1>4, <1>5, <1>10, <1>11, <1>12, <1>14, <1>15 DEF Underway, Told, Healthy

--------------------------------------------------------------------------------
(* A response that is over. *)

(* The values of the deltas of a block. *)
Inputs(sh, i) == {sh[d].value : d \in {j \in 1 .. Len(sh) : sh[j].type = "delta" /\ sh[j].index = i}}

(* Every block was stopped. *)
Stopped(sh) ==
  \A j \in Starts(sh) : \E s \in 1 .. Len(sh) : sh[s].type = "stop" /\ j < s /\ sh[s].index = sh[j].index

Asked(call) == ParsedCall(call, TRUE)

(* An answer with the calls the backend asked for, and the unary answer with *)
(* the same calls.                                                           *)
CallsAnswered(sh, calls, B) ==
  /\ \A k \in Tools(sh) : \E call \in B :
       call.id = sh[k].block.id /\ Inputs(sh, sh[k].index) = {Sanitized(Asked(call).name, Asked(call).arguments)}
  /\ Cardinality(Tools(sh)) = Len(calls)
  /\ \A i \in 1 .. Len(calls) : \E k \in Tools(sh) : \E call \in B :
       sh[k].block.id = calls[i].id /\ calls[i] = Asked(call)

(* The end of an answer, after the events sh. *)
EndsWell(st, u, sh, B, cr) ==
  \E reason, searches :
    /\ st.shown = Append(Append(sh, MessageDelta(reason, searches)), MessageStop)
    /\ Stopped(sh)
    /\ searches = Cardinality(Searches(sh)) /\ searches = Cardinality(u.searches)
    /\ IsSeq(u.calls) /\ (~cr => CallsAnswered(sh, u.calls, B))

(* A response that is over: it stopped, it failed, or it is an answer. *)
Closed(st, u, B, cr) ==
  \E sh, n :
    /\ Legal(sh, n)
    /\ \A k \in Tools(sh) : \E call \in B : call.id = sh[k].block.id
    /\ RecordsRight(st) /\ SameTools(sh, st.shown)
    /\ \/ st.shown = sh
       \/ st.shown = Append(sh, ErrorEvent)
       \/ EndsWell(st, u, sh, B, cr)

(* The events of a message make up the protocol, whatever the end. *)
Protocol(sh) ==
  /\ \A k \in 1 .. Len(sh) : sh[k].type = "start" => sh[k].index = Cardinality({j \in Starts(sh) : j <= k})
  /\ \A k \in 1 .. Len(sh) : sh[k].type = "delta" =>
       /\ \E j \in Starts(sh) : j < k /\ sh[j].index = sh[k].index
       /\ ~\E j \in 1 .. Len(sh) : sh[j].type = "stop" /\ j < k /\ sh[j].index = sh[k].index
  /\ \A k \in 1 .. Len(sh) : sh[k].type = "message_stop" => \A j \in Starts(sh) :
       \E s \in 1 .. Len(sh) : sh[s].type = "stop" /\ j < s /\ s < k /\ sh[s].index = sh[j].index
  /\ \A k \in 1 .. Len(sh) : sh[k].type \in {"message_stop", "error"} => k = Len(sh)

(* The blocks of a message that has not ended follow the protocol. *)
LEMMA LegalProtocol ==
  ASSUME NEW sh, NEW n, Legal(sh, n)
  PROVE  Protocol(sh)
<1>1. \A k \in 1 .. Len(sh) : sh[k].type \in {"start", "delta", "stop"}
  BY DEF Legal, IsContent
<1>2. \A k \in 1 .. Len(sh) : sh[k].type = "start" => sh[k].index = Cardinality({j \in Starts(sh) : j <= k})
  <2>1. SUFFICES ASSUME NEW k \in 1 .. Len(sh), sh[k].type = "start"
                 PROVE  sh[k].index = Cardinality(StartsUpTo(sh, k))
    BY DEF StartsUpTo
  <2>2. k \in Starts(sh)
    BY <2>1 DEF Starts
  <2> QED BY <2>2 DEF Legal
<1>3. ASSUME NEW k \in 1 .. Len(sh), sh[k].type = "delta"
      PROVE  /\ \E j \in Starts(sh) : j < k /\ sh[j].index = sh[k].index
             /\ ~\E j \in 1 .. Len(sh) : sh[j].type = "stop" /\ j < k /\ sh[j].index = sh[k].index
  BY <1>3 DEF Legal
<1> QED BY <1>1, <1>2, <1>3 DEF Protocol

(* The last event of a message follows its blocks. *)
LEMMA ProtocolAppend ==
  ASSUME NEW sh, NEW e, IsSeq(sh), Protocol(sh), e.type \in {"message_delta", "message_stop", "error"},
         \A k \in 1 .. Len(sh) : sh[k].type \notin {"message_stop", "error"},
         e.type = "message_stop" => \A j \in Starts(sh) :
           \E s \in 1 .. Len(sh) : sh[s].type = "stop" /\ j < s /\ sh[s].index = sh[j].index
  PROVE  LET t == Append(sh, e) IN
         /\ IsSeq(t) /\ Protocol(t) /\ Starts(t) = Starts(sh) /\ Tools(t) = Tools(sh) /\ Searches(t) = Searches(sh)
         /\ Len(t) = Len(sh) + 1 /\ t[Len(t)] = e /\ \A k \in 1 .. Len(sh) : t[k] = sh[k]
<1> DEFINE t == Append(sh, e)
<1>1. IsSeq(t) /\ Len(t) = Len(sh) + 1 /\ (\A k \in 1 .. Len(sh) : t[k] = sh[k]) /\ t[Len(sh) + 1] = e /\ Len(sh) \in Nat
  BY SeqAppend, SeqDomain
<1> HIDE DEF t
<1>2. 1 .. Len(t) = (1 .. Len(sh)) \cup {Len(t)} /\ Len(t) \notin 1 .. Len(sh)
  BY <1>1
<1>3. Starts(t) = Starts(sh)
  BY <1>1, <1>2 DEF Starts
<1>4. Starts(sh) \subseteq 1 .. Len(sh)
  BY DEF Starts
<1>5. Tools(t) = Tools(sh) /\ Searches(t) = Searches(sh)
  BY <1>1, <1>3, <1>4 DEF Tools, Searches
<1>6. ASSUME NEW k \in 1 .. Len(t), t[k].type = "start" PROVE t[k].index = Cardinality({j \in Starts(t) : j <= k})
  <2>1. k \in 1 .. Len(sh) /\ t[k] = sh[k]
    BY <1>1, <1>2, <1>6
  <2> QED BY <1>3, <1>6, <2>1 DEF Protocol
<1>7. ASSUME NEW k \in 1 .. Len(t), t[k].type = "delta"
      PROVE  /\ \E j \in Starts(t) : j < k /\ t[j].index = t[k].index
             /\ ~\E j \in 1 .. Len(t) : t[j].type = "stop" /\ j < k /\ t[j].index = t[k].index
  <2>1. k \in 1 .. Len(sh) /\ t[k] = sh[k]
    BY <1>1, <1>2, <1>7
  <2>2. PICK j \in Starts(sh) : j < k /\ sh[j].index = sh[k].index
    BY <1>7, <2>1 DEF Protocol
  <2>3. ASSUME NEW i \in 1 .. Len(t), t[i].type = "stop", i < k, t[i].index = t[k].index PROVE FALSE
    <3>1. i \in 1 .. Len(sh)
      BY <1>1, <2>1, <2>3
    <3>2. t[i] = sh[i]
      BY <3>1, <1>1
    <3> QED BY <1>7, <2>1, <2>3, <3>1, <3>2 DEF Protocol
  <2> QED BY <1>1, <1>3, <1>4, <2>1, <2>2, <2>3
<1>8. ASSUME NEW k \in 1 .. Len(t), t[k].type = "message_stop", NEW j \in Starts(t)
      PROVE  \E s \in 1 .. Len(t) : t[s].type = "stop" /\ j < s /\ s < k /\ t[s].index = t[j].index
  <2>1. k = Len(t) /\ e.type = "message_stop"
    BY <1>1, <1>2, <1>8
  <2>2. PICK s \in 1 .. Len(sh) : sh[s].type = "stop" /\ j < s /\ sh[s].index = sh[j].index
    BY <1>3, <2>1
  <2>3. t[s] = sh[s] /\ t[j] = sh[j] /\ s \in 1 .. Len(t) /\ s < k
    BY <1>1, <1>2, <1>3, <1>4, <2>1
  <2> QED BY <2>2, <2>3
<1>9. \A k \in 1 .. Len(t) : t[k].type \in {"message_stop", "error"} => k = Len(t)
  BY <1>1, <1>2
<1>10. Protocol(t)
  BY <1>6, <1>7, <1>8, <1>9 DEF Protocol
<1> QED BY <1>1, <1>3, <1>5, <1>10 DEF t

(* The two events that end an answer. *)
LEMMA AnswerEnds ==
  ASSUME NEW sh, NEW n, NEW md, NEW ms, Legal(sh, n), Stopped(sh),
         md.type = "message_delta", ms.type = "message_stop"
  PROVE  LET t == Append(Append(sh, md), ms) IN
         /\ IsSeq(t) /\ Protocol(t) /\ Len(t) = Len(sh) + 2
         /\ Starts(t) = Starts(sh) /\ Tools(t) = Tools(sh) /\ Searches(t) = Searches(sh)
         /\ \A k \in 1 .. Len(sh) : t[k] = sh[k]
         /\ t[Len(sh) + 1] = md /\ t[Len(sh) + 2] = ms
<1> DEFINE a == Append(sh, md)  t == Append(a, ms)
<1>1. IsSeq(sh) /\ Len(sh) \in Nat /\ Protocol(sh) /\ \A k \in 1 .. Len(sh) : sh[k].type \in {"start", "delta", "stop"}
  BY LegalProtocol, SeqDomain DEF Legal, IsContent
<1>2. /\ IsSeq(a) /\ Protocol(a) /\ Starts(a) = Starts(sh) /\ Tools(a) = Tools(sh) /\ Searches(a) = Searches(sh)
      /\ Len(a) = Len(sh) + 1 /\ a[Len(a)] = md /\ \A k \in 1 .. Len(sh) : a[k] = sh[k]
  BY <1>1, ProtocolAppend
<1>5. t = Append(a, ms)
  OBVIOUS
<1> HIDE DEF a, t
<1>3. \A k \in 1 .. Len(a) : a[k].type \notin {"message_stop", "error"}
  <2>1. SUFFICES ASSUME NEW k \in 1 .. Len(a) PROVE a[k].type \notin {"message_stop", "error"}
    OBVIOUS
  <2>2. CASE k = Len(a)
    BY <1>2, <2>2
  <2>3. CASE k # Len(a)
    <3>1. k \in 1 .. Len(sh)
      BY <1>1, <1>2, <2>3
    <3> QED BY <1>1, <1>2, <3>1
  <2> QED BY <2>2, <2>3
<1>4. ASSUME NEW j \in Starts(a)
      PROVE  \E s \in 1 .. Len(a) : a[s].type = "stop" /\ j < s /\ a[s].index = a[j].index
  <2>1. j \in Starts(sh) /\ j \in 1 .. Len(sh)
    BY <1>2, <1>4 DEF Starts
  <2>2. PICK s \in 1 .. Len(sh) : sh[s].type = "stop" /\ j < s /\ sh[s].index = sh[j].index
    BY <2>1 DEF Stopped
  <2>3. a[s] = sh[s] /\ a[j] = sh[j] /\ s \in 1 .. Len(a)
    BY <1>1, <1>2, <2>1
  <2> QED BY <2>2, <2>3
<1>6. /\ IsSeq(t) /\ Protocol(t) /\ Starts(t) = Starts(a) /\ Tools(t) = Tools(a) /\ Searches(t) = Searches(a)
      /\ Len(t) = Len(a) + 1 /\ t[Len(t)] = ms /\ \A k \in 1 .. Len(a) : t[k] = a[k]
  <2>1. ms.type \in {"message_delta", "message_stop", "error"}
    OBVIOUS
  <2>2. IsSeq(a) /\ Protocol(a)
    BY <1>2
  <2> QED BY ONLY <1>3, <1>4, <2>1, <2>2, ProtocolAppend DEF t
<1>7. Len(sh) + 1 \in 1 .. Len(a) /\ Len(t) = Len(sh) + 2 /\ 1 .. Len(sh) \subseteq 1 .. Len(a)
  BY <1>1, <1>2, <1>6
<1>8. t[Len(sh) + 1] = md
  BY <1>2, <1>6, <1>7
<1> QED BY <1>2, <1>6, <1>7, <1>8 DEF a, t

(* The calls of a response that has ended, or not. *)
LEMMA ClosedProtocol ==
  ASSUME NEW st, NEW u, NEW B, NEW cr, Closed(st, u, B, cr)
  PROVE  IsSeq(st.shown) /\ Protocol(st.shown)
<1>1. PICK sh, n : /\ Legal(sh, n)
                   /\ \/ st.shown = sh
                      \/ st.shown = Append(sh, ErrorEvent)
                      \/ EndsWell(st, u, sh, B, cr)
  BY DEF Closed
<1>2. IsSeq(sh) /\ Protocol(sh) /\ \A k \in 1 .. Len(sh) : sh[k].type \in {"start", "delta", "stop"}
  BY <1>1, LegalProtocol DEF Legal, IsContent
<1>3. CASE st.shown = Append(sh, ErrorEvent)
  <2>1. ErrorEvent.type = "error"
    BY DEF ErrorEvent
  <2> QED BY <1>2, <1>3, <2>1, ProtocolAppend
<1>4. CASE EndsWell(st, u, sh, B, cr)
  <2>1. PICK reason, searches : /\ st.shown = Append(Append(sh, MessageDelta(reason, searches)), MessageStop)
                                /\ Stopped(sh)
    BY <1>4 DEF EndsWell
  <2> DEFINE md == MessageDelta(reason, searches)  ms == MessageStop
  <2>2. md.type = "message_delta" /\ ms.type = "message_stop" /\ st.shown = Append(Append(sh, md), ms)
    BY <2>1 DEF MessageDelta, MessageStop
  <2> HIDE DEF md, ms
  <2>3. Legal(sh, n) /\ Stopped(sh)
    BY <1>1, <2>1
  <2> DEFINE t == st.shown
  <2>4. t = Append(Append(sh, md), ms)
    BY <2>2
  <2> HIDE DEF t
  <2>5. IsSeq(t) /\ Protocol(t)
    BY ONLY <2>2, <2>3, <2>4, AnswerEnds
  <2> QED BY <2>5 DEF t
<1> QED BY <1>1, <1>2, <1>3, <1>4

(* Protocol, said of the stream of the bridge. *)
LEMMA ProtocolFollowed ==
  ASSUME IsSeq(bridge.shown), Protocol(bridge.shown)
  PROVE  BlocksFollowProtocol
<1> DEFINE sh == bridge.shown
<1>1. DOMAIN bridge.shown = 1 .. Len(sh)
  BY SeqDomain
<1>2. /\ Shown("start") = Starts(sh)
      /\ Shown("start") = {k \in 1 .. Len(sh) : sh[k].type = "start"}
      /\ Shown("delta") = {k \in 1 .. Len(sh) : sh[k].type = "delta"}
      /\ Shown("stop") = {k \in 1 .. Len(sh) : sh[k].type = "stop"}
      /\ Shown("message_stop") = {k \in 1 .. Len(sh) : sh[k].type = "message_stop"}
      /\ LastShown = {k \in 1 .. Len(sh) : sh[k].type \in {"message_stop", "error"}}
      /\ \A k : Event(k) = sh[k]
  BY <1>1 DEF Shown, LastShown, Event, Starts
<1> HIDE DEF sh
<1>3. Protocol(sh)
  BY DEF sh
<1>4. Starts(sh) \subseteq 1 .. Len(sh)
  BY DEF Starts
<1>5. \A k \in Shown("start") : Event(k).index = Cardinality({j \in Shown("start") : j <= k})
  BY <1>2, <1>3 DEF Protocol
<1>6. \A k \in Shown("delta") :
        /\ \E j \in Shown("start") : j < k /\ Event(j).index = Event(k).index
        /\ ~\E j \in Shown("stop") : j < k /\ Event(j).index = Event(k).index
  BY <1>2, <1>3 DEF Protocol
<1>7. \A k \in Shown("message_stop") : \A j \in Shown("start") :
        \E s \in Shown("stop") : j < s /\ s < k /\ Event(s).index = Event(j).index
  BY <1>2, <1>3 DEF Protocol
<1>8. \A k \in LastShown : k = Len(bridge.shown)
  BY <1>2, <1>3 DEF Protocol, sh
<1> QED BY <1>5, <1>6, <1>7, <1>8 DEF BlocksFollowProtocol

(* A call is found among the items by its id. *)
LEMMA CallFound ==
  ASSUME ItemsOK(items), NEW call \in Begun(items)
  PROVE  Final(call.id) = Asked(call) /\ call \in Calls
<1>1. call \in Calls /\ \A i \in DOMAIN items : items[i].item \in Item
  BY ItemsCalls DEF ItemRecord
<1>2. PICK i \in DOMAIN items : items[i].item = call /\ items[i].item.type = "call"
  BY DEF Begun, IsCall
<1> DEFINE j == CallOf(call.id)
<1>3. j \in DOMAIN items /\ items[j].item.type = "call" /\ items[j].item.id = call.id
  BY <1>2 DEF CallOf
<1>4. items[j].item = call
  BY <1>1, <1>3, CallsDiffer DEF Calls
<1> QED BY <1>1, <1>4 DEF Final, Asked

(* The calls shown, in the words of the properties. *)
LEMMA ShownTools ==
  ASSUME IsSeq(bridge.shown)
  PROVE  ToolStarts = Tools(bridge.shown) /\ \A k : Event(k) = bridge.shown[k]
<1>1. DOMAIN bridge.shown = 1 .. Len(bridge.shown)
  BY SeqDomain
<1> QED BY <1>1 DEF ToolStarts, Tools, Shown, Event, Starts

(* RecordsRight, said of the calls the client sees. *)
LEMMA UsesRecorded ==
  ASSUME ItemsOK(items), IsSeq(bridge.shown), RecordsRight(bridge),
         \A k \in Tools(bridge.shown) : \E call \in Begun(items) : call.id = bridge.shown[k].block.id
  PROVE  ToolUsesRecorded
<1>1. SUFFICES ASSUME NEW k \in ToolStarts, Event(k).block.name # ""
               PROVE  /\ Event(k).block.id \in DOMAIN bridge.recorded
                      /\ bridge.recorded[Event(k).block.id] =
                           [name |-> Final(Event(k).block.id).name, kind |-> Final(Event(k).block.id).kind]
  BY DEF ToolUsesRecorded
<1> DEFINE id == Event(k).block.id
<1>0. k \in Tools(bridge.shown) /\ Event(k) = bridge.shown[k]
  BY ShownTools
<1>2. PICK call \in Begun(items) : call.id = id
  BY <1>0
<1>3. Final(id) = Asked(call) /\ call \in Calls
  BY <1>2, CallFound
<1>4. id \in DOMAIN bridge.recorded /\ bridge.recorded[id] = Row(call)
  BY <1>0, <1>1, <1>2, <1>3 DEF RecordsRight, RecordRight, Calls
<1>5. Asked(call).kind = call.kind /\ Row(call) = [name |-> Asked(call).name, kind |-> call.kind]
  BY ParsedParts DEF Row, Asked
<1> HIDE DEF id
<1>6. Row(call) = [name |-> Final(id).name, kind |-> Final(id).kind]
  BY <1>3, <1>5
<1> QED BY <1>4, <1>6 DEF id

(* Only an answer has a message_delta or a message_stop. *)
LEMMA OnlyAnswersEnd ==
  ASSUME NEW st, NEW u, NEW B, NEW cr, Closed(st, u, B, cr),
         NEW k \in 1 .. Len(st.shown), st.shown[k].type \in {"message_delta", "message_stop"}
  PROVE  \E sh, n : Legal(sh, n) /\ EndsWell(st, u, sh, B, cr)
<1>1. PICK sh, n : /\ Legal(sh, n)
                   /\ \/ st.shown = sh
                      \/ st.shown = Append(sh, ErrorEvent)
                      \/ EndsWell(st, u, sh, B, cr)
  BY DEF Closed
<1>2. IsSeq(sh) /\ Len(sh) \in Nat /\ \A i \in 1 .. Len(sh) : sh[i].type \in {"start", "delta", "stop"}
  BY <1>1, SeqDomain DEF Legal, IsContent
<1>3. ~(st.shown = sh)
  BY <1>2
<1>4. ~(st.shown = Append(sh, ErrorEvent))
  <2> SUFFICES ASSUME st.shown = Append(sh, ErrorEvent) PROVE FALSE
    OBVIOUS
  <2> DEFINE t == st.shown
  <2>1. /\ Len(t) = Len(sh) + 1 /\ t[Len(sh) + 1].type = "error"
        /\ \A i \in 1 .. Len(sh) : t[i] = sh[i]
    BY <1>2, SeqAppend DEF ErrorEvent
  <2>2. k \in 1 .. Len(sh) \/ k = Len(sh) + 1
    BY <1>2, <2>1
  <2> QED BY <1>2, <2>1, <2>2
<1> QED BY <1>1, <1>3, <1>4

(* What the two last events of an answer leave as it was. *)
LEMMA AnswerParts ==
  ASSUME NEW st, NEW u, NEW sh, NEW n, NEW B, NEW cr, Legal(sh, n), EndsWell(st, u, sh, B, cr)
  PROVE  LET t == st.shown IN
         /\ IsSeq(t) /\ Tools(t) = Tools(sh) /\ Searches(t) = Searches(sh)
         /\ \A k \in Tools(sh) : t[k] = sh[k]
         /\ \A i : Inputs(t, i) = Inputs(sh, i)
         /\ \A k \in 1 .. Len(t) : t[k].type = "message_delta" =>
              t[k].searches = Cardinality(Searches(sh)) /\ t[k].searches = Cardinality(u.searches)
         /\ IsSeq(u.calls) /\ (~cr => CallsAnswered(sh, u.calls, B))
<1>1. PICK reason, searches :
        /\ st.shown = Append(Append(sh, MessageDelta(reason, searches)), MessageStop)
        /\ Stopped(sh) /\ searches = Cardinality(Searches(sh)) /\ searches = Cardinality(u.searches)
        /\ IsSeq(u.calls) /\ (~cr => CallsAnswered(sh, u.calls, B))
  BY DEF EndsWell
<1> DEFINE md == MessageDelta(reason, searches)  ms == MessageStop  t == Append(Append(sh, md), ms)
<1>2. md.type = "message_delta" /\ md.searches = searches /\ ms.type = "message_stop" /\ st.shown = t
  BY <1>1 DEF MessageDelta, MessageStop
<1> HIDE DEF md, ms
<1>3. /\ IsSeq(t) /\ Len(t) = Len(sh) + 2 /\ Tools(t) = Tools(sh) /\ Searches(t) = Searches(sh)
      /\ \A k \in 1 .. Len(sh) : t[k] = sh[k]
      /\ t[Len(sh) + 1] = md /\ t[Len(sh) + 2] = ms
  BY <1>1, <1>2, AnswerEnds
<1> HIDE DEF t
<1>4. Len(sh) \in Nat
  BY SeqDomain DEF Legal
<1>5. \A k \in 1 .. Len(t) : k \in 1 .. Len(sh) \/ k = Len(sh) + 1 \/ k = Len(sh) + 2
  BY <1>3, <1>4
<1>6. \A k \in 1 .. Len(sh) : k \in 1 .. Len(t) /\ sh[k].type \in {"start", "delta", "stop"}
  BY <1>3, <1>4 DEF Legal, IsContent
<1>7. ASSUME NEW i PROVE Inputs(t, i) = Inputs(sh, i)
  <2>1. ASSUME NEW j \in 1 .. Len(t), t[j].type = "delta" PROVE j \in 1 .. Len(sh) /\ t[j] = sh[j]
    BY <1>2, <1>3, <1>5, <2>1
  <2>2. {j \in 1 .. Len(t) : t[j].type = "delta" /\ t[j].index = i} =
        {j \in 1 .. Len(sh) : sh[j].type = "delta" /\ sh[j].index = i}
    BY <1>3, <1>6, <2>1
  <2> QED BY <1>3, <2>2 DEF Inputs
<1>8. ASSUME NEW k \in 1 .. Len(t), t[k].type = "message_delta" PROVE t[k].searches = searches
  BY <1>2, <1>3, <1>5, <1>6, <1>8
<1>9. Tools(sh) \subseteq 1 .. Len(sh)
  BY DEF Tools, Starts
<1> QED BY <1>1, <1>2, <1>3, <1>7, <1>8, <1>9

(* The count of an answer is that of the searches shown and of the unary answer. *)
LEMMA SearchesAreCounted ==
  ASSUME NEW B, NEW cr, Closed(bridge, unary, B, cr)
  PROVE  SearchesCounted
<1> DEFINE t == bridge.shown
<1>1. IsSeq(t) /\ DOMAIN t = 1 .. Len(t)
  BY ClosedProtocol, SeqDomain
<1>2. {j \in Shown("start") : Event(j).block.type = "server_tool_use"} = Searches(t)
  BY <1>1 DEF Shown, Event, Searches, Starts
<1> SUFFICES ASSUME NEW k \in 1 .. Len(t), t[k].type = "message_delta"
             PROVE  t[k].searches = Cardinality(Searches(t)) /\ t[k].searches = Cardinality(unary.searches)
  BY <1>1, <1>2 DEF SearchesCounted, Shown, Event
<1>3. PICK sh, n : Legal(sh, n) /\ EndsWell(bridge, unary, sh, B, cr)
  BY OnlyAnswersEnd
<1>4. /\ Searches(t) = Searches(sh)
      /\ \A i \in 1 .. Len(t) : t[i].type = "message_delta" =>
              t[i].searches = Cardinality(Searches(sh)) /\ t[i].searches = Cardinality(unary.searches)
  BY <1>3, AnswerParts
<1> QED BY <1>4

(* What the calls of an answer are, for a stream whose pieces were not mixed up. *)
LEMMA CallsOfAnswer ==
  ASSUME NEW B, NEW cr, Closed(bridge, unary, B, cr), Answered, ~cr
  PROVE  /\ IsSeq(bridge.shown) /\ IsSeq(unary.calls) /\ CallsAnswered(bridge.shown, unary.calls, B)
         /\ \A k : InputsOf(k) = Inputs(bridge.shown, bridge.shown[k].index)
<1> DEFINE t == bridge.shown
<1>1. IsSeq(t) /\ DOMAIN t = 1 .. Len(t)
  BY ClosedProtocol, SeqDomain
<1>2. PICK k \in 1 .. Len(t) : t[k].type = "message_stop"
  BY <1>1 DEF Answered, Shown
<1>3. PICK sh, n : Legal(sh, n) /\ EndsWell(bridge, unary, sh, B, cr)
  BY <1>2, OnlyAnswersEnd
<1>4. /\ Tools(t) = Tools(sh) /\ (\A i \in Tools(sh) : t[i] = sh[i])
      /\ \A i : Inputs(t, i) = Inputs(sh, i)
      /\ IsSeq(unary.calls) /\ CallsAnswered(sh, unary.calls, B)
  BY <1>3, AnswerParts
<1>5. ASSUME NEW i PROVE InputsOf(i) = Inputs(t, t[i].index)
  BY <1>1 DEF InputsOf, Inputs, Shown, Event
<1>6. CallsAnswered(t, unary.calls, B)
  <2> HIDE DEF t
  <2>1. ASSUME NEW i \in Tools(t)
        PROVE  \E call \in B : /\ call.id = t[i].block.id
                              /\ Inputs(t, t[i].index) = {Sanitized(Asked(call).name, Asked(call).arguments)}
    <3>1. i \in Tools(sh) /\ t[i] = sh[i] /\ Inputs(t, t[i].index) = Inputs(sh, sh[i].index)
      BY <1>4, <2>1
    <3> QED BY <1>4, <3>1 DEF CallsAnswered
  <2>2. Cardinality(Tools(t)) = Len(unary.calls)
    BY <1>4 DEF CallsAnswered
  <2>3. ASSUME NEW i \in 1 .. Len(unary.calls)
        PROVE  \E j \in Tools(t) : \E call \in B :
                 t[j].block.id = unary.calls[i].id /\ unary.calls[i] = Asked(call)
    <3>1. PICK j \in Tools(sh), call \in B : sh[j].block.id = unary.calls[i].id /\ unary.calls[i] = Asked(call)
      BY <1>4 DEF CallsAnswered
    <3>2. j \in Tools(t) /\ t[j] = sh[j]
      BY <1>4
    <3> QED BY <3>1, <3>2
  <2> QED BY <2>1, <2>2, <2>3 DEF CallsAnswered
<1> QED BY <1>1, <1>4, <1>5, <1>6

(* The inputs of an answer are those asked for. *)
LEMMA InputsAreFaithful ==
  ASSUME ItemsOK(items), Closed(bridge, unary, Begun(items), crossed)
  PROVE  ToolInputsFaithful
<1> SUFFICES ASSUME Answered, ~crossed, NEW k \in ToolStarts
             PROVE  InputsOf(k) = {Sanitized(Final(Event(k).block.id).name, Final(Event(k).block.id).arguments)}
  BY DEF ToolInputsFaithful
<1> DEFINE t == bridge.shown
<1>1. /\ IsSeq(t) /\ CallsAnswered(t, unary.calls, Begun(items))
      /\ \A j : InputsOf(j) = Inputs(t, t[j].index)
  BY CallsOfAnswer
<1>2. k \in Tools(t) /\ Event(k) = t[k]
  BY <1>1, ShownTools
<1> HIDE DEF t
<1>3. PICK call \in Begun(items) :
        /\ call.id = t[k].block.id
        /\ Inputs(t, t[k].index) = {Sanitized(Asked(call).name, Asked(call).arguments)}
  BY <1>1, <1>2 DEF CallsAnswered
<1>4. Final(call.id) = Asked(call)
  BY CallFound
<1> QED BY <1>1, <1>2, <1>3, <1>4

(* The calls of both readers are those asked for, so they agree, the null *)
(* fields aside that the unary answer loses.                              *)
LEMMA BothHaveTheCalls ==
  ASSUME ItemsOK(items), Closed(bridge, unary, Begun(items), crossed)
  PROVE  CallsAgree
<1> SUFFICES ASSUME Answered, ~crossed
             PROVE  /\ Cardinality(ToolStarts) = Len(UnaryCalls)
                    /\ \A i \in DOMAIN UnaryCalls : \E k \in ToolStarts :
                         /\ Event(k).block.id = UnaryCalls[i].id
                         /\ \E input \in InputsOf(k) :
                              InputsOf(k) = {input} /\ UnaryCalls[i].input = WithoutNulls(input)
  BY DEF CallsAgree
<1> DEFINE t == bridge.shown  B == Begun(items)
<1>1. /\ IsSeq(t) /\ IsSeq(unary.calls) /\ CallsAnswered(t, unary.calls, B)
      /\ \A j : InputsOf(j) = Inputs(t, t[j].index)
  BY CallsOfAnswer
<1>2. ToolStarts = Tools(t) /\ \A k : Event(k) = t[k]
  BY <1>1, ShownTools
<1>3. B \subseteq Calls
  BY ItemsCalls
<1> HIDE DEF t, B
<1>4. Len(unary.calls) \in Nat /\ DOMAIN unary.calls = 1 .. Len(unary.calls)
  BY <1>1, SeqDomain
<1> DEFINE Answer(call) ==
             [id |-> call.id, input |-> WithoutNulls(Sanitized(call.name, call.arguments))]
<1>5. UnaryCalls = [i \in 1 .. Len(unary.calls) |-> Answer(unary.calls[i])]
  BY <1>4 DEF UnaryCalls
<1>6. \A call : /\ Answer(call).id = call.id
                /\ Answer(call).input = WithoutNulls(Sanitized(call.name, call.arguments))
  OBVIOUS
<1> HIDE DEF Answer
<1>7. Len(UnaryCalls) = Len(unary.calls) /\ DOMAIN UnaryCalls = 1 .. Len(unary.calls)
      /\ \A i \in 1 .. Len(unary.calls) : UnaryCalls[i] = Answer(unary.calls[i])
  <2> DEFINE T == {Answer(unary.calls[i]) : i \in 1 .. Len(unary.calls)}
  <2>1. UnaryCalls \in [1 .. Len(unary.calls) -> T]
    BY <1>5
  <2> QED BY <1>4, <1>5, <2>1
<1>8. Cardinality(ToolStarts) = Len(UnaryCalls)
  BY <1>1, <1>2, <1>7 DEF CallsAnswered
<1>9. ASSUME NEW i \in 1 .. Len(unary.calls)
      PROVE  \E k \in Tools(t) :
               /\ t[k].block.id = UnaryCalls[i].id
               /\ \E input \in InputsOf(k) :
                    InputsOf(k) = {input} /\ UnaryCalls[i].input = WithoutNulls(input)
  <2>1. PICK k \in Tools(t), call \in B : t[k].block.id = unary.calls[i].id /\ unary.calls[i] = Asked(call)
    BY <1>1 DEF CallsAnswered
  <2>2. PICK other \in B : /\ other.id = t[k].block.id
                           /\ Inputs(t, t[k].index) = {Sanitized(Asked(other).name, Asked(other).arguments)}
    BY <1>1 DEF CallsAnswered
  <2>3. call = other
    <3>1. Asked(call).id = call.id
      BY ParsedParts DEF Asked
    <3> QED BY <1>3, <2>1, <2>2, <3>1, CallsDiffer
  <2>4. UnaryCalls[i].id = unary.calls[i].id
        /\ UnaryCalls[i].input = WithoutNulls(Sanitized(Asked(call).name, Asked(call).arguments))
    BY <1>6, <1>7, <2>1
  <2>5. InputsOf(k) = {Sanitized(Asked(call).name, Asked(call).arguments)}
    BY <1>1, <2>2, <2>3
  <2> QED BY <2>1, <2>4, <2>5
<1> QED BY <1>2, <1>7, <1>8, <1>9

--------------------------------------------------------------------------------
(* The end of a response. *)

(* Events that end a message start no block. *)
LEMMA ToolsAppend ==
  ASSUME NEW sh, NEW e, IsSeq(sh), e.type # "start"
  PROVE  SameTools(sh, Append(sh, e))
<1> DEFINE t == Append(sh, e)
<1>1. Len(t) = Len(sh) + 1 /\ (\A k \in 1 .. Len(sh) : t[k] = sh[k]) /\ t[Len(sh) + 1] = e /\ Len(sh) \in Nat
  BY SeqAppend, SeqDomain
<1> HIDE DEF t
<1>2. Starts(t) = Starts(sh) /\ Starts(sh) \subseteq 1 .. Len(sh)
  BY <1>1 DEF Starts
<1> QED BY <1>1, <1>2 DEF Tools, SameTools, t

(* A stream of which no more than the end is shown. *)
LEMMA CutShort ==
  ASSUME NEW st, NEW s, NEW u, NEW v, NEW B, NEW D, NEW cr, NEW cr2, Told(st, u, B, D, cr), s.recorded = st.recorded,
         s.shown = st.shown \/ s.shown = Append(st.shown, ErrorEvent)
  PROVE  Closed(s, v, B, cr2)
<1> DEFINE sh == st.shown  n == Len(st.blocks)
<1>1. Legal(sh, n) /\ Coherent(st) /\ RecordsRight(st) /\ IsSeq(sh)
  BY DEF Told, Healthy, Coherent, Legal
<1>2. ASSUME NEW k \in Tools(sh) PROVE \E call \in B : call.id = sh[k].block.id
  <2>1. sh[k].block.id \in DOMAIN st.tools
    BY <1>1, <1>2 DEF Coherent
  <2> QED BY <2>1 DEF Told, ToolsRight
<1>3. SameTools(sh, s.shown)
  <2>1. ErrorEvent.type # "start"
    BY DEF ErrorEvent
  <2>2. SameTools(sh, Append(sh, ErrorEvent))
    BY <1>1, <2>1, ToolsAppend
  <2> QED BY <2>2 DEF SameTools
<1>4. RecordsRight(s)
  BY <1>1, <1>3, RecordsSame DEF SameTools
<1> HIDE DEF sh, n
<1>5. s.shown = sh \/ s.shown = Append(sh, ErrorEvent)
  BY DEF sh
<1> QED BY <1>1, <1>2, <1>3, <1>4, <1>5 DEF Closed

(* The response fails or is cancelled. *)
LEMMA GivenUp ==
  ASSUME NEW st, NEW s, NEW u, NEW v, NEW e, NEW B, NEW D, NEW cr, NEW cr2, Told(st, u, B, D, cr), s = Bridged(st, e),
         e.type \in {"failed", "cancelled", "broken"}
  PROVE  Closed(s, v, B, cr2)
<1>1. Healthy(st) /\ Fields(st) /\ st.completed = FALSE /\ IsSeq(st.shown)
  BY DEF Told, Healthy, IsStream, Coherent, Legal
<1>2. CASE e.type = "cancelled"
  <2>1. s = Noted(st, e)
    BY <1>1, <1>2, BridgedIs DEF Mapped, IsItem
  <2>2. s.recorded = st.recorded /\ s.shown = st.shown
    BY <1>1, <2>1, NotedHealthy
  <2> QED BY <2>2, CutShort
<1>3. CASE e.type \in {"failed", "broken"}
  <2> DEFINE t == [st EXCEPT !.completed = TRUE]
  <2>1. s = Show(t, <<ErrorEvent>>)
    BY <1>1, <1>3 DEF Bridged
  <2>2. Fields(t) /\ t.shown = st.shown /\ t.recorded = st.recorded
    BY <1>1 DEF Fields, StreamFields
  <2> HIDE DEF t
  <2>3. s.shown = t.shown \o <<ErrorEvent>> /\ s.recorded = t.recorded
    <3> DEFINE es == <<ErrorEvent>>
    <3> HIDE DEF es
    <3>1. Show(t, es).shown = t.shown \o es /\ SameBut(t, Show(t, es), {"shown"})
      BY <2>2, ShowFields
    <3>2. Show(t, es).recorded = t.recorded
      BY <3>1 DEF SameBut, StreamFields
    <3> QED BY <2>1, <3>1, <3>2 DEF es
  <2>4. s.shown = Append(st.shown, ErrorEvent) /\ s.recorded = st.recorded
    BY <1>1, <2>2, <2>3, ConcatOne
  <2> QED BY <2>4, CutShort
<1> QED BY <1>2, <1>3

(* What the arguments a call's buffer spells become. *)
ToolInput(tool) ==
  LET args == ParsedArgs(tool.kind, Spelled(tool.buffer)) IN
  IF args = None THEN None ELSE Sanitized(tool.name, args)

ToolDelta(tool) == Delta(tool.index, ToolInput(tool))

(* The inputs of the calls: one delta for each. *)
LEMMA InputsAre ==
  ASSUME NEW st, IsStream(st), Coherent(st)
  PROVE  LET ins == ToolInputs(st) IN
         /\ IsSeq(ins)
         /\ \A i \in 1 .. Len(ins) : \E id \in DOMAIN st.tools : ins[i] = ToolDelta(st.tools[id])
         /\ \A id \in DOMAIN st.tools : \E i \in 1 .. Len(ins) : ins[i] = ToolDelta(st.tools[id])
<1> DEFINE n == Len(st.blocks)  S == {st.tools[id].index : id \in DOMAIN st.tools}  calls == Ascending(S)
           Tool(i) == st.tools[CHOOSE id \in ToolIn(st, i) : TRUE]
           One(i) == Delta(calls[i], LET args == ParsedArgs(Tool(calls[i]).kind, Spelled(Tool(calls[i]).buffer)) IN
                                     IF args = None THEN None ELSE Sanitized(Tool(calls[i]).name, args))
           ins == ToolInputs(st)
<1>1. n \in Nat /\ S \subseteq 1 .. n
  BY DEF Coherent, Live, Legal
<1>2. S \in SUBSET Nat /\ IsFiniteSet(S)
  <2>1. IsFiniteSet(1 .. n)
    <3> HIDE DEF n
    <3>1. 1 \in Int /\ n \in Int
      BY <1>1
    <3> QED BY <3>1, FS_Interval
  <2> HIDE DEF S, n
  <2>2. S \in SUBSET (1 .. n)
    BY <1>1
  <2>3. IsFiniteSet(S)
    BY ONLY <2>1, <2>2, FS_Subset
  <2> QED BY <1>1, <2>3
<1>3. /\ IsSeq(calls) /\ Len(calls) \in Nat /\ DOMAIN calls = 1 .. Len(calls)
      /\ \A k \in 1 .. Len(calls) : calls[k] \in S
      /\ \A i \in S : \E k \in 1 .. Len(calls) : calls[k] = i
  <2> HIDE DEF S
  <2> QED BY <1>2, AscendingLists, SeqDomain
<1>4. ins = [i \in 1 .. Len(calls) |-> One(i)]
  BY <1>3 DEF ToolInputs
<1>5. ASSUME NEW id \in DOMAIN st.tools
      PROVE  Tool(st.tools[id].index) = st.tools[id]
  <2>1. ToolIn(st, st.tools[id].index) = {id}
    BY DEF ToolIn, Coherent
  <2> QED BY <2>1
<1>6. ASSUME NEW i \in 1 .. Len(calls), NEW id \in DOMAIN st.tools, calls[i] = st.tools[id].index
      PROVE  One(i) = ToolDelta(st.tools[id])
  <2>1. Tool(calls[i]) = st.tools[id]
    BY <1>5, <1>6
  <2> HIDE DEF Tool, calls
  <2> QED BY <1>6, <2>1 DEF ToolDelta, ToolInput
<1> HIDE DEF One, calls, ins, Tool
<1>7. IsSeq(ins) /\ Len(ins) = Len(calls) /\ \A i \in 1 .. Len(ins) : ins[i] = One(i)
  <2> DEFINE T == {One(i) : i \in 1 .. Len(calls)}
  <2>1. ins \in [1 .. Len(calls) -> T]
    BY <1>4
  <2>2. ins \in Seq(T) /\ Len(ins) = Len(calls)
    BY <1>3, <2>1
  <2> HIDE DEF T
  <2> QED BY <1>4, <2>2, SeqIsSeq
<1>8. ASSUME NEW i \in 1 .. Len(ins) PROVE \E id \in DOMAIN st.tools : ins[i] = ToolDelta(st.tools[id])
  <2>1. PICK id \in DOMAIN st.tools : calls[i] = st.tools[id].index
    BY <1>3, <1>7
  <2> QED BY <1>6, <1>7, <2>1
<1>9. ASSUME NEW id \in DOMAIN st.tools PROVE \E i \in 1 .. Len(ins) : ins[i] = ToolDelta(st.tools[id])
  <2>1. PICK i \in 1 .. Len(calls) : calls[i] = st.tools[id].index
    BY <1>3
  <2> QED BY <1>6, <1>7, <2>1
<1> QED BY <1>7, <1>8, <1>9 DEF ins

(* Two events at the end. *)
LEMMA ConcatTwo ==
  ASSUME NEW s, NEW t, NEW a, NEW b, IsSeq(s), IsSeq(t)
  PROVE  s \o (t \o <<a, b>>) = Append(Append(s \o t, a), b)
<1> DEFINE ta == Append(t, a)  tab == Append(ta, b)
<1>1. IsSeq(ta) /\ IsSeq(tab) /\ Len(ta) = Len(t) + 1 /\ Len(tab) = Len(t) + 2 /\ Len(t) \in Nat
  BY SeqAppend, SeqDomain
<1>2. t \o <<a, b>> = tab
  <2> DEFINE x == <<a, b>>  y == t \o x
  <2>1. x \in Seq({a, b}) /\ Len(x) = 2 /\ x[1] = a /\ x[2] = b
    OBVIOUS
  <2> HIDE DEF x
  <2>2. /\ IsSeq(y) /\ Len(y) = Len(t) + 2 /\ \A k \in 1 .. Len(t) : y[k] = t[k]
        /\ y[Len(t) + 1] = a /\ y[Len(t) + 2] = b
    <3>1. IsSeq(x)
      BY <2>1, SeqIsSeq
    <3>2. /\ IsSeq(y) /\ Len(y) = Len(t) + Len(x) /\ (\A k \in 1 .. Len(t) : y[k] = t[k])
          /\ \A k \in 1 .. Len(x) : y[Len(t) + k] = x[k]
      BY <3>1, SeqConcat
    <3>3. 1 \in 1 .. Len(x) /\ 2 \in 1 .. Len(x)
      BY <2>1
    <3> HIDE DEF y
    <3> QED BY <2>1, <3>2, <3>3
  <2>3. /\ \A k \in 1 .. Len(t) : tab[k] = t[k]
        /\ tab[Len(t) + 1] = a /\ tab[Len(t) + 2] = b
    <3>1. /\ \A k \in 1 .. Len(t) : ta[k] = t[k]
          /\ ta[Len(t) + 1] = a
      BY SeqAppend
    <3> HIDE DEF ta
    <3>2. /\ \A k \in 1 .. Len(ta) : tab[k] = ta[k]
          /\ tab[Len(ta) + 1] = b
      BY <1>1, SeqAppend
    <3> HIDE DEF tab
    <3> QED BY <1>1, <3>1, <3>2
  <2> HIDE DEF y, tab
  <2>4. \A k \in 1 .. Len(y) : k \in 1 .. Len(t) \/ k = Len(t) + 1 \/ k = Len(t) + 2
    BY <1>1, <2>2
  <2>5. y = tab
    BY <1>1, <2>2, <2>3, <2>4, SeqSame
  <2> QED BY <2>5 DEF y, x
<1> HIDE DEF ta
<1>3. s \o tab = Append(s \o ta, b)
  BY <1>1, ConcatMore
<1>4. s \o ta = Append(s \o t, a)
  BY ConcatMore DEF ta
<1> QED BY <1>2, <1>3, <1>4

(* The inputs of a block among the events of two lists. *)
LEMMA InputsMore ==
  ASSUME NEW sh, NEW es, NEW i, IsSeq(sh), IsSeq(es)
  PROVE  Inputs(sh \o es, i) = Inputs(sh, i) \cup Inputs(es, i)
<1> DEFINE t == sh \o es  m == Len(sh)
<1>1. /\ Len(t) = m + Len(es) /\ m \in Nat /\ Len(es) \in Nat
      /\ \A k \in 1 .. m : t[k] = sh[k]
      /\ \A k \in 1 .. Len(es) : t[m + k] = es[k]
  BY SeqConcat, SeqDomain
<1> HIDE DEF t
<1>2. ASSUME NEW v \in Inputs(t, i) PROVE v \in Inputs(sh, i) \cup Inputs(es, i)
  <2>1. PICK j \in 1 .. Len(t) : t[j].type = "delta" /\ t[j].index = i /\ t[j].value = v
    BY <1>2 DEF Inputs
  <2>2. CASE j \in 1 .. m
    BY <1>1, <2>1, <2>2 DEF Inputs
  <2>3. CASE j \notin 1 .. m
    <3>1. j - m \in 1 .. Len(es) /\ m + (j - m) = j
      BY <1>1, <2>1, <2>3
    <3>2. es[j - m] = t[j]
      BY <1>1, <3>1
    <3> QED BY <2>1, <3>1, <3>2 DEF Inputs
  <2> QED BY <2>2, <2>3
<1>3. ASSUME NEW v \in Inputs(sh, i) PROVE v \in Inputs(t, i)
  <2>1. PICK j \in 1 .. m : sh[j].type = "delta" /\ sh[j].index = i /\ sh[j].value = v
    BY <1>3 DEF Inputs
  <2>2. j \in 1 .. Len(t) /\ t[j] = sh[j]
    BY <1>1
  <2> QED BY <2>1, <2>2 DEF Inputs
<1>4. ASSUME NEW v \in Inputs(es, i) PROVE v \in Inputs(t, i)
  <2>1. PICK j \in 1 .. Len(es) : es[j].type = "delta" /\ es[j].index = i /\ es[j].value = v
    BY <1>4 DEF Inputs
  <2>2. m + j \in 1 .. Len(t) /\ t[m + j] = es[j]
    BY <1>1
  <2> QED BY <2>1, <2>2 DEF Inputs
<1> QED BY <1>2, <1>3, <1>4 DEF t

(* A stream that can still show text, although the inputs of its calls were  *)
(* shown.                                                                    *)
Writable(st) ==
  /\ Fields(st) /\ st.blocks \in Seq({TRUE}) /\ Legal(st.shown, Len(st.blocks))
  /\ st.textBlock # None => Live(st.shown, Len(st.blocks), st.textBlock)

(* What text does not touch. *)
Flushed(st, s) ==
  /\ Writable(s) /\ Len(st.blocks) <= Len(s.blocks)
  /\ SameTools(st.shown, s.shown) /\ Searches(s.shown) = Searches(st.shown)
  /\ SameBut(st, s, {"blocks", "textBlock", "shown"})
  /\ s.textBlock = st.textBlock \/ s.textBlock \notin 1 .. Len(st.blocks)
  /\ \A i \in 1 .. Len(st.blocks) : i # st.textBlock => Inputs(s.shown, i) = Inputs(st.shown, i)

(* Nothing is written: the answer is not structured, or it says nothing. *)
LEMMA SelfFlushed ==
  ASSUME NEW st, Writable(st)
  PROVE  Flushed(st, st)
<1>1. Len(st.blocks) \in Nat
  BY DEF Writable, Legal
<1> QED BY <1>1 DEF Flushed, SameTools, SameBut

(* The events shown are shown after those before. *)
LEMMA EventsPass ==
  ASSUME NEW sh, NEW n, NEW e, Legal(sh, n), e.type = "start" => e.block.type \notin {"tool_use", "server_tool_use"}
  PROVE  /\ SameTools(sh, Append(sh, e)) /\ Searches(Append(sh, e)) = Searches(sh)
         /\ \A i \in 1 .. n : \/ Inputs(Append(sh, e), i) = Inputs(sh, i)
                              \/ e.type = "delta" /\ e.index = i
<1> DEFINE t == Append(sh, e)
<1>1. IsSeq(sh) /\ Len(sh) \in Nat
  BY SeqDomain DEF Legal
<1>2. Len(t) = Len(sh) + 1 /\ (\A k \in 1 .. Len(sh) : t[k] = sh[k]) /\ t[Len(sh) + 1] = e
  BY <1>1, SeqAppend
<1> HIDE DEF t
<1>3. 1 .. Len(t) = (1 .. Len(sh)) \cup {Len(sh) + 1} /\ Len(sh) + 1 \notin 1 .. Len(sh)
  BY <1>1, <1>2
<1>4. Starts(sh) \subseteq 1 .. Len(sh) /\ Starts(sh) \subseteq Starts(t)
      /\ \A k \in Starts(t) : k \in Starts(sh) \/ (k = Len(sh) + 1 /\ e.type = "start")
  BY <1>2, <1>3 DEF Starts
<1>5. Tools(t) = Tools(sh) /\ Searches(t) = Searches(sh)
  BY <1>2, <1>4 DEF Tools, Searches
<1>6. SameTools(sh, t)
  BY <1>2, <1>4, <1>5 DEF SameTools, Tools
<1>7. ASSUME NEW i \in 1 .. n, ~(e.type = "delta" /\ e.index = i) PROVE Inputs(t, i) = Inputs(sh, i)
  <2>1. {j \in 1 .. Len(t) : t[j].type = "delta" /\ t[j].index = i} =
        {j \in 1 .. Len(sh) : sh[j].type = "delta" /\ sh[j].index = i}
    BY <1>2, <1>3, <1>7
  <2> QED BY <1>2, <2>1 DEF Inputs
<1> QED BY <1>5, <1>6, <1>7 DEF t

(* The text block of a stream is started, if it has none. *)
LEMMA TextOpens ==
  ASSUME NEW st, NEW s, Writable(st), s = WithTextBlock(st)
  PROVE  Flushed(st, s) /\ s.textBlock # None
<1>1. CASE st.textBlock # None
  <2>1. s = st
    BY <1>1 DEF WithTextBlock
  <2> QED BY <1>1, <2>1, SelfFlushed
<1>2. CASE st.textBlock = None
  <2> DEFINE n == Len(st.blocks)  a == Added(st)  b == [a EXCEPT !.textBlock = n + 1]
             e == Start(n + 1, TextBlock)  es == <<e>>
  <2>1. s = Show(b, es)
    BY <1>2 DEF WithTextBlock
  <2>2. Fields(a) /\ a.blocks = Append(st.blocks, TRUE) /\ SameBut(st, a, {"blocks"})
    BY AddedFields DEF Writable
  <2> HIDE DEF a, es
  <2>3. Fields(b) /\ b.textBlock = n + 1 /\ b.blocks = a.blocks /\ b.shown = a.shown /\ SameBut(a, b, {"textBlock"})
    BY <2>2 DEF Fields, StreamFields, SameBut
  <2> HIDE DEF b
  <2>4. Fields(s) /\ s.shown = b.shown \o es /\ SameBut(b, s, {"shown"})
    BY <2>1, <2>3, ShowFields
  <2>5. /\ s.blocks = Append(st.blocks, TRUE) /\ s.shown = st.shown \o es /\ s.textBlock = n + 1
        /\ SameBut(st, s, {"blocks", "textBlock", "shown"})
    BY ONLY <2>2, <2>3, <2>4 DEF SameBut, StreamFields
  <2>6. e.type = "start" /\ e.index = n + 1 /\ e.block.type = "text"
    BY DEF Start, TextBlock
  <2> HIDE DEF e
  <2>7. IsSeq(st.shown) /\ s.shown = Append(st.shown, e)
    BY <2>5, ConcatOne DEF Writable, Legal, es
  <2>8. s.blocks \in Seq({TRUE}) /\ Len(s.blocks) = n + 1 /\ n \in Nat
    BY <2>5, BlocksAdded DEF Writable
  <2>9. Legal(s.shown, n + 1)
    BY <2>6, <2>7, LegalStart DEF Writable
  <2>10. Live(s.shown, n + 1, n + 1)
    <3>1. ASSUME NEW k \in 1 .. Len(s.shown), s.shown[k].type = "stop" PROVE s.shown[k].index # n + 1
      <4>1. /\ Len(s.shown) = Len(st.shown) + 1 /\ (\A i \in 1 .. Len(st.shown) : s.shown[i] = st.shown[i])
            /\ s.shown[Len(st.shown) + 1] = e /\ Len(st.shown) \in Nat
        BY <2>7, SeqAppend, SeqDomain
      <4>2. k \in 1 .. Len(st.shown)
        BY <2>6, <3>1, <4>1
      <4>3. st.shown[k].index \in 1 .. n
        BY <4>2 DEF Writable, Legal, IsContent
      <4> QED BY <2>8, <4>1, <4>2, <4>3
    <3> QED BY <2>8, <3>1 DEF Live
  <2>11. /\ SameTools(st.shown, s.shown) /\ Searches(s.shown) = Searches(st.shown)
         /\ \A i \in 1 .. n : Inputs(s.shown, i) = Inputs(st.shown, i)
    BY <2>6, <2>7, EventsPass DEF Writable
  <2>12. Writable(s)
    BY <2>4, <2>5, <2>8, <2>9, <2>10 DEF Writable
  <2>13. s.textBlock # None /\ s.textBlock \notin 1 .. n
    BY <2>5, <2>8, NoneIsNoIndex
  <2> QED BY <2>5, <2>8, <2>11, <2>12, <2>13 DEF Flushed
<1> QED BY <1>1, <1>2

(* The words of a structured answer are flushed. *)
LEMMA TextFlushes ==
  ASSUME NEW st, NEW words, Writable(st)
  PROVE  Flushed(st, ShowText(st, words))
<1> DEFINE s == WithTextBlock(st)
<1>1. Flushed(st, s) /\ s.textBlock # None
  BY TextOpens
<1> DEFINE e == Delta(s.textBlock, words)  es == <<e>>  t == Show(s, es)
<1>2. ShowText(st, words) = t
  BY DEF ShowText
<1> HIDE DEF s, es
<1>3. Writable(s) /\ Fields(s) /\ Len(st.blocks) \in Nat /\ Len(s.blocks) \in Nat
  BY <1>1 DEF Flushed, Writable, Legal
<1>4. Fields(t) /\ t.shown = s.shown \o es /\ SameBut(s, t, {"shown"})
  BY <1>3, ShowFields
<1> HIDE DEF t
<1>5. e.type = "delta" /\ e.index = s.textBlock
  BY DEF Delta
<1> HIDE DEF e
<1>6. IsSeq(s.shown) /\ t.shown = Append(s.shown, e)
  BY <1>3, <1>4, ConcatOne DEF Writable, Legal, es
<1>7. t.textBlock = s.textBlock /\ t.blocks = s.blocks /\ SameBut(st, t, {"blocks", "textBlock", "shown"})
  BY <1>1, <1>4 DEF Flushed, SameBut, StreamFields
<1>8. Legal(s.shown, Len(s.blocks)) /\ Live(s.shown, Len(s.blocks), s.textBlock)
  BY <1>1, <1>3 DEF Writable
<1>9. IsSeq(es) /\ Len(es) = 1 /\ es[1] = e
  <2>1. es \in Seq({e}) /\ Len(es) = 1 /\ es[1] = e
    BY DEF es
  <2> QED BY <2>1, SeqIsSeq
<1>10. 1 .. Len(es) = {1}
  BY <1>9
<1>11. Legal(t.shown, Len(s.blocks))
  BY <1>4, <1>5, <1>8, <1>9, <1>10, LegalMore
<1>12. Live(t.shown, Len(s.blocks), s.textBlock)
  BY <1>3, <1>4, <1>5, <1>8, <1>9, <1>10, LiveMore
<1>13. Writable(t)
  BY <1>3, <1>4, <1>7, <1>11, <1>12 DEF Writable
<1>14. /\ SameTools(s.shown, t.shown) /\ Searches(t.shown) = Searches(s.shown)
       /\ \A i \in 1 .. Len(s.blocks) : Inputs(t.shown, i) = Inputs(s.shown, i) \/ s.textBlock = i
  BY <1>5, <1>6, <1>8, EventsPass
<1>15. ASSUME NEW i \in 1 .. Len(st.blocks), i # st.textBlock PROVE Inputs(t.shown, i) = Inputs(st.shown, i)
  <2>1. i \in 1 .. Len(s.blocks) /\ s.textBlock # i /\ Inputs(s.shown, i) = Inputs(st.shown, i)
    BY <1>1, <1>3, <1>15 DEF Flushed
  <2> QED BY <1>14, <2>1
<1>16. SameTools(st.shown, t.shown) /\ Searches(t.shown) = Searches(st.shown)
  BY <1>1, <1>14 DEF Flushed, SameTools
<1>17. Flushed(st, t)
  BY <1>1, <1>7, <1>13, <1>15, <1>16 DEF Flushed
<1> QED BY <1>2, <1>17

(* The stops of the blocks that are open, which are all. *)
LEMMA AllStop ==
  ASSUME NEW st, NEW open, NEW stops, Writable(st), open = OpenBlocks(st), stops = [i \in DOMAIN open |-> Stop(open[i])]
  PROVE  /\ IsSeq(stops)
         /\ \A k \in 1 .. Len(stops) : stops[k].type = "stop" /\ stops[k].index \in 1 .. Len(st.blocks)
         /\ \A i \in 1 .. Len(st.blocks) : \E k \in 1 .. Len(stops) : stops[k].index = i
<1> DEFINE n == Len(st.blocks)  S == {i \in DOMAIN st.blocks : st.blocks[i]}
<1>1. n \in Nat /\ S = 1 .. n
  <2> DEFINE blocks == st.blocks
  <2>0. blocks \in Seq({TRUE})
    BY DEF Writable
  <2> HIDE DEF blocks
  <2>1. n \in Nat /\ DOMAIN st.blocks = 1 .. n /\ \A i \in 1 .. n : st.blocks[i] \in {TRUE}
    <3>1. Len(blocks) \in Nat /\ DOMAIN blocks = 1 .. Len(blocks)
      BY <2>0, SeqIsSeq
    <3>2. \A i \in 1 .. Len(blocks) : blocks[i] \in {TRUE}
      BY <2>0, ElementOfSeq
    <3> QED BY <3>1, <3>2 DEF blocks
  <2>2. \A i \in 1 .. n : st.blocks[i] = TRUE
    BY <2>1
  <2> QED BY <2>1, <2>2
<1>2. open = Ascending(S)
  BY DEF OpenBlocks
<1> HIDE DEF S, n
<1>3. S \in SUBSET Nat /\ IsFiniteSet(S)
  <2>1. 1 \in Int /\ n \in Int
    BY <1>1
  <2>2. IsFiniteSet(1 .. n)
    BY <2>1, FS_Interval
  <2> QED BY <1>1, <2>2
<1>4. /\ IsSeq(open) /\ Len(open) \in Nat /\ DOMAIN open = 1 .. Len(open)
      /\ \A k \in 1 .. Len(open) : open[k] \in S
      /\ \A i \in S : \E k \in 1 .. Len(open) : open[k] = i
  BY <1>2, <1>3, AscendingLists, SeqDomain
<1> DEFINE One(k) == Stop(open[k])  T == {One(k) : k \in 1 .. Len(open)}
<1>5. stops = [k \in 1 .. Len(open) |-> One(k)]
  BY <1>4
<1>6. \A k : One(k).type = "stop" /\ One(k).index = open[k]
  BY DEF Stop
<1> HIDE DEF One
<1>7. stops \in Seq(T) /\ Len(stops) = Len(open) /\ \A k \in 1 .. Len(open) : stops[k] = One(k)
  <2>1. stops \in [1 .. Len(open) -> T]
    BY <1>5
  <2> QED BY <1>4, <1>5, <2>1
<1> HIDE DEF T
<1>8. IsSeq(stops)
  BY <1>7, SeqIsSeq
<1>9. ASSUME NEW k \in 1 .. Len(stops) PROVE stops[k].type = "stop" /\ stops[k].index = open[k] /\ open[k] \in 1 .. n
  <2>1. k \in 1 .. Len(open) /\ stops[k] = One(k)
    BY <1>7
  <2> QED BY <1>1, <1>4, <1>6, <2>1
<1>10. ASSUME NEW i \in 1 .. n PROVE \E k \in 1 .. Len(stops) : stops[k].index = i
  <2>1. PICK k \in 1 .. Len(open) : open[k] = i
    BY <1>1, <1>4
  <2> QED BY <1>7, <1>9, <2>1
<1> QED BY <1>8, <1>9, <1>10 DEF n

(* finalize_message: an answer whose blocks are all stopped. *)
LEMMA AnswerFinal ==
  ASSUME NEW st, NEW f, Writable(st), f = Finalized(st)
  PROVE  \E sh, n, reason :
           /\ Legal(sh, n) /\ Stopped(sh)
           /\ f.shown = Append(Append(sh, MessageDelta(reason, Cardinality(st.searches))), MessageStop)
           /\ f.recorded = st.recorded
           /\ SameTools(st.shown, sh) /\ Searches(sh) = Searches(st.shown)
           /\ \A i \in 1 .. Len(st.blocks) : i # st.textBlock => Inputs(sh, i) = Inputs(st.shown, i)
<1> DEFINE s == IF st.structured /\ ~IsBlank(st.buffer) THEN ShowText(st, CleanedUp(TRUE, st.buffer)) ELSE st
           open == OpenBlocks(s)  stops == [i \in DOMAIN open |-> Stop(open[i])]
           reason == IF s.tools = EmptyObject THEN "end_turn" ELSE "tool_use"
           md == MessageDelta(reason, Cardinality(s.searches))  ms == MessageStop
           Closing(blocks) == [i \in DOMAIN blocks |-> FALSE]
           t == [s EXCEPT !.completed = TRUE, !.blocks = Closing(@)]
<1>1. f = Show(t, stops \o <<md, ms>>)
  BY DEF Finalized
<1>2. Flushed(st, s)
  <2>1. CASE st.structured /\ ~IsBlank(st.buffer)
    BY <2>1, TextFlushes
  <2>2. CASE ~(st.structured /\ ~IsBlank(st.buffer))
    BY <2>2, SelfFlushed
  <2> QED BY <2>1, <2>2
<1> HIDE DEF s, Closing
<1>3. Writable(s) /\ Fields(s) /\ s.searches = st.searches /\ s.recorded = st.recorded
  BY <1>2 DEF Flushed, Writable, SameBut, StreamFields
<1>4. Fields(t) /\ t.shown = s.shown /\ t.recorded = s.recorded
  BY <1>3 DEF Fields, StreamFields
<1> HIDE DEF t
<1>5. /\ IsSeq(stops)
      /\ \A k \in 1 .. Len(stops) : stops[k].type = "stop" /\ stops[k].index \in 1 .. Len(s.blocks)
      /\ \A i \in 1 .. Len(s.blocks) : \E k \in 1 .. Len(stops) : stops[k].index = i
  <2>1. open = OpenBlocks(s) /\ stops = [i \in DOMAIN open |-> Stop(open[i])]
    OBVIOUS
  <2> HIDE DEF open, stops
  <2> QED BY ONLY <1>3, <2>1, AllStop
<1> HIDE DEF stops
<1> DEFINE es == stops \o <<md, ms>>  sh == s.shown \o stops
<1>6. f.shown = t.shown \o es /\ f.recorded = t.recorded
  <2> HIDE DEF es
  <2>1. Show(t, es).shown = t.shown \o es /\ SameBut(t, Show(t, es), {"shown"})
    BY <1>4, ShowFields
  <2>2. Show(t, es).recorded = t.recorded
    BY <2>1 DEF SameBut, StreamFields
  <2>3. f = Show(t, es)
    BY <1>1 DEF es
  <2> QED BY <2>1, <2>2, <2>3
<1>7. IsSeq(s.shown) /\ Legal(s.shown, Len(s.blocks))
  BY <1>3 DEF Writable, Legal
<1> HIDE DEF md, ms
<1>8. f.shown = Append(Append(sh, md), ms)
  <2>1. f.shown = s.shown \o (stops \o <<md, ms>>)
    BY <1>4, <1>6
  <2>2. s.shown \o (stops \o <<md, ms>>) = Append(Append(s.shown \o stops, md), ms)
    <3> DEFINE sn == s.shown
    <3>1. IsSeq(sn) /\ IsSeq(stops)
      BY <1>5, <1>7
    <3> HIDE DEF sn
    <3>2. sn \o (stops \o <<md, ms>>) = Append(Append(sn \o stops, md), ms)
      BY ONLY <3>1, ConcatTwo
    <3> QED BY <3>2 DEF sn
  <2> QED BY <2>1, <2>2
<1>9. Legal(sh, Len(s.blocks))
  BY <1>5, <1>7, LegalMore
<1>10. /\ Len(sh) = Len(s.shown) + Len(stops) /\ Len(s.shown) \in Nat /\ Len(stops) \in Nat
       /\ \A k \in 1 .. Len(s.shown) : sh[k] = s.shown[k]
       /\ \A k \in 1 .. Len(stops) : sh[Len(s.shown) + k] = stops[k]
  BY <1>5, <1>7, SeqConcat, SeqDomain
<1>11. Starts(sh) = Starts(s.shown) /\ Tools(sh) = Tools(s.shown) /\ Searches(sh) = Searches(s.shown)
  BY <1>5, <1>7, KindsMore
<1>12. \A i : Inputs(sh, i) = Inputs(s.shown, i)
  <2> TAKE i
  <2>1. Inputs(sh, i) = Inputs(s.shown, i) \cup Inputs(stops, i)
    BY <1>5, <1>7, InputsMore
  <2>2. Inputs(stops, i) = {}
    BY <1>5 DEF Inputs
  <2> QED BY <2>1, <2>2
<1> HIDE DEF sh
<1>13. Starts(s.shown) \subseteq 1 .. Len(s.shown) /\ Tools(s.shown) \subseteq Starts(s.shown)
  BY DEF Starts, Tools
<1>14. SameTools(s.shown, sh)
  BY <1>10, <1>11, <1>13 DEF SameTools
<1>15. Stopped(sh)
  <2>1. SUFFICES ASSUME NEW j \in Starts(sh)
                 PROVE  \E x \in 1 .. Len(sh) : sh[x].type = "stop" /\ j < x /\ sh[x].index = sh[j].index
    BY DEF Stopped
  <2>2. j \in 1 .. Len(s.shown) /\ sh[j] = s.shown[j]
    BY <1>10, <1>11, <1>13
  <2>3. sh[j].index \in 1 .. Len(s.blocks)
    BY <1>7, <2>2 DEF Legal, IsContent
  <2>4. PICK k \in 1 .. Len(stops) : stops[k].index = sh[j].index
    BY <1>5, <2>3
  <2> DEFINE x == Len(s.shown) + k
  <2>5. x \in 1 .. Len(sh) /\ j < x /\ sh[x] = stops[k]
    BY <1>10, <2>2
  <2> QED BY <1>5, <2>4, <2>5
<1>16. SameTools(st.shown, sh) /\ Searches(sh) = Searches(st.shown)
  BY <1>2, <1>11, <1>14 DEF Flushed, SameTools
<1>17. \A i \in 1 .. Len(st.blocks) : i # st.textBlock => Inputs(sh, i) = Inputs(st.shown, i)
  BY <1>2, <1>12 DEF Flushed
<1>18. f.shown = Append(Append(sh, MessageDelta(reason, Cardinality(st.searches))), MessageStop)
  BY <1>3, <1>8 DEF md, ms
<1>19. f.recorded = st.recorded
  BY <1>3, <1>4, <1>6
<1> HIDE DEF reason
<1> QED BY <1>9, <1>15, <1>16, <1>17, <1>18, <1>19

(* Blocks have different indices. *)
LEMMA BlocksDiffer ==
  ASSUME NEW sh, NEW n, Legal(sh, n), NEW a \in Starts(sh), NEW b \in Starts(sh), sh[a].index = sh[b].index
  PROVE  a = b
<1>1. Starts(sh) \subseteq 1 .. Len(sh) /\ Len(sh) \in Nat
  BY SeqDomain DEF Legal, Starts
<1>2. Cardinality(StartsUpTo(sh, a)) = Cardinality(StartsUpTo(sh, b))
  BY DEF Legal
<1>3. IsFiniteSet(StartsUpTo(sh, a)) /\ IsFiniteSet(StartsUpTo(sh, b))
  BY <1>1, StartsFinite
<1>4. a \in StartsUpTo(sh, a) /\ b \in StartsUpTo(sh, b)
  BY <1>1 DEF StartsUpTo
<1>5. CASE a <= b
  <2>1. StartsUpTo(sh, a) \in SUBSET StartsUpTo(sh, b)
    BY <1>1, <1>5 DEF StartsUpTo
  <2>2. StartsUpTo(sh, a) = StartsUpTo(sh, b)
    BY ONLY <1>2, <1>3, <2>1, FS_Subset
  <2>3. b \in StartsUpTo(sh, a)
    BY <1>4, <2>2
  <2> QED BY <1>1, <1>5, <2>3 DEF StartsUpTo
<1>6. CASE b <= a
  <2>1. StartsUpTo(sh, b) \in SUBSET StartsUpTo(sh, a)
    BY <1>1, <1>6 DEF StartsUpTo
  <2>2. StartsUpTo(sh, b) = StartsUpTo(sh, a)
    BY ONLY <1>2, <1>3, <2>1, FS_Subset
  <2>3. a \in StartsUpTo(sh, b)
    BY <1>4, <2>2
  <2> QED BY <1>1, <1>6, <2>3 DEF StartsUpTo
<1> QED BY <1>1, <1>5, <1>6

(* As many blocks of calls as calls with their ids. *)
LEMMA SameCount ==
  ASSUME NEW sh, NEW calls, IsSeq(calls),
         \A a, b \in Tools(sh) : sh[a].block.id = sh[b].block.id => a = b,
         \A i, j \in 1 .. Len(calls) : calls[i].id = calls[j].id => i = j,
         \A i \in 1 .. Len(calls) : \E k \in Tools(sh) : sh[k].block.id = calls[i].id,
         \A k \in Tools(sh) : \E i \in 1 .. Len(calls) : sh[k].block.id = calls[i].id
  PROVE  Cardinality(Tools(sh)) = Len(calls)
<1> DEFINE m == Len(calls)  T == Tools(sh)  f == [i \in 1 .. m |-> CHOOSE k \in T : sh[k].block.id = calls[i].id]
<1>1. m \in Nat
  BY SeqDomain
<1>2. \A i \in 1 .. m : f[i] \in T /\ sh[f[i]].block.id = calls[i].id
  OBVIOUS
<1>3. f \in [1 .. m -> T]
  BY <1>2
<1>4. \A i, j \in 1 .. m : f[i] = f[j] => i = j
  <2> HIDE DEF f
  <2> QED BY <1>2
<1>5. \A k \in T : \E i \in 1 .. m : f[i] = k
  <2> HIDE DEF f
  <2> QED BY <1>2
<1>6. f \in Bijection(1 .. m, T)
  <2> HIDE DEF f, m, T
  <2> QED BY <1>3, <1>4, <1>5 DEF Bijection, Injection, Surjection, IsInjective
<1>7. ExistsBijection(1 .. m, T)
  <2> HIDE DEF f, m, T
  <2> QED BY <1>6 DEF ExistsBijection
<1> HIDE DEF f, m, T
<1>8. Cardinality(T) = m
  BY <1>1, <1>7, FS_CountingElements
<1> QED BY <1>8 DEF T, m

(* Arguments that are an object are what their pieces spell. *)
LEMMA ArgumentsSpelled ==
  ASSUME NEW kind, NEW raw, IsObject(raw)
  PROVE  ParsedArgs(kind, Spelled(Pieces(raw))) = raw /\ raw # None
<1>1. raw # Nothing /\ raw # Prose /\ raw # None
  BY DEF IsObject
<1> DEFINE p == Pieces(raw)
<1>2. p = <<[of |-> raw, part |-> 1], [of |-> raw, part |-> 2]>>
  BY <1>1 DEF Pieces
<1>3. p # <<>> /\ p[1].of = raw
  BY <1>2
<1> HIDE DEF p
<1>4. Spelled(p) = raw
  <2>1. p = Pieces(p[1].of)
    BY <1>3 DEF p
  <2> QED BY <1>3, <2>1 DEF Spelled
<1>5. ParsedArgs(kind, raw) = raw
  BY <1>1 DEF ParsedArgs, IsObject
<1> QED BY <1>1, <1>4, <1>5 DEF p

(* What the unary decoder does at the end. *)
LEMMA CompletedRead ==
  ASSUME NEW u, NEW v, NEW e, IsUnary(u), v = ReadEvent(u, e), e.type = "completed"
  PROVE  v.calls = u.calls /\ v.searches = u.searches \cup SearchIds(e)
<1> DEFINE a == [u EXCEPT !.searches = @ \cup SearchIds(e)]  b == [a EXCEPT !.responseId = e.id]
<1>1. v = Concluded(b)
  BY DEF ReadEvent, IsItem
<1>2. IsUnary(a) /\ a.calls = u.calls /\ a.searches = u.searches \cup SearchIds(e)
  BY DEF IsUnary, UnaryFields
<1> HIDE DEF a
<1>3. IsUnary(b) /\ b.calls = a.calls /\ b.searches = a.searches
  BY <1>2 DEF IsUnary, UnaryFields
<1> HIDE DEF b
<1>4. Concluded(b).calls = b.calls /\ Concluded(b).searches = b.searches
  BY <1>3 DEF Concluded, IsUnary, UnaryFields
<1> QED BY <1>1, <1>2, <1>3, <1>4

(* What the inputs of the calls leave as it was: text can still be shown, and *)
(* each call has its own input.                                              *)
InputsOnly(w, r) ==
  /\ Writable(r) /\ SameTools(w.shown, r.shown) /\ Searches(r.shown) = Searches(w.shown)
  /\ r.searches = w.searches /\ r.recorded = w.recorded
  /\ \A id \in DOMAIN w.tools :
       /\ w.tools[id].index \in 1 .. Len(r.blocks) /\ w.tools[id].index # r.textBlock
       /\ Inputs(r.shown, w.tools[id].index) = {ToolInput(w.tools[id])}

(* handle_completed shows the input of each call in its own block. *)
LEMMA InputsShown ==
  ASSUME NEW w, NEW ins, NEW r, IsStream(w), Coherent(w), ins = ToolInputs(w), r = Show(w, ins)
  PROVE  InputsOnly(w, r)
<1> DEFINE n == Len(w.blocks)
<1>1. /\ IsSeq(ins)
      /\ \A i \in 1 .. Len(ins) : \E id \in DOMAIN w.tools : ins[i] = ToolDelta(w.tools[id])
      /\ \A id \in DOMAIN w.tools : \E i \in 1 .. Len(ins) : ins[i] = ToolDelta(w.tools[id])
  BY InputsAre
<1>2. \A tool : ToolDelta(tool).type = "delta" /\ ToolDelta(tool).index = tool.index /\ ToolDelta(tool).value = ToolInput(tool)
  BY DEF ToolDelta, Delta
<1>3. /\ Fields(r) /\ r.shown = w.shown \o ins /\ r.blocks = w.blocks /\ r.textBlock = w.textBlock
      /\ r.searches = w.searches /\ r.recorded = w.recorded
  <2>1. Fields(r) /\ r.shown = w.shown \o ins /\ SameBut(w, r, {"shown"})
    BY ShowFields DEF IsStream
  <2> QED BY <2>1 DEF SameBut, StreamFields
<1>4. /\ Legal(w.shown, n) /\ IsSeq(w.shown) /\ n \in Nat
      /\ w.textBlock # None => Live(w.shown, n, w.textBlock)
      /\ \A id \in DOMAIN w.tools :
           /\ Live(w.shown, n, w.tools[id].index) /\ w.tools[id].index # w.textBlock
           /\ \A other \in DOMAIN w.tools : w.tools[other].index = w.tools[id].index => other = id
      /\ \A k \in 1 .. Len(w.shown) :
           w.shown[k].type = "delta" => w.shown[k].index \in {w.textBlock, w.thinkingBlock}
      /\ \A id \in DOMAIN w.tools : w.tools[id].index \notin {w.textBlock, w.thinkingBlock}
  BY DEF Coherent, Legal
<1> HIDE DEF n
<1>5. \A j \in 1 .. Len(ins) : ins[j].type = "delta" /\ Live(w.shown, n, ins[j].index)
  BY <1>1, <1>2, <1>4
<1>6. Legal(r.shown, n)
  <2>1. Legal(w.shown \o ins, n)
    BY <1>1, <1>4, <1>5, LegalMore
  <2> QED BY <1>3, <2>1
<1>7. r.textBlock # None => Live(r.shown, n, r.textBlock)
  <2> SUFFICES ASSUME w.textBlock # None PROVE Live(w.shown \o ins, n, w.textBlock)
    BY <1>3
  <2>1. Live(w.shown, n, w.textBlock)
    BY <1>4
  <2>2. n <= n /\ \A j \in 1 .. Len(ins) : ins[j].type = "stop" => ins[j].index # w.textBlock
    BY <1>4, <1>5
  <2> QED BY <1>1, <1>4, <2>1, <2>2, LiveMore
<1>8. Writable(r)
  BY <1>3, <1>6, <1>7 DEF Writable, IsStream, n
<1>9. Starts(r.shown) = Starts(w.shown) /\ Tools(r.shown) = Tools(w.shown) /\ Searches(r.shown) = Searches(w.shown)
  <2>1. \A j \in 1 .. Len(ins) : ins[j].type # "start"
    BY <1>5
  <2> DEFINE sn == w.shown
  <2>2. IsSeq(sn) /\ IsSeq(ins)
    BY <1>1, <1>4
  <2> HIDE DEF sn
  <2>3. Starts(sn \o ins) = Starts(sn) /\ Tools(sn \o ins) = Tools(sn) /\ Searches(sn \o ins) = Searches(sn)
    BY ONLY <2>1, <2>2, KindsMore
  <2> QED BY <1>3, <2>3 DEF sn
<1>10. SameTools(w.shown, r.shown)
  <2>1. \A k \in 1 .. Len(w.shown) : r.shown[k] = w.shown[k]
    BY <1>1, <1>3, <1>4, SeqConcat
  <2> QED BY <1>9, <2>1 DEF SameTools, Tools, Starts
<1>11. ASSUME NEW id \in DOMAIN w.tools
       PROVE  /\ w.tools[id].index \in 1 .. Len(r.blocks) /\ w.tools[id].index # r.textBlock
              /\ Inputs(r.shown, w.tools[id].index) = {ToolInput(w.tools[id])}
  <2> DEFINE x == w.tools[id].index
  <2>1. x \in 1 .. n /\ x # w.textBlock
    BY <1>4 DEF Live
  <2>2. Inputs(w.shown, x) = {}
    BY <1>4 DEF Inputs
  <2>3. Inputs(ins, x) = {ToolInput(w.tools[id])}
    <3>1. PICK i \in 1 .. Len(ins) : ins[i] = ToolDelta(w.tools[id])
      BY <1>1
    <3>2. ins[i].type = "delta" /\ ins[i].index = x /\ ins[i].value = ToolInput(w.tools[id])
      BY <1>2, <3>1
    <3>3. ASSUME NEW j \in 1 .. Len(ins), ins[j].index = x PROVE ins[j].value = ToolInput(w.tools[id])
      <4>1. PICK other \in DOMAIN w.tools : ins[j] = ToolDelta(w.tools[other])
        BY <1>1
      <4>2. other = id
        BY <1>2, <1>4, <3>3, <4>1
      <4> QED BY <1>2, <4>1, <4>2
    <3> HIDE DEF x
    <3> QED BY <3>2, <3>3 DEF Inputs
  <2>4. Inputs(r.shown, x) = Inputs(w.shown, x) \cup Inputs(ins, x)
    BY <1>1, <1>3, <1>4, InputsMore
  <2> QED BY <1>3, <2>1, <2>2, <2>3, <2>4 DEF n
<1> QED BY <1>3, <1>8, <1>9, <1>10, <1>11 DEF InputsOnly

(* The input of a call that was not mixed up with another. *)
LEMMA InputAsked ==
  ASSUME NEW tool, NEW call \in Calls, tool.name = Asked(call).name, tool.kind = call.kind,
         tool.buffer = Pieces(Asked(call).arguments)
  PROVE  ToolInput(tool) = Sanitized(Asked(call).name, Asked(call).arguments)
<1> DEFINE raw == Asked(call).arguments
<1>1. IsObject(raw)
  BY CallAssumption DEF Calls, Asked
<1> HIDE DEF raw
<1>2. ParsedArgs(tool.kind, Spelled(tool.buffer)) = raw /\ raw # None
  BY <1>1, ArgumentsSpelled DEF raw
<1>3. ToolInput(tool) = Sanitized(tool.name, raw)
  BY <1>2 DEF ToolInput
<1> QED BY <1>3 DEF raw

(* Both readers have the calls of the backend, one block for each. *)
LEMMA AnswerCalls ==
  ASSUME NEW w, NEW u, NEW sh, NEW B \in SUBSET Calls, Coherent(w), ToolsRight(w, B, B, FALSE),
         UnaryRight(u, B, B), SameTools(w.shown, sh),
         \A id \in DOMAIN w.tools : Inputs(sh, w.tools[id].index) = {ToolInput(w.tools[id])}
  PROVE  CallsAnswered(sh, u.calls, B)
<1>1. Tools(sh) = Tools(w.shown) /\ \A k \in Tools(sh) : sh[k] = w.shown[k]
  BY DEF SameTools
<1>2. \A k \in Tools(sh) : sh[k].block.id \in DOMAIN w.tools /\ sh[k].index = w.tools[sh[k].block.id].index
  BY <1>1 DEF Coherent
<1>3. \A id \in DOMAIN w.tools : (\E call \in B : call.id = id) /\ \E k \in Tools(sh) : sh[k].block.id = id
  BY <1>1 DEF Coherent, ToolsRight
<1>4. ASSUME NEW call \in B
      PROVE  /\ call \in Calls /\ Asked(call).id = call.id /\ call.id \in DOMAIN w.tools
             /\ ToolInput(w.tools[call.id]) = Sanitized(Asked(call).name, Asked(call).arguments)
             /\ \E i \in DOMAIN u.calls : u.calls[i] = Asked(call)
  <2>1. /\ call.id \in DOMAIN w.tools /\ w.tools[call.id].name = Asked(call).name
        /\ w.tools[call.id].kind = call.kind /\ w.tools[call.id].buffer = Pieces(Asked(call).arguments)
    BY DEF ToolsRight, Asked
  <2>2. ToolInput(w.tools[call.id]) = Sanitized(Asked(call).name, Asked(call).arguments)
    BY <2>1, InputAsked
  <2>3. Asked(call).id = call.id
    BY ParsedParts DEF Asked
  <2> QED BY <2>1, <2>2, <2>3 DEF UnaryRight, Asked
<1>5. IsSeq(u.calls) /\ DOMAIN u.calls = 1 .. Len(u.calls)
      /\ \A i, j \in DOMAIN u.calls : u.calls[i].id = u.calls[j].id => i = j
  BY SeqDomain DEF UnaryRight
<1>6. ASSUME NEW i \in 1 .. Len(u.calls)
      PROVE  \E k \in Tools(sh) : \E call \in B : sh[k].block.id = u.calls[i].id /\ u.calls[i] = Asked(call)
  <2>1. PICK call \in B : call.id = u.calls[i].id
    BY <1>5 DEF UnaryRight
  <2>2. PICK j \in DOMAIN u.calls : u.calls[j] = Asked(call)
    BY <1>4
  <2>3. i = j
    BY <1>4, <1>5, <2>1, <2>2
  <2>4. PICK k \in Tools(sh) : sh[k].block.id = call.id
    BY <1>3, <1>4
  <2> QED BY <2>1, <2>2, <2>3, <2>4
<1>7. ASSUME NEW k \in Tools(sh)
      PROVE  \E call \in B : /\ call.id = sh[k].block.id
                             /\ Inputs(sh, sh[k].index) = {Sanitized(Asked(call).name, Asked(call).arguments)}
  <2>1. PICK call \in B : call.id = sh[k].block.id
    BY <1>2, <1>3
  <2>2. Inputs(sh, sh[k].index) = {ToolInput(w.tools[call.id])}
    BY <1>2, <2>1
  <2> QED BY <1>4, <2>1, <2>2
<1>8. Cardinality(Tools(sh)) = Len(u.calls)
  <2>1. ASSUME NEW a \in Tools(sh), NEW b \in Tools(sh), sh[a].block.id = sh[b].block.id PROVE a = b
    <3>1. a \in Starts(w.shown) /\ b \in Starts(w.shown) /\ w.shown[a].index = w.shown[b].index
      BY <1>1, <1>2, <2>1 DEF Tools
    <3> QED BY <3>1, BlocksDiffer DEF Coherent
  <2>2. \A i \in 1 .. Len(u.calls) : \E k \in Tools(sh) : sh[k].block.id = u.calls[i].id
    BY <1>6
  <2>3. ASSUME NEW k \in Tools(sh) PROVE \E i \in 1 .. Len(u.calls) : sh[k].block.id = u.calls[i].id
    <3>1. PICK call \in B : call.id = sh[k].block.id
      BY <1>7
    <3> QED BY <1>4, <1>5, <3>1
  <2> QED BY <1>5, <2>1, <2>2, <2>3, SameCount
<1> QED BY <1>6, <1>7, <1>8 DEF CallsAnswered

(* The response is complete. *)
LEMMA CompletedCloses ==
  ASSUME NEW st, NEW s, NEW u, NEW v, NEW e, NEW outputs, NEW B \in SUBSET Calls, NEW cr,
         Told(st, u, B, B, cr), IsSeq(outputs), e = Completed("response", outputs),
         s = Bridged(st, e), v = ReadEvent(u, e)
  PROVE  Closed(s, v, B, cr)
<1> DEFINE t == Noted(st, e)  w == OnSearches(t, outputs)  ins == ToolInputs(w)  r == Show(w, ins)
<1>1. e.type = "completed" /\ e.outputs = outputs
  BY DEF Completed
<1>2. Len(outputs) \in Nat /\ DOMAIN outputs = 1 .. Len(outputs)
  BY SeqDomain
<1>3. SearchIds(e) = SearchedIn(outputs, Len(outputs))
  BY <1>1, <1>2 DEF SearchIds, SearchedIn
<1>4. s = OnCompleted(t, e)
  BY <1>1, BridgedIs DEF Mapped, IsItem, Told
<1> HIDE DEF t
<1>5. /\ Healthy(t) /\ t.searches = st.searches \cup SearchIds(e)
      /\ t.tools = st.tools /\ t.lastTool = st.lastTool /\ t.emitted = st.emitted /\ t.shown = st.shown
      /\ t.recorded = st.recorded
  BY NotedHealthy DEF Told, t
<1>6. /\ Searched(t, w) /\ w.emitted = t.emitted \cup SearchedIn(outputs, Len(outputs))
  BY <1>2, <1>5, SearchesKeep DEF Healthy
<1>7. s = IF \E i \in DOMAIN ins : ins[i].value = None
          THEN [w EXCEPT !.shown = Append(t.shown, ErrorEvent)] ELSE Finalized(r)
  BY <1>1, <1>4 DEF OnCompleted
<1> HIDE DEF w
<1>8. /\ IsStream(w) /\ Coherent(w) /\ SameTools(t.shown, w.shown)
      /\ w.tools = st.tools /\ w.lastTool = st.lastTool /\ w.searches = t.searches /\ w.recorded = st.recorded
  BY <1>5, <1>6 DEF Searched, SameBut, StreamFields
<1>9. w.searches = w.emitted /\ v.searches = w.emitted /\ v.calls = u.calls
  BY <1>1, <1>3, <1>5, <1>6, <1>8, CompletedRead DEF Told, UnaryRight
<1>10. CASE \E i \in DOMAIN ins : ins[i].value = None
  <2>1. s = [w EXCEPT !.shown = Append(t.shown, ErrorEvent)] /\ Fields(w)
    BY <1>7, <1>8, <1>10 DEF IsStream
  <2>2. s.shown = Append(t.shown, ErrorEvent) /\ s.recorded = w.recorded
    BY <2>1 DEF Fields, StreamFields
  <2>3. s.shown = Append(st.shown, ErrorEvent) /\ s.recorded = st.recorded
    BY <1>5, <1>8, <2>2
  <2> QED BY <2>3, CutShort
<1>11. CASE ~\E i \in DOMAIN ins : ins[i].value = None
  <2>1. s = Finalized(r)
    BY <1>7, <1>11
  <2>2. InputsOnly(w, r)
    BY <1>8, InputsShown
  <2> HIDE DEF ins, r
  <2>3. PICK sh, n, reason :
           /\ Legal(sh, n) /\ Stopped(sh)
           /\ s.shown = Append(Append(sh, MessageDelta(reason, Cardinality(r.searches))), MessageStop)
           /\ s.recorded = r.recorded
           /\ SameTools(r.shown, sh) /\ Searches(sh) = Searches(r.shown)
           /\ \A i \in 1 .. Len(r.blocks) : i # r.textBlock => Inputs(sh, i) = Inputs(r.shown, i)
    <3>1. Writable(r)
      BY <2>2 DEF InputsOnly
    <3> QED BY ONLY <2>1, <3>1, AnswerFinal
  <2>4. SameTools(w.shown, sh) /\ SameTools(st.shown, sh)
    BY <1>5, <1>8, <2>2, <2>3 DEF InputsOnly, SameTools
  <2>5. \A id \in DOMAIN w.tools : Inputs(sh, w.tools[id].index) = {ToolInput(w.tools[id])}
    BY <2>2, <2>3 DEF InputsOnly
  <2>6. /\ s.recorded = st.recorded /\ r.searches = w.emitted
        /\ Cardinality(r.searches) = Cardinality(Searches(sh)) /\ r.searches = v.searches
    BY <1>8, <1>9, <2>2, <2>3 DEF InputsOnly, Coherent
  <2>7. ToolsRight(w, B, B, cr) /\ UnaryRight(u, B, B)
    <3>1. ToolsRight(st, B, B, cr) /\ UnaryRight(u, B, B)
      BY DEF Told
    <3>2. Quiet(st, w)
      BY <1>8 DEF Quiet
    <3> QED BY <3>1, <3>2, QuietRight
  <2>8. ASSUME ~cr PROVE CallsAnswered(sh, u.calls, B)
    <3>1. Coherent(w) /\ SameTools(w.shown, sh)
      BY <1>8, <2>4
    <3>2. B \in SUBSET Calls
      OBVIOUS
    <3>3. ToolsRight(w, B, B, FALSE) /\ UnaryRight(u, B, B)
      BY <2>7, <2>8 DEF ToolsRight
    <3> QED BY ONLY <2>5, <3>1, <3>2, <3>3, AnswerCalls
  <2> DEFINE searches == Cardinality(r.searches)
  <2>9. /\ s.shown = Append(Append(sh, MessageDelta(reason, searches)), MessageStop)
        /\ Stopped(sh)
        /\ searches = Cardinality(Searches(sh)) /\ searches = Cardinality(v.searches)
        /\ IsSeq(v.calls) /\ (~cr => CallsAnswered(sh, v.calls, B))
    BY <1>9, <2>3, <2>6, <2>7, <2>8 DEF UnaryRight
  <2> HIDE DEF searches
  <2>10. EndsWell(s, v, sh, B, cr)
    BY <2>9 DEF EndsWell
  <2>11. IsSeq(s.shown) /\ SameTools(sh, s.shown)
    <3> DEFINE md == MessageDelta(reason, searches)  ms == MessageStop
    <3>1. md.type = "message_delta" /\ ms.type = "message_stop" /\ s.shown = Append(Append(sh, md), ms)
      BY <2>9 DEF MessageDelta, MessageStop
    <3> HIDE DEF md, ms
    <3> DEFINE x == Append(Append(sh, md), ms)
    <3>2. IsSeq(x) /\ Tools(x) = Tools(sh) /\ \A k \in 1 .. Len(sh) : x[k] = sh[k]
      BY <2>3, <3>1, AnswerEnds
    <3> HIDE DEF x
    <3>3. Tools(sh) \subseteq 1 .. Len(sh) /\ s.shown = x
      BY <3>1 DEF Tools, Starts, x
    <3> QED BY <3>2, <3>3 DEF SameTools
  <2>12. \A k \in Tools(sh) : \E call \in B : call.id = sh[k].block.id
    <3> TAKE k \in Tools(sh)
    <3>1. k \in Tools(w.shown) /\ sh[k] = w.shown[k]
      BY <2>4 DEF SameTools
    <3>2. sh[k].block.id \in DOMAIN w.tools
      BY <1>8, <3>1 DEF Coherent
    <3> QED BY <2>7, <3>2 DEF ToolsRight
  <2>13. RecordsRight(s)
    <3>1. RecordsRight(st)
      BY DEF Told, Healthy
    <3>2. SameTools(st.shown, s.shown)
      BY <2>4, <2>11 DEF SameTools
    <3> QED BY <2>6, <3>1, <3>2, RecordsSame DEF SameTools
  <2> QED BY <2>3, <2>10, <2>11, <2>12, <2>13 DEF Closed
<1> QED BY <1>10, <1>11

--------------------------------------------------------------------------------
(* The theorems. *)

(* A response that is over. *)
Settled == ItemsOK(items) /\ Closed(bridge, unary, Begun(items), crossed)

(* The inductive invariant. *)
Inv == \/ ended = FALSE /\ Underway
       \/ ended = TRUE /\ Settled

(* What was shown so far would do for the end. *)
LEMMA UnderwaySettled ==
  ASSUME Underway
  PROVE  Settled
<1>1. Told(bridge, unary, Begun(items), Done(items), crossed) /\ ItemsOK(items)
  BY DEF Underway
<1>2. Closed(bridge, unary, Begun(items), crossed)
  BY ONLY <1>1, CutShort
<1> QED BY <1>1, <1>2 DEF Settled

(* The response is complete. *)
LEMMA CompleteKeeps ==
  ASSUME Underway, Complete
  PROVE  Settled'
<1>1. PICK outputs \in {<<>>, [i \in DOMAIN items |-> items[i].item]} : Arrives(Completed("response", outputs))
  BY DEF Complete
<1> DEFINE B == Begun(items)  e == Completed("response", outputs)
<1>2. bridge' = Bridged(bridge, e) /\ unary' = ReadEvent(unary, e)
  BY <1>1 DEF Arrives
<1>3. items' = items /\ crossed' = crossed /\ Open = {}
  BY DEF Complete
<1>4. B \in SUBSET Calls /\ Len(items) \in Nat /\ DOMAIN items = 1 .. Len(items)
      /\ \A i \in DOMAIN items : items[i] \in ItemRecord
  BY ItemsCalls DEF Underway
<1>5. Done(items) = B
  <2>1. \A i \in DOMAIN items : items[i].done
    BY <1>3 DEF Open
  <2> QED BY <2>1 DEF Begun, Done
<1>6. IsSeq(outputs)
  <2>1. CASE outputs = <<>>
    <3>1. outputs \in Seq({})
      BY <2>1
    <3> QED BY <3>1, SeqIsSeq
  <2>2. CASE outputs = [i \in DOMAIN items |-> items[i].item]
    <3> DEFINE T == {items[i].item : i \in DOMAIN items}
    <3>1. outputs \in [1 .. Len(items) -> T]
      BY <1>4, <2>2
    <3>2. outputs \in Seq(T)
      BY <1>4, <3>1
    <3> HIDE DEF T
    <3> QED BY <3>2, SeqIsSeq
  <2> QED BY <1>1, <2>1, <2>2
<1>7. Told(bridge, unary, B, B, crossed)
  BY <1>5 DEF Underway
<1> HIDE DEF B
<1>8. e = Completed("response", outputs)
  OBVIOUS
<1> HIDE DEF e
<1>9. Closed(bridge', unary', B, crossed)
  BY ONLY <1>2, <1>4, <1>6, <1>7, <1>8, CompletedCloses
<1> QED BY <1>3, <1>9 DEF Settled, Underway, B

(* The response fails or is cancelled. *)
LEMMA GiveUpKeeps ==
  ASSUME Underway, GiveUp
  PROVE  Settled'
<1>1. PICK e \in {Failed, Cancelled, Broken} : Arrives(e)
  BY DEF GiveUp
<1>2. bridge' = Bridged(bridge, e) /\ e.type \in {"failed", "cancelled", "broken"}
  BY <1>1 DEF Arrives, Failed, Cancelled, Broken
<1>3. items' = items /\ crossed' = crossed
  BY DEF GiveUp
<1>4. Told(bridge, unary, Begun(items), Done(items), crossed)
  BY DEF Underway
<1>5. Closed(bridge', unary', Begun(items), crossed)
  BY ONLY <1>2, <1>4, GivenUp
<1> QED BY <1>3, <1>5 DEF Settled, Underway

(* The invariant is inductive. *)
LEMMA InvHolds == Spec => []Inv
<1>1. Init => Inv
  BY InitUnderway DEF Inv
<1>2. Inv /\ [Next]_vars => Inv'
  <2> SUFFICES ASSUME Inv, [Next]_vars PROVE Inv'
    OBVIOUS
  <2>1. ASSUME NEW item \in Item, NEW route \in Routes(item), Begin(item, route) PROVE Inv'
    <3>1. ended = FALSE /\ ended' = ended /\ Underway
      BY <2>1 DEF Inv, Begin
    <3> QED BY <2>1, <3>1, BeginKeeps DEF Inv
  <2>2. ASSUME NEW i \in DOMAIN items, Continue(i) PROVE Inv'
    <3>1. ended = FALSE /\ ended' = ended /\ Underway
      BY <2>2 DEF Inv, Continue
    <3> QED BY <2>2, <3>1, ContinueKeeps DEF Inv
  <2>3. ASSUME NEW i \in DOMAIN items, Finish(i) PROVE Inv'
    <3>1. ended = FALSE /\ ended' = ended /\ Underway
      BY <2>3 DEF Inv, Finish
    <3> QED BY <2>3, <3>1, FinishKeeps DEF Inv
  <2>4. CASE Complete
    <3>1. ended' = TRUE /\ Underway
      BY <2>4 DEF Inv, Complete
    <3> QED BY <2>4, <3>1, CompleteKeeps DEF Inv
  <2>5. CASE GiveUp
    <3>1. ended' = TRUE /\ Underway
      BY <2>5 DEF Inv, GiveUp
    <3> QED BY <2>5, <3>1, GiveUpKeeps DEF Inv
  <2>6. CASE UNCHANGED vars
    BY <2>6 DEF vars, Inv, Underway, Settled
  <2>7. CASE Over
    BY <2>6, <2>7 DEF Over
  <2> QED BY <2>1, <2>2, <2>3, <2>4, <2>5, <2>6, <2>7 DEF Next
<1> QED BY <1>1, <1>2, PTL DEF Spec

(* Inv makes a message of what was shown, so far and at the end. *)
LEMMA InvSettled ==
  ASSUME Inv
  PROVE  Settled
BY UnderwaySettled DEF Inv

(* The events of the stream make up a message, as the protocol has it, at    *)
(* every point and however the response ends (sse_bridge.rs).                *)
THEOREM StreamFollowsProtocol == Spec => []BlocksFollowProtocol
<1>1. Inv => BlocksFollowProtocol
  <2> SUFFICES ASSUME Inv PROVE BlocksFollowProtocol
    OBVIOUS
  <2>1. IsSeq(bridge.shown) /\ Protocol(bridge.shown)
    BY InvSettled, ClosedProtocol DEF Settled
  <2> QED BY <2>1, ProtocolFollowed
<1> QED BY <1>1, InvHolds, PTL

(* A call the client sees under its name is in the tool call store, under    *)
(* that name and kind, from the moment its block starts.                     *)
THEOREM ShownCallsAreRecorded == Spec => []ToolUsesRecorded
<1>1. Inv => ToolUsesRecorded
  <2> SUFFICES ASSUME Inv PROVE ToolUsesRecorded
    OBVIOUS
  <2>1. ItemsOK(items) /\ Closed(bridge, unary, Begun(items), crossed)
    BY InvSettled DEF Settled
  <2>2. PICK sh : /\ \A k \in Tools(sh) : \E call \in Begun(items) : call.id = sh[k].block.id
                  /\ RecordsRight(bridge) /\ SameTools(sh, bridge.shown)
    BY <2>1 DEF Closed
  <2>3. \A k \in Tools(bridge.shown) : \E call \in Begun(items) : call.id = bridge.shown[k].block.id
    BY <2>2 DEF SameTools
  <2>4. IsSeq(bridge.shown)
    BY <2>1, ClosedProtocol
  <2> QED BY <2>1, <2>2, <2>3, <2>4, UsesRecorded
<1> QED BY <1>1, InvHolds, PTL

(* message_delta counts the searches that were shown, and those of the unary *)
(* answer, whichever events repeat them.                                     *)
THEOREM SearchesAreBilledOnce == Spec => []SearchesCounted
<1>1. Inv => SearchesCounted
  <2> SUFFICES ASSUME Inv PROVE SearchesCounted
    OBVIOUS
  <2>1. Closed(bridge, unary, Begun(items), crossed)
    BY InvSettled DEF Settled
  <2> QED BY <2>1, SearchesAreCounted
<1> QED BY <1>1, InvHolds, PTL

(* Every call of an answer has one input, what the backend asked for after   *)
(* the tool policies, unless pieces without a name were mixed up.            *)
THEOREM InputsAreWhatWasAsked == Spec => []ToolInputsFaithful
<1>1. Inv => ToolInputsFaithful
  <2> SUFFICES ASSUME Inv PROVE ToolInputsFaithful
    OBVIOUS
  <2>1. ItemsOK(items) /\ Closed(bridge, unary, Begun(items), crossed)
    BY InvSettled DEF Settled
  <2> QED BY <2>1, InputsAreFaithful
<1> QED BY <1>1, InvHolds, PTL

(* A streaming request and a unary one get the same calls, with inputs that  *)
(* differ at most in the null fields the unary answer loses, unless pieces    *)
(* without a name were mixed up (backend_events_to_anthropic_events,          *)
(* build_unary_messages_response, claude_json_response).                      *)
THEOREM ReadersHaveTheSameCalls == Spec => []CallsAgree
<1>1. Inv => CallsAgree
  <2> SUFFICES ASSUME Inv PROVE CallsAgree
    OBVIOUS
  <2>1. ItemsOK(items) /\ Closed(bridge, unary, Begun(items), crossed)
    BY InvSettled DEF Settled
  <2> QED BY <2>1, BothHaveTheCalls
<1> QED BY <1>1, InvHolds, PTL
================================================================================
