----------------------------- MODULE QueueLemmas -----------------------------
(* What the operators on sequences return that the models build queues and lists of
   processes with. *)
EXTENDS Integers, Sequences, SequencesExt, FiniteSetTheorems,
  WellFoundedInduction, TLAPS

LEMMA AppendFacts ==
  ASSUME NEW S0, NEW q \in Seq(S0), NEW e \in S0
  PROVE  /\ Append(q, e) \in Seq(S0)
         /\ Append(q, e) # <<>>
         /\ ToSet(Append(q, e)) = ToSet(q) \cup {e}
         /\ IsInjective(q) /\ e \notin ToSet(q) => IsInjective(Append(q, e))
<1>1. /\ Append(q, e) \in Seq(S0)
      /\ Len(Append(q, e)) = Len(q) + 1
      /\ Len(q) \in Nat
      /\ \A i \in 1..Len(q) : Append(q, e)[i] = q[i]
      /\ Append(q, e)[Len(q) + 1] = e
  OBVIOUS
<1>2. DOMAIN q = 1..Len(q) /\ DOMAIN Append(q, e) = 1..(Len(q) + 1)
  BY <1>1
<1>3. ToSet(Append(q, e)) = ToSet(q) \cup {e}
  BY <1>1, <1>2 DEF ToSet
<1>4. IsInjective(q) /\ e \notin ToSet(q) => IsInjective(Append(q, e))
  BY <1>1, <1>2 DEF ToSet, IsInjective
<1>. QED  BY <1>1, <1>3, <1>4

LEMMA TailFacts ==
  ASSUME NEW S0, NEW q \in Seq(S0), q # <<>>
  PROVE  /\ Head(q) \in ToSet(q)
         /\ Head(q) \in S0
         /\ Tail(q) \in Seq(S0)
         /\ ToSet(Tail(q)) \subseteq ToSet(q)
         /\ IsInjective(q) => /\ ToSet(Tail(q)) = ToSet(q) \ {Head(q)}
                              /\ IsInjective(Tail(q))
<1>1. /\ Len(q) \in Nat \ {0}
      /\ DOMAIN q = 1..Len(q)
      /\ Head(q) = q[1]
      /\ Head(q) \in S0
      /\ Tail(q) \in Seq(S0)
      /\ Len(Tail(q)) = Len(q) - 1
      /\ DOMAIN Tail(q) = 1..(Len(q) - 1)
      /\ \A i \in 1..(Len(q) - 1) : Tail(q)[i] = q[i + 1]
  OBVIOUS
<1>2. Head(q) \in ToSet(q) /\ ToSet(Tail(q)) \subseteq ToSet(q)
  BY <1>1 DEF ToSet
<1>3. ASSUME IsInjective(q)
      PROVE  ToSet(Tail(q)) = ToSet(q) \ {Head(q)} /\ IsInjective(Tail(q))
  <2>1. IsInjective(Tail(q))
    BY <1>1, <1>3 DEF IsInjective
  <2>2. Head(q) \notin ToSet(Tail(q))
    BY <1>1, <1>3 DEF IsInjective, ToSet
  <2>3. \A x \in ToSet(q) : x # Head(q) => x \in ToSet(Tail(q))
    <3>1. SUFFICES ASSUME NEW i \in 1..Len(q), q[i] # Head(q)
                   PROVE  q[i] \in ToSet(Tail(q))
      BY <1>1 DEF ToSet
    <3>2. i - 1 \in 1..(Len(q) - 1) /\ Tail(q)[i - 1] = q[i]
      BY <1>1, <3>1
    <3>. QED  BY <1>1, <3>2 DEF ToSet
  <2>. QED  BY <1>2, <2>1, <2>2, <2>3
<1>. QED  BY <1>1, <1>2, <1>3

LEMMA EmptyFacts == ToSet(<<>>) = {} /\ IsInjective(<<>>)
  BY DEF ToSet, IsInjective

\* A queue without repetition is as long as the set of those who wait in it.
LEMMA LengthIsCardinality ==
  ASSUME NEW S0, NEW q \in Seq(S0), IsInjective(q)
  PROVE  IsFiniteSet(ToSet(q)) /\ Cardinality(ToSet(q)) = Len(q)
<1>1. Len(q) \in Nat /\ DOMAIN q = 1..Len(q) /\ q \in [1..Len(q) -> ToSet(q)]
  BY DEF ToSet
<1>2. q \in Surjection(1..Len(q), ToSet(q))
  BY <1>1 DEF ToSet, Surjection
<1>3. q \in Injection(1..Len(q), ToSet(q))
  BY <1>1 DEF Injection, IsInjective
<1>4. IsFiniteSet(1..Len(q)) /\ Cardinality(1..Len(q)) = Len(q)
  BY <1>1, FS_Interval
<1>. QED  BY <1>2, <1>3, <1>4, FS_Surjection

LEMMA SetOfQueue ==
  ASSUME NEW S0, NEW q \in Seq(S0)
  PROVE  ToSet(q) \subseteq S0 /\ (q = <<>> <=> ToSet(q) = {})
<1>1. Len(q) \in Nat /\ DOMAIN q = 1..Len(q) /\ \A i \in 1..Len(q) : q[i] \in S0
  OBVIOUS
<1>2. q # <<>> => 1 \in 1..Len(q)
  BY <1>1
<1>3. q = <<>> => ToSet(q) = {}
  BY DEF ToSet
<1>. QED  BY <1>1, <1>2, <1>3 DEF ToSet

\* The least member of a set of numbers.
LEMMA MinFacts ==
  ASSUME NEW S \in SUBSET Nat, S # {}
  PROVE  /\ Min(S) \in S
         /\ \A c \in S : Min(S) <= c
<1>. PICK R : R = {ss \in Nat \X Nat : ss[1] < ss[2]}
  OBVIOUS
<1>1. IsWellFoundedOn(R, Nat)
  <2>1. R = OpToRel(<, Nat)
    BY DEF OpToRel
  <2>. QED  BY <2>1, NatLessThanWellFounded
<1>2. PICK b \in S : \A c \in S : ~(<<c, b>> \in R)
  BY <1>1, WFMin
<1>3. \A c \in S : b <= c
  <2>1. SUFFICES ASSUME NEW c \in S  PROVE b <= c
    OBVIOUS
  <2>2. b \in Nat /\ c \in Nat /\ ~(c < b)
    BY <1>2
  <2>. QED  BY <2>2
<1>. QED  BY <1>3 DEF Min

-----------------------------------------------------------------------------
(* Lists that grow at the front and shrink anywhere. *)

LEMMA PrependFacts ==
  ASSUME NEW S0, NEW s \in Seq(S0), NEW e \in S0
  PROVE  /\ <<e>> \o s \in Seq(S0)
         /\ Len(<<e>> \o s) = Len(s) + 1
         /\ (<<e>> \o s)[1] = e
         /\ \A i \in 1..Len(s) : (<<e>> \o s)[i + 1] = s[i]
         /\ \A i \in 2..Len(s) + 1 : (<<e>> \o s)[i] = s[i - 1]
<1>1. Len(s) \in Nat /\ DOMAIN s = 1..Len(s)
  OBVIOUS
<1>2. <<e>> \in Seq(S0) /\ Len(<<e>>) = 1 /\ <<e>>[1] = e
  OBVIOUS
<1>. QED  BY <1>1, <1>2

LEMMA ConcatFacts ==
  ASSUME NEW S0, NEW x \in Seq(S0), NEW y \in Seq(S0)
  PROVE  /\ x \o y \in Seq(S0)
         /\ Len(x \o y) = Len(x) + Len(y)
         /\ \A j \in 1..Len(x) : (x \o y)[j] = x[j]
         /\ \A j \in 1..Len(y) : (x \o y)[Len(x) + j] = y[j]
<1>1. Len(x) \in Nat /\ Len(y) \in Nat
  OBVIOUS
<1>2. x \o y \in Seq(S0)
  OBVIOUS
<1>3. Len(x \o y) = Len(x) + Len(y)
  OBVIOUS
<1>4. \A j \in 1..Len(x) : (x \o y)[j] = x[j]
  BY <1>1
<1>5. \A j \in 1..Len(y) : (x \o y)[Len(x) + j] = y[j]
  BY <1>1
<1>. QED  BY <1>2, <1>3, <1>4, <1>5

LEMMA RemoveAtFacts ==
  ASSUME NEW S0, NEW s \in Seq(S0), NEW i \in 1..Len(s)
  PROVE  /\ RemoveAt(s, i) \in Seq(S0)
         /\ Len(RemoveAt(s, i)) = Len(s) - 1
         /\ \A j \in 1..Len(s) - 1 :
              RemoveAt(s, i)[j] = IF j < i THEN s[j] ELSE s[j + 1]
<1>. DEFINE a == SubSeq(s, 1, i - 1)
            b == SubSeq(s, i + 1, Len(s))
<1>1. Len(s) \in Nat /\ \A j \in 1..Len(s) : s[j] \in S0
  OBVIOUS
<1>2. /\ a \in Seq(S0) /\ Len(a) = i - 1
      /\ \A j \in 1..i - 1 : a[j] = s[j]
  BY <1>1
<1>3. /\ b \in Seq(S0) /\ Len(b) = Len(s) - i
      /\ \A j \in 1..Len(s) - i : b[j] = s[i + j]
  BY <1>1
<1>. HIDE DEF a, b
<1>4. /\ a \o b \in Seq(S0) /\ Len(a \o b) = Len(a) + Len(b)
      /\ \A j \in 1..Len(a) : (a \o b)[j] = a[j]
      /\ \A j \in 1..Len(b) : (a \o b)[Len(a) + j] = b[j]
  <2>1. a \in Seq(S0) /\ b \in Seq(S0)
    BY <1>2, <1>3
  <2>. QED  BY <2>1, ConcatFacts
<1>5. \A j \in 1..Len(s) - 1 : (a \o b)[j] = IF j < i THEN s[j] ELSE s[j + 1]
  <2>. TAKE j \in 1..Len(s) - 1
  <2>1. CASE j < i
    BY <1>1, <1>2, <1>4, <2>1
  <2>2. CASE j >= i
    <3>. DEFINE k == j - (i - 1)
    <3>1. k \in 1..Len(s) - i /\ j = Len(a) + k /\ j + 1 = i + k /\ ~(j < i)
      BY <1>1, <1>2, <2>2
    <3>. HIDE DEF k
    <3>2. (a \o b)[Len(a) + k] = b[k] /\ b[k] = s[i + k]
      BY <1>3, <1>4, <3>1
    <3>. QED  BY <3>1, <3>2
  <2>3. j < i \/ j >= i
    BY <1>1
  <2>. QED  BY <2>1, <2>2, <2>3, Zenon
<1>6. RemoveAt(s, i) = a \o b
  BY DEF RemoveAt, a, b
<1>7. Len(a \o b) = Len(s) - 1
  BY <1>1, <1>2, <1>3, <1>4
<1>. QED  BY <1>4, <1>5, <1>6, <1>7, Zenon

\* The elements of a list with another one in front of it, and of two joined lists.
LEMMA JoinFacts ==
  ASSUME NEW S0, NEW x \in Seq(S0), NEW y \in Seq(S0)
  PROVE  /\ x \o y \in Seq(S0)
         /\ ToSet(x \o y) = ToSet(x) \cup ToSet(y)
         /\ IsInjective(x) /\ IsInjective(y) /\ ToSet(x) \cap ToSet(y) = {}
              => IsInjective(x \o y)
<1>. DEFINE z == x \o y
<1>1. /\ z \in Seq(S0) /\ Len(z) = Len(x) + Len(y)
      /\ \A j \in 1..Len(x) : z[j] = x[j]
      /\ \A j \in 1..Len(y) : z[Len(x) + j] = y[j]
  BY ConcatFacts
<1>. HIDE DEF z
<1>2. /\ Len(x) \in Nat /\ Len(y) \in Nat /\ DOMAIN z = 1..Len(x) + Len(y)
      /\ DOMAIN x = 1..Len(x) /\ DOMAIN y = 1..Len(y)
  BY <1>1
<1>3. \A k \in DOMAIN z : \/ k \in 1..Len(x) /\ z[k] = x[k]
                          \/ k - Len(x) \in 1..Len(y) /\ z[k] = y[k - Len(x)]
  <2>. TAKE k \in DOMAIN z
  <2>1. CASE k <= Len(x)
    BY <1>1, <1>2, <2>1
  <2>2. CASE k > Len(x)
    <3>. DEFINE j == k - Len(x)
    <3>1. j \in 1..Len(y) /\ k = Len(x) + j
      BY <1>2, <2>2
    <3>. HIDE DEF j
    <3>2. z[Len(x) + j] = y[j]
      BY <1>1, <3>1
    <3>3. z[k] = y[j]
      BY <3>1, <3>2
    <3>. QED  BY <3>1, <3>3 DEF j
  <2>. QED  BY <1>2, <2>1, <2>2
<1>4. ToSet(z) \subseteq ToSet(x) \cup ToSet(y)
  BY <1>2, <1>3 DEF ToSet
<1>5. ToSet(x) \subseteq ToSet(z)
  BY <1>1, <1>2 DEF ToSet
<1>6. ToSet(y) \subseteq ToSet(z)
  <2>. SUFFICES ASSUME NEW j \in 1..Len(y) PROVE y[j] \in ToSet(z)
    BY <1>2 DEF ToSet
  <2>1. Len(x) + j \in DOMAIN z /\ z[Len(x) + j] = y[j]
    BY <1>1, <1>2
  <2>. QED  BY <2>1 DEF ToSet
<1>7. ASSUME IsInjective(x), IsInjective(y), ToSet(x) \cap ToSet(y) = {}
      PROVE  IsInjective(z)
  <2>. SUFFICES ASSUME NEW k \in DOMAIN z, NEW l \in DOMAIN z, z[k] = z[l] PROVE k = l
    BY DEF IsInjective
  <2>1. CASE k \in 1..Len(x) /\ z[k] = x[k] /\ l \in 1..Len(x) /\ z[l] = x[l]
    BY <1>2, <1>7, <2>1 DEF IsInjective
  <2>2. CASE /\ k - Len(x) \in 1..Len(y) /\ z[k] = y[k - Len(x)]
             /\ l - Len(x) \in 1..Len(y) /\ z[l] = y[l - Len(x)]
    <3>1. k - Len(x) = l - Len(x)
      BY <1>2, <1>7, <2>2 DEF IsInjective
    <3>2. k \in Int /\ l \in Int /\ Len(x) \in Int
      BY <1>2
    <3>. QED  BY <3>1, <3>2
  <2>3. CASE \/ z[k] \in ToSet(x) /\ z[l] \in ToSet(y)
             \/ z[k] \in ToSet(y) /\ z[l] \in ToSet(x)
    BY <1>7, <2>3
  <2>. QED  BY <1>2, <1>3, <2>1, <2>2, <2>3 DEF ToSet
<1>. QED  BY <1>1, <1>4, <1>5, <1>6, <1>7 DEF z

LEMMA ConsFacts ==
  ASSUME NEW S0, NEW s \in Seq(S0), NEW e \in S0
  PROVE  /\ Cons(e, s) \in Seq(S0)
         /\ ToSet(Cons(e, s)) = ToSet(s) \cup {e}
         /\ IsInjective(s) /\ e \notin ToSet(s) => IsInjective(Cons(e, s))
<1>. PICK x : x = <<e>>
  OBVIOUS
<1>1. x \in Seq(S0) /\ ToSet(x) = {e} /\ IsInjective(x)
  BY DEF ToSet, IsInjective
<1>2. /\ x \o s \in Seq(S0) /\ ToSet(x \o s) = ToSet(x) \cup ToSet(s)
      /\ IsInjective(x) /\ IsInjective(s) /\ ToSet(x) \cap ToSet(s) = {}
           => IsInjective(x \o s)
  BY ZenonT(60), <1>1, JoinFacts
<1>. QED  BY <1>1, <1>2 DEF Cons

LEMMA ReverseFacts ==
  ASSUME NEW S0, NEW s \in Seq(S0)
  PROVE  /\ Reverse(s) \in Seq(S0)
         /\ ToSet(Reverse(s)) = ToSet(s)
         /\ IsInjective(s) => IsInjective(Reverse(s))
<1>. DEFINE r == Reverse(s)
<1>1. /\ Len(s) \in Nat /\ DOMAIN s = 1..Len(s) /\ \A i \in 1..Len(s) : s[i] \in S0
      /\ DOMAIN r = 1..Len(s) /\ \A i \in 1..Len(s) : r[i] = s[Len(s) - i + 1]
      /\ r = [i \in 1..Len(s) |-> s[Len(s) - i + 1]]
  BY DEF Reverse
<1>2. \A i \in 1..Len(s) : Len(s) - i + 1 \in 1..Len(s)
  BY <1>1
<1>3. r \in Seq(S0)
  BY <1>1, <1>2
<1>. HIDE DEF r
<1>4. ToSet(r) \subseteq ToSet(s)
  BY <1>1, <1>2 DEF ToSet
<1>5. ToSet(s) \subseteq ToSet(r)
  <2>. SUFFICES ASSUME NEW i \in 1..Len(s) PROVE s[i] \in ToSet(r)
    BY <1>1 DEF ToSet
  <2>1. /\ Len(s) - i + 1 \in 1..Len(s) /\ Len(s) - (Len(s) - i + 1) + 1 = i
    BY <1>1
  <2>2. r[Len(s) - i + 1] = s[i]
    BY <1>1, <2>1
  <2>. QED  BY <1>1, <2>1, <2>2 DEF ToSet
<1>6. ASSUME IsInjective(s) PROVE IsInjective(r)
  <2>. SUFFICES ASSUME NEW i \in 1..Len(s), NEW j \in 1..Len(s), r[i] = r[j] PROVE i = j
    BY <1>1 DEF IsInjective
  <2>1. Len(s) - i + 1 = Len(s) - j + 1
    BY <1>1, <1>2, <1>6 DEF IsInjective
  <2>. QED  BY <1>1, <2>1
<1>. QED  BY <1>3, <1>4, <1>5, <1>6 DEF r

\* Taking an element out of a list without repetition.
LEMMA RemoveFirstFacts ==
  ASSUME NEW S0, NEW s \in Seq(S0), IsInjective(s), NEW e \in ToSet(s)
  PROVE  /\ RemoveFirst(s, e) \in Seq(S0)
         /\ ToSet(RemoveFirst(s, e)) = ToSet(s) \ {e}
         /\ IsInjective(RemoveFirst(s, e))
<1>1. Len(s) \in Nat /\ DOMAIN s = 1..Len(s)
  OBVIOUS
<1>2. PICK k \in 1..Len(s) : s[k] = e
  BY <1>1 DEF ToSet
<1>3. {i \in 1..Len(s) : s[i] = e} = {k}
  BY <1>1, <1>2 DEF IsInjective
<1>4. Min({k}) = k
  BY <1>2 DEF Min
<1>5. SelectInSeq(s, LAMBDA v : v = e) = k
  BY <1>3, <1>4 DEF SelectInSeq
<1>6. RemoveFirst(s, e) = RemoveAt(s, k)
  BY <1>2, <1>5 DEF RemoveFirst
<1>. DEFINE r == RemoveAt(s, k)
<1>7. /\ r \in Seq(S0) /\ Len(r) = Len(s) - 1
      /\ \A j \in 1..Len(s) - 1 : r[j] = IF j < k THEN s[j] ELSE s[j + 1]
  BY <1>2, RemoveAtFacts
<1>. HIDE DEF r
<1>8. DOMAIN r = 1..Len(s) - 1
  BY <1>1, <1>7
<1>9. IsInjective(r)
  <2>. SUFFICES ASSUME NEW i \in 1..Len(s) - 1, NEW j \in 1..Len(s) - 1, r[i] = r[j] PROVE i = j
    BY <1>8 DEF IsInjective
  <2>. DEFINE a == IF i < k THEN i ELSE i + 1
              b == IF j < k THEN j ELSE j + 1
  <2>1. a \in 1..Len(s) /\ b \in 1..Len(s)
    BY <1>1
  <2>0. r[i] = s[a] /\ r[j] = s[b]
    BY <1>7
  <2>2. a = b
    BY <1>1, <2>0, <2>1 DEF IsInjective
  <2>. QED  BY <1>1, <1>2, <2>2
<1>10. ToSet(r) \subseteq ToSet(s) \ {e}
  <2>. SUFFICES ASSUME NEW j \in 1..Len(s) - 1 PROVE r[j] \in ToSet(s) /\ r[j] # e
    BY <1>8 DEF ToSet
  <2>. DEFINE a == IF j < k THEN j ELSE j + 1
  <2>1. a \in 1..Len(s) /\ r[j] = s[a] /\ a # k
    BY <1>1, <1>2, <1>7
  <2>. QED  BY <1>1, <1>3, <2>1 DEF ToSet
<1>11. ToSet(s) \ {e} \subseteq ToSet(r)
  <2>. SUFFICES ASSUME NEW i \in 1..Len(s), s[i] # e PROVE s[i] \in ToSet(r)
    BY <1>1 DEF ToSet
  <2>. DEFINE j == IF i < k THEN i ELSE i - 1
  <2>1. j \in 1..Len(s) - 1 /\ r[j] = s[i]
    BY <1>1, <1>2, <1>7
  <2>. QED  BY <1>8, <2>1 DEF ToSet
<1>. QED  BY <1>6, <1>7, <1>9, <1>10, <1>11 DEF r

LEMMA InsertAtFacts ==
  ASSUME NEW S0, NEW s \in Seq(S0), NEW e \in S0, NEW k \in 0..Len(s)
  PROVE  /\ InsertAt(s, k + 1, e) \in Seq(S0)
         /\ Len(InsertAt(s, k + 1, e)) = Len(s) + 1
         /\ \A i \in 1..Len(s) + 1 :
              InsertAt(s, k + 1, e)[i] = IF i <= k THEN s[i] ELSE IF i = k + 1 THEN e ELSE s[i - 1]
<1>. DEFINE a == SubSeq(s, 1, k)  b == SubSeq(s, k + 1, Len(s))  n == Len(s)
<1>0. n \in Nat /\ k \in Nat /\ k <= n
  OBVIOUS
<1>1. a \in Seq(S0) /\ Len(a) = k /\ \A i \in 1..k : a[i] = s[i]
  OBVIOUS
<1>2. b \in Seq(S0) /\ Len(b) = n - k /\ \A i \in 1..n - k : b[i] = s[k + i]
  OBVIOUS
<1>3. InsertAt(s, k + 1, e) = a \o <<e>> \o b
  <2>1. (k + 1) - 1 = k
    BY <1>0
  <2>. QED  BY <2>1 DEF InsertAt
<1>. HIDE DEF a, b, n
<1>. DEFINE c == a \o <<e>>  r == c \o b
<1>4. c \in Seq(S0) /\ Len(c) = k + 1 /\ (\A i \in 1..k : c[i] = a[i]) /\ c[k + 1] = e
  <2>. PICK x : x = <<e>>
    OBVIOUS
  <2>. PICK z : z = a \o x
    OBVIOUS
  <2>1. x \in Seq(S0) /\ Len(x) = 1 /\ x[1] = e
    OBVIOUS
  <2>2. z \in Seq(S0) /\ Len(z) = k + 1 /\ (\A i \in 1..k : z[i] = a[i]) /\ z[k + 1] = e
    BY <1>0, <1>1, <2>1, ConcatFacts
  <2>3. z = c
    OBVIOUS
  <2>. QED  BY <2>2, <2>3
<1>. HIDE DEF c
<1>5. /\ r \in Seq(S0) /\ Len(r) = n + 1
      /\ \A i \in 1..k + 1 : r[i] = c[i]
      /\ \A i \in 1..n - k : r[k + 1 + i] = b[i]
  <2>1. /\ r \in Seq(S0) /\ Len(r) = Len(c) + Len(b)
        /\ \A i \in 1..Len(c) : r[i] = c[i]
        /\ \A i \in 1..Len(b) : r[Len(c) + i] = b[i]
    <3>. PICK z : z = c \o b
      OBVIOUS
    <3>1. /\ z \in Seq(S0) /\ Len(z) = Len(c) + Len(b)
          /\ \A i \in 1..Len(c) : z[i] = c[i]
          /\ \A i \in 1..Len(b) : z[Len(c) + i] = b[i]
      <4>1. c \in Seq(S0) /\ b \in Seq(S0)
        BY <1>2, <1>4
      <4>. QED  BY <4>1, ConcatFacts
    <3>2. z = r
      OBVIOUS
    <3>. QED  BY <3>1, <3>2
  <2>. HIDE DEF r
  <2>2. Len(c) = k + 1 /\ Len(b) = n - k /\ Len(c) + Len(b) = n + 1
    BY <1>0, <1>2, <1>4
  <2>. QED  BY <2>1, <2>2
<1>6. InsertAt(s, k + 1, e) = r
  BY <1>3 DEF c
<1>. HIDE DEF r
<1>7. ASSUME NEW i \in 1..n + 1
      PROVE  r[i] = IF i <= k THEN s[i] ELSE IF i = k + 1 THEN e ELSE s[i - 1]
  <2>1. CASE i <= k
    BY <1>0, <1>1, <1>4, <1>5, <2>1
  <2>2. CASE i = k + 1
    BY <1>0, <1>4, <1>5, <2>2
  <2>3. CASE i > k + 1
    <3>1. i - (k + 1) \in 1..n - k /\ k + 1 + (i - (k + 1)) = i /\ k + (i - (k + 1)) = i - 1
      BY <1>0, <2>3
    <3>. QED  BY <1>2, <1>5, <2>3, <3>1
  <2>4. i <= k \/ i = k + 1 \/ i > k + 1
    BY <1>0
  <2>. QED  BY <2>1, <2>2, <2>3, <2>4
<1>8. n = Len(s)
  BY DEF n
<1>. QED  BY <1>5, <1>6, <1>7, <1>8

-----------------------------------------------------------------------------
(* Runs through a list, one step for each of its elements. *)

\* f goes from x by the n steps.
RunOf(S0, x, n, step, f) ==
  f \in [0..n -> S0] /\ f[0] = x /\ \A i \in 1..n : f[i] = step[i][f[i - 1]]

\* A run of steps through a list exists: the shortest stretch without one would have a
\* stretch without its last step.
LEMMA RunsExist ==
  ASSUME NEW S0, NEW x \in S0, NEW n \in Nat, NEW step \in [1..n -> [S0 -> S0]]
  PROVE  \E f : RunOf(S0, x, n, step, f)
<1>. DEFINE Run(k) == \E f \in [0..k -> S0] :
                        f[0] = x /\ \A i \in 1..k : f[i] = step[i][f[i - 1]]
            Bad == {k \in 0..n : ~Run(k)}
<1>1. SUFFICES Bad = {}
  <2>1. n \in 0..n
    OBVIOUS
  <2>2. Run(n) => \E f : RunOf(S0, x, n, step, f)
    BY DEF RunOf
  <2>. HIDE DEF Run
  <2>. QED  BY <2>1, <2>2
<1>2. SUFFICES ASSUME Bad # {}  PROVE FALSE
  OBVIOUS
<1>3. /\ Bad \in SUBSET Nat
      /\ Min(Bad) \in Bad /\ \A c \in Bad : Min(Bad) <= c
  <2>1. Bad \in SUBSET Nat
    OBVIOUS
  <2>. HIDE DEF Bad
  <2>. QED  BY <1>2, <2>1, MinFacts
<1>k. PICK k : k = Min(Bad)
  OBVIOUS
<1>4. k \in 0..n /\ ~Run(k) /\ \A c \in Bad : k <= c
  BY <1>3, <1>k
<1>5. k # 0
  <2>1. SUFFICES ASSUME k = 0  PROVE FALSE
    OBVIOUS
  <2>2. [i \in 0..0 |-> x] \in [0..0 -> S0] /\ [i \in 0..0 |-> x][0] = x
    OBVIOUS
  <2>3. \A i \in 1..0 : [j \in 0..0 |-> x][i] = step[i][[j \in 0..0 |-> x][i - 1]]
    OBVIOUS
  <2>4. Run(0)
    BY <2>2, <2>3
  <2>. QED  BY <1>4, <2>1, <2>4
<1>6. k - 1 \in 0..n /\ k \in 1..n
  BY <1>4, <1>5
<1>7. Run(k - 1)
  <2>1. ~(k <= k - 1)
    BY <1>6
  <2>2. k - 1 \notin Bad
    <3>. HIDE DEF Bad
    <3>. QED  BY <1>4, <2>1
  <2>. QED  BY <1>6, <2>2
<1>8. PICK f \in [0..k - 1 -> S0] :
        f[0] = x /\ \A i \in 1..k - 1 : f[i] = step[i][f[i - 1]]
  BY <1>7
<1>. DEFINE g == [i \in 0..k |-> IF i = k THEN step[k][f[k - 1]] ELSE f[i]]
<1>9. f[k - 1] \in S0 /\ step[k][f[k - 1]] \in S0
  <2>1. f[k - 1] \in S0
    BY <1>6
  <2>2. step[k] \in [S0 -> S0]
    BY <1>6
  <2>. QED  BY <2>1, <2>2
<1>10. g \in [0..k -> S0]
  BY <1>6, <1>9
<1>11. g[0] = x
  BY <1>6, <1>8
<1>12. \A i \in 1..k : g[i] = step[i][g[i - 1]]
  <2>. TAKE i \in 1..k
  <2>1. CASE i = k
    <3>1. g[k] = step[k][f[k - 1]] /\ g[k - 1] = f[k - 1]
      BY <1>6
    <3>. QED  BY <2>1, <3>1
  <2>2. CASE i # k
    <3>1. i \in 1..k - 1 /\ i \in 0..k /\ i - 1 \in 0..k /\ i - 1 # k
      BY <1>6, <2>2
    <3>2. g[i] = f[i] /\ g[i - 1] = f[i - 1]
      BY <2>2, <3>1
    <3>. QED  BY <1>8, <3>1, <3>2
  <2>. QED  BY <2>1, <2>2
<1>13. Run(k)
  BY <1>10, <1>11, <1>12
<1>. QED  BY <1>4, <1>13
=============================================================================
