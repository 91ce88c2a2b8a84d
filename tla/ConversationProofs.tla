-------------------------- MODULE ConversationProofs --------------------------
(***************************************************************************)
(* Machine-checked proofs about modules ClientTree and Conversation, for   *)
(* any number of turns, rows, deletions, reloads and faults.               *)
(***************************************************************************)
EXTENDS Conversation, SequenceTheorems, FiniteSetTheorems, WellFoundedInduction, TLAPS

-----------------------------------------------------------------------------
(* induction, and what is defined by it *)

\* A set of naturals has a least one.
LEMMA LeastNumber ==
  ASSUME NEW T \in SUBSET Nat, T # {}
  PROVE  \E m \in T : \A k \in T : m <= k
<1>1. PICK m \in T : \A k \in T : ~(<<k, m>> \in OpToRel(<, Nat))
  BY NatLessThanWellFounded, WFMin
<1>2. ASSUME NEW k \in T PROVE m <= k
  <2>1. k \in Nat /\ m \in Nat
    OBVIOUS
  <2>2. k < m => <<k, m>> \in OpToRel(<, Nat)
    BY <2>1 DEF OpToRel
  <2>3. ~(k < m)
    BY <1>1, <2>2
  <2>4. QED
    BY <2>1, <2>3
<1>3. QED
  BY <1>2

\* What holds of 0 and is handed on holds up to N.
LEMMA UpTo ==
  ASSUME NEW N \in Nat, NEW T, 0 \in T, \A n \in 1 .. N : n - 1 \in T => n \in T
  PROVE  0 .. N \subseteq T
<1> SUFFICES ASSUME (0 .. N) \ T # {} PROVE FALSE
  OBVIOUS
<1>1. PICK m \in (0 .. N) \ T : \A k \in (0 .. N) \ T : m <= k
  <2>1. (0 .. N) \ T \in SUBSET Nat
    OBVIOUS
  <2>2. QED
    BY <2>1, LeastNumber
<1>2. m \in 1 .. N /\ m - 1 \in 0 .. N /\ ~(m <= m - 1)
  BY <1>1
<1>3. m - 1 \in T
  BY <1>1, <1>2
<1>4. QED
  BY <1>1, <1>2, <1>3

\* The numbers between two bounds that are in S have a greatest one.
LEMMA MaxIsElement ==
  ASSUME NEW a \in Int, NEW b \in Int, NEW S \in SUBSET (a .. b), S # {}
  PROVE  Max(S) \in S /\ \A x \in S : x <= Max(S)
<1> DEFINE T == {b - x : x \in S}
<1>1. T \subseteq Nat /\ T # {}
  <2>1. \A x \in S : x \in a .. b
    OBVIOUS
  <2>2. \A x \in S : b - x \in Nat
    BY <2>1
  <2>3. QED
    BY <2>2
<1>2. PICK t \in T : \A u \in T : t <= u
  <2> HIDE DEF T
  <2>1. T \in SUBSET Nat
    BY <1>1
  <2>2. QED
    BY <1>1, <2>1, LeastNumber
<1>3. PICK x \in S : t = b - x
  OBVIOUS
<1>4. \A y \in S : x >= y
  <2>1. \A y \in S : b - y \in T /\ y \in Int
    OBVIOUS
  <2>2. QED
    BY <1>2, <1>3, <2>1
<1>5. Max(S) \in S /\ \A y \in S : Max(S) >= y
  BY <1>4 DEF Max
<1>6. QED
  BY <1>5

\* h starts with b and goes on by steps of G.
Iterates(h, G, b, N, V) ==
  /\ h \in [0 .. N -> V] /\ h[0] = b
  /\ \A n \in 1 .. N : h[n] = G[<<n, h[n - 1]>>]

\* A step G is repeated N times from b on.
LEMMA Repeated ==
  ASSUME NEW V, NEW b \in V, NEW N \in Nat, NEW G \in [(1 .. N) \X V -> V]
  PROVE  \E h : Iterates(h, G, b, N, V)
<1> DEFINE Fits(h, m) == h[0] = b /\ \A n \in 1 .. m : h[n] = G[<<n, h[n - 1]>>]
           T == {m \in 0 .. N : \E h \in [0 .. m -> V] : Fits(h, m)}
<1>1. 0 \in T
  <2> DEFINE h == [n \in 0 .. 0 |-> b]
  <2>1. h \in [0 .. 0 -> V] /\ h[0] = b /\ 1 .. 0 = {}
    OBVIOUS
  <2>2. Fits(h, 0)
    BY <2>1
  <2> HIDE DEF h, Fits
  <2>3. h \in [0 .. 0 -> V]
    BY <2>1
  <2>4. QED
    BY <2>2, <2>3
<1>2. ASSUME NEW m \in 1 .. N, m - 1 \in T PROVE m \in T
  <2>1. PICK h \in [0 .. m - 1 -> V] : Fits(h, m - 1)
    BY <1>2
  <2> DEFINE g == [n \in 0 .. m |-> IF n = m THEN G[<<m, h[m - 1]>>] ELSE h[n]]
  <2>2. h[m - 1] \in V /\ G[<<m, h[m - 1]>>] \in V
    BY <1>2
  <2>3. g \in [0 .. m -> V]
    <3>1. \A n \in 0 .. m : n # m => n \in 0 .. m - 1
      OBVIOUS
    <3>2. QED
      BY <2>2, <3>1
  <2>4. g[0] = b
    BY <2>1
  <2>5. ASSUME NEW n \in 1 .. m PROVE g[n] = G[<<n, g[n - 1]>>]
    <3>1. n - 1 \in 0 .. m /\ n - 1 # m /\ n \in 0 .. m
      OBVIOUS
    <3>2. g[n - 1] = h[n - 1]
      BY <3>1
    <3>3. CASE n = m
      BY <3>1, <3>2, <3>3
    <3>4. CASE n # m
      <4>1. n \in 1 .. m - 1
        BY <3>4
      <4>2. QED
        BY <2>1, <3>1, <3>2, <3>4, <4>1
    <3>5. QED
      BY <3>3, <3>4
  <2> HIDE DEF g
  <2>6. QED
    BY <1>2, <2>3, <2>4, <2>5
<1>3. N \in T
  <2> HIDE DEF T
  <2>1. 0 .. N \subseteq T
    BY <1>1, <1>2, UpTo
  <2>2. QED
    BY <2>1
<1>4. QED
  BY <1>3, Zenon DEF Iterates

\* Layer n + 1 adds what the edges ch reach from layer n.
Layers(h, ch, id, N, U) ==
  /\ h \in [0 .. N -> SUBSET U] /\ h[0] = {id}
  /\ \A n \in 1 .. N : h[n] = h[n - 1] \cup UNION {ch[x] : x \in h[n - 1]}

\* The sources of the edges that layer N has reached are exhausted: the last
\* layer is closed, and it is the least closed set there is.
LEMMA LayersClose ==
  ASSUME NEW U, NEW ch \in [U -> SUBSET U], NEW id \in U,
         NEW D, IsFiniteSet(D), \A x \in U : ch[x] # {} => x \in D,
         NEW N \in Nat, Cardinality(D) <= N,
         NEW h, Layers(h, ch, id, N, U)
  PROVE  /\ id \in h[N]
         /\ \A x \in h[N] : ch[x] \subseteq h[N]
         /\ \A y \in h[N] : y = id \/ \E x \in h[N] : y \in ch[x]
<1> DEFINE Closed(S) == \A x \in S : ch[x] \subseteq S
           Reached(n) == Cardinality(h[n] \cap D)
           T == {n \in 0 .. N : Closed(h[n]) \/ Reached(n) > n}
           O == {n \in 0 .. N : id \in h[n] /\ \A y \in h[n] : y = id \/ \E x \in h[n] : y \in ch[x]}
<1>0. /\ h \in [0 .. N -> SUBSET U] /\ h[0] = {id}
      /\ \A n \in 1 .. N : h[n] = h[n - 1] \cup UNION {ch[x] : x \in h[n - 1]}
  BY DEF Layers
<1> USE <1>0
<1>1. \A n \in 0 .. N : /\ IsFiniteSet(h[n] \cap D) /\ Reached(n) \in Nat
                        /\ Reached(n) <= Cardinality(D)
  <2> TAKE n \in 0 .. N
  <2>1. h[n] \cap D \subseteq D
    OBVIOUS
  <2>2. QED
    BY <2>1, FS_Subset, FS_CardinalityType
<1>2. 0 \in T
  <2>1. CASE id \in D
    <3>1. h[0] \cap D = {id}
      BY <2>1
    <3>2. Reached(0) = 1
      BY <3>1, FS_Singleton
    <3>3. Reached(0) > 0 /\ 0 \in 0 .. N
      <4> HIDE DEF Reached
      <4>1. QED
        BY <3>2
    <3>4. QED
      BY <3>3
  <2>2. CASE id \notin D
    <3>1. ch[id] = {}
      BY <2>2
    <3>2. Closed(h[0])
      BY <3>1
    <3>3. QED
      BY <3>2
  <2>3. QED
    BY <2>1, <2>2
<1>3. ASSUME NEW n \in 1 .. N, n - 1 \in T PROVE n \in T
  <2>1. n \in 0 .. N /\ n - 1 \in 0 .. N /\ h[n - 1] \subseteq h[n]
        /\ h[n] = h[n - 1] \cup UNION {ch[x] : x \in h[n - 1]}
    OBVIOUS
  <2>2. CASE Closed(h[n - 1])
    <3>1. h[n] = h[n - 1]
      BY <2>1, <2>2
    <3>2. QED
      BY <2>1, <2>2, <3>1
  <2>3. CASE ~Closed(h[n]) /\ Reached(n - 1) > n - 1
    <3>1. PICK x \in h[n] : ~(ch[x] \subseteq h[n])
      BY <2>3
    <3>2. x \in D
      <4>1. x \in U /\ ch[x] # {}
        BY <2>1, <3>1
      <4>2. QED
        BY <4>1
    <3>3. x \notin h[n - 1]
      BY <2>1, <3>1
    <3>4. h[n - 1] \cap D \subseteq h[n] \cap D /\ h[n - 1] \cap D # h[n] \cap D
      BY <2>1, <3>1, <3>2, <3>3
    <3>5. Reached(n - 1) < Reached(n)
      <4> DEFINE A == h[n - 1] \cap D
                 B == h[n] \cap D
      <4>1. IsFiniteSet(B) /\ A \subseteq B /\ A # B
        BY <1>1, <2>1, <3>4
      <4> HIDE DEF A, B
      <4>2. Cardinality(A) < Cardinality(B)
        <5>1. A \in SUBSET B /\ IsFiniteSet(B) /\ A # B
          BY <4>1
        <5>2. IsFiniteSet(A) /\ Cardinality(A) <= Cardinality(B) /\ Cardinality(B) # Cardinality(A)
          BY ONLY <5>1, FS_Subset
        <5>3. Cardinality(A) \in Nat /\ Cardinality(B) \in Nat
          BY ONLY <5>1, <5>2, FS_CardinalityType
        <5>4. QED
          BY ONLY <5>2, <5>3
      <4>3. QED
        BY <4>2 DEF A, B
    <3>6. Reached(n - 1) \in Nat /\ Reached(n) \in Nat
      BY <1>1, <2>1
    <3>7. Reached(n) > n
      <4> HIDE DEF Reached
      <4>1. QED
        BY <2>3, <3>5, <3>6
    <3>8. QED
      BY <2>1, <3>7
  <2>4. QED
    BY <1>3, <2>1, <2>2, <2>3
<1>4. N \in T
  <2> HIDE DEF T
  <2>1. 0 .. N \subseteq T
    BY <1>2, <1>3, UpTo
  <2>2. QED
    BY <2>1
<1>5. Closed(h[N])
  <2>1. Reached(N) \in Nat /\ Reached(N) <= Cardinality(D) /\ Cardinality(D) \in Nat
    BY <1>1, FS_CardinalityType
  <2>2. ~(Reached(N) > N)
    <3> HIDE DEF Reached
    <3>1. QED
      BY <2>1
  <2>3. QED
    BY <1>4, <2>2
<1>6. 0 \in O
  OBVIOUS
<1>7. ASSUME NEW n \in 1 .. N, n - 1 \in O PROVE n \in O
  <2>1. n \in 0 .. N /\ h[n - 1] \subseteq h[n] /\ id \in h[n - 1]
        /\ h[n] = h[n - 1] \cup UNION {ch[x] : x \in h[n - 1]}
    BY <1>7
  <2>2. ASSUME NEW y \in h[n], y # id PROVE \E x \in h[n] : y \in ch[x]
    <3>1. CASE y \in h[n - 1]
      BY <1>7, <2>1, <2>2, <3>1
    <3>2. CASE y \notin h[n - 1]
      BY <2>1, <3>2
    <3>3. QED
      BY <3>1, <3>2
  <2>3. QED
    BY <2>1, <2>2
<1>8. N \in O
  <2> HIDE DEF O
  <2>1. 0 .. N \subseteq O
    BY <1>6, <1>7, UpTo
  <2>2. QED
    BY <2>1
<1>9. QED
  BY <1>5, <1>8

\* Whatever holds the first node and all edges from it on holds every layer.
LEMMA LayersAreLeast ==
  ASSUME NEW U, NEW ch \in [U -> SUBSET U], NEW id \in U, NEW N \in Nat,
         NEW h, Layers(h, ch, id, N, U),
         NEW S, id \in S, \A x \in U \cap S : ch[x] \subseteq S
  PROVE  h[N] \subseteq S
<1> DEFINE T == {n \in 0 .. N : h[n] \subseteq S}
<1>0. /\ h \in [0 .. N -> SUBSET U] /\ h[0] = {id}
      /\ \A n \in 1 .. N : h[n] = h[n - 1] \cup UNION {ch[x] : x \in h[n - 1]}
  BY DEF Layers
<1> USE <1>0
<1>1. 0 \in T
  OBVIOUS
<1>2. ASSUME NEW n \in 1 .. N, n - 1 \in T PROVE n \in T
  <2>1. n \in 0 .. N /\ n - 1 \in 0 .. N /\ h[n - 1] \subseteq S /\ h[n - 1] \subseteq U
    BY <1>2
  <2>2. UNION {ch[x] : x \in h[n - 1]} \subseteq S
    BY <2>1
  <2>3. h[n] \subseteq S
    BY <2>1, <2>2
  <2>4. QED
    BY <2>1, <2>3
<1>3. N \in T
  <2> HIDE DEF T
  <2>1. 0 .. N \subseteq T
    BY <1>1, <1>2, UpTo
  <2>2. QED
    BY <2>1
<1>4. QED
  BY <1>3

-----------------------------------------------------------------------------
(* the order of the keys: rows by their number, then local ids by theirs *)

Above(p, x) ==
  x # 0 /\ (p = 0 \/ (p > 0 /\ (x < 0 \/ p < x)) \/ (p < 0 /\ x < p))

\* No key is above itself.
LEMMA AboveIsStrict == ASSUME NEW x \in Int PROVE ~Above(x, x)
  BY DEF Above

\* What is above something above a key is above the key.
LEMMA AboveIsTransitive ==
  ASSUME NEW a \in Int, NEW b \in Int, NEW c \in Int, Above(a, b), Above(b, c)
  PROVE  Above(a, c)
  BY DEF Above

-----------------------------------------------------------------------------
(* sequences of siblings *)

\* A node is added last among its siblings.
LEMMA AppendFacts ==
  ASSUME NEW S, NEW s \in Seq(S), NEW x \in S
  PROVE  /\ Append(s, x) \in Seq(S) /\ Append(s, x) # << >>
         /\ ToSet(Append(s, x)) = ToSet(s) \cup {x}
         /\ IsInjective(s) /\ x \notin ToSet(s) => IsInjective(Append(s, x))
<1> DEFINE a == Append(s, x)
<1>1. /\ a \in Seq(S) /\ a # << >> /\ Len(s) \in Nat
      /\ DOMAIN s = 1 .. Len(s) /\ DOMAIN a = 1 .. Len(s) + 1
      /\ \A k \in 1 .. Len(s) : a[k] = s[k]
      /\ a[Len(s) + 1] = x
  OBVIOUS
<1>2. \A k \in 1 .. Len(s) + 1 : k \in 1 .. Len(s) \/ k = Len(s) + 1
  BY <1>1
<1>3. \A k \in 1 .. Len(s) : k \in 1 .. Len(s) + 1 /\ k # Len(s) + 1
  BY <1>1
<1>4. Len(s) + 1 \in 1 .. Len(s) + 1
  BY <1>1
<1> HIDE DEF a
<1>5. ToSet(a) = ToSet(s) \cup {x}
  <2>1. ToSet(a) \subseteq ToSet(s) \cup {x}
    BY <1>1, <1>2, Zenon DEF ToSet
  <2>2. ToSet(s) \cup {x} \subseteq ToSet(a)
    <3>1. \A k \in DOMAIN s : s[k] \in ToSet(a)
      BY <1>1, <1>3, Zenon DEF ToSet
    <3>2. x \in ToSet(a)
      BY <1>1, <1>4, Zenon DEF ToSet
    <3>3. QED
      BY <3>1, <3>2 DEF ToSet
  <2>3. QED
    BY <2>1, <2>2
<1>6. ASSUME IsInjective(s), x \notin ToSet(s) PROVE IsInjective(a)
  <2>1. \A k \in 1 .. Len(s) : s[k] # x
    BY <1>1, <1>6, Zenon DEF ToSet
  <2>2. ASSUME NEW i \in 1 .. Len(s) + 1, NEW j \in 1 .. Len(s) + 1, a[i] = a[j] PROVE i = j
    BY <1>1, <1>2, <1>6, <2>1, <2>2, Zenon DEF IsInjective
  <2>3. QED
    BY <1>1, <2>2, Zenon DEF IsInjective
<1>7. QED
  BY <1>1, <1>5, <1>6 DEF a

\* A node is taken out of its siblings.
LEMMA RemoveAtFacts ==
  ASSUME NEW S, NEW s \in Seq(S), NEW i \in 1 .. Len(s)
  PROVE  /\ RemoveAt(s, i) \in Seq(S) /\ Len(RemoveAt(s, i)) = Len(s) - 1
         /\ \A k \in 1 .. Len(s) - 1 :
              RemoveAt(s, i)[k] = IF k < i THEN s[k] ELSE s[k + 1]
<1> DEFINE a == SubSeq(s, 1, i - 1)
           b == SubSeq(s, i + 1, Len(s))
<1>1. Len(s) \in Nat /\ i \in 1 .. Len(s)
  OBVIOUS
<1>2. a \in Seq(S) /\ Len(a) = i - 1 /\ \A k \in 1 .. i - 1 : a[k] = s[k]
  BY <1>1
<1>3. b \in Seq(S) /\ Len(b) = Len(s) - i /\ \A k \in 1 .. Len(s) - i : b[k] = s[i + k]
  BY <1>1
<1> HIDE DEF a, b
<1>4. a \o b \in Seq(S) /\ Len(a \o b) = Len(s) - 1
  <2>1. a \o b \in Seq(S) /\ Len(a \o b) = Len(a) + Len(b)
    BY <1>2, <1>3, ConcatProperties
  <2>2. QED
    BY <1>1, <1>2, <1>3, <2>1
<1>5. ASSUME NEW k \in 1 .. Len(s) - 1 PROVE (a \o b)[k] = IF k < i THEN s[k] ELSE s[k + 1]
  <2>1. (a \o b)[k] = IF k <= Len(a) THEN a[k] ELSE b[k - Len(a)]
    BY <1>1, <1>2, <1>3
  <2>2. CASE k < i
    BY <1>1, <1>2, <2>1, <2>2
  <2>3. CASE ~(k < i)
    <3>1. k - (i - 1) \in 1 .. Len(s) - i /\ ~(k <= i - 1) /\ i + (k - (i - 1)) = k + 1
      BY <1>1, <2>3
    <3>2. QED
      BY <1>2, <1>3, <2>1, <2>3, <3>1
  <2>4. QED
    BY <2>2, <2>3
<1>6. QED
  BY <1>4, <1>5 DEF RemoveAt, a, b

\* What is left is the others, each still once.
LEMMA RemoveAtKeepsOthers ==
  ASSUME NEW S, NEW s \in Seq(S), NEW i \in 1 .. Len(s), IsInjective(s)
  PROVE  /\ IsInjective(RemoveAt(s, i))
         /\ ToSet(RemoveAt(s, i)) = ToSet(s) \ {s[i]}
<1> DEFINE r == RemoveAt(s, i)
           up(k) == IF k < i THEN k ELSE k + 1
<1>1. /\ DOMAIN r = 1 .. Len(s) - 1 /\ DOMAIN s = 1 .. Len(s) /\ Len(s) \in Nat
      /\ \A k \in 1 .. Len(s) - 1 : r[k] = s[up(k)]
  <2>1. Len(s) \in Nat /\ DOMAIN s = 1 .. Len(s)
    OBVIOUS
  <2>2. r \in Seq(S) /\ Len(r) = Len(s) - 1
        /\ \A k \in 1 .. Len(s) - 1 : r[k] = IF k < i THEN s[k] ELSE s[k + 1]
    BY RemoveAtFacts
  <2> HIDE DEF r
  <2>3. QED
    BY <2>1, <2>2
<1> HIDE DEF r
<1>2. /\ \A k \in 1 .. Len(s) - 1 : up(k) \in 1 .. Len(s) /\ up(k) # i
      /\ \A k, j \in 1 .. Len(s) - 1 : up(k) = up(j) => k = j
      /\ \A j \in 1 .. Len(s) : j # i => \E k \in 1 .. Len(s) - 1 : j = up(k)
  <2>1. \A k \in 1 .. Len(s) - 1 : up(k) \in 1 .. Len(s) /\ up(k) # i
    BY <1>1
  <2>2. \A k, j \in 1 .. Len(s) - 1 : up(k) = up(j) => k = j
    BY <1>1
  <2>3. ASSUME NEW j \in 1 .. Len(s), j # i PROVE \E k \in 1 .. Len(s) - 1 : j = up(k)
    <3>1. CASE j < i
      <4>1. j \in 1 .. Len(s) - 1 /\ j = up(j)
        BY <1>1, <3>1
      <4>2. QED
        BY <4>1
    <3>2. CASE i < j
      <4>1. j - 1 \in 1 .. Len(s) - 1 /\ j = up(j - 1)
        BY <1>1, <3>2
      <4>2. QED
        BY <4>1
    <3>3. QED
      BY <1>1, <2>3, <3>1, <3>2
  <2>4. QED
    BY <2>1, <2>2, <2>3
<1> HIDE DEF up
<1>3. IsInjective(r)
  <2>1. \A a, b \in 1 .. Len(s) : s[a] = s[b] => a = b
    BY <1>1, Zenon DEF IsInjective
  <2>2. ASSUME NEW a \in 1 .. Len(s) - 1, NEW b \in 1 .. Len(s) - 1, r[a] = r[b] PROVE a = b
    BY <1>1, <1>2, <2>1, <2>2, Zenon
  <2>3. QED
    BY <1>1, <2>2, Zenon DEF IsInjective
<1>4. ToSet(r) \subseteq ToSet(s) \ {s[i]}
  <2>1. ASSUME NEW k \in 1 .. Len(s) - 1 PROVE r[k] \in ToSet(s) /\ r[k] # s[i]
    <3>1. r[k] = s[up(k)] /\ up(k) \in DOMAIN s /\ i \in DOMAIN s /\ up(k) # i
      BY <1>1, <1>2
    <3>2. QED
      BY <3>1, Zenon DEF IsInjective, ToSet
  <2>2. QED
    BY <1>1, <2>1 DEF ToSet
<1>5. ToSet(s) \ {s[i]} \subseteq ToSet(r)
  <2>1. ASSUME NEW j \in 1 .. Len(s), s[j] # s[i] PROVE s[j] \in ToSet(r)
    <3>1. PICK k \in 1 .. Len(s) - 1 : j = up(k)
      BY <1>2, <2>1
    <3>2. QED
      BY <1>1, <3>1, Zenon DEF ToSet
  <2>2. QED
    BY <1>1, <2>1 DEF ToSet
<1>6. QED
  BY <1>3, <1>4, <1>5 DEF r

\* The position of a member is where it stands.
LEMMA PositionFacts ==
  ASSUME NEW S, NEW s \in Seq(S), NEW x \in ToSet(s)
  PROVE  Position(s, x) \in 1 .. Len(s) /\ s[Position(s, x)] = x
<1> DEFINE T == {i \in 1 .. Len(s) : s[i] = x}
<1>1. DOMAIN s = 1 .. Len(s)
  OBVIOUS
<1>2. T # {} /\ T \in SUBSET Nat
  BY <1>1 DEF ToSet
<1>3. PICK i \in T : \A k \in T : i <= k
  <2> HIDE DEF T
  <2>1. QED
    BY <1>2, LeastNumber
<1>4. \A j \in 1 .. i - 1 : s[j] # x
  <2>1. ASSUME NEW j \in 1 .. i - 1, s[j] = x PROVE FALSE
    <3>1. j \in T /\ i \in Nat /\ ~(i <= j)
      BY <2>1
    <3>2. QED
      BY <1>3, <3>1
  <2>2. QED
    BY <2>1
<1>5. i \in DOMAIN s /\ s[i] = x
  BY <1>1
<1>6. Position(s, x) \in DOMAIN s /\ s[Position(s, x)] = x
  BY <1>4, <1>5, Zenon DEF Position
<1>7. QED
  BY <1>1, <1>6

\* The neighbour is one of the siblings that are left, if any is.
LEMMA NeighbourFacts ==
  ASSUME NEW S, NEW s \in Seq(S), NEW i \in 1 .. Len(s)
  PROVE  /\ RemoveAt(s, i) = << >> => Neighbour(s, i) = None
         /\ RemoveAt(s, i) # << >> => Neighbour(s, i) \in ToSet(RemoveAt(s, i))
<1> DEFINE r == RemoveAt(s, i)
           j == IF i > 1 THEN i - 1 ELSE 1
<1>1. r \in Seq(S) /\ Len(r) = Len(s) - 1 /\ Len(s) \in Nat
  BY RemoveAtFacts
<1>2. Neighbour(s, i) = IF r = << >> THEN None ELSE r[j]
  BY DEF Neighbour
<1>3. ASSUME r # << >> PROVE r[j] \in ToSet(r)
  <2> HIDE DEF r
  <2>1. j \in DOMAIN r
    BY <1>1, <1>3
  <2>2. QED
    BY <2>1 DEF ToSet
<1>4. QED
  BY <1>2, <1>3

-----------------------------------------------------------------------------
(* the tree: what its four functions agree on, and how parents lie above   *)

(* role, parent, children and active make a forest over the keys K.        *)
Forest(role, parent, children, active, K) ==
  /\ role \in [DOMAIN role -> Roles] /\ DOMAIN role \subseteq K \ {0}
  /\ parent \in [DOMAIN role -> K]
  /\ children \in [DOMAIN children -> Seq(DOMAIN role)] /\ DOMAIN children \subseteq K
  /\ active \in [DOMAIN children -> DOMAIN role]
  /\ \A k \in DOMAIN children : /\ children[k] # << >> /\ IsInjective(children[k])
                                /\ active[k] \in ToSet(children[k])
                                /\ \A x \in ToSet(children[k]) : parent[x] = k
  /\ \A x \in DOMAIN role : /\ Above(parent[x], x) /\ parent[x] \in DOMAIN children
                            /\ x \in ToSet(children[parent[x]])

Shaped(t) == t = [role |-> t.role, parent |-> t.parent,
                  children |-> t.children, active |-> t.active]

(* t is such a tree.                                                       *)
Grown(t, K) == Shaped(t) /\ Forest(t.role, t.parent, t.children, t.active, K)

\* More keys do no harm.
LEMMA ForestWidens ==
  ASSUME NEW role, NEW parent, NEW children, NEW active, NEW K, NEW L, K \subseteq L,
         Forest(role, parent, children, active, K)
  PROVE  Forest(role, parent, children, active, L)
<1>1. parent \in [DOMAIN role -> L] /\ DOMAIN role \subseteq L \ {0} /\ DOMAIN children \subseteq L
  BY DEF Forest
<1>2. QED
  BY <1>1 DEF Forest

\* Put into a function from D to R.
LEMMA PutType ==
  ASSUME NEW D, NEW R, NEW f \in [D -> R], NEW k, NEW v, NEW Q, R \subseteq Q, v \in Q
  PROVE  Put(f, k, v) \in [D \cup {k} -> Q]
  BY DEF Put

\* The children of a key are siblings, each once, and all of them nodes.
LEMMA SiblingFacts ==
  ASSUME NEW role, NEW parent, NEW children, NEW active, NEW K,
         Forest(role, parent, children, active, K), NEW k
  PROVE  /\ Lookup(children, k, << >>) \in Seq(DOMAIN role)
         /\ IsInjective(Lookup(children, k, << >>))
         /\ \A x \in ToSet(Lookup(children, k, << >>)) : x \in DOMAIN role /\ parent[x] = k
<1>1. CASE k \in DOMAIN children
  <2>1. Lookup(children, k, << >>) = children[k]
    BY <1>1 DEF Lookup
  <2>2. children[k] \in Seq(DOMAIN role) /\ IsInjective(children[k])
        /\ \A x \in ToSet(children[k]) : parent[x] = k
    BY <1>1 DEF Forest
  <2>3. \A x \in ToSet(children[k]) : x \in DOMAIN role
    BY <2>2 DEF ToSet
  <2>4. QED
    BY <2>1, <2>2, <2>3
<1>2. CASE k \notin DOMAIN children
  <2>1. Lookup(children, k, << >>) = << >>
    BY <1>2 DEF Lookup
  <2>2. << >> \in Seq(DOMAIN role) /\ DOMAIN << >> = {}
    OBVIOUS
  <2>3. IsInjective(<< >>) /\ ToSet(<< >>) = {}
    BY <2>2 DEF IsInjective, ToSet
  <2>4. QED
    BY <2>1, <2>2, <2>3
<1>3. QED
  BY <1>1, <1>2

\* addNode keeps the forest when the key is new and its parent lies above it.
LEMMA ForestGrows ==
  ASSUME NEW role, NEW parent, NEW children, NEW active, NEW K, NEW L, K \subseteq L,
         Forest(role, parent, children, active, K),
         NEW id \in L, NEW p \in L, NEW r \in Roles, Above(p, id),
         id \notin DOMAIN role
  PROVE  Forest(Put(role, id, r), Put(parent, id, p),
                Put(children, p, Append(Lookup(children, p, << >>), id)), Put(active, p, id), L)
<1> DEFINE old == Lookup(children, p, << >>)
           sibs == Append(old, id)
           R2 == Put(role, id, r)
           P2 == Put(parent, id, p)
           C2 == Put(children, p, sibs)
           A2 == Put(active, p, id)
           N == DOMAIN role \cup {id}
<1>1. /\ old \in Seq(DOMAIN role) /\ IsInjective(old)
      /\ \A x \in ToSet(old) : x \in DOMAIN role /\ parent[x] = p
  BY SiblingFacts
<1>2. /\ sibs \in Seq(N) /\ sibs # << >> /\ ToSet(sibs) = ToSet(old) \cup {id} /\ IsInjective(sibs)
  <2> HIDE DEF old
  <2>1. old \in Seq(N) /\ id \in N /\ id \notin ToSet(old)
    BY <1>1
  <2>2. QED
    BY <1>1, <2>1, AppendFacts
<1>3. /\ role \in [DOMAIN role -> Roles] /\ DOMAIN role \subseteq K \ {0}
      /\ parent \in [DOMAIN role -> K]
      /\ children \in [DOMAIN children -> Seq(DOMAIN role)] /\ DOMAIN children \subseteq K
      /\ active \in [DOMAIN children -> DOMAIN role]
  BY DEF Forest
<1>4. id # 0
  BY DEF Above
<1> HIDE DEF sibs, old
<1>5. /\ DOMAIN R2 = N /\ R2 \in [N -> Roles] /\ N \subseteq L \ {0}
  BY <1>3, <1>4 DEF Put
<1>6. P2 \in [N -> L] /\ P2[id] = p /\ \A x \in DOMAIN role : P2[x] = parent[x]
  <2>1. P2 \in [N -> L]
    BY <1>3, PutType
  <2>2. DOMAIN parent = DOMAIN role
    BY <1>3
  <2>3. P2[id] = p /\ \A x \in DOMAIN parent : x # id => P2[x] = parent[x]
    BY DEF Put
  <2>4. QED
    BY <2>1, <2>2, <2>3
<1>7. /\ DOMAIN C2 = DOMAIN children \cup {p} /\ C2 \in [DOMAIN C2 -> Seq(N)] /\ DOMAIN C2 \subseteq L
      /\ C2[p] = sibs /\ \A k \in DOMAIN children : k # p => C2[k] = children[k]
  <2>1. DOMAIN C2 = DOMAIN children \cup {p}
    BY DEF Put
  <2>2. Seq(DOMAIN role) \subseteq Seq(N)
    OBVIOUS
  <2>3. C2 \in [DOMAIN children \cup {p} -> Seq(N)]
    BY <1>2, <1>3, <2>2, PutType
  <2>4. C2[p] = sibs /\ \A k \in DOMAIN children : k # p => C2[k] = children[k]
    BY DEF Put
  <2>5. DOMAIN C2 \subseteq L
    BY <1>3, <2>1
  <2> HIDE DEF C2
  <2>6. QED
    BY <2>1, <2>3, <2>4, <2>5
<1>8. /\ A2 \in [DOMAIN children \cup {p} -> N]
      /\ A2[p] = id /\ \A k \in DOMAIN children : k # p => A2[k] = active[k]
  <2>1. DOMAIN active = DOMAIN children
    BY <1>3
  <2>2. DOMAIN role \subseteq N /\ id \in N
    OBVIOUS
  <2>3. A2 \in [DOMAIN children \cup {p} -> N]
    BY <1>3, <2>2, PutType
  <2>4. A2[p] = id /\ \A k \in DOMAIN active : k # p => A2[k] = active[k]
    BY DEF Put
  <2> HIDE DEF A2
  <2>5. QED
    BY <2>1, <2>3, <2>4
<1> HIDE DEF R2, P2, C2, A2
<1>9. ASSUME NEW k \in DOMAIN children \cup {p}
      PROVE  /\ C2[k] # << >> /\ IsInjective(C2[k]) /\ A2[k] \in ToSet(C2[k])
             /\ \A x \in ToSet(C2[k]) : P2[x] = k
  <2>1. CASE k = p
    BY <1>1, <1>2, <1>6, <1>7, <1>8, <2>1
  <2>2. CASE k # p
    <3>1. k \in DOMAIN children /\ C2[k] = children[k] /\ A2[k] = active[k]
      BY <1>7, <1>8, <2>2
    <3>2. /\ children[k] # << >> /\ IsInjective(children[k]) /\ active[k] \in ToSet(children[k])
          /\ \A x \in ToSet(children[k]) : parent[x] = k
      BY <3>1 DEF Forest
    <3>3. children[k] \in Seq(DOMAIN role)
      BY <1>3, <3>1
    <3>4. \A x \in ToSet(children[k]) : x \in DOMAIN role
      BY <3>3 DEF ToSet
    <3>5. QED
      BY <1>6, <3>1, <3>2, <3>4
  <2>3. QED
    BY <2>1, <2>2
<1>10. ASSUME NEW x \in N
       PROVE  /\ Above(P2[x], x) /\ P2[x] \in DOMAIN children \cup {p}
              /\ x \in ToSet(C2[P2[x]])
  <2>1. CASE x = id
    BY <1>2, <1>6, <1>7, <2>1
  <2>2. CASE x # id
    <3>1. x \in DOMAIN role /\ P2[x] = parent[x]
      BY <1>6, <2>2
    <3>2. Above(parent[x], x) /\ parent[x] \in DOMAIN children /\ x \in ToSet(children[parent[x]])
      BY <3>1 DEF Forest
    <3>3. CASE parent[x] = p
      <4>1. old = children[p]
        BY <3>2, <3>3 DEF old, Lookup
      <4>2. QED
        BY <1>2, <1>7, <3>1, <3>2, <3>3, <4>1
    <3>4. CASE parent[x] # p
      BY <1>7, <3>1, <3>2, <3>4
    <3>5. QED
      BY <3>3, <3>4
  <2>3. QED
    BY <2>1, <2>2
<1>11. Forest(R2, P2, C2, A2, L)
  <2>1. /\ R2 \in [DOMAIN R2 -> Roles] /\ DOMAIN R2 \subseteq L \ {0}
        /\ P2 \in [DOMAIN R2 -> L] /\ C2 \in [DOMAIN C2 -> Seq(DOMAIN R2)]
        /\ DOMAIN C2 \subseteq L /\ A2 \in [DOMAIN C2 -> DOMAIN R2]
    BY <1>5, <1>6, <1>7, <1>8
  <2>2. \A k \in DOMAIN C2 :
           /\ C2[k] # << >> /\ IsInjective(C2[k]) /\ A2[k] \in ToSet(C2[k])
           /\ \A x \in ToSet(C2[k]) : P2[x] = k
    BY <1>7, <1>9
  <2>3. \A x \in DOMAIN R2 : /\ Above(P2[x], x) /\ P2[x] \in DOMAIN C2
                             /\ x \in ToSet(C2[P2[x]])
    BY <1>5, <1>7, <1>10
  <2>4. QED
    BY <2>1, <2>2, <2>3 DEF Forest
<1>12. QED
  BY <1>11 DEF R2, P2, C2, A2, sibs, old

-----------------------------------------------------------------------------
(* the subtree of a node *)

\* The layers of a subtree, as the walk down the children makes them.
LEMMA SubtreeLayers ==
  ASSUME NEW t, NEW K, NEW id \in K, Cardinality(DOMAIN t.children) \in Nat,
         \A x \in K : ToSet(ChildrenOf(t, x)) \subseteq K
  PROVE  \E h : /\ Layers(h, [x \in K |-> ToSet(ChildrenOf(t, x))], id,
                          Cardinality(DOMAIN t.children), K)
                /\ Subtree(t, id) = h[Cardinality(DOMAIN t.children)]
<1> DEFINE N == Cardinality(DOMAIN t.children)
           V == SUBSET K
           down(S) == S \cup UNION {ToSet(ChildrenOf(t, x)) : x \in S}
           G == [a \in (1 .. N) \X V |-> down(a[2])]
           Below0 == CHOOSE f : f = [n \in 0 .. N |-> IF n = 0 THEN {id}
                       ELSE LET above == f[n - 1]
                            IN above \union UNION {ToSet(ChildrenOf(t, x)) : x \in above}]
<1>1. Subtree(t, id) = Below0[N]
  BY DEF Subtree
<1>2. \A S \in V : down(S) \in V
  OBVIOUS
<1>3. G \in [(1 .. N) \X V -> V]
  <2> HIDE DEF down, V
  <2>1. QED
    BY <1>2
<1>4. {id} \in V
  OBVIOUS
<1>5. PICK h : Iterates(h, G, {id}, N, V)
  <2>1. N \in Nat
    OBVIOUS
  <2> HIDE DEF G, V, N
  <2>2. QED
    BY <1>3, <1>4, <2>1, Repeated
<1> HIDE DEF G
<1>13. h \in [0 .. N -> V] /\ h[0] = {id} /\ \A n \in 1 .. N : h[n] = G[<<n, h[n - 1]>>]
  BY <1>5 DEF Iterates
<1> USE <1>13 DEF G
<1>6. \A n \in 1 .. N : h[n] = down(h[n - 1])
  <2> HIDE DEF down, V
  <2>1. \A n \in 1 .. N : h[n - 1] \in V
    <3>1. \A n \in 1 .. N : n - 1 \in 0 .. N
      OBVIOUS
    <3>2. QED
      BY <3>1
  <2>2. \A n \in 1 .. N : G[<<n, h[n - 1]>>] = down(h[n - 1])
    BY <2>1
  <2>3. QED
    BY <1>5, <2>2
<1>7. h = [n \in 0 .. N |-> IF n = 0 THEN {id} ELSE down(h[n - 1])]
  <2> HIDE DEF down, V
  <2>1. \A n \in 0 .. N : n # 0 => n \in 1 .. N
    OBVIOUS
  <2> HIDE DEF G, N
  <2>2. \A n \in 0 .. N : h[n] = IF n = 0 THEN {id} ELSE down(h[n - 1])
    <3> TAKE n \in 0 .. N
    <3>1. CASE n = 0
      BY ONLY <1>13, <3>1, Zenon
    <3>2. CASE n # 0
      <4>1. n \in 1 .. N
        BY <2>1, <3>2
      <4>2. h[n] = down(h[n - 1])
        BY ONLY <1>6, <4>1, Zenon
      <4>3. QED
        BY ONLY <3>2, <4>2, Zenon
    <3>3. QED
      BY <3>1, <3>2
  <2>3. h = [n \in 0 .. N |-> h[n]]
    OBVIOUS
  <2> HIDE DEF N, G
  <2>4. QED
    BY ONLY <2>2, <2>3
<1>8. Below0 = [n \in 0 .. N |-> IF n = 0 THEN {id} ELSE down(Below0[n - 1])]
  BY <1>7, Zenon
<1> HIDE DEF Below0
<1>9. Below0[0] = {id} /\ \A n \in 1 .. N : Below0[n] = down(Below0[n - 1])
  <2> HIDE DEF down
  <2>1. N \in Nat
    OBVIOUS
  <2>2. 0 \in 0 .. N /\ \A n \in 1 .. N : n \in 0 .. N /\ n # 0
    BY <2>1
  <2> HIDE DEF N
  <2>3. QED
    BY <1>8, <2>2
<1>10. Below0 \in [0 .. N -> V]
  <2> DEFINE T == {n \in 0 .. N : Below0[n] \in V}
  <2>1. 0 \in T
    BY <1>4, <1>9
  <2>2. ASSUME NEW n \in 1 .. N, n - 1 \in T PROVE n \in T
    <3> HIDE DEF down, V
    <3>1. Below0[n] \in V
      BY <1>2, <1>9, <2>2
    <3>2. QED
      BY <3>1
  <2>3. 0 .. N \subseteq T
    <3> HIDE DEF T
    <3>1. N \in Nat
      OBVIOUS
    <3> HIDE DEF N
    <3>2. QED
      BY <2>1, <2>2, <3>1, UpTo
  <2>4. DOMAIN Below0 = 0 .. N /\ Below0 = [n \in 0 .. N |-> Below0[n]]
    BY <1>8
  <2> HIDE DEF V
  <2>5. QED
    BY <2>3, <2>4
<1>11. Layers(Below0, [x \in K |-> ToSet(ChildrenOf(t, x))], id, N, K)
  <2> DEFINE ch == [x \in K |-> ToSet(ChildrenOf(t, x))]
  <2>1. ASSUME NEW n \in 1 .. N PROVE Below0[n] = Below0[n - 1] \cup UNION {ch[x] : x \in Below0[n - 1]}
    <3>1. Below0[n - 1] \subseteq K
      <4>1. n - 1 \in 0 .. N
        OBVIOUS
      <4>2. QED
        BY <1>10, <4>1
    <3>2. \A x \in Below0[n - 1] : ch[x] = ToSet(ChildrenOf(t, x))
      BY <3>1
    <3>3. Below0[n] = Below0[n - 1] \cup UNION {ToSet(ChildrenOf(t, x)) : x \in Below0[n - 1]}
      BY <1>9
    <3> HIDE DEF ch
    <3>4. QED
      BY <3>2, <3>3
  <2> HIDE DEF ch
  <2> HIDE DEF V, N
  <2>2. Below0 \in [0 .. N -> SUBSET K] /\ Below0[0] = {id}
    BY <1>9, <1>10 DEF V
  <2>3. QED
    BY <2>1, <2>2, Zenon DEF Layers, ch
<1>12. QED
  BY <1>1, <1>11, Zenon

\* The subtree of a node: the node, and what hangs under a member of it.
LEMMA SubtreeFacts ==
  ASSUME NEW t, NEW K, IsFiniteSet(K), K \subseteq Int, Grown(t, K), NEW id \in Nodes(t)
  PROVE  /\ id \in Subtree(t, id) /\ Subtree(t, id) \subseteq Nodes(t)
         /\ \A x \in Subtree(t, id) : ToSet(ChildrenOf(t, x)) \subseteq Subtree(t, id)
         /\ \A y \in Subtree(t, id) : y = id \/ (t.parent[y] \in Subtree(t, id) /\ Above(id, y))
<1> DEFINE D == DOMAIN t.children
           N == Cardinality(D)
           ch == [x \in K |-> ToSet(ChildrenOf(t, x))]
<1>1. /\ Nodes(t) \subseteq K /\ D \subseteq K /\ 0 \notin Nodes(t)
      /\ \A x \in Nodes(t) : Above(t.parent[x], x) /\ t.parent[x] \in K
  BY DEF Grown, Forest, Nodes
<1>2. \A k : \A x \in ToSet(ChildrenOf(t, k)) : x \in Nodes(t) /\ t.parent[x] = k
  <2> TAKE k
  <2>1. \A x \in ToSet(Lookup(t.children, k, << >>)) : x \in DOMAIN t.role /\ t.parent[x] = k
    BY SiblingFacts DEF Grown
  <2>2. QED
    BY <2>1 DEF ChildrenOf, Nodes
<1>3. IsFiniteSet(D) /\ N \in Nat
  BY <1>1, FS_Subset, FS_CardinalityType
<1>4. ch \in [K -> SUBSET K] /\ id \in K
  BY <1>1, <1>2
<1>5. \A x \in K : ch[x] # {} => x \in D
  <2>1. ASSUME NEW x \in K, x \notin D PROVE ch[x] = {}
    <3>1. ChildrenOf(t, x) = << >>
      BY <2>1 DEF ChildrenOf, Lookup
    <3>2. DOMAIN << >> = {}
      OBVIOUS
    <3>3. ToSet(ChildrenOf(t, x)) = {}
      BY <3>1, <3>2 DEF ToSet
    <3>4. QED
      BY <3>3
  <2>2. QED
    BY <2>1
<1>6. PICK h : Layers(h, ch, id, N, K) /\ Subtree(t, id) = h[N]
  <2>1. \A x \in K : ToSet(ChildrenOf(t, x)) \subseteq K
    BY <1>1, <1>2
  <2>2. QED
    BY <1>3, <1>4, <2>1, SubtreeLayers, Zenon DEF N, D, ch
<1>8. h[N] \subseteq K
  BY <1>3, <1>6 DEF Layers
<1>9. \A x \in K : ch[x] = ToSet(ChildrenOf(t, x))
  OBVIOUS
<1> HIDE DEF ch, D
<1>10. /\ id \in h[N] /\ \A x \in h[N] : ch[x] \subseteq h[N]
       /\ \A y \in h[N] : y = id \/ \E x \in h[N] : y \in ch[x]
  <2> HIDE DEF N
  <2>1. Cardinality(D) <= N
    BY <1>3 DEF N
  <2>2. QED
    BY ONLY <1>3, <1>4, <1>5, <1>6, <2>1, LayersClose
<1>11. h[N] \subseteq {y \in K : y = id \/ Above(id, y)}
  <2> DEFINE S == {y \in K : y = id \/ Above(id, y)}
  <2>1. id \in S
    BY <1>4
  <2>2. ASSUME NEW x \in K \cap S PROVE ch[x] \subseteq S
    <3>1. ASSUME NEW y \in ch[x] PROVE y \in K /\ Above(id, y)
      <4>1. y \in Nodes(t) /\ t.parent[y] = x
        BY <1>2, <1>9, <3>1
      <4>2. Above(x, y) /\ y \in K
        BY <1>1, <4>1
      <4>3. CASE x = id
        BY <4>2, <4>3
      <4>4. CASE Above(id, x)
        BY <1>4, <4>2, <4>4, AboveIsTransitive
      <4>5. QED
        BY <2>2, <4>2, <4>3, <4>4
    <3>2. QED
      BY <3>1
  <2> HIDE DEF S
  <2>3. \A x \in K \cap S : ch[x] \subseteq S
    BY <2>2
  <2> HIDE DEF N
  <2>4. h[N] \subseteq S
    BY ONLY <1>3, <1>4, <1>6, <2>1, <2>3, LayersAreLeast
  <2>5. QED
    BY <2>4 DEF S
<1>12. \A y \in h[N] : y = id \/ (y \in Nodes(t) /\ t.parent[y] \in h[N] /\ Above(id, y))
  <2>1. ASSUME NEW y \in h[N], y # id
        PROVE  y \in Nodes(t) /\ t.parent[y] \in h[N] /\ Above(id, y)
    <3>1. PICK x \in h[N] : y \in ch[x]
      BY <1>10, <2>1
    <3>2. y \in Nodes(t) /\ t.parent[y] = x
      BY <1>2, <1>8, <1>9, <3>1
    <3>3. QED
      BY <1>11, <2>1, <3>1, <3>2
  <2>2. QED
    BY <2>1
<1>13. h[N] \subseteq Nodes(t)
  BY <1>12
<1>14. \A x \in h[N] : ToSet(ChildrenOf(t, x)) \subseteq h[N]
  BY <1>8, <1>9, <1>10
<1>15. Subtree(t, id) = h[N]
  BY <1>6
<1> HIDE DEF N
<1>16. QED
  BY <1>10, <1>12, <1>13, <1>14, <1>15

-----------------------------------------------------------------------------
(* removing a subtree *)

\* A sequence over S is one over any set that holds its members.
LEMMA SeqOfMembers ==
  ASSUME NEW S, NEW s \in Seq(S), NEW T, ToSet(s) \subseteq T
  PROVE  s \in Seq(T)
<1>1. DOMAIN s = 1 .. Len(s) /\ Len(s) \in Nat
  OBVIOUS
<1>2. \A i \in 1 .. Len(s) : s[i] \in T
  BY <1>1 DEF ToSet
<1>3. s \in [1 .. Len(s) -> T]
  <2>1. s = [i \in 1 .. Len(s) |-> s[i]]
    OBVIOUS
  <2>2. QED
    BY <1>2, <2>1
<1>4. QED
  BY <1>1, <1>3

(* R2, P2, C2 and A2 are the forest without S; rest are the siblings of id. *)
CutOf(role, parent, children, active, K, id, p, S, rest, R2, P2, C2, A2) ==
  /\ id \in DOMAIN role /\ p = parent[id] /\ id \in S /\ p \notin S
  /\ \A y \in S : y = id \/ parent[y] \in S
  /\ \A k \in S : k \in DOMAIN children => ToSet(children[k]) \subseteq S
  /\ rest \in Seq(DOMAIN role) /\ IsInjective(rest)
  /\ ToSet(rest) = ToSet(children[p]) \ {id}
  /\ R2 \in [DOMAIN role \ S -> Roles] /\ P2 \in [DOMAIN role \ S -> K]
  /\ \A x \in DOMAIN role \ S : P2[x] = parent[x]
  /\ DOMAIN A2 = DOMAIN C2
  /\ DOMAIN C2 = (DOMAIN children \ S) \ (IF rest = << >> THEN {p} ELSE {})
  /\ C2 = [k \in DOMAIN C2 |-> C2[k]] /\ A2 = [k \in DOMAIN C2 |-> A2[k]]
  /\ \A k \in DOMAIN C2 : k # p => C2[k] = children[k] /\ A2[k] = active[k]
  /\ rest # << >> => C2[p] = rest /\ A2[p] \in ToSet(rest)

\* When the members of S hang together under id and the siblings of id are
\* mended, what is left is a forest.
LEMMA ForestCut ==
  ASSUME NEW role, NEW parent, NEW children, NEW active, NEW K,
         Forest(role, parent, children, active, K),
         NEW id, NEW p, NEW S, NEW rest, NEW R2, NEW P2, NEW C2, NEW A2,
         CutOf(role, parent, children, active, K, id, p, S, rest, R2, P2, C2, A2)
  PROVE  Forest(R2, P2, C2, A2, K)
<1> DEFINE N == DOMAIN role \ S
<1>0. /\ id \in DOMAIN role /\ p = parent[id] /\ id \in S /\ p \notin S
      /\ \A y \in S : y = id \/ parent[y] \in S
      /\ \A k \in S : k \in DOMAIN children => ToSet(children[k]) \subseteq S
      /\ rest \in Seq(DOMAIN role) /\ IsInjective(rest)
      /\ ToSet(rest) = ToSet(children[p]) \ {id}
      /\ R2 \in [DOMAIN role \ S -> Roles] /\ P2 \in [DOMAIN role \ S -> K]
      /\ \A x \in DOMAIN role \ S : P2[x] = parent[x]
      /\ DOMAIN A2 = DOMAIN C2
      /\ DOMAIN C2 = (DOMAIN children \ S) \ (IF rest = << >> THEN {p} ELSE {})
      /\ C2 = [k \in DOMAIN C2 |-> C2[k]] /\ A2 = [k \in DOMAIN C2 |-> A2[k]]
      /\ \A k \in DOMAIN C2 : k # p => C2[k] = children[k] /\ A2[k] = active[k]
      /\ rest # << >> => C2[p] = rest /\ A2[p] \in ToSet(rest)
  BY Zenon DEF CutOf
<1> USE <1>0
<1>1. /\ role \in [DOMAIN role -> Roles] /\ DOMAIN role \subseteq K \ {0}
      /\ parent \in [DOMAIN role -> K]
      /\ children \in [DOMAIN children -> Seq(DOMAIN role)] /\ DOMAIN children \subseteq K
      /\ active \in [DOMAIN children -> DOMAIN role]
  BY DEF Forest
<1>2. DOMAIN C2 \subseteq DOMAIN children /\ DOMAIN C2 \subseteq K
  BY <1>1
<1>3. ToSet(rest) \subseteq N
  <2>1. ASSUME NEW x \in ToSet(rest) PROVE x \in DOMAIN role /\ x \notin S
    <3>1. x \in DOMAIN role /\ x # id /\ x \in ToSet(children[p])
      <4>1. PICK i \in DOMAIN rest : x = rest[i]
        BY DEF ToSet
      <4>2. rest[i] \in DOMAIN role
        BY <4>1
      <4>3. QED
        BY <4>1, <4>2
    <3>2. p \in DOMAIN children
      BY DEF Forest
    <3>3. parent[x] = p
      BY <3>1, <3>2 DEF Forest
    <3>4. QED
      BY <3>1, <3>3
  <2>2. QED
    BY <2>1
<1>4. ASSUME NEW k \in DOMAIN C2
      PROVE  /\ C2[k] \in Seq(N) /\ A2[k] \in N
             /\ C2[k] # << >> /\ IsInjective(C2[k]) /\ A2[k] \in ToSet(C2[k])
             /\ \A x \in ToSet(C2[k]) : P2[x] = k
  <2>1. CASE k = p
    <3>1. rest # << >> /\ C2[k] = rest /\ A2[k] \in ToSet(rest)
      BY <1>4, <2>1
    <3>2. rest \in Seq(N)
      BY <1>3, SeqOfMembers
    <3>3. ASSUME NEW x \in ToSet(rest) PROVE P2[x] = k
      <4>1. \A j \in DOMAIN children : \A y \in ToSet(children[j]) : parent[y] = j
        BY DEF Forest
      <4>2. p \in DOMAIN children /\ x \in ToSet(children[p])
        BY DEF Forest
      <4>3. parent[x] = p
        BY ONLY <4>1, <4>2
      <4>4. QED
        BY <1>3, <2>1, <4>3
    <3>4. QED
      BY <1>3, <3>1, <3>2, <3>3
  <2>2. CASE k # p
    <3>1. k \in DOMAIN children /\ k \notin S /\ C2[k] = children[k] /\ A2[k] = active[k]
      BY <1>2, <2>2
    <3>2. /\ children[k] # << >> /\ IsInjective(children[k]) /\ active[k] \in ToSet(children[k])
          /\ \A x \in ToSet(children[k]) : parent[x] = k
      BY <3>1 DEF Forest
    <3>3. children[k] \in Seq(DOMAIN role)
      BY <1>1, <3>1
    <3>4. \A x \in ToSet(children[k]) : x \in N
      <4>1. ASSUME NEW x \in ToSet(children[k]) PROVE x \in DOMAIN role /\ x \notin S
        <5>1. x \in DOMAIN role
          BY <3>3 DEF ToSet
        <5>2. parent[x] = k /\ parent[x] \notin S
          BY <3>1, <3>2
        <5>3. x # id
          BY <2>2, <5>2
        <5>4. QED
          BY <5>1, <5>2, <5>3
      <4>2. QED
        BY <4>1
    <3>5. children[k] \in Seq(N)
      BY <3>3, <3>4, SeqOfMembers
    <3>6. QED
      BY <3>1, <3>2, <3>4, <3>5
  <2>3. QED
    BY <2>1, <2>2
<1>5. ASSUME NEW x \in N
      PROVE  Above(P2[x], x) /\ P2[x] \in DOMAIN C2 /\ x \in ToSet(C2[P2[x]])
  <2>1. /\ P2[x] = parent[x] /\ Above(parent[x], x) /\ parent[x] \in DOMAIN children
        /\ x \in ToSet(children[parent[x]])
    BY DEF Forest
  <2>2. parent[x] \notin S
    BY <2>1
  <2>3. CASE parent[x] = p
    <3>1. x \in ToSet(rest)
      BY <2>1, <2>3
    <3>2. rest # << >>
      <4>1. ToSet(<< >>) = {}
        BY DEF ToSet
      <4>2. QED
        BY <3>1, <4>1
    <3>3. QED
      BY <2>1, <2>2, <2>3, <3>1, <3>2
  <2>4. CASE parent[x] # p
    <3>1. parent[x] \in DOMAIN C2
      BY <2>1, <2>2, <2>4
    <3>2. QED
      BY <2>1, <2>4, <3>1
  <2>5. QED
    BY <2>3, <2>4
<1>6. /\ R2 \in [DOMAIN R2 -> Roles] /\ DOMAIN R2 \subseteq K \ {0} /\ P2 \in [DOMAIN R2 -> K]
      /\ DOMAIN R2 = N
  BY <1>1
<1>7. C2 \in [DOMAIN C2 -> Seq(N)] /\ A2 \in [DOMAIN C2 -> N]
  <2> HIDE DEF N
  <2>1. QED
    BY <1>4
<1>8. QED
  BY <1>2, <1>4, <1>5, <1>6, <1>7 DEF Forest

\* deleteMessage keeps the forest, and adds no node.
LEMMA PruneKeepsForest ==
  ASSUME NEW t, NEW K, IsFiniteSet(K), K \subseteq Int, Grown(t, K), NEW id \in Nodes(t)
  PROVE  Grown(Prune(t, id), K) /\ Nodes(Prune(t, id)) \subseteq Nodes(t)
<1> DEFINE S == Subtree(t, id)
           p == t.parent[id]
           sibs == ChildrenOf(t, p)
           i == Position(sibs, id)
           rest == RemoveAt(sibs, i)
           next == Neighbour(sibs, i)
           N == Nodes(t)
           R1 == Drop(t.role, S)
           P1 == Drop(t.parent, S)
           C1 == Drop(t.children, S)
           A1 == Drop(t.active, S)
           C2 == IF rest = << >> THEN Drop(C1, {p}) ELSE Put(C1, p, rest)
           A2 == IF Lookup(A1, p, None) # id THEN A1
                 ELSE IF next = None THEN Drop(A1, {p}) ELSE Put(A1, p, next)
<1>1. Forest(t.role, t.parent, t.children, t.active, K)
  BY DEF Grown
<1>2. /\ t.role \in [N -> Roles] /\ N \subseteq K \ {0} /\ t.parent \in [N -> K]
      /\ t.children \in [DOMAIN t.children -> Seq(N)] /\ DOMAIN t.children \subseteq K
      /\ t.active \in [DOMAIN t.children -> N]
      /\ p \in DOMAIN t.children /\ Above(p, id) /\ id \in ToSet(t.children[p])
  BY <1>1 DEF Forest, Nodes
<1>3. /\ id \in S /\ S \subseteq N
      /\ \A x \in S : ToSet(ChildrenOf(t, x)) \subseteq S
      /\ \A y \in S : y = id \/ (t.parent[y] \in S /\ Above(id, y))
  BY SubtreeFacts
<1>4. p \notin S
  <2>1. SUFFICES ASSUME p \in S PROVE FALSE
    OBVIOUS
  <2>2. p \in Int /\ id \in Int
    BY <1>2
  <2>3. p = id \/ Above(id, p)
    BY <1>3, <2>1
  <2> HIDE DEF p, S
  <2>4. ~(p = id)
    BY <1>2, <2>2, AboveIsStrict
  <2>5. ~Above(id, p)
    BY <1>2, <2>2, AboveIsStrict, AboveIsTransitive
  <2>6. QED
    BY <2>3, <2>4, <2>5
<1>5. sibs = t.children[p] /\ sibs \in Seq(N) /\ IsInjective(sibs) /\ t.active[p] \in ToSet(sibs)
  <2>1. sibs = t.children[p]
    BY <1>2 DEF ChildrenOf, Lookup
  <2>2. IsInjective(t.children[p]) /\ t.active[p] \in ToSet(t.children[p])
    BY <1>1, <1>2 DEF Forest
  <2>3. QED
    BY <1>2, <2>1, <2>2
<1> HIDE DEF sibs
<1>6. i \in 1 .. Len(sibs) /\ sibs[i] = id
  BY <1>2, <1>5, PositionFacts
<1> HIDE DEF i
<1>7. rest \in Seq(N) /\ IsInjective(rest) /\ ToSet(rest) = ToSet(t.children[p]) \ {id}
  BY <1>5, <1>6, RemoveAtFacts, RemoveAtKeepsOthers
<1>8. /\ rest = << >> => next = None
      /\ rest # << >> => next \in ToSet(rest) /\ next # None
  <2>1. /\ rest = << >> => next = None
        /\ rest # << >> => next \in ToSet(rest)
    BY <1>5, <1>6, NeighbourFacts
  <2>2. 0 \notin ToSet(rest)
    BY <1>2, <1>7 DEF ToSet
  <2>3. QED
    BY <2>1, <2>2 DEF None
<1> HIDE DEF next, rest
<1>9. R1 \in [N \ S -> Roles] /\ P1 \in [N \ S -> K] /\ \A x \in N \ S : P1[x] = t.parent[x]
  BY <1>2 DEF Drop, Restrict
<1>10. /\ C1 \in [DOMAIN t.children \ S -> Seq(N)] /\ A1 \in [DOMAIN t.children \ S -> N]
       /\ \A k \in DOMAIN t.children \ S : C1[k] = t.children[k] /\ A1[k] = t.active[k]
  BY <1>2 DEF Drop, Restrict
<1> HIDE DEF S, p, R1, P1, C1, A1, N
<1>11. p \in DOMAIN t.children \ S
  BY <1>2, <1>4
<1>12. /\ rest = << >> => C2 \in [(DOMAIN t.children \ S) \ {p} -> Seq(N)]
                          /\ \A k \in (DOMAIN t.children \ S) \ {p} : C2[k] = C1[k]
       /\ rest # << >> => C2 \in [DOMAIN t.children \ S -> Seq(N)] /\ C2[p] = rest
                          /\ \A k \in (DOMAIN t.children \ S) \ {p} : C2[k] = C1[k]
  <2>1. CASE rest = << >>
    <3>1. C2 = Drop(C1, {p})
      BY <2>1
    <3>2. Drop(C1, {p}) \in [(DOMAIN t.children \ S) \ {p} -> Seq(N)]
          /\ \A k \in (DOMAIN t.children \ S) \ {p} : Drop(C1, {p})[k] = C1[k]
      BY <1>10 DEF Drop, Restrict
    <3> HIDE DEF C2
    <3>3. QED
      BY <2>1, <3>1, <3>2
  <2>2. CASE rest # << >>
    <3>1. C2 = Put(C1, p, rest)
      BY <2>2
    <3>2. Put(C1, p, rest) \in [(DOMAIN t.children \ S) \cup {p} -> Seq(N)]
      BY <1>7, <1>10, PutType
    <3>3. Put(C1, p, rest)[p] = rest
          /\ \A k \in (DOMAIN t.children \ S) \ {p} : Put(C1, p, rest)[k] = C1[k]
      BY <1>10 DEF Put
    <3>4. (DOMAIN t.children \ S) \cup {p} = DOMAIN t.children \ S
      BY <1>11
    <3> HIDE DEF C2
    <3>5. QED
      BY <2>2, <3>1, <3>2, <3>3, <3>4
  <2>3. QED
    BY <2>1, <2>2
<1>13. Lookup(A1, p, None) = t.active[p]
  <2>1. DOMAIN A1 = DOMAIN t.children \ S
    BY <1>10
  <2>2. QED
    BY <1>10, <1>11, <2>1 DEF Lookup
<1>14. /\ rest = << >> => A2 \in [(DOMAIN t.children \ S) \ {p} -> N]
                          /\ \A k \in (DOMAIN t.children \ S) \ {p} : A2[k] = A1[k]
       /\ rest # << >> => A2 \in [DOMAIN t.children \ S -> N] /\ A2[p] \in ToSet(rest)
                          /\ \A k \in (DOMAIN t.children \ S) \ {p} : A2[k] = A1[k]
  <2>1. CASE rest = << >>
    <3>1. t.active[p] = id
      <4>1. ToSet(<< >>) = {}
        BY DEF ToSet
      <4>2. QED
        BY <1>5, <1>7, <2>1, <4>1
    <3>2. A2 = Drop(A1, {p})
      BY <1>8, <1>13, <2>1, <3>1
    <3>3. Drop(A1, {p}) \in [(DOMAIN t.children \ S) \ {p} -> N]
          /\ \A k \in (DOMAIN t.children \ S) \ {p} : Drop(A1, {p})[k] = A1[k]
      BY <1>10 DEF Drop, Restrict
    <3> HIDE DEF A2
    <3>4. QED
      BY <2>1, <3>2, <3>3
  <2>2. CASE rest # << >> /\ t.active[p] # id
    <3>1. A2 = A1
      BY <1>13, <2>2
    <3>2. A1[p] \in ToSet(rest)
      BY <1>5, <1>7, <1>10, <1>11, <2>2
    <3> HIDE DEF A2
    <3>3. QED
      BY <1>10, <2>2, <3>1, <3>2
  <2>3. CASE rest # << >> /\ t.active[p] = id
    <3>1. A2 = Put(A1, p, next) /\ next \in ToSet(rest)
      BY <1>8, <1>13, <2>3
    <3>2. next \in N
      BY <1>7, <3>1 DEF ToSet
    <3>3. Put(A1, p, next) \in [(DOMAIN t.children \ S) \cup {p} -> N]
      BY <1>10, <3>2, PutType
    <3>4. Put(A1, p, next)[p] = next
          /\ \A k \in (DOMAIN t.children \ S) \ {p} : Put(A1, p, next)[k] = A1[k]
      BY <1>10 DEF Put
    <3>5. (DOMAIN t.children \ S) \cup {p} = DOMAIN t.children \ S
      BY <1>11
    <3> HIDE DEF A2
    <3>6. QED
      BY <2>3, <3>1, <3>3, <3>4, <3>5
  <2>4. QED
    BY <2>1, <2>2, <2>3
<1>15. /\ Prune(t, id).role = R1 /\ Prune(t, id).parent = P1
       /\ Prune(t, id).children = C2 /\ Prune(t, id).active = A2
  BY DEF Prune, S, p, sibs, i, rest, next, R1, P1, C1, A1, ActiveOf
<1> HIDE DEF C2, A2
<1>16. Forest(R1, P1, C2, A2, K)
  <2>1. /\ DOMAIN A2 = DOMAIN C2
        /\ DOMAIN C2 = (DOMAIN t.children \ S) \ (IF rest = << >> THEN {p} ELSE {})
    BY <1>12, <1>14
  <2>2. /\ \A k \in DOMAIN C2 : k # p => C2[k] = t.children[k] /\ A2[k] = t.active[k]
        /\ rest # << >> => C2[p] = rest /\ A2[p] \in ToSet(rest)
    BY <1>10, <1>12, <1>14, <2>1
  <2>3. C2 = [k \in DOMAIN C2 |-> C2[k]] /\ A2 = [k \in DOMAIN C2 |-> A2[k]]
    BY <1>12, <1>14, <2>1
  <2>4. \A k \in S : k \in DOMAIN t.children => ToSet(t.children[k]) \subseteq S
    BY <1>3 DEF ChildrenOf, Lookup
  <2>5. DOMAIN t.role = N
    BY DEF N, Nodes
  <2>6. CutOf(t.role, t.parent, t.children, t.active, K, id, p, S, rest, R1, P1, C2, A2)
    <3>1. id \in N /\ p = t.parent[id] /\ \A y \in S : y = id \/ t.parent[y] \in S
      BY <1>3 DEF p, N
    <3>2. QED
      BY <1>3, <1>4, <1>7, <1>9, <2>1, <2>2, <2>3, <2>4, <2>5, <3>1, Zenon DEF CutOf
  <2>7. QED
    BY <1>1, <2>6, ForestCut
<1>17. Prune(t, id) = [role |-> R1, parent |-> P1, children |-> C2, active |-> A2]
  <2>1. Prune(t, id) = [[role |-> R1, parent |-> P1, children |-> C1, active |-> A1] EXCEPT
                          !.children = C2, !.active = A2]
    BY DEF Prune, S, p, sibs, i, rest, next, R1, P1, C1, A1, C2, A2, ActiveOf
  <2>2. QED
    BY <2>1
<1>18. Shaped(Prune(t, id))
  BY <1>15, <1>17 DEF Shaped
<1>19. QED
  BY <1>9, <1>15, <1>16, <1>18 DEF Grown, Nodes, N

-----------------------------------------------------------------------------
(* the walks down the active children and up the parents *)

\* The active path is made of nodes.
LEMMA PathIsOfNodes ==
  ASSUME NEW t, NEW k, Cardinality(DOMAIN t.active) \in Nat
  PROVE  PathFrom(t, k) \in Seq(Nodes(t))
<1> DEFINE N == Cardinality(DOMAIN t.active)
           V == Seq(Nodes(t))
           on(s) == LET next == ActiveOf(t, IF s = << >> THEN k ELSE Last(s))
                    IN IF next \in Nodes(t) THEN Append(s, next) ELSE s
           G == [a \in (1 .. N) \X V |-> on(a[2])]
           W == CHOOSE f : f = [n \in 0 .. N |-> IF n = 0 THEN << >> ELSE on(f[n - 1])]
<1>1. PathFrom(t, k) = W[N]
  BY DEF PathFrom
<1>2. << >> \in V /\ \A s \in V : on(s) \in V
  OBVIOUS
<1> HIDE DEF on, V
<1>3. G \in [(1 .. N) \X V -> V] /\ \A n \in 1 .. N, s \in V : G[<<n, s>>] = on(s)
  BY <1>2
<1> HIDE DEF G
<1>4. PICK h : Iterates(h, G, << >>, N, V)
  <2>1. N \in Nat
    OBVIOUS
  <2> HIDE DEF N
  <2>2. QED
    BY <1>2, <1>3, <2>1, Repeated
<1>5. h \in [0 .. N -> V] /\ h[0] = << >> /\ \A n \in 1 .. N : h[n] = G[<<n, h[n - 1]>>]
  BY <1>4 DEF Iterates
<1>6. h = [n \in 0 .. N |-> IF n = 0 THEN << >> ELSE on(h[n - 1])]
  <2>1. N \in Nat
    OBVIOUS
  <2> HIDE DEF N
  <2>2. ASSUME NEW n \in 0 .. N PROVE h[n] = IF n = 0 THEN << >> ELSE on(h[n - 1])
    <3>1. CASE n = 0
      BY <1>5, <3>1
    <3>2. CASE n # 0
      <4>1. n \in 1 .. N /\ n - 1 \in 0 .. N
        BY <2>1, <3>2
      <4>2. h[n - 1] \in V
        BY <1>5, <4>1
      <4>3. h[n] = on(h[n - 1])
        BY <1>3, <1>5, <4>1, <4>2
      <4>4. QED
        BY <3>2, <4>3
    <3>3. QED
      BY <3>1, <3>2
  <2>3. h = [n \in 0 .. N |-> h[n]]
    BY <1>5
  <2>4. QED
    BY <2>2, <2>3
<1>7. W = [n \in 0 .. N |-> IF n = 0 THEN << >> ELSE on(W[n - 1])]
  BY <1>6, Zenon
<1> HIDE DEF W
<1>8. W[N] \in V
  <2> DEFINE T == {n \in 0 .. N : W[n] \in V}
  <2>1. N \in Nat
    OBVIOUS
  <2> HIDE DEF N
  <2>2. 0 \in T
    BY <1>2, <1>7, <2>1
  <2>3. ASSUME NEW n \in 1 .. N, n - 1 \in T PROVE n \in T
    <3>1. n \in 0 .. N /\ n # 0
      BY <2>1
    <3>2. W[n] = on(W[n - 1])
      BY <1>7, <3>1
    <3>3. W[n - 1] \in V
      BY <2>3
    <3>4. on(W[n - 1]) \in V
      BY <1>2, <3>3
    <3>5. QED
      BY <3>1, <3>2, <3>4
  <2> HIDE DEF T
  <2>4. 0 .. N \subseteq T
    BY <2>1, <2>2, <2>3, UpTo
  <2>5. N \in T
    BY <2>1, <2>4
  <2>6. QED
    BY <2>5 DEF T
<1>9. QED
  BY <1>1, <1>8 DEF V

\* The tip is a node, or there is none.
LEMMA TipIsNode ==
  ASSUME NEW t, Cardinality(DOMAIN t.active) \in Nat
  PROVE  Tip(t) = None \/ Tip(t) \in Nodes(t)
<1>1. Path(t) \in Seq(Nodes(t))
  BY PathIsOfNodes DEF Path
<1> DEFINE s == Path(t)
<1> HIDE DEF s
<1>2. s \in Seq(Nodes(t)) /\ Tip(t) = IF s = << >> THEN None ELSE Last(s)
  BY <1>1 DEF s, Tip
<1>3. s # << >> => Last(s) \in Nodes(t)
  <2>1. ASSUME s # << >> PROVE s[Len(s)] \in Nodes(t)
    BY <1>2, <2>1
  <2>2. QED
    BY <2>1 DEF Last
<1>4. QED
  BY <1>2, <1>3

\* What is on the screen are nodes.
LEMMA ScreenIsOfNodes ==
  ASSUME NEW t, Cardinality(DOMAIN t.active) \in Nat
  PROVE  Range(Path(t)) \subseteq Nodes(t)
<1>1. Path(t) \in Seq(Nodes(t))
  BY PathIsOfNodes DEF Path
<1>2. \A i \in DOMAIN Path(t) : Path(t)[i] \in Nodes(t)
  BY <1>1
<1>3. QED
  BY <1>2 DEF Range

\* Chains: every key of one is above the later ones.
Rising(K) == {s \in Seq(K \ {0}) : \A i, j \in DOMAIN s : i < j => Above(s[i], s[j])}

\* A chain is continued upwards.
LEMMA RisingGrows ==
  ASSUME NEW K, K \subseteq Int, NEW s \in Rising(K), NEW x \in K \ {0},
         s # << >> => Above(x, s[1])
  PROVE  <<x>> \o s \in Rising(K)
<1> DEFINE c == <<x>> \o s
<1>1. s \in Seq(K \ {0}) /\ \A i, j \in DOMAIN s : i < j => Above(s[i], s[j])
  BY DEF Rising
<1>2. /\ c \in Seq(K \ {0}) /\ Len(s) \in Nat /\ DOMAIN s = 1 .. Len(s)
      /\ DOMAIN c = 1 .. Len(s) + 1 /\ c[1] = x
      /\ \A i \in 2 .. Len(s) + 1 : c[i] = s[i - 1]
  <2>1. Len(s) \in Nat /\ DOMAIN s = 1 .. Len(s)
    BY <1>1
  <2>2. <<x>> \in Seq(K \ {0}) /\ Len(<<x>>) = 1 /\ <<x>>[1] = x
    OBVIOUS
  <2>3. c \in Seq(K \ {0}) /\ Len(c) = Len(s) + 1
    BY <1>1, <2>1, <2>2, ConcatProperties
  <2>4. \A i \in 1 .. Len(s) + 1 : c[i] = IF i <= 1 THEN <<x>>[i] ELSE s[i - 1]
    BY <1>1, <2>1, <2>2
  <2> HIDE DEF c
  <2>5. 1 \in 1 .. Len(s) + 1 /\ \A i \in 2 .. Len(s) + 1 : i \in 1 .. Len(s) + 1 /\ ~(i <= 1)
    BY <2>1
  <2>6. DOMAIN c = 1 .. Len(s) + 1
    BY <2>3
  <2>7. QED
    BY <2>1, <2>2, <2>3, <2>4, <2>5, <2>6
<1> HIDE DEF c
<1>3. \A i \in DOMAIN s : s[i] \in Int /\ Above(x, s[i])
  <2> SUFFICES ASSUME NEW i \in DOMAIN s PROVE s[i] \in Int /\ Above(x, s[i])
    OBVIOUS
  <2>0. \A j \in DOMAIN s : s[j] \in Int
    <3>1. \A j \in DOMAIN s : s[j] \in K \ {0}
      BY <1>1
    <3>2. QED
      BY <3>1
  <2>1. s[i] \in Int /\ x \in Int /\ 1 \in DOMAIN s /\ i \in 1 .. Len(s) /\ s # << >>
    <3>1. i \in 1 .. Len(s)
      BY <1>2
    <3>2. 1 \in 1 .. Len(s) /\ Len(s) # 0
      BY <1>2, <3>1
    <3>3. s # << >>
      BY <3>2
    <3>4. QED
      BY <1>2, <2>0, <3>1, <3>2, <3>3
  <2>2. s[1] \in Int /\ Above(x, s[1])
    BY <2>0, <2>1
  <2>3. CASE i = 1
    BY <2>1, <2>2, <2>3
  <2>4. CASE i # 1
    <3>1. 1 < i
      BY <2>1, <2>4
    <3>2. Above(s[1], s[i])
      BY <1>1, <2>1, <3>1
    <3>3. QED
      BY <2>1, <2>2, <3>2, AboveIsTransitive
  <2>5. QED
    BY <2>3, <2>4
<1>4. ASSUME NEW i \in DOMAIN c, NEW j \in DOMAIN c, i < j PROVE Above(c[i], c[j])
  <2>1. j \in 2 .. Len(s) + 1 /\ j - 1 \in 1 .. Len(s) /\ (i = 1 \/ i \in 2 .. Len(s) + 1)
    BY <1>2, <1>4
  <2>2. c[j] = s[j - 1]
    BY <1>2, <2>1
  <2>3. CASE i = 1
    BY <1>2, <1>3, <2>1, <2>2, <2>3
  <2>4. CASE i \in 2 .. Len(s) + 1
    <3>1. i - 1 \in 1 .. Len(s) /\ i - 1 < j - 1 /\ c[i] = s[i - 1]
      BY <1>2, <1>4, <2>1, <2>4
    <3>2. QED
      BY <1>1, <1>2, <2>1, <2>2, <3>1
  <2>5. QED
    BY <2>1, <2>3, <2>4
<1>5. QED
  BY <1>2, <1>4 DEF Rising, c

\* The chain of a key rises.
LEMMA ChainRises ==
  ASSUME NEW t, NEW K, IsFiniteSet(K), K \subseteq Int, Grown(t, K), NEW id \in K
  PROVE  Chain(t, id) \in Rising(K)
<1> DEFINE N == Cardinality(DOMAIN t.parent) + 1
           V == Rising(K)
           next(s) == IF s = << >> THEN id ELSE Lookup(t.parent, Head(s), None)
           on(s) == IF next(s) = None THEN s ELSE <<next(s)>> \o s
           G == [a \in (1 .. N) \X V |-> on(a[2])]
           W == CHOOSE f : f = [n \in 0 .. N |-> IF n = 0 THEN << >> ELSE on(f[n - 1])]
<1>1. Chain(t, id) = W[N]
  BY DEF Chain
<1>0. N \in Nat
  <2>1. DOMAIN t.parent \subseteq K
    BY DEF Grown, Forest
  <2>2. QED
    BY <2>1, FS_Subset, FS_CardinalityType
<1>2. << >> \in V /\ \A s \in V : on(s) \in V
  <2>1. << >> \in V
    BY DEF Rising
  <2>2. ASSUME NEW s \in V PROVE on(s) \in V
    <3>1. CASE next(s) = None
      BY <3>1
    <3>2. CASE next(s) # None
      <4>1. s \in Seq(K \ {0})
        BY DEF Rising
      <4>2. next(s) \in K \ {0} /\ (s # << >> => Above(next(s), s[1]))
        <5>1. CASE s = << >>
          BY <3>2, <5>1 DEF None
        <5>2. CASE s # << >>
          <6>1. Head(s) = s[1]
            BY <4>1, <5>2
          <6>2. next(s) = Lookup(t.parent, s[1], None)
            BY <5>2, <6>1
          <6>3. s[1] \in DOMAIN t.parent /\ next(s) = t.parent[s[1]]
            BY <3>2, <6>2 DEF Lookup
          <6>4. t.parent \in [DOMAIN t.role -> K] /\ s[1] \in DOMAIN t.role
                /\ Above(t.parent[s[1]], s[1])
            BY <6>3 DEF Grown, Forest
          <6> HIDE DEF next
          <6>5. QED
            BY <3>2, <6>3, <6>4 DEF None
        <5>3. QED
          BY <5>1, <5>2
      <4> DEFINE x == next(s)
      <4>3. on(s) = <<x>> \o s
        BY <3>2
      <4> HIDE DEF on, x
      <4>4. x \in K \ {0} /\ (s # << >> => Above(x, s[1]))
        BY <4>2 DEF x
      <4>5. <<x>> \o s \in Rising(K)
        BY <4>4, RisingGrows
      <4>6. QED
        BY <4>3, <4>5
    <3>3. QED
      BY <3>1, <3>2
  <2>3. QED
    BY <2>1, <2>2
<1> HIDE DEF on, V, N
<1>3. G \in [(1 .. N) \X V -> V] /\ \A n \in 1 .. N, s \in V : G[<<n, s>>] = on(s)
  BY <1>2
<1> HIDE DEF G
<1>4. PICK h : Iterates(h, G, << >>, N, V)
  BY <1>0, <1>2, <1>3, Repeated
<1>5. h \in [0 .. N -> V] /\ h[0] = << >> /\ \A n \in 1 .. N : h[n] = G[<<n, h[n - 1]>>]
  BY <1>4 DEF Iterates
<1>6. h = [n \in 0 .. N |-> IF n = 0 THEN << >> ELSE on(h[n - 1])]
  <2>2. ASSUME NEW n \in 0 .. N PROVE h[n] = IF n = 0 THEN << >> ELSE on(h[n - 1])
    <3>1. CASE n = 0
      BY <1>5, <3>1
    <3>2. CASE n # 0
      <4>1. n \in 1 .. N /\ n - 1 \in 0 .. N
        BY <1>0, <3>2
      <4>2. h[n - 1] \in V
        BY <1>5, <4>1
      <4>3. h[n] = on(h[n - 1])
        BY <1>3, <1>5, <4>1, <4>2
      <4>4. QED
        BY <3>2, <4>3
    <3>3. QED
      BY <3>1, <3>2
  <2>3. h = [n \in 0 .. N |-> h[n]]
    BY <1>5
  <2>4. QED
    BY <2>2, <2>3
<1>7. W = [n \in 0 .. N |-> IF n = 0 THEN << >> ELSE on(W[n - 1])]
  BY <1>6, Zenon
<1> HIDE DEF W
<1>8. W[N] \in V
  <2> DEFINE T == {n \in 0 .. N : W[n] \in V}
  <2>2. 0 \in T
    BY <1>0, <1>2, <1>7
  <2>3. ASSUME NEW n \in 1 .. N, n - 1 \in T PROVE n \in T
    <3>1. n \in 0 .. N /\ n # 0
      BY <1>0
    <3>2. W[n] = on(W[n - 1])
      BY <1>7, <3>1
    <3>3. W[n - 1] \in V
      BY <2>3
    <3>4. on(W[n - 1]) \in V
      BY <1>2, <3>3
    <3>5. QED
      BY <3>1, <3>2, <3>4
  <2> HIDE DEF T
  <2>4. 0 .. N \subseteq T
    BY <1>0, <2>2, <2>3, UpTo
  <2>5. N \in T
    BY <1>0, <2>4
  <2>6. QED
    BY <2>5 DEF T
<1>9. QED
  BY <1>1, <1>8 DEF V

\* No key comes twice in what rises.
LEMMA RisingIsInjective ==
  ASSUME NEW K, K \subseteq Int, NEW s \in Rising(K)
  PROVE  IsInjective(s) /\ Root \notin Range(s)
<1>1. s \in Seq(K \ {0}) /\ \A i, j \in DOMAIN s : i < j => Above(s[i], s[j])
  BY DEF Rising
<1>2. \A i \in DOMAIN s : s[i] \in K \ {0} /\ i \in Int
  BY <1>1
<1>3. Root \notin Range(s)
  BY <1>2 DEF Range, Root
<1>4. ASSUME NEW i \in DOMAIN s, NEW j \in DOMAIN s, s[i] = s[j] PROVE i = j
  <2>1. ~Above(s[i], s[j]) /\ ~Above(s[j], s[i])
    <3>1. s[i] \in Int
      BY <1>2
    <3>2. QED
      BY <1>4, <3>1, AboveIsStrict
  <2>2. ~(i < j) /\ ~(j < i)
    BY <1>1, <2>1
  <2>3. QED
    BY <1>2, <2>2
<1>5. QED
  BY <1>3, <1>4 DEF IsInjective

\* The prompt above a node is a node, or there is none.
LEMMA PromptIsNode ==
  ASSUME NEW t, NEW K, IsFiniteSet(K), K \subseteq Int, Grown(t, K), NEW id \in Nodes(t)
  PROVE  PromptAbove(t, id) = None \/ PromptAbove(t, id) \in Nodes(t)
<1> DEFINE p == Lookup(t.parent, id, None)
           chain == Chain(t, p)
           prompts == {i \in DOMAIN chain : chain[i] \in Nodes(t) /\ t.role[chain[i]] = "user"}
<1>1. p \in K
  <2>1. t.parent \in [DOMAIN t.role -> K] /\ id \in DOMAIN t.role
    BY DEF Grown, Forest, Nodes
  <2>2. QED
    BY <2>1 DEF Lookup
<1> HIDE DEF p
<1>2. chain \in Seq(K \ {0})
  <2>1. chain \in Rising(K)
    BY <1>1, ChainRises
  <2>2. QED
    BY <2>1 DEF Rising
<1>3. PromptAbove(t, id) = IF prompts = {} THEN None ELSE chain[Max(prompts)]
  BY DEF PromptAbove, p
<1> HIDE DEF chain
<1>4. prompts \subseteq 1 .. Len(chain) /\ Len(chain) \in Nat
  BY <1>2
<1>5. ASSUME prompts # {} PROVE chain[Max(prompts)] \in Nodes(t)
  <2>1. Max(prompts) \in prompts
    <3> HIDE DEF prompts
    <3>1. 1 \in Int /\ Len(chain) \in Int
      BY <1>4
    <3>2. QED
      BY <1>4, <1>5, <3>1, MaxIsElement
  <2>2. QED
    BY <2>1
<1>6. QED
  BY <1>3, <1>5

-----------------------------------------------------------------------------
(* what the operations do to a grown tree *)

\* addNode.
LEMMA AddNodeGrows ==
  ASSUME NEW t, NEW K, Grown(t, K), NEW L, K \subseteq L,
         NEW id \in L, NEW p \in L, NEW r \in Roles, Above(p, id), id \notin K
  PROVE  Grown(AddNode(t, id, p, r), L)
<1>1. id \notin DOMAIN t.role
  BY DEF Grown, Forest
<1>2. Forest(t.role, t.parent, t.children, t.active, K)
  BY DEF Grown
<1>3. Forest(Put(t.role, id, r), Put(t.parent, id, p),
             Put(t.children, p, Append(Lookup(t.children, p, << >>), id)), Put(t.active, p, id), L)
  BY <1>1, <1>2, ForestGrows
<1> DEFINE u == AddNode(t, id, p, r)
<1>4. /\ u.role = Put(t.role, id, r) /\ u.parent = Put(t.parent, id, p)
      /\ u.children = Put(t.children, p, Append(Lookup(t.children, p, << >>), id))
      /\ u.active = Put(t.active, p, id)
  BY DEF AddNode, ChildrenOf
<1>5. Shaped(u)
  BY <1>4, Zenon DEF AddNode, ChildrenOf, Shaped
<1> HIDE DEF u
<1>6. Grown(u, L)
  BY <1>3, <1>4, <1>5 DEF Grown
<1>7. QED
  BY <1>6 DEF u

\* The empty tree.
LEMMA EmptyTreeIsGrown == ASSUME NEW K PROVE Grown(EmptyTree, K)
<1>1. DOMAIN Nothing = {} /\ \A R : Nothing \in [{} -> R]
  BY DEF Nothing
<1> HIDE DEF Nothing
<1>2. Forest(Nothing, Nothing, Nothing, Nothing, K)
  BY <1>1 DEF Forest
<1>3. QED
  BY <1>2 DEF Grown, Shaped, EmptyTree

\* More keys do no harm.
LEMMA GrownWidens ==
  ASSUME NEW t, NEW K, NEW L, K \subseteq L, Grown(t, K)
  PROVE  Grown(t, L)
BY ForestWidens DEF Grown

\* switchBranch.
LEMMA SwitchKeepsGrown ==
  ASSUME NEW t, NEW K, Grown(t, K), NEW id, NEW d \in Int, CanSwitch(t, id, d)
  PROVE  Grown(Switch(t, id, d), K)
<1> DEFINE p == t.parent[id]
           sibs == ChildrenOf(t, p)
           v == sibs[Position(sibs, id) + d]
           u == [t EXCEPT !.active[p] = v]
           A2 == [t.active EXCEPT ![p] = v]
<1>1. Forest(t.role, t.parent, t.children, t.active, K) /\ Shaped(t) /\ id \in DOMAIN t.role
  BY DEF Grown, CanSwitch, Nodes
<1>2. p \in DOMAIN t.children /\ t.children[p] \in Seq(DOMAIN t.role)
      /\ t.active \in [DOMAIN t.children -> DOMAIN t.role]
  BY <1>1 DEF Forest
<1>3. sibs = t.children[p]
  BY <1>2 DEF ChildrenOf, Lookup
<1>4. v \in ToSet(t.children[p]) /\ v \in DOMAIN t.role
  <2>1. Position(sibs, id) + d \in DOMAIN sibs
    BY DEF CanSwitch
  <2>2. v \in ToSet(sibs)
    BY <2>1 DEF ToSet
  <2>3. \A x \in ToSet(t.children[p]) : x \in DOMAIN t.role
    BY <1>2 DEF ToSet
  <2> HIDE DEF v, sibs
  <2>4. QED
    BY <1>3, <2>2, <2>3
<1> HIDE DEF v
<1>5. A2 \in [DOMAIN t.children -> DOMAIN t.role] /\ A2[p] = v
      /\ \A k \in DOMAIN t.children : k # p => A2[k] = t.active[k]
  BY <1>2, <1>4
<1> HIDE DEF A2
<1>6. Forest(t.role, t.parent, t.children, A2, K)
  <2>1. \A k \in DOMAIN t.children : A2[k] \in ToSet(t.children[k])
    <3>1. \A k \in DOMAIN t.children : t.active[k] \in ToSet(t.children[k])
      BY <1>1 DEF Forest
    <3>2. QED
      BY <1>4, <1>5, <3>1
  <2>2. QED
    BY <1>1, <1>5, <2>1, Zenon DEF Forest
<1>7. u = [role |-> t.role, parent |-> t.parent, children |-> t.children, active |-> A2]
  <2> DEFINE w == [role |-> t.role, parent |-> t.parent, children |-> t.children, active |-> t.active]
  <2>1. [w EXCEPT !.active[p] = v]
          = [role |-> t.role, parent |-> t.parent, children |-> t.children, active |-> A2]
    BY DEF A2
  <2>2. t = w
    BY <1>1 DEF Shaped
  <2> HIDE DEF w, p
  <2>3. QED
    BY <2>1, <2>2
<1>8. Switch(t, id, d) = u
  BY DEF Switch, v
<1>9. Grown([role |-> t.role, parent |-> t.parent, children |-> t.children, active |-> A2], K)
  BY <1>6 DEF Grown, Shaped
<1> HIDE DEF u
<1>10. QED
  BY <1>7, <1>8, <1>9

\* A grown tree is consistent, and no node is its own ancestor.
LEMMA GrownIsConsistent ==
  ASSUME NEW t, NEW K, IsFiniteSet(K), K \subseteq Int, Grown(t, K)
  PROVE  /\ Consistent(t)
         /\ \A id \in Nodes(t) : IsInjective(Chain(t, id)) /\ Root \notin Range(Chain(t, id))
<1>1. Forest(t.role, t.parent, t.children, t.active, K)
  BY DEF Grown
<1>2. /\ DOMAIN t.role \subseteq K \ {0} /\ t.parent \in [DOMAIN t.role -> K]
      /\ t.children \in [DOMAIN t.children -> Seq(DOMAIN t.role)]
      /\ t.active \in [DOMAIN t.children -> DOMAIN t.role]
      /\ \A k \in DOMAIN t.children :
           /\ t.children[k] # << >> /\ IsInjective(t.children[k])
           /\ t.active[k] \in ToSet(t.children[k])
           /\ \A x \in ToSet(t.children[k]) : t.parent[x] = k
      /\ \A x \in DOMAIN t.role :
           t.parent[x] \in DOMAIN t.children /\ x \in ToSet(t.children[t.parent[x]])
  BY <1>1 DEF Forest
<1>3. \A k \in DOMAIN t.children : \A x \in ToSet(t.children[k]) :
         Contains(t.children[k], x) /\ x \in DOMAIN t.role
  <2> SUFFICES ASSUME NEW k \in DOMAIN t.children, NEW x \in ToSet(t.children[k])
               PROVE  Contains(t.children[k], x) /\ x \in DOMAIN t.role
    OBVIOUS
  <2>1. PICK i \in DOMAIN t.children[k] : t.children[k][i] = x
    BY DEF ToSet
  <2>2. t.children[k] \in Seq(DOMAIN t.role)
    BY <1>2
  <2>3. i \in 1 .. Len(t.children[k]) /\ t.children[k][i] \in DOMAIN t.role
    BY <2>1, <2>2
  <2>4. QED
    BY <2>1, <2>3 DEF Contains
<1>4. \A k \in DOMAIN t.children : ChildrenOf(t, k) = t.children[k]
  BY DEF ChildrenOf, Lookup
<1>5. SameKeys(t)
  BY <1>2 DEF SameKeys, Nodes, Root
<1>6. Mutual(t)
  BY <1>2, <1>3, <1>4 DEF Mutual, Nodes
<1>7. ChildrenAreNodes(t)
  BY <1>2, <1>3 DEF ChildrenAreNodes, Nodes
<1>8. ActiveIsChild(t)
  <2>1. DOMAIN t.active = DOMAIN t.children
    BY <1>2
  <2>2. \A k \in DOMAIN t.active : Contains(ChildrenOf(t, k), t.active[k])
    BY <1>2, <1>3, <1>4, <2>1
  <2>3. QED
    BY <2>1, <2>2 DEF ActiveIsChild
<1>9. ASSUME NEW id \in Nodes(t)
      PROVE  IsInjective(Chain(t, id)) /\ Root \notin Range(Chain(t, id))
  <2>1. id \in K
    BY <1>2 DEF Nodes
  <2>2. QED
    BY <2>1, ChainRises, RisingIsInjective
<1>10. QED
  BY <1>5, <1>6, <1>7, <1>8, <1>9 DEF Consistent

-----------------------------------------------------------------------------
(* the rows *)

RowOf(b) == [id : 1 .. b, role : Roles, parent : 0 .. b]

(* Rows come in the order of their numbers, a parent before its children.  *)
RowsFit(rs, b) ==
  /\ rs \in Seq(RowOf(b))
  /\ \A i \in DOMAIN rs : rs[i].parent < rs[i].id
  /\ \A i, j \in DOMAIN rs : i < j => rs[i].id < rs[j].id

\* What is in the rows.
LEMMA RowFacts ==
  ASSUME NEW b \in Nat, NEW rs, RowsFit(rs, b), NEW r \in Range(rs)
  PROVE  /\ r \in RowOf(b) /\ r.id \in 1 .. b /\ r.role \in Roles /\ r.parent \in 0 .. b
         /\ r.parent < r.id
<1>1. PICK i \in DOMAIN rs : r = rs[i]
  BY DEF Range
<1>2. rs \in Seq(RowOf(b)) /\ rs[i].parent < rs[i].id
  BY <1>1 DEF RowsFit
<1>3. rs[i] \in RowOf(b)
  BY <1>2
<1>4. r \in RowOf(b) /\ r.parent < r.id
  BY <1>1, <1>2, <1>3
<1>5. QED
  BY <1>4 DEF RowOf

\* INSERT.
LEMMA InsertedFits ==
  ASSUME NEW b \in Nat, NEW rs, RowsFit(rs, b), NEW p \in 0 .. b, NEW r \in Roles
  PROVE  /\ RowsFit(Inserted(rs, b + 1, r, p), b + 1)
         /\ Range(Inserted(rs, b + 1, r, p)) = Range(rs) \cup {[id |-> b + 1, role |-> r, parent |-> p]}
<1> DEFINE x == [id |-> b + 1, role |-> r, parent |-> p]
           s == Append(rs, x)
<1>1. /\ rs \in Seq(RowOf(b)) /\ \A i \in DOMAIN rs : rs[i].parent < rs[i].id
      /\ \A i, j \in DOMAIN rs : i < j => rs[i].id < rs[j].id
  BY DEF RowsFit
<1>2. x \in RowOf(b + 1) /\ x.id = b + 1 /\ x.parent = p
  BY DEF RowOf
<1>3. RowOf(b) \subseteq RowOf(b + 1)
  BY DEF RowOf
<1> HIDE DEF x
<1>4. rs \in Seq(RowOf(b + 1))
  BY <1>1, <1>3
<1>5. /\ s \in Seq(RowOf(b + 1)) /\ Len(rs) \in Nat /\ DOMAIN rs = 1 .. Len(rs)
      /\ DOMAIN s = 1 .. Len(rs) + 1 /\ s[Len(rs) + 1] = x
      /\ \A i \in 1 .. Len(rs) : s[i] = rs[i]
  BY <1>2, <1>4
<1> HIDE DEF s
<1>6. \A i \in 1 .. Len(rs) : s[i].id \in 1 .. b
  <2>1. \A i \in 1 .. Len(rs) : rs[i] \in RowOf(b)
    BY <1>1, <1>5
  <2>2. QED
    BY <1>5, <2>1 DEF RowOf
<1>7. \A i \in DOMAIN s : i \in 1 .. Len(rs) \/ i = Len(rs) + 1
  BY <1>5
<1>8. \A i \in DOMAIN s : s[i].parent < s[i].id
  <2>1. p < b + 1
    OBVIOUS
  <2>2. QED
    BY <1>1, <1>2, <1>5, <1>7, <2>1
<1>9. ASSUME NEW i \in DOMAIN s, NEW j \in DOMAIN s, i < j PROVE s[i].id < s[j].id
  <2>1. i \in 1 .. Len(rs)
    BY <1>5, <1>9
  <2>2. CASE j \in 1 .. Len(rs)
    BY <1>1, <1>5, <1>9, <2>1, <2>2
  <2>3. CASE j = Len(rs) + 1
    <3>1. s[j].id = b + 1
      BY <1>2, <1>5, <2>3
    <3>2. s[i].id \in 1 .. b
      BY <1>6, <2>1
    <3>3. QED
      BY <3>1, <3>2
  <2>4. QED
    BY <1>7, <2>2, <2>3
<1>10. Range(s) = Range(rs) \cup {x}
  <2>1. Range(s) \subseteq Range(rs) \cup {x}
    BY <1>5, <1>7 DEF Range
  <2>2. \A i \in 1 .. Len(rs) : i \in DOMAIN s /\ s[i] = rs[i]
    BY <1>5
  <2>3. Len(rs) + 1 \in DOMAIN s
    BY <1>5
  <2>4. Range(rs) \subseteq Range(s)
    BY <1>5, <2>2 DEF Range
  <2>5. x \in Range(s)
    BY <1>5, <2>3, Zenon DEF Range
  <2>6. QED
    BY <2>1, <2>4, <2>5
<1>11. RowsFit(s, b + 1)
  BY <1>5, <1>8, <1>9 DEF RowsFit
<1>12. Inserted(rs, b + 1, r, p) = s
  BY DEF Inserted, s, x
<1>13. QED
  BY <1>10, <1>11, <1>12 DEF x

\* The first page.
LEMMA PageFits ==
  ASSUME NEW b \in Nat, NEW rs, RowsFit(rs, b), NEW m \in Nat, m <= Len(rs)
  PROVE  RowsFit(SubSeq(rs, 1, m), b)
<1> DEFINE s == SubSeq(rs, 1, m)
<1>1. /\ rs \in Seq(RowOf(b)) /\ \A i \in DOMAIN rs : rs[i].parent < rs[i].id
      /\ \A i, j \in DOMAIN rs : i < j => rs[i].id < rs[j].id
  BY DEF RowsFit
<1>2. Len(rs) \in Nat /\ DOMAIN rs = 1 .. Len(rs)
  BY <1>1
<1>3. s \in Seq(RowOf(b)) /\ Len(s) = m /\ DOMAIN s = 1 .. m /\ \A i \in 1 .. m : s[i] = rs[i]
  BY <1>1, <1>2
<1> HIDE DEF s
<1>4. \A i \in 1 .. m : i \in DOMAIN rs
  BY <1>2
<1>5. RowsFit(s, b)
  BY <1>1, <1>3, <1>4 DEF RowsFit
<1>6. QED
  BY <1>5 DEF s

\* An imported conversation.
LEMMA ImportedFits ==
  ASSUME NEW k \in Nat
  PROVE  /\ RowsFit(ImportedRows(k), k)
         /\ \A r \in Range(ImportedRows(k)) : r.role = "assistant" => r.parent # None
<1> DEFINE s == ImportedRows(k)
<1>1. s = [i \in 1 .. k |-> [id |-> i, role |-> IF i % 2 = 1 THEN "user" ELSE "assistant",
                             parent |-> i - 1]]
  BY DEF ImportedRows
<1> HIDE DEF s
<1>2. DOMAIN s = 1 .. k /\ \A i \in 1 .. k : /\ s[i].id = i /\ s[i].parent = i - 1
                                             /\ s[i].role = IF i % 2 = 1 THEN "user" ELSE "assistant"
                                             /\ s[i] \in RowOf(k)
  <2>1. DOMAIN s = 1 .. k
    BY <1>1
  <2>2. ASSUME NEW i \in 1 .. k
        PROVE  /\ s[i].id = i /\ s[i].parent = i - 1
               /\ s[i].role = IF i % 2 = 1 THEN "user" ELSE "assistant"
               /\ s[i] \in RowOf(k)
    <3>1. i - 1 \in 0 .. k
      OBVIOUS
    <3>2. s[i] = [id |-> i, role |-> IF i % 2 = 1 THEN "user" ELSE "assistant", parent |-> i - 1]
      BY <1>1
    <3>3. QED
      BY <3>1, <3>2 DEF RowOf, Roles
  <2>3. QED
    BY <2>1, <2>2
<1>3. s \in Seq(RowOf(k))
  <2>1. s \in [1 .. k -> RowOf(k)]
    BY <1>1, <1>2
  <2>2. QED
    BY <2>1
<1>4. RowsFit(s, k)
  BY <1>2, <1>3 DEF RowsFit
<1>5. ASSUME NEW i \in 1 .. k, s[i].role = "assistant" PROVE s[i].parent # None
  <2>1. i # 1
    <3>1. 1 % 2 = 1
      OBVIOUS
    <3>2. i = 1 => s[i].role = "user"
      BY <1>2, <3>1
    <3>3. QED
      BY <1>5, <3>2
  <2>2. QED
    BY <1>2, <2>1 DEF None
<1>6. QED
  BY <1>2, <1>4, <1>5 DEF Range, s

\* DELETE of one row: the others stay, its children lose their parent.
LEMMA WithoutRowFits ==
  ASSUME NEW b \in Nat, NEW rs, RowsFit(rs, b), NEW id
  PROVE  /\ RowsFit(WithoutRow(rs, id), b)
         /\ \A r \in Range(WithoutRow(rs, id)) :
              \E q \in Range(rs) : /\ q.id # id /\ r.id = q.id /\ r.role = q.role
                                   /\ r.parent = IF q.parent = id THEN None ELSE q.parent
<1> DEFINE at == {i \in DOMAIN rs : rs[i].id = id}
           kept == IF at = {} THEN rs ELSE RemoveAt(rs, Max(at))
           cut(q) == [q EXCEPT !.parent = IF @ = id THEN None ELSE @]
           s == [i \in DOMAIN kept |-> cut(kept[i])]
<1>1. /\ rs \in Seq(RowOf(b)) /\ \A i \in DOMAIN rs : rs[i].parent < rs[i].id
      /\ \A i, j \in DOMAIN rs : i < j => rs[i].id < rs[j].id
  BY DEF RowsFit
<1>2. Len(rs) \in Nat /\ DOMAIN rs = 1 .. Len(rs) /\ \A i \in 1 .. Len(rs) : rs[i] \in RowOf(b)
  BY <1>1
<1>3. RowsFit(kept, b) /\ \A i \in DOMAIN kept : kept[i].id # id /\ kept[i] \in Range(rs)
  <2>1. CASE at = {}
    <3>1. kept = rs
      BY <2>1
    <3>2. \A i \in DOMAIN rs : rs[i].id # id /\ rs[i] \in Range(rs)
      BY <2>1 DEF Range
    <3> HIDE DEF kept
    <3>3. QED
      BY <3>1, <3>2
  <2>2. CASE at # {}
    <3> DEFINE m == Max(at)
               r == RemoveAt(rs, m)
               up(i) == IF i < m THEN i ELSE i + 1
    <3>1. m \in at
      <4>1. at \in SUBSET (1 .. Len(rs)) /\ 1 \in Int /\ Len(rs) \in Int
        BY <1>2
      <4> HIDE DEF at
      <4>2. QED
        BY <2>2, <4>1, MaxIsElement
    <3>2. m \in 1 .. Len(rs) /\ rs[m].id = id
      BY <1>2, <3>1
    <3> HIDE DEF m, at
    <3>3. kept = r
      BY <2>2 DEF m
    <3>4. /\ r \in Seq(RowOf(b)) /\ Len(r) = Len(rs) - 1
          /\ \A i \in 1 .. Len(rs) - 1 : r[i] = IF i < m THEN rs[i] ELSE rs[i + 1]
      BY <1>1, <3>2, RemoveAtFacts
    <3> HIDE DEF r, kept
    <3>5. /\ DOMAIN r = 1 .. Len(rs) - 1
          /\ \A i \in 1 .. Len(rs) - 1 : r[i] = rs[up(i)]
      BY <3>4
    <3>6. /\ \A i \in 1 .. Len(rs) - 1 : up(i) \in DOMAIN rs /\ (up(i) < m \/ m < up(i))
          /\ \A i, j \in 1 .. Len(rs) - 1 : i < j => up(i) < up(j)
      BY <1>2, <3>2
    <3> HIDE DEF up
    <3>7. \A i \in DOMAIN r : r[i].parent < r[i].id
      BY <1>1, <3>5, <3>6
    <3>8. \A i, j \in DOMAIN r : i < j => r[i].id < r[j].id
      BY <1>1, <3>5, <3>6
    <3>9. ASSUME NEW i \in DOMAIN r PROVE r[i].id # id /\ r[i] \in Range(rs)
      <4>1. r[i] = rs[up(i)] /\ up(i) \in DOMAIN rs /\ (up(i) < m \/ m < up(i)) /\ m \in DOMAIN rs
        BY <1>2, <3>2, <3>5, <3>6
      <4>2. rs[up(i)].id < rs[m].id \/ rs[m].id < rs[up(i)].id
        BY <1>1, <4>1
      <4>3. rs[up(i)].id \in Int /\ rs[m].id \in Int
        BY <1>2, <4>1 DEF RowOf
      <4>4. rs[up(i)].id # rs[m].id
        BY <4>2, <4>3
      <4>5. QED
        BY <3>2, <4>1, <4>4 DEF Range
    <3>10. QED
      BY <3>3, <3>4, <3>7, <3>8, <3>9 DEF RowsFit
  <2>3. QED
    BY <2>1, <2>2
<1> HIDE DEF kept
<1>4. /\ kept \in Seq(RowOf(b)) /\ \A i \in DOMAIN kept : kept[i].parent < kept[i].id
      /\ \A i, j \in DOMAIN kept : i < j => kept[i].id < kept[j].id
  BY <1>3 DEF RowsFit
<1>5. ASSUME NEW q \in RowOf(b)
      PROVE  /\ cut(q) \in RowOf(b) /\ cut(q).id = q.id /\ cut(q).role = q.role
             /\ cut(q).parent = IF q.parent = id THEN None ELSE q.parent
             /\ q.parent < q.id => cut(q).parent < q.id
  <2>1. q = [id |-> q.id, role |-> q.role, parent |-> q.parent]
        /\ q.id \in 1 .. b /\ q.role \in Roles /\ q.parent \in 0 .. b
    BY DEF RowOf
  <2>2. cut(q) = [id |-> q.id, role |-> q.role, parent |-> IF q.parent = id THEN None ELSE q.parent]
    BY <2>1
  <2> HIDE DEF cut
  <2>3. cut(q).id = q.id /\ cut(q).role = q.role /\ cut(q).parent = IF q.parent = id THEN None ELSE q.parent
    BY <2>2
  <2>4. (IF q.parent = id THEN None ELSE q.parent) \in 0 .. b
    BY <2>1 DEF None
  <2>5. cut(q) \in RowOf(b)
    BY <2>1, <2>2, <2>4 DEF RowOf
  <2>6. q.parent < q.id => cut(q).parent < q.id
    BY <2>1, <2>3 DEF None
  <2>7. QED
    BY <2>3, <2>5, <2>6
<1> HIDE DEF cut
<1>6. /\ DOMAIN s = DOMAIN kept /\ \A i \in DOMAIN s : s[i] = cut(kept[i]) /\ kept[i] \in RowOf(b)
  BY <1>4
<1>7. s \in Seq(RowOf(b))
  <2>1. DOMAIN kept = 1 .. Len(kept) /\ Len(kept) \in Nat
    BY <1>4
  <2>2. s \in [1 .. Len(kept) -> RowOf(b)]
    BY <1>5, <1>6, <2>1
  <2>3. QED
    BY <2>1, <2>2
<1> HIDE DEF s
<1>8. RowsFit(s, b)
  <2>1. \A i \in DOMAIN s : s[i].parent < s[i].id
    BY <1>4, <1>5, <1>6
  <2>2. \A i, j \in DOMAIN s : i < j => s[i].id < s[j].id
    BY <1>4, <1>5, <1>6
  <2>3. QED
    BY <1>7, <2>1, <2>2 DEF RowsFit
<1>9. ASSUME NEW r \in Range(s)
      PROVE  \E q \in Range(rs) : /\ q.id # id /\ r.id = q.id /\ r.role = q.role
                                  /\ r.parent = IF q.parent = id THEN None ELSE q.parent
  <2>1. PICK i \in DOMAIN s : r = s[i]
    BY DEF Range
  <2>2. r = cut(kept[i]) /\ kept[i] \in RowOf(b) /\ kept[i].id # id /\ kept[i] \in Range(rs)
    BY <1>3, <1>6, <2>1
  <2>3. QED
    BY <1>5, <2>2
<1>10. WithoutRow(rs, id) = s
  BY DEF WithoutRow, s, kept, cut
<1>11. QED
  BY <1>8, <1>9, <1>10

\* loadHistory adds one row after the other.
LEMMA RestoredSteps ==
  ASSUME NEW rs, Len(rs) \in Nat
  PROVE  \E W : /\ W[0] = EmptyTree /\ W[Len(rs)] = Restored(rs)
                /\ \A n \in 1 .. Len(rs) : W[n] = AddNode(W[n - 1], rs[n].id, rs[n].parent, rs[n].role)
<1> DEFINE N == Len(rs)
           add(n, t) == AddNode(t, rs[n].id, rs[n].parent, rs[n].role)
           W == CHOOSE f : f = [n \in 0 .. N |-> IF n = 0 THEN EmptyTree ELSE add(n, f[n - 1])]
<1>1. Restored(rs) = W[N]
  BY DEF Restored
<1>2. N \in Nat
  OBVIOUS
<1> HIDE DEF add, N
<1>3. \E h : h = [n \in 0 .. N |-> IF n = 0 THEN EmptyTree ELSE add(n, h[n - 1])]
  <2> DEFINE T == {m \in 0 .. N : \E h : h = [n \in 0 .. m |-> IF n = 0 THEN EmptyTree ELSE add(n, h[n - 1])]}
  <2>1. 0 \in T
    <3> DEFINE h == [n \in 0 .. 0 |-> EmptyTree]
    <3>1. \A n \in 0 .. 0 : n = 0
      OBVIOUS
    <3>2. h = [n \in 0 .. 0 |-> IF n = 0 THEN EmptyTree ELSE add(n, h[n - 1])]
      BY <3>1
    <3> HIDE DEF h
    <3>3. 0 \in 0 .. N
      BY <1>2
    <3>4. QED
      BY <3>2, <3>3
  <2>2. ASSUME NEW m \in 1 .. N, m - 1 \in T PROVE m \in T
    <3>1. PICK h : h = [n \in 0 .. m - 1 |-> IF n = 0 THEN EmptyTree ELSE add(n, h[n - 1])]
      BY <2>2
    <3> DEFINE g == [n \in 0 .. m |-> IF n = m THEN add(m, h[m - 1]) ELSE h[n]]
    <3>2. m \in 0 .. N /\ m # 0
      BY <1>2
    <3>3. ASSUME NEW n \in 0 .. m PROVE g[n] = IF n = 0 THEN EmptyTree ELSE add(n, g[n - 1])
      <4>1. CASE n = 0
        <5>1. n # m /\ n \in 0 .. m - 1
          BY <4>1, <1>2
        <5>2. h[n] = EmptyTree
          BY <3>1, <4>1, <5>1
        <5>3. QED
          BY <4>1, <5>1, <5>2
      <4>2. CASE n # 0 /\ n # m
        <5>1. n \in 0 .. m - 1 /\ n - 1 \in 0 .. m /\ n - 1 # m
          BY <4>2, <1>2
        <5>2. h[n] = add(n, h[n - 1])
          BY <3>1, <4>2, <5>1
        <5>3. g[n] = h[n] /\ g[n - 1] = h[n - 1]
          BY <4>2, <5>1
        <5>4. QED
          BY <4>2, <5>2, <5>3
      <4>3. CASE n # 0 /\ n = m
        <5>1. m - 1 \in 0 .. m /\ m - 1 # m
          BY <1>2
        <5>2. g[m - 1] = h[m - 1] /\ g[n] = add(m, h[m - 1])
          BY <4>3, <5>1
        <5>3. QED
          BY <4>3, <5>2
      <4>4. QED
        BY <4>1, <4>2, <4>3
    <3>4. g = [n \in 0 .. m |-> g[n]]
      OBVIOUS
    <3> HIDE DEF g
    <3>5. g = [n \in 0 .. m |-> IF n = 0 THEN EmptyTree ELSE add(n, g[n - 1])]
      BY <3>3, <3>4
    <3>6. QED
      BY <3>2, <3>5
  <2>3. 0 .. N \subseteq T
    <3> HIDE DEF T
    <3>1. QED
      BY <1>2, <2>1, <2>2, UpTo
  <2>4. N \in T
    BY <1>2, <2>3
  <2>5. QED
    BY <2>4
<1>4. W = [n \in 0 .. N |-> IF n = 0 THEN EmptyTree ELSE add(n, W[n - 1])]
  BY <1>3, Zenon
<1> HIDE DEF W
<1>5. W[0] = EmptyTree /\ \A n \in 1 .. N : W[n] = add(n, W[n - 1])
  <2>1. 0 \in 0 .. N /\ \A n \in 1 .. N : n \in 0 .. N /\ n # 0
    BY <1>2
  <2>2. QED
    BY <1>4, <2>1
<1>6. QED
  BY <1>1, <1>5 DEF add, N

\* loadHistory builds a grown tree.
LEMMA RestoredIsGrown ==
  ASSUME NEW b \in Nat, NEW rs, RowsFit(rs, b)
  PROVE  Grown(Restored(rs), 0 .. b)
<1> DEFINE N == Len(rs)
           upto(n) == IF n = 0 THEN 0 ELSE rs[n].id
<1>1. /\ rs \in Seq(RowOf(b)) /\ \A i \in DOMAIN rs : rs[i].parent < rs[i].id
      /\ \A i, j \in DOMAIN rs : i < j => rs[i].id < rs[j].id
  BY DEF RowsFit
<1>2. N \in Nat /\ DOMAIN rs = 1 .. N /\ \A i \in 1 .. N : rs[i] \in RowOf(b)
  BY <1>1
<1>3. PICK W : /\ W[0] = EmptyTree /\ W[N] = Restored(rs)
               /\ \A n \in 1 .. N : W[n] = AddNode(W[n - 1], rs[n].id, rs[n].parent, rs[n].role)
  BY <1>2, RestoredSteps
<1> HIDE DEF N
<1> DEFINE T == {n \in 0 .. N : Grown(W[n], 0 .. upto(n))}
<1>4. 0 \in T
  BY <1>2, <1>3, EmptyTreeIsGrown
<1>5. ASSUME NEW n \in 1 .. N, n - 1 \in T PROVE n \in T
  <2> DEFINE t == W[n - 1]
             x == rs[n]
  <2>1. n \in 0 .. N /\ W[n] = AddNode(t, x.id, x.parent, x.role)
    BY <1>2, <1>3
  <2>2. x.id \in 1 .. b /\ x.parent \in 0 .. b /\ x.role \in Roles /\ x.parent < x.id
    BY <1>1, <1>2 DEF RowOf
  <2>3. upto(n - 1) \in Nat /\ upto(n - 1) < x.id
    <3>1. CASE n = 1
      BY <2>2, <3>1
    <3>2. CASE n # 1
      <4>1. n - 1 \in 1 .. N /\ n - 1 < n /\ n - 1 # 0
        BY <1>2, <3>2
      <4>2. rs[n - 1].id \in 1 .. b /\ rs[n - 1].id < rs[n].id
        BY <1>1, <1>2, <4>1 DEF RowOf
      <4>3. QED
        BY <4>1, <4>2
    <3>3. QED
      BY <3>1, <3>2
  <2>4. Grown(t, 0 .. upto(n - 1))
    BY <1>5
  <2>5. upto(n) = x.id
    BY <1>2
  <2> DEFINE u == upto(n - 1)
             i == x.id
             p == x.parent
             r == x.role
  <2> HIDE DEF x, upto, t
  <2>6. u \in Nat /\ u < i /\ i \in Nat /\ p \in Nat /\ p < i /\ r \in Roles /\ i # 0
    BY <2>2, <2>3
  <2> HIDE DEF u, i, p, r
  <2>7. 0 .. u \subseteq 0 .. i /\ i \in 0 .. i /\ p \in 0 .. i /\ i \notin 0 .. u
    BY <2>6
  <2>8. Above(p, i)
    BY <2>6 DEF Above
  <2>9. Grown(t, 0 .. u)
    BY <2>4 DEF u
  <2>10. Grown(AddNode(t, i, p, r), 0 .. i)
    BY <2>6, <2>7, <2>8, <2>9, AddNodeGrows
  <2>11. QED
    BY <2>1, <2>5, <2>10 DEF i, p, r
<1>6. N \in T
  <2> HIDE DEF T
  <2>1. 0 .. N \subseteq T
    BY <1>2, <1>4, <1>5, UpTo
  <2>2. QED
    BY <1>2, <2>1
<1>7. 0 .. upto(N) \subseteq 0 .. b
  <2>1. N # 0 => N \in 1 .. N
    BY <1>2
  <2>2. N # 0 => rs[N].id \in 1 .. b
    BY <1>2, <2>1 DEF RowOf
  <2>3. QED
    BY <2>2
<1>8. Grown(W[N], 0 .. upto(N))
  BY <1>6
<1> HIDE DEF upto
<1>9. QED
  BY <1>3, <1>7, <1>8, GrownWidens

\* The rows a deletion lists: the row, and what hangs under a listed one.
LEMMA BelowFacts ==
  ASSUME NEW b \in Nat, RowsFit(Listing, b), NEW id \in 1 .. b
  PROVE  /\ id \in Below(id) /\ Below(id) \subseteq 1 .. b
         /\ \A q \in Range(Listing) : q.parent \in Below(id) => q.id \in Below(id)
<1> DEFINE U == 1 .. b
           N == Len(Listing)
           V == SUBSET U
           R == Range(Listing)
           down(S) == S \union {r.id : r \in {q \in R : q.parent \in S}}
           ch == [x \in U |-> {r.id : r \in {q \in R : q.parent = x}}]
           D == {Listing[i].parent : i \in DOMAIN Listing}
           G == [a \in (1 .. N) \X V |-> down(a[2])]
           W == CHOOSE f : f = [n \in 0 .. N |-> IF n = 0 THEN {id} ELSE down(f[n - 1])]
<1>1. Below(id) = W[N]
  BY DEF Below
<1>2. Listing \in Seq(RowOf(b)) /\ N \in Nat /\ DOMAIN Listing = 1 .. N
  BY DEF RowsFit
<1>3. \A r \in R : r.id \in U
  BY RowFacts
<1>4. IsFiniteSet(D) /\ Cardinality(D) <= N
  <2> DEFINE f == [i \in 1 .. N |-> Listing[i].parent]
  <2>1. f \in Surjection(1 .. N, D)
    <3>1. f \in [1 .. N -> D]
      BY <1>2
    <3>2. \A y \in D : \E i \in 1 .. N : f[i] = y
      BY <1>2
    <3> HIDE DEF f, D
    <3>3. QED
      BY <3>1, <3>2 DEF Surjection
  <2>2. IsFiniteSet(1 .. N) /\ Cardinality(1 .. N) = N
    <3>1. N \in Int /\ 1 \in Int /\ (IF 1 > N THEN 0 ELSE N - 1 + 1) = N
      BY <1>2
    <3> HIDE DEF N
    <3>2. QED
      BY <3>1, FS_Interval
  <2> HIDE DEF f, D, N
  <2>3. QED
    BY <2>1, <2>2, FS_Surjection
<1>5. \A x \in U : ch[x] # {} => x \in D
  <2>1. ASSUME NEW x \in U, ch[x] # {} PROVE x \in D
    <3>1. PICK q \in R : q.parent = x
      BY <2>1
    <3>2. PICK i \in DOMAIN Listing : q = Listing[i]
      BY DEF Range
    <3>3. QED
      BY <3>1, <3>2
  <2>2. QED
    BY <2>1
<1>6. ch \in [U -> SUBSET U]
  BY <1>3
<1>7. \A S \in V : down(S) \in V
  BY <1>3
<1>8. \A S \in V : down(S) = S \cup UNION {ch[x] : x \in S}
  <2> SUFFICES ASSUME NEW S \in V PROVE down(S) = S \cup UNION {ch[x] : x \in S}
    OBVIOUS
  <2>1. \A x \in S : ch[x] = {r.id : r \in {q \in R : q.parent = x}}
    OBVIOUS
  <2> HIDE DEF ch, R
  <2>2. ASSUME NEW y, y \in down(S), y \notin S PROVE y \in UNION {ch[x] : x \in S}
    <3>1. PICK q \in R : q.parent \in S /\ y = q.id
      BY <2>2
    <3>2. y \in {r.id : r \in {a \in R : a.parent = q.parent}}
      BY <3>1
    <3>3. y \in ch[q.parent]
      BY <2>1, <3>1, <3>2
    <3>4. QED
      BY <3>1, <3>3
  <2>3. \A y : y \in S \cup UNION {ch[x] : x \in S} => y \in down(S)
    BY <2>1
  <2> HIDE DEF down
  <2>4. \A y : y \in down(S) => y \in S \cup UNION {ch[x] : x \in S}
    BY <2>2
  <2>5. QED
    BY <2>3, <2>4
<1>9. {id} \in V
  OBVIOUS
<1> HIDE DEF V, N, D, R, ch
<1>10. \A q \in R : q.parent \in U => q.id \in ch[q.parent]
  BY DEF ch
<1> HIDE DEF down
<1>11. G \in [(1 .. N) \X V -> V] /\ \A n \in 1 .. N, s \in V : G[<<n, s>>] = down(s)
  BY <1>7
<1> HIDE DEF G
<1>12. PICK h : Iterates(h, G, {id}, N, V)
  BY <1>2, <1>9, <1>11, Repeated
<1>13. h \in [0 .. N -> V] /\ h[0] = {id} /\ \A n \in 1 .. N : h[n] = G[<<n, h[n - 1]>>]
  BY <1>12 DEF Iterates
<1>14. h = [n \in 0 .. N |-> IF n = 0 THEN {id} ELSE down(h[n - 1])]
  <2>1. ASSUME NEW n \in 0 .. N PROVE h[n] = IF n = 0 THEN {id} ELSE down(h[n - 1])
    <3>1. CASE n = 0
      BY <1>13, <3>1
    <3>2. CASE n # 0
      <4>1. n \in 1 .. N /\ n - 1 \in 0 .. N
        BY <1>2, <3>2
      <4>2. h[n - 1] \in V
        BY <1>13, <4>1
      <4>3. h[n] = down(h[n - 1])
        BY <1>11, <1>13, <4>1, <4>2
      <4>4. QED
        BY <3>2, <4>3
    <3>3. QED
      BY <3>1, <3>2
  <2>2. h = [n \in 0 .. N |-> h[n]]
    BY <1>13
  <2>3. QED
    BY <2>1, <2>2
<1>15. W = [n \in 0 .. N |-> IF n = 0 THEN {id} ELSE down(W[n - 1])]
  BY <1>14, Zenon
<1> HIDE DEF W
<1>16. W[0] = {id} /\ \A n \in 1 .. N : W[n] = down(W[n - 1])
  <2>1. 0 \in 0 .. N /\ \A n \in 1 .. N : n \in 0 .. N /\ n # 0
    BY <1>2
  <2>2. QED
    BY <1>15, <2>1
<1>17. \A n \in 0 .. N : W[n] \in V
  <2> DEFINE T == {n \in 0 .. N : W[n] \in V}
  <2>1. 0 \in T
    <3>1. 0 \in 0 .. N /\ W[0] \in V
      BY <1>2, <1>9, <1>16
    <3>2. QED
      BY <3>1
  <2>2. ASSUME NEW n \in 1 .. N, n - 1 \in T PROVE n \in T
    <3>1. n \in 0 .. N /\ W[n - 1] \in V /\ W[n] = down(W[n - 1])
      BY <1>2, <1>16, <2>2
    <3>2. QED
      BY <1>7, <3>1
  <2>3. 0 .. N \subseteq T
    <3> HIDE DEF T
    <3>1. QED
      BY <1>2, <2>1, <2>2, UpTo
  <2>4. QED
    BY <2>3
<1>18. Layers(W, ch, id, N, U)
  <2>1. W \in [0 .. N -> SUBSET U]
    <3>1. W = [n \in 0 .. N |-> W[n]]
      BY <1>15
    <3>2. QED
      BY <1>17, <3>1 DEF V
  <2>2. ASSUME NEW n \in 1 .. N PROVE W[n] = W[n - 1] \cup UNION {ch[x] : x \in W[n - 1]}
    <3>1. n - 1 \in 0 .. N
      BY <1>2
    <3>2. W[n - 1] \in V /\ W[n] = down(W[n - 1])
      BY <1>16, <1>17, <3>1
    <3>3. QED
      BY ONLY <1>8, <3>2, Zenon
  <2>3. QED
    BY <1>16, <2>1, <2>2, Zenon DEF Layers
<1> HIDE DEF U
<1>19. id \in U
  BY DEF U
<1>20. id \in W[N] /\ \A x \in W[N] : ch[x] \subseteq W[N]
  BY <1>2, <1>4, <1>5, <1>6, <1>18, <1>19, LayersClose
<1>21. W[N] \subseteq U
  BY <1>2, <1>17 DEF V
<1>22. QED
  BY <1>1, <1>10, <1>20, <1>21 DEF U, R

-----------------------------------------------------------------------------
(* the inductive invariant of the conversation *)

TurnOf(b) == [phase : Phases, row : 0 .. b, prompt : Int, node : Int, legs : 0 .. MaxLegs]

TurnsFit(ts, b) == ts \in Seq(TurnOf(b))

LegFits(l, n, f, b) ==
  l \in [pc : {"idle", "posting", "streaming", "resuming"}, turn : 0 .. n,
         prompt : -f .. b, node : -f .. b]

(* A roll-back is still to come as long as the deletion has a node.        *)
DelFits(d, f, b) ==
  /\ d = [pc |-> d.pc, node |-> d.node, target |-> d.target, todo |-> d.todo,
          chain |-> d.chain, snapshot |-> d.snapshot]
  /\ d.pc \in {"none", "resolving", "asking", "deleting"}
  /\ d.node \in -f .. b /\ d.target \in 0 .. b /\ d.todo \in SUBSET (1 .. b)
  /\ d.pc \in {"resolving", "asking"} => d.node # None
  /\ d.pc # "deleting" => d.todo = {}
  /\ d.node # None => Grown(d.snapshot, -f .. b)

(* NoOrphans, of its parts.                                                *)
Adopted(rs, todo, ls) ==
  \A r \in Range(rs) :
    r.role = "assistant" /\ r.parent = None /\ r.id \notin todo => r.id \in ls

(* What hangs under a row that is to be deleted is to be deleted too, or   *)
(* known to be left alone.                                                 *)
Sunk(rs, todo, ls) == \A q \in Range(rs) : q.parent \in todo => q.id \in todo \cup ls

Counts ==
  /\ fresh \in Nat /\ serial \in Nat /\ deletes \in 0 .. MaxDeletes
  /\ reloads \in 0 .. MaxReloads /\ faults \in 0 .. MaxFaults
  /\ tangled \in BOOLEAN /\ loose \in SUBSET (1 .. serial)

CInv ==
  /\ Counts
  /\ RowsFit(rows, serial)
  /\ TurnsFit(turns, serial)
  /\ LegFits(leg, Len(turns), fresh, serial)
  /\ Grown(tree, -fresh .. serial)
  /\ DelFits(del, fresh, serial)
  /\ Adopted(rows, del.todo, loose)
  /\ Sunk(rows, del.todo, loose)

-----------------------------------------------------------------------------
(* what the steps do to each part of the state *)

\* The keys are finitely many numbers.
LEMMA KeyFacts ==
  ASSUME NEW f \in Nat, NEW b \in Nat
  PROVE  IsFiniteSet(-f .. b) /\ -f .. b \subseteq Int /\ 0 .. b \subseteq -f .. b
         /\ \A g \in Nat : \A c \in Nat : f <= g /\ b <= c => -f .. b \subseteq -g .. c
<1>1. IsFiniteSet(-f .. b)
  <2>1. -f \in Int /\ b \in Int
    OBVIOUS
  <2>2. QED
    BY <2>1, FS_Interval
<1>2. 0 .. b \subseteq -f .. b
  OBVIOUS
<1>3. \A g \in Nat : \A c \in Nat : f <= g /\ b <= c => -f .. b \subseteq -g .. c
  OBVIOUS
<1>4. QED
  BY <1>1, <1>2, <1>3

\* The sets of keys that have children or an active child are finite.
LEMMA GrownIsFinite ==
  ASSUME NEW K, IsFiniteSet(K), NEW t, Grown(t, K)
  PROVE  Cardinality(DOMAIN t.active) \in Nat /\ Nodes(t) \subseteq K \ {0}
<1>1. DOMAIN t.children \subseteq K /\ DOMAIN t.active = DOMAIN t.children
      /\ DOMAIN t.role \subseteq K \ {0}
  BY DEF Grown, Forest
<1>2. QED
  BY <1>1, FS_Subset, FS_CardinalityType DEF Nodes

\* The next local id is a key of its own, below all the others.
LEMMA NewIdFacts ==
  ASSUME NEW f \in Nat, NEW b \in Nat, NEW p \in -f .. b
  PROVE  /\ -(f + 1) \in -(f + 1) .. b /\ -(f + 1) \notin -f .. b /\ p \in -(f + 1) .. b
         /\ -f .. b \subseteq -(f + 1) .. b /\ Above(p, -(f + 1))
<1> DEFINE x == -(f + 1)
<1>1. x \in Int /\ x < -f /\ x # 0 /\ x <= b /\ x < 0 /\ p \in Int /\ x < p
  OBVIOUS
<1>2. Above(p, x)
  <2> HIDE DEF x
  <2>1. QED
    BY <1>1 DEF Above
<1>3. QED
  BY <1>1, <1>2

\* A node is made under a key.
LEMMA NewNode ==
  ASSUME NEW f \in Nat, NEW b \in Nat, NEW t, Grown(t, -f .. b), NEW p \in -f .. b, NEW r \in Roles
  PROVE  Grown(AddNode(t, -(f + 1), p, r), -(f + 1) .. b)
<1> DEFINE x == -(f + 1)
           K == -f .. b
           L == -(f + 1) .. b
<1>1. x \in L /\ x \notin K /\ p \in L /\ K \subseteq L /\ Above(p, x)
  BY NewIdFacts
<1> HIDE DEF x, L
<1>2. Grown(t, K)
  OBVIOUS
<1> HIDE DEF K
<1>3. Grown(AddNode(t, x, p, r), L)
  BY <1>1, <1>2, AddNodeGrows
<1>4. QED
  BY <1>3 DEF x, L

\* The leg in the words of the next state.
LEMMA LegWidens ==
  ASSUME NEW l, NEW n \in Nat, NEW f \in Nat, NEW b \in Nat, LegFits(l, n, f, b),
         NEW m \in Nat, NEW g \in Nat, NEW c \in Nat, n <= m, f <= g, b <= c
  PROVE  LegFits(l, m, g, c)
<1>1. 0 .. n \subseteq 0 .. m /\ -f .. b \subseteq -g .. c
  OBVIOUS
<1>2. QED
  BY <1>1 DEF LegFits

\* What a leg holds.
LEMMA LegFacts ==
  ASSUME NEW l, NEW n, NEW f, NEW b, LegFits(l, n, f, b)
  PROVE  /\ l = [pc |-> l.pc, turn |-> l.turn, prompt |-> l.prompt, node |-> l.node]
         /\ l.pc \in {"idle", "posting", "streaming", "resuming"} /\ l.turn \in 0 .. n
         /\ l.prompt \in -f .. b /\ l.node \in -f .. b
BY DEF LegFits

\* A leg is made.
LEMMA LegMade ==
  ASSUME NEW n \in Nat, NEW f \in Nat, NEW b \in Nat,
         NEW pc \in {"idle", "posting", "streaming", "resuming"}, NEW i \in 0 .. n,
         NEW p \in -f .. b, NEW k \in -f .. b
  PROVE  LegFits([pc |-> pc, turn |-> i, prompt |-> p, node |-> k], n, f, b)
BY DEF LegFits

\* No leg.
LEMMA NoLegFits ==
  ASSUME NEW n \in Nat, NEW f \in Nat, NEW b \in Nat
  PROVE  LegFits(NoLeg, n, f, b)
<1>1. 0 \in 0 .. n /\ 0 \in -f .. b
  OBVIOUS
<1>2. QED
  BY <1>1 DEF LegFits, NoLeg, None

\* The deletion in the words of the next state.
LEMMA DelWidens ==
  ASSUME NEW d, NEW f \in Nat, NEW b \in Nat, DelFits(d, f, b),
         NEW g \in Nat, NEW c \in Nat, f <= g, b <= c
  PROVE  DelFits(d, g, c)
<1>1. 0 .. b \subseteq 0 .. c /\ -f .. b \subseteq -g .. c /\ 1 .. b \subseteq 1 .. c
  OBVIOUS
<1>2. d.node # None => Grown(d.snapshot, -g .. c)
  BY <1>1, GrownWidens DEF DelFits
<1>3. d.node \in -g .. c /\ d.target \in 0 .. c /\ d.todo \in SUBSET (1 .. c)
  BY <1>1 DEF DelFits
<1>4. QED
  BY <1>2, <1>3 DEF DelFits

\* A deletion is made.
LEMMA DelMade ==
  ASSUME NEW f \in Nat, NEW b \in Nat,
         NEW pc \in {"none", "resolving", "asking", "deleting"}, NEW k \in -f .. b,
         NEW x \in 0 .. b, NEW S \in SUBSET (1 .. b), NEW ch, NEW t,
         pc \in {"resolving", "asking"} => k # None,
         pc # "deleting" => S = {},
         k # None => Grown(t, -f .. b)
  PROVE  DelFits([pc |-> pc, node |-> k, target |-> x, todo |-> S, chain |-> ch, snapshot |-> t], f, b)
<1> DEFINE d == [pc |-> pc, node |-> k, target |-> x, todo |-> S, chain |-> ch, snapshot |-> t]
<1>1. /\ d.pc = pc /\ d.node = k /\ d.target = x /\ d.todo = S /\ d.chain = ch /\ d.snapshot = t
      /\ d = [pc |-> d.pc, node |-> d.node, target |-> d.target, todo |-> d.todo,
              chain |-> d.chain, snapshot |-> d.snapshot]
  OBVIOUS
<1> HIDE DEF d
<1>2. DelFits(d, f, b)
  BY <1>1 DEF DelFits
<1>3. QED
  BY <1>2 DEF d

\* No deletion.
LEMMA NoDeleteFits ==
  ASSUME NEW f \in Nat, NEW b \in Nat
  PROVE  DelFits(NoDelete, f, b) /\ NoDelete.todo = {} /\ NoDelete.pc = "none"
<1>1. 0 \in -f .. b /\ 0 \in 0 .. b /\ {} \in SUBSET (1 .. b)
  OBVIOUS
<1>2. DelFits(NoDelete, f, b)
  BY <1>1, DelMade DEF NoDelete, None
<1>3. QED
  BY <1>2 DEF NoDelete

\* What a deletion holds.
LEMMA DelFacts ==
  ASSUME NEW d, NEW f, NEW b, DelFits(d, f, b)
  PROVE  /\ d = [pc |-> d.pc, node |-> d.node, target |-> d.target, todo |-> d.todo,
                 chain |-> d.chain, snapshot |-> d.snapshot]
         /\ d.pc \in {"none", "resolving", "asking", "deleting"}
         /\ d.node \in -f .. b /\ d.target \in 0 .. b /\ d.todo \in SUBSET (1 .. b)
         /\ d.pc \in {"resolving", "asking"} => d.node # None
         /\ d.pc # "deleting" => d.todo = {}
         /\ d.node # None => Grown(d.snapshot, -f .. b)
BY DEF DelFits

\* The turns in the words of the next state.
LEMMA TurnsWiden ==
  ASSUME NEW ts, NEW b \in Nat, TurnsFit(ts, b), NEW c \in Nat, b <= c
  PROVE  TurnsFit(ts, c)
<1>1. 0 .. b \subseteq 0 .. c
  OBVIOUS
<1>2. TurnOf(b) \subseteq TurnOf(c)
  BY <1>1 DEF TurnOf
<1> HIDE DEF TurnOf
<1>3. QED
  BY <1>2 DEF TurnsFit

\* What the turns hold.
LEMMA TurnFacts ==
  ASSUME NEW ts, NEW b, TurnsFit(ts, b)
  PROVE  /\ Len(ts) \in Nat /\ DOMAIN ts = 1 .. Len(ts)
         /\ \A i \in DOMAIN ts :
              /\ ts[i] \in TurnOf(b)
              /\ ts[i] = [phase |-> ts[i].phase, row |-> ts[i].row, prompt |-> ts[i].prompt,
                          node |-> ts[i].node, legs |-> ts[i].legs]
              /\ ts[i].phase \in Phases /\ ts[i].row \in 0 .. b /\ ts[i].prompt \in Int
              /\ ts[i].node \in Int /\ ts[i].legs \in 0 .. MaxLegs
<1>1. ts \in Seq(TurnOf(b))
  BY DEF TurnsFit
<1>2. Len(ts) \in Nat /\ DOMAIN ts = 1 .. Len(ts) /\ \A i \in DOMAIN ts : ts[i] \in TurnOf(b)
  BY <1>1
<1>3. ASSUME NEW q \in TurnOf(b)
      PROVE  /\ q = [phase |-> q.phase, row |-> q.row, prompt |-> q.prompt,
                     node |-> q.node, legs |-> q.legs]
             /\ q.phase \in Phases /\ q.row \in 0 .. b /\ q.prompt \in Int
             /\ q.node \in Int /\ q.legs \in 0 .. MaxLegs
  BY DEF TurnOf
<1>4. QED
  BY <1>2, <1>3

\* The turns change, each to a turn.
LEMMA TurnsFollow ==
  ASSUME NEW ts, NEW b, TurnsFit(ts, b), NEW us, DOMAIN us = DOMAIN ts,
         us = [i \in DOMAIN ts |-> us[i]],
         \A i \in DOMAIN ts : us[i] \in TurnOf(b)
  PROVE  TurnsFit(us, b) /\ Len(us) = Len(ts)
<1>1. Len(ts) \in Nat /\ DOMAIN ts = 1 .. Len(ts)
  BY TurnFacts
<1>2. us \in [1 .. Len(ts) -> TurnOf(b)]
  <2>1. \A i \in 1 .. Len(ts) : us[i] \in TurnOf(b)
    BY <1>1
  <2>2. us = [i \in 1 .. Len(ts) |-> us[i]]
    BY <1>1
  <2> HIDE DEF TurnOf
  <2>3. QED
    BY <2>1, <2>2
<1>3. us \in Seq(TurnOf(b)) /\ Len(us) = Len(ts)
  BY <1>1, <1>2
<1>4. QED
  BY <1>3 DEF TurnsFit

\* A turn is changed.
LEMMA TurnChanged ==
  ASSUME NEW ts, NEW b, TurnsFit(ts, b), NEW i \in DOMAIN ts, NEW q \in TurnOf(b)
  PROVE  LET us == [ts EXCEPT ![i] = q]
         IN TurnsFit(us, b) /\ Len(us) = Len(ts)
<1> DEFINE us == [ts EXCEPT ![i] = q]
<1>1. DOMAIN us = DOMAIN ts /\ us = [j \in DOMAIN ts |-> us[j]]
      /\ \A j \in DOMAIN ts : us[j] = IF j = i THEN q ELSE ts[j]
  OBVIOUS
<1> HIDE DEF us
<1>2. \A j \in DOMAIN ts : us[j] \in TurnOf(b)
  BY <1>1, TurnFacts
<1>3. TurnsFit(us, b) /\ Len(us) = Len(ts)
  BY <1>1, <1>2, TurnsFollow
<1>4. QED
  BY <1>3 DEF us

\* The one before is stopped.
LEMMA StoppedFits ==
  ASSUME NEW ts, NEW b, TurnsFit(ts, b)
  PROVE  TurnsFit(Stopped(ts), b) /\ Len(Stopped(ts)) = Len(ts)
<1> DEFINE us == Stopped(ts)
           halt(q) == [q EXCEPT !.phase = IF @ = "running" THEN "stopped" ELSE @]
<1>1. ASSUME NEW q \in TurnOf(b)
      PROVE  halt(q) \in TurnOf(b)
  BY DEF TurnOf, Phases
<1> HIDE DEF halt
<1>2. us = [i \in DOMAIN ts |-> halt(ts[i])]
  BY DEF Stopped, halt
<1> HIDE DEF us
<1>3. DOMAIN us = DOMAIN ts /\ us = [i \in DOMAIN ts |-> us[i]]
  BY <1>2
<1>4. \A i \in DOMAIN ts : us[i] = halt(ts[i]) /\ ts[i] \in TurnOf(b)
  BY <1>2, TurnFacts
<1>5. \A i \in DOMAIN ts : us[i] \in TurnOf(b)
  BY <1>1, <1>4
<1>6. TurnsFit(us, b) /\ Len(us) = Len(ts)
  BY <1>3, <1>5, TurnsFollow
<1>7. QED
  BY <1>6 DEF us

\* A turn is added.
LEMMA TurnAdded ==
  ASSUME NEW ts, NEW b, TurnsFit(ts, b), NEW q \in TurnOf(b)
  PROVE  TurnsFit(Append(ts, q), b) /\ Len(Append(ts, q)) = Len(ts) + 1
<1>1. ts \in Seq(TurnOf(b))
  BY DEF TurnsFit
<1> HIDE DEF TurnOf
<1>2. /\ Append(ts, q) \in Seq(TurnOf(b)) /\ Len(Append(ts, q)) = Len(ts) + 1
  BY <1>1
<1>3. QED
  BY <1>2 DEF TurnsFit

\* An insert leaves no new orphan but those that are named.
LEMMA InsertAdopts ==
  ASSUME NEW b \in Nat, NEW rs, RowsFit(rs, b), NEW p \in 0 .. b, NEW r \in Roles,
         NEW todo \in SUBSET (1 .. b), NEW ls, NEW lt, ls \subseteq lt,
         r = "assistant" /\ p = None => b + 1 \in lt, p \in todo => b + 1 \in lt,
         Adopted(rs, todo, ls), Sunk(rs, todo, ls)
  PROVE  Adopted(Inserted(rs, b + 1, r, p), todo, lt) /\ Sunk(Inserted(rs, b + 1, r, p), todo, lt)
<1> DEFINE ss == Inserted(rs, b + 1, r, p)
           x == [id |-> b + 1, role |-> r, parent |-> p]
<1>1. Range(ss) = Range(rs) \cup {x}
  BY InsertedFits
<1>2. x.id = b + 1 /\ x.role = r /\ x.parent = p
  OBVIOUS
<1> HIDE DEF ss, x
<1>3. Adopted(ss, todo, lt)
  BY <1>1, <1>2 DEF Adopted
<1>4. Sunk(ss, todo, lt)
  BY <1>1, <1>2 DEF Sunk
<1>5. QED
  BY <1>3, <1>4 DEF ss

\* The deletion of a row orphans only rows that are to be deleted.
LEMMA DeleteAdopts ==
  ASSUME NEW b \in Nat, NEW rs, RowsFit(rs, b), NEW todo \in SUBSET (1 .. b),
         NEW ls, NEW id \in todo,
         Adopted(rs, todo, ls), Sunk(rs, todo, ls)
  PROVE  Adopted(WithoutRow(rs, id), todo \ {id}, ls) /\ Sunk(WithoutRow(rs, id), todo \ {id}, ls)
<1> DEFINE ss == WithoutRow(rs, id)
<1>1. \A r \in Range(ss) :
         \E q \in Range(rs) : /\ q.id # id /\ r.id = q.id /\ r.role = q.role
                              /\ r.parent = IF q.parent = id THEN None ELSE q.parent
  BY WithoutRowFits
<1> HIDE DEF ss
<1>2. None \notin todo
  BY DEF None
<1>3. ASSUME NEW r \in Range(ss), r.role = "assistant", r.parent = None, r.id \notin todo \ {id}
      PROVE  r.id \in ls
  <2>1. PICK q \in Range(rs) : /\ q.id # id /\ r.id = q.id /\ r.role = q.role
                               /\ r.parent = IF q.parent = id THEN None ELSE q.parent
    BY <1>1
  <2>2. q.id \notin todo /\ q.role = "assistant"
    BY <1>3, <2>1
  <2>3. CASE q.parent = id
    BY <2>1, <2>2, <2>3 DEF Sunk
  <2>4. CASE q.parent # id
    BY <1>3, <2>1, <2>2, <2>4 DEF Adopted
  <2>5. QED
    BY <2>3, <2>4
<1>4. ASSUME NEW r \in Range(ss), r.parent \in todo \ {id}
      PROVE  r.id \in (todo \ {id}) \cup ls
  <2>1. PICK q \in Range(rs) : /\ q.id # id /\ r.id = q.id /\ r.role = q.role
                               /\ r.parent = IF q.parent = id THEN None ELSE q.parent
    BY <1>1
  <2>2. q.parent \in todo
    BY <1>2, <1>4, <2>1
  <2>3. q.id \in todo \cup ls
    BY <2>2 DEF Sunk
  <2>4. QED
    BY <2>1, <2>3
<1>5. Adopted(ss, todo \ {id}, ls) /\ Sunk(ss, todo \ {id}, ls)
  BY <1>3, <1>4 DEF Adopted, Sunk
<1>6. QED
  BY <1>5 DEF ss

-----------------------------------------------------------------------------
(* every step keeps the invariant *)

\* What the invariant says of the state, in one place.
LEMMA Parts ==
  ASSUME CInv
  PROVE  /\ fresh \in Nat /\ serial \in Nat /\ Len(turns) \in Nat
         /\ IsFiniteSet(-fresh .. serial) /\ -fresh .. serial \subseteq Int
         /\ Nodes(tree) \subseteq (-fresh .. serial) \ {0}
         /\ OnScreen \subseteq Nodes(tree)
         /\ Tip(tree) \in -fresh .. serial
<1>1. fresh \in Nat /\ serial \in Nat
  BY DEF CInv, Counts
<1>2. Len(turns) \in Nat
  BY TurnFacts DEF CInv
<1>3. IsFiniteSet(-fresh .. serial) /\ -fresh .. serial \subseteq Int
  BY <1>1, KeyFacts
<1>4. Grown(tree, -fresh .. serial)
  BY DEF CInv
<1>5. Cardinality(DOMAIN tree.active) \in Nat /\ Nodes(tree) \subseteq (-fresh .. serial) \ {0}
  BY <1>3, <1>4, GrownIsFinite
<1>6. OnScreen \subseteq Nodes(tree)
  BY <1>5, ScreenIsOfNodes DEF OnScreen
<1>7. Tip(tree) \in -fresh .. serial
  <2>1. 0 \in -fresh .. serial
    BY <1>1
  <2>2. QED
    BY <1>5, <2>1, TipIsNode DEF None
<1>8. QED
  BY <1>1, <1>2, <1>3, <1>5, <1>6, <1>7

\* A prompt is asked under a key.
LEMMA AskKeeps ==
  ASSUME CInv, NEW p \in -fresh .. serial, Ask(p)
  PROVE  /\ fresh' = fresh + 1 /\ fresh' \in Nat /\ Grown(tree', -fresh' .. serial)
         /\ LegFits(leg', Len(turns), fresh', serial)
<1>1. fresh \in Nat /\ serial \in Nat /\ Len(turns) \in Nat /\ Grown(tree, -fresh .. serial)
  BY Parts DEF CInv
<1>2. fresh' = fresh + 1 /\ fresh' \in Nat /\ NewId = -(fresh + 1)
  BY <1>1 DEF Ask, NewId
<1>3. Grown(tree', -fresh' .. serial)
  <2>1. "user" \in Roles
    BY DEF Roles
  <2>2. Grown(AddNode(tree, -(fresh + 1), p, "user"), -(fresh + 1) .. serial)
    BY <1>1, <2>1, NewNode
  <2>3. QED
    BY <1>2, <2>2 DEF Ask
<1>4. LegFits(leg', Len(turns), fresh', serial)
  <2>1. leg' = [pc |-> "posting", turn |-> 0, prompt |-> NewId, node |-> None]
    BY DEF Ask, Begin, NoLeg
  <2>2. 0 \in 0 .. Len(turns) /\ NewId \in -fresh' .. serial /\ None \in -fresh' .. serial
    BY <1>1, <1>2 DEF None
  <2>3. QED
    BY <1>1, <1>2, <2>1, <2>2, LegMade
<1>5. QED
  BY <1>2, <1>3, <1>4

\* The client shows an error under a key.
LEMMA ErrorNodeKeeps ==
  ASSUME CInv, ErrorNode
  PROVE  /\ fresh' = fresh + 1 /\ fresh' \in Nat /\ Grown(tree', -fresh' .. serial)
         /\ LegFits(leg', Len(turns), fresh', serial)
<1>1. fresh \in Nat /\ serial \in Nat /\ Len(turns) \in Nat /\ Grown(tree, -fresh .. serial)
  BY Parts DEF CInv
<1>2. fresh' = fresh + 1 /\ fresh' \in Nat /\ NewId = -(fresh + 1)
  BY <1>1 DEF ErrorNode, NewId
<1>3. Hangs(leg.node) \in -fresh .. serial
  BY LegFacts DEF CInv, Hangs
<1>4. Grown(tree', -fresh' .. serial)
  <2>1. "assistant" \in Roles
    BY DEF Roles
  <2>2. Grown(AddNode(tree, -(fresh + 1), Hangs(leg.node), "assistant"), -(fresh + 1) .. serial)
    BY <1>1, <1>3, <2>1, NewNode
  <2>3. QED
    BY <1>2, <2>2 DEF ErrorNode
<1>5. LegFits(leg', Len(turns), fresh', serial)
  BY <1>1, <1>2, NoLegFits DEF ErrorNode
<1>6. QED
  BY <1>2, <1>4, <1>5

\* The client's next state, however the deletion and the server stand.
LEMMA ClientSteps ==
  ASSUME CInv, Counts', fresh <= fresh',
         LegFits(leg', Len(turns), fresh', serial), Grown(tree', -fresh' .. serial),
         UNCHANGED <<del, rows, serial, turns, loose>>
  PROVE  CInv'
<1>1. fresh \in Nat /\ serial \in Nat /\ fresh' \in Nat
  BY Parts DEF Counts
<1>2. DelFits(del', fresh', serial')
  <2>1. DelFits(del, fresh, serial) /\ serial <= serial
    BY <1>1 DEF CInv
  <2>2. QED
    BY <1>1, <2>1, DelWidens
<1>3. RowsFit(rows', serial') /\ TurnsFit(turns', serial')
      /\ Adopted(rows', del'.todo, loose') /\ Sunk(rows', del'.todo, loose')
  BY DEF CInv
<1>4. QED
  BY <1>2, <1>3 DEF CInv

\* dispatchSend.
LEMMA SendKeeps == ASSUME CInv, Send PROVE CInv'
<1>1. Ask(Tip(tree)) /\ UNCHANGED <<del, deletes, reloads, serial, rows, turns, faults, tangled, loose>>
  BY DEF Send, server, ghosts
<1>2. /\ fresh' = fresh + 1 /\ fresh' \in Nat /\ Grown(tree', -fresh' .. serial)
      /\ LegFits(leg', Len(turns), fresh', serial)
  BY <1>1, Parts, AskKeeps
<1>3. Counts' /\ fresh <= fresh'
  BY <1>1, <1>2, Parts DEF CInv, Counts
<1>4. QED
  BY <1>1, <1>2, <1>3, ClientSteps

\* editMessage.
LEMMA EditKeeps == ASSUME CInv, NEW id \in OnScreen, Edit(id) PROVE CInv'
<1>1. /\ Ask(tree.parent[id]) /\ tangled' = TRUE
      /\ UNCHANGED <<del, deletes, reloads, serial, rows, turns, faults, loose>>
  BY DEF Edit, server
<1>2. tree.parent[id] \in -fresh .. serial
  <2>1. id \in Nodes(tree)
    BY Parts
  <2>2. QED
    BY <2>1 DEF CInv, Grown, Forest, Nodes
<1>3. /\ fresh' = fresh + 1 /\ fresh' \in Nat /\ Grown(tree', -fresh' .. serial)
      /\ LegFits(leg', Len(turns), fresh', serial)
  BY <1>1, <1>2, AskKeeps
<1>4. Counts' /\ fresh <= fresh'
  BY <1>1, <1>3, Parts DEF CInv, Counts
<1>5. QED
  BY <1>1, <1>3, <1>4, ClientSteps

\* regenerate.
LEMMA RegenerateKeeps == ASSUME CInv, NEW id \in OnScreen, Regenerate(id) PROVE CInv'
<1>1. /\ Begin(PromptAbove(tree, id)) /\ tangled' = TRUE
      /\ UNCHANGED <<tree, fresh, del, deletes, reloads, serial, rows, turns, faults, loose>>
  BY DEF Regenerate, server
<1>2. PromptAbove(tree, id) \in -fresh .. serial
  <2>1. id \in Nodes(tree) /\ Nodes(tree) \subseteq -fresh .. serial /\ 0 \in -fresh .. serial
    BY Parts
  <2>2. Grown(tree, -fresh .. serial)
    BY DEF CInv
  <2>3. PromptAbove(tree, id) = None \/ PromptAbove(tree, id) \in Nodes(tree)
    BY <2>1, <2>2, Parts, PromptIsNode
  <2>4. QED
    BY <2>1, <2>3 DEF None
<1>3. LegFits(leg', Len(turns), fresh', serial)
  <2>1. leg' = [pc |-> "posting", turn |-> 0, prompt |-> PromptAbove(tree, id), node |-> None]
    BY <1>1 DEF Begin, NoLeg
  <2>2. 0 \in 0 .. Len(turns) /\ None \in -fresh .. serial
    BY Parts DEF None
  <2>3. QED
    BY <1>1, <1>2, <2>1, <2>2, Parts, LegMade
<1>4. Counts' /\ fresh <= fresh' /\ Grown(tree', -fresh' .. serial)
  BY <1>1, Parts DEF CInv, Counts
<1>5. QED
  BY <1>1, <1>3, <1>4, ClientSteps

\* switchBranch.
LEMMA SwitchKeeps == ASSUME CInv, NEW id, NEW d \in {-1, 1}, SwitchBranch(id, d) PROVE CInv'
<1>1. /\ CanSwitch(tree, id, d) /\ tree' = Switch(tree, id, d)
      /\ UNCHANGED <<fresh, leg, reloads, del, deletes, rows, serial, turns, faults, tangled, loose>>
  BY DEF SwitchBranch, server, ghosts
<1>2. Grown(tree, -fresh .. serial) /\ d \in Int
  BY DEF CInv
<1>3. Grown(tree', -fresh' .. serial)
  BY <1>1, <1>2, SwitchKeepsGrown
<1>4. Counts' /\ fresh <= fresh' /\ LegFits(leg', Len(turns), fresh', serial)
  BY <1>1, Parts DEF CInv, Counts
<1>5. QED
  BY <1>1, <1>3, <1>4, ClientSteps

\* The client gives the stream up.
LEMMA LoseStreamKeeps == ASSUME CInv, LoseStream PROVE CInv'
<1>1. /\ ErrorNode /\ Fault /\ tangled' = TRUE
      /\ UNCHANGED <<reloads, del, deletes, rows, serial, turns, loose>>
  BY DEF LoseStream, server
<1>2. /\ fresh' = fresh + 1 /\ fresh' \in Nat /\ Grown(tree', -fresh' .. serial)
      /\ LegFits(leg', Len(turns), fresh', serial)
  BY <1>1, ErrorNodeKeeps
<1>3. Counts' /\ fresh <= fresh'
  <2>1. faults < MaxFaults /\ faults' = faults + 1 /\ faults \in 0 .. MaxFaults /\ MaxFaults \in Nat
    BY <1>1, Bounds DEF CInv, Counts, Fault
  <2>2. faults' \in 0 .. MaxFaults
    BY ONLY <2>1
  <2>3. QED
    BY <1>1, <1>2, Parts, <2>2 DEF CInv, Counts
<1>4. QED
  BY <1>1, <1>2, <1>3, ClientSteps

\* A delete is asked for: the client forgets the subtree at once.
LEMMA DeleteKeeps == ASSUME CInv, NEW id \in OnScreen, Delete(id) PROVE CInv'
<1>1. /\ del = NoDelete /\ deletes < MaxDeletes /\ deletes' = deletes + 1 /\ tree' = Prune(tree, id)
      /\ del' = [pc |-> IF id < 0 THEN "resolving" ELSE "asking", node |-> id,
                 target |-> IF id < 0 THEN None ELSE id, todo |-> {},
                 chain |-> IF id < 0 THEN Indices(tree, id) ELSE << >>, snapshot |-> tree]
      /\ UNCHANGED <<fresh, leg, reloads, rows, serial, turns, faults, tangled, loose>>
  BY DEF Delete, server, ghosts
<1>2. Grown(tree, -fresh .. serial) /\ fresh \in Nat /\ serial \in Nat
  BY Parts DEF CInv
<1>3. id \in Nodes(tree) /\ id \in -fresh .. serial /\ id # 0
  BY Parts
<1>4. Grown(tree', -fresh' .. serial')
  BY <1>1, <1>2, <1>3, Parts, PruneKeepsForest
<1>5. DelFits(del', fresh', serial')
  <2>1. (IF id < 0 THEN "resolving" ELSE "asking") \in {"none", "resolving", "asking", "deleting"}
        /\ (IF id < 0 THEN None ELSE id) \in 0 .. serial /\ {} \in SUBSET (1 .. serial) /\ id # None
    BY <1>2, <1>3 DEF None
  <2>2. QED
    BY <1>1, <1>2, <1>3, <2>1, DelMade
<1>6. del.todo = {} /\ del'.todo = {}
  BY <1>1 DEF NoDelete
<1>7. Counts'
  BY <1>1, Bounds DEF CInv, Counts
<1>8. QED
  BY <1>1, <1>4, <1>5, <1>6, <1>7 DEF CInv

\* The deletion is given up: the tree comes back, and nothing is to be deleted.
LEMMA RollBackKeeps ==
  ASSUME CInv, Counts', RollBack, del.node # None,
         UNCHANGED <<fresh, leg, rows, serial, turns>>,
         loose' = loose \cup del.todo
  PROVE  CInv'
<1>1. tree' = del.snapshot /\ del' = NoDelete
  BY DEF RollBack
<1>2. DelFits(del, fresh, serial) /\ fresh \in Nat /\ serial \in Nat
  BY Parts DEF CInv
<1>3. Grown(tree', -fresh' .. serial')
  BY <1>1, <1>2, DelFacts
<1>4. DelFits(del', fresh', serial') /\ del'.todo = {}
  BY <1>1, <1>2, NoDeleteFits
<1>5. Adopted(rows', del'.todo, loose') /\ Sunk(rows', del'.todo, loose')
  BY <1>4 DEF CInv, Adopted, Sunk
<1>6. QED
  BY <1>3, <1>4, <1>5 DEF CInv

\* resolveServerMessageId.
LEMMA ResolveKeeps == ASSUME CInv, Resolve PROVE CInv'
<1>1. /\ del.pc = "resolving"
      /\ UNCHANGED <<fresh, leg, reloads, deletes, rows, serial, turns, faults, loose>>
  BY DEF Resolve, server
<1>2. DelFits(del, fresh, serial) /\ fresh \in Nat /\ serial \in Nat /\ RowsFit(rows, serial)
  BY Parts DEF CInv
<1>3. CASE RowAt(del.chain) \in RowIds
  <2> DEFINE x == RowAt(del.chain)
  <2> HIDE DEF x
  <2>1. del' = [del EXCEPT !.pc = "asking", !.target = x] /\ UNCHANGED <<tree, tangled>> /\ x \in RowIds
    BY <1>3 DEF Resolve, x
  <2>2. x \in 0 .. serial
    <3>1. \A i \in DOMAIN rows : rows[i] \in Range(rows)
      BY DEF Range
    <3>2. \A i \in DOMAIN rows : rows[i].id \in 1 .. serial
      BY <1>2, <3>1, RowFacts
    <3>3. QED
      BY <1>2, <2>1, <3>2 DEF RowIds
  <2>3. del' = [pc |-> "asking", node |-> del.node, target |-> x, todo |-> del.todo,
                chain |-> del.chain, snapshot |-> del.snapshot]
    <3>1. del = [pc |-> del.pc, node |-> del.node, target |-> del.target, todo |-> del.todo,
                 chain |-> del.chain, snapshot |-> del.snapshot]
      BY <1>2, DelFacts
    <3>2. QED
      BY <2>1, <3>1
  <2>4. DelFits(del', fresh', serial')
    <3>1. /\ del.node \in -fresh .. serial /\ del.todo \in SUBSET (1 .. serial) /\ del.node # None
          /\ del.todo = {} /\ Grown(del.snapshot, -fresh .. serial)
      BY <1>1, <1>2, DelFacts
    <3>2. QED
      BY <1>1, <1>2, <2>2, <2>3, <3>1, DelMade
  <2>5. del'.todo = del.todo
    BY <2>3
  <2>6. Counts'
    BY <1>1, <2>1 DEF CInv, Counts
  <2>7. QED
    BY <1>1, <2>1, <2>4, <2>5, <2>6 DEF CInv
<1>4. CASE RowAt(del.chain) \notin RowIds
  <2>1. RollBack
    BY <1>4 DEF Resolve
  <2>2. Counts'
    BY <1>1, <2>1 DEF CInv, Counts, RollBack
  <2>3. del.node # None /\ del.todo = {} /\ loose' = loose \cup del.todo
    BY <1>1, <1>2, <2>1, DelFacts
  <2>4. QED
    BY <1>1, <2>1, <2>2, <2>3, RollBackKeeps
<1>5. QED
  BY <1>3, <1>4

\* What one query returns is made of rows.
LEMMA OldestFits ==
  ASSUME serial \in Nat, RowsFit(rows, serial), NEW n \in Nat
  PROVE  RowsFit(Oldest(n), serial)
<1> DEFINE m == IF Len(rows) < n THEN Len(rows) ELSE n
<1>1. m \in Nat /\ m <= Len(rows)
  BY DEF RowsFit
<1>2. Oldest(n) = SubSeq(rows, 1, m)
  BY DEF Oldest
<1> HIDE DEF m
<1>3. QED
  BY <1>1, <1>2, PageFits

\* The handler's query.
LEMMA ListingFits == ASSUME serial \in Nat, RowsFit(rows, serial) PROVE RowsFit(Listing, serial)
<1>1. Listed \in Nat
  BY Bounds
<1>2. QED
  BY <1>1, OldestFits DEF Listing

\* The handler lists what it is going to delete.
LEMMA PrepareKeeps == ASSUME CInv, Prepare PROVE CInv'
<1>1. /\ del.pc = "asking"
      /\ UNCHANGED <<fresh, leg, reloads, deletes, rows, serial, turns, faults>>
  BY DEF Prepare, server
<1>2. DelFits(del, fresh, serial) /\ fresh \in Nat /\ serial \in Nat /\ RowsFit(rows, serial)
  BY Parts DEF CInv
<1>3. CASE del.target \in RowIds
  <2> DEFINE S == Below(del.target)
  <2>1. del.target \in 1 .. serial
    <3>1. \A i \in DOMAIN rows : rows[i] \in Range(rows)
      BY DEF Range
    <3>2. \A i \in DOMAIN rows : rows[i].id \in 1 .. serial
      BY <1>2, <3>1, RowFacts
    <3>3. QED
      BY <1>3, <3>2 DEF RowIds
  <2>2. S \in SUBSET (1 .. serial) /\ \A q \in Range(Listing) : q.parent \in S => q.id \in S
    BY <1>2, <2>1, ListingFits, BelowFacts
  <2> HIDE DEF S
  <2>3. /\ del' = [del EXCEPT !.pc = "deleting", !.todo = S]
        /\ loose' = loose \cup Overlooked(S)
        /\ UNCHANGED <<tree, tangled>>
    BY <1>3 DEF Prepare, S
  <2>4. del' = [pc |-> "deleting", node |-> del.node, target |-> del.target, todo |-> S,
                chain |-> del.chain, snapshot |-> del.snapshot]
    <3>1. del = [pc |-> del.pc, node |-> del.node, target |-> del.target, todo |-> del.todo,
                 chain |-> del.chain, snapshot |-> del.snapshot]
      BY <1>2, DelFacts
    <3>2. QED
      BY <2>3, <3>1
  <2>5. /\ del.node \in -fresh .. serial /\ del.target \in 0 .. serial
        /\ del.todo = {} /\ (del.node # None => Grown(del.snapshot, -fresh .. serial))
    BY <1>1, <1>2, DelFacts
  <2>6. DelFits(del', fresh', serial')
    BY <1>1, <1>2, <2>2, <2>4, <2>5, DelMade
  <2>7. del'.todo = S
    BY <2>4
  <2>8. Adopted(rows, del.todo, loose)
    BY DEF CInv
  <2>9. Adopted(rows', del'.todo, loose') /\ Sunk(rows', del'.todo, loose')
    <3>1. \A q \in Range(rows) : q.parent \in S => q.id \in S \cup Overlooked(S)
      BY <2>2 DEF Overlooked
    <3>2. QED
      BY <1>1, <2>3, <2>5, <2>7, <2>8, <3>1 DEF Adopted, Sunk
  <2>10. Counts'
    <3>1. Overlooked(S) \in SUBSET (1 .. serial)
      BY <1>2, RowFacts DEF Overlooked
    <3>2. QED
      BY <1>1, <2>3, <3>1 DEF CInv, Counts
  <2>11. QED
    BY <1>1, <2>3, <2>6, <2>9, <2>10 DEF CInv
<1>4. CASE del.target \notin RowIds
  <2>1. RollBack /\ loose' = loose
    BY <1>4 DEF Prepare
  <2>2. Counts'
    BY <1>1, <2>1 DEF CInv, Counts, RollBack
  <2>3. del.node # None /\ del.todo = {} /\ loose' = loose \cup del.todo
    BY <1>1, <1>2, <2>1, DelFacts
  <2>4. QED
    BY <1>1, <2>1, <2>2, <2>3, RollBackKeeps
<1>5. QED
  BY <1>3, <1>4

\* One row is deleted.
LEMMA DeleteRowKeeps == ASSUME CInv, NEW id, DeleteRow(id) PROVE CInv'
<1>1. /\ del.pc = "deleting" /\ id \in del.todo /\ rows' = WithoutRow(rows, id)
      /\ del' = [del EXCEPT !.todo = @ \ {id}] /\ tangled' = TRUE
      /\ UNCHANGED <<tree, fresh, leg, reloads, deletes, serial, turns, faults, loose>>
  BY DEF DeleteRow, client
<1>2. DelFits(del, fresh, serial) /\ fresh \in Nat /\ serial \in Nat /\ RowsFit(rows, serial)
  BY Parts DEF CInv
<1>3. del' = [pc |-> del.pc, node |-> del.node, target |-> del.target, todo |-> del.todo \ {id},
              chain |-> del.chain, snapshot |-> del.snapshot]
  <2>1. del = [pc |-> del.pc, node |-> del.node, target |-> del.target, todo |-> del.todo,
               chain |-> del.chain, snapshot |-> del.snapshot]
    BY <1>2, DelFacts
  <2>2. QED
    BY <1>1, <2>1
<1>4. /\ del.node \in -fresh .. serial /\ del.target \in 0 .. serial
      /\ del.todo \in SUBSET (1 .. serial) /\ (del.node # None => Grown(del.snapshot, -fresh .. serial))
  BY <1>2, DelFacts
<1>5. DelFits(del', fresh', serial')
  <2>1. del.todo \ {id} \in SUBSET (1 .. serial) /\ del.pc \in {"none", "resolving", "asking", "deleting"}
    BY <1>1, <1>4
  <2>2. (del.pc \in {"resolving", "asking"} => del.node # None)
        /\ (del.pc # "deleting" => del.todo \ {id} = {}) /\ fresh' = fresh /\ serial' = serial
    BY <1>1
  <2>3. QED
    BY ONLY <1>2, <1>3, <1>4, <2>1, <2>2, DelMade
<1>6. del'.todo = del.todo \ {id}
  BY <1>3
<1>7. Adopted(rows, del.todo, loose) /\ Sunk(rows, del.todo, loose)
  BY DEF CInv
<1>8. RowsFit(rows', serial')
  BY <1>1, <1>2, WithoutRowFits
<1>9. Adopted(rows', del'.todo, loose') /\ Sunk(rows', del'.todo, loose')
  <2>1. id \in del.todo
    BY <1>1
  <2>2. Adopted(WithoutRow(rows, id), del.todo \ {id}, loose)
        /\ Sunk(WithoutRow(rows, id), del.todo \ {id}, loose)
    BY ONLY <1>2, <1>4, <1>7, <2>1, DeleteAdopts
  <2>3. QED
    BY <1>1, <1>6, <2>2
<1>10. Counts'
  BY <1>1 DEF CInv, Counts
<1>11. QED
  BY <1>1, <1>5, <1>8, <1>9, <1>10 DEF CInv

\* The handler answers.
LEMMA DeletedKeeps == ASSUME CInv, Deleted PROVE CInv'
<1>1. /\ del.todo = {} /\ del' = NoDelete
      /\ UNCHANGED <<tree, fresh, leg, reloads, deletes, rows, serial, turns, faults, tangled, loose>>
  BY DEF Deleted, client, server, ghosts
<1>2. DelFits(del', fresh', serial') /\ del'.todo = {}
  BY <1>1, Parts, NoDeleteFits
<1>3. Counts'
  BY <1>1 DEF CInv, Counts
<1>4. QED
  BY <1>1, <1>2, <1>3 DEF CInv

\* The handler fails.
LEMMA DeleteFailsKeeps == ASSUME CInv, DeleteFails PROVE CInv'
<1>1. /\ del.node # None /\ Fault /\ RollBack /\ loose' = loose \cup del.todo
      /\ UNCHANGED <<fresh, leg, reloads, deletes, rows, serial, turns>>
  BY DEF DeleteFails, server
<1>2. Counts'
  <2>1. loose' \in SUBSET (1 .. serial)
    BY <1>1, DelFacts DEF CInv, Counts
  <2>2. QED
    BY <1>1, <2>1, Bounds DEF CInv, Counts, RollBack, Fault
<1>3. QED
  BY <1>1, <1>2, RollBackKeeps

\* The reply is lost: the tree comes back, the handler goes on.
LEMMA LoseReplyKeeps == ASSUME CInv, LoseReply PROVE CInv'
<1>1. /\ del.pc = "deleting" /\ del.node # None /\ Fault /\ tree' = del.snapshot
      /\ del' = [del EXCEPT !.node = None] /\ tangled' = TRUE
      /\ UNCHANGED <<fresh, leg, reloads, deletes, rows, serial, turns, loose>>
  BY DEF LoseReply, server
<1>2. DelFits(del, fresh, serial) /\ fresh \in Nat /\ serial \in Nat
  BY Parts DEF CInv
<1>3. Grown(tree', -fresh' .. serial')
  BY <1>1, <1>2, DelFacts
<1>4. del' = [pc |-> del.pc, node |-> None, target |-> del.target, todo |-> del.todo,
              chain |-> del.chain, snapshot |-> del.snapshot]
  <2>1. del = [pc |-> del.pc, node |-> del.node, target |-> del.target, todo |-> del.todo,
               chain |-> del.chain, snapshot |-> del.snapshot]
    BY <1>2, DelFacts
  <2>2. QED
    BY <1>1, <2>1
<1>5. DelFits(del', fresh', serial') /\ del'.todo = del.todo
  <2>1. /\ del.target \in 0 .. serial /\ del.todo \in SUBSET (1 .. serial)
        /\ del.pc \in {"none", "resolving", "asking", "deleting"} /\ None \in -fresh .. serial
    BY <1>1, <1>2, DelFacts DEF None
  <2>2. DelFits(del', fresh', serial')
    <3>1. (del.pc \in {"resolving", "asking"} => None # None)
          /\ (del.pc # "deleting" => del.todo = {}) /\ fresh' = fresh /\ serial' = serial
      BY <1>1
    <3>2. QED
      BY ONLY <1>2, <1>4, <2>1, <3>1, DelMade
  <2>3. QED
    BY <1>4, <2>2
<1>6. Counts'
  <2>1. faults < MaxFaults /\ faults' = faults + 1 /\ faults \in 0 .. MaxFaults /\ MaxFaults \in Nat
    BY <1>1, Bounds DEF CInv, Counts, Fault
  <2>2. faults' \in 0 .. MaxFaults
    BY ONLY <2>1
  <2>3. QED
    BY <1>1, <2>2 DEF CInv, Counts
<1>7. QED
  BY <1>1, <1>3, <1>5, <1>6 DEF CInv

\* Two fields of a leg are set.
LEMMA LegSet ==
  ASSUME NEW l, NEW a, NEW b, NEW c, NEW d, l = [pc |-> a, turn |-> b, prompt |-> c, node |-> d],
         NEW x, NEW y
  PROVE  [l EXCEPT !.pc = x, !.turn = y] = [pc |-> x, turn |-> y, prompt |-> c, node |-> d]
<1> DEFINE m == [l EXCEPT !.pc = x, !.turn = y]
           fields == {"pc", "turn", "prompt", "node"}
<1>1. /\ m.pc = x /\ m.turn = y /\ m.prompt = c /\ m.node = d
      /\ DOMAIN m = fields /\ m = [k \in fields |-> m[k]]
  OBVIOUS
<1> HIDE DEF m
<1>2. m = [pc |-> x, turn |-> y, prompt |-> c, node |-> d]
  BY <1>1
<1>3. QED
  BY <1>2 DEF m

\* A prompt is saved: what the rows and the deletion look like after it.
LEMMA PromptSaved ==
  ASSUME CInv, rows' = Inserted(rows, serial + 1, "user", None), serial' = serial + 1,
         UNCHANGED <<tree, fresh, del, loose>>
  PROVE  /\ RowsFit(rows', serial') /\ Grown(tree', -fresh' .. serial') /\ DelFits(del', fresh', serial')
         /\ Adopted(rows', del'.todo, loose') /\ Sunk(rows', del'.todo, loose')
<1>1. /\ fresh \in Nat /\ serial \in Nat /\ RowsFit(rows, serial)
      /\ Grown(tree, -fresh .. serial) /\ DelFits(del, fresh, serial)
      /\ Adopted(rows, del.todo, loose) /\ Sunk(rows, del.todo, loose)
  BY Parts DEF CInv
<1>2. None \in 0 .. serial /\ "user" \in Roles /\ "user" # "assistant" /\ serial + 1 \in Nat /\ serial <= serial + 1 /\ fresh <= fresh
  BY <1>1 DEF None, Roles
<1>3. RowsFit(rows', serial')
  BY <1>1, <1>2, InsertedFits
<1>4. Grown(tree', -fresh' .. serial')
  <2>1. -fresh .. serial \subseteq -fresh .. serial + 1
    BY <1>1
  <2>2. QED
    BY <1>1, <2>1, GrownWidens
<1>5. DelFits(del, fresh, serial + 1)
  BY <1>1, <1>2, DelWidens
<1>6. del.todo \in SUBSET (1 .. serial) /\ None \notin del.todo
  BY <1>1, DelFacts DEF None
<1>7. Adopted(Inserted(rows, serial + 1, "user", None), del.todo, loose)
      /\ Sunk(Inserted(rows, serial + 1, "user", None), del.todo, loose)
  BY <1>1, <1>2, <1>6, InsertAdopts
<1>8. QED
  BY <1>3, <1>4, <1>5, <1>7

\* The server's next state, however the client stands.
LEMMA ServerSteps ==
  ASSUME CInv, Counts', fresh <= fresh', TurnsFit(turns', serial), Len(turns') = Len(turns),
         LegFits(leg', Len(turns), fresh', serial), Grown(tree', -fresh' .. serial),
         UNCHANGED <<del, rows, serial, loose>>
  PROVE  CInv'
<1>1. fresh \in Nat /\ serial \in Nat /\ fresh' \in Nat
  BY Parts DEF Counts
<1>2. DelFits(del', fresh', serial')
  <2>1. DelFits(del, fresh, serial) /\ serial <= serial
    BY <1>1 DEF CInv
  <2>2. QED
    BY <1>1, <2>1, DelWidens
<1>3. Adopted(rows', del'.todo, loose') /\ Sunk(rows', del'.todo, loose')
  BY DEF CInv
<1>4. RowsFit(rows', serial')
  BY DEF CInv
<1>5. QED
  BY <1>2, <1>3, <1>4 DEF CInv

\* The POST handler up to the stream.
LEMMA PostKeeps == ASSUME CInv, NEW saved \in BOOLEAN, Post(saved) PROVE CInv'
<1>1. /\ fresh \in Nat /\ serial \in Nat /\ Len(turns) \in Nat /\ TurnsFit(turns, serial)
      /\ LegFits(leg, Len(turns), fresh, serial)
  BY Parts DEF CInv
<1>2. /\ turns' = Append(Stopped(turns), NewTurn(leg.prompt, IF saved THEN serial + 1 ELSE None))
      /\ leg' = [leg EXCEPT !.pc = "streaming", !.turn = Len(turns) + 1]
      /\ UNCHANGED <<tree, fresh, reloads, del, deletes, loose>>
  BY DEF Post
<1>3. /\ serial' \in Nat /\ serial <= serial'
      /\ serial' = (IF saved THEN serial + 1 ELSE serial)
  BY <1>1 DEF Post
<1>4. TurnsFit(turns', serial') /\ Len(turns') = Len(turns) + 1
  <2> DEFINE q == NewTurn(leg.prompt, IF saved THEN serial + 1 ELSE None)
             us == Stopped(turns)
  <2>1. /\ TurnsFit(us, serial) /\ Len(us) = Len(turns)
    BY <1>1, StoppedFits
  <2>2. q \in TurnOf(serial')
    <3>1. leg.prompt \in Int
      BY <1>1, LegFacts
    <3>2. (IF saved THEN serial + 1 ELSE None) \in 0 .. serial' /\ None \in Int /\ 0 \in 0 .. MaxLegs
      BY <1>1, <1>3, Bounds DEF None
    <3>3. QED
      BY <3>1, <3>2 DEF NewTurn, TurnOf, Phases
  <2> HIDE DEF q, us
  <2>3. TurnsFit(us, serial')
    BY <1>1, <1>3, <2>1, TurnsWiden
  <2>4. turns' = Append(us, q)
    BY <1>2 DEF us, q
  <2>5. QED
    BY <2>1, <2>2, <2>3, <2>4, TurnAdded
<1>5. LegFits(leg', Len(turns'), fresh', serial')
  <2>1. leg' = [pc |-> "streaming", turn |-> Len(turns) + 1, prompt |-> leg.prompt, node |-> leg.node]
    <3>1. leg = [pc |-> leg.pc, turn |-> leg.turn, prompt |-> leg.prompt, node |-> leg.node]
      BY <1>1, LegFacts
    <3>2. leg' = [leg EXCEPT !.pc = "streaming", !.turn = Len(turns) + 1]
      BY <1>2
    <3>3. QED
      BY ONLY <3>1, <3>2, LegSet
  <2>2. leg.prompt \in -fresh .. serial' /\ leg.node \in -fresh .. serial'
    BY <1>1, <1>3, LegFacts
  <2>3. Len(turns) + 1 \in 0 .. Len(turns) + 1 /\ Len(turns) + 1 \in Nat
    BY <1>1
  <2>4. LegFits([pc |-> "streaming", turn |-> Len(turns) + 1, prompt |-> leg.prompt, node |-> leg.node],
                Len(turns) + 1, fresh, serial')
    BY <1>1, <1>3, <2>2, <2>3, LegMade
  <2>5. QED
    BY <1>2, <1>4, <2>1, <2>4
<1>6. Counts'
  <2>1. faults' = faults \/ (faults < MaxFaults /\ faults' = faults + 1)
    <3>1. CASE saved
      BY <3>1 DEF Post
    <3>2. CASE ~saved
      BY <3>2 DEF Post, Fault
    <3>3. QED
      BY <3>1, <3>2
  <2>2. faults \in 0 .. MaxFaults /\ MaxFaults \in Nat
    BY Bounds DEF CInv, Counts
  <2>3. faults' \in 0 .. MaxFaults
    BY ONLY <2>1, <2>2
  <2>4. tangled' = tangled \/ tangled' = TRUE
    <3>1. CASE saved
      BY <3>1 DEF Post
    <3>2. CASE ~saved
      BY <3>2 DEF Post
    <3>3. QED
      BY <3>1, <3>2
  <2>5. tangled' \in BOOLEAN
    BY <2>4 DEF CInv, Counts
  <2>6. loose' \in SUBSET (1 .. serial')
    BY <1>1, <1>2, <1>3 DEF CInv, Counts
  <2>7. QED
    BY <1>2, <1>3, <2>3, <2>5, <2>6 DEF CInv, Counts
<1>7. /\ RowsFit(rows', serial') /\ Grown(tree', -fresh' .. serial') /\ DelFits(del', fresh', serial')
      /\ Adopted(rows', del'.todo, loose') /\ Sunk(rows', del'.todo, loose')
  <2>1. CASE saved
    <3>1. rows' = Inserted(rows, serial + 1, "user", None) /\ serial' = serial + 1
      BY <2>1 DEF Post
    <3>2. QED
      BY <1>2, <1>4, <3>1, PromptSaved
  <2>2. CASE ~saved
    <3>1. rows' = rows /\ serial' = serial
      BY <2>2 DEF Post
    <3>2. QED
      BY <1>2, <3>1 DEF CInv
  <2>3. QED
    BY <2>1, <2>2
<1>8. QED
  BY <1>4, <1>5, <1>6, <1>7 DEF CInv

\* The POST fails.
LEMMA PostFailsKeeps == ASSUME CInv, NEW saved \in BOOLEAN, PostFails(saved) PROVE CInv'
<1>1. /\ fresh \in Nat /\ serial \in Nat /\ Len(turns) \in Nat /\ TurnsFit(turns, serial)
  BY Parts DEF CInv
<1>2. /\ leg' = NoLeg /\ tangled' = TRUE /\ Fault
      /\ UNCHANGED <<tree, fresh, reloads, del, deletes, turns, loose>>
  BY DEF PostFails
<1>3. serial' \in Nat /\ serial <= serial'
  BY <1>1 DEF PostFails
<1>4. TurnsFit(turns', serial') /\ LegFits(leg', Len(turns'), fresh', serial')
  BY <1>1, <1>2, <1>3, TurnsWiden, NoLegFits
<1>5. Counts'
  <2>1. loose' \in SUBSET (1 .. serial')
    BY <1>1, <1>2, <1>3 DEF CInv, Counts
  <2>2. QED
    BY <1>2, <1>3, <2>1, Bounds DEF CInv, Counts, Fault
<1>6. /\ RowsFit(rows', serial') /\ Grown(tree', -fresh' .. serial') /\ DelFits(del', fresh', serial')
      /\ Adopted(rows', del'.todo, loose') /\ Sunk(rows', del'.todo, loose')
  <2>1. CASE saved
    <3>1. rows' = Inserted(rows, serial + 1, "user", None) /\ serial' = serial + 1
      BY <2>1 DEF PostFails
    <3>2. QED
      BY <1>2, <3>1, PromptSaved
  <2>2. CASE ~saved
    <3>1. rows' = rows /\ serial' = serial
      BY <2>2 DEF PostFails
    <3>2. QED
      BY <1>2, <3>1 DEF CInv
  <2>3. QED
    BY <2>1, <2>2
<1>7. QED
  BY <1>4, <1>5, <1>6 DEF CInv

\* message_start.
LEMMA MessageStartKeeps == ASSUME CInv, NEW i \in DOMAIN turns, MessageStart(i) PROVE CInv'
<1>1. /\ fresh \in Nat /\ serial \in Nat /\ Len(turns) \in Nat /\ TurnsFit(turns, serial)
      /\ LegFits(leg, Len(turns), fresh, serial) /\ Grown(tree, -fresh .. serial)
  BY Parts DEF CInv
<1>2. /\ turns[i].legs < MaxLegs /\ turns[i].phase = "running"
      /\ tangled' = (tangled \/ turns[i].legs > 0)
      /\ UNCHANGED <<reloads, del, deletes, rows, serial, faults, loose>>
  BY DEF MessageStart, Running
<1> DEFINE q == turns[i]
<1>3. /\ q = [phase |-> q.phase, row |-> q.row, prompt |-> q.prompt, node |-> q.node, legs |-> q.legs]
      /\ q.phase \in Phases /\ q.row \in 0 .. serial /\ q.prompt \in Int
      /\ q.node \in Int /\ q.legs \in 0 .. MaxLegs
  BY <1>1, TurnFacts
<1>4. q.legs + 1 \in 0 .. MaxLegs
  BY <1>2, <1>3, Bounds
<1>5. CASE leg.turn = i /\ leg.pc = "streaming"
  <2>1. /\ tree' = AddNode(tree, NewId, leg.prompt, "assistant") /\ fresh' = fresh + 1
        /\ leg' = [leg EXCEPT !.node = NewId]
        /\ turns' = [turns EXCEPT ![i].legs = @ + 1, ![i].node = NewId]
    BY <1>5 DEF MessageStart
  <2>2. NewId = -(fresh + 1) /\ NewId \in Int /\ NewId \in -(fresh + 1) .. serial /\ fresh + 1 \in Nat
    BY <1>1 DEF NewId
  <2> DEFINE p == [phase |-> q.phase, row |-> q.row, prompt |-> q.prompt, node |-> NewId,
                   legs |-> q.legs + 1]
  <2>3. p \in TurnOf(serial) /\ p.row = q.row /\ (q.phase = "saved" => p.phase = "saved")
    BY <1>3, <1>4, <2>2 DEF TurnOf
  <2>4. turns' = [turns EXCEPT ![i] = p]
    <3>1. turns' = [turns EXCEPT ![i] = [q EXCEPT !.legs = @ + 1, !.node = NewId]]
      BY <2>1
    <3>2. [q EXCEPT !.legs = @ + 1, !.node = NewId] = p
      <4>1. q = [phase |-> q.phase, row |-> q.row, prompt |-> q.prompt, node |-> q.node, legs |-> q.legs]
        BY <1>3
      <4>2. [q EXCEPT !.legs = q.legs + 1, !.node = NewId]
              = [phase |-> q.phase, row |-> q.row, prompt |-> q.prompt, node |-> NewId, legs |-> q.legs + 1]
        <5> HIDE DEF q
        <5> DEFINE m == [q EXCEPT !.legs = q.legs + 1, !.node = NewId]
                   fields == {"phase", "row", "prompt", "node", "legs"}
        <5>1. /\ m.phase = q.phase /\ m.row = q.row /\ m.prompt = q.prompt /\ m.node = NewId
              /\ m.legs = q.legs + 1
              /\ DOMAIN m = fields /\ m = [k \in fields |-> m[k]]
          BY ONLY <4>1
        <5> HIDE DEF m
        <5>2. m = [phase |-> q.phase, row |-> q.row, prompt |-> q.prompt, node |-> NewId,
                   legs |-> q.legs + 1]
          BY ONLY <5>1
        <5>3. QED
          BY ONLY <5>2 DEF m
      <4>3. QED
        BY ONLY <4>2 DEF p
    <3>3. QED
      BY <3>1, <3>2
  <2> HIDE DEF p
  <2>5. TurnsFit(turns', serial) /\ Len(turns') = Len(turns)
    <3>1. TurnsFit(turns, serial) /\ i \in DOMAIN turns /\ p.row = turns[i].row
          /\ p \in TurnOf(serial) /\ (turns[i].phase = "saved" => p.phase = "saved")
      BY <1>1, <2>3
    <3>2. /\ TurnsFit([turns EXCEPT ![i] = p], serial) /\ Len([turns EXCEPT ![i] = p]) = Len(turns)
      BY ONLY <3>1, TurnChanged
    <3>3. QED
      BY ONLY <2>4, <3>2
  <2>6. Grown(tree', -fresh' .. serial)
    <3>1. "assistant" \in Roles /\ leg.prompt \in -fresh .. serial
      BY <1>1, LegFacts DEF Roles
    <3>2. Grown(AddNode(tree, -(fresh + 1), leg.prompt, "assistant"), -(fresh + 1) .. serial)
      BY <1>1, <3>1, NewNode
    <3>3. QED
      BY <2>1, <2>2, <3>2
  <2>7. LegFits(leg', Len(turns), fresh', serial)
    <3>1. leg' = [pc |-> leg.pc, turn |-> leg.turn, prompt |-> leg.prompt, node |-> NewId]
      BY <1>1, <2>1, LegFacts
    <3>2. /\ leg.pc \in {"idle", "posting", "streaming", "resuming"} /\ leg.turn \in 0 .. Len(turns)
          /\ leg.prompt \in -(fresh + 1) .. serial
      BY <1>1, LegFacts, NewIdFacts
    <3>3. LegFits([pc |-> leg.pc, turn |-> leg.turn, prompt |-> leg.prompt, node |-> NewId],
                  Len(turns), fresh + 1, serial)
      BY <1>1, <2>2, <3>2, LegMade
    <3>4. QED
      BY <2>1, <3>1, <3>3
  <2>8. Counts' /\ fresh <= fresh'
    BY <1>1, <1>2, <2>1, <2>2 DEF CInv, Counts
  <2>9. QED
    BY <1>2, <2>5, <2>6, <2>7, <2>8, ServerSteps
<1>6. CASE ~(leg.turn = i /\ leg.pc = "streaming")
  <2>1. turns' = [turns EXCEPT ![i].legs = @ + 1] /\ UNCHANGED <<tree, fresh, leg>>
    BY <1>6 DEF MessageStart
  <2> DEFINE p == [phase |-> q.phase, row |-> q.row, prompt |-> q.prompt, node |-> q.node,
                   legs |-> q.legs + 1]
  <2>3. p \in TurnOf(serial) /\ p.row = q.row /\ (q.phase = "saved" => p.phase = "saved")
    BY <1>3, <1>4 DEF TurnOf
  <2>4. turns' = [turns EXCEPT ![i] = p]
    <3>1. turns' = [turns EXCEPT ![i] = [q EXCEPT !.legs = @ + 1]]
      BY <2>1
    <3>2. [q EXCEPT !.legs = @ + 1] = p
      BY <1>3
    <3>3. QED
      BY <3>1, <3>2
  <2> HIDE DEF p
  <2>5. TurnsFit(turns', serial) /\ Len(turns') = Len(turns)
    <3>1. TurnsFit(turns, serial) /\ i \in DOMAIN turns /\ p.row = turns[i].row
          /\ p \in TurnOf(serial) /\ (turns[i].phase = "saved" => p.phase = "saved")
      BY <1>1, <2>3
    <3>2. /\ TurnsFit([turns EXCEPT ![i] = p], serial) /\ Len([turns EXCEPT ![i] = p]) = Len(turns)
      BY ONLY <3>1, TurnChanged
    <3>3. QED
      BY ONLY <2>4, <3>2
  <2>6. Counts' /\ fresh <= fresh'
    BY <1>1, <1>2, <2>1 DEF CInv, Counts
  <2>7. QED
    BY <1>1, <1>2, <2>1, <2>5, <2>6, ServerSteps
<1>7. QED
  BY <1>5, <1>6

\* A turn comes to a phase.
LEMMA PhaseSet ==
  ASSUME NEW ts, NEW b, TurnsFit(ts, b), NEW i \in DOMAIN ts, NEW ph \in Phases
  PROVE  LET us == [ts EXCEPT ![i].phase = ph]
         IN TurnsFit(us, b) /\ Len(us) = Len(ts)
<1> DEFINE q == ts[i]
           p == [phase |-> ph, row |-> q.row, prompt |-> q.prompt, node |-> q.node, legs |-> q.legs]
           us == [ts EXCEPT ![i].phase = ph]
<1>1. /\ q = [phase |-> q.phase, row |-> q.row, prompt |-> q.prompt, node |-> q.node, legs |-> q.legs]
      /\ q.phase \in Phases /\ q.row \in 0 .. b /\ q.prompt \in Int
      /\ q.node \in Int /\ q.legs \in 0 .. MaxLegs
  BY TurnFacts
<1>2. p \in TurnOf(b) /\ p.row = q.row /\ p.phase = ph
  BY <1>1 DEF TurnOf
<1>3. us = [ts EXCEPT ![i] = p]
  <2>1. us = [ts EXCEPT ![i] = [q EXCEPT !.phase = ph]]
    OBVIOUS
  <2>2. [q EXCEPT !.phase = ph] = p
    BY <1>1
  <2>3. QED
    BY <2>1, <2>2
<1> HIDE DEF p
<1>4. TurnsFit(us, b) /\ Len(us) = Len(ts)
  BY <1>2, <1>3, TurnChanged
<1>5. QED
  BY <1>4

\* The turn ends.
LEMMA StopKeeps == ASSUME CInv, NEW i \in DOMAIN turns, Stop(i) PROVE CInv'
<1>1. /\ fresh \in Nat /\ serial \in Nat /\ Len(turns) \in Nat /\ TurnsFit(turns, serial)
      /\ LegFits(leg, Len(turns), fresh, serial) /\ Grown(tree, -fresh .. serial)
  BY Parts DEF CInv
<1>2. /\ turns[i].phase = "running" /\ turns' = [turns EXCEPT ![i].phase = "stopped"]
      /\ leg' = IF leg.turn = i THEN NoLeg ELSE leg
      /\ UNCHANGED <<tree, fresh, reloads, del, deletes, rows, serial, faults, tangled, loose>>
  BY DEF Stop, Running, ghosts
<1>3. TurnsFit(turns', serial) /\ Len(turns') = Len(turns)
  <2>1. "stopped" \in Phases
    BY DEF Phases
  <2>2. QED
    BY <1>1, <1>2, <2>1, PhaseSet
<1>4. LegFits(leg', Len(turns), fresh', serial)
  BY <1>1, <1>2, NoLegFits
<1>5. Counts' /\ fresh <= fresh'
  BY <1>1, <1>2 DEF CInv, Counts
<1>6. QED
  BY <1>1, <1>2, <1>3, <1>4, <1>5, ServerSteps

\* The turn fails.
LEMMA TurnFailsKeeps == ASSUME CInv, NEW i \in DOMAIN turns, TurnFails(i) PROVE CInv'
<1>1. /\ fresh \in Nat /\ serial \in Nat /\ Len(turns) \in Nat /\ TurnsFit(turns, serial)
      /\ LegFits(leg, Len(turns), fresh, serial) /\ Grown(tree, -fresh .. serial)
  BY Parts DEF CInv
<1>2. /\ turns[i].phase = "running" /\ turns' = [turns EXCEPT ![i].phase = "stopped"] /\ Fault
      /\ tangled' = TRUE
      /\ UNCHANGED <<reloads, del, deletes, rows, serial, loose>>
  BY DEF TurnFails, Running
<1>3. TurnsFit(turns', serial) /\ Len(turns') = Len(turns)
  <2>1. "stopped" \in Phases
    BY DEF Phases
  <2>2. QED
    BY <1>1, <1>2, <2>1, PhaseSet
<1>4. /\ fresh' \in Nat /\ fresh <= fresh' /\ Grown(tree', -fresh' .. serial)
      /\ LegFits(leg', Len(turns), fresh', serial)
  <2>1. CASE leg.turn = i /\ leg.pc = "streaming"
    <3>1. ErrorNode
      BY <2>1 DEF TurnFails
    <3>2. QED
      BY <1>1, <3>1, ErrorNodeKeeps
  <2>2. CASE ~(leg.turn = i /\ leg.pc = "streaming")
    <3>1. UNCHANGED <<tree, fresh, leg>>
      BY <2>2 DEF TurnFails
    <3>2. QED
      BY <1>1, <3>1
  <2>3. QED
    BY <2>1, <2>2
<1>5. Counts'
  <2>1. faults < MaxFaults /\ faults' = faults + 1 /\ faults \in 0 .. MaxFaults /\ MaxFaults \in Nat
    BY <1>2, Bounds DEF CInv, Counts, Fault
  <2>2. faults' \in 0 .. MaxFaults
    BY ONLY <2>1
  <2>3. QED
    BY <1>2, <1>4, <2>2 DEF CInv, Counts
<1>6. QED
  BY <1>2, <1>3, <1>4, <1>5, ServerSteps

\* The client takes the newest answer, or shows an error.
LEMMA RecoverKeeps ==
  ASSUME CInv, Recover
  PROVE  /\ fresh' \in Nat /\ fresh <= fresh' /\ Grown(tree', -fresh' .. serial)
         /\ LegFits(leg', Len(turns), fresh', serial)
<1>1. /\ fresh \in Nat /\ serial \in Nat /\ Len(turns) \in Nat /\ Grown(tree, -fresh .. serial)
      /\ LegFits(leg, Len(turns), fresh, serial)
  BY Parts DEF CInv
<1>2. CASE leg' = NoLeg /\ UNCHANGED <<tree, fresh>>
  BY <1>1, <1>2, NoLegFits
<1>3. CASE ErrorNode
  <2>1. /\ fresh' = fresh + 1 /\ fresh' \in Nat /\ Grown(tree', -fresh' .. serial)
        /\ LegFits(leg', Len(turns), fresh', serial)
    BY <1>3, ErrorNodeKeeps
  <2>2. fresh <= fresh'
    BY <1>1, <2>1
  <2>3. QED
    BY <2>1, <2>2
<1>4. QED
  BY <1>2, <1>3 DEF Recover

\* The client lets go of a run that is closed.
LEMMA ReleaseKeeps ==
  ASSUME CInv, NEW i, Release(i)
  PROVE  /\ fresh' \in Nat /\ fresh <= fresh' /\ Grown(tree', -fresh' .. serial)
         /\ LegFits(leg', Len(turns), fresh', serial)
<1>1. CASE leg.turn = i
  BY <1>1, RecoverKeeps DEF Release
<1>2. CASE leg.turn # i
  <2>1. UNCHANGED <<tree, fresh, leg>>
    BY <1>2 DEF Release
  <2>2. fresh \in Nat /\ Grown(tree, -fresh .. serial) /\ LegFits(leg, Len(turns), fresh, serial)
    BY Parts DEF CInv
  <2>3. QED
    BY <2>1, <2>2
<1>3. QED
  BY <1>1, <1>2

\* The resumed stream is refused.
LEMMA ResumeRefusedKeeps == ASSUME CInv, ResumeRefused PROVE CInv'
<1>1. /\ Recover
      /\ UNCHANGED <<reloads, del, deletes, rows, serial, turns, faults, tangled, loose>>
  BY DEF ResumeRefused, server, ghosts
<1>2. /\ fresh' \in Nat /\ fresh <= fresh' /\ Grown(tree', -fresh' .. serial)
      /\ LegFits(leg', Len(turns), fresh', serial)
  BY <1>1, RecoverKeeps
<1>3. Counts'
  BY <1>1, <1>2 DEF CInv, Counts
<1>4. QED
  BY <1>1, <1>2, <1>3, ClientSteps

\* The answer becomes a row.
LEMMA SavedKeeps ==
  ASSUME CInv, NEW i \in DOMAIN turns, Release(i), turns[i].row \in 0 .. serial,
         rows' = Inserted(rows, serial + 1, "assistant", turns[i].row), serial' = serial + 1,
         turns' = [turns EXCEPT ![i].phase = "saved"],
         loose' = loose \cup (IF turns[i].row = None \/ turns[i].row \in del.todo
                              THEN {serial + 1} ELSE {}),
         tangled' \in BOOLEAN,
         UNCHANGED <<faults, reloads, del, deletes>>
  PROVE  CInv'
<1>1. /\ fresh \in Nat /\ serial \in Nat /\ Len(turns) \in Nat
      /\ RowsFit(rows, serial) /\ TurnsFit(turns, serial) /\ DelFits(del, fresh, serial)
      /\ Adopted(rows, del.todo, loose) /\ Sunk(rows, del.todo, loose)
  BY Parts DEF CInv
<1>2. /\ fresh' \in Nat /\ fresh <= fresh' /\ Grown(tree', -fresh' .. serial)
      /\ LegFits(leg', Len(turns), fresh', serial)
  BY ReleaseKeeps
<1>3. serial' \in Nat /\ serial <= serial'
  BY <1>1
<1>4. TurnsFit(turns', serial) /\ Len(turns') = Len(turns)
  <2>1. "saved" \in Phases
    BY DEF Phases
  <2>2. LET us == [turns EXCEPT ![i].phase = "saved"]
        IN TurnsFit(us, serial) /\ Len(us) = Len(turns)
    BY <1>1, <2>1, PhaseSet
  <2>3. QED
    BY <2>2
<1>5. TurnsFit(turns', serial')
  BY <1>1, <1>3, <1>4, TurnsWiden
<1>6. LegFits(leg', Len(turns'), fresh', serial')
  <2>1. Len(turns) <= Len(turns) /\ fresh' <= fresh'
    BY <1>1, <1>2
  <2>2. QED
    BY <1>1, <1>2, <1>3, <1>4, <2>1, LegWidens
<1>7. Grown(tree', -fresh' .. serial')
  <2>1. -fresh' .. serial \subseteq -fresh' .. serial'
    BY <1>1, <1>2, <1>3
  <2>2. QED
    BY <1>2, <2>1, GrownWidens
<1>8. DelFits(del', fresh', serial')
  BY <1>1, <1>2, <1>3, DelWidens
<1>9. "assistant" \in Roles
  BY DEF Roles
<1>10. RowsFit(rows', serial')
  BY <1>1, <1>9, InsertedFits
<1> DEFINE p == turns[i].row
           ls == loose'
<1>11. /\ loose \subseteq ls /\ (p = None => serial + 1 \in ls) /\ (p \in del.todo => serial + 1 \in ls)
       /\ p \in 0 .. serial /\ ls \in SUBSET (1 .. serial + 1)
  BY <1>1 DEF CInv, Counts
<1>12. Adopted(rows', del'.todo, loose') /\ Sunk(rows', del'.todo, loose')
  <2>1. del.todo \in SUBSET (1 .. serial)
    BY <1>1, DelFacts
  <2> HIDE DEF p, ls
  <2>2. Adopted(Inserted(rows, serial + 1, "assistant", p), del.todo, ls)
        /\ Sunk(Inserted(rows, serial + 1, "assistant", p), del.todo, ls)
    BY ONLY <1>1, <1>9, <1>11, <2>1, InsertAdopts
  <2>3. QED
    BY <2>2 DEF p, ls
<1>13. Counts'
  BY <1>2, <1>3, <1>11 DEF CInv, Counts
<1>14. QED
  BY <1>5, <1>6, <1>7, <1>8, <1>10, <1>12, <1>13 DEF CInv

\* The finally block.
LEMMA PersistKeeps ==
  ASSUME CInv, NEW i \in DOMAIN turns, NEW ok \in BOOLEAN, Persist(i, ok) PROVE CInv'
<1> DEFINE fits == turns[i].legs > 0 /\ (turns[i].row = None \/ turns[i].row \in RowIds)
<1>1. /\ fresh \in Nat /\ serial \in Nat /\ Len(turns) \in Nat /\ TurnsFit(turns, serial)
  BY Parts DEF CInv
<1>2. turns[i].phase = "stopped" /\ Release(i) /\ UNCHANGED <<reloads, del, deletes>>
  BY DEF Persist
<1>3. CASE fits /\ ok
  <2>1. turns[i].row \in 0 .. serial
    BY <1>1, TurnFacts
  <2>2. /\ rows' = Inserted(rows, serial + 1, "assistant", turns[i].row)
        /\ serial' = serial + 1
        /\ turns' = [turns EXCEPT ![i].phase = "saved"]
        /\ loose' = loose \cup (IF turns[i].row = None \/ turns[i].row \in del.todo
                                THEN {serial + 1} ELSE {})
        /\ UNCHANGED <<faults, tangled>>
    BY <1>3 DEF Persist
  <2>3. tangled' \in BOOLEAN
    BY <2>2 DEF CInv, Counts
  <2>4. QED
    BY <1>2, <2>1, <2>2, <2>3, SavedKeeps
<1>4. CASE ~(fits /\ ok)
  <2> DEFINE ph == IF fits THEN "lost" ELSE "void"
  <2>1. /\ faults' = faults \/ (faults < MaxFaults /\ faults' = faults + 1)
        /\ turns' = [turns EXCEPT ![i].phase = ph]
        /\ tangled' = TRUE
        /\ UNCHANGED <<rows, serial, loose>>
    <3>1. (IF ok THEN UNCHANGED faults ELSE Fault)
          /\ turns' = [turns EXCEPT ![i].phase = ph]
          /\ tangled' = TRUE
          /\ UNCHANGED <<rows, serial, loose>>
      BY <1>4 DEF Persist
    <3>2. QED
      BY <3>1 DEF Fault
  <2>2. ph \in Phases
    BY DEF Phases
  <2> HIDE DEF ph
  <2>3. TurnsFit(turns', serial) /\ Len(turns') = Len(turns)
    <3>1. LET us == [turns EXCEPT ![i].phase = ph]
          IN TurnsFit(us, serial) /\ Len(us) = Len(turns)
      BY <1>1, <1>2, <2>2, PhaseSet
    <3>2. QED
      BY <2>1, <3>1
  <2>4. /\ fresh' \in Nat /\ fresh <= fresh' /\ Grown(tree', -fresh' .. serial)
        /\ LegFits(leg', Len(turns), fresh', serial)
    BY <1>2, ReleaseKeeps
  <2>5. Counts'
    <3>1. faults \in 0 .. MaxFaults /\ MaxFaults \in Nat
      BY Bounds DEF CInv, Counts
    <3>2. faults' \in 0 .. MaxFaults
      BY ONLY <2>1, <3>1
    <3>3. QED
      BY <1>2, <2>1, <2>4, <3>2 DEF CInv, Counts
  <2>6. QED
    BY <1>2, <2>1, <2>3, <2>4, <2>5, ServerSteps
<1>5. QED
  BY <1>3, <1>4

\* The first page is made of rows, and the tree built of it has a tip among them.
LEMMA PageRestored ==
  ASSUME CInv
  PROVE  /\ Grown(Restored(FirstPage), 0 .. serial)
         /\ Tip(Restored(FirstPage)) \in 0 .. serial
<1>1. serial \in Nat /\ RowsFit(rows, serial)
  BY Parts DEF CInv
<1>2. RowsFit(FirstPage, serial)
  <2>1. Len(rows) \in Nat /\ Page \in Nat
    BY <1>1, Bounds DEF RowsFit
  <2> DEFINE m == IF Len(rows) < Page THEN Len(rows) ELSE Page
  <2>2. m \in Nat /\ m <= Len(rows)
    BY <2>1
  <2>3. FirstPage = SubSeq(rows, 1, m)
    BY DEF FirstPage, Oldest
  <2> HIDE DEF m
  <2>4. QED
    BY <1>1, <2>2, <2>3, PageFits
<1>3. Grown(Restored(FirstPage), 0 .. serial)
  BY <1>1, <1>2, RestoredIsGrown
<1> DEFINE t == Restored(FirstPage)
<1> HIDE DEF t
<1>4. Grown(t, 0 .. serial)
  BY <1>3 DEF t
<1>5. IsFiniteSet(0 .. serial)
  BY <1>1, FS_Interval
<1>6. Cardinality(DOMAIN t.active) \in Nat /\ Nodes(t) \subseteq (0 .. serial) \ {0}
  BY <1>4, <1>5, GrownIsFinite
<1>7. Tip(t) \in 0 .. serial
  <2>1. 0 \in 0 .. serial
    BY <1>1
  <2>2. QED
    BY <1>6, <2>1, TipIsNode DEF None
<1>8. QED
  BY <1>3, <1>7 DEF t

\* The turns take other nodes.
LEMMA NodesGiven ==
  ASSUME NEW ts, NEW b, TurnsFit(ts, b), NEW g, \A j \in DOMAIN ts : g[j] \in Int
  PROVE  LET us == [j \in DOMAIN ts |-> [ts[j] EXCEPT !.node = g[j]]]
         IN TurnsFit(us, b) /\ Len(us) = Len(ts)
<1> DEFINE us == [j \in DOMAIN ts |-> [ts[j] EXCEPT !.node = g[j]]]
           set(q, k) == [q EXCEPT !.node = k]
<1>1. ASSUME NEW q \in TurnOf(b), NEW k \in Int
      PROVE  set(q, k) \in TurnOf(b)
  BY DEF TurnOf
<1>2. us = [j \in DOMAIN ts |-> set(ts[j], g[j])]
  OBVIOUS
<1> HIDE DEF us, set
<1>3. DOMAIN us = DOMAIN ts /\ us = [j \in DOMAIN ts |-> us[j]]
      /\ \A j \in DOMAIN ts : us[j] = set(ts[j], g[j])
  BY <1>2
<1>4. \A j \in DOMAIN ts : us[j] \in TurnOf(b)
  <2>1. \A j \in DOMAIN ts : ts[j] \in TurnOf(b)
    BY TurnFacts
  <2>2. QED
    BY <1>1, <1>3, <2>1
<1>5. TurnsFit(us, b) /\ Len(us) = Len(ts)
  BY <1>3, <1>4, TurnsFollow
<1>6. QED
  BY <1>5 DEF us

\* A new page.
LEMMA ReloadKeeps == ASSUME CInv, Reload PROVE CInv'
<1>1. /\ fresh \in Nat /\ serial \in Nat /\ Len(turns) \in Nat /\ RowsFit(rows, serial)
      /\ TurnsFit(turns, serial) /\ DelFits(del, fresh, serial)
      /\ Adopted(rows, del.todo, loose) /\ Sunk(rows, del.todo, loose)
  BY Parts DEF CInv
<1> DEFINE restored == Restored(FirstPage)
           open == {i \in DOMAIN turns : turns[i].legs > 0 /\ turns[i].phase \in {"running", "stopped"}}
           top == Tip(restored)
           k == Max(open)
<1>2. Grown(restored, 0 .. serial) /\ top \in 0 .. serial
  BY PageRestored
<1>3. reloads' = reloads + 1 /\ reloads < MaxReloads /\ tangled' \in BOOLEAN
      /\ del' = (IF del.pc = "deleting" THEN [del EXCEPT !.node = None] ELSE NoDelete)
      /\ UNCHANGED <<rows, serial, deletes, faults, loose>>
  BY DEF Reload, LeftOfDelete, CInv, Counts
<1>4. /\ fresh' \in Nat /\ Grown(tree', -fresh' .. serial)
      /\ LegFits(leg', Len(turns), fresh', serial)
      /\ TurnsFit(turns', serial) /\ Len(turns') = Len(turns)
  <2>1. CASE open = {} \/ top = None
    <3>1. /\ tree' = restored /\ fresh' = 0 /\ leg' = NoLeg
          /\ turns' = [j \in DOMAIN turns |-> [turns[j] EXCEPT !.node = None]]
      BY <2>1 DEF Reload
    <3>2. LegFits(leg', Len(turns), fresh', serial)
      BY <1>1, <3>1, NoLegFits
    <3>3. Grown(tree', -fresh' .. serial)
      <4>1. -fresh' .. serial = 0 .. serial
        BY <1>1, <3>1
      <4>2. QED
        BY <1>2, <3>1, <4>1
    <3>4. TurnsFit(turns', serial) /\ Len(turns') = Len(turns)
      <4> DEFINE g == [j \in DOMAIN turns |-> None]
      <4>1. \A j \in DOMAIN turns : g[j] = None /\ g[j] \in Int
        BY DEF None
      <4>2. turns' = [j \in DOMAIN turns |-> [turns[j] EXCEPT !.node = g[j]]]
        BY <3>1, <4>1
      <4> HIDE DEF g
      <4>3. QED
        BY <1>1, <4>1, <4>2, NodesGiven
    <3>5. QED
      BY <3>1, <3>2, <3>3, <3>4
  <2>2. CASE ~(open = {} \/ top = None)
    <3>1. /\ tree' = AddNode(restored, -1, top, "assistant") /\ fresh' = 1
          /\ leg' = [pc |-> "resuming", turn |-> k, prompt |-> top, node |-> -1]
          /\ turns' = [j \in DOMAIN turns |-> [turns[j] EXCEPT !.node = IF j = k THEN -1 ELSE None]]
      BY <2>2 DEF Reload
    <3>2. k \in 0 .. Len(turns)
      <4>1. open \in SUBSET (1 .. Len(turns))
        BY <1>1, TurnFacts
      <4>2. open # {}
        BY <2>2
      <4> HIDE DEF open
      <4>3. 1 \in Int /\ Len(turns) \in Int
        BY <1>1
      <4>4. Max(open) \in open
        BY ONLY <4>1, <4>2, <4>3, MaxIsElement
      <4>5. k \in 1 .. Len(turns)
        BY <4>1, <4>4
      <4>6. QED
        BY ONLY <1>1, <4>5
    <3> HIDE DEF k, restored
    <3>3. -1 \in -1 .. serial /\ top \in -1 .. serial /\ 1 \in Nat
      BY <1>1, <1>2
    <3>4. Grown(tree', -fresh' .. serial)
      <4>1. Grown(restored, -0 .. serial) /\ top \in -0 .. serial /\ "assistant" \in Roles /\ 0 \in Nat
        BY <1>2 DEF Roles
      <4>2. Grown(AddNode(restored, -(0 + 1), top, "assistant"), -(0 + 1) .. serial)
        BY <1>1, <4>1, NewNode
      <4>3. -(0 + 1) = -1
        OBVIOUS
      <4>4. QED
        BY <3>1, <4>2, <4>3
    <3>5. LegFits(leg', Len(turns), fresh', serial)
      BY <1>1, <3>1, <3>2, <3>3, LegMade
    <3>6. TurnsFit(turns', serial) /\ Len(turns') = Len(turns)
      <4> DEFINE g == [j \in DOMAIN turns |-> IF j = k THEN -1 ELSE None]
      <4>1. \A j \in DOMAIN turns : g[j] = (IF j = k THEN -1 ELSE None) /\ g[j] \in Int
        BY DEF None
      <4>2. turns' = [j \in DOMAIN turns |-> [turns[j] EXCEPT !.node = g[j]]]
        BY <3>1, <4>1
      <4> HIDE DEF g
      <4>3. QED
        BY <1>1, <4>1, <4>2, NodesGiven
    <3>7. QED
      BY <3>1, <3>3, <3>4, <3>5, <3>6
  <2>3. QED
    BY <2>1, <2>2
<1>5. DelFits(del', fresh', serial) /\ del'.todo = del.todo
  <2>1. CASE del.pc = "deleting"
    <3>1. del' = [pc |-> del.pc, node |-> None, target |-> del.target, todo |-> del.todo,
                  chain |-> del.chain, snapshot |-> del.snapshot]
      <4>1. del = [pc |-> del.pc, node |-> del.node, target |-> del.target, todo |-> del.todo,
                   chain |-> del.chain, snapshot |-> del.snapshot]
        BY <1>1, DelFacts
      <4>2. QED
        BY <1>3, <2>1, <4>1
    <3>2. /\ del.target \in 0 .. serial /\ del.todo \in SUBSET (1 .. serial)
          /\ del.pc \in {"none", "resolving", "asking", "deleting"} /\ None \in -fresh' .. serial
      BY <1>1, <1>4, DelFacts DEF None
    <3>3. (del.pc \in {"resolving", "asking"} => None # None) /\ (del.pc # "deleting" => del.todo = {})
      BY <2>1
    <3>4. DelFits(del', fresh', serial)
      BY ONLY <1>1, <1>4, <3>1, <3>2, <3>3, DelMade
    <3>5. QED
      BY <3>1, <3>4
  <2>2. CASE del.pc # "deleting"
    <3>1. del' = NoDelete /\ del.todo = {}
      BY <1>1, <1>3, <2>2, DelFacts
    <3>2. QED
      BY <1>1, <1>4, <3>1, NoDeleteFits
  <2>3. QED
    BY <2>1, <2>2
<1>6. Adopted(rows', del'.todo, loose') /\ Sunk(rows', del'.todo, loose')
  BY <1>1, <1>3, <1>5
<1>7. Counts'
  <2>1. reloads \in 0 .. MaxReloads /\ MaxReloads \in Nat
    BY Bounds DEF CInv, Counts
  <2>2. reloads' \in 0 .. MaxReloads
    BY <1>3, <2>1
  <2>3. QED
    BY <1>3, <1>4, <2>2 DEF CInv, Counts
<1>8. QED
  BY <1>1, <1>3, <1>4, <1>5, <1>6, <1>7 DEF CInv

\* The state the page opens in.
LEMMA InitKeeps == ASSUME Init PROVE CInv
<1>1. PICK m \in Imported : rows = ImportedRows(m) /\ serial = m
  BY DEF Init
<1>2. serial \in Nat
  BY <1>1, Bounds
<1>3. RowsFit(rows, serial) /\ \A r \in Range(rows) : r.role = "assistant" => r.parent # None
  BY <1>1, <1>2, ImportedFits
<1>4. /\ tree = Restored(FirstPage) /\ fresh = 0 /\ leg = NoLeg /\ turns = << >> /\ del = NoDelete
      /\ deletes = 0 /\ reloads = 0 /\ faults = 0 /\ tangled = FALSE /\ loose = {}
  BY DEF Init
<1>5. Grown(tree, -fresh .. serial)
  <2>1. Grown(Restored(FirstPage), 0 .. serial)
    <3>1. Len(rows) \in Nat /\ Page \in Nat
      BY <1>3, Bounds DEF RowsFit
    <3> DEFINE n == IF Len(rows) < Page THEN Len(rows) ELSE Page
    <3>2. n \in Nat /\ n <= Len(rows)
      BY <3>1
    <3>3. FirstPage = SubSeq(rows, 1, n)
      BY DEF FirstPage, Oldest
    <3> HIDE DEF n
    <3>4. RowsFit(FirstPage, serial)
      BY <1>2, <1>3, <3>2, <3>3, PageFits
    <3>5. QED
      BY <1>2, <3>4, RestoredIsGrown
  <2>2. -fresh .. serial = 0 .. serial
    BY <1>2, <1>4
  <2>3. QED
    BY <1>4, <2>1, <2>2
<1>6. TurnsFit(turns, serial) /\ Len(turns) = 0 /\ Len(turns) \in Nat
  BY <1>4 DEF TurnsFit
<1>7. LegFits(leg, Len(turns), fresh, serial)
  BY <1>2, <1>4, <1>6, NoLegFits
<1>8. DelFits(del, fresh, serial) /\ del.todo = {}
  BY <1>2, <1>4, NoDeleteFits
<1>9. Adopted(rows, del.todo, loose) /\ Sunk(rows, del.todo, loose)
  BY <1>3, <1>8 DEF Adopted, Sunk
<1>10. Counts
  <2>1. 0 \in 0 .. MaxDeletes /\ 0 \in 0 .. MaxReloads /\ 0 \in 0 .. MaxFaults
    BY Bounds
  <2>2. QED
    BY <1>2, <1>4, <2>1 DEF Counts
<1>11. QED
  BY <1>3, <1>5, <1>6, <1>7, <1>8, <1>9, <1>10 DEF CInv

\* One step of the whole system.
LEMMA NextKeeps == ASSUME CInv, [Next]_vars PROVE CInv'
<1>1. CASE UNCHANGED vars
  <2>1. UNCHANGED <<tree, fresh, leg, reloads, del, deletes, rows, serial, turns, faults, tangled, loose>>
    BY <1>1 DEF vars, client, server, ghosts
  <2>2. Counts'
    BY <2>1 DEF CInv, Counts
  <2>3. QED
    BY <2>1, <2>2 DEF CInv
<1>2. CASE User
  <2>1. CASE Send
    BY <2>1, SendKeeps
  <2>2. CASE \E id \in OnScreen : Edit(id) \/ Regenerate(id) \/ Delete(id)
    BY <2>2, EditKeeps, RegenerateKeeps, DeleteKeeps
  <2>3. CASE \E id \in OnScreen, d \in {-1, 1} : SwitchBranch(id, d)
    BY <2>3, SwitchKeeps
  <2>4. CASE Reload
    BY <2>4, ReloadKeeps
  <2>5. QED
    BY <1>2, <2>1, <2>2, <2>3, <2>4 DEF User
<1>3. CASE \E saved \in BOOLEAN : Post(saved) \/ PostFails(saved)
  BY <1>3, PostKeeps, PostFailsKeeps
<1>4. CASE \E i \in DOMAIN turns : Answering(i)
  <2>1. PICK i \in DOMAIN turns : Answering(i)
    BY <1>4
  <2>2. CASE MessageStart(i)
    BY <2>2, MessageStartKeeps
  <2>3. CASE Stop(i)
    BY <2>3, StopKeeps
  <2>4. CASE TurnFails(i)
    BY <2>4, TurnFailsKeeps
  <2>5. CASE \E ok \in BOOLEAN : Persist(i, ok)
    BY <2>5, PersistKeeps
  <2>6. QED
    BY <2>1, <2>2, <2>3, <2>4, <2>5 DEF Answering
<1>5. CASE LoseStream \/ ResumeRefused
  BY <1>5, LoseStreamKeeps, ResumeRefusedKeeps
<1>6. CASE Deletion
  <2>1. CASE Resolve
    BY <2>1, ResolveKeeps
  <2>2. CASE Prepare
    BY <2>2, PrepareKeeps
  <2>3. CASE Deleted
    BY <2>3, DeletedKeeps
  <2>4. CASE DeleteFails
    BY <2>4, DeleteFailsKeeps
  <2>5. CASE LoseReply
    BY <2>5, LoseReplyKeeps
  <2>6. CASE \E id \in del.todo : DeleteRow(id)
    BY <2>6, DeleteRowKeeps
  <2>7. QED
    BY <1>6, <2>1, <2>2, <2>3, <2>4, <2>5, <2>6 DEF Deletion
<1>7. QED
  BY <1>1, <1>2, <1>3, <1>4, <1>5, <1>6 DEF Next

\* A grown tree is well typed.
LEMMA GrownIsTyped ==
  ASSUME NEW t, NEW f \in Nat, Grown(t, -f .. serial)
  PROVE  TreeOK(t, f)
<1> DEFINE K == -f .. serial
<1> HIDE DEF K
<1>1. /\ t.role \in [DOMAIN t.role -> Roles] /\ DOMAIN t.role \subseteq K \ {0}
      /\ t.parent \in [DOMAIN t.role -> K]
      /\ t.children \in [DOMAIN t.children -> Seq(DOMAIN t.role)]
      /\ t.active \in [DOMAIN t.children -> DOMAIN t.role]
  BY DEF Grown, Forest, K
<1>2. Range(t.parent) \subseteq K
  <2>1. DOMAIN t.parent = DOMAIN t.role /\ \A x \in DOMAIN t.parent : t.parent[x] \in K
    BY <1>1
  <2>2. QED
    BY <2>1 DEF Range
<1>3. Range(t.active) \subseteq K
  <2>1. \A x \in DOMAIN t.active : t.active[x] \in K
    BY <1>1
  <2>2. QED
    BY <2>1 DEF Range
<1>4. ASSUME NEW k \in DOMAIN t.children PROVE Range(t.children[k]) \subseteq K
  <2>1. t.children[k] \in Seq(DOMAIN t.role)
    BY <1>1
  <2>2. \A i \in DOMAIN t.children[k] : t.children[k][i] \in K
    <3> DEFINE s == t.children[k]
               R == DOMAIN t.role
    <3>1. s \in Seq(R) /\ R \subseteq K
      BY <1>1, <2>1
    <3> HIDE DEF s, R
    <3>2. \A i \in DOMAIN s : s[i] \in K
      BY <3>1
    <3>3. QED
      BY <3>2 DEF s
  <2>3. QED
    BY <2>2 DEF Range
<1>5. QED
  BY <1>1, <1>2, <1>3, <1>4 DEF TreeOK, K

\* The invariant holds in every state.
THEOREM InductiveInvariant == Spec => []CInv
<1>1. Init => CInv
  BY InitKeeps
<1>2. CInv /\ [Next]_vars => CInv'
  BY NextKeeps
<1>3. QED
  BY <1>1, <1>2, PTL DEF Spec

\* However long the conversation and however many turns, branches, deletions,
\* reloads and failures there are, the state is well typed.
THEOREM TypeCorrect == Spec => []TypeOK
<1>1. CInv => TypeOK
  <2> SUFFICES ASSUME CInv PROVE TypeOK
    OBVIOUS
  <2>1. /\ fresh \in Nat /\ serial \in Nat /\ Len(turns) \in Nat /\ RowsFit(rows, serial)
        /\ TurnsFit(turns, serial) /\ LegFits(leg, Len(turns), fresh, serial)
        /\ Grown(tree, -fresh .. serial) /\ DelFits(del, fresh, serial) /\ Counts
    BY Parts DEF CInv
  <2>2. TreeOK(tree, fresh)
    BY <2>1, GrownIsTyped
  <2>3. del.node # None => TreeOK(del.snapshot, fresh)
    BY <2>1, DelFacts, GrownIsTyped
  <2>4. /\ fresh \in Nat /\ deletes \in 0 .. MaxDeletes /\ reloads \in 0 .. MaxReloads
        /\ faults \in 0 .. MaxFaults /\ tangled \in BOOLEAN /\ loose \subseteq 1 .. serial
    BY <2>1 DEF Counts
  <2>5. /\ leg.pc \in {"idle", "posting", "streaming", "resuming"} /\ leg.turn \in 0 .. Len(turns)
        /\ leg.prompt \in -fresh .. serial /\ leg.node \in -fresh .. serial
    BY <2>1, LegFacts
  <2>6. /\ del.pc \in {"none", "resolving", "asking", "deleting"} /\ del.node \in -fresh .. serial
        /\ del.target \in 0 .. serial /\ del.todo \subseteq 0 .. serial
    <3>1. 1 .. serial \subseteq 0 .. serial
      BY <2>1
    <3>2. QED
      BY <2>1, <3>1, DelFacts
  <2>7. \A r \in Range(rows) : r.id \in 1 .. serial /\ r.role \in Roles /\ r.parent \in 0 .. serial
    BY <2>1, RowFacts
  <2>8. \A i \in DOMAIN turns : turns[i].phase \in Phases /\ turns[i].legs \in 0 .. MaxLegs
    BY <2>1, TurnFacts
  <2>9. {leg.prompt, leg.node, del.node} \subseteq -fresh .. serial
        /\ {del.target} \union del.todo \subseteq 0 .. serial
    <3> HIDE DEF None
    <3>1. QED
      BY <2>5, <2>6
  <2>10. QED
    BY <2>2, <2>3, <2>4, <2>5, <2>6, <2>7, <2>8, <2>9 DEF TypeOK
<1>2. QED
  BY <1>1, InductiveInvariant, PTL

\* The four maps of the client's tree always agree and no message is its own
\* ancestor, for trees of any size (useSessionStream.ts, addNode, deleteMessage
\* and its roll-back).
THEOREM TreeStaysConsistent == Spec => []TreeIsConsistent
<1>1. CInv => TreeIsConsistent
  <2> SUFFICES ASSUME CInv PROVE TreeIsConsistent
    OBVIOUS
  <2>1. Grown(tree, -fresh .. serial) /\ IsFiniteSet(-fresh .. serial) /\ -fresh .. serial \subseteq Int
    BY Parts DEF CInv
  <2>2. QED
    BY <2>1, GrownIsConsistent DEF TreeIsConsistent
<1>2. QED
  BY <1>1, InductiveInvariant, PTL

\* The deletion of a prompt leaves no answer behind but those that NoOrphans
\* names, each for its reason: its prompt was not saved, or was waiting for its
\* deletion when the answer came, or the handler's limited listing or failure
\* kept it from the answer (routes/sessions.ts, DELETE /:id/messages/:messageId).
THEOREM NoAnswerIsOrphaned == Spec => []NoOrphans
<1>1. CInv => NoOrphans
  BY DEF CInv, Adopted, NoOrphans
<1>2. QED
  BY <1>1, InductiveInvariant, PTL

-----------------------------------------------------------------------------
(* rows that were only ever appended, and how many hang under a row        *)

(* No row is missing: the k-th has number k.                               *)
Straight(rs, b) == RowsFit(rs, b) /\ Len(rs) = b /\ \A k \in 1 .. b : rs[k].id = k

(* How many of the first k rows hang under p.                              *)
Count(rs, p, k) == Cardinality({j \in 1 .. k : rs[j].parent = p})

\* What is in such rows.
LEMMA StraightFacts ==
  ASSUME NEW b \in Nat, NEW rs, Straight(rs, b)
  PROVE  /\ Len(rs) = b /\ DOMAIN rs = 1 .. b /\ RowsFit(rs, b)
         /\ \A k \in 1 .. b : /\ rs[k] \in RowOf(b) /\ rs[k].id = k
                              /\ rs[k].parent \in 0 .. b /\ rs[k].parent < k
<1>1. RowsFit(rs, b) /\ Len(rs) = b /\ \A k \in 1 .. b : rs[k].id = k
  BY DEF Straight
<1>2. rs \in Seq(RowOf(b)) /\ \A i \in DOMAIN rs : rs[i].parent < rs[i].id
  BY <1>1 DEF RowsFit
<1>3. DOMAIN rs = 1 .. b /\ \A k \in 1 .. b : rs[k] \in RowOf(b)
  BY <1>1, <1>2
<1>4. \A k \in 1 .. b : rs[k].parent \in 0 .. b
  BY <1>3 DEF RowOf
<1>5. \A k \in 1 .. b : rs[k].parent < k
  BY <1>1, <1>2, <1>3
<1>6. QED
  BY <1>1, <1>3, <1>4, <1>5

\* One more row.
LEMMA StraightInserted ==
  ASSUME NEW b \in Nat, NEW rs, Straight(rs, b), NEW p \in 0 .. b, NEW r \in Roles, NEW us,
         us = Inserted(rs, b + 1, r, p)
  PROVE  /\ Straight(us, b + 1) /\ us[b + 1].parent = p
         /\ \A k \in 1 .. b : us[k] = rs[k]
<1> DEFINE x == [id |-> b + 1, role |-> r, parent |-> p]
<1>1. us = Append(rs, x)
  BY DEF Inserted
<1>2. Len(rs) = b /\ DOMAIN rs = 1 .. b /\ RowsFit(rs, b) /\ \A k \in 1 .. b : rs[k].id = k
  BY StraightFacts
<1>3. RowsFit(us, b + 1)
  BY <1>2, InsertedFits
<1>4. rs \in Seq(RowOf(b))
  BY <1>2 DEF RowsFit
<1>5. x.id = b + 1 /\ x.parent = p
  OBVIOUS
<1> HIDE DEF x
<1>6. Len(us) = b + 1 /\ us[b + 1] = x /\ \A k \in 1 .. b : us[k] = rs[k]
  BY <1>1, <1>2, <1>4
<1>7. \A k \in 1 .. b + 1 : us[k].id = k
  <2>1. \A k \in 1 .. b + 1 : k \in 1 .. b \/ k = b + 1
    OBVIOUS
  <2>2. QED
    BY <1>2, <1>5, <1>6, <2>1
<1>8. Straight(us, b + 1)
  BY <1>3, <1>6, <1>7 DEF Straight
<1>9. QED
  BY <1>5, <1>6, <1>8

\* Each row counts once.
LEMMA CountFacts ==
  ASSUME NEW rs, NEW p, NEW k \in Nat
  PROVE  /\ Count(rs, p, 0) = 0 /\ Count(rs, p, k) \in Nat
         /\ Count(rs, p, k + 1) = Count(rs, p, k) + (IF rs[k + 1].parent = p THEN 1 ELSE 0)
<1> DEFINE S(n) == {j \in 1 .. n : rs[j].parent = p}
<1>1. IsFiniteSet(S(k)) /\ Cardinality(S(k)) \in Nat
  <2>1. S(k) \subseteq 1 .. k /\ IsFiniteSet(1 .. k)
    BY FS_Interval
  <2>2. QED
    BY <2>1, FS_Subset, FS_CardinalityType
<1>2. S(0) = {}
  OBVIOUS
<1>3. CASE rs[k + 1].parent = p
  <2>1. S(k + 1) = S(k) \cup {k + 1} /\ k + 1 \notin S(k)
    BY <1>3
  <2> HIDE DEF S
  <2>2. Cardinality(S(k + 1)) = Cardinality(S(k)) + 1
    BY <1>1, <2>1, FS_AddElement
  <2>3. QED
    BY <1>1, <1>2, <1>3, <2>2, FS_EmptySet DEF Count, S
<1>4. CASE rs[k + 1].parent # p
  <2>1. S(k + 1) = S(k)
    <3>1. \A j \in 1 .. k + 1 : j \in 1 .. k \/ j = k + 1
      OBVIOUS
    <3>2. \A j \in 1 .. k : j \in 1 .. k + 1
      OBVIOUS
    <3>3. QED
      BY <1>4, <3>1, <3>2
  <2> HIDE DEF S
  <2>2. Cardinality(S(k + 1)) = Cardinality(S(k)) + 0
    BY <1>1, <2>1
  <2>3. QED
    BY <1>1, <1>2, <1>4, <2>2, FS_EmptySet DEF Count, S
<1>5. QED
  BY <1>3, <1>4

\* The later of two rows under p has the greater number among them.
LEMMA CountRises ==
  ASSUME NEW rs, NEW p, NEW i \in Nat, NEW k \in Nat, i < k, rs[k].parent = p
  PROVE  Count(rs, p, i) < Count(rs, p, k)
<1> DEFINE S(n) == {j \in 1 .. n : rs[j].parent = p}
<1>1. IsFiniteSet(S(k))
  <2>1. S(k) \subseteq 1 .. k /\ IsFiniteSet(1 .. k)
    BY FS_Interval
  <2>2. QED
    BY <2>1, FS_Subset
<1>2. S(i) \subseteq S(k) /\ k \in S(k) /\ k \notin S(i)
  OBVIOUS
<1> HIDE DEF S
<1>3. IsFiniteSet(S(i)) /\ Cardinality(S(i)) < Cardinality(S(k))
  <2>1. S(i) # S(k)
    BY <1>2
  <2>2. Cardinality(S(i)) <= Cardinality(S(k)) /\ Cardinality(S(i)) # Cardinality(S(k))
    BY <1>1, <1>2, <2>1, FS_Subset
  <2>3. Cardinality(S(i)) \in Nat /\ Cardinality(S(k)) \in Nat
    BY <1>1, <1>2, FS_Subset, FS_CardinalityType
  <2>4. QED
    BY <1>1, <1>2, <2>2, <2>3, FS_Subset
<1>4. QED
  BY <1>3 DEF Count, S

\* The count looks at the first k rows only.
LEMMA CountOfAgreeing ==
  ASSUME NEW rs, NEW us, NEW p, NEW k \in Nat, \A j \in 1 .. k : us[j] = rs[j]
  PROVE  Count(us, p, k) = Count(rs, p, k)
<1>1. {j \in 1 .. k : us[j].parent = p} = {j \in 1 .. k : rs[j].parent = p}
  OBVIOUS
<1>2. QED
  BY <1>1 DEF Count

\* The first row under p.
LEMMA CountOfFirst ==
  ASSUME NEW rs, NEW p, NEW k \in Nat, \A j \in 1 .. k : rs[j].parent # p, rs[k + 1].parent = p
  PROVE  Count(rs, p, k + 1) = 1
<1>1. {j \in 1 .. k : rs[j].parent = p} = {}
  OBVIOUS
<1>2. Count(rs, p, k) = 0
  BY <1>1, FS_EmptySet DEF Count
<1>3. QED
  BY <1>2, CountFacts

-----------------------------------------------------------------------------
(* where the walks end *)

\* A path of n keys and the root that start edges has no more than n edges.
LEMMA NoRoom ==
  ASSUME NEW D, IsFiniteSet(D), NEW N \in Nat, Cardinality(D) <= N,
         NEW f, f \in [0 .. N -> D], IsInjective(f)
  PROVE  FALSE
<1>1. IsFiniteSet(0 .. N) /\ Cardinality(0 .. N) = N + 1
  <2>1. 0 \in Int /\ N \in Int /\ ~(0 > N)
    OBVIOUS
  <2>2. IsFiniteSet(0 .. N) /\ Cardinality(0 .. N) = N - 0 + 1
    BY <2>1, FS_Interval
  <2>3. QED
    BY <2>2
<1>2. Cardinality(D) < Cardinality(0 .. N)
  BY <1>1, FS_CardinalityType
<1>3. \E x, y \in 0 .. N : x # y /\ f[x] = f[y]
  BY <1>1, <1>2, FS_PigeonHole
<1>4. QED
  BY <1>3 DEF IsInjective

\* What rises is continued downwards.
LEMMA RisingExtends ==
  ASSUME NEW K, K \subseteq Int, NEW s \in Rising(K), NEW x \in K \ {0},
         s # << >> => Above(s[Len(s)], x)
  PROVE  Append(s, x) \in Rising(K)
<1> DEFINE u == Append(s, x)
<1>1. s \in Seq(K \ {0}) /\ \A i, j \in DOMAIN s : i < j => Above(s[i], s[j])
  BY DEF Rising
<1>2. /\ u \in Seq(K \ {0}) /\ Len(s) \in Nat /\ Len(u) = Len(s) + 1 /\ DOMAIN u = 1 .. Len(s) + 1
      /\ DOMAIN s = 1 .. Len(s) /\ u[Len(s) + 1] = x /\ \A i \in 1 .. Len(s) : u[i] = s[i]
  BY <1>1
<1> HIDE DEF u
<1>3. ASSUME NEW i \in DOMAIN u, NEW j \in DOMAIN u, i < j PROVE Above(u[i], u[j])
  <2>1. i \in 1 .. Len(s) /\ u[i] = s[i] /\ s # << >>
    BY <1>1, <1>2, <1>3
  <2>2. CASE j \in 1 .. Len(s)
    BY <1>1, <1>2, <1>3, <2>1, <2>2
  <2>3. CASE j = Len(s) + 1
    <3>1. u[j] = x /\ Above(s[Len(s)], x) /\ Len(s) \in DOMAIN s
      BY <1>2, <2>1, <2>3
    <3>2. CASE i = Len(s)
      BY <2>1, <3>1, <3>2
    <3>3. CASE i # Len(s)
      <4>1. Above(s[i], s[Len(s)])
        BY <1>1, <1>2, <2>1, <3>1, <3>3
      <4>2. s[i] \in Int /\ s[Len(s)] \in Int /\ x \in Int
        <5>1. \A k \in 1 .. Len(s) : s[k] \in K
          BY <1>1, <1>2
        <5>2. i \in 1 .. Len(s) /\ Len(s) \in 1 .. Len(s)
          BY <1>2, <2>1, <3>1
        <5>3. QED
          BY <5>1, <5>2
      <4>3. QED
        BY <2>1, <3>1, <4>1, <4>2, AboveIsTransitive
    <3>4. QED
      BY <3>2, <3>3
  <2>4. QED
    BY <1>2, <2>2, <2>3
<1>4. u \in Rising(K)
  BY <1>2, <1>3 DEF Rising
<1>5. QED
  BY <1>4 DEF u

\* The active path of a grown tree ends at a leaf, and is empty only in a tree
\* with nothing under the root.
LEMMA TipIsLeaf ==
  ASSUME NEW t, NEW K, IsFiniteSet(K), K \subseteq Int, Grown(t, K)
  PROVE  /\ Tip(t) \notin DOMAIN t.children
         /\ Tip(t) # None => Root \in DOMAIN t.children
<1> DEFINE D == DOMAIN t.active
           N == Cardinality(D)
           end(s) == IF s = << >> THEN 0 ELSE Last(s)
           next(s) == ActiveOf(t, end(s))
           on(s) == IF next(s) \in Nodes(t) THEN Append(s, next(s)) ELSE s
           Good(s) == /\ \A i \in 1 .. Len(s) - 1 : s[i] \in D
                      /\ s # << >> => 0 \in D
           V == {s \in Rising(K) : Good(s)}
           G == [a \in (1 .. N) \X V |-> on(a[2])]
           W == CHOOSE f : f = [n \in 0 .. N |-> IF n = 0 THEN << >> ELSE on(f[n - 1])]
<1>1. Path(t) = W[N]
  BY DEF Path, PathFrom, Root
<1>2. /\ DOMAIN t.children = D /\ D \subseteq K /\ IsFiniteSet(D) /\ N \in Nat
      /\ \A x \in D : t.active[x] \in Nodes(t)
      /\ \A x \in D : t.parent[t.active[x]] = x
      /\ Nodes(t) \subseteq K \ {0}
      /\ \A x \in Nodes(t) : Above(t.parent[x], x)
  <2>1. /\ DOMAIN t.children = D /\ D \subseteq K
        /\ Nodes(t) \subseteq K \ {0}
        /\ \A x \in Nodes(t) : Above(t.parent[x], x)
    BY DEF Grown, Forest, Nodes
  <2>2. ASSUME NEW x \in D PROVE t.active[x] \in Nodes(t) /\ t.parent[t.active[x]] = x
    BY <2>1 DEF Grown, Forest, Nodes
  <2>3. IsFiniteSet(D) /\ N \in Nat
    BY <2>1, FS_Subset, FS_CardinalityType
  <2>4. QED
    BY <2>1, <2>2, <2>3
<1> HIDE DEF N, D
<1>3. ASSUME NEW s \in V PROVE on(s) \in V
  <2>1. s \in Rising(K) /\ s \in Seq(K \ {0})
    BY DEF Rising
  <2>2. CASE next(s) \notin Nodes(t)
    BY <2>2
  <2>3. CASE next(s) \in Nodes(t)
    <3> DEFINE x == next(s)
               e == end(s)
    <3>1. x # 0 /\ x \in K \ {0}
      BY <1>2, <2>3
    <3>2. e \in D /\ x = t.active[e]
      BY <3>1 DEF ActiveOf, Lookup, None, D
    <3>3. Above(e, x)
      BY <1>2, <2>3, <3>2
    <3>4. s # << >> => e = s[Len(s)]
      BY <2>1 DEF Last
    <3>5. s = << >> => e = 0
      OBVIOUS
    <3>6. on(s) = Append(s, x)
      BY <2>3
    <3>7. Good(s)
      OBVIOUS
    <3> HIDE DEF x, e, on, Good
    <3>8. Append(s, x) \in Rising(K)
      BY <2>1, <3>1, <3>3, <3>4, RisingExtends
    <3>9. Good(Append(s, x))
      <4> DEFINE u == Append(s, x)
      <4>1. /\ Len(s) \in Nat /\ Len(u) = Len(s) + 1 /\ \A i \in 1 .. Len(s) : u[i] = s[i]
        BY <2>1
      <4>2. s # << >> => Len(s) \in 1 .. Len(s)
        BY <2>1
      <4>3. (\A i \in 1 .. Len(s) - 1 : s[i] \in D) /\ (s # << >> => 0 \in D)
        BY <3>7 DEF Good
      <4> HIDE DEF u
      <4>4. ASSUME NEW i \in 1 .. Len(u) - 1 PROVE u[i] \in D
        <5>1. i \in 1 .. Len(s) /\ u[i] = s[i]
          BY <4>1
        <5>2. CASE i = Len(s)
          <6>1. s # << >>
            BY <2>1, <5>1
          <6>2. QED
            BY <3>2, <3>4, <5>1, <5>2, <6>1
        <5>3. CASE i # Len(s)
          <6>1. i \in 1 .. Len(s) - 1
            BY <4>1, <5>1, <5>3
          <6>2. QED
            BY <4>3, <5>1, <6>1
        <5>4. QED
          BY <5>2, <5>3
      <4>5. 0 \in D
        BY <3>2, <3>5, <4>3
      <4>6. QED
        BY <4>4, <4>5 DEF Good, u
    <3>10. QED
      BY <3>6, <3>8, <3>9 DEF Good
  <2>4. QED
    BY <2>2, <2>3
<1>4. << >> \in V
  <2>1. << >> \in Rising(K)
    BY DEF Rising
  <2>2. 1 .. Len(<< >>) - 1 = {}
    OBVIOUS
  <2>3. QED
    BY <2>1, <2>2
<1>5. \A s \in V : s \in Seq(K \ {0}) /\ s \in Rising(K) /\ Good(s)
  BY DEF Rising
<1> HIDE DEF V, on, end, next, Good
<1>6. G \in [(1 .. N) \X V -> V] /\ \A n \in 1 .. N, s \in V : G[<<n, s>>] = on(s)
  BY <1>3
<1> HIDE DEF G
<1>7. PICK h : Iterates(h, G, << >>, N, V)
  BY <1>2, <1>4, <1>6, Repeated
<1>8. h \in [0 .. N -> V] /\ h[0] = << >> /\ \A n \in 1 .. N : h[n] = G[<<n, h[n - 1]>>]
  BY <1>7 DEF Iterates
<1>9. h = [n \in 0 .. N |-> IF n = 0 THEN << >> ELSE on(h[n - 1])]
  <2>1. ASSUME NEW n \in 0 .. N PROVE h[n] = IF n = 0 THEN << >> ELSE on(h[n - 1])
    <3>1. CASE n = 0
      BY <1>8, <3>1
    <3>2. CASE n # 0
      <4>1. n \in 1 .. N /\ n - 1 \in 0 .. N
        BY <1>2, <3>2
      <4>2. h[n - 1] \in V
        BY <1>8, <4>1
      <4>3. h[n] = on(h[n - 1])
        BY <1>6, <1>8, <4>1, <4>2
      <4>4. QED
        BY <3>2, <4>3
    <3>3. QED
      BY <3>1, <3>2
  <2>2. h = [n \in 0 .. N |-> h[n]]
    BY <1>8
  <2>3. QED
    BY <2>1, <2>2
<1>10. W = [n \in 0 .. N |-> IF n = 0 THEN << >> ELSE on(W[n - 1])]
  BY <1>9, Zenon
<1> HIDE DEF W
<1> DEFINE T == {n \in 0 .. N : W[n] \in V /\ (Len(W[n]) = n \/ next(W[n]) \notin Nodes(t))}
<1>11. 0 \in T
  <2>1. 0 \in 0 .. N
    BY <1>2
  <2>2. W[0] = << >>
    BY <1>10, <2>1
  <2>3. QED
    BY <1>4, <2>1, <2>2
<1>12. ASSUME NEW n \in 1 .. N, n - 1 \in T PROVE n \in T
  <2> DEFINE s == W[n - 1]
  <2>1. n \in 0 .. N /\ n # 0
    BY <1>2
  <2>2. W[n] = on(s)
    BY <1>10, <2>1
  <2>3. s \in V /\ (Len(s) = n - 1 \/ next(s) \notin Nodes(t))
    BY <1>12
  <2> HIDE DEF s
  <2>4. W[n] \in V
    BY <1>3, <2>2, <2>3
  <2>5. CASE next(s) \notin Nodes(t)
    <3>1. W[n] = s
      BY <2>2, <2>5 DEF on
    <3>2. QED
      BY <2>1, <2>4, <2>5, <3>1
  <2>6. CASE next(s) \in Nodes(t)
    <3>1. W[n] = Append(s, next(s)) /\ Len(s) = n - 1 /\ s \in Seq(K \ {0})
      BY <1>5, <2>2, <2>3, <2>6 DEF on
    <3>2. Len(W[n]) = n
      BY <3>1
    <3>3. QED
      BY <2>1, <2>4, <3>2
  <2>7. QED
    BY <2>5, <2>6
<1>13. N \in T
  <2> HIDE DEF T
  <2>1. 0 .. N \subseteq T
    BY <1>2, <1>11, <1>12, UpTo
  <2>2. QED
    BY <1>2, <2>1
<1> DEFINE s == W[N]
           e == end(s)
<1>14. s \in Rising(K) /\ s \in Seq(K \ {0}) /\ Good(s) /\ (Len(s) = N \/ next(s) \notin Nodes(t))
  BY <1>5, <1>13
<1>15. Tip(t) = e
  BY <1>1 DEF Tip, None, end
<1> HIDE DEF s, e
<1>16. e \notin D
  <2> SUFFICES ASSUME e \in D PROVE FALSE
    OBVIOUS
  <2>1. next(s) \in Nodes(t)
    BY <1>2 DEF next, e, ActiveOf, Lookup, D
  <2>2. Len(s) = N /\ DOMAIN s = 1 .. N
    BY <1>14, <2>1
  <2> DEFINE f == [i \in 0 .. N |-> IF i = 0 THEN 0 ELSE s[i]]
  <2>3. \A i \in 1 .. N : s[i] \in D
    <3>1. N # 0 => s[N] \in D
      <4>1. N # 0 => s # << >>
        BY <2>2
      <4>2. N # 0 => e = s[N]
        BY <1>14, <2>2, <4>1 DEF e, end, Last
      <4>3. QED
        BY <4>2
    <3>2. \A i \in 1 .. N - 1 : s[i] \in D
      BY <1>14, <2>2 DEF Good
    <3>3. \A i \in 1 .. N : i \in 1 .. N - 1 \/ (i = N /\ N # 0)
      BY <1>2
    <3>4. QED
      BY <3>1, <3>2, <3>3
  <2>4. 0 \in D
    <3>1. CASE N = 0
      <4>1. s = << >>
        BY <1>14, <2>2, <3>1
      <4>2. e = 0
        BY <4>1 DEF e, end
      <4>3. QED
        BY <4>2
    <3>2. CASE N # 0
      <4>1. s # << >>
        BY <2>2, <3>2
      <4>2. QED
        BY <1>14, <4>1 DEF Good
    <3>3. QED
      BY <3>1, <3>2
  <2>5. f \in [0 .. N -> D]
    <3>1. ASSUME NEW i \in 0 .. N PROVE (IF i = 0 THEN 0 ELSE s[i]) \in D
      <4>1. i = 0 \/ i \in 1 .. N
        BY <1>2
      <4>2. QED
        BY <2>3, <2>4, <4>1
    <3>2. QED
      BY <3>1
  <2>6. IsInjective(f)
    <3>1. IsInjective(s) /\ 0 \notin Range(s)
      BY <1>14, RisingIsInjective DEF Root
    <3>2. \A i \in 1 .. N : s[i] # 0
      BY <2>2, <3>1 DEF Range
    <3>3. \A i, j \in 1 .. N : s[i] = s[j] => i = j
      BY <2>2, <3>1 DEF IsInjective
    <3>4. DOMAIN f = 0 .. N
      OBVIOUS
    <3>5. ASSUME NEW i \in 0 .. N, NEW j \in 0 .. N, f[i] = f[j] PROVE i = j
      <4>1. (i = 0 \/ i \in 1 .. N) /\ (j = 0 \/ j \in 1 .. N)
        BY <1>2
      <4>2. f[i] = (IF i = 0 THEN 0 ELSE s[i]) /\ f[j] = (IF j = 0 THEN 0 ELSE s[j])
        OBVIOUS
      <4> HIDE DEF f
      <4>3. QED
        BY <3>2, <3>3, <3>5, <4>1, <4>2
    <3> HIDE DEF f
    <3>6. QED
      BY <3>4, <3>5 DEF IsInjective
  <2> HIDE DEF f
  <2>7. Cardinality(D) <= N
    BY <1>2 DEF N
  <2>8. QED
    BY <1>2, <2>5, <2>6, <2>7, NoRoom
<1>17. e # 0 => 0 \in D
  BY <1>14 DEF e, end, Good
<1>18. QED
  BY <1>2, <1>15, <1>16, <1>17 DEF None, Root

\* The chain of a node ends at the node, each key before is the parent of the
\* next, and nothing is above the first.
LEMMA ChainIsWhole ==
  ASSUME NEW t, NEW K, IsFiniteSet(K), K \subseteq Int, Grown(t, K), NEW id \in Nodes(t)
  PROVE  LET c == Chain(t, id)
         IN /\ c \in Seq(Int) /\ c # << >> /\ c[Len(c)] = id
            /\ Lookup(t.parent, c[1], Root) = Root
            /\ \A i \in 2 .. Len(c) : Lookup(t.parent, c[i], Root) = c[i - 1]
<1> DEFINE D == DOMAIN t.parent
           N == Cardinality(D) + 1
           next(s) == IF s = << >> THEN id ELSE Lookup(t.parent, Head(s), None)
           on(s) == IF next(s) = None THEN s ELSE <<next(s)>> \o s
           Linked(s) == s # << >> => /\ s[Len(s)] = id
                                     /\ \A i \in 2 .. Len(s) : s[i] \in D /\ t.parent[s[i]] = s[i - 1]
           V == {s \in Rising(K) : Linked(s)}
           G == [a \in (1 .. N) \X V |-> on(a[2])]
           W == CHOOSE f : f = [n \in 0 .. N |-> IF n = 0 THEN << >> ELSE on(f[n - 1])]
<1>1. Chain(t, id) = W[N]
  BY DEF Chain
<1>2. /\ D \subseteq K /\ IsFiniteSet(D) /\ Cardinality(D) \in Nat /\ N \in Nat
      /\ \A x \in D : t.parent[x] \in K /\ Above(t.parent[x], x)
      /\ id \in K \ {0}
  <2>1. /\ D \subseteq K /\ id \in K \ {0}
        /\ \A x \in D : t.parent[x] \in K /\ Above(t.parent[x], x)
    BY DEF Grown, Forest, Nodes
  <2>2. IsFiniteSet(D) /\ Cardinality(D) \in Nat
    BY <2>1, FS_Subset, FS_CardinalityType
  <2>3. QED
    BY <2>1, <2>2
<1> HIDE DEF N, D
<1>3. ASSUME NEW s \in V PROVE on(s) \in V
  <2>1. s \in Rising(K) /\ s \in Seq(K \ {0}) /\ Linked(s)
    BY DEF Rising
  <2>2. CASE next(s) = None
    BY <2>2
  <2>3. CASE next(s) # None
    <3> DEFINE x == next(s)
               u == <<x>> \o s
    <3>1. s # << >> => Head(s) = s[1]
      BY <2>1
    <3>2. s # << >> => s[1] \in D /\ x = t.parent[s[1]]
      BY <2>3, <3>1 DEF Lookup, D
    <3>3. x \in K \ {0} /\ (s # << >> => Above(x, s[1]))
      <4>1. s = << >> => x = id
        OBVIOUS
      <4>2. x # 0
        BY <2>3 DEF None
      <4> HIDE DEF x
      <4>3. QED
        BY <1>2, <3>2, <4>1, <4>2
    <3>4. on(s) = u
      BY <2>3
    <3>5. s = << >> => x = id
      OBVIOUS
    <3> HIDE DEF x, on
    <3>6. u \in Rising(K)
      BY <2>1, <3>3, RisingGrows
    <3>7. /\ Len(u) = Len(s) + 1 /\ Len(s) \in Nat /\ u[1] = x
          /\ \A i \in 2 .. Len(u) : u[i] = s[i - 1] /\ i - 1 \in 1 .. Len(s)
      BY <2>1
    <3>8. s # << >> <=> Len(s) # 0
      BY <2>1
    <3> HIDE DEF u
    <3>9. u[Len(u)] = id
      <4>1. CASE s = << >>
        BY <3>5, <3>7, <3>8, <4>1
      <4>2. CASE s # << >>
        <5>1. Len(u) \in 2 .. Len(u) /\ Len(u) - 1 = Len(s)
          BY <3>7, <3>8, <4>2
        <5>2. s[Len(s)] = id
          BY <2>1, <4>2
        <5>3. QED
          BY <3>7, <5>1, <5>2
      <4>3. QED
        BY <4>1, <4>2
    <3>10. ASSUME NEW i \in 2 .. Len(u) PROVE u[i] \in D /\ t.parent[u[i]] = u[i - 1]
      <4>1. u[i] = s[i - 1] /\ i - 1 \in 1 .. Len(s) /\ s # << >>
        BY <3>7, <3>8
      <4>2. CASE i = 2
        <5>1. i - 1 = 1
          BY <4>2
        <5>2. QED
          BY <3>2, <3>7, <4>1, <5>1
      <4>3. CASE i # 2
        <5>1. i - 1 \in 2 .. Len(s) /\ i - 1 \in 2 .. Len(u)
          BY <3>7, <4>1, <4>3
        <5>2. u[i - 1] = s[(i - 1) - 1]
          BY <3>7, <5>1
        <5>3. s[i - 1] \in D /\ t.parent[s[i - 1]] = s[(i - 1) - 1]
          BY <2>1, <4>1, <5>1
        <5>4. QED
          BY <4>1, <5>2, <5>3
      <4>4. QED
        BY <4>2, <4>3
    <3>11. Linked(u)
      BY <3>9, <3>10
    <3> HIDE DEF Linked
    <3>12. QED
      BY <3>4, <3>6, <3>11
  <2>4. QED
    BY <2>2, <2>3
<1>4. << >> \in V
  BY DEF Rising
<1>5. \A s \in V : s \in Seq(K \ {0}) /\ s \in Rising(K) /\ Linked(s)
  BY DEF Rising
<1> HIDE DEF V, on, next, Linked
<1>6. G \in [(1 .. N) \X V -> V] /\ \A n \in 1 .. N, s \in V : G[<<n, s>>] = on(s)
  BY <1>3
<1> HIDE DEF G
<1>7. PICK h : Iterates(h, G, << >>, N, V)
  BY <1>2, <1>4, <1>6, Repeated
<1>8. h \in [0 .. N -> V] /\ h[0] = << >> /\ \A n \in 1 .. N : h[n] = G[<<n, h[n - 1]>>]
  BY <1>7 DEF Iterates
<1>9. h = [n \in 0 .. N |-> IF n = 0 THEN << >> ELSE on(h[n - 1])]
  <2>1. ASSUME NEW n \in 0 .. N PROVE h[n] = IF n = 0 THEN << >> ELSE on(h[n - 1])
    <3>1. CASE n = 0
      BY <1>8, <3>1
    <3>2. CASE n # 0
      <4>1. n \in 1 .. N /\ n - 1 \in 0 .. N
        BY <1>2, <3>2
      <4>2. h[n - 1] \in V
        BY <1>8, <4>1
      <4>3. h[n] = on(h[n - 1])
        BY <1>6, <1>8, <4>1, <4>2
      <4>4. QED
        BY <3>2, <4>3
    <3>3. QED
      BY <3>1, <3>2
  <2>2. h = [n \in 0 .. N |-> h[n]]
    BY <1>8
  <2>3. QED
    BY <2>1, <2>2
<1>10. W = [n \in 0 .. N |-> IF n = 0 THEN << >> ELSE on(W[n - 1])]
  BY <1>9, Zenon
<1> HIDE DEF W
<1> DEFINE T == {n \in 0 .. N : W[n] \in V /\ (Len(W[n]) = n \/ next(W[n]) = None)}
<1>11. 0 \in T
  <2>1. 0 \in 0 .. N
    BY <1>2
  <2>2. W[0] = << >>
    BY <1>10, <2>1
  <2>3. QED
    BY <1>4, <2>1, <2>2
<1>12. ASSUME NEW n \in 1 .. N, n - 1 \in T PROVE n \in T
  <2> DEFINE s == W[n - 1]
  <2>1. n \in 0 .. N /\ n # 0
    BY <1>2
  <2>2. W[n] = on(s)
    BY <1>10, <2>1
  <2>3. s \in V /\ (Len(s) = n - 1 \/ next(s) = None)
    BY <1>12
  <2> HIDE DEF s
  <2>4. W[n] \in V
    BY <1>3, <2>2, <2>3
  <2>5. CASE next(s) = None
    <3>1. W[n] = s
      BY <2>2, <2>5 DEF on
    <3>2. QED
      BY <2>1, <2>4, <2>5, <3>1
  <2>6. CASE next(s) # None
    <3>1. W[n] = <<next(s)>> \o s /\ Len(s) = n - 1 /\ s \in Seq(K \ {0})
      BY <1>5, <2>2, <2>3, <2>6 DEF on
    <3>2. Len(W[n]) = n
      BY <3>1
    <3>3. QED
      BY <2>1, <2>4, <3>2
  <2>7. QED
    BY <2>5, <2>6
<1>13. N \in T
  <2> HIDE DEF T
  <2>1. 0 .. N \subseteq T
    BY <1>2, <1>11, <1>12, UpTo
  <2>2. QED
    BY <1>2, <2>1
<1> DEFINE s == W[N]
<1>14. s \in Rising(K) /\ s \in Seq(K \ {0}) /\ Linked(s) /\ (Len(s) = N \/ next(s) = None)
  BY <1>5, <1>13
<1> HIDE DEF s
<1>15. s # << >>
  <2>1. s = << >> => next(s) # None /\ Len(s) = 0
    BY <1>2 DEF next, None
  <2>2. N # 0
    BY <1>2 DEF N
  <2>3. QED
    BY <1>14, <2>1, <2>2
<1>16. s \in Seq(Int) /\ s[Len(s)] = id /\ Head(s) = s[1] /\ Len(s) \in Nat
       /\ \A i \in 2 .. Len(s) : s[i] \in D /\ t.parent[s[i]] = s[i - 1]
  <2>1. K \ {0} \subseteq Int
    OBVIOUS
  <2>2. s \in Seq(K \ {0}) /\ Len(s) \in Nat /\ DOMAIN s = 1 .. Len(s)
    BY <1>14
  <2>3. ASSUME NEW i \in 1 .. Len(s) PROVE s[i] \in Int
    <3>1. s[i] \in K \ {0}
      BY <2>2
    <3>2. QED
      BY <2>1, <3>1
  <2>4. s \in [1 .. Len(s) -> Int]
    BY <2>2, <2>3
  <2>5. s \in Seq(Int)
    BY <2>2, <2>4
  <2>6. Head(s) = s[1]
    BY <1>15, <2>2
  <2>7. QED
    BY <1>14, <1>15, <2>2, <2>5, <2>6 DEF Linked
<1>17. s[1] \in D => t.parent[s[1]] = 0
  <2> SUFFICES ASSUME s[1] \in D, t.parent[s[1]] # 0 PROVE FALSE
    OBVIOUS
  <2>1. next(s) # None
    BY <1>15, <1>16 DEF next, Lookup, None, D
  <2>2. Len(s) = N /\ DOMAIN s = 1 .. N
    BY <1>14, <2>1
  <2> DEFINE M == Cardinality(D)
             f == [i \in 0 .. M |-> s[i + 1]]
  <2>3. M \in Nat /\ N = M + 1 /\ M <= M
    BY <1>2 DEF N
  <2> HIDE DEF M
  <2>4. \A i \in 0 .. M : i + 1 \in 1 .. N /\ (i + 1 = 1 \/ i + 1 \in 2 .. N)
    BY <2>3
  <2>5. f \in [0 .. M -> D]
    <3>1. \A i \in 0 .. M : s[i + 1] \in D
      BY <1>16, <2>2, <2>4
    <3>2. QED
      BY <3>1
  <2>6. IsInjective(f)
    <3>1. IsInjective(s)
      BY <1>14, RisingIsInjective
    <3>2. \A i, j \in 1 .. N : s[i] = s[j] => i = j
      BY <2>2, <3>1 DEF IsInjective
    <3>3. DOMAIN f = 0 .. M
      OBVIOUS
    <3>4. ASSUME NEW i \in 0 .. M, NEW j \in 0 .. M, f[i] = f[j] PROVE i = j
      <4>1. f[i] = s[i + 1] /\ f[j] = s[j + 1]
        OBVIOUS
      <4> HIDE DEF f
      <4>2. i + 1 = j + 1
        BY <2>4, <3>2, <3>4, <4>1
      <4>3. QED
        BY <4>2
    <3> HIDE DEF f
    <3>5. QED
      BY <3>3, <3>4 DEF IsInjective
  <2> HIDE DEF f
  <2>7. Cardinality(D) <= M
    BY <2>3 DEF M
  <2>8. QED
    BY <1>2, <2>3, <2>5, <2>6, <2>7, NoRoom
<1>18. Lookup(t.parent, s[1], Root) = Root /\ \A i \in 2 .. Len(s) : Lookup(t.parent, s[i], Root) = s[i - 1]
  BY <1>16, <1>17 DEF Lookup, Root, D
<1>19. Chain(t, id) = s
  BY <1>1 DEF s
<1>20. QED
  BY <1>15, <1>16, <1>18, <1>19

-----------------------------------------------------------------------------
(* the rows seen from the tree                                             *)

(* The row of a key, 0 that of the root, -1 that of a key without a row.   *)
RowFor(ro, q) == IF q = Root THEN Root ELSE Lookup(ro, q, -1)

(* Keys up to f and rows up to b: each row has one key, and a positive key *)
(* is the number of its row.                                               *)
Named(ro, f, b) ==
  /\ DOMAIN ro \subseteq (-f .. b) \ {0}
  /\ \A x \in DOMAIN ro : ro[x] \in 1 .. b /\ (x > 0 => ro[x] = x)
  /\ \A x, y \in DOMAIN ro : ro[x] = ro[y] => x = y

(* Row k is on the page and the j-th below p.                              *)
Stands(rs, p, k, j) == k <= Page /\ rs[k].parent = p /\ Count(rs, p, k) = j

(* The j-th child of a key is the j-th row below its row, if there is one. *)
Located(ch, rs, ro) ==
  \A q \in DOMAIN ch : \A j \in DOMAIN ch[q] : \A k \in DOMAIN rs :
    Stands(rs, RowFor(ro, q), k, j) => RowFor(ro, ch[q][j]) = k

(* What hangs under the root has a row on the page, but for the very first *)
(* prompt before it is saved.                                              *)
RootFull(ch, rs, l) ==
  \A j \in DOMAIN Lookup(ch, Root, << >>) :
    \/ \E k \in DOMAIN rs : Stands(rs, Root, k, j)
    \/ rs = << >> /\ l.pc = "posting" /\ Lookup(ch, Root, << >>) = <<l.prompt>>

(* What is a leaf on the screen has no row of the page below its row.      *)
Leaves(ch, nodes, rs, ro) ==
  \A x \in {Root} \cup nodes : x \notin DOMAIN ch =>
    \A k \in DOMAIN rs : k <= Page => rs[k].parent # RowFor(ro, x)

\* What the rows of keys are.
LEMMA RowForFacts ==
  ASSUME NEW f \in Nat, NEW b \in Nat, NEW ro, Named(ro, f, b)
  PROVE  /\ RowFor(ro, 0) = 0
         /\ \A q : q # 0 /\ q \notin DOMAIN ro => RowFor(ro, q) = -1
         /\ \A q \in DOMAIN ro : q # 0 /\ RowFor(ro, q) = ro[q] /\ ro[q] \in 1 .. b
         /\ \A q : RowFor(ro, q) \in -1 .. b /\ (RowFor(ro, q) = 0 <=> q = 0)
         /\ \A q, r : RowFor(ro, q) = RowFor(ro, r) /\ RowFor(ro, q) # -1 => q = r
<1>1. \A x \in DOMAIN ro : x # 0 /\ ro[x] \in 1 .. b
  BY DEF Named
<1>2. \A x, y \in DOMAIN ro : ro[x] = ro[y] => x = y
  BY DEF Named
<1>3. RowFor(ro, 0) = 0 /\ \A q : q # 0 /\ q \notin DOMAIN ro => RowFor(ro, q) = -1
  BY DEF RowFor, Root, Lookup
<1>4. \A q \in DOMAIN ro : q # 0 /\ RowFor(ro, q) = ro[q] /\ ro[q] \in 1 .. b
  BY <1>1 DEF RowFor, Root, Lookup
<1>5. ASSUME NEW q PROVE RowFor(ro, q) \in -1 .. b /\ (RowFor(ro, q) = 0 <=> q = 0)
  BY <1>3, <1>4
<1>6. ASSUME NEW q, NEW r, RowFor(ro, q) = RowFor(ro, r), RowFor(ro, q) # -1 PROVE q = r
  <2>1. CASE q = 0
    BY <1>5, <1>6, <2>1
  <2>2. CASE q # 0
    <3>1. q \in DOMAIN ro /\ r # 0
      BY <1>3, <1>5, <1>6, <2>2
    <3>2. r \in DOMAIN ro
      BY <1>3, <1>6, <3>1
    <3>3. QED
      BY <1>2, <1>4, <1>6, <3>1, <3>2
  <2>3. QED
    BY <2>1, <2>2
<1>7. QED
  BY <1>3, <1>4, <1>5, <1>6

\* More keys do no harm.
LEMMA NamedWidens ==
  ASSUME NEW f \in Nat, NEW g \in Nat, NEW b \in Nat, NEW ro, Named(ro, f, b), f <= g
  PROVE  Named(ro, g, b)
<1>1. (-f .. b) \ {0} \subseteq (-g .. b) \ {0}
  OBVIOUS
<1>2. QED
  BY <1>1 DEF Named

\* A new row gets a key that had none.
LEMMA NamedGrows ==
  ASSUME NEW f \in Nat, NEW b \in Nat, NEW ro, Named(ro, f, b),
         NEW x \in -f .. b, x < 0, x \notin DOMAIN ro, NEW rp, rp = Put(ro, x, b + 1)
  PROVE  /\ Named(rp, f, b + 1)
         /\ RowFor(rp, x) = b + 1 /\ RowFor(ro, x) = -1
         /\ \A q : q # x => RowFor(rp, q) = RowFor(ro, q)
<1>1. DOMAIN rp = DOMAIN ro \cup {x} /\ rp[x] = b + 1 /\ \A q \in DOMAIN ro : rp[q] = ro[q] /\ q # x
  BY DEF Put
<1>2. /\ DOMAIN ro \subseteq (-f .. b) \ {0}
      /\ \A y \in DOMAIN ro : ro[y] \in 1 .. b /\ (y > 0 => ro[y] = y)
      /\ \A y, z \in DOMAIN ro : ro[y] = ro[z] => y = z
  BY DEF Named
<1>3. DOMAIN rp \subseteq (-f .. b + 1) \ {0}
  BY <1>1, <1>2
<1>4. \A y \in DOMAIN rp : rp[y] \in 1 .. b + 1 /\ (y > 0 => rp[y] = y)
  BY <1>1, <1>2
<1>5. ASSUME NEW y \in DOMAIN rp, NEW z \in DOMAIN rp, rp[y] = rp[z] PROVE y = z
  <2>1. \A w \in DOMAIN ro : rp[w] # b + 1
    BY <1>1, <1>2
  <2>2. CASE y = x
    BY <1>1, <1>5, <2>1, <2>2
  <2>3. CASE z = x
    BY <1>1, <1>5, <2>1, <2>3
  <2>4. CASE y # x /\ z # x
    BY <1>1, <1>2, <1>5, <2>4
  <2>5. QED
    BY <2>2, <2>3, <2>4
<1>6. Named(rp, f, b + 1)
  BY <1>3, <1>4, <1>5 DEF Named
<1>7. RowFor(rp, x) = b + 1 /\ RowFor(ro, x) = -1
  BY <1>1 DEF RowFor, Root, Lookup
<1>8. \A q : q # x => RowFor(rp, q) = RowFor(ro, q)
  BY <1>1 DEF RowFor, Lookup
<1>9. QED
  BY <1>6, <1>7, <1>8

\* Where rows stand after an insert.
LEMMA StandsInserted ==
  ASSUME NEW b \in Nat, NEW rs, Straight(rs, b), NEW p \in 0 .. b, NEW r \in Roles, NEW us,
         us = Inserted(rs, b + 1, r, p)
  PROVE  /\ \A k \in 1 .. b : \A q, j : Stands(us, q, k, j) <=> Stands(rs, q, k, j)
         /\ \A q, j : Stands(us, q, b + 1, j) => q = p
         /\ \A k \in 1 .. b : \A i, j : Stands(rs, p, k, i) /\ Stands(us, p, b + 1, j) => i < j
         /\ (\A k \in 1 .. b : rs[k].parent # p) =>
              \A q, j : Stands(us, q, b + 1, j) => j = 1
<1>1. Straight(us, b + 1) /\ us[b + 1].parent = p /\ \A k \in 1 .. b : us[k] = rs[k]
  BY StraightInserted
<1>2. ASSUME NEW k \in 1 .. b, NEW q PROVE Count(us, q, k) = Count(rs, q, k) /\ us[k].parent = rs[k].parent
  <2>1. k \in Nat /\ \A j \in 1 .. k : us[j] = rs[j]
    BY <1>1
  <2>2. Count(us, q, k) = Count(rs, q, k)
    BY <2>1, CountOfAgreeing
  <2>3. QED
    BY <1>1, <2>2
<1>3. \A k \in 1 .. b : \A q, j : Stands(us, q, k, j) <=> Stands(rs, q, k, j)
  BY <1>2 DEF Stands
<1>4. \A q, j : Stands(us, q, b + 1, j) => q = p
  BY <1>1 DEF Stands
<1>5. ASSUME NEW k \in 1 .. b, NEW i, NEW j, Stands(rs, p, k, i), Stands(us, p, b + 1, j) PROVE i < j
  <2>1. Count(rs, p, k) = i /\ Count(us, p, b + 1) = j /\ Count(us, p, k) = Count(rs, p, k)
    BY <1>2, <1>5 DEF Stands
  <2>2. k \in Nat /\ b + 1 \in Nat /\ k < b + 1
    OBVIOUS
  <2>3. Count(us, p, k) < Count(us, p, b + 1)
    BY <1>1, <2>2, CountRises
  <2>4. QED
    BY <2>1, <2>3
<1>6. ASSUME \A k \in 1 .. b : rs[k].parent # p, NEW q, NEW j, Stands(us, q, b + 1, j) PROVE j = 1
  <2>1. q = p /\ Count(us, p, b + 1) = j
    BY <1>4, <1>6 DEF Stands
  <2>2. \A k \in 1 .. b : us[k].parent # p
    BY <1>1, <1>6
  <2>3. QED
    BY <1>1, <2>1, <2>2, CountOfFirst
<1>7. QED
  BY <1>3, <1>4, <1>5, <1>6

\* A row is inserted for a key: the others stay where they are, and it stands
\* where the tree has the key.
LEMMA LocatedInserted ==
  ASSUME NEW f \in Nat, NEW b \in Nat, NEW rs, Straight(rs, b), NEW ro, Named(ro, f, b),
         NEW ch, Located(ch, rs, ro), NEW p \in 0 .. b, NEW r \in Roles,
         NEW x \in -f .. b, x < 0, x \notin DOMAIN ro, NEW us, us = Inserted(rs, b + 1, r, p),
         NEW rp, rp = Put(ro, x, b + 1),
         \A q \in DOMAIN ch : \A j \in DOMAIN ch[q] :
           RowFor(ro, q) = p /\ Stands(us, p, b + 1, j) => ch[q][j] = x
  PROVE  Located(ch, us, rp)
<1>1. /\ RowFor(rp, x) = b + 1 /\ RowFor(ro, x) = -1
      /\ \A q : q # x => RowFor(rp, q) = RowFor(ro, q)
  BY NamedGrows
<1>2. /\ Straight(us, b + 1) /\ DOMAIN us = 1 .. b + 1 /\ DOMAIN rs = 1 .. b
      /\ \A k \in 1 .. b + 1 : us[k].parent \in Int /\ us[k].parent < k
  <2>1. Straight(us, b + 1) /\ b + 1 \in Nat
    BY StraightInserted
  <2>2. DOMAIN us = 1 .. b + 1 /\ \A k \in 1 .. b + 1 : us[k].parent \in 0 .. b + 1 /\ us[k].parent < k
    BY <2>1, StraightFacts
  <2>3. QED
    BY <2>1, <2>2, StraightFacts
<1>3. ASSUME NEW q \in DOMAIN ch, NEW j \in DOMAIN ch[q], NEW k \in 1 .. b + 1,
             Stands(us, RowFor(rp, q), k, j)
      PROVE  RowFor(rp, ch[q][j]) = k
  <2>1. q # x
    <3>1. us[k].parent = RowFor(rp, q)
      BY <1>3 DEF Stands
    <3>2. QED
      BY <1>1, <1>2, <3>1
  <2>2. RowFor(rp, q) = RowFor(ro, q)
    BY <1>1, <2>1
  <2>3. CASE k \in 1 .. b
    <3>1. Stands(rs, RowFor(ro, q), k, j)
      BY <1>3, <2>2, <2>3, StandsInserted
    <3>2. RowFor(ro, ch[q][j]) = k
      BY <1>2, <2>3, <3>1 DEF Located
    <3>3. ch[q][j] # x
      BY <1>1, <2>3, <3>2
    <3>4. QED
      BY <1>1, <3>2, <3>3
  <2>4. CASE k = b + 1
    <3>1. Stands(us, RowFor(ro, q), b + 1, j)
      BY <1>3, <2>2, <2>4
    <3>2. RowFor(ro, q) = p
      BY <3>1, StandsInserted
    <3>3. ch[q][j] = x
      BY <3>1, <3>2
    <3>4. QED
      BY <1>1, <2>4, <3>3
  <2>5. QED
    BY <2>3, <2>4
<1>4. QED
  BY <1>2, <1>3 DEF Located

\* Leaves stay leaves when the row goes under something that is none.
LEMMA LeavesInserted ==
  ASSUME NEW f \in Nat, NEW b \in Nat, NEW rs, Straight(rs, b), NEW ro, Named(ro, f, b),
         NEW ch, NEW nodes, Leaves(ch, nodes, rs, ro), NEW p \in 0 .. b, NEW r \in Roles,
         NEW x \in -f .. b, x < 0, x \notin DOMAIN ro, NEW us, us = Inserted(rs, b + 1, r, p),
         NEW rp, rp = Put(ro, x, b + 1),
         \A y \in {Root} \cup nodes : RowFor(ro, y) = p => y \in DOMAIN ch
  PROVE  Leaves(ch, nodes, us, rp)
<1>1. /\ RowFor(rp, x) = b + 1
      /\ \A q : q # x => RowFor(rp, q) = RowFor(ro, q)
  BY NamedGrows
<1>2. /\ DOMAIN us = 1 .. b + 1 /\ DOMAIN rs = 1 .. b
      /\ us[b + 1].parent = p /\ \A k \in 1 .. b : us[k] = rs[k]
      /\ \A k \in 1 .. b + 1 : us[k].parent \in Int /\ us[k].parent < k
  <2>1. Straight(us, b + 1) /\ b + 1 \in Nat /\ us[b + 1].parent = p /\ \A k \in 1 .. b : us[k] = rs[k]
    BY StraightInserted
  <2>2. DOMAIN us = 1 .. b + 1 /\ \A k \in 1 .. b + 1 : us[k].parent \in 0 .. b + 1 /\ us[k].parent < k
    BY <2>1, StraightFacts
  <2>3. QED
    BY <2>1, <2>2, StraightFacts
<1>3. ASSUME NEW y \in {Root} \cup nodes, y \notin DOMAIN ch, NEW k \in 1 .. b + 1, k <= Page
      PROVE  us[k].parent # RowFor(rp, y)
  <2>1. CASE y = x
    BY <1>1, <1>2, <2>1
  <2>2. CASE y # x
    <3>1. RowFor(rp, y) = RowFor(ro, y) /\ RowFor(ro, y) # p
      BY <1>1, <1>3, <2>2
    <3>2. CASE k \in 1 .. b
      BY <1>2, <1>3, <3>1, <3>2 DEF Leaves
    <3>3. CASE k = b + 1
      BY <1>2, <3>1, <3>3
    <3>4. QED
      BY <3>2, <3>3
  <2>3. QED
    BY <2>1, <2>2
<1>4. QED
  BY <1>2, <1>3 DEF Leaves

\* What hangs under the root keeps its rows.
LEMMA RootFullInserted ==
  ASSUME NEW b \in Nat, NEW rs, Straight(rs, b), NEW ch, NEW l, RootFull(ch, rs, l),
         NEW p \in 0 .. b, NEW r \in Roles, NEW us, us = Inserted(rs, b + 1, r, p),
         rs # << >> \/ p = 0, NEW m
  PROVE  RootFull(ch, us, m)
<1>1. DOMAIN us = 1 .. b + 1 /\ DOMAIN rs = 1 .. b /\ Len(rs) = b /\ us[b + 1].parent = p
  <2>1. Straight(us, b + 1) /\ b + 1 \in Nat /\ us[b + 1].parent = p
    BY StraightInserted
  <2>2. QED
    BY <2>1, StraightFacts
<1>2. ASSUME NEW j \in DOMAIN Lookup(ch, Root, << >>)
      PROVE  \E k \in 1 .. b + 1 : Stands(us, Root, k, j)
  <2>1. CASE \E k \in DOMAIN rs : Stands(rs, Root, k, j)
    <3>1. PICK k \in 1 .. b : Stands(rs, Root, k, j)
      BY <1>1, <2>1
    <3>2. k \in 1 .. b + 1 /\ Stands(us, Root, k, j)
      BY <3>1, StandsInserted
    <3>3. QED
      BY <3>2
  <2>2. CASE ~\E k \in DOMAIN rs : Stands(rs, Root, k, j)
    <3>1. rs = << >> /\ Lookup(ch, Root, << >>) = <<l.prompt>>
      BY <1>2, <2>2 DEF RootFull
    <3>2. b = 0 /\ j = 1 /\ p = 0
      BY <1>1, <1>2, <3>1
    <3>3. Count(us, 0, 0 + 1) = 1
      <4>1. us[0 + 1].parent = 0
        BY <1>1, <3>2
      <4>2. \A k \in 1 .. 0 : us[k].parent # 0
        OBVIOUS
      <4>3. QED
        BY <4>1, <4>2, CountOfFirst
    <3>4. 1 <= Page
      BY Bounds
    <3>5. Stands(us, Root, 1, j)
      BY <1>1, <3>2, <3>3, <3>4 DEF Stands, Root
    <3>6. 1 \in 1 .. b + 1
      BY <3>2
    <3>7. QED
      BY <3>5, <3>6
  <2>3. QED
    BY <2>1, <2>2
<1>3. QED
  BY <1>1, <1>2 DEF RootFull

\* A child is put under a key that has none, on either side.
LEMMA LocatedGrows ==
  ASSUME NEW ch, NEW rs, NEW ro, Located(ch, rs, ro), NEW q, NEW x,
         \A k \in DOMAIN rs : k <= Page => rs[k].parent # RowFor(ro, q)
  PROVE  Located(Put(ch, q, <<x>>), rs, ro)
<1> DEFINE cp == Put(ch, q, <<x>>)
<1>1. DOMAIN cp = DOMAIN ch \cup {q} /\ \A y \in DOMAIN ch : y # q => cp[y] = ch[y]
  BY DEF Put
<1> HIDE DEF cp
<1>2. ASSUME NEW y \in DOMAIN cp, NEW j \in DOMAIN cp[y], NEW k \in DOMAIN rs,
             Stands(rs, RowFor(ro, y), k, j)
      PROVE  RowFor(ro, cp[y][j]) = k
  <2>1. y # q
    BY <1>2 DEF Stands
  <2>2. y \in DOMAIN ch /\ cp[y] = ch[y]
    BY <1>1, <2>1
  <2>3. QED
    BY <1>2, <2>2 DEF Located
<1>3. QED
  BY <1>2 DEF Located, cp

\* And becomes a leaf of its own.
LEMMA LeavesGrow ==
  ASSUME NEW b \in Nat, NEW rs, Straight(rs, b), NEW ch, NEW nodes, NEW ro,
         Leaves(ch, nodes, rs, ro), NEW q, NEW x, x # 0, x \notin DOMAIN ro
  PROVE  Leaves(Put(ch, q, <<x>>), nodes \cup {x}, rs, ro)
<1>1. DOMAIN Put(ch, q, <<x>>) = DOMAIN ch \cup {q}
  BY DEF Put
<1>2. RowFor(ro, x) = -1
  BY DEF RowFor, Root, Lookup
<1>3. DOMAIN rs = 1 .. b /\ \A k \in 1 .. b : rs[k].parent # -1
  <2>1. DOMAIN rs = 1 .. b /\ \A k \in 1 .. b : rs[k].parent \in 0 .. b
    BY StraightFacts
  <2>2. QED
    BY <2>1
<1>4. QED
  BY <1>1, <1>2, <1>3 DEF Leaves

(* The first n rows are the nodes of t, each where it stands below its     *)
(* parent, and nothing else is.                                            *)
HangsUnder(t, rs, n, p) ==
  /\ ChildrenOf(t, p) \in Seq(Int) /\ Len(ChildrenOf(t, p)) = Count(rs, p, n)
  /\ \A k \in 1 .. n : rs[k].parent = p =>
       Count(rs, p, k) \in DOMAIN ChildrenOf(t, p) /\ ChildrenOf(t, p)[Count(rs, p, k)] = k
  /\ \A j \in DOMAIN ChildrenOf(t, p) :
       \E k \in 1 .. n : rs[k].parent = p /\ Count(rs, p, k) = j

Hung(t, rs, n) == Nodes(t) = 1 .. n /\ \A p : HangsUnder(t, rs, n, p)

\* One more row hangs last under its parent.
LEMMA HungGrows ==
  ASSUME NEW rs, NEW n \in Nat, NEW t, Hung(t, rs, n), NEW q, q = rs[n + 1].parent, NEW r
  PROVE  Hung(AddNode(t, n + 1, q, r), rs, n + 1)
<1> DEFINE u == AddNode(t, n + 1, q, r)
<1>1. Nodes(u) = 1 .. n + 1
  <2>1. Nodes(u) = Nodes(t) \cup {n + 1}
    BY DEF Nodes, AddNode, Put
  <2>2. Nodes(t) = 1 .. n
    BY DEF Hung
  <2>3. (1 .. n) \cup {n + 1} = 1 .. n + 1
    OBVIOUS
  <2> HIDE DEF u
  <2>4. QED
    BY <2>1, <2>2, <2>3
<1>2. /\ ChildrenOf(u, q) = Append(ChildrenOf(t, q), n + 1)
      /\ \A p : p # q => ChildrenOf(u, p) = ChildrenOf(t, p)
  BY DEF ChildrenOf, AddNode, Put, Lookup
<1> HIDE DEF u
<1>3. ASSUME NEW p PROVE HangsUnder(u, rs, n + 1, p)
  <2> DEFINE C == ChildrenOf(t, p)
             D == ChildrenOf(u, p)
  <2>1. /\ C \in Seq(Int) /\ Len(C) = Count(rs, p, n)
        /\ \A k \in 1 .. n : rs[k].parent = p =>
             Count(rs, p, k) \in DOMAIN C /\ C[Count(rs, p, k)] = k
        /\ \A j \in DOMAIN C : \E k \in 1 .. n : rs[k].parent = p /\ Count(rs, p, k) = j
    BY DEF Hung, HangsUnder
  <2>2. CASE p # q
    <3>1. D = C /\ Count(rs, p, n + 1) = Count(rs, p, n)
      <4>1. Count(rs, p, n + 1) = Count(rs, p, n) + 0 /\ Count(rs, p, n) \in Nat
        BY <2>2, CountFacts
      <4>2. QED
        BY <1>2, <2>2, <4>1
    <3> HIDE DEF C, D
    <3>2. \A k \in 1 .. n + 1 : rs[k].parent = p => k \in 1 .. n
      <4>1. \A k \in 1 .. n + 1 : k \in 1 .. n \/ k = n + 1
        OBVIOUS
      <4>2. QED
        BY <2>2, <4>1
    <3>3. \A k \in 1 .. n : k \in 1 .. n + 1
      OBVIOUS
    <3>4. \A k \in 1 .. n + 1 : rs[k].parent = p => Count(rs, p, k) \in DOMAIN D /\ D[Count(rs, p, k)] = k
      BY <2>1, <3>1, <3>2
    <3>5. \A j \in DOMAIN D : \E k \in 1 .. n + 1 : rs[k].parent = p /\ Count(rs, p, k) = j
      BY <2>1, <3>1, <3>3
    <3>6. QED
      BY <2>1, <3>1, <3>4, <3>5 DEF HangsUnder, D
  <2>3. CASE p = q
    <3> DEFINE m == Count(rs, p, n)
    <3>1. Count(rs, p, n + 1) = m + 1 /\ m \in Nat
      BY <2>3, CountFacts
    <3>2. D = Append(C, n + 1)
      BY <1>2, <2>3
    <3> HIDE DEF C, D, m
    <3>3. /\ D \in Seq(Int) /\ Len(D) = m + 1 /\ DOMAIN D = 1 .. m + 1 /\ DOMAIN C = 1 .. m
          /\ D[m + 1] = n + 1 /\ \A j \in 1 .. m : D[j] = C[j]
      BY <2>1, <3>1, <3>2 DEF m
    <3>4. ASSUME NEW k \in 1 .. n + 1, rs[k].parent = p
          PROVE  Count(rs, p, k) \in DOMAIN D /\ D[Count(rs, p, k)] = k
      <4>1. CASE k = n + 1
        BY <3>1, <3>3, <4>1
      <4>2. CASE k # n + 1
        <5>1. k \in 1 .. n
          BY <4>2
        <5>2. Count(rs, p, k) \in 1 .. m /\ C[Count(rs, p, k)] = k
          BY <2>1, <3>3, <3>4, <5>1
        <5>3. QED
          BY <3>1, <3>3, <5>2
      <4>3. QED
        BY <4>1, <4>2
    <3>5. ASSUME NEW j \in DOMAIN D PROVE \E k \in 1 .. n + 1 : rs[k].parent = p /\ Count(rs, p, k) = j
      <4>1. CASE j = m + 1
        <5>1. n + 1 \in 1 .. n + 1 /\ rs[n + 1].parent = p /\ Count(rs, p, n + 1) = j
          BY <2>3, <3>1, <4>1
        <5>2. QED
          BY <5>1
      <4>2. CASE j # m + 1
        <5>1. j \in DOMAIN C
          BY <3>1, <3>3, <4>2
        <5>2. PICK k \in 1 .. n : rs[k].parent = p /\ Count(rs, p, k) = j
          BY <2>1, <5>1
        <5>3. k \in 1 .. n + 1
          OBVIOUS
        <5>4. QED
          BY <5>2, <5>3
      <4>3. QED
        BY <4>1, <4>2
    <3>6. QED
      BY <3>1, <3>3, <3>4, <3>5 DEF HangsUnder, D, m
  <2>4. QED
    BY <2>2, <2>3
<1>4. QED
  BY <1>1, <1>3 DEF Hung, u

\* The page hangs in the tree as it was read.
LEMMA RestoredHangs ==
  ASSUME NEW b \in Nat, NEW rs, Straight(rs, b)
  PROVE  Hung(Restored(rs), rs, b)
<1>1. Len(rs) = b /\ \A k \in 1 .. b : rs[k].id = k
  BY DEF Straight
<1>2. PICK W : /\ W[0] = EmptyTree /\ W[b] = Restored(rs)
               /\ \A n \in 1 .. b : W[n] = AddNode(W[n - 1], rs[n].id, rs[n].parent, rs[n].role)
  BY <1>1, RestoredSteps
<1> DEFINE T == {n \in 0 .. b : Hung(W[n], rs, n)}
<1>3. 0 \in T
  <2>1. Nodes(EmptyTree) = 1 .. 0 /\ \A p : ChildrenOf(EmptyTree, p) = << >>
    BY DEF EmptyTree, Nothing, Nodes, ChildrenOf, Lookup
  <2>2. ASSUME NEW p PROVE HangsUnder(EmptyTree, rs, 0, p)
    <3>1. Count(rs, p, 0) = 0
      BY CountFacts
    <3>2. << >> \in Seq(Int) /\ Len(<< >>) = 0 /\ DOMAIN << >> = {} /\ 1 .. 0 = {}
      OBVIOUS
    <3>3. QED
      BY <2>1, <3>1, <3>2 DEF HangsUnder
  <2>3. Hung(EmptyTree, rs, 0)
    BY <2>1, <2>2 DEF Hung
  <2>4. QED
    BY <1>2, <2>3
<1>4. ASSUME NEW n \in 1 .. b, n - 1 \in T PROVE n \in T
  <2> DEFINE m == n - 1
  <2>1. m \in Nat /\ n = m + 1 /\ n \in 0 .. b
    OBVIOUS
  <2>2. Hung(W[m], rs, m) /\ W[n] = AddNode(W[m], n, rs[n].parent, rs[n].role)
    BY <1>1, <1>2, <1>4
  <2> HIDE DEF m
  <2>3. Hung(AddNode(W[m], m + 1, rs[m + 1].parent, rs[n].role), rs, m + 1)
    BY <2>1, <2>2, HungGrows
  <2>4. Hung(W[n], rs, n)
    BY <2>1, <2>2, <2>3
  <2>5. QED
    BY <2>1, <2>4
<1>5. b \in T
  <2> HIDE DEF T
  <2>1. 0 .. b \subseteq T
    BY <1>3, <1>4, UpTo
  <2>2. QED
    BY <2>1
<1>6. QED
  BY <1>2, <1>5

-----------------------------------------------------------------------------
(* resolveServerMessageId *)

\* The i-th row below p is a row that stands there.
LEMMA NthBelowStands ==
  ASSUME serial \in Nat, Straight(rows, serial), NEW p, NEW i
  PROVE  \/ NthBelow(p, i) = -1
         \/ NthBelow(p, i) \in DOMAIN rows /\ Stands(rows, p, NthBelow(p, i), i)
<1> DEFINE m == IF Len(rows) < Page THEN Len(rows) ELSE Page
           below(k) == {j \in 1 .. k : FirstPage[j].parent = p}
           hits == {k \in below(Len(FirstPage)) : Cardinality(below(k)) = i}
<1>1. NthBelow(p, i) = IF hits = {} THEN -1 ELSE FirstPage[Max(hits)].id
  BY DEF NthBelow
<1>2. Len(rows) = serial /\ DOMAIN rows = 1 .. serial /\ \A k \in 1 .. serial : rows[k].id = k
  BY StraightFacts
<1>3. m \in Nat /\ m <= serial /\ m <= Page
  BY <1>2, Bounds
<1>4. FirstPage = SubSeq(rows, 1, m)
  BY DEF FirstPage, Oldest
<1> HIDE DEF m
<1>5. Len(FirstPage) = m /\ \A k \in 1 .. m : FirstPage[k] = rows[k]
  <2>1. rows \in Seq(RowOf(serial))
    BY DEF Straight, RowsFit
  <2>2. QED
    BY <1>2, <1>3, <1>4, <2>1
<1>6. hits \in SUBSET (1 .. m)
  BY <1>5
<1>7. CASE hits = {}
  BY <1>1, <1>7
<1>8. CASE hits # {}
  <2> DEFINE k == Max(hits)
  <2>1. k \in hits
    <3>1. 1 \in Int /\ m \in Int
      BY <1>3
    <3> HIDE DEF hits
    <3>2. QED
      BY <1>6, <1>8, <3>1, MaxIsElement
  <2>2. k \in 1 .. m /\ FirstPage[k].parent = p /\ Cardinality(below(k)) = i
    BY <1>5, <2>1
  <2> HIDE DEF k, hits
  <2>3. k \in Nat /\ k \in 1 .. serial /\ k <= Page /\ FirstPage[k] = rows[k]
    <3>1. FirstPage[k] = rows[k]
      BY <1>5, <2>2
    <3>2. k \in 1 .. m
      BY <2>2
    <3>3. k \in Nat /\ k \in 1 .. serial /\ k <= Page
      BY ONLY <1>3, <3>2, serial \in Nat, Bounds
    <3>4. QED
      BY <3>1, <3>3
  <2>4. below(k) = {j \in 1 .. k : rows[j].parent = p}
    <3>1. \A j \in 1 .. k : j \in 1 .. m
      BY <1>3, <2>2
    <3>2. QED
      BY <1>5, <3>1
  <2>5. Count(rows, p, k) = i
    BY <2>2, <2>4 DEF Count
  <2>6. NthBelow(p, i) = k
    BY <1>1, <1>2, <1>8, <2>3 DEF k
  <2>7. QED
    BY <1>2, <2>2, <2>3, <2>5, <2>6 DEF Stands
<1>9. QED
  BY <1>7, <1>8

\* The indices of a node and its ancestors lead to the row of that node or
\* nowhere.
LEMMA ResolvesToOwnRow ==
  ASSUME fresh \in Nat, serial \in Nat, Straight(rows, serial), Named(rowOf, fresh, serial),
         NEW t, NEW K, IsFiniteSet(K), K \subseteq Int, Grown(t, K), NEW id \in Nodes(t),
         Located(t.children, rows, rowOf)
  PROVE  RowAt(Indices(t, id)) = -1 \/ RowAt(Indices(t, id)) = RowFor(rowOf, id)
<1> DEFINE c == Chain(t, id)
           up(i) == Lookup(t.parent, c[i], Root)
           at(i) == IF Contains(ChildrenOf(t, up(i)), c[i]) THEN Position(ChildrenOf(t, up(i)), c[i]) ELSE None
           x == Indices(t, id)
           L == Len(c)
           V == -1 .. serial
           G == [a \in (1 .. L) \X V |-> NthBelow(a[2], x[a[1]])]
           F == CHOOSE f : f = [n \in 0 .. L |-> IF n = 0 THEN {Root} ELSE {NthBelow(p, x[n]) : p \in f[n - 1]}]
<1>1. /\ c \in Seq(Int) /\ c # << >> /\ c[L] = id /\ up(1) = Root
      /\ \A i \in 2 .. L : up(i) = c[i - 1]
  BY ChainIsWhole
<1>2. L \in Nat /\ L # 0 /\ DOMAIN c = 1 .. L
  BY <1>1
<1>3. x = [i \in 1 .. L |-> at(i)]
  BY <1>2 DEF Indices
<1> HIDE DEF c, up, at
<1>4. x = [i \in 1 .. L |-> at(i)] /\ L \in Nat /\ Len(x) = L
  BY <1>2, <1>3
<1>5. RowAt(x) = CHOOSE row \in F[L] : TRUE
  <2> HIDE DEF x, L
  <2>1. RowAt(x) = CHOOSE row \in (CHOOSE f : f = [n \in 0 .. Len(x) |->
                      IF n = 0 THEN {Root} ELSE {NthBelow(p, x[n]) : p \in f[n - 1]}])[Len(x)] : TRUE
    BY DEF RowAt
  <2>2. QED
    BY <1>4, <2>1
<1> HIDE DEF x, L
<1>6. Root \in V /\ \A p, i : NthBelow(p, i) \in V
  <2>1. DOMAIN rows = 1 .. serial
    BY StraightFacts
  <2>2. ASSUME NEW p, NEW i PROVE NthBelow(p, i) \in V
    <3>1. NthBelow(p, i) = -1 \/ NthBelow(p, i) \in 1 .. serial
      BY <2>1, NthBelowStands
    <3>2. QED
      BY <3>1
  <2>3. QED
    BY <2>2 DEF Root
<1> HIDE DEF V
<1>7. G \in [(1 .. L) \X V -> V] /\ \A n \in 1 .. L, s \in V : G[<<n, s>>] = NthBelow(s, x[n])
  BY <1>6
<1> HIDE DEF G
<1>8. PICK W : Iterates(W, G, Root, L, V)
  BY <1>4, <1>6, <1>7, Repeated
<1>9. W \in [0 .. L -> V] /\ W[0] = Root /\ \A n \in 1 .. L : W[n] = G[<<n, W[n - 1]>>]
  BY <1>8 DEF Iterates
<1>10. \A n \in 1 .. L : n - 1 \in 0 .. L /\ n \in 0 .. L /\ n # 0 /\ W[n] = NthBelow(W[n - 1], x[n])
  <2>1. ASSUME NEW n \in 1 .. L PROVE n - 1 \in 0 .. L /\ n \in 0 .. L /\ n # 0 /\ W[n] = NthBelow(W[n - 1], x[n])
    <3>1. n - 1 \in 0 .. L /\ n \in 0 .. L /\ n # 0
      BY <1>4
    <3>2. W[n - 1] \in V
      BY <1>9, <3>1
    <3>3. QED
      BY <1>7, <1>9, <3>1, <3>2
  <2>2. QED
    BY <2>1
<1>11. RowAt(x) = W[L]
  <2> DEFINE E == [n \in 0 .. L |-> {W[n]}]
  <2>1. ASSUME NEW n \in 0 .. L
        PROVE  E[n] = IF n = 0 THEN {Root} ELSE {NthBelow(p, x[n]) : p \in E[n - 1]}
    <3>1. CASE n = 0
      BY <1>9, <3>1
    <3>2. CASE n # 0
      <4>1. n \in 1 .. L
        BY <1>4, <3>2
      <4>2. E[n] = {NthBelow(W[n - 1], x[n])} /\ E[n - 1] = {W[n - 1]}
        BY <1>10, <4>1
      <4>3. QED
        BY <3>2, <4>2
    <3>3. QED
      BY <3>1, <3>2
  <2>2. E = [n \in 0 .. L |-> IF n = 0 THEN {Root} ELSE {NthBelow(p, x[n]) : p \in E[n - 1]}]
    <3>1. E = [n \in 0 .. L |-> E[n]]
      OBVIOUS
    <3> HIDE DEF E
    <3>2. QED
      BY <2>1, <3>1
  <2> HIDE DEF E
  <2>3. F = [n \in 0 .. L |-> IF n = 0 THEN {Root} ELSE {NthBelow(p, x[n]) : p \in F[n - 1]}]
    BY <2>2, Zenon
  <2> HIDE DEF F
  <2> DEFINE S == {n \in 0 .. L : F[n] = {W[n]}}
  <2>4. 0 \in S
    BY <1>4, <1>9, <2>3
  <2>5. ASSUME NEW n \in 1 .. L, n - 1 \in S PROVE n \in S
    <3>1. F[n - 1] = {W[n - 1]} /\ n \in 0 .. L /\ n # 0 /\ W[n] = NthBelow(W[n - 1], x[n])
      BY <1>10, <2>5
    <3>2. F[n] = {NthBelow(p, x[n]) : p \in F[n - 1]}
      BY <2>3, <3>1
    <3>3. F[n] = {W[n]}
      BY <3>1, <3>2
    <3>4. QED
      BY <3>1, <3>3
  <2>6. L \in S
    <3> HIDE DEF S
    <3>1. 0 .. L \subseteq S
      BY <1>4, <2>4, <2>5, UpTo
    <3>2. QED
      BY <1>4, <3>1
  <2>7. F[L] = {W[L]}
    BY <2>6
  <2>8. QED
    BY <1>5, <2>7
<1>12. W[0] = Root /\ \A n \in 1 .. L : W[n] = NthBelow(W[n - 1], x[n])
  BY <1>9, <1>10
<1> DEFINE key(n) == IF n = 0 THEN Root ELSE c[n]
           T == {n \in 0 .. L : W[n] = -1 \/ W[n] = RowFor(rowOf, key(n))}
<1>13. 0 \in T
  BY <1>4, <1>12 DEF RowFor
<1>14. ASSUME NEW n \in 1 .. L, n - 1 \in T PROVE n \in T
  <2> DEFINE v == W[n - 1]
             w == W[n]
             q == key(n - 1)
             U == ChildrenOf(t, q)
  <2>1. up(n) = q /\ key(n) = c[n] /\ n \in 0 .. L
    BY <1>1, <1>4 DEF L
  <2>2. v = -1 \/ v = RowFor(rowOf, q)
    BY <1>14
  <2>3. w = NthBelow(v, x[n]) /\ x[n] = at(n)
    BY <1>4, <1>12
  <2>4. x[n] = IF Contains(U, c[n]) THEN Position(U, c[n]) ELSE 0
    BY <2>1, <2>3 DEF at, None
  <2> HIDE DEF v, w, q, key
  <2>5. CASE w = -1
    BY <2>1, <2>5 DEF w
  <2>6. CASE w # -1
    <3>1. w \in DOMAIN rows /\ Stands(rows, v, w, x[n])
      BY <2>3, <2>6, NthBelowStands
    <3>2. DOMAIN rows = 1 .. serial /\ \A k \in 1 .. serial : rows[k].parent \in 0 .. serial
      BY StraightFacts
    <3>3. v = RowFor(rowOf, q)
      <4>1. rows[w].parent = v
        BY <3>1 DEF Stands
      <4>2. v # -1
        BY <3>1, <3>2, <4>1
      <4>3. QED
        BY <2>2, <4>2
    <3>4. x[n] # 0
      <4>1. rows[w].parent = v /\ Count(rows, v, w) = x[n] /\ 0 \in Nat /\ w \in Nat /\ 0 < w
        BY <3>1, <3>2 DEF Stands
      <4>2. Count(rows, v, 0) < Count(rows, v, w)
        BY <4>1, CountRises
      <4>3. Count(rows, v, 0) = 0
        BY <4>1, CountFacts
      <4>4. QED
        BY <4>1, <4>2, <4>3
    <3>5. Contains(U, c[n]) /\ x[n] = Position(U, c[n])
      BY <2>4, <3>4
    <3>6. U \in Seq(Nodes(t)) /\ U = Lookup(t.children, q, << >>)
      BY SiblingFacts DEF Grown, ChildrenOf, Nodes
    <3> HIDE DEF U
    <3>7. c[n] \in ToSet(U)
      BY <3>5, <3>6 DEF Contains, ToSet
    <3>8. x[n] \in 1 .. Len(U) /\ U[x[n]] = c[n]
      BY <3>5, <3>6, <3>7, PositionFacts
    <3>9. q \in DOMAIN t.children /\ U = t.children[q]
      <4>1. U # << >>
        BY <3>6, <3>8
      <4>2. QED
        BY <3>6, <4>1 DEF Lookup
    <3>10. x[n] \in DOMAIN t.children[q] /\ t.children[q][x[n]] = c[n]
      <4>1. DOMAIN U = 1 .. Len(U)
        BY <3>6
      <4>2. QED
        BY <3>8, <3>9, <4>1
    <3>11. RowFor(rowOf, c[n]) = w
      BY <3>1, <3>3, <3>9, <3>10 DEF Located
    <3>12. QED
      BY <2>1, <3>11 DEF w
  <2>7. QED
    BY <2>5, <2>6
<1>15. L \in T
  <2> HIDE DEF T
  <2>1. 0 .. L \subseteq T
    BY <1>4, <1>13, <1>14, UpTo
  <2>2. QED
    BY <1>4, <2>1
<1>16. key(L) = id
  BY <1>1, <1>2 DEF L
<1>17. QED
  BY <1>11, <1>15, <1>16 DEF x

-----------------------------------------------------------------------------
(* the two sides of an untangled conversation                              *)

(* The tree without what a deletion in progress has taken away.            *)
Shown == IF del.node = None THEN tree ELSE del.snapshot

IsOpen(t) == t.phase \in {"running", "stopped"}

(* The prompt of a turn has a row, and nothing hangs under that row yet.   *)
Prompted(t, rs, ro) ==
  /\ t.prompt < 0 /\ t.prompt \in DOMAIN ro /\ ro[t.prompt] = t.row
  /\ \A k \in DOMAIN rs : rs[k].parent # t.row

(* The answer of a turn, once begun, is the only child of its prompt.      *)
Answered(t, ch, ro, f, whole) ==
  /\ t.node <= 0 /\ -f <= t.node /\ t.node \notin DOMAIN ro
  /\ t.node = None <=> t.legs = 0
  /\ t.prompt \in DOMAIN ch => ch[t.prompt] = <<t.node>> /\ t.legs # 0
  /\ t.legs # 0 /\ whole => t.prompt \in DOMAIN ch

(* Only the turn that the client streams is running.                       *)
Served(i, t, l) ==
  /\ t.phase = "stopped" => t.legs # 0
  /\ t.phase = "running" => l.pc = "streaming" /\ l.turn = i

Opens(ts, ch, rs, ro, f, l, whole) ==
  \A i \in DOMAIN ts : IsOpen(ts[i]) =>
    Prompted(ts[i], rs, ro) /\ Answered(ts[i], ch, ro, f, whole) /\ Served(i, ts[i], l)

Apart(ts) ==
  \A i, j \in DOMAIN ts : i # j /\ IsOpen(ts[i]) /\ IsOpen(ts[j]) =>
    ts[i].row # ts[j].row /\ (ts[i].node = ts[j].node => ts[i].node = None)

(* A prompt on its way to the server is a leaf without a row.              *)
Legs(l, ts, ch, ro, whole) ==
  /\ l.pc # "resuming"
  /\ l.pc = "idle" => l = NoLeg
  /\ l.pc = "posting" =>
       /\ l.turn = 0 /\ l.prompt < 0 /\ l.prompt \notin DOMAIN ro /\ l.prompt \notin DOMAIN ch
       /\ \A i \in DOMAIN ts : IsOpen(ts[i]) => ts[i].node # l.prompt
       /\ whole => Root \in DOMAIN ch
  /\ l.pc = "streaming" =>
       l.turn \in DOMAIN ts /\ ts[l.turn].phase = "running" /\ l.prompt = ts[l.turn].prompt

(* A deletion aims at the row of its node, or knows where that stands.     *)
Aimed(d, ro) ==
  /\ d.pc = "resolving" => /\ d.chain = Indices(d.snapshot, d.node)
                           /\ d.node < 0 /\ d.target = None
  /\ d.node # None => d.node \in Nodes(d.snapshot)
  /\ d.node # None /\ d.target # None => d.node \in DOMAIN ro /\ ro[d.node] = d.target
  /\ d.pc = "deleting" => d.todo # {}
  /\ d.pc = "none" => d.node = None

Untangled ==
  /\ Straight(rows, serial) /\ Named(rowOf, fresh, serial)
  /\ \A x \in Nodes(Shown) : x > 0 => x \in DOMAIN rowOf
  /\ Legs(leg, turns, Shown.children, rowOf, del.node = None)
  /\ Opens(turns, Shown.children, rows, rowOf, fresh, leg, del.node = None)
  /\ Apart(turns)
  /\ Located(Shown.children, rows, rowOf)
  /\ RootFull(Shown.children, rows, leg)
  /\ del.node = None => Leaves(Shown.children, Nodes(Shown), rows, rowOf)
  /\ Aimed(del, rowOf)

\* What is known of the state, in one place.
LEMMA UntangledFacts ==
  ASSUME CInv, Untangled
  PROVE  /\ fresh \in Nat /\ serial \in Nat /\ Len(turns) \in Nat /\ DOMAIN turns = 1 .. Len(turns)
         /\ Grown(Shown, -fresh .. serial) /\ (del.node = None => Shown = tree)
         /\ DOMAIN Shown.children \subseteq -fresh .. serial
         /\ Nodes(Shown) \subseteq (-fresh .. serial) \ {0}
         /\ DOMAIN rows = 1 .. serial /\ Len(rows) = serial
         /\ DOMAIN rowOf \subseteq (-fresh .. serial) \ {0}
<1>1. fresh \in Nat /\ serial \in Nat /\ Len(turns) \in Nat /\ DOMAIN turns = 1 .. Len(turns)
  BY Parts, TurnFacts DEF CInv
<1>2. Grown(Shown, -fresh .. serial)
  BY DelFacts DEF CInv, Shown
<1>3. DOMAIN Shown.children \subseteq -fresh .. serial /\ Nodes(Shown) \subseteq (-fresh .. serial) \ {0}
  BY <1>2 DEF Grown, Forest, Nodes
<1>4. DOMAIN rows = 1 .. serial /\ Len(rows) = serial
  BY <1>1, StraightFacts DEF Untangled
<1>5. DOMAIN rowOf \subseteq (-fresh .. serial) \ {0}
  BY DEF Untangled, Named
<1>6. QED
  BY <1>1, <1>2, <1>3, <1>4, <1>5 DEF Shown

\* What hangs under the root stays there.
LEMMA RootFullKept ==
  ASSUME NEW ch, NEW rs, NEW l, RootFull(ch, rs, l), l.pc # "posting", NEW cp, NEW m,
         Lookup(cp, Root, << >>) = Lookup(ch, Root, << >>)
  PROVE  RootFull(cp, rs, m)
BY DEF RootFull

\* A key more does not change what a deletion aims at.
LEMMA AimedGrows ==
  ASSUME NEW d, NEW ro, Aimed(d, ro), NEW x, x \notin DOMAIN ro, NEW v
  PROVE  Aimed(d, Put(ro, x, v))
<1> DEFINE rp == Put(ro, x, v)
<1>1. \A y \in DOMAIN ro : y \in DOMAIN rp /\ rp[y] = ro[y]
  BY DEF Put
<1> HIDE DEF rp
<1>2. Aimed(d, rp)
  BY <1>1 DEF Aimed
<1>3. QED
  BY <1>2 DEF rp

\* A new node under a leaf.
LEMMA LeafGets ==
  ASSUME NEW f \in Nat, NEW b \in Nat, NEW t, Grown(t, -f .. b), NEW q, q \notin DOMAIN t.children,
         NEW x, x = -(f + 1), NEW r, NEW u, u = AddNode(t, x, q, r)
  PROVE  /\ u.children = Put(t.children, q, <<x>>) /\ Nodes(u) = Nodes(t) \cup {x}
         /\ DOMAIN u.children = DOMAIN t.children \cup {q} /\ u.children[q] = <<x>>
         /\ \A y \in DOMAIN t.children : u.children[y] = t.children[y]
         /\ x \notin DOMAIN t.children /\ x \notin Nodes(t) /\ x < -f /\ x < 0 /\ x \in Int
<1>1. u.children = Put(t.children, q, Append(ChildrenOf(t, q), x)) /\ Nodes(u) = Nodes(t) \cup {x}
  BY DEF AddNode, Nodes, Put
<1>2. ChildrenOf(t, q) = << >>
  BY DEF ChildrenOf, Lookup
<1>3. Append(ChildrenOf(t, q), x) = <<x>>
  BY <1>2
<1>4. u.children = Put(t.children, q, <<x>>)
  BY <1>1, <1>3
<1>5. x \notin -f .. b /\ x < -f /\ x < 0 /\ x \in Int
  OBVIOUS
<1>6. DOMAIN t.children \subseteq -f .. b /\ Nodes(t) \subseteq -f .. b
  BY DEF Grown, Forest, Nodes
<1>7. /\ DOMAIN u.children = DOMAIN t.children \cup {q} /\ u.children[q] = <<x>>
      /\ \A y \in DOMAIN t.children : u.children[y] = t.children[y]
  BY <1>4 DEF Put
<1>8. QED
  BY <1>1, <1>4, <1>5, <1>6, <1>7

-----------------------------------------------------------------------------
(* every step that does not tangle the two sides keeps them matched        *)

\* dispatchSend: the prompt goes under a leaf, and is the first of all if that
\* is the root.
LEMMA SendMatches == ASSUME CInv, Untangled, Send PROVE Untangled'
<1> DEFINE x == NewId
           q == Tip(tree)
           ch == Shown.children
           dh == Shown'.children
           whole == del.node = None
<1>1. /\ fresh \in Nat /\ serial \in Nat /\ Grown(Shown, -fresh .. serial) /\ (whole => Shown = tree)
      /\ DOMAIN ch \subseteq -fresh .. serial /\ Nodes(Shown) \subseteq (-fresh .. serial) \ {0}
      /\ DOMAIN rows = 1 .. serial /\ DOMAIN rowOf \subseteq (-fresh .. serial) \ {0}
  BY UntangledFacts
<1>2. /\ leg = NoLeg /\ tree' = AddNode(tree, x, q, "user") /\ fresh' = fresh + 1
      /\ leg' = [pc |-> "posting", turn |-> 0, prompt |-> x, node |-> None]
      /\ UNCHANGED <<del, rows, serial, turns, rowOf>> /\ x = -(fresh + 1)
  BY DEF Send, CanBegin, Ask, Begin, NoLeg, NewId, server, ghosts
<1>3. x < -fresh /\ x < 0 /\ x \in Int /\ x \notin -fresh .. serial
  BY <1>1, <1>2
<1>4. ASSUME whole
      PROVE  /\ q \notin DOMAIN ch /\ (q # None => Root \in DOMAIN ch)
             /\ dh = Put(ch, q, <<x>>) /\ DOMAIN dh = DOMAIN ch \cup {q} /\ dh[q] = <<x>>
             /\ \A y \in DOMAIN ch : dh[y] = ch[y]
             /\ Nodes(Shown') = Nodes(Shown) \cup {x} /\ Shown' = tree' /\ q \in -fresh .. serial
  <2>1. whole
    BY <1>4
  <2>2. Shown = tree /\ Shown' = tree'
    BY <1>2, <2>1 DEF Shown
  <2>3. q \notin DOMAIN ch /\ (q # None => Root \in DOMAIN ch)
    BY <1>1, <2>2, Parts, TipIsLeaf
  <2>4. q \in -fresh .. serial
    BY Parts
  <2>5. Grown(tree, -fresh .. serial) /\ q \notin DOMAIN tree.children
    BY <1>1, <2>2, <2>3
  <2> HIDE DEF x, q
  <2>6. /\ tree'.children = Put(tree.children, q, <<x>>) /\ Nodes(tree') = Nodes(tree) \cup {x}
        /\ DOMAIN tree'.children = DOMAIN tree.children \cup {q} /\ tree'.children[q] = <<x>>
        /\ \A y \in DOMAIN tree.children : tree'.children[y] = tree.children[y]
    BY <1>1, <1>2, <2>5, LeafGets
  <2>7. QED
    BY <2>2, <2>3, <2>4, <2>6
<1>5. ~whole => Shown' = Shown
  BY <1>2 DEF Shown
<1> HIDE DEF x, q, ch, dh
<1>6. Straight(rows', serial') /\ Named(rowOf', fresh', serial') /\ Apart(turns') /\ Aimed(del', rowOf')
  <2>1. Named(rowOf, fresh + 1, serial)
    <3>1. fresh + 1 \in Nat /\ fresh <= fresh + 1
      BY <1>1
    <3>2. QED
      BY <1>1, <3>1, NamedWidens DEF Untangled
  <2>2. QED
    BY <1>2, <2>1 DEF Untangled
<1>7. \A y \in Nodes(Shown') : y > 0 => y \in DOMAIN rowOf'
  <2>1. \A y \in Nodes(Shown) : y > 0 => y \in DOMAIN rowOf
    BY DEF Untangled
  <2>2. QED
    BY <1>2, <1>3, <1>4, <1>5, <2>1
<1>8. ASSUME NEW i \in DOMAIN turns, IsOpen(turns[i])
      PROVE  /\ Prompted(turns[i], rows, rowOf) /\ turns[i].legs # 0 /\ turns[i].phase = "stopped"
             /\ -fresh <= turns[i].node /\ Answered(turns[i], ch, rowOf, fresh, whole)
             /\ turns[i].node \in Int
  <2>1. Prompted(turns[i], rows, rowOf) /\ Answered(turns[i], ch, rowOf, fresh, whole) /\ Served(i, turns[i], leg)
    BY <1>8 DEF Untangled, Opens, ch
  <2>2. turns[i].phase = "stopped"
    BY <1>2, <1>8, <2>1 DEF IsOpen, Served, NoLeg
  <2>3. turns[i].node \in Int
    BY TurnFacts DEF CInv
  <2>4. QED
    BY <2>1, <2>2, <2>3 DEF Served, Answered
<1>9. Opens(turns', dh, rows', rowOf', fresh', leg', whole)
  <2>1. ASSUME NEW i \in DOMAIN turns, IsOpen(turns[i])
        PROVE  Answered(turns[i], dh, rowOf, fresh + 1, whole) /\ Served(i, turns[i], leg')
    <3> DEFINE p == turns[i].prompt
    <3>1. /\ turns[i].node <= 0 /\ turns[i].node \notin DOMAIN rowOf
          /\ (turns[i].node = None <=> turns[i].legs = 0) /\ -fresh <= turns[i].node
          /\ (p \in DOMAIN ch => ch[p] = <<turns[i].node>>)
          /\ (whole => p \in DOMAIN ch) /\ turns[i].legs # 0 /\ turns[i].node \in Int
      BY <1>8, <2>1 DEF Answered
    <3>2. -(fresh + 1) <= turns[i].node
      BY <1>1, <3>1
    <3>3. p \in DOMAIN dh => dh[p] = <<turns[i].node>>
      <4>1. CASE whole
        BY <1>4, <3>1, <4>1
      <4>2. CASE ~whole
        BY <1>5, <3>1, <4>2 DEF ch, dh
      <4>3. QED
        BY <4>1, <4>2
    <3>4. whole => p \in DOMAIN dh
      BY <1>4, <3>1
    <3>5. Answered(turns[i], dh, rowOf, fresh + 1, whole)
      BY <3>1, <3>2, <3>3, <3>4 DEF Answered
    <3>6. QED
      BY <1>8, <2>1, <3>5 DEF Served
  <2>2. QED
    BY <1>2, <1>8, <2>1 DEF Opens
<1>10. Legs(leg', turns', dh, rowOf', whole)
  <2>1. x \notin DOMAIN rowOf
    BY <1>1, <1>3
  <2>2. x \notin DOMAIN dh
    <3>1. CASE whole
      BY <1>1, <1>3, <1>4, <3>1 DEF ch
    <3>2. CASE ~whole
      BY <1>1, <1>3, <1>5, <3>2 DEF ch, dh
    <3>3. QED
      BY <3>1, <3>2
  <2>3. \A i \in DOMAIN turns : IsOpen(turns[i]) => turns[i].node # x
    BY <1>1, <1>3, <1>8
  <2>4. whole => Root \in DOMAIN dh
    BY <1>4 DEF Root, None
  <2>5. QED
    BY <1>2, <1>3, <2>1, <2>2, <2>3, <2>4 DEF Legs
<1>11. Located(dh, rows', rowOf')
  <2>1. Located(ch, rows, rowOf)
    BY DEF Untangled, ch
  <2>2. CASE whole
    <3>1. \A k \in DOMAIN rows : k <= Page => rows[k].parent # RowFor(rowOf, q)
      <4>1. q \in {Root} \cup Nodes(tree)
        BY <1>1, Parts, TipIsNode, GrownIsFinite, <2>2 DEF CInv, q, None, Root
      <4>2. QED
        BY <1>1, <1>4, <2>2, <4>1 DEF Untangled, Leaves, ch
    <3>2. Located(Put(ch, q, <<x>>), rows, rowOf)
      BY <2>1, <3>1, LocatedGrows
    <3>3. QED
      BY <1>2, <1>4, <2>2, <3>2
  <2>3. CASE ~whole
    BY <1>2, <1>5, <2>1, <2>3 DEF ch, dh
  <2>4. QED
    BY <2>2, <2>3
<1>12. RootFull(dh, rows', leg')
  <2>1. RootFull(ch, rows, leg) /\ leg.pc # "posting"
    BY <1>2 DEF Untangled, ch, NoLeg
  <2>2. CASE whole /\ q = Root
    <3>1. rows = << >>
      <4>1. Leaves(ch, Nodes(Shown), rows, rowOf) /\ Root \notin DOMAIN ch
        BY <1>4, <2>2 DEF Untangled, ch
      <4>2. \A k \in DOMAIN rows : k <= Page => rows[k].parent # 0
        BY <4>1 DEF Leaves, RowFor, Root
      <4>3. Len(rows) = serial /\ \A k \in 1 .. serial : rows[k].parent \in 0 .. serial /\ rows[k].parent < k
        BY <1>1, StraightFacts DEF Untangled
      <4>4. serial = 0
        <5>1. ASSUME serial # 0 PROVE FALSE
          <6>1. 1 \in 1 .. serial /\ 1 <= Page
            BY <1>1, <5>1, Bounds
          <6>2. rows[1].parent = 0
            BY <1>1, <4>3, <6>1
          <6>3. QED
            BY <1>1, <4>2, <6>1, <6>2
        <5>2. QED
          BY <5>1
      <4>5. rows \in Seq(RowOf(serial))
        BY DEF CInv, RowsFit
      <4> HIDE DEF RowOf
      <4>6. QED
        BY <4>3, <4>4, <4>5
    <3>2. Lookup(dh, Root, << >>) = <<x>>
      BY <1>4, <2>2 DEF Lookup
    <3>3. QED
      BY <1>2, <3>1, <3>2 DEF RootFull
  <2>3. CASE ~(whole /\ q = Root)
    <3>1. Lookup(dh, Root, << >>) = Lookup(ch, Root, << >>)
      <4>1. CASE whole
        BY <1>4, <2>3, <4>1 DEF Lookup
      <4>2. CASE ~whole
        BY <1>5, <4>2 DEF ch, dh
      <4>3. QED
        BY <4>1, <4>2
    <3>2. RootFull(dh, rows, leg')
      BY <2>1, <3>1, RootFullKept
    <3>3. QED
      BY <1>2, <3>2
  <2>4. QED
    BY <2>2, <2>3
<1>13. whole => Leaves(dh, Nodes(Shown'), rows', rowOf')
  <2>1. SUFFICES ASSUME whole PROVE Leaves(dh, Nodes(Shown'), rows', rowOf')
    OBVIOUS
  <2>2. Leaves(ch, Nodes(Shown), rows, rowOf) /\ Straight(rows, serial)
    BY <2>1 DEF Untangled, ch
  <2>3. x # 0 /\ x \notin DOMAIN rowOf
    BY <1>1, <1>3
  <2>4. Leaves(Put(ch, q, <<x>>), Nodes(Shown) \cup {x}, rows, rowOf)
    BY <1>1, <2>2, <2>3, LeavesGrow
  <2>5. QED
    BY <1>2, <1>4, <2>1, <2>4
<1>14. QED
  BY <1>2, <1>6, <1>7, <1>9, <1>10, <1>11, <1>12, <1>13 DEF Untangled, dh

\* switchBranch: only the active child changes.
LEMMA SwitchMatches == ASSUME CInv, Untangled, NEW id, NEW d, SwitchBranch(id, d) PROVE Untangled'
<1>1. /\ tree' = Switch(tree, id, d)
      /\ UNCHANGED <<fresh, leg, del, rows, serial, turns, rowOf>>
  BY DEF SwitchBranch, server, ghosts
<1>2. tree'.children = tree.children /\ Nodes(tree') = Nodes(tree)
  <2>1. Shaped(tree)
    BY DEF CInv, Grown
  <2>2. QED
    BY <1>1, <2>1 DEF Switch, Nodes, Shaped
<1>3. Shown'.children = Shown.children /\ Nodes(Shown') = Nodes(Shown)
  BY <1>1, <1>2 DEF Shown
<1>4. QED
  BY <1>1, <1>3 DEF Untangled

\* The prompt of the POST is saved: its row is the last below the root, where
\* the prompt is the last of the tree.
LEMMA PostMatches == ASSUME CInv, Untangled, Post(TRUE) PROVE Untangled'
<1> DEFINE x == leg.prompt
           n == Len(turns)
           ch == Shown.children
           whole == del.node = None
<1>1. /\ fresh \in Nat /\ serial \in Nat /\ n \in Nat /\ DOMAIN turns = 1 .. n
      /\ Grown(Shown, -fresh .. serial) /\ Nodes(Shown) \subseteq (-fresh .. serial) \ {0}
      /\ DOMAIN rows = 1 .. serial /\ DOMAIN rowOf \subseteq (-fresh .. serial) \ {0}
  BY UntangledFacts
<1>2. /\ leg.pc = "posting" /\ rows' = Inserted(rows, serial + 1, "user", None) /\ serial' = serial + 1
      /\ rowOf' = Put(rowOf, x, Lookup(rowOf, x, serial + 1))
      /\ turns' = Append(Stopped(turns), NewTurn(x, serial + 1))
      /\ leg' = [leg EXCEPT !.pc = "streaming", !.turn = n + 1]
      /\ UNCHANGED <<tree, fresh, del>>
  BY DEF Post
<1>3. Shown' = Shown
  BY <1>2 DEF Shown
<1>4. /\ x < 0 /\ x \notin DOMAIN rowOf /\ x \notin DOMAIN ch
      /\ \A i \in DOMAIN turns : IsOpen(turns[i]) => turns[i].node # x
      /\ whole => Root \in DOMAIN ch
  BY <1>2 DEF Untangled, Legs, ch
<1>5. x \in -fresh .. serial
  BY LegFacts DEF CInv
<1>6. rowOf' = Put(rowOf, x, serial + 1)
  BY <1>2, <1>4 DEF Lookup
<1>7. leg'.pc = "streaming" /\ leg'.turn = n + 1 /\ leg'.prompt = x
  <2>1. leg = [pc |-> leg.pc, turn |-> leg.turn, prompt |-> leg.prompt, node |-> leg.node]
    BY LegFacts DEF CInv
  <2>2. leg' = [pc |-> "streaming", turn |-> n + 1, prompt |-> leg.prompt, node |-> leg.node]
    BY <1>2, <2>1, LegSet
  <2>3. QED
    BY <2>2
<1> HIDE DEF x, ch
<1>8. /\ DOMAIN turns' = 1 .. n + 1 /\ turns'[n + 1] = NewTurn(x, serial + 1)
      /\ \A i \in 1 .. n : turns'[i] = Stopped(turns)[i]
  <2>1. TurnsFit(turns, serial)
    BY DEF CInv
  <2>2. TurnsFit(Stopped(turns), serial) /\ Len(Stopped(turns)) = n
    BY <2>1, StoppedFits
  <2>3. Stopped(turns) \in Seq(TurnOf(serial))
    BY <2>2 DEF TurnsFit
  <2> HIDE DEF TurnOf
  <2>4. QED
    BY <1>1, <1>2, <2>2, <2>3
<1>9. ASSUME NEW i \in 1 .. n, IsOpen(turns'[i])
      PROVE  /\ IsOpen(turns[i]) /\ turns'[i] = turns[i] /\ turns[i].phase = "stopped" /\ turns[i].row \in 1 .. serial
             /\ Prompted(turns[i], rows, rowOf) /\ Answered(turns[i], ch, rowOf, fresh, whole)
             /\ Served(i, turns[i], leg)
  <2>1. turns[i] = [phase |-> turns[i].phase, row |-> turns[i].row, prompt |-> turns[i].prompt,
                    node |-> turns[i].node, legs |-> turns[i].legs]
    BY <1>1, TurnFacts DEF CInv
  <2>2. turns'[i] = [turns[i] EXCEPT !.phase = IF @ = "running" THEN "stopped" ELSE @]
    BY <1>1, <1>8 DEF Stopped
  <2>3. IsOpen(turns[i])
    BY <1>9, <2>1, <2>2 DEF IsOpen
  <2>4. Prompted(turns[i], rows, rowOf) /\ Answered(turns[i], ch, rowOf, fresh, whole) /\ Served(i, turns[i], leg)
    BY <1>1, <2>3 DEF Untangled, Opens, ch
  <2>5. turns[i].phase = "stopped"
    BY <1>2, <2>3, <2>4 DEF IsOpen, Served
  <2>6. turns'[i] = turns[i]
    BY <2>1, <2>2, <2>5
  <2>7. turns[i].row \in 1 .. serial
    BY <2>4 DEF Prompted, Untangled, Named
  <2>8. QED
    BY <2>3, <2>4, <2>5, <2>6, <2>7
<1>10. /\ turns'[n + 1].phase = "running" /\ turns'[n + 1].row = serial + 1 /\ turns'[n + 1].prompt = x
       /\ turns'[n + 1].node = None /\ turns'[n + 1].legs = 0
  BY <1>8 DEF NewTurn
<1>11. /\ Straight(rows', serial') /\ rows'[serial + 1].parent = 0
       /\ \A k \in 1 .. serial : rows'[k] = rows[k] /\ rows'[k].parent \in 0 .. serial
       /\ DOMAIN rows' = 1 .. serial + 1 /\ Straight(rows, serial)
  <2>1. Straight(rows, serial) /\ None \in 0 .. serial /\ "user" \in Roles
    BY <1>1 DEF Untangled, None, Roles
  <2>2. Straight(rows', serial + 1) /\ rows'[serial + 1].parent = None /\ \A k \in 1 .. serial : rows'[k] = rows[k]
    BY <1>1, <1>2, <2>1, StraightInserted
  <2>3. \A k \in 1 .. serial : rows[k].parent \in 0 .. serial
    BY <1>1, <2>1, StraightFacts
  <2>4. DOMAIN rows' = 1 .. serial + 1
    <3>1. serial + 1 \in Nat
      BY <1>1
    <3>2. QED
      BY <2>2, <3>1, StraightFacts
  <2>5. QED
    BY <1>2, <2>1, <2>2, <2>3, <2>4 DEF None
<1>12. /\ Named(rowOf', fresh', serial') /\ DOMAIN rowOf' = DOMAIN rowOf \cup {x} /\ rowOf'[x] = serial + 1
       /\ \A y \in DOMAIN rowOf : rowOf'[y] = rowOf[y]
  <2>1. Named(rowOf', fresh, serial + 1)
    BY <1>1, <1>4, <1>5, <1>6, NamedGrows DEF Untangled
  <2>2. /\ DOMAIN rowOf' = DOMAIN rowOf \cup {x} /\ rowOf'[x] = serial + 1
        /\ \A y \in DOMAIN rowOf : rowOf'[y] = rowOf[y]
    BY <1>4, <1>6 DEF Put
  <2>3. QED
    BY <1>2, <2>1, <2>2
<1>13. \A y \in Nodes(Shown') : y > 0 => y \in DOMAIN rowOf'
  BY <1>3, <1>12 DEF Untangled
<1>14. Opens(turns', ch, rows', rowOf', fresh', leg', whole)
  <2>1. ASSUME NEW i \in 1 .. n, IsOpen(turns'[i])
        PROVE  /\ Prompted(turns'[i], rows', rowOf') /\ Answered(turns'[i], ch, rowOf', fresh', whole)
               /\ Served(i, turns'[i], leg')
    <3>1. Prompted(turns[i], rows', rowOf')
      <4>1. /\ turns[i].prompt < 0 /\ turns[i].prompt \in DOMAIN rowOf
            /\ rowOf[turns[i].prompt] = turns[i].row /\ turns[i].row # 0
            /\ \A k \in 1 .. serial : rows[k].parent # turns[i].row
        BY <1>1, <1>9, <2>1 DEF Prompted
      <4>2. \A k \in 1 .. serial + 1 : rows'[k].parent # turns[i].row
        <5>1. \A k \in 1 .. serial + 1 : k \in 1 .. serial \/ k = serial + 1
          BY <1>1
        <5>2. QED
          BY <1>11, <4>1, <5>1
      <4>3. QED
        BY <1>11, <1>12, <4>1, <4>2 DEF Prompted
    <3>2. Answered(turns[i], ch, rowOf', fresh', whole)
      <4>1. turns[i].node # x
        BY <1>1, <1>4, <1>9, <2>1
      <4>2. QED
        BY <1>2, <1>9, <1>12, <2>1, <4>1 DEF Answered
    <3>3. Served(i, turns[i], leg')
      BY <1>9, <2>1 DEF Served
    <3>4. QED
      BY <1>9, <2>1, <3>1, <3>2, <3>3
  <2>2. Prompted(turns'[n + 1], rows', rowOf')
    <3>1. \A k \in 1 .. serial + 1 : rows'[k].parent # serial + 1
      <4>1. \A k \in 1 .. serial + 1 : k \in 1 .. serial \/ k = serial + 1
        BY <1>1
      <4>2. serial + 1 \notin 0 .. serial /\ serial + 1 # 0
        BY <1>1
      <4>3. QED
        BY <1>11, <4>1, <4>2
    <3>2. QED
      BY <1>4, <1>10, <1>11, <1>12, <3>1 DEF Prompted
  <2>3. Answered(turns'[n + 1], ch, rowOf', fresh', whole)
    <3>1. None \notin DOMAIN rowOf' /\ 0 <= 0 /\ -fresh' <= 0
      BY <1>1, <1>2, <1>4, <1>12 DEF None
    <3>2. QED
      BY <1>4, <1>10, <3>1 DEF Answered, None
  <2>4. Served(n + 1, turns'[n + 1], leg')
    BY <1>7, <1>10 DEF Served
  <2>5. \A i \in DOMAIN turns' : i \in 1 .. n \/ i = n + 1
    BY <1>1, <1>8
  <2>6. QED
    BY <2>1, <2>2, <2>3, <2>4, <2>5 DEF Opens
<1>15. Apart(turns')
  <2>1. Apart(turns)
    BY DEF Untangled
  <2>2. \A i \in DOMAIN turns' : i \in 1 .. n \/ i = n + 1
    BY <1>1, <1>8
  <2>3. \A i \in 1 .. n : IsOpen(turns'[i]) => IsOpen(turns[i]) /\ turns'[i] = turns[i] /\ turns[i].row # serial + 1
    <3>1. serial + 1 \notin 1 .. serial
      BY <1>1
    <3>2. QED
      BY <1>9, <3>1
  <2>4. ASSUME NEW i \in DOMAIN turns', NEW j \in DOMAIN turns', i # j, IsOpen(turns'[i]), IsOpen(turns'[j])
        PROVE  turns'[i].row # turns'[j].row /\ (turns'[i].node = turns'[j].node => turns'[i].node = None)
    <3>1. CASE i \in 1 .. n /\ j \in 1 .. n
      BY <1>1, <2>1, <2>3, <2>4, <3>1 DEF Apart
    <3>2. CASE i = n + 1 \/ j = n + 1
      BY <1>10, <2>2, <2>3, <2>4, <3>2
    <3>3. QED
      BY <2>2, <3>1, <3>2
  <2>5. QED
    BY <2>4 DEF Apart
<1>16. Legs(leg', turns', ch, rowOf', whole)
  <2>1. n + 1 \in DOMAIN turns'
    BY <1>1, <1>8
  <2>2. QED
    BY <1>7, <1>10, <2>1 DEF Legs
<1>17. 0 \in 0 .. serial /\ "user" \in Roles /\ rows' = Inserted(rows, serial + 1, "user", 0)
  BY <1>1, <1>2 DEF Roles, None
<1>18. Named(rowOf, fresh, serial) /\ Located(ch, rows, rowOf) /\ RootFull(ch, rows, leg)
       /\ (whole => Leaves(ch, Nodes(Shown), rows, rowOf))
  BY DEF Untangled, ch
<1>19. Located(ch, rows', rowOf')
  <2>1. ASSUME NEW q \in DOMAIN ch, NEW j \in DOMAIN ch[q], RowFor(rowOf, q) = 0,
               Stands(rows', 0, serial + 1, j)
        PROVE  ch[q][j] = x
    <3>1. q = 0
      BY <1>1, <1>18, <2>1, RowForFacts
    <3>2. Lookup(ch, Root, << >>) = ch[q]
      BY <3>1 DEF Lookup, Root
    <3>3. CASE \E k \in DOMAIN rows : Stands(rows, Root, k, j)
      <4>1. PICK k \in 1 .. serial : Stands(rows, 0, k, j)
        BY <1>1, <3>3 DEF Root
      <4>2. j < j
        BY <1>1, <1>11, <1>17, <2>1, <4>1, StandsInserted
      <4>3. j \in Int
        BY <4>1, CountFacts DEF Stands
      <4>4. QED
        BY <4>2, <4>3
    <3>4. CASE ch[q] = <<leg.prompt>>
      BY <2>1, <3>4 DEF x
    <3>5. QED
      BY <1>18, <2>1, <3>2, <3>3, <3>4 DEF RootFull
  <2>2. QED
    BY <1>1, <1>4, <1>5, <1>6, <1>11, <1>17, <1>18, <2>1, LocatedInserted
<1>20. RootFull(ch, rows', leg')
  BY <1>1, <1>11, <1>17, <1>18, RootFullInserted
<1>21. whole => Leaves(ch, Nodes(Shown), rows', rowOf')
  <2>1. SUFFICES ASSUME whole PROVE Leaves(ch, Nodes(Shown), rows', rowOf')
    OBVIOUS
  <2>2. \A y \in {Root} \cup Nodes(Shown) : RowFor(rowOf, y) = 0 => y \in DOMAIN ch
    BY <1>1, <1>4, <1>18, <2>1, RowForFacts DEF Root
  <2>3. QED
    BY <1>1, <1>4, <1>5, <1>6, <1>11, <1>17, <1>18, <2>1, <2>2, LeavesInserted
<1>22. Aimed(del', rowOf')
  <2>1. Aimed(del, Put(rowOf, x, serial + 1))
    BY <1>4, AimedGrows DEF Untangled
  <2>2. QED
    BY <1>2, <1>6, <2>1
<1>23. QED
  BY <1>2, <1>3, <1>11, <1>12, <1>13, <1>14, <1>15, <1>16, <1>19, <1>20, <1>21, <1>22 DEF Untangled, ch

\* The first answer of the turn begins, under a prompt without children.
LEMMA MessageStartMatches ==
  ASSUME CInv, Untangled, NEW i \in DOMAIN turns, MessageStart(i), ~tangled'
  PROVE  Untangled'
<1> DEFINE x == NewId
           q == leg.prompt
           ch == Shown.children
           dh == Shown'.children
           whole == del.node = None
<1>1. /\ fresh \in Nat /\ serial \in Nat /\ Grown(Shown, -fresh .. serial) /\ (whole => Shown = tree)
      /\ DOMAIN ch \subseteq -fresh .. serial /\ Nodes(Shown) \subseteq (-fresh .. serial) \ {0}
      /\ DOMAIN rows = 1 .. serial /\ DOMAIN rowOf \subseteq (-fresh .. serial) \ {0}
  BY UntangledFacts
<1>2. turns[i].phase = "running" /\ turns[i].legs = 0 /\ IsOpen(turns[i])
  <2>1. turns[i].legs \in 0 .. MaxLegs
    BY TurnFacts DEF CInv
  <2>2. ~(turns[i].legs > 0) /\ turns[i].phase = "running"
    BY DEF MessageStart, Running
  <2>3. QED
    BY <2>1, <2>2, Bounds DEF IsOpen
<1>3. /\ Prompted(turns[i], rows, rowOf) /\ Answered(turns[i], ch, rowOf, fresh, whole)
      /\ leg.pc = "streaming" /\ leg.turn = i /\ q = turns[i].prompt
  BY <1>2 DEF Untangled, Opens, Served, Legs, ch
<1>4. /\ q < 0 /\ q \in DOMAIN rowOf /\ rowOf[q] = turns[i].row /\ q \notin DOMAIN ch
      /\ \A k \in DOMAIN rows : rows[k].parent # turns[i].row
  BY <1>2, <1>3 DEF Prompted, Answered
<1>5. /\ tree' = AddNode(tree, x, q, "assistant") /\ fresh' = fresh + 1
      /\ leg' = [leg EXCEPT !.node = x]
      /\ turns' = [turns EXCEPT ![i].legs = @ + 1, ![i].node = x]
      /\ UNCHANGED <<del, rows, serial, rowOf>> /\ x = -(fresh + 1)
  BY <1>3 DEF MessageStart, NewId
<1>6. leg'.pc = "streaming" /\ leg'.turn = i /\ leg'.prompt = q
  <2>1. leg = [pc |-> leg.pc, turn |-> leg.turn, prompt |-> leg.prompt, node |-> leg.node]
    BY LegFacts DEF CInv
  <2>2. leg' = [leg EXCEPT !.node = x]
    BY <1>5
  <2> HIDE DEF x
  <2>3. leg'.pc = leg.pc /\ leg'.turn = leg.turn /\ leg'.prompt = leg.prompt
    BY ONLY <2>1, <2>2
  <2>4. QED
    BY <1>3, <2>3
<1>7. x < -fresh /\ x < 0 /\ x \in Int /\ x \notin -fresh .. serial
  BY <1>1, <1>5
<1>8. ASSUME whole
      PROVE  /\ dh = Put(ch, q, <<x>>) /\ DOMAIN dh = DOMAIN ch \cup {q} /\ dh[q] = <<x>>
             /\ \A y \in DOMAIN ch : dh[y] = ch[y]
             /\ Nodes(Shown') = Nodes(Shown) \cup {x}
  <2>1. Shown = tree /\ Shown' = tree'
    BY <1>5, <1>8 DEF Shown
  <2>2. Grown(tree, -fresh .. serial) /\ q \notin DOMAIN tree.children
    BY <1>1, <1>4, <2>1
  <2> HIDE DEF x, q
  <2>3. /\ tree'.children = Put(tree.children, q, <<x>>) /\ Nodes(tree') = Nodes(tree) \cup {x}
        /\ DOMAIN tree'.children = DOMAIN tree.children \cup {q} /\ tree'.children[q] = <<x>>
        /\ \A y \in DOMAIN tree.children : tree'.children[y] = tree.children[y]
    BY <1>1, <1>5, <2>2, LeafGets
  <2>4. QED
    BY <2>1, <2>3
<1>9. ~whole => Shown' = Shown
  BY <1>5 DEF Shown
<1>10. /\ DOMAIN turns' = DOMAIN turns /\ \A j \in DOMAIN turns : j # i => turns'[j] = turns[j]
       /\ turns'[i].phase = "running" /\ turns'[i].row = turns[i].row /\ turns'[i].prompt = q
       /\ turns'[i].node = x /\ turns'[i].legs = 1
  <2> DEFINE t == turns[i]
             m == [t EXCEPT !.legs = @ + 1, !.node = x]
  <2>1. t = [phase |-> t.phase, row |-> t.row, prompt |-> t.prompt, node |-> t.node, legs |-> t.legs]
    BY TurnFacts DEF CInv
  <2>2. turns' = [turns EXCEPT ![i] = m]
    BY <1>5
  <2>3. t.phase = "running" /\ t.row = turns[i].row /\ t.prompt = q /\ t.legs = 0
    BY <1>2, <1>3
  <2> HIDE DEF t, q, x
  <2>4. m.phase = t.phase /\ m.row = t.row /\ m.prompt = t.prompt /\ m.node = x /\ m.legs = t.legs + 1
    BY ONLY <2>1
  <2> HIDE DEF m
  <2>5. QED
    BY <2>2, <2>3, <2>4
<1> HIDE DEF x, q, ch, dh
<1>11. Straight(rows', serial') /\ Named(rowOf', fresh', serial') /\ Aimed(del', rowOf')
  <2>1. Named(rowOf, fresh + 1, serial)
    <3>1. fresh + 1 \in Nat /\ fresh <= fresh + 1
      BY <1>1
    <3>2. QED
      BY <1>1, <3>1, NamedWidens DEF Untangled
  <2>2. QED
    BY <1>5, <2>1 DEF Untangled
<1>12. \A y \in Nodes(Shown') : y > 0 => y \in DOMAIN rowOf'
  <2>1. \A y \in Nodes(Shown) : y > 0 => y \in DOMAIN rowOf
    BY DEF Untangled
  <2>2. QED
    BY <1>5, <1>7, <1>8, <1>9, <2>1
<1>13. ASSUME NEW j \in DOMAIN turns, j # i, IsOpen(turns[j])
       PROVE  /\ Prompted(turns[j], rows, rowOf) /\ Answered(turns[j], ch, rowOf, fresh, whole)
              /\ Served(j, turns[j], leg) /\ turns[j].node \in Int
              /\ turns[j].row # turns[i].row /\ turns[j].prompt # q
  <2>1. Prompted(turns[j], rows, rowOf) /\ Answered(turns[j], ch, rowOf, fresh, whole) /\ Served(j, turns[j], leg)
    BY <1>13 DEF Untangled, Opens, ch
  <2>2. turns[j].row # turns[i].row
    BY <1>2, <1>13 DEF Untangled, Apart
  <2>3. turns[j].prompt # q
    BY <1>4, <2>1, <2>2 DEF Prompted
  <2>4. turns[j].node \in Int
    BY TurnFacts DEF CInv
  <2>5. QED
    BY <2>1, <2>2, <2>3, <2>4
<1>14. ASSUME NEW y, y # q
       PROVE  (y \in DOMAIN dh <=> y \in DOMAIN ch) /\ (y \in DOMAIN ch => dh[y] = ch[y])
  <2>1. CASE whole
    BY <1>8, <1>14, <2>1
  <2>2. CASE ~whole
    BY <1>9, <2>2 DEF ch, dh
  <2>3. QED
    BY <2>1, <2>2
<1>15. Opens(turns', dh, rows', rowOf', fresh', leg', whole)
  <2>1. ASSUME NEW j \in DOMAIN turns, j # i, IsOpen(turns[j])
        PROVE  Answered(turns[j], dh, rowOf, fresh + 1, whole) /\ Served(j, turns[j], leg')
    <3> DEFINE p == turns[j].prompt
    <3>1. /\ turns[j].node <= 0 /\ turns[j].node \notin DOMAIN rowOf
          /\ (turns[j].node = None <=> turns[j].legs = 0) /\ -fresh <= turns[j].node
          /\ (p \in DOMAIN ch => ch[p] = <<turns[j].node>> /\ turns[j].legs # 0)
          /\ (turns[j].legs # 0 /\ whole => p \in DOMAIN ch) /\ turns[j].node \in Int /\ p # q
      BY <1>13, <2>1 DEF Answered
    <3>2. -(fresh + 1) <= turns[j].node
      BY <1>1, <3>1
    <3>3. (p \in DOMAIN dh <=> p \in DOMAIN ch) /\ (p \in DOMAIN ch => dh[p] = ch[p])
      BY <1>14, <3>1
    <3>4. Answered(turns[j], dh, rowOf, fresh + 1, whole)
      BY <3>1, <3>2, <3>3 DEF Answered
    <3>5. Served(j, turns[j], leg)
      BY <1>13, <2>1
    <3>6. QED
      BY <1>3, <1>6, <3>4, <3>5 DEF Served
  <2>2. Prompted(turns'[i], rows, rowOf)
    BY <1>4, <1>10 DEF Prompted
  <2>3. Answered(turns'[i], dh, rowOf, fresh + 1, whole)
    <3>1. x <= 0 /\ -(fresh + 1) <= x /\ x \notin DOMAIN rowOf /\ x # 0
      BY <1>1, <1>5, <1>7
    <3>2. ~whole => q \notin DOMAIN dh
      BY <1>4, <1>9 DEF ch, dh
    <3>3. QED
      BY <1>8, <1>10, <3>1, <3>2 DEF Answered, None
  <2>4. Served(i, turns'[i], leg')
    BY <1>6, <1>10 DEF Served
  <2>5. ASSUME NEW j \in DOMAIN turns', IsOpen(turns'[j])
        PROVE  /\ Prompted(turns'[j], rows', rowOf') /\ Answered(turns'[j], dh, rowOf', fresh', whole)
               /\ Served(j, turns'[j], leg')
    <3>1. CASE j = i
      BY <1>5, <2>2, <2>3, <2>4, <3>1
    <3>2. CASE j # i
      BY <1>5, <1>10, <1>13, <2>1, <2>5, <3>2
    <3>3. QED
      BY <3>1, <3>2
  <2>6. QED
    BY <2>5 DEF Opens
<1>16. Apart(turns')
  <2>1. \A j \in DOMAIN turns : j # i /\ IsOpen(turns[j]) => turns[j].node # x /\ turns[j].row # turns[i].row
    <3>1. \A j \in DOMAIN turns : j # i /\ IsOpen(turns[j]) => -fresh <= turns[j].node /\ turns[j].node \in Int
      BY <1>13 DEF Answered
    <3>2. QED
      BY <1>1, <1>7, <1>13, <3>1
  <2>2. Apart(turns)
    BY DEF Untangled
  <2>3. ASSUME NEW j \in DOMAIN turns, NEW k \in DOMAIN turns, j # k, IsOpen(turns'[j]), IsOpen(turns'[k])
        PROVE  turns'[j].row # turns'[k].row /\ (turns'[j].node = turns'[k].node => turns'[j].node = None)
    <3>1. CASE j # i /\ k # i
      BY <1>10, <2>2, <2>3, <3>1 DEF Apart
    <3>2. CASE j = i \/ k = i
      BY <1>10, <2>1, <2>3, <3>2
    <3>3. QED
      BY <3>1, <3>2
  <2>4. QED
    BY <1>10, <2>3 DEF Apart
<1>17. Legs(leg', turns', dh, rowOf', whole)
  BY <1>6, <1>10 DEF Legs
<1>18. Located(ch, rows, rowOf) /\ RootFull(ch, rows, leg) /\ Straight(rows, serial)
       /\ (whole => Leaves(ch, Nodes(Shown), rows, rowOf))
  BY DEF Untangled, ch
<1>19. Located(dh, rows', rowOf')
  <2>1. CASE whole
    <3>1. RowFor(rowOf, q) = turns[i].row
      BY <1>4 DEF RowFor, Root, Lookup
    <3>2. Located(Put(ch, q, <<x>>), rows, rowOf)
      BY <1>4, <1>18, <3>1, LocatedGrows
    <3>3. QED
      BY <1>5, <1>8, <2>1, <3>2
  <2>2. CASE ~whole
    BY <1>5, <1>9, <1>18, <2>2 DEF ch, dh
  <2>3. QED
    BY <2>1, <2>2
<1>20. RootFull(dh, rows', leg')
  <2>1. Lookup(dh, Root, << >>) = Lookup(ch, Root, << >>)
    BY <1>4, <1>14 DEF Lookup, Root
  <2>2. leg.pc # "posting"
    BY <1>3
  <2>3. RootFull(dh, rows, leg')
    BY <1>18, <2>1, <2>2, RootFullKept
  <2>4. QED
    BY <1>5, <2>3
<1>21. whole => Leaves(dh, Nodes(Shown'), rows', rowOf')
  <2>1. SUFFICES ASSUME whole PROVE Leaves(dh, Nodes(Shown'), rows', rowOf')
    OBVIOUS
  <2>2. x # 0 /\ x \notin DOMAIN rowOf
    BY <1>1, <1>7
  <2>3. Leaves(Put(ch, q, <<x>>), Nodes(Shown) \cup {x}, rows, rowOf)
    BY <1>1, <1>18, <2>1, <2>2, LeavesGrow
  <2>4. QED
    BY <1>5, <1>8, <2>1, <2>3
<1>22. QED
  BY <1>5, <1>11, <1>12, <1>15, <1>16, <1>17, <1>19, <1>20, <1>21 DEF Untangled, dh

\* The turn ends: the client lets go of it.
LEMMA StopMatches == ASSUME CInv, Untangled, NEW i \in DOMAIN turns, Stop(i) PROVE Untangled'
<1> DEFINE ch == Shown.children
           whole == del.node = None
<1>1. /\ turns[i].phase = "running" /\ turns[i].legs > 0 /\ turns' = [turns EXCEPT ![i].phase = "stopped"]
      /\ leg' = (IF leg.turn = i THEN NoLeg ELSE leg)
      /\ UNCHANGED <<tree, fresh, del, rows, serial, rowOf>>
  BY DEF Stop, Running, ghosts
<1>2. IsOpen(turns[i])
  BY <1>1 DEF IsOpen
<1>3. leg.pc = "streaming" /\ leg.turn = i
  BY <1>1, <1>2 DEF Untangled, Opens, Served
<1>4. leg' = NoLeg /\ leg'.pc = "idle"
  BY <1>1, <1>3 DEF NoLeg
<1>5. Shown' = Shown
  BY <1>1 DEF Shown
<1>6. \A j \in DOMAIN turns : turns[j] = [phase |-> turns[j].phase, row |-> turns[j].row, prompt |-> turns[j].prompt,
                                          node |-> turns[j].node, legs |-> turns[j].legs]
  BY TurnFacts DEF CInv
<1>7. /\ DOMAIN turns' = DOMAIN turns /\ \A j \in DOMAIN turns : j # i => turns'[j] = turns[j]
      /\ turns'[i].phase = "stopped" /\ turns'[i].row = turns[i].row /\ turns'[i].prompt = turns[i].prompt
      /\ turns'[i].node = turns[i].node /\ turns'[i].legs = turns[i].legs
  <2>1. turns' = [turns EXCEPT ![i] = [turns[i] EXCEPT !.phase = "stopped"]]
    BY <1>1
  <2>2. QED
    BY <1>6, <2>1
<1> HIDE DEF ch
<1>8. ASSUME NEW j \in DOMAIN turns, IsOpen(turns'[j])
      PROVE  /\ IsOpen(turns[j]) /\ Prompted(turns'[j], rows, rowOf) /\ Answered(turns'[j], ch, rowOf, fresh, whole)
             /\ Served(j, turns'[j], leg')
  <2>1. IsOpen(turns[j])
    BY <1>2, <1>7, <1>8
  <2>2. Prompted(turns[j], rows, rowOf) /\ Answered(turns[j], ch, rowOf, fresh, whole) /\ Served(j, turns[j], leg)
    BY <2>1 DEF Untangled, Opens, ch
  <2>3. Prompted(turns'[j], rows, rowOf) /\ Answered(turns'[j], ch, rowOf, fresh, whole)
    BY <1>7, <2>2 DEF Prompted, Answered
  <2>4. CASE j = i
    BY <1>1, <1>7, <2>1, <2>3, <2>4 DEF Served
  <2>5. CASE j # i
    BY <1>3, <1>7, <2>1, <2>2, <2>3, <2>5 DEF Served
  <2>6. QED
    BY <2>4, <2>5
<1>9. Opens(turns', ch, rows', rowOf', fresh', leg', whole)
  BY <1>1, <1>7, <1>8 DEF Opens
<1>10. Apart(turns')
  BY <1>7, <1>8 DEF Untangled, Apart
<1>11. Legs(leg', turns', ch, rowOf', whole)
  BY <1>4 DEF Legs
<1>12. RootFull(ch, rows', leg')
  <2>1. RootFull(ch, rows, leg) /\ leg.pc # "posting"
    BY <1>3 DEF Untangled, ch
  <2>2. RootFull(ch, rows, leg')
    BY <2>1, RootFullKept
  <2>3. QED
    BY <1>1, <2>2
<1>13. QED
  BY <1>1, <1>5, <1>9, <1>10, <1>11, <1>12 DEF Untangled, ch

\* The answer is saved: its row is the first under the row of its prompt, as the
\* node is under the prompt.
LEMMA PersistMatches ==
  ASSUME CInv, Untangled, NEW i \in DOMAIN turns, NEW ok \in BOOLEAN, Persist(i, ok), ~tangled'
  PROVE  Untangled'
<1> DEFINE x == turns[i].node
           p == turns[i].row
           n == Len(turns)
           ch == Shown.children
           whole == del.node = None
<1>1. /\ fresh \in Nat /\ serial \in Nat /\ n \in Nat /\ DOMAIN turns = 1 .. n
      /\ Grown(Shown, -fresh .. serial) /\ Nodes(Shown) \subseteq (-fresh .. serial) \ {0}
      /\ DOMAIN rows = 1 .. serial /\ DOMAIN rowOf \subseteq (-fresh .. serial) \ {0}
      /\ Len(rows) = serial
  BY UntangledFacts
<1>2. /\ turns[i].phase = "stopped" /\ Release(i)
      /\ rows' = Inserted(rows, serial + 1, "assistant", p) /\ serial' = serial + 1
      /\ rowOf' = (IF x = None THEN rowOf ELSE Put(rowOf, x, serial + 1))
      /\ turns' = [turns EXCEPT ![i].phase = "saved"]
      /\ del' = del
  BY DEF Persist
<1>3. IsOpen(turns[i])
  BY <1>2 DEF IsOpen
<1>4. Prompted(turns[i], rows, rowOf) /\ Answered(turns[i], ch, rowOf, fresh, whole) /\ Served(i, turns[i], leg)
  BY <1>3 DEF Untangled, Opens, ch
<1>5. /\ turns[i].prompt < 0 /\ turns[i].prompt \in DOMAIN rowOf /\ rowOf[turns[i].prompt] = p
      /\ x <= 0 /\ -fresh <= x /\ x \notin DOMAIN rowOf /\ x # None
      /\ (turns[i].prompt \in DOMAIN ch => ch[turns[i].prompt] = <<x>>)
      /\ (whole => turns[i].prompt \in DOMAIN ch)
  BY <1>2, <1>4 DEF Prompted, Answered, Served
<1>6. UNCHANGED <<tree, fresh, leg>>
  <2>1. leg.turn # i
    <3>1. CASE leg.pc = "streaming"
      <4>1. turns[leg.turn].phase = "running"
        BY <3>1 DEF Untangled, Legs
      <4>2. QED
        BY <1>2, <4>1
    <3>2. CASE leg.pc # "streaming"
      <4>1. leg.pc \in {"idle", "posting"}
        BY <3>2, LegFacts DEF Untangled, Legs, CInv
      <4>2. leg.turn = 0
        BY <4>1 DEF Untangled, Legs, NoLeg
      <4>3. QED
        BY <1>1, <4>2
    <3>3. QED
      BY <3>1, <3>2
  <2>2. QED
    BY <1>2, <2>1 DEF Release
<1>7. Shown' = Shown
  BY <1>2, <1>6 DEF Shown
<1>8. /\ \A j \in DOMAIN turns : j # i => turns'[j] = turns[j]
      /\ DOMAIN turns' = DOMAIN turns /\ turns'[i].phase = "saved"
  <2>1. turns[i] = [phase |-> turns[i].phase, row |-> turns[i].row, prompt |-> turns[i].prompt,
                    node |-> turns[i].node, legs |-> turns[i].legs]
    BY TurnFacts DEF CInv
  <2>2. turns' = [turns EXCEPT ![i] = [turns[i] EXCEPT !.phase = "saved"]]
    BY <1>2
  <2>3. QED
    BY <2>1, <2>2
<1>9. x < 0 /\ x \in -fresh .. serial
  <2>1. x \in Int
    BY TurnFacts DEF CInv
  <2>2. QED
    BY <1>1, <1>5, <2>1 DEF None
<1>10. rowOf' = Put(rowOf, x, serial + 1)
  BY <1>2, <1>5
<1>11. p \in 1 .. serial
  BY <1>5 DEF Untangled, Named
<1> HIDE DEF x, p, ch
<1>12. ASSUME NEW j \in DOMAIN turns, IsOpen(turns'[j])
       PROVE  /\ j # i /\ IsOpen(turns[j]) /\ turns'[j] = turns[j]
              /\ Prompted(turns[j], rows, rowOf) /\ Answered(turns[j], ch, rowOf, fresh, whole)
              /\ Served(j, turns[j], leg) /\ turns[j].row # p /\ turns[j].node # x
  <2>1. j # i /\ IsOpen(turns[j]) /\ turns'[j] = turns[j]
    BY <1>8, <1>12 DEF IsOpen
  <2>2. Prompted(turns[j], rows, rowOf) /\ Answered(turns[j], ch, rowOf, fresh, whole) /\ Served(j, turns[j], leg)
    BY <2>1 DEF Untangled, Opens, ch
  <2>3. turns[j].row # p /\ turns[j].node # x
    BY <1>3, <1>5, <2>1 DEF Untangled, Apart, x, p
  <2>4. QED
    BY <2>1, <2>2, <2>3
<1>13. "assistant" \in Roles /\ p \in 0 .. serial /\ p # 0 /\ serial # 0
  BY <1>1, <1>11 DEF Roles
<1>14. Straight(rows, serial) /\ Named(rowOf, fresh, serial) /\ Located(ch, rows, rowOf) /\ RootFull(ch, rows, leg)
       /\ (whole => Leaves(ch, Nodes(Shown), rows, rowOf))
  BY DEF Untangled, ch
<1>15. /\ Straight(rows', serial') /\ rows'[serial + 1].parent = p
       /\ \A k \in 1 .. serial : rows'[k] = rows[k]
       /\ DOMAIN rows' = 1 .. serial + 1
  <2>1. Straight(rows', serial + 1) /\ rows'[serial + 1].parent = p /\ \A k \in 1 .. serial : rows'[k] = rows[k]
    BY <1>1, <1>2, <1>13, <1>14, StraightInserted
  <2>2. DOMAIN rows' = 1 .. serial + 1
    <3>1. serial + 1 \in Nat
      BY <1>1
    <3>2. QED
      BY <2>1, <3>1, StraightFacts
  <2>3. QED
    BY <1>2, <2>1, <2>2
<1>16. /\ Named(rowOf', fresh', serial') /\ DOMAIN rowOf' = DOMAIN rowOf \cup {x}
       /\ \A y \in DOMAIN rowOf : rowOf'[y] = rowOf[y]
  <2>1. Named(rowOf', fresh, serial + 1)
    BY <1>1, <1>5, <1>9, <1>10, <1>14, NamedGrows
  <2>2. /\ DOMAIN rowOf' = DOMAIN rowOf \cup {x}
        /\ \A y \in DOMAIN rowOf : rowOf'[y] = rowOf[y]
    BY <1>5, <1>10 DEF Put
  <2>3. QED
    BY <1>2, <1>6, <2>1, <2>2
<1>17. \A y \in Nodes(Shown') : y > 0 => y \in DOMAIN rowOf'
  BY <1>7, <1>16 DEF Untangled
<1>18. Opens(turns', ch, rows', rowOf', fresh', leg', whole)
  <2>1. ASSUME NEW j \in DOMAIN turns, IsOpen(turns'[j])
        PROVE  Prompted(turns[j], rows', rowOf') /\ Answered(turns[j], ch, rowOf', fresh, whole)
    <3>1. Prompted(turns[j], rows', rowOf')
      <4>1. /\ turns[j].prompt < 0 /\ turns[j].prompt \in DOMAIN rowOf
            /\ rowOf[turns[j].prompt] = turns[j].row /\ turns[j].row # p
            /\ \A k \in 1 .. serial : rows[k].parent # turns[j].row
        BY <1>1, <1>12, <2>1 DEF Prompted
      <4>2. \A k \in 1 .. serial + 1 : rows'[k].parent # turns[j].row
        <5>1. \A k \in 1 .. serial + 1 : k \in 1 .. serial \/ k = serial + 1
          BY <1>1
        <5>2. QED
          BY <1>15, <4>1, <5>1
      <4>3. QED
        BY <1>15, <1>16, <4>1, <4>2 DEF Prompted
    <3>2. Answered(turns[j], ch, rowOf', fresh, whole)
      BY <1>12, <1>16, <2>1 DEF Answered
    <3>3. QED
      BY <3>1, <3>2
  <2>2. QED
    BY <1>6, <1>8, <1>12, <2>1 DEF Opens
<1>19. Apart(turns')
  BY <1>8, <1>12 DEF Untangled, Apart
<1>20. Legs(leg', turns', ch, rowOf', whole)
  <2>1. Legs(leg, turns, ch, rowOf, whole)
    BY DEF Untangled, ch
  <2>2. leg.pc = "posting" => leg.prompt # x
    BY <1>3, <2>1 DEF Legs, x
  <2>3. leg.pc = "posting" =>
          /\ leg.prompt \notin DOMAIN rowOf'
          /\ \A j \in DOMAIN turns' : IsOpen(turns'[j]) => turns'[j].node # leg.prompt
    BY <1>8, <1>12, <1>16, <2>1, <2>2 DEF Legs
  <2>4. leg.pc = "streaming" =>
          leg.turn \in DOMAIN turns' /\ turns'[leg.turn].phase = "running" /\ leg.prompt = turns'[leg.turn].prompt
    <3>1. leg.pc = "streaming" => leg.turn # i
      BY <1>2, <2>1 DEF Legs
    <3>2. QED
      BY <1>8, <2>1, <3>1 DEF Legs
  <2>5. QED
    BY <1>6, <2>1, <2>3, <2>4 DEF Legs
<1>21. Located(ch, rows', rowOf')
  <2>1. RowFor(rowOf, turns[i].prompt) = p
    BY <1>5, <1>1, <1>14, RowForFacts DEF p, x, ch
  <2>2. ASSUME NEW q \in DOMAIN ch, NEW j \in DOMAIN ch[q], RowFor(rowOf, q) = p,
               Stands(rows', p, serial + 1, j)
        PROVE  ch[q][j] = x
    <3>1. q = turns[i].prompt
      <4>1. p # -1
        BY <1>11, <1>1
      <4>2. QED
        BY <1>1, <1>14, <2>1, <2>2, <4>1, RowForFacts
    <3>2. ch[q] = <<x>>
      BY <1>5, <2>2, <3>1
    <3>3. QED
      BY <2>2, <3>2
  <2>3. QED
    BY <1>1, <1>2, <1>5, <1>9, <1>10, <1>13, <1>14, <2>2, LocatedInserted
<1>22. RootFull(ch, rows', leg')
  <2>1. rows # << >>
    BY <1>1, <1>13
  <2>2. QED
    BY <1>1, <1>2, <1>13, <1>14, <2>1, RootFullInserted
<1>23. whole => Leaves(ch, Nodes(Shown), rows', rowOf')
  <2>1. SUFFICES ASSUME whole PROVE Leaves(ch, Nodes(Shown), rows', rowOf')
    OBVIOUS
  <2>2. ASSUME NEW y \in {Root} \cup Nodes(Shown), RowFor(rowOf, y) = p PROVE y \in DOMAIN ch
    <3>1. RowFor(rowOf, turns[i].prompt) = p
      BY <1>5, <1>1, <1>14, RowForFacts DEF p, x, ch
    <3>2. p # -1
      BY <1>11, <1>1
    <3>3. y = turns[i].prompt
      BY <1>1, <1>14, <2>2, <3>1, <3>2, RowForFacts
    <3>4. QED
      BY <1>5, <2>1, <3>3
  <2>3. QED
    BY <1>1, <1>2, <1>5, <1>9, <1>10, <1>13, <1>14, <2>1, <2>2, LeavesInserted
<1>24. Aimed(del', rowOf')
  <2>1. Aimed(del, Put(rowOf, x, serial + 1))
    BY <1>5, AimedGrows DEF Untangled
  <2>2. QED
    BY <1>2, <1>10, <2>1
<1>25. QED
  BY <1>2, <1>7, <1>15, <1>16, <1>17, <1>18, <1>19, <1>20, <1>21, <1>22, <1>23, <1>24 DEF Untangled, ch

\* A page that has just been loaded shows each row where it stands.
LEMMA PageMatches ==
  ASSUME serial \in Nat, Straight(rows, serial), NEW t, t = Restored(FirstPage),
         NEW ro, ro = [id \in RowIds |-> id], NEW l
  PROVE  /\ Named(ro, 0, serial) /\ \A x \in Nodes(t) : x > 0 => x \in DOMAIN ro
         /\ Located(t.children, rows, ro) /\ RootFull(t.children, rows, l)
         /\ Leaves(t.children, Nodes(t), rows, ro)
<1> DEFINE m == IF serial < Page THEN serial ELSE Page
           ps == SubSeq(rows, 1, m)
           ch == Restored(ps).children
<1>1. Len(rows) = serial /\ DOMAIN rows = 1 .. serial /\ \A k \in 1 .. serial : rows[k].id = k
  BY StraightFacts
<1>2. m \in Nat /\ m = IF serial < Page THEN serial ELSE Page
  BY Bounds
<1>3. t = Restored(ps) /\ ps = SubSeq(rows, 1, m) /\ ch = Restored(ps).children
  BY <1>1 DEF FirstPage, Oldest
<1>4. DOMAIN ro = 1 .. serial /\ \A k \in 1 .. serial : ro[k] = k
  BY <1>1 DEF RowIds
<1> HIDE DEF m, ps, ch
<1> USE <1>2, <1>3, <1>4
<1>5. /\ Len(rows) = serial /\ DOMAIN rows = 1 .. serial /\ RowsFit(rows, serial) /\ rows \in Seq(RowOf(serial))
      /\ \A k \in 1 .. serial : rows[k].id = k /\ rows[k].parent \in 0 .. serial /\ rows[k].parent < k
  BY StraightFacts DEF RowsFit
<1>6. m <= serial /\ m <= Page /\ \A k \in 1 .. serial : k <= Page => k \in 1 .. m
  BY <1>2, Bounds
<1>7. /\ Len(ps) = m /\ DOMAIN ps = 1 .. m /\ \A k \in 1 .. m : ps[k] = rows[k]
  BY <1>5, <1>6
<1>8. Straight(ps, m)
  <2>1. RowsFit(ps, serial)
    BY <1>5, <1>6, PageFits
  <2>2. ps \in Seq(RowOf(serial)) /\ (\A i \in DOMAIN ps : ps[i].parent < ps[i].id)
        /\ \A i, j \in DOMAIN ps : i < j => ps[i].id < ps[j].id
    BY <2>1 DEF RowsFit
  <2>3. \A k \in 1 .. m : k \in 1 .. serial
    BY <1>6
  <2>4. \A k \in 1 .. m : ps[k].id = k /\ ps[k].parent \in 0 .. m
    <3>1. ASSUME NEW k \in 1 .. m PROVE ps[k].id = k /\ ps[k].parent \in 0 .. serial /\ ps[k].parent < k
      BY <1>5, <1>7, <2>3
    <3>2. QED
      BY <1>6, <3>1
  <2>5. ASSUME NEW k \in 1 .. m PROVE ps[k] \in RowOf(m)
    <3>1. ps[k] \in RowOf(serial)
      BY <1>7, <2>2
    <3>2. ps[k].id \in 1 .. m /\ ps[k].parent \in 0 .. m
      BY <2>4
    <3>3. QED
      BY <3>1, <3>2 DEF RowOf
  <2>6. ps \in Seq(RowOf(m))
    <3>1. ps = [k \in 1 .. m |-> ps[k]]
      BY <1>7, <2>2
    <3>2. ps \in [1 .. m -> RowOf(m)] /\ m \in Nat
      BY <2>5, <3>1
    <3>3. QED
      BY ONLY <3>2
  <2>7. QED
    BY <1>7, <2>2, <2>4, <2>6 DEF Straight, RowsFit
<1>9. Hung(Restored(ps), ps, m)
  BY <1>8, RestoredHangs
<1>10. Grown(Restored(ps), 0 .. m)
  BY <1>8, RestoredIsGrown DEF Straight
<1>11. /\ DOMAIN ch \subseteq 0 .. m /\ \A q \in DOMAIN ch : ch[q] # << >>
      /\ \A p : ChildrenOf(Restored(ps), p) = Lookup(ch, p, << >>)
  BY <1>10 DEF Grown, Forest, ChildrenOf
<1>12. ASSUME NEW p
      PROVE  /\ \A k \in 1 .. m : rows[k].parent = p =>
                  Count(rows, p, k) \in DOMAIN Lookup(ch, p, << >>) /\ Lookup(ch, p, << >>)[Count(rows, p, k)] = k
             /\ \A j \in DOMAIN Lookup(ch, p, << >>) :
                  \E k \in 1 .. m : rows[k].parent = p /\ Count(rows, p, k) = j
  <2>1. ASSUME NEW k \in 1 .. m PROVE Count(ps, p, k) = Count(rows, p, k) /\ ps[k].parent = rows[k].parent
    <3>1. k \in Nat /\ \A j \in 1 .. k : ps[j] = rows[j]
      BY <1>7
    <3>2. Count(ps, p, k) = Count(rows, p, k)
      BY ONLY <3>1, CountOfAgreeing
    <3>3. QED
      BY <1>7, <3>2
  <2>2. HangsUnder(Restored(ps), ps, m, p)
    BY <1>9 DEF Hung
  <2>3. QED
    BY <1>11, <2>1, <2>2 DEF HangsUnder
<1>13. \A q \in 0 .. serial : RowFor(ro, q) = q
  <2>1. DOMAIN ro = 1 .. serial /\ \A q \in 1 .. serial : ro[q] = q
    OBVIOUS
  <2>2. \A q \in 0 .. serial : q = 0 \/ q \in 1 .. serial
    OBVIOUS
  <2>3. QED
    BY <2>1, <2>2 DEF RowFor, Root, Lookup
<1>14. Nodes(Restored(ps)) = 1 .. m
  BY <1>9 DEF Hung
<1>15. Named(ro, 0, serial)
  BY DEF Named
<1>16. Located(ch, rows, ro)
  <2>1. ASSUME NEW q \in DOMAIN ch, NEW j \in DOMAIN ch[q], NEW k \in DOMAIN rows,
               Stands(rows, RowFor(ro, q), k, j)
        PROVE  RowFor(ro, ch[q][j]) = k
    <3>1. q \in 0 .. serial /\ RowFor(ro, q) = q /\ Lookup(ch, q, << >>) = ch[q]
      BY <1>6, <1>11, <1>13 DEF Lookup
    <3>2. k \in 1 .. m /\ rows[k].parent = q /\ Count(rows, q, k) = j
      BY <1>5, <1>6, <2>1, <3>1 DEF Stands
    <3>3. ch[q][j] = k
      BY <1>12, <3>1, <3>2
    <3>4. k \in 0 .. serial
      BY <1>6, <3>2
    <3>5. QED
      BY <1>13, <3>3, <3>4
  <2>2. QED
    BY <2>1 DEF Located
<1>17. RootFull(ch, rows, l)
  <2>1. ASSUME NEW j \in DOMAIN Lookup(ch, Root, << >>)
        PROVE  \E k \in DOMAIN rows : Stands(rows, Root, k, j)
    <3>1. PICK k \in 1 .. m : rows[k].parent = Root /\ Count(rows, Root, k) = j
      BY <1>12
    <3>2. k \in DOMAIN rows /\ k <= Page
      BY <1>5, <1>6, Bounds
    <3>3. QED
      BY <3>1, <3>2 DEF Stands
  <2>2. QED
    BY <2>1 DEF RootFull
<1>18. Leaves(ch, 1 .. m, rows, ro)
  <2>1. ASSUME NEW x \in {Root} \cup 1 .. m, x \notin DOMAIN ch, NEW k \in DOMAIN rows, k <= Page
        PROVE  rows[k].parent # RowFor(ro, x)
    <3>1. x \in 0 .. serial /\ RowFor(ro, x) = x
      BY <1>6, <1>13 DEF Root
    <3>2. k \in 1 .. m
      BY <1>5, <1>6, <2>1
    <3>3. Lookup(ch, x, << >>) = << >> /\ DOMAIN << >> = {}
      BY <2>1 DEF Lookup
    <3>4. QED
      BY <1>12, <3>1, <3>2, <3>3
  <2>2. QED
    BY <2>1 DEF Leaves
<1>19. \A x \in Nodes(t) : x \in DOMAIN ro
  <2>1. 1 .. m \subseteq 1 .. serial
    BY <1>6
  <2>2. QED
    BY <1>3, <1>4, <1>14, <2>1
<1>20. QED
  BY <1>3, <1>14, <1>15, <1>16, <1>17, <1>18, <1>19 DEF ch

\* A new page while nothing is under way.
LEMMA ReloadMatches == ASSUME CInv, Untangled, Reload, ~tangled' PROVE Untangled'
<1>1. fresh \in Nat /\ serial \in Nat /\ Straight(rows, serial)
  BY Parts DEF Untangled
<1>2. \A i \in DOMAIN turns : turns[i].phase \notin {"running", "stopped"}
  BY DEF Reload
<1>3. /\ tree' = Restored(FirstPage) /\ fresh' = 0 /\ leg' = NoLeg
      /\ rowOf' = [id \in RowIds |-> id]
      /\ turns' = [j \in DOMAIN turns |-> [turns[j] EXCEPT !.node = None]]
      /\ del' = (IF del.pc = "deleting" THEN [del EXCEPT !.node = None] ELSE NoDelete)
      /\ UNCHANGED <<rows, serial>>
  BY <1>2 DEF Reload, LeftOfDelete
<1>4. del'.node = None /\ Aimed(del', rowOf')
  <2>1. CASE del.pc = "deleting"
    <3>1. del = [pc |-> del.pc, node |-> del.node, target |-> del.target, todo |-> del.todo,
                 chain |-> del.chain, snapshot |-> del.snapshot]
      BY DelFacts DEF CInv
    <3>2. del' = [del EXCEPT !.node = None]
      BY <1>3, <2>1
    <3>3. del'.node = None /\ del'.pc = "deleting" /\ del'.todo = del.todo
      BY <2>1, <3>1, <3>2
    <3>4. del.todo # {}
      BY <2>1 DEF Untangled, Aimed
    <3>5. QED
      BY <3>3, <3>4 DEF Aimed
  <2>2. CASE del.pc # "deleting"
    <3>1. del' = NoDelete
      BY <1>3, <2>2
    <3>2. QED
      BY <3>1 DEF NoDelete, Aimed
  <2>3. QED
    BY <2>1, <2>2
<1>5. Shown' = tree'
  BY <1>4 DEF Shown
<1>6. \A i \in DOMAIN turns' : ~IsOpen(turns'[i])
  <2>1. ASSUME NEW i \in DOMAIN turns PROVE turns'[i].phase = turns[i].phase
    <3>1. turns[i] = [phase |-> turns[i].phase, row |-> turns[i].row, prompt |-> turns[i].prompt,
                      node |-> turns[i].node, legs |-> turns[i].legs]
      BY TurnFacts DEF CInv
    <3>2. turns'[i] = [turns[i] EXCEPT !.node = None]
      BY <1>3
    <3>3. QED
      BY <3>1, <3>2
  <2>2. DOMAIN turns' = DOMAIN turns
    BY <1>3
  <2>3. QED
    BY <1>2, <2>1, <2>2 DEF IsOpen
<1>7. /\ Named(rowOf', 0, serial) /\ \A x \in Nodes(tree') : x > 0 => x \in DOMAIN rowOf'
      /\ Located(tree'.children, rows, rowOf') /\ RootFull(tree'.children, rows, leg')
      /\ Leaves(tree'.children, Nodes(tree'), rows, rowOf')
  BY <1>1, <1>3, PageMatches
<1>8. Opens(turns', Shown'.children, rows', rowOf', fresh', leg', del'.node = None) /\ Apart(turns')
  BY <1>6 DEF Opens, Apart
<1>9. Legs(leg', turns', Shown'.children, rowOf', del'.node = None)
  BY <1>3 DEF Legs, NoLeg
<1>10. QED
  BY <1>1, <1>3, <1>4, <1>5, <1>7, <1>8, <1>9 DEF Untangled

\* The state the page opens in.
LEMMA InitMatches == ASSUME Init PROVE Untangled
<1>1. PICK m \in Imported : rows = ImportedRows(m) /\ serial = m
  BY DEF Init
<1>2. serial \in Nat
  BY <1>1, Bounds
<1>3. Straight(rows, serial)
  <2>1. RowsFit(rows, serial)
    BY <1>1, <1>2, ImportedFits
  <2>2. DOMAIN rows = 1 .. serial /\ \A k \in 1 .. serial : rows[k].id = k
    BY <1>1 DEF ImportedRows
  <2>3. Len(rows) = serial
    <3>1. rows \in Seq(RowOf(serial))
      BY <2>1 DEF RowsFit
    <3> HIDE DEF RowOf
    <3>2. Len(rows) \in Nat /\ DOMAIN rows = 1 .. Len(rows)
      BY <3>1
    <3>3. QED
      BY <1>2, <2>2, <3>2
  <2>4. QED
    BY <2>1, <2>2, <2>3 DEF Straight
<1>4. /\ tree = Restored(FirstPage) /\ fresh = 0 /\ leg = NoLeg /\ turns = << >> /\ del = NoDelete
      /\ rowOf = [id \in RowIds |-> id]
  BY DEF Init
<1>5. del.node = None /\ Aimed(del, rowOf)
  BY <1>4 DEF NoDelete, Aimed
<1>6. Shown = tree
  BY <1>5 DEF Shown
<1>7. /\ Named(rowOf, 0, serial) /\ \A x \in Nodes(tree) : x > 0 => x \in DOMAIN rowOf
      /\ Located(tree.children, rows, rowOf) /\ RootFull(tree.children, rows, leg)
      /\ Leaves(tree.children, Nodes(tree), rows, rowOf)
  BY <1>2, <1>3, <1>4, PageMatches
<1>8. Opens(turns, Shown.children, rows, rowOf, fresh, leg, del.node = None) /\ Apart(turns)
  BY <1>4 DEF Opens, Apart
<1>9. Legs(leg, turns, Shown.children, rowOf, del.node = None)
  BY <1>4 DEF Legs, NoLeg
<1>10. QED
  BY <1>3, <1>4, <1>5, <1>6, <1>7, <1>8, <1>9 DEF Untangled

\* A message is deleted from the screen: the tree that was shown is kept.
LEMMA DeleteMatches == ASSUME CInv, Untangled, NEW id \in OnScreen, Delete(id) PROVE Untangled'
<1>1. /\ del = NoDelete
      /\ del' = [pc |-> IF id < 0 THEN "resolving" ELSE "asking", node |-> id,
                 target |-> IF id < 0 THEN None ELSE id, todo |-> {},
                 chain |-> IF id < 0 THEN Indices(tree, id) ELSE << >>, snapshot |-> tree]
      /\ UNCHANGED <<fresh, leg, rows, serial, turns, rowOf>>
  BY DEF Delete, server, ghosts
<1>2. id \in Nodes(tree) /\ id # None /\ id \in Int
  BY Parts DEF None
<1>3. del.node = None /\ Shown = tree
  BY <1>1 DEF NoDelete, Shown
<1>4. /\ del'.pc = (IF id < 0 THEN "resolving" ELSE "asking") /\ del'.node = id
      /\ del'.target = (IF id < 0 THEN None ELSE id) /\ del'.snapshot = tree
      /\ del'.chain = (IF id < 0 THEN Indices(tree, id) ELSE << >>)
  BY <1>1
<1>5. Shown' = Shown /\ del'.node # None
  BY <1>2, <1>3, <1>4 DEF Shown
<1>6. Aimed(del', rowOf')
  <2>1. id > 0 => id \in DOMAIN rowOf /\ rowOf[id] = id
    BY <1>2, <1>3 DEF Untangled, Named
  <2>2. CASE id < 0
    BY <1>2, <1>4, <2>2 DEF Aimed
  <2>3. CASE ~(id < 0)
    BY <1>1, <1>2, <1>4, <2>1, <2>3 DEF Aimed, None
  <2>4. QED
    BY <2>2, <2>3
<1>7. Opens(turns', Shown'.children, rows', rowOf', fresh', leg', del'.node = None)
  <2>1. Opens(turns, Shown.children, rows, rowOf, fresh, leg, TRUE)
    BY <1>3 DEF Untangled
  <2>2. Opens(turns, Shown.children, rows, rowOf, fresh, leg, FALSE)
    BY <2>1 DEF Opens, Answered
  <2>3. QED
    BY <1>1, <1>5, <2>2
<1>8. Legs(leg', turns', Shown'.children, rowOf', del'.node = None)
  <2>1. Legs(leg, turns, Shown.children, rowOf, TRUE)
    BY <1>3 DEF Untangled
  <2>2. Legs(leg, turns, Shown.children, rowOf, FALSE)
    BY <2>1 DEF Legs
  <2>3. QED
    BY <1>1, <1>5, <2>2
<1>9. QED
  BY <1>1, <1>5, <1>6, <1>7, <1>8 DEF Untangled

\* The deletion goes on with the same node and the same tree.
LEMMA AimMatches ==
  ASSUME Untangled, del'.node = del.node, del'.snapshot = del.snapshot, Aimed(del', rowOf),
         UNCHANGED <<tree, fresh, leg, rows, serial, turns, rowOf>>
  PROVE  Untangled'
<1>1. Shown' = Shown
  BY DEF Shown
<1>2. QED
  BY <1>1 DEF Untangled

\* resolveServerMessageId: the row that is found is that of the node.
LEMMA ResolveMatches == ASSUME CInv, Untangled, Resolve, ~tangled' PROVE Untangled'
<1> DEFINE r == RowAt(del.chain)
<1>1. /\ del.pc = "resolving" /\ r \in RowIds /\ del' = [del EXCEPT !.pc = "asking", !.target = r]
      /\ UNCHANGED <<tree, fresh, leg, rows, serial, turns, rowOf>>
  BY DEF Resolve, RollBack, server
<1> HIDE DEF r
<1>2. del'.pc = "asking" /\ del'.target = r /\ del'.node = del.node /\ del'.snapshot = del.snapshot
  <2>1. del = [pc |-> del.pc, node |-> del.node, target |-> del.target, todo |-> del.todo,
               chain |-> del.chain, snapshot |-> del.snapshot]
    BY DelFacts DEF CInv
  <2>2. QED
    BY ONLY <1>1, <2>1
<1>3. /\ fresh \in Nat /\ serial \in Nat /\ Grown(Shown, -fresh .. serial)
      /\ IsFiniteSet(-fresh .. serial) /\ -fresh .. serial \subseteq Int
  BY UntangledFacts, Parts
<1>4. /\ del.chain = Indices(del.snapshot, del.node) /\ del.node < 0 /\ del.node \in Nodes(del.snapshot)
      /\ del.node # None
  BY <1>1, DelFacts DEF Untangled, Aimed, CInv
<1>5. Shown = del.snapshot
  BY <1>4 DEF Shown
<1>6. /\ Straight(rows, serial) /\ Named(rowOf, fresh, serial) /\ Located(del.snapshot.children, rows, rowOf)
      /\ Grown(del.snapshot, -fresh .. serial)
  BY <1>3, <1>5 DEF Untangled
<1> DEFINE t == del.snapshot
           K == -fresh .. serial
           id == del.node
<1>7. r = RowAt(Indices(t, id)) /\ id \in Nodes(t) /\ id # None
  BY <1>4 DEF r
<1>8. Grown(t, K) /\ IsFiniteSet(K) /\ K \subseteq Int /\ Located(t.children, rows, rowOf)
  BY <1>3, <1>6
<1> HIDE DEF t, K, id
<1>9. r = -1 \/ r = RowFor(rowOf, id)
  BY <1>3, <1>6, <1>7, <1>8, ResolvesToOwnRow
<1>10. r \in 1 .. serial
  <2>1. DOMAIN rows = 1 .. serial /\ \A k \in 1 .. serial : rows[k].id = k
    BY <1>3, <1>6, StraightFacts
  <2>2. QED
    BY <1>1, <2>1 DEF RowIds
<1>11. id \in DOMAIN rowOf /\ rowOf[id] = r
  <2>1. r # -1
    BY <1>3, <1>10
  <2>2. id \in DOMAIN rowOf
    BY <1>3, <1>6, <1>7, <1>9, <2>1, RowForFacts DEF None
  <2>3. QED
    BY <1>3, <1>6, <1>9, <2>1, <2>2, RowForFacts
<1>12. Aimed(del', rowOf)
  <2>1. del.node \in DOMAIN rowOf /\ rowOf[del.node] = r
    BY <1>11 DEF id
  <2>2. QED
    BY <1>2, <1>4, <2>1 DEF Aimed
<1>13. QED
  BY <1>1, <1>2, <1>12, AimMatches

\* The handler lists the rows: at least the one it was asked for.
LEMMA PrepareMatches == ASSUME CInv, Untangled, Prepare, ~tangled' PROVE Untangled'
<1> DEFINE S == Below(del.target)
<1>1. /\ del.pc = "asking" /\ del.target \in RowIds
      /\ del' = [del EXCEPT !.pc = "deleting", !.todo = S]
      /\ UNCHANGED <<tree, fresh, leg, rows, serial, turns, rowOf>>
  BY DEF Prepare, RollBack, server
<1>2. fresh \in Nat /\ serial \in Nat /\ RowsFit(rows, serial) /\ Straight(rows, serial)
  BY Parts DEF CInv, Untangled
<1>3. del.target \in S
  <2>1. DOMAIN rows = 1 .. serial /\ \A k \in 1 .. serial : rows[k].id = k
    BY <1>2, StraightFacts
  <2>2. del.target \in 1 .. serial
    BY <1>1, <2>1 DEF RowIds
  <2>3. QED
    BY <1>2, <2>2, ListingFits, BelowFacts
<1> HIDE DEF S
<1>4. /\ del'.pc = "deleting" /\ del'.todo = S /\ del'.node = del.node /\ del'.target = del.target
      /\ del'.snapshot = del.snapshot
  <2>1. del = [pc |-> del.pc, node |-> del.node, target |-> del.target, todo |-> del.todo,
               chain |-> del.chain, snapshot |-> del.snapshot]
    BY DelFacts DEF CInv
  <2>2. QED
    BY ONLY <1>1, <2>1
<1>5. Aimed(del, rowOf)
  BY DEF Untangled
<1>6. Aimed(del', rowOf)
  BY <1>3, <1>4, <1>5 DEF Aimed
<1>7. QED
  BY <1>1, <1>4, <1>6, AimMatches

\* One step of the whole system; those left out tangle the two sides.
LEMMA NextMatches ==
  ASSUME CInv, ~tangled => Untangled, [Next]_vars, ~tangled'
  PROVE  Untangled'
<1>1. CASE UNCHANGED vars
  <2>1. UNCHANGED <<tree, fresh, leg, del, rows, serial, turns, rowOf, tangled>>
    BY <1>1 DEF vars, client, server, ghosts
  <2>2. Untangled /\ Shown' = Shown
    BY <2>1 DEF Shown
  <2>3. QED
    BY <2>1, <2>2 DEF Untangled
<1>2. CASE User
  <2>1. CASE Send
    BY <2>1, SendMatches DEF Send, ghosts
  <2>2. CASE \E id \in OnScreen : Edit(id) \/ Regenerate(id)
    BY <2>2 DEF Edit, Regenerate
  <2>3. CASE \E id \in OnScreen : Delete(id)
    BY <2>3, DeleteMatches DEF Delete, ghosts
  <2>4. CASE \E id \in OnScreen, d \in {-1, 1} : SwitchBranch(id, d)
    BY <2>4, SwitchMatches DEF SwitchBranch, ghosts
  <2>5. CASE Reload
    BY <2>5, ReloadMatches DEF Reload
  <2>6. QED
    BY <1>2, <2>1, <2>2, <2>3, <2>4, <2>5 DEF User
<1>3. CASE \E saved \in BOOLEAN : Post(saved) \/ PostFails(saved)
  <2>1. PICK saved \in BOOLEAN : Post(saved)
    BY <1>3 DEF PostFails
  <2>2. saved = TRUE /\ ~tangled
    BY <2>1 DEF Post
  <2>3. QED
    BY <2>1, <2>2, PostMatches
<1>4. CASE \E i \in DOMAIN turns : Answering(i)
  <2>1. PICK i \in DOMAIN turns : Answering(i)
    BY <1>4
  <2>2. CASE MessageStart(i)
    BY <2>2, MessageStartMatches DEF MessageStart
  <2>3. CASE Stop(i)
    BY <2>3, StopMatches DEF Stop, ghosts
  <2>4. CASE TurnFails(i)
    BY <2>4 DEF TurnFails
  <2>5. CASE \E ok \in BOOLEAN : Persist(i, ok)
    <3>1. PICK ok \in BOOLEAN : Persist(i, ok)
      BY <2>5
    <3>2. ~tangled
      BY <3>1 DEF Persist
    <3>3. QED
      BY <3>1, <3>2, PersistMatches
  <2>6. QED
    BY <2>1, <2>2, <2>3, <2>4, <2>5 DEF Answering
<1>5. CASE LoseStream \/ ResumeRefused
  <2>1. ResumeRefused /\ ~tangled
    BY <1>5 DEF LoseStream, ResumeRefused, ghosts
  <2>2. QED
    BY <2>1 DEF ResumeRefused, Untangled, Legs
<1>6. CASE Deletion
  <2>1. CASE Resolve
    BY <2>1, ResolveMatches DEF Resolve, RollBack
  <2>2. CASE Prepare
    BY <2>2, PrepareMatches DEF Prepare, RollBack
  <2>3. CASE Deleted
    BY <2>3 DEF Deleted, ghosts, Untangled, Aimed
  <2>4. CASE DeleteFails \/ LoseReply \/ \E id \in del.todo : DeleteRow(id)
    BY <2>4 DEF DeleteFails, RollBack, LoseReply, DeleteRow
  <2>5. QED
    BY <1>6, <2>1, <2>2, <2>3, <2>4 DEF Deletion
<1>7. QED
  BY <1>1, <1>2, <1>3, <1>4, <1>5, <1>6 DEF Next

\* As long as nothing has made the siblings of the two sides differ, a message
\* that is deleted by its place in the tree loses its own row and no other,
\* however long the conversation, whatever part of it the page shows and whatever
\* is sent, answered, saved or deleted meanwhile (useSessionStream.ts,
\* resolveServerMessageId).
THEOREM DeletionHitsItsRow == Spec => []UntangledDeleteIsExact
<1> DEFINE Matched == CInv /\ (~tangled => Untangled)
<1>1. Init => Matched
  BY InitKeeps, InitMatches
<1>2. Matched /\ [Next]_vars => Matched'
  BY NextKeeps, NextMatches
<1>3. Matched => UntangledDeleteIsExact
  <2> SUFFICES ASSUME Matched, ~tangled, del.node # None, del.target # None
               PROVE  del.target = Lookup(rowOf, del.node, None)
    BY DEF UntangledDeleteIsExact
  <2>1. del.node \in DOMAIN rowOf /\ rowOf[del.node] = del.target
    BY DEF Untangled, Aimed
  <2>2. QED
    BY <2>1 DEF Lookup
<1>4. QED
  BY <1>1, <1>2, <1>3, PTL DEF Spec
=============================================================================
