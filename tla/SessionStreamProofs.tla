-------------------------- MODULE SessionStreamProofs --------------------------
(***************************************************************************)
(* Machine-checked proofs about module SessionStream, for any sessions,    *)
(* legs, prompts and faults.                                               *)
(***************************************************************************)
EXTENDS SessionStream, SequenceTheorems, TLAPS

-----------------------------------------------------------------------------
(* sequences *)

\* A function on the first n numbers is a sequence.
LEMMA FunctionIsSeq ==
  ASSUME NEW n \in Nat, NEW S, NEW f \in [1 .. n -> S]
  PROVE  f \in Seq(S) /\ Len(f) = n
<1>1. f \in Seq(S)
  <2>1. f = [i \in 1 .. n |-> f[i]]
    OBVIOUS
  <2>2. [i \in 1 .. n |-> f[i]] \in Seq(S)
    OBVIOUS
  <2>3. QED
    BY <2>1, <2>2, Zenon
<1>2. DOMAIN f = 1 .. n /\ DOMAIN f = 1 .. Len(f) /\ Len(f) \in Nat
  BY <1>1, LenProperties
<1>3. QED
  BY <1>1, <1>2

\* Distinct numbers: s holds those of 1 .. n but R, each once.
Holds(s, n, R) ==
  /\ s \in Seq(Nat) /\ n \in Nat /\ R \subseteq 1 .. n
  /\ \A i, j \in 1 .. Len(s) : s[i] = s[j] => i = j
  /\ \A i \in 1 .. Len(s) : s[i] \in 1 .. n /\ s[i] \notin R
  /\ \A x \in 1 .. n : x \in R \/ \E i \in 1 .. Len(s) : s[i] = x

Rises(s) == \A i, j \in 1 .. Len(s) : i < j => s[i] < s[j]

\* Leaving out one number keeps the others apart.
LEMMA SameStep ==
  ASSUME NEW a \in Nat, NEW i \in Int, NEW j \in Int, i <= a \/ i > a + 1, j <= a \/ j > a + 1,
         NEW x, NEW y, x = y, i <= a => x = i, i > a + 1 => x = i - 1, j <= a => y = j,
         j > a + 1 => y = j - 1
  PROVE  i = j
OBVIOUS

\* The next number may be put in anywhere; at the end it keeps the order.
LEMMA HoldsNext ==
  ASSUME NEW s, NEW t \in Seq(Nat), NEW n, NEW R, NEW a \in Nat, Holds(s, n, R),
         a <= Len(s), Len(t) = Len(s) + 1, t[a + 1] = n + 1,
         \A i \in 1 .. a : t[i] = s[i],
         \A i \in a + 2 .. Len(t) : t[i] = s[i - 1]
  PROVE  Holds(t, n + 1, R) /\ (Rises(s) /\ a = Len(s) => Rises(t))
<1>1. s \in Seq(Nat) /\ Len(s) \in Nat /\ n \in Nat /\ R \subseteq 1 .. n
  BY LenProperties DEF Holds
<1>0. /\ \A u, v \in 1 .. Len(s) : s[u] = s[v] => u = v
      /\ \A u \in 1 .. Len(s) : s[u] \in 1 .. n /\ s[u] \notin R
      /\ \A x \in 1 .. n : x \in R \/ \E u \in 1 .. Len(s) : s[u] = x
  BY DEF Holds
<1> DEFINE From(i) == IF i <= a THEN i ELSE i - 1
<1>2. ASSUME NEW i \in 1 .. Len(t), i # a + 1
      PROVE  From(i) \in 1 .. Len(s) /\ t[i] = s[From(i)] /\ t[i] \in 1 .. n /\ t[i] \notin R
  <2>1. CASE i <= a
    <3>1. i \in 1 .. a /\ i \in 1 .. Len(s) /\ From(i) = i
      BY <1>1, <2>1
    <3>2. t[i] = s[i]
      BY <3>1
    <3>3. QED
      BY <1>0, <3>1, <3>2
  <2>2. CASE i > a + 1
    <3>1. i \in a + 2 .. Len(t) /\ i - 1 \in 1 .. Len(s) /\ From(i) = i - 1
      BY <1>1, <2>2
    <3>2. t[i] = s[i - 1]
      BY <3>1
    <3>3. QED
      BY <1>0, <3>1, <3>2
  <2>3. QED
    BY <1>1, <1>2, <2>1, <2>2
<1>3. ASSUME NEW i \in 1 .. Len(t), NEW j \in 1 .. Len(t), t[i] = t[j]
      PROVE  i = j
  <2>1. CASE i = a + 1 \/ j = a + 1
    BY <1>1, <1>2, <1>3, <2>1
  <2>2. CASE i # a + 1 /\ j # a + 1
    <3>1. From(i) = From(j)
      <4>1. From(i) \in 1 .. Len(s) /\ From(j) \in 1 .. Len(s) /\ s[From(i)] = s[From(j)]
        BY <1>2, <1>3, <2>2
      <4>2. QED
        BY <1>0, <4>1, Zenon
    <3>2. (i <= a \/ i > a + 1) /\ (j <= a \/ j > a + 1) /\ i \in Int /\ j \in Int
      BY <1>1, <2>2
    <3>3. (i <= a => From(i) = i) /\ (i > a + 1 => From(i) = i - 1)
          /\ (j <= a => From(j) = j) /\ (j > a + 1 => From(j) = j - 1)
      BY <1>1, <3>2
    <3>4. a \in Nat
      OBVIOUS
    <3> HIDE DEF From
    <3>5. QED
      BY <3>1, <3>2, <3>3, <3>4, SameStep
  <2>3. QED
    BY <2>1, <2>2
<1>4. ASSUME NEW x \in 1 .. n + 1
      PROVE  x \in R \/ \E i \in 1 .. Len(t) : t[i] = x
  <2>1. CASE x = n + 1
    <3>1. a + 1 \in 1 .. Len(t)
      BY <1>1
    <3>2. QED
      BY <2>1, <3>1
  <2>2. CASE x # n + 1 /\ x \notin R
    <3>0. x \in 1 .. n
      BY <1>1, <2>2
    <3>1. PICK i \in 1 .. Len(s) : s[i] = x
      BY <1>0, <2>2, <3>0, Zenon
    <3>2. CASE i <= a
      <4>1. i \in 1 .. Len(t) /\ i \in 1 .. a
        BY <1>1, <3>2
      <4>2. QED
        BY <3>1, <4>1
    <3>3. CASE i > a
      <4>1. i + 1 \in a + 2 .. Len(t) /\ i + 1 \in 1 .. Len(t) /\ (i + 1) - 1 = i
        BY <1>1, <3>3
      <4>2. QED
        BY <3>1, <4>1
    <3>4. QED
      BY <1>1, <3>2, <3>3
  <2>3. QED
    BY <2>1, <2>2
<1>5. \A i \in 1 .. Len(t) : t[i] \in 1 .. n + 1 /\ t[i] \notin R
  BY <1>1, <1>2
<1>6. R \subseteq 1 .. n + 1 /\ n + 1 \in Nat
  BY <1>1
<1>7. Holds(t, n + 1, R)
  BY <1>3, <1>4, <1>5, <1>6 DEF Holds
<1>8. ASSUME Rises(s), a = Len(s), NEW i \in 1 .. Len(t), NEW j \in 1 .. Len(t), i < j
      PROVE  t[i] < t[j]
  <2>0. i <= a /\ i # a + 1 /\ i \in 1 .. Len(s) /\ i \in 1 .. a
    <3>1. i \in Nat /\ j \in Nat /\ a \in Nat /\ 1 <= i /\ i < j /\ j <= a + 1
      BY <1>1, <1>8
    <3>2. i <= a /\ i # a + 1 /\ i \in 1 .. a
      BY <3>1
    <3>3. QED
      BY <1>8, <3>2
  <2>1. i <= a /\ i # a + 1 /\ t[i] \in 1 .. n /\ t[i] = s[i] /\ i \in 1 .. Len(s)
    BY <1>2, <2>0
  <2>2. CASE j = a + 1
    <3>1. t[j] = n + 1 /\ t[i] \in 1 .. n /\ n \in Nat
      BY <1>1, <2>1, <2>2
    <3>2. QED
      BY <3>1
  <2>3. CASE j # a + 1
    <3>1. a = Len(s) /\ j \in 1 .. Len(s) + 1 /\ j # Len(s) + 1
      BY <1>8, <2>3
    <3>2. j \in 1 .. Len(s) /\ j \in 1 .. a
      BY <1>1, <3>1
    <3>3. QED
      BY <1>8, <2>1, <3>2 DEF Rises
  <2>4. QED
    BY <2>2, <2>3
<1>9. QED
  BY <1>7, <1>8 DEF Rises

\* The places behind a in a line of m are one further in a line of n.
LEMMA OnePast ==
  ASSUME NEW n \in Nat, NEW m, m = n - 1, NEW a \in 1 .. n, NEW i \in 1 .. m, i >= a
  PROVE  i \in a .. m /\ i + 1 \in 1 .. n /\ i + 1 # a /\ ~(i < a)
OBVIOUS

\* A number that is taken out is missing.
LEMMA HoldsLess ==
  ASSUME NEW s, NEW t \in Seq(Nat), NEW n, NEW R, Holds(s, n, R), NEW a \in 1 .. Len(s),
         Len(t) = Len(s) - 1,
         \A i \in 1 .. a - 1 : t[i] = s[i],
         \A i \in a .. Len(t) : t[i] = s[i + 1]
  PROVE  Holds(t, n, R \union {s[a]}) /\ (Rises(s) => Rises(t))
<1>1. s \in Seq(Nat) /\ Len(s) \in Nat /\ n \in Nat /\ R \subseteq 1 .. n
  BY LenProperties DEF Holds
<1>0. /\ \A u, v \in 1 .. Len(s) : s[u] = s[v] => u = v
      /\ \A u \in 1 .. Len(s) : s[u] \in 1 .. n /\ s[u] \notin R
      /\ \A x \in 1 .. n : x \in R \/ \E u \in 1 .. Len(s) : s[u] = x
  BY DEF Holds
<1> DEFINE From(i) == IF i < a THEN i ELSE i + 1
<1>2. ASSUME NEW i \in 1 .. Len(t)
      PROVE  From(i) \in 1 .. Len(s) /\ From(i) # a /\ t[i] = s[From(i)]
  <2>1. CASE i < a
    BY <1>1, <2>1
  <2>2. CASE i >= a
    <3>0. i \in a .. Len(t) /\ i + 1 \in 1 .. Len(s) /\ i + 1 # a /\ ~(i < a)
      BY <1>1, <2>2, OnePast
    <3>1. From(i) = i + 1
      BY <3>0, Zenon
    <3>2. t[i] = s[i + 1]
      BY <3>0
    <3>3. QED
      BY <3>0, <3>1, <3>2
  <2>3. QED
    BY <1>1, <2>1, <2>2
<1>3. ASSUME NEW i \in 1 .. Len(t)
      PROVE  t[i] \in 1 .. n /\ t[i] \notin R \union {s[a]}
  <2>1. From(i) \in 1 .. Len(s) /\ From(i) # a /\ t[i] = s[From(i)]
    BY <1>2
  <2> HIDE DEF From
  <2>2. QED
    BY <1>0, <2>1
<1>4. ASSUME NEW i \in 1 .. Len(t), NEW j \in 1 .. Len(t), t[i] = t[j]
      PROVE  i = j
  <2>1. From(i) = From(j)
    <3>1. From(i) \in 1 .. Len(s) /\ From(j) \in 1 .. Len(s) /\ s[From(i)] = s[From(j)]
      BY <1>2, <1>4
    <3>2. QED
      BY <1>0, <3>1, Zenon
  <2>2. i \in Int /\ j \in Int /\ a \in Int
    BY <1>1
  <2>3. CASE i < a /\ j < a
    BY <2>1, <2>3, Zenon
  <2>4. CASE i < a /\ ~(j < a)
    <3>1. i = j + 1
      BY <2>1, <2>4, Zenon
    <3>2. QED
      BY <2>2, <2>4, <3>1
  <2>5. CASE ~(i < a) /\ j < a
    <3>1. i + 1 = j
      BY <2>1, <2>5, Zenon
    <3>2. QED
      BY <2>2, <2>5, <3>1
  <2>6. CASE ~(i < a) /\ ~(j < a)
    <3>1. i + 1 = j + 1
      BY <2>1, <2>6, Zenon
    <3>2. QED
      BY <2>2, <3>1
  <2>7. QED
    BY <2>3, <2>4, <2>5, <2>6, Zenon
<1>5. ASSUME NEW x \in 1 .. n, x \notin R \union {s[a]}
      PROVE  \E i \in 1 .. Len(t) : t[i] = x
  <2>1. PICK i \in 1 .. Len(s) : s[i] = x
    BY <1>0, <1>5
  <2>2. i # a
    BY <1>5, <2>1
  <2>3. CASE i < a
    <3>1. i \in 1 .. a - 1 /\ i \in 1 .. Len(t)
      BY <1>1, <2>3
    <3>2. QED
      BY <2>1, <3>1
  <2>4. CASE i > a
    <3>0. i \in 1 .. Len(s) /\ Len(t) = Len(s) - 1 /\ a \in 1 .. Len(s) /\ Len(s) \in Nat
      BY <1>1
    <3>1. i - 1 \in a .. Len(t) /\ i - 1 \in 1 .. Len(t) /\ (i - 1) + 1 = i
      BY <2>4, <3>0
    <3>2. QED
      BY <2>1, <3>1
  <2>5. QED
    BY <1>1, <2>2, <2>3, <2>4
<1>6. R \union {s[a]} \subseteq 1 .. n
  BY <1>0, <1>1
<1>7. Holds(t, n, R \union {s[a]})
  BY <1>1, <1>3, <1>4, <1>5, <1>6 DEF Holds
<1>8. ASSUME Rises(s), NEW i \in 1 .. Len(t), NEW j \in 1 .. Len(t), i < j
      PROVE  t[i] < t[j]
  <2>0. i \in Int /\ j \in Int /\ a \in Int
    BY <1>1
  <2>1. From(i) < From(j)
    <3>1. CASE j < a
      BY <1>8, <2>0, <3>1
    <3>2. CASE ~(j < a)
      BY <1>8, <2>0, <3>2
    <3>3. QED
      BY <3>1, <3>2
  <2>2. QED
    BY <1>2, <1>8, <2>1 DEF Rises
<1>9. QED
  BY <1>7, <1>8 DEF Rises

-----------------------------------------------------------------------------
(* types *)

Kinds == {"turn", "resume", "continue", "compare"}
Phases == {"running", "stopped", "failed", "gone", "void"}

LegT ==
  [kind : Kinds, session : Sessions, turn : Nat, pc : Pcs, known : BOOLEAN, ended : BOOLEAN,
   cut : BOOLEAN, aborted : BOOLEAN, drops : 0 .. MaxDrops, text : Nat, error : BOOLEAN,
   early : BOOLEAN, group : Nat]

HookT ==
  [view : Sessions, streaming : BOOLEAN, shown : BOOLEAN, abort : Nat, reader : Nat,
   queue : Seq(Nat), sent : Seq(Nat), removed : SUBSET Nat, asked : Nat, blank : BOOLEAN,
   owed : BOOLEAN]

TurnT == [session : Sessions, phase : Phases, cut : BOOLEAN]

\* A page whose refs belong to its legs.
IsPage(p) ==
  /\ p.hook \in HookT /\ p.legs \in Seq(LegT)
  /\ p.hook.abort \in 0 .. Len(p.legs) /\ p.hook.reader \in 0 .. Len(p.legs)
  /\ DOMAIN p = {"hook", "legs"}

\* Everything but what others may do to a leg: abort it, cancel its reader.
Kept(a, b) ==
  /\ b.kind = a.kind /\ b.session = a.session /\ b.turn = a.turn /\ b.pc = a.pc
  /\ b.known = a.known /\ b.ended = a.ended /\ b.drops = a.drops /\ b.text = a.text
  /\ b.error = a.error /\ b.early = a.early /\ b.group = a.group
  /\ a.aborted => b.aborted

\* The prompts of a page, in the order they are or will be sent.
Line(h) == h.sent \o h.queue

\* What an operator on pages leaves of the rest of the hook.
SameLine(h, j) ==
  j.view = h.view /\ j.asked = h.asked /\ j.removed = h.removed /\ Line(j) = Line(h)

-----------------------------------------------------------------------------
(* what the operators on pages do *)

\* A page has two parts.
LEMMA PageParts ==
  ASSUME NEW h, NEW s
  PROVE  /\ [hook |-> h, legs |-> s].hook = h /\ [hook |-> h, legs |-> s].legs = s
         /\ DOMAIN [hook |-> h, legs |-> s] = {"hook", "legs"}
OBVIOUS

\* The legs of a page, one by one.
LEMMA PageLegs ==
  ASSUME NEW p, IsPage(p)
  PROVE  /\ Len(p.legs) \in Nat /\ DOMAIN p.legs = 1 .. Len(p.legs)
         /\ \A k \in 1 .. Len(p.legs) : p.legs[k] \in LegT
         /\ p.hook \in HookT /\ p.legs \in Seq(LegT)
BY LenProperties, ElementOfSeq DEF IsPage

\* Aborting and cancelling leaves a leg what it is.
LEMMA TouchedLeg ==
  ASSUME NEW a \in LegT, NEW x, NEW y
  PROVE  /\ [a EXCEPT !.aborted = @ \/ x, !.cut = @ \/ y] \in LegT
         /\ Kept(a, [a EXCEPT !.aborted = @ \/ x, !.cut = @ \/ y])
BY DEF LegT, Kept

\* Nothing happens to a leg.
LEMMA KeptSame ==
  ASSUME NEW a \in LegT
  PROVE  Kept(a, a)
BY DEF Kept

\* The reader is forgotten.
LEMMA HookSilent ==
  ASSUME NEW h \in HookT
  PROVE  /\ [h EXCEPT !.reader = 0] \in HookT
         /\ [h EXCEPT !.reader = 0].abort = h.abort /\ [h EXCEPT !.reader = 0].reader = 0
         /\ SameLine(h, [h EXCEPT !.reader = 0])
BY DEF HookT, SameLine, Line

\* The refs of a leg that begins.
Holding(h, n, r) ==
  [h EXCEPT !.streaming = TRUE, !.shown = TRUE, !.blank = FALSE, !.abort = n, !.reader = r]

\* They belong to it, and the prompts stay.
LEMMA HookBegun ==
  ASSUME NEW h \in HookT, NEW n \in Nat, NEW r \in Nat
  PROVE  /\ Holding(h, n, r) \in HookT /\ Holding(h, n, r).abort = n
         /\ Holding(h, n, r).reader = r /\ Holding(h, n, r).streaming
         /\ Holding(h, n, r).owed = h.owed /\ Holding(h, n, r).queue = h.queue
         /\ Holding(h, n, r).sent = h.sent /\ SameLine(h, Holding(h, n, r))
BY DEF HookT, SameLine, Line, Holding

\* Silence does nothing else.
LEMMA SilenceFacts ==
  ASSUME NEW p, IsPage(p)
  PROVE  /\ IsPage(Silence(p)) /\ Len(Silence(p).legs) = Len(p.legs)
         /\ \A k \in 1 .. Len(p.legs) : Kept(p.legs[k], Silence(p).legs[k])
         /\ Silence(p).hook = [p.hook EXCEPT !.reader = 0]
<1> DEFINE Touched(l) == [p.legs[l] EXCEPT !.aborted = @ \/ l = p.hook.abort, !.cut = @ \/ l = p.hook.reader]
<1> DEFINE q == Silence(p)
<1>1. q.legs = [l \in DOMAIN p.legs |-> Touched(l)] /\ q.hook = [p.hook EXCEPT !.reader = 0]
      /\ DOMAIN q = {"hook", "legs"}
  BY DEF Silence
<1>2. ASSUME NEW k \in 1 .. Len(p.legs)
      PROVE  Touched(k) \in LegT /\ Kept(p.legs[k], Touched(k))
  <2>1. p.legs[k] \in LegT
    BY PageLegs
  <2>2. QED
    BY <2>1, TouchedLeg, Zenon
<1> HIDE DEF Touched, q
<1>3. q.legs \in [1 .. Len(p.legs) -> LegT] /\ \A k \in 1 .. Len(p.legs) : q.legs[k] = Touched(k)
  BY <1>1, <1>2, PageLegs
<1>4. q.legs \in Seq(LegT) /\ Len(q.legs) = Len(p.legs)
  BY <1>3, PageLegs, FunctionIsSeq
<1>5. q.hook \in HookT /\ q.hook.abort = p.hook.abort /\ q.hook.reader = 0
  <2>1. p.hook \in HookT
    BY PageLegs
  <2>2. QED
    BY <1>1, <2>1, HookSilent, Zenon
<1>6. IsPage(q)
  BY <1>1, <1>4, <1>5, PageLegs DEF IsPage
<1>7. \A k \in 1 .. Len(p.legs) : Kept(p.legs[k], q.legs[k])
  BY <1>2, <1>3
<1>8. QED
  BY <1>1, <1>4, <1>6, <1>7 DEF q

\* Whose reader it is once a leg begins.
ReaderLeft(h) == IF h.streaming THEN 0 ELSE h.reader

\* A leg that begins is the last.
LEMMA BegunFacts ==
  ASSUME NEW p, IsPage(p), NEW g \in LegT
  PROVE  /\ IsPage(Begun(p, g)) /\ Len(Begun(p, g).legs) = Len(p.legs) + 1
         /\ \A k \in 1 .. Len(p.legs) : Kept(p.legs[k], Begun(p, g).legs[k])
         /\ Begun(p, g).legs[Len(p.legs) + 1] = g
         /\ Begun(p, g).hook = Holding(p.hook, Len(p.legs) + 1, ReaderLeft(p.hook))
<1> DEFINE q == IF p.hook.streaming THEN Silence(p) ELSE p
           b == Begun(p, g)
<1>1. /\ IsPage(q) /\ Len(q.legs) = Len(p.legs)
      /\ \A k \in 1 .. Len(p.legs) : Kept(p.legs[k], q.legs[k])
  <2>1. CASE p.hook.streaming
    BY <2>1, SilenceFacts
  <2>2. CASE ~p.hook.streaming
    BY <2>2, PageLegs, KeptSame
  <2>3. QED
    BY <2>1, <2>2
<1>2. q.hook = [p.hook EXCEPT !.reader = ReaderLeft(p.hook)]
  BY SilenceFacts, PageLegs DEF HookT, ReaderLeft
<1>3. /\ b.legs = Append(q.legs, g)
      /\ b.hook = [q.hook EXCEPT !.streaming = TRUE, !.shown = TRUE, !.blank = FALSE,
                                 !.abort = Len(q.legs) + 1]
      /\ DOMAIN b = {"hook", "legs"}
  BY DEF Begun
<1> HIDE DEF q, b
<1>4. /\ b.legs \in Seq(LegT) /\ Len(b.legs) = Len(p.legs) + 1
      /\ \A k \in 1 .. Len(p.legs) : b.legs[k] = q.legs[k]
      /\ b.legs[Len(p.legs) + 1] = g
  BY <1>1, <1>3, PageLegs, AppendProperties
<1>5. b.hook = Holding(p.hook, Len(p.legs) + 1, ReaderLeft(p.hook))
  BY <1>1, <1>2, <1>3, PageLegs DEF HookT, Holding
<1>6. /\ p.hook \in HookT /\ p.hook.reader \in 0 .. Len(p.legs)
      /\ Len(p.legs) \in Nat /\ Len(p.legs) + 1 \in Nat
  BY PageLegs DEF IsPage
<1>7. ReaderLeft(p.hook) \in Nat /\ ReaderLeft(p.hook) \in 0 .. Len(p.legs)
  BY <1>6 DEF ReaderLeft
<1>8. b.hook \in HookT /\ b.hook.abort = Len(p.legs) + 1 /\ b.hook.reader = ReaderLeft(p.hook)
  <2> DEFINE n == Len(p.legs) + 1
             r == ReaderLeft(p.hook)
  <2>1. p.hook \in HookT /\ n \in Nat /\ r \in Nat
    BY <1>6, <1>7
  <2> HIDE DEF n, r
  <2>2. Holding(p.hook, n, r) \in HookT /\ Holding(p.hook, n, r).abort = n /\ Holding(p.hook, n, r).reader = r
    BY <2>1, HookBegun
  <2>3. b.hook = Holding(p.hook, n, r)
    BY <1>5 DEF n, r
  <2>4. b.hook \in HookT /\ b.hook.abort = n /\ b.hook.reader = r
    BY <2>2, <2>3, Zenon
  <2>5. QED
    BY <2>4 DEF n, r
<1>9. IsPage(b)
  BY <1>3, <1>4, <1>6, <1>7, <1>8 DEF IsPage
<1>10. \A k \in 1 .. Len(p.legs) : Kept(p.legs[k], b.legs[k])
  BY <1>1, <1>4
<1>11. QED
  BY <1>4, <1>5, <1>9, <1>10 DEF b

\* A leg is well typed when it begins.
LEMMA NewLegT ==
  ASSUME NEW kind \in Kinds, NEW s \in Sessions, NEW t \in Nat
  PROVE  NewLeg(kind, s, t) \in LegT
BY Bounds DEF NewLeg, LegT, Kinds, Pcs

\* What leaves a leg what it is, twice.
LEMMA KeptTwice ==
  ASSUME NEW a, NEW b, NEW c, Kept(a, b), Kept(b, c)
  PROVE  Kept(a, c)
BY DEF Kept

\* Page r is page p after a step that may have begun a leg from the queue.
Grown(p, r) ==
  /\ IsPage(r) /\ SameLine(p.hook, r.hook)
  /\ \A k \in 1 .. Len(p.legs) : Kept(p.legs[k], r.legs[k])
  /\ \/ Len(r.legs) = Len(p.legs)
     \/ /\ Len(r.legs) = Len(p.legs) + 1
        /\ r.legs[Len(r.legs)] = NewLeg("turn", p.hook.view, 0)

\* A prompt is handed over.
Sent(h, m) == [h EXCEPT !.sent = Append(@, m)]

\* It is the last that was sent.
LEMMA HookSent ==
  ASSUME NEW h \in HookT, NEW m \in Nat
  PROVE  /\ Sent(h, m) \in HookT /\ Sent(h, m).sent = Append(h.sent, m)
         /\ Sent(h, m).queue = h.queue /\ Sent(h, m).owed = h.owed /\ Sent(h, m).view = h.view
         /\ Sent(h, m).asked = h.asked /\ Sent(h, m).removed = h.removed
         /\ Sent(h, m).abort = h.abort /\ Sent(h, m).reader = h.reader
         /\ Sent(h, m).streaming = h.streaming
<1>1. h.sent \in Seq(Nat)
  BY DEF HookT
<1>2. Append(h.sent, m) \in Seq(Nat)
  BY <1>1, AppendProperties
<1>3. QED
  BY <1>2 DEF HookT, Sent

\* The prompt is sent with a new leg.
LEMMA DispatchedFacts ==
  ASSUME NEW p, IsPage(p), NEW m \in Nat
  PROVE  LET d == Dispatched(p, m)
             n == Len(p.legs) + 1
         IN /\ IsPage(d) /\ Len(d.legs) = n /\ d.legs[n] = NewLeg("turn", p.hook.view, 0)
            /\ \A k \in 1 .. Len(p.legs) : Kept(p.legs[k], d.legs[k])
            /\ d.hook = Holding(Sent(p.hook, m), n, ReaderLeft(p.hook))
<1> DEFINE q == [p EXCEPT !.hook.sent = Append(@, m)]
           g == NewLeg("turn", p.hook.view, 0)
           d == Begun(q, g)
           n == Len(p.legs) + 1
<1>1. p.hook \in HookT /\ p.hook.view \in Sessions
  BY PageLegs DEF HookT
<1>2. q.hook = Sent(p.hook, m) /\ q.legs = p.legs /\ DOMAIN q = {"hook", "legs"}
  BY DEF IsPage, Sent
<1>3. IsPage(q) /\ q.hook = Sent(p.hook, m) /\ q.legs = p.legs
  <2> HIDE DEF q
  <2>1. /\ Sent(p.hook, m) \in HookT /\ Sent(p.hook, m).abort = p.hook.abort
        /\ Sent(p.hook, m).reader = p.hook.reader
    BY <1>1, HookSent, Zenon
  <2>2. QED
    BY <1>2, <2>1 DEF IsPage
<1>4. g \in LegT
  BY <1>1, NewLegT DEF Kinds
<1>5. Dispatched(p, m) = d
  BY DEF Dispatched
<1>6. ReaderLeft(q.hook) = ReaderLeft(p.hook)
  <2> HIDE DEF q
  <2>1. Sent(p.hook, m).streaming = p.hook.streaming /\ Sent(p.hook, m).reader = p.hook.reader
    BY <1>1, HookSent
  <2>2. QED
    BY <1>3, <2>1 DEF ReaderLeft
<1> HIDE DEF q, g
<1>7. /\ IsPage(d) /\ Len(d.legs) = Len(q.legs) + 1 /\ d.legs[Len(q.legs) + 1] = g
      /\ \A k \in 1 .. Len(q.legs) : Kept(q.legs[k], d.legs[k])
      /\ d.hook = Holding(q.hook, Len(q.legs) + 1, ReaderLeft(q.hook))
  BY <1>3, <1>4, BegunFacts
<1> HIDE DEF d
<1>8. /\ IsPage(d) /\ Len(d.legs) = n /\ d.legs[n] = g
      /\ \A k \in 1 .. Len(p.legs) : Kept(p.legs[k], d.legs[k])
      /\ d.hook = Holding(Sent(p.hook, m), n, ReaderLeft(p.hook))
  BY <1>3, <1>6, <1>7
<1>9. QED
  BY <1>5, <1>8 DEF g

\* The first of the queue goes to the end of what was sent.
LEMMA LineMoves ==
  ASSUME NEW s \in Seq(Nat), NEW q \in Seq(Nat), q # << >>
  PROVE  /\ Head(q) \in Nat /\ Tail(q) \in Seq(Nat) /\ Append(s, Head(q)) \in Seq(Nat)
         /\ Append(s, Head(q)) \o Tail(q) = s \o q
<1>1. Head(q) \in Nat /\ Tail(q) \in Seq(Nat)
  BY HeadTailProperties
<1> DEFINE x == Append(s, Head(q))
           y == Tail(q)
           u == x \o y
           v == s \o q
<1>2. /\ Len(s) \in Nat /\ Len(q) \in Nat \ {0} /\ Head(q) = q[1]
      /\ Len(y) = Len(q) - 1 /\ \A i \in 1 .. Len(y) : y[i] = q[i + 1]
  BY LenProperties, EmptySeq, HeadTailProperties
<1>3. /\ x \in Seq(Nat) /\ Len(x) = Len(s) + 1 /\ x[Len(s) + 1] = q[1]
      /\ \A i \in 1 .. Len(s) : x[i] = s[i]
  BY <1>1, <1>2, AppendProperties
<1>4. y \in Seq(Nat)
  BY <1>1
<1> HIDE DEF x, y
<1>5. /\ u \in Seq(Nat) /\ Len(u) = Len(x) + Len(y)
      /\ \A i \in 1 .. Len(x) + Len(y) : u[i] = IF i <= Len(x) THEN x[i] ELSE y[i - Len(x)]
  BY <1>3, <1>4, ConcatProperties
<1>6. /\ v \in Seq(Nat) /\ Len(v) = Len(s) + Len(q)
      /\ \A i \in 1 .. Len(s) + Len(q) : v[i] = IF i <= Len(s) THEN s[i] ELSE q[i - Len(s)]
  BY ConcatProperties
<1> HIDE DEF u, v
<1>7. Len(u) = Len(v)
  BY <1>2, <1>3, <1>5, <1>6
<1>8. ASSUME NEW i \in 1 .. Len(u) PROVE u[i] = v[i]
  <2>1. i \in 1 .. Len(x) + Len(y) /\ i \in 1 .. Len(s) + Len(q)
    BY <1>5, <1>6, <1>7
  <2>2. CASE i <= Len(s)
    <3>1. i \in 1 .. Len(s) /\ i <= Len(x)
      BY <1>2, <1>3, <2>1, <2>2
    <3>2. u[i] = x[i] /\ v[i] = s[i]
      BY <1>5, <1>6, <2>1, <2>2, <3>1
    <3>3. QED
      BY <1>3, <3>1, <3>2
  <2>3. CASE i = Len(s) + 1
    <3>1. i <= Len(x) /\ ~(i <= Len(s)) /\ i - Len(s) = 1
      BY <1>2, <1>3, <2>3
    <3>2. u[i] = x[i] /\ v[i] = q[1]
      BY <1>5, <1>6, <2>1, <3>1
    <3>3. QED
      BY <1>3, <2>3, <3>2
  <2>4. CASE i > Len(s) + 1
    <3>1. ~(i <= Len(x)) /\ ~(i <= Len(s)) /\ i - Len(x) \in 1 .. Len(y) /\ (i - Len(x)) + 1 = i - Len(s)
      BY <1>2, <1>3, <2>1, <2>4
    <3>2. u[i] = y[i - Len(x)] /\ v[i] = q[i - Len(s)]
      BY <1>5, <1>6, <2>1, <3>1
    <3>3. y[i - Len(x)] = q[(i - Len(x)) + 1]
      BY <1>2, <3>1
    <3>4. QED
      BY <3>1, <3>2, <3>3
  <2>5. i \in Int /\ Len(s) \in Int
    BY <1>2
  <2>6. QED
    BY <2>2, <2>3, <2>4, <2>5
<1>9. u = v
  BY <1>5, <1>6, <1>7, <1>8, SeqEqual
<1>10. QED
  BY <1>1, <1>3, <1>9 DEF u, v, x, y

\* Nothing happens to a page.
LEMMA GrownSame ==
  ASSUME NEW p, IsPage(p)
  PROVE  Grown(p, p)
<1>1. \A k \in 1 .. Len(p.legs) : Kept(p.legs[k], p.legs[k])
  BY PageLegs, KeptSame
<1>2. QED
  BY <1>1 DEF Grown, SameLine

\* What the drain leaves: a leg that streams, or an empty queue.
LEMMA DrainedFacts ==
  ASSUME NEW p, IsPage(p)
  PROVE  LET d == Drained(p)
         IN /\ Grown(p, d) /\ d.hook.owed = p.hook.owed
            /\ d.hook.streaming \/ d.hook.queue = << >>
            /\ \/ Len(d.legs) = Len(p.legs) /\ d = p
               \/ /\ Len(d.legs) = Len(p.legs) + 1 /\ d.hook.streaming
                  /\ d.hook.abort = Len(d.legs) /\ d.hook.reader = p.hook.reader
<1> DEFINE d == Drained(p)
<1>1. CASE p.hook.streaming \/ p.hook.queue = << >>
  BY <1>1, GrownSame DEF Drained
<1>2. CASE ~p.hook.streaming /\ p.hook.queue # << >>
  <2> DEFINE j == [p.hook EXCEPT !.queue = Tail(@)]
             q == [p EXCEPT !.hook.queue = Tail(@)]
             m == Head(p.hook.queue)
             n == Len(p.legs) + 1
             e == Dispatched(q, m)
  <2>1. p.hook \in HookT /\ p.hook.queue \in Seq(Nat) /\ p.hook.sent \in Seq(Nat) /\ n \in Nat
    BY PageLegs DEF HookT
  <2>2. m \in Nat /\ Tail(p.hook.queue) \in Seq(Nat)
        /\ Append(p.hook.sent, m) \o Tail(p.hook.queue) = Line(p.hook)
    BY <1>2, <2>1, LineMoves DEF Line
  <2>3. /\ j \in HookT /\ j.queue = Tail(p.hook.queue) /\ j.sent = p.hook.sent /\ j.owed = p.hook.owed
        /\ j.view = p.hook.view /\ j.asked = p.hook.asked /\ j.removed = p.hook.removed
        /\ j.abort = p.hook.abort /\ j.reader = p.hook.reader /\ ~j.streaming
    BY <1>2, <2>1, <2>2 DEF HookT
  <2>4. q.hook = j /\ q.legs = p.legs /\ DOMAIN q = {"hook", "legs"}
    BY DEF IsPage
  <2>5. d = e
    BY <1>2 DEF Drained
  <2> HIDE DEF q, j, m, d
  <2>a. IsPage(q)
    BY <2>3, <2>4 DEF IsPage
  <2>6. /\ IsPage(e) /\ Len(e.legs) = n /\ e.legs[n] = NewLeg("turn", j.view, 0)
        /\ \A k \in 1 .. Len(p.legs) : Kept(p.legs[k], e.legs[k])
        /\ e.hook = Holding(Sent(j, m), n, ReaderLeft(j))
    BY <2>2, <2>4, <2>a, DispatchedFacts
  <2> HIDE DEF e, n
  <2>7. Sent(j, m) \in HookT /\ ReaderLeft(j) = j.reader /\ j.reader \in Nat
    BY <2>2, <2>3, HookSent DEF ReaderLeft, HookT
  <2>8. /\ e.hook.streaming /\ e.hook.abort = n /\ e.hook.reader = p.hook.reader
        /\ e.hook.owed = p.hook.owed /\ SameLine(Sent(j, m), e.hook)
    <3> DEFINE h == Sent(j, m)
               r == ReaderLeft(j)
    <3>0. r = p.hook.reader
      BY <2>3, <2>7
    <3>1. h \in HookT /\ n \in Nat /\ r \in Nat
      BY <2>1, <2>3, <2>7
    <3>2. e.hook = Holding(h, n, r)
      BY <2>6
    <3>3. h.owed = p.hook.owed
      BY <2>2, <2>3, HookSent
    <3> HIDE DEF h, r
    <3>4. /\ e.hook.streaming /\ e.hook.abort = n /\ e.hook.reader = r
          /\ e.hook.owed = h.owed /\ SameLine(h, e.hook)
      BY <3>1, <3>2 DEF HookT, SameLine, Line, Holding
    <3>5. QED
      BY <3>0, <3>3, <3>4 DEF h
  <2>9. SameLine(p.hook, e.hook)
    <3>1. SameLine(p.hook, Sent(j, m))
      <4>1. /\ Sent(j, m).sent = Append(j.sent, m) /\ Sent(j, m).queue = j.queue /\ Sent(j, m).view = j.view
            /\ Sent(j, m).asked = j.asked /\ Sent(j, m).removed = j.removed
        BY <2>2, <2>3, HookSent
      <4>2. QED
        BY <2>2, <2>3, <4>1 DEF SameLine, Line
    <3>2. QED
      BY <2>8, <3>1 DEF SameLine
  <2>10. Grown(p, e)
    BY <2>3, <2>6, <2>9 DEF Grown, n
  <2>11. QED
    BY <2>5, <2>6, <2>8, <2>10 DEF d, n
<1>3. QED
  BY <1>1, <1>2

\* One leg of a page changes.
LEMMA OneLeg ==
  ASSUME NEW p, IsPage(p), NEW l \in 1 .. Len(p.legs), NEW g \in LegT,
         NEW q, q.hook = p.hook, q.legs = [p.legs EXCEPT ![l] = g], DOMAIN q = {"hook", "legs"}
  PROVE  /\ IsPage(q) /\ Len(q.legs) = Len(p.legs)
         /\ \A k \in 1 .. Len(p.legs) : q.legs[k] = IF k = l THEN g ELSE p.legs[k]
<1>1. /\ q.legs \in Seq(LegT) /\ Len(q.legs) = Len(p.legs)
      /\ \A k \in 1 .. Len(p.legs) : q.legs[k] = IF k = l THEN g ELSE p.legs[k]
  BY PageLegs, ExceptSeq
<1>2. IsPage(q)
  BY <1>1 DEF IsPage
<1>3. QED
  BY <1>1, <1>2

\* A leg that is over.
Over(g) == [g EXCEPT !.pc = "done", !.drops = 0]

\* What it was stays known.
LEMMA OverLeg ==
  ASSUME NEW g \in LegT
  PROVE  /\ Over(g) \in LegT /\ Over(g).pc = "done" /\ Over(g).drops = 0
         /\ Over(g).kind = g.kind /\ Over(g).group = g.group /\ Over(g).session = g.session
         /\ Over(g).turn = g.turn /\ Over(g).known = g.known /\ Over(g).ended = g.ended
         /\ Over(g).aborted = g.aborted /\ Over(g).error = g.error /\ Over(g).text = g.text
<1>1. 0 \in 0 .. MaxDrops
  BY Bounds
<1>2. "done" \in Pcs
  BY DEF Pcs
<1>3. QED
  BY <1>1, <1>2 DEF LegT, Over

EndedPage(p, l) == [p EXCEPT !.legs[l].pc = "done", !.legs[l].drops = 0]

\* The page of a leg that is over.
LEMMA EndedFacts ==
  ASSUME NEW p, IsPage(p), NEW l \in 1 .. Len(p.legs)
  PROVE  LET e == EndedPage(p, l)
         IN /\ IsPage(e) /\ e.hook = p.hook /\ Len(e.legs) = Len(p.legs)
            /\ \A k \in 1 .. Len(p.legs) : e.legs[k] = IF k = l THEN Over(p.legs[l]) ELSE p.legs[k]
<1> DEFINE e == EndedPage(p, l)
<1>1. /\ e.hook = p.hook /\ DOMAIN e = {"hook", "legs"}
      /\ e.legs = [p.legs EXCEPT ![l].pc = "done", ![l].drops = 0]
  BY DEF IsPage, EndedPage
<1>2. [p.legs EXCEPT ![l].pc = "done", ![l].drops = 0] = [p.legs EXCEPT ![l] = Over(p.legs[l])]
  BY Zenon DEF Over
<1>3. Over(p.legs[l]) \in LegT
  BY PageLegs, OverLeg
<1> HIDE DEF e
<1>4. e.legs = [p.legs EXCEPT ![l] = Over(p.legs[l])]
  BY <1>1, <1>2, Zenon
<1>5. /\ IsPage(e) /\ Len(e.legs) = Len(p.legs)
      /\ \A k \in 1 .. Len(p.legs) : e.legs[k] = IF k = l THEN Over(p.legs[l]) ELSE p.legs[k]
  BY <1>1, <1>3, <1>4, OneLeg
<1>6. QED
  BY <1>1, <1>5 DEF e

\* A page of which only refs change, as far as the prompts go.
LEMMA GrownHook ==
  ASSUME NEW p, IsPage(p), NEW q, q.legs = p.legs, DOMAIN q = {"hook", "legs"},
         q.hook \in HookT, SameLine(p.hook, q.hook),
         q.hook.abort \in 0 .. Len(p.legs), q.hook.reader \in 0 .. Len(p.legs)
  PROVE  IsPage(q) /\ Grown(p, q)
<1>1. IsPage(q)
  BY DEF IsPage
<1>2. \A k \in 1 .. Len(p.legs) : Kept(p.legs[k], q.legs[k])
  BY PageLegs, KeptSame
<1>3. QED
  BY <1>1, <1>2 DEF Grown

\* Growing after growing the refs alone is growing.
LEMMA GrownTwice ==
  ASSUME NEW p, NEW q, NEW r, IsPage(p), Grown(p, q), Len(q.legs) = Len(p.legs), Grown(q, r)
  PROVE  Grown(p, r)
<1>1. SameLine(p.hook, r.hook)
  BY DEF Grown, SameLine
<1>2. \A k \in 1 .. Len(p.legs) : Kept(p.legs[k], r.legs[k])
  BY KeptTwice DEF Grown
<1>3. q.hook.view = p.hook.view
  BY DEF Grown, SameLine
<1>4. QED
  BY <1>1, <1>2, <1>3 DEF Grown

\* Of whose reader is forgotten.
LEMMA GrownSilence ==
  ASSUME NEW p, IsPage(p)
  PROVE  /\ Grown(p, Silence(p)) /\ Len(Silence(p).legs) = Len(p.legs) /\ IsPage(Silence(p))
         /\ Silence(p).hook = [p.hook EXCEPT !.reader = 0]
<1>1. p.hook \in HookT
  BY PageLegs
<1>2. SameLine(p.hook, [p.hook EXCEPT !.reader = 0])
  BY <1>1, HookSilent, Zenon
<1>3. QED
  BY <1>2, SilenceFacts DEF Grown

\* The refs of a page when a leg is over.
Free(h) == [h EXCEPT !.streaming = FALSE, !.shown = FALSE, !.abort = 0]
Owing(h) == [h EXCEPT !.streaming = FALSE, !.shown = FALSE, !.owed = TRUE]
FreeOwing(h) == [h EXCEPT !.streaming = FALSE, !.shown = FALSE, !.abort = 0, !.owed = TRUE]

\* They leave the prompts alone.
LEMMA HookFree ==
  ASSUME NEW h \in HookT
  PROVE  /\ Free(h) \in HookT /\ SameLine(h, Free(h)) /\ Free(h).abort = 0 /\ Free(h).reader = h.reader
         /\ Free(h).owed = h.owed
         /\ Owing(h) \in HookT /\ SameLine(h, Owing(h)) /\ Owing(h).abort = h.abort
         /\ Owing(h).reader = h.reader /\ Owing(h).owed
         /\ FreeOwing(h) \in HookT /\ SameLine(h, FreeOwing(h)) /\ FreeOwing(h).abort = 0
         /\ FreeOwing(h).reader = h.reader /\ FreeOwing(h).owed
BY DEF HookT, Free, Owing, FreeOwing, SameLine, Line

\* What a finally block leaves.
LEMMA FinishedFacts ==
  ASSUME NEW p, IsPage(p), NEW l \in 1 .. Len(p.legs)
  PROVE  LET f == Finished(p, l)
             e == EndedPage(p, l)
         IN /\ Grown(e, f) /\ (p.hook.owed => f.hook.owed)
            /\ f.hook = p.hook \/ f.hook.owed \/ f.hook.streaming \/ f.hook.queue = << >>
            /\ \/ Len(f.legs) = Len(p.legs) /\ p.legs[l].kind \in {"turn", "resume"} /\ f.hook.reader = 0
               \/ /\ Len(f.legs) = Len(p.legs) + 1 /\ p.legs[l].kind \in {"turn", "resume"}
                  /\ f.hook.streaming /\ f.hook.abort = Len(f.legs) /\ f.hook.reader = 0
               \/ /\ Len(f.legs) = Len(p.legs) /\ p.legs[l].kind \notin {"turn", "resume"}
                  /\ f.hook.reader = p.hook.reader
                  /\ p.legs[l].kind = "compare" /\ Beside(p, l) # {} => f.hook = p.hook
<1> DEFINE f == Finished(p, l)
           e == EndedPage(p, l)
           q == [e EXCEPT !.hook.streaming = FALSE, !.hook.shown = FALSE]
           drained == Drained(Silence([q EXCEPT !.hook.abort = 0]))
           freed == [q EXCEPT !.hook.abort = 0, !.hook.owed = TRUE]
           owing == [q EXCEPT !.hook.owed = TRUE]
<1>1. /\ IsPage(e) /\ e.hook = p.hook /\ Len(e.legs) = Len(p.legs)
      /\ DOMAIN e = {"hook", "legs"} /\ e.hook \in HookT
  BY EndedFacts DEF IsPage
<1>2. p.hook.reader \in 0 .. Len(p.legs) /\ p.hook.abort \in 0 .. Len(p.legs) /\ Len(p.legs) \in Nat
      /\ p.hook \in HookT
  BY PageLegs DEF IsPage
<1>3. f = CASE p.legs[l].kind \in {"turn", "resume"} -> drained
            [] p.legs[l].kind = "continue" -> freed
            [] p.legs[l].kind = "compare" -> IF Beside(p, l) # {} THEN e ELSE owing
  BY Zenon DEF Finished, EndedPage
<1> HIDE DEF e, f, q, drained, freed, owing
<1>4. /\ p.legs[l].kind \in {"turn", "resume"} => f = drained
      /\ p.legs[l].kind = "continue" => f = freed
      /\ p.legs[l].kind = "compare" => f = IF Beside(p, l) # {} THEN e ELSE owing
  BY <1>3
<1>5. CASE p.legs[l].kind \in {"turn", "resume"}
  <2> DEFINE a == [q EXCEPT !.hook.abort = 0]
             s == Silence(a)
  <2>1. a.hook = Free(p.hook) /\ a.legs = e.legs /\ DOMAIN a = {"hook", "legs"}
    BY <1>1 DEF Free, q
  <2>2. f = Drained(s)
    BY <1>4, <1>5 DEF drained
  <2> HIDE DEF a
  <2>3. /\ Free(p.hook) \in HookT /\ SameLine(p.hook, Free(p.hook)) /\ Free(p.hook).abort = 0
        /\ Free(p.hook).reader = p.hook.reader /\ Free(p.hook).owed = p.hook.owed
    BY <1>2, HookFree, Zenon
  <2>4. IsPage(a) /\ Grown(e, a)
    BY <1>1, <1>2, <2>1, <2>3, GrownHook
  <2>5. /\ Grown(a, s) /\ Len(s.legs) = Len(a.legs) /\ IsPage(s)
        /\ s.hook = [a.hook EXCEPT !.reader = 0]
    BY <2>4, GrownSilence
  <2>6. s.hook.reader = 0 /\ s.hook.owed = p.hook.owed
    BY <2>1, <2>3, <2>5 DEF HookT
  <2>7. Grown(e, s) /\ Len(s.legs) = Len(e.legs)
    BY <1>1, <2>1, <2>4, <2>5, GrownTwice
  <2> HIDE DEF s
  <2>8. /\ Grown(s, f) /\ f.hook.owed = s.hook.owed
        /\ f.hook.streaming \/ f.hook.queue = << >>
        /\ \/ Len(f.legs) = Len(s.legs) /\ f = s
           \/ /\ Len(f.legs) = Len(s.legs) + 1 /\ f.hook.streaming
              /\ f.hook.abort = Len(f.legs) /\ f.hook.reader = s.hook.reader
    BY <2>2, <2>5, DrainedFacts
  <2>9. Grown(e, f)
    BY <1>1, <2>7, <2>8, GrownTwice
  <2>10. QED
    BY <1>1, <1>5, <2>6, <2>7, <2>8, <2>9 DEF e, f
<1>6. CASE p.legs[l].kind = "continue"
  <2>1. f = [q EXCEPT !.hook.abort = 0, !.hook.owed = TRUE]
    BY <1>4, <1>6 DEF freed
  <2>2. f.hook = FreeOwing(p.hook) /\ f.legs = e.legs /\ DOMAIN f = {"hook", "legs"}
    BY <1>1, <2>1 DEF FreeOwing, q
  <2>3. /\ FreeOwing(p.hook) \in HookT /\ SameLine(p.hook, FreeOwing(p.hook))
        /\ FreeOwing(p.hook).abort = 0 /\ FreeOwing(p.hook).reader = p.hook.reader
        /\ FreeOwing(p.hook).owed
    BY <1>2, HookFree, Zenon
  <2>4. Grown(e, f)
    BY <1>1, <1>2, <2>2, <2>3, GrownHook
  <2>5. QED
    BY <1>1, <1>6, <2>2, <2>3, <2>4 DEF e, f
<1>7. CASE p.legs[l].kind = "compare" /\ Beside(p, l) # {}
  <2>1. f = e
    BY <1>7, <1>4
  <2>2. Grown(e, f)
    BY <1>1, <2>1, GrownSame
  <2>3. QED
    BY <1>1, <1>7, <2>1, <2>2 DEF e, f
<1>8. CASE p.legs[l].kind = "compare" /\ Beside(p, l) = {}
  <2>1. f = [q EXCEPT !.hook.owed = TRUE]
    BY <1>4, <1>8 DEF owing
  <2>2. f.hook = Owing(p.hook) /\ f.legs = e.legs /\ DOMAIN f = {"hook", "legs"}
    BY <1>1, <2>1 DEF Owing, q
  <2>3. /\ Owing(p.hook) \in HookT /\ SameLine(p.hook, Owing(p.hook))
        /\ Owing(p.hook).abort = p.hook.abort /\ Owing(p.hook).reader = p.hook.reader
        /\ Owing(p.hook).owed
    BY <1>2, HookFree, Zenon
  <2>4. Grown(e, f)
    BY <1>1, <1>2, <2>2, <2>3, GrownHook
  <2>5. QED
    BY <1>1, <1>8, <2>2, <2>3, <2>4 DEF e, f
<1>9. p.legs[l].kind \in Kinds
  BY PageLegs DEF LegT
<1>10. QED
  BY <1>5, <1>6, <1>7, <1>8, <1>9 DEF e, f, Kinds

-----------------------------------------------------------------------------
(* the invariant *)

Streams == {"turn", "resume"}

\* What is true of every leg: it was heard or it said so, and its state fits its kind.
LegOk(g) ==
  /\ g.pc \in {"final", "done"} /\ g.known /\ ~g.aborted => g.ended \/ g.error
  /\ g.known => g.kind \in Streams
  /\ g.pc \in {"drive", "rread", "recover", "final"} => g.kind \in Streams
  /\ g.pc = "post" => g.kind \in {"turn", "compare"} /\ ~g.known
  /\ g.drops = MaxDrops => g.pc \in {"recover", "final"}
  /\ g.kind # "compare" => g.group = 0

LegsOk(s) == \A k \in 1 .. Len(s) : LegOk(s[k])

\* The prompts: each once, and in order where nothing crosses, all of them sent when
\* nothing streams.
QueueOk(h, c) ==
  /\ Holds(Line(h), h.asked, h.removed)
  /\ ~c /\ ~h.owed => Rises(Line(h)) /\ (~h.streaming => h.queue = << >>)

\* The other legs that are not done are columns beside l.
Alone(s, l) ==
  \A k \in 1 .. Len(s) : k # l /\ s[k].pc # "done" => s[l].group # 0 /\ s[k].group = s[l].group

Follows(h, s, l) ==
  /\ h.streaming /\ Alone(s, l)
  /\ s[l].kind # "compare" => h.abort = l
  /\ s[l].kind \in Streams /\ s[l].pc \in {"read", "rread"} => h.reader = l
  /\ ~(s[l].kind \in Streams /\ s[l].pc \in {"read", "rread"}) => h.reader = 0

RefsOk(h, s) ==
  /\ (\A k \in 1 .. Len(s) : s[k].pc = "done") => h.reader = 0
  /\ \A l \in 1 .. Len(s) : s[l].pc # "done" => Follows(h, s, l)

Good(p, c) ==
  /\ IsPage(p) /\ LegsOk(p.legs) /\ QueueOk(p.hook, c)
  /\ ~c => RefsOk(p.hook, p.legs)

IInv ==
  /\ Good(Page, crossed) /\ crossed \in BOOLEAN
  /\ stops \subseteq Sessions /\ loads \subseteq Sessions /\ posts \subseteq 1 .. Len(legs)
  /\ turns \in Seq(TurnT) /\ saved \in [Sessions -> Seq(Nat)]

-----------------------------------------------------------------------------
(* the operators on pages keep it *)

\* What others do to a leg leaves it in order.
LEMMA KeptOk ==
  ASSUME NEW a, NEW b, LegOk(a), Kept(a, b)
  PROVE  LegOk(b)
BY DEF Kept, LegOk

\* A new leg is in order.
LEMMA NewLegOk ==
  ASSUME NEW kind \in Kinds, NEW s, NEW t
  PROVE  /\ LegOk(NewLeg(kind, s, t)) /\ NewLeg(kind, s, t).kind = kind
         /\ NewLeg(kind, s, t).pc # "done" /\ NewLeg(kind, s, t).group = 0
         /\ kind = "turn" => NewLeg(kind, s, t).pc = "post"
         /\ kind = "resume" => NewLeg(kind, s, t).pc = "drive"
<1>1. MaxDrops # 0
  BY Bounds
<1>2. QED
  BY <1>1 DEF NewLeg, LegOk, Kinds, Streams

\* A page that grew is in order.
LEMMA GrownOk ==
  ASSUME NEW p, NEW r, IsPage(p), Grown(p, r), LegsOk(p.legs)
  PROVE  LegsOk(r.legs) /\ IsPage(r)
<1>1. Len(p.legs) \in Nat /\ IsPage(r)
  BY PageLegs DEF Grown
<1>2. ASSUME NEW k \in 1 .. Len(p.legs) PROVE LegOk(r.legs[k])
  BY KeptOk DEF Grown, LegsOk
<1>3. LegOk(NewLeg("turn", p.hook.view, 0))
  BY NewLegOk DEF Kinds
<1>4. ASSUME NEW k \in 1 .. Len(r.legs) PROVE LegOk(r.legs[k])
  BY <1>1, <1>2, <1>3 DEF Grown
<1>5. QED
  BY <1>1, <1>4 DEF LegsOk

\* The prompts do not notice.
LEMMA SameLineOk ==
  ASSUME NEW h, NEW j, NEW c, QueueOk(h, c), SameLine(h, j), h.owed => j.owed,
         \/ j.owed \/ j.queue = << >> \/ j.streaming
         \/ j.owed = h.owed /\ j.streaming = h.streaming /\ j.queue = h.queue
  PROVE  QueueOk(j, c)
<1>1. Line(j) = Line(h) /\ j.asked = h.asked /\ j.removed = h.removed
  BY DEF SameLine
<1>2. Holds(Line(j), j.asked, j.removed)
  BY <1>1 DEF QueueOk
<1>3. ASSUME ~c, ~j.owed PROVE Rises(Line(j)) /\ (~j.streaming => j.queue = << >>)
  BY <1>1, <1>3 DEF QueueOk
<1>4. QED
  BY <1>2, <1>3 DEF QueueOk

\* The leg l may end: whoever else is under way is a column beside it.
Ready(h, s, l) ==
  /\ h.streaming /\ Alone(s, l)
  /\ s[l].kind \notin Streams => h.reader = 0

\* The refs after a finally block tell the truth.
LEMMA FinishedRefs ==
  ASSUME NEW p, IsPage(p), NEW l \in 1 .. Len(p.legs), Ready(p.hook, p.legs, l),
         \A k \in 1 .. Len(p.legs) : p.legs[k].kind # "compare" => p.legs[k].group = 0
  PROVE  RefsOk(Finished(p, l).hook, Finished(p, l).legs)
<1> DEFINE f == Finished(p, l)
           e == EndedPage(p, l)
           n == Len(p.legs)
           g == NewLeg("turn", p.hook.view, 0)
<1>1. /\ Grown(e, f)
      /\ \/ Len(f.legs) = n /\ p.legs[l].kind \in Streams /\ f.hook.reader = 0
         \/ /\ Len(f.legs) = n + 1 /\ p.legs[l].kind \in Streams
            /\ f.hook.streaming /\ f.hook.abort = Len(f.legs) /\ f.hook.reader = 0
         \/ /\ Len(f.legs) = n /\ p.legs[l].kind \notin Streams
            /\ f.hook.reader = p.hook.reader
            /\ p.legs[l].kind = "compare" /\ Beside(p, l) # {} => f.hook = p.hook
  BY FinishedFacts DEF Streams
<1>2. /\ IsPage(e) /\ e.hook = p.hook /\ Len(e.legs) = n /\ n \in Nat
      /\ \A k \in 1 .. n : e.legs[k] = IF k = l THEN Over(p.legs[l]) ELSE p.legs[k]
  BY EndedFacts, PageLegs
<1>3. /\ Over(p.legs[l]).pc = "done" /\ p.legs[l].kind \in Kinds
  BY PageLegs, OverLeg DEF LegT
<1> HIDE DEF f, e, n
<1>4. \A k \in 1 .. n : Kept(e.legs[k], f.legs[k])
  BY <1>1, <1>2 DEF Grown
<1>5. \A k \in 1 .. n : k # l => /\ f.legs[k].pc = p.legs[k].pc /\ f.legs[k].kind = p.legs[k].kind
                                /\ f.legs[k].group = p.legs[k].group
  BY <1>2, <1>4 DEF Kept
<1>6. f.legs[l].pc = "done"
  BY <1>2, <1>3, <1>4 DEF Kept, n
<1>7. CASE p.legs[l].kind \in Streams \/ p.legs[l].kind = "continue" \/ Beside(p, l) = {}
  <2>1. ASSUME NEW k \in 1 .. n PROVE f.legs[k].pc = "done"
    <3>1. CASE k = l
      BY <1>6, <3>1
    <3>2. CASE k # l /\ p.legs[k].pc = "done"
      BY <1>5, <3>2
    <3>3. CASE k # l /\ p.legs[k].pc # "done"
      <4>1. p.legs[l].group # 0 /\ p.legs[k].group = p.legs[l].group
        BY <3>3 DEF Ready, Alone, n
      <4>2. k \in Beside(p, l)
        BY <3>3, <4>1, PageLegs DEF Beside, n
      <4>3. QED
        BY <1>7, <4>1, <4>2 DEF n, Streams
    <3>4. QED
      BY <3>1, <3>2, <3>3
  <2>2. CASE Len(f.legs) = n
    <3>1. f.hook.reader = 0
      BY <1>1, <1>2, <2>2 DEF Ready
    <3>2. QED
      BY <2>1, <2>2, <3>1 DEF RefsOk, f
  <2>3. CASE Len(f.legs) # n
    <3>1. /\ Len(f.legs) = n + 1 /\ f.hook.streaming /\ f.hook.abort = n + 1 /\ f.hook.reader = 0
      BY <1>1, <2>3
    <3>2. f.legs[n + 1] = g
      BY <1>1, <1>2, <3>1 DEF Grown
    <3>3. g.pc = "post" /\ g.kind = "turn"
      BY NewLegOk DEF Kinds
    <3> HIDE DEF g
    <3>4. Follows(f.hook, f.legs, n + 1)
      BY <1>2, <2>1, <3>1, <3>2, <3>3 DEF Follows, Alone
    <3>5. QED
      BY <1>2, <2>1, <3>1, <3>2, <3>3, <3>4 DEF RefsOk, f
  <2>4. QED
    BY <2>2, <2>3
<1>8. CASE p.legs[l].kind = "compare" /\ Beside(p, l) # {}
  <2>1. Len(f.legs) = n /\ f.hook = p.hook /\ p.hook.streaming /\ p.hook.reader = 0
    BY <1>1, <1>8 DEF Ready, Streams
  <2>2. ASSUME NEW k \in 1 .. n, f.legs[k].pc # "done" PROVE Follows(f.hook, f.legs, k)
    <3>1. k # l /\ p.legs[k].pc # "done"
      BY <1>5, <1>6, <2>2
    <3>2. p.legs[l].group # 0 /\ p.legs[k].group = p.legs[l].group
      BY <3>1 DEF Ready, Alone, n
    <3>3. p.legs[k].kind = "compare"
      BY <3>2 DEF n
    <3>4. ASSUME NEW m \in 1 .. n, m # k, f.legs[m].pc # "done"
          PROVE  f.legs[k].group # 0 /\ f.legs[m].group = f.legs[k].group
      <4>1. m # l /\ p.legs[m].pc # "done"
        BY <1>5, <1>6, <3>4
      <4>2. p.legs[m].group = p.legs[l].group
        BY <4>1 DEF Ready, Alone, n
      <4>3. QED
        BY <1>5, <3>1, <3>2, <4>1, <4>2
    <3>5. f.legs[k].kind = "compare"
      BY <1>5, <3>1, <3>3
    <3>6. QED
      BY <2>1, <3>4, <3>5 DEF Follows, Alone, Streams
  <2>3. QED
    BY <2>1, <2>2 DEF RefsOk, f
<1>9. QED
  BY <1>3, <1>7, <1>8 DEF Kinds, Streams

\* A finally block leaves a page in order.
LEMMA FinishedGood ==
  ASSUME NEW p, NEW c, IsPage(p), NEW l \in 1 .. Len(p.legs), QueueOk(p.hook, c), LegsOk(p.legs),
         p.legs[l].known /\ ~p.legs[l].aborted => p.legs[l].ended \/ p.legs[l].error,
         ~c => Ready(p.hook, p.legs, l)
  PROVE  Good(Finished(p, l), c) /\ Len(Finished(p, l).legs) >= Len(p.legs)
<1> DEFINE f == Finished(p, l)
           e == EndedPage(p, l)
<1>1. /\ Grown(e, f) /\ (p.hook.owed => f.hook.owed)
      /\ f.hook = p.hook \/ f.hook.owed \/ f.hook.streaming \/ f.hook.queue = << >>
      /\ Len(f.legs) = Len(p.legs) \/ Len(f.legs) = Len(p.legs) + 1
  BY FinishedFacts
<1>2. /\ IsPage(e) /\ e.hook = p.hook /\ Len(e.legs) = Len(p.legs) /\ Len(p.legs) \in Nat
      /\ \A k \in 1 .. Len(p.legs) : e.legs[k] = IF k = l THEN Over(p.legs[l]) ELSE p.legs[k]
  BY EndedFacts, PageLegs
<1>3. p.legs[l] \in LegT /\ LegOk(p.legs[l])
  BY PageLegs DEF LegsOk
<1>4. LegOk(Over(p.legs[l]))
  <2> DEFINE g == p.legs[l]
             o == Over(g)
  <2>1. /\ o.pc = "done" /\ o.drops = 0 /\ o.kind = g.kind /\ o.group = g.group
        /\ o.known = g.known /\ o.ended = g.ended /\ o.aborted = g.aborted /\ o.error = g.error
    BY <1>3, OverLeg
  <2>2. MaxDrops # 0
    BY Bounds
  <2>3. (o.known => o.kind \in Streams) /\ (o.kind # "compare" => o.group = 0)
    BY <1>3, <2>1 DEF LegOk
  <2>4. o.known /\ ~o.aborted => o.ended \/ o.error
    BY <2>1
  <2> HIDE DEF g, o
  <2>5. LegOk(o)
    BY <2>1, <2>2, <2>3, <2>4 DEF LegOk
  <2>6. QED
    BY <2>5 DEF o, g
<1> HIDE DEF e, f
<1>5. LegsOk(e.legs)
  BY <1>2, <1>4 DEF LegsOk
<1>6. LegsOk(f.legs) /\ IsPage(f)
  BY <1>1, <1>2, <1>5, GrownOk
<1>7. SameLine(p.hook, f.hook)
  BY <1>1, <1>2 DEF Grown
<1>8. QueueOk(f.hook, c)
  BY <1>1, <1>7, SameLineOk
<1>9. ~c => RefsOk(f.hook, f.legs)
  BY FinishedRefs DEF f, LegsOk, LegOk
<1>10. QED
  BY <1>1, <1>2, <1>6, <1>8, <1>9 DEF Good, f

\* A page whose leg l becomes g.
Changed(p, q, l, g) ==
  /\ IsPage(q) /\ Len(q.legs) = Len(p.legs)
  /\ \A k \in 1 .. Len(p.legs) : q.legs[k] = IF k = l THEN g ELSE p.legs[k]

\* All refs but the reader and isStreaming stay.
SameRefs(h, j) ==
  /\ j.view = h.view /\ j.streaming = h.streaming /\ j.abort = h.abort
  /\ j.queue = h.queue /\ j.sent = h.sent /\ j.removed = h.removed /\ j.asked = h.asked
  /\ j.owed = h.owed

\* The prompts do not notice.
LEMMA SameRefsOk ==
  ASSUME NEW h, NEW j, NEW c, QueueOk(h, c), SameRefs(h, j)
  PROVE  QueueOk(j, c)
<1>1. SameLine(h, j) /\ (h.owed => j.owed)
      /\ j.owed = h.owed /\ j.streaming = h.streaming /\ j.queue = h.queue
  BY DEF SameRefs, SameLine, Line
<1>2. QED
  BY <1>1, SameLineOk

\* A leg whose kind stays and that is in order.
Follower(a, b) == b.kind = a.kind /\ b.group = a.group /\ LegOk(b)

\* All legs are in order when one is that becomes another.
LEMMA ChangedOk ==
  ASSUME NEW p, NEW q, NEW l \in 1 .. Len(p.legs), NEW g,
         LegsOk(p.legs), Changed(p, q, l, g), LegOk(g)
  PROVE  LegsOk(q.legs) /\ IsPage(q)
BY DEF LegsOk, Changed

\* What a leg under way does to itself.
LEMMA OneLegGood ==
  ASSUME NEW p, NEW q, NEW c, NEW l \in 1 .. Len(p.legs), NEW g,
         Good(p, c), Changed(p, q, l, g), SameRefs(p.hook, q.hook), Follower(p.legs[l], g),
         p.legs[l].pc # "done", g.pc # "done",
         ~c => /\ g.kind \in Streams /\ g.pc \in {"read", "rread"} => q.hook.reader = l
               /\ ~(g.kind \in Streams /\ g.pc \in {"read", "rread"}) => q.hook.reader = 0
  PROVE  Good(q, c)
<1> DEFINE n == Len(p.legs)
<1>1. LegsOk(q.legs) /\ IsPage(q)
  BY ChangedOk DEF Good, Follower
<1>2. QueueOk(q.hook, c)
  BY SameRefsOk DEF Good
<1>3. ASSUME ~c PROVE RefsOk(q.hook, q.legs)
  <2>1. RefsOk(p.hook, p.legs) /\ q.legs[l] = g /\ g.kind = p.legs[l].kind /\ g.group = p.legs[l].group
        /\ Len(q.legs) = n
    BY <1>3 DEF Good, Changed, Follower
  <2>2. \A k \in 1 .. n : k # l => q.legs[k] = p.legs[k]
    BY DEF Changed
  <2>3. \A k \in 1 .. n : /\ q.legs[k].kind = p.legs[k].kind /\ q.legs[k].group = p.legs[k].group
                          /\ q.legs[k].pc # "done" <=> p.legs[k].pc # "done"
    BY <2>1, <2>2
  <2>4. ASSUME NEW k \in 1 .. n, q.legs[k].pc # "done" PROVE Follows(q.hook, q.legs, k)
    <3>1. Follows(p.hook, p.legs, k) /\ Follows(p.hook, p.legs, l)
      BY <2>1, <2>3, <2>4 DEF RefsOk
    <3>2. q.hook.streaming /\ Alone(q.legs, k)
      BY <2>1, <2>3, <2>4, <3>1 DEF Follows, Alone, SameRefs
    <3>3. q.legs[k].kind # "compare" => q.hook.abort = k
      BY <2>3, <3>1 DEF Follows, SameRefs
    <3>4. CASE k = l
      BY <1>3, <2>1, <3>2, <3>3, <3>4 DEF Follows
    <3>5. CASE k # l
      <4>1. p.legs[l].group # 0 /\ p.legs[k].group # 0
        BY <2>1, <2>3, <2>4, <3>1, <3>5 DEF Follows, Alone
      <4>2. p.legs[l].kind = "compare" /\ p.legs[k].kind = "compare"
        BY <4>1 DEF Good, LegsOk, LegOk
      <4>3. g.kind \notin Streams /\ q.legs[k].kind \notin Streams
        BY <2>1, <2>3, <4>2 DEF Streams
      <4>4. q.hook.reader = 0
        BY <1>3, <4>3
      <4>5. QED
        BY <3>2, <3>3, <4>3, <4>4 DEF Follows
    <3>6. QED
      BY <3>4, <3>5
  <2>5. ~(\A k \in 1 .. n : q.legs[k].pc = "done")
    BY <2>1
  <2>6. QED
    BY <2>1, <2>4, <2>5 DEF RefsOk
<1>4. QED
  BY <1>1, <1>2, <1>3 DEF Good

\* What changes only what a leg holds, whatever the leg does.
LEMMA SamePlaceGood ==
  ASSUME NEW p, NEW q, NEW c, NEW l \in 1 .. Len(p.legs), NEW g,
         Good(p, c), Changed(p, q, l, g), SameRefs(p.hook, q.hook), Follower(p.legs[l], g),
         g.pc = p.legs[l].pc, q.hook.reader = p.hook.reader
  PROVE  Good(q, c)
<1> DEFINE n == Len(p.legs)
<1>1. LegsOk(q.legs) /\ IsPage(q)
  BY ChangedOk DEF Good, Follower
<1>2. QueueOk(q.hook, c)
  BY SameRefsOk DEF Good
<1>3. ASSUME ~c PROVE RefsOk(q.hook, q.legs)
  <2>1. RefsOk(p.hook, p.legs) /\ Len(q.legs) = n
    BY <1>3 DEF Good, Changed
  <2>2. \A k \in 1 .. n : /\ q.legs[k].kind = p.legs[k].kind /\ q.legs[k].group = p.legs[k].group
                          /\ q.legs[k].pc = p.legs[k].pc
    BY DEF Changed, Follower
  <2>3. ASSUME NEW k \in 1 .. n, q.legs[k].pc # "done" PROVE Follows(q.hook, q.legs, k)
    <3>1. Follows(p.hook, p.legs, k)
      BY <2>1, <2>2, <2>3 DEF RefsOk
    <3>2. QED
      BY <2>1, <2>2, <3>1 DEF Follows, Alone, SameRefs
  <2>4. QED
    BY <2>1, <2>2, <2>3 DEF RefsOk
<1>4. QED
  BY <1>1, <1>2, <1>3 DEF Good

\* A leg under way may end, also once its own reader is forgotten.
LEMMA ReadyOf ==
  ASSUME NEW h, NEW s, NEW l \in 1 .. Len(s), NEW g, NEW j, NEW u,
         Len(u) = Len(s), u[l] = g, \A k \in 1 .. Len(s) : k # l => u[k] = s[k],
         SameRefs(h, j), Follower(s[l], g), s[l].pc # "done", RefsOk(h, s),
         j.reader = h.reader \/ j.reader = IF h.reader = l THEN 0 ELSE h.reader
  PROVE  Ready(j, u, l) /\ (u[l].kind # "compare" => j.abort = l)
<1>1. Follows(h, s, l)
  BY DEF RefsOk
<1>2. Alone(u, l)
  BY <1>1 DEF Follows, Alone, Follower
<1>3. g.kind \notin Streams => h.reader = 0
  BY <1>1 DEF Follows, Follower
<1>4. j.streaming /\ (g.kind \notin Streams => j.reader = 0) /\ (g.kind # "compare" => j.abort = l)
  BY <1>1, <1>3 DEF Follows, SameRefs, Follower
<1>5. QED
  BY <1>2, <1>4 DEF Ready

\* driveToTerminal returns: the leg asks once more, or it ends.
LEMMA DrivenGood ==
  ASSUME NEW p, NEW c, IsPage(p), NEW l \in 1 .. Len(p.legs), QueueOk(p.hook, c), LegsOk(p.legs),
         p.legs[l].known /\ ~p.legs[l].aborted => p.legs[l].ended \/ p.legs[l].error,
         ~c => /\ Ready(p.hook, p.legs, l) /\ p.hook.reader = 0
               /\ p.legs[l].kind # "compare" => p.hook.abort = l
  PROVE  Good(Driven(p, l), c) /\ Len(Driven(p, l).legs) >= Len(p.legs)
<1>1. CASE p.legs[l].kind # "resume"
  <2>1. Driven(p, l) = Finished(p, l)
    BY <1>1 DEF Driven
  <2>2. Good(Finished(p, l), c) /\ Len(Finished(p, l).legs) >= Len(p.legs)
    BY FinishedGood
  <2>3. QED
    BY <2>1, <2>2
<1>2. CASE p.legs[l].kind = "resume"
  <2> DEFINE g == [p.legs[l] EXCEPT !.pc = "final"]
             q == [p EXCEPT !.legs[l].pc = "final"]
  <2>1. p.legs[l] \in LegT /\ LegOk(p.legs[l]) /\ Len(p.legs) \in Nat
    BY PageLegs DEF LegsOk
  <2>2. /\ g \in LegT /\ g.pc = "final" /\ g.kind = "resume" /\ g.group = p.legs[l].group
        /\ g.known = p.legs[l].known /\ g.ended = p.legs[l].ended
        /\ g.aborted = p.legs[l].aborted /\ g.error = p.legs[l].error
    BY <1>2, <2>1 DEF LegT, Pcs
  <2>3. q.hook = p.hook /\ q.legs = [p.legs EXCEPT ![l] = g] /\ DOMAIN q = {"hook", "legs"}
    BY DEF IsPage
  <2>4. Driven(p, l) = q
    BY <1>2 DEF Driven
  <2> HIDE DEF g, q
  <2>5. Changed(p, q, l, g)
    BY <2>2, <2>3, OneLeg DEF Changed
  <2>6. LegOk(g)
    <3>1. g.known /\ ~g.aborted => g.ended \/ g.error
      BY <2>2
    <3>2. g.kind \in Streams /\ g.kind # "compare" /\ g.group = 0
      BY <1>2, <2>1, <2>2 DEF LegOk, Streams
    <3>3. QED
      BY <2>2, <3>1, <3>2 DEF LegOk
  <2>7. LegsOk(q.legs) /\ IsPage(q) /\ QueueOk(q.hook, c)
    BY <2>3, <2>5, <2>6, ChangedOk
  <2>8. ASSUME ~c PROVE RefsOk(q.hook, q.legs)
    <3>1. p.legs[l].group = 0
      BY <1>2, <2>1 DEF LegOk
    <3>2. \A k \in 1 .. Len(p.legs) : k # l => q.legs[k].pc = "done"
      BY <2>5, <2>8, <3>1 DEF Ready, Alone, Changed
    <3>3. q.legs[l] = g /\ Len(q.legs) = Len(p.legs)
      BY <2>5 DEF Changed
    <3>4. Follows(q.hook, q.legs, l)
      BY <1>2, <2>2, <2>3, <2>8, <3>2, <3>3 DEF Follows, Alone, Ready
    <3>5. QED
      BY <2>2, <3>2, <3>3, <3>4 DEF RefsOk
  <2>9. QED
    BY <2>1, <2>4, <2>5, <2>7, <2>8 DEF Good, Changed
<1>3. QED
  BY <1>1, <1>2

-----------------------------------------------------------------------------
(* the prompts *)

\* A new prompt is sent at once, or waits behind the others.
LEMMA LineMore ==
  ASSUME NEW s \in Seq(Nat), NEW q \in Seq(Nat), NEW n, NEW R, Holds(s \o q, n, R)
  PROVE  /\ Holds(Append(s, n + 1) \o q, n + 1, R)
         /\ Rises(s \o q) /\ q = << >> => Rises(Append(s, n + 1) \o q)
         /\ Holds(s \o Append(q, n + 1), n + 1, R)
         /\ Rises(s \o q) => Rises(s \o Append(q, n + 1))
<1>1. Len(s) \in Nat /\ Len(q) \in Nat /\ n \in Nat /\ n + 1 \in Nat
  BY LenProperties DEF Holds
<1>2. /\ Len(s \o q) = Len(s) + Len(q)
      /\ \A i \in 1 .. Len(s) + Len(q) : (s \o q)[i] = IF i <= Len(s) THEN s[i] ELSE q[i - Len(s)]
  BY ConcatProperties
<1>3. /\ Holds(Append(s, n + 1) \o q, n + 1, R)
      /\ Rises(s \o q) /\ Len(s) = Len(s \o q) => Rises(Append(s, n + 1) \o q)
  <2> DEFINE t == Append(s, n + 1)
             u == t \o q
  <2>1. /\ t \in Seq(Nat) /\ Len(t) = Len(s) + 1 /\ t[Len(s) + 1] = n + 1
        /\ \A i \in 1 .. Len(s) : t[i] = s[i]
    BY <1>1, AppendProperties
  <2> HIDE DEF t
  <2>2. /\ u \in Seq(Nat) /\ Len(u) = Len(t) + Len(q)
        /\ \A i \in 1 .. Len(t) + Len(q) : u[i] = IF i <= Len(t) THEN t[i] ELSE q[i - Len(t)]
    BY <2>1, ConcatProperties
  <2> HIDE DEF u
  <2>3. Len(u) = Len(s \o q) + 1 /\ u[Len(s) + 1] = n + 1 /\ Len(s) <= Len(s \o q)
    BY <1>1, <1>2, <2>1, <2>2
  <2>4. ASSUME NEW i \in 1 .. Len(s) PROVE u[i] = (s \o q)[i]
    BY <1>1, <1>2, <2>1, <2>2
  <2>5. ASSUME NEW i \in Len(s) + 2 .. Len(u) PROVE u[i] = (s \o q)[i - 1]
    <3>1. i \in 1 .. Len(t) + Len(q) /\ ~(i <= Len(t)) /\ i - 1 \in 1 .. Len(s) + Len(q) /\ ~(i - 1 <= Len(s))
          /\ i - Len(t) = (i - 1) - Len(s)
      BY <1>1, <2>1, <2>2
    <3>2. u[i] = q[i - Len(t)] /\ (s \o q)[i - 1] = q[(i - 1) - Len(s)]
      BY <1>2, <2>2, <3>1
    <3>3. QED
      BY <3>1, <3>2
  <2>6. Holds(u, n + 1, R) /\ (Rises(s \o q) /\ Len(s) = Len(s \o q) => Rises(u))
    BY <1>1, <2>2, <2>3, <2>4, <2>5, HoldsNext
  <2>7. QED
    BY <2>6 DEF u, t
<1>4. /\ Holds(s \o Append(q, n + 1), n + 1, R)
      /\ Rises(s \o q) => Rises(s \o Append(q, n + 1))
  <2> DEFINE t == Append(q, n + 1)
             u == s \o t
  <2>1. /\ t \in Seq(Nat) /\ Len(t) = Len(q) + 1 /\ t[Len(q) + 1] = n + 1
        /\ \A i \in 1 .. Len(q) : t[i] = q[i]
    BY <1>1, AppendProperties
  <2> HIDE DEF t
  <2>2. /\ u \in Seq(Nat) /\ Len(u) = Len(s) + Len(t)
        /\ \A i \in 1 .. Len(s) + Len(t) : u[i] = IF i <= Len(s) THEN s[i] ELSE t[i - Len(s)]
    BY <2>1, ConcatProperties
  <2> HIDE DEF u
  <2> DEFINE a == Len(s \o q)
  <2>3. Len(u) = a + 1 /\ u[a + 1] = n + 1 /\ a <= a /\ a \in Nat
    <3>1. a + 1 \in 1 .. Len(s) + Len(t) /\ ~(a + 1 <= Len(s)) /\ (a + 1) - Len(s) = Len(q) + 1
      BY <1>1, <1>2, <2>1
    <3>2. QED
      BY <1>1, <1>2, <2>1, <2>2, <3>1
  <2>4. ASSUME NEW i \in 1 .. a PROVE u[i] = (s \o q)[i]
    <3>1. i \in 1 .. Len(s) + Len(q) /\ i \in 1 .. Len(s) + Len(t)
      BY <1>1, <1>2, <2>1
    <3>2. u[i] = IF i <= Len(s) THEN s[i] ELSE t[i - Len(s)]
      BY <2>2, <3>1
    <3>3. ~(i <= Len(s)) => i - Len(s) \in 1 .. Len(q)
      BY <1>1, <3>1
    <3>4. QED
      BY <1>2, <2>1, <3>1, <3>2, <3>3
  <2>5. \A i \in a + 2 .. Len(u) : u[i] = (s \o q)[i - 1]
    BY <2>3
  <2>6. Holds(u, n + 1, R) /\ (Rises(s \o q) /\ a = Len(s \o q) => Rises(u))
    <3> HIDE DEF a
    <3>1. a <= Len(s \o q)
      BY <2>3 DEF a
    <3>2. Len(u) = Len(s \o q) + 1
      BY <2>3 DEF a
    <3>3. QED
      BY <1>1, <2>2, <2>3, <2>4, <2>5, <3>1, <3>2, HoldsNext
  <2>7. QED
    BY <2>6 DEF u, t
<1>5. q = << >> => Len(s) = Len(s \o q)
  BY <1>1, <1>2
<1>6. QED
  BY <1>3, <1>4, <1>5

\* A prompt is taken out of the queue.
LEMMA LineLess ==
  ASSUME NEW s \in Seq(Nat), NEW q \in Seq(Nat), NEW n, NEW R, Holds(s \o q, n, R),
         NEW x \in 1 .. Len(q)
  PROVE  /\ RemoveAt(q, x) \in Seq(Nat) /\ Holds(s \o RemoveAt(q, x), n, R \union {q[x]})
         /\ Rises(s \o q) => Rises(s \o RemoveAt(q, x))
<1>1. Len(s) \in Nat /\ Len(q) \in Nat /\ x \in Nat
  BY LenProperties
<1>2. /\ Len(s \o q) = Len(s) + Len(q)
      /\ \A i \in 1 .. Len(s) + Len(q) : (s \o q)[i] = IF i <= Len(s) THEN s[i] ELSE q[i - Len(s)]
  BY ConcatProperties
<1>3. \A i \in 1 .. Len(q) : q[i] \in Nat
  BY ElementOfSeq
<1> DEFINE b == SubSeq(q, 1, x - 1)
           c == SubSeq(q, x + 1, Len(q))
           t == RemoveAt(q, x)
           u == s \o t
           a == Len(s) + x
<1>4. b \in Seq(Nat) /\ Len(b) = x - 1 /\ \A i \in 1 .. x - 1 : b[i] = q[i]
  <2>1. 1 \in Int /\ x - 1 \in Int /\ \A i \in 1 .. x - 1 : q[i] \in Nat
    BY <1>1, <1>3
  <2>2. /\ b \in Seq(Nat) /\ Len(b) = IF 1 <= x - 1 THEN (x - 1) - 1 + 1 ELSE 0
        /\ \A i \in 1 .. (x - 1) - 1 + 1 : b[i] = q[1 + i - 1]
    BY <2>1, SubSeqProperties
  <2>3. (x - 1) - 1 + 1 = x - 1 /\ \A i \in 1 .. x - 1 : 1 + i - 1 = i
    BY <1>1
  <2>4. Len(b) = x - 1
    BY <1>1, <2>2
  <2>5. \A i \in 1 .. x - 1 : b[i] = q[i]
    BY <2>2, <2>3
  <2>6. QED
    BY <2>2, <2>4, <2>5
<1>5. c \in Seq(Nat) /\ Len(c) = Len(q) - x /\ \A i \in 1 .. Len(q) - x : c[i] = q[x + i]
  <2>1. x + 1 \in Int /\ Len(q) \in Int /\ \A i \in x + 1 .. Len(q) : q[i] \in Nat
    BY <1>1, <1>3
  <2>2. /\ c \in Seq(Nat) /\ Len(c) = IF x + 1 <= Len(q) THEN Len(q) - (x + 1) + 1 ELSE 0
        /\ \A i \in 1 .. Len(q) - (x + 1) + 1 : c[i] = q[(x + 1) + i - 1]
    BY <2>1, SubSeqProperties
  <2>3. QED
    BY <1>1, <2>2
<1>6. t = b \o c
  BY DEF RemoveAt
<1> HIDE DEF b, c, t
<1>7. /\ t \in Seq(Nat) /\ Len(t) = Len(b) + Len(c)
      /\ \A i \in 1 .. Len(b) + Len(c) : t[i] = IF i <= Len(b) THEN b[i] ELSE c[i - Len(b)]
  BY <1>4, <1>5, <1>6, ConcatProperties
<1>8. /\ Len(t) = Len(q) - 1 /\ \A i \in 1 .. x - 1 : t[i] = q[i]
      /\ \A i \in x .. Len(t) : t[i] = q[i + 1]
  <2>1. Len(t) = Len(q) - 1
    BY <1>1, <1>4, <1>5, <1>7
  <2>2. ASSUME NEW i \in 1 .. x - 1 PROVE t[i] = q[i]
    <3>1. i \in 1 .. Len(b) + Len(c) /\ i <= Len(b)
      BY <1>1, <1>4, <1>5
    <3>2. QED
      BY <1>4, <1>7, <3>1
  <2>3. ASSUME NEW i \in x .. Len(t) PROVE t[i] = q[i + 1]
    <3>1. i \in 1 .. Len(b) + Len(c) /\ ~(i <= Len(b)) /\ i - Len(b) \in 1 .. Len(q) - x
          /\ x + (i - Len(b)) = i + 1
      BY <1>1, <1>4, <1>5, <1>7, <2>1
    <3>2. t[i] = c[i - Len(b)] /\ c[i - Len(b)] = q[x + (i - Len(b))]
      BY <1>5, <1>7, <3>1
    <3>3. QED
      BY <3>1, <3>2
  <2>4. QED
    BY <2>1, <2>2, <2>3
<1>9. /\ u \in Seq(Nat) /\ Len(u) = Len(s) + Len(t)
      /\ \A i \in 1 .. Len(s) + Len(t) : u[i] = IF i <= Len(s) THEN s[i] ELSE t[i - Len(s)]
  <2>1. t \in Seq(Nat)
    BY <1>7
  <2>2. QED
    BY <2>1, ConcatProperties
<1> HIDE DEF u
<1>10. a \in 1 .. Len(s \o q) /\ Len(u) = Len(s \o q) - 1 /\ (s \o q)[a] = q[x]
  <2>1. a \in 1 .. Len(s) + Len(q) /\ ~(a <= Len(s)) /\ a - Len(s) = x
    BY <1>1
  <2>2. QED
    BY <1>1, <1>2, <1>8, <1>9, <2>1
<1>11. ASSUME NEW i \in 1 .. a - 1 PROVE u[i] = (s \o q)[i]
  <2>1. i \in 1 .. Len(s) + Len(t) /\ i \in 1 .. Len(s) + Len(q)
        /\ (~(i <= Len(s)) => i - Len(s) \in 1 .. x - 1)
    BY <1>1, <1>8
  <2>2. u[i] = IF i <= Len(s) THEN s[i] ELSE t[i - Len(s)]
    BY <1>9, <2>1
  <2>3. QED
    BY <1>2, <1>8, <2>1, <2>2
<1>12. ASSUME NEW i \in a .. Len(u) PROVE u[i] = (s \o q)[i + 1]
  <2>1. i \in 1 .. Len(s) + Len(t) /\ i + 1 \in 1 .. Len(s) + Len(q) /\ ~(i <= Len(s))
        /\ ~(i + 1 <= Len(s)) /\ i - Len(s) \in x .. Len(t) /\ (i + 1) - Len(s) = (i - Len(s)) + 1
    BY <1>1, <1>8, <1>9
  <2>2. u[i] = t[i - Len(s)] /\ (s \o q)[i + 1] = q[(i + 1) - Len(s)]
    BY <1>2, <1>9, <2>1
  <2>3. t[i - Len(s)] = q[(i - Len(s)) + 1]
    BY <1>8, <2>1
  <2>4. QED
    BY <2>1, <2>2, <2>3
<1> HIDE DEF a
<1>13. Holds(u, n, R \union {(s \o q)[a]}) /\ (Rises(s \o q) => Rises(u))
  BY <1>9, <1>10, <1>11, <1>12, HoldsLess
<1>14. QED
  BY <1>7, <1>10, <1>13 DEF u, t

-----------------------------------------------------------------------------
(* pages on which a leg begins *)

\* Where nothing else is under way, the refs belong to the leg that begins.
LEMMA FirstLegRefs ==
  ASSUME NEW n \in Nat, NEW h, NEW s, Len(s) = n + 1, \A k \in 1 .. n : s[k].pc = "done",
         s[n + 1].pc \notin {"done", "rread"},
         s[n + 1].kind \in Streams => s[n + 1].pc # "read",
         h.streaming, h.abort = n + 1, h.reader = 0
  PROVE  RefsOk(h, s)
<1>1. n + 1 \in 1 .. Len(s) /\ \A k \in 1 .. Len(s) : k # n + 1 => s[k].pc = "done"
  BY DEF Streams
<1>2. ~(s[n + 1].kind \in Streams /\ s[n + 1].pc \in {"read", "rread"})
  OBVIOUS
<1>3. Follows(h, s, n + 1)
  BY <1>1, <1>2 DEF Follows, Alone
<1>4. QED
  BY <1>1, <1>3 DEF RefsOk

\* More crosses than before: the prompts do not notice.
LEMMA QueueCrossed ==
  ASSUME NEW h, NEW c, NEW d, QueueOk(h, c), c => d
  PROVE  QueueOk(h, d)
BY DEF QueueOk

\* Legs of which the last is new are in order.
LEMMA LegsMore ==
  ASSUME NEW n \in Nat, NEW s, NEW u, Len(s) = n, Len(u) = n + 1, LegsOk(s),
         \A k \in 1 .. n : Kept(s[k], u[k]), LegOk(u[n + 1])
  PROVE  LegsOk(u)
<1>1. ASSUME NEW k \in 1 .. Len(u) PROVE LegOk(u[k])
  <2>1. CASE k = n + 1
    BY <2>1
  <2>2. CASE k # n + 1
    <3>1. k \in 1 .. n
      BY <2>2
    <3>2. QED
      BY <3>1, KeptOk DEF LegsOk
  <2>3. QED
    BY <2>1, <2>2
<1>2. QED
  BY <1>1 DEF LegsOk

\* The refs of a page on which a leg begins.
LEMMA BegunHook ==
  ASSUME NEW h \in HookT, NEW n \in Nat, NEW r \in Nat, NEW j, j = Holding(h, n, r)
  PROVE  /\ j.abort = n /\ j.reader = r /\ j.streaming /\ j.owed = h.owed /\ SameLine(h, j)
         /\ j.queue = h.queue /\ j.sent = h.sent
BY DEF HookT, SameLine, Line, Holding

\* No leg of a page is under way.
Idle(p) == \A k \in 1 .. Len(p.legs) : p.legs[k].pc = "done"

\* Page q has one leg more.
Longer(p, q) == Len(q.legs) = Len(p.legs) + 1

Beginnings == {"turn", "resume", "continue"}

\* A leg that begins, crossing others or not, leaves a page in order.
LEMMA BegunGood ==
  ASSUME NEW p, NEW c, NEW d, Good(p, c), c => d, NEW kind \in Beginnings, NEW s \in Sessions,
         NEW t \in Nat, ~d => Idle(p)
  PROVE  Good(Begun(p, NewLeg(kind, s, t)), d) /\ Longer(p, Begun(p, NewLeg(kind, s, t)))
<1> DEFINE g == NewLeg(kind, s, t)
           b == Begun(p, g)
           n == Len(p.legs)
           r == ReaderLeft(p.hook)
<1>1. kind \in Kinds /\ g \in LegT /\ IsPage(p) /\ n \in Nat /\ p.hook \in HookT
  BY NewLegT, PageLegs DEF Kinds, Good, Beginnings
<1>2. /\ LegOk(g) /\ g.kind = kind /\ g.pc # "done" /\ g.group = 0
      /\ kind = "turn" => g.pc = "post"
      /\ kind = "resume" => g.pc = "drive"
  BY <1>1, NewLegOk
<1>3. kind = "continue" => g.pc = "read"
  BY DEF NewLeg
<1> HIDE DEF g
<1>4. /\ IsPage(b) /\ Len(b.legs) = n + 1
      /\ \A k \in 1 .. n : Kept(p.legs[k], b.legs[k])
      /\ b.legs[n + 1] = g
      /\ b.hook = Holding(p.hook, n + 1, r)
  BY <1>1, BegunFacts
<1> HIDE DEF b
<1>5. r \in Nat /\ n + 1 \in Nat
  BY <1>1 DEF ReaderLeft, HookT
<1> DEFINE m == n + 1
<1>6. m \in Nat /\ b.hook = Holding(p.hook, m, r)
  BY <1>4, <1>5
<1> HIDE DEF m, r
<1>7. p.hook \in HookT /\ m \in Nat /\ r \in Nat
  BY <1>1, <1>5, <1>6
<1>8. /\ b.hook.abort = m /\ b.hook.reader = r /\ b.hook.streaming
      /\ b.hook.owed = p.hook.owed /\ SameLine(p.hook, b.hook)
  BY <1>6, <1>7, BegunHook
<1>9. QueueOk(b.hook, d)
  <2>1. QueueOk(p.hook, d)
    BY QueueCrossed DEF Good
  <2>2. QED
    BY <1>8, <2>1, SameLineOk
<1>10. LegsOk(b.legs)
  <2> DEFINE u == p.legs
             v == b.legs
  <2>1. /\ n \in Nat /\ Len(u) = n /\ Len(v) = n + 1 /\ LegsOk(u)
        /\ \A k \in 1 .. n : Kept(u[k], v[k])
    BY <1>1, <1>4 DEF Good
  <2>2. LegOk(v[n + 1])
    BY <1>2, <1>4
  <2> HIDE DEF n, u, v
  <2>3. LegsOk(v)
    BY <2>1, <2>2, LegsMore
  <2>4. QED
    BY <2>3 DEF v
<1>11. ASSUME ~d PROVE RefsOk(b.hook, b.legs)
  <2>1. RefsOk(p.hook, p.legs) /\ \A k \in 1 .. n : p.legs[k].pc = "done"
    BY <1>11 DEF Good, Idle
  <2>2. r = 0
    BY <2>1 DEF RefsOk, r, ReaderLeft
  <2>3. \A k \in 1 .. n : b.legs[k].pc = "done"
    BY <1>4, <2>1 DEF Kept
  <2>4. g.pc \notin {"done", "rread"} /\ (g.kind \in Streams => g.pc # "read")
    BY <1>2, <1>3 DEF Streams, Beginnings
  <2>5. QED
    BY <1>1, <1>4, <1>8, <2>2, <2>3, <2>4, FirstLegRefs DEF m
<1>12. QED
  BY <1>4, <1>9, <1>10, <1>11 DEF Good, Longer, b, g

\* What send does to a page.
SentPage(p) ==
  LET m == p.hook.asked + 1
      q == [p EXCEPT !.hook.asked = m]
  IN IF p.hook.streaming THEN [q EXCEPT !.hook.queue = Append(@, m)] ELSE Dispatched(q, m)

\* It queues the prompt, or sends it with a new leg.
LEMMA SentGood ==
  ASSUME NEW p, NEW c, Good(p, c)
  PROVE  /\ Good(SentPage(p), c)
         /\ Len(SentPage(p).legs) = IF p.hook.streaming THEN Len(p.legs) ELSE Len(p.legs) + 1
<1> DEFINE h == p.hook
           m == h.asked + 1
           q == [p EXCEPT !.hook.asked = m]
           n == Len(p.legs)
<1>1. /\ IsPage(p) /\ h \in HookT /\ n \in Nat /\ h.sent \in Seq(Nat) /\ h.queue \in Seq(Nat)
      /\ h.asked \in Nat /\ m \in Nat /\ h.view \in Sessions
  BY PageLegs DEF Good, HookT
<1>2. Holds(h.sent \o h.queue, h.asked, h.removed)
  BY DEF Good, QueueOk, Line
<1>3. /\ Holds(Append(h.sent, m) \o h.queue, m, h.removed)
      /\ Rises(h.sent \o h.queue) /\ h.queue = << >> => Rises(Append(h.sent, m) \o h.queue)
      /\ Holds(h.sent \o Append(h.queue, m), m, h.removed)
      /\ Rises(h.sent \o h.queue) => Rises(h.sent \o Append(h.queue, m))
  BY <1>1, <1>2, LineMore
<1>4. ~c /\ ~h.owed => Rises(h.sent \o h.queue) /\ (~h.streaming => h.queue = << >>)
  BY DEF Good, QueueOk, Line
<1>5. q.hook = [h EXCEPT !.asked = m] /\ q.legs = p.legs /\ DOMAIN q = {"hook", "legs"}
  BY <1>1 DEF IsPage
<1>6. /\ q.hook \in HookT /\ q.hook.asked = m /\ q.hook.queue = h.queue /\ q.hook.sent = h.sent
      /\ q.hook.removed = h.removed /\ q.hook.owed = h.owed /\ q.hook.abort = h.abort
      /\ q.hook.reader = h.reader /\ q.hook.streaming = h.streaming /\ q.hook.view = h.view
  BY <1>1, <1>5 DEF HookT
<1>7. CASE h.streaming
  <2> DEFINE r == [q EXCEPT !.hook.queue = Append(@, m)]
  <2>1. r.hook = [q.hook EXCEPT !.queue = Append(h.queue, m)] /\ r.legs = p.legs /\ DOMAIN r = {"hook", "legs"}
    BY <1>5, <1>6
  <2>2. SentPage(p) = r
    BY <1>7 DEF SentPage
  <2> HIDE DEF r, q
  <2>3. Append(h.queue, m) \in Seq(Nat)
    BY <1>1, AppendProperties
  <2>4. /\ r.hook \in HookT /\ r.hook.asked = m /\ r.hook.queue = Append(h.queue, m) /\ r.hook.sent = h.sent
        /\ r.hook.removed = h.removed /\ r.hook.owed = h.owed /\ r.hook.abort = h.abort
        /\ r.hook.reader = h.reader /\ r.hook.streaming = h.streaming
    BY <1>6, <2>1, <2>3 DEF HookT
  <2>5. IsPage(r)
    BY <1>1, <2>1, <2>4 DEF IsPage
  <2>6. QueueOk(r.hook, c)
    BY <1>3, <1>4, <1>7, <2>4 DEF QueueOk, Line
  <2>7. ~c => RefsOk(r.hook, r.legs)
    BY <2>1, <2>4 DEF Good, RefsOk, Follows
  <2>8. QED
    BY <1>7, <2>1, <2>2, <2>5, <2>6, <2>7 DEF Good
<1>8. CASE ~h.streaming
  <2> DEFINE d == Dispatched(q, m)
             g == NewLeg("turn", h.view, 0)
             x == ReaderLeft(q.hook)
             e == n + 1
  <2>1. SentPage(p) = d
    BY <1>8 DEF SentPage
  <2> HIDE DEF q
  <2>2. IsPage(q)
    BY <1>1, <1>5, <1>6 DEF IsPage
  <2>3. /\ IsPage(d) /\ Len(d.legs) = e /\ d.legs[e] = g
        /\ \A k \in 1 .. n : Kept(p.legs[k], d.legs[k])
        /\ d.hook = Holding(Sent(q.hook, m), e, x)
    <3>1. /\ IsPage(d) /\ Len(d.legs) = Len(q.legs) + 1
          /\ d.legs[Len(q.legs) + 1] = NewLeg("turn", q.hook.view, 0)
          /\ \A k \in 1 .. Len(q.legs) : Kept(q.legs[k], d.legs[k])
          /\ d.hook = Holding(Sent(q.hook, m), Len(q.legs) + 1, ReaderLeft(q.hook))
      BY <1>1, <2>2, DispatchedFacts
    <3> HIDE DEF d
    <3>2. QED
      BY <1>5, <1>6, <3>1
  <2> HIDE DEF d
  <2>4. x = h.reader /\ x \in Nat /\ e \in Nat
    BY <1>1, <1>6, <1>8 DEF ReaderLeft, HookT
  <2> HIDE DEF x, e
  <2> DEFINE j == Sent(q.hook, m)
  <2>5. /\ j \in HookT /\ j.sent = Append(h.sent, m) /\ j.queue = h.queue /\ j.owed = h.owed
        /\ j.asked = m /\ j.removed = h.removed
    <3>1. /\ j \in HookT /\ j.sent = Append(q.hook.sent, m) /\ j.queue = q.hook.queue /\ j.owed = q.hook.owed
          /\ j.asked = q.hook.asked /\ j.removed = q.hook.removed
      BY <1>1, <1>6, HookSent, Zenon
    <3>2. QED
      BY <1>6, <3>1
  <2> HIDE DEF j
  <2>6. j \in HookT /\ e \in Nat /\ x \in Nat /\ d.hook = Holding(j, e, x)
    BY <2>3, <2>4, <2>5 DEF j
  <2>7. /\ d.hook.abort = e /\ d.hook.reader = x /\ d.hook.streaming /\ d.hook.owed = j.owed
        /\ d.hook.queue = j.queue /\ d.hook.sent = j.sent /\ SameLine(j, d.hook)
    BY <2>6, BegunHook
  <2>8. QueueOk(d.hook, c)
    <3>1. /\ d.hook.asked = m /\ d.hook.removed = h.removed /\ Line(d.hook) = Append(h.sent, m) \o h.queue
      BY <2>5, <2>7 DEF SameLine, Line
    <3>2. QED
      BY <1>3, <1>4, <1>8, <2>5, <2>7, <3>1 DEF QueueOk
  <2>9. LegOk(g) /\ g.pc = "post" /\ g.kind = "turn"
    BY NewLegOk DEF Kinds
  <2> HIDE DEF g
  <2>10. LegsOk(d.legs)
    BY <1>1, <2>3, <2>9, LegsMore DEF Good, e
  <2>11. ASSUME ~c PROVE RefsOk(d.hook, d.legs)
    <3>1. RefsOk(p.hook, p.legs)
      BY <2>11 DEF Good
    <3>2. \A k \in 1 .. n : p.legs[k].pc = "done"
      BY <1>8, <3>1 DEF RefsOk, Follows
    <3>3. x = 0 /\ \A k \in 1 .. n : d.legs[k].pc = "done"
      BY <2>3, <2>4, <3>1, <3>2 DEF RefsOk, Kept
    <3>4. Len(d.legs) = n + 1 /\ d.legs[n + 1] = g /\ d.hook.abort = n + 1 /\ d.hook.reader = 0
      BY <2>3, <2>7, <3>3 DEF e
    <3>5. d.legs[n + 1].pc \notin {"done", "rread"} /\ d.legs[n + 1].pc # "read"
      BY <2>9, <3>4
    <3>6. d.hook.streaming
      BY <2>7
    <3> HIDE DEF n
    <3>7. n \in Nat
      BY <1>1 DEF n
    <3>8. QED
      BY <3>3, <3>4, <3>5, <3>6, <3>7, FirstLegRefs
  <2>12. QED
    BY <1>8, <2>1, <2>3, <2>8, <2>10, <2>11 DEF Good, e
<1>9. QED
  BY <1>7, <1>8

-----------------------------------------------------------------------------
(* the steps of the legs *)

\* A page is in order whatever else it is a part of.
LEMMA GoodParts ==
  ASSUME NEW q, NEW c, Good(q, c), NEW h, NEW s, h = q.hook, s = q.legs
  PROVE  Good([hook |-> h, legs |-> s], c)
<1> DEFINE r == [hook |-> h, legs |-> s]
<1>1. r.hook = q.hook /\ r.legs = q.legs /\ DOMAIN r = {"hook", "legs"}
  OBVIOUS
<1> HIDE DEF r
<1>2. IsPage(r)
  BY <1>1 DEF Good, IsPage
<1>3. Good(r, c)
  BY <1>1, <1>2 DEF Good
<1>4. QED
  BY <1>3 DEF r

\* The page and the legs of a state.
LEMMA PageNow ==
  ASSUME IInv
  PROVE  /\ Good(Page, crossed) /\ IsPage(Page) /\ Page.hook = hook /\ Page.legs = legs
         /\ LegsOk(legs) /\ QueueOk(hook, crossed) /\ (~crossed => RefsOk(hook, legs))
         /\ Len(legs) \in Nat /\ DOMAIN legs = 1 .. Len(legs) /\ legs \in Seq(LegT) /\ hook \in HookT
         /\ \A k \in 1 .. Len(legs) : legs[k] \in LegT /\ LegOk(legs[k])
<1>1. Good(Page, crossed) /\ Page.hook = hook /\ Page.legs = legs
  BY DEF IInv, Page
<1>2. IsPage(Page) /\ LegsOk(legs) /\ QueueOk(hook, crossed) /\ (~crossed => RefsOk(hook, legs))
  BY <1>1 DEF Good
<1>3. /\ Len(legs) \in Nat /\ DOMAIN legs = 1 .. Len(legs) /\ legs \in Seq(LegT) /\ hook \in HookT
      /\ \A k \in 1 .. Len(legs) : legs[k] \in LegT
  BY <1>1, <1>2, PageLegs
<1>4. QED
  BY <1>1, <1>2, <1>3 DEF LegsOk

\* A step that leaves the server alone and a page in order.
LEMMA BecomesKeeps ==
  ASSUME IInv, NEW q, Good(q, crossed), Len(q.legs) = Len(legs), Becomes(q),
         UNCHANGED <<posts, stops, loads, turns, saved, crossed>>
  PROVE  IInv'
<1>1. hook' = q.hook /\ legs' = q.legs
  BY DEF Becomes
<1>2. Good([hook |-> hook', legs |-> legs'], crossed)
  BY <1>1, GoodParts
<1>3. QED
  BY <1>1, <1>2 DEF IInv, Page

\* ... and that may let a leg begin.
LEMMA EndsKeeps ==
  ASSUME IInv, NEW q, Good(q, crossed), Len(q.legs) >= Len(legs), Ends(q),
         UNCHANGED <<stops, loads, turns, saved, crossed>>
  PROVE  IInv'
<1>1. hook' = q.hook /\ legs' = q.legs /\ posts' = posts \union (DOMAIN q.legs \ DOMAIN legs)
  BY DEF Ends, Becomes
<1>2. Good([hook |-> hook', legs |-> legs'], crossed)
  BY <1>1, GoodParts
<1>3. Len(q.legs) \in Nat /\ DOMAIN q.legs = 1 .. Len(q.legs) /\ Len(legs) \in Nat
  BY PageNow, PageLegs DEF Good
<1>4. posts' \subseteq 1 .. Len(legs')
  <2>1. 1 .. Len(legs) \subseteq 1 .. Len(q.legs) /\ posts \subseteq 1 .. Len(legs)
    BY <1>3 DEF IInv
  <2>2. posts' = posts \union (1 .. Len(q.legs) \ DOMAIN legs) /\ 1 .. Len(legs') = 1 .. Len(q.legs)
    BY <1>1, <1>3
  <2>3. QED
    BY <2>1, <2>2, Zenon
<1>5. QED
  BY <1>1, <1>2, <1>4 DEF IInv, Page

\* The reader of l is forgotten.
LEMMA UnreadFacts ==
  ASSUME NEW p, IsPage(p), NEW l \in 1 .. Len(p.legs), LegOk(p.legs[l])
  PROVE  LET q == Unread(p, l)
             g == [p.legs[l] EXCEPT !.cut = FALSE]
         IN /\ Changed(p, q, l, g) /\ SameRefs(p.hook, q.hook) /\ g \in LegT
            /\ q.hook.reader = IF p.hook.reader = l THEN 0 ELSE p.hook.reader
            /\ Kept(p.legs[l], g) /\ Kept(g, p.legs[l]) /\ LegOk(g) /\ Follower(p.legs[l], g)
<1> DEFINE q == Unread(p, l)
           g == [p.legs[l] EXCEPT !.cut = FALSE]
           r == IF p.hook.reader = l THEN 0 ELSE p.hook.reader
<1>1. p.hook \in HookT /\ p.legs[l] \in LegT /\ Len(p.legs) \in Nat
  BY PageLegs
<1>2. /\ q.hook = [p.hook EXCEPT !.reader = r] /\ q.legs = [p.legs EXCEPT ![l] = g]
      /\ DOMAIN q = {"hook", "legs"}
  BY DEF IsPage, Unread
<1>3. g \in LegT /\ Kept(p.legs[l], g) /\ Kept(g, p.legs[l])
  BY <1>1 DEF LegT, Kept
<1>4. r \in 0 .. Len(p.legs) /\ r \in Nat
  BY <1>1 DEF IsPage
<1> HIDE DEF q, g, r
<1>5. q.hook \in HookT /\ SameRefs(p.hook, q.hook) /\ q.hook.reader = r
  BY <1>1, <1>2, <1>4 DEF HookT, SameRefs
<1>6. /\ q.legs \in Seq(LegT) /\ Len(q.legs) = Len(p.legs)
      /\ \A k \in 1 .. Len(p.legs) : q.legs[k] = IF k = l THEN g ELSE p.legs[k]
  BY <1>1, <1>2, <1>3, PageLegs, ExceptSeq
<1>7. IsPage(q)
  BY <1>2, <1>4, <1>5, <1>6 DEF IsPage, SameRefs
<1>8. LegOk(g)
  BY <1>3, KeptOk
<1>9. Follower(p.legs[l], g)
  BY <1>3, <1>8 DEF Follower, Kept
<1>10. QED
  BY <1>3, <1>5, <1>6, <1>7, <1>8, <1>9 DEF Changed, q, g, r

\* One leg changes, and nothing of the refs.
LEMMA LegChanges ==
  ASSUME NEW p, IsPage(p), NEW l \in 1 .. Len(p.legs), NEW g \in LegT, NEW q,
         q.hook = p.hook, q.legs = [p.legs EXCEPT ![l] = g], DOMAIN q = {"hook", "legs"}
  PROVE  Changed(p, q, l, g) /\ SameRefs(p.hook, q.hook) /\ q.hook.reader = p.hook.reader
<1>1. Changed(p, q, l, g)
  BY OneLeg DEF Changed
<1>2. QED
  BY <1>1 DEF SameRefs

\* One leg changes, and whose reader it is.
LEMMA LegReads ==
  ASSUME NEW p, IsPage(p), NEW l \in 1 .. Len(p.legs), NEW g \in LegT, NEW q,
         NEW r \in 0 .. Len(p.legs), q.hook = [p.hook EXCEPT !.reader = r],
         q.legs = [p.legs EXCEPT ![l] = g], DOMAIN q = {"hook", "legs"}
  PROVE  Changed(p, q, l, g) /\ SameRefs(p.hook, q.hook) /\ q.hook.reader = r
<1>1. p.hook \in HookT /\ Len(p.legs) \in Nat /\ r \in Nat
  BY PageLegs
<1>2. q.hook \in HookT /\ SameRefs(p.hook, q.hook) /\ q.hook.reader = r
  BY <1>1 DEF HookT, SameRefs
<1>3. /\ q.legs \in Seq(LegT) /\ Len(q.legs) = Len(p.legs)
      /\ \A k \in 1 .. Len(p.legs) : q.legs[k] = IF k = l THEN g ELSE p.legs[k]
  BY PageLegs, ExceptSeq
<1>4. IsPage(q)
  BY <1>2, <1>3 DEF IsPage, SameRefs
<1>5. QED
  BY <1>2, <1>3, <1>4 DEF Changed

\* The reader of a leg under way is read where nothing crosses.
LEMMA ReaderOf ==
  ASSUME NEW h, NEW s, NEW l \in 1 .. Len(s), RefsOk(h, s), s[l].pc # "done"
  PROVE  /\ s[l].kind \in Streams /\ s[l].pc \in {"read", "rread"} => h.reader = l
         /\ ~(s[l].kind \in Streams /\ s[l].pc \in {"read", "rread"}) => h.reader = 0
<1>1. Follows(h, s, l)
  BY DEF RefsOk
<1>2. QED
  BY <1>1 DEF Follows

\* The answer to a POST.
LEMMA ReplyKeeps ==
  ASSUME IInv, NEW l \in DOMAIN legs, Reply(l)
  PROVE  IInv'
<1> DEFINE a == legs[l]
           g == [a EXCEPT !.pc = "read"]
           r == IF a.kind = "compare" THEN hook.reader ELSE l
           q == [Page EXCEPT !.legs[l].pc = "read",
                             !.hook.reader = IF legs[l].kind = "compare" THEN @ ELSE l]
<1>1. /\ a.pc = "post" /\ Becomes(q) /\ UNCHANGED <<posts, stops, loads, turns, saved, crossed>>
  BY DEF Reply, At, env, server
<1>2. l \in 1 .. Len(legs) /\ a \in LegT /\ LegOk(a)
  BY PageNow
<1>3. q.hook = [hook EXCEPT !.reader = r] /\ q.legs = [legs EXCEPT ![l] = g] /\ DOMAIN q = {"hook", "legs"}
  BY DEF Page
<1>4. /\ g \in LegT /\ g.pc = "read" /\ g.kind = a.kind /\ g.group = a.group /\ g.known = a.known
      /\ g.drops = a.drops
  BY <1>2 DEF LegT, Pcs
<1>5. a.kind \in {"turn", "compare"} /\ a.drops # MaxDrops /\ ~a.known
      /\ (a.kind # "compare" => a.group = 0)
  BY <1>1, <1>2 DEF LegOk
<1> HIDE DEF q, g
<1>6. LegOk(g) /\ Follower(a, g)
  BY <1>4, <1>5 DEF LegOk, Follower
<1>7. r \in 0 .. Len(legs)
  BY <1>2, PageNow DEF IsPage
<1>8. Changed(Page, q, l, g) /\ SameRefs(hook, q.hook) /\ q.hook.reader = r
  BY <1>2, <1>3, <1>4, <1>7, PageNow, LegReads
<1>9. ASSUME ~crossed
      PROVE  /\ g.kind \in Streams /\ g.pc \in {"read", "rread"} => q.hook.reader = l
             /\ ~(g.kind \in Streams /\ g.pc \in {"read", "rread"}) => q.hook.reader = 0
  <2>1. ~(a.kind \in Streams /\ a.pc \in {"read", "rread"}) => hook.reader = 0
    BY <1>1, <1>2, <1>9, PageNow, ReaderOf
  <2>2. hook.reader = 0
    BY <1>1, <2>1
  <2>3. QED
    BY <1>4, <1>5, <1>8, <2>2 DEF Streams
<1>10. Good(q, crossed)
  BY <1>1, <1>2, <1>4, <1>6, <1>8, <1>9, PageNow, OneLegGood
<1>11. Len(q.legs) = Len(legs)
  BY <1>8, PageNow DEF Changed
<1>12. QED
  BY <1>1, <1>10, <1>11, BecomesKeeps

\* A leg that ends, or asks once more, leaves a page in order.
LEMMA EndFrom ==
  ASSUME IInv, NEW l \in 1 .. Len(legs), NEW q, NEW g,
         Changed(Page, q, l, g), SameRefs(hook, q.hook), Follower(legs[l], g),
         legs[l].pc # "done", g.known /\ ~g.aborted => g.ended \/ g.error,
         q.hook.reader = hook.reader \/ q.hook.reader = IF hook.reader = l THEN 0 ELSE hook.reader
  PROVE  /\ Good(Finished(q, l), crossed) /\ Len(Finished(q, l).legs) >= Len(legs)
         /\ (~crossed => q.hook.reader = 0) =>
              Good(Driven(q, l), crossed) /\ Len(Driven(q, l).legs) >= Len(legs)
<1>1. /\ IsPage(q) /\ Len(q.legs) = Len(legs) /\ q.legs[l] = g /\ l \in 1 .. Len(q.legs)
  BY PageNow DEF Changed
<1>2. LegsOk(q.legs)
  BY PageNow, ChangedOk DEF Follower
<1>3. QueueOk(q.hook, crossed)
  BY PageNow, SameRefsOk
<1>4. ASSUME ~crossed
      PROVE  /\ Ready(q.hook, q.legs, l)
             /\ q.legs[l].kind # "compare" => q.hook.abort = l
  <2>1. RefsOk(hook, legs) /\ Page.legs = legs
    BY <1>4, PageNow
  <2>2. \A k \in 1 .. Len(legs) : k # l => q.legs[k] = legs[k]
    BY <2>1 DEF Changed
  <2> DEFINE u == q.legs
             j == q.hook
  <2>3. /\ Len(u) = Len(legs) /\ u[l] = g /\ (\A k \in 1 .. Len(legs) : k # l => u[k] = legs[k])
        /\ SameRefs(hook, j) /\ (j.reader = hook.reader \/ j.reader = IF hook.reader = l THEN 0 ELSE hook.reader)
    BY <1>1, <2>2
  <2> HIDE DEF u, j
  <2>4. Ready(j, u, l) /\ (u[l].kind # "compare" => j.abort = l)
    BY <2>1, <2>3, ReadyOf
  <2>5. QED
    BY <2>4 DEF u, j
<1>5. Good(Finished(q, l), crossed) /\ Len(Finished(q, l).legs) >= Len(q.legs)
  BY <1>1, <1>2, <1>3, <1>4, FinishedGood
<1>6. ASSUME ~crossed => q.hook.reader = 0
      PROVE  Good(Driven(q, l), crossed) /\ Len(Driven(q, l).legs) >= Len(q.legs)
  BY <1>1, <1>2, <1>3, <1>4, <1>6, DrivenGood
<1>7. QED
  BY <1>1, <1>5, <1>6

\* No answer to a POST.
LEMMA PostFailsKeeps ==
  ASSUME IInv, NEW l \in DOMAIN legs, PostFails(l)
  PROVE  IInv'
<1> DEFINE a == legs[l]
           x == a.kind = "compare"
           g == [a EXCEPT !.error = x]
           q == [Page EXCEPT !.legs[l].error = legs[l].kind = "compare"]
           f == Finished(q, l)
<1>1. /\ a.pc = "post" /\ Becomes(f) /\ posts' = (posts \ {l}) \union (DOMAIN legs' \ DOMAIN legs)
      /\ UNCHANGED <<stops, loads, turns, saved, crossed>>
  BY DEF PostFails, At, server
<1>2. l \in 1 .. Len(legs) /\ a \in LegT /\ LegOk(a)
  BY PageNow
<1>3. q.hook = hook /\ q.legs = [legs EXCEPT ![l] = g] /\ DOMAIN q = {"hook", "legs"}
  BY DEF Page
<1>4. /\ g \in LegT /\ g.pc = a.pc /\ g.kind = a.kind /\ g.group = a.group /\ g.known = a.known
      /\ g.drops = a.drops
  BY <1>2 DEF LegT
<1>5. ~a.known
  BY <1>1, <1>2 DEF LegOk
<1> HIDE DEF q, g, f
<1>6. LegOk(g) /\ Follower(a, g) /\ ~g.known
  BY <1>1, <1>2, <1>4, <1>5 DEF LegOk, Follower
<1>7. Changed(Page, q, l, g) /\ SameRefs(hook, q.hook) /\ q.hook.reader = hook.reader
  BY <1>2, <1>3, <1>4, PageNow, LegChanges
<1>8. Good(f, crossed) /\ Len(f.legs) >= Len(legs)
  BY <1>1, <1>2, <1>6, <1>7, EndFrom DEF f
<1>9. hook' = f.hook /\ legs' = f.legs
  BY <1>1 DEF Becomes
<1>10. Good([hook |-> hook', legs |-> legs'], crossed)
  BY <1>8, <1>9, GoodParts
<1>11. Len(f.legs) \in Nat /\ DOMAIN f.legs = 1 .. Len(f.legs) /\ Len(legs) \in Nat
       /\ DOMAIN legs = 1 .. Len(legs)
  BY <1>8, PageNow, PageLegs DEF Good
<1>12. posts' \subseteq 1 .. Len(legs')
  <2>1. posts \subseteq 1 .. Len(legs)
    BY DEF IInv
  <2>2. posts' \subseteq posts \union DOMAIN f.legs
    BY <1>1, <1>9
  <2>3. QED
    BY <1>8, <1>9, <1>11, <2>1, <2>2
<1>13. QED
  BY <1>1, <1>10, <1>12 DEF IInv, Page

\* The server's first word.
LEMMA MessageStartKeeps ==
  ASSUME IInv, NEW l \in DOMAIN legs, MessageStart(l)
  PROVE  IInv'
<1> DEFINE a == legs[l]
           g == [a EXCEPT !.known = TRUE]
           q == [hook |-> hook, legs |-> [legs EXCEPT ![l].known = TRUE]]
<1>1. /\ a.pc = "read" /\ a.kind = "turn" /\ Becomes(q)
      /\ UNCHANGED <<posts, stops, loads, turns, saved, crossed>>
  BY DEF MessageStart, At, env, server, Becomes
<1>2. l \in 1 .. Len(legs) /\ a \in LegT /\ LegOk(a)
  BY PageNow
<1>3. q.hook = hook /\ q.legs = [legs EXCEPT ![l] = g] /\ DOMAIN q = {"hook", "legs"}
  OBVIOUS
<1>4. /\ g \in LegT /\ g.pc = a.pc /\ g.kind = a.kind /\ g.group = a.group /\ g.drops = a.drops
  BY <1>2 DEF LegT
<1>5. a.drops # MaxDrops /\ a.group = 0
  BY <1>1, <1>2 DEF LegOk
<1> HIDE DEF q, g
<1>6. LegOk(g) /\ Follower(a, g)
  BY <1>1, <1>4, <1>5 DEF LegOk, Follower, Streams
<1>7. Changed(Page, q, l, g) /\ SameRefs(hook, q.hook) /\ q.hook.reader = hook.reader
  BY <1>2, <1>3, <1>4, PageNow, LegChanges
<1>8. Good(q, crossed)
  BY <1>2, <1>4, <1>6, <1>7, PageNow, SamePlaceGood
<1>9. Len(q.legs) = Len(legs)
  BY <1>7, PageNow DEF Changed
<1>10. QED
  BY <1>1, <1>8, <1>9, BecomesKeeps

\* The last event of a stream.
LEMMA LastEventKeeps ==
  ASSUME IInv, NEW l \in DOMAIN legs, LastEvent(l)
  PROVE  IInv'
<1> DEFINE a == legs[l]
           g == [a EXCEPT !.ended = TRUE, !.text = a.turn]
           q == [hook |-> hook', legs |-> [legs EXCEPT ![l].ended = TRUE, ![l].text = legs[l].turn]]
<1>1. /\ a.pc \in {"read", "rread"} /\ Becomes(q)
      /\ hook' = IF a.kind = "compare" THEN hook ELSE [hook EXCEPT !.shown = FALSE]
      /\ UNCHANGED <<posts, stops, loads, turns, saved, crossed>>
  BY DEF LastEvent, At, env, server, Becomes
<1>2. l \in 1 .. Len(legs) /\ a \in LegT /\ LegOk(a) /\ hook \in HookT
  BY PageNow
<1>3. q.hook = hook' /\ DOMAIN q = {"hook", "legs"}
      /\ q.legs = [legs EXCEPT ![l].ended = TRUE, ![l].text = legs[l].turn]
  OBVIOUS
<1>4. [legs EXCEPT ![l].ended = TRUE, ![l].text = legs[l].turn] = [legs EXCEPT ![l] = g]
  BY Zenon
<1>5. /\ g \in LegT /\ g.pc = a.pc /\ g.kind = a.kind /\ g.group = a.group /\ g.drops = a.drops
      /\ g.known = a.known
  BY <1>2 DEF LegT
<1> HIDE DEF q, g
<1>6. LegOk(g) /\ Follower(a, g)
  BY <1>1, <1>2, <1>5 DEF LegOk, Follower
<1>7. hook' \in HookT /\ SameRefs(hook, hook') /\ hook'.reader = hook.reader
  BY <1>1, <1>2 DEF HookT, SameRefs
<1>8. /\ q.legs \in Seq(LegT) /\ Len(q.legs) = Len(legs)
      /\ \A k \in 1 .. Len(legs) : q.legs[k] = IF k = l THEN g ELSE legs[k]
  <2>1. q.legs = [legs EXCEPT ![l] = g]
    BY <1>3, <1>4, Zenon
  <2>2. legs \in Seq(LegT)
    BY PageNow
  <2>3. QED
    BY <1>2, <1>5, <2>1, <2>2, ExceptSeq
<1>9. IsPage(q)
  BY <1>3, <1>7, <1>8, PageNow DEF IsPage, SameRefs
<1>10. Changed(Page, q, l, g)
  BY <1>8, <1>9, PageNow DEF Changed
<1>11. Good(q, crossed)
  BY <1>2, <1>3, <1>5, <1>6, <1>7, <1>10, PageNow, SamePlaceGood
<1>12. QED
  BY <1>1, <1>8, <1>11, BecomesKeeps

\* The leg asks for its run.
LEMMA ResumeKeeps ==
  ASSUME IInv, NEW l \in DOMAIN legs, Resume(l)
  PROVE  IInv'
<1> DEFINE a == legs[l]
<1>1. l \in 1 .. Len(legs) /\ a \in LegT /\ LegOk(a) /\ hook \in HookT /\ Len(legs) \in Nat
  BY PageNow
<1>2. a.pc = "drive" /\ UNCHANGED <<posts, stops, loads, turns, saved, crossed>>
  BY DEF Resume, At, env, server
<1>3. a.kind \in Streams /\ a.drops # MaxDrops /\ a.group = 0
  BY <1>1, <1>2 DEF LegOk, Streams
<1>4. ASSUME NEW x \in {"rread", "recover"}, NEW g \in LegT, NEW q,
             g.pc = x, g.kind = a.kind, g.group = a.group, g.drops = a.drops,
             Changed(Page, q, l, g), SameRefs(hook, q.hook), Becomes(q),
             q.hook.reader = IF x = "rread" THEN l ELSE hook.reader
      PROVE  IInv'
  <2>1. LegOk(g) /\ Follower(a, g)
    BY <1>3, <1>4 DEF LegOk, Follower, Streams
  <2>2. ASSUME ~crossed
        PROVE  /\ g.kind \in Streams /\ g.pc \in {"read", "rread"} => q.hook.reader = l
               /\ ~(g.kind \in Streams /\ g.pc \in {"read", "rread"}) => q.hook.reader = 0
    <3>1. hook.reader = 0
      BY <1>1, <1>2, <2>2, PageNow, ReaderOf
    <3>2. QED
      BY <1>3, <1>4, <3>1
  <2>3. Good(q, crossed)
    BY <1>1, <1>2, <1>4, <2>1, <2>2, PageNow, OneLegGood
  <2>4. Len(q.legs) = Len(legs)
    BY <1>4, PageNow DEF Changed
  <2>5. QED
    BY <1>2, <1>4, <2>3, <2>4, BecomesKeeps
<1>5. CASE Becomes([Page EXCEPT !.legs[l].pc = "rread", !.hook.reader = l])
  <2> DEFINE g == [a EXCEPT !.pc = "rread"]
             q == [Page EXCEPT !.legs[l].pc = "rread", !.hook.reader = l]
  <2>1. q.hook = [hook EXCEPT !.reader = l] /\ q.legs = [legs EXCEPT ![l] = g] /\ DOMAIN q = {"hook", "legs"}
    BY DEF Page
  <2>2. g \in LegT /\ g.pc = "rread" /\ g.kind = a.kind /\ g.group = a.group /\ g.drops = a.drops
    BY <1>1 DEF LegT, Pcs
  <2> HIDE DEF q, g
  <2>3. l \in 0 .. Len(legs)
    BY <1>1
  <2>4. Changed(Page, q, l, g) /\ SameRefs(hook, q.hook) /\ q.hook.reader = l
    BY <1>1, <2>1, <2>2, <2>3, PageNow, LegReads
  <2>5. QED
    BY <1>4, <1>5, <2>2, <2>4 DEF q
<1>6. CASE Becomes([Page EXCEPT !.legs[l].pc = "recover", !.legs[l].early = @ \/ Phase(l) # "gone"])
  <2> DEFINE b == a.early \/ Phase(l) # "gone"
             g == [a EXCEPT !.pc = "recover", !.early = b]
             q == [Page EXCEPT !.legs[l].pc = "recover", !.legs[l].early = @ \/ Phase(l) # "gone"]
  <2>1. q.hook = hook /\ DOMAIN q = {"hook", "legs"}
        /\ q.legs = [legs EXCEPT ![l].pc = "recover", ![l].early = @ \/ Phase(l) # "gone"]
    BY DEF Page
  <2>2. [legs EXCEPT ![l].pc = "recover", ![l].early = @ \/ Phase(l) # "gone"] = [legs EXCEPT ![l] = g]
    BY Zenon
  <2>3. g \in LegT /\ g.pc = "recover" /\ g.kind = a.kind /\ g.group = a.group /\ g.drops = a.drops
    BY <1>1 DEF LegT, Pcs
  <2> HIDE DEF q, g
  <2>4. q.legs = [legs EXCEPT ![l] = g]
    BY <2>1, <2>2, Zenon
  <2>5. Changed(Page, q, l, g) /\ SameRefs(hook, q.hook) /\ q.hook.reader = hook.reader
    <3>1. IsPage(Page) /\ Page.hook = hook /\ Page.legs = legs /\ l \in 1 .. Len(Page.legs)
      BY <1>1, PageNow
    <3>2. q.hook = Page.hook /\ q.legs = [Page.legs EXCEPT ![l] = g] /\ DOMAIN q = {"hook", "legs"}
      BY <2>1, <2>4, <3>1
    <3>3. QED
      BY <2>3, <3>1, <3>2, LegChanges
  <2>6. QED
    BY <1>4, <1>6, <2>3, <2>5 DEF q
<1>7. CASE Becomes([Page EXCEPT !.legs[l].pc = "recover"])
  <2> DEFINE g == [a EXCEPT !.pc = "recover"]
             q == [Page EXCEPT !.legs[l].pc = "recover"]
  <2>1. q.hook = hook /\ q.legs = [legs EXCEPT ![l] = g] /\ DOMAIN q = {"hook", "legs"}
    BY DEF Page
  <2>2. g \in LegT /\ g.pc = "recover" /\ g.kind = a.kind /\ g.group = a.group /\ g.drops = a.drops
    BY <1>1 DEF LegT, Pcs
  <2> HIDE DEF q, g
  <2>3. Changed(Page, q, l, g) /\ SameRefs(hook, q.hook) /\ q.hook.reader = hook.reader
    BY <1>1, <2>1, <2>2, PageNow, LegChanges
  <2>4. QED
    BY <1>4, <1>7, <2>2, <2>3 DEF q
<1>8. QED
  BY <1>5, <1>6, <1>7 DEF Resume

\* What recovering may find is an answer.
LEMMA TextIsTurn ==
  ASSUME IInv, NEW l \in 1 .. Len(legs), saved[legs[l].session] # << >>, NEW t \in Texts(l)
  PROVE  t \in Nat
<1> DEFINE s == saved[legs[l].session]
<1>1. legs[l] \in LegT
  BY PageNow
<1>2. legs[l].text \in Nat /\ legs[l].session \in Sessions
  BY <1>1 DEF LegT
<1>3. s \in Seq(Nat)
  BY <1>2 DEF IInv
<1>4. Len(s) \in 1 .. Len(s)
  BY <1>3, EmptySeq
<1>5. s[Len(s)] \in Nat
  BY <1>3, <1>4, ElementOfSeq
<1>6. QED
  BY <1>2, <1>5 DEF Texts, Last

\* The stream of a leg is over.
LEMMA StreamEndsKeeps ==
  ASSUME IInv, NEW l \in DOMAIN legs, StreamEnds(l)
  PROVE  IInv'
<1> DEFINE a == legs[l]
           b == [a EXCEPT !.cut = FALSE]
           p == Unread(Page, l)
           n == a.drops + 1
           x == IF n < MaxDrops THEN "drive" ELSE "recover"
           q1 == [p EXCEPT !.legs[l].pc = "drive"]
           q2 == [p EXCEPT !.legs[l].drops = n, !.legs[l].pc = x]
<1>1. l \in 1 .. Len(legs) /\ a \in LegT /\ LegOk(a) /\ hook \in HookT /\ Len(legs) \in Nat
  BY PageNow
<1>2. a.pc \in {"read", "rread"} /\ a.kind \in Streams
      /\ UNCHANGED <<stops, loads, turns, saved, crossed>>
  BY DEF StreamEnds, At, server, Streams
<1>3. \/ a.ended /\ Ends(Driven(p, l))
      \/ ~a.known /\ Ends(Finished(p, l))
      \/ Ends(q1)
      \/ Ends(q2)
  <2> HIDE DEF p, q1, q2
  <2>1. Ends(IF a.ended THEN Driven(p, l) ELSE IF ~a.known THEN Finished(p, l)
             ELSE IF a.pc \in {"read"} THEN q1 ELSE q2)
    BY Zenon DEF StreamEnds, At, p, q1, q2
  <2>2. QED
    BY <2>1
<1>4. /\ Changed(Page, p, l, b) /\ SameRefs(hook, p.hook) /\ b \in LegT
      /\ p.hook.reader = IF hook.reader = l THEN 0 ELSE hook.reader
      /\ Kept(a, b) /\ Kept(b, a) /\ LegOk(b) /\ Follower(a, b)
  <2>1. IsPage(Page) /\ l \in 1 .. Len(Page.legs) /\ LegOk(Page.legs[l]) /\ Page.hook = hook /\ Page.legs = legs
    BY PageNow
  <2>2. /\ Changed(Page, p, l, [Page.legs[l] EXCEPT !.cut = FALSE]) /\ SameRefs(Page.hook, p.hook)
        /\ [Page.legs[l] EXCEPT !.cut = FALSE] \in LegT
        /\ p.hook.reader = IF Page.hook.reader = l THEN 0 ELSE Page.hook.reader
        /\ Kept(Page.legs[l], [Page.legs[l] EXCEPT !.cut = FALSE])
        /\ Kept([Page.legs[l] EXCEPT !.cut = FALSE], Page.legs[l])
        /\ LegOk([Page.legs[l] EXCEPT !.cut = FALSE])
        /\ Follower(Page.legs[l], [Page.legs[l] EXCEPT !.cut = FALSE])
    BY <2>1, UnreadFacts
  <2>3. QED
    BY <2>1, <2>2
<1>5. ~crossed => p.hook.reader = 0
  BY <1>1, <1>2, <1>4, PageNow, ReaderOf
<1>6. /\ IsPage(p) /\ Len(p.legs) = Len(legs) /\ p.legs[l] = b /\ DOMAIN p = {"hook", "legs"}
      /\ \A k \in 1 .. Len(legs) : k # l => p.legs[k] = legs[k]
  BY <1>1, <1>4, PageNow DEF Changed, IsPage
<1>7. /\ b.kind = a.kind /\ b.group = a.group /\ b.drops = a.drops /\ b.known = a.known
      /\ a.drops \in 0 .. MaxDrops /\ a.drops # MaxDrops /\ MaxDrops \in Nat /\ a.group = 0
  BY <1>1, <1>2, <1>4, Bounds DEF Kept, LegT, LegOk, Streams
<1> HIDE DEF p, b
<1>8. CASE a.ended /\ Ends(Driven(p, l))
  <2>1. b.ended
    BY <1>4, <1>8 DEF Kept
  <2>2. Good(Driven(p, l), crossed) /\ Len(Driven(p, l).legs) >= Len(legs)
    BY <1>1, <1>2, <1>4, <1>5, <2>1, EndFrom
  <2>3. QED
    BY <1>2, <1>8, <2>2, EndsKeeps
<1>9. CASE ~a.known /\ Ends(Finished(p, l))
  <2>1. ~b.known
    BY <1>4, <1>9 DEF Kept
  <2>2. Good(Finished(p, l), crossed) /\ Len(Finished(p, l).legs) >= Len(legs)
    BY <1>1, <1>2, <1>4, <2>1, EndFrom
  <2>3. QED
    BY <1>2, <1>9, <2>2, EndsKeeps
<1>10. ASSUME NEW q, NEW g \in LegT, Ends(q), g.pc \in {"drive", "recover"}, g.kind = a.kind,
              g.group = a.group, g.drops = MaxDrops => g.pc = "recover",
              q.hook = p.hook, q.legs = [p.legs EXCEPT ![l] = g], DOMAIN q = {"hook", "legs"}
       PROVE  IInv'
  <2>1. Changed(p, q, l, g)
    BY <1>1, <1>6, <1>10, LegChanges
  <2>2. Changed(Page, q, l, g)
    BY <1>1, <1>6, <2>1, PageNow DEF Changed
  <2>3. LegOk(g) /\ Follower(a, g)
    BY <1>2, <1>7, <1>10 DEF LegOk, Follower
  <2>4. SameRefs(hook, q.hook) /\ (~crossed => q.hook.reader = 0)
    BY <1>4, <1>5, <1>10
  <2>5. g.pc # "done" /\ a.pc # "done" /\ g.pc \notin {"read", "rread"}
    BY <1>2, <1>10
  <2>6. Good(q, crossed)
    BY <1>1, <2>2, <2>3, <2>4, <2>5, PageNow, OneLegGood
  <2>7. Len(q.legs) >= Len(legs)
    BY <1>1, <2>2, PageNow DEF Changed
  <2>8. QED
    BY <1>2, <1>10, <2>6, <2>7, EndsKeeps
<1>11. CASE Ends(q1)
  <2> DEFINE g == [b EXCEPT !.pc = "drive"]
  <2>1. q1.hook = p.hook /\ q1.legs = [p.legs EXCEPT ![l] = g] /\ DOMAIN q1 = {"hook", "legs"}
    BY <1>6
  <2>2. /\ g \in LegT /\ g.pc = "drive" /\ g.kind = a.kind /\ g.group = a.group /\ g.drops = a.drops
    BY <1>4, <1>7 DEF LegT, Pcs
  <2> HIDE DEF q1, g
  <2>3. QED
    BY <1>7, <1>10, <1>11, <2>1, <2>2
<1>12. CASE Ends(q2)
  <2> DEFINE g == [b EXCEPT !.drops = n, !.pc = x]
  <2>1. q2.hook = p.hook /\ DOMAIN q2 = {"hook", "legs"}
        /\ q2.legs = [p.legs EXCEPT ![l].drops = n, ![l].pc = x]
    BY <1>6
  <2>2. [p.legs EXCEPT ![l].drops = n, ![l].pc = x] = [p.legs EXCEPT ![l] = [p.legs[l] EXCEPT !.drops = n, !.pc = x]]
    BY Zenon
  <2>3. n \in 0 .. MaxDrops /\ x \in {"drive", "recover"} /\ (n = MaxDrops => x = "recover")
    BY <1>7
  <2> HIDE DEF n, x
  <2>4. /\ g \in LegT /\ g.pc = x /\ g.kind = a.kind /\ g.group = a.group /\ g.drops = n
    BY <1>4, <1>7, <2>3 DEF LegT, Pcs
  <2> HIDE DEF q2, g
  <2>5. q2.legs = [p.legs EXCEPT ![l] = g]
    BY <1>6, <2>1, <2>2 DEF g
  <2>6. QED
    BY <1>10, <1>12, <2>1, <2>3, <2>4, <2>5
<1>13. QED
  BY <1>3, <1>8, <1>9, <1>11, <1>12

\* The leg looks for its answer.
LEMMA RecoverKeeps ==
  ASSUME IInv, NEW l \in DOMAIN legs, Recover(l)
  PROVE  IInv'
<1> DEFINE a == legs[l]
<1>1. l \in 1 .. Len(legs) /\ a \in LegT /\ LegOk(a) /\ Len(legs) \in Nat
  BY PageNow
<1>2. a.pc = "recover" /\ UNCHANGED <<stops, loads, turns, saved, crossed>>
  BY DEF Recover, At, server
<1>3. a.kind \in Streams /\ a.group = 0
  BY <1>1, <1>2 DEF LegOk, Streams
<1>4. ~crossed => hook.reader = 0
  BY <1>1, <1>2, PageNow, ReaderOf
<1>5. ASSUME NEW q, NEW g \in LegT, Ends(Driven(q, l)), g.pc = a.pc, g.kind = a.kind,
             g.group = a.group, g.ended \/ g.error, Changed(Page, q, l, g), SameRefs(hook, q.hook),
             q.hook.reader = hook.reader
      PROVE  IInv'
  <2>1. Follower(a, g)
    BY <1>2, <1>3, <1>5 DEF LegOk, Follower
  <2>2. Good(Driven(q, l), crossed) /\ Len(Driven(q, l).legs) >= Len(legs)
    BY <1>1, <1>2, <1>4, <1>5, <2>1, EndFrom
  <2>3. QED
    BY <1>2, <1>5, <2>2, EndsKeeps
<1>6. ASSUME NEW t \in Nat, Ends(Driven([Page EXCEPT !.legs[l].ended = TRUE, !.legs[l].text = t], l))
      PROVE  IInv'
  <2> DEFINE q == [Page EXCEPT !.legs[l].ended = TRUE, !.legs[l].text = t]
             g == [a EXCEPT !.ended = TRUE, !.text = t]
  <2>1. q.hook = hook /\ DOMAIN q = {"hook", "legs"}
        /\ q.legs = [legs EXCEPT ![l].ended = TRUE, ![l].text = t]
    BY DEF Page
  <2>2. [legs EXCEPT ![l].ended = TRUE, ![l].text = t] = [legs EXCEPT ![l] = g]
    BY Zenon
  <2>3. g \in LegT /\ g.pc = a.pc /\ g.kind = a.kind /\ g.group = a.group /\ g.ended
    BY <1>1 DEF LegT
  <2> HIDE DEF q, g
  <2>4. q.legs = [legs EXCEPT ![l] = g]
    BY <2>1, <2>2, Zenon
  <2>5. Changed(Page, q, l, g) /\ SameRefs(hook, q.hook) /\ q.hook.reader = hook.reader
    BY <1>1, <2>1, <2>3, <2>4, PageNow, LegChanges
  <2>6. QED
    BY <1>5, <1>6, <2>3, <2>5 DEF q
<1>7. CASE Ends(Driven([Page EXCEPT !.legs[l].error = TRUE], l))
  <2> DEFINE q == [Page EXCEPT !.legs[l].error = TRUE]
             g == [a EXCEPT !.error = TRUE]
  <2>1. q.hook = hook /\ DOMAIN q = {"hook", "legs"} /\ q.legs = [legs EXCEPT ![l] = g]
    BY DEF Page
  <2>2. g \in LegT /\ g.pc = a.pc /\ g.kind = a.kind /\ g.group = a.group /\ g.error
    BY <1>1 DEF LegT
  <2> HIDE DEF q, g
  <2>3. Changed(Page, q, l, g) /\ SameRefs(hook, q.hook) /\ q.hook.reader = hook.reader
    BY <1>1, <2>1, <2>2, PageNow, LegChanges
  <2>4. QED
    BY <1>5, <1>7, <2>2, <2>3 DEF q
<1>8. PICK ok \in BOOLEAN :
        IF Found(l, ok)
        THEN \E t \in Texts(l) : Ends(Driven([Page EXCEPT !.legs[l].ended = TRUE, !.legs[l].text = t], l))
        ELSE Ends(Driven([Page EXCEPT !.legs[l].error = TRUE], l))
  BY Zenon DEF Recover
<1>9. CASE Found(l, ok)
  <2>1. PICK t \in Texts(l) : Ends(Driven([Page EXCEPT !.legs[l].ended = TRUE, !.legs[l].text = t], l))
    BY <1>8, <1>9, Zenon
  <2>2. saved[legs[l].session] # << >>
    BY <1>9 DEF Found
  <2>3. t \in Nat
    BY <1>1, <2>2, TextIsTurn
  <2>4. QED
    BY <1>6, <2>1, <2>3, Zenon
<1>10. CASE ~Found(l, ok)
  BY <1>7, <1>8, <1>10, Zenon
<1>11. QED
  BY <1>9, <1>10

\* A resumed leg looks once more.
LEMMA RecoverOnceMoreKeeps ==
  ASSUME IInv, NEW l \in DOMAIN legs, RecoverOnceMore(l)
  PROVE  IInv'
<1> DEFINE a == legs[l]
<1>1. l \in 1 .. Len(legs) /\ a \in LegT /\ LegOk(a) /\ Len(legs) \in Nat
  BY PageNow
<1>2. a.pc = "final" /\ UNCHANGED <<stops, loads, turns, saved, crossed>>
  BY DEF RecoverOnceMore, At, server
<1>3. a.known /\ ~a.aborted => a.ended \/ a.error
  BY <1>1, <1>2 DEF LegOk
<1>4. ASSUME NEW q, NEW g \in LegT, Ends(Finished(q, l)),
             Changed(Page, q, l, g), SameRefs(hook, q.hook), q.hook.reader = hook.reader,
             Follower(a, g), g.known /\ ~g.aborted => g.ended \/ g.error
      PROVE  IInv'
  <2>1. Good(Finished(q, l), crossed) /\ Len(Finished(q, l).legs) >= Len(legs)
    BY <1>1, <1>2, <1>4, EndFrom
  <2>2. QED
    BY <1>2, <1>4, <2>1, EndsKeeps
<1>5. ASSUME NEW t \in Nat, Ends(Finished([Page EXCEPT !.legs[l].text = t], l))
      PROVE  IInv'
  <2> DEFINE q == [Page EXCEPT !.legs[l].text = t]
             g == [a EXCEPT !.text = t]
  <2>1. q.hook = hook /\ DOMAIN q = {"hook", "legs"} /\ q.legs = [legs EXCEPT ![l] = g]
    BY DEF Page
  <2>2. /\ g \in LegT /\ g.pc = a.pc /\ g.kind = a.kind /\ g.group = a.group /\ g.drops = a.drops
        /\ g.known = a.known /\ g.aborted = a.aborted /\ g.ended = a.ended /\ g.error = a.error
    BY <1>1 DEF LegT
  <2> HIDE DEF q, g
  <2>3. g.known /\ ~g.aborted => g.ended \/ g.error
    BY <1>3, <2>2
  <2>4. LegOk(g) /\ Follower(a, g)
    BY <1>1, <1>2, <2>2, <2>3 DEF LegOk, Follower
  <2>5. Changed(Page, q, l, g) /\ SameRefs(hook, q.hook) /\ q.hook.reader = hook.reader
    BY <1>1, <2>1, <2>2, PageNow, LegChanges
  <2>6. QED
    BY <1>4, <1>5, <2>2, <2>3, <2>4, <2>5 DEF q
<1>6. CASE Ends(Finished(Page, l))
  <2>1. Changed(Page, Page, l, a) /\ SameRefs(hook, Page.hook) /\ Page.hook.reader = hook.reader
    BY PageNow DEF Changed, SameRefs
  <2>2. Follower(a, a)
    BY <1>1 DEF Follower
  <2>3. QED
    BY <1>1, <1>3, <1>4, <1>6, <2>1, <2>2
<1>7. PICK ok \in BOOLEAN :
        IF Found(l, ok) THEN \E t \in Texts(l) : Ends(Finished([Page EXCEPT !.legs[l].text = t], l))
                        ELSE Ends(Finished(Page, l))
  BY Zenon DEF RecoverOnceMore
<1>8. CASE Found(l, ok)
  <2>1. PICK t \in Texts(l) : Ends(Finished([Page EXCEPT !.legs[l].text = t], l))
    BY <1>7, <1>8, Zenon
  <2>2. saved[legs[l].session] # << >>
    BY <1>8 DEF Found
  <2>3. t \in Nat
    BY <1>1, <2>2, TextIsTurn
  <2>4. QED
    BY <1>5, <2>1, <2>3, Zenon
<1>9. CASE ~Found(l, ok)
  BY <1>6, <1>7, <1>9, Zenon
<1>10. QED
  BY <1>8, <1>9

\* An aborted leg is over.
LEMMA UnwindKeeps ==
  ASSUME IInv, NEW l \in DOMAIN legs, Unwind(l)
  PROVE  IInv'
<1> DEFINE a == legs[l]
           b == [a EXCEPT !.cut = FALSE]
           p == Unread(Page, l)
<1>1. l \in 1 .. Len(legs) /\ a \in LegT /\ LegOk(a) /\ Len(legs) \in Nat
  BY PageNow
<1>2. a.pc # "done" /\ a.aborted /\ Ends(Driven(p, l))
      /\ UNCHANGED <<stops, loads, turns, saved, crossed>>
  BY DEF Unwind, At, server
<1>3. /\ Changed(Page, p, l, b) /\ SameRefs(hook, p.hook)
      /\ p.hook.reader = IF hook.reader = l THEN 0 ELSE hook.reader
      /\ Kept(a, b) /\ Follower(a, b)
  <2>1. IsPage(Page) /\ l \in 1 .. Len(Page.legs) /\ LegOk(Page.legs[l]) /\ Page.hook = hook /\ Page.legs = legs
    BY PageNow
  <2>2. /\ Changed(Page, p, l, [Page.legs[l] EXCEPT !.cut = FALSE]) /\ SameRefs(Page.hook, p.hook)
        /\ p.hook.reader = IF Page.hook.reader = l THEN 0 ELSE Page.hook.reader
        /\ Kept(Page.legs[l], [Page.legs[l] EXCEPT !.cut = FALSE])
        /\ Follower(Page.legs[l], [Page.legs[l] EXCEPT !.cut = FALSE])
    BY <2>1, UnreadFacts
  <2>3. QED
    BY <2>1, <2>2
<1>4. ~crossed => p.hook.reader = 0
  BY <1>1, <1>2, <1>3, PageNow, ReaderOf
<1> HIDE DEF p, b
<1>5. b.aborted
  BY <1>2, <1>3 DEF Kept
<1>6. Good(Driven(p, l), crossed) /\ Len(Driven(p, l).legs) >= Len(legs)
  BY <1>1, <1>2, <1>3, <1>4, <1>5, EndFrom
<1>7. QED
  BY <1>2, <1>6, EndsKeeps

\* The end of a column.
LEMMA ColumnEndsKeeps ==
  ASSUME IInv, NEW l \in DOMAIN legs, ColumnEnds(l)
  PROVE  IInv'
<1> DEFINE a == legs[l]
<1>1. l \in 1 .. Len(legs) /\ a \in LegT /\ LegOk(a) /\ Len(legs) \in Nat
  BY PageNow
<1>2. a.pc = "read" /\ a.kind = "compare" /\ UNCHANGED <<stops, loads, turns, saved, crossed>>
  BY DEF ColumnEnds, At, server
<1>3. PICK x \in BOOLEAN : Ends(Finished([Page EXCEPT !.legs[l].error = x], l))
  <2>1. PICK broken \in BOOLEAN :
          \E shown \in {FALSE, broken} : Ends(Finished([Page EXCEPT !.legs[l].error = shown], l))
    BY Zenon DEF ColumnEnds
  <2>2. PICK shown \in {FALSE, broken} : Ends(Finished([Page EXCEPT !.legs[l].error = shown], l))
    BY <2>1, Zenon
  <2>3. shown \in BOOLEAN
    OBVIOUS
  <2>4. QED
    BY <2>2, <2>3, Zenon
<1> DEFINE q == [Page EXCEPT !.legs[l].error = x]
           g == [a EXCEPT !.error = x]
<1>4. q.hook = hook /\ DOMAIN q = {"hook", "legs"} /\ q.legs = [legs EXCEPT ![l] = g]
  BY DEF Page
<1>5. /\ g \in LegT /\ g.pc = a.pc /\ g.kind = a.kind /\ g.group = a.group /\ g.drops = a.drops
      /\ g.known = a.known
  BY <1>1 DEF LegT
<1>6. Ends(Finished(q, l))
  BY <1>3
<1> HIDE DEF q, g
<1>7. ~g.known /\ LegOk(g) /\ Follower(a, g)
  BY <1>1, <1>2, <1>5 DEF LegOk, Follower, Streams
<1>8. Changed(Page, q, l, g) /\ SameRefs(hook, q.hook) /\ q.hook.reader = hook.reader
  BY <1>1, <1>4, <1>5, PageNow, LegChanges
<1>9. Good(Finished(q, l), crossed) /\ Len(Finished(q, l).legs) >= Len(legs)
  BY <1>1, <1>2, <1>7, <1>8, EndFrom
<1>10. QED
  BY <1>2, <1>6, <1>9, EndsKeeps

\* The end of a continuation.
LEMMA ContinueEndsKeeps ==
  ASSUME IInv, NEW l \in DOMAIN legs, ContinueEnds(l)
  PROVE  IInv'
<1> DEFINE a == legs[l]
<1>1. l \in 1 .. Len(legs) /\ a \in LegT /\ LegOk(a) /\ Len(legs) \in Nat
  BY PageNow
<1>2. a.pc = "read" /\ a.kind = "continue" /\ Ends(Finished(Page, l))
      /\ UNCHANGED <<stops, loads, turns, saved, crossed>>
  BY DEF ContinueEnds, At, server
<1>3. ~a.known /\ Follower(a, a)
  BY <1>1, <1>2 DEF LegOk, Follower, Streams
<1>4. Changed(Page, Page, l, a) /\ SameRefs(hook, Page.hook) /\ Page.hook.reader = hook.reader
  BY PageNow DEF Changed, SameRefs
<1>5. Good(Finished(Page, l), crossed) /\ Len(Finished(Page, l).legs) >= Len(legs)
  BY <1>1, <1>2, <1>3, <1>4, EndFrom
<1>6. QED
  BY <1>2, <1>5, EndsKeeps

-----------------------------------------------------------------------------
(* the steps of the server *)

\* Cutting a turn short leaves the turns what they are.
LEMMA HaltedTurns ==
  ASSUME NEW ts \in Seq(TurnT), NEW s
  PROVE  Halted(ts, s) \in Seq(TurnT) /\ Len(Halted(ts, s)) = Len(ts)
<1> DEFINE H(t) == IF ts[t].session = s /\ ts[t].phase = "running"
                   THEN [ts[t] EXCEPT !.phase = "stopped", !.cut = t \in Columns] ELSE ts[t]
           h == Halted(ts, s)
<1>1. Len(ts) \in Nat /\ DOMAIN ts = 1 .. Len(ts) /\ \A t \in 1 .. Len(ts) : ts[t] \in TurnT
  BY LenProperties, ElementOfSeq
<1>2. h = [t \in DOMAIN ts |-> H(t)]
  BY DEF Halted
<1>3. ASSUME NEW t \in 1 .. Len(ts) PROVE H(t) \in TurnT
  <2>1. ts[t] \in TurnT
    BY <1>1
  <2> DEFINE u == ts[t]
             c == t \in Columns
  <2>2. c \in BOOLEAN
    OBVIOUS
  <2> HIDE DEF u, c
  <2>3. u \in TurnT
    BY <2>1 DEF u
  <2>4. [u EXCEPT !.phase = "stopped", !.cut = c] \in TurnT
    BY <2>2, <2>3 DEF TurnT, Phases
  <2>5. QED
    BY <2>1, <2>4 DEF u, c
<1> HIDE DEF H, h
<1>4. h \in [1 .. Len(ts) -> TurnT]
  BY <1>1, <1>2, <1>3
<1>5. QED
  BY <1>1, <1>4, FunctionIsSeq DEF h

\* A turn begins well typed.
LEMMA NewTurnT ==
  ASSUME NEW s \in Sessions, NEW phase \in Phases
  PROVE  NewTurn(s, phase) \in TurnT
BY DEF NewTurn, TurnT

\* A POST arrives.
LEMMA ArriveKeeps ==
  ASSUME IInv, NEW l \in posts, Arrive(l)
  PROVE  IInv'
<1> DEFINE a == legs[l]
           n == Len(turns) + 1
           g == [a EXCEPT !.turn = n]
           q == [hook |-> hook, legs |-> [legs EXCEPT ![l].turn = n]]
<1>1. /\ posts' = posts \ {l} /\ Becomes(q) /\ UNCHANGED <<stops, loads, saved, crossed>>
      /\ turns' = Append(Halted(turns, a.session), NewTurn(a.session, "running"))
  BY DEF Arrive, Becomes
<1>2. l \in 1 .. Len(legs) /\ a \in LegT /\ LegOk(a) /\ turns \in Seq(TurnT) /\ Len(legs) \in Nat
  <2>1. l \in 1 .. Len(legs) /\ turns \in Seq(TurnT)
    BY DEF IInv
  <2>2. QED
    BY <2>1, PageNow
<1>3. a.session \in Sessions /\ n \in Nat
  BY <1>2, LenProperties DEF LegT
<1>4. q.hook = hook /\ q.legs = [legs EXCEPT ![l] = g] /\ DOMAIN q = {"hook", "legs"}
  OBVIOUS
<1> HIDE DEF n
<1>5. g \in LegT /\ g.pc = a.pc /\ g.kind = a.kind /\ g.group = a.group
      /\ g.known = a.known /\ g.aborted = a.aborted /\ g.ended = a.ended /\ g.error = a.error
      /\ g.drops = a.drops
  BY <1>2, <1>3 DEF LegT
<1> HIDE DEF q, g
<1>6. LegOk(g) /\ Follower(a, g)
  BY <1>2, <1>5 DEF LegOk, Follower
<1>7. Changed(Page, q, l, g) /\ SameRefs(hook, q.hook) /\ q.hook.reader = hook.reader
  BY <1>2, <1>4, <1>5, PageNow, LegChanges
<1>8. Good(q, crossed) /\ Len(q.legs) = Len(legs)
  <2>1. Good(q, crossed)
    BY <1>2, <1>5, <1>6, <1>7, PageNow, SamePlaceGood
  <2>2. QED
    BY <1>7, <2>1, PageNow DEF Changed
<1>9. hook' = q.hook /\ legs' = q.legs
  BY <1>1 DEF Becomes
<1>10. Good([hook |-> hook', legs |-> legs'], crossed)
  BY <1>8, <1>9, GoodParts
<1>11. turns' \in Seq(TurnT)
  <2>1. NewTurn(a.session, "running") \in TurnT
    BY <1>3, NewTurnT DEF Phases
  <2>2. Halted(turns, a.session) \in Seq(TurnT)
    BY <1>2, HaltedTurns
  <2>3. QED
    BY <1>1, <2>1, <2>2, AppendProperties
<1>12. posts' \subseteq 1 .. Len(legs')
  BY <1>1, <1>8, <1>9 DEF IInv
<1>13. QED
  BY <1>1, <1>10, <1>11, <1>12 DEF IInv, Page

\* Nothing of the page changes.
LEMMA PageStays ==
  ASSUME IInv, UNCHANGED <<hook, legs, posts, crossed>>
  PROVE  Good(Page', crossed') /\ crossed' \in BOOLEAN /\ posts' \subseteq 1 .. Len(legs')
BY DEF IInv, Page

\* A DELETE arrives.
LEMMA StopArrivesKeeps ==
  ASSUME IInv, NEW s \in stops, StopArrives(s)
  PROVE  IInv'
<1>1. /\ stops' = stops \ {s} /\ turns' = Halted(turns, s)
      /\ UNCHANGED <<hook, legs, posts, loads, saved, crossed>>
  BY DEF StopArrives
<1>2. turns' \in Seq(TurnT)
  BY <1>1, HaltedTurns DEF IInv
<1>3. QED
  BY <1>1, <1>2, PageStays DEF IInv

\* A turn that takes another phase is well typed.
LEMMA TurnPhase ==
  ASSUME IInv, NEW t \in DOMAIN turns, NEW x \in Phases
  PROVE  [turns EXCEPT ![t].phase = x] \in Seq(TurnT) /\ turns[t].session \in Sessions
<1>1. turns \in Seq(TurnT)
  BY DEF IInv
<1>2. t \in 1 .. Len(turns) /\ turns[t] \in TurnT
  BY <1>1, LenProperties, ElementOfSeq
<1>3. [turns[t] EXCEPT !.phase = x] \in TurnT /\ turns[t].session \in Sessions
  BY <1>2 DEF TurnT
<1>4. [turns EXCEPT ![t] = [turns[t] EXCEPT !.phase = x]] \in Seq(TurnT)
  BY <1>1, <1>2, <1>3, ExceptSeq
<1>5. QED
  BY <1>3, <1>4

\* A turn stops or fails.
LEMMA TurnStopsKeeps ==
  ASSUME IInv, NEW t \in DOMAIN turns, TurnStops(t)
  PROVE  IInv'
<1>1. /\ \E x \in {"stopped", "failed"} : turns' = [turns EXCEPT ![t].phase = x]
      /\ UNCHANGED <<hook, legs, posts, stops, loads, saved, crossed>>
  BY DEF TurnStops
<1>2. turns' \in Seq(TurnT)
  BY <1>1, TurnPhase DEF Phases
<1>3. QED
  BY <1>1, <1>2, PageStays DEF IInv

\* A turn is gone.
LEMMA TurnClosesKeeps ==
  ASSUME IInv, NEW t \in DOMAIN turns, TurnCloses(t)
  PROVE  IInv'
<1>1. UNCHANGED <<hook, legs, posts, stops, loads, crossed>>
  BY DEF TurnCloses
<1>2. \E x \in {"gone", "void"} : turns' = [turns EXCEPT ![t].phase = x]
  BY DEF TurnCloses
<1>3. saved' = [saved EXCEPT ![turns[t].session] = Append(@, t)] \/ saved' = saved
  BY DEF TurnCloses
<1>4. turns' \in Seq(TurnT) /\ turns[t].session \in Sessions
  BY <1>2, TurnPhase DEF Phases
<1>5. saved' \in [Sessions -> Seq(Nat)]
  <2>1. saved \in [Sessions -> Seq(Nat)] /\ turns \in Seq(TurnT)
    BY DEF IInv
  <2>2. t \in Nat
    BY <2>1, LenProperties
  <2>3. Append(saved[turns[t].session], t) \in Seq(Nat)
    BY <1>4, <2>1, <2>2, AppendProperties
  <2>4. QED
    BY <1>3, <1>4, <2>1, <2>3
<1>6. QED
  BY <1>1, <1>4, <1>5, PageStays DEF IInv

\* The POST of the leg that begins joins those on their way.
LEMMA OneMore ==
  ASSUME NEW n \in Nat, NEW A, A \subseteq 1 .. n, NEW B, B = A \union {n + 1}, NEW m, m = n + 1
  PROVE  B \subseteq 1 .. m
<1>1. 1 .. n \subseteq 1 .. m /\ n + 1 \in 1 .. m
  OBVIOUS
<1>2. QED
  BY <1>1, Zenon

\* Something crosses once another leg begins.
Crossing == crossed \/ \E l \in DOMAIN legs : ~Done(l)

\* A leg that begins here leaves the page in order.
LEMMA BegunHere ==
  ASSUME IInv, NEW kind \in Beginnings, NEW s \in Sessions, NEW t \in Nat
  PROVE  /\ Good(Begun(Page, NewLeg(kind, s, t)), Crossing)
         /\ Len(Begun(Page, NewLeg(kind, s, t)).legs) = Len(legs) + 1
<1>1. Good(Page, crossed) /\ Page.legs = legs /\ DOMAIN legs = 1 .. Len(legs)
  BY PageNow
<1>2. ~Crossing => Idle(Page)
  BY <1>1 DEF Done, Crossing, Idle
<1>3. crossed => Crossing
  BY DEF Crossing
<1>4. /\ Good(Begun(Page, NewLeg(kind, s, t)), Crossing)
      /\ Longer(Page, Begun(Page, NewLeg(kind, s, t)))
  BY <1>1, <1>2, <1>3, BegunGood
<1>5. QED
  BY <1>1, <1>4 DEF Longer

\* A step in which a leg begins on this page.
LEMMA BeginsKeeps ==
  ASSUME IInv, NEW kind \in Beginnings, NEW s \in Sessions, NEW t \in Nat,
         Becomes(Begun(Page, NewLeg(kind, s, t))), crossed' = Crossing
  PROVE  /\ Good(Page', crossed') /\ crossed' \in BOOLEAN /\ Len(legs') = Len(legs) + 1
         /\ posts \subseteq 1 .. Len(legs')
<1> DEFINE b == Begun(Page, NewLeg(kind, s, t))
<1>1. Len(legs) \in Nat /\ posts \subseteq 1 .. Len(legs)
  BY PageNow DEF IInv
<1>2. Good(b, Crossing) /\ Len(b.legs) = Len(legs) + 1
  BY BegunHere
<1>3. hook' = b.hook /\ legs' = b.legs
  BY DEF Becomes
<1>4. Good([hook |-> hook', legs |-> legs'], Crossing)
  BY <1>2, <1>3, GoodParts
<1>5. Crossing \in BOOLEAN
  BY DEF Crossing
<1>6. QED
  BY <1>1, <1>2, <1>3, <1>4, <1>5 DEF Page

\* The history arrives, and with it a run to resume.
LEMMA LoadedKeeps ==
  ASSUME IInv, NEW s \in loads, Loaded(s)
  PROVE  IInv'
<1>1. /\ loads' = loads \ {s} /\ UNCHANGED <<posts, stops, turns, saved>> /\ s \in Sessions
  BY DEF Loaded, server, IInv
<1>2. CASE Open(s) # {} /\ ~hook.streaming /\ Room
  <2>1. PICK t \in Open(s) : /\ Becomes(Begun(Page, NewLeg("resume", hook.view, t)))
                             /\ crossed' = Crossing
    BY <1>2, Zenon DEF Loaded, Crossing
  <2>2. t \in Nat
    BY LenProperties DEF Open, IInv
  <2>3. "resume" \in Beginnings /\ hook.view \in Sessions
    BY PageNow DEF Beginnings, HookT
  <2>4. Good(Page', crossed') /\ crossed' \in BOOLEAN /\ posts \subseteq 1 .. Len(legs')
    BY <1>1, <2>1, <2>2, <2>3, BeginsKeeps
  <2>5. QED
    BY <1>1, <2>4 DEF IInv
<1>3. CASE ~(Open(s) # {} /\ ~hook.streaming /\ Room)
  <2> DEFINE x == hook.blank /\ History(s) = {}
             q == [hook |-> hook', legs |-> legs]
  <2>1. hook' = [hook EXCEPT !.blank = x] /\ UNCHANGED <<legs, crossed>>
    BY <1>3 DEF Loaded
  <2>2. hook \in HookT /\ x \in BOOLEAN
    BY PageNow
  <2> HIDE DEF x
  <2>3. hook' \in HookT /\ SameRefs(hook, hook') /\ hook'.reader = hook.reader
    BY <2>1, <2>2 DEF HookT, SameRefs
  <2>4. q.hook = hook' /\ q.legs = legs /\ DOMAIN q = {"hook", "legs"}
    OBVIOUS
  <2> HIDE DEF q
  <2>5. IsPage(q)
    BY <2>3, <2>4, PageNow DEF IsPage, SameRefs
  <2>6. QueueOk(q.hook, crossed)
    BY <2>3, <2>4, PageNow, SameRefsOk
  <2>7. ~crossed => RefsOk(q.hook, q.legs)
    BY <2>3, <2>4, PageNow DEF RefsOk, Follows, SameRefs
  <2>8. Good(q, crossed)
    BY <2>4, <2>5, <2>6, <2>7, PageNow DEF Good
  <2>9. QED
    BY <1>1, <2>1, <2>8 DEF IInv, Page, q
<1>4. QED
  BY <1>2, <1>3

\* The history does not arrive.
LEMMA LoadFailsKeeps ==
  ASSUME IInv, NEW s \in loads, LoadFails(s)
  PROVE  IInv'
<1>1. /\ loads' = loads \ {s} /\ UNCHANGED <<hook, legs, posts, stops, turns, saved, crossed>>
  BY DEF LoadFails, server
<1>2. QED
  BY <1>1, PageStays DEF IInv

-----------------------------------------------------------------------------
(* the steps of the user *)

\* A prompt is sent or queued.
LEMMA SendKeeps ==
  ASSUME IInv, Send
  PROVE  IInv'
<1> DEFINE q == SentPage(Page)
<1>1. /\ Becomes(q) /\ UNCHANGED <<stops, loads, turns, saved, crossed>>
      /\ posts' = IF hook.streaming THEN posts ELSE posts \union {Len(legs) + 1}
  <2>1. Becomes(q)
    <3>1. Page.hook = hook
      BY DEF Page
    <3>2. QED
      BY <3>1, Zenon DEF Send, SentPage
  <2>2. QED
    BY <2>1 DEF Send, server
<1> HIDE DEF q
<1>2. Good(q, crossed) /\ Len(q.legs) = IF hook.streaming THEN Len(legs) ELSE Len(legs) + 1
  <2>1. Good(Page, crossed) /\ Page.hook = hook /\ Page.legs = legs
    BY PageNow
  <2>2. QED
    BY <2>1, SentGood DEF q
<1>3. hook' = q.hook /\ legs' = q.legs
  BY <1>1 DEF Becomes
<1>4. Good([hook |-> hook', legs |-> legs'], crossed)
  BY <1>2, <1>3, GoodParts
<1>5. posts' \subseteq 1 .. Len(legs')
  <2>1. Len(legs) \in Nat /\ posts \subseteq 1 .. Len(legs)
    BY PageNow DEF IInv
  <2>2. CASE hook.streaming
    BY <1>1, <1>2, <1>3, <2>1, <2>2
  <2>3. CASE ~hook.streaming
    <3>1. posts' = posts \union {Len(legs) + 1} /\ Len(legs') = Len(legs) + 1
      BY <1>1, <1>2, <1>3, <2>3
    <3>2. QED
      BY <2>1, <3>1, OneMore
  <2>4. QED
    BY <2>2, <2>3
<1>6. QED
  BY <1>1, <1>4, <1>5 DEF IInv, Page

\* An edit, or another answer.
LEMMA AgainKeeps ==
  ASSUME IInv, Again
  PROVE  IInv'
<1>1. /\ Becomes(Begun(Page, NewLeg("turn", hook.view, 0)))
      /\ crossed' = Crossing
      /\ posts' = posts \union {Len(legs) + 1} /\ UNCHANGED <<stops, loads, turns, saved>>
  BY DEF Again, server, Crossing
<1>2. hook.view \in Sessions /\ "turn" \in Beginnings /\ 0 \in Nat
  BY PageNow DEF HookT, Beginnings
<1>3. /\ Good(Page', crossed') /\ crossed' \in BOOLEAN /\ Len(legs') = Len(legs) + 1
      /\ posts \subseteq 1 .. Len(legs') /\ Len(legs) \in Nat
  BY <1>1, <1>2, PageNow, BeginsKeeps
<1>4. posts' \subseteq 1 .. Len(legs')
  <2>1. posts \subseteq 1 .. Len(legs)
    BY DEF IInv
  <2>2. posts' = posts \union {Len(legs) + 1} /\ Len(legs') = Len(legs) + 1 /\ Len(legs) \in Nat
    BY <1>1, <1>3
  <2>3. QED
    BY <2>1, <2>2, OneMore
<1>5. QED
  BY <1>1, <1>3, <1>4 DEF IInv

\* A continuation.
LEMMA ContinueKeeps ==
  ASSUME IInv, Continue
  PROVE  IInv'
<1>1. /\ Becomes(Begun(Page, NewLeg("continue", hook.view, 0)))
      /\ crossed' = Crossing
      /\ UNCHANGED <<posts, stops, loads, turns, saved>>
  BY DEF Continue, server, Crossing
<1>2. hook.view \in Sessions /\ "continue" \in Beginnings /\ 0 \in Nat
  BY PageNow DEF HookT, Beginnings
<1>3. /\ Good(Page', crossed') /\ crossed' \in BOOLEAN /\ posts \subseteq 1 .. Len(legs')
  BY <1>1, <1>2, PageNow, BeginsKeeps
<1>4. QED
  BY <1>1, <1>3 DEF IInv

\* A prompt leaves the queue.
LEMMA RemoveQueuedKeeps ==
  ASSUME IInv, NEW i \in DOMAIN hook.queue, RemoveQueued(i)
  PROVE  IInv'
<1> DEFINE t == RemoveAt(hook.queue, i)
           R == hook.removed \union {hook.queue[i]}
           q == [hook |-> hook', legs |-> legs]
<1>1. hook' = [hook EXCEPT !.queue = t, !.removed = R]
      /\ UNCHANGED <<legs, posts, stops, loads, turns, saved, crossed>>
  BY DEF RemoveQueued, server
<1>2. /\ hook \in HookT /\ hook.queue \in Seq(Nat) /\ hook.sent \in Seq(Nat) /\ i \in 1 .. Len(hook.queue)
      /\ hook.queue[i] \in Nat /\ R \subseteq Nat
  <2>1. hook \in HookT
    BY PageNow
  <2>2. hook.queue \in Seq(Nat) /\ hook.sent \in Seq(Nat) /\ hook.removed \subseteq Nat
    BY <2>1 DEF HookT
  <2>3. i \in 1 .. Len(hook.queue) /\ hook.queue[i] \in Nat
    BY <2>2, LenProperties, ElementOfSeq
  <2>4. QED
    BY <2>1, <2>2, <2>3
<1>3. Holds(hook.sent \o hook.queue, hook.asked, hook.removed)
      /\ (~crossed /\ ~hook.owed => Rises(hook.sent \o hook.queue) /\ (~hook.streaming => hook.queue = << >>))
  BY PageNow DEF QueueOk, Line
<1>4. /\ t \in Seq(Nat) /\ Holds(hook.sent \o t, hook.asked, R)
      /\ Rises(hook.sent \o hook.queue) => Rises(hook.sent \o t)
  BY <1>2, <1>3, LineLess
<1> HIDE DEF t, R
<1>5. /\ hook' \in HookT /\ hook'.queue = t /\ hook'.removed = R /\ hook'.sent = hook.sent
      /\ hook'.asked = hook.asked /\ hook'.owed = hook.owed /\ hook'.streaming = hook.streaming
      /\ hook'.abort = hook.abort /\ hook'.reader = hook.reader
  BY <1>1, <1>2, <1>4 DEF HookT
<1>6. q.hook = hook' /\ q.legs = legs /\ DOMAIN q = {"hook", "legs"}
  OBVIOUS
<1> HIDE DEF q
<1>7. IsPage(q)
  BY <1>5, <1>6, PageNow DEF IsPage
<1>8. QueueOk(q.hook, crossed)
  <2>1. ~crossed /\ ~hook.owed => hook.streaming
    BY <1>2, <1>3
  <2>2. QED
    BY <1>3, <1>4, <1>5, <1>6, <2>1 DEF QueueOk, Line
<1>9. ~crossed => RefsOk(q.hook, q.legs)
  BY <1>5, <1>6, PageNow DEF RefsOk, Follows
<1>10. Good(q, crossed)
  BY <1>6, <1>7, <1>8, <1>9, PageNow DEF Good
<1>11. QED
  BY <1>1, <1>10 DEF IInv, Page, q

\* Another leg is aborted or not: it is what it was.
LEMMA AbortedLeg ==
  ASSUME NEW a \in LegT, NEW x
  PROVE  [a EXCEPT !.aborted = @ \/ x] \in LegT /\ Kept(a, [a EXCEPT !.aborted = @ \/ x])
BY DEF LegT, Kept

\* The legs in X are aborted.
AbortedIn(s, X) == [l \in DOMAIN s |-> [s[l] EXCEPT !.aborted = @ \/ l \in X]]

\* All are what they were.
LEMMA AbortedLegs ==
  ASSUME NEW s \in Seq(LegT), LegsOk(s), NEW X
  PROVE  /\ AbortedIn(s, X) \in Seq(LegT) /\ Len(AbortedIn(s, X)) = Len(s)
         /\ LegsOk(AbortedIn(s, X))
<1> DEFINE u == AbortedIn(s, X)
<1>1. Len(s) \in Nat /\ DOMAIN s = 1 .. Len(s) /\ \A k \in 1 .. Len(s) : s[k] \in LegT /\ LegOk(s[k])
  BY LenProperties, ElementOfSeq DEF LegsOk
<1> DEFINE Touched(l) == [s[l] EXCEPT !.aborted = @ \/ l \in X]
<1>2. u = [l \in 1 .. Len(s) |-> Touched(l)]
  BY <1>1 DEF AbortedIn
<1>3. ASSUME NEW k \in 1 .. Len(s)
      PROVE  Touched(k) \in LegT /\ Kept(s[k], Touched(k))
  <2> DEFINE x == k \in X
  <2>1. s[k] \in LegT
    BY <1>1
  <2>2. QED
    BY <2>1, AbortedLeg, Zenon
<1> HIDE DEF Touched, u
<1>4. u \in [1 .. Len(s) -> LegT] /\ \A k \in 1 .. Len(s) : u[k] = Touched(k)
  BY <1>2, <1>3
<1>5. u \in Seq(LegT) /\ Len(u) = Len(s)
  BY <1>1, <1>4, FunctionIsSeq
<1>6. \A k \in 1 .. Len(s) : LegOk(u[k])
  BY <1>1, <1>3, <1>4, KeptOk
<1>7. QED
  BY <1>5, <1>6 DEF LegsOk, u

\* Where something crosses, a page is in order whatever its refs say.
LEMMA CrossedGood ==
  ASSUME NEW q, IsPage(q), LegsOk(q.legs), NEW h, NEW c, QueueOk(h, c), SameLine(h, q.hook)
  PROVE  Good(q, TRUE)
<1>1. QueueOk(q.hook, TRUE)
  BY DEF QueueOk, SameLine
<1>2. QED
  BY <1>1 DEF Good

\* Stop.
LEMMA StopButtonKeeps ==
  ASSUME IInv, StopButton
  PROVE  IInv'
<1> DEFINE X == {l \in DOMAIN legs : l = hook.abort \/ l \in Comparing}
           q == [hook |-> hook', legs |-> legs']
<1>1. /\ hook' = [hook EXCEPT !.streaming = FALSE, !.shown = FALSE]
      /\ legs' = AbortedIn(legs, X)
      /\ stops' = stops \union {hook.view} /\ crossed' = TRUE
      /\ UNCHANGED <<posts, loads, turns, saved>>
  <2>1. legs' = [l \in DOMAIN legs |-> [legs[l] EXCEPT !.aborted = @ \/ l = hook.abort \/ l \in Comparing]]
    BY DEF StopButton
  <2>2. ASSUME NEW l \in DOMAIN legs
        PROVE  [legs[l] EXCEPT !.aborted = @ \/ l = hook.abort \/ l \in Comparing]
                 = [legs[l] EXCEPT !.aborted = @ \/ l \in X]
    <3>1. (l = hook.abort \/ l \in Comparing) <=> l \in X
      OBVIOUS
    <3> HIDE DEF X
    <3>2. (legs[l].aborted \/ l = hook.abort \/ l \in Comparing) <=> (legs[l].aborted \/ l \in X)
      BY <3>1
    <3>3. QED
      BY <3>2
  <2>3. QED
    BY <2>1, <2>2 DEF StopButton, server, AbortedIn
<1> HIDE DEF X
<1>2. hook \in HookT /\ IsPage(Page) /\ QueueOk(hook, crossed) /\ legs \in Seq(LegT) /\ LegsOk(legs)
      /\ Page.hook = hook /\ Page.legs = legs
  BY PageNow
<1>3. legs' \in Seq(LegT) /\ Len(legs') = Len(legs) /\ LegsOk(legs')
  BY <1>1, <1>2, AbortedLegs
<1>4. hook' \in HookT /\ SameLine(hook, hook') /\ hook'.abort = hook.abort /\ hook'.reader = hook.reader
      /\ hook.view \in Sessions
  BY <1>1, <1>2 DEF HookT, SameLine, Line
<1>5. q.hook = hook' /\ q.legs = legs' /\ DOMAIN q = {"hook", "legs"}
  OBVIOUS
<1> HIDE DEF q
<1>6. IsPage(q)
  BY <1>2, <1>3, <1>4, <1>5 DEF IsPage
<1>7. Good(q, TRUE)
  BY <1>2, <1>3, <1>4, <1>5, <1>6, CrossedGood
<1>8. QED
  BY <1>1, <1>3, <1>4, <1>7 DEF IInv, Page, q

\* Another session is shown.
LEMMA SwitchSessionKeeps ==
  ASSUME IInv, NEW s \in Sessions, SwitchSession(s)
  PROVE  IInv'
<1> DEFINE u == [l \in DOMAIN legs |-> [legs[l] EXCEPT !.aborted = @ \/ l \in Comparing]]
           o == [hook |-> hook, legs |-> u]
           p == Silence(o)
           q == [p EXCEPT !.hook.view = s, !.hook.streaming = FALSE, !.hook.shown = FALSE,
                          !.hook.blank = TRUE]
<1>1. Becomes(q) /\ loads' = loads \union {s} /\ crossed' = TRUE
      /\ UNCHANGED <<posts, stops, turns, saved>>
  BY DEF SwitchSession, server
<1>2. hook \in HookT /\ IsPage(Page) /\ QueueOk(hook, crossed) /\ legs \in Seq(LegT) /\ LegsOk(legs)
      /\ Page.hook = hook /\ Page.legs = legs
  BY PageNow
<1> HIDE DEF q, p
<1>3. u \in Seq(LegT) /\ Len(u) = Len(legs) /\ LegsOk(u)
  <2>1. u = AbortedIn(legs, Comparing)
    BY Zenon DEF AbortedIn
  <2> HIDE DEF u
  <2>2. QED
    BY <1>2, <2>1, AbortedLegs
<1>4. o.hook = hook /\ o.legs = u /\ DOMAIN o = {"hook", "legs"}
  OBVIOUS
<1> HIDE DEF o, u
<1>5. IsPage(o)
  BY <1>2, <1>3, <1>4 DEF IsPage
<1>6. /\ IsPage(p) /\ Len(p.legs) = Len(o.legs) /\ p.hook = [o.hook EXCEPT !.reader = 0]
      /\ \A k \in 1 .. Len(o.legs) : Kept(o.legs[k], p.legs[k])
  BY <1>5, SilenceFacts DEF p
<1>7. LegsOk(p.legs)
  BY <1>3, <1>4, <1>6, KeptOk DEF LegsOk
<1>8. /\ q.hook = [p.hook EXCEPT !.view = s, !.streaming = FALSE, !.shown = FALSE, !.blank = TRUE]
      /\ q.legs = p.legs /\ DOMAIN q = {"hook", "legs"}
  BY <1>6 DEF q, IsPage
<1>9. p.hook \in HookT /\ p.hook.asked = hook.asked /\ p.hook.removed = hook.removed
      /\ p.hook.sent = hook.sent /\ p.hook.queue = hook.queue
  BY <1>2, <1>4, <1>6, PageLegs DEF HookT
<1>10. /\ q.hook \in HookT /\ q.hook.abort = p.hook.abort /\ q.hook.reader = p.hook.reader
       /\ q.hook.asked = hook.asked /\ q.hook.removed = hook.removed
       /\ q.hook.sent = hook.sent /\ q.hook.queue = hook.queue
  BY <1>8, <1>9 DEF HookT
<1>11. IsPage(q)
  BY <1>6, <1>8, <1>10 DEF IsPage
<1>12. QueueOk(q.hook, TRUE)
  BY <1>2, <1>10 DEF QueueOk, Line
<1>13. Good(q, TRUE) /\ Len(q.legs) = Len(legs)
  BY <1>3, <1>4, <1>6, <1>7, <1>8, <1>11, <1>12 DEF Good
<1>14. Good([hook |-> hook', legs |-> legs'], TRUE) /\ Len(legs') = Len(legs)
  BY <1>1, <1>13, GoodParts DEF Becomes
<1>15. QED
  BY <1>1, <1>14 DEF IInv, Page

\* The columns of a comparison.
LEMMA CompareKeeps ==
  ASSUME IInv, NEW n \in 1 .. 2, Compare(n)
  PROVE  IInv'
<1> DEFINE m == Len(legs)
           a == NewLeg("compare", hook.view, 0)
           g == [a EXCEPT !.group = m + 1]
           v == [c \in 1 .. n |-> g]
           d == crossed \/ \E l \in DOMAIN legs : ~Done(l)
           q == [hook |-> hook', legs |-> legs']
<1>1. /\ legs' = legs \o v /\ posts' = posts \union (m + 1 .. Len(legs'))
      /\ hook' = [hook EXCEPT !.streaming = TRUE, !.shown = TRUE] /\ crossed' = d
      /\ UNCHANGED <<stops, loads, turns, saved>>
  BY DEF Compare, server
<1>2. hook \in HookT /\ IsPage(Page) /\ QueueOk(hook, crossed) /\ legs \in Seq(LegT) /\ LegsOk(legs)
      /\ Page.hook = hook /\ Page.legs = legs /\ m \in Nat /\ (~crossed => RefsOk(hook, legs))
      /\ DOMAIN legs = 1 .. m /\ \A k \in 1 .. m : LegOk(legs[k])
  BY PageNow
<1>3. a \in LegT /\ LegOk(a) /\ a.kind = "compare" /\ a.pc = "post" /\ hook.view \in Sessions
  <2>1. "compare" \in Kinds /\ hook.view \in Sessions /\ 0 \in Nat
    BY <1>2 DEF Kinds, HookT
  <2>2. a \in LegT /\ LegOk(a) /\ a.kind = "compare"
    BY <2>1, NewLegT, NewLegOk
  <2>3. a.pc = "post"
    BY DEF NewLeg
  <2>4. QED
    BY <2>1, <2>2, <2>3
<1> HIDE DEF a
<1>4. g \in LegT /\ LegOk(g) /\ g.kind = "compare" /\ g.pc = "post" /\ g.group = m + 1
  <2>1. /\ g \in LegT /\ g.kind = "compare" /\ g.pc = "post" /\ g.group = m + 1 /\ g.known = a.known
        /\ g.drops = a.drops
    <3>1. a \in LegT /\ a.kind = "compare" /\ a.pc = "post" /\ m + 1 \in Nat
      BY <1>2, <1>3
    <3> HIDE DEF m
    <3>2. QED
      BY <3>1 DEF LegT
  <2> HIDE DEF g
  <2>2. LegOk(g)
    BY <1>3, <2>1 DEF LegOk
  <2>3. QED
    BY <2>1, <2>2
<1> HIDE DEF g
<1>5. v \in Seq(LegT) /\ Len(v) = n /\ \A c \in 1 .. n : v[c] = g
  <2>1. n \in Nat /\ v \in [1 .. n -> LegT]
    BY <1>4
  <2>2. QED
    BY <2>1, FunctionIsSeq
<1> HIDE DEF v, d
<1>6. /\ legs' \in Seq(LegT) /\ Len(legs') = m + n
      /\ \A k \in 1 .. m + n : legs'[k] = IF k <= m THEN legs[k] ELSE g
  <2>1. /\ legs \o v \in Seq(LegT) /\ Len(legs \o v) = m + Len(v)
        /\ \A k \in 1 .. m + Len(v) : (legs \o v)[k] = IF k <= m THEN legs[k] ELSE v[k - m]
    BY <1>2, <1>5, ConcatProperties
  <2>2. ASSUME NEW k \in 1 .. m + n, ~(k <= m) PROVE v[k - m] = g
    BY <1>2, <1>5, <2>2
  <2>3. QED
    BY <1>1, <1>5, <2>1, <2>2
<1>7. /\ hook' \in HookT /\ hook'.streaming /\ hook'.abort = hook.abort /\ hook'.reader = hook.reader
      /\ hook'.owed = hook.owed /\ SameLine(hook, hook')
  BY <1>1, <1>2 DEF HookT, SameLine, Line
<1>8. q.hook = hook' /\ q.legs = legs' /\ DOMAIN q = {"hook", "legs"}
  OBVIOUS
<1> HIDE DEF q, m
<1>9. IsPage(q)
  BY <1>2, <1>6, <1>7, <1>8 DEF IsPage, m
<1>10. LegsOk(q.legs)
  BY <1>2, <1>4, <1>6, <1>8 DEF LegsOk
<1>11. QueueOk(q.hook, d)
  <2>1. QueueOk(hook, d)
    <3>1. QueueOk(hook, crossed) /\ (crossed => d)
      BY <1>2 DEF d
    <3>2. QED
      BY <3>1, QueueCrossed
  <2>2. QED
    BY <1>7, <1>8, <2>1, SameLineOk
<1>12. ASSUME ~d PROVE RefsOk(q.hook, q.legs)
  <2>1. RefsOk(hook, legs) /\ \A k \in 1 .. m : legs[k].pc = "done"
    BY <1>2, <1>12 DEF d, Done
  <2>2. hook'.reader = 0
    BY <1>7, <2>1 DEF RefsOk, m
  <2>3. \A k \in 1 .. m : legs'[k].pc = "done"
    BY <1>2, <1>6, <2>1
  <2>4. \A k \in 1 .. m + n : k > m => legs'[k] = g
    BY <1>2, <1>6
  <2>5. ASSUME NEW l \in 1 .. m + n, legs'[l].pc # "done" PROVE Follows(hook', legs', l)
    <3>1. legs'[l] = g
      BY <1>2, <2>3, <2>4, <2>5
    <3>2. ASSUME NEW k \in 1 .. m + n, legs'[k].pc # "done" PROVE legs'[k].group = m + 1
      BY <1>2, <1>4, <2>3, <2>4, <3>2
    <3>3. Alone(legs', l)
      BY <1>2, <1>4, <1>6, <3>1, <3>2 DEF Alone
    <3>4. QED
      BY <1>4, <1>7, <2>2, <3>1, <3>3 DEF Follows, Streams
  <2>6. QED
    BY <1>6, <1>8, <2>2, <2>5 DEF RefsOk
<1>13. Good(q, d) /\ d \in BOOLEAN
  BY <1>9, <1>10, <1>11, <1>12 DEF Good, d
<1>14. posts' \subseteq 1 .. Len(legs')
  <2>1. posts \subseteq 1 .. m /\ posts' = posts \union (m + 1 .. m + n)
    BY <1>1, <1>6 DEF IInv, m
  <2>2. QED
    BY <1>2, <1>6, <2>1
<1>15. QED
  BY <1>1, <1>13, <1>14 DEF IInv, Page, q

-----------------------------------------------------------------------------
(* the invariant is inductive *)

\* The page that is opened or reloaded.
LEMMA InitHolds == Init => IInv
<1> SUFFICES ASSUME Init PROVE IInv
  OBVIOUS
<1>1. First \in Sessions /\ MaxDrops \in Nat
  BY Bounds
<1>2. /\ hook = EmptyHook /\ legs = << >> /\ posts = {} /\ stops = {} /\ loads = {First} /\ crossed = FALSE
  BY DEF Init
<1>3. turns \in Seq(TurnT)
  <2>1. NewTurn(First, "running") \in TurnT /\ NewTurn(First, "gone") \in TurnT
    BY <1>1 DEF NewTurn, TurnT, Phases
  <2>2. turns \in {<< >>, <<NewTurn(First, "running")>>, <<NewTurn(First, "gone"), NewTurn(First, "running")>>}
    BY DEF Init
  <2> DEFINE a == NewTurn(First, "running")
             b == NewTurn(First, "gone")
  <2>3. a \in TurnT /\ b \in TurnT
    BY <2>1
  <2> HIDE DEF a, b
  <2>4. << >> \in Seq(TurnT) /\ <<a>> \in Seq(TurnT) /\ <<b, a>> \in Seq(TurnT)
    BY <2>3
  <2>5. turns = << >> \/ turns = <<a>> \/ turns = <<b, a>>
    BY <2>2 DEF a, b
  <2>6. QED
    BY <2>4, <2>5
<1>4. saved \in [Sessions -> Seq(Nat)]
  <2>1. << >> \in Seq(Nat) /\ <<1>> \in Seq(Nat)
    OBVIOUS
  <2>2. saved = [s \in Sessions |-> IF s = First /\ Len(turns) = 2 THEN <<1>> ELSE << >>]
    BY DEF Init
  <2>3. QED
    BY <2>1, <2>2
<1>5. /\ hook \in HookT /\ hook.abort = 0 /\ hook.reader = 0 /\ hook.queue = << >> /\ hook.sent = << >>
      /\ hook.removed = {} /\ hook.asked = 0
  BY <1>1, <1>2 DEF EmptyHook, HookT
<1>6. Page.hook = hook /\ Page.legs = legs /\ DOMAIN Page = {"hook", "legs"} /\ Len(legs) = 0 /\ legs \in Seq(LegT)
  BY <1>2 DEF Page
<1>7. IsPage(Page)
  BY <1>5, <1>6 DEF IsPage
<1>8. LegsOk(legs)
  BY <1>6 DEF LegsOk
<1>9. Line(hook) = << >> /\ << >> \in Seq(Nat) /\ Len(<< >>) = 0
  BY <1>5 DEF Line
<1>10. Holds(<< >>, 0, {}) /\ Rises(<< >>)
  BY DEF Holds, Rises
<1>11. QueueOk(hook, crossed)
  BY <1>5, <1>9, <1>10 DEF QueueOk
<1>12. RefsOk(hook, legs)
  BY <1>5, <1>6 DEF RefsOk
<1>13. QED
  BY <1>1, <1>2, <1>3, <1>4, <1>6, <1>7, <1>8, <1>11, <1>12 DEF IInv, Good

\* The steps of a leg.
LEMMA LegKeeps ==
  ASSUME IInv, NEW l \in DOMAIN legs, Leg(l)
  PROVE  IInv'
BY ReplyKeeps, PostFailsKeeps, MessageStartKeeps, LastEventKeeps, StreamEndsKeeps, ResumeKeeps,
   RecoverKeeps, RecoverOnceMoreKeeps, UnwindKeeps, ColumnEndsKeeps, ContinueEndsKeeps DEF Leg

\* The steps of the server.
LEMMA ServerKeeps ==
  ASSUME IInv, Server
  PROVE  IInv'
<1>1. CASE \E l \in posts : Arrive(l)
  BY <1>1, ArriveKeeps
<1>2. CASE \E s \in stops : StopArrives(s)
  BY <1>2, StopArrivesKeeps
<1>3. CASE \E s \in loads : Loaded(s) \/ LoadFails(s)
  BY <1>3, LoadedKeeps, LoadFailsKeeps
<1>4. CASE \E t \in DOMAIN turns : TurnStops(t) \/ TurnCloses(t)
  BY <1>4, TurnStopsKeeps, TurnClosesKeeps
<1>5. QED
  BY <1>1, <1>2, <1>3, <1>4 DEF Server

\* The steps of the user.
LEMMA UserKeeps ==
  ASSUME IInv, User
  PROVE  IInv'
<1>1. CASE \E n \in 1 .. 2 : Compare(n)
  BY <1>1, CompareKeeps
<1>2. CASE \E i \in DOMAIN hook.queue : RemoveQueued(i)
  BY <1>2, RemoveQueuedKeeps
<1>3. CASE \E s \in Sessions : SwitchSession(s)
  BY <1>3, SwitchSessionKeeps
<1>4. CASE Send \/ Again \/ Continue \/ StopButton
  BY <1>4, SendKeeps, AgainKeeps, ContinueKeeps, StopButtonKeeps
<1>5. QED
  BY <1>1, <1>2, <1>3, <1>4 DEF User

\* The invariant behind the theorems below is inductive: legs are in order, every prompt
\* is in one place, and the refs tell the truth where nothing crosses.
THEOREM InductiveInvariant == Spec => []IInv
<1>1. IInv /\ [Next]_vars => IInv'
  <2> SUFFICES ASSUME IInv, [Next]_vars PROVE IInv'
    OBVIOUS
  <2>1. CASE User
    BY <2>1, UserKeeps
  <2>2. CASE Server
    BY <2>2, ServerKeeps
  <2>3. CASE \E l \in DOMAIN legs : Leg(l)
    BY <2>3, LegKeeps
  <2>4. CASE UNCHANGED vars
    <3>1. UNCHANGED <<hook, legs, posts, stops, loads, turns, saved, crossed>>
      BY <2>4 DEF vars, server
    <3>2. QED
      BY <3>1, PageStays DEF IInv
  <2>5. QED
    BY <2>1, <2>2, <2>3, <2>4 DEF Next, Work
<1>2. QED
  BY <1>1, InitHolds, PTL DEF Spec

-----------------------------------------------------------------------------
(* what follows *)

\* The prompts of a hook, one by one.
LEMMA LineFacts ==
  ASSUME NEW h \in HookT, Holds(Line(h), h.asked, h.removed)
  PROVE  /\ DOMAIN Line(h) = 1 .. Len(Line(h))
         /\ Range(h.queue) \subseteq Range(Line(h)) /\ Range(h.sent) \subseteq Range(Line(h))
         /\ Range(Line(h)) = 1 .. h.asked \ h.removed /\ h.removed \subseteq 1 .. h.asked
<1>1. /\ h.sent \in Seq(Nat) /\ h.queue \in Seq(Nat) /\ Len(h.sent) \in Nat /\ Len(h.queue) \in Nat
      /\ DOMAIN h.sent = 1 .. Len(h.sent) /\ DOMAIN h.queue = 1 .. Len(h.queue)
  BY LenProperties DEF HookT
<1>2. /\ Line(h) \in Seq(Nat) /\ Len(Line(h)) = Len(h.sent) + Len(h.queue)
      /\ \A i \in 1 .. Len(h.sent) + Len(h.queue) :
           Line(h)[i] = IF i <= Len(h.sent) THEN h.sent[i] ELSE h.queue[i - Len(h.sent)]
  <2> DEFINE u == h.sent
             v == h.queue
  <2>1. u \in Seq(Nat) /\ v \in Seq(Nat) /\ Line(h) = u \o v
    BY <1>1 DEF Line
  <2> HIDE DEF u, v
  <2>2. /\ u \o v \in Seq(Nat) /\ Len(u \o v) = Len(u) + Len(v)
        /\ \A i \in 1 .. Len(u) + Len(v) : (u \o v)[i] = IF i <= Len(u) THEN u[i] ELSE v[i - Len(u)]
    BY <2>1, ConcatProperties
  <2>3. QED
    BY <2>1, <2>2 DEF u, v
<1>3. DOMAIN Line(h) = 1 .. Len(Line(h))
  BY <1>2, LenProperties
<1>4. ASSUME NEW i \in 1 .. Len(h.sent) PROVE h.sent[i] \in Range(Line(h))
  <2>1. i \in 1 .. Len(h.sent) + Len(h.queue) /\ i <= Len(h.sent)
    <3> DEFINE a == Len(h.sent)
               b == Len(h.queue)
    <3>1. i \in 1 .. a /\ a \in Nat /\ b \in Nat
      BY <1>1
    <3> HIDE DEF a, b
    <3>2. i \in 1 .. a + b /\ i <= a
      BY <3>1
    <3>3. QED
      BY <3>2 DEF a, b
  <2>3. i \in DOMAIN Line(h) /\ Line(h)[i] = h.sent[i]
    BY <1>2, <1>3, <2>1
  <2>4. QED
    BY <2>3 DEF Range
<1>5. ASSUME NEW i \in 1 .. Len(h.queue) PROVE h.queue[i] \in Range(Line(h))
  <2>1. Len(h.sent) + i \in 1 .. Len(h.sent) + Len(h.queue) /\ ~(Len(h.sent) + i <= Len(h.sent))
        /\ (Len(h.sent) + i) - Len(h.sent) = i
    <3> DEFINE a == Len(h.sent)
               b == Len(h.queue)
    <3>1. i \in 1 .. b /\ a \in Nat /\ b \in Nat
      BY <1>1
    <3> HIDE DEF a, b
    <3>2. a + i \in 1 .. a + b /\ ~(a + i <= a) /\ (a + i) - a = i
      BY <3>1
    <3>3. QED
      BY <3>2 DEF a, b
  <2> DEFINE k == Len(h.sent) + i
  <2>2. k \in 1 .. Len(h.sent) + Len(h.queue) /\ ~(k <= Len(h.sent)) /\ k - Len(h.sent) = i
    BY <2>1
  <2> HIDE DEF k
  <2>3. Line(h)[k] = h.queue[k - Len(h.sent)] /\ k \in DOMAIN Line(h)
    BY <1>2, <1>3, <2>2
  <2>4. Line(h)[k] = h.queue[i]
    BY <2>2, <2>3
  <2>5. QED
    BY <2>3, <2>4 DEF Range
<1>6. Range(Line(h)) = 1 .. h.asked \ h.removed
  BY <1>3 DEF Range, Holds
<1>7. Range(h.queue) \subseteq Range(Line(h)) /\ Range(h.sent) \subseteq Range(Line(h))
  <2> DEFINE R == Range(Line(h))
  <2>1. (\A i \in DOMAIN h.sent : h.sent[i] \in R) /\ (\A i \in DOMAIN h.queue : h.queue[i] \in R)
    BY <1>1, <1>4, <1>5, Zenon
  <2> HIDE DEF R
  <2>2. Range(h.queue) \subseteq R /\ Range(h.sent) \subseteq R
    BY <2>1, Zenon DEF Range
  <2>3. QED
    BY <2>2 DEF R
<1>8. h.removed \subseteq 1 .. h.asked
  BY DEF Holds
<1>9. QED
  BY <1>3, <1>6, <1>7, <1>8

\* Every reachable state is well typed: the refs and the POSTs are those of legs there
\* are, the prompts those asked, and no leg drops its connection more than MaxDrops times.
THEOREM TypeCorrect == Spec => []TypeOK
<1>1. IInv => TypeOK
  <2> SUFFICES ASSUME IInv PROVE TypeOK
    OBVIOUS
  <2>1. /\ hook \in HookT /\ IsPage(Page) /\ Page.hook = hook /\ Page.legs = legs /\ DOMAIN legs = 1 .. Len(legs)
        /\ QueueOk(hook, crossed) /\ \A k \in 1 .. Len(legs) : legs[k] \in LegT
    BY PageNow
  <2>2. /\ hook.streaming \in BOOLEAN /\ hook.shown \in BOOLEAN /\ hook.blank \in BOOLEAN
        /\ hook.owed \in BOOLEAN /\ crossed \in BOOLEAN
    BY <2>1, Zenon DEF HookT, IInv
  <2>3. {hook.streaming, hook.shown, hook.blank, hook.owed, crossed} \subseteq BOOLEAN
    BY <2>2, Zenon
  <2>4. hook.view \in Sessions /\ stops \subseteq Sessions /\ loads \subseteq Sessions
    BY <2>1 DEF HookT, IInv
  <2>5. {hook.abort, hook.reader} \subseteq 0 .. Len(legs) /\ posts \subseteq DOMAIN legs
    BY <2>1 DEF IsPage, IInv
  <2>6. Range(hook.queue) \union Range(hook.sent) \union hook.removed \subseteq 1 .. hook.asked
    BY <2>1, LineFacts DEF QueueOk
  <2>7. \A l \in DOMAIN legs : legs[l].pc \in Pcs /\ legs[l].drops \in 0 .. MaxDrops
    BY <2>1 DEF LegT
  <2>8. \A t \in DOMAIN turns : turns[t].phase \in {"running", "stopped", "failed", "gone", "void"}
    <3>1. turns \in Seq(TurnT) /\ DOMAIN turns = 1 .. Len(turns)
      BY LenProperties DEF IInv
    <3>2. \A t \in DOMAIN turns : turns[t] \in TurnT
      BY <3>1, ElementOfSeq
    <3>3. QED
      BY <3>2 DEF TurnT, Phases
  <2>9. QED
    BY <2>3, <2>4, <2>5, <2>6, <2>7, <2>8 DEF TypeOK
<1>2. QED
  BY <1>1, InductiveInvariant, PTL

\* Whatever crosses, every prompt is in one place once: sent, in the queue or removed;
\* and where nothing crosses prompts are sent in the order they were asked in.
THEOREM QueueStaysFifo == Spec => []QueueIsFifo
<1>1. IInv => QueueIsFifo
  <2> SUFFICES ASSUME IInv PROVE QueueIsFifo
    OBVIOUS
  <2>1. hook \in HookT /\ QueueOk(hook, crossed)
    BY PageNow
  <2>2. Holds(Line(hook), hook.asked, hook.removed)
    BY <2>1 DEF QueueOk
  <2>3. DOMAIN Line(hook) = 1 .. Len(Line(hook)) /\ Range(Line(hook)) = 1 .. hook.asked \ hook.removed
    BY <2>1, <2>2, LineFacts
  <2>4. IsInjective(Line(hook))
    BY <2>2, <2>3 DEF IsInjective, Holds
  <2>5. ~crossed /\ ~hook.owed =>
          \A i, j \in DOMAIN Line(hook) : i < j => Line(hook)[i] < Line(hook)[j]
    BY <2>1, <2>3 DEF QueueOk, Rises
  <2>6. QED
    BY <2>3, <2>4, <2>5 DEF QueueIsFifo, Line
<1>2. QED
  BY <1>1, InductiveInvariant, PTL

\* A leg that had begun to answer and was not aborted ends with the last event, with an
\* answer recovered or with an error that is shown.
THEOREM NoLegEndsSilently == Spec => []NoSilentEnd
<1>1. IInv => NoSilentEnd
  BY PageNow DEF LegOk, NoSilentEnd, Done
<1>2. QED
  BY <1>1, InductiveInvariant, PTL

\* As long as nothing crosses, isStreamingRef, abortRef and readerRef are those of the
\* leg under way, the only one but for the columns of its comparison.
THEOREM RefsTellTheTruth == Spec => []RefsFollowTheLeg
<1>1. IInv => RefsFollowTheLeg
  <2> SUFFICES ASSUME IInv, ~crossed, NEW l \in DOMAIN legs, ~Done(l)
               PROVE  /\ hook.streaming
                      /\ {k \in DOMAIN legs : ~Done(k)} = {l} \union Beside(Page, l)
                      /\ legs[l].kind # "compare" => hook.abort = l
                      /\ hook.reader # 0 <=> legs[l].kind \in {"turn", "resume"} /\ legs[l].pc \in {"read", "rread"}
    BY DEF RefsFollowTheLeg
  <2>1. RefsOk(hook, legs) /\ DOMAIN legs = 1 .. Len(legs) /\ Len(legs) \in Nat /\ Page.legs = legs
    BY PageNow
  <2>2. Follows(hook, legs, l)
    BY <2>1 DEF RefsOk, Done
  <2>3. {k \in DOMAIN legs : ~Done(k)} = {l} \union Beside(Page, l)
    <3>1. \A k \in DOMAIN legs : k # l /\ ~Done(k) => legs[l].group # 0 /\ legs[k].group = legs[l].group
      BY <2>1, <2>2 DEF Follows, Alone, Done
    <3>2. QED
      BY <2>1, <3>1 DEF Beside, Done
  <2>4. hook.reader # 0 <=> legs[l].kind \in {"turn", "resume"} /\ legs[l].pc \in {"read", "rread"}
    <3>1. l # 0
      BY <2>1
    <3>2. QED
      BY <2>2, <3>1 DEF Follows, Streams
  <2>5. QED
    BY <2>2, <2>3, <2>4 DEF Follows
<1>2. QED
  BY <1>1, InductiveInvariant, PTL

-----------------------------------------------------------------------------
(* whose answer a leg recovers *)

Posters == {"turn", "compare"}

Shut(ts, u) == ts[u].phase \in {"gone", "void"}

\* What is true of a leg while nothing crosses and nothing fails: it is undisturbed, a leg
\* that posted ends with its turn, and one that resumed asks for an answer that is saved.
LegOwn(g, ts) ==
  /\ g.session = First /\ g.turn \in 0 .. Len(ts)
  /\ g.pc # "done" => ~g.cut /\ ~g.aborted
  /\ ~g.early => g.text = 0 \/ g.text = g.turn
  /\ g.kind \in Posters => g.pc \in {"post", "read", "done"}
  /\ g.kind \in Posters /\ g.pc # "post" => g.turn # 0
  /\ g.kind \in Posters /\ g.pc = "done" => Shut(ts, g.turn)
  /\ g.known => g.turn # 0 /\ ts[g.turn].phase # "void"
  /\ g.kind = "resume" => g.known /\ g.pc # "read"
  /\ g.pc \in {"recover", "final"} /\ ~g.early => ts[g.turn].phase = "gone"

LegsOwn(s, ts) == \A k \in 1 .. Len(s) : LegOwn(s[k], ts)

\* A POST on its way has no turn yet.
PostsOwn(s, P) == \A k \in P : s[k].pc = "post" /\ s[k].turn = 0

\* No leg posted for turn u: it ran when the page was opened.
Foreign(s, u) == \A k \in 1 .. Len(s) : s[k].kind \in Posters => s[k].turn # u

OneForeign(s, ts) ==
  \A u, v \in 1 .. Len(ts) :
    ~Shut(ts, u) /\ ~Shut(ts, v) /\ Foreign(s, u) /\ Foreign(s, v) => u = v

Resuming(g) == g.kind = "resume" /\ g.pc # "done"

\* Turn t is the last of the session, and so is its answer once it is saved.
LastTurn(t, ts, a) ==
  /\ \A u \in 1 .. Len(ts) : u # t => Shut(ts, u)
  /\ Shut(ts, t) => a # << >> /\ Last(a) = t

ResumesOwn(s, ts, a) ==
  \A k \in 1 .. Len(s) : Resuming(s[k]) => LastTurn(s[k].turn, ts, a)

TurnsHere(ts) == \A u \in 1 .. Len(ts) : ts[u].session = First

Calm ==
  /\ hook.view = First /\ stops = {} /\ loads \subseteq {First}
  /\ TurnsHere(turns) /\ LegsOwn(legs, turns) /\ PostsOwn(legs, posts)
  /\ OneForeign(legs, turns) /\ ResumesOwn(legs, turns, saved[First])

OwnInv == ~faulty /\ ~crossed => Calm

\* A leg that is over is as it was, but for a word to its connection.
LEMMA OwnKept ==
  ASSUME NEW a, NEW b, NEW ts, LegOwn(a, ts), Kept(a, b), b.pc = "done"
  PROVE  LegOwn(b, ts)
BY DEF LegOwn, Kept

\* A leg that others may have touched once it was over.
Alike(a, b) == Kept(a, b) /\ (b = a \/ b.pc = "done")

\* It is in order.
LEMMA OwnAlike ==
  ASSUME NEW a, NEW b, NEW ts, LegOwn(a, ts), Alike(a, b)
  PROVE  LegOwn(b, ts)
BY OwnKept DEF Alike

\* A leg takes a step.
Moved(a, b, ts) ==
  a.pc # "done" /\ b.kind = a.kind /\ b.turn = a.turn /\ LegOwn(b, ts)

\* A leg that is no resume begins.
Added(b, ts) == b.kind # "resume" /\ LegOwn(b, ts)

\* Every leg u of a page is a leg of s as it was, one of s that moved, or a new one.
LegsStep(s, u, ts) ==
  /\ Len(s) \in Nat /\ Len(u) \in Nat /\ Len(s) <= Len(u)
  /\ \A k \in 1 .. Len(s) : Alike(s[k], u[k]) \/ Moved(s[k], u[k], ts)
  /\ \A k \in 1 .. Len(u) : k > Len(s) => Added(u[k], ts)

\* Then what the legs have to do with the turns stays.
LEMMA LegsStepOwn ==
  ASSUME NEW s, NEW u, NEW ts, NEW a, LegsStep(s, u, ts), LegsOwn(s, ts), OneForeign(s, ts),
         ResumesOwn(s, ts, a)
  PROVE  LegsOwn(u, ts) /\ OneForeign(u, ts) /\ ResumesOwn(u, ts, a)
<1>1. Len(s) \in Nat /\ Len(u) \in Nat /\ Len(s) <= Len(u)
  BY DEF LegsStep
<1>2. \A k \in 1 .. Len(s) : k \in 1 .. Len(u)
  BY <1>1
<1>3. \A k \in 1 .. Len(u) : k \in 1 .. Len(s) \/ k > Len(s)
  BY <1>1
<1>4. \A k \in 1 .. Len(s) :
        u[k].kind = s[k].kind /\ u[k].turn = s[k].turn /\ (u[k].pc # "done" => s[k].pc # "done")
  BY DEF LegsStep, Alike, Moved, Kept
<1>5. ASSUME NEW k \in 1 .. Len(u) PROVE LegOwn(u[k], ts)
  <2>1. CASE k \in 1 .. Len(s)
    <3>1. Alike(s[k], u[k]) \/ Moved(s[k], u[k], ts)
      BY <2>1 DEF LegsStep
    <3>2. LegOwn(s[k], ts)
      BY <2>1 DEF LegsOwn
    <3>3. QED
      BY <3>1, <3>2, OwnAlike DEF Moved
  <2>2. CASE k > Len(s)
    BY <2>2 DEF LegsStep, Added
  <2>3. QED
    BY <1>3, <2>1, <2>2
<1>6. \A x : Foreign(u, x) => Foreign(s, x)
  BY <1>2, <1>4 DEF Foreign
<1>7. OneForeign(u, ts)
  BY <1>6 DEF OneForeign
<1>8. ASSUME NEW k \in 1 .. Len(u), Resuming(u[k]) PROVE LastTurn(u[k].turn, ts, a)
  <2>1. ~(k > Len(s))
    BY <1>8 DEF LegsStep, Added, Resuming
  <2>2. k \in 1 .. Len(s)
    BY <1>3, <2>1
  <2>3. Resuming(s[k]) /\ u[k].turn = s[k].turn
    BY <1>4, <1>8, <2>2 DEF Resuming
  <2>4. QED
    BY <2>2, <2>3 DEF ResumesOwn
<1>9. QED
  BY <1>5, <1>7, <1>8 DEF LegsOwn, ResumesOwn

\* A step of the client that begins no resume and touches no POST but its own.
LEMMA ClientOwn ==
  ASSUME IInv, Calm, LegsStep(legs, legs', turns), hook'.view = hook.view,
         UNCHANGED <<stops, loads, turns, saved>>,
         \A k \in posts : Alike(legs[k], legs'[k]),
         \A k \in posts' : k \in posts \/ (legs'[k].pc = "post" /\ legs'[k].turn = 0)
  PROVE  Calm'
<1>1. LegsOwn(legs', turns) /\ OneForeign(legs', turns) /\ ResumesOwn(legs', turns, saved[First])
  BY LegsStepOwn DEF Calm
<1>2. PostsOwn(legs', posts')
  BY DEF Calm, PostsOwn, Alike, Kept
<1>3. QED
  BY <1>1, <1>2 DEF Calm

\* A leg whose POST was answered, or that never posted, has none on its way.
LEMMA NotPosted ==
  ASSUME Calm, NEW l \in 1 .. Len(legs), legs[l].pc # "post" \/ legs[l].turn # 0
  PROVE  l \notin posts
BY DEF Calm, PostsOwn

\* The legs of a calm state are in order.
LEMMA OwnNow ==
  ASSUME IInv, OwnInv, ~faulty, ~crossed
  PROVE  /\ Calm /\ \A k \in 1 .. Len(legs) : LegOwn(legs[k], turns) /\ legs[k] \in LegT /\ LegOk(legs[k])
         /\ DOMAIN legs = 1 .. Len(legs) /\ Len(legs) \in Nat /\ hook \in HookT
BY PageNow DEF OwnInv, Calm, LegsOwn

\* One leg moves.
LEMMA MovedOwn ==
  ASSUME IInv, Calm, NEW l \in 1 .. Len(legs), NEW g, legs' = [legs EXCEPT ![l] = g],
         Moved(legs[l], g, turns), l \notin posts, hook'.view = hook.view,
         UNCHANGED <<posts, stops, loads, turns, saved>>
  PROVE  Calm'
<1>1. /\ Len(legs) \in Nat /\ legs \in Seq(LegT) /\ DOMAIN legs = 1 .. Len(legs)
      /\ \A k \in 1 .. Len(legs) : legs[k] \in LegT
  BY PageNow
<1>2. DOMAIN legs' = 1 .. Len(legs) /\ \A k \in 1 .. Len(legs) : legs'[k] = IF k = l THEN g ELSE legs[k]
  BY <1>1
<1>3. Len(legs') = Len(legs)
  <2> DEFINE u == [legs EXCEPT ![l] = g]
  <2>1. Len(u) = Len(legs)
    BY <1>1
  <2>2. QED
    BY <2>1
<1>4. \A k \in 1 .. Len(legs) : k # l => Alike(legs[k], legs'[k])
  BY <1>1, <1>2, KeptSame DEF Alike
<1>5. Moved(legs[l], legs'[l], turns)
  BY <1>2
<1>6. LegsStep(legs, legs', turns)
  BY <1>1, <1>3, <1>4, <1>5 DEF LegsStep
<1>7. posts \subseteq 1 .. Len(legs)
  BY DEF IInv
<1>8. QED
  BY <1>4, <1>6, <1>7, ClientOwn

\* The answer to a POST.
LEMMA ReplyOwn ==
  ASSUME IInv, OwnInv, NEW l \in DOMAIN legs, Reply(l), ~faulty', ~crossed'
  PROVE  Calm'
<1> DEFINE a == legs[l]
           g == [a EXCEPT !.pc = "read"]
<1>1. ~faulty /\ ~crossed /\ UNCHANGED <<posts, stops, loads, turns, saved>>
      /\ a.pc = "post" /\ ~a.aborted /\ a.turn # 0
  BY DEF Reply, At, env, server, bounds
<1>2. Calm /\ LegOwn(a, turns) /\ a \in LegT /\ LegOk(a) /\ l \in 1 .. Len(legs)
      /\ hook \in HookT
  BY <1>1, OwnNow
<1>3. legs' = [legs EXCEPT ![l] = g] /\ hook'.view = hook.view
  BY <1>2 DEF Reply, Becomes, Page, HookT
<1>4. /\ g.pc = "read" /\ g.kind = a.kind /\ g.session = a.session /\ g.turn = a.turn /\ g.known = a.known
      /\ g.cut = a.cut /\ g.aborted = a.aborted /\ g.text = a.text /\ g.early = a.early
  BY <1>2 DEF LegT
<1> HIDE DEF g
<1>5. LegOwn(g, turns)
  BY <1>1, <1>2, <1>4 DEF LegOwn, LegOk, Posters
<1>6. Moved(a, g, turns) /\ l \notin posts
  BY <1>1, <1>2, <1>4, <1>5, NotPosted DEF Moved
<1>7. QED
  BY <1>1, <1>2, <1>3, <1>6, MovedOwn

\* The server's first word.
LEMMA MessageStartOwn ==
  ASSUME IInv, OwnInv, NEW l \in DOMAIN legs, MessageStart(l), ~faulty', ~crossed'
  PROVE  Calm'
<1> DEFINE a == legs[l]
           g == [a EXCEPT !.known = TRUE]
<1>1. ~faulty /\ ~crossed /\ UNCHANGED <<hook, posts, stops, loads, turns, saved>>
      /\ a.pc = "read" /\ a.kind = "turn" /\ turns[a.turn].phase # "void"
      /\ legs' = [legs EXCEPT ![l] = g]
  BY DEF MessageStart, At, env, server, bounds, Phase
<1>2. Calm /\ LegOwn(a, turns) /\ a \in LegT /\ l \in 1 .. Len(legs)
  BY <1>1, OwnNow
<1>4. /\ g.pc = a.pc /\ g.kind = a.kind /\ g.session = a.session /\ g.turn = a.turn
      /\ g.cut = a.cut /\ g.aborted = a.aborted /\ g.text = a.text /\ g.early = a.early
  BY <1>2 DEF LegT
<1> HIDE DEF g
<1>5. LegOwn(g, turns)
  BY <1>1, <1>2, <1>4 DEF LegOwn, Posters
<1>6. Moved(a, g, turns) /\ l \notin posts
  BY <1>1, <1>2, <1>4, <1>5, NotPosted DEF Moved
<1>7. QED
  BY <1>1, <1>2, <1>6, MovedOwn

\* The last event of a stream.
LEMMA LastEventOwn ==
  ASSUME IInv, OwnInv, NEW l \in DOMAIN legs, LastEvent(l), ~faulty', ~crossed'
  PROVE  Calm'
<1> DEFINE a == legs[l]
           g == [a EXCEPT !.ended = TRUE, !.text = a.turn]
<1>1. /\ ~faulty /\ ~crossed /\ UNCHANGED <<posts, stops, loads, turns, saved>>
      /\ a.pc \in {"read", "rread"}
      /\ hook' = IF a.kind = "compare" THEN hook ELSE [hook EXCEPT !.shown = FALSE]
      /\ legs' = [legs EXCEPT ![l].ended = TRUE, ![l].text = legs[l].turn]
  BY DEF LastEvent, At, env, server, bounds
<1>2. Calm /\ LegOwn(a, turns) /\ a \in LegT /\ l \in 1 .. Len(legs) /\ hook \in HookT
  BY <1>1, OwnNow
<1>3. hook'.view = hook.view
  BY <1>1, <1>2 DEF HookT
<1>4. /\ g.pc = a.pc /\ g.kind = a.kind /\ g.session = a.session /\ g.turn = a.turn
      /\ g.cut = a.cut /\ g.aborted = a.aborted /\ g.text = a.turn /\ g.early = a.early
      /\ g.known = a.known
  BY <1>2 DEF LegT
<1>8. legs' = [legs EXCEPT ![l] = g]
  <2>1. [legs EXCEPT ![l].ended = TRUE, ![l].text = legs[l].turn] = [legs EXCEPT ![l] = g]
    BY Zenon
  <2>2. QED
    BY <1>1, <2>1, Zenon
<1> HIDE DEF g
<1>5. LegOwn(g, turns)
  BY <1>1, <1>2, <1>4 DEF LegOwn, Posters
<1>6. Moved(a, g, turns) /\ l \notin posts
  BY <1>1, <1>2, <1>4, <1>5, NotPosted DEF Moved
<1>7. QED
  BY <1>1, <1>2, <1>3, <1>6, <1>8, MovedOwn

\* The leg asks for its run: it is open, or over.
LEMMA ResumeOwn ==
  ASSUME IInv, OwnInv, NEW l \in DOMAIN legs, Resume(l), ~faulty', ~crossed'
  PROVE  Calm'
<1> DEFINE a == legs[l]
<1>1. ~crossed /\ UNCHANGED <<posts, stops, loads, turns, saved>> /\ a.pc = "drive"
  BY DEF Resume, At, env, server
<1>2. ~faulty
  BY DEF Resume, bounds, Spend, Fault
<1>3. Calm /\ LegOwn(a, turns) /\ a \in LegT /\ LegOk(a) /\ l \in 1 .. Len(legs) /\ hook \in HookT
  BY <1>1, <1>2, OwnNow
<1>4. a.kind = "resume" /\ l \notin posts
  BY <1>1, <1>3, NotPosted DEF LegOk, LegOwn, Streams, Posters
<1>5. ASSUME NEW x \in {"rread", "recover"}, NEW e \in BOOLEAN, NEW g, g = [a EXCEPT !.pc = x, !.early = e],
             a.early => e, x = "recover" => e \/ turns[a.turn].phase = "gone",
             legs' = [legs EXCEPT ![l] = g], hook'.view = hook.view
      PROVE  Calm'
  <2>1. /\ g.pc = x /\ g.kind = a.kind /\ g.session = a.session /\ g.turn = a.turn
        /\ g.cut = a.cut /\ g.aborted = a.aborted /\ g.text = a.text /\ g.early = e
        /\ g.known = a.known
    BY <1>3, <1>5 DEF LegT
  <2>2. x # "done" /\ x # "read" /\ x # "final" /\ a.pc # "done"
    BY <1>1
  <2>3. LegOwn(g, turns)
    BY <1>3, <1>4, <1>5, <2>1, <2>2 DEF LegOwn, Posters
  <2>4. Moved(a, g, turns)
    BY <2>1, <2>2, <2>3 DEF Moved
  <2>5. QED
    BY <1>1, <1>3, <1>4, <1>5, <2>4, MovedOwn
<1>6. CASE Becomes([Page EXCEPT !.legs[l].pc = "rread", !.hook.reader = l])
  <2> DEFINE e == a.early
             g == [a EXCEPT !.pc = "rread", !.early = e]
  <2>1. hook'.view = hook.view /\ legs' = [legs EXCEPT ![l] = [a EXCEPT !.pc = "rread"]]
    BY <1>3, <1>6 DEF Becomes, Page, HookT
  <2>2. [a EXCEPT !.pc = "rread"] = g /\ e \in BOOLEAN
    BY <1>3 DEF LegT
  <2> HIDE DEF g, e
  <2>3. QED
    BY <1>5, <2>1, <2>2 DEF g, e
<1>7. CASE Becomes([Page EXCEPT !.legs[l].pc = "recover", !.legs[l].early = @ \/ Phase(l) # "gone"])
  <2> DEFINE e == a.early \/ Phase(l) # "gone"
             g == [a EXCEPT !.pc = "recover", !.early = e]
             q == [Page EXCEPT !.legs[l].pc = "recover", !.legs[l].early = @ \/ Phase(l) # "gone"]
  <2>1. q.hook = hook /\ q.legs = [legs EXCEPT ![l].pc = "recover", ![l].early = @ \/ Phase(l) # "gone"]
    BY DEF Page
  <2>2. [legs EXCEPT ![l].pc = "recover", ![l].early = @ \/ Phase(l) # "gone"] = [legs EXCEPT ![l] = g]
    BY Zenon
  <2>3. hook' = q.hook /\ legs' = q.legs
    BY <1>7 DEF Becomes
  <2> HIDE DEF q, g
  <2>4. hook'.view = hook.view /\ legs' = [legs EXCEPT ![l] = g]
    BY <2>1, <2>2, <2>3, Zenon
  <2>5. e \in BOOLEAN /\ (a.early => e) /\ (e \/ turns[a.turn].phase = "gone")
    BY <1>3, <1>7 DEF LegT, Phase
  <2> HIDE DEF e
  <2>6. QED
    BY <1>5, <2>4, <2>5 DEF g
<1>8. QED
  <2>1. ~Fault
    BY DEF Fault
  <2>2. QED
    BY <1>6, <1>7, <2>1 DEF Resume

\* No leg is beside one that is alone with its refs.
LEMMA OthersDone ==
  ASSUME IInv, ~crossed, NEW l \in 1 .. Len(legs), legs[l].pc # "done", legs[l].kind # "compare",
         NEW k \in 1 .. Len(legs), k # l
  PROVE  legs[k].pc = "done"
<1>1. RefsOk(hook, legs) /\ LegOk(legs[l])
  BY PageNow
<1>2. Alone(legs, l) /\ legs[l].group = 0
  BY <1>1 DEF RefsOk, Follows, LegOk
<1>3. QED
  BY <1>2 DEF Alone

\* A column ends as it is.
LEMMA ColumnLegs ==
  ASSUME NEW p, IsPage(p), NEW l \in 1 .. Len(p.legs), p.legs[l].kind = "compare"
  PROVE  Finished(p, l).legs = EndedPage(p, l).legs
<1> DEFINE e == EndedPage(p, l)
           q == [e EXCEPT !.hook.streaming = FALSE, !.hook.shown = FALSE]
<1>1. DOMAIN e = {"hook", "legs"}
  BY EndedFacts DEF IsPage
<1>2. Finished(p, l) = IF Beside(p, l) # {} THEN e ELSE [q EXCEPT !.hook.owed = TRUE]
  BY DEF Finished, EndedPage
<1> HIDE DEF e
<1>3. QED
  BY <1>1, <1>2 DEF e

\* A leg g at l of page q, which is this one but for that, ends.
LEMMA FinishedStep ==
  ASSUME IInv, Calm, ~crossed, NEW l \in 1 .. Len(legs), NEW q, NEW g, Changed(Page, q, l, g),
         legs[l].pc # "done", g.kind = legs[l].kind, g.turn = legs[l].turn, q.hook.view = hook.view,
         LegOwn(Over(g), turns)
  PROVE  LET f == Finished(q, l)
         IN /\ LegsStep(legs, f.legs, turns) /\ f.hook.view = hook.view
            /\ \A k \in 1 .. Len(legs) : k # l => Alike(legs[k], f.legs[k])
            /\ \A k \in 1 .. Len(f.legs) : k > Len(legs) => f.legs[k].pc = "post" /\ f.legs[k].turn = 0
            /\ DOMAIN f.legs = 1 .. Len(f.legs)
<1> DEFINE f == Finished(q, l)
           e == EndedPage(q, l)
           n == Len(legs)
           w == NewLeg("turn", q.hook.view, 0)
<1>1. /\ IsPage(q) /\ Len(q.legs) = n /\ q.legs[l] = g /\ g \in LegT /\ n \in Nat
      /\ l \in 1 .. Len(q.legs) /\ \A k \in 1 .. n : k # l => q.legs[k] = legs[k]
  <2>1. IsPage(q) /\ Len(q.legs) = n /\ q.legs[l] = g /\ n \in Nat /\ l \in 1 .. Len(q.legs)
        /\ \A k \in 1 .. n : k # l => q.legs[k] = legs[k]
    BY PageNow DEF Changed
  <2>2. g \in LegT
    BY <2>1, PageLegs
  <2>3. QED
    BY <2>1, <2>2
<1>2. /\ IsPage(e) /\ e.hook = q.hook /\ Len(e.legs) = n
      /\ \A k \in 1 .. n : e.legs[k] = IF k = l THEN Over(g) ELSE legs[k]
  BY <1>1, EndedFacts
<1>3. Grown(e, f)
  BY <1>1, FinishedFacts
<1>4. g.kind = "compare" => f.legs = e.legs
  BY <1>1, ColumnLegs
<1>5. LegOwn(w, turns) /\ w.kind = "turn" /\ w.pc = "post" /\ w.turn = 0
  <2>1. q.hook.view = First
    BY DEF Calm
  <2>2. Len(turns) \in Nat
    BY LenProperties DEF IInv
  <2>3. 0 \in 0 .. Len(turns)
    BY <2>2
  <2>4. QED
    BY <2>1, <2>3 DEF NewLeg, LegOwn, Posters
<1>6. Over(g).pc = "done" /\ Over(g).kind = g.kind /\ Over(g).turn = g.turn
  BY <1>1, OverLeg
<1> HIDE DEF f, e, w
<1>7. /\ IsPage(f) /\ f.hook.view = hook.view /\ \A k \in 1 .. n : Kept(e.legs[k], f.legs[k])
      /\ Len(f.legs) = n \/ (Len(f.legs) = n + 1 /\ f.legs[n + 1] = w)
  BY <1>2, <1>3 DEF Grown, SameLine, w
<1>8. ASSUME NEW k \in 1 .. n, k # l PROVE Alike(legs[k], f.legs[k])
  <2>1. Kept(legs[k], f.legs[k])
    BY <1>2, <1>7, <1>8
  <2>2. CASE g.kind = "compare"
    <3>1. f.legs[k] = legs[k]
      BY <1>2, <1>4, <1>8, <2>2
    <3>2. QED
      BY <2>1, <3>1 DEF Alike
  <2>3. CASE g.kind # "compare"
    <3>1. legs[k].pc = "done"
      BY <1>8, <2>3, OthersDone
    <3>2. QED
      BY <2>1, <3>1 DEF Alike, Kept
  <2>4. QED
    BY <2>2, <2>3
<1>9. Moved(legs[l], f.legs[l], turns)
  <2>1. Kept(Over(g), f.legs[l])
    BY <1>2, <1>7
  <2>2. f.legs[l].pc = "done" /\ f.legs[l].kind = g.kind /\ f.legs[l].turn = g.turn
    BY <1>6, <2>1 DEF Kept
  <2>3. LegOwn(f.legs[l], turns)
    BY <2>1, <2>2, OwnKept
  <2>4. QED
    BY <2>2, <2>3 DEF Moved
<1>10. Len(f.legs) \in Nat /\ DOMAIN f.legs = 1 .. Len(f.legs) /\ n <= Len(f.legs)
  BY <1>1, <1>7, PageLegs
<1>11. ASSUME NEW k \in 1 .. Len(f.legs), k > n PROVE f.legs[k] = w
  <2>1. k = n + 1 /\ Len(f.legs) = n + 1
    BY <1>1, <1>7, <1>10, <1>11
  <2>2. QED
    BY <1>1, <1>7, <2>1
<1>12. LegsStep(legs, f.legs, turns)
  BY <1>1, <1>5, <1>8, <1>9, <1>10, <1>11 DEF LegsStep, Added
<1>13. QED
  BY <1>5, <1>7, <1>8, <1>10, <1>11, <1>12 DEF f

\* The step in which it ends.
LEMMA FinishedOwn ==
  ASSUME IInv, Calm, ~crossed, NEW l \in 1 .. Len(legs), NEW q, NEW g, Changed(Page, q, l, g),
         legs[l].pc # "done", g.kind = legs[l].kind, g.turn = legs[l].turn, q.hook.view = hook.view,
         LegOwn(Over(g), turns), l \notin posts, Ends(Finished(q, l)),
         UNCHANGED <<stops, loads, turns, saved>>
  PROVE  Calm'
<1> DEFINE f == Finished(q, l)
<1>1. /\ LegsStep(legs, f.legs, turns) /\ f.hook.view = hook.view
      /\ \A k \in 1 .. Len(legs) : k # l => Alike(legs[k], f.legs[k])
      /\ \A k \in 1 .. Len(f.legs) : k > Len(legs) => f.legs[k].pc = "post" /\ f.legs[k].turn = 0
      /\ DOMAIN f.legs = 1 .. Len(f.legs)
  BY FinishedStep
<1>2. hook' = f.hook /\ legs' = f.legs /\ posts' = posts \union (DOMAIN f.legs \ DOMAIN legs)
  BY DEF Ends, Becomes
<1> HIDE DEF f
<1>3. posts \subseteq 1 .. Len(legs) /\ DOMAIN legs = 1 .. Len(legs) /\ Len(legs) \in Nat
  BY PageNow DEF IInv
<1>4. \A k \in posts : Alike(legs[k], legs'[k])
  BY <1>1, <1>2, <1>3
<1>5. \A k \in posts' : k \in posts \/ (legs'[k].pc = "post" /\ legs'[k].turn = 0)
  <2>1. ASSUME NEW k \in posts', k \notin posts PROVE k \in 1 .. Len(f.legs) /\ k > Len(legs)
    <3>1. k \in DOMAIN f.legs /\ k \notin DOMAIN legs
      BY <1>2, <2>1
    <3>2. Len(f.legs) \in Nat
      BY <1>1 DEF LegsStep
    <3>3. QED
      BY <1>1, <1>3, <3>1, <3>2
  <2>2. QED
    BY <1>1, <1>2, <2>1
<1>6. QED
  BY <1>1, <1>2, <1>4, <1>5, ClientOwn

\* A leg that posted may end once its turn is shut, the others any time.
LEMMA OverOwn ==
  ASSUME NEW g \in LegT, NEW ts, LegOwn(g, ts), g.kind \in Posters => g.turn # 0 /\ Shut(ts, g.turn)
  PROVE  LegOwn(Over(g), ts)
<1>1. Over(g).early = g.early /\ Over(g).pc = "done"
  BY OverLeg DEF Over, LegT
<1>2. /\ Over(g).kind = g.kind /\ Over(g).session = g.session /\ Over(g).turn = g.turn
      /\ Over(g).known = g.known /\ Over(g).text = g.text
  BY OverLeg
<1>3. QED
  BY <1>1, <1>2 DEF LegOwn

\* A resumed leg asks once more.
LEMMA DrivenOwn ==
  ASSUME IInv, Calm, NEW l \in 1 .. Len(legs), NEW q, NEW g \in LegT, Changed(Page, q, l, g),
         legs[l].pc # "done", g.kind = "resume", g.kind = legs[l].kind, g.turn = legs[l].turn,
         LegOwn(g, turns), g.pc # "done", g.early \/ turns[g.turn].phase = "gone",
         q.hook.view = hook.view, l \notin posts, Ends(Driven(q, l)),
         UNCHANGED <<stops, loads, turns, saved>>
  PROVE  Calm'
<1> DEFINE d == Driven(q, l)
           h == [g EXCEPT !.pc = "final"]
           n == Len(legs)
<1>1. /\ IsPage(q) /\ Len(q.legs) = n /\ q.legs[l] = g /\ n \in Nat /\ q.legs \in Seq(LegT)
      /\ l \in 1 .. Len(q.legs) /\ \A k \in 1 .. n : k # l => q.legs[k] = legs[k]
  BY PageNow, PageLegs DEF Changed
<1>2. h.pc = "final" /\ h \in LegT
  BY DEF LegT, Pcs
<1>3. /\ h.kind = g.kind /\ h.session = g.session /\ h.turn = g.turn /\ h.known = g.known
      /\ h.cut = g.cut /\ h.aborted = g.aborted /\ h.text = g.text /\ h.early = g.early
  BY DEF LegT
<1>4. d.hook = q.hook /\ d.legs = [q.legs EXCEPT ![l] = h]
  BY <1>1 DEF Driven, IsPage
<1> HIDE DEF h, d
<1>5. LegOwn(h, turns)
  BY <1>2, <1>3 DEF LegOwn, Posters
<1>6. /\ d.legs \in Seq(LegT) /\ Len(d.legs) = n
      /\ \A k \in 1 .. n : d.legs[k] = IF k = l THEN h ELSE legs[k]
  BY <1>1, <1>2, <1>4, ExceptSeq
<1>7. hook' = d.hook /\ legs' = d.legs /\ posts' = posts \union (DOMAIN d.legs \ DOMAIN legs)
  BY DEF Ends, Becomes, d
<1>8. DOMAIN d.legs = 1 .. n /\ DOMAIN legs = 1 .. n /\ posts' = posts
      /\ \A k \in 1 .. n : legs[k] \in LegT
  BY <1>6, <1>7, LenProperties, PageNow
<1>9. \A k \in 1 .. n : k # l => Alike(legs[k], legs'[k])
  BY <1>6, <1>7, <1>8, KeptSame DEF Alike
<1>10. Moved(legs[l], legs'[l], turns)
  BY <1>3, <1>5, <1>6, <1>7 DEF Moved
<1>11. LegsStep(legs, legs', turns)
  BY <1>1, <1>6, <1>7, <1>9, <1>10 DEF LegsStep
<1>12. posts \subseteq 1 .. Len(legs)
  BY DEF IInv
<1>13. QED
  BY <1>4, <1>7, <1>8, <1>9, <1>11, <1>12, ClientOwn

\* Without a fault, a stream is over when its turn is, and was heard to its end unless it
\* never began.
LEMMA StreamEndsOwn ==
  ASSUME IInv, OwnInv, NEW l \in DOMAIN legs, StreamEnds(l), ~faulty', ~crossed'
  PROVE  Calm'
<1> DEFINE a == legs[l]
           b == [a EXCEPT !.cut = FALSE]
           p == Unread(Page, l)
<1>1. /\ ~crossed /\ UNCHANGED <<stops, loads, turns, saved>> /\ a.pc \in {"read", "rread"}
      /\ a.kind \in Streams
  BY DEF StreamEnds, At, server, Streams
<1>2. ~faulty /\ (a.cut \/ (turns[a.turn].phase = "gone" /\ a.ended) \/ turns[a.turn].phase = "void")
  BY DEF StreamEnds, bounds, Fault, Phase
<1>3. Calm /\ LegOwn(a, turns) /\ a \in LegT /\ LegOk(a) /\ l \in 1 .. Len(legs) /\ hook \in HookT
  BY <1>1, <1>2, OwnNow
<1>4. Shut(turns, a.turn) /\ (a.known => turns[a.turn].phase = "gone" /\ a.ended)
  BY <1>1, <1>2, <1>3 DEF LegOwn, Shut
<1>5. l \notin posts
  BY <1>1, <1>3, NotPosted
<1>6. \/ a.ended /\ Ends(Driven(p, l))
      \/ ~a.known /\ Ends(Finished(p, l))
  <2> DEFINE q1 == [p EXCEPT !.legs[l].pc = "drive"]
             q2 == [p EXCEPT !.legs[l].drops = a.drops + 1,
                             !.legs[l].pc = IF a.drops + 1 < MaxDrops THEN "drive" ELSE "recover"]
  <2> HIDE DEF p, q1, q2
  <2>1. Ends(IF a.ended THEN Driven(p, l) ELSE IF ~a.known THEN Finished(p, l)
             ELSE IF a.pc \in {"read"} THEN q1 ELSE q2)
    BY Zenon DEF StreamEnds, At, p, q1, q2
  <2>2. QED
    BY <1>4, <2>1
<1>7. /\ Changed(Page, p, l, b) /\ p.hook.view = hook.view /\ b \in LegT /\ Kept(a, b)
  <2>1. IsPage(Page) /\ l \in 1 .. Len(Page.legs) /\ LegOk(Page.legs[l]) /\ Page.hook = hook /\ Page.legs = legs
    BY <1>3, PageNow
  <2>2. /\ Changed(Page, p, l, [Page.legs[l] EXCEPT !.cut = FALSE]) /\ SameRefs(Page.hook, p.hook)
        /\ [Page.legs[l] EXCEPT !.cut = FALSE] \in LegT
        /\ Kept(Page.legs[l], [Page.legs[l] EXCEPT !.cut = FALSE])
    BY <2>1, UnreadFacts
  <2>3. QED
    BY <2>1, <2>2 DEF SameRefs
<1>8. b.cut = FALSE /\ b.aborted = a.aborted
  BY <1>3 DEF LegT
<1> HIDE DEF b, p
<1>9. LegOwn(b, turns) /\ b.kind = a.kind /\ b.turn = a.turn /\ b.pc = a.pc
  BY <1>3, <1>7, <1>8 DEF LegOwn, Kept
<1>10. ASSUME Ends(Finished(p, l)), a.kind = "turn" PROVE Calm'
  <2>1. LegOwn(Over(b), turns)
    <3>1. b.turn # 0
      BY <1>1, <1>9, <1>10 DEF LegOwn, Posters
    <3>2. QED
      BY <1>4, <1>7, <1>9, <3>1, OverOwn
  <2>2. a.pc # "done"
    BY <1>1
  <2>3. QED
    BY <1>1, <1>3, <1>5, <1>7, <1>9, <1>10, <2>1, <2>2, FinishedOwn
<1>11. CASE ~a.known /\ Ends(Finished(p, l))
  <2>1. a.kind = "turn"
    BY <1>1, <1>3, <1>11 DEF LegOwn, Streams
  <2>2. QED
    BY <1>10, <1>11, <2>1
<1>12. CASE a.ended /\ Ends(Driven(p, l)) /\ a.kind = "turn"
  <2>1. p.legs[l] = b
    BY <1>3, <1>7, PageNow DEF Changed
  <2>2. Driven(p, l) = Finished(p, l)
    BY <1>9, <1>12, <2>1 DEF Driven
  <2>3. QED
    BY <1>10, <1>12, <2>2
<1>13. CASE a.ended /\ Ends(Driven(p, l)) /\ a.kind = "resume"
  <2>1. turns[b.turn].phase = "gone"
    BY <1>3, <1>4, <1>9, <1>13 DEF LegOwn
  <2>2. a.pc # "done" /\ b.pc # "done"
    BY <1>1, <1>9
  <2>3. QED
    BY <1>1, <1>3, <1>5, <1>7, <1>9, <1>13, <2>1, <2>2, DrivenOwn
<1>14. QED
  BY <1>1, <1>6, <1>11, <1>12, <1>13 DEF Streams

\* What is found once the run is closed is the turn's own answer.
LEMMA TextIsOwn ==
  ASSUME Calm, NEW l \in 1 .. Len(legs), LegOwn(legs[l], turns), Resuming(legs[l]),
         legs[l].pc \in {"recover", "final"}, ~legs[l].early, NEW t \in Texts(l)
  PROVE  t = 0 \/ t = legs[l].turn
<1>1. LastTurn(legs[l].turn, turns, saved[First]) /\ legs[l].session = First
  BY DEF Calm, ResumesOwn, LegOwn
<1>2. Shut(turns, legs[l].turn)
  BY DEF LegOwn, Shut
<1>3. Last(saved[First]) = legs[l].turn
  BY <1>1, <1>2 DEF LastTurn
<1>4. legs[l].text = 0 \/ legs[l].text = legs[l].turn
  BY DEF LegOwn
<1>5. QED
  BY <1>1, <1>3, <1>4 DEF Texts

\* A leg that recovers or asks once more is one that resumed.
LEMMA RecoversOwn ==
  ASSUME NEW a \in LegT, LegOwn(a, turns), LegOk(a), a.pc \in {"recover", "final"}
  PROVE  Resuming(a) /\ a.kind = "resume" /\ (a.early \/ turns[a.turn].phase = "gone")
BY DEF LegOwn, LegOk, Resuming, Streams, Posters

\* The leg looks for its answer.
LEMMA RecoverOwn ==
  ASSUME IInv, OwnInv, NEW l \in DOMAIN legs, Recover(l), ~faulty', ~crossed'
  PROVE  Calm'
<1> DEFINE a == legs[l]
<1>1. ~crossed /\ UNCHANGED <<stops, loads, turns, saved>> /\ a.pc = "recover"
  BY DEF Recover, At, server
<1>2. ~faulty
  BY DEF Recover, bounds, Fault
<1>3. Calm /\ LegOwn(a, turns) /\ a \in LegT /\ LegOk(a) /\ l \in 1 .. Len(legs)
  BY <1>1, <1>2, OwnNow
<1>4. Resuming(a) /\ a.kind = "resume" /\ (a.early \/ turns[a.turn].phase = "gone") /\ l \notin posts
  BY <1>1, <1>3, RecoversOwn, NotPosted
<1>5. ASSUME NEW q, NEW g \in LegT, Ends(Driven(q, l)), Changed(Page, q, l, g), q.hook.view = hook.view,
             g.pc = a.pc, g.kind = a.kind, g.turn = a.turn, g.session = a.session, g.cut = a.cut,
             g.aborted = a.aborted, g.early = a.early, g.known = a.known,
             g.text = a.text \/ (~a.early => g.text = 0 \/ g.text = a.turn)
      PROVE  Calm'
  <2>1. LegOwn(g, turns)
    BY <1>1, <1>3, <1>4, <1>5 DEF LegOwn, Posters
  <2>2. a.pc # "done" /\ g.pc # "done" /\ (g.early \/ turns[g.turn].phase = "gone")
    BY <1>1, <1>4, <1>5
  <2>3. QED
    BY <1>1, <1>3, <1>4, <1>5, <2>1, <2>2, DrivenOwn
<1>6. ASSUME NEW t \in Texts(l), t \in Nat, Ends(Driven([Page EXCEPT !.legs[l].ended = TRUE, !.legs[l].text = t], l))
      PROVE  Calm'
  <2> DEFINE q == [Page EXCEPT !.legs[l].ended = TRUE, !.legs[l].text = t]
             g == [a EXCEPT !.ended = TRUE, !.text = t]
  <2>1. q.hook = hook /\ DOMAIN q = {"hook", "legs"}
        /\ q.legs = [legs EXCEPT ![l].ended = TRUE, ![l].text = t]
    BY DEF Page
  <2>2. [legs EXCEPT ![l].ended = TRUE, ![l].text = t] = [legs EXCEPT ![l] = g]
    BY Zenon
  <2>3. /\ g \in LegT /\ g.pc = a.pc /\ g.kind = a.kind /\ g.turn = a.turn /\ g.session = a.session
        /\ g.cut = a.cut /\ g.aborted = a.aborted /\ g.early = a.early /\ g.known = a.known /\ g.text = t
    BY <1>3, <1>6 DEF LegT
  <2> HIDE DEF q, g
  <2>4. q.legs = [legs EXCEPT ![l] = g]
    BY <2>1, <2>2, Zenon
  <2>5. Changed(Page, q, l, g) /\ q.hook.view = hook.view
    BY <1>3, <2>1, <2>3, <2>4, PageNow, LegChanges DEF SameRefs
  <2>6. ~a.early => g.text = 0 \/ g.text = a.turn
    BY <1>1, <1>3, <1>4, <1>6, <2>3, TextIsOwn
  <2>7. QED
    BY <1>5, <1>6, <2>3, <2>5, <2>6 DEF q
<1>7. CASE Ends(Driven([Page EXCEPT !.legs[l].error = TRUE], l))
  <2> DEFINE q == [Page EXCEPT !.legs[l].error = TRUE]
             g == [a EXCEPT !.error = TRUE]
  <2>1. q.hook = hook /\ DOMAIN q = {"hook", "legs"} /\ q.legs = [legs EXCEPT ![l] = g]
    BY DEF Page
  <2>2. /\ g \in LegT /\ g.pc = a.pc /\ g.kind = a.kind /\ g.turn = a.turn /\ g.session = a.session
        /\ g.cut = a.cut /\ g.aborted = a.aborted /\ g.early = a.early /\ g.known = a.known /\ g.text = a.text
    BY <1>3 DEF LegT
  <2> HIDE DEF q, g
  <2>3. Changed(Page, q, l, g) /\ q.hook.view = hook.view
    BY <1>3, <2>1, <2>2, PageNow, LegChanges DEF SameRefs
  <2>4. QED
    BY <1>5, <1>7, <2>2, <2>3 DEF q
<1>8. PICK ok \in BOOLEAN :
        IF Found(l, ok)
        THEN \E t \in Texts(l) : Ends(Driven([Page EXCEPT !.legs[l].ended = TRUE, !.legs[l].text = t], l))
        ELSE Ends(Driven([Page EXCEPT !.legs[l].error = TRUE], l))
  BY Zenon DEF Recover
<1>9. CASE Found(l, ok)
  <2>1. PICK t \in Texts(l) : Ends(Driven([Page EXCEPT !.legs[l].ended = TRUE, !.legs[l].text = t], l))
    BY <1>8, <1>9, Zenon
  <2>2. t \in Nat
    BY <1>3, <1>9, TextIsTurn DEF Found
  <2>3. QED
    BY <1>6, <2>1, <2>2, Zenon
<1>10. CASE ~Found(l, ok)
  BY <1>7, <1>8, <1>10, Zenon
<1>11. QED
  BY <1>9, <1>10

\* A resumed leg looks once more.
LEMMA RecoverOnceMoreOwn ==
  ASSUME IInv, OwnInv, NEW l \in DOMAIN legs, RecoverOnceMore(l), ~faulty', ~crossed'
  PROVE  Calm'
<1> DEFINE a == legs[l]
<1>1. ~crossed /\ UNCHANGED <<stops, loads, turns, saved>> /\ a.pc = "final"
  BY DEF RecoverOnceMore, At, server
<1>2. ~faulty
  BY DEF RecoverOnceMore, bounds, Fault
<1>3. Calm /\ LegOwn(a, turns) /\ a \in LegT /\ LegOk(a) /\ l \in 1 .. Len(legs)
  BY <1>1, <1>2, OwnNow
<1>4. Resuming(a) /\ a.kind = "resume" /\ l \notin posts
  BY <1>1, <1>3, RecoversOwn, NotPosted
<1>5. ASSUME NEW q, NEW g \in LegT, Ends(Finished(q, l)), Changed(Page, q, l, g), q.hook.view = hook.view,
             g.kind = a.kind, g.turn = a.turn, LegOwn(g, turns)
      PROVE  Calm'
  <2>1. g.kind \notin Posters /\ a.pc # "done"
    BY <1>1, <1>4, <1>5 DEF Posters
  <2>2. LegOwn(Over(g), turns)
    BY <1>5, <2>1, OverOwn
  <2>3. QED
    BY <1>1, <1>3, <1>4, <1>5, <2>1, <2>2, FinishedOwn
<1>6. ASSUME NEW t \in Texts(l), t \in Nat, Ends(Finished([Page EXCEPT !.legs[l].text = t], l))
      PROVE  Calm'
  <2> DEFINE q == [Page EXCEPT !.legs[l].text = t]
             g == [a EXCEPT !.text = t]
  <2>1. q.hook = hook /\ DOMAIN q = {"hook", "legs"} /\ q.legs = [legs EXCEPT ![l] = g]
    BY DEF Page
  <2>2. /\ g \in LegT /\ g.pc = a.pc /\ g.kind = a.kind /\ g.turn = a.turn /\ g.session = a.session
        /\ g.cut = a.cut /\ g.aborted = a.aborted /\ g.early = a.early /\ g.known = a.known /\ g.text = t
    BY <1>3, <1>6 DEF LegT
  <2> HIDE DEF q, g
  <2>3. Changed(Page, q, l, g) /\ q.hook.view = hook.view
    BY <1>3, <2>1, <2>2, PageNow, LegChanges DEF SameRefs
  <2>4. ~a.early => g.text = 0 \/ g.text = a.turn
    BY <1>1, <1>3, <1>4, <1>6, <2>2, TextIsOwn
  <2>5. LegOwn(g, turns)
    BY <1>1, <1>3, <1>4, <2>2, <2>4 DEF LegOwn, Posters
  <2>6. QED
    BY <1>5, <1>6, <2>2, <2>3, <2>5 DEF q
<1>7. CASE Ends(Finished(Page, l))
  <2>1. Changed(Page, Page, l, a) /\ Page.hook.view = hook.view
    BY PageNow DEF Changed
  <2>2. QED
    BY <1>3, <1>5, <1>7, <2>1
<1>8. PICK ok \in BOOLEAN :
        IF Found(l, ok) THEN \E t \in Texts(l) : Ends(Finished([Page EXCEPT !.legs[l].text = t], l))
        ELSE Ends(Finished(Page, l))
  BY Zenon DEF RecoverOnceMore
<1>9. CASE Found(l, ok)
  <2>1. PICK t \in Texts(l) : Ends(Finished([Page EXCEPT !.legs[l].text = t], l))
    BY <1>8, <1>9, Zenon
  <2>2. t \in Nat
    BY <1>3, <1>9, TextIsTurn DEF Found
  <2>3. QED
    BY <1>6, <2>1, <2>2, Zenon
<1>10. CASE ~Found(l, ok)
  BY <1>7, <1>8, <1>10, Zenon
<1>11. QED
  BY <1>9, <1>10

\* A column ends with its turn.
LEMMA ColumnEndsOwn ==
  ASSUME IInv, OwnInv, NEW l \in DOMAIN legs, ColumnEnds(l), ~faulty', ~crossed'
  PROVE  Calm'
<1> DEFINE a == legs[l]
           q == [Page EXCEPT !.legs[l].error = FALSE]
           g == [a EXCEPT !.error = FALSE]
<1>1. ~crossed /\ UNCHANGED <<stops, loads, turns, saved>> /\ a.pc = "read" /\ a.kind = "compare"
  BY DEF ColumnEnds, At, server
<1>2. PICK broken \in BOOLEAN :
        /\ IF broken THEN Fault
           ELSE (Phase(l) = "void" \/ (Phase(l) = "gone" /\ legs[l].ended)) /\ UNCHANGED bounds
        /\ \E shown \in {FALSE, broken} : Ends(Finished([Page EXCEPT !.legs[l].error = shown], l))
  BY Zenon DEF ColumnEnds
<1>3. ~broken /\ ~faulty /\ Shut(turns, a.turn)
  BY <1>2 DEF Fault, bounds, Phase, Shut
<1>4. Ends(Finished(q, l))
  <2>1. PICK shown \in {FALSE, broken} : Ends(Finished([Page EXCEPT !.legs[l].error = shown], l))
    BY <1>2, Zenon
  <2>2. shown = FALSE
    BY <1>3, <2>1
  <2>3. QED
    BY <2>1, <2>2, Zenon
<1>5. Calm /\ LegOwn(a, turns) /\ a \in LegT /\ l \in 1 .. Len(legs)
  BY <1>1, <1>3, OwnNow
<1>6. q.hook = hook /\ DOMAIN q = {"hook", "legs"} /\ q.legs = [legs EXCEPT ![l] = g]
  BY DEF Page
<1>7. /\ g \in LegT /\ g.pc = a.pc /\ g.kind = a.kind /\ g.turn = a.turn /\ g.session = a.session
      /\ g.cut = a.cut /\ g.aborted = a.aborted /\ g.early = a.early /\ g.known = a.known /\ g.text = a.text
  BY <1>5 DEF LegT
<1> HIDE DEF q, g
<1>8. Changed(Page, q, l, g) /\ q.hook.view = hook.view
  BY <1>5, <1>6, <1>7, PageNow, LegChanges DEF SameRefs
<1>9. LegOwn(g, turns) /\ g.turn # 0
  BY <1>1, <1>5, <1>7 DEF LegOwn, Posters
<1>10. LegOwn(Over(g), turns)
  BY <1>3, <1>7, <1>9, OverOwn
<1>11. l \notin posts /\ a.pc # "done"
  BY <1>1, <1>5, NotPosted
<1>12. QED
  BY <1>1, <1>4, <1>5, <1>7, <1>8, <1>10, <1>11, FinishedOwn

\* A refused continue ends.
LEMMA ContinueEndsOwn ==
  ASSUME IInv, OwnInv, NEW l \in DOMAIN legs, ContinueEnds(l), ~faulty', ~crossed'
  PROVE  Calm'
<1> DEFINE a == legs[l]
<1>1. /\ ~crossed /\ ~faulty /\ UNCHANGED <<stops, loads, turns, saved>> /\ a.pc = "read" /\ a.kind = "continue"
      /\ Ends(Finished(Page, l))
  BY DEF ContinueEnds, At, server, bounds
<1>2. Calm /\ LegOwn(a, turns) /\ a \in LegT /\ l \in 1 .. Len(legs)
  BY <1>1, OwnNow
<1>3. Changed(Page, Page, l, a) /\ Page.hook.view = hook.view
  BY PageNow DEF Changed
<1>4. LegOwn(Over(a), turns)
  BY <1>1, <1>2, OverOwn DEF Posters
<1>5. l \notin posts /\ a.pc # "done"
  BY <1>1, <1>2, NotPosted
<1>6. QED
  BY <1>1, <1>2, <1>3, <1>4, <1>5, FinishedOwn

\* Nothing unwinds: no leg under way is aborted.
LEMMA UnwindOwn ==
  ASSUME IInv, OwnInv, NEW l \in DOMAIN legs, Unwind(l), ~faulty', ~crossed'
  PROVE  Calm'
<1>1. ~crossed /\ ~faulty /\ legs[l].pc \in {"post", "read", "rread", "drive"} /\ legs[l].aborted
  BY DEF Unwind, At, bounds
<1>2. LegOwn(legs[l], turns)
  BY <1>1, OwnNow
<1>3. QED
  BY <1>1, <1>2 DEF LegOwn

\* The steps of a leg.
LEMMA LegStepsOwn ==
  ASSUME IInv, OwnInv, NEW l \in DOMAIN legs, Leg(l), ~faulty', ~crossed'
  PROVE  Calm'
<1>1. ~PostFails(l)
  BY DEF PostFails, Fault
<1>2. QED
  BY <1>1, ReplyOwn, MessageStartOwn, LastEventOwn, StreamEndsOwn, ResumeOwn, RecoverOwn,
     RecoverOnceMoreOwn, ColumnEndsOwn, ContinueEndsOwn, UnwindOwn DEF Leg

\* A leg begins on a page where none is under way.
LEMMA BeginsOwn ==
  ASSUME IInv, Calm, \A k \in 1 .. Len(legs) : legs[k].pc = "done", NEW b, Becomes(b), IsPage(b),
         Len(b.legs) = Len(legs) + 1, \A k \in 1 .. Len(legs) : Kept(legs[k], b.legs[k]),
         NEW w, b.legs[Len(legs) + 1] = w, Added(w, turns), b.hook.view = hook.view,
         posts' = posts \/ (posts' = posts \union {Len(legs) + 1} /\ w.pc = "post" /\ w.turn = 0),
         UNCHANGED <<stops, loads, turns, saved>>
  PROVE  Calm'
<1> DEFINE n == Len(legs)
<1>1. hook' = b.hook /\ legs' = b.legs /\ n \in Nat /\ posts \subseteq 1 .. n /\ Len(b.legs) = n + 1
  BY PageNow DEF Becomes, IInv
<1>2. \A k \in 1 .. n : Alike(legs[k], legs'[k])
  BY <1>1 DEF Alike, Kept
<1>3. \A k \in 1 .. Len(legs') : k > n => k = n + 1
  BY <1>1
<1>4. LegsStep(legs, legs', turns)
  BY <1>1, <1>2, <1>3 DEF LegsStep
<1>5. \A k \in posts' : k \in posts \/ (legs'[k].pc = "post" /\ legs'[k].turn = 0)
  BY <1>1
<1>6. QED
  BY <1>1, <1>2, <1>4, <1>5, ClientOwn

\* A leg that begins, and is no resume, is in order.
LEMMA NewLegOwn ==
  ASSUME IInv, NEW kind \in {"turn", "continue", "compare"}
  PROVE  /\ Added(NewLeg(kind, First, 0), turns) /\ NewLeg(kind, First, 0).turn = 0
         /\ kind # "continue" => NewLeg(kind, First, 0).pc = "post"
<1>1. Len(turns) \in Nat
  BY LenProperties DEF IInv
<1>2. 0 \in 0 .. Len(turns)
  BY <1>1
<1>3. QED
  BY <1>2 DEF NewLeg, LegOwn, Added, Posters

\* A prompt is asked.
LEMMA SendOwn ==
  ASSUME IInv, OwnInv, Send, ~faulty', ~crossed'
  PROVE  Calm'
<1> DEFINE m == hook.asked + 1
           p == [Page EXCEPT !.hook.asked = m]
           n == Len(legs)
<1>1. /\ ~faulty /\ ~crossed /\ UNCHANGED <<stops, loads, turns, saved>>
      /\ Becomes(IF hook.streaming THEN [p EXCEPT !.hook.queue = Append(@, m)] ELSE Dispatched(p, m))
      /\ posts' = IF hook.streaming THEN posts ELSE posts \union {Len(legs) + 1}
  BY DEF Send, server, bounds
<1>2. Calm /\ hook \in HookT /\ n \in Nat /\ RefsOk(hook, legs) /\ IsPage(Page) /\ m \in Nat
  <2>1. Calm /\ hook \in HookT /\ n \in Nat /\ RefsOk(hook, legs) /\ IsPage(Page)
    BY <1>1, OwnNow, PageNow
  <2>2. QED
    BY <2>1 DEF HookT
<1>3. p.hook = [hook EXCEPT !.asked = m] /\ p.legs = legs /\ DOMAIN p = {"hook", "legs"}
  BY DEF Page
<1> HIDE DEF p
<1>4. /\ p.hook \in HookT /\ p.hook.view = hook.view /\ p.hook.abort = hook.abort
      /\ p.hook.reader = hook.reader
  BY <1>2, <1>3 DEF HookT
<1>5. CASE hook.streaming
  <2>1. posts' = posts /\ Becomes([p EXCEPT !.hook.queue = Append(@, m)])
    BY <1>1, <1>5
  <2>2. legs' = legs /\ hook'.view = hook.view
    BY <1>3, <1>4, <2>1 DEF Becomes, HookT
  <2>3. QED
    BY <1>1, <1>2, <2>1, <2>2 DEF Calm
<1>6. CASE ~hook.streaming
  <2> DEFINE d == Dispatched(p, m)
             w == NewLeg("turn", hook.view, 0)
  <2>1. posts' = posts \union {Len(legs) + 1} /\ Becomes(d)
    BY <1>1, <1>6
  <2>2. \A k \in 1 .. n : legs[k].pc = "done"
    BY <1>2, <1>6 DEF RefsOk, Follows
  <2>3. IsPage(p)
    BY <1>2, <1>3, <1>4, PageNow DEF IsPage
  <2>4. /\ IsPage(d) /\ Len(d.legs) = n + 1 /\ d.legs[n + 1] = w
        /\ \A k \in 1 .. n : Kept(legs[k], d.legs[k])
        /\ d.hook = Holding(Sent(p.hook, m), n + 1, ReaderLeft(p.hook))
    BY <1>2, <1>3, <1>4, <2>3, DispatchedFacts
  <2> HIDE DEF d
  <2>5. d.hook.view = hook.view
    <3>1. Sent(p.hook, m).view = hook.view /\ Sent(p.hook, m) \in HookT
      BY <1>2, <1>4, HookSent
    <3>2. QED
      BY <2>4, <3>1 DEF Holding, HookT
  <2>6. hook.view = First
    BY <1>2 DEF Calm
  <2>7. Added(w, turns) /\ w.pc = "post" /\ w.turn = 0
    BY <2>6, NewLegOwn
  <2> HIDE DEF w
  <2>8. QED
    BY <1>1, <1>2, <2>1, <2>2, <2>4, <2>5, <2>7, BeginsOwn
<1>7. QED
  BY <1>5, <1>6

\* An edit, another answer or a continue, where nothing is under way.
LEMMA BegunOwn ==
  ASSUME IInv, OwnInv, ~faulty, NEW kind \in {"turn", "continue"}, ~Crossing,
         Becomes(Begun(Page, NewLeg(kind, hook.view, 0))),
         posts' = IF kind = "turn" THEN posts \union {Len(legs) + 1} ELSE posts,
         UNCHANGED <<stops, loads, turns, saved>>
  PROVE  Calm'
<1> DEFINE w == NewLeg(kind, hook.view, 0)
           b == Begun(Page, w)
           n == Len(legs)
<1>1. ~crossed /\ \A l \in DOMAIN legs : legs[l].pc = "done"
  BY DEF Crossing, Done
<1>2. Calm /\ hook \in HookT /\ n \in Nat /\ DOMAIN legs = 1 .. n /\ IsPage(Page) /\ Page.legs = legs
      /\ Page.hook = hook
  BY <1>1, OwnNow, PageNow
<1>3. hook.view = First
  BY <1>2 DEF Calm
<1>4. Added(w, turns) /\ w.turn = 0 /\ (kind = "turn" => w.pc = "post")
  BY <1>3, NewLegOwn
<1>5. w \in LegT
  BY <1>2, NewLegT DEF HookT, Kinds
<1> HIDE DEF w
<1>6. /\ IsPage(b) /\ Len(b.legs) = n + 1 /\ \A k \in 1 .. n : Kept(legs[k], b.legs[k])
      /\ b.legs[n + 1] = w /\ b.hook = Holding(hook, n + 1, ReaderLeft(hook))
  BY <1>2, <1>5, BegunFacts
<1> HIDE DEF b
<1>7. b.hook.view = hook.view
  BY <1>2, <1>6 DEF Holding, HookT
<1>8. Becomes(b)
  BY DEF b, w
<1>9. posts' = posts \/ (posts' = posts \union {n + 1} /\ w.pc = "post" /\ w.turn = 0)
  BY <1>4
<1>10. QED
  BY <1>1, <1>2, <1>4, <1>6, <1>7, <1>8, <1>9, BeginsOwn

\* The columns of a comparison, where nothing is under way.
LEMMA CompareOwn ==
  ASSUME IInv, OwnInv, NEW n \in 1 .. 2, Compare(n), ~faulty', ~crossed'
  PROVE  Calm'
<1> DEFINE m == Len(legs)
           a == NewLeg("compare", hook.view, 0)
           g == [a EXCEPT !.group = m + 1]
           v == [c \in 1 .. n |-> g]
<1>1. /\ legs' = legs \o v /\ posts' = posts \union (m + 1 .. Len(legs'))
      /\ hook' = [hook EXCEPT !.streaming = TRUE, !.shown = TRUE] /\ ~crossed /\ ~faulty
      /\ UNCHANGED <<stops, loads, turns, saved>>
  BY DEF Compare, server, Spend
<1>2. /\ Calm /\ hook \in HookT /\ m \in Nat /\ legs \in Seq(LegT)
      /\ \A k \in 1 .. m : legs[k] \in LegT
  BY <1>1, OwnNow, PageNow
<1>3. hook.view = First /\ hook'.view = hook.view
  BY <1>1, <1>2 DEF Calm, HookT
<1>4. a \in LegT /\ Added(a, turns) /\ a.turn = 0 /\ a.pc = "post"
  BY <1>2, <1>3, NewLegT, NewLegOwn DEF HookT, Kinds
<1> HIDE DEF a
<1>5. g \in LegT /\ Added(g, turns) /\ g.turn = 0 /\ g.pc = "post"
  <2>1. /\ g.kind = a.kind /\ g.session = a.session /\ g.turn = a.turn /\ g.pc = a.pc /\ g.known = a.known
        /\ g.cut = a.cut /\ g.aborted = a.aborted /\ g.text = a.text /\ g.early = a.early
    BY <1>4 DEF LegT
  <2>2. g \in LegT
    <3>1. m + 1 \in Nat
      BY <1>2
    <3> HIDE DEF m
    <3>2. QED
      BY <1>4, <3>1 DEF LegT
  <2> HIDE DEF g
  <2>3. QED
    BY <1>4, <2>1, <2>2 DEF Added, LegOwn
<1> HIDE DEF g
<1>6. v \in Seq(LegT) /\ Len(v) = n /\ \A c \in 1 .. n : v[c] = g
  <2>1. n \in Nat /\ v \in [1 .. n -> LegT]
    BY <1>5
  <2>2. QED
    BY <2>1, FunctionIsSeq
<1> HIDE DEF v
<1>7. /\ Len(legs') = m + n
      /\ \A k \in 1 .. m + n : legs'[k] = IF k <= m THEN legs[k] ELSE g
  <2>1. /\ Len(legs \o v) = m + Len(v)
        /\ \A k \in 1 .. m + Len(v) : (legs \o v)[k] = IF k <= m THEN legs[k] ELSE v[k - m]
    BY <1>2, <1>6, ConcatProperties
  <2>2. ASSUME NEW k \in 1 .. m + n, ~(k <= m) PROVE v[k - m] = g
    BY <1>2, <1>6, <2>2
  <2>3. QED
    BY <1>1, <1>6, <2>1, <2>2
<1>8. \A k \in 1 .. m : Alike(legs[k], legs'[k])
  <2>1. ASSUME NEW k \in 1 .. m PROVE legs'[k] = legs[k] /\ legs[k] \in LegT
    <3>1. k \in 1 .. m + n /\ k <= m
      BY <1>2
    <3>2. QED
      BY <1>2, <1>7, <3>1
  <2>2. QED
    BY <2>1, KeptSame DEF Alike
<1>9. \A k \in 1 .. Len(legs') : k > m => legs'[k] = g
  BY <1>2, <1>7
<1>10. LegsStep(legs, legs', turns)
  <2>1. m + n \in Nat /\ m <= m + n
    BY <1>2
  <2>2. QED
    BY <1>2, <1>5, <1>7, <1>8, <1>9, <2>1 DEF LegsStep
<1>11. posts \subseteq 1 .. m
  BY DEF IInv
<1>12. \A k \in posts' : k \in posts \/ legs'[k] = g
  <2>1. \A k \in m + 1 .. Len(legs') : k \in 1 .. Len(legs') /\ k > m
    BY <1>2, <1>7
  <2>2. QED
    BY <1>1, <1>9, <2>1
<1>13. QED
  BY <1>1, <1>2, <1>3, <1>5, <1>8, <1>10, <1>11, <1>12, ClientOwn

\* The steps of the user.
LEMMA UserOwn ==
  ASSUME IInv, OwnInv, User, ~faulty', ~crossed'
  PROVE  Calm'
<1>1. CASE Again
  <2>1. /\ Becomes(Begun(Page, NewLeg("turn", hook.view, 0))) /\ crossed' = Crossing
        /\ posts' = posts \union {Len(legs) + 1} /\ UNCHANGED <<stops, loads, turns, saved>> /\ ~faulty
    BY <1>1 DEF Again, server, Crossing, Spend
  <2>2. QED
    BY <2>1, BegunOwn
<1>2. CASE Continue
  <2>1. /\ Becomes(Begun(Page, NewLeg("continue", hook.view, 0))) /\ crossed' = Crossing
        /\ UNCHANGED <<posts, stops, loads, turns, saved>> /\ ~faulty
    BY <1>2 DEF Continue, server, Crossing, Spend
  <2>2. QED
    BY <2>1, BegunOwn
<1>3. ASSUME NEW i \in DOMAIN hook.queue, RemoveQueued(i) PROVE Calm'
  <2>1. /\ hook' = [hook EXCEPT !.queue = RemoveAt(hook.queue, i), !.removed = @ \union {hook.queue[i]}]
        /\ ~faulty /\ ~crossed /\ UNCHANGED <<legs, posts, stops, loads, turns, saved>>
    BY <1>3 DEF RemoveQueued, server, Spend
  <2>2. Calm /\ hook \in HookT
    BY <2>1, OwnNow
  <2>3. hook'.view = hook.view
    BY <2>1, <2>2 DEF HookT
  <2>4. QED
    BY <2>1, <2>2, <2>3 DEF Calm
<1>4. CASE \E n \in 1 .. 2 : Compare(n)
  BY <1>4, CompareOwn
<1>5. CASE Send
  BY <1>5, SendOwn
<1>6. ~StopButton /\ \A s \in Sessions : ~SwitchSession(s)
  BY DEF StopButton, SwitchSession
<1>7. QED
  BY <1>1, <1>2, <1>3, <1>4, <1>5, <1>6 DEF User

\* The turns go on: what is over stays over.
Onward(ts, u) ==
  /\ Len(ts) \in Nat /\ Len(u) \in Nat /\ Len(ts) <= Len(u)
  /\ \A x \in 1 .. Len(ts) :
       /\ u[x].session = ts[x].session
       /\ ts[x].phase \in {"gone", "void"} => u[x].phase = ts[x].phase

\* A leg stays in order, unless its turn is declared void and it knows it.
LEMMA OwnOnward ==
  ASSUME NEW ts, NEW u, Onward(ts, u), NEW g, g.turn \in Nat, LegOwn(g, ts), LegOk(g),
         g.known => u[g.turn].phase # "void"
  PROVE  LegOwn(g, u)
<1> DEFINE t == g.turn
           n == Len(ts)
           m == Len(u)
<1>1. n \in Nat /\ m \in Nat /\ n <= m /\ t \in 0 .. n
  BY DEF Onward, LegOwn
<1>2. t \in 0 .. m /\ (t # 0 => t \in 1 .. n)
  <2> HIDE DEF n, m, t
  <2>1. QED
    BY <1>1
<1>3. t # 0 /\ ts[t].phase \in {"gone", "void"} => u[t].phase = ts[t].phase
  BY <1>2 DEF Onward
<1>4. g.kind \in Posters /\ g.pc = "done" => Shut(u, t)
  BY <1>3 DEF LegOwn, Shut, Posters
<1>5. g.known => t # 0
  BY DEF LegOwn
<1>6. g.pc \in {"recover", "final"} /\ ~g.early => u[t].phase = "gone"
  <2>1. g.pc \in {"recover", "final"} => g.kind = "resume"
    BY DEF LegOwn, LegOk, Posters, Streams
  <2>2. CASE t # 0
    BY <1>3, <2>2 DEF LegOwn
  <2>3. CASE t = 0
    <3>1. ~g.known /\ g.kind # "resume"
      BY <1>5, <2>3 DEF LegOwn
    <3>2. QED
      BY <3>1, <2>1, <2>3 DEF LegOwn
  <2>4. QED
    BY <2>2, <2>3
<1>7. QED
  BY <1>2, <1>4, <1>5, <1>6 DEF LegOwn

\* A turn takes another phase, and if it is gone its answer is the last that is saved.
LEMMA PhaseOwn ==
  ASSUME IInv, Calm, NEW t \in 1 .. Len(turns), ~Shut(turns, t), NEW x \in Phases,
         turns' = [turns EXCEPT ![t].phase = x], UNCHANGED <<hook, legs, posts, stops, loads>>,
         x = "void" => \A k \in 1 .. Len(legs) : legs[k].turn = t => ~legs[k].known,
         x = "gone" => saved'[First] # << >> /\ Last(saved'[First]) = t,
         x \notin {"gone", "void"} => saved' = saved
  PROVE  Calm'
<1> DEFINE n == Len(turns)
<1>1. turns \in Seq(TurnT) /\ n \in Nat /\ DOMAIN turns = 1 .. n /\ turns[t] \in TurnT
  BY LenProperties, ElementOfSeq DEF IInv
<1> DEFINE y == [turns[t] EXCEPT !.phase = x]
<1>2. y.phase = x /\ y.session = turns[t].session
  BY <1>1 DEF TurnT
<1>3. turns' = [turns EXCEPT ![t] = y]
  OBVIOUS
<1> HIDE DEF y
<1>4. DOMAIN turns' = 1 .. n /\ Len(turns') = n
      /\ \A u \in 1 .. n : turns'[u] = IF u = t THEN y ELSE turns[u]
  <2>1. DOMAIN turns' = 1 .. n /\ \A u \in 1 .. n : turns'[u] = IF u = t THEN y ELSE turns[u]
    BY <1>1, <1>3
  <2> DEFINE w == [turns EXCEPT ![t] = y]
  <2>2. Len(w) = n
    BY <1>1
  <2>3. QED
    BY <1>3, <2>1, <2>2
<1>5. Onward(turns, turns')
  BY <1>1, <1>2, <1>4 DEF Onward, Shut
<1>6. ASSUME NEW k \in 1 .. Len(legs) PROVE LegOwn(legs[k], turns')
  <2>1. LegOwn(legs[k], turns) /\ legs[k].turn \in Nat /\ LegOk(legs[k])
    BY <1>6, PageNow DEF Calm, LegsOwn, LegT
  <2>2. ASSUME legs[k].known PROVE turns'[legs[k].turn].phase # "void"
    <3>1. legs[k].turn \in 1 .. n /\ turns[legs[k].turn].phase # "void"
      BY <1>1, <2>1, <2>2 DEF LegOwn
    <3>2. CASE legs[k].turn = t
      BY <1>2, <1>4, <1>6, <2>2, <3>1, <3>2
    <3>3. CASE legs[k].turn # t
      BY <1>4, <3>1, <3>3
    <3>4. QED
      BY <3>2, <3>3
  <2>3. QED
    BY <1>5, <2>1, <2>2, OwnOnward
<1>7. \A u \in 1 .. n : Shut(turns, u) => Shut(turns', u)
  BY <1>5 DEF Onward, Shut
<1>8. OneForeign(legs, turns')
  BY <1>4, <1>7 DEF Calm, OneForeign
<1>9. TurnsHere(turns')
  BY <1>2, <1>4 DEF Calm, TurnsHere
<1>10. ASSUME NEW k \in 1 .. Len(legs), Resuming(legs[k])
       PROVE  LastTurn(legs[k].turn, turns', saved'[First])
  <2>1. LastTurn(legs[k].turn, turns, saved[First])
    BY <1>10 DEF Calm, ResumesOwn
  <2>2. legs[k].turn = t
    BY <2>1 DEF LastTurn
  <2>3. legs[k].known
    BY <1>10 DEF Calm, LegsOwn, LegOwn, Resuming
  <2>4. x # "void"
    BY <1>10, <2>2, <2>3
  <2>5. turns'[t].phase = x
    BY <1>2, <1>4
  <2>6. \A u \in 1 .. n : u # t => Shut(turns', u)
    BY <1>7, <2>1, <2>2 DEF LastTurn
  <2>7. Shut(turns', t) => x = "gone"
    BY <2>4, <2>5 DEF Shut
  <2>8. QED
    BY <1>4, <2>2, <2>6, <2>7 DEF LastTurn
<1>11. LegsOwn(legs', turns') /\ ResumesOwn(legs', turns', saved'[First])
  BY <1>6, <1>10 DEF LegsOwn, ResumesOwn
<1>12. QED
  BY <1>8, <1>9, <1>11 DEF Calm

\* A turn stops.
LEMMA TurnStopsOwn ==
  ASSUME IInv, OwnInv, NEW t \in DOMAIN turns, TurnStops(t), ~faulty', ~crossed'
  PROVE  Calm'
<1>1. /\ turns[t].phase = "running" /\ turns' = [turns EXCEPT ![t].phase = "stopped"]
      /\ UNCHANGED <<hook, legs, posts, stops, loads, saved>> /\ ~faulty /\ ~crossed
  BY DEF TurnStops, Fault, bounds
<1>2. Calm
  BY <1>1, OwnNow
<1>3. t \in 1 .. Len(turns)
  BY LenProperties DEF IInv
<1>4. ~Shut(turns, t) /\ "stopped" \in Phases
  BY <1>1 DEF Shut, Phases
<1>5. QED
  BY <1>1, <1>2, <1>3, <1>4, PhaseOwn

\* A turn is gone, its answer saved, or leaves nothing.
LEMMA TurnClosesOwn ==
  ASSUME IInv, OwnInv, NEW t \in DOMAIN turns, TurnCloses(t), ~faulty', ~crossed'
  PROVE  Calm'
<1>1. /\ turns[t].phase \in {"stopped", "failed"} /\ ~crossed
      /\ UNCHANGED <<hook, legs, posts, stops, loads>>
      /\ \/ /\ turns' = [turns EXCEPT ![t].phase = "gone"] /\ ~faulty
            /\ saved' = [saved EXCEPT ![turns[t].session] = Append(@, t)]
         \/ /\ \A l \in DOMAIN legs : legs[l].turn = t => ~legs[l].known /\ ~legs[l].ended
            /\ turns' = [turns EXCEPT ![t].phase = "void"] /\ ~faulty
  BY DEF TurnCloses, Fault, bounds
<1>2. ~faulty
  BY <1>1
<1>3. Calm /\ DOMAIN legs = 1 .. Len(legs)
  BY <1>1, <1>2, OwnNow
<1>4. t \in 1 .. Len(turns) /\ t \in Nat /\ saved \in [Sessions -> Seq(Nat)] /\ First \in Sessions
  BY LenProperties, Bounds DEF IInv
<1>5. turns[t].session = First
  BY <1>3, <1>4 DEF Calm, TurnsHere
<1>6. ~Shut(turns, t) /\ "gone" \in Phases /\ "void" \in Phases
  BY <1>1 DEF Shut, Phases
<1>7. CASE turns' = [turns EXCEPT ![t].phase = "gone"] /\ saved' = [saved EXCEPT ![turns[t].session] = Append(@, t)]
  <2> DEFINE a == saved[First]
  <2>1. a \in Seq(Nat) /\ saved'[First] = Append(a, t)
    BY <1>4, <1>5, <1>7
  <2> HIDE DEF a
  <2>2. Len(Append(a, t)) = Len(a) + 1 /\ Append(a, t)[Len(a) + 1] = t /\ Len(a) \in Nat
    BY <1>4, <2>1, AppendProperties
  <2>3. Append(a, t) # << >> /\ Last(Append(a, t)) = t
    <3>1. Len(Append(a, t)) # 0
      BY <2>2
    <3>2. Append(a, t) # << >>
      BY <3>1
    <3>3. QED
      BY <2>2, <3>2 DEF Last
  <2>4. saved'[First] # << >> /\ Last(saved'[First]) = t
    BY <2>1, <2>3
  <2>5. QED
    BY <1>1, <1>3, <1>4, <1>6, <1>7, <2>4, PhaseOwn
<1>8. CASE /\ \A l \in DOMAIN legs : legs[l].turn = t => ~legs[l].known /\ ~legs[l].ended
           /\ turns' = [turns EXCEPT ![t].phase = "void"]
  BY <1>1, <1>3, <1>4, <1>6, <1>8, PhaseOwn
<1>9. QED
  BY <1>1, <1>7, <1>8

\* Cutting turns short shuts none.
LEMMA HaltedPhases ==
  ASSUME NEW ts \in Seq(TurnT), NEW s
  PROVE  /\ Onward(ts, Halted(ts, s)) /\ Len(Halted(ts, s)) = Len(ts)
         /\ \A u \in 1 .. Len(ts) :
              /\ Shut(Halted(ts, s), u) => Shut(ts, u)
              /\ Halted(ts, s)[u].phase = "void" => ts[u].phase = "void"
<1> DEFINE H(t) == IF ts[t].session = s /\ ts[t].phase = "running"
                   THEN [ts[t] EXCEPT !.phase = "stopped", !.cut = t \in Columns] ELSE ts[t]
           h == Halted(ts, s)
<1>1. Len(ts) \in Nat /\ DOMAIN ts = 1 .. Len(ts) /\ \A t \in 1 .. Len(ts) : ts[t] \in TurnT
  BY LenProperties, ElementOfSeq
<1>2. h = [t \in DOMAIN ts |-> H(t)] /\ Len(h) = Len(ts)
  BY HaltedTurns DEF Halted
<1>3. ASSUME NEW t \in 1 .. Len(ts)
      PROVE  /\ H(t).session = ts[t].session
             /\ H(t).phase = ts[t].phase \/ (ts[t].phase = "running" /\ H(t).phase = "stopped")
  BY <1>1 DEF TurnT
<1> HIDE DEF H, h
<1>4. \A t \in 1 .. Len(ts) : h[t] = H(t)
  BY <1>1, <1>2
<1>5. \A t \in 1 .. Len(ts) :
        /\ h[t].session = ts[t].session
        /\ h[t].phase = ts[t].phase \/ (ts[t].phase = "running" /\ h[t].phase = "stopped")
  BY <1>3, <1>4
<1>6. Onward(ts, h)
  BY <1>1, <1>2, <1>5 DEF Onward
<1>7. QED
  BY <1>2, <1>5, <1>6 DEF h, Shut

\* One turn more leaves the others as they are.
LEMMA AppendOnward ==
  ASSUME NEW ts \in Seq(TurnT), NEW w \in TurnT
  PROVE  /\ Onward(ts, Append(ts, w)) /\ Len(Append(ts, w)) = Len(ts) + 1
         /\ Append(ts, w)[Len(ts) + 1] = w
         /\ \A u \in 1 .. Len(ts) : Append(ts, w)[u] = ts[u]
<1>1. /\ Len(Append(ts, w)) = Len(ts) + 1 /\ Append(ts, w)[Len(ts) + 1] = w /\ Len(ts) \in Nat
      /\ \A u \in 1 .. Len(ts) : Append(ts, w)[u] = ts[u]
  BY AppendProperties, LenProperties
<1>2. Len(ts) + 1 \in Nat /\ Len(ts) <= Len(ts) + 1
  BY <1>1
<1>3. QED
  BY <1>1, <1>2 DEF Onward

\* A POST arrives: its turn replaces the session's.
LEMMA ArriveOwn ==
  ASSUME IInv, OwnInv, NEW l \in posts, Arrive(l), ~faulty', ~crossed'
  PROVE  Calm'
<1> DEFINE a == legs[l]
           n == Len(turns)
           h == Halted(turns, First)
           w == NewTurn(First, "running")
           z == n + 1
           g == [a EXCEPT !.turn = z]
<1>1. ~faulty /\ ~crossed /\ UNCHANGED <<hook, stops, loads, saved>> /\ posts' = posts \ {l}
      /\ turns' = Append(Halted(turns, a.session), NewTurn(a.session, "running"))
      /\ legs' = [legs EXCEPT ![l].turn = z]
  BY DEF Arrive, bounds
<1>2. Calm /\ l \in 1 .. Len(legs)
  BY <1>1, OwnNow DEF IInv
<1>3. LegOwn(a, turns) /\ a \in LegT /\ LegOk(a) /\ legs \in Seq(LegT) /\ DOMAIN legs = 1 .. Len(legs)
  BY <1>1, <1>2, OwnNow, PageNow
<1>4. a.pc = "post" /\ a.turn = 0 /\ a.session = First
  BY <1>2, <1>3 DEF Calm, PostsOwn, LegOwn
<1>5. a.kind \in Posters /\ ~a.known
  BY <1>3, <1>4 DEF LegOk, Posters
<1>6. turns \in Seq(TurnT) /\ n \in Nat /\ w \in TurnT
  BY Bounds, LenProperties, NewTurnT DEF IInv, Phases
<1>7. /\ h \in Seq(TurnT) /\ Len(h) = n /\ Onward(turns, h)
      /\ \A u \in 1 .. n : (Shut(h, u) => Shut(turns, u)) /\ (h[u].phase = "void" => turns[u].phase = "void")
  BY <1>6, HaltedTurns, HaltedPhases
<1>8. turns' = Append(h, w) /\ w.phase = "running" /\ w.session = First
  BY <1>1, <1>4 DEF NewTurn
<1> HIDE DEF h, w
<1>9. /\ Onward(h, turns') /\ Len(turns') = z /\ turns'[z] = w
      /\ \A u \in 1 .. n : turns'[u] = h[u]
  BY <1>6, <1>7, <1>8, AppendOnward
<1>10. z \in Nat /\ n <= z /\ z # 0 /\ z \in 1 .. z /\ \A u \in 1 .. z : u = z \/ u \in 1 .. n
  BY <1>6
<1>11. Onward(turns, turns')
  BY <1>6, <1>7, <1>9, <1>10 DEF Onward
<1>12. \A u \in 1 .. n : (Shut(turns', u) => Shut(turns, u)) /\ (turns'[u].phase = "void" => turns[u].phase = "void")
  BY <1>7, <1>9 DEF Shut
<1>13. /\ g.kind = a.kind /\ g.session = First /\ g.turn = z /\ g.pc = "post" /\ g.known = a.known
       /\ g.cut = a.cut /\ g.aborted = a.aborted /\ g.text = a.text /\ g.early = a.early
  BY <1>3, <1>4 DEF LegT
<1>14. DOMAIN legs' = 1 .. Len(legs) /\ Len(legs') = Len(legs)
       /\ \A k \in 1 .. Len(legs) : legs'[k] = IF k = l THEN g ELSE legs[k]
  <2>1. legs' = [legs EXCEPT ![l] = g]
    BY <1>1
  <2> HIDE DEF g
  <2>2. DOMAIN legs' = 1 .. Len(legs) /\ \A k \in 1 .. Len(legs) : legs'[k] = IF k = l THEN g ELSE legs[k]
    BY <1>3, <2>1
  <2> DEFINE y == [legs EXCEPT ![l] = g]
  <2>3. Len(y) = Len(legs)
    BY <1>3
  <2>4. QED
    BY <2>1, <2>2, <2>3
<1> HIDE DEF g, z
<1>15. LegOwn(g, turns')
  <2>1. z \in 0 .. z
    BY <1>10
  <2>2. g.turn \in 0 .. Len(turns')
    BY <1>9, <1>13, <2>1
  <2>3. a.text = 0 \/ a.early
    BY <1>3, <1>4 DEF LegOwn
  <2>4. QED
    BY <1>3, <1>4, <1>5, <1>13, <2>2, <2>3 DEF LegOwn, Posters
<1>16. ASSUME NEW k \in 1 .. Len(legs), k # l PROVE LegOwn(legs'[k], turns')
  <2>1. LegOwn(legs[k], turns) /\ LegOk(legs[k]) /\ legs[k] \in LegT /\ legs[k].turn \in Nat
    BY <1>1, OwnNow DEF LegT
  <2>2. ASSUME legs[k].known PROVE turns'[legs[k].turn].phase # "void"
    <3>1. legs[k].turn \in 1 .. n /\ turns[legs[k].turn].phase # "void"
      BY <1>6, <2>1, <2>2 DEF LegOwn
    <3>2. QED
      BY <1>12, <3>1
  <2>3. LegOwn(legs[k], turns')
    BY <1>11, <2>1, <2>2, OwnOnward
  <2>4. QED
    BY <1>14, <1>16, <2>3
<1>17. LegsOwn(legs', turns')
  BY <1>14, <1>15, <1>16 DEF LegsOwn
<1>18. PostsOwn(legs', posts')
  <2>1. posts \subseteq 1 .. Len(legs)
    BY DEF IInv
  <2>2. QED
    BY <1>1, <1>2, <1>14, <2>1 DEF Calm, PostsOwn
<1>19. ~Foreign(legs', z)
  BY <1>2, <1>5, <1>13, <1>14 DEF Foreign
<1>20. ASSUME NEW u \in 1 .. n, Foreign(legs', u) PROVE Foreign(legs, u)
  <2>1. u # 0
    BY <1>6
  <2>2. ASSUME NEW k \in 1 .. Len(legs), legs[k].kind \in Posters PROVE legs[k].turn # u
    <3>1. CASE k = l
      BY <1>4, <2>1, <3>1
    <3>2. CASE k # l
      BY <1>14, <1>20, <2>2, <3>2 DEF Foreign
    <3>3. QED
      BY <3>1, <3>2
  <2>3. QED
    BY <2>2 DEF Foreign
<1>21. OneForeign(legs', turns')
  <2> SUFFICES ASSUME NEW u \in 1 .. Len(turns'), NEW v \in 1 .. Len(turns'), ~Shut(turns', u),
                      ~Shut(turns', v), Foreign(legs', u), Foreign(legs', v)
               PROVE  u = v
    BY DEF OneForeign
  <2>1. u \in 1 .. n /\ v \in 1 .. n
    BY <1>9, <1>10, <1>19
  <2>2. Foreign(legs, u) /\ Foreign(legs, v)
    BY <1>20, <2>1
  <2>3. ~Shut(turns, u) /\ ~Shut(turns, v)
    BY <1>11, <2>1 DEF Onward, Shut
  <2>4. QED
    BY <1>2, <2>1, <2>2, <2>3 DEF Calm, OneForeign
<1>22. TurnsHere(turns')
  BY <1>2, <1>8, <1>9, <1>10, <1>11 DEF Calm, TurnsHere, Onward
<1>23. ASSUME NEW k \in 1 .. Len(legs') PROVE ~Resuming(legs'[k])
  <2>1. SUFFICES ASSUME Resuming(legs'[k]) PROVE FALSE
    OBVIOUS
  <2>2. k # l
    BY <1>2, <1>5, <1>13, <1>14, <2>1 DEF Resuming, Posters
  <2>3. k \in 1 .. Len(legs) /\ legs[k].pc # "done" /\ legs[k].kind = "resume"
    BY <1>14, <1>23, <2>1, <2>2 DEF Resuming
  <2>4. legs[l].pc = "done"
    BY <1>1, <1>2, <2>2, <2>3, OthersDone
  <2>5. QED
    BY <1>4, <2>4
<1>24. ResumesOwn(legs', turns', saved'[First])
  BY <1>23 DEF ResumesOwn
<1>25. QED
  BY <1>1, <1>2, <1>17, <1>18, <1>21, <1>22, <1>24 DEF Calm

\* The history arrives: the one run that is open, if any, is resumed, and it is the last.
LEMMA LoadedOwn ==
  ASSUME IInv, OwnInv, NEW s \in loads, Loaded(s), ~faulty', ~crossed'
  PROVE  Calm'
<1>1. ~faulty /\ loads' = loads \ {s} /\ UNCHANGED <<posts, stops, turns, saved>>
  BY DEF Loaded, server, bounds
<1>2. ~crossed
  <2>1. crossed' = crossed \/ crossed' = Crossing
    BY Zenon DEF Loaded, Crossing
  <2>2. QED
    BY <2>1 DEF Crossing
<1>3. Calm /\ hook \in HookT /\ Len(legs) \in Nat /\ DOMAIN legs = 1 .. Len(legs)
      /\ \A k \in 1 .. Len(legs) : LegOwn(legs[k], turns) /\ legs[k] \in LegT
  BY <1>1, <1>2, OwnNow
<1>4. s = First /\ hook.view = First /\ s \in Sessions /\ loads' \subseteq {First}
  BY <1>1, <1>3 DEF Calm, IInv
<1>5. CASE Open(s) # {} /\ ~hook.streaming /\ Room
  <2> DEFINE n == Len(legs)
  <2>1. PICK t \in Open(s) : Becomes(Begun(Page, NewLeg("resume", hook.view, t))) /\ crossed' = Crossing
    BY <1>5, Zenon DEF Loaded, Crossing
  <2> DEFINE w == NewLeg("resume", hook.view, t)
             b == Begun(Page, w)
  <2>2. t \in 1 .. Len(turns) /\ ~Shut(turns, t) /\ Len(turns) \in Nat
    BY LenProperties DEF Open, Shut, IInv
  <2>3. \A k \in 1 .. n : legs[k].pc = "done"
    BY <1>3, <2>1 DEF Crossing, Done
  <2>4. w \in LegT
    BY <1>4, <2>2, NewLegT DEF Kinds
  <2>5. LegOwn(w, turns) /\ w.kind = "resume" /\ w.turn = t
    <3>1. t \in 0 .. Len(turns) /\ t # 0
      BY <2>2
    <3>2. QED
      BY <1>4, <2>2, <3>1 DEF NewLeg, LegOwn, Posters, Shut
  <2> HIDE DEF w
  <2>6. /\ Len(b.legs) = n + 1 /\ \A k \in 1 .. n : Kept(legs[k], b.legs[k])
        /\ b.legs[n + 1] = w /\ b.hook = Holding(hook, n + 1, ReaderLeft(hook))
    BY <2>4, PageNow, BegunFacts
  <2> HIDE DEF b
  <2>7. hook' = b.hook /\ legs' = b.legs
    BY <2>1 DEF Becomes, b, w
  <2>8. hook'.view = hook.view
    BY <1>3, <2>6, <2>7 DEF Holding, HookT
  <2>9. \A k \in 1 .. n : Kept(legs[k], legs'[k]) /\ legs'[k].pc = "done"
    BY <2>3, <2>6, <2>7 DEF Kept
  <2>10. Len(legs') = n + 1 /\ legs'[n + 1] = w /\ \A k \in 1 .. Len(legs') : k = n + 1 \/ k \in 1 .. n
    BY <1>3, <2>6, <2>7
  <2>11. LegsOwn(legs', turns)
    <3>1. \A k \in 1 .. n : LegOwn(legs'[k], turns)
      BY <1>3, <2>9, OwnKept
    <3>2. QED
      BY <2>5, <2>10, <3>1 DEF LegsOwn
  <2>12. posts = {}
    <3>1. \A k \in posts : k \in 1 .. n /\ legs[k].pc = "post"
      BY <1>3 DEF Calm, PostsOwn, IInv
    <3>2. QED
      BY <2>3, <3>1
  <2>13. \A u \in 1 .. Len(turns) : ~Shut(turns, u) => Foreign(legs, u)
    BY <1>3, <2>3 DEF LegOwn, Foreign
  <2>14. \A u \in 1 .. Len(turns) : u # t => Shut(turns, u)
    BY <1>3, <2>2, <2>13 DEF Calm, OneForeign
  <2>15. LastTurn(t, turns, saved[First])
    BY <2>2, <2>14 DEF LastTurn
  <2>16. ResumesOwn(legs', turns, saved[First])
    BY <2>5, <2>9, <2>10, <2>15 DEF ResumesOwn, Resuming
  <2>17. OneForeign(legs', turns)
    BY <2>14 DEF OneForeign
  <2>18. QED
    BY <1>1, <1>3, <1>4, <2>8, <2>11, <2>12, <2>16, <2>17 DEF Calm, PostsOwn
<1>6. CASE ~(Open(s) # {} /\ ~hook.streaming /\ Room)
  <2>1. hook' = [hook EXCEPT !.blank = @ /\ History(s) = {}] /\ UNCHANGED legs
    BY <1>6 DEF Loaded
  <2>2. hook'.view = hook.view
    BY <1>3, <2>1 DEF HookT
  <2>3. QED
    BY <1>1, <1>3, <1>4, <2>1, <2>2 DEF Calm
<1>7. QED
  BY <1>5, <1>6

\* The steps of the server.
LEMMA ServerOwn ==
  ASSUME IInv, OwnInv, Server, ~faulty', ~crossed'
  PROVE  Calm'
<1>1. CASE \E l \in posts : Arrive(l)
  BY <1>1, ArriveOwn
<1>2. ASSUME NEW s \in stops, StopArrives(s) PROVE Calm'
  <2>1. ~faulty /\ ~crossed
    BY <1>2 DEF StopArrives, bounds
  <2>2. QED
    BY <1>2, <2>1, OwnNow DEF Calm
<1>3. CASE \E s \in loads : Loaded(s)
  BY <1>3, LoadedOwn
<1>4. \A s \in loads : ~LoadFails(s)
  BY DEF LoadFails, Fault
<1>5. CASE \E t \in DOMAIN turns : TurnStops(t)
  BY <1>5, TurnStopsOwn
<1>6. CASE \E t \in DOMAIN turns : TurnCloses(t)
  BY <1>6, TurnClosesOwn
<1>7. QED
  BY <1>1, <1>2, <1>3, <1>4, <1>5, <1>6 DEF Server

\* Where the page is opened.
LEMMA InitOwn == Init => OwnInv
<1> SUFFICES ASSUME Init PROVE Calm
  BY DEF OwnInv
<1>1. /\ hook = EmptyHook /\ legs = << >> /\ posts = {} /\ stops = {} /\ loads = {First}
      /\ Len(legs) = 0 /\ hook.view = First
  BY DEF Init, EmptyHook
<1>2. \A k \in 1 .. Len(legs) : FALSE
  BY <1>1
<1>3. LegsOwn(legs, turns) /\ PostsOwn(legs, posts) /\ ResumesOwn(legs, turns, saved[First])
  BY <1>1, <1>2 DEF LegsOwn, PostsOwn, ResumesOwn
<1> DEFINE a == NewTurn(First, "running")
           b == NewTurn(First, "gone")
<1>4. a.session = First /\ b.session = First /\ b.phase = "gone"
  BY DEF NewTurn
<1>5. turns = << >> \/ turns = <<a>> \/ turns = <<b, a>>
  BY DEF Init
<1> HIDE DEF a, b
<1>6. \A u \in 1 .. Len(turns) : turns[u].session = First /\ (Shut(turns, u) \/ u = Len(turns))
  <2>1. CASE turns = << >>
    <3>1. Len(turns) = 0
      BY <2>1
    <3>2. QED
      BY <3>1
  <2>2. CASE turns = <<a>>
    <3>1. Len(turns) = 1 /\ turns[1] = a
      BY <2>2
    <3>2. QED
      BY <1>4, <3>1
  <2>3. CASE turns = <<b, a>>
    <3>1. Len(turns) = 2 /\ turns[1] = b /\ turns[2] = a
      BY <2>3
    <3>2. \A u \in 1 .. 2 : u = 1 \/ u = 2
      OBVIOUS
    <3>3. QED
      BY <1>4, <3>1, <3>2 DEF Shut
  <2>4. QED
    BY <1>5, <2>1, <2>2, <2>3
<1>7. TurnsHere(turns) /\ OneForeign(legs, turns)
  BY <1>6 DEF TurnsHere, OneForeign
<1>8. QED
  BY <1>1, <1>3, <1>7 DEF Calm

\* The strengthening of the invariant for a session that is opened, and then neither
\* crossed nor broken: it is inductive beside the other.
LEMMA OwnStep ==
  ASSUME IInv, OwnInv, [Next]_vars
  PROVE  OwnInv'
<1> SUFFICES ASSUME ~faulty', ~crossed' PROVE Calm'
  BY DEF OwnInv
<1>1. CASE User
  BY <1>1, UserOwn
<1>2. CASE Server
  BY <1>2, ServerOwn
<1>3. ASSUME NEW l \in DOMAIN legs, Leg(l) PROVE Calm'
  BY <1>3, LegStepsOwn
<1>4. CASE UNCHANGED vars
  <2>1. UNCHANGED <<hook, legs, posts, stops, loads, turns, saved, faulty, crossed>>
    BY <1>4 DEF vars, server, bounds
  <2>2. Calm
    BY <2>1, OwnNow
  <2>3. QED
    BY <2>1, <2>2 DEF Calm
<1>5. QED
  BY <1>1, <1>2, <1>3, <1>4 DEF Next, Work

\* While nothing crosses and nothing breaks, the answer of a leg, streamed, resumed or
\* recovered, is that of its own turn.
THEOREM AnswersAreOwn == Spec => []RecoveredIsOwn
<1>1. IInv /\ OwnInv /\ [Next]_vars => OwnInv'
  BY OwnStep
<1>2. IInv /\ OwnInv => RecoveredIsOwn
  <2>1. ASSUME IInv, OwnInv, ~faulty, ~crossed, NEW l \in DOMAIN legs, ~legs[l].early
        PROVE  legs[l].text \in {0, legs[l].turn}
    <3>1. LegOwn(legs[l], turns)
      BY <2>1, OwnNow
    <3>2. QED
      BY <2>1, <3>1 DEF LegOwn
  <2>2. QED
    BY <2>1 DEF RecoveredIsOwn
<1>3. Spec => []OwnInv
  BY <1>1, InitOwn, InductiveInvariant, PTL DEF Spec
<1>4. QED
  BY <1>2, <1>3, InductiveInvariant, PTL
=============================================================================
