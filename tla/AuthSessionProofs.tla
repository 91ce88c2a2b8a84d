------------------------ MODULE AuthSessionProofs ------------------------
(***************************************************************************)
(* Proofs about AuthSession for any number of browsers, tabs, links,       *)
(* sign-ins, calls and faults.                                             *)
(***************************************************************************)
EXTENDS AuthSession, SequenceTheorems, TLAPS

Statuses == {"none", "active", "suspended", "deleted"}
Marks == {"no", "logout", "theft_suspected"}
EntrySteps == {"create", "provision", "mark", "issue", "reply"}
ReqSteps == {"sent", "reuse", "user", "bar", "rotate", "grant", "clear", "refuse"}

Links == [signup : BOOLEAN, used : BOOLEAN]
Families == [jti : Nat, revoked : Marks, link : Nat]
Jars == [at : BOOLEAN, family : Nat, jti : Nat]
TabStates == [asked : Nat, waiting : Nat, refreshing : BOOLEAN]
Reqs == [tab : Tabs, pc : ReqSteps, family : Nat, jti : Nat, heard : BOOLEAN, late : BOOLEAN]
Entries == [browser : Browsers, link : Nat, pc : EntrySteps, family : Nat]

Typed ==
  /\ account \in Statuses /\ links \in Seq(Links) /\ families \in Seq(Families)
  /\ minted \in Nat /\ jar \in [Browsers -> Jars] /\ tabs \in [Tabs -> TabStates]
  /\ reqs \in Seq(Reqs) /\ entries \in Seq(Entries)
  /\ leaving \in [Browsers -> {"no", "revoke", "reply", "done"}]
  /\ spent \in 0 .. Budget /\ crossed \in [Browsers -> BOOLEAN]

(* Everything refers to what exists.                                       *)
FamiliesRefer ==
  \A f \in DOMAIN families :
    families[f].jti \in 1 .. minted /\ families[f].link \in 0 .. Len(links)
JarsRefer == \A b \in Browsers : jar[b].family \in 0 .. Len(families) /\ jar[b].jti \in 0 .. minted
ReqsRefer ==
  \A i \in DOMAIN reqs :
    /\ reqs[i].family \in 0 .. Len(families) /\ reqs[i].jti \in 0 .. minted
    /\ reqs[i].pc \notin {"sent", "refuse"} => reqs[i].family # 0
EntriesRefer ==
  \A i \in DOMAIN entries :
    /\ entries[i].link \in 0 .. Len(links)
    /\ entries[i].pc \in {"create", "mark"} => entries[i].link # 0
    /\ entries[i].pc = "provision" => entries[i].link = 0
    /\ entries[i].pc = "reply" => entries[i].family \in 1 .. Len(families)
CallsPaid == \A t \in Tabs : tabs[t].asked + tabs[t].waiting <= spent

(* Before the account there is nothing but what would create it.           *)
Unborn ==
  account = "none" =>
    /\ families = << >>
    /\ \A i \in DOMAIN entries : entries[i].pc \in {"create", "provision"}
    /\ \A k \in DOMAIN links : links[k].signup

(* A request that began late is not past the look at the status.           *)
LateIsBarred ==
  \A i \in DOMAIN reqs : reqs[i].late => Inactive /\ reqs[i].pc \notin {"rotate", "grant"}

(* Of the verifications of sign-up links one at most is past the insert.   *)
Signup(k) == k # 0 /\ links[k].signup
Past(i) == entries[i].pc \in {"mark", "issue"} /\ Signup(entries[i].link)
OnePast == \A i, j \in DOMAIN entries : Past(i) /\ Past(j) => i = j
PastOrIn == \A i \in DOMAIN entries, f \in DOMAIN families : Past(i) => ~Signup(families[f].link)
OneIn ==
  \A f, g \in DOMAIN families : Signup(families[f].link) /\ Signup(families[g].link) => f = g

(* How a step leaves the verifications past the insert, and their families.*)
PastStays ==
  /\ \A j \in DOMAIN entries' : Past(j)' => families' = << >> \/ \E k \in DOMAIN entries : Past(k)
  /\ \A j, l \in DOMAIN entries' : Past(j)' /\ Past(l)' /\ j # l =>
       \E k, m \in DOMAIN entries : k # m /\ Past(k) /\ Past(m)
LinksStay ==
  \A k \in DOMAIN links : k # 0 /\ k \in DOMAIN links' /\ links'[k].signup = links[k].signup
NoneComesIn ==
  \A f \in DOMAIN families' : Signup(families[f].link)' =>
    f \in DOMAIN families /\ Signup(families[f].link)

(* Browser b keeps family f, in its jar or in a request on its way.        *)
Owner(i) == Home[reqs[i].tab]
Holds(b, f) == jar[b].family = f \/ \E i \in DOMAIN reqs : Owner(i) = b /\ reqs[i].family = f

(* A family is kept by one browser, or by a sign-in that is to reply.      *)
KeptApart ==
  \A f \in DOMAIN families : \A b, c \in Browsers : Holds(b, f) /\ Holds(c, f) => b = c
RepliesApart ==
  \A i, j \in DOMAIN entries :
    entries[i].pc = "reply" /\ entries[j].pc = "reply" /\ entries[i].family = entries[j].family
      => i = j
RepliesFresh ==
  \A i \in DOMAIN entries : entries[i].pc = "reply" =>
    /\ families[entries[i].family].revoked # "theft_suspected"
    /\ \A b \in Browsers : ~Holds(b, entries[i].family)
Apart == KeptApart /\ RepliesApart /\ RepliesFresh

(* A browser that is not crossed has one refresh at most, which is heard   *)
(* and holds the current token.                                            *)
Current(f, n) == f # 0 => families[f].jti = n /\ families[f].revoked # "theft_suspected"
Solo ==
  \A i, j \in DOMAIN reqs : ~crossed[Owner(i)] /\ Owner(i) = Owner(j) => i = j /\ reqs[i].heard
SoloIsCurrent ==
  \A i \in DOMAIN reqs : ~crossed[Owner(i)] =>
    /\ jar[Owner(i)].family \in {0, reqs[i].family}
    /\ reqs[i].pc # "reuse"
    /\ reqs[i].pc = "refuse" => reqs[i].family = 0
    /\ Current(reqs[i].family, reqs[i].jti)
JarIsCurrent ==
  \A b \in Browsers : ~crossed[b] /\ ~Busy(b) => Current(jar[b].family, jar[b].jti)
Quiet == Solo /\ SoloIsCurrent /\ JarIsCurrent

(* How a step leaves what the browsers keep and the replies to sign-ins.   *)
HeldStays == \A b \in Browsers, f \in DOMAIN families' : Holds(b, f)' => Holds(b, f)
RepliesStay ==
  /\ \A j \in DOMAIN entries' : entries'[j].pc = "reply" =>
       \E k \in DOMAIN entries : entries[k].pc = "reply" /\ entries[k].family = entries'[j].family
  /\ \A j, l \in DOMAIN entries' : entries'[j].pc = "reply" /\ entries'[l].pc = "reply" /\ j # l =>
       \E k, m \in DOMAIN entries :
         /\ k # m /\ entries[k].pc = "reply" /\ entries[m].pc = "reply"
         /\ entries[k].family = entries'[j].family /\ entries[m].family = entries'[l].family
QuietMove ==
  /\ DOMAIN reqs' = DOMAIN reqs /\ crossed' = crossed
  /\ \A i \in DOMAIN reqs :
       /\ reqs'[i].tab = reqs[i].tab /\ reqs'[i].family = reqs[i].family
       /\ reqs'[i].jti = reqs[i].jti /\ reqs'[i].heard = reqs[i].heard
       /\ reqs'[i].pc = reqs[i].pc
          \/ /\ reqs'[i].pc # "grant"
             /\ reqs'[i].pc = "refuse" => reqs[i].family = 0
             /\ reqs'[i].pc = "reuse" => crossed[Owner(i)]
  /\ \A b \in Browsers :
       jar'[b].family = 0 \/ (jar'[b].family = jar[b].family /\ jar'[b].jti = jar[b].jti)
LoudMove ==
  \/ \E i \in DOMAIN reqs : Rotate(i) \/ Reply(i) \/ Break(i)
  \/ \E t \in Tabs : Refused(t) /\ ~tabs[t].refreshing
  \/ \E e \in DOMAIN entries : SignedIn(e)
OthersUntouched ==
  \A f \in DOMAIN families :
    /\ f \in DOMAIN families'
    /\ \/ /\ families'[f].jti = families[f].jti
          /\ families'[f].revoked = "theft_suspected" => families[f].revoked = "theft_suspected"
       \/ \E i \in DOMAIN reqs : reqs[i].family = f /\ (reqs[i].pc = "reuse" \/ Rotate(i))

Refer == FamiliesRefer /\ JarsRefer /\ ReqsRefer /\ EntriesRefer /\ CallsPaid
Once == OnePast /\ PastOrIn /\ OneIn

---------------------------------------------------------------------------
(* Sequences from which an element goes.                                   *)

(* What is left is what was there, in order.                               *)
LEMMA Removed ==
  ASSUME NEW S, NEW s \in Seq(S), NEW i \in 1 .. Len(s)
  PROVE  /\ RemoveAt(s, i) \in Seq(S)
         /\ Len(RemoveAt(s, i)) = Len(s) - 1
         /\ \A j \in 1 .. Len(s) - 1 : RemoveAt(s, i)[j] = s[IF j < i THEN j ELSE j + 1]
<1> DEFINE a == SubSeq(s, 1, i - 1)
           z == SubSeq(s, i + 1, Len(s))
<1>1. a \in Seq(S) /\ Len(a) = i - 1 /\ \A j \in 1 .. i - 1 : a[j] = s[j]
  OBVIOUS
<1>2. z \in Seq(S) /\ Len(z) = Len(s) - i /\ \A j \in 1 .. Len(s) - i : z[j] = s[j + i]
  OBVIOUS
<1>3. RemoveAt(s, i) = a \o z
  BY DEF RemoveAt
<1> HIDE DEF a, z
<1>4. a \o z \in Seq(S) /\ Len(a \o z) = Len(a) + Len(z)
  BY <1>1, <1>2, ConcatProperties
<1>5. \A j \in 1 .. Len(a) + Len(z) : (a \o z)[j] = IF j <= Len(a) THEN a[j] ELSE z[j - Len(a)]
  BY <1>1, <1>2, ConcatProperties
<1>6. \A j \in 1 .. Len(s) - 1 : (a \o z)[j] = s[IF j < i THEN j ELSE j + 1]
  BY <1>1, <1>2, <1>5
<1>7. QED
  BY <1>1, <1>2, <1>3, <1>4, <1>6

(* Each element left has a place of its own in the old sequence, not i.    *)
LEMMA Kept ==
  ASSUME NEW S, NEW s \in Seq(S), NEW i \in DOMAIN s
  PROVE  /\ RemoveAt(s, i) \in Seq(S)
         /\ \E o \in [DOMAIN RemoveAt(s, i) -> DOMAIN s \ {i}] :
              /\ \A j \in DOMAIN RemoveAt(s, i) : RemoveAt(s, i)[j] = s[o[j]]
              /\ \A j, k \in DOMAIN RemoveAt(s, i) : o[j] = o[k] => j = k
              /\ \A k \in DOMAIN s \ {i} : \E j \in DOMAIN RemoveAt(s, i) : o[j] = k
<1> DEFINE r == RemoveAt(s, i)
           o == [j \in 1 .. Len(s) - 1 |-> IF j < i THEN j ELSE j + 1]
<1>1. i \in 1 .. Len(s)
  OBVIOUS
<1>2. r \in Seq(S) /\ Len(r) = Len(s) - 1
  BY <1>1, Removed
<1>3. DOMAIN r = 1 .. Len(s) - 1
  BY <1>2
<1>4. o \in [DOMAIN r -> DOMAIN s \ {i}]
  BY <1>1, <1>3
<1>5. \A j \in DOMAIN r : r[j] = s[o[j]]
  BY <1>1, <1>3, Removed
<1>6. \A j, k \in DOMAIN r : o[j] = o[k] => j = k
  BY <1>1, <1>3
<1>7. ASSUME NEW k \in DOMAIN s \ {i} PROVE \E j \in DOMAIN r : o[j] = k
  <2>1. k \in 1 .. Len(s) /\ k # i
    OBVIOUS
  <2>2. CASE k < i
    BY <1>1, <1>3, <2>1, <2>2
  <2>3. CASE k > i
    <3>1. k - 1 \in DOMAIN r /\ ~(k - 1 < i) /\ (k - 1) + 1 = k
      BY <1>1, <1>3, <2>1, <2>3
    <3>2. o[k - 1] = k
      BY <1>3, <3>1
    <3>3. QED
      BY <3>1, <3>2
  <2>4. QED
    BY <1>1, <2>1, <2>2, <2>3
<1>8. QED
  BY <1>2, <1>4, <1>5, <1>6, <1>7

(* The element at i is replaced.                                           *)
LEMMA SetAt ==
  ASSUME NEW S, NEW s \in Seq(S), NEW i \in DOMAIN s, NEW e \in S
  PROVE  [s EXCEPT ![i] = e] \in Seq(S)
  BY ExceptSeq

(* A step of a request leaves a request.                                   *)
LEMMA StepTyped ==
  ASSUME reqs \in Seq(Reqs), NEW i \in DOMAIN reqs, NEW p \in ReqSteps, Step(i, p)
  PROVE  reqs' \in Seq(Reqs)
<1>1. reqs[i] \in Reqs
  OBVIOUS
<1>2. [reqs[i] EXCEPT !.pc = p] \in Reqs
  BY <1>1 DEF Reqs
<1>3. reqs' = [reqs EXCEPT ![i] = [reqs[i] EXCEPT !.pc = p]]
  BY DEF Step
<1>4. QED
  BY <1>2, <1>3, SetAt

(* A tab whose promise settles is a tab.                                   *)
LEMMA SettledTyped ==
  ASSUME tabs \in [Tabs -> TabStates], NEW t \in Tabs
  PROVE  Settled(t) \in [Tabs -> TabStates]
<1>1. [tabs[t] EXCEPT !.waiting = 0, !.refreshing = FALSE] \in TabStates
  BY DEF TabStates
<1>2. QED
  BY <1>1 DEF Settled

(* Records with other fields are of the same kind.                         *)
LEMMA Records ==
  /\ \A e \in Reqs, p \in ReqSteps, n \in Nat : [e EXCEPT !.pc = p, !.jti = n] \in Reqs
  /\ \A e \in Families, n \in Nat : [e EXCEPT !.jti = n] \in Families
  /\ \A e \in Families, p \in Marks : [e EXCEPT !.revoked = p] \in Families
  /\ \A e \in Entries, p \in EntrySteps, n \in Nat : [e EXCEPT !.pc = p, !.family = n] \in Entries
  /\ \A e \in TabStates, n \in Nat : [e EXCEPT !.asked = n] \in TabStates
  /\ \A e \in TabStates, n \in Nat, w \in Nat :
       [e EXCEPT !.asked = n, !.waiting = w, !.refreshing = TRUE] \in TabStates
  BY DEF Reqs, Families, Entries, TabStates

(* A tab whose call waits, or returns at once, is a tab.                   *)
LEMMA WaitsTyped ==
  ASSUME NEW t \in Tabs, tabs[t] \in TabStates, tabs[t].asked - 1 \in Nat
  PROVE  /\ Waits(t) \in TabStates /\ Waits(t).refreshing /\ Waits(t).asked = tabs[t].asked - 1
         /\ Waits(t).waiting \in {tabs[t].waiting, tabs[t].waiting + 1}
<1> DEFINE e == tabs[t]
           n == e.asked - 1
           w == IF tabs[t].refreshing /\ ~Pending(t) THEN e.waiting ELSE e.waiting + 1
           z == [e EXCEPT !.asked = n, !.waiting = w, !.refreshing = TRUE]
<1>1. Waits(t) = z
  BY DEF Waits
<1>2. n \in Nat /\ w \in Nat /\ w \in {tabs[t].waiting, tabs[t].waiting + 1} /\ e \in TabStates
  BY DEF TabStates
<1>3. n = tabs[t].asked - 1
  OBVIOUS
<1> HIDE DEF n, w, e
<1>4. z \in TabStates /\ z.asked = n /\ z.waiting = w /\ z.refreshing
  BY <1>2 DEF TabStates
<1> HIDE DEF z
<1>5. QED
  BY <1>1, <1>2, <1>3, <1>4

(* A request that has passed the first check has a family.                 *)
LEMMA ReqFamily ==
  ASSUME Typed, ReqsRefer, NEW i \in DOMAIN reqs, reqs[i].pc \notin {"sent", "refuse"}
  PROVE  reqs[i].family \in DOMAIN families
<1>1. reqs[i].family \in 0 .. Len(families) /\ reqs[i].family # 0
  BY DEF ReqsRefer
<1>2. families \in Seq(Families)
  BY DEF Typed
<1>3. QED
  BY <1>1, <1>2

(* The requests left when one ends.                                        *)
LEMMA ReqsLeft ==
  ASSUME reqs \in Seq(Reqs), NEW i \in DOMAIN reqs, reqs' = RemoveAt(reqs, i)
  PROVE  /\ \A j \in DOMAIN reqs' : \E k \in DOMAIN reqs \ {i} : reqs'[j] = reqs[k]
         /\ \A j, l \in DOMAIN reqs' : j # l =>
              \E k, m \in DOMAIN reqs \ {i} : k # m /\ reqs'[j] = reqs[k] /\ reqs'[l] = reqs[m]
         /\ \A k \in DOMAIN reqs \ {i} : \E j \in DOMAIN reqs' : reqs'[j] = reqs[k]
<1>1. PICK o \in [DOMAIN RemoveAt(reqs, i) -> DOMAIN reqs \ {i}] :
           /\ \A j \in DOMAIN RemoveAt(reqs, i) : RemoveAt(reqs, i)[j] = reqs[o[j]]
           /\ \A j, k \in DOMAIN RemoveAt(reqs, i) : o[j] = o[k] => j = k
           /\ \A k \in DOMAIN reqs \ {i} : \E j \in DOMAIN RemoveAt(reqs, i) : o[j] = k
  BY Kept
<1>2. \A j \in DOMAIN reqs' : o[j] \in DOMAIN reqs \ {i} /\ reqs'[j] = reqs[o[j]]
  BY <1>1
<1>3. QED
  BY <1>1, <1>2

(* The sign-ins left when one ends.                                      *)
LEMMA EntriesLeft ==
  ASSUME entries \in Seq(Entries), NEW i \in DOMAIN entries, entries' = RemoveAt(entries, i)
  PROVE  /\ \A j \in DOMAIN entries' : \E k \in DOMAIN entries \ {i} : entries'[j] = entries[k]
         /\ \A j, l \in DOMAIN entries' : j # l =>
              \E k, m \in DOMAIN entries \ {i} :
                k # m /\ entries'[j] = entries[k] /\ entries'[l] = entries[m]
<1>1. PICK o \in [DOMAIN RemoveAt(entries, i) -> DOMAIN entries \ {i}] :
           /\ \A j \in DOMAIN RemoveAt(entries, i) : RemoveAt(entries, i)[j] = entries[o[j]]
           /\ \A j, k \in DOMAIN RemoveAt(entries, i) : o[j] = o[k] => j = k
  BY Kept
<1>2. \A j \in DOMAIN entries' : o[j] \in DOMAIN entries \ {i} /\ entries'[j] = entries[o[j]]
  BY <1>1
<1>3. QED
  BY <1>1, <1>2

(* What a refused call adds to the requests.                               *)
LEMMA ReqsJoined ==
  ASSUME reqs \in Seq(Reqs), NEW t \in Tabs, Refused(t)
  PROVE  \A j \in DOMAIN reqs' : (j \in DOMAIN reqs /\ reqs'[j] = reqs[j]) \/ reqs'[j] = Request(t)
<1>1. CASE reqs' = reqs
  BY <1>1
<1>2. CASE reqs' = Append(reqs, Request(t))
  BY <1>2
<1>3. QED
  BY <1>1, <1>2 DEF Refused

(* What a step does to one sign-in, when none ends.                        *)
LEMMA EntryMoved ==
  ASSUME entries \in Seq(Entries), NEW i \in DOMAIN entries, NEW p, To(i, p)
  PROVE  /\ DOMAIN entries' = DOMAIN entries
         /\ \A j \in DOMAIN entries \ {i} : entries'[j] = entries[j]
         /\ entries'[i].pc = p /\ entries'[i].link = entries[i].link
         /\ entries'[i].family = entries[i].family
<1>1. entries[i] \in Entries
  OBVIOUS
<1>2. QED
  BY <1>1 DEF To, Entries

(* A request that is granted its token.                                    *)
LEMMA ReqGranted ==
  ASSUME reqs \in Seq(Reqs), NEW i \in DOMAIN reqs, Rotate(i)
  PROVE  /\ DOMAIN reqs' = DOMAIN reqs
         /\ \A j \in DOMAIN reqs \ {i} : reqs'[j] = reqs[j]
         /\ reqs'[i].pc = "grant" /\ reqs'[i].jti = minted + 1
         /\ reqs'[i].family = reqs[i].family /\ reqs'[i].tab = reqs[i].tab
         /\ reqs'[i].late = reqs[i].late /\ reqs'[i].heard = reqs[i].heard
<1>1. reqs[i] \in Reqs
  OBVIOUS
<1> DEFINE m == minted + 1
           e == [reqs[i] EXCEPT !.pc = "grant", !.jti = m]
<1>2. reqs' = [reqs EXCEPT ![i] = e]
  BY DEF Rotate
<1> HIDE DEF m
<1>3. /\ e.pc = "grant" /\ e.jti = m /\ e.family = reqs[i].family /\ e.tab = reqs[i].tab
      /\ e.late = reqs[i].late /\ e.heard = reqs[i].heard
  BY <1>1 DEF Reqs
<1> HIDE DEF e
<1>4. QED
  BY <1>2, <1>3 DEF m

(* The families of an account that is left.                                *)
LEMMA FamiliesLeft ==
  ASSUME families \in Seq(Families), NEW b \in Browsers, RevokeAll(b)
  PROVE  /\ DOMAIN families' = DOMAIN families /\ Len(families') = Len(families)
         /\ \A f \in DOMAIN families :
              families'[f].jti = families[f].jti /\ families'[f].link = families[f].link
<1> DEFINE Out(f) == [families[f] EXCEPT !.revoked = IF @ = "no" THEN "logout" ELSE @]
           r == [f \in DOMAIN families |-> Out(f)]
<1>1. \A f \in DOMAIN families : families[f] \in Families
  OBVIOUS
<1>2. \A f \in DOMAIN families :
        Out(f) \in Families /\ Out(f).jti = families[f].jti /\ Out(f).link = families[f].link
  BY <1>1 DEF Families, Marks
<1>3. families' = r \/ families' = families
  BY DEF RevokeAll
<1> HIDE DEF Out
<1>4. DOMAIN r = 1 .. Len(families) /\ \A f \in DOMAIN families : r[f] = Out(f)
  OBVIOUS
<1>5. r \in [1 .. Len(families) -> Families]
  BY <1>2
<1> HIDE DEF r
<1>6. r \in Seq(Families)
  <2>1. Len(families) \in Nat
    OBVIOUS
  <2>2. [1 .. Len(families) -> Families] \in {[1 .. n -> Families] : n \in Nat}
    BY <2>1
  <2>3. r \in UNION {[1 .. n -> Families] : n \in Nat}
    BY <1>5, <2>2
  <2>4. QED
    BY <2>3, SeqDef
<1>7. Len(r) = Len(families)
  BY <1>4, <1>6
<1>8. QED
  BY <1>2, <1>3, <1>4, <1>7

(* An element is added at the end.                                         *)
LEMMA Appended ==
  ASSUME NEW S, NEW s \in Seq(S), NEW e
  PROVE  /\ \A j \in DOMAIN s : j \in DOMAIN Append(s, e) /\ Append(s, e)[j] = s[j]
         /\ \A j \in DOMAIN Append(s, e) : \/ j \in DOMAIN s /\ Append(s, e)[j] = s[j]
                                           \/ j = Len(s) + 1 /\ Append(s, e)[j] = e
  OBVIOUS

(* A sign-in begins.                                                     *)
LEMMA Entered ==
  ASSUME entries \in Seq(Entries), NEW b, NEW k, NEW pc, Enter(b, k, pc)
  PROVE  \A j \in DOMAIN entries' :
           \/ j \in DOMAIN entries /\ entries'[j] = entries[j]
           \/ entries'[j] = [browser |-> b, link |-> k, pc |-> pc, family |-> 0]
  BY Appended DEF Enter

(* Requests of an account that is restored are late no more.               *)
LEMMA ReqsRestored ==
  ASSUME reqs \in Seq(Reqs), Restore
  PROVE  /\ reqs' \in Seq(Reqs) /\ DOMAIN reqs' = DOMAIN reqs
         /\ \A i \in DOMAIN reqs :
              /\ ~reqs'[i].late /\ reqs'[i].tab = reqs[i].tab /\ reqs'[i].pc = reqs[i].pc
              /\ reqs'[i].family = reqs[i].family /\ reqs'[i].jti = reqs[i].jti
              /\ reqs'[i].heard = reqs[i].heard
<1> DEFINE Timely(i) == [reqs[i] EXCEPT !.late = FALSE]
           r == [i \in DOMAIN reqs |-> Timely(i)]
<1>1. \A i \in DOMAIN reqs : reqs[i] \in Reqs
  OBVIOUS
<1>2. \A i \in DOMAIN reqs :
        /\ Timely(i) \in Reqs
        /\ ~Timely(i).late /\ Timely(i).tab = reqs[i].tab /\ Timely(i).pc = reqs[i].pc
        /\ Timely(i).family = reqs[i].family /\ Timely(i).jti = reqs[i].jti
        /\ Timely(i).heard = reqs[i].heard
  BY <1>1 DEF Reqs
<1>3. reqs' = r
  BY DEF Restore
<1> HIDE DEF Timely
<1>4. DOMAIN r = 1 .. Len(reqs) /\ \A i \in DOMAIN reqs : r[i] = Timely(i)
  OBVIOUS
<1>5. r \in [1 .. Len(reqs) -> Reqs]
  BY <1>2
<1> HIDE DEF r
<1>6. r \in Seq(Reqs)
  <2>1. Len(reqs) \in Nat
    OBVIOUS
  <2>2. [1 .. Len(reqs) -> Reqs] \in {[1 .. n -> Reqs] : n \in Nat}
    BY <2>1
  <2>3. r \in UNION {[1 .. n -> Reqs] : n \in Nat}
    BY <1>5, <2>2
  <2>4. QED
    BY <2>3, SeqDef
<1>7. QED
  BY <1>2, <1>3, <1>4, <1>6

(* What a step of a request leaves alone.                                  *)
LEMMA ReqMoved ==
  ASSUME reqs \in Seq(Reqs), NEW i \in DOMAIN reqs, NEW p, Step(i, p)
  PROVE  /\ DOMAIN reqs' = DOMAIN reqs
         /\ \A j \in DOMAIN reqs \ {i} : reqs'[j] = reqs[j]
         /\ reqs'[i].pc = p /\ reqs'[i].jti = reqs[i].jti
         /\ reqs'[i].family = reqs[i].family /\ reqs'[i].tab = reqs[i].tab
         /\ reqs'[i].late = reqs[i].late /\ reqs'[i].heard = reqs[i].heard
<1>1. reqs[i] \in Reqs
  OBVIOUS
<1> DEFINE e == [reqs[i] EXCEPT !.pc = p]
<1>2. reqs' = [reqs EXCEPT ![i] = e]
  BY DEF Step
<1>3. /\ e.pc = p /\ e.jti = reqs[i].jti /\ e.family = reqs[i].family /\ e.tab = reqs[i].tab
      /\ e.late = reqs[i].late /\ e.heard = reqs[i].heard
  BY <1>1 DEF Reqs
<1> HIDE DEF e
<1>4. QED
  BY <1>2, <1>3

---------------------------------------------------------------------------
(* Each part of the invariant is preserved.                                *)

(* Every step keeps the types.                                             *)
LEMMA TypedNext ==
  Typed /\ Refer /\ [Next]_vars => Typed'
<1> SUFFICES ASSUME Typed, Refer, [Next]_vars PROVE Typed'
  OBVIOUS
<1> USE DEF Typed, db, web
<1>SendSignupLink. ASSUME SendSignupLink PROVE Typed'
  <2>1. spent' \in 0 .. Budget
    BY <1>SendSignupLink, Bounds DEF SendSignupLink, SendLink, Spend
  <2>2. links' \in Seq(Links)
    BY <1>SendSignupLink, Bounds DEF SendSignupLink, SendLink, Spend, Links
  <2>3. QED
    BY <1>SendSignupLink, <2>1, <2>2 DEF SendSignupLink, SendLink, Spend
<1>SendLoginLink. ASSUME SendLoginLink PROVE Typed'
  <2>1. spent' \in 0 .. Budget
    BY <1>SendLoginLink, Bounds DEF SendLoginLink, SendLink, Spend
  <2>2. links' \in Seq(Links)
    BY <1>SendLoginLink, Bounds DEF SendLoginLink, SendLink, Spend, Links
  <2>3. QED
    BY <1>SendLoginLink, <2>1, <2>2 DEF SendLoginLink, SendLink, Spend
<1>Login. ASSUME NEW b \in Browsers, Login(b) PROVE Typed'
  <2>1. spent' \in 0 .. Budget
    BY <1>Login, Bounds DEF Login, Enter, Spend
  <2>2. entries' \in Seq(Entries)
    BY <1>Login, Bounds DEF Login, Enter, Spend, Entries, EntrySteps
  <2>3. QED
    BY <1>Login, <2>1, <2>2 DEF Login, Enter, Spend
<1>Provision. ASSUME NEW b \in Browsers, Provision(b) PROVE Typed'
  <2>1. spent' \in 0 .. Budget
    BY <1>Provision, Bounds DEF Provision, Enter, Spend
  <2>2. entries' \in Seq(Entries)
    BY <1>Provision, Bounds DEF Provision, Enter, Spend, Entries, EntrySteps
  <2>3. QED
    BY <1>Provision, <2>1, <2>2 DEF Provision, Enter, Spend
<1>Logout. ASSUME NEW b \in Browsers, Logout(b) PROVE Typed'
  <2>1. jar' \in [Browsers -> Jars]
    BY <1>Logout, Bounds DEF Logout, Jars, EmptyJar
  <2>2. QED
    BY <1>Logout, <2>1 DEF Logout
<1>DeleteMe. ASSUME NEW b \in Browsers, DeleteMe(b) PROVE Typed'
  <2>1. account' \in Statuses
    BY <1>DeleteMe, Bounds DEF DeleteMe, Statuses
  <2>2. leaving' \in [Browsers -> {"no", "revoke", "reply", "done"}]
    BY <1>DeleteMe, Bounds DEF DeleteMe
  <2>3. QED
    BY <1>DeleteMe, <2>1, <2>2 DEF DeleteMe
<1>Expire. ASSUME NEW b \in Browsers, Expire(b) PROVE Typed'
  <2>1. jar' \in [Browsers -> Jars]
    BY <1>Expire, Bounds DEF Expire, Jars, EmptyJar
  <2>2. QED
    BY <1>Expire, <2>1 DEF Expire
<1>Verify. ASSUME NEW b \in Browsers, NEW k \in DOMAIN links, Verify(b, k) PROVE Typed'
  <2>1. spent' \in 0 .. Budget
    BY <1>Verify, Bounds DEF Verify, Enter, Spend
  <2>2. entries' \in Seq(Entries)
    BY <1>Verify, Bounds DEF Verify, Enter, Spend, Entries, EntrySteps
  <2>3. QED
    BY <1>Verify, <2>1, <2>2 DEF Verify, Enter, Spend
<1>Call. ASSUME NEW t \in Tabs, Call(t) PROVE Typed'
  <2>1. spent' \in 0 .. Budget
    BY <1>Call, Bounds DEF Call, Spend
  <2>2. tabs' \in [Tabs -> TabStates]
    <3>1. tabs[t].asked + 1 \in Nat
      BY DEF TabStates
    <3>2. [tabs[t] EXCEPT !.asked = @ + 1] \in TabStates
      BY <3>1, Records
    <3>3. QED
      BY <1>Call, <3>2 DEF Call
  <2>3. QED
    BY <1>Call, <2>1, <2>2 DEF Call, Spend
<1>Refused. ASSUME NEW t \in Tabs, Refused(t) PROVE Typed'
  <2>1. tabs' \in [Tabs -> TabStates]
    <3>1. tabs[t] \in TabStates /\ tabs[t].asked - 1 \in Nat /\ tabs[t].waiting + 1 \in Nat
      BY <1>Refused DEF TabStates, Refused
    <3>2. Waits(t) \in TabStates
      BY <3>1, WaitsTyped
    <3>3. QED
      BY <1>Refused, <3>2 DEF Refused
  <2>2. reqs' \in Seq(Reqs)
    <3>1. Home[t] \in Browsers
      BY Bounds
    <3>2. jar[Home[t]] \in Jars
      BY <3>1
    <3>3. Request(t) \in Reqs
      BY <3>2 DEF Request, Inactive, Reqs, ReqSteps, Jars
    <3>4. reqs' = reqs \/ reqs' = Append(reqs, Request(t))
      BY <1>Refused DEF Refused
    <3>5. reqs \in Seq(Reqs)
      OBVIOUS
    <3>6. Append(reqs, Request(t)) \in Seq(Reqs)
      BY <3>3, <3>5, AppendProperties
    <3>7. QED
      BY <3>4, <3>5, <3>6
  <2>3. crossed' \in [Browsers -> BOOLEAN]
    BY <1>Refused, Bounds DEF Refused, Waits, Request, Inactive, Busy
  <2>4. QED
    BY <1>Refused, <2>1, <2>2, <2>3 DEF Refused, Waits, Request, Inactive, Busy
<1>Check. ASSUME NEW i \in DOMAIN reqs, Check(i) PROVE Typed'
  <2>1. reqs' \in Seq(Reqs)
    <3> DEFINE p == IF reqs[i].family = 0 THEN "refuse"
                    ELSE IF FamilyOf(i).revoked # "no" THEN "clear"
                    ELSE IF FamilyOf(i).jti # reqs[i].jti THEN "reuse" ELSE "user"
    <3>1. p \in ReqSteps
      BY DEF ReqSteps
    <3>2. Step(i, p)
      BY <1>Check DEF Check
    <3>3. QED
      BY <3>1, <3>2, StepTyped
  <2>2. QED
    BY <1>Check, <2>1 DEF Check, Step, FamilyOf
<1>Reused. ASSUME NEW i \in DOMAIN reqs, Reused(i) PROVE Typed'
  <2>1. families' \in Seq(Families)
    <3>1. reqs[i].family \in DOMAIN families
      BY <1>Reused, ReqFamily DEF Refer, Reused
    <3>2. families[reqs[i].family] \in Families
      BY <3>1
    <3>3. [families[reqs[i].family] EXCEPT !.revoked = "theft_suspected"] \in Families
      BY <1>Reused, <3>2 DEF Families, Marks
    <3>4. families' = [families EXCEPT ![reqs[i].family] = [families[reqs[i].family] EXCEPT !.revoked = "theft_suspected"]]
      BY <1>Reused DEF Reused, Revoke, Step
    <3>5. QED
      BY <3>3, <3>4, <3>1, SetAt
  <2>2. reqs' \in Seq(Reqs)
    <3>1. "clear" \in ReqSteps
      BY DEF ReqSteps
    <3>2. Step(i, "clear")
      BY <1>Reused DEF Reused, Revoke
    <3>3. QED
      BY <3>1, <3>2, StepTyped
  <2>3. QED
    BY <1>Reused, <2>1, <2>2 DEF Reused, Revoke, Step
<1>ReadUser. ASSUME NEW i \in DOMAIN reqs, ReadUser(i) PROVE Typed'
  <2>1. reqs' \in Seq(Reqs)
    <3>1. (IF account = "active" THEN "rotate" ELSE "bar") \in ReqSteps
      BY DEF ReqSteps
    <3>2. Step(i, (IF account = "active" THEN "rotate" ELSE "bar"))
      BY <1>ReadUser DEF ReadUser
    <3>3. QED
      BY <3>1, <3>2, StepTyped
  <2>2. QED
    BY <1>ReadUser, <2>1 DEF ReadUser, Step
<1>Barred. ASSUME NEW i \in DOMAIN reqs, Barred(i) PROVE Typed'
  <2>1. families' \in Seq(Families)
    <3>1. reqs[i].family \in DOMAIN families
      BY <1>Barred, ReqFamily DEF Refer, Barred
    <3>2. families[reqs[i].family] \in Families
      BY <3>1
    <3>3. [families[reqs[i].family] EXCEPT !.revoked = "logout"] \in Families
      BY <1>Barred, <3>2 DEF Families, Marks
    <3>4. families' = [families EXCEPT ![reqs[i].family] = [families[reqs[i].family] EXCEPT !.revoked = "logout"]]
      BY <1>Barred DEF Barred, Revoke, Step
    <3>5. QED
      BY <3>3, <3>4, <3>1, SetAt
  <2>2. reqs' \in Seq(Reqs)
    <3>1. "clear" \in ReqSteps
      BY DEF ReqSteps
    <3>2. Step(i, "clear")
      BY <1>Barred DEF Barred, Revoke
    <3>3. QED
      BY <3>1, <3>2, StepTyped
  <2>3. QED
    BY <1>Barred, <2>1, <2>2 DEF Barred, Revoke, Step
<1>Rotate. ASSUME NEW i \in DOMAIN reqs, Rotate(i) PROVE Typed'
  <2>1. minted' \in Nat
    BY <1>Rotate, Bounds DEF Rotate
  <2>2. families' \in Seq(Families)
    <3>0. minted + 1 \in Nat
      OBVIOUS
    <3>1. reqs[i].family \in DOMAIN families
      BY <1>Rotate, ReqFamily DEF Refer, Rotate
    <3>2. families[reqs[i].family] \in Families
      BY <3>1
    <3>3. [families[reqs[i].family] EXCEPT !.jti = minted + 1] \in Families
      BY <3>2, <3>0, Records
    <3>4. families' = [families EXCEPT ![reqs[i].family] = [families[reqs[i].family] EXCEPT !.jti = minted + 1]]
      BY <1>Rotate DEF Rotate
    <3>5. QED
      BY <3>3, <3>4, <3>1, SetAt
  <2>3. reqs' \in Seq(Reqs)
    <3>0. minted + 1 \in Nat
      OBVIOUS
    <3>1. reqs[i] \in Reqs
      OBVIOUS
    <3>2. [reqs[i] EXCEPT !.pc = "grant", !.jti = minted + 1] \in Reqs
      BY <3>1, <3>0, Records DEF ReqSteps
    <3>3. reqs' = [reqs EXCEPT ![i] = [reqs[i] EXCEPT !.pc = "grant", !.jti = minted + 1]]
      BY <1>Rotate DEF Rotate
    <3>4. QED
      BY <3>2, <3>3, SetAt
  <2>4. QED
    BY <1>Rotate, <2>1, <2>2, <2>3 DEF Rotate
<1>Reply. ASSUME NEW i \in DOMAIN reqs, Reply(i) PROVE Typed'
  <2>1. reqs' \in Seq(Reqs)
    <3>1. RemoveAt(reqs, i) \in Seq(Reqs)
      BY Kept
    <3>2. QED
      BY <1>Reply, <3>1 DEF Reply
  <2>2. jar' \in [Browsers -> Jars]
    <3>1. reqs[i] \in Reqs
      OBVIOUS
    <3>2. Home[reqs[i].tab] \in Browsers
      BY <3>1, Bounds DEF Reqs
    <3>3. CookiesAfter(i, jar[Home[reqs[i].tab]]) \in Jars
      BY <3>1, <3>2 DEF CookiesAfter, Jars, EmptyJar, Reqs
    <3>4. QED
      BY <1>Reply, <3>3 DEF Reply
  <2>3. tabs' \in [Tabs -> TabStates]
    <3>1. reqs[i] \in Reqs
      OBVIOUS
    <3>2. reqs[i].tab \in Tabs
      BY <3>1 DEF Reqs
    <3>3. Settled(reqs[i].tab) \in [Tabs -> TabStates]
      BY <3>2, SettledTyped
    <3>4. QED
      BY <1>Reply, <3>3 DEF Reply
  <2>4. QED
    BY <1>Reply, <2>1, <2>2, <2>3 DEF Reply, Settled, CookiesAfter
<1>Break. ASSUME NEW i \in DOMAIN reqs, Break(i) PROVE Typed'
  <2>1. spent' \in 0 .. Budget
    BY <1>Break, Bounds DEF Break, Spend, Settled
  <2>2. reqs' \in Seq(Reqs)
    <3>1. CASE reqs' = RemoveAt(reqs, i)
      BY <3>1, Kept
    <3>2. CASE reqs' = [reqs EXCEPT ![i].heard = FALSE]
      <4>1. reqs[i] \in Reqs
        OBVIOUS
      <4>2. [reqs[i] EXCEPT !.heard = FALSE] \in Reqs
        BY <4>1 DEF Reqs
      <4>3. QED
        BY <3>2, <4>2, SetAt
    <3>3. QED
      BY <1>Break, <3>1, <3>2 DEF Break
  <2>3. tabs' \in [Tabs -> TabStates]
    <3>1. reqs[i] \in Reqs
      OBVIOUS
    <3>2. reqs[i].tab \in Tabs
      BY <3>1 DEF Reqs
    <3>3. Settled(reqs[i].tab) \in [Tabs -> TabStates]
      BY <3>2, SettledTyped
    <3>4. QED
      BY <1>Break, <3>3 DEF Break
  <2>4. crossed' \in [Browsers -> BOOLEAN]
    BY <1>Break, Bounds DEF Break, Spend, Settled
  <2>5. QED
    BY <1>Break, <2>1, <2>2, <2>3, <2>4 DEF Break, Spend, Settled
<1>ScimCreate. ASSUME NEW s \in {"active", "suspended"}, ScimCreate(s) PROVE Typed'
  <2>1. spent' \in 0 .. Budget
    BY <1>ScimCreate, Bounds DEF ScimCreate, Spend
  <2>2. account' \in Statuses
    BY <1>ScimCreate, Bounds DEF ScimCreate, Spend, Statuses
  <2>3. QED
    BY <1>ScimCreate, <2>1, <2>2 DEF ScimCreate, Spend
<1>Suspend. ASSUME Suspend PROVE Typed'
  <2>1. spent' \in 0 .. Budget
    BY <1>Suspend, Bounds DEF Suspend, Spend
  <2>2. account' \in Statuses
    BY <1>Suspend, Bounds DEF Suspend, Spend, Statuses
  <2>3. QED
    BY <1>Suspend, <2>1, <2>2 DEF Suspend, Spend
<1>Restore. ASSUME Restore PROVE Typed'
  <2>1. spent' \in 0 .. Budget
    BY <1>Restore, Bounds DEF Restore, Spend
  <2>2. account' \in Statuses
    BY <1>Restore, Bounds DEF Restore, Spend, Statuses
  <2>3. reqs' \in Seq(Reqs)
    BY <1>Restore, ReqsRestored
  <2>4. QED
    BY <1>Restore, <2>1, <2>2, <2>3 DEF Restore, Spend
<1>Create. ASSUME NEW i \in DOMAIN entries, Create(i) PROVE Typed'
  <2>1. account' \in Statuses
    BY <1>Create, Bounds DEF Create, Insert, To, Ended, Statuses
  <2>2. entries' \in Seq(Entries)
    <3>1. CASE Ended(i)
      BY <3>1, Kept DEF Ended
    <3>2. CASE To(i, "mark")
      <4>1. entries[i] \in Entries
        OBVIOUS
      <4>2. [entries[i] EXCEPT !.pc = "mark"] \in Entries
        BY <4>1 DEF Entries, EntrySteps
      <4>3. QED
        BY <3>2, <4>2, SetAt DEF To
    <3>3. QED
      BY <1>Create, <3>1, <3>2 DEF Create, Insert
  <2>3. QED
    BY <1>Create, <2>1, <2>2 DEF Create, Insert, To, Ended
<1>Provisioned. ASSUME NEW i \in DOMAIN entries, Provisioned(i) PROVE Typed'
  <2>1. account' \in Statuses
    BY <1>Provisioned, Bounds DEF Provisioned, Insert, To, Ended, Statuses
  <2>2. entries' \in Seq(Entries)
    <3>1. CASE Ended(i)
      BY <3>1, Kept DEF Ended
    <3>2. CASE To(i, "issue")
      <4>1. entries[i] \in Entries
        OBVIOUS
      <4>2. [entries[i] EXCEPT !.pc = "issue"] \in Entries
        BY <4>1 DEF Entries, EntrySteps
      <4>3. QED
        BY <3>2, <4>2, SetAt DEF To
    <3>3. QED
      BY <1>Provisioned, <3>1, <3>2 DEF Provisioned, Insert
  <2>3. QED
    BY <1>Provisioned, <2>1, <2>2 DEF Provisioned, Insert, To, Ended
<1>MarkUsed. ASSUME NEW i \in DOMAIN entries, MarkUsed(i) PROVE Typed'
  <2>1. links' \in Seq(Links)
    <3>0. DOMAIN links = 1 .. Len(links) /\ Len(links) \in Nat
      OBVIOUS
    <3>1. entries[i].link \in DOMAIN links
      BY <1>MarkUsed, <3>0 DEF MarkUsed, Refer, EntriesRefer
    <3>2. links[entries[i].link] \in Links
      BY <3>1
    <3>3. [links[entries[i].link] EXCEPT !.used = TRUE] \in Links
      BY <3>2 DEF Links
    <3>4. [links EXCEPT ![entries[i].link] = [links[entries[i].link] EXCEPT !.used = TRUE]] \in Seq(Links)
      BY <3>1, <3>3, SetAt
    <3>5. QED
      BY <1>MarkUsed, <3>4 DEF MarkUsed
  <2>2. entries' \in Seq(Entries)
    <3>1. CASE Ended(i)
      BY <3>1, Kept DEF Ended
    <3>2. CASE To(i, "issue")
      <4>1. entries[i] \in Entries
        OBVIOUS
      <4>2. [entries[i] EXCEPT !.pc = "issue"] \in Entries
        BY <4>1 DEF Entries, EntrySteps
      <4>3. QED
        BY <3>2, <4>2, SetAt DEF To
    <3>3. QED
      BY <1>MarkUsed, <3>1, <3>2 DEF MarkUsed
  <2>3. spent' \in 0 .. Budget
    BY <1>MarkUsed, Bounds DEF MarkUsed, To, Ended, Spend
  <2>4. QED
    BY <1>MarkUsed, <2>1, <2>2, <2>3 DEF MarkUsed, To, Ended, Spend
<1>Issue. ASSUME NEW i \in DOMAIN entries, Issue(i) PROVE Typed'
  <2>1. minted' \in Nat
    BY <1>Issue, Bounds DEF Issue
  <2>2. families' \in Seq(Families)
    <3>1. entries[i] \in Entries
      OBVIOUS
    <3>2. [jti |-> minted + 1, revoked |-> "no", link |-> entries[i].link] \in Families
      BY <3>1 DEF Families, Marks, Entries
    <3>3. QED
      BY <1>Issue, <3>2 DEF Issue
  <2>3. entries' \in Seq(Entries)
    <3>0. Len(families) + 1 \in Nat
      OBVIOUS
    <3>1. entries[i] \in Entries
      OBVIOUS
    <3>2. [entries[i] EXCEPT !.pc = "reply", !.family = Len(families) + 1] \in Entries
      BY <3>1, <3>0, Records DEF EntrySteps
    <3>3. entries' = [entries EXCEPT ![i] = [entries[i] EXCEPT !.pc = "reply", !.family = Len(families) + 1]]
      BY <1>Issue DEF Issue
    <3>4. QED
      BY <3>2, <3>3, SetAt
  <2>4. QED
    BY <1>Issue, <2>1, <2>2, <2>3 DEF Issue
<1>SignedIn. ASSUME NEW i \in DOMAIN entries, SignedIn(i) PROVE Typed'
  <2>1. entries' \in Seq(Entries)
    <3>1. RemoveAt(entries, i) \in Seq(Entries)
      BY Kept
    <3>2. QED
      BY <1>SignedIn, <3>1 DEF SignedIn, Ended
  <2>2. jar' \in [Browsers -> Jars]
    <3> DEFINE f == entries[i].family
    <3>1. f \in DOMAIN families
      BY <1>SignedIn DEF SignedIn, Refer, EntriesRefer
    <3>2. families[f] \in Families
      BY <3>1
    <3>3. [at |-> TRUE, family |-> f, jti |-> families[f].jti] \in Jars
      BY <3>1, <3>2 DEF Families, Jars
    <3>4. QED
      BY <1>SignedIn, <3>3 DEF SignedIn
  <2>3. crossed' \in [Browsers -> BOOLEAN]
    BY <1>SignedIn, Bounds DEF SignedIn, Ended, Busy
  <2>4. QED
    BY <1>SignedIn, <2>1, <2>2, <2>3 DEF SignedIn, Ended, Busy
<1>RevokeAll. ASSUME NEW b \in Browsers, RevokeAll(b) PROVE Typed'
  <2>1. families' \in Seq(Families)
    <3> DEFINE Ended1(f) == [families[f] EXCEPT !.revoked = IF @ = "no" THEN "logout" ELSE @]
               r == [f \in DOMAIN families |-> Ended1(f)]
    <3>1. \A f \in DOMAIN families : families[f] \in Families
      OBVIOUS
    <3>2. \A f \in DOMAIN families : Ended1(f) \in Families
      BY <3>1 DEF Families, Marks
    <3> HIDE DEF Ended1
    <3>3. r \in [1 .. Len(families) -> Families]
      BY <3>2
    <3> HIDE DEF r
    <3>4. r \in Seq(Families)
      <4>1. Len(families) \in Nat
        OBVIOUS
      <4>2. [1 .. Len(families) -> Families] \in {[1 .. n -> Families] : n \in Nat}
        BY <4>1
      <4>3. r \in UNION {[1 .. n -> Families] : n \in Nat}
        BY <3>3, <4>2
      <4>4. QED
        BY <4>3, SeqDef
    <3>5. families' = r \/ families' = families
      BY <1>RevokeAll DEF RevokeAll, r, Ended1
    <3>6. QED
      BY <3>4, <3>5
  <2>2. leaving' \in [Browsers -> {"no", "revoke", "reply", "done"}]
    BY <1>RevokeAll, Bounds DEF RevokeAll, Spend
  <2>3. spent' \in 0 .. Budget
    BY <1>RevokeAll, Bounds DEF RevokeAll, Spend
  <2>4. QED
    BY <1>RevokeAll, <2>1, <2>2, <2>3 DEF RevokeAll, Spend
<1>Left. ASSUME NEW b \in Browsers, Left(b) PROVE Typed'
  <2>1. leaving' \in [Browsers -> {"no", "revoke", "reply", "done"}]
    BY <1>Left, Bounds DEF Left
  <2>2. jar' \in [Browsers -> Jars]
    BY <1>Left, Bounds DEF Left, Jars, EmptyJar
  <2>3. QED
    BY <1>Left, <2>1, <2>2 DEF Left
<1>Stutter. CASE UNCHANGED vars
  BY <1>Stutter DEF vars
<1> HIDE DEF Typed, db, web
<1>QED. QED
  BY <1>SendSignupLink, <1>SendLoginLink, <1>Login, <1>Provision, <1>Logout, <1>DeleteMe,
     <1>Expire, <1>Verify, <1>Call, <1>Refused, <1>Check, <1>Reused,
     <1>ReadUser, <1>Barred, <1>Rotate, <1>Reply, <1>Break, <1>ScimCreate,
     <1>Suspend, <1>Restore, <1>Create, <1>Provisioned, <1>MarkUsed, <1>Issue,
     <1>SignedIn, <1>RevokeAll, <1>Left, <1>Stutter
     DEF Next, User, Directory, Refresh, SignIn

(* Families name tokens and links that exist.                              *)
LEMMA FamiliesReferNext ==
  Typed /\ Refer /\ [Next]_vars => FamiliesRefer'
<1> SUFFICES ASSUME Typed, Refer, [Next]_vars PROVE FamiliesRefer'
  OBVIOUS
<1> USE DEF Typed, Refer, FamiliesRefer, db, web
<1>SendSignupLink. ASSUME SendSignupLink PROVE FamiliesRefer'
  BY <1>SendSignupLink DEF SendSignupLink, SendLink, Spend
<1>SendLoginLink. ASSUME SendLoginLink PROVE FamiliesRefer'
  BY <1>SendLoginLink DEF SendLoginLink, SendLink, Spend
<1>Login. ASSUME NEW b \in Browsers, Login(b) PROVE FamiliesRefer'
  BY <1>Login DEF Login, Enter, Spend
<1>Provision. ASSUME NEW b \in Browsers, Provision(b) PROVE FamiliesRefer'
  BY <1>Provision DEF Provision, Enter, Spend
<1>Logout. ASSUME NEW b \in Browsers, Logout(b) PROVE FamiliesRefer'
  BY <1>Logout DEF Logout
<1>DeleteMe. ASSUME NEW b \in Browsers, DeleteMe(b) PROVE FamiliesRefer'
  BY <1>DeleteMe DEF DeleteMe
<1>Expire. ASSUME NEW b \in Browsers, Expire(b) PROVE FamiliesRefer'
  BY <1>Expire DEF Expire
<1>Verify. ASSUME NEW b \in Browsers, NEW k \in DOMAIN links, Verify(b, k) PROVE FamiliesRefer'
  BY <1>Verify DEF Verify, Enter, Spend
<1>Call. ASSUME NEW t \in Tabs, Call(t) PROVE FamiliesRefer'
  BY <1>Call DEF Call, Spend
<1>Refused. ASSUME NEW t \in Tabs, Refused(t) PROVE FamiliesRefer'
  BY <1>Refused DEF Refused, Waits, Request, Inactive, Busy
<1>Check. ASSUME NEW i \in DOMAIN reqs, Check(i) PROVE FamiliesRefer'
  BY <1>Check DEF Check, Step, FamilyOf
<1>Reused. ASSUME NEW i \in DOMAIN reqs, Reused(i) PROVE FamiliesRefer'
  BY <1>Reused DEF Reused, Revoke, Step
<1>ReadUser. ASSUME NEW i \in DOMAIN reqs, ReadUser(i) PROVE FamiliesRefer'
  BY <1>ReadUser DEF ReadUser, Step
<1>Barred. ASSUME NEW i \in DOMAIN reqs, Barred(i) PROVE FamiliesRefer'
  BY <1>Barred DEF Barred, Revoke, Step
<1>Rotate. ASSUME NEW i \in DOMAIN reqs, Rotate(i) PROVE FamiliesRefer'
  BY <1>Rotate DEF Rotate
<1>Reply. ASSUME NEW i \in DOMAIN reqs, Reply(i) PROVE FamiliesRefer'
  BY <1>Reply DEF Reply, Settled, CookiesAfter
<1>Break. ASSUME NEW i \in DOMAIN reqs, Break(i) PROVE FamiliesRefer'
  BY <1>Break DEF Break, Spend, Settled
<1>ScimCreate. ASSUME NEW s \in {"active", "suspended"}, ScimCreate(s) PROVE FamiliesRefer'
  BY <1>ScimCreate DEF ScimCreate, Spend
<1>Suspend. ASSUME Suspend PROVE FamiliesRefer'
  BY <1>Suspend DEF Suspend, Spend
<1>Restore. ASSUME Restore PROVE FamiliesRefer'
  BY <1>Restore DEF Restore, Spend
<1>Create. ASSUME NEW i \in DOMAIN entries, Create(i) PROVE FamiliesRefer'
  BY <1>Create DEF Create, Insert, To, Ended
<1>Provisioned. ASSUME NEW i \in DOMAIN entries, Provisioned(i) PROVE FamiliesRefer'
  BY <1>Provisioned DEF Provisioned, Insert, To, Ended
<1>MarkUsed. ASSUME NEW i \in DOMAIN entries, MarkUsed(i) PROVE FamiliesRefer'
  BY <1>MarkUsed DEF MarkUsed, To, Ended, Spend
<1>Issue. ASSUME NEW i \in DOMAIN entries, Issue(i) PROVE FamiliesRefer'
  <2>1. entries[i].link \in 0 .. Len(links)
    BY DEF EntriesRefer
  <2> DEFINE r == [jti |-> minted + 1, revoked |-> "no", link |-> entries[i].link]
  <2>2. families' = Append(families, r) /\ minted' = minted + 1 /\ links' = links
    BY <1>Issue DEF Issue
  <2>3. r.jti = minted' /\ r.link \in 0 .. Len(links')
    BY <2>1, <2>2
  <2> HIDE DEF r
  <2>4. QED
    BY <2>2, <2>3
<1>SignedIn. ASSUME NEW i \in DOMAIN entries, SignedIn(i) PROVE FamiliesRefer'
  BY <1>SignedIn DEF SignedIn, Ended, Busy
<1>RevokeAll. ASSUME NEW b \in Browsers, RevokeAll(b) PROVE FamiliesRefer'
  <2>1. UNCHANGED <<minted, links>>
    BY <1>RevokeAll DEF RevokeAll
  <2>2. QED
    BY <1>RevokeAll, <2>1, FamiliesLeft
<1>Left. ASSUME NEW b \in Browsers, Left(b) PROVE FamiliesRefer'
  BY <1>Left DEF Left
<1>Stutter. CASE UNCHANGED vars
  BY <1>Stutter DEF vars
<1> HIDE DEF Typed, Refer, FamiliesRefer, db, web
<1>QED. QED
  BY <1>SendSignupLink, <1>SendLoginLink, <1>Login, <1>Provision, <1>Logout, <1>DeleteMe,
     <1>Expire, <1>Verify, <1>Call, <1>Refused, <1>Check, <1>Reused,
     <1>ReadUser, <1>Barred, <1>Rotate, <1>Reply, <1>Break, <1>ScimCreate,
     <1>Suspend, <1>Restore, <1>Create, <1>Provisioned, <1>MarkUsed, <1>Issue,
     <1>SignedIn, <1>RevokeAll, <1>Left, <1>Stutter
     DEF Next, User, Directory, Refresh, SignIn

(* Jars hold tokens and families that exist.                               *)
LEMMA JarsReferNext ==
  Typed /\ Refer /\ [Next]_vars => JarsRefer'
<1> SUFFICES ASSUME Typed, Refer, [Next]_vars PROVE JarsRefer'
  OBVIOUS
<1> USE DEF Typed, Refer, JarsRefer, db, web
<1>SendSignupLink. ASSUME SendSignupLink PROVE JarsRefer'
  BY <1>SendSignupLink DEF SendSignupLink, SendLink, Spend
<1>SendLoginLink. ASSUME SendLoginLink PROVE JarsRefer'
  BY <1>SendLoginLink DEF SendLoginLink, SendLink, Spend
<1>Login. ASSUME NEW b \in Browsers, Login(b) PROVE JarsRefer'
  BY <1>Login DEF Login, Enter, Spend
<1>Provision. ASSUME NEW b \in Browsers, Provision(b) PROVE JarsRefer'
  BY <1>Provision DEF Provision, Enter, Spend
<1>Logout. ASSUME NEW b \in Browsers, Logout(b) PROVE JarsRefer'
  BY <1>Logout DEF Logout, EmptyJar
<1>DeleteMe. ASSUME NEW b \in Browsers, DeleteMe(b) PROVE JarsRefer'
  BY <1>DeleteMe DEF DeleteMe
<1>Expire. ASSUME NEW b \in Browsers, Expire(b) PROVE JarsRefer'
  BY <1>Expire DEF Expire
<1>Verify. ASSUME NEW b \in Browsers, NEW k \in DOMAIN links, Verify(b, k) PROVE JarsRefer'
  BY <1>Verify DEF Verify, Enter, Spend
<1>Call. ASSUME NEW t \in Tabs, Call(t) PROVE JarsRefer'
  BY <1>Call DEF Call, Spend
<1>Refused. ASSUME NEW t \in Tabs, Refused(t) PROVE JarsRefer'
  BY <1>Refused DEF Refused, Waits, Request, Inactive, Busy
<1>Check. ASSUME NEW i \in DOMAIN reqs, Check(i) PROVE JarsRefer'
  BY <1>Check DEF Check, Step, FamilyOf
<1>Reused. ASSUME NEW i \in DOMAIN reqs, Reused(i) PROVE JarsRefer'
  BY <1>Reused DEF Reused, Revoke, Step
<1>ReadUser. ASSUME NEW i \in DOMAIN reqs, ReadUser(i) PROVE JarsRefer'
  BY <1>ReadUser DEF ReadUser, Step
<1>Barred. ASSUME NEW i \in DOMAIN reqs, Barred(i) PROVE JarsRefer'
  BY <1>Barred DEF Barred, Revoke, Step
<1>Rotate. ASSUME NEW i \in DOMAIN reqs, Rotate(i) PROVE JarsRefer'
  BY <1>Rotate DEF Rotate
<1>Reply. ASSUME NEW i \in DOMAIN reqs, Reply(i) PROVE JarsRefer'
  <2>1. reqs[i].family \in 0 .. Len(families) /\ reqs[i].jti \in 0 .. minted
    BY DEF ReqsRefer
  <2>2. \A b \in Browsers : jar'[b] = jar[b] \/ jar'[b] = EmptyJar
                           \/ (jar'[b].family = reqs[i].family /\ jar'[b].jti = reqs[i].jti)
    BY <1>Reply DEF Reply, CookiesAfter
  <2>3. UNCHANGED <<families, minted>>
    BY <1>Reply DEF Reply
  <2>4. SUFFICES ASSUME NEW b \in Browsers
                 PROVE  jar'[b].family \in 0 .. Len(families) /\ jar'[b].jti \in 0 .. minted
    BY <2>3
  <2>5. jar[b].family \in 0 .. Len(families) /\ jar[b].jti \in 0 .. minted
    OBVIOUS
  <2>6. 0 \in 0 .. Len(families) /\ 0 \in 0 .. minted
    OBVIOUS
  <2> HIDE DEF Typed, Refer, JarsRefer
  <2>7. QED
    BY <2>1, <2>2, <2>5, <2>6 DEF EmptyJar
<1>Break. ASSUME NEW i \in DOMAIN reqs, Break(i) PROVE JarsRefer'
  BY <1>Break DEF Break, Spend, Settled
<1>ScimCreate. ASSUME NEW s \in {"active", "suspended"}, ScimCreate(s) PROVE JarsRefer'
  BY <1>ScimCreate DEF ScimCreate, Spend
<1>Suspend. ASSUME Suspend PROVE JarsRefer'
  BY <1>Suspend DEF Suspend, Spend
<1>Restore. ASSUME Restore PROVE JarsRefer'
  BY <1>Restore DEF Restore, Spend
<1>Create. ASSUME NEW i \in DOMAIN entries, Create(i) PROVE JarsRefer'
  BY <1>Create DEF Create, Insert, To, Ended
<1>Provisioned. ASSUME NEW i \in DOMAIN entries, Provisioned(i) PROVE JarsRefer'
  BY <1>Provisioned DEF Provisioned, Insert, To, Ended
<1>MarkUsed. ASSUME NEW i \in DOMAIN entries, MarkUsed(i) PROVE JarsRefer'
  BY <1>MarkUsed DEF MarkUsed, To, Ended, Spend
<1>Issue. ASSUME NEW i \in DOMAIN entries, Issue(i) PROVE JarsRefer'
  BY <1>Issue DEF Issue
<1>SignedIn. ASSUME NEW i \in DOMAIN entries, SignedIn(i) PROVE JarsRefer'
  <2>1. entries[i].family \in DOMAIN families
    BY <1>SignedIn DEF SignedIn, EntriesRefer
  <2>2. families[entries[i].family].jti \in 1 .. minted
    BY <2>1 DEF FamiliesRefer
  <2>3. \A b \in Browsers : jar'[b] = jar[b]
          \/ (jar'[b].family = entries[i].family /\ jar'[b].jti = families[entries[i].family].jti)
    BY <1>SignedIn DEF SignedIn
  <2>4. UNCHANGED <<families, minted>>
    BY <1>SignedIn DEF SignedIn
  <2>5. SUFFICES ASSUME NEW c \in Browsers
                 PROVE  jar'[c].family \in 0 .. Len(families) /\ jar'[c].jti \in 0 .. minted
    BY <2>4
  <2>6. jar[c].family \in 0 .. Len(families) /\ jar[c].jti \in 0 .. minted
    OBVIOUS
  <2>7. entries[i].family \in 0 .. Len(families) /\ families[entries[i].family].jti \in 0 .. minted
    BY <2>1, <2>2
  <2> HIDE DEF Typed, Refer, JarsRefer
  <2>8. QED
    BY <2>3, <2>6, <2>7
<1>RevokeAll. ASSUME NEW b \in Browsers, RevokeAll(b) PROVE JarsRefer'
  BY <1>RevokeAll DEF RevokeAll, Spend
<1>Left. ASSUME NEW b \in Browsers, Left(b) PROVE JarsRefer'
  BY <1>Left DEF Left, EmptyJar
<1>Stutter. CASE UNCHANGED vars
  BY <1>Stutter DEF vars
<1> HIDE DEF Typed, Refer, JarsRefer, db, web
<1>QED. QED
  BY <1>SendSignupLink, <1>SendLoginLink, <1>Login, <1>Provision, <1>Logout, <1>DeleteMe,
     <1>Expire, <1>Verify, <1>Call, <1>Refused, <1>Check, <1>Reused,
     <1>ReadUser, <1>Barred, <1>Rotate, <1>Reply, <1>Break, <1>ScimCreate,
     <1>Suspend, <1>Restore, <1>Create, <1>Provisioned, <1>MarkUsed, <1>Issue,
     <1>SignedIn, <1>RevokeAll, <1>Left, <1>Stutter
     DEF Next, User, Directory, Refresh, SignIn

(* Requests hold tokens and families that exist.                           *)
LEMMA ReqsReferNext ==
  Typed /\ Refer /\ [Next]_vars => ReqsRefer'
<1> SUFFICES ASSUME Typed, Refer, [Next]_vars PROVE ReqsRefer'
  OBVIOUS
<1> USE DEF Typed, Refer, ReqsRefer, db, web
<1>SendSignupLink. ASSUME SendSignupLink PROVE ReqsRefer'
  BY <1>SendSignupLink DEF SendSignupLink, SendLink, Spend
<1>SendLoginLink. ASSUME SendLoginLink PROVE ReqsRefer'
  BY <1>SendLoginLink DEF SendLoginLink, SendLink, Spend
<1>Login. ASSUME NEW b \in Browsers, Login(b) PROVE ReqsRefer'
  BY <1>Login DEF Login, Enter, Spend
<1>Provision. ASSUME NEW b \in Browsers, Provision(b) PROVE ReqsRefer'
  BY <1>Provision DEF Provision, Enter, Spend
<1>Logout. ASSUME NEW b \in Browsers, Logout(b) PROVE ReqsRefer'
  BY <1>Logout DEF Logout
<1>DeleteMe. ASSUME NEW b \in Browsers, DeleteMe(b) PROVE ReqsRefer'
  BY <1>DeleteMe DEF DeleteMe
<1>Expire. ASSUME NEW b \in Browsers, Expire(b) PROVE ReqsRefer'
  BY <1>Expire DEF Expire
<1>Verify. ASSUME NEW b \in Browsers, NEW k \in DOMAIN links, Verify(b, k) PROVE ReqsRefer'
  BY <1>Verify DEF Verify, Enter, Spend
<1>Call. ASSUME NEW t \in Tabs, Call(t) PROVE ReqsRefer'
  BY <1>Call DEF Call, Spend
<1>Refused. ASSUME NEW t \in Tabs, Refused(t) PROVE ReqsRefer'
  <2>1. \A j \in DOMAIN reqs' : (j \in DOMAIN reqs /\ reqs'[j] = reqs[j]) \/ reqs'[j] = Request(t)
    BY <1>Refused, ReqsJoined
  <2>2. /\ Request(t).family \in 0 .. Len(families) /\ Request(t).jti \in 0 .. minted
        /\ Request(t).pc = "sent"
    BY Bounds DEF Request, JarsRefer
  <2>3. UNCHANGED <<account, families, minted>>
    BY <1>Refused DEF Refused
  <2>4. QED
    BY <2>1, <2>2, <2>3
<1>Check. ASSUME NEW i \in DOMAIN reqs, Check(i) PROVE ReqsRefer'
  BY <1>Check DEF Check, Step, FamilyOf
<1>Reused. ASSUME NEW i \in DOMAIN reqs, Reused(i) PROVE ReqsRefer'
  BY <1>Reused DEF Reused, Revoke, Step
<1>ReadUser. ASSUME NEW i \in DOMAIN reqs, ReadUser(i) PROVE ReqsRefer'
  BY <1>ReadUser DEF ReadUser, Step
<1>Barred. ASSUME NEW i \in DOMAIN reqs, Barred(i) PROVE ReqsRefer'
  BY <1>Barred DEF Barred, Revoke, Step
<1>Rotate. ASSUME NEW i \in DOMAIN reqs, Rotate(i) PROVE ReqsRefer'
  <2>1. reqs[i].family \in 0 .. Len(families) /\ reqs[i].family # 0
    BY <1>Rotate DEF Rotate
  <2>2. Len(families') = Len(families) /\ minted' = minted + 1
    BY <1>Rotate DEF Rotate
  <2>3. /\ DOMAIN reqs' = DOMAIN reqs /\ \A j \in DOMAIN reqs \ {i} : reqs'[j] = reqs[j]
        /\ reqs'[i].jti = minted + 1 /\ reqs'[i].family = reqs[i].family
    BY <1>Rotate, ReqGranted
  <2>4. Len(families) \in Nat /\ minted \in Nat
    OBVIOUS
  <2>5. ReqsRefer
    OBVIOUS
  <2> HIDE DEF Typed, Refer
  <2>6. QED
    BY <2>1, <2>2, <2>3, <2>4, <2>5
<1>Reply. ASSUME NEW i \in DOMAIN reqs, Reply(i) PROVE ReqsRefer'
  <2>1. reqs' = RemoveAt(reqs, i)
    BY <1>Reply DEF Reply
  <2>2. \A j \in DOMAIN reqs' : \E k \in DOMAIN reqs \ {i} : reqs'[j] = reqs[k]
    BY <2>1, ReqsLeft
  <2>3. QED
    BY <1>Reply, <2>2 DEF Reply, Settled, CookiesAfter
<1>Break. ASSUME NEW i \in DOMAIN reqs, Break(i) PROVE ReqsRefer'
  <2>1. CASE reqs' = RemoveAt(reqs, i)
    <3>1. \A j \in DOMAIN reqs' : \E k \in DOMAIN reqs \ {i} : reqs'[j] = reqs[k]
      BY <2>1, ReqsLeft
    <3>2. QED
      BY <1>Break, <3>1 DEF Break, Spend, Settled
  <2>2. CASE reqs' = [reqs EXCEPT ![i].heard = FALSE]
    BY <1>Break, <2>2 DEF Break, Spend, Settled
  <2>3. QED
    BY <1>Break, <2>1, <2>2 DEF Break, Spend, Settled
<1>ScimCreate. ASSUME NEW s \in {"active", "suspended"}, ScimCreate(s) PROVE ReqsRefer'
  BY <1>ScimCreate DEF ScimCreate, Spend
<1>Suspend. ASSUME Suspend PROVE ReqsRefer'
  BY <1>Suspend DEF Suspend, Spend
<1>Restore. ASSUME Restore PROVE ReqsRefer'
  BY <1>Restore, ReqsRestored DEF Restore
<1>Create. ASSUME NEW i \in DOMAIN entries, Create(i) PROVE ReqsRefer'
  BY <1>Create DEF Create, Insert, To, Ended
<1>Provisioned. ASSUME NEW i \in DOMAIN entries, Provisioned(i) PROVE ReqsRefer'
  BY <1>Provisioned DEF Provisioned, Insert, To, Ended
<1>MarkUsed. ASSUME NEW i \in DOMAIN entries, MarkUsed(i) PROVE ReqsRefer'
  BY <1>MarkUsed DEF MarkUsed, To, Ended, Spend
<1>Issue. ASSUME NEW i \in DOMAIN entries, Issue(i) PROVE ReqsRefer'
  BY <1>Issue DEF Issue
<1>SignedIn. ASSUME NEW i \in DOMAIN entries, SignedIn(i) PROVE ReqsRefer'
  BY <1>SignedIn DEF SignedIn, Ended, Busy
<1>RevokeAll. ASSUME NEW b \in Browsers, RevokeAll(b) PROVE ReqsRefer'
  BY <1>RevokeAll DEF RevokeAll, Spend
<1>Left. ASSUME NEW b \in Browsers, Left(b) PROVE ReqsRefer'
  BY <1>Left DEF Left
<1>Stutter. CASE UNCHANGED vars
  BY <1>Stutter DEF vars
<1> HIDE DEF Typed, Refer, ReqsRefer, db, web
<1>QED. QED
  BY <1>SendSignupLink, <1>SendLoginLink, <1>Login, <1>Provision, <1>Logout, <1>DeleteMe,
     <1>Expire, <1>Verify, <1>Call, <1>Refused, <1>Check, <1>Reused,
     <1>ReadUser, <1>Barred, <1>Rotate, <1>Reply, <1>Break, <1>ScimCreate,
     <1>Suspend, <1>Restore, <1>Create, <1>Provisioned, <1>MarkUsed, <1>Issue,
     <1>SignedIn, <1>RevokeAll, <1>Left, <1>Stutter
     DEF Next, User, Directory, Refresh, SignIn

(* Sign-ins name links and families that exist.                            *)
LEMMA EntriesReferNext ==
  Typed /\ Refer /\ [Next]_vars => EntriesRefer'
<1> SUFFICES ASSUME Typed, Refer, [Next]_vars PROVE EntriesRefer'
  OBVIOUS
<1> USE DEF Typed, Refer, EntriesRefer, db, web
<1>SendSignupLink. ASSUME SendSignupLink PROVE EntriesRefer'
  BY <1>SendSignupLink DEF SendSignupLink, SendLink, Spend
<1>SendLoginLink. ASSUME SendLoginLink PROVE EntriesRefer'
  BY <1>SendLoginLink DEF SendLoginLink, SendLink, Spend
<1>Login. ASSUME NEW b \in Browsers, Login(b) PROVE EntriesRefer'
  BY <1>Login DEF Login, Enter, Spend
<1>Provision. ASSUME NEW b \in Browsers, Provision(b) PROVE EntriesRefer'
  BY <1>Provision DEF Provision, Enter, Spend
<1>Logout. ASSUME NEW b \in Browsers, Logout(b) PROVE EntriesRefer'
  BY <1>Logout DEF Logout
<1>DeleteMe. ASSUME NEW b \in Browsers, DeleteMe(b) PROVE EntriesRefer'
  BY <1>DeleteMe DEF DeleteMe
<1>Expire. ASSUME NEW b \in Browsers, Expire(b) PROVE EntriesRefer'
  BY <1>Expire DEF Expire
<1>Verify. ASSUME NEW b \in Browsers, NEW k \in DOMAIN links, Verify(b, k) PROVE EntriesRefer'
  BY <1>Verify DEF Verify, Enter, Spend
<1>Call. ASSUME NEW t \in Tabs, Call(t) PROVE EntriesRefer'
  BY <1>Call DEF Call, Spend
<1>Refused. ASSUME NEW t \in Tabs, Refused(t) PROVE EntriesRefer'
  BY <1>Refused DEF Refused, Waits, Request, Inactive, Busy
<1>Check. ASSUME NEW i \in DOMAIN reqs, Check(i) PROVE EntriesRefer'
  BY <1>Check DEF Check, Step, FamilyOf
<1>Reused. ASSUME NEW i \in DOMAIN reqs, Reused(i) PROVE EntriesRefer'
  BY <1>Reused DEF Reused, Revoke, Step
<1>ReadUser. ASSUME NEW i \in DOMAIN reqs, ReadUser(i) PROVE EntriesRefer'
  BY <1>ReadUser DEF ReadUser, Step
<1>Barred. ASSUME NEW i \in DOMAIN reqs, Barred(i) PROVE EntriesRefer'
  BY <1>Barred DEF Barred, Revoke, Step
<1>Rotate. ASSUME NEW i \in DOMAIN reqs, Rotate(i) PROVE EntriesRefer'
  BY <1>Rotate DEF Rotate
<1>Reply. ASSUME NEW i \in DOMAIN reqs, Reply(i) PROVE EntriesRefer'
  BY <1>Reply DEF Reply, Settled, CookiesAfter
<1>Break. ASSUME NEW i \in DOMAIN reqs, Break(i) PROVE EntriesRefer'
  BY <1>Break DEF Break, Spend, Settled
<1>ScimCreate. ASSUME NEW s \in {"active", "suspended"}, ScimCreate(s) PROVE EntriesRefer'
  BY <1>ScimCreate DEF ScimCreate, Spend
<1>Suspend. ASSUME Suspend PROVE EntriesRefer'
  BY <1>Suspend DEF Suspend, Spend
<1>Restore. ASSUME Restore PROVE EntriesRefer'
  BY <1>Restore DEF Restore, Spend
<1>Create. ASSUME NEW i \in DOMAIN entries, Create(i) PROVE EntriesRefer'
  <2>1. CASE entries' = RemoveAt(entries, i)
    <3>1. \A j \in DOMAIN entries' : \E k \in DOMAIN entries \ {i} : entries'[j] = entries[k]
      BY <2>1, EntriesLeft
    <3>2. QED
      BY <1>Create, <3>1 DEF Create, Insert, To, Ended
  <2>2. CASE To(i, "mark")
    BY <1>Create, <2>2 DEF Create, Insert, To, Ended
  <2>3. QED
    BY <1>Create, <2>1, <2>2 DEF Create, Insert, To, Ended
<1>Provisioned. ASSUME NEW i \in DOMAIN entries, Provisioned(i) PROVE EntriesRefer'
  <2>1. CASE entries' = RemoveAt(entries, i)
    <3>1. \A j \in DOMAIN entries' : \E k \in DOMAIN entries \ {i} : entries'[j] = entries[k]
      BY <2>1, EntriesLeft
    <3>2. QED
      BY <1>Provisioned, <3>1 DEF Provisioned, Insert, To, Ended
  <2>2. CASE To(i, "issue")
    BY <1>Provisioned, <2>2 DEF Provisioned, Insert, To, Ended
  <2>3. QED
    BY <1>Provisioned, <2>1, <2>2 DEF Provisioned, Insert, To, Ended
<1>MarkUsed. ASSUME NEW i \in DOMAIN entries, MarkUsed(i) PROVE EntriesRefer'
  <2>1. Len(links') = Len(links) /\ UNCHANGED families
    BY <1>MarkUsed DEF MarkUsed
  <2>2. CASE Ended(i)
    BY <2>1, <2>2, EntriesLeft DEF Ended
  <2>3. CASE To(i, "issue")
    <3>1. /\ DOMAIN entries' = DOMAIN entries
          /\ \A j \in DOMAIN entries \ {i} : entries'[j] = entries[j]
          /\ entries'[i].pc = "issue" /\ entries'[i].link = entries[i].link
      BY <2>3, EntryMoved
    <3>2. EntriesRefer
      OBVIOUS
    <3> HIDE DEF Typed, Refer
    <3>3. QED
      BY <2>1, <3>1, <3>2
  <2>4. QED
    BY <1>MarkUsed, <2>2, <2>3 DEF MarkUsed
<1>Issue. ASSUME NEW i \in DOMAIN entries, Issue(i) PROVE EntriesRefer'
  BY <1>Issue DEF Issue
<1>SignedIn. ASSUME NEW i \in DOMAIN entries, SignedIn(i) PROVE EntriesRefer'
  <2>1. entries' = RemoveAt(entries, i)
    BY <1>SignedIn DEF SignedIn, Ended
  <2>2. \A j \in DOMAIN entries' : \E k \in DOMAIN entries \ {i} : entries'[j] = entries[k]
    BY <2>1, EntriesLeft
  <2>3. QED
    BY <1>SignedIn, <2>2 DEF SignedIn, Ended, Busy
<1>RevokeAll. ASSUME NEW b \in Browsers, RevokeAll(b) PROVE EntriesRefer'
  BY <1>RevokeAll DEF RevokeAll, Spend
<1>Left. ASSUME NEW b \in Browsers, Left(b) PROVE EntriesRefer'
  BY <1>Left DEF Left
<1>Stutter. CASE UNCHANGED vars
  BY <1>Stutter DEF vars
<1> HIDE DEF Typed, Refer, EntriesRefer, db, web
<1>QED. QED
  BY <1>SendSignupLink, <1>SendLoginLink, <1>Login, <1>Provision, <1>Logout, <1>DeleteMe,
     <1>Expire, <1>Verify, <1>Call, <1>Refused, <1>Check, <1>Reused,
     <1>ReadUser, <1>Barred, <1>Rotate, <1>Reply, <1>Break, <1>ScimCreate,
     <1>Suspend, <1>Restore, <1>Create, <1>Provisioned, <1>MarkUsed, <1>Issue,
     <1>SignedIn, <1>RevokeAll, <1>Left, <1>Stutter
     DEF Next, User, Directory, Refresh, SignIn

(* Each call that waits was spent.                                         *)
LEMMA CallsPaidNext ==
  Typed /\ Refer /\ [Next]_vars => CallsPaid'
<1> SUFFICES ASSUME Typed, Refer, [Next]_vars PROVE CallsPaid'
  OBVIOUS
<1> USE DEF Typed, Refer, CallsPaid, db, web
<1>SendSignupLink. ASSUME SendSignupLink PROVE CallsPaid'
  BY <1>SendSignupLink DEF SendSignupLink, SendLink, Spend, TabStates
<1>SendLoginLink. ASSUME SendLoginLink PROVE CallsPaid'
  BY <1>SendLoginLink DEF SendLoginLink, SendLink, Spend, TabStates
<1>Login. ASSUME NEW b \in Browsers, Login(b) PROVE CallsPaid'
  BY <1>Login DEF Login, Enter, Spend, TabStates
<1>Provision. ASSUME NEW b \in Browsers, Provision(b) PROVE CallsPaid'
  BY <1>Provision DEF Provision, Enter, Spend, TabStates
<1>Logout. ASSUME NEW b \in Browsers, Logout(b) PROVE CallsPaid'
  BY <1>Logout DEF Logout
<1>DeleteMe. ASSUME NEW b \in Browsers, DeleteMe(b) PROVE CallsPaid'
  BY <1>DeleteMe DEF DeleteMe
<1>Expire. ASSUME NEW b \in Browsers, Expire(b) PROVE CallsPaid'
  BY <1>Expire DEF Expire
<1>Verify. ASSUME NEW b \in Browsers, NEW k \in DOMAIN links, Verify(b, k) PROVE CallsPaid'
  BY <1>Verify DEF Verify, Enter, Spend, TabStates
<1>Call. ASSUME NEW t \in Tabs, Call(t) PROVE CallsPaid'
  <2>1. \A s \in Tabs \ {t} : tabs'[s] = tabs[s]
    BY <1>Call DEF Call
  <2>2. tabs'[t].asked = tabs[t].asked + 1 /\ tabs'[t].waiting = tabs[t].waiting
    BY <1>Call DEF Call
  <2>3. spent' = spent + 1
    BY <1>Call DEF Call, Spend
  <2>4. SUFFICES ASSUME NEW s \in Tabs PROVE tabs'[s].asked + tabs'[s].waiting <= spent'
    OBVIOUS
  <2>5. tabs[s].asked \in Nat /\ tabs[s].waiting \in Nat /\ spent \in Nat
    BY Bounds DEF TabStates
  <2>6. tabs[s].asked + tabs[s].waiting <= spent
    OBVIOUS
  <2> HIDE DEF Typed, Refer, CallsPaid
  <2>7. QED
    BY <2>1, <2>2, <2>3, <2>5, <2>6
<1>Refused. ASSUME NEW t \in Tabs, Refused(t) PROVE CallsPaid'
  <2>1. \A s \in Tabs \ {t} : tabs'[s] = tabs[s]
    BY <1>Refused DEF Refused
  <2>2. tabs'[t].asked = tabs[t].asked - 1 /\ tabs'[t].waiting \in {tabs[t].waiting, tabs[t].waiting + 1}
    <3>1. tabs[t] \in TabStates /\ tabs[t].asked - 1 \in Nat /\ tabs'[t] = Waits(t)
      BY <1>Refused DEF Refused, TabStates
    <3>2. QED
      BY <3>1, WaitsTyped
  <2>3. spent' = spent
    BY <1>Refused DEF Refused
  <2>4. SUFFICES ASSUME NEW s \in Tabs PROVE tabs'[s].asked + tabs'[s].waiting <= spent'
    OBVIOUS
  <2>5. tabs[s].asked \in Nat /\ tabs[s].waiting \in Nat /\ spent \in Nat
    BY Bounds DEF TabStates
  <2>6. tabs[s].asked + tabs[s].waiting <= spent
    OBVIOUS
  <2> HIDE DEF Typed, Refer, CallsPaid
  <2>7. QED
    BY <2>1, <2>2, <2>3, <2>5, <2>6
<1>Check. ASSUME NEW i \in DOMAIN reqs, Check(i) PROVE CallsPaid'
  BY <1>Check DEF Check, Step, FamilyOf
<1>Reused. ASSUME NEW i \in DOMAIN reqs, Reused(i) PROVE CallsPaid'
  BY <1>Reused DEF Reused, Revoke, Step
<1>ReadUser. ASSUME NEW i \in DOMAIN reqs, ReadUser(i) PROVE CallsPaid'
  BY <1>ReadUser DEF ReadUser, Step
<1>Barred. ASSUME NEW i \in DOMAIN reqs, Barred(i) PROVE CallsPaid'
  BY <1>Barred DEF Barred, Revoke, Step
<1>Rotate. ASSUME NEW i \in DOMAIN reqs, Rotate(i) PROVE CallsPaid'
  BY <1>Rotate DEF Rotate
<1>Reply. ASSUME NEW i \in DOMAIN reqs, Reply(i) PROVE CallsPaid'
  <2>1. reqs[i] \in Reqs /\ reqs[i].tab \in Tabs
    <3>1. reqs[i] \in Reqs
      OBVIOUS
    <3>2. QED
      BY <3>1 DEF Reqs
  <2>2. \A s \in Tabs : tabs'[s].asked = tabs[s].asked /\ tabs'[s].waiting \in {0, tabs[s].waiting}
    <3>1. tabs' = tabs \/ tabs' = Settled(reqs[i].tab)
      BY <1>Reply DEF Reply
    <3>2. tabs \in [Tabs -> TabStates]
      OBVIOUS
    <3> HIDE DEF Typed, Refer, CallsPaid
    <3>3. QED
      BY <2>1, <3>1, <3>2 DEF Settled, TabStates
  <2>3. spent' = spent \/ spent' = spent + 1
    BY <1>Reply DEF Reply, Spend
  <2>4. SUFFICES ASSUME NEW s \in Tabs PROVE tabs'[s].asked + tabs'[s].waiting <= spent'
    OBVIOUS
  <2>5. tabs[s].asked \in Nat /\ tabs[s].waiting \in Nat /\ spent \in Nat
    BY Bounds DEF TabStates
  <2>6. tabs[s].asked + tabs[s].waiting <= spent
    OBVIOUS
  <2> HIDE DEF Typed, Refer, CallsPaid
  <2>7. QED
    BY <2>1, <2>2, <2>3, <2>5, <2>6
<1>Break. ASSUME NEW i \in DOMAIN reqs, Break(i) PROVE CallsPaid'
  <2>1. reqs[i] \in Reqs /\ reqs[i].tab \in Tabs
    <3>1. reqs[i] \in Reqs
      OBVIOUS
    <3>2. QED
      BY <3>1 DEF Reqs
  <2>2. \A s \in Tabs : tabs'[s].asked = tabs[s].asked /\ tabs'[s].waiting \in {0, tabs[s].waiting}
    <3>1. tabs' = tabs \/ tabs' = Settled(reqs[i].tab)
      BY <1>Break DEF Break
    <3>2. tabs \in [Tabs -> TabStates]
      OBVIOUS
    <3> HIDE DEF Typed, Refer, CallsPaid
    <3>3. QED
      BY <2>1, <3>1, <3>2 DEF Settled, TabStates
  <2>3. spent' = spent \/ spent' = spent + 1
    BY <1>Break DEF Break, Spend
  <2>4. SUFFICES ASSUME NEW s \in Tabs PROVE tabs'[s].asked + tabs'[s].waiting <= spent'
    OBVIOUS
  <2>5. tabs[s].asked \in Nat /\ tabs[s].waiting \in Nat /\ spent \in Nat
    BY Bounds DEF TabStates
  <2>6. tabs[s].asked + tabs[s].waiting <= spent
    OBVIOUS
  <2> HIDE DEF Typed, Refer, CallsPaid
  <2>7. QED
    BY <2>1, <2>2, <2>3, <2>5, <2>6
<1>ScimCreate. ASSUME NEW s \in {"active", "suspended"}, ScimCreate(s) PROVE CallsPaid'
  BY <1>ScimCreate DEF ScimCreate, Spend, TabStates
<1>Suspend. ASSUME Suspend PROVE CallsPaid'
  BY <1>Suspend DEF Suspend, Spend, TabStates
<1>Restore. ASSUME Restore PROVE CallsPaid'
  BY <1>Restore DEF Restore, Spend, TabStates
<1>Create. ASSUME NEW i \in DOMAIN entries, Create(i) PROVE CallsPaid'
  BY <1>Create DEF Create, Insert, To, Ended
<1>Provisioned. ASSUME NEW i \in DOMAIN entries, Provisioned(i) PROVE CallsPaid'
  BY <1>Provisioned DEF Provisioned, Insert, To, Ended
<1>MarkUsed. ASSUME NEW i \in DOMAIN entries, MarkUsed(i) PROVE CallsPaid'
  BY <1>MarkUsed DEF MarkUsed, To, Ended, Spend, TabStates
<1>Issue. ASSUME NEW i \in DOMAIN entries, Issue(i) PROVE CallsPaid'
  BY <1>Issue DEF Issue
<1>SignedIn. ASSUME NEW i \in DOMAIN entries, SignedIn(i) PROVE CallsPaid'
  BY <1>SignedIn DEF SignedIn, Ended, Busy
<1>RevokeAll. ASSUME NEW b \in Browsers, RevokeAll(b) PROVE CallsPaid'
  BY <1>RevokeAll DEF RevokeAll, Spend, TabStates
<1>Left. ASSUME NEW b \in Browsers, Left(b) PROVE CallsPaid'
  BY <1>Left DEF Left
<1>Stutter. CASE UNCHANGED vars
  BY <1>Stutter DEF vars
<1> HIDE DEF Typed, Refer, CallsPaid, db, web
<1>QED. QED
  BY <1>SendSignupLink, <1>SendLoginLink, <1>Login, <1>Provision, <1>Logout, <1>DeleteMe,
     <1>Expire, <1>Verify, <1>Call, <1>Refused, <1>Check, <1>Reused,
     <1>ReadUser, <1>Barred, <1>Rotate, <1>Reply, <1>Break, <1>ScimCreate,
     <1>Suspend, <1>Restore, <1>Create, <1>Provisioned, <1>MarkUsed, <1>Issue,
     <1>SignedIn, <1>RevokeAll, <1>Left, <1>Stutter
     DEF Next, User, Directory, Refresh, SignIn

(* Without an account nobody signs in.                                     *)
LEMMA UnbornNext ==
  Typed /\ Refer /\ Unborn /\ [Next]_vars => Unborn'
<1> SUFFICES ASSUME Typed, Refer, Unborn, [Next]_vars PROVE Unborn'
  OBVIOUS
<1> USE DEF Typed, Refer, Unborn, db, web
<1>SendSignupLink. ASSUME SendSignupLink PROVE Unborn'
  BY <1>SendSignupLink DEF SendSignupLink, SendLink, Spend
<1>SendLoginLink. ASSUME SendLoginLink PROVE Unborn'
  BY <1>SendLoginLink DEF SendLoginLink, SendLink, Spend
<1>Login. ASSUME NEW b \in Browsers, Login(b) PROVE Unborn'
  BY <1>Login DEF Login, Enter, Spend
<1>Provision. ASSUME NEW b \in Browsers, Provision(b) PROVE Unborn'
  BY <1>Provision DEF Provision, Enter, Spend
<1>Logout. ASSUME NEW b \in Browsers, Logout(b) PROVE Unborn'
  BY <1>Logout DEF Logout
<1>DeleteMe. ASSUME NEW b \in Browsers, DeleteMe(b) PROVE Unborn'
  BY <1>DeleteMe DEF DeleteMe
<1>Expire. ASSUME NEW b \in Browsers, Expire(b) PROVE Unborn'
  BY <1>Expire DEF Expire
<1>Verify. ASSUME NEW b \in Browsers, NEW k \in DOMAIN links, Verify(b, k) PROVE Unborn'
  BY <1>Verify DEF Verify, Enter, Spend
<1>Call. ASSUME NEW t \in Tabs, Call(t) PROVE Unborn'
  BY <1>Call DEF Call, Spend
<1>Refused. ASSUME NEW t \in Tabs, Refused(t) PROVE Unborn'
  BY <1>Refused DEF Refused, Waits, Request, Inactive, Busy
<1>Check. ASSUME NEW i \in DOMAIN reqs, Check(i) PROVE Unborn'
  BY <1>Check DEF Check, Step, FamilyOf
<1>Reused. ASSUME NEW i \in DOMAIN reqs, Reused(i) PROVE Unborn'
  BY <1>Reused DEF Reused, Revoke, Step
<1>ReadUser. ASSUME NEW i \in DOMAIN reqs, ReadUser(i) PROVE Unborn'
  BY <1>ReadUser DEF ReadUser, Step
<1>Barred. ASSUME NEW i \in DOMAIN reqs, Barred(i) PROVE Unborn'
  BY <1>Barred DEF Barred, Revoke, Step
<1>Rotate. ASSUME NEW i \in DOMAIN reqs, Rotate(i) PROVE Unborn'
  BY <1>Rotate DEF Rotate
<1>Reply. ASSUME NEW i \in DOMAIN reqs, Reply(i) PROVE Unborn'
  BY <1>Reply DEF Reply, Settled, CookiesAfter
<1>Break. ASSUME NEW i \in DOMAIN reqs, Break(i) PROVE Unborn'
  BY <1>Break DEF Break, Spend, Settled
<1>ScimCreate. ASSUME NEW s \in {"active", "suspended"}, ScimCreate(s) PROVE Unborn'
  BY <1>ScimCreate DEF ScimCreate, Spend
<1>Suspend. ASSUME Suspend PROVE Unborn'
  BY <1>Suspend DEF Suspend, Spend
<1>Restore. ASSUME Restore PROVE Unborn'
  BY <1>Restore DEF Restore, Spend
<1>Create. ASSUME NEW i \in DOMAIN entries, Create(i) PROVE Unborn'
  BY <1>Create DEF Create, Insert, To, Ended
<1>Provisioned. ASSUME NEW i \in DOMAIN entries, Provisioned(i) PROVE Unborn'
  BY <1>Provisioned DEF Provisioned, Insert, To, Ended
<1>MarkUsed. ASSUME NEW i \in DOMAIN entries, MarkUsed(i) PROVE Unborn'
  BY <1>MarkUsed DEF MarkUsed, To, Ended, Spend
<1>Issue. ASSUME NEW i \in DOMAIN entries, Issue(i) PROVE Unborn'
  BY <1>Issue DEF Issue
<1>SignedIn. ASSUME NEW i \in DOMAIN entries, SignedIn(i) PROVE Unborn'
  BY <1>SignedIn DEF SignedIn, Ended, Busy
<1>RevokeAll. ASSUME NEW b \in Browsers, RevokeAll(b) PROVE Unborn'
  BY <1>RevokeAll DEF RevokeAll, Spend
<1>Left. ASSUME NEW b \in Browsers, Left(b) PROVE Unborn'
  BY <1>Left DEF Left
<1>Stutter. CASE UNCHANGED vars
  BY <1>Stutter DEF vars
<1> HIDE DEF Typed, Refer, Unborn, db, web
<1>QED. QED
  BY <1>SendSignupLink, <1>SendLoginLink, <1>Login, <1>Provision, <1>Logout, <1>DeleteMe,
     <1>Expire, <1>Verify, <1>Call, <1>Refused, <1>Check, <1>Reused,
     <1>ReadUser, <1>Barred, <1>Rotate, <1>Reply, <1>Break, <1>ScimCreate,
     <1>Suspend, <1>Restore, <1>Create, <1>Provisioned, <1>MarkUsed, <1>Issue,
     <1>SignedIn, <1>RevokeAll, <1>Left, <1>Stutter
     DEF Next, User, Directory, Refresh, SignIn

(* The status of an inactive account bars a late request.                  *)
LEMMA LateIsBarredNext ==
  Typed /\ LateIsBarred /\ [Next]_vars => LateIsBarred'
<1> SUFFICES ASSUME Typed, LateIsBarred, [Next]_vars PROVE LateIsBarred'
  OBVIOUS
<1> USE DEF Typed, LateIsBarred, Inactive, db, web
<1>SendSignupLink. ASSUME SendSignupLink PROVE LateIsBarred'
  BY <1>SendSignupLink DEF SendSignupLink, SendLink, Spend
<1>SendLoginLink. ASSUME SendLoginLink PROVE LateIsBarred'
  BY <1>SendLoginLink DEF SendLoginLink, SendLink, Spend
<1>Login. ASSUME NEW b \in Browsers, Login(b) PROVE LateIsBarred'
  BY <1>Login DEF Login, Enter, Spend
<1>Provision. ASSUME NEW b \in Browsers, Provision(b) PROVE LateIsBarred'
  BY <1>Provision DEF Provision, Enter, Spend
<1>Logout. ASSUME NEW b \in Browsers, Logout(b) PROVE LateIsBarred'
  BY <1>Logout DEF Logout
<1>DeleteMe. ASSUME NEW b \in Browsers, DeleteMe(b) PROVE LateIsBarred'
  BY <1>DeleteMe DEF DeleteMe
<1>Expire. ASSUME NEW b \in Browsers, Expire(b) PROVE LateIsBarred'
  BY <1>Expire DEF Expire
<1>Verify. ASSUME NEW b \in Browsers, NEW k \in DOMAIN links, Verify(b, k) PROVE LateIsBarred'
  BY <1>Verify DEF Verify, Enter, Spend
<1>Call. ASSUME NEW t \in Tabs, Call(t) PROVE LateIsBarred'
  BY <1>Call DEF Call, Spend
<1>Refused. ASSUME NEW t \in Tabs, Refused(t) PROVE LateIsBarred'
  <2>1. \A j \in DOMAIN reqs' : (j \in DOMAIN reqs /\ reqs'[j] = reqs[j]) \/ reqs'[j] = Request(t)
    BY <1>Refused, ReqsJoined
  <2>2. Request(t).pc = "sent" /\ Request(t).late = Inactive
    BY Bounds DEF Request
  <2>3. UNCHANGED <<account, families, minted>>
    BY <1>Refused DEF Refused
  <2>4. QED
    BY <2>1, <2>2, <2>3
<1>Check. ASSUME NEW i \in DOMAIN reqs, Check(i) PROVE LateIsBarred'
  BY <1>Check DEF Check, Step, FamilyOf
<1>Reused. ASSUME NEW i \in DOMAIN reqs, Reused(i) PROVE LateIsBarred'
  BY <1>Reused DEF Reused, Revoke, Step
<1>ReadUser. ASSUME NEW i \in DOMAIN reqs, ReadUser(i) PROVE LateIsBarred'
  BY <1>ReadUser DEF ReadUser, Step
<1>Barred. ASSUME NEW i \in DOMAIN reqs, Barred(i) PROVE LateIsBarred'
  BY <1>Barred DEF Barred, Revoke, Step
<1>Rotate. ASSUME NEW i \in DOMAIN reqs, Rotate(i) PROVE LateIsBarred'
  BY <1>Rotate DEF Rotate
<1>Reply. ASSUME NEW i \in DOMAIN reqs, Reply(i) PROVE LateIsBarred'
  <2>1. reqs' = RemoveAt(reqs, i)
    BY <1>Reply DEF Reply
  <2>2. \A j \in DOMAIN reqs' : \E k \in DOMAIN reqs \ {i} : reqs'[j] = reqs[k]
    BY <2>1, ReqsLeft
  <2>3. QED
    BY <1>Reply, <2>2 DEF Reply, Settled, CookiesAfter
<1>Break. ASSUME NEW i \in DOMAIN reqs, Break(i) PROVE LateIsBarred'
  <2>1. CASE reqs' = RemoveAt(reqs, i)
    <3>1. \A j \in DOMAIN reqs' : \E k \in DOMAIN reqs \ {i} : reqs'[j] = reqs[k]
      BY <2>1, ReqsLeft
    <3>2. QED
      BY <1>Break, <3>1 DEF Break, Spend, Settled
  <2>2. CASE reqs' = [reqs EXCEPT ![i].heard = FALSE]
    BY <1>Break, <2>2 DEF Break, Spend, Settled
  <2>3. QED
    BY <1>Break, <2>1, <2>2 DEF Break, Spend, Settled
<1>ScimCreate. ASSUME NEW s \in {"active", "suspended"}, ScimCreate(s) PROVE LateIsBarred'
  BY <1>ScimCreate DEF ScimCreate, Spend
<1>Suspend. ASSUME Suspend PROVE LateIsBarred'
  BY <1>Suspend DEF Suspend, Spend
<1>Restore. ASSUME Restore PROVE LateIsBarred'
  BY <1>Restore, ReqsRestored DEF Restore
<1>Create. ASSUME NEW i \in DOMAIN entries, Create(i) PROVE LateIsBarred'
  BY <1>Create DEF Create, Insert, To, Ended
<1>Provisioned. ASSUME NEW i \in DOMAIN entries, Provisioned(i) PROVE LateIsBarred'
  BY <1>Provisioned DEF Provisioned, Insert, To, Ended
<1>MarkUsed. ASSUME NEW i \in DOMAIN entries, MarkUsed(i) PROVE LateIsBarred'
  BY <1>MarkUsed DEF MarkUsed, To, Ended, Spend
<1>Issue. ASSUME NEW i \in DOMAIN entries, Issue(i) PROVE LateIsBarred'
  BY <1>Issue DEF Issue
<1>SignedIn. ASSUME NEW i \in DOMAIN entries, SignedIn(i) PROVE LateIsBarred'
  BY <1>SignedIn DEF SignedIn, Ended, Busy
<1>RevokeAll. ASSUME NEW b \in Browsers, RevokeAll(b) PROVE LateIsBarred'
  BY <1>RevokeAll DEF RevokeAll, Spend
<1>Left. ASSUME NEW b \in Browsers, Left(b) PROVE LateIsBarred'
  BY <1>Left DEF Left
<1>Stutter. CASE UNCHANGED vars
  BY <1>Stutter DEF vars
<1> HIDE DEF Typed, LateIsBarred, Inactive, db, web
<1>QED. QED
  BY <1>SendSignupLink, <1>SendLoginLink, <1>Login, <1>Provision, <1>Logout, <1>DeleteMe,
     <1>Expire, <1>Verify, <1>Call, <1>Refused, <1>Check, <1>Reused,
     <1>ReadUser, <1>Barred, <1>Rotate, <1>Reply, <1>Break, <1>ScimCreate,
     <1>Suspend, <1>Restore, <1>Create, <1>Provisioned, <1>MarkUsed, <1>Issue,
     <1>SignedIn, <1>RevokeAll, <1>Left, <1>Stutter
     DEF Next, User, Directory, Refresh, SignIn

(* A link stays for signing up, or not.                                    *)
LEMMA SignupSteady ==
  Typed /\ [Next]_vars => LinksStay
<1> SUFFICES ASSUME Typed, [Next]_vars PROVE LinksStay
  OBVIOUS
<1> USE DEF Typed, LinksStay, db, web
<1>SendSignupLink. ASSUME SendSignupLink PROVE LinksStay
  <2> DEFINE r == [signup |-> TRUE, used |-> FALSE]
  <2>1. links' = Append(links, r) /\ links \in Seq(Links)
    BY <1>SendSignupLink DEF SendSignupLink, SendLink
  <2> HIDE DEF Typed, r
  <2>2. QED
    BY <2>1, Appended
<1>SendLoginLink. ASSUME SendLoginLink PROVE LinksStay
  <2> DEFINE r == [signup |-> FALSE, used |-> FALSE]
  <2>1. links' = Append(links, r) /\ links \in Seq(Links)
    BY <1>SendLoginLink DEF SendLoginLink, SendLink
  <2> HIDE DEF Typed, r
  <2>2. QED
    BY <2>1, Appended
<1>Login. ASSUME NEW b \in Browsers, Login(b) PROVE LinksStay
  BY <1>Login DEF Login, Enter, Spend
<1>Provision. ASSUME NEW b \in Browsers, Provision(b) PROVE LinksStay
  BY <1>Provision DEF Provision, Enter, Spend
<1>Logout. ASSUME NEW b \in Browsers, Logout(b) PROVE LinksStay
  BY <1>Logout DEF Logout
<1>DeleteMe. ASSUME NEW b \in Browsers, DeleteMe(b) PROVE LinksStay
  BY <1>DeleteMe DEF DeleteMe
<1>Expire. ASSUME NEW b \in Browsers, Expire(b) PROVE LinksStay
  BY <1>Expire DEF Expire
<1>Verify. ASSUME NEW b \in Browsers, NEW k \in DOMAIN links, Verify(b, k) PROVE LinksStay
  BY <1>Verify DEF Verify, Enter, Spend
<1>Call. ASSUME NEW t \in Tabs, Call(t) PROVE LinksStay
  BY <1>Call DEF Call, Spend
<1>Refused. ASSUME NEW t \in Tabs, Refused(t) PROVE LinksStay
  BY <1>Refused DEF Refused, Waits, Request, Inactive, Busy
<1>Check. ASSUME NEW i \in DOMAIN reqs, Check(i) PROVE LinksStay
  BY <1>Check DEF Check, Step, FamilyOf
<1>Reused. ASSUME NEW i \in DOMAIN reqs, Reused(i) PROVE LinksStay
  BY <1>Reused DEF Reused, Revoke, Step
<1>ReadUser. ASSUME NEW i \in DOMAIN reqs, ReadUser(i) PROVE LinksStay
  BY <1>ReadUser DEF ReadUser, Step
<1>Barred. ASSUME NEW i \in DOMAIN reqs, Barred(i) PROVE LinksStay
  BY <1>Barred DEF Barred, Revoke, Step
<1>Rotate. ASSUME NEW i \in DOMAIN reqs, Rotate(i) PROVE LinksStay
  BY <1>Rotate DEF Rotate
<1>Reply. ASSUME NEW i \in DOMAIN reqs, Reply(i) PROVE LinksStay
  BY <1>Reply DEF Reply, Settled, CookiesAfter
<1>Break. ASSUME NEW i \in DOMAIN reqs, Break(i) PROVE LinksStay
  BY <1>Break DEF Break, Spend, Settled
<1>ScimCreate. ASSUME NEW s \in {"active", "suspended"}, ScimCreate(s) PROVE LinksStay
  BY <1>ScimCreate DEF ScimCreate, Spend
<1>Suspend. ASSUME Suspend PROVE LinksStay
  BY <1>Suspend DEF Suspend, Spend
<1>Restore. ASSUME Restore PROVE LinksStay
  BY <1>Restore DEF Restore, Spend
<1>Create. ASSUME NEW i \in DOMAIN entries, Create(i) PROVE LinksStay
  BY <1>Create DEF Create, Insert, To, Ended
<1>Provisioned. ASSUME NEW i \in DOMAIN entries, Provisioned(i) PROVE LinksStay
  BY <1>Provisioned DEF Provisioned, Insert, To, Ended
<1>MarkUsed. ASSUME NEW i \in DOMAIN entries, MarkUsed(i) PROVE LinksStay
  <2>1. CASE links' = links
    BY <2>1
  <2>2. CASE links' = [links EXCEPT ![entries[i].link].used = TRUE]
    <3>1. \A k \in DOMAIN links : links[k] \in Links
      OBVIOUS
    <3>2. DOMAIN links' = DOMAIN links /\ \A k \in DOMAIN links : links'[k].signup = links[k].signup
      BY <2>2, <3>1 DEF Links
    <3>3. QED
      BY <3>2
  <2>3. QED
    BY <1>MarkUsed, <2>1, <2>2 DEF MarkUsed
<1>Issue. ASSUME NEW i \in DOMAIN entries, Issue(i) PROVE LinksStay
  BY <1>Issue DEF Issue
<1>SignedIn. ASSUME NEW i \in DOMAIN entries, SignedIn(i) PROVE LinksStay
  BY <1>SignedIn DEF SignedIn, Ended, Busy
<1>RevokeAll. ASSUME NEW b \in Browsers, RevokeAll(b) PROVE LinksStay
  BY <1>RevokeAll DEF RevokeAll, Spend
<1>Left. ASSUME NEW b \in Browsers, Left(b) PROVE LinksStay
  BY <1>Left DEF Left
<1>Stutter. CASE UNCHANGED vars
  BY <1>Stutter DEF vars
<1> HIDE DEF Typed, LinksStay, db, web
<1>QED. QED
  BY <1>SendSignupLink, <1>SendLoginLink, <1>Login, <1>Provision, <1>Logout, <1>DeleteMe,
     <1>Expire, <1>Verify, <1>Call, <1>Refused, <1>Check, <1>Reused,
     <1>ReadUser, <1>Barred, <1>Rotate, <1>Reply, <1>Break, <1>ScimCreate,
     <1>Suspend, <1>Restore, <1>Create, <1>Provisioned, <1>MarkUsed, <1>Issue,
     <1>SignedIn, <1>RevokeAll, <1>Left, <1>Stutter
     DEF Next, User, Directory, Refresh, SignIn

(* No verification but the first gets past the insert.                     *)
LEMMA PastStaysNext ==
  Typed /\ Refer /\ Unborn /\ [Next]_vars => PastStays
<1> SUFFICES ASSUME Typed, Refer, Unborn, [Next]_vars PROVE PastStays
  OBVIOUS
<1> USE DEF Typed, Refer, Unborn, EntriesRefer, Signup, Past, PastStays, db, web
<1>Links. \A n \in DOMAIN links : n # 0 /\ n \in DOMAIN links' /\ links'[n].signup = links[n].signup
  BY SignupSteady DEF LinksStay
<1>SendSignupLink. ASSUME SendSignupLink PROVE PastStays
  <2>1. entries' = entries
    BY <1>SendSignupLink DEF SendSignupLink, SendLink
  <2>2. \A j \in DOMAIN entries : entries[j].link \in 0 .. Len(links)
    OBVIOUS
  <2>3. \A j \in DOMAIN entries' : Past(j)' => j \in DOMAIN entries /\ Past(j)
    BY <1>Links, <2>1, <2>2
  <2> HIDE DEF Typed, Refer, Unborn, EntriesRefer, Signup, Past
  <2>4. QED
    BY <2>1, <2>3
<1>SendLoginLink. ASSUME SendLoginLink PROVE PastStays
  <2>1. entries' = entries
    BY <1>SendLoginLink DEF SendLoginLink, SendLink
  <2>2. \A j \in DOMAIN entries : entries[j].link \in 0 .. Len(links)
    OBVIOUS
  <2>3. \A j \in DOMAIN entries' : Past(j)' => j \in DOMAIN entries /\ Past(j)
    BY <1>Links, <2>1, <2>2
  <2> HIDE DEF Typed, Refer, Unborn, EntriesRefer, Signup, Past
  <2>4. QED
    BY <2>1, <2>3
<1>Login. ASSUME NEW b \in Browsers, Login(b) PROVE PastStays
  <2>1. Enter(b, 0, "issue")
    BY <1>Login DEF Login
  <2>2. \A j \in DOMAIN entries' :
          \/ j \in DOMAIN entries /\ entries'[j] = entries[j]
          \/ entries'[j] = [browser |-> b, link |-> 0, pc |-> "issue", family |-> 0]
    BY <2>1, Entered
  <2>3. links' = links
    BY <2>1 DEF Enter
  <2>4. \A j \in DOMAIN entries' : Past(j)' => j \in DOMAIN entries /\ Past(j)
    BY <2>2, <2>3
  <2> HIDE DEF Typed, Refer, Unborn, EntriesRefer, Signup, Past
  <2>5. QED
    BY <2>4
<1>Provision. ASSUME NEW b \in Browsers, Provision(b) PROVE PastStays
  <2>1. Enter(b, 0, "provision")
    BY <1>Provision DEF Provision
  <2>2. \A j \in DOMAIN entries' :
          \/ j \in DOMAIN entries /\ entries'[j] = entries[j]
          \/ entries'[j] = [browser |-> b, link |-> 0, pc |-> "provision", family |-> 0]
    BY <2>1, Entered
  <2>3. links' = links
    BY <2>1 DEF Enter
  <2>4. \A j \in DOMAIN entries' : Past(j)' => j \in DOMAIN entries /\ Past(j)
    BY <2>2, <2>3
  <2> HIDE DEF Typed, Refer, Unborn, EntriesRefer, Signup, Past
  <2>5. QED
    BY <2>4
<1>Logout. ASSUME NEW b \in Browsers, Logout(b) PROVE PastStays
  BY <1>Logout, <1>Links DEF Logout
<1>DeleteMe. ASSUME NEW b \in Browsers, DeleteMe(b) PROVE PastStays
  BY <1>DeleteMe, <1>Links DEF DeleteMe
<1>Expire. ASSUME NEW b \in Browsers, Expire(b) PROVE PastStays
  BY <1>Expire, <1>Links DEF Expire
<1>Verify. ASSUME NEW b \in Browsers, NEW k \in DOMAIN links, Verify(b, k) PROVE PastStays
  <2>1. Enter(b, k, (IF links[k].signup THEN "create" ELSE "mark"))
    BY <1>Verify DEF Verify
  <2>2. \A j \in DOMAIN entries' :
          \/ j \in DOMAIN entries /\ entries'[j] = entries[j]
          \/ entries'[j] = [browser |-> b, link |-> k, pc |-> (IF links[k].signup THEN "create" ELSE "mark"), family |-> 0]
    BY <2>1, Entered
  <2>3. links' = links
    BY <2>1 DEF Enter
  <2>4. \A j \in DOMAIN entries' : Past(j)' => j \in DOMAIN entries /\ Past(j)
    BY <2>2, <2>3
  <2> HIDE DEF Typed, Refer, Unborn, EntriesRefer, Signup, Past
  <2>5. QED
    BY <2>4
<1>Call. ASSUME NEW t \in Tabs, Call(t) PROVE PastStays
  BY <1>Call, <1>Links DEF Call, Spend
<1>Refused. ASSUME NEW t \in Tabs, Refused(t) PROVE PastStays
  BY <1>Refused, <1>Links DEF Refused, Waits, Request, Inactive, Busy
<1>Check. ASSUME NEW i \in DOMAIN reqs, Check(i) PROVE PastStays
  BY <1>Check, <1>Links DEF Check, Step, FamilyOf
<1>Reused. ASSUME NEW i \in DOMAIN reqs, Reused(i) PROVE PastStays
  BY <1>Reused, <1>Links DEF Reused, Revoke, Step
<1>ReadUser. ASSUME NEW i \in DOMAIN reqs, ReadUser(i) PROVE PastStays
  BY <1>ReadUser, <1>Links DEF ReadUser, Step
<1>Barred. ASSUME NEW i \in DOMAIN reqs, Barred(i) PROVE PastStays
  BY <1>Barred, <1>Links DEF Barred, Revoke, Step
<1>Rotate. ASSUME NEW i \in DOMAIN reqs, Rotate(i) PROVE PastStays
  BY <1>Rotate, <1>Links DEF Rotate
<1>Reply. ASSUME NEW i \in DOMAIN reqs, Reply(i) PROVE PastStays
  BY <1>Reply, <1>Links DEF Reply, Settled, CookiesAfter
<1>Break. ASSUME NEW i \in DOMAIN reqs, Break(i) PROVE PastStays
  BY <1>Break, <1>Links DEF Break, Spend, Settled
<1>ScimCreate. ASSUME NEW s \in {"active", "suspended"}, ScimCreate(s) PROVE PastStays
  BY <1>ScimCreate, <1>Links DEF ScimCreate, Spend
<1>Suspend. ASSUME Suspend PROVE PastStays
  BY <1>Suspend, <1>Links DEF Suspend, Spend
<1>Restore. ASSUME Restore PROVE PastStays
  BY <1>Restore, <1>Links DEF Restore, Spend
<1>Create. ASSUME NEW i \in DOMAIN entries, Create(i) PROVE PastStays
  <2>1. CASE Ended(i)
    <3>1. /\ \A j \in DOMAIN entries' : \E k \in DOMAIN entries : entries'[j] = entries[k]
          /\ \A j, l \in DOMAIN entries' : j # l =>
               \E k, m \in DOMAIN entries : k # m /\ entries'[j] = entries[k] /\ entries'[l] = entries[m]
      BY <2>1, EntriesLeft DEF Ended
    <3>2. \A j \in DOMAIN entries', k \in DOMAIN entries : entries'[j] = entries[k] /\ Past(j)' => Past(k)
      BY <1>Create, <1>Links DEF Create, Insert
    <3> HIDE DEF Typed, Refer, Unborn, EntriesRefer, Signup, Past
    <3>3. QED
      BY <3>1, <3>2
  <2>2. CASE account = "none" /\ To(i, "mark")
    <3>1. /\ DOMAIN entries' = DOMAIN entries
          /\ \A j \in DOMAIN entries \ {i} : entries'[j] = entries[j]
      BY <2>2, EntryMoved
    <3>2. families' = << >> /\ \A j \in DOMAIN entries' : Past(j)' => j = i
      BY <1>Create, <2>2, <3>1 DEF Create, Insert
    <3> HIDE DEF Typed, Refer, Unborn, EntriesRefer, Signup, Past
    <3>3. QED
      BY <3>2
  <2>3. QED
    BY <1>Create, <2>1, <2>2 DEF Create, Insert
<1>Provisioned. ASSUME NEW i \in DOMAIN entries, Provisioned(i) PROVE PastStays
  <2>1. CASE Ended(i)
    <3>1. /\ \A j \in DOMAIN entries' : \E k \in DOMAIN entries : entries'[j] = entries[k]
          /\ \A j, l \in DOMAIN entries' : j # l =>
               \E k, m \in DOMAIN entries : k # m /\ entries'[j] = entries[k] /\ entries'[l] = entries[m]
      BY <2>1, EntriesLeft DEF Ended
    <3>2. \A j \in DOMAIN entries', k \in DOMAIN entries : entries'[j] = entries[k] /\ Past(j)' => Past(k)
      BY <1>Provisioned, <1>Links DEF Provisioned, Insert
    <3> HIDE DEF Typed, Refer, Unborn, EntriesRefer, Signup, Past
    <3>3. QED
      BY <3>1, <3>2
  <2>2. CASE account = "none" /\ To(i, "issue")
    <3>1. /\ DOMAIN entries' = DOMAIN entries
          /\ \A j \in DOMAIN entries \ {i} : entries'[j] = entries[j]
      BY <2>2, EntryMoved
    <3>2. families' = << >> /\ \A j \in DOMAIN entries' : Past(j)' => j = i
      BY <1>Provisioned, <2>2, <3>1 DEF Provisioned, Insert
    <3> HIDE DEF Typed, Refer, Unborn, EntriesRefer, Signup, Past
    <3>3. QED
      BY <3>2
  <2>3. QED
    BY <1>Provisioned, <2>1, <2>2 DEF Provisioned, Insert
<1>MarkUsed. ASSUME NEW i \in DOMAIN entries, MarkUsed(i) PROVE PastStays
  <2>1. CASE Ended(i)
    <3>1. /\ \A j \in DOMAIN entries' : \E k \in DOMAIN entries : entries'[j] = entries[k]
          /\ \A j, l \in DOMAIN entries' : j # l =>
               \E k, m \in DOMAIN entries : k # m /\ entries'[j] = entries[k] /\ entries'[l] = entries[m]
      BY <2>1, EntriesLeft DEF Ended
    <3>2. \A j \in DOMAIN entries', k \in DOMAIN entries : entries'[j] = entries[k] /\ Past(j)' => Past(k)
      BY <1>MarkUsed, <1>Links DEF MarkUsed
    <3> HIDE DEF Typed, Refer, Unborn, EntriesRefer, Signup, Past
    <3>3. QED
      BY <3>1, <3>2
  <2>2. CASE To(i, "issue")
    <3>1. /\ DOMAIN entries' = DOMAIN entries
          /\ \A j \in DOMAIN entries \ {i} : entries'[j] = entries[j]
          /\ entries'[i].pc = "issue" /\ entries'[i].link = entries[i].link
      BY <2>2, EntryMoved
    <3>2. \A j \in DOMAIN entries' : Past(j)' => Past(j)
      <4>1. entries[i].pc = "mark"
        BY <1>MarkUsed DEF MarkUsed
      <4>2. \A j \in DOMAIN entries : entries[j].link \in 0 .. Len(links)
        OBVIOUS
      <4>3. \A j \in DOMAIN entries' : entries'[j].link = entries[j].link
        BY <3>1
      <4>4. \A j \in DOMAIN entries' : entries'[j].pc \in {"mark", "issue"} => entries[j].pc \in {"mark", "issue"}
        BY <3>1, <4>1
      <4>5. DOMAIN links = 1 .. Len(links) /\ Len(links) \in Nat
        OBVIOUS
      <4> HIDE DEF Typed, Refer, Unborn, EntriesRefer
      <4>6. QED
        BY <1>Links, <3>1, <4>2, <4>3, <4>4, <4>5
    <3> HIDE DEF Typed, Refer, Unborn, EntriesRefer, Signup, Past
    <3>3. QED
      BY <3>1, <3>2
  <2>3. QED
    BY <1>MarkUsed, <2>1, <2>2 DEF MarkUsed
<1>Issue. ASSUME NEW i \in DOMAIN entries, Issue(i) PROVE PastStays
  <2>1. \A j \in DOMAIN entries' : Past(j)' => Past(j)
    BY <1>Issue, <1>Links DEF Issue
  <2>2. DOMAIN entries' = DOMAIN entries
    BY <1>Issue DEF Issue
  <2> HIDE DEF Typed, Refer, Unborn, EntriesRefer, Signup, Past
  <2>3. QED
    BY <2>1, <2>2
<1>SignedIn. ASSUME NEW i \in DOMAIN entries, SignedIn(i) PROVE PastStays
  <2>1. /\ \A j \in DOMAIN entries' : \E k \in DOMAIN entries : entries'[j] = entries[k]
        /\ \A j, l \in DOMAIN entries' : j # l =>
             \E k, m \in DOMAIN entries : k # m /\ entries'[j] = entries[k] /\ entries'[l] = entries[m]
    BY <1>SignedIn, EntriesLeft DEF SignedIn, Ended
  <2>2. \A j \in DOMAIN entries', k \in DOMAIN entries : entries'[j] = entries[k] /\ Past(j)' => Past(k)
    BY <1>SignedIn, <1>Links DEF SignedIn
  <2> HIDE DEF Typed, Refer, Unborn, EntriesRefer, Signup, Past
  <2>3. QED
    BY <2>1, <2>2
<1>RevokeAll. ASSUME NEW b \in Browsers, RevokeAll(b) PROVE PastStays
  BY <1>RevokeAll, <1>Links DEF RevokeAll, Spend
<1>Left. ASSUME NEW b \in Browsers, Left(b) PROVE PastStays
  BY <1>Left, <1>Links DEF Left
<1>Stutter. CASE UNCHANGED vars
  BY <1>Stutter, <1>Links DEF vars
<1> HIDE DEF Typed, Refer, Unborn, EntriesRefer, Signup, Past, PastStays, db, web
<1>QED. QED
  BY <1>SendSignupLink, <1>SendLoginLink, <1>Login, <1>Provision, <1>Logout, <1>DeleteMe,
     <1>Expire, <1>Verify, <1>Call, <1>Refused, <1>Check, <1>Reused,
     <1>ReadUser, <1>Barred, <1>Rotate, <1>Reply, <1>Break, <1>ScimCreate,
     <1>Suspend, <1>Restore, <1>Create, <1>Provisioned, <1>MarkUsed, <1>Issue,
     <1>SignedIn, <1>RevokeAll, <1>Left, <1>Stutter
     DEF Next, User, Directory, Refresh, SignIn

(* Only issueSession opens a family.                                       *)
LEMMA NoneComesInNext ==
  Typed /\ Refer /\ [Next]_vars => NoneComesIn \/ \E e \in DOMAIN entries : Issue(e)
<1> SUFFICES ASSUME Typed, Refer, [Next]_vars PROVE NoneComesIn \/ \E e \in DOMAIN entries : Issue(e)
  OBVIOUS
<1> USE DEF Typed, Refer, FamiliesRefer, Signup, NoneComesIn, db, web
<1>Links. \A n \in DOMAIN links : n # 0 /\ n \in DOMAIN links' /\ links'[n].signup = links[n].signup
  BY SignupSteady DEF LinksStay
<1>SendSignupLink. ASSUME SendSignupLink PROVE NoneComesIn \/ \E e \in DOMAIN entries : Issue(e)
  BY <1>SendSignupLink, <1>Links DEF SendSignupLink, SendLink, Spend
<1>SendLoginLink. ASSUME SendLoginLink PROVE NoneComesIn \/ \E e \in DOMAIN entries : Issue(e)
  BY <1>SendLoginLink, <1>Links DEF SendLoginLink, SendLink, Spend
<1>Login. ASSUME NEW b \in Browsers, Login(b) PROVE NoneComesIn \/ \E e \in DOMAIN entries : Issue(e)
  BY <1>Login, <1>Links DEF Login, Enter, Spend
<1>Provision. ASSUME NEW b \in Browsers, Provision(b) PROVE NoneComesIn \/ \E e \in DOMAIN entries : Issue(e)
  BY <1>Provision, <1>Links DEF Provision, Enter, Spend
<1>Logout. ASSUME NEW b \in Browsers, Logout(b) PROVE NoneComesIn \/ \E e \in DOMAIN entries : Issue(e)
  BY <1>Logout, <1>Links DEF Logout
<1>DeleteMe. ASSUME NEW b \in Browsers, DeleteMe(b) PROVE NoneComesIn \/ \E e \in DOMAIN entries : Issue(e)
  BY <1>DeleteMe, <1>Links DEF DeleteMe
<1>Expire. ASSUME NEW b \in Browsers, Expire(b) PROVE NoneComesIn \/ \E e \in DOMAIN entries : Issue(e)
  BY <1>Expire, <1>Links DEF Expire
<1>Verify. ASSUME NEW b \in Browsers, NEW k \in DOMAIN links, Verify(b, k) PROVE NoneComesIn \/ \E e \in DOMAIN entries : Issue(e)
  BY <1>Verify, <1>Links DEF Verify, Enter, Spend
<1>Call. ASSUME NEW t \in Tabs, Call(t) PROVE NoneComesIn \/ \E e \in DOMAIN entries : Issue(e)
  BY <1>Call, <1>Links DEF Call, Spend
<1>Refused. ASSUME NEW t \in Tabs, Refused(t) PROVE NoneComesIn \/ \E e \in DOMAIN entries : Issue(e)
  BY <1>Refused, <1>Links DEF Refused, Waits, Request, Inactive, Busy
<1>Check. ASSUME NEW i \in DOMAIN reqs, Check(i) PROVE NoneComesIn \/ \E e \in DOMAIN entries : Issue(e)
  BY <1>Check, <1>Links DEF Check, Step, FamilyOf
<1>Reused. ASSUME NEW i \in DOMAIN reqs, Reused(i) PROVE NoneComesIn \/ \E e \in DOMAIN entries : Issue(e)
  BY <1>Reused, <1>Links DEF Reused, Revoke, Step
<1>ReadUser. ASSUME NEW i \in DOMAIN reqs, ReadUser(i) PROVE NoneComesIn \/ \E e \in DOMAIN entries : Issue(e)
  BY <1>ReadUser, <1>Links DEF ReadUser, Step
<1>Barred. ASSUME NEW i \in DOMAIN reqs, Barred(i) PROVE NoneComesIn \/ \E e \in DOMAIN entries : Issue(e)
  BY <1>Barred, <1>Links DEF Barred, Revoke, Step
<1>Rotate. ASSUME NEW i \in DOMAIN reqs, Rotate(i) PROVE NoneComesIn \/ \E e \in DOMAIN entries : Issue(e)
  <2>1. \A f \in DOMAIN families : families[f] \in Families
    OBVIOUS
  <2>2. DOMAIN families' = DOMAIN families /\ \A f \in DOMAIN families : families'[f].link = families[f].link
    BY <1>Rotate, <2>1 DEF Rotate, Families
  <2>3. QED
    BY <1>Links, <2>2
<1>Reply. ASSUME NEW i \in DOMAIN reqs, Reply(i) PROVE NoneComesIn \/ \E e \in DOMAIN entries : Issue(e)
  BY <1>Reply, <1>Links DEF Reply, Settled, CookiesAfter
<1>Break. ASSUME NEW i \in DOMAIN reqs, Break(i) PROVE NoneComesIn \/ \E e \in DOMAIN entries : Issue(e)
  BY <1>Break, <1>Links DEF Break, Spend, Settled
<1>ScimCreate. ASSUME NEW s \in {"active", "suspended"}, ScimCreate(s) PROVE NoneComesIn \/ \E e \in DOMAIN entries : Issue(e)
  BY <1>ScimCreate, <1>Links DEF ScimCreate, Spend
<1>Suspend. ASSUME Suspend PROVE NoneComesIn \/ \E e \in DOMAIN entries : Issue(e)
  BY <1>Suspend, <1>Links DEF Suspend, Spend
<1>Restore. ASSUME Restore PROVE NoneComesIn \/ \E e \in DOMAIN entries : Issue(e)
  BY <1>Restore, <1>Links DEF Restore, Spend
<1>Create. ASSUME NEW i \in DOMAIN entries, Create(i) PROVE NoneComesIn \/ \E e \in DOMAIN entries : Issue(e)
  BY <1>Create, <1>Links DEF Create, Insert, To, Ended
<1>Provisioned. ASSUME NEW i \in DOMAIN entries, Provisioned(i) PROVE NoneComesIn \/ \E e \in DOMAIN entries : Issue(e)
  BY <1>Provisioned, <1>Links DEF Provisioned, Insert, To, Ended
<1>MarkUsed. ASSUME NEW i \in DOMAIN entries, MarkUsed(i) PROVE NoneComesIn \/ \E e \in DOMAIN entries : Issue(e)
  BY <1>MarkUsed, <1>Links DEF MarkUsed, To, Ended, Spend
<1>Issue. ASSUME NEW i \in DOMAIN entries, Issue(i) PROVE NoneComesIn \/ \E e \in DOMAIN entries : Issue(e)
  BY <1>Issue
<1>SignedIn. ASSUME NEW i \in DOMAIN entries, SignedIn(i) PROVE NoneComesIn \/ \E e \in DOMAIN entries : Issue(e)
  BY <1>SignedIn, <1>Links DEF SignedIn, Ended, Busy
<1>RevokeAll. ASSUME NEW b \in Browsers, RevokeAll(b) PROVE NoneComesIn \/ \E e \in DOMAIN entries : Issue(e)
  BY <1>RevokeAll, <1>Links, FamiliesLeft
<1>Left. ASSUME NEW b \in Browsers, Left(b) PROVE NoneComesIn \/ \E e \in DOMAIN entries : Issue(e)
  BY <1>Left, <1>Links DEF Left
<1>Stutter. CASE UNCHANGED vars
  BY <1>Stutter, <1>Links DEF vars
<1> HIDE DEF Typed, Refer, FamiliesRefer, Signup, NoneComesIn, db, web
<1>QED. QED
  BY <1>SendSignupLink, <1>SendLoginLink, <1>Login, <1>Provision, <1>Logout, <1>DeleteMe,
     <1>Expire, <1>Verify, <1>Call, <1>Refused, <1>Check, <1>Reused,
     <1>ReadUser, <1>Barred, <1>Rotate, <1>Reply, <1>Break, <1>ScimCreate,
     <1>Suspend, <1>Restore, <1>Create, <1>Provisioned, <1>MarkUsed, <1>Issue,
     <1>SignedIn, <1>RevokeAll, <1>Left, <1>Stutter
     DEF Next, User, Directory, Refresh, SignIn

(* A sign-up link opens one family.                                        *)
LEMMA OnceNext ==
  Typed /\ Refer /\ Unborn /\ Once /\ [Next]_vars => Once'
<1> SUFFICES ASSUME Typed, Refer, Unborn, Once, [Next]_vars PROVE Once'
  OBVIOUS
<1>1. PastStays
  BY PastStaysNext
<1>2. CASE NoneComesIn
  <2>1. OnePast'
    BY <1>1 DEF Once, OnePast, PastStays
  <2>2. PastOrIn'
    BY <1>1, <1>2 DEF Once, PastOrIn, PastStays, NoneComesIn
  <2>3. OneIn'
    BY <1>2 DEF Once, OneIn, NoneComesIn
  <2>4. QED
    BY <2>1, <2>2, <2>3 DEF Once
<1>3. ASSUME NEW i \in DOMAIN entries, Issue(i) PROVE Once'
  <2>1. \A n \in DOMAIN links : n # 0 /\ n \in DOMAIN links' /\ links'[n].signup = links[n].signup
    BY SignupSteady DEF LinksStay
  <2>2. \A j \in DOMAIN entries' : Past(j)' => j \in DOMAIN entries /\ j # i /\ Past(j)
    BY <1>3, <2>1 DEF Issue, Past, Signup, Typed, Refer, EntriesRefer
  <2>3. \A f \in DOMAIN families' : Signup(families[f].link)' =>
          \/ f \in DOMAIN families /\ Signup(families[f].link)
          \/ f = Len(families) + 1 /\ Past(i)
    <3>1. entries[i].link \in 0 .. Len(links) /\ entries[i].pc = "issue"
      BY <1>3 DEF Issue, Refer, EntriesRefer
    <3> DEFINE r == [jti |-> minted + 1, revoked |-> "no", link |-> entries[i].link]
    <3>2. families' = Append(families, r) /\ families \in Seq(Families)
      BY <1>3 DEF Issue, Typed
    <3>3. r.link = entries[i].link
      OBVIOUS
    <3> HIDE DEF r
    <3>4. \A f \in DOMAIN families' :
            \/ f \in DOMAIN families /\ families'[f] = families[f]
            \/ f = Len(families) + 1 /\ families'[f] = r
      <4>1. \A f \in DOMAIN Append(families, r) :
              \/ f \in DOMAIN families /\ Append(families, r)[f] = families[f]
              \/ f = Len(families) + 1 /\ Append(families, r)[f] = r
        BY <3>2, Appended
      <4>2. QED
        BY <3>2, <4>1
    <3>5. \A f \in DOMAIN families : families[f].link \in 0 .. Len(links)
      BY DEF Refer, FamiliesRefer
    <3>6. QED
      BY <1>3, <2>1, <3>1, <3>3, <3>4, <3>5 DEF Past, Signup, Typed
  <2>4. Len(families) + 1 \notin DOMAIN families
    BY DEF Typed
  <2>5. OnePast'
    BY <2>2 DEF Once, OnePast
  <2>6. PastOrIn'
    BY <2>2, <2>3 DEF Once, OnePast, PastOrIn
  <2>7. OneIn'
    BY <2>3, <2>4 DEF Once, PastOrIn, OneIn
  <2>8. QED
    BY <2>5, <2>6, <2>7 DEF Once
<1>4. QED
  BY <1>2, <1>3, NoneComesInNext

(* Only a sign-in gives a browser another family.                          *)
LEMMA HeldStaysNext ==
  Typed /\ Refer /\ [Next]_vars => HeldStays \/ \E e \in DOMAIN entries : SignedIn(e)
<1> SUFFICES ASSUME Typed, Refer, [Next]_vars PROVE HeldStays \/ \E e \in DOMAIN entries : SignedIn(e)
  OBVIOUS
<1> USE DEF Typed, Refer, HeldStays, Holds, Owner, db, web
<1>SendSignupLink. ASSUME SendSignupLink PROVE HeldStays \/ \E e \in DOMAIN entries : SignedIn(e)
  BY <1>SendSignupLink DEF SendSignupLink, SendLink, Spend
<1>SendLoginLink. ASSUME SendLoginLink PROVE HeldStays \/ \E e \in DOMAIN entries : SignedIn(e)
  BY <1>SendLoginLink DEF SendLoginLink, SendLink, Spend
<1>Login. ASSUME NEW b \in Browsers, Login(b) PROVE HeldStays \/ \E e \in DOMAIN entries : SignedIn(e)
  BY <1>Login DEF Login, Enter, Spend
<1>Provision. ASSUME NEW b \in Browsers, Provision(b) PROVE HeldStays \/ \E e \in DOMAIN entries : SignedIn(e)
  BY <1>Provision DEF Provision, Enter, Spend
<1>Logout. ASSUME NEW b \in Browsers, Logout(b) PROVE HeldStays \/ \E e \in DOMAIN entries : SignedIn(e)
  <2>1. reqs' = reqs /\ \A c \in Browsers : jar'[c] = jar[c] \/ jar'[c].family = 0
    BY <1>Logout DEF Logout, EmptyJar
  <2>2. \A f \in DOMAIN families' : f # 0
    BY <1>Logout DEF Logout
  <2> HIDE DEF Typed, Refer
  <2>3. QED
    BY <2>1, <2>2
<1>DeleteMe. ASSUME NEW b \in Browsers, DeleteMe(b) PROVE HeldStays \/ \E e \in DOMAIN entries : SignedIn(e)
  BY <1>DeleteMe DEF DeleteMe
<1>Expire. ASSUME NEW b \in Browsers, Expire(b) PROVE HeldStays \/ \E e \in DOMAIN entries : SignedIn(e)
  <2>1. reqs' = reqs /\ \A c \in Browsers : jar'[c].family = jar[c].family
    BY <1>Expire DEF Expire, Jars
  <2> HIDE DEF Typed, Refer
  <2>2. QED
    BY <2>1
<1>Verify. ASSUME NEW b \in Browsers, NEW k \in DOMAIN links, Verify(b, k) PROVE HeldStays \/ \E e \in DOMAIN entries : SignedIn(e)
  BY <1>Verify DEF Verify, Enter, Spend
<1>Call. ASSUME NEW t \in Tabs, Call(t) PROVE HeldStays \/ \E e \in DOMAIN entries : SignedIn(e)
  BY <1>Call DEF Call, Spend
<1>Refused. ASSUME NEW t \in Tabs, Refused(t) PROVE HeldStays \/ \E e \in DOMAIN entries : SignedIn(e)
  <2>1. \A j \in DOMAIN reqs' : (j \in DOMAIN reqs /\ reqs'[j] = reqs[j]) \/ reqs'[j] = Request(t)
    BY <1>Refused, ReqsJoined
  <2>2. Request(t).tab = t /\ Request(t).family = jar[Home[t]].family
    BY DEF Request
  <2>3. jar' = jar
    BY <1>Refused DEF Refused
  <2> HIDE DEF Typed, Refer
  <2>4. QED
    BY <2>1, <2>2, <2>3
<1>Check. ASSUME NEW i \in DOMAIN reqs, Check(i) PROVE HeldStays \/ \E e \in DOMAIN entries : SignedIn(e)
  <2>1. /\ DOMAIN reqs' = DOMAIN reqs
        /\ \A j \in DOMAIN reqs : reqs'[j].tab = reqs[j].tab /\ reqs'[j].family = reqs[j].family
    <3>1. PICK p : Step(i, p)
      BY <1>Check DEF Check
    <3>2. QED
      BY <3>1, ReqMoved
  <2>2. jar' = jar
    BY <1>Check DEF Check
  <2> HIDE DEF Typed, Refer
  <2>3. QED
    BY <2>1, <2>2
<1>Reused. ASSUME NEW i \in DOMAIN reqs, Reused(i) PROVE HeldStays \/ \E e \in DOMAIN entries : SignedIn(e)
  <2>1. /\ DOMAIN reqs' = DOMAIN reqs
        /\ \A j \in DOMAIN reqs : reqs'[j].tab = reqs[j].tab /\ reqs'[j].family = reqs[j].family
    <3>1. PICK p : Step(i, p)
      BY <1>Reused DEF Reused, Revoke
    <3>2. QED
      BY <3>1, ReqMoved
  <2>2. jar' = jar
    BY <1>Reused DEF Reused, Revoke
  <2> HIDE DEF Typed, Refer
  <2>3. QED
    BY <2>1, <2>2
<1>ReadUser. ASSUME NEW i \in DOMAIN reqs, ReadUser(i) PROVE HeldStays \/ \E e \in DOMAIN entries : SignedIn(e)
  <2>1. /\ DOMAIN reqs' = DOMAIN reqs
        /\ \A j \in DOMAIN reqs : reqs'[j].tab = reqs[j].tab /\ reqs'[j].family = reqs[j].family
    <3>1. PICK p : Step(i, p)
      BY <1>ReadUser DEF ReadUser
    <3>2. QED
      BY <3>1, ReqMoved
  <2>2. jar' = jar
    BY <1>ReadUser DEF ReadUser
  <2> HIDE DEF Typed, Refer
  <2>3. QED
    BY <2>1, <2>2
<1>Barred. ASSUME NEW i \in DOMAIN reqs, Barred(i) PROVE HeldStays \/ \E e \in DOMAIN entries : SignedIn(e)
  <2>1. /\ DOMAIN reqs' = DOMAIN reqs
        /\ \A j \in DOMAIN reqs : reqs'[j].tab = reqs[j].tab /\ reqs'[j].family = reqs[j].family
    <3>1. PICK p : Step(i, p)
      BY <1>Barred DEF Barred, Revoke
    <3>2. QED
      BY <3>1, ReqMoved
  <2>2. jar' = jar
    BY <1>Barred DEF Barred, Revoke
  <2> HIDE DEF Typed, Refer
  <2>3. QED
    BY <2>1, <2>2
<1>Rotate. ASSUME NEW i \in DOMAIN reqs, Rotate(i) PROVE HeldStays \/ \E e \in DOMAIN entries : SignedIn(e)
  <2>1. /\ DOMAIN reqs' = DOMAIN reqs
        /\ \A j \in DOMAIN reqs : reqs'[j].tab = reqs[j].tab /\ reqs'[j].family = reqs[j].family
    BY <1>Rotate, ReqGranted
  <2>2. jar' = jar
    BY <1>Rotate DEF Rotate
  <2> HIDE DEF Typed, Refer
  <2>3. QED
    BY <2>1, <2>2
<1>Reply. ASSUME NEW i \in DOMAIN reqs, Reply(i) PROVE HeldStays \/ \E e \in DOMAIN entries : SignedIn(e)
  <2>1. reqs' = RemoveAt(reqs, i)
    BY <1>Reply DEF Reply
  <2>2. \A j \in DOMAIN reqs' : \E k \in DOMAIN reqs \ {i} : reqs'[j] = reqs[k]
    BY <2>1, ReqsLeft
  <2>3. \A c \in Browsers : \/ jar'[c] = jar[c] \/ jar'[c].family = 0
                            \/ c = Owner(i) /\ jar'[c].family = reqs[i].family
    BY <1>Reply DEF Reply, CookiesAfter, EmptyJar
  <2>4. \A f \in DOMAIN families' : f # 0
    BY <1>Reply DEF Reply
  <2> HIDE DEF Typed, Refer
  <2>5. QED
    BY <2>2, <2>3, <2>4
<1>Break. ASSUME NEW i \in DOMAIN reqs, Break(i) PROVE HeldStays \/ \E e \in DOMAIN entries : SignedIn(e)
  <2>1. \A j \in DOMAIN reqs' : \E k \in DOMAIN reqs :
          reqs'[j].tab = reqs[k].tab /\ reqs'[j].family = reqs[k].family
    <3>1. CASE reqs' = RemoveAt(reqs, i)
      BY <3>1, ReqsLeft
    <3>2. CASE reqs' = [reqs EXCEPT ![i].heard = FALSE]
      <4>1. \A j \in DOMAIN reqs : reqs[j] \in Reqs
        OBVIOUS
      <4>2. /\ DOMAIN reqs' = DOMAIN reqs
            /\ \A j \in DOMAIN reqs : reqs'[j].tab = reqs[j].tab /\ reqs'[j].family = reqs[j].family
        BY <3>2, <4>1 DEF Reqs
      <4>3. QED
        BY <4>2
    <3>3. QED
      BY <1>Break, <3>1, <3>2 DEF Break
  <2>2. jar' = jar
    BY <1>Break DEF Break
  <2> HIDE DEF Typed, Refer
  <2>3. QED
    BY <2>1, <2>2
<1>ScimCreate. ASSUME NEW s \in {"active", "suspended"}, ScimCreate(s) PROVE HeldStays \/ \E e \in DOMAIN entries : SignedIn(e)
  BY <1>ScimCreate DEF ScimCreate, Spend
<1>Suspend. ASSUME Suspend PROVE HeldStays \/ \E e \in DOMAIN entries : SignedIn(e)
  BY <1>Suspend DEF Suspend, Spend
<1>Restore. ASSUME Restore PROVE HeldStays \/ \E e \in DOMAIN entries : SignedIn(e)
  <2>1. /\ DOMAIN reqs' = DOMAIN reqs
        /\ \A j \in DOMAIN reqs : reqs'[j].tab = reqs[j].tab /\ reqs'[j].family = reqs[j].family
    BY <1>Restore, ReqsRestored
  <2>2. jar' = jar
    BY <1>Restore DEF Restore
  <2> HIDE DEF Typed, Refer
  <2>3. QED
    BY <2>1, <2>2
<1>Create. ASSUME NEW i \in DOMAIN entries, Create(i) PROVE HeldStays \/ \E e \in DOMAIN entries : SignedIn(e)
  BY <1>Create DEF Create, Insert, To, Ended
<1>Provisioned. ASSUME NEW i \in DOMAIN entries, Provisioned(i) PROVE HeldStays \/ \E e \in DOMAIN entries : SignedIn(e)
  BY <1>Provisioned DEF Provisioned, Insert, To, Ended
<1>MarkUsed. ASSUME NEW i \in DOMAIN entries, MarkUsed(i) PROVE HeldStays \/ \E e \in DOMAIN entries : SignedIn(e)
  BY <1>MarkUsed DEF MarkUsed, To, Ended, Spend
<1>Issue. ASSUME NEW i \in DOMAIN entries, Issue(i) PROVE HeldStays \/ \E e \in DOMAIN entries : SignedIn(e)
  BY <1>Issue DEF Issue
<1>SignedIn. ASSUME NEW i \in DOMAIN entries, SignedIn(i) PROVE HeldStays \/ \E e \in DOMAIN entries : SignedIn(e)
  BY <1>SignedIn
<1>RevokeAll. ASSUME NEW b \in Browsers, RevokeAll(b) PROVE HeldStays \/ \E e \in DOMAIN entries : SignedIn(e)
  BY <1>RevokeAll DEF RevokeAll, Spend
<1>Left. ASSUME NEW b \in Browsers, Left(b) PROVE HeldStays \/ \E e \in DOMAIN entries : SignedIn(e)
  <2>1. reqs' = reqs /\ \A c \in Browsers : jar'[c] = jar[c] \/ jar'[c].family = 0
    BY <1>Left DEF Left, EmptyJar
  <2>2. \A f \in DOMAIN families' : f # 0
    BY <1>Left DEF Left
  <2> HIDE DEF Typed, Refer
  <2>3. QED
    BY <2>1, <2>2
<1>Stutter. CASE UNCHANGED vars
  BY <1>Stutter DEF vars
<1> HIDE DEF Typed, Refer, HeldStays, Holds, Owner, db, web
<1>QED. QED
  BY <1>SendSignupLink, <1>SendLoginLink, <1>Login, <1>Provision, <1>Logout, <1>DeleteMe,
     <1>Expire, <1>Verify, <1>Call, <1>Refused, <1>Check, <1>Reused,
     <1>ReadUser, <1>Barred, <1>Rotate, <1>Reply, <1>Break, <1>ScimCreate,
     <1>Suspend, <1>Restore, <1>Create, <1>Provisioned, <1>MarkUsed, <1>Issue,
     <1>SignedIn, <1>RevokeAll, <1>Left, <1>Stutter
     DEF Next, User, Directory, Refresh, SignIn

(* Only issueSession prepares a reply to a sign-in.                        *)
LEMMA RepliesStayNext ==
  Typed /\ Refer /\ [Next]_vars => RepliesStay \/ \E e \in DOMAIN entries : Issue(e)
<1> SUFFICES ASSUME Typed, Refer, [Next]_vars PROVE RepliesStay \/ \E e \in DOMAIN entries : Issue(e)
  OBVIOUS
<1> USE DEF Typed, Refer, RepliesStay, db, web
<1>SendSignupLink. ASSUME SendSignupLink PROVE RepliesStay \/ \E e \in DOMAIN entries : Issue(e)
  BY <1>SendSignupLink DEF SendSignupLink, SendLink, Spend
<1>SendLoginLink. ASSUME SendLoginLink PROVE RepliesStay \/ \E e \in DOMAIN entries : Issue(e)
  BY <1>SendLoginLink DEF SendLoginLink, SendLink, Spend
<1>Login. ASSUME NEW b \in Browsers, Login(b) PROVE RepliesStay \/ \E e \in DOMAIN entries : Issue(e)
  <2>1. Enter(b, 0, "issue")
    BY <1>Login DEF Login
  <2>2. \A j \in DOMAIN entries' :
          \/ j \in DOMAIN entries /\ entries'[j] = entries[j]
          \/ entries'[j].pc # "reply"
    BY <2>1, Entered
  <2> HIDE DEF Typed, Refer
  <2>3. QED
    BY <2>2
<1>Provision. ASSUME NEW b \in Browsers, Provision(b) PROVE RepliesStay \/ \E e \in DOMAIN entries : Issue(e)
  <2>1. Enter(b, 0, "provision")
    BY <1>Provision DEF Provision
  <2>2. \A j \in DOMAIN entries' :
          \/ j \in DOMAIN entries /\ entries'[j] = entries[j]
          \/ entries'[j].pc # "reply"
    BY <2>1, Entered
  <2> HIDE DEF Typed, Refer
  <2>3. QED
    BY <2>2
<1>Logout. ASSUME NEW b \in Browsers, Logout(b) PROVE RepliesStay \/ \E e \in DOMAIN entries : Issue(e)
  BY <1>Logout DEF Logout
<1>DeleteMe. ASSUME NEW b \in Browsers, DeleteMe(b) PROVE RepliesStay \/ \E e \in DOMAIN entries : Issue(e)
  BY <1>DeleteMe DEF DeleteMe
<1>Expire. ASSUME NEW b \in Browsers, Expire(b) PROVE RepliesStay \/ \E e \in DOMAIN entries : Issue(e)
  BY <1>Expire DEF Expire
<1>Verify. ASSUME NEW b \in Browsers, NEW k \in DOMAIN links, Verify(b, k) PROVE RepliesStay \/ \E e \in DOMAIN entries : Issue(e)
  <2>1. Enter(b, k, (IF links[k].signup THEN "create" ELSE "mark"))
    BY <1>Verify DEF Verify
  <2>2. \A j \in DOMAIN entries' :
          \/ j \in DOMAIN entries /\ entries'[j] = entries[j]
          \/ entries'[j].pc # "reply"
    BY <2>1, Entered
  <2> HIDE DEF Typed, Refer
  <2>3. QED
    BY <2>2
<1>Call. ASSUME NEW t \in Tabs, Call(t) PROVE RepliesStay \/ \E e \in DOMAIN entries : Issue(e)
  BY <1>Call DEF Call, Spend
<1>Refused. ASSUME NEW t \in Tabs, Refused(t) PROVE RepliesStay \/ \E e \in DOMAIN entries : Issue(e)
  BY <1>Refused DEF Refused, Waits, Request, Inactive, Busy
<1>Check. ASSUME NEW i \in DOMAIN reqs, Check(i) PROVE RepliesStay \/ \E e \in DOMAIN entries : Issue(e)
  BY <1>Check DEF Check, Step, FamilyOf
<1>Reused. ASSUME NEW i \in DOMAIN reqs, Reused(i) PROVE RepliesStay \/ \E e \in DOMAIN entries : Issue(e)
  BY <1>Reused DEF Reused, Revoke, Step
<1>ReadUser. ASSUME NEW i \in DOMAIN reqs, ReadUser(i) PROVE RepliesStay \/ \E e \in DOMAIN entries : Issue(e)
  BY <1>ReadUser DEF ReadUser, Step
<1>Barred. ASSUME NEW i \in DOMAIN reqs, Barred(i) PROVE RepliesStay \/ \E e \in DOMAIN entries : Issue(e)
  BY <1>Barred DEF Barred, Revoke, Step
<1>Rotate. ASSUME NEW i \in DOMAIN reqs, Rotate(i) PROVE RepliesStay \/ \E e \in DOMAIN entries : Issue(e)
  BY <1>Rotate DEF Rotate
<1>Reply. ASSUME NEW i \in DOMAIN reqs, Reply(i) PROVE RepliesStay \/ \E e \in DOMAIN entries : Issue(e)
  BY <1>Reply DEF Reply, Settled, CookiesAfter
<1>Break. ASSUME NEW i \in DOMAIN reqs, Break(i) PROVE RepliesStay \/ \E e \in DOMAIN entries : Issue(e)
  BY <1>Break DEF Break, Spend, Settled
<1>ScimCreate. ASSUME NEW s \in {"active", "suspended"}, ScimCreate(s) PROVE RepliesStay \/ \E e \in DOMAIN entries : Issue(e)
  BY <1>ScimCreate DEF ScimCreate, Spend
<1>Suspend. ASSUME Suspend PROVE RepliesStay \/ \E e \in DOMAIN entries : Issue(e)
  BY <1>Suspend DEF Suspend, Spend
<1>Restore. ASSUME Restore PROVE RepliesStay \/ \E e \in DOMAIN entries : Issue(e)
  BY <1>Restore DEF Restore, Spend
<1>Create. ASSUME NEW i \in DOMAIN entries, Create(i) PROVE RepliesStay \/ \E e \in DOMAIN entries : Issue(e)
  <2>1. CASE Ended(i)
    <3>1. /\ \A j \in DOMAIN entries' : \E k \in DOMAIN entries : entries'[j] = entries[k]
          /\ \A j, l \in DOMAIN entries' : j # l =>
               \E k, m \in DOMAIN entries : k # m /\ entries'[j] = entries[k] /\ entries'[l] = entries[m]
      BY <2>1, EntriesLeft DEF Ended
    <3> HIDE DEF Typed, Refer
    <3>2. QED
      BY <3>1
  <2>2. CASE To(i, "mark")
    <3>1. /\ DOMAIN entries' = DOMAIN entries
          /\ \A j \in DOMAIN entries \ {i} : entries'[j] = entries[j]
          /\ entries'[i].pc = "mark"
      BY <2>2, EntryMoved
    <3> HIDE DEF Typed, Refer
    <3>2. QED
      BY <3>1
  <2>3. QED
    BY <1>Create, <2>1, <2>2 DEF Create, Insert
<1>Provisioned. ASSUME NEW i \in DOMAIN entries, Provisioned(i) PROVE RepliesStay \/ \E e \in DOMAIN entries : Issue(e)
  <2>1. CASE Ended(i)
    <3>1. /\ \A j \in DOMAIN entries' : \E k \in DOMAIN entries : entries'[j] = entries[k]
          /\ \A j, l \in DOMAIN entries' : j # l =>
               \E k, m \in DOMAIN entries : k # m /\ entries'[j] = entries[k] /\ entries'[l] = entries[m]
      BY <2>1, EntriesLeft DEF Ended
    <3> HIDE DEF Typed, Refer
    <3>2. QED
      BY <3>1
  <2>2. CASE To(i, "issue")
    <3>1. /\ DOMAIN entries' = DOMAIN entries
          /\ \A j \in DOMAIN entries \ {i} : entries'[j] = entries[j]
          /\ entries'[i].pc = "issue"
      BY <2>2, EntryMoved
    <3> HIDE DEF Typed, Refer
    <3>2. QED
      BY <3>1
  <2>3. QED
    BY <1>Provisioned, <2>1, <2>2 DEF Provisioned, Insert
<1>MarkUsed. ASSUME NEW i \in DOMAIN entries, MarkUsed(i) PROVE RepliesStay \/ \E e \in DOMAIN entries : Issue(e)
  <2>1. CASE Ended(i)
    <3>1. /\ \A j \in DOMAIN entries' : \E k \in DOMAIN entries : entries'[j] = entries[k]
          /\ \A j, l \in DOMAIN entries' : j # l =>
               \E k, m \in DOMAIN entries : k # m /\ entries'[j] = entries[k] /\ entries'[l] = entries[m]
      BY <2>1, EntriesLeft DEF Ended
    <3> HIDE DEF Typed, Refer
    <3>2. QED
      BY <3>1
  <2>2. CASE To(i, "issue")
    <3>1. /\ DOMAIN entries' = DOMAIN entries
          /\ \A j \in DOMAIN entries \ {i} : entries'[j] = entries[j]
          /\ entries'[i].pc = "issue"
      BY <2>2, EntryMoved
    <3> HIDE DEF Typed, Refer
    <3>2. QED
      BY <3>1
  <2>3. QED
    BY <1>MarkUsed, <2>1, <2>2 DEF MarkUsed, Spend
<1>Issue. ASSUME NEW i \in DOMAIN entries, Issue(i) PROVE RepliesStay \/ \E e \in DOMAIN entries : Issue(e)
  BY <1>Issue
<1>SignedIn. ASSUME NEW i \in DOMAIN entries, SignedIn(i) PROVE RepliesStay \/ \E e \in DOMAIN entries : Issue(e)
  <2>1. /\ \A j \in DOMAIN entries' : \E k \in DOMAIN entries : entries'[j] = entries[k]
        /\ \A j, l \in DOMAIN entries' : j # l =>
             \E k, m \in DOMAIN entries : k # m /\ entries'[j] = entries[k] /\ entries'[l] = entries[m]
    BY <1>SignedIn, EntriesLeft DEF SignedIn, Ended
  <2> HIDE DEF Typed, Refer
  <2>2. QED
    BY <2>1
<1>RevokeAll. ASSUME NEW b \in Browsers, RevokeAll(b) PROVE RepliesStay \/ \E e \in DOMAIN entries : Issue(e)
  BY <1>RevokeAll DEF RevokeAll, Spend
<1>Left. ASSUME NEW b \in Browsers, Left(b) PROVE RepliesStay \/ \E e \in DOMAIN entries : Issue(e)
  BY <1>Left DEF Left
<1>Stutter. CASE UNCHANGED vars
  BY <1>Stutter DEF vars
<1> HIDE DEF Typed, Refer, RepliesStay, db, web
<1>QED. QED
  BY <1>SendSignupLink, <1>SendLoginLink, <1>Login, <1>Provision, <1>Logout, <1>DeleteMe,
     <1>Expire, <1>Verify, <1>Call, <1>Refused, <1>Check, <1>Reused,
     <1>ReadUser, <1>Barred, <1>Rotate, <1>Reply, <1>Break, <1>ScimCreate,
     <1>Suspend, <1>Restore, <1>Create, <1>Provisioned, <1>MarkUsed, <1>Issue,
     <1>SignedIn, <1>RevokeAll, <1>Left, <1>Stutter
     DEF Next, User, Directory, Refresh, SignIn

(* A family changes hands only through a request that names it.            *)
LEMMA OthersUntouchedNext ==
  Typed /\ Refer /\ [Next]_vars => OthersUntouched
<1> SUFFICES ASSUME Typed, Refer, [Next]_vars PROVE OthersUntouched
  OBVIOUS
<1> USE DEF Typed, Refer, OthersUntouched, db, web
<1>SendSignupLink. ASSUME SendSignupLink PROVE OthersUntouched
  BY <1>SendSignupLink DEF SendSignupLink, SendLink, Spend
<1>SendLoginLink. ASSUME SendLoginLink PROVE OthersUntouched
  BY <1>SendLoginLink DEF SendLoginLink, SendLink, Spend
<1>Login. ASSUME NEW b \in Browsers, Login(b) PROVE OthersUntouched
  BY <1>Login DEF Login, Enter, Spend
<1>Provision. ASSUME NEW b \in Browsers, Provision(b) PROVE OthersUntouched
  BY <1>Provision DEF Provision, Enter, Spend
<1>Logout. ASSUME NEW b \in Browsers, Logout(b) PROVE OthersUntouched
  BY <1>Logout DEF Logout
<1>DeleteMe. ASSUME NEW b \in Browsers, DeleteMe(b) PROVE OthersUntouched
  BY <1>DeleteMe DEF DeleteMe
<1>Expire. ASSUME NEW b \in Browsers, Expire(b) PROVE OthersUntouched
  BY <1>Expire DEF Expire
<1>Verify. ASSUME NEW b \in Browsers, NEW k \in DOMAIN links, Verify(b, k) PROVE OthersUntouched
  BY <1>Verify DEF Verify, Enter, Spend
<1>Call. ASSUME NEW t \in Tabs, Call(t) PROVE OthersUntouched
  BY <1>Call DEF Call, Spend
<1>Refused. ASSUME NEW t \in Tabs, Refused(t) PROVE OthersUntouched
  BY <1>Refused DEF Refused, Waits, Request, Inactive, Busy
<1>Check. ASSUME NEW i \in DOMAIN reqs, Check(i) PROVE OthersUntouched
  BY <1>Check DEF Check, Step, FamilyOf
<1>Reused. ASSUME NEW i \in DOMAIN reqs, Reused(i) PROVE OthersUntouched
  <2>1. \A f \in DOMAIN families : families[f] \in Families
    OBVIOUS
  <2>2. /\ DOMAIN families' = DOMAIN families
        /\ \A f \in DOMAIN families \ {reqs[i].family} : families'[f] = families[f]
    BY <1>Reused DEF Reused, Revoke
  <2>3. reqs[i].pc = "reuse"
    BY <1>Reused, <2>1 DEF Reused, Revoke, Families
  <2> HIDE DEF Typed, Refer
  <2>4. QED
    BY <2>2, <2>3
<1>ReadUser. ASSUME NEW i \in DOMAIN reqs, ReadUser(i) PROVE OthersUntouched
  BY <1>ReadUser DEF ReadUser, Step
<1>Barred. ASSUME NEW i \in DOMAIN reqs, Barred(i) PROVE OthersUntouched
  <2>1. \A f \in DOMAIN families : families[f] \in Families
    OBVIOUS
  <2>2. /\ DOMAIN families' = DOMAIN families
        /\ \A f \in DOMAIN families \ {reqs[i].family} : families'[f] = families[f]
    BY <1>Barred DEF Barred, Revoke
  <2>3. reqs[i].family \in DOMAIN families =>
          /\ families'[reqs[i].family].jti = families[reqs[i].family].jti
          /\ families'[reqs[i].family].revoked = "logout" 
    BY <1>Barred, <2>1 DEF Barred, Revoke, Families
  <2> HIDE DEF Typed, Refer
  <2>4. QED
    BY <2>2, <2>3
<1>Rotate. ASSUME NEW i \in DOMAIN reqs, Rotate(i) PROVE OthersUntouched
  <2>1. /\ DOMAIN families' = DOMAIN families
        /\ \A f \in DOMAIN families \ {reqs[i].family} : families'[f] = families[f]
    BY <1>Rotate DEF Rotate
  <2> HIDE DEF Typed, Refer
  <2>2. QED
    BY <1>Rotate, <2>1
<1>Reply. ASSUME NEW i \in DOMAIN reqs, Reply(i) PROVE OthersUntouched
  BY <1>Reply DEF Reply, Settled, CookiesAfter
<1>Break. ASSUME NEW i \in DOMAIN reqs, Break(i) PROVE OthersUntouched
  BY <1>Break DEF Break, Spend, Settled
<1>ScimCreate. ASSUME NEW s \in {"active", "suspended"}, ScimCreate(s) PROVE OthersUntouched
  BY <1>ScimCreate DEF ScimCreate, Spend
<1>Suspend. ASSUME Suspend PROVE OthersUntouched
  BY <1>Suspend DEF Suspend, Spend
<1>Restore. ASSUME Restore PROVE OthersUntouched
  BY <1>Restore DEF Restore, Spend
<1>Create. ASSUME NEW i \in DOMAIN entries, Create(i) PROVE OthersUntouched
  BY <1>Create DEF Create, Insert, To, Ended
<1>Provisioned. ASSUME NEW i \in DOMAIN entries, Provisioned(i) PROVE OthersUntouched
  BY <1>Provisioned DEF Provisioned, Insert, To, Ended
<1>MarkUsed. ASSUME NEW i \in DOMAIN entries, MarkUsed(i) PROVE OthersUntouched
  BY <1>MarkUsed DEF MarkUsed, To, Ended, Spend
<1>Issue. ASSUME NEW i \in DOMAIN entries, Issue(i) PROVE OthersUntouched
  <2> DEFINE r == [jti |-> minted + 1, revoked |-> "no", link |-> entries[i].link]
  <2>1. families' = Append(families, r) /\ families \in Seq(Families)
    BY <1>Issue DEF Issue
  <2> HIDE DEF Typed, Refer, r
  <2>2. QED
    BY <2>1, Appended
<1>SignedIn. ASSUME NEW i \in DOMAIN entries, SignedIn(i) PROVE OthersUntouched
  BY <1>SignedIn DEF SignedIn, Ended, Busy
<1>RevokeAll. ASSUME NEW b \in Browsers, RevokeAll(b) PROVE OthersUntouched
  <2>1. \A f \in DOMAIN families : families[f] \in Families
    OBVIOUS
  <2>2. CASE families' = families
    BY <2>2
  <2>3. CASE families' = [f \in DOMAIN families |-> [families[f] EXCEPT
                            !.revoked = IF @ = "no" THEN "logout" ELSE @]]
    BY <2>1, <2>3 DEF Families
  <2>4. QED
    BY <1>RevokeAll, <2>2, <2>3 DEF RevokeAll
<1>Left. ASSUME NEW b \in Browsers, Left(b) PROVE OthersUntouched
  BY <1>Left DEF Left
<1>Stutter. CASE UNCHANGED vars
  BY <1>Stutter DEF vars
<1> HIDE DEF Typed, Refer, OthersUntouched, db, web
<1>QED. QED
  BY <1>SendSignupLink, <1>SendLoginLink, <1>Login, <1>Provision, <1>Logout, <1>DeleteMe,
     <1>Expire, <1>Verify, <1>Call, <1>Refused, <1>Check, <1>Reused,
     <1>ReadUser, <1>Barred, <1>Rotate, <1>Reply, <1>Break, <1>ScimCreate,
     <1>Suspend, <1>Restore, <1>Create, <1>Provisioned, <1>MarkUsed, <1>Issue,
     <1>SignedIn, <1>RevokeAll, <1>Left, <1>Stutter
     DEF Next, User, Directory, Refresh, SignIn

(* What a browser keeps is a family.                                       *)
LEMMA HeldRefers ==
  ASSUME Typed, Refer, NEW b \in Browsers, NEW f, f # 0, Holds(b, f)
  PROVE  f \in DOMAIN families
<1>1. DOMAIN families = 1 .. Len(families) /\ Len(families) \in Nat
  BY DEF Typed
<1>2. f \in 0 .. Len(families)
  BY DEF Holds, Refer, JarsRefer, ReqsRefer
<1>3. QED
  BY <1>1, <1>2

(* Nobody comes by the family of somebody else.                            *)
LEMMA ApartNext ==
  Typed /\ Refer /\ Apart /\ [Next]_vars => Apart'
<1> SUFFICES ASSUME Typed, Refer, Apart, [Next]_vars PROVE Apart'
  OBVIOUS
<1>1. OthersUntouched
  BY OthersUntouchedNext
<1>2. \A i \in DOMAIN entries : entries[i].pc = "reply" => entries[i].family \in DOMAIN families
  BY DEF Refer, EntriesRefer, Typed
<1>3. \A i \in DOMAIN reqs : Owner(i) \in Browsers
  <2>1. \A i \in DOMAIN reqs : reqs[i] \in Reqs
    BY DEF Typed
  <2>2. QED
    BY <2>1, Bounds DEF Reqs, Owner
<1>4. \A f \in DOMAIN families : f # 0
  BY DEF Typed
<1>5. \A f \in DOMAIN families' : f # 0
  <2>1. families' \in Seq(Families)
    BY TypedNext DEF Typed
  <2>2. QED
    BY <2>1
<1>6. ASSUME HeldStays, RepliesStay PROVE Apart'
  <2>1. KeptApart'
    BY <1>5, <1>6, HeldRefers DEF HeldStays, Apart, KeptApart
  <2>2. RepliesApart'
    BY <1>6 DEF RepliesStay, Apart, RepliesApart
  <2>3. ASSUME NEW j \in DOMAIN entries', entries'[j].pc = "reply", NEW f, f = entries'[j].family
        PROVE  families'[f].revoked # "theft_suspected" /\ \A b \in Browsers : ~Holds(b, f)'
    <3>1. PICK k \in DOMAIN entries : entries[k].pc = "reply" /\ entries[k].family = f
      BY <1>6, <2>3 DEF RepliesStay
    <3>2. f \in DOMAIN families /\ f \in DOMAIN families'
      BY <1>1, <1>2, <3>1 DEF OthersUntouched
    <3>3. families[f].revoked # "theft_suspected" /\ \A b \in Browsers : ~Holds(b, f)
      BY <3>1 DEF Apart, RepliesFresh
    <3>4. \A i \in DOMAIN reqs : reqs[i].family # f
      BY <1>3, <3>3 DEF Holds
    <3>5. families'[f].revoked # "theft_suspected"
      BY <1>1, <3>2, <3>3, <3>4 DEF OthersUntouched
    <3>6. \A b \in Browsers : ~Holds(b, f)'
      BY <1>6, <3>2, <3>3 DEF HeldStays
    <3>7. QED
      BY <3>5, <3>6
  <2>4. RepliesFresh'
    BY <2>3 DEF RepliesFresh
  <2>5. QED
    BY <2>1, <2>2, <2>4 DEF Apart
<1>7. ASSUME NEW e \in DOMAIN entries, SignedIn(e) PROVE Apart'
  <2> DEFINE f0 == entries[e].family
             b0 == entries[e].browser
  <2>1. /\ f0 \in DOMAIN families /\ b0 \in Browsers /\ entries[e].pc = "reply"
        /\ families[f0].revoked # "theft_suspected" /\ \A b \in Browsers : ~Holds(b, f0)
    <3>1. entries[e].pc = "reply"
      BY <1>7 DEF SignedIn
    <3>2. entries[e] \in Entries
      BY DEF Typed
    <3>3. QED
      BY <1>2, <3>1, <3>2 DEF Apart, RepliesFresh, Entries
  <2>2. /\ families' = families /\ reqs' = reqs
        /\ jar'[b0].family = f0 /\ \A b \in Browsers \ {b0} : jar'[b] = jar[b]
    BY <1>7, <2>1 DEF SignedIn, Typed, db
  <2> HIDE DEF f0, b0
  <2>3. \A b \in Browsers, f \in DOMAIN families : Holds(b, f)' => Holds(b, f) \/ (b = b0 /\ f = f0)
    BY <2>1, <2>2 DEF Holds, Owner
  <2>4. KeptApart'
    BY <2>1, <2>2, <2>3 DEF KeptApart, Apart
  <2>5. /\ \A j \in DOMAIN entries' : \E k \in DOMAIN entries \ {e} : entries'[j] = entries[k]
        /\ \A j, l \in DOMAIN entries' : j # l =>
             \E k, m \in DOMAIN entries \ {e} :
               k # m /\ entries'[j] = entries[k] /\ entries'[l] = entries[m]
    BY <1>7, EntriesLeft DEF SignedIn, Ended, Typed
  <2>6. RepliesApart'
    BY <2>5 DEF RepliesApart, Apart
  <2>7. \A k \in DOMAIN entries \ {e} : entries[k].pc = "reply" => entries[k].family # f0
    BY <2>1 DEF RepliesApart, Apart, f0
  <2>8. RepliesFresh'
    BY <1>2, <2>2, <2>3, <2>5, <2>7 DEF RepliesFresh, Apart
  <2>9. QED
    BY <2>4, <2>6, <2>8 DEF Apart
<1>8. ASSUME NEW e \in DOMAIN entries, Issue(e) PROVE Apart'
  <2> DEFINE n == Len(families) + 1
             r == [jti |-> minted + 1, revoked |-> "no", link |-> entries[e].link]
  <2>1. reqs' = reqs /\ jar' = jar
    BY <1>8 DEF Issue, web
  <2>2. families' = Append(families, r) /\ families \in Seq(Families) /\ n = Len(families) + 1
    BY <1>8 DEF Issue, Typed
  <2>3. r.revoked = "no"
    OBVIOUS
  <2>4. /\ DOMAIN entries' = DOMAIN entries /\ \A j \in DOMAIN entries \ {e} : entries'[j] = entries[j]
        /\ entries'[e].family = n
    <3>1. entries[e] \in Entries
      BY DEF Typed
    <3>2. QED
      BY <1>8, <3>1 DEF Issue, Entries
  <2> HIDE DEF r, n
  <2>5. /\ n \notin DOMAIN families /\ n # 0 /\ families'[n] = r
        /\ \A f \in DOMAIN families : families'[f] = families[f]
        /\ \A f \in DOMAIN families' : f \in DOMAIN families \/ f = n
    BY <2>2
  <2>6. \A b \in Browsers : ~Holds(b, n)
    BY <2>5, HeldRefers
  <2>7. \A f : \A b \in Browsers : Holds(b, f)' <=> Holds(b, f)
    BY <2>1 DEF Holds, Owner
  <2>8. KeptApart'
    <3>1. SUFFICES ASSUME NEW f \in DOMAIN families', NEW b \in Browsers, NEW c \in Browsers,
                          Holds(b, f)', Holds(c, f)'
                   PROVE  b = c
      BY DEF KeptApart
    <3>2. Holds(b, f) /\ Holds(c, f)
      BY <2>7, <3>1
    <3>3. f \in DOMAIN families
      BY <1>5, <3>2, HeldRefers
    <3>4. QED
      BY <3>2, <3>3 DEF KeptApart, Apart
  <2>9. RepliesApart'
    BY <1>2, <2>4, <2>5 DEF RepliesApart, Apart
  <2>10. RepliesFresh'
    BY <1>2, <2>3, <2>4, <2>5, <2>6, <2>7 DEF RepliesFresh, Apart
  <2>11. QED
    BY <2>8, <2>9, <2>10 DEF Apart
<1>9. QED
  BY <1>6, <1>7, <1>8, HeldStaysNext, RepliesStayNext

(* The steps that do not touch what a quiet browser relies on.             *)
LEMMA QuietMoveNext ==
  Typed /\ Refer /\ Quiet /\ [Next]_vars => QuietMove \/ LoudMove
<1> SUFFICES ASSUME Typed, Refer, Quiet, [Next]_vars PROVE QuietMove \/ LoudMove
  OBVIOUS
<1> USE DEF Typed, Refer, QuietMove, LoudMove, db, web
<1>SendSignupLink. ASSUME SendSignupLink PROVE QuietMove \/ LoudMove
  BY <1>SendSignupLink DEF SendSignupLink, SendLink, Spend
<1>SendLoginLink. ASSUME SendLoginLink PROVE QuietMove \/ LoudMove
  BY <1>SendLoginLink DEF SendLoginLink, SendLink, Spend
<1>Login. ASSUME NEW b \in Browsers, Login(b) PROVE QuietMove \/ LoudMove
  BY <1>Login DEF Login, Enter, Spend
<1>Provision. ASSUME NEW b \in Browsers, Provision(b) PROVE QuietMove \/ LoudMove
  BY <1>Provision DEF Provision, Enter, Spend
<1>Logout. ASSUME NEW b \in Browsers, Logout(b) PROVE QuietMove \/ LoudMove
  <2>1. reqs' = reqs /\ crossed' = crossed /\ \A c \in Browsers : jar'[c] = jar[c] \/ jar'[c].family = 0
    BY <1>Logout DEF Logout, EmptyJar
  <2> HIDE DEF Typed, Refer
  <2>2. QED
    BY <2>1
<1>DeleteMe. ASSUME NEW b \in Browsers, DeleteMe(b) PROVE QuietMove \/ LoudMove
  BY <1>DeleteMe DEF DeleteMe
<1>Expire. ASSUME NEW b \in Browsers, Expire(b) PROVE QuietMove \/ LoudMove
  <2>1. /\ reqs' = reqs /\ crossed' = crossed
        /\ \A c \in Browsers : jar'[c].family = jar[c].family /\ jar'[c].jti = jar[c].jti
    BY <1>Expire DEF Expire, Jars
  <2> HIDE DEF Typed, Refer
  <2>2. QED
    BY <2>1
<1>Verify. ASSUME NEW b \in Browsers, NEW k \in DOMAIN links, Verify(b, k) PROVE QuietMove \/ LoudMove
  BY <1>Verify DEF Verify, Enter, Spend
<1>Call. ASSUME NEW t \in Tabs, Call(t) PROVE QuietMove \/ LoudMove
  BY <1>Call DEF Call, Spend
<1>Refused. ASSUME NEW t \in Tabs, Refused(t) PROVE QuietMove \/ LoudMove
  <2>1. CASE tabs[t].refreshing
    BY <1>Refused, <2>1 DEF Refused
  <2>2. CASE ~tabs[t].refreshing
    BY <1>Refused, <2>2
  <2>3. QED
    BY <2>1, <2>2
<1>Check. ASSUME NEW i \in DOMAIN reqs, Check(i) PROVE QuietMove \/ LoudMove
  <2>1. /\ Step(i, (IF reqs[i].family = 0 THEN "refuse"
              ELSE IF FamilyOf(i).revoked # "no" THEN "clear"
              ELSE IF FamilyOf(i).jti # reqs[i].jti THEN "reuse" ELSE "user"))
        /\ UNCHANGED <<jar, crossed>>
    BY <1>Check DEF Check
  <2>2. reqs \in Seq(Reqs)
    OBVIOUS
  <2>3. /\ reqs'[i].pc # "grant"
        /\ reqs'[i].pc = "refuse" => reqs[i].family = 0
        /\ reqs'[i].pc = "reuse" => reqs[i].family # 0 /\ FamilyOf(i).jti # reqs[i].jti
    BY <2>1, <2>2, ReqMoved
  <2>4. reqs'[i].pc = "reuse" => crossed[Owner(i)]
    BY <2>3 DEF Quiet, SoloIsCurrent, Current, FamilyOf
  <2>5. /\ DOMAIN reqs' = DOMAIN reqs
        /\ \A j \in DOMAIN reqs \ {i} : reqs'[j] = reqs[j]
        /\ reqs'[i].jti = reqs[i].jti /\ reqs'[i].family = reqs[i].family
        /\ reqs'[i].tab = reqs[i].tab /\ reqs'[i].heard = reqs[i].heard
    BY <2>1, <2>2, ReqMoved
  <2> HIDE DEF Typed, Refer
  <2>6. QED
    BY <2>1, <2>3, <2>4, <2>5
<1>Reused. ASSUME NEW i \in DOMAIN reqs, Reused(i) PROVE QuietMove \/ LoudMove
  <2>1. /\ Step(i, "clear")
        /\ UNCHANGED <<jar, crossed>>
    BY <1>Reused DEF Reused, Revoke
  <2>2. reqs \in Seq(Reqs)
    OBVIOUS
  <2>3. /\ reqs'[i].pc # "grant"
        /\ reqs'[i].pc = "refuse" => reqs[i].family = 0
        /\ reqs'[i].pc = "reuse" => reqs[i].family # 0 /\ FamilyOf(i).jti # reqs[i].jti
    BY <2>1, <2>2, ReqMoved
  <2>4. reqs'[i].pc = "reuse" => crossed[Owner(i)]
    BY <2>3 DEF Quiet, SoloIsCurrent, Current, FamilyOf
  <2>5. /\ DOMAIN reqs' = DOMAIN reqs
        /\ \A j \in DOMAIN reqs \ {i} : reqs'[j] = reqs[j]
        /\ reqs'[i].jti = reqs[i].jti /\ reqs'[i].family = reqs[i].family
        /\ reqs'[i].tab = reqs[i].tab /\ reqs'[i].heard = reqs[i].heard
    BY <2>1, <2>2, ReqMoved
  <2> HIDE DEF Typed, Refer
  <2>6. QED
    BY <2>1, <2>3, <2>4, <2>5
<1>ReadUser. ASSUME NEW i \in DOMAIN reqs, ReadUser(i) PROVE QuietMove \/ LoudMove
  <2>1. /\ Step(i, (IF account = "active" THEN "rotate" ELSE "bar"))
        /\ UNCHANGED <<jar, crossed>>
    BY <1>ReadUser DEF ReadUser
  <2>2. reqs \in Seq(Reqs)
    OBVIOUS
  <2>3. /\ reqs'[i].pc # "grant"
        /\ reqs'[i].pc = "refuse" => reqs[i].family = 0
        /\ reqs'[i].pc = "reuse" => reqs[i].family # 0 /\ FamilyOf(i).jti # reqs[i].jti
    BY <2>1, <2>2, ReqMoved
  <2>4. reqs'[i].pc = "reuse" => crossed[Owner(i)]
    BY <2>3 DEF Quiet, SoloIsCurrent, Current, FamilyOf
  <2>5. /\ DOMAIN reqs' = DOMAIN reqs
        /\ \A j \in DOMAIN reqs \ {i} : reqs'[j] = reqs[j]
        /\ reqs'[i].jti = reqs[i].jti /\ reqs'[i].family = reqs[i].family
        /\ reqs'[i].tab = reqs[i].tab /\ reqs'[i].heard = reqs[i].heard
    BY <2>1, <2>2, ReqMoved
  <2> HIDE DEF Typed, Refer
  <2>6. QED
    BY <2>1, <2>3, <2>4, <2>5
<1>Barred. ASSUME NEW i \in DOMAIN reqs, Barred(i) PROVE QuietMove \/ LoudMove
  <2>1. /\ Step(i, "clear")
        /\ UNCHANGED <<jar, crossed>>
    BY <1>Barred DEF Barred, Revoke
  <2>2. reqs \in Seq(Reqs)
    OBVIOUS
  <2>3. /\ reqs'[i].pc # "grant"
        /\ reqs'[i].pc = "refuse" => reqs[i].family = 0
        /\ reqs'[i].pc = "reuse" => reqs[i].family # 0 /\ FamilyOf(i).jti # reqs[i].jti
    BY <2>1, <2>2, ReqMoved
  <2>4. reqs'[i].pc = "reuse" => crossed[Owner(i)]
    BY <2>3 DEF Quiet, SoloIsCurrent, Current, FamilyOf
  <2>5. /\ DOMAIN reqs' = DOMAIN reqs
        /\ \A j \in DOMAIN reqs \ {i} : reqs'[j] = reqs[j]
        /\ reqs'[i].jti = reqs[i].jti /\ reqs'[i].family = reqs[i].family
        /\ reqs'[i].tab = reqs[i].tab /\ reqs'[i].heard = reqs[i].heard
    BY <2>1, <2>2, ReqMoved
  <2> HIDE DEF Typed, Refer
  <2>6. QED
    BY <2>1, <2>3, <2>4, <2>5
<1>Rotate. ASSUME NEW i \in DOMAIN reqs, Rotate(i) PROVE QuietMove \/ LoudMove
  BY <1>Rotate
<1>Reply. ASSUME NEW i \in DOMAIN reqs, Reply(i) PROVE QuietMove \/ LoudMove
  BY <1>Reply
<1>Break. ASSUME NEW i \in DOMAIN reqs, Break(i) PROVE QuietMove \/ LoudMove
  BY <1>Break
<1>ScimCreate. ASSUME NEW s \in {"active", "suspended"}, ScimCreate(s) PROVE QuietMove \/ LoudMove
  BY <1>ScimCreate DEF ScimCreate, Spend
<1>Suspend. ASSUME Suspend PROVE QuietMove \/ LoudMove
  BY <1>Suspend DEF Suspend, Spend
<1>Restore. ASSUME Restore PROVE QuietMove \/ LoudMove
  BY <1>Restore, ReqsRestored DEF Restore
<1>Create. ASSUME NEW i \in DOMAIN entries, Create(i) PROVE QuietMove \/ LoudMove
  BY <1>Create DEF Create, Insert, To, Ended
<1>Provisioned. ASSUME NEW i \in DOMAIN entries, Provisioned(i) PROVE QuietMove \/ LoudMove
  BY <1>Provisioned DEF Provisioned, Insert, To, Ended
<1>MarkUsed. ASSUME NEW i \in DOMAIN entries, MarkUsed(i) PROVE QuietMove \/ LoudMove
  BY <1>MarkUsed DEF MarkUsed, To, Ended, Spend
<1>Issue. ASSUME NEW i \in DOMAIN entries, Issue(i) PROVE QuietMove \/ LoudMove
  BY <1>Issue DEF Issue
<1>SignedIn. ASSUME NEW i \in DOMAIN entries, SignedIn(i) PROVE QuietMove \/ LoudMove
  BY <1>SignedIn
<1>RevokeAll. ASSUME NEW b \in Browsers, RevokeAll(b) PROVE QuietMove \/ LoudMove
  BY <1>RevokeAll DEF RevokeAll, Spend
<1>Left. ASSUME NEW b \in Browsers, Left(b) PROVE QuietMove \/ LoudMove
  <2>1. reqs' = reqs /\ crossed' = crossed /\ \A c \in Browsers : jar'[c] = jar[c] \/ jar'[c].family = 0
    BY <1>Left DEF Left, EmptyJar
  <2> HIDE DEF Typed, Refer
  <2>2. QED
    BY <2>1
<1>Stutter. CASE UNCHANGED vars
  BY <1>Stutter DEF vars
<1> HIDE DEF Typed, Refer, QuietMove, LoudMove, db, web
<1>QED. QED
  BY <1>SendSignupLink, <1>SendLoginLink, <1>Login, <1>Provision, <1>Logout, <1>DeleteMe,
     <1>Expire, <1>Verify, <1>Call, <1>Refused, <1>Check, <1>Reused,
     <1>ReadUser, <1>Barred, <1>Rotate, <1>Reply, <1>Break, <1>ScimCreate,
     <1>Suspend, <1>Restore, <1>Create, <1>Provisioned, <1>MarkUsed, <1>Issue,
     <1>SignedIn, <1>RevokeAll, <1>Left, <1>Stutter
     DEF Next, User, Directory, Refresh, SignIn

(* What a quiet browser keeps goes on being current, but for its rotation. *)
LEMMA StaysCurrent ==
  ASSUME Typed, Refer, Apart, Quiet, [Next]_vars, NEW b \in Browsers, ~crossed[b],
         NEW f, Holds(b, f), NEW n, Current(f, n),
         \A i \in DOMAIN reqs : ~(Rotate(i) /\ Owner(i) = b)
  PROVE  Current(f, n)'
<1>1. CASE f = 0
  BY <1>1 DEF Current
<1>2. CASE f # 0
  <2>1. f \in DOMAIN families
    BY <1>2, HeldRefers
  <2>2. families[f].jti = n /\ families[f].revoked # "theft_suspected"
    BY <1>2 DEF Current
  <2>3. ASSUME NEW i \in DOMAIN reqs, reqs[i].family = f PROVE reqs[i].pc # "reuse" /\ ~Rotate(i)
    <3>1. Owner(i) \in Browsers
      <4>1. reqs[i] \in Reqs
        BY DEF Typed
      <4>2. QED
        BY <4>1, Bounds DEF Reqs, Owner
    <3>2. Holds(Owner(i), f)
      BY <2>3 DEF Holds
    <3>3. Owner(i) = b
      BY <2>1, <3>1, <3>2 DEF Apart, KeptApart
    <3>4. QED
      BY <3>3 DEF Quiet, SoloIsCurrent
  <2>4. OthersUntouched
    BY OthersUntouchedNext
  <2>5. families'[f].jti = families[f].jti /\ families'[f].revoked # "theft_suspected"
    BY <2>1, <2>2, <2>3, <2>4 DEF OthersUntouched
  <2>6. QED
    BY <2>2, <2>5 DEF Current
<1>3. QED
  BY <1>1, <1>2

(* A request belongs to a browser.                                       *)
LEMMA OwnerTyped ==
  ASSUME Typed, NEW i \in DOMAIN reqs
  PROVE  Owner(i) \in Browsers
<1>1. reqs[i] \in Reqs
  BY DEF Typed
<1>2. QED
  BY <1>1, Bounds DEF Reqs, Owner

(* What a quiet browser's request holds is what the browser keeps.         *)
LEMMA BothHeld ==
  /\ \A b \in Browsers : Holds(b, jar[b].family)
  /\ \A i \in DOMAIN reqs : Holds(Owner(i), reqs[i].family)
  BY DEF Holds

(* Such a step keeps the quiet browsers' tokens current.                   *)
LEMMA QuietMoved ==
  ASSUME Typed, Refer, Apart, Quiet, [Next]_vars, QuietMove
  PROVE  Quiet'
<1>1. /\ DOMAIN reqs' = DOMAIN reqs /\ crossed' = crossed
      /\ \A i \in DOMAIN reqs : Owner(i)' = Owner(i)
      /\ \A b \in Browsers : Busy(b)' <=> Busy(b)
  BY DEF QuietMove, Owner, Busy
<1>2. \A i \in DOMAIN reqs : ~Rotate(i)
  <2>1. SUFFICES ASSUME NEW i \in DOMAIN reqs, Rotate(i) PROVE FALSE
    OBVIOUS
  <2>2. reqs[i].pc = "rotate" /\ reqs'[i].pc = "grant"
    BY <2>1, ReqGranted DEF Rotate, Typed
  <2>3. QED
    BY <2>2 DEF QuietMove
<1>3. \A b \in Browsers : ~crossed[b] => \A f, n : Holds(b, f) /\ Current(f, n) => Current(f, n)'
  BY <1>2, StaysCurrent
<1>4. Solo'
  BY <1>1 DEF Quiet, Solo, QuietMove
<1>5. SoloIsCurrent'
  <2>1. SUFFICES ASSUME NEW i \in DOMAIN reqs, ~crossed[Owner(i)]
                 PROVE  /\ jar'[Owner(i)].family \in {0, reqs'[i].family}
                        /\ reqs'[i].pc # "reuse"
                        /\ reqs'[i].pc = "refuse" => reqs'[i].family = 0
                        /\ Current(reqs[i].family, reqs[i].jti)'
    BY <1>1 DEF SoloIsCurrent
  <2> DEFINE b == Owner(i)
             f == reqs[i].family
             n == reqs[i].jti
  <2>2. /\ jar[b].family \in {0, f} /\ reqs[i].pc # "reuse"
        /\ reqs[i].pc = "refuse" => f = 0
        /\ Current(f, n)
    BY <2>1 DEF Quiet, SoloIsCurrent
  <2>3. b \in Browsers
    BY OwnerTyped
  <2>4. reqs'[i].family = f /\ reqs'[i].jti = n
    BY DEF QuietMove
  <2>5. PICK g, m : g = f /\ m = n
    OBVIOUS
  <2>6. Current(g, m)'
    BY <1>3, <2>1, <2>2, <2>3, <2>5, BothHeld
  <2>7. Current(reqs[i].family, reqs[i].jti)'
    BY <2>4, <2>5, <2>6 DEF Current
  <2>8. QED
    BY <2>1, <2>2, <2>3, <2>4, <2>7 DEF QuietMove
<1>6. JarIsCurrent'
  <2>1. SUFFICES ASSUME NEW b \in Browsers, ~crossed[b], ~Busy(b)
                 PROVE  Current(jar[b].family, jar[b].jti)'
    BY <1>1 DEF JarIsCurrent
  <2>2. CASE jar'[b].family = 0
    BY <2>2 DEF Current
  <2>3. CASE jar'[b].family = jar[b].family /\ jar'[b].jti = jar[b].jti
    <3>1. PICK g, m : g = jar[b].family /\ m = jar[b].jti
      OBVIOUS
    <3>2. Current(g, m)
      BY <2>1, <3>1 DEF Quiet, JarIsCurrent
    <3>3. Current(g, m)'
      BY <1>3, <2>1, <3>1, <3>2, BothHeld
    <3>4. QED
      BY <2>3, <3>1, <3>3 DEF Current
  <2>4. QED
    BY <2>2, <2>3 DEF QuietMove
<1>7. QED
  BY <1>4, <1>5, <1>6 DEF Quiet

(* A rotation: the request that rotates holds the new token.             *)
LEMMA QuietRotate ==
  ASSUME Typed, Refer, Apart, Quiet, [Next]_vars, NEW r \in DOMAIN reqs, Rotate(r)
  PROVE  Quiet'
<1>1. /\ DOMAIN reqs' = DOMAIN reqs
      /\ \A j \in DOMAIN reqs \ {r} : reqs'[j] = reqs[j]
      /\ reqs'[r].pc = "grant" /\ reqs'[r].jti = minted + 1
      /\ reqs'[r].family = reqs[r].family /\ reqs'[r].tab = reqs[r].tab
      /\ reqs'[r].heard = reqs[r].heard
  BY ReqGranted DEF Typed
<1>2. jar' = jar /\ crossed' = crossed
  BY DEF Rotate, web
<1>3. /\ \A i \in DOMAIN reqs : Owner(i)' = Owner(i)
      /\ \A b \in Browsers : Busy(b)' <=> Busy(b)
  BY <1>1 DEF Owner, Busy
<1>4. \A i \in DOMAIN reqs : Rotate(i) => i = r
  <2>1. SUFFICES ASSUME NEW i \in DOMAIN reqs, Rotate(i), i # r PROVE FALSE
    OBVIOUS
  <2>2. reqs[i].pc = "rotate" /\ reqs'[i].pc = "grant"
    BY <2>1, ReqGranted DEF Rotate, Typed
  <2>3. QED
    BY <1>1, <2>1, <2>2
<1>5. \A b \in Browsers \ {Owner(r)} :
        ~crossed[b] => \A f, n : Holds(b, f) /\ Current(f, n) => Current(f, n)'
  BY <1>4, StaysCurrent
<1>6. reqs[r].family \in DOMAIN families
  BY ReqFamily DEF Rotate, Refer
<1>7. /\ families'[reqs[r].family].jti = minted + 1
      /\ families'[reqs[r].family].revoked = families[reqs[r].family].revoked
  <2>1. families[reqs[r].family] \in Families
    BY <1>6 DEF Typed
  <2> DEFINE m == minted + 1
  <2>2. families' = [families EXCEPT ![reqs[r].family].jti = m]
    BY DEF Rotate
  <2> HIDE DEF m
  <2>3. families'[reqs[r].family] = [families[reqs[r].family] EXCEPT !.jti = m]
    BY <1>6, <2>2
  <2>4. families'[reqs[r].family].jti = m
    BY <2>1, <2>3 DEF Families
  <2>5. families'[reqs[r].family].revoked = families[reqs[r].family].revoked
    BY <2>1, <2>3 DEF Families
  <2>6. QED
    BY <2>4, <2>5 DEF m
<1>8. Solo'
  <2>1. \A i \in DOMAIN reqs : reqs'[i].heard = reqs[i].heard
    BY <1>1
  <2>2. QED
    BY <1>1, <1>2, <1>3, <2>1 DEF Quiet, Solo
<1>9. SoloIsCurrent'
  <2>1. SUFFICES ASSUME NEW i \in DOMAIN reqs, ~crossed[Owner(i)]
                 PROVE  /\ jar[Owner(i)].family \in {0, reqs'[i].family}
                        /\ reqs'[i].pc # "reuse"
                        /\ reqs'[i].pc = "refuse" => reqs'[i].family = 0
                        /\ Current(reqs[i].family, reqs[i].jti)'
    BY <1>1, <1>2, <1>3 DEF SoloIsCurrent
  <2>2. /\ jar[Owner(i)].family \in {0, reqs[i].family} /\ reqs[i].pc # "reuse"
        /\ reqs[i].pc = "refuse" => reqs[i].family = 0
        /\ Current(reqs[i].family, reqs[i].jti)
    BY <2>1 DEF Quiet, SoloIsCurrent
  <2>3. CASE i = r
    BY <1>1, <1>7, <2>2, <2>3 DEF Current
  <2>4. CASE i # r
    <3>1. Owner(i) # Owner(r)
      BY <2>1, <2>4 DEF Quiet, Solo
    <3>2. PICK g, m : g = reqs[i].family /\ m = reqs[i].jti
      OBVIOUS
    <3>3. Current(g, m)'
      BY <1>5, <2>1, <2>2, <3>1, <3>2, BothHeld, OwnerTyped
    <3>4. reqs'[i] = reqs[i]
      BY <1>1, <2>4
    <3>5. QED
      BY <2>2, <3>2, <3>3, <3>4 DEF Current
  <2>5. QED
    BY <2>3, <2>4
<1>10. JarIsCurrent'
  <2>1. SUFFICES ASSUME NEW b \in Browsers, ~crossed[b], ~Busy(b)
                 PROVE  Current(jar[b].family, jar[b].jti)'
    BY <1>2, <1>3 DEF JarIsCurrent
  <2>2. b # Owner(r)
    BY <2>1 DEF Busy, Owner
  <2>3. PICK g, m : g = jar[b].family /\ m = jar[b].jti
    OBVIOUS
  <2>4. Current(g, m)
    BY <2>1, <2>3 DEF Quiet, JarIsCurrent
  <2>5. Current(g, m)'
    BY <1>5, <2>1, <2>2, <2>3, <2>4, BothHeld
  <2>6. QED
    BY <1>2, <2>3, <2>5 DEF Current
<1>11. QED
  BY <1>8, <1>9, <1>10 DEF Quiet

(* A reply: its cookies are current, or clear the jar.                   *)
LEMMA QuietReply ==
  ASSUME Typed, Refer, Quiet, NEW r \in DOMAIN reqs, Reply(r)
  PROVE  Quiet'
<1>1. reqs' = RemoveAt(reqs, r) /\ families' = families /\ crossed' = crossed
  BY DEF Reply, db
<1>2. /\ \A j \in DOMAIN reqs' : \E k \in DOMAIN reqs \ {r} : reqs'[j] = reqs[k]
      /\ \A j, l \in DOMAIN reqs' : j # l =>
           \E k, m \in DOMAIN reqs \ {r} : k # m /\ reqs'[j] = reqs[k] /\ reqs'[l] = reqs[m]
      /\ \A k \in DOMAIN reqs \ {r} : \E j \in DOMAIN reqs' : reqs'[j] = reqs[k]
  BY <1>1, ReqsLeft DEF Typed
<1>3. \A b \in Browsers \ {Owner(r)} : jar'[b] = jar[b]
  BY DEF Reply, Owner, web, Typed
<1>4. Solo'
  BY <1>1, <1>2 DEF Quiet, Solo, Owner
<1>5. \A k \in DOMAIN reqs \ {r} : ~crossed[Owner(k)] => Owner(k) # Owner(r)
  BY DEF Quiet, Solo
<1>6. SoloIsCurrent'
  <2>1. SUFFICES ASSUME NEW j \in DOMAIN reqs', ~crossed[Home[reqs'[j].tab]]
                 PROVE  /\ jar'[Home[reqs'[j].tab]].family \in {0, reqs'[j].family}
                        /\ reqs'[j].pc # "reuse"
                        /\ reqs'[j].pc = "refuse" => reqs'[j].family = 0
                        /\ Current(reqs[j].family, reqs[j].jti)'
    BY <1>1 DEF SoloIsCurrent, Owner
  <2>2. PICK k \in DOMAIN reqs \ {r} : reqs'[j] = reqs[k]
    BY <1>2
  <2>3. Owner(k) = Home[reqs'[j].tab] /\ ~crossed[Owner(k)]
    BY <2>1, <2>2 DEF Owner
  <2>4. /\ jar[Owner(k)].family \in {0, reqs[k].family} /\ reqs[k].pc # "reuse"
        /\ reqs[k].pc = "refuse" => reqs[k].family = 0
        /\ Current(reqs[k].family, reqs[k].jti)
    BY <2>3 DEF Quiet, SoloIsCurrent
  <2>5. jar'[Owner(k)] = jar[Owner(k)]
    BY <1>3, <1>5, <2>3, OwnerTyped
  <2>6. Current(reqs[j].family, reqs[j].jti)'
    BY <1>1, <2>2, <2>4 DEF Current
  <2>7. QED
    BY <2>2, <2>3, <2>4, <2>5, <2>6
<1>7. JarIsCurrent'
  <2>1. SUFFICES ASSUME NEW b \in Browsers, ~crossed[b], ~Busy(b)'
                 PROVE  Current(jar[b].family, jar[b].jti)'
    BY <1>1 DEF JarIsCurrent
  <2>2. CASE b = Owner(r)
    <3>1. /\ reqs[r].heard /\ jar[b].family \in {0, reqs[r].family}
          /\ reqs[r].pc = "refuse" => reqs[r].family = 0
          /\ Current(reqs[r].family, reqs[r].jti)
      BY <2>1, <2>2 DEF Quiet, Solo, SoloIsCurrent
    <3>2. jar'[b] = CookiesAfter(r, jar[b])
      BY <2>2, <3>1 DEF Reply, Owner, Typed
    <3>3. CASE reqs[r].pc = "grant"
      BY <1>1, <3>1, <3>2, <3>3 DEF CookiesAfter, Current
    <3>4. CASE reqs[r].pc = "clear"
      BY <3>2, <3>4 DEF CookiesAfter, EmptyJar, Current
    <3>5. CASE reqs[r].pc = "refuse"
      BY <3>1, <3>2, <3>5 DEF CookiesAfter, Current
    <3>6. QED
      BY <3>3, <3>4, <3>5 DEF Reply
  <2>3. CASE b # Owner(r)
    <3>1. ~Busy(b)
      BY <1>2, <2>1, <2>3 DEF Busy, Owner
    <3>2. Current(jar[b].family, jar[b].jti)
      BY <2>1, <3>1 DEF Quiet, JarIsCurrent
    <3>3. jar'[b] = jar[b]
      BY <1>3, <2>3
    <3>4. QED
      BY <1>1, <3>2, <3>3 DEF Current
  <2>4. QED
    BY <2>2, <2>3
<1>8. QED
  BY <1>4, <1>6, <1>7 DEF Quiet

(* A reply that is lost: its browser is quiet no more.                   *)
LEMMA QuietBreak ==
  ASSUME Typed, Refer, Quiet, NEW r \in DOMAIN reqs, Break(r)
  PROVE  Quiet'
<1>1. families' = families /\ jar' = jar
  BY DEF Break, db
<1>2. /\ crossed'[Owner(r)] /\ \A b \in Browsers \ {Owner(r)} : crossed'[b] = crossed[b]
  <2>1. crossed' = [crossed EXCEPT ![Owner(r)] = TRUE] /\ Owner(r) \in Browsers
    BY OwnerTyped DEF Break, Owner
  <2>2. QED
    BY <2>1 DEF Typed
<1>3. \A k \in DOMAIN reqs : Owner(k) \in Browsers
  BY OwnerTyped
<1> DEFINE Other(k) == k \in DOMAIN reqs /\ Owner(k) # Owner(r)
<1>4. /\ \A j \in DOMAIN reqs' : Home[reqs'[j].tab] # Owner(r) => \E k \in DOMAIN reqs : Other(k) /\ reqs'[j] = reqs[k]
      /\ \A j, l \in DOMAIN reqs' :
           j # l /\ Home[reqs'[j].tab] # Owner(r) /\ Home[reqs'[l].tab] # Owner(r) =>
             \E k, m \in DOMAIN reqs : k # m /\ reqs'[j] = reqs[k] /\ reqs'[l] = reqs[m]
      /\ \A k \in DOMAIN reqs : Other(k) => \E j \in DOMAIN reqs' : reqs'[j] = reqs[k]
      /\ \A j \in DOMAIN reqs' : Home[reqs'[j].tab] \in Browsers
  <2>1. CASE reqs' = RemoveAt(reqs, r)
    <3>1. /\ \A j \in DOMAIN reqs' : \E k \in DOMAIN reqs \ {r} : reqs'[j] = reqs[k]
          /\ \A j, l \in DOMAIN reqs' : j # l =>
               \E k, m \in DOMAIN reqs \ {r} : k # m /\ reqs'[j] = reqs[k] /\ reqs'[l] = reqs[m]
          /\ \A k \in DOMAIN reqs \ {r} : \E j \in DOMAIN reqs' : reqs'[j] = reqs[k]
      BY <2>1, ReqsLeft DEF Typed
    <3>2. QED
      BY <1>3, <3>1 DEF Owner
  <2>2. CASE reqs' = [reqs EXCEPT ![r].heard = FALSE]
    <3>1. /\ DOMAIN reqs' = DOMAIN reqs /\ \A j \in DOMAIN reqs \ {r} : reqs'[j] = reqs[j]
          /\ reqs'[r].tab = reqs[r].tab
      <4>1. reqs[r] \in Reqs
        BY DEF Typed
      <4>2. QED
        BY <2>2, <4>1 DEF Typed, Reqs
    <3>2. QED
      BY <1>3, <3>1 DEF Owner
  <2>3. QED
    BY <2>1, <2>2 DEF Break
<1> HIDE DEF Other
<1>5. Solo'
  BY <1>2, <1>4 DEF Quiet, Solo, Owner
<1>6. SoloIsCurrent'
  <2>1. SUFFICES ASSUME NEW j \in DOMAIN reqs', ~crossed'[Home[reqs'[j].tab]]
                 PROVE  /\ jar[Home[reqs'[j].tab]].family \in {0, reqs'[j].family}
                        /\ reqs'[j].pc # "reuse"
                        /\ reqs'[j].pc = "refuse" => reqs'[j].family = 0
                        /\ Current(reqs[j].family, reqs[j].jti)'
    BY <1>1 DEF SoloIsCurrent, Owner
  <2>2. Home[reqs'[j].tab] # Owner(r) /\ ~crossed[Home[reqs'[j].tab]]
    BY <1>2, <1>4, <2>1
  <2>3. PICK k \in DOMAIN reqs : reqs'[j] = reqs[k]
    BY <1>4, <2>2
  <2>4. /\ jar[Owner(k)].family \in {0, reqs[k].family} /\ reqs[k].pc # "reuse"
        /\ reqs[k].pc = "refuse" => reqs[k].family = 0
        /\ Current(reqs[k].family, reqs[k].jti)
    BY <2>2, <2>3 DEF Quiet, SoloIsCurrent, Owner
  <2>5. Current(reqs[j].family, reqs[j].jti)'
    BY <1>1, <2>3, <2>4 DEF Current
  <2>6. QED
    BY <2>3, <2>4, <2>5 DEF Owner
<1>7. JarIsCurrent'
  <2>1. SUFFICES ASSUME NEW b \in Browsers, ~crossed'[b], ~Busy(b)'
                 PROVE  Current(jar[b].family, jar[b].jti)'
    BY DEF JarIsCurrent
  <2>2. b # Owner(r) /\ ~crossed[b]
    BY <1>2, <2>1
  <2>3. ~Busy(b)
    BY <1>4, <2>1, <2>2 DEF Busy, Owner, Other
  <2>4. Current(jar[b].family, jar[b].jti)
    BY <2>2, <2>3 DEF Quiet, JarIsCurrent
  <2>5. QED
    BY <1>1, <2>4 DEF Current
<1>8. QED
  BY <1>5, <1>6, <1>7 DEF Quiet

(* A refresh that begins takes the token of its jar along.               *)
LEMMA QuietRefused ==
  ASSUME Typed, Refer, Quiet, NEW t \in Tabs, Refused(t), ~tabs[t].refreshing
  PROVE  Quiet'
<1> DEFINE n == Len(reqs) + 1
           q == Request(t)
<1>1. /\ reqs' = Append(reqs, q) /\ jar' = jar /\ families' = families
      /\ crossed' = [crossed EXCEPT ![Home[t]] = @ \/ Busy(Home[t])]
  BY DEF Refused, db
<1>2. Home[t] \in Browsers
  BY Bounds
<1>3. /\ q.tab = t /\ q.pc = "sent" /\ q.heard
      /\ q.family = jar[Home[t]].family /\ q.jti = jar[Home[t]].jti
  BY DEF Request
<1> HIDE DEF q
<1>4. /\ \A j \in DOMAIN reqs : j # n /\ j \in DOMAIN reqs' /\ reqs'[j] = reqs[j]
      /\ n \in DOMAIN reqs' /\ reqs'[n] = q /\ \A j \in DOMAIN reqs' : j \in DOMAIN reqs \/ j = n
  BY <1>1 DEF Typed
<1> HIDE DEF n
<1>5. /\ \A b \in Browsers : ~crossed'[b] => ~crossed[b]
      /\ ~crossed'[Home[t]] => ~Busy(Home[t])
  BY <1>1, <1>2 DEF Typed
<1>6. \A i \in DOMAIN reqs : Owner(i) \in Browsers
  BY OwnerTyped
<1>7. \A i \in DOMAIN reqs : ~crossed'[Owner(i)] => Owner(i) # Home[t]
  BY <1>5, <1>6 DEF Busy, Owner
<1>8. /\ \A i \in DOMAIN reqs : Home[reqs'[i].tab] = Owner(i)
      /\ Home[reqs'[n].tab] = Home[t]
  BY <1>3, <1>4 DEF Owner
<1>9. Solo'
  <2>1. SUFFICES ASSUME NEW i \in DOMAIN reqs', NEW j \in DOMAIN reqs',
                        ~crossed'[Home[reqs'[i].tab]], Home[reqs'[i].tab] = Home[reqs'[j].tab]
                 PROVE  i = j /\ reqs'[i].heard
    BY DEF Solo, Owner
  <2>2. CASE i = n
    BY <1>3, <1>4, <1>7, <1>8, <2>1, <2>2
  <2>3. CASE i \in DOMAIN reqs
    <3>1. j \in DOMAIN reqs
      BY <1>4, <1>7, <1>8, <2>1, <2>3
    <3>2. QED
      BY <1>4, <1>5, <1>6, <1>8, <2>1, <2>3, <3>1 DEF Quiet, Solo
  <2>4. QED
    BY <1>4, <2>2, <2>3
<1>10. SoloIsCurrent'
  <2>1. SUFFICES ASSUME NEW i \in DOMAIN reqs', ~crossed'[Home[reqs'[i].tab]]
                 PROVE  /\ jar[Home[reqs'[i].tab]].family \in {0, reqs'[i].family}
                        /\ reqs'[i].pc # "reuse"
                        /\ reqs'[i].pc = "refuse" => reqs'[i].family = 0
                        /\ Current(reqs[i].family, reqs[i].jti)'
    BY <1>1 DEF SoloIsCurrent, Owner
  <2>2. CASE i = n
    <3>1. Current(jar[Home[t]].family, jar[Home[t]].jti)
      BY <1>2, <1>5, <1>8, <2>1, <2>2 DEF Quiet, JarIsCurrent
    <3>2. QED
      BY <1>1, <1>3, <1>4, <1>8, <2>2, <3>1 DEF Current
  <2>3. CASE i \in DOMAIN reqs
    <3>1. ~crossed[Owner(i)] /\ reqs'[i] = reqs[i]
      BY <1>4, <1>5, <1>6, <1>8, <2>1, <2>3
    <3>2. /\ jar[Owner(i)].family \in {0, reqs[i].family} /\ reqs[i].pc # "reuse"
          /\ reqs[i].pc = "refuse" => reqs[i].family = 0
          /\ Current(reqs[i].family, reqs[i].jti)
      BY <2>3, <3>1 DEF Quiet, SoloIsCurrent
    <3>3. QED
      BY <1>1, <1>8, <2>3, <3>1, <3>2 DEF Current
  <2>4. QED
    BY <1>4, <2>2, <2>3
<1>11. JarIsCurrent'
  <2>1. SUFFICES ASSUME NEW b \in Browsers, ~crossed'[b], ~Busy(b)'
                 PROVE  Current(jar[b].family, jar[b].jti)'
    BY DEF JarIsCurrent
  <2>2. ~crossed[b] /\ ~Busy(b)
    BY <1>4, <1>5, <2>1 DEF Busy
  <2>3. Current(jar[b].family, jar[b].jti)
    BY <2>2 DEF Quiet, JarIsCurrent
  <2>4. QED
    BY <1>1, <2>3 DEF Current
<1>12. QED
  BY <1>9, <1>10, <1>11 DEF Quiet

(* The reply to a sign-in brings a family of its own.                    *)
LEMMA QuietSignedIn ==
  ASSUME Typed, Refer, Apart, Quiet, NEW e \in DOMAIN entries, SignedIn(e)
  PROVE  Quiet'
<1> DEFINE b0 == entries[e].browser
           f0 == entries[e].family
<1>1. entries[e] \in Entries /\ entries[e].pc = "reply"
  BY DEF SignedIn, Typed
<1>2. b0 \in Browsers /\ families[f0].revoked # "theft_suspected"
  BY <1>1 DEF Entries, Apart, RepliesFresh
<1>3. /\ reqs' = reqs /\ families' = families
      /\ jar' = [jar EXCEPT ![b0] = [at |-> TRUE, family |-> f0, jti |-> families[f0].jti]]
      /\ crossed' = [crossed EXCEPT ![b0] = @ \/ Busy(b0)]
  BY DEF SignedIn, db
<1> HIDE DEF b0, f0
<1>4. /\ jar'[b0].family = f0 /\ jar'[b0].jti = families[f0].jti
      /\ \A b \in Browsers \ {b0} : jar'[b] = jar[b] /\ crossed'[b] = crossed[b]
      /\ crossed'[b0] = (crossed[b0] \/ Busy(b0))
  BY <1>2, <1>3 DEF Typed
<1>5. \A i \in DOMAIN reqs : Owner(i) \in Browsers /\ Owner(i)' = Owner(i)
  BY <1>3, OwnerTyped DEF Owner
<1>6. \A i \in DOMAIN reqs : ~crossed'[Owner(i)] =>
        /\ ~crossed[Owner(i)] /\ jar'[Owner(i)] = jar[Owner(i)]
  BY <1>4, <1>5 DEF Busy, Owner
<1>7. Solo'
  BY <1>3, <1>5, <1>6 DEF Quiet, Solo
<1>8. \A f, n : Current(f, n)' <=> Current(f, n)
  BY <1>3 DEF Current
<1>9. SoloIsCurrent'
  <2>1. SUFFICES ASSUME NEW i \in DOMAIN reqs, ~crossed'[Owner(i)]
                 PROVE  /\ jar'[Owner(i)].family \in {0, reqs[i].family}
                        /\ reqs[i].pc # "reuse"
                        /\ reqs[i].pc = "refuse" => reqs[i].family = 0
                        /\ Current(reqs[i].family, reqs[i].jti)'
    BY <1>3, <1>5 DEF SoloIsCurrent
  <2>2. /\ jar[Owner(i)].family \in {0, reqs[i].family} /\ reqs[i].pc # "reuse"
        /\ reqs[i].pc = "refuse" => reqs[i].family = 0
        /\ Current(reqs[i].family, reqs[i].jti)
    BY <1>6, <2>1 DEF Quiet, SoloIsCurrent
  <2>3. Current(reqs[i].family, reqs[i].jti)'
    BY <1>3, <2>2 DEF Current
  <2>4. QED
    BY <1>6, <2>1, <2>2, <2>3
<1>10. JarIsCurrent'
  <2>1. SUFFICES ASSUME NEW b \in Browsers, ~crossed'[b], ~Busy(b)'
                 PROVE  Current(jar[b].family, jar[b].jti)'
    BY DEF JarIsCurrent
  <2>2. CASE b = b0
    BY <1>2, <1>3, <1>4, <2>2 DEF Current
  <2>3. CASE b # b0
    <3>1. ~crossed[b] /\ ~Busy(b) /\ jar'[b] = jar[b]
      BY <1>3, <1>4, <2>1, <2>3 DEF Busy
    <3>2. Current(jar[b].family, jar[b].jti)
      BY <3>1 DEF Quiet, JarIsCurrent
    <3>3. QED
      BY <1>3, <3>1, <3>2 DEF Current
  <2>4. QED
    BY <2>2, <2>3
<1>11. QED
  BY <1>7, <1>9, <1>10 DEF Quiet

(* Every step keeps the quiet browsers' tokens current.                  *)
LEMMA QuietNext ==
  Typed /\ Refer /\ Apart /\ Quiet /\ [Next]_vars => Quiet'
<1> SUFFICES ASSUME Typed, Refer, Apart, Quiet, [Next]_vars PROVE Quiet'
  OBVIOUS
<1>1. CASE QuietMove
  BY <1>1, QuietMoved
<1>2. CASE LoudMove
  BY <1>2, QuietRotate, QuietReply, QuietBreak, QuietRefused, QuietSignedIn DEF LoudMove
<1>3. QED
  BY <1>1, <1>2, QuietMoveNext

---------------------------------------------------------------------------
(* The one refresh of a tab.                                               *)

(* Requests are heard as before, and tabs wait as before.                  *)
LEMMA SharedStays ==
  ASSUME RefreshIsShared, DOMAIN reqs' = DOMAIN reqs,
         \A i \in DOMAIN reqs : reqs'[i].heard = reqs[i].heard /\ reqs'[i].tab = reqs[i].tab,
         \A t \in Tabs :
           tabs'[t].refreshing = tabs[t].refreshing /\ tabs'[t].waiting = tabs[t].waiting
  PROVE  RefreshIsShared'
  BY DEF RefreshIsShared, Pending

(* Nothing of it is touched.                                               *)
LEMMA SharedSame ==
  ASSUME RefreshIsShared, UNCHANGED <<reqs, tabs>>
  PROVE  RefreshIsShared'
  BY DEF RefreshIsShared, Pending

(* The request that tab c listens to is over, or not listened to any more. *)
LEMMA SharedSettles ==
  ASSUME Typed, RefreshIsShared, NEW i \in DOMAIN reqs, reqs[i].heard, tabs' = Settled(reqs[i].tab),
         NEW o, \A j \in DOMAIN reqs' : o[j] \in DOMAIN reqs,
         \A j, k \in DOMAIN reqs' : o[j] = o[k] => j = k,
         \A k \in DOMAIN reqs \ {i} : \E j \in DOMAIN reqs' : o[j] = k,
         \A j \in DOMAIN reqs' : reqs'[j].tab = reqs[o[j]].tab
                                 /\ (reqs'[j].heard <=> reqs[o[j]].heard /\ o[j] # i)
  PROVE  RefreshIsShared'
<1>0. PICK c \in Tabs : c = reqs[i].tab
  <2>1. reqs[i] \in Reqs
    BY DEF Typed
  <2>2. QED
    BY <2>1 DEF Reqs
<1>1. tabs \in [Tabs -> TabStates]
  BY DEF Typed
<1>2. /\ \A t \in Tabs \ {c} : tabs'[t] = tabs[t]
      /\ ~tabs'[c].refreshing /\ tabs'[c].waiting = 0
  BY <1>0, <1>1 DEF Settled, TabStates
<1>3. ASSUME NEW j \in DOMAIN reqs', NEW k \in DOMAIN reqs', reqs'[j].heard, reqs'[k].heard,
             reqs'[j].tab = reqs'[k].tab
      PROVE  j = k
  <2>1. o[j] = o[k]
    BY <1>3 DEF RefreshIsShared
  <2>2. QED
    BY <2>1
<1>4. \A t \in Tabs \ {c} : Pending(t)' <=> Pending(t)
  <2>1. ASSUME NEW t \in Tabs \ {c}, Pending(t)
        PROVE  Pending(t)'
    <3>1. PICK k \in DOMAIN reqs : reqs[k].tab = t /\ reqs[k].heard
      BY <2>1 DEF Pending
    <3>2. k # i
      BY <1>0, <2>1, <3>1
    <3>3. PICK j \in DOMAIN reqs' : o[j] = k
      BY <3>1, <3>2
    <3>4. reqs'[j].tab = t /\ reqs'[j].heard
      BY <3>1, <3>2, <3>3
    <3>5. QED
      BY <3>4 DEF Pending
  <2>2. ASSUME NEW t \in Tabs \ {c}, Pending(t)'
        PROVE  Pending(t)
    BY <2>2 DEF Pending
  <2>3. QED
    BY <2>1, <2>2
<1>5. ~Pending(c)'
  <2>1. SUFFICES ASSUME NEW j \in DOMAIN reqs', reqs'[j].tab = c, reqs'[j].heard
                 PROVE  FALSE
    BY DEF Pending
  <2>2. o[j] = i
    BY <1>0, <2>1 DEF RefreshIsShared
  <2>3. QED
    BY <2>1, <2>2
<1>6. \A t \in Tabs : (tabs'[t].refreshing <=> Pending(t)') /\ (tabs'[t].waiting > 0 => tabs'[t].refreshing)
  <2>1. ASSUME NEW t \in Tabs, t # c
        PROVE  (tabs'[t].refreshing <=> Pending(t)') /\ (tabs'[t].waiting > 0 => tabs'[t].refreshing)
    BY <1>2, <1>4, <2>1 DEF RefreshIsShared
  <2>2. QED
    BY <1>2, <1>5, <2>1
<1>7. QED
  BY <1>3, <1>6 DEF RefreshIsShared

(* A call that is refused asks for a refresh if there is none.             *)
LEMMA SharedRefused ==
  ASSUME Typed, RefreshIsShared, NEW t \in Tabs, Refused(t)
  PROVE  RefreshIsShared'
<1>1. tabs \in [Tabs -> TabStates] /\ tabs[t] \in TabStates /\ reqs \in Seq(Reqs)
  BY DEF Typed
<1>2. tabs[t].asked - 1 \in Nat /\ tabs' = [tabs EXCEPT ![t] = Waits(t)]
  BY <1>1 DEF Refused, TabStates
<1>3. tabs'[t].refreshing /\ \A u \in Tabs \ {t} : tabs'[u] = tabs[u]
  BY <1>1, <1>2, WaitsTyped
<1>4. CASE tabs[t].refreshing
  <2>1. reqs' = reqs
    BY <1>4 DEF Refused
  <2>2. \A u \in Tabs : Pending(u)' <=> Pending(u)
    BY <2>1 DEF Pending
  <2>3. QED
    BY <1>3, <1>4, <2>1, <2>2 DEF RefreshIsShared
<1>5. CASE ~tabs[t].refreshing
  <2> DEFINE n == Len(reqs) + 1
  <2>1. reqs' = Append(reqs, Request(t))
    BY <1>5 DEF Refused
  <2>2. Request(t).tab = t /\ Request(t).heard
    BY DEF Request
  <2>3. /\ DOMAIN reqs' = DOMAIN reqs \union {n} /\ reqs'[n] = Request(t) /\ n \notin DOMAIN reqs
        /\ \A k \in DOMAIN reqs : reqs'[k] = reqs[k]
    BY <1>1, <2>1
  <2> HIDE DEF n
  <2>4. \A k \in DOMAIN reqs : reqs[k].heard => reqs[k].tab # t
    BY <1>5 DEF RefreshIsShared, Pending
  <2>5. \A j, k \in DOMAIN reqs' :
          reqs'[j].heard /\ reqs'[k].heard /\ reqs'[j].tab = reqs'[k].tab => j = k
    BY <2>2, <2>3, <2>4 DEF RefreshIsShared
  <2>6. Pending(t)'
    BY <2>2, <2>3 DEF Pending
  <2>7. \A u \in Tabs \ {t} : Pending(u)' <=> Pending(u)
    BY <2>2, <2>3 DEF Pending
  <2>8. QED
    BY <1>3, <2>5, <2>6, <2>7 DEF RefreshIsShared
<1>6. QED
  BY <1>4, <1>5

(* A request that leaves.                                                  *)
LEMMA SharedLeft ==
  ASSUME Typed, RefreshIsShared, NEW i \in DOMAIN reqs, reqs' = RemoveAt(reqs, i),
         reqs[i].heard => tabs' = Settled(reqs[i].tab), ~reqs[i].heard => tabs' = tabs
  PROVE  RefreshIsShared'
<1>1. reqs \in Seq(Reqs)
  BY DEF Typed
<1>2. PICK o \in [DOMAIN RemoveAt(reqs, i) -> DOMAIN reqs \ {i}] :
           /\ \A j \in DOMAIN RemoveAt(reqs, i) : RemoveAt(reqs, i)[j] = reqs[o[j]]
           /\ \A j, k \in DOMAIN RemoveAt(reqs, i) : o[j] = o[k] => j = k
           /\ \A k \in DOMAIN reqs \ {i} : \E j \in DOMAIN RemoveAt(reqs, i) : o[j] = k
  BY <1>1, Kept
<1>3. \A j \in DOMAIN reqs' : o[j] \in DOMAIN reqs /\ o[j] # i /\ reqs'[j] = reqs[o[j]]
  BY <1>2
<1>4. CASE reqs[i].heard
  BY <1>2, <1>3, <1>4, SharedSettles
<1>5. CASE ~reqs[i].heard
  <2>1. \A j, k \in DOMAIN reqs' :
          reqs'[j].heard /\ reqs'[k].heard /\ reqs'[j].tab = reqs'[k].tab => j = k
    BY <1>2, <1>3 DEF RefreshIsShared
  <2>2. ASSUME NEW u \in Tabs
        PROVE  Pending(u)' <=> Pending(u)
    <3>1. ASSUME Pending(u)
          PROVE  Pending(u)'
      <4>1. PICK k \in DOMAIN reqs : reqs[k].tab = u /\ reqs[k].heard
        BY <3>1 DEF Pending
      <4>2. PICK j \in DOMAIN reqs' : o[j] = k
        BY <1>2, <1>5, <4>1
      <4>3. QED
        BY <1>3, <4>1, <4>2 DEF Pending
    <3>2. QED
      BY <1>3, <3>1 DEF Pending
  <2>3. QED
    BY <1>5, <2>1, <2>2 DEF RefreshIsShared
<1>6. QED
  BY <1>4, <1>5

(* A connection that breaks.                                               *)
LEMMA SharedBreak ==
  ASSUME Typed, RefreshIsShared, NEW i \in DOMAIN reqs, Break(i)
  PROVE  RefreshIsShared'
<1>1. reqs[i].heard /\ tabs' = Settled(reqs[i].tab)
  BY DEF Break
<1>2. CASE reqs' = RemoveAt(reqs, i)
  BY <1>1, <1>2, SharedLeft
<1>3. CASE reqs' = [reqs EXCEPT ![i].heard = FALSE]
  <2> DEFINE o == [j \in DOMAIN reqs |-> j]
  <2>1. reqs[i] \in Reqs
    BY DEF Typed
  <2>2. /\ DOMAIN reqs' = DOMAIN reqs /\ ~reqs'[i].heard /\ reqs'[i].tab = reqs[i].tab
        /\ \A j \in DOMAIN reqs \ {i} : reqs'[j] = reqs[j]
    BY <1>3, <2>1 DEF Reqs
  <2>3. \A j \in DOMAIN reqs' : reqs'[j].tab = reqs[j].tab /\ (reqs'[j].heard <=> reqs[j].heard /\ j # i)
    BY <2>2
  <2>4. \A j \in DOMAIN reqs' : o[j] = j
    BY <2>2
  <2> HIDE DEF o
  <2>5. QED
    BY <1>1, <2>2, <2>3, <2>4, SharedSettles
<1>4. QED
  BY <1>2, <1>3 DEF Break

(* Every step keeps it.                                                    *)
LEMMA SharedNext == Typed /\ RefreshIsShared /\ [Next]_vars => RefreshIsShared'
<1> SUFFICES ASSUME Typed, RefreshIsShared, [Next]_vars PROVE RefreshIsShared'
  OBVIOUS
<1>1. reqs \in Seq(Reqs) /\ tabs \in [Tabs -> TabStates]
  BY DEF Typed
<1>2. ASSUME NEW t \in Tabs, Call(t) PROVE RefreshIsShared'
  <2>1. tabs[t] \in TabStates /\ tabs' = [tabs EXCEPT ![t].asked = @ + 1] /\ reqs' = reqs
    BY <1>1, <1>2 DEF Call
  <2>2. \A u \in Tabs : tabs'[u].refreshing = tabs[u].refreshing /\ tabs'[u].waiting = tabs[u].waiting
    BY <1>1, <2>1 DEF TabStates
  <2>3. QED
    BY <2>1, <2>2, SharedStays
<1>3. ASSUME NEW t \in Tabs, Refused(t) PROVE RefreshIsShared'
  BY <1>3, SharedRefused
<1>4. ASSUME NEW i \in DOMAIN reqs, NEW p, Step(i, p), tabs' = tabs PROVE RefreshIsShared'
  <2>1. /\ DOMAIN reqs' = DOMAIN reqs
        /\ \A k \in DOMAIN reqs : reqs'[k].heard = reqs[k].heard /\ reqs'[k].tab = reqs[k].tab
    BY <1>1, <1>4, ReqMoved
  <2>2. QED
    BY <1>4, <2>1, SharedStays
<1>5. ASSUME NEW i \in DOMAIN reqs, Check(i) \/ Reused(i) \/ ReadUser(i) \/ Barred(i)
      PROVE  RefreshIsShared'
  <2>1. CASE Check(i)
    <3> DEFINE p == IF reqs[i].family = 0 THEN "refuse"
                    ELSE IF FamilyOf(i).revoked # "no" THEN "clear"
                    ELSE IF FamilyOf(i).jti # reqs[i].jti THEN "reuse" ELSE "user"
    <3>1. Step(i, p) /\ tabs' = tabs
      BY <2>1 DEF Check, web
    <3>2. QED
      BY <1>4, <3>1
  <2>2. CASE Reused(i) \/ Barred(i)
    BY <1>4, <2>2 DEF Reused, Barred, Revoke, web
  <2>3. CASE ReadUser(i)
    <3> DEFINE p == IF account = "active" THEN "rotate" ELSE "bar"
    <3>1. Step(i, p) /\ tabs' = tabs
      BY <2>3 DEF ReadUser, web
    <3>2. QED
      BY <1>4, <3>1
  <2>4. QED
    BY <1>5, <2>1, <2>2, <2>3
<1>6. ASSUME NEW i \in DOMAIN reqs, Rotate(i) PROVE RefreshIsShared'
  <2>1. tabs' = tabs
    BY <1>6 DEF Rotate, web
  <2>2. /\ DOMAIN reqs' = DOMAIN reqs
        /\ \A k \in DOMAIN reqs : reqs'[k].heard = reqs[k].heard /\ reqs'[k].tab = reqs[k].tab
    BY <1>1, <1>6, ReqGranted
  <2>3. QED
    BY <2>1, <2>2, SharedStays
<1>7. ASSUME NEW i \in DOMAIN reqs, Reply(i) PROVE RefreshIsShared'
  BY <1>7, SharedLeft DEF Reply, web
<1>8. ASSUME NEW i \in DOMAIN reqs, Break(i) PROVE RefreshIsShared'
  BY <1>8, SharedBreak
<1>9. CASE Restore
  <2>1. tabs' = tabs
    BY <1>9 DEF Restore, web
  <2>2. QED
    BY <1>1, <1>9, <2>1, ReqsRestored, SharedStays
<1>10. CASE UNCHANGED <<reqs, tabs>>
  BY <1>10, SharedSame
<1>11. ASSUME NEW i \in DOMAIN entries, SignIn(i) PROVE UNCHANGED <<reqs, tabs>>
  BY <1>11 DEF SignIn, Create, Provisioned, Insert, MarkUsed, Issue, SignedIn, web
<1>12. ASSUME NEW b \in Browsers,
              Login(b) \/ Provision(b) \/ Logout(b) \/ DeleteMe(b) \/ Expire(b) \/ RevokeAll(b) \/ Left(b)
       PROVE  UNCHANGED <<reqs, tabs>>
  BY <1>12 DEF Login, Provision, Enter, Logout, DeleteMe, Expire, RevokeAll, Left, web
<1>13. ASSUME NEW b \in Browsers, NEW k \in DOMAIN links, Verify(b, k) PROVE UNCHANGED <<reqs, tabs>>
  BY <1>13 DEF Verify, Enter, web
<1>14. CASE SendSignupLink \/ SendLoginLink \/ Suspend \/ \E s \in {"active", "suspended"} : ScimCreate(s)
  <2>1. UNCHANGED <<reqs, tabs>>
    BY <1>14 DEF SendSignupLink, SendLoginLink, SendLink, Suspend, ScimCreate, web
  <2>2. QED
    BY <1>10, <2>1
<1>15. CASE UNCHANGED vars
  BY <1>10, <1>15 DEF vars, web
<1>16. QED
  BY <1>2, <1>3, <1>5, <1>6, <1>7, <1>8, <1>9, <1>10, <1>11, <1>12, <1>13, <1>14, <1>15
     DEF Next, User, Directory, Refresh

---------------------------------------------------------------------------
(* The theorems.                                                           *)

Safe == Typed /\ Refer /\ Unborn /\ LateIsBarred /\ Once /\ Apart /\ Quiet

(* It holds at first, and every step preserves it.                       *)
LEMMA InitSafe == Init => Safe
<1> SUFFICES ASSUME Init PROVE Safe
  OBVIOUS
<1> USE DEF Init
<1>1. Typed
  BY Bounds DEF Typed, Statuses, Jars, EmptyJar, TabStates
<1>2. Refer
  BY DEF Refer, FamiliesRefer, JarsRefer, ReqsRefer, EntriesRefer, CallsPaid, EmptyJar
<1>3. Unborn /\ LateIsBarred
  BY DEF Unborn, LateIsBarred
<1>4. Once
  BY DEF Once, OnePast, PastOrIn, OneIn
<1>5. Apart /\ Quiet
  BY DEF Apart, KeptApart, RepliesApart, RepliesFresh, Holds, Quiet, Solo, SoloIsCurrent,
         JarIsCurrent, Current, EmptyJar
<1>6. QED
  BY <1>1, <1>2, <1>3, <1>4, <1>5 DEF Safe

LEMMA NextSafe == Safe /\ [Next]_vars => Safe'
<1> SUFFICES ASSUME Typed, Refer, Unborn, LateIsBarred, Once, Apart, Quiet, [Next]_vars
           PROVE  Safe'
  BY DEF Safe
<1>1. Typed'
  BY TypedNext
<1>2. Refer'
  BY FamiliesReferNext, JarsReferNext, ReqsReferNext, EntriesReferNext, CallsPaidNext DEF Refer
<1>3. Unborn' /\ LateIsBarred' /\ Once'
  BY UnbornNext, LateIsBarredNext, OnceNext
<1>4. Apart' /\ Quiet'
  BY ApartNext, QuietNext
<1>5. QED
  BY <1>1, <1>2, <1>3, <1>4 DEF Safe

(* The inductive invariant of every behaviour.                             *)
THEOREM Invariant == Spec => []Safe
  BY InitSafe, NextSafe, PTL DEF Spec

(* Every token in a cookie or a family was minted, and no call is counted  *)
(* twice or lost by the queue of a tab's one refresh.                      *)
THEOREM TypeCorrect == Spec => []TypeOK
<1>1. Safe => TypeOK
  <2> SUFFICES ASSUME Typed, Refer PROVE TypeOK
    BY DEF Safe
  <2>1. account \in {"none", "active", "suspended", "deleted"} /\ spent \in 0 .. Budget
    BY DEF Typed, Statuses
  <2>2. \A k \in DOMAIN links : links[k].used \in BOOLEAN /\ links[k].signup \in BOOLEAN
    <3>1. \A k \in DOMAIN links : links[k] \in Links
      BY DEF Typed
    <3>2. QED
      BY <3>1 DEF Links
  <2>3. \A f \in DOMAIN families :
          /\ families[f].jti \in 1 .. minted
          /\ families[f].revoked \in {"no", "logout", "theft_suspected"}
    <3>1. \A f \in DOMAIN families : families[f] \in Families
      BY DEF Typed
    <3>2. QED
      BY <3>1 DEF Families, Marks, Refer, FamiliesRefer
  <2>4. \A b \in Browsers : jar[b].family \in 0 .. Len(families) /\ jar[b].jti \in 0 .. minted
    BY DEF Refer, JarsRefer
  <2>5. \A t \in Tabs : tabs[t].asked + tabs[t].waiting <= spent /\ tabs[t].refreshing \in BOOLEAN
    BY DEF Typed, TabStates, Refer, CallsPaid
  <2>6. QED
    BY <2>1, <2>2, <2>3, <2>4, <2>5 DEF TypeOK
<1>2. QED
  BY Invariant, <1>1, PTL

(* A refresh that begins while the account is suspended or deleted, and    *)
(* that the directory does not restore meanwhile, is never granted a token,*)
(* however the deletion, other refreshes and sign-ins interleave.          *)
THEOREM LateIsNeverRenewed == Spec => []LateNeverRenews
<1>1. Safe => LateNeverRenews
  BY DEF Safe, LateIsBarred, LateNeverRenews
<1>2. QED
  BY Invariant, <1>1, PTL

(* A tab listens to one refresh at most, waits only for it, and forgets it *)
(* as soon as it settles, however replies are lost and tabs interleave.    *)
THEOREM TabRefreshesOnce == Spec => []RefreshIsShared
<1>1. Init => RefreshIsShared
  BY DEF Init, RefreshIsShared, Pending
<1>2. Safe => Typed
  BY DEF Safe
<1>3. QED
  BY Invariant, SharedNext, <1>1, <1>2, PTL DEF Spec

(* Any number of overlapping verifications of sign-up links, with failing  *)
(* queries, opens one family for a link.                                   *)
THEOREM SignupLinkIsUsedOnce == Spec => []SignupLinkSignsInOnce
<1>1. Safe => SignupLinkSignsInOnce
  BY DEF Safe, Once, OneIn, Signup, SignupLinkSignsInOnce
<1>2. QED
  BY Invariant, <1>1, PTL

(* A browser whose refreshes never overlap and whose replies all arrive    *)
(* keeps a current token: no interleaving of other browsers, sign-ins,     *)
(* suspensions and deletions has its next refresh taken for a theft.       *)
THEOREM QuietBrowserIsNoThief == Spec => []QuietJarIsCurrent
<1>1. Safe => QuietJarIsCurrent
  BY DEF Safe, Quiet, JarIsCurrent, Current, QuietJarIsCurrent
<1>2. QED
  BY Invariant, <1>1, PTL

===========================================================================
