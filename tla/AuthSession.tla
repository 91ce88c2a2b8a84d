--------------------------- MODULE AuthSession ---------------------------
(***************************************************************************)
(* The session of a signed-in user: routes/auth.ts with its repository     *)
(* (db/auth-data-access.ts), the directory's calls that create, suspend    *)
(* and restore users (routes/scim.ts) and the client's fetch wrapper       *)
(* (web/lib/fetch-with-refresh.ts), for one account. Browsers keep two     *)
(* cookies, the access token and the refresh token; the tabs of a browser  *)
(* share them and know nothing of each other. The database keeps magic     *)
(* links and one family per sign-in; the family names the refresh token    *)
(* that is current. A handler runs from query to query, and each query is  *)
(* a step of its own. Tokens are numbers (jti) and never forged; the       *)
(* refresh token's own 30 days never pass.                                 *)
(***************************************************************************)
EXTENDS Integers, Sequences, FiniteSets, SequencesExt

CONSTANTS
  Browsers,
  Tabs,
  Home,        \* the browser a tab belongs to
  Budget       \* bound on links, sign-ins, SCIM and refused calls and what breaks

ASSUME Bounds == Home \in [Tabs -> Browsers] /\ Budget \in Nat

VARIABLES
  account,   \* users.status, or "none" before the sign-up
  links,     \* links[k]: the k-th magic link
  families,  \* families[f]: the f-th row of refresh_token_families
  minted,    \* the last jti
  jar,       \* jar[b]: the cookies of browser b
  tabs,      \* tabs[t]: the module state of fetch-with-refresh.ts
  reqs,      \* the POSTs of /auth/refresh under way
  entries,   \* the sign-ins under way
  leaving,   \* leaving[b]: the step of b's DELETE /auth/me
  spent,     \* of the Budget
  crossed    \* crossed[b]: two tabs of b refreshed at once, or a reply was lost

db == <<account, links, families, minted>>
web == <<jar, tabs>>
vars == <<db, web, reqs, entries, leaving, spent, crossed>>

EmptyJar == [at |-> FALSE, family |-> 0, jti |-> 0]

Spend == spent < Budget /\ spent' = spent + 1

---------------------------------------------------------------------------
(* Signing in. A link without a user is one for signing up.                *)

SendLink(signup) ==
  /\ Spend
  /\ links' = Append(links, [signup |-> signup, used |-> FALSE])
  /\ UNCHANGED <<account, families, minted, web, reqs, entries, leaving, crossed>>

SendSignupLink == SendLink(TRUE)

(* POST /magic-link: to an address that has an account, deleted or not.    *)
SendLoginLink == account # "none" /\ SendLink(FALSE)

Enter(b, k, pc) ==
  /\ Spend
  /\ entries' = Append(entries, [browser |-> b, link |-> k, pc |-> pc, family |-> 0])
  /\ UNCHANGED <<db, web, reqs, leaving, crossed>>

(* GET /magic-link/verify finds the link unused.                           *)
Verify(b, k) ==
  ~links[k].used /\ Enter(b, k, IF links[k].signup THEN "create" ELSE "mark")

(* POST /login, or a provider vouches for a user: an active account.       *)
Login(b) == account = "active" /\ Enter(b, 0, "issue")

(* LDAP, OIDC or the proxy vouch for somebody who has no account yet.      *)
Provision(b) == account = "none" /\ Enter(b, 0, "provision")

To(i, pc) == entries' = [entries EXCEPT ![i].pc = pc]

Ended(i) == entries' = RemoveAt(entries, i)

(* Mutant of Insert: an account that exists is taken for the new one.      *)
InsertOrFind(i, from, to) ==
  /\ entries[i].pc = from
  /\ account' = IF account = "none" THEN "active" ELSE account
  /\ To(i, to)
  /\ UNCHANGED <<links, families, minted, web, reqs, leaving, spent, crossed>>

(* The address is unique: a second account is refused and the handler ends.*)
Insert(i, from, to) ==
  /\ entries[i].pc = from
  /\ IF account = "none" THEN account' = "active" /\ To(i, to)
                         ELSE Ended(i) /\ UNCHANGED account
  /\ UNCHANGED <<links, families, minted, web, reqs, leaving, spent, crossed>>

Create(i) == Insert(i, "create", "mark")

Provisioned(i) == Insert(i, "provision", "issue")

MarkUsed(i) ==
  /\ entries[i].pc = "mark"
  /\ \/ links' = [links EXCEPT ![entries[i].link].used = TRUE] /\ To(i, "issue") /\ UNCHANGED spent
     \/ Spend /\ Ended(i) /\ UNCHANGED links
  /\ UNCHANGED <<account, families, minted, web, reqs, leaving, crossed>>

(* issueSession, whatever the status of the account.                       *)
Issue(i) ==
  /\ entries[i].pc = "issue"
  /\ minted' = minted + 1
  /\ families' = Append(families, [jti |-> minted + 1, revoked |-> "no", link |-> entries[i].link])
  /\ entries' = [entries EXCEPT ![i].pc = "reply", ![i].family = Len(families) + 1]
  /\ UNCHANGED <<account, links, web, reqs, leaving, spent, crossed>>

Busy(b) == \E i \in DOMAIN reqs : Home[reqs[i].tab] = b

(* The cookies arrive. A jar is also crossed when a refresh is under way.  *)
SignedIn(i) ==
  /\ entries[i].pc = "reply"
  /\ Ended(i)
  /\ LET b == entries[i].browser
         f == entries[i].family
     IN /\ jar' = [jar EXCEPT ![b] = [at |-> TRUE, family |-> f, jti |-> families[f].jti]]
        /\ crossed' = [crossed EXCEPT ![b] = @ \/ Busy(b)]
  /\ UNCHANGED <<db, tabs, reqs, leaving, spent>>

---------------------------------------------------------------------------
(* SCIM: the directory creates, suspends and restores, with no word to the *)
(* families.                                                               *)

ScimCreate(status) ==
  /\ Spend
  /\ account = "none" /\ account' = status
  /\ UNCHANGED <<links, families, minted, web, reqs, entries, leaving, crossed>>

Suspend ==
  /\ Spend
  /\ account # "none" /\ account' = "suspended"
  /\ UNCHANGED <<links, families, minted, web, reqs, entries, leaving, crossed>>

(* Whoever's account it is may go on, even after a deletion.               *)
Restore ==
  /\ Spend
  /\ account # "none" /\ account' = "active"
  /\ reqs' = [i \in DOMAIN reqs |-> [reqs[i] EXCEPT !.late = FALSE]]
  /\ UNCHANGED <<links, families, minted, web, entries, leaving, crossed>>

---------------------------------------------------------------------------
(* Leaving.                                                                *)

Logout(b) ==
  /\ jar[b] # EmptyJar
  /\ jar' = [jar EXCEPT ![b] = EmptyJar]
  /\ UNCHANGED <<db, tabs, reqs, entries, leaving, spent, crossed>>

(* DELETE /me: the two updates are two transactions, and either may fail.  *)
DeleteMe(b) ==
  /\ jar[b].at /\ leaving[b] = "no"
  /\ account' = "deleted"
  /\ leaving' = [leaving EXCEPT ![b] = "revoke"]
  /\ UNCHANGED <<links, families, minted, web, reqs, entries, spent, crossed>>

RevokeAll(b) ==
  /\ leaving[b] = "revoke"
  /\ \/ /\ families' = [f \in DOMAIN families |-> [families[f] EXCEPT
                          !.revoked = IF @ = "no" THEN "logout" ELSE @]]
        /\ leaving' = [leaving EXCEPT ![b] = "reply"]
        /\ UNCHANGED spent
     \/ /\ Spend
        /\ leaving' = [leaving EXCEPT ![b] = "done"]
        /\ UNCHANGED families
  /\ UNCHANGED <<account, links, minted, web, reqs, entries, crossed>>

Left(b) ==
  /\ leaving[b] = "reply"
  /\ leaving' = [leaving EXCEPT ![b] = "done"]
  /\ jar' = [jar EXCEPT ![b] = EmptyJar]
  /\ UNCHANGED <<db, tabs, reqs, entries, spent, crossed>>

---------------------------------------------------------------------------
(* The client: apiFetch and refreshOnce.                                   *)

(* Fifteen minutes.                                                        *)
Expire(b) ==
  /\ jar[b].at
  /\ jar' = [jar EXCEPT ![b].at = FALSE]
  /\ UNCHANGED <<db, tabs, reqs, entries, leaving, spent, crossed>>

(* A call without a valid access token; the others change nothing.         *)
Call(t) ==
  /\ Spend /\ ~jar[Home[t]].at
  /\ tabs' = [tabs EXCEPT ![t].asked = @ + 1]
  /\ UNCHANGED <<db, jar, reqs, entries, leaving, crossed>>

Inactive == account \in {"suspended", "deleted"}

Request(t) ==
  LET c == jar[Home[t]]
  IN [tab |-> t, pc |-> "sent", family |-> c.family, jti |-> c.jti,
      heard |-> TRUE, late |-> Inactive]

(* The promise kept in `refreshing` has not settled.                       *)
Pending(t) == \E i \in DOMAIN reqs : reqs[i].tab = t /\ reqs[i].heard

(* The call awaits the promise, a new one or the one that is kept; await   *)
(* of a settled promise returns at once.                                   *)
Waits(t) ==
  [tabs[t] EXCEPT !.asked = @ - 1,
                  !.waiting = IF tabs[t].refreshing /\ ~Pending(t) THEN @ ELSE @ + 1,
                  !.refreshing = TRUE]

(* Mutant of Refused: each call refreshes for itself.                      *)
RefusedAlone(t) ==
  /\ tabs[t].asked > 0
  /\ tabs' = [tabs EXCEPT ![t] = Waits(t)]
  /\ reqs' = Append(reqs, Request(t))
  /\ crossed' = [crossed EXCEPT ![Home[t]] =
                   @ \/ (Busy(Home[t]) /\ ~tabs[t].refreshing)]
  /\ UNCHANGED <<db, jar, entries, leaving, spent>>

(* 401: the calls of one tab wait for one refresh, that of another tab is  *)
(* not seen.                                                               *)
Refused(t) ==
  /\ tabs[t].asked > 0
  /\ tabs' = [tabs EXCEPT ![t] = Waits(t)]
  /\ IF tabs[t].refreshing
     THEN UNCHANGED <<reqs, crossed>>
     ELSE /\ reqs' = Append(reqs, Request(t))
          /\ crossed' = [crossed EXCEPT ![Home[t]] = @ \/ Busy(Home[t])]
  /\ UNCHANGED <<db, jar, entries, leaving, spent>>

(* The promise settles: every call that waits is sent once more, or gets   *)
(* its 401; neither asks for another refresh.                              *)
Settled(t) == [tabs EXCEPT ![t].waiting = 0, ![t].refreshing = FALSE]

---------------------------------------------------------------------------
(* POST /refresh.                                                          *)

Step(i, pc) == reqs' = [reqs EXCEPT ![i].pc = pc]

FamilyOf(i) == families[reqs[i].family]

(* Without a cookie nothing is cleared, with a revoked family it is.       *)
Check(i) ==
  /\ reqs[i].pc = "sent"
  /\ Step(i, IF reqs[i].family = 0 THEN "refuse"
             ELSE IF FamilyOf(i).revoked # "no" THEN "clear"
             ELSE IF FamilyOf(i).jti # reqs[i].jti THEN "reuse" ELSE "user")
  /\ UNCHANGED <<db, web, entries, leaving, spent, crossed>>

Revoke(i, reason) ==
  /\ families' = [families EXCEPT ![reqs[i].family].revoked = reason]
  /\ Step(i, "clear")
  /\ UNCHANGED <<account, links, minted, web, entries, leaving, spent, crossed>>

Reused(i) == reqs[i].pc = "reuse" /\ Revoke(i, "theft_suspected")

(* Mutant of ReadUser: the status of the account is not looked at.         *)
ReadUserOnly(i) ==
  /\ reqs[i].pc = "user"
  /\ Step(i, "rotate")
  /\ UNCHANGED <<db, web, entries, leaving, spent, crossed>>

ReadUser(i) ==
  /\ reqs[i].pc = "user"
  /\ Step(i, IF account = "active" THEN "rotate" ELSE "bar")
  /\ UNCHANGED <<db, web, entries, leaving, spent, crossed>>

Barred(i) == reqs[i].pc = "bar" /\ Revoke(i, "logout")

(* Mutant of Rotate: a generation counter in place of a fresh jti.         *)
RotateNext(i) ==
  /\ reqs[i].pc = "rotate"
  /\ families' = [families EXCEPT ![reqs[i].family].jti = @ + 1]
  /\ reqs' = [reqs EXCEPT ![i].pc = "grant", ![i].jti = @ + 1]
  /\ UNCHANGED <<account, links, minted, web, entries, leaving, spent, crossed>>

(* rotate: neither the jti nor the revocation is looked at again.          *)
Rotate(i) ==
  /\ reqs[i].pc = "rotate"
  /\ minted' = minted + 1
  /\ families' = [families EXCEPT ![reqs[i].family].jti = minted + 1]
  /\ reqs' = [reqs EXCEPT ![i].pc = "grant", ![i].jti = minted + 1]
  /\ UNCHANGED <<account, links, web, entries, leaving, spent, crossed>>

(* The cookies the reply to request i leaves in jar c.                     *)
CookiesAfter(i, c) ==
  CASE reqs[i].pc = "grant" -> [at |-> TRUE, family |-> reqs[i].family, jti |-> reqs[i].jti]
    [] reqs[i].pc = "clear" -> EmptyJar
    [] OTHER -> c

(* Mutant of Reply: the refresh goes through apiFetch without its guard; a *)
(* refused one then awaits the promise it is itself to settle.             *)
ReplyAwaited(i) ==
  /\ reqs[i].pc \in {"refuse", "clear", "grant"}
  /\ reqs' = RemoveAt(reqs, i)
  /\ IF reqs[i].heard
     THEN /\ jar' = [jar EXCEPT ![Home[reqs[i].tab]] = CookiesAfter(i, @)]
          /\ tabs' = IF reqs[i].pc = "grant" THEN Settled(reqs[i].tab) ELSE tabs
     ELSE UNCHANGED web
  /\ UNCHANGED <<db, entries, leaving, spent, crossed>>

(* The reply sets or clears the cookies of whoever is signed in by now.    *)
Reply(i) ==
  /\ reqs[i].pc \in {"refuse", "clear", "grant"}
  /\ reqs' = RemoveAt(reqs, i)
  /\ IF reqs[i].heard
     THEN /\ jar' = [jar EXCEPT ![Home[reqs[i].tab]] = CookiesAfter(i, @)]
          /\ tabs' = Settled(reqs[i].tab)
     ELSE UNCHANGED web
  /\ UNCHANGED <<db, entries, leaving, spent, crossed>>

(* The connection breaks, or a query fails: the handler goes on unheard,   *)
(* or ends, or was never reached.                                          *)
Break(i) ==
  /\ Spend /\ reqs[i].heard
  /\ \/ reqs' = [reqs EXCEPT ![i].heard = FALSE]
     \/ reqs' = RemoveAt(reqs, i)
  /\ tabs' = Settled(reqs[i].tab)
  /\ crossed' = [crossed EXCEPT ![Home[reqs[i].tab]] = TRUE]
  /\ UNCHANGED <<db, jar, entries, leaving>>

---------------------------------------------------------------------------
Init ==
  /\ account \in {"none", "active"}
  /\ links = << >> /\ families = << >> /\ minted = 0
  /\ jar = [b \in Browsers |-> EmptyJar]
  /\ tabs = [t \in Tabs |-> [asked |-> 0, waiting |-> 0, refreshing |-> FALSE]]
  /\ reqs = << >> /\ entries = << >> /\ leaving = [b \in Browsers |-> "no"]
  /\ spent = 0 /\ crossed = [b \in Browsers |-> FALSE]

User ==
  \/ SendSignupLink \/ SendLoginLink
  \/ \E b \in Browsers : Login(b) \/ Provision(b) \/ Logout(b) \/ DeleteMe(b) \/ Expire(b)
  \/ \E b \in Browsers, k \in DOMAIN links : Verify(b, k)
  \/ \E t \in Tabs : Call(t)

Directory == (\E s \in {"active", "suspended"} : ScimCreate(s)) \/ Suspend \/ Restore

Refresh(i) ==
  Check(i) \/ Reused(i) \/ ReadUser(i) \/ Barred(i) \/ Rotate(i) \/ Reply(i)

SignIn(i) == Create(i) \/ Provisioned(i) \/ MarkUsed(i) \/ Issue(i) \/ SignedIn(i)

Next ==
  \/ User
  \/ Directory
  \/ \E t \in Tabs : Refused(t)
  \/ \E i \in DOMAIN reqs : Refresh(i) \/ Break(i)
  \/ \E i \in DOMAIN entries : SignIn(i)
  \/ \E b \in Browsers : RevokeAll(b) \/ Left(b)

Spec == Init /\ [][Next]_vars

(* Replies arrive or their connection breaks, and handlers run on.         *)
FairSpec ==
  /\ Spec
  /\ \A t \in Tabs : WF_vars(Refused(t))
  /\ WF_vars(\E i \in DOMAIN reqs : Refresh(i))

---------------------------------------------------------------------------
(* The state is well typed, and every token was minted.                    *)
TypeOK ==
  /\ account \in {"none", "active", "suspended", "deleted"}
  /\ \A k \in DOMAIN links : links[k].used \in BOOLEAN /\ links[k].signup \in BOOLEAN
  /\ \A f \in DOMAIN families :
       families[f].jti \in 1 .. minted /\ families[f].revoked \in {"no", "logout", "theft_suspected"}
  /\ \A b \in Browsers : jar[b].family \in 0 .. Len(families) /\ jar[b].jti \in 0 .. minted
  /\ \A t \in Tabs : tabs[t].asked + tabs[t].waiting <= spent /\ tabs[t].refreshing \in BOOLEAN
  /\ spent \in 0 .. Budget

(* A browser whose tabs never refreshed at once, and that missed no reply, *)
(* holds the current token of its family, whatever other browsers, the     *)
(* account's suspension or deletion do meanwhile: its next refresh is not  *)
(* taken for a theft (fetch-with-refresh.ts: one refresh for all calls of  *)
(* a tab).                                                                 *)
QuietJarIsCurrent ==
  \A b \in Browsers :
    ~crossed[b] /\ ~Busy(b) /\ jar[b].family # 0 =>
      /\ families[jar[b].family].jti = jar[b].jti
      /\ families[jar[b].family].revoked # "theft_suspected"

(* A refresh that begins while the account is suspended or deleted renews  *)
(* nothing as long as it stays so, though a link or a login that was under *)
(* way may still open a family, and nothing revokes those of a suspended   *)
(* account (auth.ts: the status check).                                    *)
LateNeverRenews == \A i \in DOMAIN reqs : reqs[i].late => reqs[i].pc # "grant"

(* A sign-up link signs in once, however many verifications of it overlap  *)
(* and whichever query fails (auth.ts: the insert precedes markUsed).      *)
SignupLinkSignsInOnce ==
  \A f, g \in DOMAIN families :
    f # g /\ families[f].link = families[g].link /\ families[f].link # 0
      => ~links[families[f].link].signup

(* The calls of a tab share one refresh: it has one at most that it still  *)
(* listens to, `refreshing` is set exactly as long as that one is under    *)
(* way, and nobody waits otherwise. So an expiry after a refresh that      *)
(* settled, failed or broke asks anew (refreshOnce: the finally).          *)
RefreshIsShared ==
  /\ \A i, j \in DOMAIN reqs :
       reqs[i].heard /\ reqs[j].heard /\ reqs[i].tab = reqs[j].tab => i = j
  /\ \A t \in Tabs : tabs[t].refreshing <=> Pending(t)
  /\ \A t \in Tabs : tabs[t].waiting > 0 => tabs[t].refreshing

(* Every API call returns, refused or not, whatever breaks (apiFetch: the  *)
(* refresh itself is never refreshed).                                     *)
EveryCallReturns == []<>(\A t \in Tabs : tabs[t].asked = 0 /\ tabs[t].waiting = 0)
===========================================================================
