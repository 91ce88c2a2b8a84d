-------------------------------- MODULE Hitl --------------------------------
(***************************************************************************)
(* The human-in-the-loop manager (tools/hitl-manager.ts) of several server *)
(* instances over one Redis.  A tool calls askApproval on one instance and *)
(* waits; the decision is posted over HTTP to any instance.                *)
(*                                                                         *)
(* A command of the bus is two events, its effect in Redis and its reply.  *)
(* They are one step here wherever nothing of the same instance can come   *)
(* between them and matter; the shared write of askApproval keeps both.    *)
(* Commands of one instance share a connection and take effect in the      *)
(* order they were issued (guards Drained and MarkedFirst).                *)
(***************************************************************************)
EXTENDS Naturals, Sequences, RuntimeBusOps

CONSTANTS
  Instances,   \* server processes; a restarted one is a fresh member
  Requests,    \* (sessionId, toolCallId) pairs, one askApproval each
  Responders,  \* POST /sessions/:id/hitl calls, one decision each
  MaxFaults,   \* bound on crashes, failed commands and lost messages
  None         \* no instance, no request, no decision

ASSUME NoneAssumption == None \notin Instances \cup Requests
ASSUME MaxFaultsAssumption == MaxFaults \in Nat

VARIABLES
  owner,     \* owner[r]: the instance that runs the askApproval of r
  stage,     \* stage[r]: how far its shared write (sharedWrite) is
  outcome,   \* outcome[r]: "waiting" while the local pending map holds it
  manager,   \* manager[i]: the instance and its decision subscription
  known,     \* known[i]: the resolvedKeys set of instance i
  inbox,     \* inbox[i]: published decisions on their way to instance i
  keys,      \* requests whose shared pending key exists in Redis
  markers,   \* requests whose resolved marker exists in Redis
  forgotten, \* requests whose chained del has completed
  pc,        \* pc[p]: where the resolveHitl call of responder p is
  req, dec, at,  \* its request, its decision and the instance serving it
  lost,      \* history: requests a dropped pub/sub message was about
  faults     \* number of faults so far

askVars == <<owner, stage, outcome>>
busVars == <<keys, markers, inbox>>
answerVars == <<pc, req, dec, at>>
vars == <<owner, stage, outcome, manager, known, inbox, keys, markers,
          forgotten, pc, req, dec, at, lost, faults>>

Decisions == {"approved", "denied"}
Stages == {"idle", "subscribing", "writing", "acked", "done", "skipped", "failed"}
Settled == Decisions \cup {"timeout", "aborted", "crashed"}
Replies == {"resolved", "gone", "not_found", "error"}
InProgress == {"marking", "checking", "claiming", "publishing", "deleting"}
Messages == Requests \X Decisions

TypeOK ==
  /\ owner \in [Requests -> Instances \cup {None}]
  /\ stage \in [Requests -> Stages]
  /\ outcome \in [Requests -> {"none", "waiting"} \cup Settled]
  /\ manager \in [Instances -> {"fresh", "subscribing", "ready", "deaf", "dead"}]
  /\ known \in [Instances -> SUBSET Requests]
  /\ inbox \in [Instances -> Seq(Messages)]
  /\ keys \subseteq Requests
  /\ markers \subseteq Requests
  /\ forgotten \subseteq Requests
  /\ pc \in [Responders -> {"idle"} \cup InProgress \cup Replies]
  /\ req \in [Responders -> Requests \cup {None}]
  /\ dec \in [Responders -> Decisions \cup {None}]
  /\ at \in [Responders -> Instances \cup {None}]
  /\ \A p \in Responders : pc[p] # "idle" =>
       req[p] \in Requests /\ dec[p] \in Decisions /\ at[p] \in Instances
  /\ lost \subseteq Requests
  /\ faults \in Nat

Init ==
  /\ owner = [r \in Requests |-> None]
  /\ stage = [r \in Requests |-> "idle"]
  /\ outcome = [r \in Requests |-> "none"]
  /\ manager = [i \in Instances |-> "fresh"]
  /\ known = [i \in Instances |-> {}]
  /\ inbox = [i \in Instances |-> <<>>]
  /\ keys = {}
  /\ markers = {}
  /\ forgotten = {}
  /\ pc = [p \in Responders |-> "idle"]
  /\ req = [p \in Responders |-> None]
  /\ dec = [p \in Responders |-> None]
  /\ at = [p \in Responders |-> None]
  /\ lost = {}
  /\ faults = 0

-----------------------------------------------------------------------------
(* askApproval *)

\* The local pending map of instance i.
Pending(i) == {r \in Requests : owner[r] = i /\ outcome[r] = "waiting"}

\* The shared write after the subscription is there: skipped once settled.
AfterSubscribe(settled) == IF settled THEN "skipped" ELSE "writing"

\* askApproval registers the entry and its timer before it yields; the signal
\* may already be aborted.  The first call of an instance subscribes it, later
\* ones share that promise, a rejected one included.
Ask(r, i, aborted) ==
  /\ stage[r] = "idle"
  /\ manager[i] # "dead"
  /\ owner' = [owner EXCEPT ![r] = i]
  /\ outcome' = [outcome EXCEPT ![r] = IF aborted THEN "aborted" ELSE "waiting"]
  /\ manager' = [manager EXCEPT ![i] = IF @ = "fresh" THEN "subscribing" ELSE @]
  /\ stage' = [stage EXCEPT ![r] =
       CASE manager[i] \in {"fresh", "subscribing"} -> "subscribing"
         [] manager[i] = "ready" -> AfterSubscribe(aborted)
         [] OTHER -> "failed"]
  /\ UNCHANGED <<known, busVars, forgotten, answerVars, lost, faults>>

\* SUBSCRIBE was acknowledged: the handler is in place and every call that
\* awaited it goes on in the same turn of the event loop.
Subscribed(i) ==
  /\ manager[i] = "subscribing"
  /\ manager' = [manager EXCEPT ![i] = "ready"]
  /\ stage' = [r \in Requests |->
       IF owner[r] = i /\ stage[r] = "subscribing"
         THEN AfterSubscribe(outcome[r] # "waiting")
         ELSE stage[r]]
  /\ UNCHANGED <<owner, outcome, known, busVars, forgotten, answerVars, lost, faults>>

\* SET of the pending key takes effect, then its reply is handled.
WriteKey(r) ==
  /\ stage[r] = "writing"
  /\ manager[owner[r]] # "dead"
  /\ stage' = [stage EXCEPT ![r] = "acked"]
  /\ keys' = keys \cup {r}
  /\ UNCHANGED <<owner, outcome, manager, known, markers, inbox, forgotten,
                 answerVars, lost, faults>>

WriteReply(r) ==
  /\ stage[r] = "acked"
  /\ manager[owner[r]] # "dead"
  /\ stage' = [stage EXCEPT ![r] = "done"]
  /\ UNCHANGED <<owner, outcome, manager, known, busVars, forgotten,
                 answerVars, lost, faults>>

\* Faulty: the call awaits something between settling and its marker SET.
MarkedLater(r) == r \in Requests

\* A marker SET issued by the owner was issued before its DEL of the key.
MarkedFirst(r) ==
  \A p \in Responders : ~(req[p] = r /\ pc[p] = "marking")

\* forgetShared: the DEL chained behind the shared write and the settling.
Forget(r) ==
  /\ stage[r] = "done"
  /\ outcome[r] \in Settled
  /\ manager[owner[r]] # "dead"
  /\ r \notin forgotten
  /\ MarkedFirst(r)
  /\ keys' = keys \ {r}
  /\ forgotten' = forgotten \cup {r}
  /\ UNCHANGED <<askVars, manager, known, markers, inbox, answerVars, lost, faults>>

\* The timer fires, or the run's AbortSignal does (onAbort).
GiveUp(r, how) ==
  /\ outcome[r] = "waiting"
  /\ outcome' = [outcome EXCEPT ![r] = how]
  /\ UNCHANGED <<owner, stage, manager, known, busVars, forgotten, answerVars,
                 lost, faults>>

Timeout(r) == GiveUp(r, "timeout")
Abort(r) == GiveUp(r, "aborted")

\* Redis drops the key at its TTL.  The TTL is the timeout, rounded up and
\* started after the timer, so it outlasts a live wait and the commands in
\* flight; what is left then is a key nobody deletes any more.
ExpireKey(r) ==
  /\ r \in keys
  /\ outcome[r] \in Settled
  /\ \/ outcome[r] = "timeout"
     \/ manager[owner[r]] = "dead"
     \/ stage[r] = "failed"
     \/ r \in forgotten
  /\ keys' = keys \ {r}
  /\ UNCHANGED <<askVars, manager, known, markers, inbox, forgotten, answerVars,
                 lost, faults>>

-----------------------------------------------------------------------------
(* resolveHitl *)

\* Faulty: the body is not looked at, and may hold no decision.
PostUnchecked(p, r, i, d) ==
  /\ pc[p] = "idle"
  /\ manager[i] # "dead"
  /\ req' = [req EXCEPT ![p] = r]
  /\ dec' = [dec EXCEPT ![p] = None]
  /\ at' = [at EXCEPT ![p] = i]

Post(p, r, i, d) ==
  /\ pc[p] = "idle"
  /\ manager[i] # "dead"
  /\ req' = [req EXCEPT ![p] = r]
  /\ dec' = [dec EXCEPT ![p] = d]
  /\ at' = [at EXCEPT ![p] = i]

\* The instance owns the entry: settle it here, then write the marker.
AnswerLocal(p, r, i, d) ==
  /\ Post(p, r, i, d)
  /\ r \in Pending(i)
  /\ outcome' = [outcome EXCEPT ![r] = d]
  /\ known' = [known EXCEPT ![i] = @ \cup {r}]
  /\ pc' = [pc EXCEPT ![p] = "marking"]
  /\ UNCHANGED <<owner, stage, manager, busVars, forgotten, lost, faults>>

\* A GET on the owner's connection comes after the SET it issued and, once the
\* write was acknowledged and the wait settled, after the DEL.
Drained(i, r) ==
  owner[r] = i => stage[r] # "writing" /\ (stage[r] = "done" => r \in forgotten)

\* No local entry, but the shared key is there: claim the answer.
AnswerRemote(p, r, i, d) ==
  /\ Post(p, r, i, d)
  /\ r \notin Pending(i)
  /\ Drained(i, r)
  /\ r \in keys
  /\ known' = [known EXCEPT ![i] = @ \cup {r}]
  /\ pc' = [pc EXCEPT ![p] = "claiming"]
  /\ UNCHANGED <<askVars, manager, busVars, forgotten, lost, faults>>

AnswerMiss(p, r, i, d) ==
  /\ Post(p, r, i, d)
  /\ r \notin Pending(i)
  /\ Drained(i, r)
  /\ r \notin keys
  /\ pc' = [pc EXCEPT ![p] = IF r \in known[i] THEN "gone" ELSE "checking"]
  /\ UNCHANGED <<askVars, manager, known, busVars, forgotten, lost, faults>>

CheckMarker(p) ==
  /\ pc[p] = "checking"
  /\ pc' = [pc EXCEPT ![p] = IF req[p] \in markers THEN "gone" ELSE "not_found"]
  /\ UNCHANGED <<askVars, manager, known, busVars, forgotten, req, dec, at, lost, faults>>

\* SET of the resolved marker, on the local path (then the call returns) and
\* on the remote one (then it publishes).
WriteMarker(p, from, to) ==
  /\ pc[p] = from
  /\ markers' = markers \cup {req[p]}
  /\ pc' = [pc EXCEPT ![p] = to]
  /\ UNCHANGED <<askVars, manager, known, keys, inbox, forgotten, req, dec, at,
                 lost, faults>>

MarkLocal(p) == WriteMarker(p, "marking", "resolved")
\* Faulty: the remote path marks and deletes without telling the owner.
MarkSilently(p) == WriteMarker(p, "claiming", "deleting")

MarkRemote(p) == WriteMarker(p, "claiming", "publishing")

\* Faulty: the published payload drops the decision, read as "approved".
PublishApproval(p) ==
  /\ pc[p] = "publishing"
  /\ inbox' = FanOut(inbox, {i \in Instances : manager[i] = "ready"},
                     <<req[p], "approved">>)
  /\ pc' = [pc EXCEPT ![p] = "deleting"]
  /\ UNCHANGED <<askVars, manager, known, keys, markers, forgotten, req, dec, at,
                 lost, faults>>

Publish(p) ==
  /\ pc[p] = "publishing"
  /\ inbox' = FanOut(inbox, {i \in Instances : manager[i] = "ready"},
                     <<req[p], dec[p]>>)
  /\ pc' = [pc EXCEPT ![p] = "deleting"]
  /\ UNCHANGED <<askVars, manager, known, keys, markers, forgotten, req, dec, at,
                 lost, faults>>

DeleteRemote(p) ==
  /\ pc[p] = "deleting"
  /\ keys' = keys \ {req[p]}
  /\ pc' = [pc EXCEPT ![p] = "resolved"]
  /\ UNCHANGED <<askVars, manager, known, markers, inbox, forgotten, req, dec, at,
                 lost, faults>>

\* The subscription handler: only the instance that holds the entry acts.
Deliver(i) ==
  /\ inbox[i] # <<>>
  /\ LET r == Head(inbox[i])[1]
         d == Head(inbox[i])[2]
     IN IF r \in Pending(i)
          THEN /\ outcome' = [outcome EXCEPT ![r] = d]
               /\ known' = [known EXCEPT ![i] = @ \cup {r}]
          ELSE UNCHANGED <<outcome, known>>
  /\ inbox' = TakeFirst(inbox, i)
  /\ UNCHANGED <<owner, stage, manager, keys, markers, forgotten, answerVars,
                 lost, faults>>

-----------------------------------------------------------------------------
(* faults *)

Fault == faults < MaxFaults /\ faults' = faults + 1

\* The promise of askApproval has settled, whatever it settled with.
Returned(r) ==
  \/ stage[r] = "failed"
  \/ stage[r] \in {"done", "skipped"} /\ outcome[r] \in Settled

\* The process dies: its waits, its calls and its subscription are gone.
Crash(i) ==
  /\ Fault
  /\ manager[i] # "dead"
  /\ manager' = [manager EXCEPT ![i] = "dead"]
  /\ outcome' = [r \in Requests |->
       IF owner[r] = i /\ (~Returned(r) \/ outcome[r] = "waiting")
         THEN "crashed" ELSE outcome[r]]
  /\ known' = [known EXCEPT ![i] = {}]
  /\ inbox' = [inbox EXCEPT ![i] = <<>>]
  /\ pc' = [p \in Responders |->
       IF at[p] = i /\ pc[p] \in InProgress THEN "error" ELSE pc[p]]
  /\ UNCHANGED <<owner, stage, keys, markers, forgotten, req, dec, at, lost>>

\* Faulty: the calls that await the subscription do not see it rejected.
SubscribeFailsSilently(i) ==
  /\ Fault
  /\ manager[i] = "subscribing"
  /\ manager' = [manager EXCEPT ![i] = "deaf"]
  /\ UNCHANGED <<askVars, known, busVars, forgotten, answerVars, lost>>

\* SUBSCRIBE is rejected; the rejected promise stays in `subscribing`.
SubscribeFails(i) ==
  /\ Fault
  /\ manager[i] = "subscribing"
  /\ manager' = [manager EXCEPT ![i] = "deaf"]
  /\ stage' = [r \in Requests |->
       IF owner[r] = i /\ stage[r] = "subscribing" THEN "failed" ELSE stage[r]]
  /\ UNCHANGED <<owner, outcome, known, busVars, forgotten, answerVars, lost>>

\* SET is rejected, with or without an effect: askApproval rejects, the entry
\* and its timer stay, and the chained DEL is skipped.
WriteFails(r) ==
  /\ Fault
  /\ stage[r] \in {"writing", "acked"}
  /\ manager[owner[r]] # "dead"
  /\ stage' = [stage EXCEPT ![r] = "failed"]
  /\ UNCHANGED <<owner, outcome, manager, known, busVars, forgotten, answerVars, lost>>

\* The chained DEL is rejected and the error swallowed.
ForgetFails(r) ==
  /\ Fault
  /\ stage[r] = "done"
  /\ outcome[r] \in Settled
  /\ manager[owner[r]] # "dead"
  /\ r \notin forgotten
  /\ MarkedFirst(r)
  /\ forgotten' = forgotten \cup {r}
  /\ UNCHANGED <<askVars, manager, known, busVars, answerVars, lost>>

\* A command of resolveHitl is rejected: the HTTP call fails.
AnswerFails(p) ==
  /\ Fault
  /\ pc[p] \in InProgress
  /\ pc' = [pc EXCEPT ![p] = "error"]
  /\ UNCHANGED <<askVars, manager, known, busVars, forgotten, req, dec, at, lost>>

\* The subscriber connection reconnects: Redis does not resend.
DropMessages(i) ==
  /\ Fault
  /\ inbox[i] # <<>>
  /\ inbox' = [inbox EXCEPT ![i] = <<>>]
  /\ lost' = lost \cup {m[1] : m \in Carried(inbox[i])}
  /\ UNCHANGED <<askVars, manager, known, keys, markers, forgotten, answerVars>>

-----------------------------------------------------------------------------
AskStep(r) ==
  \/ \E i \in Instances, aborted \in BOOLEAN : Ask(r, i, aborted)
  \/ WriteKey(r)
  \/ WriteReply(r)
  \/ Forget(r)
  \/ Timeout(r)
  \/ Abort(r)
  \/ ExpireKey(r)

AnswerStep(p) ==
  \/ \E r \in Requests, i \in Instances, d \in Decisions :
       \/ AnswerLocal(p, r, i, d)
       \/ AnswerRemote(p, r, i, d)
       \/ AnswerMiss(p, r, i, d)
  \/ CheckMarker(p)
  \/ MarkLocal(p)
  \/ MarkRemote(p)
  \/ Publish(p)
  \/ DeleteRemote(p)

FaultStep ==
  \/ \E i \in Instances : Crash(i) \/ SubscribeFails(i) \/ DropMessages(i)
  \/ \E r \in Requests : WriteFails(r) \/ ForgetFails(r)
  \/ \E p \in Responders : AnswerFails(p)

Next ==
  \/ \E r \in Requests : AskStep(r)
  \/ \E p \in Responders : AnswerStep(p)
  \/ \E i \in Instances : Subscribed(i) \/ Deliver(i)
  \/ FaultStep

Spec == Init /\ [][Next]_vars

\* A command of the bus is answered, a timer fires, a message is handled and a
\* TTL runs out in the end; nobody need ask, answer, stop or fail.
Fairness ==
  /\ \A r \in Requests :
       /\ WF_vars(WriteKey(r))
       /\ WF_vars(WriteReply(r))
       /\ WF_vars(Forget(r))
       /\ WF_vars(Timeout(r))
       /\ WF_vars(ExpireKey(r))
  /\ \A p \in Responders :
       /\ WF_vars(CheckMarker(p))
       /\ WF_vars(MarkLocal(p))
       /\ WF_vars(MarkRemote(p))
       /\ WF_vars(Publish(p))
       /\ WF_vars(DeleteRemote(p))
  /\ \A i \in Instances : WF_vars(Subscribed(i)) /\ WF_vars(Deliver(i))

FairSpec == Spec /\ Fairness

-----------------------------------------------------------------------------
(* properties *)

\* listPendingHitl on instance i: the local entries and the shared keys.
ListPending(i) == Pending(i) \cup keys

\* A decision about r is published and has not reached its owner yet.
InFlight(r) == \E d \in Decisions : <<r, d>> \in Carried(inbox[owner[r]])

\* Once askApproval has shared a request that still waits, every instance can
\* list it and so answer it, unless a decision is already on its way to the
\* owner, or one was dropped by pub/sub.
WaitingIsReachable ==
  \A r \in Requests :
    /\ outcome[r] = "waiting"
    /\ stage[r] \in {"acked", "done"}
    => r \in keys \/ InFlight(r) \/ r \in lost

\* An answered request leaves a trace in Redis: until the resolved marker is
\* written the pending key stays, so that a second answer, on any instance, is
\* never told "not found" for a request that was answered.  The exceptions are
\* the death of the owner and an answer on the owner that ended with an error,
\* the one that was taken or another (both write the marker).
AnsweredLeavesTrace ==
  \A r \in Requests :
    /\ outcome[r] \in Decisions
    /\ stage[r] \in {"acked", "done"}
    /\ manager[owner[r]] # "dead"
    => \/ r \in keys \cup markers
       \/ \E p \in Responders : req[p] = r /\ at[p] = owner[r] /\ pc[p] = "error"

\* An answer is refused as "gone" only because another answer took its place:
\* a request that timed out or was aborted alone is "not found".
GoneMeansAnswered ==
  \A p \in Responders : pc[p] = "gone" =>
    \E q \in Responders :
      /\ q # p
      /\ req[q] = req[p]
      /\ pc[q] \in {"marking", "claiming", "publishing", "deleting", "resolved", "error"}

\* The chained del is the last word on the shared key: a settled request whose
\* clean-up is done does not come back to any instance's list.
ForgottenStaysGone ==
  [][\A r \in Requests : r \in forgotten /\ r \notin keys => r \notin keys']_vars

\* What the caller of askApproval sees.
Verdict(r) ==
  CASE stage[r] = "idle" -> "none"
    [] stage[r] = "failed" -> "error"
    [] stage[r] \notin {"idle", "failed"} /\ outcome[r] = "crashed" -> "lost"
    [] stage[r] \in {"done", "skipped"} /\ outcome[r] \in Settled \ {"crashed"} -> outcome[r]
    [] OTHER -> "open"

Offered == {<<req[p], dec[p]>> : p \in {q \in Responders : pc[q] # "idle"}}

Promise == INSTANCE Approval WITH
  verdict <- [r \in Requests |-> Verdict(r)],
  offered <- Offered

\* The manager keeps the promise of module Approval.
KeepsPromise == Promise!Spec

\* Every askApproval ends, for the timer backs every other way to end; and no
\* shared key outlives its request for ever, whoever dies.
AsksEndAndKeysDrain ==
  \A r \in Requests :
    /\ (stage[r] # "idle") ~> (Returned(r) \/ outcome[r] = "crashed")
    /\ (r \in keys) ~> (r \notin keys)

-----------------------------------------------------------------------------
(* the inductive invariant behind the safety properties *)

Claimed(q, r) ==
  /\ req[q] = r
  /\ pc[q] \in {"marking", "claiming", "publishing", "deleting", "resolved", "error"}

\* A request, its owner's subscription and its shared key go together.
BookInv ==
  \A r \in Requests :
    /\ (stage[r] = "idle") <=> (owner[r] = None)
    /\ (stage[r] = "idle") <=> (outcome[r] = "none")
    /\ stage[r] = "subscribing" => manager[owner[r]] \in {"subscribing", "dead"}
    /\ stage[r] \in {"writing", "acked", "done"} => manager[owner[r]] \in {"ready", "dead"}
    /\ stage[r] = "skipped" => outcome[r] \in Settled
    /\ outcome[r] = "waiting" => manager[owner[r]] # "dead"
    /\ outcome[r] = "crashed" => manager[owner[r]] = "dead"
    /\ r \in keys => stage[r] \in {"acked", "done", "failed"}
    /\ r \in forgotten => stage[r] = "done" /\ outcome[r] \in Settled

\* What an answer in progress knows of its request.
AnswerInv ==
  \A p \in Responders :
    /\ pc[p] \in {"claiming", "publishing", "deleting"}
         => stage[req[p]] \in {"acked", "done", "failed"}
    /\ pc[p] \in {"publishing", "deleting"} => req[p] \in markers
    /\ pc[p] = "marking" => /\ at[p] = owner[req[p]]
                            /\ manager[at[p]] # "dead"
                            /\ outcome[req[p]] \in Decisions
                            /\ req[p] \notin forgotten

\* Every message, marker and resolvedKeys entry comes from a claimed answer.
ClaimInv ==
  /\ \A i \in Instances : \A m \in Carried(inbox[i]) : m[1] \in markers /\ m \in Offered
  /\ lost \subseteq markers
  /\ \A r \in markers : \E q \in Responders : Claimed(q, r)
  /\ \A i \in Instances : \A r \in known[i] : \E q \in Responders : Claimed(q, r)

\* A decision was offered by somebody.
OfferInv ==
  \A r \in Requests : outcome[r] \in Decisions => <<r, outcome[r]>> \in Offered

\* A waiting request whose shared key a responder is about to delete has its
\* decision on the way.
ReachInv ==
  /\ WaitingIsReachable
  /\ \A p \in Responders :
       /\ pc[p] = "deleting"
       /\ outcome[req[p]] = "waiting"
       /\ stage[req[p]] \in {"acked", "done"}
       => InFlight(req[p]) \/ req[p] \in lost

\* The marker of a decided request is there, on its way, or its write failed.
TraceInv ==
  /\ \A r \in Requests :
       /\ outcome[r] \in Decisions
       /\ manager[owner[r]] # "dead"
       => \/ r \in markers
          \/ \E p \in Responders :
               req[p] = r /\ at[p] = owner[r] /\ pc[p] \in {"marking", "error"}
  /\ \A p \in Responders :
       pc[p] = "marking" /\ stage[req[p]] \in {"acked", "done"}
         => req[p] \in keys \cup markers

IInv ==
  /\ TypeOK /\ BookInv /\ AnswerInv /\ ClaimInv /\ OfferInv
  /\ ReachInv /\ TraceInv /\ GoneMeansAnswered

=============================================================================
