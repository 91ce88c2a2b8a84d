----------------------------- MODULE HitlProofs -----------------------------
(***************************************************************************)
(* Machine-checked proofs about module Hitl, for any number of instances,  *)
(* requests, answers and faults.                                           *)
(***************************************************************************)
EXTENDS Hitl, TLAPS

-----------------------------------------------------------------------------
(* what the operators of RuntimeBusOps do to the contents of the inboxes *)

\* Publishing adds exactly the message to what a subscriber's inbox carries.
LEMMA CarriedAppend ==
  ASSUME NEW S, NEW q \in Seq(S), NEW m \in S
  PROVE  /\ Append(q, m) \in Seq(S)
         /\ Carried(Append(q, m)) = Carried(q) \cup {m}
<1>1. Append(q, m) \in Seq(S) /\ Len(Append(q, m)) = Len(q) + 1
  OBVIOUS
<1>2. DOMAIN q = 1..Len(q) /\ DOMAIN Append(q, m) = 1..(Len(q) + 1) /\ Len(q) \in Nat
  BY <1>1
<1>3. \A k \in 1..Len(q) : Append(q, m)[k] = q[k]
  OBVIOUS
<1>4. Append(q, m)[Len(q) + 1] = m
  OBVIOUS
<1>5. Carried(Append(q, m)) \subseteq Carried(q) \cup {m}
  BY <1>2, <1>3, <1>4 DEF Carried
<1>6. Carried(q) \subseteq Carried(Append(q, m))
  <2>1. ASSUME NEW k \in DOMAIN q PROVE q[k] \in Carried(Append(q, m))
    <3>1. k \in DOMAIN Append(q, m) /\ Append(q, m)[k] = q[k]
      BY <1>2, <1>3
    <3>2. QED BY <3>1, Zenon DEF Carried
  <2>2. QED BY <2>1 DEF Carried
<1>7. m \in Carried(Append(q, m))
  <2>1. Len(q) + 1 \in DOMAIN Append(q, m)
    BY <1>2
  <2>2. QED BY <2>1, <1>4, Zenon DEF Carried
<1>8. QED BY <1>1, <1>5, <1>6, <1>7

\* Handling the first message removes at most that message.
LEMMA CarriedTail ==
  ASSUME NEW S, NEW q \in Seq(S), q # <<>>
  PROVE  /\ Tail(q) \in Seq(S)
         /\ Head(q) \in S
         /\ Head(q) \in Carried(q)
         /\ Carried(Tail(q)) \subseteq Carried(q)
         /\ Carried(q) \subseteq Carried(Tail(q)) \cup {Head(q)}
<1>1. Len(q) \in Nat \ {0} /\ DOMAIN q = 1..Len(q)
  OBVIOUS
<1>2. Tail(q) \in Seq(S) /\ Len(Tail(q)) = Len(q) - 1 /\ Head(q) = q[1] /\ Head(q) \in S
  OBVIOUS
<1>3. DOMAIN Tail(q) = 1..(Len(q) - 1)
  BY <1>2, <1>1
<1>4. \A k \in 1..(Len(q) - 1) : Tail(q)[k] = q[k + 1] /\ k + 1 \in DOMAIN q
  BY <1>1
<1>5. Head(q) \in Carried(q)
  <2>1. 1 \in DOMAIN q BY <1>1
  <2>2. QED BY <2>1, <1>2, Zenon DEF Carried
<1>6. Carried(Tail(q)) \subseteq Carried(q)
  BY <1>3, <1>4 DEF Carried
<1>7. Carried(q) \subseteq Carried(Tail(q)) \cup {Head(q)}
  <2>1. ASSUME NEW k \in DOMAIN q, k # 1 PROVE q[k] \in Carried(Tail(q))
    <3>1. k - 1 \in DOMAIN Tail(q) /\ Tail(q)[k - 1] = q[k]
      BY <1>1, <1>3, <1>4, <2>1
    <3>2. QED BY <3>1, Zenon DEF Carried
  <2>2. QED BY <2>1, <1>2 DEF Carried
<1>8. QED BY <1>2, <1>5, <1>6, <1>7

\* An empty inbox carries nothing.
LEMMA CarriedEmpty == Carried(<<>>) = {}
  BY DEF Carried

\* What publish does to the inbox of each instance.
LEMMA FanOutFacts ==
  ASSUME NEW I, NEW M, NEW box \in [I -> Seq(M)], NEW subs, NEW m \in M
  PROVE  /\ FanOut(box, subs, m) \in [I -> Seq(M)]
         /\ \A i \in I : Carried(box[i]) \subseteq Carried(FanOut(box, subs, m)[i])
         /\ \A i \in I :
              Carried(FanOut(box, subs, m)[i]) \subseteq Carried(box[i]) \cup {m}
         /\ \A i \in I : i \in subs => m \in Carried(FanOut(box, subs, m)[i])
<1>1. DOMAIN box = I
  OBVIOUS
<1>2. \A i \in I :
        FanOut(box, subs, m)[i] = IF i \in subs THEN Append(box[i], m) ELSE box[i]
  BY <1>1 DEF FanOut
<1>3. \A i \in I :
        /\ Append(box[i], m) \in Seq(M)
        /\ Carried(Append(box[i], m)) = Carried(box[i]) \cup {m}
  BY CarriedAppend
<1>4. FanOut(box, subs, m) \in [I -> Seq(M)]
  BY <1>1, <1>3 DEF FanOut
<1>5. QED
  BY <1>2, <1>3, <1>4

\* What handling one message does to them.
LEMMA TakeFirstFacts ==
  ASSUME NEW I, NEW M, NEW box \in [I -> Seq(M)], NEW i \in I, box[i] # <<>>
  PROVE  /\ TakeFirst(box, i) \in [I -> Seq(M)]
         /\ Head(box[i]) \in M
         /\ Head(box[i]) \in Carried(box[i])
         /\ \A j \in I : Carried(TakeFirst(box, i)[j]) \subseteq Carried(box[j])
         /\ \A j \in I : j # i => TakeFirst(box, i)[j] = box[j]
         /\ Carried(box[i]) \subseteq Carried(TakeFirst(box, i)[i]) \cup {Head(box[i])}
<1>1. /\ Tail(box[i]) \in Seq(M)
      /\ Head(box[i]) \in M
      /\ Head(box[i]) \in Carried(box[i])
      /\ Carried(Tail(box[i])) \subseteq Carried(box[i])
      /\ Carried(box[i]) \subseteq Carried(Tail(box[i])) \cup {Head(box[i])}
  BY CarriedTail
<1>2. \A j \in I : TakeFirst(box, i)[j] = IF j = i THEN Tail(box[i]) ELSE box[j]
  BY DEF TakeFirst
<1>3. TakeFirst(box, i) \in [I -> Seq(M)]
  BY <1>1 DEF TakeFirst
<1>4. QED
  BY <1>1, <1>2, <1>3

-----------------------------------------------------------------------------
(* the handling of a message *)

\* The handling of decision d about r, in terms of what the inboxes carry.
Delivered(i, r, d) ==
  /\ <<r, d>> \in Carried(inbox[i])
  /\ \/ /\ r \in Pending(i)
        /\ outcome' = [outcome EXCEPT ![r] = d]
        /\ known' = [known EXCEPT ![i] = @ \cup {r}]
     \/ /\ r \notin Pending(i)
        /\ UNCHANGED <<outcome, known>>
  /\ inbox' \in [Instances -> Seq(Messages)]
  /\ \A j \in Instances : Carried(inbox'[j]) \subseteq Carried(inbox[j])
  /\ \A j \in Instances : j # i => inbox'[j] = inbox[j]
  /\ Carried(inbox[i]) \subseteq Carried(inbox'[i]) \cup {<<r, d>>}
  /\ UNCHANGED <<owner, stage, manager, keys, markers, forgotten,
                 pc, req, dec, at, lost, faults>>

\* Deliver takes the first message and settles with it at most that request.
LEMMA DeliverFacts ==
  ASSUME TypeOK, NEW i \in Instances, Deliver(i)
  PROVE  \E r \in Requests, d \in Decisions : Delivered(i, r, d)
<1> DEFINE r == Head(inbox[i])[1]
           d == Head(inbox[i])[2]
<1>1. inbox \in [Instances -> Seq(Messages)] /\ inbox[i] # <<>>
  BY DEF TypeOK, Deliver
<1>2. inbox' = TakeFirst(inbox, i)
  BY DEF Deliver
<1>3. /\ inbox' \in [Instances -> Seq(Messages)]
      /\ Head(inbox[i]) \in Messages
      /\ Head(inbox[i]) \in Carried(inbox[i])
      /\ \A j \in Instances : Carried(inbox'[j]) \subseteq Carried(inbox[j])
      /\ \A j \in Instances : j # i => inbox'[j] = inbox[j]
      /\ Carried(inbox[i]) \subseteq Carried(inbox'[i]) \cup {Head(inbox[i])}
  <2>1. /\ TakeFirst(inbox, i) \in [Instances -> Seq(Messages)]
        /\ Head(inbox[i]) \in Messages
        /\ Head(inbox[i]) \in Carried(inbox[i])
        /\ \A j \in Instances : Carried(TakeFirst(inbox, i)[j]) \subseteq Carried(inbox[j])
        /\ \A j \in Instances : j # i => TakeFirst(inbox, i)[j] = inbox[j]
        /\ Carried(inbox[i]) \subseteq Carried(TakeFirst(inbox, i)[i]) \cup {Head(inbox[i])}
    BY ONLY <1>1, i \in Instances, TakeFirstFacts
  <2>2. QED
    BY ONLY <1>2, <2>1
<1>4. r \in Requests /\ d \in Decisions /\ Head(inbox[i]) = <<r, d>>
  BY <1>3 DEF Messages
<1>5. \/ /\ r \in Pending(i)
         /\ outcome' = [outcome EXCEPT ![r] = d]
         /\ known' = [known EXCEPT ![i] = @ \cup {r}]
      \/ /\ r \notin Pending(i)
         /\ UNCHANGED <<outcome, known>>
  BY DEF Deliver
<1>6. UNCHANGED <<owner, stage, manager, keys, markers, forgotten,
                  pc, req, dec, at, lost, faults>>
  BY DEF Deliver, answerVars
<1> HIDE DEF r, d
<1>7. QED
  BY <1>3, <1>4, <1>5, <1>6 DEF Delivered

-----------------------------------------------------------------------------
(* types *)

\* Every step keeps the types.
LEMMA TypeNext ==
  TypeOK /\ [Next]_vars => TypeOK'
<1> SUFFICES ASSUME TypeOK, [Next]_vars PROVE TypeOK'
  OBVIOUS
<1> USE DEF TypeOK, Stages, Settled, Decisions, Replies, InProgress
<1>Ask. ASSUME NEW r \in Requests, NEW i \in Instances, NEW a \in BOOLEAN, Ask(r, i, a) PROVE TypeOK'
  BY <1>Ask DEF Ask, AfterSubscribe, askVars, busVars, answerVars
<1>WriteKey. ASSUME NEW r \in Requests, WriteKey(r) PROVE TypeOK'
  BY <1>WriteKey DEF WriteKey, askVars, busVars, answerVars
<1>WriteReply. ASSUME NEW r \in Requests, WriteReply(r) PROVE TypeOK'
  BY <1>WriteReply DEF WriteReply, askVars, busVars, answerVars
<1>Forget. ASSUME NEW r \in Requests, Forget(r) PROVE TypeOK'
  BY <1>Forget DEF Forget, MarkedFirst, askVars, busVars, answerVars
<1>Timeout. ASSUME NEW r \in Requests, Timeout(r) PROVE TypeOK'
  BY <1>Timeout DEF Timeout, GiveUp, askVars, busVars, answerVars
<1>Abort. ASSUME NEW r \in Requests, Abort(r) PROVE TypeOK'
  BY <1>Abort DEF Abort, GiveUp, askVars, busVars, answerVars
<1>ExpireKey. ASSUME NEW r \in Requests, ExpireKey(r) PROVE TypeOK'
  BY <1>ExpireKey DEF ExpireKey, askVars, busVars, answerVars
<1>AnswerLocal. ASSUME NEW p \in Responders, NEW r \in Requests, NEW i \in Instances, NEW d \in Decisions, AnswerLocal(p, r, i, d) PROVE TypeOK'
  BY <1>AnswerLocal DEF AnswerLocal, Post, Pending, askVars, busVars, answerVars
<1>AnswerRemote. ASSUME NEW p \in Responders, NEW r \in Requests, NEW i \in Instances, NEW d \in Decisions, AnswerRemote(p, r, i, d) PROVE TypeOK'
  BY <1>AnswerRemote DEF AnswerRemote, Post, Pending, askVars, busVars, answerVars
<1>AnswerMiss. ASSUME NEW p \in Responders, NEW r \in Requests, NEW i \in Instances, NEW d \in Decisions, AnswerMiss(p, r, i, d) PROVE TypeOK'
  BY <1>AnswerMiss DEF AnswerMiss, Post, Pending, askVars, busVars, answerVars
<1>CheckMarker. ASSUME NEW p \in Responders, CheckMarker(p) PROVE TypeOK'
  BY <1>CheckMarker DEF CheckMarker, askVars, busVars, answerVars
<1>MarkLocal. ASSUME NEW p \in Responders, MarkLocal(p) PROVE TypeOK'
  BY <1>MarkLocal DEF MarkLocal, WriteMarker, askVars, busVars, answerVars
<1>MarkRemote. ASSUME NEW p \in Responders, MarkRemote(p) PROVE TypeOK'
  BY <1>MarkRemote DEF MarkRemote, WriteMarker, askVars, busVars, answerVars
<1>Publish. ASSUME NEW p \in Responders, Publish(p) PROVE TypeOK'
  <2> DEFINE subs == {i \in Instances : manager[i] = "ready"}
             m0 == <<req[p], dec[p]>>
  <2>1. m0 \in Messages
    BY <1>Publish DEF Publish, Messages
  <2>2. inbox \in [Instances -> Seq(Messages)]
    OBVIOUS
  <2> HIDE DEF subs, m0
  <2>3. FanOut(inbox, subs, m0) \in [Instances -> Seq(Messages)]
    BY ONLY <2>1, <2>2, FanOutFacts
  <2>4. inbox' \in [Instances -> Seq(Messages)]
    BY <1>Publish, <2>3 DEF Publish, subs, m0
  <2>5. QED
    BY <1>Publish, <2>4 DEF Publish, askVars
<1>DeleteRemote. ASSUME NEW p \in Responders, DeleteRemote(p) PROVE TypeOK'
  BY <1>DeleteRemote DEF DeleteRemote, askVars, busVars, answerVars
<1>Subscribed. ASSUME NEW i \in Instances, Subscribed(i) PROVE TypeOK'
  BY <1>Subscribed DEF Subscribed, AfterSubscribe, askVars, busVars, answerVars
<1>Deliver. ASSUME NEW i \in Instances, Deliver(i) PROVE TypeOK'
  <2>1. PICK r \in Requests, d \in Decisions : Delivered(i, r, d)
    BY <1>Deliver, DeliverFacts
  <2>2. outcome' \in [Requests -> {"none", "waiting"} \cup Settled]
    BY <2>1 DEF Delivered
  <2>3. known' \in [Instances -> SUBSET Requests]
    <3>1. known' = [known EXCEPT ![i] = @ \cup {r}] \/ known' = known
      BY <2>1 DEF Delivered
    <3>2. known \in [Instances -> SUBSET Requests]
      OBVIOUS
    <3>3. QED
      BY ONLY <3>1, <3>2, r \in Requests
  <2>4. /\ inbox' \in [Instances -> Seq(Messages)]
        /\ UNCHANGED <<owner, stage, manager, keys, markers, forgotten,
                       pc, req, dec, at, lost, faults>>
    BY <2>1 DEF Delivered
  <2>5. QED
    BY <2>2, <2>3, <2>4
<1>Crash. ASSUME NEW i \in Instances, Crash(i) PROVE TypeOK'
  BY <1>Crash DEF Crash, Returned, askVars, busVars, answerVars, Fault
<1>SubscribeFails. ASSUME NEW i \in Instances, SubscribeFails(i) PROVE TypeOK'
  BY <1>SubscribeFails DEF SubscribeFails, askVars, busVars, answerVars, Fault
<1>DropMessages. ASSUME NEW i \in Instances, DropMessages(i) PROVE TypeOK'
  <2>1. \A m \in Carried(inbox[i]) : m[1] \in Requests
    BY DEF Carried, Messages
  <2>2. QED
    BY <1>DropMessages, <2>1 DEF DropMessages, Fault, askVars, answerVars
<1>WriteFails. ASSUME NEW r \in Requests, WriteFails(r) PROVE TypeOK'
  BY <1>WriteFails DEF WriteFails, askVars, busVars, answerVars, Fault
<1>ForgetFails. ASSUME NEW r \in Requests, ForgetFails(r) PROVE TypeOK'
  BY <1>ForgetFails DEF ForgetFails, MarkedFirst, askVars, busVars, answerVars, Fault
<1>AnswerFails. ASSUME NEW p \in Responders, AnswerFails(p) PROVE TypeOK'
  BY <1>AnswerFails DEF AnswerFails, askVars, busVars, answerVars, Fault
<1>Stutter. CASE UNCHANGED vars
  BY <1>Stutter DEF vars
<1> HIDE DEF TypeOK, Stages, Settled, Decisions, Replies, InProgress
<1>QED. QED
  BY <1>Ask, <1>WriteKey, <1>WriteReply, <1>Forget, <1>Timeout, <1>Abort,
     <1>ExpireKey, <1>AnswerLocal, <1>AnswerRemote, <1>AnswerMiss, <1>CheckMarker, <1>MarkLocal,
     <1>MarkRemote, <1>Publish, <1>DeleteRemote, <1>Subscribed, <1>Deliver, <1>Crash,
     <1>SubscribeFails, <1>DropMessages, <1>WriteFails, <1>ForgetFails, <1>AnswerFails, <1>Stutter
     DEF Next, AskStep, AnswerStep, FaultStep

\* Every variable keeps its type.
THEOREM TypeCorrect == Spec => []TypeOK
<1>1. Init => TypeOK
  BY DEF Init, TypeOK, Stages, Settled, Decisions, Replies, InProgress
<1>2. QED
  BY <1>1, TypeNext, PTL DEF Spec

-----------------------------------------------------------------------------
(* the inductive invariant, part by part *)

\* Every step keeps a request, its owner's subscription and its shared key together.
LEMMA BookNext ==
  TypeOK /\ BookInv /\ [Next]_vars => BookInv'
<1> SUFFICES ASSUME TypeOK, BookInv, [Next]_vars PROVE BookInv'
  OBVIOUS
<1> USE DEF TypeOK, BookInv, Stages, Settled, Decisions
<1>Ask. ASSUME NEW r \in Requests, NEW i \in Instances, NEW a \in BOOLEAN, Ask(r, i, a) PROVE BookInv'
  BY <1>Ask, NoneAssumption DEF Ask, AfterSubscribe, askVars, busVars, answerVars
<1>WriteKey. ASSUME NEW r \in Requests, WriteKey(r) PROVE BookInv'
  BY <1>WriteKey, NoneAssumption DEF WriteKey, askVars, busVars, answerVars
<1>WriteReply. ASSUME NEW r \in Requests, WriteReply(r) PROVE BookInv'
  BY <1>WriteReply, NoneAssumption DEF WriteReply, askVars, busVars, answerVars
<1>Forget. ASSUME NEW r \in Requests, Forget(r) PROVE BookInv'
  BY <1>Forget, NoneAssumption DEF Forget, MarkedFirst, askVars, busVars, answerVars
<1>Timeout. ASSUME NEW r \in Requests, Timeout(r) PROVE BookInv'
  BY <1>Timeout, NoneAssumption DEF Timeout, GiveUp, askVars, busVars, answerVars
<1>Abort. ASSUME NEW r \in Requests, Abort(r) PROVE BookInv'
  BY <1>Abort, NoneAssumption DEF Abort, GiveUp, askVars, busVars, answerVars
<1>ExpireKey. ASSUME NEW r \in Requests, ExpireKey(r) PROVE BookInv'
  BY <1>ExpireKey, NoneAssumption DEF ExpireKey, askVars, busVars, answerVars
<1>AnswerLocal. ASSUME NEW p \in Responders, NEW r \in Requests, NEW i \in Instances, NEW d \in Decisions, AnswerLocal(p, r, i, d) PROVE BookInv'
  BY <1>AnswerLocal, NoneAssumption DEF AnswerLocal, Post, Pending, askVars, busVars, answerVars
<1>AnswerRemote. ASSUME NEW p \in Responders, NEW r \in Requests, NEW i \in Instances, NEW d \in Decisions, AnswerRemote(p, r, i, d) PROVE BookInv'
  BY <1>AnswerRemote, NoneAssumption DEF AnswerRemote, Post, Pending, askVars, busVars, answerVars
<1>AnswerMiss. ASSUME NEW p \in Responders, NEW r \in Requests, NEW i \in Instances, NEW d \in Decisions, AnswerMiss(p, r, i, d) PROVE BookInv'
  BY <1>AnswerMiss, NoneAssumption DEF AnswerMiss, Post, Pending, askVars, busVars, answerVars
<1>CheckMarker. ASSUME NEW p \in Responders, CheckMarker(p) PROVE BookInv'
  BY <1>CheckMarker, NoneAssumption DEF CheckMarker, askVars, busVars, answerVars
<1>MarkLocal. ASSUME NEW p \in Responders, MarkLocal(p) PROVE BookInv'
  BY <1>MarkLocal, NoneAssumption DEF MarkLocal, WriteMarker, askVars, busVars, answerVars
<1>MarkRemote. ASSUME NEW p \in Responders, MarkRemote(p) PROVE BookInv'
  BY <1>MarkRemote, NoneAssumption DEF MarkRemote, WriteMarker, askVars, busVars, answerVars
<1>Publish. ASSUME NEW p \in Responders, Publish(p) PROVE BookInv'
  BY <1>Publish, NoneAssumption DEF Publish, askVars, busVars, answerVars
<1>DeleteRemote. ASSUME NEW p \in Responders, DeleteRemote(p) PROVE BookInv'
  BY <1>DeleteRemote, NoneAssumption DEF DeleteRemote, askVars, busVars, answerVars
<1>Subscribed. ASSUME NEW i \in Instances, Subscribed(i) PROVE BookInv'
  BY <1>Subscribed, NoneAssumption DEF Subscribed, AfterSubscribe, askVars, busVars, answerVars
<1>Deliver. ASSUME NEW i \in Instances, Deliver(i) PROVE BookInv'
  <2>1. PICK r \in Requests, d \in Decisions : Delivered(i, r, d)
    BY <1>Deliver, DeliverFacts
  <2>2. QED
    BY <2>1 DEF Delivered, Pending
<1>Crash. ASSUME NEW i \in Instances, Crash(i) PROVE BookInv'
  BY <1>Crash, NoneAssumption DEF Crash, Returned, askVars, busVars, answerVars, Fault
<1>SubscribeFails. ASSUME NEW i \in Instances, SubscribeFails(i) PROVE BookInv'
  BY <1>SubscribeFails, NoneAssumption DEF SubscribeFails, askVars, busVars, answerVars, Fault
<1>DropMessages. ASSUME NEW i \in Instances, DropMessages(i) PROVE BookInv'
  BY <1>DropMessages, NoneAssumption DEF DropMessages, askVars, busVars, answerVars, Fault
<1>WriteFails. ASSUME NEW r \in Requests, WriteFails(r) PROVE BookInv'
  BY <1>WriteFails, NoneAssumption DEF WriteFails, askVars, busVars, answerVars, Fault
<1>ForgetFails. ASSUME NEW r \in Requests, ForgetFails(r) PROVE BookInv'
  BY <1>ForgetFails, NoneAssumption DEF ForgetFails, MarkedFirst, askVars, busVars, answerVars, Fault
<1>AnswerFails. ASSUME NEW p \in Responders, AnswerFails(p) PROVE BookInv'
  BY <1>AnswerFails, NoneAssumption DEF AnswerFails, askVars, busVars, answerVars, Fault
<1>Stutter. CASE UNCHANGED vars
  BY <1>Stutter DEF vars
<1> HIDE DEF TypeOK, BookInv, Stages, Settled, Decisions
<1>QED. QED
  BY <1>Ask, <1>WriteKey, <1>WriteReply, <1>Forget, <1>Timeout, <1>Abort,
     <1>ExpireKey, <1>AnswerLocal, <1>AnswerRemote, <1>AnswerMiss, <1>CheckMarker, <1>MarkLocal,
     <1>MarkRemote, <1>Publish, <1>DeleteRemote, <1>Subscribed, <1>Deliver, <1>Crash,
     <1>SubscribeFails, <1>DropMessages, <1>WriteFails, <1>ForgetFails, <1>AnswerFails, <1>Stutter
     DEF Next, AskStep, AnswerStep, FaultStep

\* How one step may change an answer: a posted one keeps its request, its
\* decision and its instance, and a claimed one stays claimed.
AnswersGrow ==
  \A q \in Responders : pc[q] # "idle" =>
    /\ pc'[q] # "idle"
    /\ req'[q] = req[q] /\ dec'[q] = dec[q] /\ at'[q] = at[q]
    /\ pc[q] \in {"marking", "claiming", "publishing", "deleting", "resolved", "error"}
         => pc'[q] \in {"marking", "claiming", "publishing", "deleting", "resolved", "error"}

\* No step takes an answer back.
LEMMA AnswersGrowStep ==
  TypeOK /\ [Next]_vars => AnswersGrow
<1> SUFFICES ASSUME TypeOK, [Next]_vars PROVE AnswersGrow
  OBVIOUS
<1> USE DEF TypeOK, AnswersGrow, InProgress
<1>Ask. ASSUME NEW r \in Requests, NEW i \in Instances, NEW a \in BOOLEAN, Ask(r, i, a) PROVE AnswersGrow
  BY <1>Ask DEF Ask, AfterSubscribe, askVars, busVars, answerVars
<1>WriteKey. ASSUME NEW r \in Requests, WriteKey(r) PROVE AnswersGrow
  BY <1>WriteKey DEF WriteKey, askVars, busVars, answerVars
<1>WriteReply. ASSUME NEW r \in Requests, WriteReply(r) PROVE AnswersGrow
  BY <1>WriteReply DEF WriteReply, askVars, busVars, answerVars
<1>Forget. ASSUME NEW r \in Requests, Forget(r) PROVE AnswersGrow
  BY <1>Forget DEF Forget, MarkedFirst, askVars, busVars, answerVars
<1>Timeout. ASSUME NEW r \in Requests, Timeout(r) PROVE AnswersGrow
  BY <1>Timeout DEF Timeout, GiveUp, askVars, busVars, answerVars
<1>Abort. ASSUME NEW r \in Requests, Abort(r) PROVE AnswersGrow
  BY <1>Abort DEF Abort, GiveUp, askVars, busVars, answerVars
<1>ExpireKey. ASSUME NEW r \in Requests, ExpireKey(r) PROVE AnswersGrow
  BY <1>ExpireKey DEF ExpireKey, askVars, busVars, answerVars
<1>AnswerLocal. ASSUME NEW p \in Responders, NEW r \in Requests, NEW i \in Instances, NEW d \in Decisions, AnswerLocal(p, r, i, d) PROVE AnswersGrow
  BY <1>AnswerLocal DEF AnswerLocal, Post, Pending, askVars, busVars, answerVars
<1>AnswerRemote. ASSUME NEW p \in Responders, NEW r \in Requests, NEW i \in Instances, NEW d \in Decisions, AnswerRemote(p, r, i, d) PROVE AnswersGrow
  BY <1>AnswerRemote DEF AnswerRemote, Post, Pending, askVars, busVars, answerVars
<1>AnswerMiss. ASSUME NEW p \in Responders, NEW r \in Requests, NEW i \in Instances, NEW d \in Decisions, AnswerMiss(p, r, i, d) PROVE AnswersGrow
  BY <1>AnswerMiss DEF AnswerMiss, Post, Pending, askVars, busVars, answerVars
<1>CheckMarker. ASSUME NEW p \in Responders, CheckMarker(p) PROVE AnswersGrow
  BY <1>CheckMarker DEF CheckMarker, askVars, busVars, answerVars
<1>MarkLocal. ASSUME NEW p \in Responders, MarkLocal(p) PROVE AnswersGrow
  BY <1>MarkLocal DEF MarkLocal, WriteMarker, askVars, busVars, answerVars
<1>MarkRemote. ASSUME NEW p \in Responders, MarkRemote(p) PROVE AnswersGrow
  BY <1>MarkRemote DEF MarkRemote, WriteMarker, askVars, busVars, answerVars
<1>Publish. ASSUME NEW p \in Responders, Publish(p) PROVE AnswersGrow
  BY <1>Publish DEF Publish, askVars, busVars, answerVars
<1>DeleteRemote. ASSUME NEW p \in Responders, DeleteRemote(p) PROVE AnswersGrow
  BY <1>DeleteRemote DEF DeleteRemote, askVars, busVars, answerVars
<1>Subscribed. ASSUME NEW i \in Instances, Subscribed(i) PROVE AnswersGrow
  BY <1>Subscribed DEF Subscribed, AfterSubscribe, askVars, busVars, answerVars
<1>Deliver. ASSUME NEW i \in Instances, Deliver(i) PROVE AnswersGrow
  <2>1. PICK r \in Requests, d \in Decisions : Delivered(i, r, d)
    BY <1>Deliver, DeliverFacts
  <2>2. QED
    BY <2>1 DEF Delivered, Pending
<1>Crash. ASSUME NEW i \in Instances, Crash(i) PROVE AnswersGrow
  BY <1>Crash DEF Crash, Returned, askVars, busVars, answerVars, Fault
<1>SubscribeFails. ASSUME NEW i \in Instances, SubscribeFails(i) PROVE AnswersGrow
  BY <1>SubscribeFails DEF SubscribeFails, askVars, busVars, answerVars, Fault
<1>DropMessages. ASSUME NEW i \in Instances, DropMessages(i) PROVE AnswersGrow
  BY <1>DropMessages DEF DropMessages, askVars, busVars, answerVars, Fault
<1>WriteFails. ASSUME NEW r \in Requests, WriteFails(r) PROVE AnswersGrow
  BY <1>WriteFails DEF WriteFails, askVars, busVars, answerVars, Fault
<1>ForgetFails. ASSUME NEW r \in Requests, ForgetFails(r) PROVE AnswersGrow
  BY <1>ForgetFails DEF ForgetFails, MarkedFirst, askVars, busVars, answerVars, Fault
<1>AnswerFails. ASSUME NEW p \in Responders, AnswerFails(p) PROVE AnswersGrow
  BY <1>AnswerFails DEF AnswerFails, askVars, busVars, answerVars, Fault
<1>Stutter. CASE UNCHANGED vars
  BY <1>Stutter DEF vars
<1> HIDE DEF TypeOK, AnswersGrow, InProgress
<1>QED. QED
  BY <1>Ask, <1>WriteKey, <1>WriteReply, <1>Forget, <1>Timeout, <1>Abort,
     <1>ExpireKey, <1>AnswerLocal, <1>AnswerRemote, <1>AnswerMiss, <1>CheckMarker, <1>MarkLocal,
     <1>MarkRemote, <1>Publish, <1>DeleteRemote, <1>Subscribed, <1>Deliver, <1>Crash,
     <1>SubscribeFails, <1>DropMessages, <1>WriteFails, <1>ForgetFails, <1>AnswerFails, <1>Stutter
     DEF Next, AskStep, AnswerStep, FaultStep

\* How one step may change the traces answers leave.
MarkersGrow ==
  /\ markers \subseteq markers'
  /\ \A r \in markers' : r \in markers \/ \E q \in Responders : Claimed(q, r)

LostGrow ==
  /\ lost \subseteq lost'
  /\ \A r \in lost' : r \in lost \/ \E i \in Instances : \E m \in Carried(inbox[i]) : r = m[1]

KnownGrow ==
  \A i \in Instances : \A r \in known'[i] :
    \/ r \in known[i]
    \/ \E m \in Carried(inbox[i]) : r = m[1]
    \/ \E q \in Responders : Claimed(q, r)'

InboxGrow ==
  \A i \in Instances : \A m \in Carried(inbox'[i]) :
    \/ m \in Carried(inbox[i])
    \/ \E p \in Responders : pc[p] = "publishing" /\ m = <<req[p], dec[p]>>

\* A marker appears only with an answer that claims its request.
LEMMA MarkersGrowStep ==
  TypeOK /\ [Next]_vars => MarkersGrow
<1> SUFFICES ASSUME TypeOK, [Next]_vars PROVE MarkersGrow
  OBVIOUS
<1> USE DEF TypeOK, MarkersGrow, Claimed
<1>Ask. ASSUME NEW r \in Requests, NEW i \in Instances, NEW a \in BOOLEAN, Ask(r, i, a) PROVE MarkersGrow
  BY <1>Ask DEF Ask, AfterSubscribe, askVars, busVars, answerVars
<1>WriteKey. ASSUME NEW r \in Requests, WriteKey(r) PROVE MarkersGrow
  BY <1>WriteKey DEF WriteKey, askVars, busVars, answerVars
<1>WriteReply. ASSUME NEW r \in Requests, WriteReply(r) PROVE MarkersGrow
  BY <1>WriteReply DEF WriteReply, askVars, busVars, answerVars
<1>Forget. ASSUME NEW r \in Requests, Forget(r) PROVE MarkersGrow
  BY <1>Forget DEF Forget, MarkedFirst, askVars, busVars, answerVars
<1>Timeout. ASSUME NEW r \in Requests, Timeout(r) PROVE MarkersGrow
  BY <1>Timeout DEF Timeout, GiveUp, askVars, busVars, answerVars
<1>Abort. ASSUME NEW r \in Requests, Abort(r) PROVE MarkersGrow
  BY <1>Abort DEF Abort, GiveUp, askVars, busVars, answerVars
<1>ExpireKey. ASSUME NEW r \in Requests, ExpireKey(r) PROVE MarkersGrow
  BY <1>ExpireKey DEF ExpireKey, askVars, busVars, answerVars
<1>AnswerLocal. ASSUME NEW p \in Responders, NEW r \in Requests, NEW i \in Instances, NEW d \in Decisions, AnswerLocal(p, r, i, d) PROVE MarkersGrow
  BY <1>AnswerLocal DEF AnswerLocal, Post, Pending, askVars, busVars, answerVars
<1>AnswerRemote. ASSUME NEW p \in Responders, NEW r \in Requests, NEW i \in Instances, NEW d \in Decisions, AnswerRemote(p, r, i, d) PROVE MarkersGrow
  BY <1>AnswerRemote DEF AnswerRemote, Post, Pending, askVars, busVars, answerVars
<1>AnswerMiss. ASSUME NEW p \in Responders, NEW r \in Requests, NEW i \in Instances, NEW d \in Decisions, AnswerMiss(p, r, i, d) PROVE MarkersGrow
  BY <1>AnswerMiss DEF AnswerMiss, Post, Pending, askVars, busVars, answerVars
<1>CheckMarker. ASSUME NEW p \in Responders, CheckMarker(p) PROVE MarkersGrow
  BY <1>CheckMarker DEF CheckMarker, askVars, busVars, answerVars
<1>MarkLocal. ASSUME NEW p \in Responders, MarkLocal(p) PROVE MarkersGrow
  BY <1>MarkLocal DEF MarkLocal, WriteMarker, askVars, busVars, answerVars
<1>MarkRemote. ASSUME NEW p \in Responders, MarkRemote(p) PROVE MarkersGrow
  BY <1>MarkRemote DEF MarkRemote, WriteMarker, askVars, busVars, answerVars
<1>Publish. ASSUME NEW p \in Responders, Publish(p) PROVE MarkersGrow
  BY <1>Publish DEF Publish, askVars, busVars, answerVars
<1>DeleteRemote. ASSUME NEW p \in Responders, DeleteRemote(p) PROVE MarkersGrow
  BY <1>DeleteRemote DEF DeleteRemote, askVars, busVars, answerVars
<1>Subscribed. ASSUME NEW i \in Instances, Subscribed(i) PROVE MarkersGrow
  BY <1>Subscribed DEF Subscribed, AfterSubscribe, askVars, busVars, answerVars
<1>Deliver. ASSUME NEW i \in Instances, Deliver(i) PROVE MarkersGrow
  <2>1. PICK r \in Requests, d \in Decisions : Delivered(i, r, d)
    BY <1>Deliver, DeliverFacts
  <2>2. QED
    BY <2>1 DEF Delivered, Pending
<1>Crash. ASSUME NEW i \in Instances, Crash(i) PROVE MarkersGrow
  BY <1>Crash DEF Crash, Returned, askVars, busVars, answerVars, Fault
<1>SubscribeFails. ASSUME NEW i \in Instances, SubscribeFails(i) PROVE MarkersGrow
  BY <1>SubscribeFails DEF SubscribeFails, askVars, busVars, answerVars, Fault
<1>DropMessages. ASSUME NEW i \in Instances, DropMessages(i) PROVE MarkersGrow
  BY <1>DropMessages DEF DropMessages, askVars, busVars, answerVars, Fault
<1>WriteFails. ASSUME NEW r \in Requests, WriteFails(r) PROVE MarkersGrow
  BY <1>WriteFails DEF WriteFails, askVars, busVars, answerVars, Fault
<1>ForgetFails. ASSUME NEW r \in Requests, ForgetFails(r) PROVE MarkersGrow
  BY <1>ForgetFails DEF ForgetFails, MarkedFirst, askVars, busVars, answerVars, Fault
<1>AnswerFails. ASSUME NEW p \in Responders, AnswerFails(p) PROVE MarkersGrow
  BY <1>AnswerFails DEF AnswerFails, askVars, busVars, answerVars, Fault
<1>Stutter. CASE UNCHANGED vars
  BY <1>Stutter DEF vars
<1> HIDE DEF TypeOK, MarkersGrow, Claimed
<1>QED. QED
  BY <1>Ask, <1>WriteKey, <1>WriteReply, <1>Forget, <1>Timeout, <1>Abort,
     <1>ExpireKey, <1>AnswerLocal, <1>AnswerRemote, <1>AnswerMiss, <1>CheckMarker, <1>MarkLocal,
     <1>MarkRemote, <1>Publish, <1>DeleteRemote, <1>Subscribed, <1>Deliver, <1>Crash,
     <1>SubscribeFails, <1>DropMessages, <1>WriteFails, <1>ForgetFails, <1>AnswerFails, <1>Stutter
     DEF Next, AskStep, AnswerStep, FaultStep

\* Only a message in an inbox is lost.
LEMMA LostGrowStep ==
  TypeOK /\ [Next]_vars => LostGrow
<1> SUFFICES ASSUME TypeOK, [Next]_vars PROVE LostGrow
  OBVIOUS
<1> USE DEF TypeOK, LostGrow
<1>Ask. ASSUME NEW r \in Requests, NEW i \in Instances, NEW a \in BOOLEAN, Ask(r, i, a) PROVE LostGrow
  BY <1>Ask DEF Ask, AfterSubscribe, askVars, busVars, answerVars
<1>WriteKey. ASSUME NEW r \in Requests, WriteKey(r) PROVE LostGrow
  BY <1>WriteKey DEF WriteKey, askVars, busVars, answerVars
<1>WriteReply. ASSUME NEW r \in Requests, WriteReply(r) PROVE LostGrow
  BY <1>WriteReply DEF WriteReply, askVars, busVars, answerVars
<1>Forget. ASSUME NEW r \in Requests, Forget(r) PROVE LostGrow
  BY <1>Forget DEF Forget, MarkedFirst, askVars, busVars, answerVars
<1>Timeout. ASSUME NEW r \in Requests, Timeout(r) PROVE LostGrow
  BY <1>Timeout DEF Timeout, GiveUp, askVars, busVars, answerVars
<1>Abort. ASSUME NEW r \in Requests, Abort(r) PROVE LostGrow
  BY <1>Abort DEF Abort, GiveUp, askVars, busVars, answerVars
<1>ExpireKey. ASSUME NEW r \in Requests, ExpireKey(r) PROVE LostGrow
  BY <1>ExpireKey DEF ExpireKey, askVars, busVars, answerVars
<1>AnswerLocal. ASSUME NEW p \in Responders, NEW r \in Requests, NEW i \in Instances, NEW d \in Decisions, AnswerLocal(p, r, i, d) PROVE LostGrow
  BY <1>AnswerLocal DEF AnswerLocal, Post, Pending, askVars, busVars, answerVars
<1>AnswerRemote. ASSUME NEW p \in Responders, NEW r \in Requests, NEW i \in Instances, NEW d \in Decisions, AnswerRemote(p, r, i, d) PROVE LostGrow
  BY <1>AnswerRemote DEF AnswerRemote, Post, Pending, askVars, busVars, answerVars
<1>AnswerMiss. ASSUME NEW p \in Responders, NEW r \in Requests, NEW i \in Instances, NEW d \in Decisions, AnswerMiss(p, r, i, d) PROVE LostGrow
  BY <1>AnswerMiss DEF AnswerMiss, Post, Pending, askVars, busVars, answerVars
<1>CheckMarker. ASSUME NEW p \in Responders, CheckMarker(p) PROVE LostGrow
  BY <1>CheckMarker DEF CheckMarker, askVars, busVars, answerVars
<1>MarkLocal. ASSUME NEW p \in Responders, MarkLocal(p) PROVE LostGrow
  BY <1>MarkLocal DEF MarkLocal, WriteMarker, askVars, busVars, answerVars
<1>MarkRemote. ASSUME NEW p \in Responders, MarkRemote(p) PROVE LostGrow
  BY <1>MarkRemote DEF MarkRemote, WriteMarker, askVars, busVars, answerVars
<1>Publish. ASSUME NEW p \in Responders, Publish(p) PROVE LostGrow
  BY <1>Publish DEF Publish, askVars, busVars, answerVars
<1>DeleteRemote. ASSUME NEW p \in Responders, DeleteRemote(p) PROVE LostGrow
  BY <1>DeleteRemote DEF DeleteRemote, askVars, busVars, answerVars
<1>Subscribed. ASSUME NEW i \in Instances, Subscribed(i) PROVE LostGrow
  BY <1>Subscribed DEF Subscribed, AfterSubscribe, askVars, busVars, answerVars
<1>Deliver. ASSUME NEW i \in Instances, Deliver(i) PROVE LostGrow
  <2>1. PICK r \in Requests, d \in Decisions : Delivered(i, r, d)
    BY <1>Deliver, DeliverFacts
  <2>2. QED
    BY <2>1 DEF Delivered, Pending
<1>Crash. ASSUME NEW i \in Instances, Crash(i) PROVE LostGrow
  BY <1>Crash DEF Crash, Returned, askVars, busVars, answerVars, Fault
<1>SubscribeFails. ASSUME NEW i \in Instances, SubscribeFails(i) PROVE LostGrow
  BY <1>SubscribeFails DEF SubscribeFails, askVars, busVars, answerVars, Fault
<1>DropMessages. ASSUME NEW i \in Instances, DropMessages(i) PROVE LostGrow
  BY <1>DropMessages DEF DropMessages, askVars, busVars, answerVars, Fault
<1>WriteFails. ASSUME NEW r \in Requests, WriteFails(r) PROVE LostGrow
  BY <1>WriteFails DEF WriteFails, askVars, busVars, answerVars, Fault
<1>ForgetFails. ASSUME NEW r \in Requests, ForgetFails(r) PROVE LostGrow
  BY <1>ForgetFails DEF ForgetFails, MarkedFirst, askVars, busVars, answerVars, Fault
<1>AnswerFails. ASSUME NEW p \in Responders, AnswerFails(p) PROVE LostGrow
  BY <1>AnswerFails DEF AnswerFails, askVars, busVars, answerVars, Fault
<1>Stutter. CASE UNCHANGED vars
  BY <1>Stutter DEF vars
<1> HIDE DEF TypeOK, LostGrow
<1>QED. QED
  BY <1>Ask, <1>WriteKey, <1>WriteReply, <1>Forget, <1>Timeout, <1>Abort,
     <1>ExpireKey, <1>AnswerLocal, <1>AnswerRemote, <1>AnswerMiss, <1>CheckMarker, <1>MarkLocal,
     <1>MarkRemote, <1>Publish, <1>DeleteRemote, <1>Subscribed, <1>Deliver, <1>Crash,
     <1>SubscribeFails, <1>DropMessages, <1>WriteFails, <1>ForgetFails, <1>AnswerFails, <1>Stutter
     DEF Next, AskStep, AnswerStep, FaultStep

\* An instance learns of an answered request by a message or by its own answer.
LEMMA KnownGrowStep ==
  TypeOK /\ [Next]_vars => KnownGrow
<1> SUFFICES ASSUME TypeOK, [Next]_vars PROVE KnownGrow
  OBVIOUS
<1> USE DEF TypeOK, KnownGrow, Claimed, InProgress
<1>Ask. ASSUME NEW r \in Requests, NEW i \in Instances, NEW a \in BOOLEAN, Ask(r, i, a) PROVE KnownGrow
  BY <1>Ask DEF Ask, AfterSubscribe, askVars, busVars, answerVars
<1>WriteKey. ASSUME NEW r \in Requests, WriteKey(r) PROVE KnownGrow
  BY <1>WriteKey DEF WriteKey, askVars, busVars, answerVars
<1>WriteReply. ASSUME NEW r \in Requests, WriteReply(r) PROVE KnownGrow
  BY <1>WriteReply DEF WriteReply, askVars, busVars, answerVars
<1>Forget. ASSUME NEW r \in Requests, Forget(r) PROVE KnownGrow
  BY <1>Forget DEF Forget, MarkedFirst, askVars, busVars, answerVars
<1>Timeout. ASSUME NEW r \in Requests, Timeout(r) PROVE KnownGrow
  BY <1>Timeout DEF Timeout, GiveUp, askVars, busVars, answerVars
<1>Abort. ASSUME NEW r \in Requests, Abort(r) PROVE KnownGrow
  BY <1>Abort DEF Abort, GiveUp, askVars, busVars, answerVars
<1>ExpireKey. ASSUME NEW r \in Requests, ExpireKey(r) PROVE KnownGrow
  BY <1>ExpireKey DEF ExpireKey, askVars, busVars, answerVars
<1>AnswerLocal. ASSUME NEW p \in Responders, NEW r \in Requests, NEW i \in Instances, NEW d \in Decisions, AnswerLocal(p, r, i, d) PROVE KnownGrow
  BY <1>AnswerLocal DEF AnswerLocal, Post, Pending, askVars, busVars, answerVars
<1>AnswerRemote. ASSUME NEW p \in Responders, NEW r \in Requests, NEW i \in Instances, NEW d \in Decisions, AnswerRemote(p, r, i, d) PROVE KnownGrow
  BY <1>AnswerRemote DEF AnswerRemote, Post, Pending, askVars, busVars, answerVars
<1>AnswerMiss. ASSUME NEW p \in Responders, NEW r \in Requests, NEW i \in Instances, NEW d \in Decisions, AnswerMiss(p, r, i, d) PROVE KnownGrow
  BY <1>AnswerMiss DEF AnswerMiss, Post, Pending, askVars, busVars, answerVars
<1>CheckMarker. ASSUME NEW p \in Responders, CheckMarker(p) PROVE KnownGrow
  BY <1>CheckMarker DEF CheckMarker, askVars, busVars, answerVars
<1>MarkLocal. ASSUME NEW p \in Responders, MarkLocal(p) PROVE KnownGrow
  BY <1>MarkLocal DEF MarkLocal, WriteMarker, askVars, busVars, answerVars
<1>MarkRemote. ASSUME NEW p \in Responders, MarkRemote(p) PROVE KnownGrow
  BY <1>MarkRemote DEF MarkRemote, WriteMarker, askVars, busVars, answerVars
<1>Publish. ASSUME NEW p \in Responders, Publish(p) PROVE KnownGrow
  BY <1>Publish DEF Publish, askVars, busVars, answerVars
<1>DeleteRemote. ASSUME NEW p \in Responders, DeleteRemote(p) PROVE KnownGrow
  BY <1>DeleteRemote DEF DeleteRemote, askVars, busVars, answerVars
<1>Subscribed. ASSUME NEW i \in Instances, Subscribed(i) PROVE KnownGrow
  BY <1>Subscribed DEF Subscribed, AfterSubscribe, askVars, busVars, answerVars
<1>Deliver. ASSUME NEW i \in Instances, Deliver(i) PROVE KnownGrow
  <2>1. PICK r \in Requests, d \in Decisions : Delivered(i, r, d)
    BY <1>Deliver, DeliverFacts
  <2>2. \A j \in Instances : known'[j] \subseteq known[j] \cup (IF j = i THEN {r} ELSE {})
    BY <2>1 DEF Delivered
  <2>3. \E m \in Carried(inbox[i]) : r = m[1]
    <3>1. <<r, d>> \in Carried(inbox[i]) /\ <<r, d>>[1] = r
      BY <2>1 DEF Delivered
    <3>2. QED
      BY <3>1, Zenon
  <2>4. QED
    BY <2>2, <2>3
<1>Crash. ASSUME NEW i \in Instances, Crash(i) PROVE KnownGrow
  BY <1>Crash DEF Crash, Returned, askVars, busVars, answerVars, Fault
<1>SubscribeFails. ASSUME NEW i \in Instances, SubscribeFails(i) PROVE KnownGrow
  BY <1>SubscribeFails DEF SubscribeFails, askVars, busVars, answerVars, Fault
<1>DropMessages. ASSUME NEW i \in Instances, DropMessages(i) PROVE KnownGrow
  BY <1>DropMessages DEF DropMessages, askVars, busVars, answerVars, Fault
<1>WriteFails. ASSUME NEW r \in Requests, WriteFails(r) PROVE KnownGrow
  BY <1>WriteFails DEF WriteFails, askVars, busVars, answerVars, Fault
<1>ForgetFails. ASSUME NEW r \in Requests, ForgetFails(r) PROVE KnownGrow
  BY <1>ForgetFails DEF ForgetFails, MarkedFirst, askVars, busVars, answerVars, Fault
<1>AnswerFails. ASSUME NEW p \in Responders, AnswerFails(p) PROVE KnownGrow
  BY <1>AnswerFails DEF AnswerFails, askVars, busVars, answerVars, Fault
<1>Stutter. CASE UNCHANGED vars
  BY <1>Stutter DEF vars
<1> HIDE DEF TypeOK, KnownGrow, Claimed, InProgress
<1>QED. QED
  BY <1>Ask, <1>WriteKey, <1>WriteReply, <1>Forget, <1>Timeout, <1>Abort,
     <1>ExpireKey, <1>AnswerLocal, <1>AnswerRemote, <1>AnswerMiss, <1>CheckMarker, <1>MarkLocal,
     <1>MarkRemote, <1>Publish, <1>DeleteRemote, <1>Subscribed, <1>Deliver, <1>Crash,
     <1>SubscribeFails, <1>DropMessages, <1>WriteFails, <1>ForgetFails, <1>AnswerFails, <1>Stutter
     DEF Next, AskStep, AnswerStep, FaultStep

\* Only an answer that publishes puts a message into an inbox.
LEMMA InboxGrowStep ==
  TypeOK /\ [Next]_vars => InboxGrow
<1> SUFFICES ASSUME TypeOK, [Next]_vars PROVE InboxGrow
  OBVIOUS
<1> USE DEF TypeOK, InboxGrow, InProgress
<1>Ask. ASSUME NEW r \in Requests, NEW i \in Instances, NEW a \in BOOLEAN, Ask(r, i, a) PROVE InboxGrow
  BY <1>Ask DEF Ask, AfterSubscribe, askVars, busVars, answerVars
<1>WriteKey. ASSUME NEW r \in Requests, WriteKey(r) PROVE InboxGrow
  BY <1>WriteKey DEF WriteKey, askVars, busVars, answerVars
<1>WriteReply. ASSUME NEW r \in Requests, WriteReply(r) PROVE InboxGrow
  BY <1>WriteReply DEF WriteReply, askVars, busVars, answerVars
<1>Forget. ASSUME NEW r \in Requests, Forget(r) PROVE InboxGrow
  BY <1>Forget DEF Forget, MarkedFirst, askVars, busVars, answerVars
<1>Timeout. ASSUME NEW r \in Requests, Timeout(r) PROVE InboxGrow
  BY <1>Timeout DEF Timeout, GiveUp, askVars, busVars, answerVars
<1>Abort. ASSUME NEW r \in Requests, Abort(r) PROVE InboxGrow
  BY <1>Abort DEF Abort, GiveUp, askVars, busVars, answerVars
<1>ExpireKey. ASSUME NEW r \in Requests, ExpireKey(r) PROVE InboxGrow
  BY <1>ExpireKey DEF ExpireKey, askVars, busVars, answerVars
<1>AnswerLocal. ASSUME NEW p \in Responders, NEW r \in Requests, NEW i \in Instances, NEW d \in Decisions, AnswerLocal(p, r, i, d) PROVE InboxGrow
  BY <1>AnswerLocal DEF AnswerLocal, Post, Pending, askVars, busVars, answerVars
<1>AnswerRemote. ASSUME NEW p \in Responders, NEW r \in Requests, NEW i \in Instances, NEW d \in Decisions, AnswerRemote(p, r, i, d) PROVE InboxGrow
  BY <1>AnswerRemote DEF AnswerRemote, Post, Pending, askVars, busVars, answerVars
<1>AnswerMiss. ASSUME NEW p \in Responders, NEW r \in Requests, NEW i \in Instances, NEW d \in Decisions, AnswerMiss(p, r, i, d) PROVE InboxGrow
  BY <1>AnswerMiss DEF AnswerMiss, Post, Pending, askVars, busVars, answerVars
<1>CheckMarker. ASSUME NEW p \in Responders, CheckMarker(p) PROVE InboxGrow
  BY <1>CheckMarker DEF CheckMarker, askVars, busVars, answerVars
<1>MarkLocal. ASSUME NEW p \in Responders, MarkLocal(p) PROVE InboxGrow
  BY <1>MarkLocal DEF MarkLocal, WriteMarker, askVars, busVars, answerVars
<1>MarkRemote. ASSUME NEW p \in Responders, MarkRemote(p) PROVE InboxGrow
  BY <1>MarkRemote DEF MarkRemote, WriteMarker, askVars, busVars, answerVars
<1>Publish. ASSUME NEW p \in Responders, Publish(p) PROVE InboxGrow
  <2> DEFINE subs == {i \in Instances : manager[i] = "ready"}
             m0 == <<req[p], dec[p]>>
  <2>1. m0 \in Messages /\ inbox \in [Instances -> Seq(Messages)]
    BY <1>Publish DEF Publish, Messages
  <2>2. inbox' = FanOut(inbox, subs, m0)
    BY <1>Publish DEF Publish
  <2>3. pc[p] = "publishing"
    BY <1>Publish DEF Publish
  <2> HIDE DEF subs, m0
  <2>4. \A i \in Instances : Carried(inbox'[i]) \subseteq Carried(inbox[i]) \cup {m0}
    BY ONLY <2>1, <2>2, FanOutFacts
  <2>5. QED
    BY <2>3, <2>4 DEF m0
<1>DeleteRemote. ASSUME NEW p \in Responders, DeleteRemote(p) PROVE InboxGrow
  BY <1>DeleteRemote DEF DeleteRemote, askVars, busVars, answerVars
<1>Subscribed. ASSUME NEW i \in Instances, Subscribed(i) PROVE InboxGrow
  BY <1>Subscribed DEF Subscribed, AfterSubscribe, askVars, busVars, answerVars
<1>Deliver. ASSUME NEW i \in Instances, Deliver(i) PROVE InboxGrow
  <2>1. PICK r \in Requests, d \in Decisions : Delivered(i, r, d)
    BY <1>Deliver, DeliverFacts
  <2>2. QED
    BY <2>1 DEF Delivered, Pending
<1>Crash. ASSUME NEW i \in Instances, Crash(i) PROVE InboxGrow
  BY <1>Crash, CarriedEmpty DEF Crash, Returned, askVars, busVars, answerVars, Fault
<1>SubscribeFails. ASSUME NEW i \in Instances, SubscribeFails(i) PROVE InboxGrow
  BY <1>SubscribeFails DEF SubscribeFails, askVars, busVars, answerVars, Fault
<1>DropMessages. ASSUME NEW i \in Instances, DropMessages(i) PROVE InboxGrow
  BY <1>DropMessages, CarriedEmpty DEF DropMessages, askVars, busVars, answerVars, Fault
<1>WriteFails. ASSUME NEW r \in Requests, WriteFails(r) PROVE InboxGrow
  BY <1>WriteFails DEF WriteFails, askVars, busVars, answerVars, Fault
<1>ForgetFails. ASSUME NEW r \in Requests, ForgetFails(r) PROVE InboxGrow
  BY <1>ForgetFails DEF ForgetFails, MarkedFirst, askVars, busVars, answerVars, Fault
<1>AnswerFails. ASSUME NEW p \in Responders, AnswerFails(p) PROVE InboxGrow
  BY <1>AnswerFails DEF AnswerFails, askVars, busVars, answerVars, Fault
<1>Stutter. CASE UNCHANGED vars
  BY <1>Stutter DEF vars
<1> HIDE DEF TypeOK, InboxGrow, InProgress
<1>QED. QED
  BY <1>Ask, <1>WriteKey, <1>WriteReply, <1>Forget, <1>Timeout, <1>Abort,
     <1>ExpireKey, <1>AnswerLocal, <1>AnswerRemote, <1>AnswerMiss, <1>CheckMarker, <1>MarkLocal,
     <1>MarkRemote, <1>Publish, <1>DeleteRemote, <1>Subscribed, <1>Deliver, <1>Crash,
     <1>SubscribeFails, <1>DropMessages, <1>WriteFails, <1>ForgetFails, <1>AnswerFails, <1>Stutter
     DEF Next, AskStep, AnswerStep, FaultStep

\* Every step keeps what the answers in progress know.
LEMMA AnswerNext ==
  TypeOK /\ BookInv /\ AnswerInv /\ [Next]_vars => AnswerInv'
<1> SUFFICES ASSUME TypeOK, BookInv, AnswerInv, [Next]_vars PROVE AnswerInv'
  OBVIOUS
<1> USE DEF TypeOK, Stages, Settled, Decisions, InProgress, BookInv, AnswerInv
<1>Ask. ASSUME NEW r \in Requests, NEW i \in Instances, NEW a \in BOOLEAN, Ask(r, i, a) PROVE AnswerInv'
  BY <1>Ask DEF Ask, AfterSubscribe, askVars, busVars, answerVars
<1>WriteKey. ASSUME NEW r \in Requests, WriteKey(r) PROVE AnswerInv'
  BY <1>WriteKey DEF WriteKey, askVars, busVars, answerVars
<1>WriteReply. ASSUME NEW r \in Requests, WriteReply(r) PROVE AnswerInv'
  BY <1>WriteReply DEF WriteReply, askVars, busVars, answerVars
<1>Forget. ASSUME NEW r \in Requests, Forget(r) PROVE AnswerInv'
  BY <1>Forget DEF Forget, MarkedFirst, askVars, busVars, answerVars
<1>Timeout. ASSUME NEW r \in Requests, Timeout(r) PROVE AnswerInv'
  BY <1>Timeout DEF Timeout, GiveUp, askVars, busVars, answerVars
<1>Abort. ASSUME NEW r \in Requests, Abort(r) PROVE AnswerInv'
  BY <1>Abort DEF Abort, GiveUp, askVars, busVars, answerVars
<1>ExpireKey. ASSUME NEW r \in Requests, ExpireKey(r) PROVE AnswerInv'
  BY <1>ExpireKey DEF ExpireKey, askVars, busVars, answerVars
<1>AnswerLocal. ASSUME NEW p \in Responders, NEW r \in Requests, NEW i \in Instances, NEW d \in Decisions, AnswerLocal(p, r, i, d) PROVE AnswerInv'
  <2>1. /\ outcome[r] = "waiting" /\ owner[r] = i /\ manager[i] # "dead"
        /\ outcome' = [outcome EXCEPT ![r] = d]
        /\ pc[p] = "idle" /\ pc' = [pc EXCEPT ![p] = "marking"]
        /\ req' = [req EXCEPT ![p] = r] /\ at' = [at EXCEPT ![p] = i]
        /\ UNCHANGED <<stage, owner, manager, keys, markers, forgotten>>
    BY <1>AnswerLocal DEF AnswerLocal, Post, Pending, busVars
  <2>2. r \notin forgotten
    BY <2>1
  <2>3. ASSUME NEW q \in Responders, q # p, pc[q] = "marking" PROVE req[q] # r
    BY <2>1, <2>3
  <2>4. QED
    BY <2>1, <2>2, <2>3
<1>AnswerRemote. ASSUME NEW p \in Responders, NEW r \in Requests, NEW i \in Instances, NEW d \in Decisions, AnswerRemote(p, r, i, d) PROVE AnswerInv'
  BY <1>AnswerRemote DEF AnswerRemote, Post, Pending, askVars, busVars, answerVars
<1>AnswerMiss. ASSUME NEW p \in Responders, NEW r \in Requests, NEW i \in Instances, NEW d \in Decisions, AnswerMiss(p, r, i, d) PROVE AnswerInv'
  BY <1>AnswerMiss DEF AnswerMiss, Post, Pending, askVars, busVars, answerVars
<1>CheckMarker. ASSUME NEW p \in Responders, CheckMarker(p) PROVE AnswerInv'
  BY <1>CheckMarker DEF CheckMarker, askVars, busVars, answerVars
<1>MarkLocal. ASSUME NEW p \in Responders, MarkLocal(p) PROVE AnswerInv'
  BY <1>MarkLocal DEF MarkLocal, WriteMarker, askVars, busVars, answerVars
<1>MarkRemote. ASSUME NEW p \in Responders, MarkRemote(p) PROVE AnswerInv'
  BY <1>MarkRemote DEF MarkRemote, WriteMarker, askVars, busVars, answerVars
<1>Publish. ASSUME NEW p \in Responders, Publish(p) PROVE AnswerInv'
  BY <1>Publish DEF Publish, askVars, busVars, answerVars
<1>DeleteRemote. ASSUME NEW p \in Responders, DeleteRemote(p) PROVE AnswerInv'
  BY <1>DeleteRemote DEF DeleteRemote, askVars, busVars, answerVars
<1>Subscribed. ASSUME NEW i \in Instances, Subscribed(i) PROVE AnswerInv'
  BY <1>Subscribed DEF Subscribed, AfterSubscribe, askVars, busVars, answerVars
<1>Deliver. ASSUME NEW i \in Instances, Deliver(i) PROVE AnswerInv'
  <2>1. PICK r \in Requests, d \in Decisions : Delivered(i, r, d)
    BY <1>Deliver, DeliverFacts
  <2>2. QED
    BY <2>1 DEF Delivered, Pending
<1>Crash. ASSUME NEW i \in Instances, Crash(i) PROVE AnswerInv'
  BY <1>Crash DEF Crash, Returned, askVars, busVars, answerVars, Fault
<1>SubscribeFails. ASSUME NEW i \in Instances, SubscribeFails(i) PROVE AnswerInv'
  BY <1>SubscribeFails DEF SubscribeFails, askVars, busVars, answerVars, Fault
<1>DropMessages. ASSUME NEW i \in Instances, DropMessages(i) PROVE AnswerInv'
  BY <1>DropMessages DEF DropMessages, askVars, busVars, answerVars, Fault
<1>WriteFails. ASSUME NEW r \in Requests, WriteFails(r) PROVE AnswerInv'
  BY <1>WriteFails DEF WriteFails, askVars, busVars, answerVars, Fault
<1>ForgetFails. ASSUME NEW r \in Requests, ForgetFails(r) PROVE AnswerInv'
  BY <1>ForgetFails DEF ForgetFails, MarkedFirst, askVars, busVars, answerVars, Fault
<1>AnswerFails. ASSUME NEW p \in Responders, AnswerFails(p) PROVE AnswerInv'
  BY <1>AnswerFails DEF AnswerFails, askVars, busVars, answerVars, Fault
<1>Stutter. CASE UNCHANGED vars
  BY <1>Stutter DEF vars
<1> HIDE DEF TypeOK, Stages, Settled, Decisions, InProgress, BookInv, AnswerInv
<1>QED. QED
  BY <1>Ask, <1>WriteKey, <1>WriteReply, <1>Forget, <1>Timeout, <1>Abort,
     <1>ExpireKey, <1>AnswerLocal, <1>AnswerRemote, <1>AnswerMiss, <1>CheckMarker, <1>MarkLocal,
     <1>MarkRemote, <1>Publish, <1>DeleteRemote, <1>Subscribed, <1>Deliver, <1>Crash,
     <1>SubscribeFails, <1>DropMessages, <1>WriteFails, <1>ForgetFails, <1>AnswerFails, <1>Stutter
     DEF Next, AskStep, AnswerStep, FaultStep

\* Every step keeps messages, markers and known requests backed by a claimed answer.
LEMMA ClaimNext ==
  TypeOK /\ AnswerInv /\ ClaimInv /\ [Next]_vars => ClaimInv'
<1> SUFFICES ASSUME TypeOK, AnswerInv, ClaimInv, [Next]_vars PROVE ClaimInv'
  OBVIOUS
<1>1. AnswersGrow /\ MarkersGrow /\ LostGrow /\ KnownGrow /\ InboxGrow
  BY AnswersGrowStep, MarkersGrowStep, LostGrowStep, KnownGrowStep, InboxGrowStep
<1>2. ASSUME NEW r, \E q \in Responders : Claimed(q, r)
      PROVE  \E q \in Responders : Claimed(q, r)'
  BY <1>1, <1>2 DEF AnswersGrow, Claimed
<1>3. ASSUME NEW m \in Offered PROVE m \in Offered'
  <2>1. PICK q \in Responders : pc[q] # "idle" /\ m = <<req[q], dec[q]>>
    BY <1>3 DEF Offered
  <2>2. pc'[q] # "idle" /\ m = <<req'[q], dec'[q]>>
    BY <1>1, <2>1 DEF AnswersGrow
  <2>3. QED
    BY <2>2 DEF Offered
<1>4. ASSUME NEW i \in Instances, NEW m \in Carried(inbox'[i])
      PROVE  m[1] \in markers' /\ m \in Offered'
  <2>1. CASE m \in Carried(inbox[i])
    BY <1>1, <1>3, <2>1 DEF ClaimInv, MarkersGrow
  <2>2. CASE \E p \in Responders : pc[p] = "publishing" /\ m = <<req[p], dec[p]>>
    <3>1. PICK p \in Responders : pc[p] = "publishing" /\ m = <<req[p], dec[p]>>
      BY <2>2
    <3>2. req[p] \in markers
      BY <3>1 DEF AnswerInv
    <3>3. m \in Offered
      BY <3>1 DEF Offered
    <3>4. QED
      BY <1>1, <1>3, <3>1, <3>2, <3>3 DEF MarkersGrow
  <2>3. QED
    BY <1>1, <2>1, <2>2 DEF InboxGrow
<1>5. lost' \subseteq markers'
  BY <1>1 DEF ClaimInv, LostGrow, MarkersGrow
<1>6. \A r \in markers' : \E q \in Responders : Claimed(q, r)'
  BY <1>1, <1>2 DEF ClaimInv, MarkersGrow
<1>7. \A i \in Instances : \A r \in known'[i] : \E q \in Responders : Claimed(q, r)'
  BY <1>1, <1>2 DEF ClaimInv, KnownGrow
<1>8. QED
  BY <1>4, <1>5, <1>6, <1>7 DEF ClaimInv

\* How one step may change a request and its shared key.
RequestMoves ==
  \A r \in Requests :
    /\ stage[r] # "idle" => owner'[r] = owner[r] /\ stage'[r] # "idle"
    /\ outcome'[r] = "waiting" => outcome[r] = "waiting" \/ stage[r] = "idle"
    /\ stage'[r] \in {"acked", "done"}
         => stage[r] \in {"acked", "done"} \/ (stage[r] = "writing" /\ r \in keys')
    /\ r \in keys /\ outcome'[r] = "waiting"
         => r \in keys' \/ \E p \in Responders : pc[p] = "deleting" /\ req[p] = r

\* A decision on its way stays so until its request is settled or it is lost.
FlightHolds ==
  \A r \in Requests :
    InFlight(r) /\ outcome[r] = "waiting" /\ outcome'[r] = "waiting"
      => InFlight(r)' \/ r \in lost'

\* A responder gets to its del by publishing.
PublishFirst ==
  \A p \in Responders : pc'[p] = "deleting" =>
    /\ req'[p] = req[p]
    /\ \/ pc[p] = "deleting"
       \/ /\ pc[p] = "publishing"
          /\ UNCHANGED <<stage, outcome, owner, manager>>
          /\ manager[owner[req[p]]] = "ready" /\ owner[req[p]] \in Instances
               => InFlight(req[p])'

\* How one step moves a request.
LEMMA RequestMovesStep ==
  TypeOK /\ BookInv /\ [Next]_vars => RequestMoves
<1> SUFFICES ASSUME TypeOK, BookInv, [Next]_vars PROVE RequestMoves
  OBVIOUS
<1> USE DEF TypeOK, Stages, Settled, Decisions, InProgress, BookInv, RequestMoves
<1>Ask. ASSUME NEW r \in Requests, NEW i \in Instances, NEW a \in BOOLEAN, Ask(r, i, a) PROVE RequestMoves
  BY <1>Ask DEF Ask, AfterSubscribe, askVars, busVars, answerVars
<1>WriteKey. ASSUME NEW r \in Requests, WriteKey(r) PROVE RequestMoves
  BY <1>WriteKey DEF WriteKey, askVars, busVars, answerVars
<1>WriteReply. ASSUME NEW r \in Requests, WriteReply(r) PROVE RequestMoves
  BY <1>WriteReply DEF WriteReply, askVars, busVars, answerVars
<1>Forget. ASSUME NEW r \in Requests, Forget(r) PROVE RequestMoves
  BY <1>Forget DEF Forget, MarkedFirst, askVars, busVars, answerVars
<1>Timeout. ASSUME NEW r \in Requests, Timeout(r) PROVE RequestMoves
  BY <1>Timeout DEF Timeout, GiveUp, askVars, busVars, answerVars
<1>Abort. ASSUME NEW r \in Requests, Abort(r) PROVE RequestMoves
  BY <1>Abort DEF Abort, GiveUp, askVars, busVars, answerVars
<1>ExpireKey. ASSUME NEW r \in Requests, ExpireKey(r) PROVE RequestMoves
  BY <1>ExpireKey DEF ExpireKey, askVars, busVars, answerVars
<1>AnswerLocal. ASSUME NEW p \in Responders, NEW r \in Requests, NEW i \in Instances, NEW d \in Decisions, AnswerLocal(p, r, i, d) PROVE RequestMoves
  BY <1>AnswerLocal DEF AnswerLocal, Post, Pending, askVars, busVars, answerVars
<1>AnswerRemote. ASSUME NEW p \in Responders, NEW r \in Requests, NEW i \in Instances, NEW d \in Decisions, AnswerRemote(p, r, i, d) PROVE RequestMoves
  BY <1>AnswerRemote DEF AnswerRemote, Post, Pending, askVars, busVars, answerVars
<1>AnswerMiss. ASSUME NEW p \in Responders, NEW r \in Requests, NEW i \in Instances, NEW d \in Decisions, AnswerMiss(p, r, i, d) PROVE RequestMoves
  BY <1>AnswerMiss DEF AnswerMiss, Post, Pending, askVars, busVars, answerVars
<1>CheckMarker. ASSUME NEW p \in Responders, CheckMarker(p) PROVE RequestMoves
  BY <1>CheckMarker DEF CheckMarker, askVars, busVars, answerVars
<1>MarkLocal. ASSUME NEW p \in Responders, MarkLocal(p) PROVE RequestMoves
  BY <1>MarkLocal DEF MarkLocal, WriteMarker, askVars, busVars, answerVars
<1>MarkRemote. ASSUME NEW p \in Responders, MarkRemote(p) PROVE RequestMoves
  BY <1>MarkRemote DEF MarkRemote, WriteMarker, askVars, busVars, answerVars
<1>Publish. ASSUME NEW p \in Responders, Publish(p) PROVE RequestMoves
  BY <1>Publish DEF Publish, askVars, busVars, answerVars
<1>DeleteRemote. ASSUME NEW p \in Responders, DeleteRemote(p) PROVE RequestMoves
  BY <1>DeleteRemote DEF DeleteRemote, askVars, busVars, answerVars
<1>Subscribed. ASSUME NEW i \in Instances, Subscribed(i) PROVE RequestMoves
  BY <1>Subscribed DEF Subscribed, AfterSubscribe, askVars, busVars, answerVars
<1>Deliver. ASSUME NEW i \in Instances, Deliver(i) PROVE RequestMoves
  <2>1. PICK r \in Requests, d \in Decisions : Delivered(i, r, d)
    BY <1>Deliver, DeliverFacts
  <2>2. QED
    BY <2>1 DEF Delivered, Pending
<1>Crash. ASSUME NEW i \in Instances, Crash(i) PROVE RequestMoves
  BY <1>Crash DEF Crash, Returned, askVars, busVars, answerVars, Fault
<1>SubscribeFails. ASSUME NEW i \in Instances, SubscribeFails(i) PROVE RequestMoves
  BY <1>SubscribeFails DEF SubscribeFails, askVars, busVars, answerVars, Fault
<1>DropMessages. ASSUME NEW i \in Instances, DropMessages(i) PROVE RequestMoves
  BY <1>DropMessages DEF DropMessages, askVars, busVars, answerVars, Fault
<1>WriteFails. ASSUME NEW r \in Requests, WriteFails(r) PROVE RequestMoves
  BY <1>WriteFails DEF WriteFails, askVars, busVars, answerVars, Fault
<1>ForgetFails. ASSUME NEW r \in Requests, ForgetFails(r) PROVE RequestMoves
  BY <1>ForgetFails DEF ForgetFails, MarkedFirst, askVars, busVars, answerVars, Fault
<1>AnswerFails. ASSUME NEW p \in Responders, AnswerFails(p) PROVE RequestMoves
  BY <1>AnswerFails DEF AnswerFails, askVars, busVars, answerVars, Fault
<1>Stutter. CASE UNCHANGED vars
  BY <1>Stutter DEF vars
<1> HIDE DEF TypeOK, Stages, Settled, Decisions, InProgress, BookInv, RequestMoves
<1>QED. QED
  BY <1>Ask, <1>WriteKey, <1>WriteReply, <1>Forget, <1>Timeout, <1>Abort,
     <1>ExpireKey, <1>AnswerLocal, <1>AnswerRemote, <1>AnswerMiss, <1>CheckMarker, <1>MarkLocal,
     <1>MarkRemote, <1>Publish, <1>DeleteRemote, <1>Subscribed, <1>Deliver, <1>Crash,
     <1>SubscribeFails, <1>DropMessages, <1>WriteFails, <1>ForgetFails, <1>AnswerFails, <1>Stutter
     DEF Next, AskStep, AnswerStep, FaultStep

\* A message stays on its way until it is delivered or lost.
LEMMA FlightHoldsStep ==
  TypeOK /\ BookInv /\ [Next]_vars => FlightHolds
<1> SUFFICES ASSUME TypeOK, BookInv, [Next]_vars PROVE FlightHolds
  OBVIOUS
<1> USE DEF TypeOK, BookInv, FlightHolds, InFlight
<1>Ask. ASSUME NEW r \in Requests, NEW i \in Instances, NEW a \in BOOLEAN, Ask(r, i, a) PROVE FlightHolds
  BY <1>Ask DEF Ask, AfterSubscribe, askVars, busVars, answerVars
<1>WriteKey. ASSUME NEW r \in Requests, WriteKey(r) PROVE FlightHolds
  BY <1>WriteKey DEF WriteKey, askVars, busVars, answerVars
<1>WriteReply. ASSUME NEW r \in Requests, WriteReply(r) PROVE FlightHolds
  BY <1>WriteReply DEF WriteReply, askVars, busVars, answerVars
<1>Forget. ASSUME NEW r \in Requests, Forget(r) PROVE FlightHolds
  BY <1>Forget DEF Forget, MarkedFirst, askVars, busVars, answerVars
<1>Timeout. ASSUME NEW r \in Requests, Timeout(r) PROVE FlightHolds
  BY <1>Timeout DEF Timeout, GiveUp, askVars, busVars, answerVars
<1>Abort. ASSUME NEW r \in Requests, Abort(r) PROVE FlightHolds
  BY <1>Abort DEF Abort, GiveUp, askVars, busVars, answerVars
<1>ExpireKey. ASSUME NEW r \in Requests, ExpireKey(r) PROVE FlightHolds
  BY <1>ExpireKey DEF ExpireKey, askVars, busVars, answerVars
<1>AnswerLocal. ASSUME NEW p \in Responders, NEW r \in Requests, NEW i \in Instances, NEW d \in Decisions, AnswerLocal(p, r, i, d) PROVE FlightHolds
  BY <1>AnswerLocal DEF AnswerLocal, Post, Pending, askVars, busVars, answerVars
<1>AnswerRemote. ASSUME NEW p \in Responders, NEW r \in Requests, NEW i \in Instances, NEW d \in Decisions, AnswerRemote(p, r, i, d) PROVE FlightHolds
  BY <1>AnswerRemote DEF AnswerRemote, Post, Pending, askVars, busVars, answerVars
<1>AnswerMiss. ASSUME NEW p \in Responders, NEW r \in Requests, NEW i \in Instances, NEW d \in Decisions, AnswerMiss(p, r, i, d) PROVE FlightHolds
  BY <1>AnswerMiss DEF AnswerMiss, Post, Pending, askVars, busVars, answerVars
<1>CheckMarker. ASSUME NEW p \in Responders, CheckMarker(p) PROVE FlightHolds
  BY <1>CheckMarker DEF CheckMarker, askVars, busVars, answerVars
<1>MarkLocal. ASSUME NEW p \in Responders, MarkLocal(p) PROVE FlightHolds
  BY <1>MarkLocal DEF MarkLocal, WriteMarker, askVars, busVars, answerVars
<1>MarkRemote. ASSUME NEW p \in Responders, MarkRemote(p) PROVE FlightHolds
  BY <1>MarkRemote DEF MarkRemote, WriteMarker, askVars, busVars, answerVars
<1>Publish. ASSUME NEW p \in Responders, Publish(p) PROVE FlightHolds
  <2> DEFINE subs == {i \in Instances : manager[i] = "ready"}
             m0 == <<req[p], dec[p]>>
  <2>1. m0 \in Messages /\ inbox \in [Instances -> Seq(Messages)]
    BY <1>Publish DEF Publish, Messages, InProgress
  <2>2. inbox' = FanOut(inbox, subs, m0)
    BY <1>Publish DEF Publish
  <2> HIDE DEF subs, m0
  <2>3. \A i \in Instances :
          /\ Carried(inbox[i]) \subseteq Carried(inbox'[i])
          /\ i \in subs => m0 \in Carried(inbox'[i])
    BY ONLY <2>1, <2>2, FanOutFacts
  <2> SUFFICES ASSUME NEW r \in Requests, InFlight(r), outcome[r] = "waiting"
               PROVE  InFlight(r)'
    BY DEF FlightHolds
  <2>4. owner[r] \in Instances /\ owner' = owner
    BY <1>Publish DEF Publish, askVars, TypeOK, BookInv
  <2>5. PICK d \in Decisions : <<r, d>> \in Carried(inbox[owner[r]])
    BY DEF InFlight
  <2>6. <<r, d>> \in Carried(inbox'[owner[r]])
    BY ONLY <2>3, <2>4, <2>5
  <2>7. QED
    BY <2>4, <2>6 DEF InFlight
<1>DeleteRemote. ASSUME NEW p \in Responders, DeleteRemote(p) PROVE FlightHolds
  BY <1>DeleteRemote DEF DeleteRemote, askVars, busVars, answerVars
<1>Subscribed. ASSUME NEW i \in Instances, Subscribed(i) PROVE FlightHolds
  BY <1>Subscribed DEF Subscribed, AfterSubscribe, askVars, busVars, answerVars
<1>Deliver. ASSUME NEW i \in Instances, Deliver(i) PROVE FlightHolds
  <2>1. PICK r0 \in Requests, d0 \in Decisions : Delivered(i, r0, d0)
    BY <1>Deliver, DeliverFacts
  <2> SUFFICES ASSUME NEW r \in Requests, InFlight(r), outcome[r] = "waiting",
                      outcome'[r] = "waiting"
               PROVE  InFlight(r)' \/ r \in lost'
    BY DEF FlightHolds
  <2>2. owner[r] \in Instances /\ owner' = owner
    BY <2>1 DEF Delivered, TypeOK, BookInv
  <2>3. PICK d \in Decisions : <<r, d>> \in Carried(inbox[owner[r]])
    BY DEF InFlight
  <2>4. <<r, d>> \in Carried(inbox'[owner[r]])
    <3>1. CASE owner[r] # i
      BY <2>1, <2>2, <2>3, <3>1 DEF Delivered
    <3>2. CASE owner[r] = i
      <4>1. r # r0
        <5>1. CASE r0 \in Pending(i)
          BY <2>1, <5>1 DEF Delivered, Decisions, TypeOK
        <5>2. CASE r0 \notin Pending(i)
          BY <3>2, <5>2 DEF Pending
        <5>3. QED
          BY <5>1, <5>2
      <4>2. QED
        BY <2>1, <2>3, <3>2, <4>1 DEF Delivered
    <3>3. QED
      BY <3>1, <3>2
  <2>5. QED
    BY <2>2, <2>4 DEF InFlight
<1>Crash. ASSUME NEW i \in Instances, Crash(i) PROVE FlightHolds
  BY <1>Crash DEF Crash, Returned, askVars, busVars, answerVars, Fault
<1>SubscribeFails. ASSUME NEW i \in Instances, SubscribeFails(i) PROVE FlightHolds
  BY <1>SubscribeFails DEF SubscribeFails, askVars, busVars, answerVars, Fault
<1>DropMessages. ASSUME NEW i \in Instances, DropMessages(i) PROVE FlightHolds
  <2> SUFFICES ASSUME NEW r \in Requests, InFlight(r), outcome[r] = "waiting"
               PROVE  InFlight(r)' \/ r \in lost'
    BY DEF FlightHolds
  <2>1. owner[r] \in Instances /\ owner' = owner
    BY <1>DropMessages DEF DropMessages, askVars, TypeOK, BookInv
  <2>2. PICK d \in Decisions : <<r, d>> \in Carried(inbox[owner[r]])
    BY DEF InFlight
  <2>3. CASE owner[r] = i
    <3>1. <<r, d>>[1] \in {m[1] : m \in Carried(inbox[i])}
      BY <2>2, <2>3, Zenon
    <3>2. QED
      BY <1>DropMessages, <3>1 DEF DropMessages
  <2>4. CASE owner[r] # i
    <3>1. inbox'[owner[r]] = inbox[owner[r]]
      BY <1>DropMessages, <2>1, <2>4 DEF DropMessages, TypeOK
    <3>2. QED
      BY <2>1, <2>2, <3>1 DEF InFlight
  <2>5. QED
    BY <2>3, <2>4
<1>WriteFails. ASSUME NEW r \in Requests, WriteFails(r) PROVE FlightHolds
  BY <1>WriteFails DEF WriteFails, askVars, busVars, answerVars, Fault
<1>ForgetFails. ASSUME NEW r \in Requests, ForgetFails(r) PROVE FlightHolds
  BY <1>ForgetFails DEF ForgetFails, MarkedFirst, askVars, busVars, answerVars, Fault
<1>AnswerFails. ASSUME NEW p \in Responders, AnswerFails(p) PROVE FlightHolds
  BY <1>AnswerFails DEF AnswerFails, askVars, busVars, answerVars, Fault
<1>Stutter. CASE UNCHANGED vars
  BY <1>Stutter DEF vars
<1> HIDE DEF TypeOK, BookInv, FlightHolds, InFlight
<1>QED. QED
  BY <1>Ask, <1>WriteKey, <1>WriteReply, <1>Forget, <1>Timeout, <1>Abort,
     <1>ExpireKey, <1>AnswerLocal, <1>AnswerRemote, <1>AnswerMiss, <1>CheckMarker, <1>MarkLocal,
     <1>MarkRemote, <1>Publish, <1>DeleteRemote, <1>Subscribed, <1>Deliver, <1>Crash,
     <1>SubscribeFails, <1>DropMessages, <1>WriteFails, <1>ForgetFails, <1>AnswerFails, <1>Stutter
     DEF Next, AskStep, AnswerStep, FaultStep

\* An answer deletes the shared key only after it has published.
LEMMA PublishFirstStep ==
  TypeOK /\ [Next]_vars => PublishFirst
<1> SUFFICES ASSUME TypeOK, [Next]_vars PROVE PublishFirst
  OBVIOUS
<1> USE DEF TypeOK, PublishFirst, InFlight, InProgress
<1>Ask. ASSUME NEW r \in Requests, NEW i \in Instances, NEW a \in BOOLEAN, Ask(r, i, a) PROVE PublishFirst
  BY <1>Ask DEF Ask, AfterSubscribe, askVars, busVars, answerVars
<1>WriteKey. ASSUME NEW r \in Requests, WriteKey(r) PROVE PublishFirst
  BY <1>WriteKey DEF WriteKey, askVars, busVars, answerVars
<1>WriteReply. ASSUME NEW r \in Requests, WriteReply(r) PROVE PublishFirst
  BY <1>WriteReply DEF WriteReply, askVars, busVars, answerVars
<1>Forget. ASSUME NEW r \in Requests, Forget(r) PROVE PublishFirst
  BY <1>Forget DEF Forget, MarkedFirst, askVars, busVars, answerVars
<1>Timeout. ASSUME NEW r \in Requests, Timeout(r) PROVE PublishFirst
  BY <1>Timeout DEF Timeout, GiveUp, askVars, busVars, answerVars
<1>Abort. ASSUME NEW r \in Requests, Abort(r) PROVE PublishFirst
  BY <1>Abort DEF Abort, GiveUp, askVars, busVars, answerVars
<1>ExpireKey. ASSUME NEW r \in Requests, ExpireKey(r) PROVE PublishFirst
  BY <1>ExpireKey DEF ExpireKey, askVars, busVars, answerVars
<1>AnswerLocal. ASSUME NEW p \in Responders, NEW r \in Requests, NEW i \in Instances, NEW d \in Decisions, AnswerLocal(p, r, i, d) PROVE PublishFirst
  BY <1>AnswerLocal DEF AnswerLocal, Post, Pending, askVars, busVars, answerVars
<1>AnswerRemote. ASSUME NEW p \in Responders, NEW r \in Requests, NEW i \in Instances, NEW d \in Decisions, AnswerRemote(p, r, i, d) PROVE PublishFirst
  BY <1>AnswerRemote DEF AnswerRemote, Post, Pending, askVars, busVars, answerVars
<1>AnswerMiss. ASSUME NEW p \in Responders, NEW r \in Requests, NEW i \in Instances, NEW d \in Decisions, AnswerMiss(p, r, i, d) PROVE PublishFirst
  BY <1>AnswerMiss DEF AnswerMiss, Post, Pending, askVars, busVars, answerVars
<1>CheckMarker. ASSUME NEW p \in Responders, CheckMarker(p) PROVE PublishFirst
  BY <1>CheckMarker DEF CheckMarker, askVars, busVars, answerVars
<1>MarkLocal. ASSUME NEW p \in Responders, MarkLocal(p) PROVE PublishFirst
  BY <1>MarkLocal DEF MarkLocal, WriteMarker, askVars, busVars, answerVars
<1>MarkRemote. ASSUME NEW p \in Responders, MarkRemote(p) PROVE PublishFirst
  BY <1>MarkRemote DEF MarkRemote, WriteMarker, askVars, busVars, answerVars
<1>Publish. ASSUME NEW p \in Responders, Publish(p) PROVE PublishFirst
  <2> DEFINE subs == {i \in Instances : manager[i] = "ready"}
             m0 == <<req[p], dec[p]>>
  <2>1. m0 \in Messages /\ inbox \in [Instances -> Seq(Messages)]
    BY <1>Publish DEF Publish, Messages, InProgress
  <2>2. inbox' = FanOut(inbox, subs, m0)
    BY <1>Publish DEF Publish
  <2> HIDE DEF subs, m0
  <2>3. \A i \in Instances :
          /\ Carried(inbox[i]) \subseteq Carried(inbox'[i])
          /\ i \in subs => m0 \in Carried(inbox'[i])
    BY ONLY <2>1, <2>2, FanOutFacts
  <2>4. ASSUME manager[owner[req[p]]] = "ready", owner[req[p]] \in Instances
        PROVE  InFlight(req[p])'
    <3>1. owner[req[p]] \in subs
      BY <2>4 DEF subs
    <3>2. <<req[p], dec[p]>> \in Carried(inbox'[owner[req[p]]])
      BY ONLY <2>3, <2>4, <3>1 DEF m0
    <3>3. UNCHANGED <<owner, req>> /\ dec[p] \in Decisions
      BY <1>Publish DEF Publish, askVars, InProgress
    <3>4. QED
      BY <3>2, <3>3
  <2>5. QED
    BY <1>Publish, <2>4 DEF Publish, askVars
<1>DeleteRemote. ASSUME NEW p \in Responders, DeleteRemote(p) PROVE PublishFirst
  BY <1>DeleteRemote DEF DeleteRemote, askVars, busVars, answerVars
<1>Subscribed. ASSUME NEW i \in Instances, Subscribed(i) PROVE PublishFirst
  BY <1>Subscribed DEF Subscribed, AfterSubscribe, askVars, busVars, answerVars
<1>Deliver. ASSUME NEW i \in Instances, Deliver(i) PROVE PublishFirst
  <2>1. PICK r \in Requests, d \in Decisions : Delivered(i, r, d)
    BY <1>Deliver, DeliverFacts
  <2>2. QED
    BY <2>1 DEF Delivered, Pending
<1>Crash. ASSUME NEW i \in Instances, Crash(i) PROVE PublishFirst
  BY <1>Crash DEF Crash, Returned, askVars, busVars, answerVars, Fault
<1>SubscribeFails. ASSUME NEW i \in Instances, SubscribeFails(i) PROVE PublishFirst
  BY <1>SubscribeFails DEF SubscribeFails, askVars, busVars, answerVars, Fault
<1>DropMessages. ASSUME NEW i \in Instances, DropMessages(i) PROVE PublishFirst
  BY <1>DropMessages DEF DropMessages, askVars, busVars, answerVars, Fault
<1>WriteFails. ASSUME NEW r \in Requests, WriteFails(r) PROVE PublishFirst
  BY <1>WriteFails DEF WriteFails, askVars, busVars, answerVars, Fault
<1>ForgetFails. ASSUME NEW r \in Requests, ForgetFails(r) PROVE PublishFirst
  BY <1>ForgetFails DEF ForgetFails, MarkedFirst, askVars, busVars, answerVars, Fault
<1>AnswerFails. ASSUME NEW p \in Responders, AnswerFails(p) PROVE PublishFirst
  BY <1>AnswerFails DEF AnswerFails, askVars, busVars, answerVars, Fault
<1>Stutter. CASE UNCHANGED vars
  BY <1>Stutter DEF vars
<1> HIDE DEF TypeOK, PublishFirst, InFlight, InProgress
<1>QED. QED
  BY <1>Ask, <1>WriteKey, <1>WriteReply, <1>Forget, <1>Timeout, <1>Abort,
     <1>ExpireKey, <1>AnswerLocal, <1>AnswerRemote, <1>AnswerMiss, <1>CheckMarker, <1>MarkLocal,
     <1>MarkRemote, <1>Publish, <1>DeleteRemote, <1>Subscribed, <1>Deliver, <1>Crash,
     <1>SubscribeFails, <1>DropMessages, <1>WriteFails, <1>ForgetFails, <1>AnswerFails, <1>Stutter
     DEF Next, AskStep, AnswerStep, FaultStep

\* A waiting request stays reachable whatever a step does.
LEMMA ReachNext ==
  TypeOK /\ BookInv /\ AnswerInv /\ ReachInv /\ [Next]_vars => ReachInv'
<1> SUFFICES ASSUME TypeOK, BookInv, AnswerInv, ReachInv, [Next]_vars PROVE ReachInv'
  OBVIOUS
<1>1. RequestMoves /\ FlightHolds /\ PublishFirst /\ lost \subseteq lost'
  BY RequestMovesStep, FlightHoldsStep, PublishFirstStep, LostGrowStep DEF LostGrow
<1>2. ASSUME NEW r \in Requests, outcome'[r] = "waiting", stage'[r] \in {"acked", "done"}
      PROVE  r \in keys' \/ InFlight(r)' \/ r \in lost'
  <2>1. CASE stage[r] \in {"acked", "done"}
    <3>1. outcome[r] = "waiting"
      BY <1>1, <1>2, <2>1 DEF RequestMoves
    <3>2. InFlight(r) \/ r \in lost => InFlight(r)' \/ r \in lost'
      BY <1>1, <1>2, <3>1 DEF FlightHolds
    <3>3. CASE r \in keys
      <4>1. r \in keys' \/ \E p \in Responders : pc[p] = "deleting" /\ req[p] = r
        BY <1>1, <1>2, <3>3 DEF RequestMoves
      <4>2. QED
        BY <2>1, <3>1, <3>2, <4>1 DEF ReachInv
    <3>4. QED
      BY <2>1, <3>1, <3>2, <3>3 DEF ReachInv, WaitingIsReachable
  <2>2. QED
    BY <1>1, <1>2, <2>1 DEF RequestMoves
<1>3. ASSUME NEW p \in Responders, NEW r, req'[p] = r, pc'[p] = "deleting",
             outcome'[r] = "waiting", stage'[r] \in {"acked", "done"}
      PROVE  InFlight(r)' \/ r \in lost'
  <2>1. req[p] = r /\ pc[p] \in {"deleting", "publishing"}
    BY <1>1, <1>3 DEF PublishFirst
  <2>2. r \in Requests /\ stage[r] \in {"acked", "done", "failed"}
    BY <2>1 DEF AnswerInv, TypeOK
  <2>3. stage[r] \in {"acked", "done"} /\ outcome[r] = "waiting"
    BY <1>1, <1>3, <2>2 DEF RequestMoves
  <2>4. CASE pc[p] = "deleting"
    <3>1. InFlight(r) \/ r \in lost
      BY <2>1, <2>3, <2>4 DEF ReachInv
    <3>2. QED
      BY <1>1, <1>3, <2>2, <2>3, <3>1 DEF FlightHolds
  <2>5. CASE pc[p] = "publishing"
    <3>1. manager[owner[r]] = "ready" /\ owner[r] \in Instances
      BY <2>2, <2>3 DEF BookInv, TypeOK
    <3>2. InFlight(req[p])'
      BY <1>1, <1>3, <2>1, <2>5, <3>1 DEF PublishFirst
    <3>3. QED
      BY <1>3, <3>2 DEF InFlight
  <2>6. QED
    BY <2>1, <2>4, <2>5
<1>4. QED
  BY <1>2, <1>3 DEF ReachInv, WaitingIsReachable, InFlight

\* Where a decision comes from, and what becomes of the local answer that is
\* still writing its marker.
DecisionMoves ==
  /\ \A i \in Instances : manager[i] = "dead" => manager'[i] = "dead"
  /\ \A r \in Requests : outcome'[r] \in Decisions =>
       \/ outcome[r] \in Decisions
       \/ \E p \in Responders : req'[p] = r /\ at'[p] = owner'[r] /\ pc'[p] = "marking"
       \/ \E i \in Instances : \E d \in Decisions : <<r, d>> \in Carried(inbox[i])
  /\ \A p \in Responders : pc[p] \in {"marking", "error"} =>
       pc'[p] \in {"marking", "error"} \/ req[p] \in markers'

MarkingMoves ==
  \A p \in Responders : pc'[p] = "marking" =>
    /\ req'[p] \in Requests
    /\ \/ /\ pc[p] = "marking" /\ req'[p] = req[p]
          /\ req[p] \in keys /\ stage[req[p]] # "failed"
               => req[p] \in keys' \/ req[p] \in markers
       \/ /\ outcome[req'[p]] = "waiting"
          /\ UNCHANGED <<stage, keys, markers>>

\* How one step brings a decision about.
LEMMA DecisionMovesStep ==
  TypeOK /\ [Next]_vars => DecisionMoves
<1> SUFFICES ASSUME TypeOK, [Next]_vars PROVE DecisionMoves
  OBVIOUS
<1> USE DEF TypeOK, DecisionMoves, Decisions, Settled
<1>Ask. ASSUME NEW r \in Requests, NEW i \in Instances, NEW a \in BOOLEAN, Ask(r, i, a) PROVE DecisionMoves
  BY <1>Ask DEF Ask, AfterSubscribe, askVars, busVars, answerVars
<1>WriteKey. ASSUME NEW r \in Requests, WriteKey(r) PROVE DecisionMoves
  BY <1>WriteKey DEF WriteKey, askVars, busVars, answerVars
<1>WriteReply. ASSUME NEW r \in Requests, WriteReply(r) PROVE DecisionMoves
  BY <1>WriteReply DEF WriteReply, askVars, busVars, answerVars
<1>Forget. ASSUME NEW r \in Requests, Forget(r) PROVE DecisionMoves
  BY <1>Forget DEF Forget, MarkedFirst, askVars, busVars, answerVars
<1>Timeout. ASSUME NEW r \in Requests, Timeout(r) PROVE DecisionMoves
  BY <1>Timeout DEF Timeout, GiveUp, askVars, busVars, answerVars
<1>Abort. ASSUME NEW r \in Requests, Abort(r) PROVE DecisionMoves
  BY <1>Abort DEF Abort, GiveUp, askVars, busVars, answerVars
<1>ExpireKey. ASSUME NEW r \in Requests, ExpireKey(r) PROVE DecisionMoves
  BY <1>ExpireKey DEF ExpireKey, askVars, busVars, answerVars
<1>AnswerLocal. ASSUME NEW p \in Responders, NEW r \in Requests, NEW i \in Instances, NEW d \in Decisions, AnswerLocal(p, r, i, d) PROVE DecisionMoves
  BY <1>AnswerLocal DEF AnswerLocal, Post, Pending, askVars, busVars, answerVars
<1>AnswerRemote. ASSUME NEW p \in Responders, NEW r \in Requests, NEW i \in Instances, NEW d \in Decisions, AnswerRemote(p, r, i, d) PROVE DecisionMoves
  BY <1>AnswerRemote DEF AnswerRemote, Post, Pending, askVars, busVars, answerVars
<1>AnswerMiss. ASSUME NEW p \in Responders, NEW r \in Requests, NEW i \in Instances, NEW d \in Decisions, AnswerMiss(p, r, i, d) PROVE DecisionMoves
  BY <1>AnswerMiss DEF AnswerMiss, Post, Pending, askVars, busVars, answerVars
<1>CheckMarker. ASSUME NEW p \in Responders, CheckMarker(p) PROVE DecisionMoves
  BY <1>CheckMarker DEF CheckMarker, askVars, busVars, answerVars
<1>MarkLocal. ASSUME NEW p \in Responders, MarkLocal(p) PROVE DecisionMoves
  BY <1>MarkLocal DEF MarkLocal, WriteMarker, askVars, busVars, answerVars
<1>MarkRemote. ASSUME NEW p \in Responders, MarkRemote(p) PROVE DecisionMoves
  BY <1>MarkRemote DEF MarkRemote, WriteMarker, askVars, busVars, answerVars
<1>Publish. ASSUME NEW p \in Responders, Publish(p) PROVE DecisionMoves
  BY <1>Publish DEF Publish, askVars, busVars, answerVars
<1>DeleteRemote. ASSUME NEW p \in Responders, DeleteRemote(p) PROVE DecisionMoves
  BY <1>DeleteRemote DEF DeleteRemote, askVars, busVars, answerVars
<1>Subscribed. ASSUME NEW i \in Instances, Subscribed(i) PROVE DecisionMoves
  BY <1>Subscribed DEF Subscribed, AfterSubscribe, askVars, busVars, answerVars
<1>Deliver. ASSUME NEW i \in Instances, Deliver(i) PROVE DecisionMoves
  <2>1. PICK r \in Requests, d \in Decisions : Delivered(i, r, d)
    BY <1>Deliver, DeliverFacts
  <2>2. QED
    BY <2>1 DEF Delivered, Pending
<1>Crash. ASSUME NEW i \in Instances, Crash(i) PROVE DecisionMoves
  BY <1>Crash DEF Crash, Returned, askVars, busVars, answerVars, Fault
<1>SubscribeFails. ASSUME NEW i \in Instances, SubscribeFails(i) PROVE DecisionMoves
  BY <1>SubscribeFails DEF SubscribeFails, askVars, busVars, answerVars, Fault
<1>DropMessages. ASSUME NEW i \in Instances, DropMessages(i) PROVE DecisionMoves
  BY <1>DropMessages DEF DropMessages, askVars, busVars, answerVars, Fault
<1>WriteFails. ASSUME NEW r \in Requests, WriteFails(r) PROVE DecisionMoves
  BY <1>WriteFails DEF WriteFails, askVars, busVars, answerVars, Fault
<1>ForgetFails. ASSUME NEW r \in Requests, ForgetFails(r) PROVE DecisionMoves
  BY <1>ForgetFails DEF ForgetFails, MarkedFirst, askVars, busVars, answerVars, Fault
<1>AnswerFails. ASSUME NEW p \in Responders, AnswerFails(p) PROVE DecisionMoves
  BY <1>AnswerFails DEF AnswerFails, askVars, busVars, answerVars, Fault
<1>Stutter. CASE UNCHANGED vars
  BY <1>Stutter DEF vars
<1> HIDE DEF TypeOK, DecisionMoves, Decisions, Settled
<1>QED. QED
  BY <1>Ask, <1>WriteKey, <1>WriteReply, <1>Forget, <1>Timeout, <1>Abort,
     <1>ExpireKey, <1>AnswerLocal, <1>AnswerRemote, <1>AnswerMiss, <1>CheckMarker, <1>MarkLocal,
     <1>MarkRemote, <1>Publish, <1>DeleteRemote, <1>Subscribed, <1>Deliver, <1>Crash,
     <1>SubscribeFails, <1>DropMessages, <1>WriteFails, <1>ForgetFails, <1>AnswerFails, <1>Stutter
     DEF Next, AskStep, AnswerStep, FaultStep

\* While an answer is about to write the marker its key stays.
LEMMA MarkingMovesStep ==
  TypeOK /\ BookInv /\ AnswerInv /\ [Next]_vars => MarkingMoves
<1> SUFFICES ASSUME TypeOK, BookInv, AnswerInv, [Next]_vars PROVE MarkingMoves
  OBVIOUS
<1> USE DEF TypeOK, Stages, Settled, Decisions, InProgress, BookInv, AnswerInv, MarkingMoves
<1>Ask. ASSUME NEW r \in Requests, NEW i \in Instances, NEW a \in BOOLEAN, Ask(r, i, a) PROVE MarkingMoves
  BY <1>Ask DEF Ask, AfterSubscribe, askVars, busVars, answerVars
<1>WriteKey. ASSUME NEW r \in Requests, WriteKey(r) PROVE MarkingMoves
  BY <1>WriteKey DEF WriteKey, askVars, busVars, answerVars
<1>WriteReply. ASSUME NEW r \in Requests, WriteReply(r) PROVE MarkingMoves
  BY <1>WriteReply DEF WriteReply, askVars, busVars, answerVars
<1>Forget. ASSUME NEW r \in Requests, Forget(r) PROVE MarkingMoves
  BY <1>Forget DEF Forget, MarkedFirst, askVars, busVars, answerVars
<1>Timeout. ASSUME NEW r \in Requests, Timeout(r) PROVE MarkingMoves
  BY <1>Timeout DEF Timeout, GiveUp, askVars, busVars, answerVars
<1>Abort. ASSUME NEW r \in Requests, Abort(r) PROVE MarkingMoves
  BY <1>Abort DEF Abort, GiveUp, askVars, busVars, answerVars
<1>ExpireKey. ASSUME NEW r \in Requests, ExpireKey(r) PROVE MarkingMoves
  BY <1>ExpireKey DEF ExpireKey, askVars, busVars, answerVars
<1>AnswerLocal. ASSUME NEW p \in Responders, NEW r \in Requests, NEW i \in Instances, NEW d \in Decisions, AnswerLocal(p, r, i, d) PROVE MarkingMoves
  BY <1>AnswerLocal DEF AnswerLocal, Post, Pending, askVars, busVars, answerVars
<1>AnswerRemote. ASSUME NEW p \in Responders, NEW r \in Requests, NEW i \in Instances, NEW d \in Decisions, AnswerRemote(p, r, i, d) PROVE MarkingMoves
  BY <1>AnswerRemote DEF AnswerRemote, Post, Pending, askVars, busVars, answerVars
<1>AnswerMiss. ASSUME NEW p \in Responders, NEW r \in Requests, NEW i \in Instances, NEW d \in Decisions, AnswerMiss(p, r, i, d) PROVE MarkingMoves
  BY <1>AnswerMiss DEF AnswerMiss, Post, Pending, askVars, busVars, answerVars
<1>CheckMarker. ASSUME NEW p \in Responders, CheckMarker(p) PROVE MarkingMoves
  BY <1>CheckMarker DEF CheckMarker, askVars, busVars, answerVars
<1>MarkLocal. ASSUME NEW p \in Responders, MarkLocal(p) PROVE MarkingMoves
  BY <1>MarkLocal DEF MarkLocal, WriteMarker, askVars, busVars, answerVars
<1>MarkRemote. ASSUME NEW p \in Responders, MarkRemote(p) PROVE MarkingMoves
  BY <1>MarkRemote DEF MarkRemote, WriteMarker, askVars, busVars, answerVars
<1>Publish. ASSUME NEW p \in Responders, Publish(p) PROVE MarkingMoves
  BY <1>Publish DEF Publish, askVars, busVars, answerVars
<1>DeleteRemote. ASSUME NEW p \in Responders, DeleteRemote(p) PROVE MarkingMoves
  BY <1>DeleteRemote DEF DeleteRemote, askVars, busVars, answerVars
<1>Subscribed. ASSUME NEW i \in Instances, Subscribed(i) PROVE MarkingMoves
  BY <1>Subscribed DEF Subscribed, AfterSubscribe, askVars, busVars, answerVars
<1>Deliver. ASSUME NEW i \in Instances, Deliver(i) PROVE MarkingMoves
  <2>1. PICK r \in Requests, d \in Decisions : Delivered(i, r, d)
    BY <1>Deliver, DeliverFacts
  <2>2. QED
    BY <2>1 DEF Delivered, Pending
<1>Crash. ASSUME NEW i \in Instances, Crash(i) PROVE MarkingMoves
  BY <1>Crash DEF Crash, Returned, askVars, busVars, answerVars, Fault
<1>SubscribeFails. ASSUME NEW i \in Instances, SubscribeFails(i) PROVE MarkingMoves
  BY <1>SubscribeFails DEF SubscribeFails, askVars, busVars, answerVars, Fault
<1>DropMessages. ASSUME NEW i \in Instances, DropMessages(i) PROVE MarkingMoves
  BY <1>DropMessages DEF DropMessages, askVars, busVars, answerVars, Fault
<1>WriteFails. ASSUME NEW r \in Requests, WriteFails(r) PROVE MarkingMoves
  BY <1>WriteFails DEF WriteFails, askVars, busVars, answerVars, Fault
<1>ForgetFails. ASSUME NEW r \in Requests, ForgetFails(r) PROVE MarkingMoves
  BY <1>ForgetFails DEF ForgetFails, MarkedFirst, askVars, busVars, answerVars, Fault
<1>AnswerFails. ASSUME NEW p \in Responders, AnswerFails(p) PROVE MarkingMoves
  BY <1>AnswerFails DEF AnswerFails, askVars, busVars, answerVars, Fault
<1>Stutter. CASE UNCHANGED vars
  BY <1>Stutter DEF vars
<1> HIDE DEF TypeOK, Stages, Settled, Decisions, InProgress, BookInv, AnswerInv, MarkingMoves
<1>QED. QED
  BY <1>Ask, <1>WriteKey, <1>WriteReply, <1>Forget, <1>Timeout, <1>Abort,
     <1>ExpireKey, <1>AnswerLocal, <1>AnswerRemote, <1>AnswerMiss, <1>CheckMarker, <1>MarkLocal,
     <1>MarkRemote, <1>Publish, <1>DeleteRemote, <1>Subscribed, <1>Deliver, <1>Crash,
     <1>SubscribeFails, <1>DropMessages, <1>WriteFails, <1>ForgetFails, <1>AnswerFails, <1>Stutter
     DEF Next, AskStep, AnswerStep, FaultStep

\* An answered request keeps its trace whatever a step does.
LEMMA TraceNext ==
  TypeOK /\ BookInv /\ AnswerInv /\ ClaimInv /\ ReachInv /\ TraceInv /\ [Next]_vars => TraceInv'
<1> SUFFICES ASSUME TypeOK, BookInv, AnswerInv, ClaimInv, ReachInv, TraceInv, [Next]_vars
             PROVE  TraceInv'
  OBVIOUS
<1>1. /\ AnswersGrow /\ MarkersGrow /\ RequestMoves /\ DecisionMoves /\ MarkingMoves
      /\ TypeOK' /\ BookInv'
  BY AnswersGrowStep, MarkersGrowStep, RequestMovesStep, DecisionMovesStep,
     MarkingMovesStep, TypeNext, BookNext
<1>2. ASSUME NEW r \in Requests, outcome'[r] \in Decisions, manager'[owner'[r]] # "dead"
      PROVE  \/ r \in markers'
             \/ \E p \in Responders :
                  req'[p] = r /\ at'[p] = owner'[r] /\ pc'[p] \in {"marking", "error"}
  <2>1. CASE outcome[r] \in Decisions
    <3>1. owner[r] \in Instances /\ owner'[r] = owner[r] /\ manager[owner[r]] # "dead"
      BY <1>1, <1>2, <2>1 DEF TypeOK, BookInv, RequestMoves, DecisionMoves, Decisions
    <3>2. CASE r \in markers
      BY <1>1, <3>2 DEF MarkersGrow
    <3>3. CASE r \notin markers
      <4>1. PICK p \in Responders :
              req[p] = r /\ at[p] = owner[r] /\ pc[p] \in {"marking", "error"}
        BY <2>1, <3>1, <3>3 DEF TraceInv
      <4>2. req'[p] = r /\ at'[p] = owner'[r]
        BY <1>1, <3>1, <4>1 DEF AnswersGrow
      <4>3. QED
        BY <1>1, <4>1, <4>2 DEF DecisionMoves
    <3>4. QED
      BY <3>2, <3>3
  <2>2. CASE \E i \in Instances : \E d \in Decisions : <<r, d>> \in Carried(inbox[i])
    <3>1. PICK i \in Instances, d \in Decisions : <<r, d>> \in Carried(inbox[i])
      BY <2>2
    <3>2. <<r, d>>[1] \in markers
      BY <3>1 DEF ClaimInv
    <3>3. QED
      BY <1>1, <3>2 DEF MarkersGrow
  <2>3. QED
    BY <1>1, <1>2, <2>1, <2>2 DEF DecisionMoves
<1>3. ASSUME NEW p \in Responders, pc'[p] = "marking", stage'[req'[p]] \in {"acked", "done"}
      PROVE  req'[p] \in keys' \cup markers'
  <2>1. CASE /\ pc[p] = "marking" /\ req'[p] = req[p]
             /\ req[p] \in keys /\ stage[req[p]] # "failed"
                  => req[p] \in keys' \/ req[p] \in markers
    <3>1. req[p] \in Requests
      BY <1>1, <1>3, <2>1 DEF MarkingMoves
    <3>2. stage[req[p]] \in {"acked", "done"} \/ req[p] \in keys'
      BY <1>1, <1>3, <2>1, <3>1 DEF RequestMoves
    <3>3. QED
      BY <1>1, <2>1, <3>2 DEF TraceInv, MarkersGrow
  <2>2. CASE outcome[req'[p]] = "waiting" /\ UNCHANGED <<stage, keys, markers>>
    <3> DEFINE r == req'[p]
    <3>1. r \in Requests /\ stage[r] \in {"acked", "done"}
      BY <1>1, <1>3, <2>2 DEF MarkingMoves
    <3>2. r \in keys \/ InFlight(r) \/ r \in lost
      BY <2>2, <3>1 DEF ReachInv, WaitingIsReachable
    <3>3. owner[r] \in Instances
      BY <3>1 DEF TypeOK, BookInv
    <3>4. InFlight(r) => r \in markers
      <4>1. ASSUME NEW d \in Decisions, <<r, d>> \in Carried(inbox[owner[r]])
            PROVE  <<r, d>>[1] \in markers
        BY <3>3, <4>1 DEF ClaimInv
      <4>2. QED
        BY <4>1 DEF InFlight
    <3>5. QED
      BY <2>2, <3>2, <3>4 DEF ClaimInv
  <2>3. QED
    BY <1>1, <1>3, <2>1, <2>2 DEF MarkingMoves
<1>4. QED
  BY <1>2, <1>3 DEF TraceInv

\* Only the shared write creates a shared key.
KeyMoves ==
  \A r \in Requests : r \in keys' => r \in keys \/ stage[r] = "writing"

\* No step but the shared write creates a shared key.
LEMMA KeyMovesStep ==
  TypeOK /\ [Next]_vars => KeyMoves
<1> SUFFICES ASSUME TypeOK, [Next]_vars PROVE KeyMoves
  OBVIOUS
<1> USE DEF TypeOK, KeyMoves
<1>Ask. ASSUME NEW r \in Requests, NEW i \in Instances, NEW a \in BOOLEAN, Ask(r, i, a) PROVE KeyMoves
  BY <1>Ask DEF Ask, AfterSubscribe, askVars, busVars, answerVars
<1>WriteKey. ASSUME NEW r \in Requests, WriteKey(r) PROVE KeyMoves
  BY <1>WriteKey DEF WriteKey, askVars, busVars, answerVars
<1>WriteReply. ASSUME NEW r \in Requests, WriteReply(r) PROVE KeyMoves
  BY <1>WriteReply DEF WriteReply, askVars, busVars, answerVars
<1>Forget. ASSUME NEW r \in Requests, Forget(r) PROVE KeyMoves
  BY <1>Forget DEF Forget, MarkedFirst, askVars, busVars, answerVars
<1>Timeout. ASSUME NEW r \in Requests, Timeout(r) PROVE KeyMoves
  BY <1>Timeout DEF Timeout, GiveUp, askVars, busVars, answerVars
<1>Abort. ASSUME NEW r \in Requests, Abort(r) PROVE KeyMoves
  BY <1>Abort DEF Abort, GiveUp, askVars, busVars, answerVars
<1>ExpireKey. ASSUME NEW r \in Requests, ExpireKey(r) PROVE KeyMoves
  BY <1>ExpireKey DEF ExpireKey, askVars, busVars, answerVars
<1>AnswerLocal. ASSUME NEW p \in Responders, NEW r \in Requests, NEW i \in Instances, NEW d \in Decisions, AnswerLocal(p, r, i, d) PROVE KeyMoves
  BY <1>AnswerLocal DEF AnswerLocal, Post, Pending, askVars, busVars, answerVars
<1>AnswerRemote. ASSUME NEW p \in Responders, NEW r \in Requests, NEW i \in Instances, NEW d \in Decisions, AnswerRemote(p, r, i, d) PROVE KeyMoves
  BY <1>AnswerRemote DEF AnswerRemote, Post, Pending, askVars, busVars, answerVars
<1>AnswerMiss. ASSUME NEW p \in Responders, NEW r \in Requests, NEW i \in Instances, NEW d \in Decisions, AnswerMiss(p, r, i, d) PROVE KeyMoves
  BY <1>AnswerMiss DEF AnswerMiss, Post, Pending, askVars, busVars, answerVars
<1>CheckMarker. ASSUME NEW p \in Responders, CheckMarker(p) PROVE KeyMoves
  BY <1>CheckMarker DEF CheckMarker, askVars, busVars, answerVars
<1>MarkLocal. ASSUME NEW p \in Responders, MarkLocal(p) PROVE KeyMoves
  BY <1>MarkLocal DEF MarkLocal, WriteMarker, askVars, busVars, answerVars
<1>MarkRemote. ASSUME NEW p \in Responders, MarkRemote(p) PROVE KeyMoves
  BY <1>MarkRemote DEF MarkRemote, WriteMarker, askVars, busVars, answerVars
<1>Publish. ASSUME NEW p \in Responders, Publish(p) PROVE KeyMoves
  BY <1>Publish DEF Publish, askVars, busVars, answerVars
<1>DeleteRemote. ASSUME NEW p \in Responders, DeleteRemote(p) PROVE KeyMoves
  BY <1>DeleteRemote DEF DeleteRemote, askVars, busVars, answerVars
<1>Subscribed. ASSUME NEW i \in Instances, Subscribed(i) PROVE KeyMoves
  BY <1>Subscribed DEF Subscribed, AfterSubscribe, askVars, busVars, answerVars
<1>Deliver. ASSUME NEW i \in Instances, Deliver(i) PROVE KeyMoves
  <2>1. PICK r \in Requests, d \in Decisions : Delivered(i, r, d)
    BY <1>Deliver, DeliverFacts
  <2>2. QED
    BY <2>1 DEF Delivered, Pending
<1>Crash. ASSUME NEW i \in Instances, Crash(i) PROVE KeyMoves
  BY <1>Crash DEF Crash, Returned, askVars, busVars, answerVars, Fault
<1>SubscribeFails. ASSUME NEW i \in Instances, SubscribeFails(i) PROVE KeyMoves
  BY <1>SubscribeFails DEF SubscribeFails, askVars, busVars, answerVars, Fault
<1>DropMessages. ASSUME NEW i \in Instances, DropMessages(i) PROVE KeyMoves
  BY <1>DropMessages DEF DropMessages, askVars, busVars, answerVars, Fault
<1>WriteFails. ASSUME NEW r \in Requests, WriteFails(r) PROVE KeyMoves
  BY <1>WriteFails DEF WriteFails, askVars, busVars, answerVars, Fault
<1>ForgetFails. ASSUME NEW r \in Requests, ForgetFails(r) PROVE KeyMoves
  BY <1>ForgetFails DEF ForgetFails, MarkedFirst, askVars, busVars, answerVars, Fault
<1>AnswerFails. ASSUME NEW p \in Responders, AnswerFails(p) PROVE KeyMoves
  BY <1>AnswerFails DEF AnswerFails, askVars, busVars, answerVars, Fault
<1>Stutter. CASE UNCHANGED vars
  BY <1>Stutter DEF vars
<1> HIDE DEF TypeOK, KeyMoves
<1>QED. QED
  BY <1>Ask, <1>WriteKey, <1>WriteReply, <1>Forget, <1>Timeout, <1>Abort,
     <1>ExpireKey, <1>AnswerLocal, <1>AnswerRemote, <1>AnswerMiss, <1>CheckMarker, <1>MarkLocal,
     <1>MarkRemote, <1>Publish, <1>DeleteRemote, <1>Subscribed, <1>Deliver, <1>Crash,
     <1>SubscribeFails, <1>DropMessages, <1>WriteFails, <1>ForgetFails, <1>AnswerFails, <1>Stutter
     DEF Next, AskStep, AnswerStep, FaultStep

\* Where the two dead ends of an answer come from.
GoneMoves ==
  \A p \in Responders : pc'[p] = "gone" =>
    \/ pc[p] = "gone" /\ req'[p] = req[p]
    \/ pc[p] = "checking" /\ req'[p] = req[p] /\ req[p] \in markers
    \/ pc[p] = "idle" /\ \E i \in Instances : req'[p] \in known[i]

DecidedMoves ==
  \A r \in Requests : outcome'[r] \in Decisions =>
    \/ outcome'[r] = outcome[r]
    \/ \E p \in Responders : pc'[p] # "idle" /\ <<req'[p], dec'[p]>> = <<r, outcome'[r]>>
    \/ \E i \in Instances : <<r, outcome'[r]>> \in Carried(inbox[i])

\* How an answer comes to be told gone.
LEMMA GoneMovesStep ==
  TypeOK /\ [Next]_vars => GoneMoves
<1> SUFFICES ASSUME TypeOK, [Next]_vars PROVE GoneMoves
  OBVIOUS
<1> USE DEF TypeOK, GoneMoves, InProgress
<1>Ask. ASSUME NEW r \in Requests, NEW i \in Instances, NEW a \in BOOLEAN, Ask(r, i, a) PROVE GoneMoves
  BY <1>Ask DEF Ask, AfterSubscribe, askVars, busVars, answerVars
<1>WriteKey. ASSUME NEW r \in Requests, WriteKey(r) PROVE GoneMoves
  BY <1>WriteKey DEF WriteKey, askVars, busVars, answerVars
<1>WriteReply. ASSUME NEW r \in Requests, WriteReply(r) PROVE GoneMoves
  BY <1>WriteReply DEF WriteReply, askVars, busVars, answerVars
<1>Forget. ASSUME NEW r \in Requests, Forget(r) PROVE GoneMoves
  BY <1>Forget DEF Forget, MarkedFirst, askVars, busVars, answerVars
<1>Timeout. ASSUME NEW r \in Requests, Timeout(r) PROVE GoneMoves
  BY <1>Timeout DEF Timeout, GiveUp, askVars, busVars, answerVars
<1>Abort. ASSUME NEW r \in Requests, Abort(r) PROVE GoneMoves
  BY <1>Abort DEF Abort, GiveUp, askVars, busVars, answerVars
<1>ExpireKey. ASSUME NEW r \in Requests, ExpireKey(r) PROVE GoneMoves
  BY <1>ExpireKey DEF ExpireKey, askVars, busVars, answerVars
<1>AnswerLocal. ASSUME NEW p \in Responders, NEW r \in Requests, NEW i \in Instances, NEW d \in Decisions, AnswerLocal(p, r, i, d) PROVE GoneMoves
  BY <1>AnswerLocal DEF AnswerLocal, Post, Pending, askVars, busVars, answerVars
<1>AnswerRemote. ASSUME NEW p \in Responders, NEW r \in Requests, NEW i \in Instances, NEW d \in Decisions, AnswerRemote(p, r, i, d) PROVE GoneMoves
  BY <1>AnswerRemote DEF AnswerRemote, Post, Pending, askVars, busVars, answerVars
<1>AnswerMiss. ASSUME NEW p \in Responders, NEW r \in Requests, NEW i \in Instances, NEW d \in Decisions, AnswerMiss(p, r, i, d) PROVE GoneMoves
  BY <1>AnswerMiss DEF AnswerMiss, Post, Pending, askVars, busVars, answerVars
<1>CheckMarker. ASSUME NEW p \in Responders, CheckMarker(p) PROVE GoneMoves
  BY <1>CheckMarker DEF CheckMarker, askVars, busVars, answerVars
<1>MarkLocal. ASSUME NEW p \in Responders, MarkLocal(p) PROVE GoneMoves
  BY <1>MarkLocal DEF MarkLocal, WriteMarker, askVars, busVars, answerVars
<1>MarkRemote. ASSUME NEW p \in Responders, MarkRemote(p) PROVE GoneMoves
  BY <1>MarkRemote DEF MarkRemote, WriteMarker, askVars, busVars, answerVars
<1>Publish. ASSUME NEW p \in Responders, Publish(p) PROVE GoneMoves
  BY <1>Publish DEF Publish, askVars, busVars, answerVars
<1>DeleteRemote. ASSUME NEW p \in Responders, DeleteRemote(p) PROVE GoneMoves
  BY <1>DeleteRemote DEF DeleteRemote, askVars, busVars, answerVars
<1>Subscribed. ASSUME NEW i \in Instances, Subscribed(i) PROVE GoneMoves
  BY <1>Subscribed DEF Subscribed, AfterSubscribe, askVars, busVars, answerVars
<1>Deliver. ASSUME NEW i \in Instances, Deliver(i) PROVE GoneMoves
  <2>1. PICK r \in Requests, d \in Decisions : Delivered(i, r, d)
    BY <1>Deliver, DeliverFacts
  <2>2. QED
    BY <2>1 DEF Delivered, Pending
<1>Crash. ASSUME NEW i \in Instances, Crash(i) PROVE GoneMoves
  BY <1>Crash DEF Crash, Returned, askVars, busVars, answerVars, Fault
<1>SubscribeFails. ASSUME NEW i \in Instances, SubscribeFails(i) PROVE GoneMoves
  BY <1>SubscribeFails DEF SubscribeFails, askVars, busVars, answerVars, Fault
<1>DropMessages. ASSUME NEW i \in Instances, DropMessages(i) PROVE GoneMoves
  BY <1>DropMessages DEF DropMessages, askVars, busVars, answerVars, Fault
<1>WriteFails. ASSUME NEW r \in Requests, WriteFails(r) PROVE GoneMoves
  BY <1>WriteFails DEF WriteFails, askVars, busVars, answerVars, Fault
<1>ForgetFails. ASSUME NEW r \in Requests, ForgetFails(r) PROVE GoneMoves
  BY <1>ForgetFails DEF ForgetFails, MarkedFirst, askVars, busVars, answerVars, Fault
<1>AnswerFails. ASSUME NEW p \in Responders, AnswerFails(p) PROVE GoneMoves
  BY <1>AnswerFails DEF AnswerFails, askVars, busVars, answerVars, Fault
<1>Stutter. CASE UNCHANGED vars
  BY <1>Stutter DEF vars
<1> HIDE DEF TypeOK, GoneMoves, InProgress
<1>QED. QED
  BY <1>Ask, <1>WriteKey, <1>WriteReply, <1>Forget, <1>Timeout, <1>Abort,
     <1>ExpireKey, <1>AnswerLocal, <1>AnswerRemote, <1>AnswerMiss, <1>CheckMarker, <1>MarkLocal,
     <1>MarkRemote, <1>Publish, <1>DeleteRemote, <1>Subscribed, <1>Deliver, <1>Crash,
     <1>SubscribeFails, <1>DropMessages, <1>WriteFails, <1>ForgetFails, <1>AnswerFails, <1>Stutter
     DEF Next, AskStep, AnswerStep, FaultStep

\* A decision comes from an answer or from a message.
LEMMA DecidedMovesStep ==
  TypeOK /\ [Next]_vars => DecidedMoves
<1> SUFFICES ASSUME TypeOK, [Next]_vars PROVE DecidedMoves
  OBVIOUS
<1> USE DEF TypeOK, DecidedMoves, Decisions, Settled
<1>Ask. ASSUME NEW r \in Requests, NEW i \in Instances, NEW a \in BOOLEAN, Ask(r, i, a) PROVE DecidedMoves
  BY <1>Ask DEF Ask, AfterSubscribe, askVars, busVars, answerVars
<1>WriteKey. ASSUME NEW r \in Requests, WriteKey(r) PROVE DecidedMoves
  BY <1>WriteKey DEF WriteKey, askVars, busVars, answerVars
<1>WriteReply. ASSUME NEW r \in Requests, WriteReply(r) PROVE DecidedMoves
  BY <1>WriteReply DEF WriteReply, askVars, busVars, answerVars
<1>Forget. ASSUME NEW r \in Requests, Forget(r) PROVE DecidedMoves
  BY <1>Forget DEF Forget, MarkedFirst, askVars, busVars, answerVars
<1>Timeout. ASSUME NEW r \in Requests, Timeout(r) PROVE DecidedMoves
  BY <1>Timeout DEF Timeout, GiveUp, askVars, busVars, answerVars
<1>Abort. ASSUME NEW r \in Requests, Abort(r) PROVE DecidedMoves
  BY <1>Abort DEF Abort, GiveUp, askVars, busVars, answerVars
<1>ExpireKey. ASSUME NEW r \in Requests, ExpireKey(r) PROVE DecidedMoves
  BY <1>ExpireKey DEF ExpireKey, askVars, busVars, answerVars
<1>AnswerLocal. ASSUME NEW p \in Responders, NEW r \in Requests, NEW i \in Instances, NEW d \in Decisions, AnswerLocal(p, r, i, d) PROVE DecidedMoves
  BY <1>AnswerLocal DEF AnswerLocal, Post, Pending, askVars, busVars, answerVars
<1>AnswerRemote. ASSUME NEW p \in Responders, NEW r \in Requests, NEW i \in Instances, NEW d \in Decisions, AnswerRemote(p, r, i, d) PROVE DecidedMoves
  BY <1>AnswerRemote DEF AnswerRemote, Post, Pending, askVars, busVars, answerVars
<1>AnswerMiss. ASSUME NEW p \in Responders, NEW r \in Requests, NEW i \in Instances, NEW d \in Decisions, AnswerMiss(p, r, i, d) PROVE DecidedMoves
  BY <1>AnswerMiss DEF AnswerMiss, Post, Pending, askVars, busVars, answerVars
<1>CheckMarker. ASSUME NEW p \in Responders, CheckMarker(p) PROVE DecidedMoves
  BY <1>CheckMarker DEF CheckMarker, askVars, busVars, answerVars
<1>MarkLocal. ASSUME NEW p \in Responders, MarkLocal(p) PROVE DecidedMoves
  BY <1>MarkLocal DEF MarkLocal, WriteMarker, askVars, busVars, answerVars
<1>MarkRemote. ASSUME NEW p \in Responders, MarkRemote(p) PROVE DecidedMoves
  BY <1>MarkRemote DEF MarkRemote, WriteMarker, askVars, busVars, answerVars
<1>Publish. ASSUME NEW p \in Responders, Publish(p) PROVE DecidedMoves
  BY <1>Publish DEF Publish, askVars, busVars, answerVars
<1>DeleteRemote. ASSUME NEW p \in Responders, DeleteRemote(p) PROVE DecidedMoves
  BY <1>DeleteRemote DEF DeleteRemote, askVars, busVars, answerVars
<1>Subscribed. ASSUME NEW i \in Instances, Subscribed(i) PROVE DecidedMoves
  BY <1>Subscribed DEF Subscribed, AfterSubscribe, askVars, busVars, answerVars
<1>Deliver. ASSUME NEW i \in Instances, Deliver(i) PROVE DecidedMoves
  <2>1. PICK r \in Requests, d \in Decisions : Delivered(i, r, d)
    BY <1>Deliver, DeliverFacts
  <2>2. QED
    BY <2>1 DEF Delivered, Pending
<1>Crash. ASSUME NEW i \in Instances, Crash(i) PROVE DecidedMoves
  BY <1>Crash DEF Crash, Returned, askVars, busVars, answerVars, Fault
<1>SubscribeFails. ASSUME NEW i \in Instances, SubscribeFails(i) PROVE DecidedMoves
  BY <1>SubscribeFails DEF SubscribeFails, askVars, busVars, answerVars, Fault
<1>DropMessages. ASSUME NEW i \in Instances, DropMessages(i) PROVE DecidedMoves
  BY <1>DropMessages DEF DropMessages, askVars, busVars, answerVars, Fault
<1>WriteFails. ASSUME NEW r \in Requests, WriteFails(r) PROVE DecidedMoves
  BY <1>WriteFails DEF WriteFails, askVars, busVars, answerVars, Fault
<1>ForgetFails. ASSUME NEW r \in Requests, ForgetFails(r) PROVE DecidedMoves
  BY <1>ForgetFails DEF ForgetFails, MarkedFirst, askVars, busVars, answerVars, Fault
<1>AnswerFails. ASSUME NEW p \in Responders, AnswerFails(p) PROVE DecidedMoves
  BY <1>AnswerFails DEF AnswerFails, askVars, busVars, answerVars, Fault
<1>Stutter. CASE UNCHANGED vars
  BY <1>Stutter DEF vars
<1> HIDE DEF TypeOK, DecidedMoves, Decisions, Settled
<1>QED. QED
  BY <1>Ask, <1>WriteKey, <1>WriteReply, <1>Forget, <1>Timeout, <1>Abort,
     <1>ExpireKey, <1>AnswerLocal, <1>AnswerRemote, <1>AnswerMiss, <1>CheckMarker, <1>MarkLocal,
     <1>MarkRemote, <1>Publish, <1>DeleteRemote, <1>Subscribed, <1>Deliver, <1>Crash,
     <1>SubscribeFails, <1>DropMessages, <1>WriteFails, <1>ForgetFails, <1>AnswerFails, <1>Stutter
     DEF Next, AskStep, AnswerStep, FaultStep

\* Every step keeps decisions offered by somebody.
LEMMA OfferNext ==
  TypeOK /\ ClaimInv /\ OfferInv /\ [Next]_vars => OfferInv'
<1> SUFFICES ASSUME TypeOK, ClaimInv, OfferInv, [Next]_vars,
                    NEW r \in Requests, outcome'[r] \in Decisions
             PROVE  <<r, outcome'[r]>> \in Offered'
  BY DEF OfferInv
<1>1. DecidedMoves /\ AnswersGrow
  BY DecidedMovesStep, AnswersGrowStep
<1>2. ASSUME <<r, outcome'[r]>> \in Offered PROVE <<r, outcome'[r]>> \in Offered'
  <2>1. PICK q \in Responders : pc[q] # "idle" /\ <<r, outcome'[r]>> = <<req[q], dec[q]>>
    BY <1>2 DEF Offered
  <2>2. pc'[q] # "idle" /\ <<r, outcome'[r]>> = <<req'[q], dec'[q]>>
    BY <1>1, <2>1 DEF AnswersGrow
  <2>3. QED
    BY <2>2 DEF Offered
<1>3. CASE outcome'[r] = outcome[r]
  BY <1>2, <1>3 DEF OfferInv
<1>4. CASE \E p \in Responders : pc'[p] # "idle" /\ <<req'[p], dec'[p]>> = <<r, outcome'[r]>>
  BY <1>4 DEF Offered
<1>5. CASE \E i \in Instances : <<r, outcome'[r]>> \in Carried(inbox[i])
  BY <1>2, <1>5 DEF ClaimInv
<1>6. QED
  BY <1>1, <1>3, <1>4, <1>5 DEF DecidedMoves

\* Every step keeps gone answers backed by another one.
LEMMA GoneNext ==
  TypeOK /\ ClaimInv /\ GoneMeansAnswered /\ [Next]_vars => GoneMeansAnswered'
<1> SUFFICES ASSUME TypeOK, ClaimInv, GoneMeansAnswered, [Next]_vars,
                    NEW p \in Responders, pc'[p] = "gone",
                    NEW r, req'[p] = r
             PROVE  \E q \in Responders : q # p /\ Claimed(q, r)'
  BY DEF GoneMeansAnswered, Claimed
<1>1. GoneMoves /\ AnswersGrow
  BY GoneMovesStep, AnswersGrowStep
<1>2. \E q \in Responders : q # p /\ Claimed(q, r)
  <2>1. CASE pc[p] = "gone" /\ req'[p] = req[p]
    BY <2>1 DEF GoneMeansAnswered, Claimed
  <2>2. CASE pc[p] = "checking" /\ req'[p] = req[p] /\ req[p] \in markers
    BY <2>2 DEF ClaimInv, Claimed
  <2>3. CASE pc[p] = "idle" /\ \E i \in Instances : req'[p] \in known[i]
    BY <2>3 DEF ClaimInv, Claimed
  <2>4. QED
    BY <1>1, <2>1, <2>2, <2>3 DEF GoneMoves
<1>3. QED
  BY <1>1, <1>2 DEF AnswersGrow, Claimed

-----------------------------------------------------------------------------
(* the theorems *)

\* Nothing has been asked yet.
LEMMA InvInit == Init => IInv
<1> SUFFICES ASSUME Init PROVE IInv
  OBVIOUS
<1>1. TypeOK
  BY DEF Init, TypeOK, Stages, Settled, Decisions, Replies, InProgress
<1>2. BookInv
  BY NoneAssumption DEF Init, BookInv
<1>3. AnswerInv /\ OfferInv /\ ReachInv /\ TraceInv /\ GoneMeansAnswered
  BY DEF Init, AnswerInv, OfferInv, ReachInv, WaitingIsReachable, TraceInv,
         GoneMeansAnswered, Decisions
<1>4. ClaimInv
  BY CarriedEmpty DEF Init, ClaimInv
<1>5. QED
  BY <1>1, <1>2, <1>3, <1>4 DEF IInv

\* The invariant behind the safety properties is inductive.
THEOREM InductiveInvariant == Spec => []IInv
<1>1. IInv /\ [Next]_vars => IInv'
  BY TypeNext, BookNext, AnswerNext, ClaimNext, OfferNext, ReachNext, TraceNext,
     GoneNext DEF IInv
<1>2. QED
  BY InvInit, <1>1, PTL DEF Spec

\* As long as askApproval waits, every instance can list and answer the
\* request once its shared write is done, or its decision is on the way, or
\* pub/sub dropped it: for any number of instances, answers and faults.
THEOREM Reachability == Spec => []WaitingIsReachable
<1>1. IInv => WaitingIsReachable
  BY DEF IInv, ReachInv
<1>2. QED
  BY InductiveInvariant, <1>1, PTL

\* A request that was answered is never without a trace in Redis while its
\* owner lives, unless writing the marker failed.
THEOREM Traceability == Spec => []AnsweredLeavesTrace
<1>1. IInv => AnsweredLeavesTrace
  <2> SUFFICES ASSUME IInv, NEW r \in Requests, outcome[r] \in Decisions,
                      stage[r] \in {"acked", "done"}, manager[owner[r]] # "dead",
                      r \notin keys \cup markers
               PROVE  \E p \in Responders :
                        req[p] = r /\ at[p] = owner[r] /\ pc[p] = "error"
    BY DEF AnsweredLeavesTrace
  <2>1. PICK p \in Responders :
          req[p] = r /\ at[p] = owner[r] /\ pc[p] \in {"marking", "error"}
    BY DEF IInv, TraceInv
  <2>2. pc[p] # "marking"
    BY <2>1 DEF IInv, TraceInv
  <2>3. QED
    BY <2>1, <2>2
<1>2. QED
  BY InductiveInvariant, <1>1, PTL

\* "gone" always has another answer behind it.
THEOREM Goneness == Spec => []GoneMeansAnswered
<1>1. IInv => GoneMeansAnswered
  BY DEF IInv
<1>2. QED
  BY InductiveInvariant, <1>1, PTL

\* The chained del is the last word on the shared key.
THEOREM Forgetting == Spec => ForgottenStaysGone
<1> DEFINE Stays == \A r \in Requests : r \in forgotten /\ r \notin keys => r \notin keys'
<1>1. TypeOK /\ BookInv /\ [Next]_vars => [Stays]_vars
  <2> SUFFICES ASSUME TypeOK, BookInv, Next PROVE Stays
    BY DEF vars
  <2>1. KeyMoves
    BY KeyMovesStep
  <2>2. QED
    BY <2>1 DEF KeyMoves, BookInv
<1>2. IInv => TypeOK /\ BookInv
  BY DEF IInv
<1> HIDE DEF Stays
<1>3. Spec => [][Stays]_vars
  BY InductiveInvariant, <1>1, <1>2, PTL DEF Spec
<1>4. QED
  BY <1>3 DEF ForgottenStaysGone, Stays

-----------------------------------------------------------------------------
(* the refinement *)

\* How one step may change what the caller of askApproval sees.
VerdictMoves ==
  \A r \in Requests :
    \/ Verdict(r)' = Verdict(r)
    \/ Verdict(r) = "none" /\ Verdict(r)' \in {"open", "aborted", "error"}
    \/ Verdict(r) = "open" /\ Verdict(r)' \in Settled \cup {"error", "lost"}

\* Every step changes what the caller sees in one of these ways.
LEMMA VerdictMovesStep ==
  TypeOK /\ BookInv /\ [Next]_vars => VerdictMoves
<1> SUFFICES ASSUME TypeOK, BookInv, [Next]_vars PROVE VerdictMoves
  OBVIOUS
<1> USE DEF TypeOK, Stages, Settled, Decisions, BookInv, VerdictMoves, Verdict
<1>Ask. ASSUME NEW r \in Requests, NEW i \in Instances, NEW a \in BOOLEAN, Ask(r, i, a) PROVE VerdictMoves
  BY <1>Ask DEF Ask, AfterSubscribe, askVars, busVars, answerVars
<1>WriteKey. ASSUME NEW r \in Requests, WriteKey(r) PROVE VerdictMoves
  BY <1>WriteKey DEF WriteKey, askVars, busVars, answerVars
<1>WriteReply. ASSUME NEW r \in Requests, WriteReply(r) PROVE VerdictMoves
  BY <1>WriteReply DEF WriteReply, askVars, busVars, answerVars
<1>Forget. ASSUME NEW r \in Requests, Forget(r) PROVE VerdictMoves
  BY <1>Forget DEF Forget, MarkedFirst, askVars, busVars, answerVars
<1>Timeout. ASSUME NEW r \in Requests, Timeout(r) PROVE VerdictMoves
  BY <1>Timeout DEF Timeout, GiveUp, askVars, busVars, answerVars
<1>Abort. ASSUME NEW r \in Requests, Abort(r) PROVE VerdictMoves
  BY <1>Abort DEF Abort, GiveUp, askVars, busVars, answerVars
<1>ExpireKey. ASSUME NEW r \in Requests, ExpireKey(r) PROVE VerdictMoves
  BY <1>ExpireKey DEF ExpireKey, askVars, busVars, answerVars
<1>AnswerLocal. ASSUME NEW p \in Responders, NEW r \in Requests, NEW i \in Instances, NEW d \in Decisions, AnswerLocal(p, r, i, d) PROVE VerdictMoves
  BY <1>AnswerLocal DEF AnswerLocal, Post, Pending, askVars, busVars, answerVars
<1>AnswerRemote. ASSUME NEW p \in Responders, NEW r \in Requests, NEW i \in Instances, NEW d \in Decisions, AnswerRemote(p, r, i, d) PROVE VerdictMoves
  BY <1>AnswerRemote DEF AnswerRemote, Post, Pending, askVars, busVars, answerVars
<1>AnswerMiss. ASSUME NEW p \in Responders, NEW r \in Requests, NEW i \in Instances, NEW d \in Decisions, AnswerMiss(p, r, i, d) PROVE VerdictMoves
  BY <1>AnswerMiss DEF AnswerMiss, Post, Pending, askVars, busVars, answerVars
<1>CheckMarker. ASSUME NEW p \in Responders, CheckMarker(p) PROVE VerdictMoves
  BY <1>CheckMarker DEF CheckMarker, askVars, busVars, answerVars
<1>MarkLocal. ASSUME NEW p \in Responders, MarkLocal(p) PROVE VerdictMoves
  BY <1>MarkLocal DEF MarkLocal, WriteMarker, askVars, busVars, answerVars
<1>MarkRemote. ASSUME NEW p \in Responders, MarkRemote(p) PROVE VerdictMoves
  BY <1>MarkRemote DEF MarkRemote, WriteMarker, askVars, busVars, answerVars
<1>Publish. ASSUME NEW p \in Responders, Publish(p) PROVE VerdictMoves
  BY <1>Publish DEF Publish, askVars, busVars, answerVars
<1>DeleteRemote. ASSUME NEW p \in Responders, DeleteRemote(p) PROVE VerdictMoves
  BY <1>DeleteRemote DEF DeleteRemote, askVars, busVars, answerVars
<1>Subscribed. ASSUME NEW i \in Instances, Subscribed(i) PROVE VerdictMoves
  BY <1>Subscribed DEF Subscribed, AfterSubscribe, askVars, busVars, answerVars
<1>Deliver. ASSUME NEW i \in Instances, Deliver(i) PROVE VerdictMoves
  <2>1. PICK r \in Requests, d \in Decisions : Delivered(i, r, d)
    BY <1>Deliver, DeliverFacts
  <2>2. QED
    BY <2>1 DEF Delivered, Pending
<1>Crash. ASSUME NEW i \in Instances, Crash(i) PROVE VerdictMoves
  BY <1>Crash DEF Crash, Returned, askVars, busVars, answerVars, Fault
<1>SubscribeFails. ASSUME NEW i \in Instances, SubscribeFails(i) PROVE VerdictMoves
  BY <1>SubscribeFails DEF SubscribeFails, askVars, busVars, answerVars, Fault
<1>DropMessages. ASSUME NEW i \in Instances, DropMessages(i) PROVE VerdictMoves
  BY <1>DropMessages DEF DropMessages, askVars, busVars, answerVars, Fault
<1>WriteFails. ASSUME NEW r \in Requests, WriteFails(r) PROVE VerdictMoves
  BY <1>WriteFails DEF WriteFails, askVars, busVars, answerVars, Fault
<1>ForgetFails. ASSUME NEW r \in Requests, ForgetFails(r) PROVE VerdictMoves
  BY <1>ForgetFails DEF ForgetFails, MarkedFirst, askVars, busVars, answerVars, Fault
<1>AnswerFails. ASSUME NEW p \in Responders, AnswerFails(p) PROVE VerdictMoves
  BY <1>AnswerFails DEF AnswerFails, askVars, busVars, answerVars, Fault
<1>Stutter. CASE UNCHANGED vars
  BY <1>Stutter DEF vars
<1> HIDE DEF TypeOK, Stages, Settled, Decisions, BookInv, VerdictMoves, Verdict
<1>QED. QED
  BY <1>Ask, <1>WriteKey, <1>WriteReply, <1>Forget, <1>Timeout, <1>Abort,
     <1>ExpireKey, <1>AnswerLocal, <1>AnswerRemote, <1>AnswerMiss, <1>CheckMarker, <1>MarkLocal,
     <1>MarkRemote, <1>Publish, <1>DeleteRemote, <1>Subscribed, <1>Deliver, <1>Crash,
     <1>SubscribeFails, <1>DropMessages, <1>WriteFails, <1>ForgetFails, <1>AnswerFails, <1>Stutter
     DEF Next, AskStep, AnswerStep, FaultStep


\* askApproval keeps its promise on every instance count, whatever fails:
\* a request opens once and closes once, and closes with a decision only if a
\* user offered that decision.
THEOREM Implementation == Spec => KeepsPromise
<1>1. Init => Promise!Init
  BY DEF Init, Promise!Init, Verdict, Offered
<1>2. TypeOK /\ BookInv /\ OfferInv' /\ [Next]_vars => [Promise!Next]_(Promise!vars)
  <2> SUFFICES ASSUME TypeOK, BookInv, OfferInv', [Next]_vars
               PROVE  Promise!Next
    OBVIOUS
  <2>1. Offered \subseteq Offered'
    BY AnswersGrowStep DEF AnswersGrow, Offered
  <2>2. ASSUME NEW r \in Requests
        PROVE  \/ Verdict(r)' = Verdict(r)
               \/ Promise!Opens(r) \/ Promise!Ends(r) \/ Promise!Decides(r)
    <3>1. Verdict(r)' \in Decisions => <<r, Verdict(r)'>> \in Offered'
      <4> SUFFICES ASSUME Verdict(r)' \in Decisions
                   PROVE  <<r, Verdict(r)'>> \in Offered'
        OBVIOUS
      <4>1. Verdict(r)' = outcome'[r]
        BY DEF Verdict, Decisions
      <4>2. QED
        BY <4>1 DEF OfferInv
    <3>2. CASE Verdict(r)' = Verdict(r)
      BY <3>2
    <3>3. CASE Verdict(r) = "none" /\ Verdict(r)' \in {"open", "aborted", "error"}
      BY <3>3 DEF Promise!Opens
    <3>4. CASE Verdict(r) = "open" /\ Verdict(r)' \in Decisions
      BY <3>1, <3>4 DEF Promise!Decides, Promise!Decisions, Decisions
    <3>5. CASE Verdict(r) = "open" /\ Verdict(r)' \in {"timeout", "aborted", "crashed", "error", "lost"}
      <4>1. Verdict(r)' # "crashed"
        BY DEF Verdict, Settled, Decisions
      <4>2. QED
        BY <3>5, <4>1 DEF Promise!Ends, Promise!Endings
    <3>6. QED
      BY VerdictMovesStep, <3>2, <3>3, <3>4, <3>5 DEF VerdictMoves, Settled
  <2>3. QED
    BY <2>1, <2>2 DEF Promise!Next
<1>3. IInv => TypeOK /\ BookInv /\ OfferInv
  BY DEF IInv
<1>4. Spec => Promise!Spec
  BY InductiveInvariant, <1>1, <1>2, <1>3, PTL DEF Spec, Promise!Spec
<1>5. QED
  BY <1>4 DEF KeepsPromise

=============================================================================
