------------------------- MODULE RunRegistryProofs -------------------------
(***************************************************************************)
(* Machine-checked proofs about module RunRegistry, for any number of      *)
(* instances, turns, Stops and faults.                                     *)
(***************************************************************************)
EXTENDS RunRegistry, TLAPS

-----------------------------------------------------------------------------
(* what the operators of RuntimeBusOps do to the contents of the inboxes *)

\* Publishing adds exactly the message to what a subscriber's inbox carries.
LEMMA CarriedAppend ==
  ASSUME NEW S, NEW q \in Seq(S), NEW m \in S
  PROVE  /\ Append(q, m) \in Seq(S)
         /\ Carried(Append(q, m)) = Carried(q) \cup {m}
<1>1. Append(q, m) \in Seq(S) /\ Len(Append(q, m)) = Len(q) + 1
  OBVIOUS
<1>2. DOMAIN q = 1..Len(q) /\ DOMAIN Append(q, m) = 1..(Len(q) + 1) /\ Len(q) \in Nat
  BY <1>1
<1>3. \A k \in 1..Len(q) : Append(q, m)[k] = q[k]
  OBVIOUS
<1>4. Append(q, m)[Len(q) + 1] = m
  OBVIOUS
<1>5. Carried(Append(q, m)) \subseteq Carried(q) \cup {m}
  BY <1>2, <1>3, <1>4 DEF Carried
<1>6. Carried(q) \subseteq Carried(Append(q, m))
  <2>1. ASSUME NEW k \in DOMAIN q PROVE q[k] \in Carried(Append(q, m))
    <3>1. k \in DOMAIN Append(q, m) /\ Append(q, m)[k] = q[k]
      BY <1>2, <1>3
    <3>2. QED BY <3>1, Zenon DEF Carried
  <2>2. QED BY <2>1 DEF Carried
<1>7. m \in Carried(Append(q, m))
  <2>1. Len(q) + 1 \in DOMAIN Append(q, m)
    BY <1>2
  <2>2. QED BY <2>1, <1>4, Zenon DEF Carried
<1>8. QED BY <1>1, <1>5, <1>6, <1>7

\* Handling the first message removes at most that message.
LEMMA CarriedTail ==
  ASSUME NEW S, NEW q \in Seq(S), q # <<>>
  PROVE  /\ Tail(q) \in Seq(S)
         /\ Head(q) \in S
         /\ Head(q) \in Carried(q)
         /\ Carried(Tail(q)) \subseteq Carried(q)
         /\ Carried(q) \subseteq Carried(Tail(q)) \cup {Head(q)}
<1>1. Len(q) \in Nat \ {0} /\ DOMAIN q = 1..Len(q)
  OBVIOUS
<1>2. Tail(q) \in Seq(S) /\ Len(Tail(q)) = Len(q) - 1 /\ Head(q) = q[1] /\ Head(q) \in S
  OBVIOUS
<1>3. DOMAIN Tail(q) = 1..(Len(q) - 1)
  BY <1>2, <1>1
<1>4. \A k \in 1..(Len(q) - 1) : Tail(q)[k] = q[k + 1] /\ k + 1 \in DOMAIN q
  BY <1>1
<1>5. Head(q) \in Carried(q)
  <2>1. 1 \in DOMAIN q BY <1>1
  <2>2. QED BY <2>1, <1>2, Zenon DEF Carried
<1>6. Carried(Tail(q)) \subseteq Carried(q)
  BY <1>3, <1>4 DEF Carried
<1>7. Carried(q) \subseteq Carried(Tail(q)) \cup {Head(q)}
  <2>1. ASSUME NEW k \in DOMAIN q, k # 1 PROVE q[k] \in Carried(Tail(q))
    <3>1. k - 1 \in DOMAIN Tail(q) /\ Tail(q)[k - 1] = q[k]
      BY <1>1, <1>3, <1>4, <2>1
    <3>2. QED BY <3>1, Zenon DEF Carried
  <2>2. QED BY <2>1, <1>2 DEF Carried
<1>8. QED BY <1>2, <1>5, <1>6, <1>7

\* What publish does to the inbox of each instance.
LEMMA FanOutFacts ==
  ASSUME NEW I, NEW M, NEW box \in [I -> Seq(M)], NEW subs, NEW m \in M
  PROVE  /\ FanOut(box, subs, m) \in [I -> Seq(M)]
         /\ \A i \in I : Carried(box[i]) \subseteq Carried(FanOut(box, subs, m)[i])
         /\ \A i \in I :
              Carried(FanOut(box, subs, m)[i]) \subseteq Carried(box[i]) \cup {m}
         /\ \A i \in I : i \in subs => m \in Carried(FanOut(box, subs, m)[i])
<1>1. DOMAIN box = I
  OBVIOUS
<1>2. \A i \in I :
        FanOut(box, subs, m)[i] = IF i \in subs THEN Append(box[i], m) ELSE box[i]
  BY <1>1 DEF FanOut
<1>3. \A i \in I :
        /\ Append(box[i], m) \in Seq(M)
        /\ Carried(Append(box[i], m)) = Carried(box[i]) \cup {m}
  BY CarriedAppend
<1>4. FanOut(box, subs, m) \in [I -> Seq(M)]
  BY <1>1, <1>3 DEF FanOut
<1>5. QED
  BY <1>2, <1>3, <1>4

\* What handling one message does to them.
LEMMA TakeFirstFacts ==
  ASSUME NEW I, NEW M, NEW box \in [I -> Seq(M)], NEW i \in I, box[i] # <<>>
  PROVE  /\ TakeFirst(box, i) \in [I -> Seq(M)]
         /\ Head(box[i]) \in M
         /\ Head(box[i]) \in Carried(box[i])
         /\ \A j \in I : Carried(TakeFirst(box, i)[j]) \subseteq Carried(box[j])
         /\ \A j \in I : j # i => TakeFirst(box, i)[j] = box[j]
         /\ Carried(box[i]) \subseteq Carried(TakeFirst(box, i)[i]) \cup {Head(box[i])}
<1>1. /\ Tail(box[i]) \in Seq(M)
      /\ Head(box[i]) \in M
      /\ Head(box[i]) \in Carried(box[i])
      /\ Carried(Tail(box[i])) \subseteq Carried(box[i])
      /\ Carried(box[i]) \subseteq Carried(Tail(box[i])) \cup {Head(box[i])}
  BY CarriedTail
<1>2. \A j \in I : TakeFirst(box, i)[j] = IF j = i THEN Tail(box[i]) ELSE box[j]
  BY DEF TakeFirst
<1>3. TakeFirst(box, i) \in [I -> Seq(M)]
  BY <1>1 DEF TakeFirst
<1>4. QED
  BY <1>1, <1>2, <1>3

-----------------------------------------------------------------------------
(* the inductive invariant, part by part *)

\* A run is numbered when it enters the map of its instance, not before.
Numbered ==
  \A j \in Runs :
    /\ stage[j] \in {"new", "waiting", "asking", "asked", "publishing", "published"}
         => entered[j] = 0
    /\ stage[j] \in {"storing", "running", "leaving", "deleting", "done"}
         => entered[j] > 0
    /\ entered[j] > 0 => entered[j] <= now[inst[j]]

Distinct ==
  \A j, k \in Runs :
    inst[j] = inst[k] /\ entered[j] = entered[k] /\ entered[j] > 0 => j = k

\* The map holds the run that entered last, until it leaves.
MapHoldsLatest ==
  \A i \in Instances : local[i] # None =>
    /\ inst[local[i]] = i
    /\ entered[local[i]] = now[i]
    /\ stage[local[i]] \in {"storing", "running", "failed"}

\* A run past its subscription has one, as long as its instance lives.
Listens ==
  \A j \in Runs :
    stage[j] \in {"asking", "asked", "publishing", "published", "storing",
                  "running", "leaving", "deleting"}
      => link[inst[j]] = "ready"

StoredOnce == {"running", "leaving", "deleting", "done", "failed", "dead"}
NotStored == {"storing", "failed", "dead"}

\* The runs that entered after one that is still storing have not stored yet.
StoresInOrder ==
  \A j, k \in Runs :
    stage[j] = "storing" /\ inst[k] = inst[j] /\ entered[j] < entered[k]
      => stage[k] \in NotStored

\* The shared key names the run of its instance that stored last.
KeyIsLatest ==
  \A j \in Runs : key = j =>
    /\ stage[j] \in StoredOnce
    /\ entered[j] > 0
    /\ \A k \in Runs :
         inst[k] = inst[j] /\ entered[j] < entered[k] => stage[k] \in NotStored

\* Whoever read a run in the shared key did ask, and read one that had stored it.
SawStored ==
  \A x \in Callers :
    /\ stage[x] \in {"new", "waiting", "asking", "asked"} => saw[x] = None
    /\ \A j \in Runs : saw[x] = j => stage[j] \in StoredOnce

IInv ==
  /\ TypeOK
  /\ Numbered
  /\ Distinct
  /\ MapHoldsLatest
  /\ Listens
  /\ StoresInOrder
  /\ KeyIsLatest
  /\ SawStored
  /\ StaleKeyIsReplaced
  /\ OwnerCanStop
  /\ SightedIsHit

-----------------------------------------------------------------------------
(* types *)

\* Every step keeps the types.
LEMMA TypeNext ==
  TypeOK /\ [Next]_vars => TypeOK'
<1> SUFFICES ASSUME TypeOK, [Next]_vars PROVE TypeOK'
  OBVIOUS
<1> USE NoneIsNoRun, CallsAreDistinct DEF TypeOK, RunStages, StopStages, Callers
<1>Register. ASSUME NEW j \in Runs, NEW i \in Instances, Register(j, i) PROVE TypeOK'
  BY <1>Register DEF Register, Goes
<1>Replace. ASSUME NEW j \in Runs, Replace(j) PROVE TypeOK'
  BY <1>Replace DEF Replace, Enter, Goes
<1>Look. ASSUME NEW j \in Runs, Look(j) PROVE TypeOK'
  BY <1>Look DEF Look, Goes
<1>LookGet. ASSUME NEW j \in Runs, LookGet(j) PROVE TypeOK'
  BY <1>LookGet DEF LookGet, Goes
<1>RegisterPublish. ASSUME NEW j \in Runs, RegisterPublish(j) PROVE TypeOK'
  <2>1. inbox \in [Instances -> Seq(Callers)] /\ j \in Callers
    BY DEF Callers
  <2> DEFINE subs == {i \in Instances : link[i] = "ready"}
  <2> HIDE DEF subs
  <2>2. FanOut(inbox, subs, j) \in [Instances -> Seq(Callers)]
    BY ONLY <2>1, FanOutFacts
  <2>3. inbox' \in [Instances -> Seq(Callers)]
    BY <1>RegisterPublish, <2>2 DEF RegisterPublish, Publish, subs
  <2>4. QED
    BY <1>RegisterPublish, <2>3 DEF RegisterPublish, Publish, Goes
<1>EnterLate. ASSUME NEW j \in Runs, EnterLate(j) PROVE TypeOK'
  BY <1>EnterLate DEF EnterLate, Enter, Goes
<1>Store. ASSUME NEW j \in Runs, Store(j) PROVE TypeOK'
  BY <1>Store DEF Store, InOrder, Goes
<1>Unregister. ASSUME NEW j \in Runs, Unregister(j) PROVE TypeOK'
  BY <1>Unregister DEF Unregister, Goes
<1>LeaveGet. ASSUME NEW j \in Runs, LeaveGet(j) PROVE TypeOK'
  BY <1>LeaveGet DEF LeaveGet, Goes
<1>LeaveDel. ASSUME NEW j \in Runs, LeaveDel(j) PROVE TypeOK'
  BY <1>LeaveDel DEF LeaveDel, Goes
<1>Abandon. ASSUME NEW j \in Runs, Abandon(j) PROVE TypeOK'
  BY <1>Abandon DEF Abandon, Fault, Goes
<1>StopLocal. ASSUME NEW s \in Stops, NEW i \in Instances, StopLocal(s, i) PROVE TypeOK'
  BY <1>StopLocal DEF StopLocal, Goes
<1>StopLook. ASSUME NEW s \in Stops, NEW i \in Instances, StopLook(s, i) PROVE TypeOK'
  BY <1>StopLook DEF StopLook, Goes
<1>StopGet. ASSUME NEW s \in Stops, StopGet(s) PROVE TypeOK'
  BY <1>StopGet DEF StopGet, Goes
<1>StopPublish. ASSUME NEW s \in Stops, StopPublish(s) PROVE TypeOK'
  <2>1. inbox \in [Instances -> Seq(Callers)] /\ s \in Callers
    BY DEF Callers
  <2> DEFINE subs == {i \in Instances : link[i] = "ready"}
  <2> HIDE DEF subs
  <2>2. FanOut(inbox, subs, s) \in [Instances -> Seq(Callers)]
    BY ONLY <2>1, FanOutFacts
  <2>3. inbox' \in [Instances -> Seq(Callers)]
    BY <1>StopPublish, <2>2 DEF StopPublish, Publish, subs
  <2>4. QED
    BY <1>StopPublish, <2>3 DEF StopPublish, Publish, Goes
<1>Subscribed. ASSUME NEW i \in Instances, Subscribed(i) PROVE TypeOK'
  BY <1>Subscribed DEF Subscribed
<1>Deliver. ASSUME NEW i \in Instances, Deliver(i) PROVE TypeOK'
  <2>1. inbox \in [Instances -> Seq(Callers)] /\ inbox[i] # <<>>
    BY <1>Deliver DEF Deliver
  <2>2. TakeFirst(inbox, i) \in [Instances -> Seq(Callers)]
    BY ONLY <2>1, i \in Instances, TakeFirstFacts
  <2>3. QED
    BY <1>Deliver, <2>2 DEF Deliver
<1>Crash. ASSUME NEW i \in Instances, Crash(i) PROVE TypeOK'
  BY <1>Crash DEF Crash, Fault
<1>SubscribeFails. ASSUME NEW i \in Instances, SubscribeFails(i) PROVE TypeOK'
  BY <1>SubscribeFails DEF SubscribeFails, Fault
<1>DropMessages. ASSUME NEW i \in Instances, DropMessages(i) PROVE TypeOK'
  <2>1. Carried(inbox[i]) \subseteq Callers
    BY DEF Carried
  <2>2. <<>> \in Seq(Callers)
    OBVIOUS
  <2>3. QED
    BY <1>DropMessages, <2>1, <2>2 DEF DropMessages, Fault
<1>CommandFails. ASSUME NEW x \in Callers, CommandFails(x) PROVE TypeOK'
  BY <1>CommandFails DEF CommandFails, Fault, Goes
<1>Expire. ASSUME Expire PROVE TypeOK'
  BY <1>Expire DEF Expire
<1>Stutter. CASE UNCHANGED vars
  BY <1>Stutter DEF vars
<1> HIDE DEF TypeOK, RunStages, StopStages, Callers
<1>QED. QED
  BY <1>Register, <1>Replace, <1>Look, <1>LookGet, <1>RegisterPublish, <1>EnterLate,
     <1>Store, <1>Unregister, <1>LeaveGet, <1>LeaveDel, <1>Abandon, <1>StopLocal,
     <1>StopLook, <1>StopGet, <1>StopPublish, <1>Subscribed, <1>Deliver, <1>Crash,
     <1>SubscribeFails, <1>DropMessages, <1>CommandFails, <1>Expire, <1>Stutter
     DEF Next, RunStep, StopStep, InstanceStep

\* Every variable of the run registry keeps its type.
THEOREM TypeCorrect == Spec => []TypeOK
<1>1. Init => TypeOK
  BY DEF Init, TypeOK, RunStages, StopStages, Callers
<1>2. QED
  BY <1>1, TypeNext, PTL DEF Spec

-----------------------------------------------------------------------------
(* each part of the invariant is preserved *)

\* Every step keeps the numbering of the runs.
LEMMA NumberedNext ==
  TypeOK /\ Numbered /\ [Next]_vars => Numbered'
<1> SUFFICES ASSUME TypeOK, Numbered, [Next]_vars PROVE Numbered'
  OBVIOUS
<1> USE NoneIsNoRun, CallsAreDistinct DEF TypeOK, RunStages, StopStages, Callers, Numbered
<1>Register. ASSUME NEW j \in Runs, NEW i \in Instances, Register(j, i) PROVE Numbered'
  BY <1>Register DEF Register, Goes
<1>Replace. ASSUME NEW j \in Runs, Replace(j) PROVE Numbered'
  BY <1>Replace DEF Replace, Enter, Goes
<1>Look. ASSUME NEW j \in Runs, Look(j) PROVE Numbered'
  BY <1>Look DEF Look, Goes
<1>LookGet. ASSUME NEW j \in Runs, LookGet(j) PROVE Numbered'
  BY <1>LookGet DEF LookGet, Goes
<1>RegisterPublish. ASSUME NEW j \in Runs, RegisterPublish(j) PROVE Numbered'
  BY <1>RegisterPublish DEF RegisterPublish, Publish, Goes
<1>EnterLate. ASSUME NEW j \in Runs, EnterLate(j) PROVE Numbered'
  BY <1>EnterLate DEF EnterLate, Enter, Goes
<1>Store. ASSUME NEW j \in Runs, Store(j) PROVE Numbered'
  BY <1>Store DEF Store, InOrder, Goes
<1>Unregister. ASSUME NEW j \in Runs, Unregister(j) PROVE Numbered'
  BY <1>Unregister DEF Unregister, Goes
<1>LeaveGet. ASSUME NEW j \in Runs, LeaveGet(j) PROVE Numbered'
  BY <1>LeaveGet DEF LeaveGet, Goes
<1>LeaveDel. ASSUME NEW j \in Runs, LeaveDel(j) PROVE Numbered'
  BY <1>LeaveDel DEF LeaveDel, Goes
<1>Abandon. ASSUME NEW j \in Runs, Abandon(j) PROVE Numbered'
  BY <1>Abandon DEF Abandon, Fault, Goes
<1>StopLocal. ASSUME NEW s \in Stops, NEW i \in Instances, StopLocal(s, i) PROVE Numbered'
  BY <1>StopLocal DEF StopLocal, Goes
<1>StopLook. ASSUME NEW s \in Stops, NEW i \in Instances, StopLook(s, i) PROVE Numbered'
  BY <1>StopLook DEF StopLook, Goes
<1>StopGet. ASSUME NEW s \in Stops, StopGet(s) PROVE Numbered'
  BY <1>StopGet DEF StopGet, Goes
<1>StopPublish. ASSUME NEW s \in Stops, StopPublish(s) PROVE Numbered'
  BY <1>StopPublish DEF StopPublish, Publish, Goes
<1>Subscribed. ASSUME NEW i \in Instances, Subscribed(i) PROVE Numbered'
  BY <1>Subscribed DEF Subscribed
<1>Deliver. ASSUME NEW i \in Instances, Deliver(i) PROVE Numbered'
  BY <1>Deliver DEF Deliver
<1>Crash. ASSUME NEW i \in Instances, Crash(i) PROVE Numbered'
  BY <1>Crash DEF Crash, Fault
<1>SubscribeFails. ASSUME NEW i \in Instances, SubscribeFails(i) PROVE Numbered'
  BY <1>SubscribeFails DEF SubscribeFails, Fault
<1>DropMessages. ASSUME NEW i \in Instances, DropMessages(i) PROVE Numbered'
  BY <1>DropMessages DEF DropMessages, Fault
<1>CommandFails. ASSUME NEW x \in Callers, CommandFails(x) PROVE Numbered'
  BY <1>CommandFails DEF CommandFails, Fault, Goes
<1>Expire. ASSUME Expire PROVE Numbered'
  BY <1>Expire DEF Expire
<1>Stutter. CASE UNCHANGED vars
  BY <1>Stutter DEF vars
<1> HIDE DEF TypeOK, RunStages, StopStages, Callers, Numbered
<1>QED. QED
  BY <1>Register, <1>Replace, <1>Look, <1>LookGet, <1>RegisterPublish, <1>EnterLate,
     <1>Store, <1>Unregister, <1>LeaveGet, <1>LeaveDel, <1>Abandon, <1>StopLocal,
     <1>StopLook, <1>StopGet, <1>StopPublish, <1>Subscribed, <1>Deliver, <1>Crash,
     <1>SubscribeFails, <1>DropMessages, <1>CommandFails, <1>Expire, <1>Stutter
     DEF Next, RunStep, StopStep, InstanceStep

\* Every step keeps the numbers distinct.
LEMMA DistinctNext ==
  TypeOK /\ Numbered /\ Distinct /\ [Next]_vars => Distinct'
<1> SUFFICES ASSUME TypeOK, Numbered, Distinct, [Next]_vars PROVE Distinct'
  OBVIOUS
<1> USE NoneIsNoRun, CallsAreDistinct DEF TypeOK, RunStages, StopStages, Callers, Numbered, Distinct
<1>Register. ASSUME NEW j \in Runs, NEW i \in Instances, Register(j, i) PROVE Distinct'
  BY <1>Register DEF Register, Goes
<1>Replace. ASSUME NEW j \in Runs, Replace(j) PROVE Distinct'
  BY <1>Replace DEF Replace, Enter, Goes
<1>Look. ASSUME NEW j \in Runs, Look(j) PROVE Distinct'
  BY <1>Look DEF Look, Goes
<1>LookGet. ASSUME NEW j \in Runs, LookGet(j) PROVE Distinct'
  BY <1>LookGet DEF LookGet, Goes
<1>RegisterPublish. ASSUME NEW j \in Runs, RegisterPublish(j) PROVE Distinct'
  BY <1>RegisterPublish DEF RegisterPublish, Publish, Goes
<1>EnterLate. ASSUME NEW j \in Runs, EnterLate(j) PROVE Distinct'
  BY <1>EnterLate DEF EnterLate, Enter, Goes
<1>Store. ASSUME NEW j \in Runs, Store(j) PROVE Distinct'
  BY <1>Store DEF Store, InOrder, Goes
<1>Unregister. ASSUME NEW j \in Runs, Unregister(j) PROVE Distinct'
  BY <1>Unregister DEF Unregister, Goes
<1>LeaveGet. ASSUME NEW j \in Runs, LeaveGet(j) PROVE Distinct'
  BY <1>LeaveGet DEF LeaveGet, Goes
<1>LeaveDel. ASSUME NEW j \in Runs, LeaveDel(j) PROVE Distinct'
  BY <1>LeaveDel DEF LeaveDel, Goes
<1>Abandon. ASSUME NEW j \in Runs, Abandon(j) PROVE Distinct'
  BY <1>Abandon DEF Abandon, Fault, Goes
<1>StopLocal. ASSUME NEW s \in Stops, NEW i \in Instances, StopLocal(s, i) PROVE Distinct'
  BY <1>StopLocal DEF StopLocal, Goes
<1>StopLook. ASSUME NEW s \in Stops, NEW i \in Instances, StopLook(s, i) PROVE Distinct'
  BY <1>StopLook DEF StopLook, Goes
<1>StopGet. ASSUME NEW s \in Stops, StopGet(s) PROVE Distinct'
  BY <1>StopGet DEF StopGet, Goes
<1>StopPublish. ASSUME NEW s \in Stops, StopPublish(s) PROVE Distinct'
  BY <1>StopPublish DEF StopPublish, Publish, Goes
<1>Subscribed. ASSUME NEW i \in Instances, Subscribed(i) PROVE Distinct'
  BY <1>Subscribed DEF Subscribed
<1>Deliver. ASSUME NEW i \in Instances, Deliver(i) PROVE Distinct'
  BY <1>Deliver DEF Deliver
<1>Crash. ASSUME NEW i \in Instances, Crash(i) PROVE Distinct'
  BY <1>Crash DEF Crash, Fault
<1>SubscribeFails. ASSUME NEW i \in Instances, SubscribeFails(i) PROVE Distinct'
  BY <1>SubscribeFails DEF SubscribeFails, Fault
<1>DropMessages. ASSUME NEW i \in Instances, DropMessages(i) PROVE Distinct'
  BY <1>DropMessages DEF DropMessages, Fault
<1>CommandFails. ASSUME NEW x \in Callers, CommandFails(x) PROVE Distinct'
  BY <1>CommandFails DEF CommandFails, Fault, Goes
<1>Expire. ASSUME Expire PROVE Distinct'
  BY <1>Expire DEF Expire
<1>Stutter. CASE UNCHANGED vars
  BY <1>Stutter DEF vars
<1> HIDE DEF TypeOK, RunStages, StopStages, Callers, Numbered, Distinct
<1>QED. QED
  BY <1>Register, <1>Replace, <1>Look, <1>LookGet, <1>RegisterPublish, <1>EnterLate,
     <1>Store, <1>Unregister, <1>LeaveGet, <1>LeaveDel, <1>Abandon, <1>StopLocal,
     <1>StopLook, <1>StopGet, <1>StopPublish, <1>Subscribed, <1>Deliver, <1>Crash,
     <1>SubscribeFails, <1>DropMessages, <1>CommandFails, <1>Expire, <1>Stutter
     DEF Next, RunStep, StopStep, InstanceStep

\* Every step keeps the latest run in the map.
LEMMA MapHoldsLatestNext ==
  TypeOK /\ Numbered /\ MapHoldsLatest /\ [Next]_vars => MapHoldsLatest'
<1> SUFFICES ASSUME TypeOK, Numbered, MapHoldsLatest, [Next]_vars PROVE MapHoldsLatest'
  OBVIOUS
<1> USE NoneIsNoRun, CallsAreDistinct DEF TypeOK, RunStages, StopStages, Callers, Numbered, MapHoldsLatest
<1>Register. ASSUME NEW j \in Runs, NEW i \in Instances, Register(j, i) PROVE MapHoldsLatest'
  BY <1>Register DEF Register, Goes
<1>Replace. ASSUME NEW j \in Runs, Replace(j) PROVE MapHoldsLatest'
  BY <1>Replace DEF Replace, Enter, Goes
<1>Look. ASSUME NEW j \in Runs, Look(j) PROVE MapHoldsLatest'
  BY <1>Look DEF Look, Goes
<1>LookGet. ASSUME NEW j \in Runs, LookGet(j) PROVE MapHoldsLatest'
  BY <1>LookGet DEF LookGet, Goes
<1>RegisterPublish. ASSUME NEW j \in Runs, RegisterPublish(j) PROVE MapHoldsLatest'
  BY <1>RegisterPublish DEF RegisterPublish, Publish, Goes
<1>EnterLate. ASSUME NEW j \in Runs, EnterLate(j) PROVE MapHoldsLatest'
  BY <1>EnterLate DEF EnterLate, Enter, Goes
<1>Store. ASSUME NEW j \in Runs, Store(j) PROVE MapHoldsLatest'
  BY <1>Store DEF Store, InOrder, Goes
<1>Unregister. ASSUME NEW j \in Runs, Unregister(j) PROVE MapHoldsLatest'
  BY <1>Unregister DEF Unregister, Goes
<1>LeaveGet. ASSUME NEW j \in Runs, LeaveGet(j) PROVE MapHoldsLatest'
  BY <1>LeaveGet DEF LeaveGet, Goes
<1>LeaveDel. ASSUME NEW j \in Runs, LeaveDel(j) PROVE MapHoldsLatest'
  BY <1>LeaveDel DEF LeaveDel, Goes
<1>Abandon. ASSUME NEW j \in Runs, Abandon(j) PROVE MapHoldsLatest'
  BY <1>Abandon DEF Abandon, Fault, Goes
<1>StopLocal. ASSUME NEW s \in Stops, NEW i \in Instances, StopLocal(s, i) PROVE MapHoldsLatest'
  BY <1>StopLocal DEF StopLocal, Goes
<1>StopLook. ASSUME NEW s \in Stops, NEW i \in Instances, StopLook(s, i) PROVE MapHoldsLatest'
  BY <1>StopLook DEF StopLook, Goes
<1>StopGet. ASSUME NEW s \in Stops, StopGet(s) PROVE MapHoldsLatest'
  BY <1>StopGet DEF StopGet, Goes
<1>StopPublish. ASSUME NEW s \in Stops, StopPublish(s) PROVE MapHoldsLatest'
  BY <1>StopPublish DEF StopPublish, Publish, Goes
<1>Subscribed. ASSUME NEW i \in Instances, Subscribed(i) PROVE MapHoldsLatest'
  BY <1>Subscribed DEF Subscribed
<1>Deliver. ASSUME NEW i \in Instances, Deliver(i) PROVE MapHoldsLatest'
  BY <1>Deliver DEF Deliver
<1>Crash. ASSUME NEW i \in Instances, Crash(i) PROVE MapHoldsLatest'
  BY <1>Crash DEF Crash, Fault
<1>SubscribeFails. ASSUME NEW i \in Instances, SubscribeFails(i) PROVE MapHoldsLatest'
  BY <1>SubscribeFails DEF SubscribeFails, Fault
<1>DropMessages. ASSUME NEW i \in Instances, DropMessages(i) PROVE MapHoldsLatest'
  BY <1>DropMessages DEF DropMessages, Fault
<1>CommandFails. ASSUME NEW x \in Callers, CommandFails(x) PROVE MapHoldsLatest'
  BY <1>CommandFails DEF CommandFails, Fault, Goes
<1>Expire. ASSUME Expire PROVE MapHoldsLatest'
  BY <1>Expire DEF Expire
<1>Stutter. CASE UNCHANGED vars
  BY <1>Stutter DEF vars
<1> HIDE DEF TypeOK, RunStages, StopStages, Callers, Numbered, MapHoldsLatest
<1>QED. QED
  BY <1>Register, <1>Replace, <1>Look, <1>LookGet, <1>RegisterPublish, <1>EnterLate,
     <1>Store, <1>Unregister, <1>LeaveGet, <1>LeaveDel, <1>Abandon, <1>StopLocal,
     <1>StopLook, <1>StopGet, <1>StopPublish, <1>Subscribed, <1>Deliver, <1>Crash,
     <1>SubscribeFails, <1>DropMessages, <1>CommandFails, <1>Expire, <1>Stutter
     DEF Next, RunStep, StopStep, InstanceStep

\* Every step keeps registered runs listening.
LEMMA ListensNext ==
  TypeOK /\ Listens /\ [Next]_vars => Listens'
<1> SUFFICES ASSUME TypeOK, Listens, [Next]_vars PROVE Listens'
  OBVIOUS
<1> USE NoneIsNoRun, CallsAreDistinct DEF TypeOK, RunStages, StopStages, Callers, Listens, Ended
<1>Register. ASSUME NEW j \in Runs, NEW i \in Instances, Register(j, i) PROVE Listens'
  BY <1>Register DEF Register, Goes
<1>Replace. ASSUME NEW j \in Runs, Replace(j) PROVE Listens'
  BY <1>Replace DEF Replace, Enter, Goes
<1>Look. ASSUME NEW j \in Runs, Look(j) PROVE Listens'
  BY <1>Look DEF Look, Goes
<1>LookGet. ASSUME NEW j \in Runs, LookGet(j) PROVE Listens'
  BY <1>LookGet DEF LookGet, Goes
<1>RegisterPublish. ASSUME NEW j \in Runs, RegisterPublish(j) PROVE Listens'
  BY <1>RegisterPublish DEF RegisterPublish, Publish, Goes
<1>EnterLate. ASSUME NEW j \in Runs, EnterLate(j) PROVE Listens'
  BY <1>EnterLate DEF EnterLate, Enter, Goes
<1>Store. ASSUME NEW j \in Runs, Store(j) PROVE Listens'
  BY <1>Store DEF Store, InOrder, Goes
<1>Unregister. ASSUME NEW j \in Runs, Unregister(j) PROVE Listens'
  BY <1>Unregister DEF Unregister, Goes
<1>LeaveGet. ASSUME NEW j \in Runs, LeaveGet(j) PROVE Listens'
  BY <1>LeaveGet DEF LeaveGet, Goes
<1>LeaveDel. ASSUME NEW j \in Runs, LeaveDel(j) PROVE Listens'
  BY <1>LeaveDel DEF LeaveDel, Goes
<1>Abandon. ASSUME NEW j \in Runs, Abandon(j) PROVE Listens'
  BY <1>Abandon DEF Abandon, Fault, Goes
<1>StopLocal. ASSUME NEW s \in Stops, NEW i \in Instances, StopLocal(s, i) PROVE Listens'
  BY <1>StopLocal DEF StopLocal, Goes
<1>StopLook. ASSUME NEW s \in Stops, NEW i \in Instances, StopLook(s, i) PROVE Listens'
  BY <1>StopLook DEF StopLook, Goes
<1>StopGet. ASSUME NEW s \in Stops, StopGet(s) PROVE Listens'
  BY <1>StopGet DEF StopGet, Goes
<1>StopPublish. ASSUME NEW s \in Stops, StopPublish(s) PROVE Listens'
  BY <1>StopPublish DEF StopPublish, Publish, Goes
<1>Subscribed. ASSUME NEW i \in Instances, Subscribed(i) PROVE Listens'
  BY <1>Subscribed DEF Subscribed
<1>Deliver. ASSUME NEW i \in Instances, Deliver(i) PROVE Listens'
  BY <1>Deliver DEF Deliver
<1>Crash. ASSUME NEW i \in Instances, Crash(i) PROVE Listens'
  BY <1>Crash DEF Crash, Fault
<1>SubscribeFails. ASSUME NEW i \in Instances, SubscribeFails(i) PROVE Listens'
  BY <1>SubscribeFails DEF SubscribeFails, Fault
<1>DropMessages. ASSUME NEW i \in Instances, DropMessages(i) PROVE Listens'
  BY <1>DropMessages DEF DropMessages, Fault
<1>CommandFails. ASSUME NEW x \in Callers, CommandFails(x) PROVE Listens'
  BY <1>CommandFails DEF CommandFails, Fault, Goes
<1>Expire. ASSUME Expire PROVE Listens'
  BY <1>Expire DEF Expire
<1>Stutter. CASE UNCHANGED vars
  BY <1>Stutter DEF vars
<1> HIDE DEF TypeOK, RunStages, StopStages, Callers, Listens, Ended
<1>QED. QED
  BY <1>Register, <1>Replace, <1>Look, <1>LookGet, <1>RegisterPublish, <1>EnterLate,
     <1>Store, <1>Unregister, <1>LeaveGet, <1>LeaveDel, <1>Abandon, <1>StopLocal,
     <1>StopLook, <1>StopGet, <1>StopPublish, <1>Subscribed, <1>Deliver, <1>Crash,
     <1>SubscribeFails, <1>DropMessages, <1>CommandFails, <1>Expire, <1>Stutter
     DEF Next, RunStep, StopStep, InstanceStep

\* Every step keeps the order of the stores.
LEMMA StoresInOrderNext ==
  TypeOK /\ Numbered /\ StoresInOrder /\ [Next]_vars => StoresInOrder'
<1> SUFFICES ASSUME TypeOK, Numbered, StoresInOrder, [Next]_vars PROVE StoresInOrder'
  OBVIOUS
<1> USE NoneIsNoRun, CallsAreDistinct DEF TypeOK, RunStages, StopStages, Callers, Numbered, StoresInOrder, NotStored, Ended
<1>Register. ASSUME NEW j \in Runs, NEW i \in Instances, Register(j, i) PROVE StoresInOrder'
  BY <1>Register DEF Register, Goes
<1>Replace. ASSUME NEW j \in Runs, Replace(j) PROVE StoresInOrder'
  <2> SUFFICES ASSUME NEW a \in Runs, NEW b \in Runs,
                      stage'[a] = "storing", inst'[b] = inst'[a], entered'[a] < entered'[b]
               PROVE  stage'[b] \in NotStored
    OBVIOUS
  <2>1. /\ inst' = inst
        /\ stage'[j] = "storing" /\ entered'[j] = now[inst[j]] + 1
        /\ \A x \in Runs : x # j => stage'[x] = stage[x] /\ entered'[x] = entered[x]
    BY <1>Replace DEF Replace, Enter, Goes
  <2>2. CASE b = j
    BY <2>1, <2>2
  <2>3. CASE b # j /\ a = j
    <3>1. entered[b] <= now[inst[b]] /\ entered[b] \in Nat /\ now[inst[j]] \in Nat
      <4>1. stage[j] # "new"
        BY <1>Replace DEF Replace
      <4>2. QED
        BY <2>1, <2>3, <4>1
    <3>2. QED
      BY <2>1, <2>3, <3>1
  <2>4. CASE b # j /\ a # j
    BY <2>1, <2>4
  <2>5. QED
    BY <2>2, <2>3, <2>4
<1>Look. ASSUME NEW j \in Runs, Look(j) PROVE StoresInOrder'
  BY <1>Look DEF Look, Goes
<1>LookGet. ASSUME NEW j \in Runs, LookGet(j) PROVE StoresInOrder'
  BY <1>LookGet DEF LookGet, Goes
<1>RegisterPublish. ASSUME NEW j \in Runs, RegisterPublish(j) PROVE StoresInOrder'
  BY <1>RegisterPublish DEF RegisterPublish, Publish, Goes
<1>EnterLate. ASSUME NEW j \in Runs, EnterLate(j) PROVE StoresInOrder'
  <2> SUFFICES ASSUME NEW a \in Runs, NEW b \in Runs,
                      stage'[a] = "storing", inst'[b] = inst'[a], entered'[a] < entered'[b]
               PROVE  stage'[b] \in NotStored
    OBVIOUS
  <2>1. /\ inst' = inst
        /\ stage'[j] = "storing" /\ entered'[j] = now[inst[j]] + 1
        /\ \A x \in Runs : x # j => stage'[x] = stage[x] /\ entered'[x] = entered[x]
    BY <1>EnterLate DEF EnterLate, Enter, Goes
  <2>2. CASE b = j
    BY <2>1, <2>2
  <2>3. CASE b # j /\ a = j
    <3>1. entered[b] <= now[inst[b]] /\ entered[b] \in Nat /\ now[inst[j]] \in Nat
      <4>1. stage[j] # "new"
        BY <1>EnterLate DEF EnterLate
      <4>2. QED
        BY <2>1, <2>3, <4>1
    <3>2. QED
      BY <2>1, <2>3, <3>1
  <2>4. CASE b # j /\ a # j
    BY <2>1, <2>4
  <2>5. QED
    BY <2>2, <2>3, <2>4
<1>Store. ASSUME NEW j \in Runs, Store(j) PROVE StoresInOrder'
  BY <1>Store DEF Store, InOrder, Goes
<1>Unregister. ASSUME NEW j \in Runs, Unregister(j) PROVE StoresInOrder'
  BY <1>Unregister DEF Unregister, Goes
<1>LeaveGet. ASSUME NEW j \in Runs, LeaveGet(j) PROVE StoresInOrder'
  BY <1>LeaveGet DEF LeaveGet, Goes
<1>LeaveDel. ASSUME NEW j \in Runs, LeaveDel(j) PROVE StoresInOrder'
  BY <1>LeaveDel DEF LeaveDel, Goes
<1>Abandon. ASSUME NEW j \in Runs, Abandon(j) PROVE StoresInOrder'
  BY <1>Abandon DEF Abandon, Fault, Goes
<1>StopLocal. ASSUME NEW s \in Stops, NEW i \in Instances, StopLocal(s, i) PROVE StoresInOrder'
  BY <1>StopLocal DEF StopLocal, Goes
<1>StopLook. ASSUME NEW s \in Stops, NEW i \in Instances, StopLook(s, i) PROVE StoresInOrder'
  BY <1>StopLook DEF StopLook, Goes
<1>StopGet. ASSUME NEW s \in Stops, StopGet(s) PROVE StoresInOrder'
  BY <1>StopGet DEF StopGet, Goes
<1>StopPublish. ASSUME NEW s \in Stops, StopPublish(s) PROVE StoresInOrder'
  BY <1>StopPublish DEF StopPublish, Publish, Goes
<1>Subscribed. ASSUME NEW i \in Instances, Subscribed(i) PROVE StoresInOrder'
  BY <1>Subscribed DEF Subscribed
<1>Deliver. ASSUME NEW i \in Instances, Deliver(i) PROVE StoresInOrder'
  BY <1>Deliver DEF Deliver
<1>Crash. ASSUME NEW i \in Instances, Crash(i) PROVE StoresInOrder'
  BY <1>Crash DEF Crash, Fault
<1>SubscribeFails. ASSUME NEW i \in Instances, SubscribeFails(i) PROVE StoresInOrder'
  BY <1>SubscribeFails DEF SubscribeFails, Fault
<1>DropMessages. ASSUME NEW i \in Instances, DropMessages(i) PROVE StoresInOrder'
  BY <1>DropMessages DEF DropMessages, Fault
<1>CommandFails. ASSUME NEW x \in Callers, CommandFails(x) PROVE StoresInOrder'
  BY <1>CommandFails DEF CommandFails, Fault, Goes
<1>Expire. ASSUME Expire PROVE StoresInOrder'
  BY <1>Expire DEF Expire
<1>Stutter. CASE UNCHANGED vars
  BY <1>Stutter DEF vars
<1> HIDE DEF TypeOK, RunStages, StopStages, Callers, Numbered, StoresInOrder, NotStored, Ended
<1>QED. QED
  BY <1>Register, <1>Replace, <1>Look, <1>LookGet, <1>RegisterPublish, <1>EnterLate,
     <1>Store, <1>Unregister, <1>LeaveGet, <1>LeaveDel, <1>Abandon, <1>StopLocal,
     <1>StopLook, <1>StopGet, <1>StopPublish, <1>Subscribed, <1>Deliver, <1>Crash,
     <1>SubscribeFails, <1>DropMessages, <1>CommandFails, <1>Expire, <1>Stutter
     DEF Next, RunStep, StopStep, InstanceStep

\* Every step keeps the latest run in the key.
LEMMA KeyIsLatestNext ==
  TypeOK /\ Numbered /\ StoresInOrder /\ KeyIsLatest /\ [Next]_vars => KeyIsLatest'
<1> SUFFICES ASSUME TypeOK, Numbered, StoresInOrder, KeyIsLatest, [Next]_vars PROVE KeyIsLatest'
  OBVIOUS
<1> USE NoneIsNoRun, CallsAreDistinct DEF TypeOK, RunStages, StopStages, Callers, Numbered, StoresInOrder, KeyIsLatest, NotStored, StoredOnce, Ended
<1>Register. ASSUME NEW j \in Runs, NEW i \in Instances, Register(j, i) PROVE KeyIsLatest'
  BY <1>Register DEF Register, Goes
<1>Replace. ASSUME NEW j \in Runs, Replace(j) PROVE KeyIsLatest'
  BY <1>Replace DEF Replace, Enter, Goes
<1>Look. ASSUME NEW j \in Runs, Look(j) PROVE KeyIsLatest'
  BY <1>Look DEF Look, Goes
<1>LookGet. ASSUME NEW j \in Runs, LookGet(j) PROVE KeyIsLatest'
  BY <1>LookGet DEF LookGet, Goes
<1>RegisterPublish. ASSUME NEW j \in Runs, RegisterPublish(j) PROVE KeyIsLatest'
  BY <1>RegisterPublish DEF RegisterPublish, Publish, Goes
<1>EnterLate. ASSUME NEW j \in Runs, EnterLate(j) PROVE KeyIsLatest'
  BY <1>EnterLate DEF EnterLate, Enter, Goes
<1>Store. ASSUME NEW j \in Runs, Store(j) PROVE KeyIsLatest'
  BY <1>Store DEF Store, InOrder, Goes
<1>Unregister. ASSUME NEW j \in Runs, Unregister(j) PROVE KeyIsLatest'
  BY <1>Unregister DEF Unregister, Goes
<1>LeaveGet. ASSUME NEW j \in Runs, LeaveGet(j) PROVE KeyIsLatest'
  BY <1>LeaveGet DEF LeaveGet, Goes
<1>LeaveDel. ASSUME NEW j \in Runs, LeaveDel(j) PROVE KeyIsLatest'
  BY <1>LeaveDel DEF LeaveDel, Goes
<1>Abandon. ASSUME NEW j \in Runs, Abandon(j) PROVE KeyIsLatest'
  BY <1>Abandon DEF Abandon, Fault, Goes
<1>StopLocal. ASSUME NEW s \in Stops, NEW i \in Instances, StopLocal(s, i) PROVE KeyIsLatest'
  BY <1>StopLocal DEF StopLocal, Goes
<1>StopLook. ASSUME NEW s \in Stops, NEW i \in Instances, StopLook(s, i) PROVE KeyIsLatest'
  BY <1>StopLook DEF StopLook, Goes
<1>StopGet. ASSUME NEW s \in Stops, StopGet(s) PROVE KeyIsLatest'
  BY <1>StopGet DEF StopGet, Goes
<1>StopPublish. ASSUME NEW s \in Stops, StopPublish(s) PROVE KeyIsLatest'
  BY <1>StopPublish DEF StopPublish, Publish, Goes
<1>Subscribed. ASSUME NEW i \in Instances, Subscribed(i) PROVE KeyIsLatest'
  BY <1>Subscribed DEF Subscribed
<1>Deliver. ASSUME NEW i \in Instances, Deliver(i) PROVE KeyIsLatest'
  BY <1>Deliver DEF Deliver
<1>Crash. ASSUME NEW i \in Instances, Crash(i) PROVE KeyIsLatest'
  BY <1>Crash DEF Crash, Fault
<1>SubscribeFails. ASSUME NEW i \in Instances, SubscribeFails(i) PROVE KeyIsLatest'
  BY <1>SubscribeFails DEF SubscribeFails, Fault
<1>DropMessages. ASSUME NEW i \in Instances, DropMessages(i) PROVE KeyIsLatest'
  BY <1>DropMessages DEF DropMessages, Fault
<1>CommandFails. ASSUME NEW x \in Callers, CommandFails(x) PROVE KeyIsLatest'
  BY <1>CommandFails DEF CommandFails, Fault, Goes
<1>Expire. ASSUME Expire PROVE KeyIsLatest'
  BY <1>Expire DEF Expire
<1>Stutter. CASE UNCHANGED vars
  BY <1>Stutter DEF vars
<1> HIDE DEF TypeOK, RunStages, StopStages, Callers, Numbered, StoresInOrder, KeyIsLatest, NotStored, StoredOnce, Ended
<1>QED. QED
  BY <1>Register, <1>Replace, <1>Look, <1>LookGet, <1>RegisterPublish, <1>EnterLate,
     <1>Store, <1>Unregister, <1>LeaveGet, <1>LeaveDel, <1>Abandon, <1>StopLocal,
     <1>StopLook, <1>StopGet, <1>StopPublish, <1>Subscribed, <1>Deliver, <1>Crash,
     <1>SubscribeFails, <1>DropMessages, <1>CommandFails, <1>Expire, <1>Stutter
     DEF Next, RunStep, StopStep, InstanceStep

\* Every step keeps what was read in the key stored.
LEMMA SawStoredNext ==
  TypeOK /\ KeyIsLatest /\ SawStored /\ [Next]_vars => SawStored'
<1> SUFFICES ASSUME TypeOK, KeyIsLatest, SawStored, [Next]_vars PROVE SawStored'
  OBVIOUS
<1> USE NoneIsNoRun, CallsAreDistinct DEF TypeOK, RunStages, StopStages, Callers, KeyIsLatest, SawStored, StoredOnce, Ended
<1>Register. ASSUME NEW j \in Runs, NEW i \in Instances, Register(j, i) PROVE SawStored'
  BY <1>Register DEF Register, Goes
<1>Replace. ASSUME NEW j \in Runs, Replace(j) PROVE SawStored'
  BY <1>Replace DEF Replace, Enter, Goes
<1>Look. ASSUME NEW j \in Runs, Look(j) PROVE SawStored'
  BY <1>Look DEF Look, Goes
<1>LookGet. ASSUME NEW j \in Runs, LookGet(j) PROVE SawStored'
  BY <1>LookGet DEF LookGet, Goes
<1>RegisterPublish. ASSUME NEW j \in Runs, RegisterPublish(j) PROVE SawStored'
  BY <1>RegisterPublish DEF RegisterPublish, Publish, Goes
<1>EnterLate. ASSUME NEW j \in Runs, EnterLate(j) PROVE SawStored'
  BY <1>EnterLate DEF EnterLate, Enter, Goes
<1>Store. ASSUME NEW j \in Runs, Store(j) PROVE SawStored'
  BY <1>Store DEF Store, InOrder, Goes
<1>Unregister. ASSUME NEW j \in Runs, Unregister(j) PROVE SawStored'
  BY <1>Unregister DEF Unregister, Goes
<1>LeaveGet. ASSUME NEW j \in Runs, LeaveGet(j) PROVE SawStored'
  BY <1>LeaveGet DEF LeaveGet, Goes
<1>LeaveDel. ASSUME NEW j \in Runs, LeaveDel(j) PROVE SawStored'
  BY <1>LeaveDel DEF LeaveDel, Goes
<1>Abandon. ASSUME NEW j \in Runs, Abandon(j) PROVE SawStored'
  BY <1>Abandon DEF Abandon, Fault, Goes
<1>StopLocal. ASSUME NEW s \in Stops, NEW i \in Instances, StopLocal(s, i) PROVE SawStored'
  BY <1>StopLocal DEF StopLocal, Goes
<1>StopLook. ASSUME NEW s \in Stops, NEW i \in Instances, StopLook(s, i) PROVE SawStored'
  BY <1>StopLook DEF StopLook, Goes
<1>StopGet. ASSUME NEW s \in Stops, StopGet(s) PROVE SawStored'
  BY <1>StopGet DEF StopGet, Goes
<1>StopPublish. ASSUME NEW s \in Stops, StopPublish(s) PROVE SawStored'
  BY <1>StopPublish DEF StopPublish, Publish, Goes
<1>Subscribed. ASSUME NEW i \in Instances, Subscribed(i) PROVE SawStored'
  BY <1>Subscribed DEF Subscribed
<1>Deliver. ASSUME NEW i \in Instances, Deliver(i) PROVE SawStored'
  BY <1>Deliver DEF Deliver
<1>Crash. ASSUME NEW i \in Instances, Crash(i) PROVE SawStored'
  BY <1>Crash DEF Crash, Fault
<1>SubscribeFails. ASSUME NEW i \in Instances, SubscribeFails(i) PROVE SawStored'
  BY <1>SubscribeFails DEF SubscribeFails, Fault
<1>DropMessages. ASSUME NEW i \in Instances, DropMessages(i) PROVE SawStored'
  BY <1>DropMessages DEF DropMessages, Fault
<1>CommandFails. ASSUME NEW x \in Callers, CommandFails(x) PROVE SawStored'
  BY <1>CommandFails DEF CommandFails, Fault, Goes
<1>Expire. ASSUME Expire PROVE SawStored'
  BY <1>Expire DEF Expire
<1>Stutter. CASE UNCHANGED vars
  BY <1>Stutter DEF vars
<1> HIDE DEF TypeOK, RunStages, StopStages, Callers, KeyIsLatest, SawStored, StoredOnce, Ended
<1>QED. QED
  BY <1>Register, <1>Replace, <1>Look, <1>LookGet, <1>RegisterPublish, <1>EnterLate,
     <1>Store, <1>Unregister, <1>LeaveGet, <1>LeaveDel, <1>Abandon, <1>StopLocal,
     <1>StopLook, <1>StopGet, <1>StopPublish, <1>Subscribed, <1>Deliver, <1>Crash,
     <1>SubscribeFails, <1>DropMessages, <1>CommandFails, <1>Expire, <1>Stutter
     DEF Next, RunStep, StopStep, InstanceStep

\* Every step keeps stale keys on their way out.
LEMMA StaleKeyNext ==
  TypeOK /\ Numbered /\ Distinct /\ MapHoldsLatest /\ KeyIsLatest /\ StaleKeyIsReplaced /\ [Next]_vars => StaleKeyIsReplaced'
<1> SUFFICES ASSUME TypeOK, Numbered, Distinct, MapHoldsLatest, KeyIsLatest, StaleKeyIsReplaced, [Next]_vars PROVE StaleKeyIsReplaced'
  OBVIOUS
<1> USE NoneIsNoRun, CallsAreDistinct DEF TypeOK, RunStages, StopStages, Callers, Numbered, Distinct, MapHoldsLatest, KeyIsLatest, StaleKeyIsReplaced, NotStored, StoredOnce, Ended
<1>Register. ASSUME NEW j \in Runs, NEW i \in Instances, Register(j, i) PROVE StaleKeyIsReplaced'
  BY <1>Register DEF Register, Goes
<1>Replace. ASSUME NEW j \in Runs, Replace(j) PROVE StaleKeyIsReplaced'
  BY <1>Replace DEF Replace, Enter, Goes
<1>Look. ASSUME NEW j \in Runs, Look(j) PROVE StaleKeyIsReplaced'
  BY <1>Look DEF Look, Goes
<1>LookGet. ASSUME NEW j \in Runs, LookGet(j) PROVE StaleKeyIsReplaced'
  BY <1>LookGet DEF LookGet, Goes
<1>RegisterPublish. ASSUME NEW j \in Runs, RegisterPublish(j) PROVE StaleKeyIsReplaced'
  BY <1>RegisterPublish DEF RegisterPublish, Publish, Goes
<1>EnterLate. ASSUME NEW j \in Runs, EnterLate(j) PROVE StaleKeyIsReplaced'
  BY <1>EnterLate DEF EnterLate, Enter, Goes
<1>Store. ASSUME NEW j \in Runs, Store(j) PROVE StaleKeyIsReplaced'
  BY <1>Store DEF Store, InOrder, Goes
<1>Unregister. ASSUME NEW j \in Runs, Unregister(j) PROVE StaleKeyIsReplaced'
  BY <1>Unregister DEF Unregister, Goes
<1>LeaveGet. ASSUME NEW j \in Runs, LeaveGet(j) PROVE StaleKeyIsReplaced'
  BY <1>LeaveGet DEF LeaveGet, Goes
<1>LeaveDel. ASSUME NEW j \in Runs, LeaveDel(j) PROVE StaleKeyIsReplaced'
  BY <1>LeaveDel DEF LeaveDel, Goes
<1>Abandon. ASSUME NEW j \in Runs, Abandon(j) PROVE StaleKeyIsReplaced'
  BY <1>Abandon DEF Abandon, Fault, Goes
<1>StopLocal. ASSUME NEW s \in Stops, NEW i \in Instances, StopLocal(s, i) PROVE StaleKeyIsReplaced'
  BY <1>StopLocal DEF StopLocal, Goes
<1>StopLook. ASSUME NEW s \in Stops, NEW i \in Instances, StopLook(s, i) PROVE StaleKeyIsReplaced'
  BY <1>StopLook DEF StopLook, Goes
<1>StopGet. ASSUME NEW s \in Stops, StopGet(s) PROVE StaleKeyIsReplaced'
  BY <1>StopGet DEF StopGet, Goes
<1>StopPublish. ASSUME NEW s \in Stops, StopPublish(s) PROVE StaleKeyIsReplaced'
  BY <1>StopPublish DEF StopPublish, Publish, Goes
<1>Subscribed. ASSUME NEW i \in Instances, Subscribed(i) PROVE StaleKeyIsReplaced'
  BY <1>Subscribed DEF Subscribed
<1>Deliver. ASSUME NEW i \in Instances, Deliver(i) PROVE StaleKeyIsReplaced'
  BY <1>Deliver DEF Deliver
<1>Crash. ASSUME NEW i \in Instances, Crash(i) PROVE StaleKeyIsReplaced'
  BY <1>Crash DEF Crash, Fault
<1>SubscribeFails. ASSUME NEW i \in Instances, SubscribeFails(i) PROVE StaleKeyIsReplaced'
  BY <1>SubscribeFails DEF SubscribeFails, Fault
<1>DropMessages. ASSUME NEW i \in Instances, DropMessages(i) PROVE StaleKeyIsReplaced'
  BY <1>DropMessages DEF DropMessages, Fault
<1>CommandFails. ASSUME NEW x \in Callers, CommandFails(x) PROVE StaleKeyIsReplaced'
  BY <1>CommandFails DEF CommandFails, Fault, Goes
<1>Expire. ASSUME Expire PROVE StaleKeyIsReplaced'
  BY <1>Expire DEF Expire
<1>Stutter. CASE UNCHANGED vars
  BY <1>Stutter DEF vars
<1> HIDE DEF TypeOK, RunStages, StopStages, Callers, Numbered, Distinct, MapHoldsLatest, KeyIsLatest, StaleKeyIsReplaced, NotStored, StoredOnce, Ended
<1>QED. QED
  BY <1>Register, <1>Replace, <1>Look, <1>LookGet, <1>RegisterPublish, <1>EnterLate,
     <1>Store, <1>Unregister, <1>LeaveGet, <1>LeaveDel, <1>Abandon, <1>StopLocal,
     <1>StopLook, <1>StopGet, <1>StopPublish, <1>Subscribed, <1>Deliver, <1>Crash,
     <1>SubscribeFails, <1>DropMessages, <1>CommandFails, <1>Expire, <1>Stutter
     DEF Next, RunStep, StopStep, InstanceStep

\* Every step keeps runs within reach of Stop.
LEMMA OwnerCanStopNext ==
  TypeOK /\ MapHoldsLatest /\ OwnerCanStop /\ [Next]_vars => OwnerCanStop'
<1> SUFFICES ASSUME TypeOK, MapHoldsLatest, OwnerCanStop, [Next]_vars PROVE OwnerCanStop'
  OBVIOUS
<1> USE NoneIsNoRun, CallsAreDistinct DEF TypeOK, RunStages, StopStages, Callers, MapHoldsLatest, OwnerCanStop, Ended
<1>Register. ASSUME NEW j \in Runs, NEW i \in Instances, Register(j, i) PROVE OwnerCanStop'
  BY <1>Register DEF Register, Goes
<1>Replace. ASSUME NEW j \in Runs, Replace(j) PROVE OwnerCanStop'
  BY <1>Replace DEF Replace, Enter, Goes
<1>Look. ASSUME NEW j \in Runs, Look(j) PROVE OwnerCanStop'
  BY <1>Look DEF Look, Goes
<1>LookGet. ASSUME NEW j \in Runs, LookGet(j) PROVE OwnerCanStop'
  BY <1>LookGet DEF LookGet, Goes
<1>RegisterPublish. ASSUME NEW j \in Runs, RegisterPublish(j) PROVE OwnerCanStop'
  BY <1>RegisterPublish DEF RegisterPublish, Publish, Goes
<1>EnterLate. ASSUME NEW j \in Runs, EnterLate(j) PROVE OwnerCanStop'
  BY <1>EnterLate DEF EnterLate, Enter, Goes
<1>Store. ASSUME NEW j \in Runs, Store(j) PROVE OwnerCanStop'
  BY <1>Store DEF Store, InOrder, Goes
<1>Unregister. ASSUME NEW j \in Runs, Unregister(j) PROVE OwnerCanStop'
  BY <1>Unregister DEF Unregister, Goes
<1>LeaveGet. ASSUME NEW j \in Runs, LeaveGet(j) PROVE OwnerCanStop'
  BY <1>LeaveGet DEF LeaveGet, Goes
<1>LeaveDel. ASSUME NEW j \in Runs, LeaveDel(j) PROVE OwnerCanStop'
  BY <1>LeaveDel DEF LeaveDel, Goes
<1>Abandon. ASSUME NEW j \in Runs, Abandon(j) PROVE OwnerCanStop'
  BY <1>Abandon DEF Abandon, Fault, Goes
<1>StopLocal. ASSUME NEW s \in Stops, NEW i \in Instances, StopLocal(s, i) PROVE OwnerCanStop'
  BY <1>StopLocal DEF StopLocal, Goes
<1>StopLook. ASSUME NEW s \in Stops, NEW i \in Instances, StopLook(s, i) PROVE OwnerCanStop'
  BY <1>StopLook DEF StopLook, Goes
<1>StopGet. ASSUME NEW s \in Stops, StopGet(s) PROVE OwnerCanStop'
  BY <1>StopGet DEF StopGet, Goes
<1>StopPublish. ASSUME NEW s \in Stops, StopPublish(s) PROVE OwnerCanStop'
  BY <1>StopPublish DEF StopPublish, Publish, Goes
<1>Subscribed. ASSUME NEW i \in Instances, Subscribed(i) PROVE OwnerCanStop'
  BY <1>Subscribed DEF Subscribed
<1>Deliver. ASSUME NEW i \in Instances, Deliver(i) PROVE OwnerCanStop'
  BY <1>Deliver DEF Deliver
<1>Crash. ASSUME NEW i \in Instances, Crash(i) PROVE OwnerCanStop'
  BY <1>Crash DEF Crash, Fault
<1>SubscribeFails. ASSUME NEW i \in Instances, SubscribeFails(i) PROVE OwnerCanStop'
  BY <1>SubscribeFails DEF SubscribeFails, Fault
<1>DropMessages. ASSUME NEW i \in Instances, DropMessages(i) PROVE OwnerCanStop'
  BY <1>DropMessages DEF DropMessages, Fault
<1>CommandFails. ASSUME NEW x \in Callers, CommandFails(x) PROVE OwnerCanStop'
  BY <1>CommandFails DEF CommandFails, Fault, Goes
<1>Expire. ASSUME Expire PROVE OwnerCanStop'
  BY <1>Expire DEF Expire
<1>Stutter. CASE UNCHANGED vars
  BY <1>Stutter DEF vars
<1> HIDE DEF TypeOK, RunStages, StopStages, Callers, MapHoldsLatest, OwnerCanStop, Ended
<1>QED. QED
  BY <1>Register, <1>Replace, <1>Look, <1>LookGet, <1>RegisterPublish, <1>EnterLate,
     <1>Store, <1>Unregister, <1>LeaveGet, <1>LeaveDel, <1>Abandon, <1>StopLocal,
     <1>StopLook, <1>StopGet, <1>StopPublish, <1>Subscribed, <1>Deliver, <1>Crash,
     <1>SubscribeFails, <1>DropMessages, <1>CommandFails, <1>Expire, <1>Stutter
     DEF Next, RunStep, StopStep, InstanceStep

\* Every step keeps what was seen in the key on its way to its end.
LEMMA SightedIsHitNext ==
  TypeOK /\ Listens /\ SawStored /\ KeyIsLatest /\ OwnerCanStop /\ SightedIsHit /\ [Next]_vars => SightedIsHit'
<1> SUFFICES ASSUME TypeOK, Listens, SawStored, KeyIsLatest, OwnerCanStop, SightedIsHit, [Next]_vars PROVE SightedIsHit'
  OBVIOUS
<1> USE NoneIsNoRun, CallsAreDistinct DEF TypeOK, RunStages, StopStages, Callers, Listens, SawStored, KeyIsLatest, OwnerCanStop, SightedIsHit, StoredOnce, Ended
<1>Register. ASSUME NEW j \in Runs, NEW i \in Instances, Register(j, i) PROVE SightedIsHit'
  BY <1>Register DEF Register, Goes
<1>Replace. ASSUME NEW j \in Runs, Replace(j) PROVE SightedIsHit'
  <2>1. /\ UNCHANGED <<inst, saw, inbox, lost>>
        /\ aborted \cup orphans \subseteq aborted' \cup orphans'
        /\ \A x \in Callers : x # j => stage'[x] = stage[x]
        /\ stage[j] \in {"waiting", "asked", "published"} /\ stage'[j] = "storing"
    BY <1>Replace DEF Replace, Enter, Goes
  <2> SUFFICES ASSUME NEW x \in Callers, NEW k \in Runs, saw'[x] = k,
                      stage'[x] \in {"published", "storing", "running", "stopped"},
                      k \notin aborted' \cup orphans', <<inst'[k], x>> \notin lost',
                      stage'[k] \notin Ended \cup {"leaving", "deleting"}
               PROVE  x \in Carried(inbox'[inst'[k]])
    OBVIOUS
  <2>2. saw[x] = k /\ k \in Callers /\ stage[k] \in StoredOnce
    BY <2>1
  <2>3. k # j /\ stage[k] = "running" /\ k \notin aborted \cup orphans
    BY <2>1, <2>2
  <2>4. stage[x] \in {"published", "storing", "running", "stopped"}
    <3>1. stage[x] \notin {"waiting", "asked"}
      BY <2>2
    <3>2. QED
      BY <2>1, <3>1
  <2>5. QED
    BY <2>1, <2>2, <2>3, <2>4
<1>Look. ASSUME NEW j \in Runs, Look(j) PROVE SightedIsHit'
  BY <1>Look DEF Look, Goes
<1>LookGet. ASSUME NEW j \in Runs, LookGet(j) PROVE SightedIsHit'
  BY <1>LookGet DEF LookGet, Goes
<1>RegisterPublish. ASSUME NEW j \in Runs, RegisterPublish(j) PROVE SightedIsHit'
  <2> DEFINE subs == {i \in Instances : link[i] = "ready"}
  <2>1. /\ inbox \in [Instances -> Seq(Callers)]
        /\ j \in Callers
    OBVIOUS
  <2>2. /\ inbox' = FanOut(inbox, subs, j)
        /\ stage[j] = "publishing"
        /\ \A x \in Callers : x # j => stage'[x] = stage[x]
        /\ stage'[j] \in {"published", "stopped"}
        /\ UNCHANGED <<inst, saw, aborted, orphans, lost>>
    BY <1>RegisterPublish DEF RegisterPublish, Publish, Goes
  <2> HIDE DEF subs
  <2>3. /\ \A i \in Instances : Carried(inbox[i]) \subseteq Carried(inbox'[i])
        /\ \A i \in Instances : i \in subs => j \in Carried(inbox'[i])
    BY ONLY <2>1, <2>2, FanOutFacts
  <2> SUFFICES ASSUME NEW x \in Callers, NEW k \in Runs, saw'[x] = k,
                      stage'[x] \in {"published", "storing", "running", "stopped"},
                      k \notin aborted' \cup orphans', <<inst'[k], x>> \notin lost',
                      stage'[k] \notin Ended \cup {"leaving", "deleting"}
               PROVE  x \in Carried(inbox'[inst'[k]])
    OBVIOUS
  <2>4. stage[k] = "running" /\ k # j /\ inst[k] \in Instances
    <3>1. saw[x] = k /\ k \in Callers
      BY <2>2
    <3>2. stage[k] \in StoredOnce
      BY <3>1
    <3>3. k # j /\ stage'[k] = stage[k]
      BY <2>2, <3>1, <3>2
    <3>4. QED
      BY <3>1, <3>2, <3>3
  <2>5. CASE x = j
    BY <2>2, <2>3, <2>4, <2>5 DEF subs
  <2>6. CASE x # j
    BY <2>2, <2>3, <2>4, <2>6
  <2>7. QED
    BY <2>5, <2>6
<1>EnterLate. ASSUME NEW j \in Runs, EnterLate(j) PROVE SightedIsHit'
  <2>1. /\ UNCHANGED <<inst, saw, inbox, lost>>
        /\ aborted \cup orphans \subseteq aborted' \cup orphans'
        /\ \A x \in Callers : x # j => stage'[x] = stage[x]
        /\ stage[j] \in {"waiting", "asked", "published"} /\ stage'[j] = "storing"
    BY <1>EnterLate DEF EnterLate, Enter, Goes
  <2> SUFFICES ASSUME NEW x \in Callers, NEW k \in Runs, saw'[x] = k,
                      stage'[x] \in {"published", "storing", "running", "stopped"},
                      k \notin aborted' \cup orphans', <<inst'[k], x>> \notin lost',
                      stage'[k] \notin Ended \cup {"leaving", "deleting"}
               PROVE  x \in Carried(inbox'[inst'[k]])
    OBVIOUS
  <2>2. saw[x] = k /\ k \in Callers /\ stage[k] \in StoredOnce
    BY <2>1
  <2>3. k # j /\ stage[k] = "running" /\ k \notin aborted \cup orphans
    BY <2>1, <2>2
  <2>4. stage[x] \in {"published", "storing", "running", "stopped"}
    <3>1. stage[x] \notin {"waiting", "asked"}
      BY <2>2
    <3>2. QED
      BY <2>1, <3>1
  <2>5. QED
    BY <2>1, <2>2, <2>3, <2>4
<1>Store. ASSUME NEW j \in Runs, Store(j) PROVE SightedIsHit'
  BY <1>Store DEF Store, InOrder, Goes
<1>Unregister. ASSUME NEW j \in Runs, Unregister(j) PROVE SightedIsHit'
  BY <1>Unregister DEF Unregister, Goes
<1>LeaveGet. ASSUME NEW j \in Runs, LeaveGet(j) PROVE SightedIsHit'
  BY <1>LeaveGet DEF LeaveGet, Goes
<1>LeaveDel. ASSUME NEW j \in Runs, LeaveDel(j) PROVE SightedIsHit'
  BY <1>LeaveDel DEF LeaveDel, Goes
<1>Abandon. ASSUME NEW j \in Runs, Abandon(j) PROVE SightedIsHit'
  BY <1>Abandon DEF Abandon, Fault, Goes
<1>StopLocal. ASSUME NEW s \in Stops, NEW i \in Instances, StopLocal(s, i) PROVE SightedIsHit'
  <2>1. /\ UNCHANGED <<saw, inbox, lost>>
        /\ inst' = [inst EXCEPT ![s] = i]
        /\ aborted \cup orphans \subseteq aborted' \cup orphans'
        /\ \A x \in Callers : x # s => stage'[x] = stage[x]
        /\ saw[s] = None
    BY <1>StopLocal DEF StopLocal, Goes
  <2> SUFFICES ASSUME NEW x \in Callers, NEW k \in Runs, saw'[x] = k,
                      stage'[x] \in {"published", "storing", "running", "stopped"},
                      k \notin aborted' \cup orphans', <<inst'[k], x>> \notin lost',
                      stage'[k] \notin Ended \cup {"leaving", "deleting"}
               PROVE  x \in Carried(inbox'[inst'[k]])
    OBVIOUS
  <2>2. x # s /\ k # s /\ k \in Callers
    BY <2>1
  <2>3. QED
    BY <2>1, <2>2
<1>StopLook. ASSUME NEW s \in Stops, NEW i \in Instances, StopLook(s, i) PROVE SightedIsHit'
  BY <1>StopLook DEF StopLook, Goes
<1>StopGet. ASSUME NEW s \in Stops, StopGet(s) PROVE SightedIsHit'
  BY <1>StopGet DEF StopGet, Goes
<1>StopPublish. ASSUME NEW s \in Stops, StopPublish(s) PROVE SightedIsHit'
  <2> DEFINE subs == {i \in Instances : link[i] = "ready"}
  <2>1. /\ inbox \in [Instances -> Seq(Callers)]
        /\ s \in Callers
    OBVIOUS
  <2>2. /\ inbox' = FanOut(inbox, subs, s)
        /\ stage[s] = "publishing"
        /\ \A x \in Callers : x # s => stage'[x] = stage[x]
        /\ stage'[s] \in {"published", "stopped"}
        /\ UNCHANGED <<inst, saw, aborted, orphans, lost>>
    BY <1>StopPublish DEF StopPublish, Publish, Goes
  <2> HIDE DEF subs
  <2>3. /\ \A i \in Instances : Carried(inbox[i]) \subseteq Carried(inbox'[i])
        /\ \A i \in Instances : i \in subs => s \in Carried(inbox'[i])
    BY ONLY <2>1, <2>2, FanOutFacts
  <2> SUFFICES ASSUME NEW x \in Callers, NEW k \in Runs, saw'[x] = k,
                      stage'[x] \in {"published", "storing", "running", "stopped"},
                      k \notin aborted' \cup orphans', <<inst'[k], x>> \notin lost',
                      stage'[k] \notin Ended \cup {"leaving", "deleting"}
               PROVE  x \in Carried(inbox'[inst'[k]])
    OBVIOUS
  <2>4. stage[k] = "running" /\ k # s /\ inst[k] \in Instances
    <3>1. saw[x] = k /\ k \in Callers
      BY <2>2
    <3>2. stage[k] \in StoredOnce
      BY <3>1
    <3>3. k # s /\ stage'[k] = stage[k]
      BY <2>2, <3>1, <3>2
    <3>4. QED
      BY <3>1, <3>2, <3>3
  <2>5. CASE x = s
    BY <2>2, <2>3, <2>4, <2>5 DEF subs
  <2>6. CASE x # s
    BY <2>2, <2>3, <2>4, <2>6
  <2>7. QED
    BY <2>5, <2>6
<1>Subscribed. ASSUME NEW i \in Instances, Subscribed(i) PROVE SightedIsHit'
  BY <1>Subscribed DEF Subscribed
<1>Deliver. ASSUME NEW i \in Instances, Deliver(i) PROVE SightedIsHit'
  <2>1. /\ inbox \in [Instances -> Seq(Callers)]
        /\ inbox[i] # <<>>
    BY <1>Deliver DEF Deliver
  <2>2. \A n \in Instances : n # i => TakeFirst(inbox, i)[n] = inbox[n]
    BY ONLY <2>1, i \in Instances, TakeFirstFacts
  <2>3. /\ inbox' = TakeFirst(inbox, i)
        /\ aborted' = aborted \cup ({local[i]} \ {None})
        /\ UNCHANGED <<stage, inst, saw, orphans, lost>>
    BY <1>Deliver DEF Deliver
  <2> SUFFICES ASSUME NEW x \in Callers, NEW k \in Runs, saw[x] = k,
                      stage[x] \in {"published", "storing", "running", "stopped"},
                      k \notin aborted' \cup orphans', <<inst'[k], x>> \notin lost',
                      stage[k] \notin Ended \cup {"leaving", "deleting"}
               PROVE  x \in Carried(inbox'[inst[k]])
    BY <2>3
  <2>4. stage[k] = "running" /\ k \notin aborted \cup orphans /\ inst[k] \in Instances
    BY <2>3
  <2>5. local[inst[k]] = k /\ x \in Carried(inbox[inst[k]])
    BY <2>3, <2>4
  <2>6. inst[k] # i
    BY <2>3, <2>5
  <2>7. QED
    BY <2>2, <2>3, <2>4, <2>5, <2>6
<1>Crash. ASSUME NEW i \in Instances, Crash(i) PROVE SightedIsHit'
  <2>1. /\ UNCHANGED <<inst, saw, aborted, orphans, lost>>
        /\ \A n \in Instances : n # i => inbox'[n] = inbox[n]
        /\ \A x \in Callers : stage'[x] \in {stage[x], "dead", "failed"}
        /\ \A k \in Runs : inst[k] = i => stage'[k] \in Ended
    <3>1. UNCHANGED <<inst, saw, aborted, orphans, lost>> /\ inbox' = [inbox EXCEPT ![i] = <<>>]
      BY <1>Crash DEF Crash
    <3>2. \A x \in Callers :
            stage'[x] = IF inst[x] # i \/ stage[x] \in Ended \cup {"stopped", "nothing"}
                        THEN stage[x] ELSE IF x \in Runs THEN "dead" ELSE "failed"
      BY <1>Crash DEF Crash
    <3>3. \A k \in Runs : k \in Callers /\ stage[k] \notin {"stopped", "nothing"}
      OBVIOUS
    <3>4. \A n \in Instances : n # i => inbox'[n] = inbox[n]
      BY <3>1
    <3>5. QED
      BY <3>1, <3>2, <3>3, <3>4
  <2> SUFFICES ASSUME NEW x \in Callers, NEW k \in Runs, saw'[x] = k,
                      stage'[x] \in {"published", "storing", "running", "stopped"},
                      k \notin aborted' \cup orphans', <<inst'[k], x>> \notin lost',
                      stage'[k] \notin Ended \cup {"leaving", "deleting"}
               PROVE  x \in Carried(inbox'[inst'[k]])
    OBVIOUS
  <2>2. stage'[x] = stage[x] /\ stage'[k] = stage[k] /\ k \in Callers
    BY <2>1
  <2>3. inst[k] # i
    BY <2>1, <2>2
  <2>4. stage[k] = "running" /\ inst[k] \in Instances
    BY <2>1, <2>2
  <2>5. QED
    BY <2>1, <2>2, <2>3, <2>4
<1>SubscribeFails. ASSUME NEW i \in Instances, SubscribeFails(i) PROVE SightedIsHit'
  BY <1>SubscribeFails DEF SubscribeFails, Fault
<1>DropMessages. ASSUME NEW i \in Instances, DropMessages(i) PROVE SightedIsHit'
  <2>1. /\ UNCHANGED <<stage, inst, saw, aborted, orphans>>
        /\ inbox' = [inbox EXCEPT ![i] = <<>>]
        /\ lost' = lost \cup ({i} \X Carried(inbox[i]))
    BY <1>DropMessages DEF DropMessages
  <2> SUFFICES ASSUME NEW x \in Callers, NEW k \in Runs, saw[x] = k,
                      stage[x] \in {"published", "storing", "running", "stopped"},
                      k \notin aborted \cup orphans, <<inst[k], x>> \notin lost',
                      stage[k] \notin Ended \cup {"leaving", "deleting"}
               PROVE  x \in Carried(inbox'[inst[k]])
    BY <2>1
  <2>2. stage[k] = "running" /\ inst[k] \in Instances
    OBVIOUS
  <2>3. x \in Carried(inbox[inst[k]])
    BY <2>1, <2>2
  <2>4. inst[k] # i
    BY <2>1, <2>3
  <2>5. QED
    BY <2>1, <2>2, <2>3, <2>4
<1>CommandFails. ASSUME NEW x \in Callers, CommandFails(x) PROVE SightedIsHit'
  BY <1>CommandFails DEF CommandFails, Fault, Goes
<1>Expire. ASSUME Expire PROVE SightedIsHit'
  BY <1>Expire DEF Expire
<1>Stutter. CASE UNCHANGED vars
  BY <1>Stutter DEF vars
<1> HIDE DEF TypeOK, RunStages, StopStages, Callers, Listens, SawStored, KeyIsLatest, OwnerCanStop, SightedIsHit, StoredOnce, Ended
<1>QED. QED
  BY <1>Register, <1>Replace, <1>Look, <1>LookGet, <1>RegisterPublish, <1>EnterLate,
     <1>Store, <1>Unregister, <1>LeaveGet, <1>LeaveDel, <1>Abandon, <1>StopLocal,
     <1>StopLook, <1>StopGet, <1>StopPublish, <1>Subscribed, <1>Deliver, <1>Crash,
     <1>SubscribeFails, <1>DropMessages, <1>CommandFails, <1>Expire, <1>Stutter
     DEF Next, RunStep, StopStep, InstanceStep

-----------------------------------------------------------------------------
(* the theorems *)

\* The strengthened invariant holds in every reachable state.
THEOREM InductiveInvariant == Spec => []IInv
<1>1. Init => IInv
  BY NoneIsNoRun DEF Init, IInv, TypeOK, RunStages, StopStages, Callers, Numbered, Distinct,
     MapHoldsLatest, Listens, StoresInOrder, KeyIsLatest, SawStored,
     StaleKeyIsReplaced, OwnerCanStop, SightedIsHit
<1>2. IInv /\ [Next]_vars => IInv'
  BY TypeNext, NumberedNext, DistinctNext, MapHoldsLatestNext, ListensNext,
     StoresInOrderNext, KeyIsLatestNext, SawStoredNext, StaleKeyNext,
     OwnerCanStopNext, SightedIsHitNext DEF IInv
<1>3. QED
  BY <1>1, <1>2, PTL DEF Spec

\* The shared key of an ended run is on its way to be replaced by the run that
\* took its place on its instance.
THEOREM StaleKeysGo == Spec => []StaleKeyIsReplaced
<1>1. IInv => StaleKeyIsReplaced
  BY DEF IInv
<1>2. QED
  BY <1>1, InductiveInvariant, PTL

\* A Stop on the instance of a turn in progress reaches it.
THEOREM StopReachesOwner == Spec => []OwnerCanStop
<1>1. IInv => OwnerCanStop
  BY DEF IInv
<1>2. QED
  BY <1>1, InductiveInvariant, PTL

\* A run that was seen in the shared key is aborted by whoever saw it.
THEOREM SightingAborts == Spec => []SightedIsHit
<1>1. IInv => SightedIsHit
  BY DEF IInv
<1>2. QED
  BY <1>1, InductiveInvariant, PTL

\* A turn ends the turn before it on its instance before it starts.
THEOREM NewTurnTakesOver == Spec => []TakesOver
<1>1. IInv => TakesOver
  <2> SUFFICES ASSUME IInv, NEW j \in Runs, NEW k \in Runs,
                      inst[j] = inst[k], 0 < entered[j], entered[j] < entered[k],
                      stage[j] = "running", j \notin aborted \cup orphans
               PROVE  FALSE
    BY DEF TakesOver
  <2>1. inst[j] \in Instances /\ entered[j] \in Nat /\ entered[k] \in Nat
    BY DEF IInv, TypeOK, Callers
  <2>2. local[inst[j]] = j
    BY DEF IInv, OwnerCanStop
  <2>3. entered[j] = now[inst[j]]
    BY <2>1, <2>2, NoneIsNoRun DEF IInv, MapHoldsLatest
  <2>4. entered[k] <= now[inst[k]]
    BY <2>1 DEF IInv, Numbered
  <2>5. QED
    BY <2>1, <2>3, <2>4
<1>2. QED
  BY <1>1, InductiveInvariant, PTL

=============================================================================
