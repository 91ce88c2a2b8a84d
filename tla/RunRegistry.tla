---------------------------- MODULE RunRegistry ----------------------------
(***************************************************************************)
(* The run registry (orchestrator/run-registry.ts) of several instances    *)
(* over one Redis, for one session: every POST of a message registers a    *)
(* run, which aborts the run before it; DELETE active-run (Stop) aborts    *)
(* the run in progress; the end of the turn unregisters it.  Sessions do   *)
(* not share state, so one is enough.                                      *)
(*                                                                         *)
(* A bus command is one step, its effect in Redis; where the instance can  *)
(* do something else before it handles the reply, that is a second step.   *)
(* An instance's SETs take effect in the order it issued them.             *)
(***************************************************************************)
EXTENDS Naturals, Sequences, RuntimeBusOps

CONSTANTS
  Instances,  \* server processes; a restarted one is a fresh member
  Runs,       \* turns of the session, one registerRun each (jobId)
  Stops,      \* DELETE active-run calls
  MaxFaults,  \* bound on crashes and failed commands
  None

ASSUME NoneIsNoRun == None \notin Instances \cup Runs
ASSUME CallsAreDistinct == Runs \cap Stops = {}
ASSUME FaultBound == MaxFaults \in Nat

VARIABLES
  link,     \* link[i]: the instance and its abort subscription
  local,    \* local[i]: the handle in the registry map of instance i
  key,      \* the run the shared active-run key names
  inbox,    \* inbox[i]: abort signals on their way to instance i, by caller
  stage,    \* stage[x]: where the run or the Stop x is
  inst,     \* inst[x]: the instance that serves x
  saw,      \* saw[x]: what the GET of x found in the shared key
  entered,  \* entered[j]: when registry.set of its instance took j in, 0 before
  now,      \* now[i]: number of registry.set calls on instance i
  aborted,  \* runs whose AbortController was aborted
  orphans,  \* history: runs that registry.set overwrote without an abort
  lost,     \* history: <<i, x>> if instance i missed the signal of x
  faults

vars == <<link, local, key, inbox, stage, inst, saw, entered, now, aborted,
          orphans, lost, faults>>

Callers == Runs \cup Stops
RunStages == {"new", "waiting", "asking", "asked", "publishing", "published",
              "storing", "running", "leaving", "deleting", "done", "failed", "dead"}
StopStages == {"new", "asking", "publishing", "stopped", "nothing", "failed"}
Ended == {"done", "failed", "dead"}

TypeOK ==
  /\ link \in [Instances -> {"fresh", "subscribing", "ready", "deaf", "dead"}]
  /\ local \in [Instances -> Runs \cup {None}]
  /\ key \in Runs \cup {None}
  /\ inbox \in [Instances -> Seq(Callers)]
  /\ stage \in [Callers -> RunStages \cup StopStages]
  /\ \A j \in Runs : stage[j] \in RunStages
  /\ \A s \in Stops : stage[s] \in StopStages
  /\ inst \in [Callers -> Instances \cup {None}]
  /\ \A x \in Callers : stage[x] # "new" => inst[x] \in Instances
  /\ saw \in [Callers -> Runs \cup {None}]
  /\ entered \in [Runs -> Nat]
  /\ now \in [Instances -> Nat]
  /\ aborted \subseteq Runs
  /\ orphans \subseteq Runs
  /\ lost \subseteq Instances \X Callers
  /\ faults \in Nat

Init ==
  /\ link = [i \in Instances |-> "fresh"]
  /\ local = [i \in Instances |-> None]
  /\ key = None
  /\ inbox = [i \in Instances |-> <<>>]
  /\ stage = [x \in Callers |-> "new"]
  /\ inst = [x \in Callers |-> None]
  /\ saw = [x \in Callers |-> None]
  /\ entered = [j \in Runs |-> 0]
  /\ now = [i \in Instances |-> 0]
  /\ aborted = {}
  /\ orphans = {}
  /\ lost = {}
  /\ faults = 0

Goes(x, to) == stage' = [stage EXCEPT ![x] = to]

-----------------------------------------------------------------------------
(* the subscription and its handler *)

Subscribed(i) ==
  /\ link[i] = "subscribing"
  /\ link' = [link EXCEPT ![i] = "ready"]
  /\ UNCHANGED <<local, key, inbox, stage, inst, saw, entered, now, aborted,
                 orphans, lost, faults>>

\* Faulty: the handler aborts its handle only while the shared key names it.
DeliverKeyed(i) ==
  /\ inbox[i] # <<>>
  /\ aborted' = aborted \cup (({local[i]} \cap {key}) \ {None})
  /\ inbox' = TakeFirst(inbox, i)
  /\ UNCHANGED <<link, local, key, stage, inst, saw, entered, now, orphans, lost, faults>>

\* Faulty: the handler does not look whether the session has a run here.
DeliverBlindly(i) ==
  /\ inbox[i] # <<>>
  /\ aborted' = aborted \cup {local[i]}
  /\ inbox' = TakeFirst(inbox, i)
  /\ UNCHANGED <<link, local, key, stage, inst, saw, entered, now, orphans, lost, faults>>

\* The signal names the session only: it aborts the handle that is registered
\* when it arrives, whichever run that is.
Deliver(i) ==
  /\ inbox[i] # <<>>
  /\ aborted' = aborted \cup ({local[i]} \ {None})
  /\ inbox' = TakeFirst(inbox, i)
  /\ UNCHANGED <<link, local, key, stage, inst, saw, entered, now, orphans, lost, faults>>

Publish(x, to) ==
  /\ stage[x] = "publishing"
  /\ inbox' = FanOut(inbox, {i \in Instances : link[i] = "ready"}, x)
  /\ Goes(x, to)
  /\ UNCHANGED <<link, local, key, inst, saw, entered, now, aborted, orphans, lost, faults>>

-----------------------------------------------------------------------------
(* registerRun *)

\* The POST calls registerRun, which first awaits ensureSubscribed.
Register(j, i) ==
  /\ stage[j] = "new"
  /\ link[i] # "dead"
  /\ inst' = [inst EXCEPT ![j] = i]
  /\ link' = [link EXCEPT ![i] = IF @ = "fresh" THEN "subscribing" ELSE @]
  /\ Goes(j, IF link[i] = "deaf" THEN "failed" ELSE "waiting")
  /\ UNCHANGED <<local, key, inbox, saw, entered, now, aborted, orphans, lost, faults>>

\* registry.set, and the SET of the shared key is issued.
Enter(j) ==
  /\ local' = [local EXCEPT ![inst[j]] = j]
  /\ now' = [now EXCEPT ![inst[j]] = @ + 1]
  /\ entered' = [entered EXCEPT ![j] = now[inst[j]] + 1]
  /\ Goes(j, "storing")

\* A run is registered here: abort it and take its place in the same turn of
\* the event loop.
Replace(j) ==
  /\ stage[j] = "waiting"
  /\ link[inst[j]] = "ready"
  /\ local[inst[j]] # None
  /\ aborted' = aborted \cup {local[inst[j]]}
  /\ Enter(j)
  /\ UNCHANGED <<link, key, inbox, inst, saw, orphans, lost, faults>>

\* No run here: ask the shared key.
Look(j) ==
  /\ stage[j] = "waiting"
  /\ link[inst[j]] = "ready"
  /\ local[inst[j]] = None
  /\ Goes(j, "asking")
  /\ UNCHANGED <<link, local, key, inbox, inst, saw, entered, now, aborted,
                 orphans, lost, faults>>

LookGet(j) ==
  /\ stage[j] = "asking"
  /\ saw' = [saw EXCEPT ![j] = key]
  /\ Goes(j, IF key = None THEN "asked" ELSE "publishing")
  /\ UNCHANGED <<link, local, key, inbox, inst, entered, now, aborted, orphans, lost, faults>>

RegisterPublish(j) == Publish(j, "published")

\* After the await the map is overwritten, whoever came first meanwhile.
EnterLate(j) ==
  /\ stage[j] \in {"asked", "published"}
  /\ orphans' = orphans \cup ({local[inst[j]]} \ {None})
  /\ Enter(j)
  /\ UNCHANGED <<link, key, inbox, inst, saw, aborted, lost, faults>>

InOrder(j) ==
  \A k \in Runs :
    inst[k] = inst[j] /\ stage[k] = "storing" => entered[j] <= entered[k]

Store(j) ==
  /\ stage[j] = "storing"
  /\ InOrder(j)
  /\ key' = j
  /\ Goes(j, "running")
  /\ UNCHANGED <<link, local, inbox, inst, saw, entered, now, aborted, orphans, lost, faults>>

-----------------------------------------------------------------------------
(* unregisterRun *)

\* Faulty: a run that is no longer the registered one removes the handle too.
UnregisterAny(j) ==
  /\ stage[j] = "running"
  /\ local' = [local EXCEPT ![inst[j]] = None]
  /\ Goes(j, "leaving")
  /\ UNCHANGED <<link, key, inbox, inst, saw, entered, now, aborted, orphans, lost, faults>>

\* The end of the turn: only the registered run, or one with no handle left,
\* goes on to the shared key.
Unregister(j) ==
  LET current == local[inst[j]]
  IN /\ stage[j] = "running"
     /\ local' = [local EXCEPT ![inst[j]] = IF current = j THEN None ELSE @]
     /\ Goes(j, IF current \in {None, j} THEN "leaving" ELSE "done")
     /\ UNCHANGED <<link, key, inbox, inst, saw, entered, now, aborted, orphans, lost, faults>>

\* Faulty: only an absent key counts as this run's own.
LeaveKept(j) ==
  /\ stage[j] = "leaving"
  /\ Goes(j, IF key = None THEN "deleting" ELSE "done")
  /\ UNCHANGED <<link, local, key, inbox, inst, saw, entered, now, aborted,
                 orphans, lost, faults>>

LeaveGet(j) ==
  /\ stage[j] = "leaving"
  /\ Goes(j, IF key \in {None, j} THEN "deleting" ELSE "done")
  /\ UNCHANGED <<link, local, key, inbox, inst, saw, entered, now, aborted,
                 orphans, lost, faults>>

LeaveDel(j) ==
  /\ stage[j] = "deleting"
  /\ key' = None
  /\ Goes(j, "done")
  /\ UNCHANGED <<link, local, inbox, inst, saw, entered, now, aborted, orphans, lost, faults>>

-----------------------------------------------------------------------------
(* abortRun *)

StopLocal(s, i) ==
  /\ stage[s] = "new"
  /\ link[i] # "dead"
  /\ local[i] # None
  /\ inst' = [inst EXCEPT ![s] = i]
  /\ aborted' = aborted \cup {local[i]}
  /\ Goes(s, "stopped")
  /\ UNCHANGED <<link, local, key, inbox, saw, entered, now, orphans, lost, faults>>

StopLook(s, i) ==
  /\ stage[s] = "new"
  /\ link[i] # "dead"
  /\ local[i] = None
  /\ inst' = [inst EXCEPT ![s] = i]
  /\ Goes(s, "asking")
  /\ UNCHANGED <<link, local, key, inbox, saw, entered, now, aborted, orphans, lost, faults>>

StopGet(s) ==
  /\ stage[s] = "asking"
  /\ saw' = [saw EXCEPT ![s] = key]
  /\ Goes(s, IF key = None THEN "nothing" ELSE "publishing")
  /\ UNCHANGED <<link, local, key, inbox, inst, entered, now, aborted, orphans, lost, faults>>

StopPublish(s) == Publish(s, "stopped")

-----------------------------------------------------------------------------
(* faults *)

Fault == faults < MaxFaults /\ faults' = faults + 1

Crash(i) ==
  /\ Fault
  /\ link[i] # "dead"
  /\ link' = [link EXCEPT ![i] = "dead"]
  /\ local' = [local EXCEPT ![i] = None]
  /\ inbox' = [inbox EXCEPT ![i] = <<>>]
  /\ stage' = [x \in Callers |->
       IF inst[x] # i \/ stage[x] \in Ended \cup {"stopped", "nothing"} THEN stage[x]
       ELSE IF x \in Runs THEN "dead" ELSE "failed"]
  /\ UNCHANGED <<key, inst, saw, entered, now, aborted, orphans, lost>>

\* SUBSCRIBE is rejected and the rejection stays cached.
SubscribeFails(i) ==
  /\ Fault
  /\ link[i] = "subscribing"
  /\ link' = [link EXCEPT ![i] = "deaf"]
  /\ stage' = [x \in Callers |->
       IF inst[x] = i /\ stage[x] = "waiting" THEN "failed" ELSE stage[x]]
  /\ UNCHANGED <<local, key, inbox, inst, saw, entered, now, aborted, orphans, lost>>

\* A command is rejected, before or after its effect: the call throws and what
\* it did so far stays.
CommandFails(x) ==
  /\ Fault
  /\ stage[x] \in {"asking", "asked", "publishing", "published", "storing",
                   "leaving", "deleting"}
  /\ Goes(x, "failed")
  /\ UNCHANGED <<link, local, key, inbox, inst, saw, entered, now, aborted, orphans, lost>>

\* The subscriber connection reconnects: Redis does not resend.
DropMessages(i) ==
  /\ Fault
  /\ inbox[i] # <<>>
  /\ inbox' = [inbox EXCEPT ![i] = <<>>]
  /\ lost' = lost \cup ({i} \X Carried(inbox[i]))
  /\ UNCHANGED <<link, local, key, stage, inst, saw, entered, now, aborted, orphans>>

\* messages.ts resolves the provider between registerRun and the stream whose
\* finally unregisters the run: an exception there skips unregisterRun.
Abandon(j) ==
  /\ Fault
  /\ stage[j] = "running"
  /\ Goes(j, "failed")
  /\ UNCHANGED <<link, local, key, inbox, inst, saw, entered, now, aborted, orphans, lost>>

\* The TTL of the key outlasts a turn and the commands in flight.
Expire ==
  /\ key # None
  /\ stage[key] \in Ended
  /\ key' = None
  /\ UNCHANGED <<link, local, inbox, stage, inst, saw, entered, now, aborted,
                 orphans, lost, faults>>

-----------------------------------------------------------------------------
RunStep(j) ==
  \/ \E i \in Instances : Register(j, i)
  \/ Replace(j)
  \/ Look(j)
  \/ LookGet(j)
  \/ RegisterPublish(j)
  \/ EnterLate(j)
  \/ Store(j)
  \/ Unregister(j)
  \/ LeaveGet(j)
  \/ LeaveDel(j)
  \/ Abandon(j)

StopStep(s) ==
  \/ \E i \in Instances : StopLocal(s, i) \/ StopLook(s, i)
  \/ StopGet(s)
  \/ StopPublish(s)

InstanceStep(i) ==
  Subscribed(i) \/ Deliver(i) \/ Crash(i) \/ SubscribeFails(i) \/ DropMessages(i)

Next ==
  \/ \E j \in Runs : RunStep(j)
  \/ \E s \in Stops : StopStep(s)
  \/ \E i \in Instances : InstanceStep(i)
  \/ \E x \in Callers : CommandFails(x)
  \/ Expire

Spec == Init /\ [][Next]_vars

-----------------------------------------------------------------------------
(* properties *)

\* The shared key outlives its run only until the run that took its place on
\* the same instance has stored its own id, or that run failed to: when every
\* turn has ended well, no instance reports an active run.
StaleKeyIsReplaced ==
  \A j \in Runs : key = j /\ stage[j] = "done" =>
    \E k \in Runs :
      k # j /\ inst[k] = inst[j] /\ stage[k] \in {"storing", "failed", "dead"}

\* Stop on the instance that runs a turn reaches it: a turn in progress that
\* was not aborted is the one in the map, unless a registration that overlapped
\* its own overwrote it.
OwnerCanStop ==
  \A j \in Runs :
    stage[j] \in {"storing", "running"} /\ j \notin aborted \cup orphans
      => local[inst[j]] = j

\* A Stop that answers "cancelled", or a new turn, that found run j in the
\* shared key gets j aborted: the signal hit it, or is on its way to it, or was
\* lost by pub/sub, or the run ended, or an overlapping registration orphaned it.
SightedIsHit ==
  \A x \in Callers : \A j \in Runs :
    /\ saw[x] = j
    /\ stage[x] \in {"published", "storing", "running", "stopped"}
    => \/ j \in aborted \cup orphans
       \/ stage[j] \in Ended \cup {"leaving", "deleting"}
       \/ x \in Carried(inbox[inst[j]])
       \/ <<inst[j], x>> \in lost

\* A registered turn takes over: the run a new one found in the map of its
\* instance is aborted for good before the new run starts.
TakesOver ==
  \A j, k \in Runs :
    /\ inst[j] = inst[k]
    /\ 0 < entered[j] /\ entered[j] < entered[k]
    /\ stage[j] = "running"
    => j \in aborted \cup orphans

\* What messages.ts says of a turn in progress: only Stop or a newer turn of
\* the session cancels it.  A run that j itself found in the shared key is an
\* older one.
OnlyStopOrNewTurnAborts ==
  \A j \in aborted :
    \/ \E s \in Stops : stage[s] # "new"
    \/ \E k \in Runs \ {j} : stage[k] # "new" /\ saw[j] # k

=============================================================================
