----------------------------- MODULE MessageRun -----------------------------
(***************************************************************************)
(* The message-run registry (orchestrator/message-run-registry.ts) for one *)
(* message: the instance that runs the turn records every event of the     *)
(* message, clients that lost the live stream resume it, on the owner or   *)
(* on another instance.  The owner mirrors a snapshot into Redis and       *)
(* publishes every event for the others.                                   *)
(*                                                                         *)
(* Events are numbered in the order they happen, and contentSoFar is the   *)
(* number of those it holds.  What is on its way to a reader, or waits in  *)
(* its queue, counts as received.  The replay of tool cards travels in the *)
(* same snapshot and is left out.                                          *)
(***************************************************************************)
EXTENDS Naturals, Sequences

CONSTANTS
  Readers,    \* GET .../stream requests
  Events,     \* bound on the events of the message, the terminal stop included
  MaxFaults,  \* bound on crashes and failed commands
  None

ASSUME NoneIsNoReader == None \notin Readers
ASSUME Bounds == Events \in Nat /\ MaxFaults \in Nat

VARIABLES
  owner,   \* where the turn that owns the message is
  pos,     \* events recorded
  ended,   \* run.terminalReason is set
  held,    \* what patchShared of the owner read
  local,   \* run.subscriber
  shared,  \* the snapshot in Redis, or None
  at,      \* at[r]: where reader r is
  snap,    \* snap[r]: the snapshot that r read
  caught,  \* caught[r]: contentSoFar that r was given
  got,     \* got[r]: the events handed to the queue of r
  closed,  \* readers whose queue is closed
  faults

vars == <<owner, pos, ended, held, local, shared, at, snap, caught, got, closed, faults>>
ownerVars == <<owner, pos, ended, held>>
readerVars == <<at, snap, caught>>

Snapshots == [text : 0..Events, ended : BOOLEAN, claimed : BOOLEAN] \cup {None}
Serving == {"starting", "idle", "reading", "writing", "publishing", "failing",
            "closing", "rereading", "rewriting", "finished"}
Remote == {"subscribing", "remote"}

TypeOK ==
  /\ owner \in Serving \cup {"absent", "dead"}
  /\ pos \in 0..Events
  /\ ended \in BOOLEAN
  /\ held \in Snapshots
  /\ local \in Readers \cup {None}
  /\ shared \in Snapshots
  /\ at \in [Readers -> {"idle", "local", "reading", "claiming", "releasing",
                         "unclaiming", "left", "released", "not_found", "gone", "conflict",
                         "failed"} \cup Remote]
  /\ snap \in [Readers -> Snapshots]
  /\ caught \in [Readers -> 0..Events]
  /\ got \in [Readers -> Seq(1..(Events + 1))]
  /\ closed \subseteq Readers
  /\ faults \in 0..MaxFaults

Init ==
  /\ owner = "absent"
  /\ pos = 0
  /\ ended = FALSE
  /\ held = None
  /\ local = None
  /\ shared = None
  /\ at = [r \in Readers |-> "idle"]
  /\ snap = [r \in Readers |-> None]
  /\ caught = [r \in Readers |-> 0]
  /\ got = [r \in Readers |-> <<>>]
  /\ closed = {}
  /\ faults = 0

-----------------------------------------------------------------------------
(* startMessageRun, recordMessageRunEvent and finishMessageRuns *)

\* The queues of the readers in R take event e, and close after a terminal one.
Push(R, e, last) ==
  LET open == R \ closed
  IN /\ got' = [r \in Readers |-> IF r \in open THEN Append(got[r], e) ELSE got[r]]
     /\ closed' = IF last THEN closed \cup R ELSE closed

Start ==
  /\ owner = "absent"
  /\ owner' = "starting"
  /\ UNCHANGED <<pos, ended, held, local, shared, readerVars, got, closed, faults>>

StartWrite ==
  /\ owner = "starting"
  /\ owner' = "idle"
  /\ shared' = [text |-> 0, ended |-> FALSE, claimed |-> FALSE]
  /\ UNCHANGED <<pos, ended, held, local, readerVars, got, closed, faults>>

\* One event is recorded in the run and handed to its subscriber; nothing
\* follows the terminal stop (stop.reason other than tool_use).
Record(last) ==
  /\ owner = "idle"
  /\ ~ended
  /\ pos < Events
  /\ pos' = pos + 1
  /\ ended' = last
  /\ Push({local} \ {None}, pos', last)
  /\ owner' = "reading"
  /\ UNCHANGED <<held, local, shared, readerVars, faults>>

\* patchShared: read the snapshot, write it back with what changed.
PatchRead(from, write, skip) ==
  /\ owner = from
  /\ held' = shared
  /\ owner' = IF shared = None THEN skip ELSE write
  /\ UNCHANGED <<pos, ended, local, shared, readerVars, got, closed, faults>>

MirrorRead == PatchRead("reading", "writing", "publishing")

\* Faulty: the mirror counts the event that is still to come.
MirrorAhead ==
  /\ owner = "writing"
  /\ shared' = [held EXCEPT !.text = pos + 1, !.ended = @ \/ ended]
  /\ held' = None
  /\ owner' = "publishing"
  /\ UNCHANGED <<pos, ended, local, readerVars, got, closed, faults>>

MirrorWrite ==
  /\ owner = "writing"
  /\ shared' = [held EXCEPT !.text = pos, !.ended = @ \/ ended]
  /\ held' = None
  /\ owner' = "publishing"
  /\ UNCHANGED <<pos, ended, local, readerVars, got, closed, faults>>

\* Faulty: the terminal stop is not relayed, since the end of the turn sends one.
PublishUnended ==
  /\ owner = "publishing"
  /\ Push({r \in Readers : at[r] = "remote" /\ ~ended}, pos, FALSE)
  /\ owner' = "idle"
  /\ UNCHANGED <<pos, ended, held, local, shared, readerVars, faults>>

Publish ==
  /\ owner = "publishing"
  /\ Push({r \in Readers : at[r] = "remote"}, pos, ended)
  /\ owner' = "idle"
  /\ UNCHANGED <<pos, ended, held, local, shared, readerVars, faults>>

\* Faulty: the run is marked terminal, its subscriber is not told.
FinishQuietly ==
  /\ owner \in {"idle", "failing"}
  /\ ended' = TRUE
  /\ owner' = "closing"
  /\ UNCHANGED <<pos, held, local, shared, readerVars, got, closed, faults>>

\* The end of the turn: the run is terminal, and whoever still follows it gets
\* a synthetic stop.
Finish ==
  /\ owner \in {"idle", "failing"}
  /\ ended' = TRUE
  /\ Push({local} \ {None}, pos + 1, TRUE)
  /\ owner' = "closing"
  /\ UNCHANGED <<pos, held, local, shared, readerVars, faults>>

FinishPublish ==
  /\ owner = "closing"
  /\ Push({r \in Readers : at[r] = "remote"}, pos + 1, TRUE)
  /\ owner' = "rereading"
  /\ UNCHANGED <<pos, ended, held, local, shared, readerVars, faults>>

FinishRead == PatchRead("rereading", "rewriting", "finished")

FinishWrite ==
  /\ owner = "rewriting"
  /\ shared' = [held EXCEPT !.ended = TRUE]
  /\ held' = None
  /\ owner' = "finished"
  /\ UNCHANGED <<pos, ended, local, readerVars, got, closed, faults>>

-----------------------------------------------------------------------------
(* subscribeMessageRun and the stream of the resume route *)

Answer(r, reply) == at' = [at EXCEPT ![r] = reply]

\* The stream of r ends and its queue goes.
EndStream(R) ==
  /\ got' = [r \in Readers |-> IF r \in R THEN <<>> ELSE got[r]]
  /\ caught' = [r \in Readers |-> IF r \in R THEN 0 ELSE caught[r]]
  /\ closed' = closed \ R

\* Faulty: the catch-up is taken from the mirror in Redis.
ResumeMirrored(r, foreign) ==
  /\ at[r] = "idle"
  /\ owner \in Serving
  /\ \/ /\ foreign
        /\ Answer(r, "not_found")
        /\ UNCHANGED <<local, caught>>
     \/ /\ ~foreign
        /\ ended
        /\ Answer(r, "gone")
        /\ UNCHANGED <<local, caught>>
     \/ /\ ~foreign
        /\ ~ended
        /\ local # None
        /\ Answer(r, "conflict")
        /\ UNCHANGED <<local, caught>>
     \/ /\ ~foreign
        /\ ~ended
        /\ local = None
        /\ Answer(r, "local")
        /\ local' = r
        /\ caught' = [caught EXCEPT ![r] = IF shared = None THEN 0 ELSE shared.text]
  /\ UNCHANGED <<ownerVars, shared, snap, got, closed, faults>>

\* The run is in this instance's map: one turn of the event loop.  A foreign
\* request names another session.
ResumeLocal(r, foreign) ==
  /\ at[r] = "idle"
  /\ owner \in Serving
  /\ \/ /\ foreign
        /\ Answer(r, "not_found")
        /\ UNCHANGED <<local, caught>>
     \/ /\ ~foreign
        /\ ended
        /\ Answer(r, "gone")
        /\ UNCHANGED <<local, caught>>
     \/ /\ ~foreign
        /\ ~ended
        /\ local # None
        /\ Answer(r, "conflict")
        /\ UNCHANGED <<local, caught>>
     \/ /\ ~foreign
        /\ ~ended
        /\ local = None
        /\ Answer(r, "local")
        /\ local' = r
        /\ caught' = [caught EXCEPT ![r] = pos]
  /\ UNCHANGED <<ownerVars, shared, snap, got, closed, faults>>

ResumeRemote(r) ==
  /\ at[r] = "idle"
  /\ Answer(r, "reading")
  /\ UNCHANGED <<ownerVars, local, shared, snap, caught, got, closed, faults>>

ReadSnapshot(r, foreign) ==
  /\ at[r] = "reading"
  /\ LET reply == IF shared = None \/ foreign THEN "not_found"
                  ELSE IF shared.ended THEN "gone"
                  ELSE IF shared.claimed THEN "conflict"
                  ELSE "claiming"
     IN /\ Answer(r, reply)
        /\ snap' = [snap EXCEPT ![r] = IF reply = "claiming" THEN shared ELSE None]
  /\ UNCHANGED <<ownerVars, local, shared, caught, got, closed, faults>>

\* The claim writes back the snapshot that was read.
Claim(r) ==
  /\ at[r] = "claiming"
  /\ shared' = [snap[r] EXCEPT !.claimed = TRUE]
  /\ Answer(r, "subscribing")
  /\ UNCHANGED <<ownerVars, local, snap, caught, got, closed, faults>>

Subscribed(r) ==
  /\ at[r] = "subscribing"
  /\ Answer(r, "remote")
  /\ caught' = [caught EXCEPT ![r] = snap[r].text]
  /\ UNCHANGED <<ownerVars, local, shared, snap, got, closed, faults>>

\* The client goes away, or its queue is closed and drained.
LeaveLocal(r) ==
  /\ at[r] = "local"
  /\ local' = IF local = r THEN None ELSE local
  /\ EndStream({r})
  /\ Answer(r, "left")
  /\ UNCHANGED <<ownerVars, shared, snap, faults>>

LeaveRemote(r) ==
  /\ at[r] = "remote"
  /\ EndStream({r})
  /\ Answer(r, "releasing")
  /\ UNCHANGED <<ownerVars, local, shared, snap, faults>>

ReleaseRead(r) ==
  /\ at[r] = "releasing"
  /\ snap' = [snap EXCEPT ![r] = shared]
  /\ Answer(r, IF shared = None THEN "released" ELSE "unclaiming")
  /\ UNCHANGED <<ownerVars, local, shared, caught, got, closed, faults>>

Release(r) ==
  /\ at[r] = "unclaiming"
  /\ shared' = [snap[r] EXCEPT !.claimed = FALSE]
  /\ snap' = [snap EXCEPT ![r] = None]
  /\ Answer(r, "released")
  /\ UNCHANGED <<ownerVars, local, caught, got, closed, faults>>

-----------------------------------------------------------------------------
(* faults *)

Fault == faults < MaxFaults /\ faults' = faults + 1

\* The owner dies; the streams it serves die with it.
OwnerCrash ==
  /\ Fault
  /\ owner \in Serving
  /\ owner' = "dead"
  /\ at' = [r \in Readers |-> IF at[r] = "local" THEN "failed" ELSE at[r]]
  /\ local' = None
  /\ EndStream({r \in Readers : at[r] = "local"})
  /\ UNCHANGED <<pos, ended, held, shared, snap>>

\* A command of the owner is rejected.  startMessageRun and
\* recordMessageRunEvent throw into the turn, which records nothing more and
\* comes to its finally block; a failure of finishMessageRuns is swallowed.
OwnerFails ==
  /\ Fault
  /\ \/ owner \in {"starting", "reading", "writing", "publishing"} /\ owner' = "failing"
     \/ owner \in {"closing", "rereading", "rewriting"} /\ owner' = "finished"
  /\ UNCHANGED <<pos, ended, held, local, shared, readerVars, got, closed>>

\* The turn ends and finishMessageRuns does not come to this message: a bus
\* command of unregisterRun, which the finally block awaits first, is rejected,
\* or the publish for an earlier message of the turn.
LeaveUnfinished ==
  /\ Fault
  /\ owner \in {"idle", "failing"}
  /\ owner' = "finished"
  /\ UNCHANGED <<pos, ended, held, local, shared, readerVars, got, closed>>

\* A remote reader's instance dies, or one of its commands is rejected.
ReaderFails(r) ==
  /\ Fault
  /\ at[r] \in {"reading", "claiming", "releasing", "unclaiming"} \cup Remote
  /\ Answer(r, "failed")
  /\ EndStream({r})
  /\ snap' = [snap EXCEPT ![r] = None]
  /\ UNCHANGED <<ownerVars, local, shared>>

\* The subscriber connection of a remote reader reconnects: Redis does not resend
\* what was on its way.
DropEvents(r) ==
  /\ Fault
  /\ at[r] = "remote"
  /\ \E n \in 0..(Len(got[r]) - 1) : got' = [got EXCEPT ![r] = SubSeq(@, 1, n)]
  /\ closed' = closed \ {r}
  /\ UNCHANGED <<ownerVars, local, shared, readerVars>>

\* Every event renews the TTL: the snapshot expires once nobody writes it.
Expire ==
  /\ shared # None
  /\ owner \in {"finished", "dead"}
  /\ shared' = None
  /\ UNCHANGED <<ownerVars, local, readerVars, got, closed, faults>>

-----------------------------------------------------------------------------
OwnerStep ==
  \/ Start
  \/ StartWrite
  \/ \E last \in BOOLEAN : Record(last)
  \/ MirrorRead
  \/ MirrorWrite
  \/ Publish
  \/ Finish
  \/ FinishPublish
  \/ FinishRead
  \/ FinishWrite

ReaderStep(r) ==
  \/ \E foreign \in BOOLEAN : ResumeLocal(r, foreign) \/ ReadSnapshot(r, foreign)
  \/ ResumeRemote(r)
  \/ Claim(r)
  \/ Subscribed(r)
  \/ LeaveLocal(r)
  \/ LeaveRemote(r)
  \/ ReleaseRead(r)
  \/ Release(r)

Next ==
  \/ OwnerStep
  \/ \E r \in Readers : ReaderStep(r) \/ ReaderFails(r) \/ DropEvents(r)
  \/ OwnerCrash
  \/ OwnerFails
  \/ LeaveUnfinished
  \/ Expire

Spec == Init /\ [][Next]_vars

\* The turn goes on and ends, Redis answers, a subscription is answered, and a
\* stream whose queue is closed is drained and ends.  A fault may still keep the
\* end of the turn from this message.
Drain(r) == r \in closed /\ (LeaveLocal(r) \/ LeaveRemote(r))

FairSpec ==
  /\ Spec
  /\ WF_vars(OwnerStep)
  /\ \A r \in Readers : WF_vars(Subscribed(r)) /\ WF_vars(Drain(r))

-----------------------------------------------------------------------------
(* properties *)

\* A client that resumes on the owner loses nothing and gets nothing twice: its
\* catch-up and what followed are all the events recorded.
LocalResumeIsExact ==
  \A r \in Readers : at[r] = "local" =>
    /\ \A n \in 1..Len(got[r]) : got[r][n] = caught[r] + n
    /\ caught[r] + Len(got[r]) >= pos

\* What another instance relays is in order, repeats at most the last event of
\* the catch-up, and has holes only if something failed.
RelayIsConsecutive ==
  \A r \in Readers : at[r] = "remote" =>
    /\ \A n \in 1..(Len(got[r]) - 1) :
         got[r][n + 1] > got[r][n] /\ (faults = 0 => got[r][n + 1] = got[r][n] + 1)
    /\ got[r] # <<>> => got[r][1] >= caught[r]

\* The turn is over, its last event was not terminal and nobody marked its end.
Abandoned == owner = "finished" /\ ~ended

\* No stream outlives its turn: a reader on the owner, or one elsewhere that
\* subscribed before the end was published, is let go when the turn ends.
\* What fails may leave a reader elsewhere waiting; one on the owner waits on
\* only if the turn recorded no terminal stop and then failed before its end
\* was marked.
ReadersAreReleased ==
  \A r \in Readers :
    ( \/ at[r] = "local"
      \/ at[r] = "remote" /\ owner \in Serving \ {"rereading", "rewriting", "finished"} )
    ~> (at[r] \notin {"local", "remote"} \/ (at[r] = "remote" /\ faults > 0) \/ Abandoned)

=============================================================================
