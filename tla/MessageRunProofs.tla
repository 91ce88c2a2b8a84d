-------------------------- MODULE MessageRunProofs --------------------------
(***************************************************************************)
(* Machine-checked proofs about module MessageRun, for any number of       *)
(* readers, events and faults.                                             *)
(***************************************************************************)
EXTENDS Integers, MessageRun, SequenceTheorems, TLAPS

-----------------------------------------------------------------------------
(* the inductive invariant, part by part *)

\* Where a reader may be.
Places ==
  {"idle", "local", "reading", "claiming", "releasing", "unclaiming", "left", "released",
   "not_found", "gone", "conflict", "failed"} \cup Remote

\* The readers that Redis relays to.
Elsewhere == {r \in Readers : at[r] = "remote"}

\* What is patched was read, and an event that is being mirrored was recorded.
Held ==
  /\ owner \in {"writing", "rewriting"} => held # None
  /\ owner \in {"reading", "writing", "publishing"} => pos > 0
  /\ \A r \in Readers :
       at[r] \in {"claiming", "subscribing", "unclaiming"} => snap[r] # None

\* run.subscriber is the one reader that is served by the owner.
OneLocal == \A r \in Readers : at[r] = "local" <=> local = r

\* Who has no stream has no queue.
NoStreamNoQueue ==
  \A r \in Readers : at[r] \notin {"local", "remote"} =>
    got[r] = <<>> /\ caught[r] = 0 /\ r \notin closed

\* The queue of the local reader is closed by the terminal event and not before;
\* until then the reader has every event.
LocalIsCurrent ==
  \A r \in Readers : at[r] = "local" =>
    /\ \A n \in 1..Len(got[r]) : got[r][n] = caught[r] + n
    /\ r \in closed <=> ended
    /\ caught[r] + Len(got[r]) >= pos
    /\ ~ended => caught[r] + Len(got[r]) = pos

\* The number of the last event that may have been published.
Sent ==
  IF owner \in {"reading", "writing", "publishing"} THEN pos - 1
  ELSE IF owner \in {"rereading", "rewriting", "finished", "dead"} THEN pos + 1
  ELSE pos

\* No snapshot, wherever it is, is ahead of the event that is published next.
TextIsNotAhead ==
  /\ shared # None => shared.text <= Sent + 1
  /\ held # None => held.text <= Sent + 1
  /\ \A r \in Readers :
       /\ snap[r] # None => snap[r].text <= Sent + 1
       /\ at[r] = "remote" => caught[r] <= Sent + 1

\* A queue s after the catch-up c is rising and holds nothing beyond the event last;
\* a whole one has no hole, and an open whole one ends with last.
Relayed(s, c, last, whole, open) ==
  /\ \A n \in 1..(Len(s) - 1) : s[n + 1] > s[n] /\ (whole => s[n + 1] = s[n] + 1)
  /\ \A n \in 1..Len(s) : s[n] <= last
  /\ s # <<>> => s[1] >= c
  /\ s # <<>> /\ whole /\ open => s[Len(s)] = last

\* The queue of a remote reader follows what was published, up to what faults lost.
RelayFollows ==
  \A r \in Readers : at[r] = "remote" =>
    Relayed(got[r], caught[r], Sent, faults = 0, r \notin closed)

IInv ==
  /\ TypeOK
  /\ Held
  /\ OneLocal
  /\ NoStreamNoQueue
  /\ LocalIsCurrent
  /\ TextIsNotAhead
  /\ RelayFollows

-----------------------------------------------------------------------------
(* queues *)

\* The open queues among those of R take event e, and those of R close after the last.
Pushed(R, e, last) ==
  /\ got' \in [Readers -> Seq(1..(Events + 1))]
  /\ closed' \subseteq Readers
  /\ closed' = IF last THEN closed \cup R ELSE closed
  /\ \A r \in Readers : r \notin R \/ r \in closed => got'[r] = got[r]
  /\ \A r \in Readers \ R : r \in closed' <=> r \in closed
  /\ \A r \in R \ closed :
       /\ Len(got'[r]) = Len(got[r]) + 1
       /\ \A n \in 1..Len(got[r]) : got'[r][n] = got[r][n]
       /\ got'[r][Len(got[r]) + 1] = e

\* What Push does to the queues.
LEMMA PushFacts ==
  ASSUME TypeOK, NEW R \in SUBSET Readers, NEW e \in 1..(Events + 1),
         NEW last \in BOOLEAN, Push(R, e, last)
  PROVE  Pushed(R, e, last)
<1>1. \A r \in Readers : got'[r] = IF r \in R \ closed THEN Append(got[r], e) ELSE got[r]
  BY DEF Push
<1>2. \A r \in Readers : Append(got[r], e) \in Seq(1..(Events + 1))
  BY DEF TypeOK
<1>3. got' \in [Readers -> Seq(1..(Events + 1))]
  BY <1>2 DEF Push, TypeOK
<1>4. ASSUME NEW r \in R \ closed
      PROVE  /\ Len(got'[r]) = Len(got[r]) + 1
             /\ \A n \in 1..Len(got[r]) : got'[r][n] = got[r][n]
             /\ got'[r][Len(got[r]) + 1] = e
  <2>1. got[r] \in Seq(1..(Events + 1)) /\ got'[r] = Append(got[r], e)
    BY <1>1 DEF TypeOK
  <2>2. QED
    BY <2>1
<1>5. closed' = (IF last THEN closed \cup R ELSE closed) /\ closed' \subseteq Readers
  BY DEF Push, TypeOK
<1>6. QED
  BY <1>1, <1>3, <1>4, <1>5 DEF Pushed

\* The four steps that hand an event to readers.
LEMMA PushSteps ==
  ASSUME TypeOK, Held
  PROVE  /\ \A last \in BOOLEAN : Record(last) => Pushed({local} \ {None}, pos + 1, last)
         /\ Publish => Pushed(Elsewhere, pos, ended)
         /\ Finish => Pushed({local} \ {None}, pos + 1, TRUE)
         /\ FinishPublish => Pushed(Elsewhere, pos + 1, TRUE)
<1>1. {local} \ {None} \in SUBSET Readers /\ Elsewhere \in SUBSET Readers
  BY DEF TypeOK, Elsewhere
<1>2. pos + 1 \in 1..(Events + 1) /\ ended \in BOOLEAN
  BY Bounds DEF TypeOK
<1>3. ASSUME NEW last \in BOOLEAN, Record(last)
      PROVE  Pushed({local} \ {None}, pos + 1, last)
  <2>1. pos' = pos + 1 /\ Push({local} \ {None}, pos', last)
    BY <1>3 DEF Record
  <2>2. Push({local} \ {None}, pos + 1, last)
    BY <2>1, Zenon
  <2>3. QED
    BY <1>1, <1>2, <2>2, PushFacts
<1>4. ASSUME Publish PROVE Pushed(Elsewhere, pos, ended)
  <2>1. pos \in 1..(Events + 1)
    BY <1>4, Bounds DEF Publish, Held, TypeOK
  <2>2. Push(Elsewhere, pos, ended)
    BY <1>4 DEF Publish, Elsewhere
  <2>3. QED
    BY <1>1, <1>2, <2>1, <2>2, PushFacts
<1>5. ASSUME Finish PROVE Pushed({local} \ {None}, pos + 1, TRUE)
  <2>1. Push({local} \ {None}, pos + 1, TRUE)
    BY <1>5 DEF Finish
  <2>2. QED
    BY <1>1, <1>2, <2>1, PushFacts
<1>6. ASSUME FinishPublish PROVE Pushed(Elsewhere, pos + 1, TRUE)
  <2>1. Push(Elsewhere, pos + 1, TRUE)
    BY <1>6 DEF FinishPublish, Elsewhere
  <2>2. QED
    BY <1>1, <1>2, <2>1, PushFacts
<1>7. QED
  BY <1>3, <1>4, <1>5, <1>6

\* What EndStream does to the queues: those of R go.
LEMMA EndFacts ==
  ASSUME TypeOK, NEW R, EndStream(R)
  PROVE  /\ got' \in [Readers -> Seq(1..(Events + 1))]
         /\ caught' \in [Readers -> 0..Events]
         /\ closed' = closed \ R /\ closed' \subseteq Readers
         /\ \A r \in Readers :
              IF r \in R THEN got'[r] = <<>> /\ caught'[r] = 0
                         ELSE got'[r] = got[r] /\ caught'[r] = caught[r]
<1>1. <<>> \in Seq(1..(Events + 1)) /\ 0 \in 0..Events
  BY Bounds
<1>2. QED
  BY <1>1 DEF EndStream, TypeOK

-----------------------------------------------------------------------------
(* types *)

\* Every step keeps the types.
LEMMA TypeNext ==
  TypeOK /\ Held /\ [Next]_vars => TypeOK'
<1> SUFFICES ASSUME TypeOK, Held, [Next]_vars PROVE TypeOK'
  OBVIOUS
<1>Start. ASSUME Start PROVE TypeOK'
  BY <1>Start, NoneIsNoReader, Bounds DEF Start, TypeOK, Snapshots, Serving, Remote,
     ownerVars, readerVars
<1>StartWrite. ASSUME StartWrite PROVE TypeOK'
  BY <1>StartWrite, NoneIsNoReader, Bounds DEF StartWrite, TypeOK, Snapshots, Serving,
     Remote, ownerVars, readerVars
<1>Record. ASSUME NEW last \in BOOLEAN, Record(last) PROVE TypeOK'
  <2>1. got' \in [Readers -> Seq(1..(Events + 1))] /\ closed' \subseteq Readers
    BY <1>Record, PushSteps DEF Pushed
  <2>2. QED
    BY <1>Record, <2>1, Bounds DEF Record, TypeOK, Serving, readerVars
<1>MirrorRead. ASSUME MirrorRead PROVE TypeOK'
  BY <1>MirrorRead, NoneIsNoReader, Bounds DEF MirrorRead, PatchRead, TypeOK, Snapshots,
     Serving, Remote, ownerVars, readerVars
<1>MirrorWrite. ASSUME MirrorWrite PROVE TypeOK'
  BY <1>MirrorWrite, NoneIsNoReader, Bounds DEF MirrorWrite, Held, TypeOK, Snapshots,
     Serving, Remote, ownerVars, readerVars
<1>Publish. ASSUME Publish PROVE TypeOK'
  <2>1. got' \in [Readers -> Seq(1..(Events + 1))] /\ closed' \subseteq Readers
    BY <1>Publish, PushSteps DEF Pushed
  <2>2. QED
    BY <1>Publish, <2>1 DEF Publish, TypeOK, Serving, readerVars
<1>Finish. ASSUME Finish PROVE TypeOK'
  <2>1. got' \in [Readers -> Seq(1..(Events + 1))] /\ closed' \subseteq Readers
    BY <1>Finish, PushSteps DEF Pushed
  <2>2. QED
    BY <1>Finish, <2>1 DEF Finish, TypeOK, Serving, readerVars
<1>FinishPublish. ASSUME FinishPublish PROVE TypeOK'
  <2>1. got' \in [Readers -> Seq(1..(Events + 1))] /\ closed' \subseteq Readers
    BY <1>FinishPublish, PushSteps DEF Pushed
  <2>2. QED
    BY <1>FinishPublish, <2>1 DEF FinishPublish, TypeOK, Serving, readerVars
<1>FinishRead. ASSUME FinishRead PROVE TypeOK'
  BY <1>FinishRead, NoneIsNoReader, Bounds DEF FinishRead, PatchRead, TypeOK, Snapshots,
     Serving, Remote, ownerVars, readerVars
<1>FinishWrite. ASSUME FinishWrite PROVE TypeOK'
  BY <1>FinishWrite, NoneIsNoReader, Bounds DEF FinishWrite, Held, TypeOK, Snapshots,
     Serving, Remote, ownerVars, readerVars
<1>ResumeLocal. ASSUME NEW r \in Readers, NEW foreign \in BOOLEAN, ResumeLocal(r, foreign) PROVE TypeOK'
  <2>1. at' \in [Readers -> Places]
    BY <1>ResumeLocal DEF ResumeLocal, Answer, TypeOK, Places
  <2>2. local' \in Readers \cup {None}
    BY <1>ResumeLocal DEF ResumeLocal, TypeOK
  <2>3. caught' \in [Readers -> 0..Events]
    BY <1>ResumeLocal DEF ResumeLocal, TypeOK
  <2>4. QED
    BY <1>ResumeLocal, <2>1, <2>2, <2>3 DEF ResumeLocal, TypeOK, Places, ownerVars
<1>ReadSnapshot. ASSUME NEW r \in Readers, NEW foreign \in BOOLEAN, ReadSnapshot(r, foreign) PROVE TypeOK'
  BY <1>ReadSnapshot, NoneIsNoReader, Bounds DEF ReadSnapshot, Answer, TypeOK, Snapshots,
     Serving, Remote, ownerVars, readerVars
<1>ResumeRemote. ASSUME NEW r \in Readers, ResumeRemote(r) PROVE TypeOK'
  BY <1>ResumeRemote, NoneIsNoReader, Bounds DEF ResumeRemote, Answer, TypeOK, Snapshots,
     Serving, Remote, ownerVars, readerVars
<1>Claim. ASSUME NEW r \in Readers, Claim(r) PROVE TypeOK'
  BY <1>Claim, NoneIsNoReader, Bounds DEF Claim, Answer, Held, TypeOK, Snapshots,
     Serving, Remote, ownerVars, readerVars
<1>Subscribed. ASSUME NEW r \in Readers, Subscribed(r) PROVE TypeOK'
  BY <1>Subscribed, NoneIsNoReader, Bounds DEF Subscribed, Answer, Held, TypeOK,
     Snapshots, Serving, Remote, ownerVars, readerVars
<1>LeaveLocal. ASSUME NEW r \in Readers, LeaveLocal(r) PROVE TypeOK'
  <2>1. /\ got' \in [Readers -> Seq(1..(Events + 1))]
        /\ caught' \in [Readers -> 0..Events]
        /\ closed' \subseteq Readers
    BY <1>LeaveLocal, EndFacts DEF LeaveLocal
  <2>2. QED
    BY <1>LeaveLocal, <2>1, NoneIsNoReader DEF LeaveLocal, Answer, TypeOK, Snapshots, Serving, Remote, ownerVars
<1>LeaveRemote. ASSUME NEW r \in Readers, LeaveRemote(r) PROVE TypeOK'
  <2>1. /\ got' \in [Readers -> Seq(1..(Events + 1))]
        /\ caught' \in [Readers -> 0..Events]
        /\ closed' \subseteq Readers
    BY <1>LeaveRemote, EndFacts DEF LeaveRemote
  <2>2. QED
    BY <1>LeaveRemote, <2>1, NoneIsNoReader DEF LeaveRemote, Answer, TypeOK, Snapshots, Serving, Remote, ownerVars
<1>ReleaseRead. ASSUME NEW r \in Readers, ReleaseRead(r) PROVE TypeOK'
  BY <1>ReleaseRead, NoneIsNoReader, Bounds DEF ReleaseRead, Answer, TypeOK, Snapshots,
     Serving, Remote, ownerVars, readerVars
<1>Release. ASSUME NEW r \in Readers, Release(r) PROVE TypeOK'
  BY <1>Release, NoneIsNoReader, Bounds DEF Release, Answer, Held, TypeOK, Snapshots,
     Serving, Remote, ownerVars, readerVars
<1>ReaderFails. ASSUME NEW r \in Readers, ReaderFails(r) PROVE TypeOK'
  <2>1. /\ got' \in [Readers -> Seq(1..(Events + 1))]
        /\ caught' \in [Readers -> 0..Events]
        /\ closed' \subseteq Readers
    BY <1>ReaderFails, EndFacts DEF ReaderFails
  <2>2. faults' \in 0..MaxFaults
    BY <1>ReaderFails, Bounds DEF ReaderFails, Fault, TypeOK
  <2>3. at' \in [Readers -> Places] /\ snap' \in [Readers -> Snapshots]
    BY <1>ReaderFails DEF ReaderFails, Answer, TypeOK, Places, Snapshots
  <2>4. QED
    BY <1>ReaderFails, <2>1, <2>2, <2>3 DEF ReaderFails, TypeOK, Places, Serving, ownerVars
<1>DropEvents. ASSUME NEW r \in Readers, DropEvents(r) PROVE TypeOK'
  <2>1. PICK n \in 0..(Len(got[r]) - 1) : got' = [got EXCEPT ![r] = SubSeq(@, 1, n)]
    BY <1>DropEvents DEF DropEvents
  <2>2. got[r] \in Seq(1..(Events + 1))
    BY DEF TypeOK
  <2>3. ASSUME NEW k \in 1..n PROVE got[r][k] \in 1..(Events + 1)
    <3>1. k \in 1..Len(got[r])
      BY <2>2, LenProperties
    <3>2. QED
      BY <2>2, <3>1, ElementOfSeq
  <2>4. SubSeq(got[r], 1, n) \in Seq(1..(Events + 1))
    BY <2>3, SubSeqProperties
  <2>5. got' \in [Readers -> Seq(1..(Events + 1))]
    BY <2>1, <2>4 DEF TypeOK
  <2>6. faults' \in 0..MaxFaults
    BY <1>DropEvents, Bounds DEF DropEvents, Fault, TypeOK
  <2>7. QED
    BY <1>DropEvents, <2>5, <2>6 DEF DropEvents, TypeOK, ownerVars, readerVars
<1>OwnerCrash. ASSUME OwnerCrash PROVE TypeOK'
  <2>1. /\ got' \in [Readers -> Seq(1..(Events + 1))]
        /\ caught' \in [Readers -> 0..Events]
        /\ closed' \subseteq Readers
    BY <1>OwnerCrash, EndFacts DEF OwnerCrash
  <2>2. faults' \in 0..MaxFaults
    BY <1>OwnerCrash, Bounds DEF OwnerCrash, Fault, TypeOK
  <2>3. at' \in [Readers -> Places]
    BY <1>OwnerCrash DEF OwnerCrash, TypeOK, Places
  <2>4. QED
    BY <1>OwnerCrash, <2>1, <2>2, <2>3 DEF OwnerCrash, TypeOK, Places, Serving, ownerVars
<1>OwnerFails. ASSUME OwnerFails PROVE TypeOK'
  BY <1>OwnerFails, NoneIsNoReader, Bounds DEF OwnerFails, Fault, TypeOK, Snapshots,
     Serving, Remote, ownerVars, readerVars
<1>LeaveUnfinished. ASSUME LeaveUnfinished PROVE TypeOK'
  BY <1>LeaveUnfinished, NoneIsNoReader, Bounds DEF LeaveUnfinished, Fault, TypeOK, Snapshots,
     Serving, Remote, ownerVars, readerVars
<1>Expire. ASSUME Expire PROVE TypeOK'
  BY <1>Expire, NoneIsNoReader, Bounds DEF Expire, TypeOK, Snapshots, Serving, Remote,
     ownerVars, readerVars
<1>Stutter. CASE UNCHANGED vars
  BY <1>Stutter DEF vars, ownerVars, readerVars, TypeOK, Snapshots, Serving, Remote
<1> QED
  BY <1>Start, <1>StartWrite, <1>Record, <1>MirrorRead, <1>MirrorWrite, <1>Publish,
     <1>Finish, <1>FinishPublish, <1>FinishRead, <1>FinishWrite, <1>ResumeLocal,
     <1>ReadSnapshot, <1>ResumeRemote, <1>Claim, <1>Subscribed, <1>LeaveLocal,
     <1>LeaveRemote, <1>ReleaseRead, <1>Release, <1>ReaderFails, <1>DropEvents,
     <1>OwnerCrash, <1>OwnerFails, <1>LeaveUnfinished, <1>Expire, <1>Stutter
  DEF Next, OwnerStep, ReaderStep

-----------------------------------------------------------------------------
(* the other parts of the invariant *)

\* What is patched was read, and what is mirrored was recorded.
LEMMA HeldNext ==
  TypeOK /\ Held /\ [Next]_vars => Held'
<1> SUFFICES ASSUME TypeOK, Held, [Next]_vars PROVE Held'
  OBVIOUS
<1>Start. ASSUME Start PROVE Held'
  BY <1>Start DEF Start, TypeOK, Held, ownerVars, readerVars
<1>StartWrite. ASSUME StartWrite PROVE Held'
  BY <1>StartWrite DEF StartWrite, TypeOK, Held, ownerVars, readerVars
<1>Record. ASSUME NEW last \in BOOLEAN, Record(last) PROVE Held'
  BY <1>Record DEF Record, TypeOK, Held, ownerVars, readerVars
<1>MirrorRead. ASSUME MirrorRead PROVE Held'
  BY <1>MirrorRead DEF MirrorRead, PatchRead, TypeOK, Held, ownerVars, readerVars
<1>MirrorWrite. ASSUME MirrorWrite PROVE Held'
  BY <1>MirrorWrite DEF MirrorWrite, TypeOK, Held, ownerVars, readerVars
<1>Publish. ASSUME Publish PROVE Held'
  BY <1>Publish DEF Publish, TypeOK, Held, ownerVars, readerVars
<1>Finish. ASSUME Finish PROVE Held'
  BY <1>Finish DEF Finish, TypeOK, Held, ownerVars, readerVars
<1>FinishPublish. ASSUME FinishPublish PROVE Held'
  BY <1>FinishPublish DEF FinishPublish, TypeOK, Held, ownerVars, readerVars
<1>FinishRead. ASSUME FinishRead PROVE Held'
  BY <1>FinishRead DEF FinishRead, PatchRead, TypeOK, Held, ownerVars, readerVars
<1>FinishWrite. ASSUME FinishWrite PROVE Held'
  BY <1>FinishWrite DEF FinishWrite, TypeOK, Held, ownerVars, readerVars
<1>ResumeLocal. ASSUME NEW r \in Readers, NEW foreign \in BOOLEAN, ResumeLocal(r, foreign) PROVE Held'
  BY <1>ResumeLocal DEF ResumeLocal, Answer, TypeOK, Held, ownerVars, readerVars
<1>ReadSnapshot. ASSUME NEW r \in Readers, NEW foreign \in BOOLEAN, ReadSnapshot(r, foreign) PROVE Held'
  BY <1>ReadSnapshot DEF ReadSnapshot, Answer, TypeOK, Held, ownerVars, readerVars
<1>ResumeRemote. ASSUME NEW r \in Readers, ResumeRemote(r) PROVE Held'
  BY <1>ResumeRemote DEF ResumeRemote, Answer, TypeOK, Held, ownerVars, readerVars
<1>Claim. ASSUME NEW r \in Readers, Claim(r) PROVE Held'
  BY <1>Claim DEF Claim, Answer, TypeOK, Held, ownerVars, readerVars
<1>Subscribed. ASSUME NEW r \in Readers, Subscribed(r) PROVE Held'
  BY <1>Subscribed DEF Subscribed, Answer, TypeOK, Held, ownerVars, readerVars
<1>LeaveLocal. ASSUME NEW r \in Readers, LeaveLocal(r) PROVE Held'
  BY <1>LeaveLocal DEF LeaveLocal, Answer, EndStream, TypeOK, Held, ownerVars, readerVars
<1>LeaveRemote. ASSUME NEW r \in Readers, LeaveRemote(r) PROVE Held'
  BY <1>LeaveRemote DEF LeaveRemote, Answer, EndStream, TypeOK, Held, ownerVars,
     readerVars
<1>ReleaseRead. ASSUME NEW r \in Readers, ReleaseRead(r) PROVE Held'
  BY <1>ReleaseRead DEF ReleaseRead, Answer, TypeOK, Held, ownerVars, readerVars
<1>Release. ASSUME NEW r \in Readers, Release(r) PROVE Held'
  BY <1>Release DEF Release, Answer, TypeOK, Held, ownerVars, readerVars
<1>ReaderFails. ASSUME NEW r \in Readers, ReaderFails(r) PROVE Held'
  BY <1>ReaderFails DEF ReaderFails, Answer, EndStream, Fault, TypeOK, Held, ownerVars,
     readerVars
<1>DropEvents. ASSUME NEW r \in Readers, DropEvents(r) PROVE Held'
  BY <1>DropEvents DEF DropEvents, Fault, TypeOK, Held, ownerVars, readerVars
<1>OwnerCrash. ASSUME OwnerCrash PROVE Held'
  BY <1>OwnerCrash DEF OwnerCrash, EndStream, Fault, TypeOK, Held, ownerVars, readerVars
<1>OwnerFails. ASSUME OwnerFails PROVE Held'
  BY <1>OwnerFails DEF OwnerFails, Fault, TypeOK, Held, ownerVars, readerVars
<1>LeaveUnfinished. ASSUME LeaveUnfinished PROVE Held'
  BY <1>LeaveUnfinished DEF LeaveUnfinished, Fault, TypeOK, Held, ownerVars, readerVars
<1>Expire. ASSUME Expire PROVE Held'
  BY <1>Expire DEF Expire, TypeOK, Held, ownerVars, readerVars
<1>Stutter. CASE UNCHANGED vars
  BY <1>Stutter DEF vars, ownerVars, readerVars, TypeOK, Held
<1> QED
  BY <1>Start, <1>StartWrite, <1>Record, <1>MirrorRead, <1>MirrorWrite, <1>Publish,
     <1>Finish, <1>FinishPublish, <1>FinishRead, <1>FinishWrite, <1>ResumeLocal,
     <1>ReadSnapshot, <1>ResumeRemote, <1>Claim, <1>Subscribed, <1>LeaveLocal,
     <1>LeaveRemote, <1>ReleaseRead, <1>Release, <1>ReaderFails, <1>DropEvents,
     <1>OwnerCrash, <1>OwnerFails, <1>LeaveUnfinished, <1>Expire, <1>Stutter
  DEF Next, OwnerStep, ReaderStep

\* The owner serves one reader.
LEMMA OneLocalNext ==
  TypeOK /\ OneLocal /\ [Next]_vars => OneLocal'
<1> SUFFICES ASSUME TypeOK, OneLocal, [Next]_vars PROVE OneLocal'
  OBVIOUS
<1>Start. ASSUME Start PROVE OneLocal'
  BY <1>Start, NoneIsNoReader DEF Start, TypeOK, OneLocal, Remote, ownerVars, readerVars
<1>StartWrite. ASSUME StartWrite PROVE OneLocal'
  BY <1>StartWrite, NoneIsNoReader DEF StartWrite, TypeOK, OneLocal, Remote, ownerVars,
     readerVars
<1>Record. ASSUME NEW last \in BOOLEAN, Record(last) PROVE OneLocal'
  BY <1>Record, NoneIsNoReader DEF Record, TypeOK, OneLocal, Remote, ownerVars,
     readerVars
<1>MirrorRead. ASSUME MirrorRead PROVE OneLocal'
  BY <1>MirrorRead, NoneIsNoReader DEF MirrorRead, PatchRead, TypeOK, OneLocal, Remote,
     ownerVars, readerVars
<1>MirrorWrite. ASSUME MirrorWrite PROVE OneLocal'
  BY <1>MirrorWrite, NoneIsNoReader DEF MirrorWrite, TypeOK, OneLocal, Remote, ownerVars,
     readerVars
<1>Publish. ASSUME Publish PROVE OneLocal'
  BY <1>Publish, NoneIsNoReader DEF Publish, TypeOK, OneLocal, Remote, ownerVars,
     readerVars
<1>Finish. ASSUME Finish PROVE OneLocal'
  BY <1>Finish, NoneIsNoReader DEF Finish, TypeOK, OneLocal, Remote, ownerVars,
     readerVars
<1>FinishPublish. ASSUME FinishPublish PROVE OneLocal'
  BY <1>FinishPublish, NoneIsNoReader DEF FinishPublish, TypeOK, OneLocal, Remote,
     ownerVars, readerVars
<1>FinishRead. ASSUME FinishRead PROVE OneLocal'
  BY <1>FinishRead, NoneIsNoReader DEF FinishRead, PatchRead, TypeOK, OneLocal, Remote,
     ownerVars, readerVars
<1>FinishWrite. ASSUME FinishWrite PROVE OneLocal'
  BY <1>FinishWrite, NoneIsNoReader DEF FinishWrite, TypeOK, OneLocal, Remote, ownerVars,
     readerVars
<1>ResumeLocal. ASSUME NEW r \in Readers, NEW foreign \in BOOLEAN, ResumeLocal(r, foreign) PROVE OneLocal'
  BY <1>ResumeLocal, NoneIsNoReader DEF ResumeLocal, Answer, TypeOK, OneLocal, Remote,
     ownerVars, readerVars
<1>ReadSnapshot. ASSUME NEW r \in Readers, NEW foreign \in BOOLEAN, ReadSnapshot(r, foreign) PROVE OneLocal'
  BY <1>ReadSnapshot, NoneIsNoReader DEF ReadSnapshot, Answer, TypeOK, OneLocal, Remote,
     ownerVars, readerVars
<1>ResumeRemote. ASSUME NEW r \in Readers, ResumeRemote(r) PROVE OneLocal'
  BY <1>ResumeRemote, NoneIsNoReader DEF ResumeRemote, Answer, TypeOK, OneLocal, Remote,
     ownerVars, readerVars
<1>Claim. ASSUME NEW r \in Readers, Claim(r) PROVE OneLocal'
  BY <1>Claim, NoneIsNoReader DEF Claim, Answer, TypeOK, OneLocal, Remote, ownerVars,
     readerVars
<1>Subscribed. ASSUME NEW r \in Readers, Subscribed(r) PROVE OneLocal'
  BY <1>Subscribed, NoneIsNoReader DEF Subscribed, Answer, TypeOK, OneLocal, Remote,
     ownerVars, readerVars
<1>LeaveLocal. ASSUME NEW r \in Readers, LeaveLocal(r) PROVE OneLocal'
  BY <1>LeaveLocal, NoneIsNoReader DEF LeaveLocal, Answer, EndStream, TypeOK, OneLocal,
     Remote, ownerVars, readerVars
<1>LeaveRemote. ASSUME NEW r \in Readers, LeaveRemote(r) PROVE OneLocal'
  BY <1>LeaveRemote, NoneIsNoReader DEF LeaveRemote, Answer, EndStream, TypeOK, OneLocal,
     Remote, ownerVars, readerVars
<1>ReleaseRead. ASSUME NEW r \in Readers, ReleaseRead(r) PROVE OneLocal'
  BY <1>ReleaseRead, NoneIsNoReader DEF ReleaseRead, Answer, TypeOK, OneLocal, Remote,
     ownerVars, readerVars
<1>Release. ASSUME NEW r \in Readers, Release(r) PROVE OneLocal'
  BY <1>Release, NoneIsNoReader DEF Release, Answer, TypeOK, OneLocal, Remote, ownerVars,
     readerVars
<1>ReaderFails. ASSUME NEW r \in Readers, ReaderFails(r) PROVE OneLocal'
  BY <1>ReaderFails, NoneIsNoReader DEF ReaderFails, Answer, EndStream, Fault, TypeOK,
     OneLocal, Remote, ownerVars, readerVars
<1>DropEvents. ASSUME NEW r \in Readers, DropEvents(r) PROVE OneLocal'
  BY <1>DropEvents, NoneIsNoReader DEF DropEvents, Fault, TypeOK, OneLocal, Remote,
     ownerVars, readerVars
<1>OwnerCrash. ASSUME OwnerCrash PROVE OneLocal'
  BY <1>OwnerCrash, NoneIsNoReader DEF OwnerCrash, EndStream, Fault, TypeOK, OneLocal,
     Remote, ownerVars, readerVars
<1>OwnerFails. ASSUME OwnerFails PROVE OneLocal'
  BY <1>OwnerFails, NoneIsNoReader DEF OwnerFails, Fault, TypeOK, OneLocal, Remote,
     ownerVars, readerVars
<1>LeaveUnfinished. ASSUME LeaveUnfinished PROVE OneLocal'
  BY <1>LeaveUnfinished, NoneIsNoReader DEF LeaveUnfinished, Fault, TypeOK, OneLocal, Remote,
     ownerVars, readerVars
<1>Expire. ASSUME Expire PROVE OneLocal'
  BY <1>Expire, NoneIsNoReader DEF Expire, TypeOK, OneLocal, Remote, ownerVars,
     readerVars
<1>Stutter. CASE UNCHANGED vars
  BY <1>Stutter DEF vars, ownerVars, readerVars, TypeOK, OneLocal, Remote
<1> QED
  BY <1>Start, <1>StartWrite, <1>Record, <1>MirrorRead, <1>MirrorWrite, <1>Publish,
     <1>Finish, <1>FinishPublish, <1>FinishRead, <1>FinishWrite, <1>ResumeLocal,
     <1>ReadSnapshot, <1>ResumeRemote, <1>Claim, <1>Subscribed, <1>LeaveLocal,
     <1>LeaveRemote, <1>ReleaseRead, <1>Release, <1>ReaderFails, <1>DropEvents,
     <1>OwnerCrash, <1>OwnerFails, <1>LeaveUnfinished, <1>Expire, <1>Stutter
  DEF Next, OwnerStep, ReaderStep

\* Who has no stream has no queue.
LEMMA NoStreamNext ==
  TypeOK /\ Held /\ OneLocal /\ NoStreamNoQueue /\ [Next]_vars => NoStreamNoQueue'
<1> SUFFICES ASSUME TypeOK, Held, OneLocal, NoStreamNoQueue, [Next]_vars PROVE NoStreamNoQueue'
  OBVIOUS
<1>Start. ASSUME Start PROVE NoStreamNoQueue'
  BY <1>Start DEF Start, TypeOK, NoStreamNoQueue, Remote, ownerVars, readerVars
<1>StartWrite. ASSUME StartWrite PROVE NoStreamNoQueue'
  BY <1>StartWrite DEF StartWrite, TypeOK, NoStreamNoQueue, Remote, ownerVars, readerVars
<1>Record. ASSUME NEW last \in BOOLEAN, Record(last) PROVE NoStreamNoQueue'
  <2>1. \A r \in Readers : at[r] \notin {"local", "remote"} => r \notin {local} \ {None}
    BY DEF OneLocal, Elsewhere
  <2>2. \A r \in Readers : at[r] \notin {"local", "remote"} =>
          got'[r] = got[r] /\ (r \in closed' <=> r \in closed)
    BY <1>Record, <2>1, PushSteps DEF Pushed
  <2>3. QED
    BY <1>Record, <2>2 DEF Record, NoStreamNoQueue, readerVars
<1>MirrorRead. ASSUME MirrorRead PROVE NoStreamNoQueue'
  BY <1>MirrorRead DEF MirrorRead, PatchRead, TypeOK, NoStreamNoQueue, Remote, ownerVars,
     readerVars
<1>MirrorWrite. ASSUME MirrorWrite PROVE NoStreamNoQueue'
  BY <1>MirrorWrite DEF MirrorWrite, TypeOK, NoStreamNoQueue, Remote, ownerVars,
     readerVars
<1>Publish. ASSUME Publish PROVE NoStreamNoQueue'
  <2>1. \A r \in Readers : at[r] \notin {"local", "remote"} => r \notin Elsewhere
    BY DEF OneLocal, Elsewhere
  <2>2. \A r \in Readers : at[r] \notin {"local", "remote"} =>
          got'[r] = got[r] /\ (r \in closed' <=> r \in closed)
    BY <1>Publish, <2>1, PushSteps DEF Pushed
  <2>3. QED
    BY <1>Publish, <2>2 DEF Publish, NoStreamNoQueue, readerVars
<1>Finish. ASSUME Finish PROVE NoStreamNoQueue'
  <2>1. \A r \in Readers : at[r] \notin {"local", "remote"} => r \notin {local} \ {None}
    BY DEF OneLocal, Elsewhere
  <2>2. \A r \in Readers : at[r] \notin {"local", "remote"} =>
          got'[r] = got[r] /\ (r \in closed' <=> r \in closed)
    BY <1>Finish, <2>1, PushSteps DEF Pushed
  <2>3. QED
    BY <1>Finish, <2>2 DEF Finish, NoStreamNoQueue, readerVars
<1>FinishPublish. ASSUME FinishPublish PROVE NoStreamNoQueue'
  <2>1. \A r \in Readers : at[r] \notin {"local", "remote"} => r \notin Elsewhere
    BY DEF OneLocal, Elsewhere
  <2>2. \A r \in Readers : at[r] \notin {"local", "remote"} =>
          got'[r] = got[r] /\ (r \in closed' <=> r \in closed)
    BY <1>FinishPublish, <2>1, PushSteps DEF Pushed
  <2>3. QED
    BY <1>FinishPublish, <2>2 DEF FinishPublish, NoStreamNoQueue, readerVars
<1>FinishRead. ASSUME FinishRead PROVE NoStreamNoQueue'
  BY <1>FinishRead DEF FinishRead, PatchRead, TypeOK, NoStreamNoQueue, Remote, ownerVars,
     readerVars
<1>FinishWrite. ASSUME FinishWrite PROVE NoStreamNoQueue'
  BY <1>FinishWrite DEF FinishWrite, TypeOK, NoStreamNoQueue, Remote, ownerVars,
     readerVars
<1>ResumeLocal. ASSUME NEW r \in Readers, NEW foreign \in BOOLEAN, ResumeLocal(r, foreign) PROVE NoStreamNoQueue'
  BY <1>ResumeLocal DEF ResumeLocal, Answer, TypeOK, NoStreamNoQueue, Remote, ownerVars,
     readerVars
<1>ReadSnapshot. ASSUME NEW r \in Readers, NEW foreign \in BOOLEAN, ReadSnapshot(r, foreign) PROVE NoStreamNoQueue'
  BY <1>ReadSnapshot DEF ReadSnapshot, Answer, TypeOK, NoStreamNoQueue, Remote,
     ownerVars, readerVars
<1>ResumeRemote. ASSUME NEW r \in Readers, ResumeRemote(r) PROVE NoStreamNoQueue'
  BY <1>ResumeRemote DEF ResumeRemote, Answer, TypeOK, NoStreamNoQueue, Remote,
     ownerVars, readerVars
<1>Claim. ASSUME NEW r \in Readers, Claim(r) PROVE NoStreamNoQueue'
  BY <1>Claim DEF Claim, Answer, TypeOK, NoStreamNoQueue, Remote, ownerVars, readerVars
<1>Subscribed. ASSUME NEW r \in Readers, Subscribed(r) PROVE NoStreamNoQueue'
  BY <1>Subscribed DEF Subscribed, Answer, TypeOK, NoStreamNoQueue, Remote, ownerVars,
     readerVars
<1>LeaveLocal. ASSUME NEW r \in Readers, LeaveLocal(r) PROVE NoStreamNoQueue'
  BY <1>LeaveLocal, EndFacts DEF LeaveLocal, Answer, TypeOK, Remote, NoStreamNoQueue,
     ownerVars
<1>LeaveRemote. ASSUME NEW r \in Readers, LeaveRemote(r) PROVE NoStreamNoQueue'
  BY <1>LeaveRemote, EndFacts DEF LeaveRemote, Answer, TypeOK, Remote, NoStreamNoQueue,
     ownerVars
<1>ReleaseRead. ASSUME NEW r \in Readers, ReleaseRead(r) PROVE NoStreamNoQueue'
  BY <1>ReleaseRead DEF ReleaseRead, Answer, TypeOK, NoStreamNoQueue, Remote, ownerVars,
     readerVars
<1>Release. ASSUME NEW r \in Readers, Release(r) PROVE NoStreamNoQueue'
  BY <1>Release DEF Release, Answer, TypeOK, NoStreamNoQueue, Remote, ownerVars,
     readerVars
<1>ReaderFails. ASSUME NEW r \in Readers, ReaderFails(r) PROVE NoStreamNoQueue'
  BY <1>ReaderFails, EndFacts DEF ReaderFails, Answer, Fault, TypeOK, Remote,
     NoStreamNoQueue, ownerVars
<1>DropEvents. ASSUME NEW r \in Readers, DropEvents(r) PROVE NoStreamNoQueue'
  BY <1>DropEvents DEF DropEvents, Fault, TypeOK, NoStreamNoQueue, Remote, ownerVars,
     readerVars
<1>OwnerCrash. ASSUME OwnerCrash PROVE NoStreamNoQueue'
  BY <1>OwnerCrash, EndFacts DEF OwnerCrash, Fault, TypeOK, Remote, NoStreamNoQueue,
     ownerVars
<1>OwnerFails. ASSUME OwnerFails PROVE NoStreamNoQueue'
  BY <1>OwnerFails DEF OwnerFails, Fault, TypeOK, NoStreamNoQueue, Remote, ownerVars,
     readerVars
<1>LeaveUnfinished. ASSUME LeaveUnfinished PROVE NoStreamNoQueue'
  BY <1>LeaveUnfinished DEF LeaveUnfinished, Fault, TypeOK, NoStreamNoQueue, Remote, ownerVars,
     readerVars
<1>Expire. ASSUME Expire PROVE NoStreamNoQueue'
  BY <1>Expire DEF Expire, TypeOK, NoStreamNoQueue, Remote, ownerVars, readerVars
<1>Stutter. CASE UNCHANGED vars
  BY <1>Stutter DEF vars, ownerVars, readerVars, TypeOK, NoStreamNoQueue, Remote
<1> QED
  BY <1>Start, <1>StartWrite, <1>Record, <1>MirrorRead, <1>MirrorWrite, <1>Publish,
     <1>Finish, <1>FinishPublish, <1>FinishRead, <1>FinishWrite, <1>ResumeLocal,
     <1>ReadSnapshot, <1>ResumeRemote, <1>Claim, <1>Subscribed, <1>LeaveLocal,
     <1>LeaveRemote, <1>ReleaseRead, <1>Release, <1>ReaderFails, <1>DropEvents,
     <1>OwnerCrash, <1>OwnerFails, <1>LeaveUnfinished, <1>Expire, <1>Stutter
  DEF Next, OwnerStep, ReaderStep

\* Until the terminal event the local reader has every event.
LEMMA LocalNext ==
  TypeOK /\ Held /\ OneLocal /\ NoStreamNoQueue /\ LocalIsCurrent /\ [Next]_vars =>
     LocalIsCurrent'
<1> SUFFICES ASSUME TypeOK, Held, OneLocal, NoStreamNoQueue, LocalIsCurrent, [Next]_vars
   PROVE LocalIsCurrent'
  OBVIOUS
<1>Start. ASSUME Start PROVE LocalIsCurrent'
  BY <1>Start DEF Start, TypeOK, LocalIsCurrent, Remote, ownerVars, readerVars
<1>StartWrite. ASSUME StartWrite PROVE LocalIsCurrent'
  BY <1>StartWrite DEF StartWrite, TypeOK, LocalIsCurrent, Remote, ownerVars, readerVars
<1>Record. ASSUME NEW last \in BOOLEAN, Record(last) PROVE LocalIsCurrent'
  <2> SUFFICES ASSUME NEW r \in Readers, at[r] = "local"
               PROVE  /\ \A n \in 1..Len(got'[r]) : got'[r][n] = caught[r] + n
                      /\ r \in closed' <=> ended'
                      /\ caught[r] + Len(got'[r]) >= pos'
                      /\ ~ended' => caught[r] + Len(got'[r]) = pos'
    BY <1>Record DEF Record, LocalIsCurrent, readerVars
  <2>1. r \in {local} \ {None}
    BY NoneIsNoReader DEF OneLocal
  <2>2. Pushed({local} \ {None}, pos + 1, last)
    BY <1>Record, PushSteps
  <2>3. got[r] \in Seq(1..(Events + 1)) /\ Len(got[r]) \in Nat /\ pos \in Nat /\ caught[r] \in Nat
    BY LenProperties, Bounds DEF TypeOK
  <2>4. CASE ended
    BY <1>Record, <2>1, <2>2, <2>3, <2>4 DEF Record, LocalIsCurrent, Pushed
  <2>5. CASE ~ended
    <3>1. r \notin closed /\ caught[r] + Len(got[r]) = pos
      BY <2>5 DEF LocalIsCurrent
    <3>2. /\ Len(got'[r]) = Len(got[r]) + 1
          /\ \A n \in 1..Len(got[r]) : got'[r][n] = got[r][n]
          /\ got'[r][Len(got[r]) + 1] = pos + 1
      BY <2>1, <2>2, <3>1 DEF Pushed
    <3>3. /\ \A n \in 1..Len(got'[r]) : got'[r][n] = caught[r] + n
          /\ caught[r] + Len(got'[r]) = pos + 1
      <4> DEFINE s == got[r]
                 q == got'[r]
                 c == caught[r]
      <4>1. /\ c \in Nat /\ pos \in Nat /\ Len(s) \in Nat /\ c + Len(s) = pos
            /\ Len(q) = Len(s) + 1
            /\ q[Len(s) + 1] = pos + 1
        BY <2>3, <3>1, <3>2
      <4>2. \A n \in 1..Len(s) : s[n] = c + n /\ q[n] = s[n]
        BY <3>2 DEF LocalIsCurrent
      <4> HIDE DEF s, q, c
      <4>3. (\A n \in 1..Len(q) : q[n] = c + n) /\ c + Len(q) = pos + 1
        BY ONLY <4>1, <4>2
      <4>4. QED
        BY <4>3 DEF s, q, c
    <3>4. r \in closed' <=> ended'
      BY <1>Record, <2>1, <2>2, <3>1 DEF Record, Pushed
    <3>5. pos' = pos + 1
      BY <1>Record DEF Record
    <3>6. QED
      BY <2>3, <3>3, <3>4, <3>5
  <2>6. QED
    BY <2>4, <2>5
<1>MirrorRead. ASSUME MirrorRead PROVE LocalIsCurrent'
  BY <1>MirrorRead DEF MirrorRead, PatchRead, TypeOK, LocalIsCurrent, Remote, ownerVars,
     readerVars
<1>MirrorWrite. ASSUME MirrorWrite PROVE LocalIsCurrent'
  BY <1>MirrorWrite DEF MirrorWrite, TypeOK, LocalIsCurrent, Remote, ownerVars,
     readerVars
<1>Publish. ASSUME Publish PROVE LocalIsCurrent'
  <2>1. \A r \in Readers : at[r] = "local" => got'[r] = got[r] /\ (r \in closed' <=> r \in closed)
    BY <1>Publish, PushSteps DEF Pushed, Elsewhere
  <2>2. QED
    BY <1>Publish, <2>1 DEF Publish, LocalIsCurrent, readerVars
<1>Finish. ASSUME Finish PROVE LocalIsCurrent'
  <2> SUFFICES ASSUME NEW r \in Readers, at[r] = "local"
               PROVE  /\ \A n \in 1..Len(got'[r]) : got'[r][n] = caught[r] + n
                      /\ r \in closed' <=> ended'
                      /\ caught[r] + Len(got'[r]) >= pos'
                      /\ ~ended' => caught[r] + Len(got'[r]) = pos'
    BY <1>Finish DEF Finish, LocalIsCurrent, readerVars
  <2>1. r \in {local} \ {None}
    BY NoneIsNoReader DEF OneLocal
  <2>2. Pushed({local} \ {None}, pos + 1, TRUE)
    BY <1>Finish, PushSteps
  <2>3. got[r] \in Seq(1..(Events + 1)) /\ Len(got[r]) \in Nat /\ pos \in Nat /\ caught[r] \in Nat
    BY LenProperties, Bounds DEF TypeOK
  <2>4. CASE ended
    BY <1>Finish, <2>1, <2>2, <2>3, <2>4 DEF Finish, LocalIsCurrent, Pushed
  <2>5. CASE ~ended
    <3>1. r \notin closed /\ caught[r] + Len(got[r]) = pos
      BY <2>5 DEF LocalIsCurrent
    <3>2. /\ Len(got'[r]) = Len(got[r]) + 1
          /\ \A n \in 1..Len(got[r]) : got'[r][n] = got[r][n]
          /\ got'[r][Len(got[r]) + 1] = pos + 1
      BY <2>1, <2>2, <3>1 DEF Pushed
    <3>3. /\ \A n \in 1..Len(got'[r]) : got'[r][n] = caught[r] + n
          /\ caught[r] + Len(got'[r]) = pos + 1
      <4> DEFINE s == got[r]
                 q == got'[r]
                 c == caught[r]
      <4>1. /\ c \in Nat /\ pos \in Nat /\ Len(s) \in Nat /\ c + Len(s) = pos
            /\ Len(q) = Len(s) + 1
            /\ q[Len(s) + 1] = pos + 1
        BY <2>3, <3>1, <3>2
      <4>2. \A n \in 1..Len(s) : s[n] = c + n /\ q[n] = s[n]
        BY <3>2 DEF LocalIsCurrent
      <4> HIDE DEF s, q, c
      <4>3. (\A n \in 1..Len(q) : q[n] = c + n) /\ c + Len(q) = pos + 1
        BY ONLY <4>1, <4>2
      <4>4. QED
        BY <4>3 DEF s, q, c
    <3>4. r \in closed' <=> ended'
      BY <1>Finish, <2>1, <2>2, <3>1 DEF Finish, Pushed
    <3>5. pos' = pos /\ ended'
      BY <1>Finish DEF Finish
    <3>6. QED
      BY <2>3, <3>3, <3>4, <3>5
  <2>6. QED
    BY <2>4, <2>5
<1>FinishPublish. ASSUME FinishPublish PROVE LocalIsCurrent'
  <2>1. \A r \in Readers : at[r] = "local" => got'[r] = got[r] /\ (r \in closed' <=> r \in closed)
    BY <1>FinishPublish, PushSteps DEF Pushed, Elsewhere
  <2>2. QED
    BY <1>FinishPublish, <2>1 DEF FinishPublish, LocalIsCurrent, readerVars
<1>FinishRead. ASSUME FinishRead PROVE LocalIsCurrent'
  BY <1>FinishRead DEF FinishRead, PatchRead, TypeOK, LocalIsCurrent, Remote, ownerVars,
     readerVars
<1>FinishWrite. ASSUME FinishWrite PROVE LocalIsCurrent'
  BY <1>FinishWrite DEF FinishWrite, TypeOK, LocalIsCurrent, Remote, ownerVars,
     readerVars
<1>ResumeLocal. ASSUME NEW r \in Readers, NEW foreign \in BOOLEAN, ResumeLocal(r, foreign) PROVE LocalIsCurrent'
  <2>1. ASSUME NEW q \in Readers, at'[q] = "local"
        PROVE  \/ at[q] = "local" /\ caught'[q] = caught[q]
               \/ ~ended /\ caught'[q] = pos /\ got[q] = <<>> /\ q \notin closed
    BY <1>ResumeLocal, <2>1 DEF ResumeLocal, Answer, NoStreamNoQueue, TypeOK
  <2>2. pos \in Nat /\ Len(<<>>) = 0
    BY Bounds DEF TypeOK
  <2>3. got' = got /\ closed' = closed /\ ended' = ended /\ pos' = pos
    BY <1>ResumeLocal DEF ResumeLocal, ownerVars
  <2>4. QED
    BY <2>1, <2>2, <2>3 DEF LocalIsCurrent
<1>ReadSnapshot. ASSUME NEW r \in Readers, NEW foreign \in BOOLEAN, ReadSnapshot(r, foreign) PROVE LocalIsCurrent'
  BY <1>ReadSnapshot DEF ReadSnapshot, Answer, TypeOK, LocalIsCurrent, Remote, ownerVars,
     readerVars
<1>ResumeRemote. ASSUME NEW r \in Readers, ResumeRemote(r) PROVE LocalIsCurrent'
  BY <1>ResumeRemote DEF ResumeRemote, Answer, TypeOK, LocalIsCurrent, Remote, ownerVars,
     readerVars
<1>Claim. ASSUME NEW r \in Readers, Claim(r) PROVE LocalIsCurrent'
  BY <1>Claim DEF Claim, Answer, TypeOK, LocalIsCurrent, Remote, ownerVars, readerVars
<1>Subscribed. ASSUME NEW r \in Readers, Subscribed(r) PROVE LocalIsCurrent'
  BY <1>Subscribed DEF Subscribed, Answer, TypeOK, LocalIsCurrent, Remote, ownerVars,
     readerVars
<1>LeaveLocal. ASSUME NEW r \in Readers, LeaveLocal(r) PROVE LocalIsCurrent'
  BY <1>LeaveLocal, EndFacts DEF LeaveLocal, Answer, TypeOK, OneLocal, Remote,
     LocalIsCurrent, ownerVars, readerVars
<1>LeaveRemote. ASSUME NEW r \in Readers, LeaveRemote(r) PROVE LocalIsCurrent'
  BY <1>LeaveRemote, EndFacts DEF LeaveRemote, Answer, TypeOK, OneLocal, Remote,
     LocalIsCurrent, ownerVars, readerVars
<1>ReleaseRead. ASSUME NEW r \in Readers, ReleaseRead(r) PROVE LocalIsCurrent'
  BY <1>ReleaseRead DEF ReleaseRead, Answer, TypeOK, LocalIsCurrent, Remote, ownerVars,
     readerVars
<1>Release. ASSUME NEW r \in Readers, Release(r) PROVE LocalIsCurrent'
  BY <1>Release DEF Release, Answer, TypeOK, LocalIsCurrent, Remote, ownerVars,
     readerVars
<1>ReaderFails. ASSUME NEW r \in Readers, ReaderFails(r) PROVE LocalIsCurrent'
  BY <1>ReaderFails, EndFacts DEF ReaderFails, Answer, Fault, TypeOK, OneLocal, Remote,
     LocalIsCurrent, ownerVars, readerVars
<1>DropEvents. ASSUME NEW r \in Readers, DropEvents(r) PROVE LocalIsCurrent'
  BY <1>DropEvents DEF DropEvents, Fault, TypeOK, LocalIsCurrent, Remote, ownerVars,
     readerVars
<1>OwnerCrash. ASSUME OwnerCrash PROVE LocalIsCurrent'
  BY <1>OwnerCrash, EndFacts DEF OwnerCrash, Fault, TypeOK, OneLocal, Remote,
     LocalIsCurrent, ownerVars, readerVars
<1>OwnerFails. ASSUME OwnerFails PROVE LocalIsCurrent'
  BY <1>OwnerFails DEF OwnerFails, Fault, TypeOK, LocalIsCurrent, Remote, ownerVars,
     readerVars
<1>LeaveUnfinished. ASSUME LeaveUnfinished PROVE LocalIsCurrent'
  BY <1>LeaveUnfinished DEF LeaveUnfinished, Fault, TypeOK, LocalIsCurrent, Remote, ownerVars,
     readerVars
<1>Expire. ASSUME Expire PROVE LocalIsCurrent'
  BY <1>Expire DEF Expire, TypeOK, LocalIsCurrent, Remote, ownerVars, readerVars
<1>Stutter. CASE UNCHANGED vars
  BY <1>Stutter DEF vars, ownerVars, readerVars, TypeOK, LocalIsCurrent, Remote
<1>QED. QED
  BY <1>Start, <1>StartWrite, <1>Record, <1>MirrorRead, <1>MirrorWrite, <1>Publish,
     <1>Finish, <1>FinishPublish, <1>FinishRead, <1>FinishWrite, <1>ResumeLocal,
     <1>ReadSnapshot, <1>ResumeRemote, <1>Claim, <1>Subscribed, <1>LeaveLocal,
     <1>LeaveRemote, <1>ReleaseRead, <1>Release, <1>ReaderFails, <1>DropEvents,
     <1>OwnerCrash, <1>OwnerFails, <1>LeaveUnfinished, <1>Expire, <1>Stutter DEF Next, OwnerStep, ReaderStep

\* No snapshot gets ahead of the next event.
LEMMA TextNext ==
  TypeOK /\ Held /\ NoStreamNoQueue /\ TextIsNotAhead /\ [Next]_vars => TextIsNotAhead'
<1> SUFFICES ASSUME TypeOK, Held, NoStreamNoQueue, TextIsNotAhead, [Next]_vars PROVE
   TextIsNotAhead'
  OBVIOUS
<1>Start. ASSUME Start PROVE TextIsNotAhead'
  BY <1>Start DEF Start, TypeOK, Held, TextIsNotAhead, Sent, Snapshots, Serving, Remote,
     ownerVars, readerVars
<1>StartWrite. ASSUME StartWrite PROVE TextIsNotAhead'
  BY <1>StartWrite DEF StartWrite, TypeOK, Held, TextIsNotAhead, Sent, Snapshots,
     Serving, Remote, ownerVars, readerVars
<1>Record. ASSUME NEW last \in BOOLEAN, Record(last) PROVE TextIsNotAhead'
  BY <1>Record DEF Record, TypeOK, Held, TextIsNotAhead, Sent, Snapshots, Serving,
     Remote, ownerVars, readerVars
<1>MirrorRead. ASSUME MirrorRead PROVE TextIsNotAhead'
  BY <1>MirrorRead DEF MirrorRead, PatchRead, TypeOK, Held, TextIsNotAhead, Sent,
     Snapshots, Serving, Remote, ownerVars, readerVars
<1>MirrorWrite. ASSUME MirrorWrite PROVE TextIsNotAhead'
  BY <1>MirrorWrite DEF MirrorWrite, TypeOK, Held, TextIsNotAhead, Sent, Snapshots,
     Serving, Remote, ownerVars, readerVars
<1>Publish. ASSUME Publish PROVE TextIsNotAhead'
  BY <1>Publish DEF Publish, TypeOK, Held, TextIsNotAhead, Sent, Snapshots, Serving,
     Remote, ownerVars, readerVars
<1>Finish. ASSUME Finish PROVE TextIsNotAhead'
  BY <1>Finish DEF Finish, TypeOK, Held, TextIsNotAhead, Sent, Snapshots, Serving,
     Remote, ownerVars, readerVars
<1>FinishPublish. ASSUME FinishPublish PROVE TextIsNotAhead'
  BY <1>FinishPublish DEF FinishPublish, TypeOK, Held, TextIsNotAhead, Sent, Snapshots,
     Serving, Remote, ownerVars, readerVars
<1>FinishRead. ASSUME FinishRead PROVE TextIsNotAhead'
  BY <1>FinishRead DEF FinishRead, PatchRead, TypeOK, Held, TextIsNotAhead, Sent,
     Snapshots, Serving, Remote, ownerVars, readerVars
<1>FinishWrite. ASSUME FinishWrite PROVE TextIsNotAhead'
  BY <1>FinishWrite DEF FinishWrite, TypeOK, Held, TextIsNotAhead, Sent, Snapshots,
     Serving, Remote, ownerVars, readerVars
<1>ResumeLocal. ASSUME NEW r \in Readers, NEW foreign \in BOOLEAN, ResumeLocal(r, foreign) PROVE TextIsNotAhead'
  BY <1>ResumeLocal DEF ResumeLocal, Answer, TypeOK, Held, TextIsNotAhead, Sent,
     Snapshots, Serving, Remote, ownerVars, readerVars
<1>ReadSnapshot. ASSUME NEW r \in Readers, NEW foreign \in BOOLEAN, ReadSnapshot(r, foreign) PROVE TextIsNotAhead'
  BY <1>ReadSnapshot DEF ReadSnapshot, Answer, TypeOK, Held, TextIsNotAhead, Sent,
     Snapshots, Serving, Remote, ownerVars, readerVars
<1>ResumeRemote. ASSUME NEW r \in Readers, ResumeRemote(r) PROVE TextIsNotAhead'
  BY <1>ResumeRemote DEF ResumeRemote, Answer, TypeOK, Held, TextIsNotAhead, Sent,
     Snapshots, Serving, Remote, ownerVars, readerVars
<1>Claim. ASSUME NEW r \in Readers, Claim(r) PROVE TextIsNotAhead'
  BY <1>Claim DEF Claim, Answer, TypeOK, Held, TextIsNotAhead, Sent, Snapshots, Serving,
     Remote, ownerVars, readerVars
<1>Subscribed. ASSUME NEW r \in Readers, Subscribed(r) PROVE TextIsNotAhead'
  BY <1>Subscribed DEF Subscribed, Answer, TypeOK, Held, TextIsNotAhead, Sent, Snapshots,
     Serving, Remote, ownerVars, readerVars
<1>LeaveLocal. ASSUME NEW r \in Readers, LeaveLocal(r) PROVE TextIsNotAhead'
  BY <1>LeaveLocal, EndFacts DEF LeaveLocal, Answer, TypeOK, TextIsNotAhead, Sent,
     Snapshots, Serving, Remote, ownerVars, readerVars
<1>LeaveRemote. ASSUME NEW r \in Readers, LeaveRemote(r) PROVE TextIsNotAhead'
  BY <1>LeaveRemote, EndFacts DEF LeaveRemote, Answer, TypeOK, TextIsNotAhead, Sent,
     Snapshots, Serving, Remote, ownerVars, readerVars
<1>ReleaseRead. ASSUME NEW r \in Readers, ReleaseRead(r) PROVE TextIsNotAhead'
  BY <1>ReleaseRead DEF ReleaseRead, Answer, TypeOK, Held, TextIsNotAhead, Sent,
     Snapshots, Serving, Remote, ownerVars, readerVars
<1>Release. ASSUME NEW r \in Readers, Release(r) PROVE TextIsNotAhead'
  BY <1>Release DEF Release, Answer, TypeOK, Held, TextIsNotAhead, Sent, Snapshots,
     Serving, Remote, ownerVars, readerVars
<1>ReaderFails. ASSUME NEW r \in Readers, ReaderFails(r) PROVE TextIsNotAhead'
  BY <1>ReaderFails, EndFacts DEF ReaderFails, Answer, Fault, TypeOK, TextIsNotAhead,
     Sent, Snapshots, Serving, Remote, ownerVars, readerVars
<1>DropEvents. ASSUME NEW r \in Readers, DropEvents(r) PROVE TextIsNotAhead'
  BY <1>DropEvents DEF DropEvents, Fault, TypeOK, Held, TextIsNotAhead, Sent, Snapshots,
     Serving, Remote, ownerVars, readerVars
<1>OwnerCrash. ASSUME OwnerCrash PROVE TextIsNotAhead'
  BY <1>OwnerCrash, EndFacts DEF OwnerCrash, Fault, TypeOK, TextIsNotAhead, Sent,
     Snapshots, Serving, Remote, ownerVars, readerVars
<1>OwnerFails. ASSUME OwnerFails PROVE TextIsNotAhead'
  BY <1>OwnerFails DEF OwnerFails, Fault, TypeOK, Held, TextIsNotAhead, Sent, Snapshots,
     Serving, Remote, ownerVars, readerVars
<1>LeaveUnfinished. ASSUME LeaveUnfinished PROVE TextIsNotAhead'
  BY <1>LeaveUnfinished DEF LeaveUnfinished, Fault, TypeOK, Held, TextIsNotAhead, Sent, Snapshots,
     Serving, Remote, ownerVars, readerVars
<1>Expire. ASSUME Expire PROVE TextIsNotAhead'
  BY <1>Expire DEF Expire, TypeOK, Held, TextIsNotAhead, Sent, Snapshots, Serving,
     Remote, ownerVars, readerVars
<1>Stutter. CASE UNCHANGED vars
  BY <1>Stutter DEF vars, ownerVars, readerVars, TypeOK, Held, TextIsNotAhead, Sent,
     Snapshots, Serving, Remote
<1>QED. QED
  BY <1>Start, <1>StartWrite, <1>Record, <1>MirrorRead, <1>MirrorWrite, <1>Publish,
     <1>Finish, <1>FinishPublish, <1>FinishRead, <1>FinishWrite, <1>ResumeLocal,
     <1>ReadSnapshot, <1>ResumeRemote, <1>Claim, <1>Subscribed, <1>LeaveLocal,
     <1>LeaveRemote, <1>ReleaseRead, <1>Release, <1>ReaderFails, <1>DropEvents,
     <1>OwnerCrash, <1>OwnerFails, <1>LeaveUnfinished, <1>Expire, <1>Stutter DEF Next, OwnerStep, ReaderStep

\* The next event keeps a queue rising and without new holes.
LEMMA RelayedPush ==
  ASSUME NEW s \in Seq(Int), NEW q \in Seq(Int), NEW c \in Int, NEW last \in Int, NEW e \in Int,
         NEW whole \in BOOLEAN, NEW open \in BOOLEAN,
         Len(q) = Len(s) + 1, \A n \in 1..Len(s) : q[n] = s[n], q[Len(s) + 1] = e,
         e = last + 1, c <= e, Relayed(s, c, last, whole, TRUE)
  PROVE  Relayed(q, c, e, whole, open)
<1>1. /\ Len(s) \in Nat
      /\ \A n \in 1..Len(s) : s[n] \in Int
  BY ElementOfSeq
<1>2. /\ \A n \in 1..(Len(s) - 1) : s[n + 1] > s[n] /\ (whole => s[n + 1] = s[n] + 1)
      /\ \A n \in 1..Len(s) : s[n] <= last
      /\ Len(s) > 0 => s[1] >= c /\ (whole => s[Len(s)] = last)
  BY <1>1, EmptySeq DEF Relayed
<1>3. ASSUME NEW n \in 1..(Len(q) - 1)
      PROVE  q[n + 1] > q[n] /\ (whole => q[n + 1] = q[n] + 1)
  <2>1. CASE n = Len(s)
    <3>1. s[n] \in Int /\ s[n] <= last /\ (whole => s[n] = last)
      BY <1>1, <1>2, <2>1
    <3>2. q[n] = s[n] /\ q[n + 1] = e
      BY <1>1, <2>1
    <3>3. q[n + 1] > q[n]
      BY <3>1, <3>2
    <3>4. ASSUME whole PROVE q[n + 1] = q[n] + 1
      BY <3>1, <3>2, <3>4
    <3>5. QED
      BY <3>3, <3>4
  <2>2. CASE n # Len(s)
    <3>1. n \in 1..(Len(s) - 1) /\ n \in 1..Len(s) /\ n + 1 \in 1..Len(s)
      BY <1>1, <2>2
    <3>2. q[n] = s[n] /\ q[n + 1] = s[n + 1]
      BY <3>1
    <3>3. QED
      BY <1>2, <3>1, <3>2
  <2>3. QED
    BY <2>1, <2>2
<1>4. ASSUME NEW n \in 1..Len(q) PROVE q[n] <= e
  <2>1. CASE n = Len(q)
    BY <1>1, <2>1
  <2>2. CASE n # Len(q)
    <3>1. n \in 1..Len(s)
      BY <1>1, <2>2
    <3>2. q[n] = s[n] /\ s[n] \in Int /\ s[n] <= last
      BY <1>1, <1>2, <3>1
    <3>3. QED
      BY <3>2
  <2>3. QED
    BY <2>1, <2>2
<1>5. q[1] >= c
  <2>1. CASE Len(s) = 0
    BY <2>1
  <2>2. CASE Len(s) > 0
    BY <1>1, <1>2, <2>2
  <2>3. QED
    BY <1>1, <2>1, <2>2
<1>6. QED
  BY <1>3, <1>4, <1>5 DEF Relayed

\* A closed queue, and any after a fault, stays right while more is published.
LEMMA RelayedLater ==
  ASSUME NEW s \in Seq(Int), NEW c \in Int, NEW last \in Int, NEW later \in Int,
         NEW whole \in BOOLEAN, NEW open \in BOOLEAN, NEW open2 \in BOOLEAN,
         last <= later, Relayed(s, c, last, whole, open)
  PROVE  Relayed(s, c, later, whole, FALSE) /\ Relayed(s, c, later, FALSE, open2)
<1>1. \A n \in 1..Len(s) : s[n] \in Int
  BY ElementOfSeq
<1>2. \A n \in 1..Len(s) : s[n] <= later
  BY <1>1 DEF Relayed
<1>3. QED
  BY <1>2 DEF Relayed

\* So does what is left of a queue that loses its last events.
LEMMA RelayedPrefix ==
  ASSUME NEW s \in Seq(Int), NEW c \in Int, NEW last \in Int, NEW whole \in BOOLEAN,
         NEW open \in BOOLEAN, NEW open2 \in BOOLEAN, NEW k \in 0..(Len(s) - 1),
         Relayed(s, c, last, whole, open)
  PROVE  Relayed(SubSeq(s, 1, k), c, last, FALSE, open2)
<1> DEFINE q == SubSeq(s, 1, k)
<1>1. \A n \in 1..k : s[n] \in Int
  BY ElementOfSeq
<1>2. Len(q) = k /\ \A n \in 1..k : q[n] = s[n]
  BY <1>1, SubSeqProperties
<1>3. k = 0 => q = <<>>
  BY SubSeqEmpty
<1>4. Len(s) \in Nat /\ (k > 0 => s # <<>>)
  BY LenProperties
<1> HIDE DEF q
<1>5. Relayed(q, c, last, FALSE, open2)
  <2>1. ASSUME NEW n \in 1..(Len(q) - 1) PROVE q[n + 1] > q[n]
    <3>1. n \in 1..(Len(s) - 1) /\ n \in 1..k /\ n + 1 \in 1..k
      BY <1>2, <1>4
    <3>2. s[n + 1] > s[n]
      BY <3>1 DEF Relayed
    <3>3. QED
      BY <1>2, <3>1, <3>2
  <2>2. ASSUME NEW n \in 1..Len(q) PROVE q[n] <= last
    BY <1>2, <1>4 DEF Relayed
  <2>3. q # <<>> => q[1] >= c
    BY <1>2, <1>3, <1>4 DEF Relayed
  <2>4. QED
    BY <2>1, <2>2, <2>3 DEF Relayed
<1>6. QED
  BY <1>5 DEF q

\* The types that the lemmas about queues ask for.
LEMMA QueueIsOfInts ==
  ASSUME NEW s \in Seq(1..(Events + 1))
  PROVE  s \in Seq(Int)
<1>1. 1..(Events + 1) \subseteq Int
  OBVIOUS
<1>2. QED
  BY <1>1, SeqMonotonic

\* The queues are such sequences.
LEMMA QueueTypes ==
  TypeOK => \A r \in Readers : got[r] \in Seq(Int) /\ caught[r] \in Int /\ Sent \in Int
<1> SUFFICES ASSUME TypeOK, NEW r \in Readers
             PROVE  got[r] \in Seq(Int) /\ caught[r] \in Int /\ Sent \in Int
  OBVIOUS
<1>1. got[r] \in Seq(1..(Events + 1)) /\ caught[r] \in Int /\ Sent \in Int
  BY DEF TypeOK, Sent
<1>2. QED
  BY <1>1, QueueIsOfInts

\* A published event keeps every relay right.
LEMMA RelayStep ==
  ASSUME TypeOK, TextIsNotAhead, RelayFollows, NEW e \in Nat, NEW last \in BOOLEAN,
         Pushed(Elsewhere, e, last), e = Sent + 1, Sent' = e,
         at' = at, caught' = caught, faults' = faults
  PROVE  RelayFollows'
<1> SUFFICES ASSUME NEW r \in Readers, at[r] = "remote"
             PROVE  Relayed(got'[r], caught[r], e, faults = 0, r \notin closed')
  BY DEF RelayFollows
<1>1. /\ Sent \in Int /\ caught[r] \in Int /\ caught[r] <= e /\ Sent <= e
      /\ got[r] \in Seq(Int) /\ got'[r] \in Seq(Int) /\ e \in Int
  <2>1. got'[r] \in Seq(1..(Events + 1))
    BY DEF Pushed
  <2>2. QED
    BY <2>1, QueueTypes, QueueIsOfInts DEF TextIsNotAhead
<1>2. Relayed(got[r], caught[r], Sent, faults = 0, r \notin closed)
  BY DEF RelayFollows
<1>3. (faults = 0) \in BOOLEAN /\ (r \notin closed) \in BOOLEAN /\ (r \notin closed') \in BOOLEAN
  OBVIOUS
<1>4. CASE r \in closed
  <2>1. got'[r] = got[r] /\ r \in closed'
    BY <1>4 DEF Pushed, Elsewhere
  <2>2. Relayed(got[r], caught[r], e, faults = 0, FALSE)
    BY <1>1, <1>2, <1>3, RelayedLater, Zenon
  <2>3. QED
    BY <2>1, <2>2
<1>5. CASE r \notin closed
  <2>1. /\ Len(got'[r]) = Len(got[r]) + 1
        /\ \A n \in 1..Len(got[r]) : got'[r][n] = got[r][n]
        /\ got'[r][Len(got[r]) + 1] = e
    BY <1>5 DEF Pushed, Elsewhere
  <2>2. Relayed(got[r], caught[r], Sent, faults = 0, TRUE)
    BY <1>2, <1>5
  <2>3. QED
    BY <1>1, <1>3, <2>1, <2>2, RelayedPush, ZenonT(60)
<1>6. QED
  BY <1>4, <1>5

\* What remote readers get stays in order.
LEMMA RelayNext ==
  TypeOK /\ Held /\ OneLocal /\ NoStreamNoQueue /\ TextIsNotAhead /\ RelayFollows /\
     [Next]_vars => RelayFollows'
<1> SUFFICES ASSUME TypeOK, Held, OneLocal, NoStreamNoQueue, TextIsNotAhead,
   RelayFollows, [Next]_vars PROVE RelayFollows'
  OBVIOUS
<1>Start. ASSUME Start PROVE RelayFollows'
  BY <1>Start DEF Start, TypeOK, RelayFollows, Sent, Serving, Remote, ownerVars,
     readerVars
<1>StartWrite. ASSUME StartWrite PROVE RelayFollows'
  BY <1>StartWrite DEF StartWrite, TypeOK, RelayFollows, Sent, Serving, Remote,
     ownerVars, readerVars
<1>Record. ASSUME NEW last \in BOOLEAN, Record(last) PROVE RelayFollows'
  <2>1. \A r \in Readers : at[r] = "remote" =>
          got'[r] = got[r] /\ (r \in closed' <=> r \in closed)
    BY <1>Record, PushSteps DEF Pushed, OneLocal
  <2>2. Sent' = Sent /\ at' = at /\ caught' = caught /\ faults' = faults
    BY <1>Record DEF Record, Sent, TypeOK, readerVars
  <2>3. QED
    BY <2>1, <2>2 DEF RelayFollows
<1>MirrorRead. ASSUME MirrorRead PROVE RelayFollows'
  BY <1>MirrorRead DEF MirrorRead, PatchRead, TypeOK, RelayFollows, Sent, Serving,
     Remote, ownerVars, readerVars
<1>MirrorWrite. ASSUME MirrorWrite PROVE RelayFollows'
  BY <1>MirrorWrite DEF MirrorWrite, TypeOK, RelayFollows, Sent, Serving, Remote,
     ownerVars, readerVars
<1>Publish. ASSUME Publish PROVE RelayFollows'
  <2>1. pos \in Nat /\ pos = Sent + 1 /\ Sent' = pos /\ ended \in BOOLEAN
    BY <1>Publish, Bounds DEF Publish, Sent, TypeOK, Held
  <2>2. at' = at /\ caught' = caught /\ faults' = faults
    BY <1>Publish DEF Publish, readerVars
  <2>3. Pushed(Elsewhere, pos, ended)
    BY <1>Publish, PushSteps
  <2>4. QED
    BY <2>1, <2>2, <2>3, RelayStep
<1>Finish. ASSUME Finish PROVE RelayFollows'
  <2>1. \A r \in Readers : at[r] = "remote" =>
          got'[r] = got[r] /\ (r \in closed' <=> r \in closed)
    BY <1>Finish, PushSteps DEF Pushed, OneLocal
  <2>2. Sent' = Sent /\ at' = at /\ caught' = caught /\ faults' = faults
    BY <1>Finish DEF Finish, Sent, TypeOK, readerVars
  <2>3. QED
    BY <2>1, <2>2 DEF RelayFollows
<1>FinishPublish. ASSUME FinishPublish PROVE RelayFollows'
  <2>1. pos + 1 \in Nat /\ pos + 1 = Sent + 1 /\ Sent' = pos + 1 /\ ended \in BOOLEAN
    BY <1>FinishPublish, Bounds DEF FinishPublish, Sent, TypeOK, Held
  <2>2. at' = at /\ caught' = caught /\ faults' = faults
    BY <1>FinishPublish DEF FinishPublish, readerVars
  <2>3. Pushed(Elsewhere, pos + 1, TRUE)
    BY <1>FinishPublish, PushSteps
  <2>4. QED
    BY <2>1, <2>2, <2>3, RelayStep
<1>FinishRead. ASSUME FinishRead PROVE RelayFollows'
  BY <1>FinishRead DEF FinishRead, PatchRead, TypeOK, RelayFollows, Sent, Serving,
     Remote, ownerVars, readerVars
<1>FinishWrite. ASSUME FinishWrite PROVE RelayFollows'
  BY <1>FinishWrite DEF FinishWrite, TypeOK, RelayFollows, Sent, Serving, Remote,
     ownerVars, readerVars
<1>ResumeLocal. ASSUME NEW r \in Readers, NEW foreign \in BOOLEAN, ResumeLocal(r, foreign) PROVE RelayFollows'
  BY <1>ResumeLocal DEF ResumeLocal, Answer, TypeOK, RelayFollows, Sent, Serving, Remote,
     ownerVars, readerVars
<1>ReadSnapshot. ASSUME NEW r \in Readers, NEW foreign \in BOOLEAN, ReadSnapshot(r, foreign) PROVE RelayFollows'
  BY <1>ReadSnapshot DEF ReadSnapshot, Answer, TypeOK, RelayFollows, Sent, Serving,
     Remote, ownerVars, readerVars
<1>ResumeRemote. ASSUME NEW r \in Readers, ResumeRemote(r) PROVE RelayFollows'
  BY <1>ResumeRemote DEF ResumeRemote, Answer, TypeOK, RelayFollows, Sent, Serving,
     Remote, ownerVars, readerVars
<1>Claim. ASSUME NEW r \in Readers, Claim(r) PROVE RelayFollows'
  BY <1>Claim DEF Claim, Answer, TypeOK, RelayFollows, Sent, Serving, Remote, ownerVars,
     readerVars
<1>Subscribed. ASSUME NEW r \in Readers, Subscribed(r) PROVE RelayFollows'
  <2>1. /\ \A q \in Readers : at'[q] = "remote" =>
             q = r \/ (at[q] = "remote" /\ caught'[q] = caught[q])
        /\ at[r] = "subscribing"
    BY <1>Subscribed DEF Subscribed, Answer, TypeOK
  <2>2. Sent' = Sent /\ faults' = faults /\ got' = got /\ closed' = closed
    BY <1>Subscribed DEF Subscribed, Sent, ownerVars
  <2>3. Relayed(got'[r], caught'[r], Sent', faults' = 0, r \notin closed')
    BY <2>1, <2>2 DEF NoStreamNoQueue, Relayed
  <2>4. QED
    BY <2>1, <2>2, <2>3 DEF RelayFollows
<1>LeaveLocal. ASSUME NEW r \in Readers, LeaveLocal(r) PROVE RelayFollows'
  BY <1>LeaveLocal, EndFacts DEF LeaveLocal, Answer, TypeOK, RelayFollows, Sent,
     ownerVars
<1>LeaveRemote. ASSUME NEW r \in Readers, LeaveRemote(r) PROVE RelayFollows'
  <2>1. \A q \in Readers : at'[q] = "remote" =>
          /\ at[q] = "remote" /\ got'[q] = got[q] /\ caught'[q] = caught[q]
          /\ q \in closed' <=> q \in closed
    BY <1>LeaveRemote, EndFacts DEF LeaveRemote, Answer, TypeOK
  <2>2. Sent' = Sent /\ faults' = faults
    BY <1>LeaveRemote DEF LeaveRemote, Sent, ownerVars
  <2>3. QED
    BY <2>1, <2>2 DEF RelayFollows
<1>ReleaseRead. ASSUME NEW r \in Readers, ReleaseRead(r) PROVE RelayFollows'
  BY <1>ReleaseRead DEF ReleaseRead, Answer, TypeOK, RelayFollows, Sent, Serving, Remote,
     ownerVars, readerVars
<1>Release. ASSUME NEW r \in Readers, Release(r) PROVE RelayFollows'
  BY <1>Release DEF Release, Answer, TypeOK, RelayFollows, Sent, Serving, Remote,
     ownerVars, readerVars
<1>ReaderFails. ASSUME NEW r \in Readers, ReaderFails(r) PROVE RelayFollows'
  <2>1. \A q \in Readers : at'[q] = "remote" =>
          at[q] = "remote" /\ got'[q] = got[q] /\ caught'[q] = caught[q]
    BY <1>ReaderFails, EndFacts DEF ReaderFails, Answer, TypeOK
  <2>2. faults' # 0 /\ Sent' \in Int /\ Sent \in Int /\ Sent <= Sent'
    BY <1>ReaderFails, Bounds DEF ReaderFails, Fault, TypeOK, Sent, ownerVars
  <2>3. ASSUME NEW q \in Readers, at'[q] = "remote"
        PROVE  Relayed(got'[q], caught'[q], Sent', faults' = 0, q \notin closed')
    <3>1. Relayed(got[q], caught[q], Sent, faults = 0, q \notin closed)
      BY <2>1, <2>3 DEF RelayFollows
    <3>2. got[q] \in Seq(Int) /\ caught[q] \in Int
      BY QueueTypes
    <3>3. Relayed(got[q], caught[q], Sent', FALSE, q \notin closed')
      BY <2>2, <3>1, <3>2, RelayedLater, Zenon
    <3>4. QED
      BY <2>1, <2>2, <2>3, <3>3
  <2>4. QED
    BY <2>3 DEF RelayFollows
<1>DropEvents. ASSUME NEW r \in Readers, DropEvents(r) PROVE RelayFollows'
  <2>1. PICK k \in 0..(Len(got[r]) - 1) : got' = [got EXCEPT ![r] = SubSeq(@, 1, k)]
    BY <1>DropEvents DEF DropEvents
  <2>2. at' = at /\ caught' = caught /\ Sent' = Sent /\ faults' # 0 /\ at[r] = "remote"
    BY <1>DropEvents, Bounds DEF DropEvents, Fault, Sent, TypeOK, ownerVars, readerVars
  <2>3. /\ \A q \in Readers : q # r => got'[q] = got[q]
        /\ got'[r] = SubSeq(got[r], 1, k)
    BY <2>1 DEF TypeOK
  <2>4. ASSUME NEW q \in Readers, at[q] = "remote"
        PROVE  Relayed(got'[q], caught[q], Sent, FALSE, q \notin closed')
    <3>1. Relayed(got[q], caught[q], Sent, faults = 0, q \notin closed)
      BY <2>4 DEF RelayFollows
    <3>2. got[q] \in Seq(Int) /\ caught[q] \in Int /\ Sent \in Int
      BY QueueTypes
    <3>3. CASE q = r
      <4>1. Relayed(SubSeq(got[r], 1, k), caught[r], Sent, FALSE, r \notin closed')
        BY <3>1, <3>2, <3>3, RelayedPrefix, Zenon
      <4>2. QED
        BY <2>3, <3>3, <4>1
    <3>4. CASE q # r
      <4>1. Sent <= Sent
        BY <3>2
      <4>2. Relayed(got[q], caught[q], Sent, FALSE, q \notin closed')
        BY <3>1, <3>2, <4>1, RelayedLater, Zenon
      <4>3. QED
        BY <2>3, <3>4, <4>2
    <3>5. QED
      BY <3>3, <3>4
  <2>5. QED
    BY <2>2, <2>4 DEF RelayFollows
<1>OwnerCrash. ASSUME OwnerCrash PROVE RelayFollows'
  <2>1. \A q \in Readers : at'[q] = "remote" =>
          at[q] = "remote" /\ got'[q] = got[q] /\ caught'[q] = caught[q]
    BY <1>OwnerCrash, EndFacts DEF OwnerCrash, TypeOK
  <2>2. faults' # 0 /\ Sent' \in Int /\ Sent \in Int /\ Sent <= Sent'
    BY <1>OwnerCrash, Bounds DEF OwnerCrash, Fault, TypeOK, Sent, ownerVars
  <2>3. ASSUME NEW q \in Readers, at'[q] = "remote"
        PROVE  Relayed(got'[q], caught'[q], Sent', faults' = 0, q \notin closed')
    <3>1. Relayed(got[q], caught[q], Sent, faults = 0, q \notin closed)
      BY <2>1, <2>3 DEF RelayFollows
    <3>2. got[q] \in Seq(Int) /\ caught[q] \in Int
      BY QueueTypes
    <3>3. Relayed(got[q], caught[q], Sent', FALSE, q \notin closed')
      BY <2>2, <3>1, <3>2, RelayedLater, Zenon
    <3>4. QED
      BY <2>1, <2>2, <2>3, <3>3
  <2>4. QED
    BY <2>3 DEF RelayFollows
<1>OwnerFails. ASSUME OwnerFails PROVE RelayFollows'
  <2>1. \A q \in Readers : at'[q] = "remote" =>
          at[q] = "remote" /\ got'[q] = got[q] /\ caught'[q] = caught[q]
    BY <1>OwnerFails DEF OwnerFails, readerVars, TypeOK
  <2>2. faults' # 0 /\ Sent' \in Int /\ Sent \in Int /\ Sent <= Sent'
    BY <1>OwnerFails, Bounds DEF OwnerFails, Fault, TypeOK, Sent, ownerVars
  <2>3. ASSUME NEW q \in Readers, at'[q] = "remote"
        PROVE  Relayed(got'[q], caught'[q], Sent', faults' = 0, q \notin closed')
    <3>1. Relayed(got[q], caught[q], Sent, faults = 0, q \notin closed)
      BY <2>1, <2>3 DEF RelayFollows
    <3>2. got[q] \in Seq(Int) /\ caught[q] \in Int
      BY QueueTypes
    <3>3. Relayed(got[q], caught[q], Sent', FALSE, q \notin closed')
      BY <2>2, <3>1, <3>2, RelayedLater, Zenon
    <3>4. QED
      BY <2>1, <2>2, <2>3, <3>3
  <2>4. QED
    BY <2>3 DEF RelayFollows
<1>LeaveUnfinished. ASSUME LeaveUnfinished PROVE RelayFollows'
  <2>1. \A q \in Readers : at'[q] = "remote" =>
          at[q] = "remote" /\ got'[q] = got[q] /\ caught'[q] = caught[q]
    BY <1>LeaveUnfinished DEF LeaveUnfinished, readerVars, TypeOK
  <2>2. faults' # 0 /\ Sent' \in Int /\ Sent \in Int /\ Sent <= Sent'
    BY <1>LeaveUnfinished, Bounds DEF LeaveUnfinished, Fault, TypeOK, Sent, ownerVars
  <2>3. ASSUME NEW q \in Readers, at'[q] = "remote"
        PROVE  Relayed(got'[q], caught'[q], Sent', faults' = 0, q \notin closed')
    <3>1. Relayed(got[q], caught[q], Sent, faults = 0, q \notin closed)
      BY <2>1, <2>3 DEF RelayFollows
    <3>2. got[q] \in Seq(Int) /\ caught[q] \in Int
      BY QueueTypes
    <3>3. Relayed(got[q], caught[q], Sent', FALSE, q \notin closed')
      BY <2>2, <3>1, <3>2, RelayedLater, Zenon
    <3>4. QED
      BY <2>1, <2>2, <2>3, <3>3
  <2>4. QED
    BY <2>3 DEF RelayFollows
<1>Expire. ASSUME Expire PROVE RelayFollows'
  BY <1>Expire DEF Expire, TypeOK, RelayFollows, Sent, Serving, Remote, ownerVars,
     readerVars
<1>Stutter. CASE UNCHANGED vars
  BY <1>Stutter DEF vars, ownerVars, readerVars, TypeOK, RelayFollows, Sent, Serving,
     Remote
<1>QED. QED
  BY <1>Start, <1>StartWrite, <1>Record, <1>MirrorRead, <1>MirrorWrite, <1>Publish,
     <1>Finish, <1>FinishPublish, <1>FinishRead, <1>FinishWrite, <1>ResumeLocal,
     <1>ReadSnapshot, <1>ResumeRemote, <1>Claim, <1>Subscribed, <1>LeaveLocal,
     <1>LeaveRemote, <1>ReleaseRead, <1>Release, <1>ReaderFails, <1>DropEvents,
     <1>OwnerCrash, <1>OwnerFails, <1>LeaveUnfinished, <1>Expire, <1>Stutter DEF Next, OwnerStep, ReaderStep

-----------------------------------------------------------------------------
(* the theorems *)

\* The parts of IInv hold together in every state.
THEOREM InductiveInvariant == Spec => []IInv
<1>1. Init => IInv
  <2> SUFFICES ASSUME Init PROVE IInv
    OBVIOUS
  <2>1. TypeOK
    <3>1. got \in [Readers -> Seq(1..(Events + 1))]
      BY EmptySeq DEF Init
    <3>2. at \in [Readers -> Places] /\ snap \in [Readers -> Snapshots]
      BY DEF Init, Places, Snapshots
    <3>3. /\ pos \in 0..Events /\ faults \in 0..MaxFaults
          /\ caught \in [Readers -> 0..Events]
      BY Bounds DEF Init
    <3>4. owner \in Serving \cup {"absent", "dead"} /\ held \in Snapshots /\ shared \in Snapshots
      BY DEF Init, Snapshots
    <3>5. QED
      BY <3>1, <3>2, <3>3, <3>4 DEF Init, TypeOK, Places
  <2>2. Held /\ NoStreamNoQueue /\ LocalIsCurrent /\ TextIsNotAhead /\ RelayFollows
    BY DEF Init, Held, NoStreamNoQueue, LocalIsCurrent, TextIsNotAhead, RelayFollows
  <2>3. OneLocal
    BY NoneIsNoReader DEF Init, OneLocal
  <2>4. QED
    BY <2>1, <2>2, <2>3 DEF IInv
<1>2. IInv /\ [Next]_vars => IInv'
  BY TypeNext, HeldNext, OneLocalNext, NoStreamNext, LocalNext, TextNext, RelayNext DEF IInv
<1>3. QED
  BY <1>1, <1>2, PTL DEF Spec

\* Every variable keeps its type: no position, catch-up or queued event is beyond
\* the events of the message and its synthetic stop.
THEOREM TypeCorrect == Spec => []TypeOK
<1>1. IInv => TypeOK
  BY DEF IInv
<1>2. QED
  BY <1>1, InductiveInvariant, PTL

\* A client that resumes on the instance of the turn loses nothing and gets nothing
\* twice, however its resume falls between the recording of two events.
THEOREM LocalResumeLosesNothing == Spec => []LocalResumeIsExact
<1>1. IInv => LocalResumeIsExact
  BY DEF IInv, LocalIsCurrent, LocalResumeIsExact
<1>2. QED
  BY <1>1, InductiveInvariant, PTL

\* Whatever is lost or fails, a client that resumes through Redis gets the events in
\* their order, repeats no more than the last of its catch-up, and has a hole only
\* after a fault.
THEOREM RelayStaysInOrder == Spec => []RelayIsConsecutive
<1>1. IInv => RelayIsConsecutive
  BY DEF IInv, RelayFollows, Relayed, RelayIsConsecutive
<1>2. QED
  BY <1>1, InductiveInvariant, PTL

=============================================================================
