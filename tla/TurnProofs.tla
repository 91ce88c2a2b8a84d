------------------------------ MODULE TurnProofs ------------------------------
(***************************************************************************)
(* Machine-checked proofs about module Turn, for any calls, tools and      *)
(* bounds.                                                                 *)
(***************************************************************************)
EXTENDS Integers, Turn, SequenceTheorems, WellFoundedInduction, TLAPS

-----------------------------------------------------------------------------
(* the inductive invariant, part by part *)

\* The segment loop and what it does with a call.
Looping ==
  {"draining", "emitting", "advancing", "requested", "asking", "approved", "invoking",
   "skipping", "complete"}

\* As many rounds are kept as the guards tell apart.
RoundsKept == Len(messages) <= Kept

\* The loop is at a call of the round, or past the last one.
AtIsInside ==
  /\ phase \in {"draining", "emitting"} => at <= upto /\ upto <= Len(calls)
  /\ phase \in {"requested", "asking", "approved", "invoking", "skipping"} => at <= Len(calls)
  /\ phase = "invoking" => upto = at
  /\ phase = "advancing" => at <= Len(calls) + 1
  /\ phase = "complete" => at = Len(calls) + 1

\* Calls are settled up to where the loop is and wait beyond its segment.
StatusesFollow ==
  \A i \in 1..Len(calls) :
    /\ phase \in {"streaming", "judging"} => status[i] = "waiting"
    /\ phase \in Looping /\ i < at => status[i] \in {"done", "skipped"}
    /\ phase \in {"draining", "emitting"} /\ i > upto => status[i] = "waiting"
    /\ phase \in {"advancing", "requested", "asking", "approved", "skipping"} /\ i >= at
       => status[i] = "waiting"
    /\ phase = "invoking" /\ i > at => status[i] = "waiting"
    /\ phase = "draining" /\ i \in at..upto
       => status[i] \in {"running", "done", "thrown"} /\ calls[i] \notin HitlCalls
    /\ phase = "emitting" /\ i \in at..upto => status[i] = "done"
    /\ status[i] = "running"
       => \/ phase = "invoking" /\ i = at
          \/ phase \in {"draining", "failed", "killed"} /\ calls[i] \notin HitlCalls

\* A closed channel means that the batch is settled or rejected.
ChannelTells ==
  phase = "draining" /\ closed => Rejected \/ \A i \in at..upto : status[i] # "running"

\* The answers so far are those of the calls before the one the loop is at.
ResultsSoFar ==
  /\ \A n \in 1..Len(results) : results[n] = n
  /\ phase \in Looping => Len(results) = at - 1
  /\ phase \in {"streaming", "judging"} => results = <<>>

\* The rounds of the streak that are complete.
Repeated == IF phase \in Looping THEN streak - 1 ELSE streak

\* Under the guards the streak counts the last rounds, and the round before them
\* had other calls.
StreakCounts ==
  Guarded /\ phase \notin Over =>
    /\ streak < Threshold
    /\ Repeated \in 0..Len(messages)
    /\ phase \in Looping => previous = calls
    /\ phase \notin Looping /\ messages # <<>> => messages[Len(messages)].uses = previous
    /\ phase \notin Looping /\ messages = <<>> => previous = <<>>
    /\ Repeated < Len(messages)
       => ~SameCalls(messages[Len(messages) - Repeated].uses, previous)

IInv ==
  /\ TypeOK
  /\ RoundsKept
  /\ AtIsInside
  /\ StatusesFollow
  /\ ChannelTells
  /\ ResultsSoFar
  /\ ResultsMatchUses
  /\ StreakCounts
  /\ NoFutileLoop

-----------------------------------------------------------------------------
(* what the steps compute *)

\* The largest element of a set of integers between two bounds is one of them.
LEMMA MaxIsElement ==
  ASSUME NEW a \in Int, NEW b \in Int, NEW S \in SUBSET (a..b), S # {}
  PROVE  Max(S) \in S
<1> DEFINE T == {b - x : x \in S}
<1>1. T \subseteq Nat /\ T # {}
  OBVIOUS
<1>2. PICK t \in T : \A u \in T : ~(<<u, t>> \in OpToRel(<, Nat))
  BY <1>1, NatLessThanWellFounded, WFMin
<1>3. \A u \in T : t <= u
  <2> SUFFICES ASSUME NEW u \in T PROVE t <= u
    OBVIOUS
  <2>1. u \in Nat /\ t \in Nat
    BY <1>1
  <2>2. u < t => <<u, t>> \in OpToRel(<, Nat)
    BY <2>1 DEF OpToRel
  <2>3. ~(u < t)
    BY <1>2, <2>2
  <2>4. QED
    BY <2>1, <2>3
<1>4. PICK x \in S : t = b - x
  OBVIOUS
<1>5. \A y \in S : x >= y
  <2>1. \A y \in S : b - y \in T /\ y \in Int
    OBVIOUS
  <2>2. QED
    BY <1>3, <1>4, <2>1
<1>6. QED
  BY <1>5 DEF Max

\* The kinds that executions go through.
Kinds == {"waiting", "running", "done", "thrown", "skipped"}

\* What the loop does when it takes call i.
Begun(i) ==
  /\ at' = i
  /\ \/ i > Len(calls) /\ phase' = "complete" /\ UNCHANGED <<upto, status, channel>>
     \/ i <= Len(calls) /\ phase' = "requested" /\ UNCHANGED <<upto, status, channel>>
     \/ /\ i <= Len(calls) /\ phase' = "draining" /\ upto' \in i..Len(calls)
        /\ status' \in [1..Len(calls) -> Kinds]
        /\ \A k \in 1..Len(calls) : k \notin i..upto' => status'[k] = status[k]
        /\ \A k \in i..upto' : status'[k] \in {"running", "done"} /\ calls[k] \notin HitlCalls
        /\ buffer' = 0 /\ closed' \in BOOLEAN /\ asleep' \in BOOLEAN
        /\ closed' => \A k \in i..upto' : status'[k] # "running"

\* The lengths of a round.
LEMMA RoundFacts ==
  ASSUME TypeOK
  PROVE  /\ Len(calls) \in Nat /\ Len(calls) <= MaxCalls /\ MaxCalls \in Nat
         /\ calls \in [1..Len(calls) -> Calls] /\ DOMAIN calls = 1..Len(calls)
         /\ status \in [1..Len(calls) -> Kinds] /\ DOMAIN status = 1..Len(calls)
         /\ Len(results) \in Nat /\ results \in [1..Len(results) -> 1..MaxCalls]
         /\ at \in Nat \ {0} /\ upto \in Nat
<1>1. calls \in Seq(Calls) /\ results \in Seq(1..MaxCalls)
  BY DEF TypeOK
<1>2. Len(calls) \in Nat /\ calls \in [1..Len(calls) -> Calls] /\ DOMAIN calls = 1..Len(calls)
  BY <1>1, LenProperties
<1>3. Len(results) \in Nat /\ results \in [1..Len(results) -> 1..MaxCalls]
  BY <1>1, LenProperties
<1>4. QED
  BY <1>2, <1>3, Bounds DEF TypeOK, Kinds

\* The batch that starts at an allow call ends at an allow call, with none of
\* another kind between them.
LEMMA BatchFacts ==
  ASSUME TypeOK, NEW i \in 1..Len(calls), calls[i] \notin HitlCalls
  PROVE  /\ BatchEnd(i) \in i..Len(calls)
         /\ \A k \in i..BatchEnd(i) : calls[k] \notin HitlCalls
<1> DEFINE S == {j \in i..Len(calls) : \A k \in i..j : calls[k] \notin HitlCalls}
<1>1. i \in Int /\ Len(calls) \in Int
  BY RoundFacts
<1>2. S \in SUBSET (i..Len(calls)) /\ S # {} /\ i \in S
  BY <1>1
<1>3. Max(S) \in S
  <2> HIDE DEF S
  <2>1. QED
    BY <1>1, <1>2, MaxIsElement, Zenon
<1>4. QED
  BY <1>3 DEF BatchEnd

\* What taking call i comes to.
LEMMA BeginFacts ==
  ASSUME TypeOK, NEW i \in 1..(Len(calls) + 1), Begin(i)
  PROVE  Begun(i)
<1>1. CASE i <= Len(calls) /\ calls[i] \notin HitlCalls
  <2>1. /\ at' = i /\ phase' = "draining" /\ upto' = BatchEnd(i) /\ buffer' = 0
        /\ status' = [k \in DOMAIN calls |->
             IF k \notin i..upto' THEN status[k]
             ELSE IF calls[k] \in BadCalls THEN "done" ELSE "running"]
        /\ asleep' = \E k \in i..upto' : status'[k] = "running"
        /\ closed' = ~asleep'
    <3>1. ~(i > Len(calls)) /\ ~(calls[i] \in HitlCalls)
      BY <1>1, RoundFacts
    <3>2. QED
      BY <3>1, Zenon DEF Begin
  <2>2. upto' \in i..Len(calls) /\ \A k \in i..upto' : calls[k] \notin HitlCalls
    BY <1>1, <2>1, RoundFacts, BatchFacts
  <2>3. status' \in [1..Len(calls) -> Kinds]
    BY <2>1, RoundFacts DEF Kinds
  <2>4. /\ \A k \in 1..Len(calls) : k \notin i..upto' => status'[k] = status[k]
        /\ \A k \in i..upto' : status'[k] \in {"running", "done"}
    BY <2>1, <2>2, RoundFacts
  <2>5. asleep' \in BOOLEAN /\ closed' \in BOOLEAN
    BY <2>1
  <2>6. closed' => \A k \in i..upto' : status'[k] # "running"
    BY <2>1
  <2>7. QED
    BY <1>1, <2>1, <2>2, <2>3, <2>4, <2>5, <2>6 DEF Begun
<1>2. CASE i > Len(calls) \/ calls[i] \in HitlCalls
  <2>1. ~(i <= Len(calls) /\ calls[i] \notin HitlCalls)
    BY <1>2, RoundFacts
  <2>2. QED
    BY <2>1, Zenon DEF Begin, Begun
<1>3. QED
  BY <1>1, <1>2, RoundFacts

\* A function on the first n numbers is a sequence.
LEMMA FunctionIsSeq ==
  ASSUME NEW n \in Nat, NEW S, NEW f \in [1..n -> S]
  PROVE  f \in Seq(S) /\ Len(f) = n
<1>1. f \in Seq(S)
  <2>1. f = [i \in 1..n |-> f[i]]
    OBVIOUS
  <2>2. [i \in 1..n |-> f[i]] \in Seq(S)
    OBVIOUS
  <2>3. QED
    BY <2>1, <2>2, Zenon
<1>2. DOMAIN f = 1..n /\ DOMAIN f = 1..Len(f) /\ Len(f) \in Nat
  BY <1>1, LenProperties
<1>3. QED
  BY <1>1, <1>2

\* Append to a function on the first n numbers.
LEMMA AppendsOne ==
  ASSUME NEW n \in Nat, NEW S, NEW f \in [1..n -> S], NEW e \in S
  PROVE  /\ Append(f, e) \in [1..(n + 1) -> S]
         /\ \A i \in 1..n : Append(f, e)[i] = f[i]
         /\ Append(f, e)[n + 1] = e
<1>1. f \in Seq(S) /\ Len(f) = n
  BY FunctionIsSeq
<1>2. Append(f, e) \in Seq(S) /\ Len(Append(f, e)) = n + 1
  BY <1>1, AppendProperties
<1>3. Append(f, e) \in [1..(n + 1) -> S]
  BY <1>2, LenProperties
<1>4. QED
  BY <1>1, <1>3, AppendProperties

-----------------------------------------------------------------------------
(* every step keeps the parts *)

\* Every step keeps the types, and no more rounds than the guards tell apart.
LEMMA TypeNext ==
  TypeOK /\ RoundsKept /\ AtIsInside /\ [Next]_vars => (TypeOK /\ RoundsKept)'
<1> SUFFICES ASSUME TypeOK, RoundsKept, AtIsInside, [Next]_vars
             PROVE  (TypeOK /\ RoundsKept)'
  OBVIOUS
<1>StreamText. ASSUME StreamText PROVE (TypeOK /\ RoundsKept)'
  BY <1>StreamText DEF StreamText, TypeOK, RoundsKept, Kept, Guarded, Over, guardVars,
     roundVars, loopVars, channel
<1>StreamToolUse. ASSUME NEW c \in Calls, StreamToolUse(c) PROVE (TypeOK /\ RoundsKept)'
  <2>1. /\ Len(calls) < MaxCalls /\ calls' = Append(calls, c)
        /\ \E s \in {"hidden", "open"} : card' = Append(card, s)
        /\ status' = Append(status, "waiting")
    BY <1>StreamToolUse DEF StreamToolUse
  <2>2. calls \in Seq(Calls)
    BY DEF TypeOK
  <2>3. calls' \in Seq(Calls) /\ Len(calls') = Len(calls) + 1 /\ DOMAIN calls' = 1..(Len(calls) + 1)
    BY <2>1, <2>2, AppendProperties, LenProperties
  <2>4. status' \in [DOMAIN calls' -> Kinds]
    BY <2>1, <2>3, RoundFacts, AppendsOne, Zenon DEF Kinds
  <2>5. card' \in [DOMAIN calls' -> {"hidden", "open", "closed"}]
    <3>1. card \in [1..Len(calls) -> {"hidden", "open", "closed"}]
      BY RoundFacts DEF TypeOK
    <3>2. PICK s \in {"hidden", "open", "closed"} : card' = Append(card, s)
      BY <2>1
    <3>3. QED
      BY <2>3, <3>1, <3>2, RoundFacts, AppendsOne, Zenon
  <2>6. QED
    BY <1>StreamToolUse, <2>1, <2>3, <2>4, <2>5, RoundFacts DEF StreamToolUse, TypeOK, RoundsKept,
       Kept, Guarded, Kinds, guardVars, loopVars, channel
<1>StreamEnd. ASSUME NEW how \in {"judging", "ended", "failed"}, StreamEnd(how) PROVE (TypeOK /\ RoundsKept)'
  BY <1>StreamEnd DEF StreamEnd, TypeOK, RoundsKept, Kept, Guarded, Over, guardVars,
     roundVars, loopVars, channel
<1>Chat. ASSUME Chat PROVE (TypeOK /\ RoundsKept)'
  <2>1. <<>> \in Seq(Calls) /\ <<>> \in Seq(1..MaxCalls) /\ Len(<<>>) = 0 /\ DOMAIN <<>> = {}
    BY EmptySeq
  <2>2. \A S : <<>> \in [{} -> S]
    OBVIOUS
  <2>3. round' \in 0..MaxSteps
    BY <1>Chat, GuardBounds DEF Chat, TypeOK
  <2>4. /\ calls' = <<>> /\ status' = <<>> /\ card' = <<>> /\ results' = <<>>
        /\ phase' = "streaming" /\ reasoned' = FALSE
    BY <1>Chat DEF Chat
  <2>5. calls' \in Seq(Calls) /\ Len(calls') <= MaxCalls /\ results' \in Seq(1..MaxCalls)
    BY <2>1, <2>4, Bounds
  <2>6. status' \in [DOMAIN calls' -> Kinds] /\ card' \in [DOMAIN calls' -> {"hidden", "open", "closed"}]
    BY <2>1, <2>2, <2>4
  <2>7. QED
    BY <1>Chat, <2>3, <2>4, <2>5, <2>6 DEF Kinds, Chat, TypeOK, RoundsKept, Kept, Guarded, Over, channel
<1>StepLimit. ASSUME StepLimit PROVE (TypeOK /\ RoundsKept)'
  BY <1>StepLimit DEF StepLimit, TypeOK, RoundsKept, Kept, Guarded, Over, guardVars,
     roundVars, loopVars, channel
<1>JudgeEnd. ASSUME JudgeEnd PROVE (TypeOK /\ RoundsKept)'
  BY <1>JudgeEnd DEF JudgeEnd, TypeOK, RoundsKept, Kept, Guarded, Over, guardVars,
     roundVars, loopVars, channel
<1>Judge. ASSUME Judge PROVE (TypeOK /\ RoundsKept)'
  <2>1. Begun(1)
    BY <1>Judge, RoundFacts, BeginFacts DEF Judge, AtIsInside
  <2>2. /\ at' \in 1..(MaxCalls + 1) /\ upto' \in 0..MaxCalls
        /\ phase' \in {"complete", "requested", "draining"}
        /\ status' \in [1..Len(calls) -> Kinds]
        /\ buffer' \in 0..MaxProgress /\ closed' \in BOOLEAN /\ asleep' \in BOOLEAN
    BY <1>Judge, <2>1, RoundFacts, Bounds DEF Judge, AtIsInside, Begun, TypeOK, channel
  <2>3. previous' \in Seq(Calls) /\ streak' \in 0..Threshold
    BY <1>Judge, GuardBounds DEF Judge, Refused, NextStreak, TypeOK
  <2>4. QED
    BY <1>Judge, <2>2, <2>3, RoundFacts DEF Judge, TypeOK, RoundsKept, Kept, Guarded, Kinds,
       Over, roundVars
<1>Advance. ASSUME Advance PROVE (TypeOK /\ RoundsKept)'
  <2>1. Begun(at)
    BY <1>Advance, RoundFacts, BeginFacts DEF Advance, AtIsInside
  <2>2. /\ at' \in 1..(MaxCalls + 1) /\ upto' \in 0..MaxCalls
        /\ phase' \in {"complete", "requested", "draining"}
        /\ status' \in [1..Len(calls) -> Kinds]
        /\ buffer' \in 0..MaxProgress /\ closed' \in BOOLEAN /\ asleep' \in BOOLEAN
    BY <1>Advance, <2>1, RoundFacts, Bounds DEF Advance, AtIsInside, Begun, TypeOK, channel
  <2>3. QED
    BY <1>Advance, <2>2, RoundFacts DEF Advance, TypeOK, RoundsKept, Kept, Guarded, Kinds,
       Over, guardVars, roundVars
<1>EmitResult. ASSUME EmitResult PROVE (TypeOK /\ RoundsKept)'
  <2>1. at \in 1..MaxCalls /\ at + 1 \in 1..(MaxCalls + 1)
    BY <1>EmitResult, RoundFacts DEF EmitResult, AtIsInside
  <2>2. results' \in Seq(1..MaxCalls)
    BY <1>EmitResult, <2>1, AppendProperties DEF EmitResult, TypeOK
  <2>3. QED
    BY <1>EmitResult, <2>1, <2>2 DEF EmitResult, Answered, TypeOK, RoundsKept, Kept, Guarded,
       Over, guardVars, roundVars, channel
<1>CompleteRound. ASSUME CompleteRound PROVE (TypeOK /\ RoundsKept)'
  <2> DEFINE R == [uses : Seq(Calls), results : Seq(Nat)]
             all == Append(messages, [uses |-> calls, results |-> results])
  <2>1. messages \in Seq(R) /\ Len(messages) <= Kept /\ Kept \in Nat \ {0} /\ Kept <= Threshold
    BY GuardBounds DEF TypeOK, RoundsKept, Kept
  <2>2. results \in Seq(Nat)
    <3>1. results \in Seq(1..MaxCalls) /\ 1..MaxCalls \subseteq Nat
      BY Bounds DEF TypeOK
    <3>2. QED
      BY <3>1, SeqMonotonic
  <2>3. [uses |-> calls, results |-> results] \in R
    BY <2>2 DEF TypeOK
  <2>4. all \in Seq(R) /\ Len(all) = Len(messages) + 1
    BY <2>1, <2>3, AppendProperties
  <2>5. messages' = IF Len(all) > Kept THEN Tail(all) ELSE all
    BY <1>CompleteRound DEF CompleteRound
  <2>6. messages' \in Seq(R) /\ Len(messages') <= Kept
    <3>1. CASE Len(all) > Kept
      <4>1. Len(messages) \in Nat /\ all # <<>>
        BY <2>1, <2>4, AppendProperties, LenProperties
      <4>2. Tail(all) \in Seq(R) /\ Len(Tail(all)) = Len(all) - 1
        BY <2>4, <4>1, HeadTailProperties
      <4>3. QED
        BY <2>1, <2>4, <2>5, <3>1, <4>1, <4>2
    <3>2. CASE ~(Len(all) > Kept)
      BY <2>1, <2>4, <2>5, <3>2, LenProperties
    <3>3. QED
      BY <3>1, <3>2
  <2>7. Kept' = Kept
    BY <1>CompleteRound DEF CompleteRound, Kept, Guarded, guardVars
  <2>8. Len(messages') <= Threshold
    BY <2>1, <2>6, LenProperties, GuardBounds
  <2>9. QED
    BY <1>CompleteRound, <2>6, <2>7, <2>8 DEF CompleteRound, TypeOK, RoundsKept, Over, guardVars,
       roundVars, channel
<1>Drain. ASSUME Drain PROVE (TypeOK /\ RoundsKept)'
  <2>1. phase' \in {"draining", "failed", "emitting"} /\ asleep' \in BOOLEAN
    BY <1>Drain DEF Drain, TypeOK
  <2>2. buffer' \in 0..MaxProgress
    <3>1. buffer' = buffer \/ (buffer > 0 /\ buffer' = buffer - 1)
      BY <1>Drain DEF Drain
    <3>2. QED
      BY <3>1, Bounds DEF TypeOK
  <2>3. QED
    BY <1>Drain, <2>1, <2>2 DEF Drain, TypeOK, RoundsKept, Kept, Guarded, Over, guardVars, roundVars,
       loopVars
<1>Ask. ASSUME Ask PROVE (TypeOK /\ RoundsKept)'
  BY <1>Ask DEF Ask, TypeOK, RoundsKept, Kept, Guarded, Over, guardVars, roundVars,
     loopVars, channel
<1>Skip. ASSUME Skip PROVE (TypeOK /\ RoundsKept)'
  <2>1. at \in 1..MaxCalls /\ at + 1 \in 1..(MaxCalls + 1)
    BY <1>Skip, RoundFacts DEF Skip, AtIsInside
  <2>2. results' \in Seq(1..MaxCalls)
    BY <1>Skip, <2>1, AppendProperties DEF Skip, TypeOK
  <2>3. QED
    BY <1>Skip, <2>1, <2>2 DEF Skip, TypeOK, RoundsKept, Kept, Guarded, Over, guardVars,
       roundVars, channel
<1>Invoke. ASSUME Invoke PROVE (TypeOK /\ RoundsKept)'
  <2>1. upto' \in 0..MaxCalls /\ phase' \in {"invoking", "emitting"}
    BY <1>Invoke, RoundFacts DEF Invoke, AtIsInside
  <2>2. status' \in [DOMAIN calls -> Kinds]
    BY <1>Invoke, RoundFacts DEF Invoke, Kinds
  <2>3. QED
    BY <1>Invoke, <2>1, <2>2 DEF Invoke, TypeOK, RoundsKept, Kept, Guarded, Kinds, Over, guardVars,
       roundVars, channel
<1>Approved. ASSUME Approved PROVE (TypeOK /\ RoundsKept)'
  BY <1>Approved DEF Approved, TypeOK, RoundsKept, Kept, Guarded, Over, guardVars,
     roundVars, loopVars, channel
<1>Declined. ASSUME Declined PROVE (TypeOK /\ RoundsKept)'
  BY <1>Declined DEF Declined, TypeOK, RoundsKept, Kept, Guarded, Over, guardVars,
     roundVars, loopVars, channel
<1>AskRejected. ASSUME AskRejected PROVE (TypeOK /\ RoundsKept)'
  BY <1>AskRejected DEF AskRejected, TypeOK, RoundsKept, Kept, Guarded, Over, guardVars,
     roundVars, loopVars, channel
<1>Progress. ASSUME NEW i \in 1..MaxCalls, Progress(i) PROVE (TypeOK /\ RoundsKept)'
  <2>1. asleep' = FALSE /\ buffer < MaxProgress /\ buffer' = buffer + 1
    BY <1>Progress DEF Progress
  <2>2. asleep' \in BOOLEAN /\ buffer' \in 0..MaxProgress
    <3>1. buffer \in 0..MaxProgress /\ MaxProgress \in Nat
      BY Bounds DEF TypeOK
    <3>2. buffer' \in 0..MaxProgress
      BY <2>1, <3>1
    <3>3. QED
      BY <2>1, <3>2
  <2>3. QED
    BY <1>Progress, <2>2 DEF Progress, TypeOK, RoundsKept, Kept, Guarded, guardVars, roundVars,
       loopVars
<1>Settle. ASSUME NEW i \in 1..MaxCalls, Settle(i) PROVE (TypeOK /\ RoundsKept)'
  BY <1>Settle DEF Settle, Batch, TypeOK, RoundsKept, Kept, Guarded, Over, guardVars,
     roundVars, loopVars, channel
<1>Throw. ASSUME NEW i \in 1..MaxCalls, Throw(i) PROVE (TypeOK /\ RoundsKept)'
  BY <1>Throw DEF Throw, Batch, TypeOK, RoundsKept, Kept, Guarded, Over, guardVars,
     roundVars, loopVars, channel
<1>Orphaned. ASSUME NEW i \in 1..MaxCalls, NEW end \in {"done", "thrown"}, Orphaned(i, end) PROVE (TypeOK /\ RoundsKept)'
  BY <1>Orphaned DEF Orphaned, TypeOK, RoundsKept, Kept, Guarded, Over, guardVars,
     roundVars, loopVars, channel
<1>Invoked. ASSUME NEW end \in {"done", "thrown"}, Invoked(end) PROVE (TypeOK /\ RoundsKept)'
  BY <1>Invoked DEF Invoked, TypeOK, RoundsKept, Kept, Guarded, Over, guardVars,
     roundVars, loopVars, channel
<1>Abort. ASSUME Abort PROVE (TypeOK /\ RoundsKept)'
  BY <1>Abort DEF Abort, TypeOK, RoundsKept, Kept, Guarded, Over, guardVars, roundVars,
     loopVars, channel
<1>ConsumerFails. ASSUME ConsumerFails PROVE (TypeOK /\ RoundsKept)'
  BY <1>ConsumerFails DEF ConsumerFails, TypeOK, RoundsKept, Kept, Guarded, Over,
     guardVars, roundVars, loopVars, channel
<1>Stutter. CASE UNCHANGED vars
  BY <1>Stutter DEF vars, guardVars, roundVars, loopVars, channel, TypeOK, RoundsKept,
     Kept, Guarded, Over
<1>QED. QED
  BY <1>StreamText, <1>StreamToolUse, <1>StreamEnd, <1>Chat, <1>StepLimit, <1>JudgeEnd,
     <1>Judge, <1>Advance, <1>EmitResult, <1>CompleteRound, <1>Drain, <1>Ask, <1>Skip,
     <1>Invoke, <1>Approved, <1>Declined, <1>AskRejected, <1>Progress, <1>Settle,
     <1>Throw, <1>Orphaned, <1>Invoked, <1>Abort, <1>ConsumerFails, <1>Stutter DEF Next,
     StreamStep, StreamEnds, LoopStep, Decide, ToolEnds, BatchToolEnds, HitlToolEnds

\* The loop stays inside the round.
LEMMA AtNext ==
  TypeOK /\ AtIsInside /\ [Next]_vars => AtIsInside'
<1> SUFFICES ASSUME TypeOK, AtIsInside, [Next]_vars PROVE AtIsInside'
  OBVIOUS
<1>StreamText. ASSUME StreamText PROVE AtIsInside'
  BY <1>StreamText, RoundFacts DEF StreamText, AtIsInside, Over, guardVars, roundVars,
     loopVars, channel
<1>StreamToolUse. ASSUME NEW c \in Calls, StreamToolUse(c) PROVE AtIsInside'
  BY <1>StreamToolUse, RoundFacts DEF StreamToolUse, AtIsInside, Over, guardVars,
     roundVars, loopVars, channel
<1>StreamEnd. ASSUME NEW how \in {"judging", "ended", "failed"}, StreamEnd(how) PROVE AtIsInside'
  BY <1>StreamEnd, RoundFacts DEF StreamEnd, AtIsInside, Over, guardVars, roundVars,
     loopVars, channel
<1>Chat. ASSUME Chat PROVE AtIsInside'
  BY <1>Chat, RoundFacts DEF Chat, AtIsInside, Over, guardVars, roundVars, loopVars,
     channel
<1>StepLimit. ASSUME StepLimit PROVE AtIsInside'
  BY <1>StepLimit, RoundFacts DEF StepLimit, AtIsInside, Over, guardVars, roundVars,
     loopVars, channel
<1>JudgeEnd. ASSUME JudgeEnd PROVE AtIsInside'
  BY <1>JudgeEnd, RoundFacts DEF JudgeEnd, AtIsInside, Over, guardVars, roundVars,
     loopVars, channel
<1>Judge. ASSUME Judge PROVE AtIsInside'
  <2>1. Begun(1) /\ calls' = calls /\ results' = results
    BY <1>Judge, RoundFacts, BeginFacts DEF Judge, AtIsInside, roundVars
  <2>2. QED
    BY <1>Judge, <2>1, RoundFacts DEF Judge, AtIsInside, Begun, channel
<1>Advance. ASSUME Advance PROVE AtIsInside'
  <2>1. Begun(at) /\ calls' = calls /\ results' = results
    BY <1>Advance, RoundFacts, BeginFacts DEF Advance, AtIsInside, roundVars
  <2>2. QED
    BY <1>Advance, <2>1, RoundFacts DEF Advance, AtIsInside, Begun, channel
<1>EmitResult. ASSUME EmitResult PROVE AtIsInside'
  BY <1>EmitResult, RoundFacts DEF EmitResult, Answered, AtIsInside, Over, guardVars,
     roundVars, loopVars, channel
<1>CompleteRound. ASSUME CompleteRound PROVE AtIsInside'
  BY <1>CompleteRound, RoundFacts DEF CompleteRound, AtIsInside, Over, guardVars,
     roundVars, loopVars, channel
<1>Drain. ASSUME Drain PROVE AtIsInside'
  BY <1>Drain, RoundFacts DEF Drain, AtIsInside, Over, guardVars, roundVars, loopVars,
     channel
<1>Ask. ASSUME Ask PROVE AtIsInside'
  BY <1>Ask, RoundFacts DEF Ask, AtIsInside, Over, guardVars, roundVars, loopVars,
     channel
<1>Skip. ASSUME Skip PROVE AtIsInside'
  BY <1>Skip, RoundFacts DEF Skip, AtIsInside, Over, guardVars, roundVars, loopVars,
     channel
<1>Invoke. ASSUME Invoke PROVE AtIsInside'
  BY <1>Invoke, RoundFacts DEF Invoke, AtIsInside, Over, guardVars, roundVars, loopVars,
     channel
<1>Approved. ASSUME Approved PROVE AtIsInside'
  BY <1>Approved, RoundFacts DEF Approved, AtIsInside, Over, guardVars, roundVars,
     loopVars, channel
<1>Declined. ASSUME Declined PROVE AtIsInside'
  BY <1>Declined, RoundFacts DEF Declined, AtIsInside, Over, guardVars, roundVars,
     loopVars, channel
<1>AskRejected. ASSUME AskRejected PROVE AtIsInside'
  BY <1>AskRejected, RoundFacts DEF AskRejected, AtIsInside, Over, guardVars, roundVars,
     loopVars, channel
<1>Progress. ASSUME NEW i \in 1..MaxCalls, Progress(i) PROVE AtIsInside'
  BY <1>Progress, RoundFacts DEF Progress, Batch, AtIsInside, Over, guardVars, roundVars,
     loopVars, channel
<1>Settle. ASSUME NEW i \in 1..MaxCalls, Settle(i) PROVE AtIsInside'
  BY <1>Settle, RoundFacts DEF Settle, Batch, AtIsInside, Over, guardVars, roundVars,
     loopVars, channel
<1>Throw. ASSUME NEW i \in 1..MaxCalls, Throw(i) PROVE AtIsInside'
  BY <1>Throw, RoundFacts DEF Throw, Batch, AtIsInside, Over, guardVars, roundVars,
     loopVars, channel
<1>Orphaned. ASSUME NEW i \in 1..MaxCalls, NEW end \in {"done", "thrown"}, Orphaned(i, end) PROVE AtIsInside'
  BY <1>Orphaned, RoundFacts DEF Orphaned, AtIsInside, Over, guardVars, roundVars,
     loopVars, channel
<1>Invoked. ASSUME NEW end \in {"done", "thrown"}, Invoked(end) PROVE AtIsInside'
  BY <1>Invoked, RoundFacts DEF Invoked, AtIsInside, Over, guardVars, roundVars,
     loopVars, channel
<1>Abort. ASSUME Abort PROVE AtIsInside'
  BY <1>Abort, RoundFacts DEF Abort, AtIsInside, Over, guardVars, roundVars, loopVars,
     channel
<1>ConsumerFails. ASSUME ConsumerFails PROVE AtIsInside'
  BY <1>ConsumerFails, RoundFacts DEF ConsumerFails, AtIsInside, Over, guardVars,
     roundVars, loopVars, channel
<1>Stutter. CASE UNCHANGED vars
  BY <1>Stutter DEF vars, guardVars, roundVars, loopVars, channel, AtIsInside, Over
<1>QED. QED
  BY <1>StreamText, <1>StreamToolUse, <1>StreamEnd, <1>Chat, <1>StepLimit, <1>JudgeEnd,
     <1>Judge, <1>Advance, <1>EmitResult, <1>CompleteRound, <1>Drain, <1>Ask, <1>Skip,
     <1>Invoke, <1>Approved, <1>Declined, <1>AskRejected, <1>Progress, <1>Settle,
     <1>Throw, <1>Orphaned, <1>Invoked, <1>Abort, <1>ConsumerFails, <1>Stutter DEF Next,
     StreamStep, StreamEnds, LoopStep, Decide, ToolEnds, BatchToolEnds, HitlToolEnds

\* Calls settle in the order of their segments.
LEMMA StatusNext ==
  TypeOK /\ AtIsInside /\ StatusesFollow /\ ChannelTells /\ [Next]_vars =>
     StatusesFollow'
<1> SUFFICES ASSUME TypeOK, AtIsInside, StatusesFollow, ChannelTells, [Next]_vars PROVE
   StatusesFollow'
  OBVIOUS
<1>StreamText. ASSUME StreamText PROVE StatusesFollow'
  BY <1>StreamText, RoundFacts DEF StreamText, AtIsInside, StatusesFollow, Looping, Over,
     guardVars, roundVars, loopVars, channel
<1>StreamToolUse. ASSUME NEW c \in Calls, StreamToolUse(c) PROVE StatusesFollow'
  BY <1>StreamToolUse, RoundFacts DEF StreamToolUse, AtIsInside, StatusesFollow, Looping,
     Over, guardVars, roundVars, loopVars, channel
<1>StreamEnd. ASSUME NEW how \in {"judging", "ended", "failed"}, StreamEnd(how) PROVE StatusesFollow'
  BY <1>StreamEnd, RoundFacts DEF StreamEnd, AtIsInside, StatusesFollow, Looping, Over,
     guardVars, roundVars, loopVars, channel
<1>Chat. ASSUME Chat PROVE StatusesFollow'
  BY <1>Chat, RoundFacts DEF Chat, AtIsInside, StatusesFollow, Looping, Over, guardVars,
     roundVars, loopVars, channel
<1>StepLimit. ASSUME StepLimit PROVE StatusesFollow'
  BY <1>StepLimit, RoundFacts DEF StepLimit, AtIsInside, StatusesFollow, Looping, Over,
     guardVars, roundVars, loopVars, channel
<1>JudgeEnd. ASSUME JudgeEnd PROVE StatusesFollow'
  BY <1>JudgeEnd, RoundFacts DEF JudgeEnd, AtIsInside, StatusesFollow, Looping, Over,
     guardVars, roundVars, loopVars, channel
<1>Judge. ASSUME Judge PROVE StatusesFollow'
  <2>1. Begun(1) /\ calls' = calls /\ results' = results
    BY <1>Judge, RoundFacts, BeginFacts DEF Judge, AtIsInside, roundVars
  <2>2. QED
    BY <1>Judge, <2>1, RoundFacts DEF Judge, AtIsInside, StatusesFollow, Looping, Begun, channel
<1>Advance. ASSUME Advance PROVE StatusesFollow'
  <2>1. Begun(at) /\ calls' = calls /\ results' = results
    BY <1>Advance, RoundFacts, BeginFacts DEF Advance, AtIsInside, roundVars
  <2>2. QED
    BY <1>Advance, <2>1, RoundFacts DEF Advance, AtIsInside, StatusesFollow, Looping, Begun, channel
<1>EmitResult. ASSUME EmitResult PROVE StatusesFollow'
  BY <1>EmitResult, RoundFacts DEF EmitResult, Answered, AtIsInside, StatusesFollow,
     Looping, Over, guardVars, roundVars, loopVars, channel
<1>CompleteRound. ASSUME CompleteRound PROVE StatusesFollow'
  BY <1>CompleteRound, RoundFacts DEF CompleteRound, AtIsInside, StatusesFollow, Looping,
     Over, guardVars, roundVars, loopVars, channel
<1>Drain. ASSUME Drain PROVE StatusesFollow'
  <2>1. CASE phase' = "emitting"
    <3>1. closed /\ ~Rejected /\ phase = "draining" /\ UNCHANGED <<calls, status, at, upto>>
      BY <1>Drain, <2>1 DEF Drain, Rejected, roundVars, loopVars
    <3>2. \A i \in at..upto : status[i] = "done"
      <4>1. at <= upto /\ upto <= Len(calls)
        BY <3>1 DEF AtIsInside
      <4>2. \A i \in at..upto : status[i] # "running" /\ status[i] # "thrown" /\ i \in 1..Len(calls)
        BY <3>1, <4>1, RoundFacts DEF ChannelTells, Rejected
      <4>3. QED
        BY <3>1, <4>2 DEF StatusesFollow
    <3>3. QED
      BY <2>1, <3>1, <3>2, RoundFacts DEF StatusesFollow, Looping
  <2>2. CASE phase' # "emitting"
    <3>1. /\ phase = "draining" /\ UNCHANGED <<calls, status, at, upto>>
          /\ phase' = phase \/ phase' = "failed"
      BY <1>Drain, <2>2 DEF Drain, roundVars, loopVars
    <3>2. QED
      BY <3>1 DEF StatusesFollow, Looping
  <2>3. QED
    BY <2>1, <2>2
<1>Ask. ASSUME Ask PROVE StatusesFollow'
  BY <1>Ask, RoundFacts DEF Ask, AtIsInside, StatusesFollow, Looping, Over, guardVars,
     roundVars, loopVars, channel
<1>Skip. ASSUME Skip PROVE StatusesFollow'
  BY <1>Skip, RoundFacts DEF Skip, AtIsInside, StatusesFollow, Looping, Over, guardVars,
     roundVars, loopVars, channel
<1>Invoke. ASSUME Invoke PROVE StatusesFollow'
  BY <1>Invoke, RoundFacts DEF Invoke, AtIsInside, StatusesFollow, Looping, Over,
     guardVars, roundVars, loopVars, channel
<1>Approved. ASSUME Approved PROVE StatusesFollow'
  BY <1>Approved, RoundFacts DEF Approved, AtIsInside, StatusesFollow, Looping, Over,
     guardVars, roundVars, loopVars, channel
<1>Declined. ASSUME Declined PROVE StatusesFollow'
  BY <1>Declined, RoundFacts DEF Declined, AtIsInside, StatusesFollow, Looping, Over,
     guardVars, roundVars, loopVars, channel
<1>AskRejected. ASSUME AskRejected PROVE StatusesFollow'
  BY <1>AskRejected, RoundFacts DEF AskRejected, AtIsInside, StatusesFollow, Looping,
     Over, guardVars, roundVars, loopVars, channel
<1>Progress. ASSUME NEW i \in 1..MaxCalls, Progress(i) PROVE StatusesFollow'
  BY <1>Progress, RoundFacts DEF Progress, Batch, AtIsInside, StatusesFollow, Looping,
     Over, guardVars, roundVars, loopVars, channel
<1>Settle. ASSUME NEW i \in 1..MaxCalls, Settle(i) PROVE StatusesFollow'
  BY <1>Settle, RoundFacts DEF Settle, Batch, AtIsInside, StatusesFollow, Looping, Over,
     guardVars, roundVars, loopVars, channel
<1>Throw. ASSUME NEW i \in 1..MaxCalls, Throw(i) PROVE StatusesFollow'
  BY <1>Throw, RoundFacts DEF Throw, Batch, AtIsInside, StatusesFollow, Looping, Over,
     guardVars, roundVars, loopVars, channel
<1>Orphaned. ASSUME NEW i \in 1..MaxCalls, NEW end \in {"done", "thrown"}, Orphaned(i, end) PROVE StatusesFollow'
  BY <1>Orphaned, RoundFacts DEF Orphaned, AtIsInside, StatusesFollow, Looping, Over,
     guardVars, roundVars, loopVars, channel
<1>Invoked. ASSUME NEW end \in {"done", "thrown"}, Invoked(end) PROVE StatusesFollow'
  BY <1>Invoked, RoundFacts DEF Invoked, AtIsInside, StatusesFollow, Looping, Over,
     guardVars, roundVars, loopVars, channel
<1>Abort. ASSUME Abort PROVE StatusesFollow'
  BY <1>Abort, RoundFacts DEF Abort, AtIsInside, StatusesFollow, Looping, Over,
     guardVars, roundVars, loopVars, channel
<1>ConsumerFails. ASSUME ConsumerFails PROVE StatusesFollow'
  BY <1>ConsumerFails, RoundFacts DEF ConsumerFails, AtIsInside, StatusesFollow, Looping,
     Over, guardVars, roundVars, loopVars, channel
<1>Stutter. CASE UNCHANGED vars
  BY <1>Stutter DEF vars, guardVars, roundVars, loopVars, channel, AtIsInside,
     StatusesFollow, Looping, Over
<1>QED. QED
  BY <1>StreamText, <1>StreamToolUse, <1>StreamEnd, <1>Chat, <1>StepLimit, <1>JudgeEnd,
     <1>Judge, <1>Advance, <1>EmitResult, <1>CompleteRound, <1>Drain, <1>Ask, <1>Skip,
     <1>Invoke, <1>Approved, <1>Declined, <1>AskRejected, <1>Progress, <1>Settle,
     <1>Throw, <1>Orphaned, <1>Invoked, <1>Abort, <1>ConsumerFails, <1>Stutter DEF Next,
     StreamStep, StreamEnds, LoopStep, Decide, ToolEnds, BatchToolEnds, HitlToolEnds

\* A closed channel stays the sign that the batch is settled.
LEMMA ChannelNext ==
  TypeOK /\ AtIsInside /\ ChannelTells /\ [Next]_vars => ChannelTells'
<1> SUFFICES ASSUME TypeOK, AtIsInside, ChannelTells, [Next]_vars PROVE ChannelTells'
  OBVIOUS
<1>StreamText. ASSUME StreamText PROVE ChannelTells'
  BY <1>StreamText, RoundFacts DEF StreamText, AtIsInside, ChannelTells, Rejected, Over,
     guardVars, roundVars, loopVars, channel
<1>StreamToolUse. ASSUME NEW c \in Calls, StreamToolUse(c) PROVE ChannelTells'
  BY <1>StreamToolUse, RoundFacts DEF StreamToolUse, AtIsInside, ChannelTells, Rejected,
     Over, guardVars, roundVars, loopVars, channel
<1>StreamEnd. ASSUME NEW how \in {"judging", "ended", "failed"}, StreamEnd(how) PROVE ChannelTells'
  BY <1>StreamEnd, RoundFacts DEF StreamEnd, AtIsInside, ChannelTells, Rejected, Over,
     guardVars, roundVars, loopVars, channel
<1>Chat. ASSUME Chat PROVE ChannelTells'
  BY <1>Chat, RoundFacts DEF Chat, AtIsInside, ChannelTells, Rejected, Over, guardVars,
     roundVars, loopVars, channel
<1>StepLimit. ASSUME StepLimit PROVE ChannelTells'
  BY <1>StepLimit, RoundFacts DEF StepLimit, AtIsInside, ChannelTells, Rejected, Over,
     guardVars, roundVars, loopVars, channel
<1>JudgeEnd. ASSUME JudgeEnd PROVE ChannelTells'
  BY <1>JudgeEnd, RoundFacts DEF JudgeEnd, AtIsInside, ChannelTells, Rejected, Over,
     guardVars, roundVars, loopVars, channel
<1>Judge. ASSUME Judge PROVE ChannelTells'
  <2>1. Begun(1) /\ calls' = calls /\ results' = results /\ messages' = messages
    BY <1>Judge, RoundFacts, BeginFacts DEF Judge, AtIsInside, roundVars
  <2>2. QED
    BY <1>Judge, <2>1, RoundFacts DEF Judge, AtIsInside, ChannelTells, Rejected, Begun, channel
<1>Advance. ASSUME Advance PROVE ChannelTells'
  <2>1. Begun(at) /\ calls' = calls /\ results' = results /\ messages' = messages
    BY <1>Advance, RoundFacts, BeginFacts DEF Advance, AtIsInside, roundVars
  <2>2. QED
    BY <1>Advance, <2>1, RoundFacts DEF Advance, AtIsInside, ChannelTells, Rejected, Begun, channel
<1>EmitResult. ASSUME EmitResult PROVE ChannelTells'
  BY <1>EmitResult, RoundFacts DEF EmitResult, Answered, AtIsInside, ChannelTells,
     Rejected, Over, guardVars, roundVars, loopVars, channel
<1>CompleteRound. ASSUME CompleteRound PROVE ChannelTells'
  BY <1>CompleteRound, RoundFacts DEF CompleteRound, AtIsInside, ChannelTells, Rejected,
     Over, guardVars, roundVars, loopVars, channel
<1>Drain. ASSUME Drain PROVE ChannelTells'
  BY <1>Drain, RoundFacts DEF Drain, AtIsInside, ChannelTells, Rejected, Over, guardVars,
     roundVars, loopVars, channel
<1>Ask. ASSUME Ask PROVE ChannelTells'
  BY <1>Ask, RoundFacts DEF Ask, AtIsInside, ChannelTells, Rejected, Over, guardVars,
     roundVars, loopVars, channel
<1>Skip. ASSUME Skip PROVE ChannelTells'
  BY <1>Skip, RoundFacts DEF Skip, AtIsInside, ChannelTells, Rejected, Over, guardVars,
     roundVars, loopVars, channel
<1>Invoke. ASSUME Invoke PROVE ChannelTells'
  BY <1>Invoke, RoundFacts DEF Invoke, AtIsInside, ChannelTells, Rejected, Over,
     guardVars, roundVars, loopVars, channel
<1>Approved. ASSUME Approved PROVE ChannelTells'
  BY <1>Approved, RoundFacts DEF Approved, AtIsInside, ChannelTells, Rejected, Over,
     guardVars, roundVars, loopVars, channel
<1>Declined. ASSUME Declined PROVE ChannelTells'
  BY <1>Declined, RoundFacts DEF Declined, AtIsInside, ChannelTells, Rejected, Over,
     guardVars, roundVars, loopVars, channel
<1>AskRejected. ASSUME AskRejected PROVE ChannelTells'
  BY <1>AskRejected, RoundFacts DEF AskRejected, AtIsInside, ChannelTells, Rejected,
     Over, guardVars, roundVars, loopVars, channel
<1>Progress. ASSUME NEW i \in 1..MaxCalls, Progress(i) PROVE ChannelTells'
  BY <1>Progress, RoundFacts DEF Progress, Batch, AtIsInside, ChannelTells, Rejected,
     Over, guardVars, roundVars, loopVars, channel
<1>Settle. ASSUME NEW i \in 1..MaxCalls, Settle(i) PROVE ChannelTells'
  <2>1. /\ i \in at..upto /\ status[i] = "running" /\ phase = "draining"
        /\ status' = [status EXCEPT ![i] = "done"] /\ at' = at /\ upto' = upto
        /\ closed' = (closed \/ \A k \in (at..upto) \ {i} : status[k] # "running")
    BY <1>Settle DEF Settle, Batch, loopVars
  <2>2. i \in 1..Len(calls)
    BY <2>1, RoundFacts DEF AtIsInside
  <2>3. DOMAIN status' = DOMAIN status /\ \A k \in DOMAIN status : status'[k] = IF k = i THEN "done" ELSE status[k]
    BY <2>1, <2>2, RoundFacts
  <2>4. CASE closed
    <3>1. PICK k \in DOMAIN status : status[k] = "thrown"
      BY <2>1, <2>4 DEF ChannelTells, Rejected
    <3>2. status'[k] = "thrown" /\ k \in DOMAIN status'
      BY <2>1, <2>3, <3>1
    <3>3. QED
      BY <3>2 DEF ChannelTells, Rejected
  <2>5. CASE ~closed
    <3>1. ASSUME closed', NEW k \in at..upto PROVE status'[k] # "running"
      <4>1. k \in DOMAIN status
        BY <2>1, <3>1, RoundFacts DEF AtIsInside
      <4>2. k # i => status[k] # "running"
        BY <2>1, <2>5, <3>1, Zenon
      <4>3. QED
        BY <2>3, <4>1, <4>2
    <3>2. QED
      BY <2>1, <3>1 DEF ChannelTells
  <2>6. QED
    BY <2>4, <2>5
<1>Throw. ASSUME NEW i \in 1..MaxCalls, Throw(i) PROVE ChannelTells'
  <2>1. /\ i \in at..upto /\ phase = "draining"
        /\ status' = [status EXCEPT ![i] = "thrown"]
    BY <1>Throw DEF Throw, Batch
  <2>2. i \in 1..Len(calls)
    BY <2>1, RoundFacts DEF AtIsInside
  <2>3. i \in DOMAIN status' /\ status'[i] = "thrown"
    BY <2>1, <2>2, RoundFacts
  <2>4. QED
    BY <2>3 DEF ChannelTells, Rejected
<1>Orphaned. ASSUME NEW i \in 1..MaxCalls, NEW end \in {"done", "thrown"}, Orphaned(i, end) PROVE ChannelTells'
  BY <1>Orphaned, RoundFacts DEF Orphaned, AtIsInside, ChannelTells, Rejected, Over,
     guardVars, roundVars, loopVars, channel
<1>Invoked. ASSUME NEW end \in {"done", "thrown"}, Invoked(end) PROVE ChannelTells'
  BY <1>Invoked, RoundFacts DEF Invoked, AtIsInside, ChannelTells, Rejected, Over,
     guardVars, roundVars, loopVars, channel
<1>Abort. ASSUME Abort PROVE ChannelTells'
  BY <1>Abort, RoundFacts DEF Abort, AtIsInside, ChannelTells, Rejected, Over, guardVars,
     roundVars, loopVars, channel
<1>ConsumerFails. ASSUME ConsumerFails PROVE ChannelTells'
  BY <1>ConsumerFails, RoundFacts DEF ConsumerFails, AtIsInside, ChannelTells, Rejected,
     Over, guardVars, roundVars, loopVars, channel
<1>Stutter. CASE UNCHANGED vars
  BY <1>Stutter DEF vars, guardVars, roundVars, loopVars, channel, AtIsInside,
     ChannelTells, Rejected, Over
<1>QED. QED
  BY <1>StreamText, <1>StreamToolUse, <1>StreamEnd, <1>Chat, <1>StepLimit, <1>JudgeEnd,
     <1>Judge, <1>Advance, <1>EmitResult, <1>CompleteRound, <1>Drain, <1>Ask, <1>Skip,
     <1>Invoke, <1>Approved, <1>Declined, <1>AskRejected, <1>Progress, <1>Settle,
     <1>Throw, <1>Orphaned, <1>Invoked, <1>Abort, <1>ConsumerFails, <1>Stutter DEF Next,
     StreamStep, StreamEnds, LoopStep, Decide, ToolEnds, BatchToolEnds, HitlToolEnds

\* Answers are given in the order of the calls.
LEMMA ResultsNext ==
  TypeOK /\ AtIsInside /\ ResultsSoFar /\ [Next]_vars => ResultsSoFar'
<1> SUFFICES ASSUME TypeOK, AtIsInside, ResultsSoFar, [Next]_vars PROVE ResultsSoFar'
  OBVIOUS
<1>StreamText. ASSUME StreamText PROVE ResultsSoFar'
  BY <1>StreamText, RoundFacts DEF StreamText, AtIsInside, ResultsSoFar, Looping, Over,
     guardVars, roundVars, loopVars, channel
<1>StreamToolUse. ASSUME NEW c \in Calls, StreamToolUse(c) PROVE ResultsSoFar'
  BY <1>StreamToolUse, RoundFacts DEF StreamToolUse, AtIsInside, ResultsSoFar, Looping,
     Over, guardVars, roundVars, loopVars, channel
<1>StreamEnd. ASSUME NEW how \in {"judging", "ended", "failed"}, StreamEnd(how) PROVE ResultsSoFar'
  BY <1>StreamEnd, RoundFacts DEF StreamEnd, AtIsInside, ResultsSoFar, Looping, Over,
     guardVars, roundVars, loopVars, channel
<1>Chat. ASSUME Chat PROVE ResultsSoFar'
  BY <1>Chat, RoundFacts DEF Chat, AtIsInside, ResultsSoFar, Looping, Over, guardVars,
     roundVars, loopVars, channel
<1>StepLimit. ASSUME StepLimit PROVE ResultsSoFar'
  BY <1>StepLimit, RoundFacts DEF StepLimit, AtIsInside, ResultsSoFar, Looping, Over,
     guardVars, roundVars, loopVars, channel
<1>JudgeEnd. ASSUME JudgeEnd PROVE ResultsSoFar'
  BY <1>JudgeEnd, RoundFacts DEF JudgeEnd, AtIsInside, ResultsSoFar, Looping, Over,
     guardVars, roundVars, loopVars, channel
<1>Judge. ASSUME Judge PROVE ResultsSoFar'
  <2>1. Begun(1) /\ calls' = calls /\ results' = results /\ messages' = messages
    BY <1>Judge, RoundFacts, BeginFacts DEF Judge, AtIsInside, roundVars
  <2>2. QED
    BY <1>Judge, <2>1, RoundFacts DEF Judge, AtIsInside, ResultsSoFar, Looping, Begun, channel
<1>Advance. ASSUME Advance PROVE ResultsSoFar'
  <2>1. Begun(at) /\ calls' = calls /\ results' = results /\ messages' = messages
    BY <1>Advance, RoundFacts, BeginFacts DEF Advance, AtIsInside, roundVars
  <2>2. QED
    BY <1>Advance, <2>1, RoundFacts DEF Advance, AtIsInside, ResultsSoFar, Looping, Begun, channel
<1>EmitResult. ASSUME EmitResult PROVE ResultsSoFar'
  <2>1. at \in 1..MaxCalls /\ Len(results) = at - 1
    BY <1>EmitResult, RoundFacts DEF EmitResult, AtIsInside, ResultsSoFar, Looping
  <2>2. /\ Len(results') = at /\ results'[at] = at
        /\ \A n \in 1..(at - 1) : results'[n] = results[n]
    <3>1. results \in Seq(1..MaxCalls) /\ results' = Append(results, at)
      BY <1>EmitResult DEF EmitResult, TypeOK
    <3>2. QED
      BY <2>1, <3>1, AppendProperties
  <2>3. \A n \in 1..Len(results') : results'[n] = n
    BY <2>1, <2>2 DEF ResultsSoFar
  <2>4. QED
    BY <1>EmitResult, <2>1, <2>2, <2>3 DEF EmitResult, ResultsSoFar, Looping
<1>CompleteRound. ASSUME CompleteRound PROVE ResultsSoFar'
  BY <1>CompleteRound, RoundFacts DEF CompleteRound, AtIsInside, ResultsSoFar, Looping,
     Over, guardVars, roundVars, loopVars, channel
<1>Drain. ASSUME Drain PROVE ResultsSoFar'
  BY <1>Drain, RoundFacts DEF Drain, AtIsInside, ResultsSoFar, Looping, Over, guardVars,
     roundVars, loopVars, channel
<1>Ask. ASSUME Ask PROVE ResultsSoFar'
  BY <1>Ask, RoundFacts DEF Ask, AtIsInside, ResultsSoFar, Looping, Over, guardVars,
     roundVars, loopVars, channel
<1>Skip. ASSUME Skip PROVE ResultsSoFar'
  <2>1. at \in 1..MaxCalls /\ Len(results) = at - 1
    BY <1>Skip, RoundFacts DEF Skip, AtIsInside, ResultsSoFar, Looping
  <2>2. /\ Len(results') = at /\ results'[at] = at
        /\ \A n \in 1..(at - 1) : results'[n] = results[n]
    <3>1. results \in Seq(1..MaxCalls) /\ results' = Append(results, at)
      BY <1>Skip DEF Skip, TypeOK
    <3>2. QED
      BY <2>1, <3>1, AppendProperties
  <2>3. \A n \in 1..Len(results') : results'[n] = n
    BY <2>1, <2>2 DEF ResultsSoFar
  <2>4. QED
    BY <1>Skip, <2>1, <2>2, <2>3 DEF Skip, ResultsSoFar, Looping
<1>Invoke. ASSUME Invoke PROVE ResultsSoFar'
  BY <1>Invoke, RoundFacts DEF Invoke, AtIsInside, ResultsSoFar, Looping, Over,
     guardVars, roundVars, loopVars, channel
<1>Approved. ASSUME Approved PROVE ResultsSoFar'
  BY <1>Approved, RoundFacts DEF Approved, AtIsInside, ResultsSoFar, Looping, Over,
     guardVars, roundVars, loopVars, channel
<1>Declined. ASSUME Declined PROVE ResultsSoFar'
  BY <1>Declined, RoundFacts DEF Declined, AtIsInside, ResultsSoFar, Looping, Over,
     guardVars, roundVars, loopVars, channel
<1>AskRejected. ASSUME AskRejected PROVE ResultsSoFar'
  BY <1>AskRejected, RoundFacts DEF AskRejected, AtIsInside, ResultsSoFar, Looping, Over,
     guardVars, roundVars, loopVars, channel
<1>Progress. ASSUME NEW i \in 1..MaxCalls, Progress(i) PROVE ResultsSoFar'
  BY <1>Progress, RoundFacts DEF Progress, Batch, AtIsInside, ResultsSoFar, Looping,
     Over, guardVars, roundVars, loopVars, channel
<1>Settle. ASSUME NEW i \in 1..MaxCalls, Settle(i) PROVE ResultsSoFar'
  BY <1>Settle, RoundFacts DEF Settle, Batch, AtIsInside, ResultsSoFar, Looping, Over,
     guardVars, roundVars, loopVars, channel
<1>Throw. ASSUME NEW i \in 1..MaxCalls, Throw(i) PROVE ResultsSoFar'
  BY <1>Throw, RoundFacts DEF Throw, Batch, AtIsInside, ResultsSoFar, Looping, Over,
     guardVars, roundVars, loopVars, channel
<1>Orphaned. ASSUME NEW i \in 1..MaxCalls, NEW end \in {"done", "thrown"}, Orphaned(i, end) PROVE ResultsSoFar'
  BY <1>Orphaned, RoundFacts DEF Orphaned, AtIsInside, ResultsSoFar, Looping, Over,
     guardVars, roundVars, loopVars, channel
<1>Invoked. ASSUME NEW end \in {"done", "thrown"}, Invoked(end) PROVE ResultsSoFar'
  BY <1>Invoked, RoundFacts DEF Invoked, AtIsInside, ResultsSoFar, Looping, Over,
     guardVars, roundVars, loopVars, channel
<1>Abort. ASSUME Abort PROVE ResultsSoFar'
  BY <1>Abort, RoundFacts DEF Abort, AtIsInside, ResultsSoFar, Looping, Over, guardVars,
     roundVars, loopVars, channel
<1>ConsumerFails. ASSUME ConsumerFails PROVE ResultsSoFar'
  BY <1>ConsumerFails, RoundFacts DEF ConsumerFails, AtIsInside, ResultsSoFar, Looping,
     Over, guardVars, roundVars, loopVars, channel
<1>Stutter. CASE UNCHANGED vars
  BY <1>Stutter DEF vars, guardVars, roundVars, loopVars, channel, AtIsInside,
     ResultsSoFar, Looping, Over
<1>QED. QED
  BY <1>StreamText, <1>StreamToolUse, <1>StreamEnd, <1>Chat, <1>StepLimit, <1>JudgeEnd,
     <1>Judge, <1>Advance, <1>EmitResult, <1>CompleteRound, <1>Drain, <1>Ask, <1>Skip,
     <1>Invoke, <1>Approved, <1>Declined, <1>AskRejected, <1>Progress, <1>Settle,
     <1>Throw, <1>Orphaned, <1>Invoked, <1>Abort, <1>ConsumerFails, <1>Stutter DEF Next,
     StreamStep, StreamEnds, LoopStep, Decide, ToolEnds, BatchToolEnds, HitlToolEnds

\* What the end of a round does to the conversation: it joins at the end, and the
\* first of those kept may go.
LEMMA RoundJoins ==
  ASSUME TypeOK, RoundsKept, CompleteRound
  PROVE  \E d \in {0, 1} :
           /\ d = 1 <=> Len(messages) = Kept
           /\ Len(messages') = Len(messages) + 1 - d
           /\ \A m \in 1..(Len(messages') - 1) :
                m + d \in 1..Len(messages) /\ messages'[m] = messages[m + d]
           /\ messages'[Len(messages')] = [uses |-> calls, results |-> results]
<1> DEFINE R == [uses : Seq(Calls), results : Seq(Nat)]
           new == [uses |-> calls, results |-> results]
           all == Append(messages, new)
<1>1. messages \in Seq(R) /\ Len(messages) <= Kept /\ Kept \in Nat \ {0}
  BY GuardBounds DEF TypeOK, RoundsKept, Kept
<1>2. new \in R
  <2>1. results \in Seq(1..MaxCalls) /\ 1..MaxCalls \subseteq Nat
    BY Bounds DEF TypeOK
  <2>2. results \in Seq(Nat)
    BY <2>1, SeqMonotonic
  <2>3. QED
    BY <2>2 DEF TypeOK
<1>3. messages' = IF Len(all) > Kept THEN Tail(all) ELSE all
  BY DEF CompleteRound
<1> HIDE DEF R, new
<1>4. /\ Len(messages) \in Nat /\ all \in Seq(R) /\ all # <<>> /\ Len(all) = Len(messages) + 1
      /\ \A m \in 1..Len(messages) : all[m] = messages[m]
      /\ all[Len(messages) + 1] = new
  BY <1>1, <1>2, AppendProperties, LenProperties
<1> HIDE DEF all
<1>5. CASE Len(messages) = Kept
  <2>1. messages' = Tail(all)
    BY <1>1, <1>3, <1>4, <1>5
  <2>2. Len(Tail(all)) = Len(all) - 1 /\ \A m \in 1..(Len(all) - 1) : Tail(all)[m] = all[m + 1]
    BY <1>4, HeadTailProperties
  <2>3. /\ Len(messages') = Len(messages)
        /\ \A m \in 1..(Len(messages') - 1) :
             m + 1 \in 1..Len(messages) /\ messages'[m] = messages[m + 1]
        /\ messages'[Len(messages')] = new
    BY <1>1, <1>4, <1>5, <2>1, <2>2
  <2>4. QED
    BY <1>4, <1>5, <2>3 DEF new
<1>6. CASE Len(messages) # Kept
  <2>1. messages' = all
    BY <1>1, <1>3, <1>4, <1>6
  <2>2. /\ Len(messages') = Len(messages) + 1
        /\ \A m \in 1..(Len(messages') - 1) :
             m \in 1..Len(messages) /\ messages'[m] = messages[m]
        /\ messages'[Len(messages')] = new
    BY <1>4, <2>1
  <2>3. QED
    BY <1>4, <1>6, <2>2 DEF new
<1>7. QED
  BY <1>5, <1>6

\* The rounds of the conversation stay answered.
LEMMA MatchNext ==
  TypeOK /\ TypeOK' /\ RoundsKept /\ AtIsInside /\ ResultsSoFar /\ ResultsMatchUses /\
     [Next]_vars => ResultsMatchUses'
<1> SUFFICES ASSUME TypeOK, TypeOK', RoundsKept, AtIsInside, ResultsSoFar,
   ResultsMatchUses, [Next]_vars PROVE ResultsMatchUses'
  OBVIOUS
<1>StreamText. ASSUME StreamText PROVE ResultsMatchUses'
  BY <1>StreamText DEF StreamText, ResultsMatchUses, guardVars, roundVars, loopVars,
     channel
<1>StreamToolUse. ASSUME NEW c \in Calls, StreamToolUse(c) PROVE ResultsMatchUses'
  BY <1>StreamToolUse DEF StreamToolUse, ResultsMatchUses, guardVars, roundVars,
     loopVars, channel
<1>StreamEnd. ASSUME NEW how \in {"judging", "ended", "failed"}, StreamEnd(how) PROVE ResultsMatchUses'
  BY <1>StreamEnd DEF StreamEnd, ResultsMatchUses, guardVars, roundVars, loopVars,
     channel
<1>Chat. ASSUME Chat PROVE ResultsMatchUses'
  BY <1>Chat DEF Chat, ResultsMatchUses, guardVars, roundVars, loopVars, channel
<1>StepLimit. ASSUME StepLimit PROVE ResultsMatchUses'
  BY <1>StepLimit DEF StepLimit, ResultsMatchUses, guardVars, roundVars, loopVars,
     channel
<1>JudgeEnd. ASSUME JudgeEnd PROVE ResultsMatchUses'
  BY <1>JudgeEnd DEF JudgeEnd, ResultsMatchUses, guardVars, roundVars, loopVars, channel
<1>Judge. ASSUME Judge PROVE ResultsMatchUses'
  BY <1>Judge DEF Judge, ResultsMatchUses, guardVars, roundVars, loopVars, channel
<1>Advance. ASSUME Advance PROVE ResultsMatchUses'
  BY <1>Advance DEF Advance, ResultsMatchUses, guardVars, roundVars, loopVars, channel
<1>EmitResult. ASSUME EmitResult PROVE ResultsMatchUses'
  BY <1>EmitResult DEF EmitResult, Answered, ResultsMatchUses, guardVars, roundVars,
     loopVars, channel
<1>CompleteRound. ASSUME CompleteRound PROVE ResultsMatchUses'
  <2>1. PICK d \in {0, 1} :
           /\ Len(messages') = Len(messages) + 1 - d
           /\ \A m \in 1..(Len(messages') - 1) :
                m + d \in 1..Len(messages) /\ messages'[m] = messages[m + d]
           /\ messages'[Len(messages')] = [uses |-> calls, results |-> results]
    BY <1>CompleteRound, RoundJoins
  <2>2. Len(messages) \in Nat /\ DOMAIN messages = 1..Len(messages)
    BY LenProperties DEF TypeOK
  <2>3. DOMAIN messages' = 1..Len(messages')
    <3>1. messages' \in Seq([uses : Seq(Calls), results : Seq(Nat)])
      BY DEF TypeOK
    <3>2. QED
      BY <3>1, LenProperties
  <2>4. Len(results) = Len(calls) /\ \A n \in 1..Len(results) : results[n] = n
    BY <1>CompleteRound, RoundFacts DEF CompleteRound, AtIsInside, ResultsSoFar, Looping
  <2>5. ASSUME NEW m \in 1..Len(messages')
        PROVE  /\ Len(messages'[m].results) = Len(messages'[m].uses)
               /\ \A n \in DOMAIN messages'[m].results : messages'[m].results[n] = n
    <3>1. CASE m = Len(messages')
      BY <2>1, <2>4, <3>1, RoundFacts
    <3>2. CASE m # Len(messages')
      <4>1. m \in 1..(Len(messages') - 1)
        BY <2>1, <2>2, <3>2
      <4>2. m + d \in DOMAIN messages /\ messages'[m] = messages[m + d]
        BY <2>1, <2>2, <4>1
      <4>3. QED
        BY <4>2 DEF ResultsMatchUses
    <3>3. QED
      BY <3>1, <3>2
  <2>6. QED
    BY <2>3, <2>5 DEF ResultsMatchUses
<1>Drain. ASSUME Drain PROVE ResultsMatchUses'
  BY <1>Drain DEF Drain, ResultsMatchUses, guardVars, roundVars, loopVars, channel
<1>Ask. ASSUME Ask PROVE ResultsMatchUses'
  BY <1>Ask DEF Ask, ResultsMatchUses, guardVars, roundVars, loopVars, channel
<1>Skip. ASSUME Skip PROVE ResultsMatchUses'
  BY <1>Skip DEF Skip, ResultsMatchUses, guardVars, roundVars, loopVars, channel
<1>Invoke. ASSUME Invoke PROVE ResultsMatchUses'
  BY <1>Invoke DEF Invoke, ResultsMatchUses, guardVars, roundVars, loopVars, channel
<1>Approved. ASSUME Approved PROVE ResultsMatchUses'
  BY <1>Approved DEF Approved, ResultsMatchUses, guardVars, roundVars, loopVars, channel
<1>Declined. ASSUME Declined PROVE ResultsMatchUses'
  BY <1>Declined DEF Declined, ResultsMatchUses, guardVars, roundVars, loopVars, channel
<1>AskRejected. ASSUME AskRejected PROVE ResultsMatchUses'
  BY <1>AskRejected DEF AskRejected, ResultsMatchUses, guardVars, roundVars, loopVars,
     channel
<1>Progress. ASSUME NEW i \in 1..MaxCalls, Progress(i) PROVE ResultsMatchUses'
  BY <1>Progress DEF Progress, Batch, ResultsMatchUses, guardVars, roundVars, loopVars,
     channel
<1>Settle. ASSUME NEW i \in 1..MaxCalls, Settle(i) PROVE ResultsMatchUses'
  BY <1>Settle DEF Settle, Batch, ResultsMatchUses, guardVars, roundVars, loopVars,
     channel
<1>Throw. ASSUME NEW i \in 1..MaxCalls, Throw(i) PROVE ResultsMatchUses'
  BY <1>Throw DEF Throw, Batch, ResultsMatchUses, guardVars, roundVars, loopVars, channel
<1>Orphaned. ASSUME NEW i \in 1..MaxCalls, NEW end \in {"done", "thrown"}, Orphaned(i, end) PROVE ResultsMatchUses'
  BY <1>Orphaned DEF Orphaned, ResultsMatchUses, guardVars, roundVars, loopVars, channel
<1>Invoked. ASSUME NEW end \in {"done", "thrown"}, Invoked(end) PROVE ResultsMatchUses'
  BY <1>Invoked DEF Invoked, ResultsMatchUses, guardVars, roundVars, loopVars, channel
<1>Abort. ASSUME Abort PROVE ResultsMatchUses'
  BY <1>Abort DEF Abort, ResultsMatchUses, guardVars, roundVars, loopVars, channel
<1>ConsumerFails. ASSUME ConsumerFails PROVE ResultsMatchUses'
  BY <1>ConsumerFails DEF ConsumerFails, ResultsMatchUses, guardVars, roundVars,
     loopVars, channel
<1>Stutter. CASE UNCHANGED vars
  BY <1>Stutter DEF vars, guardVars, roundVars, loopVars, channel, ResultsMatchUses
<1>QED. QED
  BY <1>StreamText, <1>StreamToolUse, <1>StreamEnd, <1>Chat, <1>StepLimit, <1>JudgeEnd,
     <1>Judge, <1>Advance, <1>EmitResult, <1>CompleteRound, <1>Drain, <1>Ask, <1>Skip,
     <1>Invoke, <1>Approved, <1>Declined, <1>AskRejected, <1>Progress, <1>Settle,
     <1>Throw, <1>Orphaned, <1>Invoked, <1>Abort, <1>ConsumerFails, <1>Stutter DEF Next,
     StreamStep, StreamEnds, LoopStep, Decide, ToolEnds, BatchToolEnds, HitlToolEnds

\* Asking for the same calls is an equivalence.
LEMMA SameIsSymmetric ==
  ASSUME NEW s, NEW t, SameCalls(s, t)
  PROVE  SameCalls(t, s)
BY DEF SameCalls

\* So it goes on from round to round.
LEMMA SameIsTransitive ==
  ASSUME NEW s, NEW t, NEW u, SameCalls(s, t), SameCalls(t, u)
  PROVE  SameCalls(s, u)
BY DEF SameCalls

\* Rounds of which the last asked for p, and an earlier one did not, are no futile loop.
LEMMA StreakBreaks ==
  ASSUME NEW ms, Len(ms) \in Nat \ {0}, DOMAIN ms = 1..Len(ms),
         NEW p, ms[Len(ms)].uses = p,
         NEW k \in 0..(Len(ms) - 1), ~SameCalls(ms[Len(ms) - k].uses, p)
  PROVE  ~ \A m \in DOMAIN ms : SameCalls(ms[1].uses, ms[m].uses)
<1> SUFFICES ASSUME \A m \in DOMAIN ms : SameCalls(ms[1].uses, ms[m].uses)
             PROVE  FALSE
  OBVIOUS
<1>1. Len(ms) - k \in DOMAIN ms /\ Len(ms) \in DOMAIN ms
  OBVIOUS
<1>2. SameCalls(ms[1].uses, ms[Len(ms) - k].uses) /\ SameCalls(ms[1].uses, p)
  BY <1>1
<1>3. SameCalls(ms[Len(ms) - k].uses, ms[1].uses)
  BY <1>2, SameIsSymmetric, Zenon
<1>4. QED
  BY <1>2, <1>3, SameIsTransitive, Zenon

\* The streak goes on counting the last rounds with the same calls.
LEMMA StreakNext ==
  TypeOK /\ RoundsKept /\ AtIsInside /\ StreakCounts /\ [Next]_vars => StreakCounts'
<1> SUFFICES ASSUME TypeOK, RoundsKept, AtIsInside, StreakCounts, [Next]_vars PROVE
   StreakCounts'
  OBVIOUS
<1>StreamText. ASSUME StreamText PROVE StreakCounts'
  BY <1>StreamText DEF StreamText, StreakCounts, Repeated, Guarded, Looping, Over,
     guardVars, roundVars, loopVars, channel
<1>StreamToolUse. ASSUME NEW c \in Calls, StreamToolUse(c) PROVE StreakCounts'
  BY <1>StreamToolUse DEF StreamToolUse, StreakCounts, Repeated, Guarded, Looping, Over,
     guardVars, roundVars, loopVars, channel
<1>StreamEnd. ASSUME NEW how \in {"judging", "ended", "failed"}, StreamEnd(how) PROVE StreakCounts'
  BY <1>StreamEnd DEF StreamEnd, StreakCounts, Repeated, Guarded, Looping, Over,
     guardVars, roundVars, loopVars, channel
<1>Chat. ASSUME Chat PROVE StreakCounts'
  BY <1>Chat DEF Chat, StreakCounts, Repeated, Guarded, Looping, Over, guardVars,
     roundVars, loopVars, channel
<1>StepLimit. ASSUME StepLimit PROVE StreakCounts'
  BY <1>StepLimit DEF StepLimit, StreakCounts, Repeated, Guarded, Looping, Over,
     guardVars, roundVars, loopVars, channel
<1>JudgeEnd. ASSUME JudgeEnd PROVE StreakCounts'
  BY <1>JudgeEnd DEF JudgeEnd, StreakCounts, Repeated, Guarded, Looping, Over, guardVars,
     roundVars, loopVars, channel
<1>Judge. ASSUME Judge PROVE StreakCounts'
  <2>1. /\ Begun(1) /\ UNCHANGED <<calls, messages, guards>> /\ phase = "judging" /\ ~Refused
        /\ Guarded => previous' = calls /\ streak' = NextStreak
    BY <1>Judge, RoundFacts, BeginFacts DEF Judge, roundVars
  <2>2. phase \notin Looping /\ phase' \in Looping /\ phase' \notin Over /\ phase \notin Over
    BY <2>1 DEF Begun, Looping, Over
  <2> SUFFICES ASSUME Guarded
               PROVE  /\ streak' < Threshold /\ streak' - 1 \in 0..Len(messages) /\ previous' = calls
                      /\ streak' - 1 < Len(messages)
                         => ~SameCalls(messages[Len(messages) - (streak' - 1)].uses, calls)
    BY <2>1, <2>2 DEF StreakCounts, Repeated, Guarded
  <2>3. /\ streak \in Nat /\ streak < Threshold /\ streak \in 0..Len(messages) /\ Len(messages) \in Nat
        /\ messages # <<>> => messages[Len(messages)].uses = previous
        /\ messages = <<>> => previous = <<>>
        /\ streak < Len(messages) => ~SameCalls(messages[Len(messages) - streak].uses, previous)
    BY <2>2, LenProperties DEF StreakCounts, Repeated, TypeOK
  <2>4. streak' = NextStreak /\ NextStreak < Threshold /\ previous' = calls /\ Threshold \in Nat \ {0}
    <3>1. NextStreak \in Nat
      BY <2>3 DEF NextStreak
    <3>2. QED
      BY <2>1, <3>1, GuardBounds DEF Refused
  <2>5. CASE SameCalls(previous, calls)
    <3>1. streak' = streak + 1
      BY <2>4, <2>5 DEF NextStreak
    <3>2. ASSUME streak < Len(messages)
          PROVE  ~SameCalls(messages[Len(messages) - streak].uses, calls)
      <4>1. ~SameCalls(messages[Len(messages) - streak].uses, previous)
        BY <2>3, <3>2
      <4>2. SameCalls(calls, previous)
        BY <2>5, SameIsSymmetric
      <4>3. QED
        BY <4>1, <4>2, SameIsTransitive, Zenon
    <3>3. streak' - 1 = streak
      BY <2>3, <3>1
    <3>4. QED
      BY <2>3, <2>4, <3>2, <3>3
  <2>6. CASE ~SameCalls(previous, calls)
    <3>1. streak' = 1 /\ streak' - 1 = 0
      BY <2>4, <2>6 DEF NextStreak
    <3>2. ASSUME 0 < Len(messages) PROVE ~SameCalls(messages[Len(messages)].uses, calls)
      <4>1. messages # <<>>
        BY <3>2, EmptySeq
      <4>2. QED
        BY <2>3, <2>6, <4>1
    <3>3. Len(messages) - 0 = Len(messages)
      BY <2>3
    <3>4. QED
      BY <2>3, <2>4, <3>1, <3>2, <3>3
  <2>7. QED
    BY <2>5, <2>6
<1>Advance. ASSUME Advance PROVE StreakCounts'
  <2>1. Begun(at) /\ UNCHANGED <<calls, messages, guards, previous, streak>>
    BY <1>Advance, RoundFacts, BeginFacts DEF Advance, AtIsInside, roundVars, guardVars
  <2>2. phase \in Looping /\ phase' \in Looping /\ phase' \notin Over /\ phase \notin Over
    BY <1>Advance, <2>1 DEF Advance, Begun, Looping, Over
  <2>3. QED
    BY <2>1, <2>2 DEF StreakCounts, Repeated, Guarded
<1>EmitResult. ASSUME EmitResult PROVE StreakCounts'
  BY <1>EmitResult DEF EmitResult, Answered, StreakCounts, Repeated, Guarded, Looping,
     Over, guardVars, roundVars, loopVars, channel
<1>CompleteRound. ASSUME CompleteRound PROVE StreakCounts'
  <2>1. PICK d \in {0, 1} :
           /\ d = 1 <=> Len(messages) = Kept
           /\ Len(messages') = Len(messages) + 1 - d
           /\ \A m \in 1..(Len(messages') - 1) :
                m + d \in 1..Len(messages) /\ messages'[m] = messages[m + d]
           /\ messages'[Len(messages')] = [uses |-> calls, results |-> results]
    BY <1>CompleteRound, RoundJoins
  <2>2. /\ phase = "complete" /\ phase' = "head" /\ phase \in Looping /\ phase \notin Over
        /\ phase' \notin Looping /\ UNCHANGED <<guards, previous, streak>>
    BY <1>CompleteRound DEF CompleteRound, Looping, Over, guardVars
  <2> SUFFICES ASSUME Guarded
               PROVE  /\ streak < Threshold /\ streak \in 0..Len(messages')
                      /\ messages' # <<>> /\ messages'[Len(messages')].uses = previous
                      /\ streak < Len(messages')
                         => ~SameCalls(messages'[Len(messages') - streak].uses, previous)
    BY <2>2 DEF StreakCounts, Repeated, Guarded
  <2>3. /\ streak < Threshold /\ streak - 1 \in 0..Len(messages) /\ previous = calls
        /\ streak - 1 < Len(messages)
           => ~SameCalls(messages[Len(messages) - (streak - 1)].uses, previous)
    BY <2>2 DEF StreakCounts, Repeated
  <2>4. /\ streak \in Nat /\ Len(messages) \in Nat /\ Kept = Threshold /\ Threshold \in Nat \ {0}
        /\ Len(messages) <= Threshold
    BY LenProperties, GuardBounds DEF TypeOK, Kept
  <2>5. streak \in 0..Len(messages')
    BY <2>1, <2>3, <2>4
  <2>6. messages'[Len(messages')].uses = previous /\ messages' # <<>>
    <3>1. messages'[Len(messages')].uses = previous
      BY <2>1, <2>3
    <3>2. Len(messages') # 0
      BY <2>1, <2>3, <2>4
    <3>3. QED
      BY <3>1, <3>2, EmptySeq
  <2>7. ASSUME streak < Len(messages')
        PROVE  ~SameCalls(messages'[Len(messages') - streak].uses, previous)
    <3>1. Len(messages') - streak \in 1..(Len(messages') - 1)
      BY <2>1, <2>3, <2>4, <2>7
    <3>2. /\ streak - 1 < Len(messages)
          /\ (Len(messages') - streak) + d = Len(messages) - (streak - 1)
      BY <2>1, <2>3, <2>4, <2>7
    <3>3. messages'[Len(messages') - streak] = messages[Len(messages) - (streak - 1)]
      BY <2>1, <3>1, <3>2
    <3>4. QED
      BY <2>3, <3>2, <3>3
  <2>8. QED
    BY <2>3, <2>5, <2>6, <2>7
<1>Drain. ASSUME Drain PROVE StreakCounts'
  BY <1>Drain DEF Drain, StreakCounts, Repeated, Guarded, Looping, Over, guardVars,
     roundVars, loopVars, channel
<1>Ask. ASSUME Ask PROVE StreakCounts'
  BY <1>Ask DEF Ask, StreakCounts, Repeated, Guarded, Looping, Over, guardVars,
     roundVars, loopVars, channel
<1>Skip. ASSUME Skip PROVE StreakCounts'
  BY <1>Skip DEF Skip, StreakCounts, Repeated, Guarded, Looping, Over, guardVars,
     roundVars, loopVars, channel
<1>Invoke. ASSUME Invoke PROVE StreakCounts'
  BY <1>Invoke DEF Invoke, StreakCounts, Repeated, Guarded, Looping, Over, guardVars,
     roundVars, loopVars, channel
<1>Approved. ASSUME Approved PROVE StreakCounts'
  BY <1>Approved DEF Approved, StreakCounts, Repeated, Guarded, Looping, Over, guardVars,
     roundVars, loopVars, channel
<1>Declined. ASSUME Declined PROVE StreakCounts'
  BY <1>Declined DEF Declined, StreakCounts, Repeated, Guarded, Looping, Over, guardVars,
     roundVars, loopVars, channel
<1>AskRejected. ASSUME AskRejected PROVE StreakCounts'
  BY <1>AskRejected DEF AskRejected, StreakCounts, Repeated, Guarded, Looping, Over,
     guardVars, roundVars, loopVars, channel
<1>Progress. ASSUME NEW i \in 1..MaxCalls, Progress(i) PROVE StreakCounts'
  BY <1>Progress DEF Progress, Batch, StreakCounts, Repeated, Guarded, Looping, Over,
     guardVars, roundVars, loopVars, channel
<1>Settle. ASSUME NEW i \in 1..MaxCalls, Settle(i) PROVE StreakCounts'
  BY <1>Settle DEF Settle, Batch, StreakCounts, Repeated, Guarded, Looping, Over,
     guardVars, roundVars, loopVars, channel
<1>Throw. ASSUME NEW i \in 1..MaxCalls, Throw(i) PROVE StreakCounts'
  BY <1>Throw DEF Throw, Batch, StreakCounts, Repeated, Guarded, Looping, Over,
     guardVars, roundVars, loopVars, channel
<1>Orphaned. ASSUME NEW i \in 1..MaxCalls, NEW end \in {"done", "thrown"}, Orphaned(i, end) PROVE StreakCounts'
  BY <1>Orphaned DEF Orphaned, StreakCounts, Repeated, Guarded, Looping, Over, guardVars,
     roundVars, loopVars, channel
<1>Invoked. ASSUME NEW end \in {"done", "thrown"}, Invoked(end) PROVE StreakCounts'
  BY <1>Invoked DEF Invoked, StreakCounts, Repeated, Guarded, Looping, Over, guardVars,
     roundVars, loopVars, channel
<1>Abort. ASSUME Abort PROVE StreakCounts'
  BY <1>Abort DEF Abort, StreakCounts, Repeated, Guarded, Looping, Over, guardVars,
     roundVars, loopVars, channel
<1>ConsumerFails. ASSUME ConsumerFails PROVE StreakCounts'
  BY <1>ConsumerFails DEF ConsumerFails, StreakCounts, Repeated, Guarded, Looping, Over,
     guardVars, roundVars, loopVars, channel
<1>Stutter. CASE UNCHANGED vars
  BY <1>Stutter DEF vars, guardVars, roundVars, loopVars, channel, StreakCounts,
     Repeated, Guarded, Looping, Over
<1>QED. QED
  BY <1>StreamText, <1>StreamToolUse, <1>StreamEnd, <1>Chat, <1>StepLimit, <1>JudgeEnd,
     <1>Judge, <1>Advance, <1>EmitResult, <1>CompleteRound, <1>Drain, <1>Ask, <1>Skip,
     <1>Invoke, <1>Approved, <1>Declined, <1>AskRejected, <1>Progress, <1>Settle,
     <1>Throw, <1>Orphaned, <1>Invoked, <1>Abort, <1>ConsumerFails, <1>Stutter DEF Next,
     StreamStep, StreamEnds, LoopStep, Decide, ToolEnds, BatchToolEnds, HitlToolEnds

\* No step completes a futile loop.
LEMMA FutileNext ==
  TypeOK /\ TypeOK' /\ StreakCounts' /\ NoFutileLoop /\ [Next]_vars => NoFutileLoop'
<1> SUFFICES ASSUME TypeOK, TypeOK', StreakCounts', NoFutileLoop, [Next]_vars PROVE
   NoFutileLoop'
  OBVIOUS
<1>StreamText. ASSUME StreamText PROVE NoFutileLoop'
  BY <1>StreamText DEF StreamText, NoFutileLoop, Guarded, guardVars, roundVars, loopVars,
     channel
<1>StreamToolUse. ASSUME NEW c \in Calls, StreamToolUse(c) PROVE NoFutileLoop'
  BY <1>StreamToolUse DEF StreamToolUse, NoFutileLoop, Guarded, guardVars, roundVars,
     loopVars, channel
<1>StreamEnd. ASSUME NEW how \in {"judging", "ended", "failed"}, StreamEnd(how) PROVE NoFutileLoop'
  BY <1>StreamEnd DEF StreamEnd, NoFutileLoop, Guarded, guardVars, roundVars, loopVars,
     channel
<1>Chat. ASSUME Chat PROVE NoFutileLoop'
  BY <1>Chat DEF Chat, NoFutileLoop, Guarded, guardVars, roundVars, loopVars, channel
<1>StepLimit. ASSUME StepLimit PROVE NoFutileLoop'
  BY <1>StepLimit DEF StepLimit, NoFutileLoop, Guarded, guardVars, roundVars, loopVars,
     channel
<1>JudgeEnd. ASSUME JudgeEnd PROVE NoFutileLoop'
  BY <1>JudgeEnd DEF JudgeEnd, NoFutileLoop, Guarded, guardVars, roundVars, loopVars,
     channel
<1>Judge. ASSUME Judge PROVE NoFutileLoop'
  BY <1>Judge DEF Judge, NoFutileLoop, Guarded, guardVars, roundVars, loopVars, channel
<1>Advance. ASSUME Advance PROVE NoFutileLoop'
  BY <1>Advance DEF Advance, NoFutileLoop, Guarded, guardVars, roundVars, loopVars,
     channel
<1>EmitResult. ASSUME EmitResult PROVE NoFutileLoop'
  BY <1>EmitResult DEF EmitResult, Answered, NoFutileLoop, Guarded, guardVars, roundVars,
     loopVars, channel
<1>CompleteRound. ASSUME CompleteRound PROVE NoFutileLoop'
  <2>1. phase' = "head" /\ phase' \notin Over /\ phase' \notin Looping
    BY <1>CompleteRound DEF CompleteRound, Over, Looping
  <2>2. messages' \in Seq([uses : Seq(Calls), results : Seq(Nat)]) /\ Threshold \in Nat \ {0}
    BY GuardBounds DEF TypeOK
  <2>3. Len(messages') \in Nat /\ DOMAIN messages' = 1..Len(messages')
    BY <2>2, LenProperties
  <2>4. ASSUME Guarded', Len(messages') = Threshold
        PROVE  ~ \A m \in DOMAIN messages' : SameCalls(messages'[1].uses, messages'[m].uses)
    <3>1. messages' # <<>> /\ Len(messages') \in Nat \ {0}
      BY <2>2, <2>3, <2>4, EmptySeq
    <3>2. /\ streak' \in 0..Len(messages') /\ streak' < Len(messages')
          /\ messages'[Len(messages')].uses = previous'
          /\ ~SameCalls(messages'[Len(messages') - streak'].uses, previous')
      BY <2>1, <2>4, <3>1 DEF StreakCounts, Repeated
    <3>3. streak' \in 0..(Len(messages') - 1)
      BY <2>3, <3>2
    <3>4. QED
      BY <2>3, <3>1, <3>2, <3>3, StreakBreaks, Zenon
  <2>5. QED
    BY <2>4 DEF NoFutileLoop
<1>Drain. ASSUME Drain PROVE NoFutileLoop'
  BY <1>Drain DEF Drain, NoFutileLoop, Guarded, guardVars, roundVars, loopVars, channel
<1>Ask. ASSUME Ask PROVE NoFutileLoop'
  BY <1>Ask DEF Ask, NoFutileLoop, Guarded, guardVars, roundVars, loopVars, channel
<1>Skip. ASSUME Skip PROVE NoFutileLoop'
  BY <1>Skip DEF Skip, NoFutileLoop, Guarded, guardVars, roundVars, loopVars, channel
<1>Invoke. ASSUME Invoke PROVE NoFutileLoop'
  BY <1>Invoke DEF Invoke, NoFutileLoop, Guarded, guardVars, roundVars, loopVars, channel
<1>Approved. ASSUME Approved PROVE NoFutileLoop'
  BY <1>Approved DEF Approved, NoFutileLoop, Guarded, guardVars, roundVars, loopVars,
     channel
<1>Declined. ASSUME Declined PROVE NoFutileLoop'
  BY <1>Declined DEF Declined, NoFutileLoop, Guarded, guardVars, roundVars, loopVars,
     channel
<1>AskRejected. ASSUME AskRejected PROVE NoFutileLoop'
  BY <1>AskRejected DEF AskRejected, NoFutileLoop, Guarded, guardVars, roundVars,
     loopVars, channel
<1>Progress. ASSUME NEW i \in 1..MaxCalls, Progress(i) PROVE NoFutileLoop'
  BY <1>Progress DEF Progress, Batch, NoFutileLoop, Guarded, guardVars, roundVars,
     loopVars, channel
<1>Settle. ASSUME NEW i \in 1..MaxCalls, Settle(i) PROVE NoFutileLoop'
  BY <1>Settle DEF Settle, Batch, NoFutileLoop, Guarded, guardVars, roundVars, loopVars,
     channel
<1>Throw. ASSUME NEW i \in 1..MaxCalls, Throw(i) PROVE NoFutileLoop'
  BY <1>Throw DEF Throw, Batch, NoFutileLoop, Guarded, guardVars, roundVars, loopVars,
     channel
<1>Orphaned. ASSUME NEW i \in 1..MaxCalls, NEW end \in {"done", "thrown"}, Orphaned(i, end) PROVE NoFutileLoop'
  BY <1>Orphaned DEF Orphaned, NoFutileLoop, Guarded, guardVars, roundVars, loopVars,
     channel
<1>Invoked. ASSUME NEW end \in {"done", "thrown"}, Invoked(end) PROVE NoFutileLoop'
  BY <1>Invoked DEF Invoked, NoFutileLoop, Guarded, guardVars, roundVars, loopVars,
     channel
<1>Abort. ASSUME Abort PROVE NoFutileLoop'
  BY <1>Abort DEF Abort, NoFutileLoop, Guarded, guardVars, roundVars, loopVars, channel
<1>ConsumerFails. ASSUME ConsumerFails PROVE NoFutileLoop'
  BY <1>ConsumerFails DEF ConsumerFails, NoFutileLoop, Guarded, guardVars, roundVars,
     loopVars, channel
<1>Stutter. CASE UNCHANGED vars
  BY <1>Stutter DEF vars, guardVars, roundVars, loopVars, channel, NoFutileLoop, Guarded
<1>QED. QED
  BY <1>StreamText, <1>StreamToolUse, <1>StreamEnd, <1>Chat, <1>StepLimit, <1>JudgeEnd,
     <1>Judge, <1>Advance, <1>EmitResult, <1>CompleteRound, <1>Drain, <1>Ask, <1>Skip,
     <1>Invoke, <1>Approved, <1>Declined, <1>AskRejected, <1>Progress, <1>Settle,
     <1>Throw, <1>Orphaned, <1>Invoked, <1>Abort, <1>ConsumerFails, <1>Stutter DEF Next,
     StreamStep, StreamEnds, LoopStep, Decide, ToolEnds, BatchToolEnds, HitlToolEnds

-----------------------------------------------------------------------------
(* the theorems *)

\* The parts of IInv hold together in every state.
THEOREM InductiveInvariant == Spec => []IInv
<1>1. Init => IInv
  <2> SUFFICES ASSUME Init PROVE IInv
    OBVIOUS
  <2>1. /\ <<>> \in Seq(Calls) /\ <<>> \in Seq(1..MaxCalls) /\ Len(<<>>) = 0 /\ DOMAIN <<>> = {}
        /\ <<>> \in Seq([uses : Seq(Calls), results : Seq(Nat)])
    BY EmptySeq
  <2>2. \A S : <<>> \in [{} -> S]
    OBVIOUS
  <2>3. messages \in Seq([uses : Seq(Calls), results : Seq(Nat)]) /\ Len(messages) = 0
    BY <2>1 DEF Init
  <2>4. status \in [DOMAIN calls -> Kinds] /\ card \in [DOMAIN calls -> {"hidden", "open", "closed"}]
    BY <2>1, <2>2 DEF Init
  <2>5. calls \in Seq(Calls) /\ previous \in Seq(Calls) /\ results \in Seq(1..MaxCalls)
    BY <2>1 DEF Init
  <2>6. TypeOK
    <3>1. Len(messages) <= Threshold /\ Len(calls) <= MaxCalls
      BY <2>1, <2>3, Bounds, GuardBounds DEF Init
    <3>2. /\ round \in 0..MaxSteps /\ streak \in 0..Threshold /\ at \in 1..(MaxCalls + 1)
          /\ upto \in 0..MaxCalls /\ buffer \in 0..MaxProgress
      BY Bounds, GuardBounds DEF Init
    <3>3. /\ aborted \in BOOLEAN /\ reasoned \in BOOLEAN /\ closed \in BOOLEAN /\ asleep \in BOOLEAN
          /\ guards \in {"off", "on", "strict"} /\ phase = "head"
      BY DEF Init
    <3>4. QED
      BY <2>3, <2>4, <2>5, <3>1, <3>2, <3>3 DEF TypeOK, Kinds
  <2>7. RoundsKept
    BY <2>3, GuardBounds DEF RoundsKept, Kept
  <2>8. AtIsInside /\ StatusesFollow /\ ChannelTells /\ ResultsSoFar
    BY <2>1 DEF Init, AtIsInside, StatusesFollow, ChannelTells, ResultsSoFar, Looping
  <2>9. ResultsMatchUses /\ NoFutileLoop
    BY <2>1, <2>3, GuardBounds DEF Init, ResultsMatchUses, NoFutileLoop
  <2>10. StreakCounts
    BY <2>1, <2>3, GuardBounds DEF Init, StreakCounts, Repeated, Looping
  <2>11. QED
    BY <2>6, <2>7, <2>8, <2>9, <2>10 DEF IInv
<1>2. IInv /\ [Next]_vars => IInv'
  <2> SUFFICES ASSUME IInv, [Next]_vars PROVE IInv'
    OBVIOUS
  <2> USE DEF IInv
  <2>1. TypeOK' /\ RoundsKept' /\ AtIsInside'
    BY TypeNext, AtNext
  <2>2. StatusesFollow' /\ ChannelTells' /\ ResultsSoFar'
    BY StatusNext, ChannelNext, ResultsNext
  <2>3. ResultsMatchUses' /\ StreakCounts'
    BY <2>1, MatchNext, StreakNext
  <2>4. NoFutileLoop'
    BY <2>1, <2>3, FutileNext
  <2>5. QED
    BY <2>1, <2>2, <2>3, <2>4
<1>3. QED
  BY <1>1, <1>2, PTL DEF Spec

\* Every variable keeps its type: nothing is counted beyond its guard or bound.
THEOREM TypeCorrect == Spec => []TypeOK
<1>1. IInv => TypeOK
  BY DEF IInv
<1>2. QED
  BY <1>1, InductiveInvariant, PTL

\* The model gets the result of every call it asked for, once and in order, in
\* whatever order tools end, for any calls and any number of them.
THEOREM ResultsAreThoseOfUses == Spec => []ResultsMatchUses
<1>1. IInv => ResultsMatchUses
  BY DEF IInv
<1>2. QED
  BY <1>1, InductiveInvariant, PTL

\* A call that needs approval is asked for and run alone, after all before it.
THEOREM ApprovedCallsRunAlone == Spec => []HitlIsSerial
<1>1. IInv => HitlIsSerial
  <2> SUFFICES ASSUME IInv, NEW i \in DOMAIN calls,
                      \/ phase \in {"requested", "asking", "approved", "invoking"} /\ at = i
                      \/ status[i] = "running" /\ calls[i] \in HitlCalls
               PROVE  /\ at = i /\ Len(results) = i - 1
                      /\ \A k \in 1..(i - 1) : status[k] \in {"done", "skipped"}
                      /\ \A k \in (i + 1)..Len(calls) : status[k] = "waiting"
    BY DEF HitlIsSerial
  <2>1. TypeOK /\ StatusesFollow /\ ResultsSoFar
    BY DEF IInv
  <2>2. DOMAIN calls = 1..Len(calls) /\ Len(calls) \in Nat
    BY <2>1, RoundFacts
  <2>3. phase \in {"requested", "asking", "approved", "invoking"} /\ at = i
    BY <2>1, <2>2 DEF StatusesFollow
  <2>4. Len(results) = i - 1
    BY <2>1, <2>3 DEF ResultsSoFar, Looping
  <2>5. /\ \A k \in 1..(i - 1) : status[k] \in {"done", "skipped"}
        /\ \A k \in (i + 1)..Len(calls) : status[k] = "waiting"
    BY <2>1, <2>2, <2>3 DEF StatusesFollow, Looping
  <2>6. QED
    BY <2>3, <2>4, <2>5
<1>2. QED
  BY <1>1, InductiveInvariant, PTL

\* Under the guards no Threshold rounds in a row execute the same calls.
THEOREM LoopsAreBroken == Spec => []NoFutileLoop
<1>1. IInv => NoFutileLoop
  BY DEF IInv
<1>2. QED
  BY <1>1, InductiveInvariant, PTL

\* A stopped turn between two executions: it stays there or is over.
Stopped ==
  /\ aborted
  /\ phase \in {"head", "streaming", "judging", "ended", "failed"}
  /\ \A i \in DOMAIN status : status[i] # "running"

\* A stopped turn starts nothing more.
LEMMA StoppedNext ==
  IInv /\ Stopped /\ [Next]_vars => Stopped'
<1> SUFFICES ASSUME IInv, Stopped, [Next]_vars PROVE Stopped'
  OBVIOUS
<1>StreamText. ASSUME StreamText PROVE Stopped'
  BY <1>StreamText DEF StreamText, Stopped, Batch, Over, guardVars, roundVars, loopVars,
     channel
<1>StreamToolUse. ASSUME NEW c \in Calls, StreamToolUse(c) PROVE Stopped'
  <2>1. /\ Len(calls) \in Nat /\ status \in [1..Len(calls) -> Kinds]
        /\ status' = Append(status, "waiting") /\ "waiting" \in Kinds
    BY <1>StreamToolUse, RoundFacts DEF StreamToolUse, IInv, Kinds
  <2>2. /\ status' \in [1..(Len(calls) + 1) -> Kinds]
        /\ \A i \in 1..Len(calls) : status'[i] = status[i]
        /\ status'[Len(calls) + 1] = "waiting"
    BY <2>1, AppendsOne
  <2>3. \A i \in DOMAIN status' : status'[i] # "running"
    BY <2>1, <2>2 DEF Stopped
  <2>4. QED
    BY <1>StreamToolUse, <2>3 DEF StreamToolUse, Stopped
<1>StreamEnd. ASSUME NEW how \in {"judging", "ended", "failed"}, StreamEnd(how) PROVE Stopped'
  BY <1>StreamEnd DEF StreamEnd, Stopped, Batch, Over, guardVars, roundVars, loopVars,
     channel
<1>Chat. ASSUME Chat PROVE Stopped'
  BY <1>Chat DEF Chat, Stopped, Batch, Over, guardVars, roundVars, loopVars, channel
<1>StepLimit. ASSUME StepLimit PROVE Stopped'
  BY <1>StepLimit DEF StepLimit, Stopped, Batch, Over, guardVars, roundVars, loopVars,
     channel
<1>JudgeEnd. ASSUME JudgeEnd PROVE Stopped'
  BY <1>JudgeEnd DEF JudgeEnd, Stopped, Batch, Over, guardVars, roundVars, loopVars,
     channel
<1>Judge. ASSUME Judge PROVE Stopped'
  BY <1>Judge DEF Judge, Refused, Stopped
<1>Advance. ASSUME Advance PROVE Stopped'
  BY <1>Advance DEF Advance, Stopped, Batch, Over, guardVars, roundVars, loopVars,
     channel
<1>EmitResult. ASSUME EmitResult PROVE Stopped'
  BY <1>EmitResult DEF EmitResult, Answered, Stopped, Batch, Over, guardVars, roundVars,
     loopVars, channel
<1>CompleteRound. ASSUME CompleteRound PROVE Stopped'
  BY <1>CompleteRound DEF CompleteRound, Stopped, Batch, Over, guardVars, roundVars,
     loopVars, channel
<1>Drain. ASSUME Drain PROVE Stopped'
  BY <1>Drain DEF Drain, Stopped, Batch, Over, guardVars, roundVars, loopVars, channel
<1>Ask. ASSUME Ask PROVE Stopped'
  BY <1>Ask DEF Ask, Stopped, Batch, Over, guardVars, roundVars, loopVars, channel
<1>Skip. ASSUME Skip PROVE Stopped'
  BY <1>Skip DEF Skip, Stopped, Batch, Over, guardVars, roundVars, loopVars, channel
<1>Invoke. ASSUME Invoke PROVE Stopped'
  BY <1>Invoke DEF Invoke, Stopped, Batch, Over, guardVars, roundVars, loopVars, channel
<1>Approved. ASSUME Approved PROVE Stopped'
  BY <1>Approved DEF Approved, Stopped, Batch, Over, guardVars, roundVars, loopVars,
     channel
<1>Declined. ASSUME Declined PROVE Stopped'
  BY <1>Declined DEF Declined, Stopped, Batch, Over, guardVars, roundVars, loopVars,
     channel
<1>AskRejected. ASSUME AskRejected PROVE Stopped'
  BY <1>AskRejected DEF AskRejected, Stopped, Batch, Over, guardVars, roundVars,
     loopVars, channel
<1>Progress. ASSUME NEW i \in 1..MaxCalls, Progress(i) PROVE Stopped'
  BY <1>Progress DEF Progress, Batch, Stopped, Over, guardVars, roundVars, loopVars,
     channel
<1>Settle. ASSUME NEW i \in 1..MaxCalls, Settle(i) PROVE Stopped'
  BY <1>Settle DEF Settle, Batch, Stopped, Over, guardVars, roundVars, loopVars, channel
<1>Throw. ASSUME NEW i \in 1..MaxCalls, Throw(i) PROVE Stopped'
  BY <1>Throw DEF Throw, Batch, Stopped, Over, guardVars, roundVars, loopVars, channel
<1>Orphaned. ASSUME NEW i \in 1..MaxCalls, NEW end \in {"done", "thrown"}, Orphaned(i, end) PROVE Stopped'
  BY <1>Orphaned DEF Orphaned, Stopped, Batch, Over, guardVars, roundVars, loopVars,
     channel
<1>Invoked. ASSUME NEW end \in {"done", "thrown"}, Invoked(end) PROVE Stopped'
  BY <1>Invoked DEF Invoked, Stopped, Batch, Over, guardVars, roundVars, loopVars,
     channel
<1>Abort. ASSUME Abort PROVE Stopped'
  BY <1>Abort DEF Abort, Stopped, Batch, Over, guardVars, roundVars, loopVars, channel
<1>ConsumerFails. ASSUME ConsumerFails PROVE Stopped'
  BY <1>ConsumerFails DEF ConsumerFails, Stopped, Batch, Over, guardVars, roundVars,
     loopVars, channel
<1>Stutter. CASE UNCHANGED vars
  BY <1>Stutter DEF vars, guardVars, roundVars, loopVars, channel, Stopped, Batch, Over
<1>QED. QED
  BY <1>StreamText, <1>StreamToolUse, <1>StreamEnd, <1>Chat, <1>StepLimit, <1>JudgeEnd,
     <1>Judge, <1>Advance, <1>EmitResult, <1>CompleteRound, <1>Drain, <1>Ask, <1>Skip,
     <1>Invoke, <1>Approved, <1>Declined, <1>AskRejected, <1>Progress, <1>Settle,
     <1>Throw, <1>Orphaned, <1>Invoked, <1>Abort, <1>ConsumerFails, <1>Stutter DEF Next,
     StreamStep, StreamEnds, LoopStep, Decide, ToolEnds, BatchToolEnds, HitlToolEnds

\* After a Stop in the head or the stream of a round no tool runs and nobody is
\* asked, for the rest of the turn.
THEOREM StopIsLast == Spec => StopKeepsNextRound
<1>1. IInv /\ aborted /\ phase \in {"head", "streaming", "judging"} => Stopped
  <2> SUFFICES ASSUME IInv, aborted, phase \in {"head", "streaming", "judging"},
                      NEW i \in DOMAIN status
               PROVE  status[i] # "running"
    BY DEF Stopped
  <2>1. i \in 1..Len(calls)
    BY RoundFacts DEF IInv
  <2>2. QED
    BY <2>1 DEF IInv, StatusesFollow
<1>2. Stopped => phase # "requested" /\ \A i \in DOMAIN status : status[i] # "running"
  BY DEF Stopped
<1>3. QED
  BY <1>1, <1>2, StoppedNext, InductiveInvariant, PTL DEF Spec, StopKeepsNextRound

=============================================================================
