-------------------------------- MODULE Turn --------------------------------
(***************************************************************************)
(* One turn of the agent (runTurn of orchestrator/orchestrator.ts): rounds *)
(* of a provider stream that asks for tool calls, and of the segments that *)
(* execute them.  Adjacent allow calls run together, a hitl call runs      *)
(* alone and only after its approval.  The generator is suspended at every *)
(* yield while its consumer (the loop of routes/messages.ts) relays the    *)
(* event; tools, the Stop button and the approver go on meanwhile.         *)
(*                                                                         *)
(* A call is a tool with its arguments; what tools return is not told      *)
(* apart.  Call number i of a round stands for its toolCallId.             *)
(***************************************************************************)
EXTENDS Naturals, Sequences, FiniteSets, FiniteSetsExt

CONSTANTS
  Calls,        \* what the model may call
  HitlCalls,    \* calls of a tool whose policy is hitl
  BadCalls,     \* calls of no known tool, or with arguments off its schema
  MaxSteps,     \* reliabilityGuards.maxSteps
  Threshold,    \* reliabilityGuards.stepRepetitionThreshold
  MaxCalls,     \* bound on the calls of one round
  MaxProgress   \* bound on the progress events that wait for the consumer

ASSUME CallKinds == HitlCalls \subseteq Calls /\ BadCalls \subseteq Calls
ASSUME GuardBounds == MaxSteps \in Nat /\ Threshold \in Nat \ {0}
ASSUME Bounds == MaxCalls \in Nat /\ MaxProgress \in Nat \ {0}

VARIABLES
  guards,    \* the guards the caller asked for; an input that never changes
  phase,     \* where the generator is
  aborted,   \* input.signal.aborted
  round,     \* stepCount (counted only where it is referenced, with guards)
  previous,  \* previousRoundSignatures
  streak,    \* repetitionStreak
  messages,  \* the last rounds appended to the conversation
  calls,     \* pendingToolUses
  reasoned,  \* the round's text is not blank
  at,        \* the call the segment loop is at
  upto,      \* the last call of its segment
  status,    \* status[i]: where the execution of call i is
  card,      \* card[i]: what the client shows of call i
  results,   \* toolResultParts
  buffer,    \* progress events in the channel
  closed,    \* the channel is closed
  asleep     \* the drain of the channel waits to be woken

guardVars == <<guards, round, previous, streak>>
roundVars == <<calls, reasoned>>
loopVars == <<at, upto, results, messages>>
channel == <<buffer, closed, asleep>>
vars == <<guardVars, phase, aborted, roundVars, loopVars, status, card, channel>>

\* How a turn is over: the generator returned, it threw into its consumer (or
\* the consumer into it), or the process died.
Over == {"ended", "failed", "killed"}

TypeOK ==
  /\ guards \in {"off", "on", "strict"}
  /\ phase \in {"head", "streaming", "judging", "draining", "emitting", "advancing",
                "requested", "asking", "approved", "invoking", "skipping",
                "complete"} \cup Over
  /\ aborted \in BOOLEAN
  /\ round \in 0..MaxSteps
  /\ previous \in Seq(Calls)
  /\ streak \in 0..Threshold
  /\ messages \in Seq([uses : Seq(Calls), results : Seq(Nat)])
  /\ Len(messages) <= Threshold
  /\ calls \in Seq(Calls) /\ Len(calls) <= MaxCalls
  /\ reasoned \in BOOLEAN
  /\ at \in 1..(MaxCalls + 1)
  /\ upto \in 0..MaxCalls
  /\ status \in [DOMAIN calls -> {"waiting", "running", "done", "thrown", "skipped"}]
  /\ card \in [DOMAIN calls -> {"hidden", "open", "closed"}]
  /\ results \in Seq(1..MaxCalls)
  /\ buffer \in 0..MaxProgress
  /\ closed \in BOOLEAN /\ asleep \in BOOLEAN

Init ==
  /\ guards \in {"off", "on", "strict"}
  /\ phase = "head"
  /\ aborted = FALSE
  /\ round = 0
  /\ previous = <<>>
  /\ streak = 0
  /\ messages = <<>>
  /\ calls = <<>>
  /\ reasoned = FALSE
  /\ at = 1
  /\ upto = 0
  /\ status = <<>>
  /\ card = <<>>
  /\ results = <<>>
  /\ buffer = 0
  /\ closed = FALSE
  /\ asleep = FALSE

Guarded == guards # "off"

-----------------------------------------------------------------------------
(* the head of a round and the provider's stream *)

\* Faulty: the steps are not limited.
ChatUnlimited ==
  /\ phase = "head"
  /\ phase' = "streaming"
  /\ round' = IF Guarded THEN round + 1 ELSE round
  /\ calls' = <<>> /\ status' = <<>> /\ card' = <<>> /\ results' = <<>>
  /\ reasoned' = FALSE
  /\ UNCHANGED <<guards, previous, streak, aborted, at, upto, messages, channel>>

Chat ==
  /\ phase = "head"
  /\ Guarded => round < MaxSteps
  /\ phase' = "streaming"
  /\ round' = IF Guarded THEN round + 1 ELSE round
  /\ calls' = <<>> /\ status' = <<>> /\ card' = <<>> /\ results' = <<>>
  /\ reasoned' = FALSE
  /\ UNCHANGED <<guards, previous, streak, aborted, at, upto, messages, channel>>

StepLimit ==
  /\ phase = "head"
  /\ Guarded /\ round >= MaxSteps
  /\ phase' = "ended"
  /\ UNCHANGED <<guardVars, aborted, roundVars, loopVars, status, card, channel>>

\* Text that is not blank, which only the strict guard looks at.
StreamText ==
  /\ phase = "streaming"
  /\ guards = "strict"
  /\ reasoned' = TRUE
  /\ UNCHANGED <<guardVars, phase, aborted, calls, loopVars, status, card, channel>>

\* The tool_use event of a hitl call is withheld.
StreamToolUse(c) ==
  /\ phase = "streaming"
  /\ Len(calls) < MaxCalls
  /\ calls' = Append(calls, c)
  /\ status' = Append(status, "waiting")
  /\ card' = Append(card, IF c \in HitlCalls THEN "hidden" ELSE "open")
  /\ UNCHANGED <<guardVars, phase, aborted, reasoned, loopVars, channel>>

\* The stream ends: with a stop for tools, with another stop, without one or
\* with an error event, or it throws.
StreamEnd(how) ==
  /\ phase = "streaming"
  /\ phase' = how
  /\ UNCHANGED <<guardVars, aborted, roundVars, loopVars, status, card, channel>>

-----------------------------------------------------------------------------
(* the segment loop *)

\* The batch of allow calls that starts at i.
BatchEnd(i) == Max({j \in i..Len(calls) : \A k \in i..j : calls[k] \notin HitlCalls})

\* Faulty: hitl calls run with the others.
BeginAll(i) ==
  /\ at' = i
  /\ \/ /\ i > Len(calls)
        /\ phase' = "complete"
        /\ UNCHANGED <<upto, status, channel>>
     \/ /\ i <= Len(calls)
        /\ phase' = "draining"
        /\ upto' = Len(calls)
        /\ status' = [k \in DOMAIN calls |->
             IF k < i THEN status[k] ELSE IF calls[k] \in BadCalls THEN "done" ELSE "running"]
        /\ buffer' = 0
        /\ asleep' = \E k \in i..upto' : status'[k] = "running"
        /\ closed' = ~asleep'

\* The loop goes on with call i: all are answered, or an approval is requested,
\* or a batch starts.  A call that cannot be invoked has its error at once.
Begin(i) ==
  /\ at' = i
  /\ \/ /\ i > Len(calls)
        /\ phase' = "complete"
        /\ UNCHANGED <<upto, status, channel>>
     \/ /\ i <= Len(calls) /\ calls[i] \in HitlCalls
        /\ phase' = "requested"
        /\ UNCHANGED <<upto, status, channel>>
     \/ /\ i <= Len(calls) /\ calls[i] \notin HitlCalls
        /\ phase' = "draining"
        /\ upto' = BatchEnd(i)
        /\ status' = [k \in DOMAIN calls |->
             IF k \notin i..upto' THEN status[k]
             ELSE IF calls[k] \in BadCalls THEN "done" ELSE "running"]
        /\ buffer' = 0
        /\ asleep' = \E k \in i..upto' : status'[k] = "running"
        /\ closed' = ~asleep'

\* The same calls, whatever their order (detectStepRepetition).
SameCalls(s, t) ==
  /\ Len(s) = Len(t)
  /\ \A c \in Calls : Cardinality({i \in DOMAIN s : s[i] = c})
                      = Cardinality({i \in DOMAIN t : t[i] = c})

NextStreak == IF SameCalls(previous, calls) THEN streak + 1 ELSE 1

\* Nothing to run, or stopped, or refused by a guard.
Refused ==
  \/ calls = <<>>
  \/ aborted
  \/ guards = "strict" /\ ~reasoned
  \/ Guarded /\ NextStreak >= Threshold

JudgeEnd ==
  /\ phase = "judging"
  /\ Refused
  /\ phase' = "ended"
  /\ UNCHANGED <<guardVars, aborted, roundVars, loopVars, status, card, channel>>

\* Faulty: Stop is not looked at after the stream.
JudgeStopped ==
  /\ phase = "judging"
  /\ calls # <<>> /\ (guards = "strict" => reasoned) /\ (Guarded => NextStreak < Threshold)
  /\ IF Guarded THEN previous' = calls /\ streak' = NextStreak
                ELSE UNCHANGED <<previous, streak>>
  /\ Begin(1)
  /\ UNCHANGED <<guards, round, aborted, roundVars, results, messages, card>>

\* Faulty: a round that differs from the one before starts the count at zero.
JudgeFromZero ==
  /\ phase = "judging"
  /\ ~Refused
  /\ IF Guarded THEN previous' = calls /\ streak' = IF NextStreak = 1 THEN 0 ELSE NextStreak
                ELSE UNCHANGED <<previous, streak>>
  /\ Begin(1)
  /\ UNCHANGED <<guards, round, aborted, roundVars, results, messages, card>>

Judge ==
  /\ phase = "judging"
  /\ ~Refused
  /\ IF Guarded THEN previous' = calls /\ streak' = NextStreak
                ELSE UNCHANGED <<previous, streak>>
  /\ Begin(1)
  /\ UNCHANGED <<guards, round, aborted, roundVars, results, messages, card>>

\* After the yield of an answer the loop takes the next segment.
Advance ==
  /\ phase = "advancing"
  /\ Begin(at)
  /\ UNCHANGED <<guardVars, aborted, roundVars, results, messages, card>>

\* The client's card of call i has its result; without a card it is dropped.
Answered(i) == [card EXCEPT ![i] = IF @ = "open" THEN "closed" ELSE @]

\* Faulty: whatever has settled is emitted, not the next in order.
EmitAny ==
  /\ phase = "emitting"
  /\ \E i \in 1..upto :
       /\ \A n \in DOMAIN results : results[n] # i
       /\ results' = Append(results, i)
       /\ card' = Answered(i)
  /\ at' = at + 1
  /\ phase' = IF at = upto THEN "advancing" ELSE "emitting"
  /\ UNCHANGED <<guardVars, aborted, roundVars, upto, messages, status, channel>>

EmitResult ==
  /\ phase = "emitting"
  /\ results' = Append(results, at)
  /\ card' = Answered(at)
  /\ at' = at + 1
  /\ phase' = IF at = upto THEN "advancing" ELSE "emitting"
  /\ UNCHANGED <<guardVars, aborted, roundVars, upto, messages, status, channel>>

\* The rounds of the conversation that are told apart.
Kept == IF Guarded THEN Threshold ELSE 1

\* All are answered: the round joins the conversation.
CompleteRound ==
  /\ phase = "complete"
  /\ phase' = "head"
  /\ LET all == Append(messages, [uses |-> calls, results |-> results])
     IN messages' = IF Len(all) > Kept THEN Tail(all) ELSE all
  /\ UNCHANGED <<guardVars, aborted, roundVars, at, upto, results, status, card, channel>>

-----------------------------------------------------------------------------
(* a batch and its progress channel *)

Batch == IF phase = "draining" THEN at..upto ELSE {}
Rejected == \E i \in DOMAIN status : status[i] = "thrown"

\* One step of the drain: relay an event, or leave the closed channel and
\* learn how the batch went, or wait.
Drain ==
  /\ phase = "draining"
  /\ ~asleep
  /\ \/ /\ buffer > 0
        /\ buffer' = buffer - 1
        /\ UNCHANGED <<phase, asleep>>
     \/ /\ buffer = 0 /\ closed
        /\ phase' = IF Rejected THEN "failed" ELSE "emitting"
        /\ UNCHANGED <<buffer, asleep>>
     \/ /\ buffer = 0 /\ ~closed
        /\ asleep' = TRUE
        /\ UNCHANGED <<phase, buffer>>
  /\ UNCHANGED <<guardVars, aborted, roundVars, loopVars, status, card, closed>>

\* emitProgress of a running tool.
Progress(i) ==
  /\ i \in Batch
  /\ status[i] = "running"
  /\ buffer < MaxProgress
  /\ buffer' = buffer + 1
  /\ asleep' = FALSE
  /\ UNCHANGED <<guardVars, phase, aborted, roundVars, loopVars, status, card, closed>>

\* Faulty: the last tool to settle closes the channel and does not wake the drain.
SettleQuietly(i) ==
  /\ i \in Batch
  /\ status[i] = "running"
  /\ status' = [status EXCEPT ![i] = "done"]
  /\ closed' = (closed \/ \A k \in Batch \ {i} : status[k] # "running")
  /\ UNCHANGED <<guardVars, phase, aborted, roundVars, loopVars, card, buffer, asleep>>

\* A tool of the batch returns; the last one closes the channel.
Settle(i) ==
  /\ i \in Batch
  /\ status[i] = "running"
  /\ status' = [status EXCEPT ![i] = "done"]
  /\ closed' = (closed \/ \A k \in Batch \ {i} : status[k] # "running")
  /\ asleep' = (asleep /\ ~closed')
  /\ UNCHANGED <<guardVars, phase, aborted, roundVars, loopVars, card, buffer>>

\* A tool of the batch throws, which closes the channel.  The first rejection
\* reaches the generator if it sleeps in the drain; while it is suspended in
\* the yield of a progress event nobody awaits the batch, and an unhandled
\* rejection ends a Node process.
Throw(i) ==
  /\ i \in Batch
  /\ status[i] = "running"
  /\ status' = [status EXCEPT ![i] = "thrown"]
  /\ closed' = TRUE
  /\ asleep' = FALSE
  /\ phase' = IF asleep \/ Rejected THEN phase ELSE "killed"
  /\ UNCHANGED <<guardVars, aborted, roundVars, loopVars, card, buffer>>

\* The tools of a batch whose turn is over go on.
Orphaned(i, end) ==
  /\ phase = "failed"
  /\ i \in DOMAIN status /\ status[i] = "running"
  /\ status' = [status EXCEPT ![i] = end]
  /\ phase' = IF end = "thrown" /\ ~Rejected THEN "killed" ELSE phase
  /\ UNCHANGED <<guardVars, aborted, roundVars, loopVars, card, channel>>

-----------------------------------------------------------------------------
(* a hitl call *)

\* askApproval, which a stopped turn is refused.
Ask ==
  /\ phase = "requested"
  /\ phase' = IF aborted THEN "ended" ELSE "asking"
  /\ UNCHANGED <<guardVars, aborted, roundVars, loopVars, status, card, channel>>

\* askApproval rejects: the turn was stopped, or Redis failed.  The turn ends.
AskRejected ==
  /\ phase = "asking"
  /\ phase' = "ended"
  /\ UNCHANGED <<guardVars, aborted, roundVars, loopVars, status, card, channel>>

\* The approval, after which the card is shown.  A stopped turn may still get
\* the decision that came just before.
Approved ==
  /\ phase = "asking"
  /\ phase' = "approved"
  /\ card' = [card EXCEPT ![at] = "open"]
  /\ UNCHANGED <<guardVars, aborted, roundVars, loopVars, status, channel>>

\* Denied, or timed out.
Declined ==
  /\ phase = "asking"
  /\ phase' = "skipping"
  /\ UNCHANGED <<guardVars, aborted, roundVars, loopVars, status, card, channel>>

\* The result of a declined call goes to the model, not to the client.
Skip ==
  /\ phase = "skipping"
  /\ results' = Append(results, at)
  /\ status' = [status EXCEPT ![at] = "skipped"]
  /\ phase' = "advancing"
  /\ at' = at + 1
  /\ UNCHANGED <<guardVars, aborted, roundVars, upto, messages, card, channel>>

\* The tool runs with the arguments of the approval, which may be off the schema.
Invoke ==
  /\ phase = "approved"
  /\ upto' = at
  /\ \/ phase' = "invoking" /\ status' = [status EXCEPT ![at] = "running"]
     \/ phase' = "emitting" /\ status' = [status EXCEPT ![at] = "done"]
  /\ UNCHANGED <<guardVars, aborted, roundVars, at, results, messages, card, channel>>

Invoked(end) ==
  /\ phase = "invoking"
  /\ status' = [status EXCEPT ![at] = end]
  /\ phase' = IF end = "done" THEN "emitting" ELSE "failed"
  /\ UNCHANGED <<guardVars, aborted, roundVars, loopVars, card, channel>>

-----------------------------------------------------------------------------
(* the consumer and the Stop button *)

\* Between Judge's look at the signal and the first segment nothing happens.
Abort ==
  /\ ~aborted
  /\ phase \notin Over
  /\ aborted' = TRUE
  /\ UNCHANGED <<guardVars, phase, roundVars, loopVars, status, card, channel>>

\* The loop over the events throws (Redis refuses to record one), which ends
\* the generator where it is suspended.
ConsumerFails ==
  /\ \/ phase \in {"streaming", "judging", "emitting", "advancing", "requested",
                   "approved", "skipping"}
     \/ phase = "draining" /\ ~asleep
  /\ phase' = "failed"
  /\ UNCHANGED <<guardVars, aborted, roundVars, loopVars, status, card, channel>>

-----------------------------------------------------------------------------
StreamStep ==
  \/ StreamText
  \/ \E c \in Calls : StreamToolUse(c)

StreamEnds == \E how \in {"judging", "ended", "failed"} : StreamEnd(how)

LoopStep ==
  \/ Chat
  \/ StepLimit
  \/ JudgeEnd
  \/ Judge
  \/ Advance
  \/ EmitResult
  \/ CompleteRound
  \/ Drain
  \/ Ask
  \/ Skip
  \/ Invoke

Decide == Approved \/ Declined \/ AskRejected

ToolEnds(i) == \E end \in {"done", "thrown"} : Orphaned(i, end)
BatchToolEnds(i) == Settle(i) \/ Throw(i)
HitlToolEnds == \E end \in {"done", "thrown"} : Invoked(end)

Next ==
  \/ StreamStep
  \/ StreamEnds
  \/ LoopStep
  \/ Decide
  \/ \E i \in 1..MaxCalls : Progress(i) \/ BatchToolEnds(i) \/ ToolEnds(i)
  \/ HitlToolEnds
  \/ Abort
  \/ ConsumerFails

Spec == Init /\ [][Next]_vars

\* The generator runs when nothing holds it, the provider's stream ends, an
\* approval is decided (its timer), and every tool ends.
FairSpec ==
  /\ Spec
  /\ WF_vars(LoopStep)
  /\ WF_vars(StreamEnds)
  /\ WF_vars(Decide)
  /\ WF_vars(HitlToolEnds)
  /\ \A i \in 1..MaxCalls : WF_vars(BatchToolEnds(i))

-----------------------------------------------------------------------------
(* properties *)

\* The tool_results the model gets are those of its tool_uses, each once and in
\* their order, in whatever order the tools finished.
ResultsMatchUses ==
  \A m \in DOMAIN messages :
    /\ Len(messages[m].results) = Len(messages[m].uses)
    /\ \A n \in DOMAIN messages[m].results : messages[m].results[n] = n

\* While a hitl call waits for its approval or runs, all calls before it are
\* answered, none after it has started, and no other runs.
HitlIsSerial ==
  \A i \in DOMAIN calls :
    (phase \in {"requested", "asking", "approved", "invoking"} /\ at = i)
    \/ (status[i] = "running" /\ calls[i] \in HitlCalls)
    => /\ at = i /\ Len(results) = i - 1
       /\ \A k \in 1..(i - 1) : status[k] \in {"done", "skipped"}
       /\ \A k \in (i + 1)..Len(calls) : status[k] = "waiting"

\* Under the guards the same calls are never executed Threshold times in a row.
NoFutileLoop ==
  Guarded => ~ (Len(messages) = Threshold
                /\ \A m \in DOMAIN messages : SameCalls(messages[1].uses, messages[m].uses))

\* A Stop that comes before the calls of a round are started is the last of the
\* turn: no tool runs after it, and nobody is asked to approve one.
StopKeepsNextRound ==
  [](aborted /\ phase \in {"head", "streaming", "judging"} =>
     [](phase # "requested" /\ \A i \in DOMAIN status : status[i] # "running"))

\* A turn that is stopped, and one under the guards, comes to its end.
EveryTurnEnds ==
  /\ aborted ~> phase \in Over
  /\ Guarded ~> phase \in Over

\* What the messages route says of a turn that fails: the client is told, so the
\* failure of a tool must reach the turn and not the process.
FailureIsReported == phase # "killed"

=============================================================================
