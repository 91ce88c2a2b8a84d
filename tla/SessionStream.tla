-------------------------- MODULE SessionStream --------------------------
(***************************************************************************)
(* The stream hook of the web client (useSessionStream.ts): how sends,     *)
(* edits, Stop, broken connections, a queue of prompts and a change of the *)
(* session share one set of refs. A leg is one call of streamTurn,         *)
(* continueMessage or sendCompare: it runs from await to await and between *)
(* two of them nothing else happens, so every step here is what the hook   *)
(* does after one await. The server's side of a turn: it is running, has    *)
(* stopped (its last event is sent, its run is terminal) or failed (only   *)
(* an error is sent), and is gone once its answer is saved and its run     *)
(* closed (routes/messages.ts, the finally block); one that is over before *)
(* message_start leaves nothing, it is void.                               *)
(*                                                                         *)
(* What the tree looks like is in ClientTree and Conversation; here a leg  *)
(* has one answer node, and its text is told apart only by whose it is.    *)
(***************************************************************************)
EXTENDS Integers, Sequences, FiniteSets, SequencesExt

CONSTANTS
  Sessions,
  First,        \* the session shown first
  MaxLegs,      \* bound on the legs, started or queued
  MaxDrops,     \* connections in a row that break before the hook gives up
  Budget        \* bound on what disturbs a run: switches, Stops, faults, ...

ASSUME Bounds ==
  /\ First \in Sessions
  /\ {MaxLegs, Budget} \subseteq Nat /\ MaxDrops \in Nat \ {0}

VARIABLES
  hook,     \* the refs of the hook
  legs,     \* legs[i]: the i-th leg
  posts,    \* the legs whose POST is on its way
  stops,    \* the sessions whose DELETE /active-run is on its way
  loads,    \* the sessions whose history is being fetched
  turns,    \* turns[i]: the i-th turn on the server
  saved,    \* saved[s]: the turns whose answers are rows of s, oldest first
  spent,    \* how much of the budget is used
  faulty,   \* a connection broke or a query failed
  crossed   \* a leg began while another was under way, the user pressed Stop, or the
            \* session changed

server == <<turns, saved>>
bounds == <<spent, faulty>>
vars == <<hook, legs, posts, stops, loads, server, bounds, crossed>>

(* view: sessionId; streaming: isStreamingRef; shown: isStreaming; abort,  *)
(* reader: the legs abortRef and readerRef belong to, or 0; queue: the     *)
(* prompts of queueRef; sent, removed: those that left it; asked: prompts  *)
(* so far; blank: the tree has no node; owed: a compare or continue leg    *)
(* ended and drained nothing.                                              *)
EmptyHook ==
  [view |-> First, streaming |-> FALSE, shown |-> FALSE, abort |-> 0, reader |-> 0,
   queue |-> << >>, sent |-> << >>, removed |-> {}, asked |-> 0,
   blank |-> TRUE, owed |-> FALSE]

(* kind: what began it; session, turn: whose stream it reads; known:       *)
(* lastServerMessageId is set (no column has one); ended: the last event   *)
(* was heard; cut: its reader was cancelled; text: the turn whose          *)
(* whole answer its node holds, or 0; error: an error is shown; early: its *)
(* resume was refused before the answer was saved; group: the first column *)
(* of its comparison, or 0.                                                *)
NewLeg(kind, session, turn) ==
  [kind |-> kind, session |-> session, turn |-> turn,
   pc |-> CASE kind = "resume" -> "drive" [] kind = "continue" -> "read" [] OTHER -> "post",
   known |-> kind = "resume", ended |-> FALSE, cut |-> FALSE, aborted |-> FALSE,
   drops |-> 0, text |-> 0, error |-> FALSE, early |-> FALSE, group |-> 0]

Done(l) == legs[l].pc = "done"

(* The bounds: a second disturbance costs as much as two legs.             *)
Used == Len(legs) + Len(hook.queue)

Room == Used < MaxLegs /\ Used + 2 * spent < MaxLegs + 2

Disturb == spent < Budget /\ Used + 2 * spent <= MaxLegs /\ spent' = spent + 1

Spend == Disturb /\ UNCHANGED faulty

Fault == Disturb /\ faulty' = TRUE

---------------------------------------------------------------------------
(* What one step does to the refs and the legs: a page is both of them.    *)

Page == [hook |-> hook, legs |-> legs]

Becomes(p) == hook' = p.hook /\ legs' = p.legs

(* abortRef.current?.abort(); readerRef.current.cancel().                  *)
Silence(p) ==
  [legs |-> [l \in DOMAIN p.legs |->
               [p.legs[l] EXCEPT !.aborted = @ \/ l = p.hook.abort,
                                 !.cut = @ \/ l = p.hook.reader]],
   hook |-> [p.hook EXCEPT !.reader = 0]]

(* The first statements of streamTurn and continueMessage.                 *)
Begun(p, leg) ==
  LET q == IF p.hook.streaming THEN Silence(p) ELSE p
  IN [legs |-> Append(q.legs, leg),
      hook |-> [q.hook EXCEPT !.streaming = TRUE, !.shown = TRUE, !.blank = FALSE,
                              !.abort = Len(q.legs) + 1]]

(* dispatchSend, from send or from drainQueueRef.                          *)
Dispatched(p, m) ==
  Begun([p EXCEPT !.hook.sent = Append(@, m)], NewLeg("turn", p.hook.view, 0))

(* Mutant of Drained: the newest prompt leaves first. *)
DrainedLast(p) ==
  IF p.hook.streaming \/ p.hook.queue = << >> THEN p
  ELSE Dispatched([p EXCEPT !.hook.queue = Front(@)], Last(p.hook.queue))

Drained(p) ==
  IF p.hook.streaming \/ p.hook.queue = << >> THEN p
  ELSE Dispatched([p EXCEPT !.hook.queue = Tail(@)], Head(p.hook.queue))

(* Mutant of Finished: no leg drains the queue. *)
FinishedSilently(p, l) ==
  LET q == [p EXCEPT !.legs[l].pc = "done", !.hook.streaming = FALSE, !.hook.shown = FALSE]
  IN IF p.legs[l].kind \in {"turn", "resume"}
     THEN Silence([q EXCEPT !.hook.abort = 0]) ELSE [q EXCEPT !.hook.owed = TRUE]

(* The other columns of a comparison that go on.                           *)
Beside(p, l) ==
  {k \in DOMAIN p.legs \ {l} :
     p.legs[l].group # 0 /\ p.legs[k].group = p.legs[l].group /\ p.legs[k].pc # "done"}

(* The finally blocks. That of streamTurn clears the refs whoever holds    *)
(* them, cancels the reader and drains the queue; that of continueMessage  *)
(* clears all but the reader, that of sendCompare the two flags only, once *)
(* all columns are done.                                                   *)
Finished(p, l) ==
  LET ended == [p EXCEPT !.legs[l].pc = "done", !.legs[l].drops = 0]
      q == [ended EXCEPT !.hook.streaming = FALSE, !.hook.shown = FALSE]
  IN CASE p.legs[l].kind \in {"turn", "resume"} -> Drained(Silence([q EXCEPT !.hook.abort = 0]))
       [] p.legs[l].kind = "continue" -> [q EXCEPT !.hook.abort = 0, !.hook.owed = TRUE]
       [] p.legs[l].kind = "compare" ->
            IF Beside(p, l) # {} THEN ended ELSE [q EXCEPT !.hook.owed = TRUE]

(* Mutant of Unread: the reader is never forgotten. *)
UnreadNothing(p, l) == [p EXCEPT !.legs[l].cut = FALSE]

(* readFrom's finally: only its own reader is forgotten.                   *)
Unread(p, l) ==
  [p EXCEPT !.hook.reader = IF @ = l THEN 0 ELSE @, !.legs[l].cut = FALSE]

(* driveToTerminal returns: a resume leg asks once more for the answer.    *)
Driven(p, l) ==
  IF p.legs[l].kind = "resume" THEN [p EXCEPT !.legs[l].pc = "final"] ELSE Finished(p, l)

At(l, pcs) == legs[l].pc \in pcs

---------------------------------------------------------------------------
(* What the user does.                                                     *)

Send ==
  /\ Room
  /\ LET m == hook.asked + 1
         p == [Page EXCEPT !.hook.asked = m]
     IN Becomes(IF hook.streaming THEN [p EXCEPT !.hook.queue = Append(@, m)]
                ELSE Dispatched(p, m))
  /\ posts' = IF hook.streaming THEN posts ELSE posts \union {Len(legs) + 1}
  /\ UNCHANGED <<stops, loads, server, bounds, crossed>>

(* The prompt at i; no two in the queue have one id.                       *)
RemoveQueued(i) ==
  /\ i \in DOMAIN hook.queue
  /\ Spend
  /\ hook' = [hook EXCEPT !.queue = RemoveAt(@, i), !.removed = @ \union {hook.queue[i]}]
  /\ UNCHANGED <<legs, posts, stops, loads, server, crossed>>

(* editMessage at any time; regenerate once the answer looks complete.     *)
Again ==
  /\ Room /\ ~hook.blank /\ Spend
  /\ Becomes(Begun(Page, NewLeg("turn", hook.view, 0)))
  /\ posts' = posts \union {Len(legs) + 1}
  /\ crossed' = (crossed \/ \E l \in DOMAIN legs : ~Done(l))
  /\ UNCHANGED <<stops, loads, server>>

(* continueMessage: its URL names a node of this page, whose id is not the *)
(* server's, and the refusal ends it like a stream without events.         *)
Continue ==
  /\ Room /\ ~hook.blank /\ ~hook.shown /\ Spend
  /\ Becomes(Begun(Page, NewLeg("continue", hook.view, 0)))
  /\ crossed' = (crossed \/ \E l \in DOMAIN legs : ~Done(l))
  /\ UNCHANGED <<posts, stops, loads, server>>

(* sendCompare, or regenerateCompare with one column: every column posts   *)
(* for itself, outside the tree; no guard, no abort. Two columns are begun *)
(* only where three legs fit.                                              *)
Compare(n) ==
  /\ Room /\ Used + 2 * n - 1 <= MaxLegs /\ Spend
  /\ LET first == Len(legs) + 1
         column == [NewLeg("compare", hook.view, 0) EXCEPT !.group = first]
     IN /\ legs' = legs \o [c \in 1 .. n |-> column]
        /\ posts' = posts \union (first .. Len(legs'))
  /\ hook' = [hook EXCEPT !.streaming = TRUE, !.shown = TRUE]
  /\ crossed' = (crossed \/ \E l \in DOMAIN legs : ~Done(l))
  /\ UNCHANGED <<stops, loads, server>>

Comparing == {l \in DOMAIN legs : legs[l].kind = "compare" /\ ~Done(l)}

StopButton ==
  /\ hook.shown /\ Spend
  /\ legs' = [l \in DOMAIN legs |->
                [legs[l] EXCEPT !.aborted = @ \/ l = hook.abort \/ l \in Comparing]]
  /\ hook' = [hook EXCEPT !.streaming = FALSE, !.shown = FALSE]
  /\ stops' = stops \union {hook.view}
  /\ crossed' = TRUE
  /\ UNCHANGED <<posts, loads, server>>

(* The effect on sessionId: the queue and abortRef keep what they hold.    *)
SwitchSession(s) ==
  /\ s # hook.view /\ Spend
  /\ LET aborted == [l \in DOMAIN legs |-> [legs[l] EXCEPT !.aborted = @ \/ l \in Comparing]]
         p == Silence([hook |-> hook, legs |-> aborted])
     IN Becomes([p EXCEPT !.hook.view = s, !.hook.streaming = FALSE, !.hook.shown = FALSE,
                          !.hook.blank = TRUE])
  /\ loads' = loads \union {s}
  /\ crossed' = TRUE
  /\ UNCHANGED <<posts, stops, server>>

---------------------------------------------------------------------------
(* loadHistory, and the resume of a run it finds, in the session that is   *)
(* shown by then (resumeActiveRunRef).                                     *)

Open(s) == {t \in DOMAIN turns : turns[t].session = s /\ turns[t].phase \notin {"gone", "void"}}

History(s) == {t \in DOMAIN turns : turns[t].session = s}

Loaded(s) ==
  /\ s \in loads
  /\ loads' = loads \ {s}
  /\ IF Open(s) # {} /\ ~hook.streaming /\ Room
     THEN \E t \in Open(s) :
            /\ \A u \in Open(s) : u <= t
            /\ Becomes(Begun(Page, NewLeg("resume", hook.view, t)))
            /\ crossed' = (crossed \/ \E l \in DOMAIN legs : ~Done(l))
     ELSE /\ hook' = [hook EXCEPT !.blank = @ /\ History(s) = {}]
          /\ UNCHANGED <<legs, crossed>>
  /\ UNCHANGED <<posts, stops, server, bounds>>

LoadFails(s) ==
  /\ s \in loads /\ Fault
  /\ loads' = loads \ {s}
  /\ UNCHANGED <<hook, legs, posts, stops, server, crossed>>

---------------------------------------------------------------------------
(* The server.                                                             *)

(* The turns that columns read.                                            *)
Columns == {legs[l].turn : l \in {k \in DOMAIN legs : legs[k].kind = "compare"}}

(* abortRun, or the abort in registerRun: the session's turn is cut short. *)
Halted(ts, s) ==
  [t \in DOMAIN ts |->
     IF ts[t].session = s /\ ts[t].phase = "running"
     THEN [ts[t] EXCEPT !.phase = "stopped", !.cut = t \in Columns] ELSE ts[t]]

NewTurn(s, phase) == [session |-> s, phase |-> phase, cut |-> FALSE]

(* A POST arrives, be its leg aborted or not: the session's turn is        *)
(* replaced (registerRun).                                                 *)
Arrive(l) ==
  /\ l \in posts
  /\ posts' = posts \ {l}
  /\ turns' = Append(Halted(turns, legs[l].session), NewTurn(legs[l].session, "running"))
  /\ legs' = [legs EXCEPT ![l].turn = Len(turns) + 1]
  /\ UNCHANGED <<hook, stops, loads, saved, bounds, crossed>>

StopArrives(s) ==
  /\ s \in stops
  /\ stops' = stops \ {s}
  /\ turns' = Halted(turns, s)
  /\ UNCHANGED <<hook, legs, posts, loads, saved, bounds, crossed>>

(* Mutant of TurnCloses: the run is closed before the answer is saved. *)
TurnClosesFirst(t) ==
  \/ /\ turns[t].phase \in {"stopped", "failed"}
     /\ turns' = [turns EXCEPT ![t].phase = "gone"]
     /\ UNCHANGED <<hook, legs, posts, stops, loads, saved, bounds, crossed>>
  \/ /\ turns[t].phase = "gone" /\ ~Contains(saved[turns[t].session], t)
     /\ saved' = [saved EXCEPT ![turns[t].session] = Append(@, t)]
     /\ UNCHANGED <<hook, legs, posts, stops, loads, turns, bounds, crossed>>

(* The final stop, or an exception, a fault.                               *)
TurnStops(t) ==
  /\ turns[t].phase = "running"
  /\ \/ turns' = [turns EXCEPT ![t].phase = "stopped"] /\ UNCHANGED bounds
     \/ turns' = [turns EXCEPT ![t].phase = "failed"] /\ Fault
  /\ UNCHANGED <<hook, legs, posts, stops, loads, saved, crossed>>

TurnCloses(t) ==
  /\ turns[t].phase \in {"stopped", "failed"}
  /\ \/ /\ turns' = [turns EXCEPT ![t].phase = "gone"]
        /\ \/ saved' = [saved EXCEPT ![turns[t].session] = Append(@, t)] /\ UNCHANGED bounds
           \/ Fault /\ UNCHANGED saved
     \/ /\ \A l \in DOMAIN legs : legs[l].turn = t => ~legs[l].known /\ ~legs[l].ended
        /\ turns' = [turns EXCEPT ![t].phase = "void"]
        /\ UNCHANGED <<saved, bounds>>
  /\ UNCHANGED <<hook, legs, posts, stops, loads, crossed>>

---------------------------------------------------------------------------
(* The legs.                                                               *)

Phase(l) == turns[legs[l].turn].phase

env == <<posts, stops, loads, server, crossed>>

(* The answer to the POST comes.                                           *)
Reply(l) ==
  /\ At(l, {"post"}) /\ ~legs[l].aborted /\ legs[l].turn # 0
  /\ Becomes([Page EXCEPT !.legs[l].pc = "read",
                          !.hook.reader = IF legs[l].kind = "compare" THEN @ ELSE l])
  /\ UNCHANGED <<env, bounds>>

(* ... or does not: a column says so, a turn's leg ends without a word.    *)
PostFails(l) ==
  /\ At(l, {"post"}) /\ ~legs[l].aborted /\ Fault
  /\ Becomes(Finished([Page EXCEPT !.legs[l].error = legs[l].kind = "compare"], l))
  /\ posts' = (posts \ {l}) \union (DOMAIN legs' \ DOMAIN legs)
  /\ UNCHANGED <<stops, loads, server, crossed>>

(* A leg that begins from a finally block posts as well.                   *)
Ends(p) ==
  /\ Becomes(p)
  /\ posts' = posts \union (DOMAIN p.legs \ DOMAIN legs)

MessageStart(l) ==
  /\ At(l, {"read"}) /\ legs[l].kind = "turn" /\ ~legs[l].cut /\ ~legs[l].aborted
  /\ ~legs[l].known /\ Phase(l) # "void"
  /\ legs' = [legs EXCEPT ![l].known = TRUE]
  /\ UNCHANGED <<hook, env, bounds>>

(* The final stop, or an error event, which only the POST's stream hears;  *)
(* who resumed hears a stop when the run is closed.                        *)
LastEvent(l) ==
  /\ At(l, {"read", "rread"}) /\ (legs[l].known \/ legs[l].kind = "compare")
  /\ ~legs[l].ended /\ ~legs[l].cut /\ ~legs[l].aborted
  /\ Phase(l) \in IF At(l, {"read"}) THEN {"stopped", "failed", "gone"} ELSE {"stopped", "gone"}
  /\ legs' = [legs EXCEPT ![l].ended = TRUE, ![l].text = legs[l].turn]
  /\ hook' = IF legs[l].kind = "compare" THEN hook ELSE [hook EXCEPT !.shown = FALSE]
  /\ UNCHANGED <<env, bounds>>

(* Mutant of StreamEnds: the connection of the POST is counted as well. *)
StreamEndsCounted(l) ==
  /\ At(l, {"read", "rread"}) /\ legs[l].kind \in {"turn", "resume"}
  /\ \/ legs[l].cut /\ UNCHANGED bounds
     \/ Phase(l) = "gone" /\ legs[l].ended /\ UNCHANGED bounds
     \/ Phase(l) = "void" /\ UNCHANGED bounds
     \/ Fault
  /\ LET p == Unread(Page, l)
         n == legs[l].drops + 1
     IN Ends(IF legs[l].ended THEN Driven(p, l)
             ELSE IF ~legs[l].known THEN Finished(p, l)
             ELSE IF At(l, {"read"}) THEN [p EXCEPT !.legs[l].drops = n, !.legs[l].pc = "drive"]
             ELSE [p EXCEPT !.legs[l].drops = n,
                            !.legs[l].pc = IF n < MaxDrops THEN "drive" ELSE "recover"])
  /\ UNCHANGED <<stops, loads, server, crossed>>

(* The stream is over: closed by the server, cancelled or broken.          *)
StreamEnds(l) ==
  /\ At(l, {"read", "rread"}) /\ legs[l].kind \in {"turn", "resume"}
  /\ \/ legs[l].cut /\ UNCHANGED bounds
     \/ Phase(l) = "gone" /\ legs[l].ended /\ UNCHANGED bounds
     \/ Phase(l) = "void" /\ UNCHANGED bounds
     \/ Fault
  /\ LET p == Unread(Page, l)
         n == legs[l].drops + 1
     IN Ends(IF legs[l].ended THEN Driven(p, l)
             ELSE IF ~legs[l].known THEN Finished(p, l)
             ELSE IF At(l, {"read"}) THEN [p EXCEPT !.legs[l].pc = "drive"]
             ELSE [p EXCEPT !.legs[l].drops = n,
                            !.legs[l].pc = IF n < MaxDrops THEN "drive" ELSE "recover"])
  /\ UNCHANGED <<stops, loads, server, crossed>>

(* The session the leg asks for its run.                                   *)
OfSession(l) == turns[legs[l].turn].session = legs[l].session

(* resumeLeg: the run is open, or refused, or out of reach. Refused is a   *)
(* run of another session (404), one that is terminal or closed (410, 404) *)
(* and one whose only subscriber is another client, or a connection that   *)
(* is not yet known to be dead (409, a disturbance): the client makes no   *)
(* difference. A turn that failed is not terminal before it is closed.     *)
Resume(l) ==
  /\ At(l, {"drive"}) /\ ~legs[l].aborted
  /\ \/ /\ Phase(l) \in {"running", "failed"} /\ OfSession(l)
        /\ Becomes([Page EXCEPT !.legs[l].pc = "rread", !.hook.reader = l])
        /\ UNCHANGED bounds
     \/ /\ \/ (Phase(l) \in {"stopped", "gone"} \/ ~OfSession(l)) /\ UNCHANGED bounds
           \/ Phase(l) \in {"running", "failed"} /\ Spend
        /\ Becomes([Page EXCEPT !.legs[l].pc = "recover",
                                !.legs[l].early = @ \/ Phase(l) # "gone"])
     \/ /\ Fault
        /\ Becomes([Page EXCEPT !.legs[l].pc = "recover"])
  /\ UNCHANGED env

(* recoverFinalMessage: the newest answer of the session, whosever it is;  *)
(* a longer text of its own may stand.                                     *)
Found(l, ok) == ok /\ saved[legs[l].session] # << >>

Texts(l) == {Last(saved[legs[l].session])} \union {legs[l].text}

(* Mutant of Recover: what is not found is not reported. *)
RecoverQuietly(l) ==
  /\ At(l, {"recover"})
  /\ \E ok \in BOOLEAN :
       /\ IF ok THEN UNCHANGED bounds ELSE Fault
       /\ IF Found(l, ok)
          THEN \E t \in Texts(l) : Ends(Driven([Page EXCEPT !.legs[l].ended = TRUE, !.legs[l].text = t], l))
          ELSE Ends(Driven(Page, l))
  /\ UNCHANGED <<stops, loads, server, crossed>>

Recover(l) ==
  /\ At(l, {"recover"})
  /\ \E ok \in BOOLEAN :
       /\ IF ok THEN UNCHANGED bounds ELSE Fault
       /\ IF Found(l, ok)
          THEN \E t \in Texts(l) : Ends(Driven([Page EXCEPT !.legs[l].ended = TRUE, !.legs[l].text = t], l))
          ELSE Ends(Driven([Page EXCEPT !.legs[l].error = TRUE], l))
  /\ UNCHANGED <<stops, loads, server, crossed>>

RecoverOnceMore(l) ==
  /\ At(l, {"final"})
  /\ \E ok \in BOOLEAN :
       /\ IF ok THEN UNCHANGED bounds ELSE Fault
       /\ IF Found(l, ok) THEN \E t \in Texts(l) : Ends(Finished([Page EXCEPT !.legs[l].text = t], l))
                          ELSE Ends(Finished(Page, l))
  /\ UNCHANGED <<stops, loads, server, crossed>>

(* An await of an aborted leg rejects.                                     *)
Unwind(l) ==
  /\ At(l, {"post", "read", "rread", "drive"}) /\ legs[l].aborted
  /\ Ends(Driven(Unread(Page, l), l))
  /\ UNCHANGED <<stops, loads, server, bounds, crossed>>

(* The end of a column: its stream is over, or breaks with or without an   *)
(* error.                                                                  *)
ColumnEnds(l) ==
  /\ At(l, {"read"}) /\ legs[l].kind = "compare" /\ ~legs[l].aborted
  /\ \E broken \in BOOLEAN :
       /\ IF broken THEN Fault
          ELSE (Phase(l) = "void" \/ (Phase(l) = "gone" /\ legs[l].ended)) /\ UNCHANGED bounds
       /\ \E shown \in {FALSE, broken} :
            Ends(Finished([Page EXCEPT !.legs[l].error = shown], l))
  /\ UNCHANGED <<stops, loads, server, crossed>>

ContinueEnds(l) ==
  /\ At(l, {"read"}) /\ legs[l].kind = "continue"
  /\ Ends(Finished(Page, l))
  /\ UNCHANGED <<stops, loads, server, bounds, crossed>>

---------------------------------------------------------------------------
(* The page is opened, or reloaded while a turn runs, the first or the     *)
(* second of its session, a disturbance.                                   *)
Init ==
  /\ hook = EmptyHook /\ legs = << >> /\ posts = {} /\ stops = {} /\ loads = {First}
  /\ turns \in {<< >>, <<NewTurn(First, "running")>>,
                <<NewTurn(First, "gone"), NewTurn(First, "running")>>}
  /\ saved = [s \in Sessions |-> IF s = First /\ Len(turns) = 2 THEN <<1>> ELSE << >>]
  /\ spent = (IF turns = << >> THEN 0 ELSE 1) /\ faulty = FALSE /\ crossed = FALSE

User ==
  \/ Send \/ Again \/ Continue \/ StopButton
  \/ \E n \in 1 .. 2 : Compare(n)
  \/ \E i \in DOMAIN hook.queue : RemoveQueued(i)
  \/ \E s \in Sessions : SwitchSession(s)

Leg(l) ==
  \/ Reply(l) \/ PostFails(l) \/ MessageStart(l) \/ LastEvent(l) \/ StreamEnds(l)
  \/ Resume(l) \/ Recover(l) \/ RecoverOnceMore(l) \/ Unwind(l) \/ ColumnEnds(l)
  \/ ContinueEnds(l)

Server ==
  \/ \E l \in posts : Arrive(l)
  \/ \E s \in stops : StopArrives(s)
  \/ \E s \in loads : Loaded(s) \/ LoadFails(s)
  \/ \E t \in DOMAIN turns : TurnStops(t) \/ TurnCloses(t)

Work == Server \/ \E l \in DOMAIN legs : Leg(l)

Next == User \/ Work

Spec == Init /\ [][Next]_vars

(* Replies come or time out, turns end, and a promise that settles runs    *)
(* what waits for it.                                                      *)
FairSpec == Spec /\ WF_vars(Work)

---------------------------------------------------------------------------
Pcs == {"post", "read", "drive", "rread", "recover", "final", "done"}

(* The state is well typed.                                                *)
TypeOK ==
  /\ {hook.streaming, hook.shown, hook.blank, hook.owed, crossed} \subseteq BOOLEAN
  /\ {hook.view} \union stops \union loads \subseteq Sessions
  /\ {hook.abort, hook.reader} \subseteq 0 .. Len(legs) /\ posts \subseteq DOMAIN legs
  /\ Range(hook.queue) \union Range(hook.sent) \union hook.removed \subseteq 1 .. hook.asked
  /\ \A l \in DOMAIN legs : legs[l].pc \in Pcs /\ legs[l].drops \in 0 .. MaxDrops
  /\ \A t \in DOMAIN turns : turns[t].phase \in {"running", "stopped", "failed", "gone", "void"}

(* As long as nothing crosses, the refs tell the truth: one leg writes at  *)
(* most, or the columns of one comparison, isStreamingRef says whether any *)
(* does, abortRef and readerRef belong to the leg, and so Stop, the queue  *)
(* and the overlap guard reach it.                                         *)
RefsFollowTheLeg ==
  ~crossed =>
    \A l \in DOMAIN legs : ~Done(l) =>
      /\ hook.streaming
      /\ {k \in DOMAIN legs : ~Done(k)} = {l} \union Beside(Page, l)
      /\ legs[l].kind # "compare" => hook.abort = l
      /\ hook.reader # 0 <=> legs[l].kind \in {"turn", "resume"} /\ legs[l].pc \in {"read", "rread"}

(* A leg that was not aborted and had begun to answer never just stops: it *)
(* ends with the last event, with an answer recovered, or with an error    *)
(* that is shown (driveToTerminal), whatever breaks or overlaps. A column  *)
(* may: streamCompareLeg only clears its shimmer.                          *)
NoSilentEnd ==
  \A l \in DOMAIN legs :
    Done(l) /\ legs[l].known /\ ~legs[l].aborted =>
      legs[l].ended \/ legs[l].error

(* An answer that nothing broke is the leg's own, resumed or not: the row  *)
(* is there before the run is closed (messages.ts: the insert comes before *)
(* finishMessageRuns, so that recoverFinalMessage finds it). A resume that *)
(* is refused early finds the answer before: one that comes between the    *)
(* final stop and the insert, or while another client holds the only       *)
(* subscription of a turn that runs. Both are left out.                    *)
RecoveredIsOwn ==
  ~faulty /\ ~crossed =>
    \A l \in DOMAIN legs : ~legs[l].early => legs[l].text \in {0, legs[l].turn}

(* Whatever crosses, no prompt is lost, sent twice or sent after it was    *)
(* removed; and as long as nothing crosses, and no leg left the queue as   *)
(* it was, prompts are sent in the order they were asked in (send,         *)
(* removeQueued, drainQueueRef).                                           *)
QueueIsFifo ==
  /\ IsInjective(hook.sent \o hook.queue)
  /\ Range(hook.sent \o hook.queue) = 1 .. hook.asked \ hook.removed
  /\ ~crossed /\ ~hook.owed => \A i, j \in DOMAIN (hook.sent \o hook.queue) :
                   i < j => (hook.sent \o hook.queue)[i] < (hook.sent \o hook.queue)[j]

(* Whatever breaks, every leg ends, and what is queued is sent or removed, *)
(* unless a compare or continue leg, which drains nothing, was the last.   *)
LegsEndAndQueueDrains ==
  []<>((\A l \in DOMAIN legs : Done(l)) /\ (hook.queue = << >> \/ hook.owed))

(* Each model of a comparison is said to stream its answer into its own    *)
(* column: unless the user or a failure interferes, no column's answer is  *)
(* cut short.                                                              *)
ColumnsAreWhole ==
  ~faulty /\ ~crossed =>
    \A l \in DOMAIN legs :
      Done(l) /\ legs[l].kind = "compare" => ~turns[legs[l].turn].cut
===========================================================================
