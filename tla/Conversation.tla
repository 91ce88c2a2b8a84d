--------------------------- MODULE Conversation ---------------------------
(***************************************************************************)
(* One conversation seen from both ends: the tree the web client shows     *)
(* (ClientTree, useSessionStream.ts) and the rows of the messages table    *)
(* that POST /:id/messages, DELETE /:id/messages/:mid and the import       *)
(* write (routes/messages.ts, routes/sessions.ts).                         *)
(*                                                                         *)
(* The client names a message by a local id until the page is reloaded and *)
(* never learns the id of its row; the server gives every prompt row the   *)
(* parent null and saves the answer after it has sent the last event. Each *)
(* request, query and event is a step. Text, models, tools and the wire    *)
(* format are left out; what the stream does when it breaks or overlaps    *)
(* another is in SessionStream.                                            *)
(***************************************************************************)
EXTENDS ClientTree

CONSTANTS
  MaxTurns,    \* bound on the turns the server starts
  MaxRows,     \* no turn is asked for once so many rows have been inserted
  MaxLegs,     \* bound on the message_start events of one turn
  MaxDeletes,  \* bound on the deletions the user asks for
  MaxReloads,  \* bound on the reloads of the page
  MaxFaults,   \* bound on failed queries and connections
  Imported,    \* how many messages an imported conversation may have
  Page,        \* how many rows GET /:id/messages returns
  Listed       \* how many rows the deletion of a message looks at

ASSUME Bounds ==
  /\ {MaxTurns, MaxRows, MaxLegs, MaxDeletes, MaxReloads, MaxFaults} \subseteq Nat
  /\ Imported \in SUBSET Nat /\ {Page, Listed} \subseteq Nat \ {0}

VARIABLES
  tree,     \* the client's tree
  fresh,    \* local ids made so far; the next one is -(fresh + 1)
  leg,      \* the turn the client is streaming
  del,      \* the deletion in progress
  rows,     \* the rows of the conversation, in the order of created_at
  serial,   \* rows inserted so far; the number of one is its id
  turns,    \* turns[i]: where the server is with its i-th turn
  deletes,
  reloads,
  faults,
  rowOf,    \* rowOf[n]: the first row that holds the message of node n
  tangled,  \* an edit, retry, tool, failure or deletion made siblings differ
  loose     \* the rows that a failure, a race or a long list may leave alone

client == <<tree, fresh, leg, reloads>>
server == <<rows, serial, turns>>
ghosts == <<rowOf, tangled, loose>>
vars == <<client, del, deletes, server, faults, ghosts>>

Roles == {"user", "assistant"}

NoLeg == [pc |-> "idle", turn |-> 0, prompt |-> None, node |-> None]

NoDelete == [pc |-> "none", node |-> None, target |-> None, todo |-> {},
             chain |-> << >>, snapshot |-> EmptyTree]

RowIds == {rows[i].id : i \in DOMAIN rows}

Row(id) == CHOOSE r \in Range(rows) : r.id = id

(* The n oldest rows: what one query of the conversation returns.          *)
Oldest(n) == SubSeq(rows, 1, IF Len(rows) < n THEN Len(rows) ELSE n)

(* The rows that the DELETE handler sees: never more than a thousand.      *)
Listing == Oldest(Listed)

(* Mutant of Below: only the row itself.                                   *)
BelowNothing(id) == {id}

(* The rows below id, itself included, as the DELETE handler lists them.   *)
Below(id) ==
  LET down[n \in 0 .. Len(Listing)] ==
        IF n = 0 THEN {id}
        ELSE LET above == down[n - 1]
             IN above \union {r.id : r \in {q \in Range(Listing) : q.parent \in above}}
  IN down[Len(Listing)]

(* What hangs under a row of ids and is not in the listing.                *)
Overlooked(ids) ==
  {r.id : r \in {q \in Range(rows) \ Range(Listing) : q.parent \in ids}}

Fault == faults < MaxFaults /\ faults' = faults + 1

---------------------------------------------------------------------------
(* Rows.                                                                   *)

Inserted(rs, id, role, p) == Append(rs, [id |-> id, role |-> role, parent |-> p])

(* ON DELETE SET NULL.                                                     *)
WithoutRow(rs, id) ==
  LET at == {i \in DOMAIN rs : rs[i].id = id}
      kept == IF at = {} THEN rs ELSE RemoveAt(rs, Max(at))
  IN [i \in DOMAIN kept |-> [kept[i] EXCEPT !.parent = IF @ = id THEN None ELSE @]]

(* POST /sessions/import: k messages, each the parent of the next.         *)
ImportedRows(k) ==
  [i \in 1 .. k |-> [id |-> i, role |-> IF i % 2 = 1 THEN "user" ELSE "assistant",
                     parent |-> i - 1]]

(* loadHistory: the rows of the first page, each under its parent.         *)
FirstPage == Oldest(Page)

Restored(rs) ==
  LET built[n \in 0 .. Len(rs)] ==
        IF n = 0 THEN EmptyTree ELSE AddNode(built[n - 1], rs[n].id, rs[n].parent, rs[n].role)
  IN built[Len(rs)]

---------------------------------------------------------------------------
(* Sending a prompt. The client handles one turn at a time here.           *)

NewId == -(fresh + 1)

Begin(prompt) == leg' = [NoLeg EXCEPT !.pc = "posting", !.prompt = prompt]

CanBegin == leg = NoLeg /\ Len(turns) < MaxTurns /\ serial < MaxRows

(* dispatchSend, editMessage: a new prompt under the tip, or beside the    *)
(* prompt that is edited.                                                  *)
Ask(p) ==
  /\ tree' = AddNode(tree, NewId, p, "user")
  /\ fresh' = fresh + 1
  /\ Begin(NewId)

Send ==
  /\ CanBegin
  /\ Ask(Tip(tree))
  /\ UNCHANGED <<del, deletes, reloads, server, faults, ghosts>>

Edit(id) ==
  /\ CanBegin /\ tree.role[id] = "user"
  /\ Ask(tree.parent[id])
  /\ tangled' = TRUE
  /\ UNCHANGED <<del, deletes, reloads, server, faults, rowOf, loose>>

(* regenerate: the prompt above the answer is posted again as it stands.   *)
Regenerate(id) ==
  /\ CanBegin /\ tree.role[id] = "assistant" /\ PromptAbove(tree, id) # None
  /\ Begin(PromptAbove(tree, id))
  /\ tangled' = TRUE
  /\ UNCHANGED <<tree, fresh, del, deletes, reloads, server, faults, rowOf, loose>>

SwitchBranch(id, d) ==
  /\ leg = NoLeg /\ CanSwitch(tree, id, d)
  /\ tree' = Switch(tree, id, d)
  /\ UNCHANGED <<fresh, leg, reloads, del, deletes, server, faults, ghosts>>

---------------------------------------------------------------------------
(* The turn on the server.                                                 *)

Stopped(ts) == [i \in DOMAIN ts |-> [ts[i] EXCEPT !.phase = IF @ = "running" THEN "stopped" ELSE @]]

NewTurn(prompt, row) ==
  [phase |-> "running", row |-> row, prompt |-> prompt, node |-> None, legs |-> 0]

(* The POST handler up to the stream: the prompt is saved without a parent *)
(* (best effort), and registerRun aborts the turn still running.           *)
Post(saved) ==
  /\ leg.pc = "posting"
  /\ IF saved THEN /\ rows' = Inserted(rows, serial + 1, "user", None)
                   /\ serial' = serial + 1
                   /\ rowOf' = Put(rowOf, leg.prompt, Lookup(rowOf, leg.prompt, serial + 1))
                   /\ UNCHANGED <<faults, tangled>>
              ELSE Fault /\ tangled' = TRUE /\ UNCHANGED <<rows, serial, rowOf>>
  /\ turns' = Append(Stopped(turns), NewTurn(leg.prompt, IF saved THEN serial + 1 ELSE None))
  /\ leg' = [leg EXCEPT !.pc = "streaming", !.turn = Len(turns) + 1]
  /\ UNCHANGED <<tree, fresh, reloads, del, deletes, loose>>

(* The POST fails, before or after the prompt is saved, and no event comes:*)
(* the client just stops.                                                  *)
PostFails(saved) ==
  /\ leg.pc = "posting" /\ Fault
  /\ IF saved THEN rows' = Inserted(rows, serial + 1, "user", None) /\ serial' = serial + 1
              ELSE UNCHANGED <<rows, serial>>
  /\ leg' = NoLeg /\ tangled' = TRUE
  /\ UNCHANGED <<tree, fresh, reloads, del, deletes, turns, rowOf, loose>>

Running(i) == i \in DOMAIN turns /\ turns[i].phase = "running"

(* message_start: a client on the stream of the POST adds an answer under  *)
(* the prompt. After a tool, the next leg of the turn starts another one.  *)
MessageStart(i) ==
  /\ Running(i) /\ turns[i].legs < MaxLegs
  /\ IF leg.turn = i /\ leg.pc = "streaming"
     THEN /\ tree' = AddNode(tree, NewId, leg.prompt, "assistant")
          /\ fresh' = fresh + 1
          /\ leg' = [leg EXCEPT !.node = NewId]
          /\ turns' = [turns EXCEPT ![i].legs = @ + 1, ![i].node = NewId]
     ELSE turns' = [turns EXCEPT ![i].legs = @ + 1] /\ UNCHANGED <<tree, fresh, leg>>
  /\ tangled' = (tangled \/ turns[i].legs > 0)
  /\ UNCHANGED <<reloads, del, deletes, rows, serial, faults, rowOf, loose>>

Hangs(n) == IF n = None THEN leg.prompt ELSE n

(* processEvent on "error", emitConnectionError: a node of the client only.*)
ErrorNode ==
  /\ tree' = AddNode(tree, NewId, Hangs(leg.node), "assistant")
  /\ fresh' = fresh + 1
  /\ leg' = NoLeg

(* Mutant of Stop: a turn without a client is left alone.                  *)
StopWithClient(i) ==
  /\ Running(i) /\ turns[i].legs > 0 /\ leg.turn = i
  /\ turns' = [turns EXCEPT ![i].phase = "stopped"]
  /\ leg' = NoLeg
  /\ UNCHANGED <<tree, fresh, reloads, del, deletes, rows, serial, faults, ghosts>>

(* The turn ends with a stop event, or with an error event.                *)
Stop(i) ==
  /\ Running(i) /\ turns[i].legs > 0
  /\ turns' = [turns EXCEPT ![i].phase = "stopped"]
  /\ leg' = IF leg.turn = i THEN NoLeg ELSE leg
  /\ UNCHANGED <<tree, fresh, reloads, del, deletes, rows, serial, faults, ghosts>>

(* The turn throws. Only the stream of the POST is told: a client that     *)
(* resumed waits until the run is closed.                                  *)
TurnFails(i) ==
  /\ Running(i) /\ Fault
  /\ turns' = [turns EXCEPT ![i].phase = "stopped"]
  /\ tangled' = TRUE
  /\ IF leg.turn = i /\ leg.pc = "streaming" THEN ErrorNode ELSE UNCHANGED <<tree, fresh, leg>>
  /\ UNCHANGED <<reloads, del, deletes, rows, serial, rowOf, loose>>

(* The client gives the stream up; the server goes on.                     *)
LoseStream ==
  /\ leg.pc \in {"streaming", "resuming"} /\ Fault
  /\ ErrorNode
  /\ tangled' = TRUE
  /\ UNCHANGED <<reloads, del, deletes, server, rowOf, loose>>

(* recoverFinalMessage: the newest answer there is, or an error.           *)
Recover ==
  IF \E r \in Range(rows') : r.role = "assistant"
  THEN leg' = NoLeg /\ UNCHANGED <<tree, fresh>>
  ELSE ErrorNode

(* The resumed stream is refused: the run is over, or another client holds *)
(* it.                                                                     *)
ResumeRefused ==
  /\ leg.pc = "resuming"
  /\ UNCHANGED <<reloads, del, deletes, server, faults, ghosts>>
  /\ Recover

(* A client that resumed after the last event hears nothing more until the *)
(* run is closed.                                                          *)
Release(i) == IF leg.turn = i THEN Recover ELSE UNCHANGED <<tree, fresh, leg>>

(* The finally block: the answer becomes a row under the prompt's row. The *)
(* foreign key refuses it once that row is gone; a failure is only logged. *)
Persist(i, ok) ==
  /\ turns[i].phase = "stopped"
  /\ LET t == turns[i]
         fits == t.legs > 0 /\ (t.row = None \/ t.row \in RowIds)
     IN IF fits /\ ok
        THEN /\ rows' = Inserted(rows, serial + 1, "assistant", t.row)
             /\ serial' = serial + 1
             /\ rowOf' = IF t.node = None THEN rowOf ELSE Put(rowOf, t.node, serial + 1)
             /\ turns' = [turns EXCEPT ![i].phase = "saved"]
             /\ loose' = loose \union
                            IF t.row = None \/ t.row \in del.todo THEN {serial + 1} ELSE {}
             /\ UNCHANGED <<faults, tangled>>
        ELSE /\ IF ok THEN UNCHANGED faults ELSE Fault
             /\ turns' = [turns EXCEPT ![i].phase = IF fits THEN "lost" ELSE "void"]
             /\ tangled' = TRUE
             /\ UNCHANGED <<rows, serial, rowOf, loose>>
  /\ Release(i)
  /\ UNCHANGED <<reloads, del, deletes>>

---------------------------------------------------------------------------
(* Mutant of LeftOfDelete: the roll-back outlives the page.                *)
DeleteKept == del

(* Of a deletion in progress, only what the handler does outlives the page.*)
LeftOfDelete == IF del.pc = "deleting" THEN [del EXCEPT !.node = None] ELSE NoDelete

(* A new page: nothing is left of the client but what the server returns;  *)
(* it resumes the newest run that is not over, with a new node at the tip. *)
Reload ==
  /\ reloads < MaxReloads /\ leg.pc # "posting"
  /\ reloads' = reloads + 1
  /\ LET restored == Restored(FirstPage)
         open == {i \in DOMAIN turns : turns[i].legs > 0 /\ turns[i].phase \in {"running", "stopped"}}
         top == Tip(restored)
         i == Max(open)
     IN IF open = {} \/ top = None
        THEN /\ tree' = restored /\ fresh' = 0 /\ leg' = NoLeg
             /\ rowOf' = [id \in RowIds |-> id]
             /\ turns' = [j \in DOMAIN turns |-> [turns[j] EXCEPT !.node = None]]
        ELSE /\ tree' = AddNode(restored, -1, top, "assistant")
             /\ fresh' = 1
             /\ leg' = [pc |-> "resuming", turn |-> i, prompt |-> top, node |-> -1]
             /\ rowOf' = [id \in RowIds |-> id]
             /\ turns' = [j \in DOMAIN turns |->
                            [turns[j] EXCEPT !.node = IF j = i THEN -1 ELSE None]]
  /\ del' = LeftOfDelete
  /\ tangled' = (tangled \/ \E i \in DOMAIN turns : turns[i].phase \in {"running", "stopped"})
  /\ UNCHANGED <<rows, serial, deletes, faults, loose>>

---------------------------------------------------------------------------
(* Deleting a message and everything under it.                             *)

(* The index of each ancestor among its siblings, root first.              *)
Indices(t, id) ==
  LET c == Chain(t, id)
      under(i) == ChildrenOf(t, Lookup(t.parent, c[i], Root))
  IN [i \in DOMAIN c |-> IF Contains(under(i), c[i]) THEN Position(under(i), c[i]) ELSE None]

Delete(id) ==
  /\ del = NoDelete /\ deletes < MaxDeletes
  /\ deletes' = deletes + 1
  /\ tree' = Prune(tree, id)
  /\ del' = [pc |-> IF id < 0 THEN "resolving" ELSE "asking", node |-> id,
             target |-> IF id < 0 THEN None ELSE id, todo |-> {},
             chain |-> IF id < 0 THEN Indices(tree, id) ELSE << >>, snapshot |-> tree]
  /\ UNCHANGED <<fresh, leg, reloads, server, faults, ghosts>>

RollBack ==
  /\ tree' = del.snapshot
  /\ del' = NoDelete
  /\ tangled' = TRUE

(* The i-th row of the page below p.                                       *)
NthBelow(p, i) ==
  LET below(k) == {j \in 1 .. k : FirstPage[j].parent = p}
      hits == {k \in below(Len(FirstPage)) : Cardinality(below(k)) = i}
  IN IF hits = {} THEN -1 ELSE FirstPage[Max(hits)].id

(* Mutant of RowAt: the search stops at the last ancestor that has a row.  *)
RowReached(chain) ==
  LET found[n \in 0 .. Len(chain)] ==
        IF n = 0 THEN {Root}
        ELSE {LET next == NthBelow(p, chain[n]) IN IF next = -1 THEN p ELSE next : p \in found[n - 1]}
  IN CHOOSE row \in found[Len(chain)] : TRUE

(* resolveServerMessageId: the row at the same indices below the roots, or *)
(* -1. Each found[n] holds the one row that the first n indices lead to.   *)
RowAt(chain) ==
  LET found[n \in 0 .. Len(chain)] ==
        IF n = 0 THEN {Root} ELSE {NthBelow(p, chain[n]) : p \in found[n - 1]}
  IN CHOOSE row \in found[Len(chain)] : TRUE

Resolve ==
  /\ del.pc = "resolving"
  /\ IF RowAt(del.chain) \in RowIds
     THEN /\ del' = [del EXCEPT !.pc = "asking", !.target = RowAt(del.chain)]
          /\ UNCHANGED <<tree, tangled>>
     ELSE RollBack
  /\ UNCHANGED <<fresh, leg, reloads, deletes, server, faults, rowOf, loose>>

(* The handler reads the rows of the conversation once.                    *)
Prepare ==
  /\ del.pc = "asking"
  /\ IF del.target \in RowIds
     THEN /\ del' = [del EXCEPT !.pc = "deleting", !.todo = Below(del.target)]
          /\ loose' = loose \union Overlooked(Below(del.target))
          /\ UNCHANGED <<tree, tangled>>
     ELSE RollBack /\ UNCHANGED loose
  /\ UNCHANGED <<fresh, leg, reloads, deletes, server, faults, rowOf>>

(* One row at a time, a parent before its children.                        *)
DeleteRow(id) ==
  /\ del.pc = "deleting" /\ id \in del.todo
  /\ id \in RowIds => Row(id).parent \notin del.todo
  /\ rows' = WithoutRow(rows, id)
  /\ del' = [del EXCEPT !.todo = @ \ {id}]
  /\ tangled' = TRUE
  /\ UNCHANGED <<client, deletes, serial, turns, faults, rowOf, loose>>

Deleted ==
  /\ del.pc = "deleting" /\ del.todo = {}
  /\ del' = NoDelete
  /\ UNCHANGED <<client, deletes, server, faults, ghosts>>

(* A query fails, and the handler with it; or only the reply is lost, and  *)
(* the handler goes on. The client rolls back in either case.              *)
DeleteFails ==
  /\ del # NoDelete /\ del.node # None
  /\ Fault
  /\ RollBack
  /\ loose' = loose \union del.todo
  /\ UNCHANGED <<fresh, leg, reloads, deletes, server, rowOf>>

LoseReply ==
  /\ del.pc = "deleting" /\ del.node # None
  /\ Fault
  /\ tree' = del.snapshot
  /\ del' = [del EXCEPT !.node = None]
  /\ tangled' = TRUE
  /\ UNCHANGED <<fresh, leg, reloads, deletes, server, rowOf, loose>>

---------------------------------------------------------------------------
Init ==
  /\ \E k \in Imported : rows = ImportedRows(k) /\ serial = k
  /\ tree = Restored(FirstPage) /\ fresh = 0 /\ leg = NoLeg
  /\ turns = << >> /\ del = NoDelete
  /\ deletes = 0 /\ reloads = 0 /\ faults = 0
  /\ rowOf = [id \in RowIds |-> id] /\ tangled = FALSE /\ loose = {}

(* The screen offers the messages on the active path.                      *)
OnScreen == Range(Path(tree))

User ==
  \/ Send
  \/ \E id \in OnScreen : Edit(id) \/ Regenerate(id) \/ Delete(id)
  \/ \E id \in OnScreen, d \in {-1, 1} : SwitchBranch(id, d)
  \/ Reload

Answering(i) ==
  \/ MessageStart(i) \/ Stop(i) \/ TurnFails(i)
  \/ \E ok \in BOOLEAN : Persist(i, ok)

Deletion ==
  \/ Resolve \/ Prepare \/ Deleted \/ DeleteFails \/ LoseReply
  \/ \E id \in del.todo : DeleteRow(id)

Next ==
  \/ User
  \/ \E saved \in BOOLEAN : Post(saved) \/ PostFails(saved)
  \/ \E i \in DOMAIN turns : Answering(i)
  \/ LoseStream
  \/ ResumeRefused
  \/ Deletion

Spec == Init /\ [][Next]_vars

(* A turn goes on whether or not a client listens, and so does a deletion: *)
(* each waits for nothing but replies that come or time out.               *)
FairSpec == Spec /\ WF_vars(Deletion \/ \E i \in DOMAIN turns : Answering(i))

---------------------------------------------------------------------------
Phases == {"running", "stopped", "saved", "lost", "void"}

(* The keys of t are local ids made so far and ids of rows.                *)
TreeOK(t, local) ==
  /\ t.role \in [DOMAIN t.role -> Roles]
  /\ DOMAIN t.role \union Range(t.parent) \union Range(t.active) \subseteq -local .. serial
  /\ \A k \in DOMAIN t.children : Range(t.children[k]) \subseteq -local .. serial

(* The state is well typed.                                                *)
TypeOK ==
  /\ TreeOK(tree, fresh) /\ (del.node # None => TreeOK(del.snapshot, fresh))
  /\ fresh \in Nat /\ deletes \in 0 .. MaxDeletes /\ reloads \in 0 .. MaxReloads
  /\ faults \in 0 .. MaxFaults /\ tangled \in BOOLEAN /\ loose \subseteq 1 .. serial
  /\ leg.pc \in {"idle", "posting", "streaming", "resuming"} /\ leg.turn \in 0 .. Len(turns)
  /\ {leg.prompt, leg.node, del.node} \subseteq -fresh .. serial
  /\ del.pc \in {"none", "resolving", "asking", "deleting"}
  /\ {del.target} \union del.todo \subseteq 0 .. serial
  /\ \A r \in Range(rows) : r.id \in 1 .. serial /\ r.role \in Roles /\ r.parent \in 0 .. serial
  /\ \A i \in DOMAIN turns : turns[i].phase \in Phases /\ turns[i].legs \in 0 .. MaxLegs

(* However edits, retries, answers of a turn in progress, deletions and    *)
(* their roll-back interleave, the four maps of TreeData agree and no node *)
(* is its own ancestor (useSessionStream.ts, addNode and deleteMessage).   *)
TreeIsConsistent ==
  /\ Consistent(tree)
  /\ \A id \in Nodes(tree) :
       LET chain == Chain(tree, id) IN IsInjective(chain) /\ Root \notin Range(chain)

(* resolveServerMessageId finds the row of the very message that the user  *)
(* deletes, as long as nothing has made the two sides' siblings differ.    *)
UntangledDeleteIsExact ==
  ~tangled /\ del.node # None /\ del.target # None => del.target = Lookup(rowOf, del.node, None)

(* The deletion of a prompt leaves no answer behind (routes/sessions.ts,   *)
(* DELETE /:id/messages/:messageId), but for these: an answer whose prompt *)
(* was not saved; one saved under a row that was then waiting for its      *)
(* deletion; one beyond the listing; and one that a deletion that failed   *)
(* had still to reach.                                                     *)
NoOrphans ==
  \A r \in Range(rows) :
    r.role = "assistant" /\ r.parent = None /\ r.id \notin del.todo => r.id \in loose

(* Something is under way that does not wait for the user.                 *)
Busy ==
  \/ del # NoDelete \/ leg.pc = "resuming"
  \/ \E i \in DOMAIN turns : turns[i].phase \in {"running", "stopped"}

(* A turn that a client has left, by a reload or a lost connection, ends   *)
(* all the same, and its answer is saved, unless its prompt is deleted, it *)
(* never began to answer or the insert fails; and a deletion comes to an   *)
(* end, as does a resumed stream: whatever is under way, a time comes when *)
(* nothing is (routes/messages.ts, the finally block of POST).             *)
TurnsAndDeletionsEnd == []<>~Busy

RowsShown(t) == [i \in DOMAIN Path(t) |-> Lookup(rowOf, Path(t)[i], None)]

(* loadHistory is said to restore the conversation with its branches: when *)
(* all of it is saved, a reload shows the messages that were on the screen.*)
AllSaved ==
  /\ leg = NoLeg /\ del = NoDelete
  /\ \A i \in DOMAIN turns : turns[i].phase = "saved"
  /\ Len(rows) <= Page /\ None \notin Range(RowsShown(tree))

ReloadRestoresTheConversation ==
  [][reloads' = reloads + 1 /\ AllSaved => Path(tree') = RowsShown(tree)]_vars
===========================================================================
