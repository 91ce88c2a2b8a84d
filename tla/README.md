# WChat: TLA+ models, model checking and proofs

WChat is an enterprise chat application around an LLM agent: a server (`src/apps/server`,
Hono on Node, Postgres with pgvector, Redis, an S3-like object store) and a web client
(`src/apps/web`, Next.js). A user posts a message; the server runs a *turn*: it streams from
a provider, executes the tools the model asks for, asks the user to approve the dangerous
ones, and relays everything to the browser over SSE. A user may lose the stream and resume
it, press Stop, answer an approval, edit a prompt, queue the next one or reload the page,
and each of these requests may be served by another instance of the server. What the
instances share is in Redis (keys with a TTL, at-most-once pub/sub) and in Postgres. Below,
paths are relative to `src/apps/server/src`; those that begin with `web/` to
`src/apps/web/src`.

The hard part of this program is not what a handler computes but what happens *between*
its awaits. Handlers read a map or a key, await Redis, the database or the object store,
and act on what they read; timers, aborts, other requests and other instances go on
meanwhile; any await may reject, and any process may die. The client is the same kind of
program: its hook keeps refs that several streams, a queue and a change of the session
share. The unit tests run with a synchronous in-memory bus and with streams that are
there at once, where none of these interleavings exists.

## Inventory

| Component | State it keeps | Operations | Talks to |
|---|---|---|---|
| Runtime bus `orchestrator/runtime-bus.ts` | handler sets per channel, Redis keys | set, get, del, publish, subscribe, close | everything below |
| HITL manager `tools/hitl-manager.ts` | `pending` map, `resolvedKeys`, shared keys and resolved markers | askApproval, resolveHitl, listPendingHitl, close | turn loop, sessions route, bus |
| Run registry `orchestrator/run-registry.ts` | map session → run, one shared key per session | registerRun, unregisterRun, abortRun, hasActiveRun | messages and sessions routes, bus |
| Message-run registry `orchestrator/message-run-registry.ts` | map message → run with its text, subscriber queue; shared snapshot | startMessageRun, recordMessageRunEvent, subscribeMessageRun, finishMessageRuns | messages route, bus |
| Turn loop `orchestrator/orchestrator.ts`, `reliability-guards.ts` | round, streak, conversation, tool calls of the round, progress channel | runTurn (an async generator) | providers, tools, HITL manager |
| Project documents `db/document-service.ts` | document row, chunks, original bytes | indexDocument, retryDocument, deleteDocument | Postgres, object store, parser, embeddings |
| Messages route `routes/messages.ts` | the SSE stream, rows of the messages table | POST a prompt, GET a stream | all of the above, web client |
| Sessions route `routes/sessions.ts` | rows of sessions and messages | import, history, delete a message, Stop, approvals | registries, HITL manager, web client |
| Conversation in the web client `web/hooks/useSessionStream.ts` | message tree, refs of the stream, queue of prompts | send, edit, retry, branch switch, delete, Stop, resume, recover, reload | messages and sessions routes |
| Authentication `routes/auth.ts`, `routes/scim.ts`, `web/lib/fetch-with-refresh.ts` | users, magic links, refresh families; cookies; one refresh promise per tab | sign up, sign in, provision, refresh, log out, delete the account; the directory creates, suspends, restores it | Postgres |
| Failover and providers, planning, quota, uploads, settings cache, retention and alerting schedulers, channels and notifications, MCP pool, RAG, tools, admin and SSO routes, converter worker | see `PROJECT.json` and the end of this file | | |

`PROJECT.json` lists every component with what is modelled of it, and 40 hazards, each at
the line where it bites, with the properties that cover it or the reason why none does.

What makes the modelled components correct:

* **HITL**: a request that waits can be answered on every instance; it settles once, as
  approved or denied only if a user said so; who answers an answered request is told so
  and not "not found"; the shared key does not outlive the request.
* **Runs**: Stop reaches the turn that runs, and only Stop or a newer turn does; the
  shared key names a run that is there.
* **Message runs**: a resumed stream is the text so far and then every later event once;
  it ends with the turn, unless the turn fails without saying so; one reader at a time.
* **Turns**: what the model is given back matches what it asked for; approvals are asked
  one at a time on a settled state; Stop is respected; the client is not left with open
  cards; a stopped or guarded turn ends.
* **Documents**: an indexed document is whole, stays so, has its bytes; nothing stays
  pending.
* **Conversations**: the tree on the screen stays a tree and is what is saved; deleting a
  message deletes that message and what is below it; every answer ends up saved.
* **Streams**: unless the user crosses them, one leg (or one comparison, each column whole)
  writes at a time and Stop reaches it; a leg that began to answer
  ends with the answer or with an error that is shown; a recovered answer is the leg's own;
  queued prompts are sent once and in order.
* **Sessions of a user**: a browser that only uses its own token is not taken for
  a thief; an account that is suspended or deleted renews nothing; a sign-up link signs in
  once; the calls of a tab share one refresh and none waits for it for ever.

## Modules

| Module | Models | Composes |
|---|---|---|
| `RuntimeBusOps` | publish, fan-out and handling of messages as operators on inboxes | |
| `Approval` | abstract: what askApproval promises its caller | |
| `Hitl` | the HITL manager on several instances | `RuntimeBusOps`; implements `Approval` |
| `RunRegistry` | the run registry on several instances, one session | `RuntimeBusOps` |
| `MessageRun` | the message-run registry, one message, owner and readers anywhere | |
| `Turn` | runTurn: rounds, guards, segments, progress channel, approvals, failures | |
| `Documents` | uploads, retries, deletions of one content in one project | |
| `ClientTree` | the branching tree of the client as operators on a record | |
| `Conversation` | client tree and messages table: prompts, answers, edits, deletion, reload | `ClientTree`; client, messages route and sessions route in one |
| `SessionStream` | the client's legs, refs, queue, Stop, resume and recovery over turns of the server | client and messages route in one |
| `AuthSession` | sign-in, provisioning, refresh, suspension and deletion of one account, query by query | auth route, SCIM users and fetch wrapper in one |
| `MC*` | instances for TLC | the module in their name |
| `HitlProofs`, `RunRegistryProofs`, `MessageRunProofs`, `TurnProofs`, `DocumentsProofs`, `ConversationProofs`, `SessionStreamProofs`, `AuthSessionProofs` | theorems and proofs | the module in their name |

The rule for all of them: **one action is what the code does between two awaits**. A
handler that awaits three commands is three or more actions, and its local variables
that live across an await are variables of the model (`saw` in `RunRegistry`, `snap` and
`held` in `MessageRun`, `doc` and `stale` in `Documents`). A synchronous stretch of
JavaScript is one action whatever its length. Operators whose comment
starts with `Faulty:` or `Mutant of` are plausible bugs of one action each; they are part of no
specification and show that each property can be broken by the code it is about.

**Hitl.** `stage[r]` is how far askApproval is, `outcome[r]` what the entry of `pending`
settled with, `pc[p]` how far an answer (a call of resolveHitl) is. `keys`, `markers` and
`forgotten` are Redis' pending keys, its resolved markers and the requests whose chained
`del` is done. `Post`…`DeleteRemote` are resolveHitl on the owner's and on another
instance; `Timeout`, `Abort` and `Deliver` settle; `Crash` is process death and `close()`.
`Promise` instantiates `Approval` with what the caller of askApproval can see.

**RunRegistry.** `local[i]` is the map entry of instance `i` for the session, `key` the
shared key, `inbox[i]` what pub/sub has sent to `i`. `Register`…`Store` is registerRun;
`Unregister`, `LeaveGet`, `LeaveDel` is unregisterRun; `StopLocal`…`StopPublish` is
abortRun; `Deliver` the abort handler. `orphans` (history) are the runs that a
registration overwrote in the map without having seen them, `lost` (history) the signals
that pub/sub dropped, `saw[x]` the run that a Stop or a new turn read.

**MessageRun.** Events are numbered and `contentSoFar` is the number of those in it.
`Record`, `MirrorRead`, `MirrorWrite`, `Publish` is recordMessageRunEvent, in which
patchShared is a read and a later write; `ResumeLocal` and `ResumeRemote`…`Subscribed`
are the two paths of subscribeMessageRun; `Finish`…`FinishWrite` is finishMessageRuns, and
`LeaveUnfinished` a turn whose finally block does not come to it: a bus command of the bare
`await unregisterRun` (routes/messages.ts:782) is rejected, or the publish for an earlier
message of the turn. A message is `Abandoned` when that happens after a turn that threw.
Tool cards travel in the same snapshot as the text and are left out, as is the map from
a session to its active message.

**Turn.** `phase` is where the generator is suspended or what it is about to do; every
yield to the consumer is a suspension in which tools, Stop and approver go on. Call number
`i` of a round stands for its toolCallId. `Begin` starts a segment: adjacent allow calls as
one batch, a hitl call alone. `Drain`, `Progress`, `Settle` and `Throw` are the progress
channel and the batch's promise. `Orphaned` are tools that go on after their turn failed.

**Documents.** `row`, `chunks`, `objects` are the two stores, the rest is what the requests
keep between queries. UNIQUE (project, hash) and (document, index) and the cascade from
row to chunks are in the guards of `Insert`, `InsertChunk` and `DeleteRow`. `overlapped`
(history) has the rows of which a retry started while another request was indexing them.

**ClientTree.** A tree is a record of the four maps of TreeData; a key is negative for a
local id, positive for the id of a row, 0 for the root. `AddNode`, `Prune`, `Switch`,
`Path` are the functions of the hook with the same names; `Consistent` is what the four
maps must agree on.

**Conversation.** Composes the tree with the rows of the messages table. `leg` is the turn
the client streams, `turns[i]` the server's side of the i-th turn (running; stopped, the
last event is sent; saved or lost; void if it never began to answer), `del` the deletion in
progress. `Post`, `MessageStart`, `Stop`, `TurnFails`, `Release`, `Persist` are POST
/:id/messages; `Resolve`, `Prepare`, `DeleteRow`, `Deleted`, `RollBack` a deletion with its
queries and its optimistic update; `Reload` rebuilds the tree from the first page of rows and
resumes, which may be refused (`ResumeRefused`). A deletion sees the oldest `Listed` rows only
(`Listing`), a thousand in the code; `Overlooked` are the children beyond them.
Histories: `rowOf` says which row holds a node's message, `tangled` that siblings of the two
sides began to differ, `loose` which rows a deletion may leave without a parent: an answer
whose prompt was not saved, one saved while its prompt waited to be deleted, one beyond the
list, and what a deletion that failed had still to delete.
One client turn is under way at a time (overlap is `SessionStream`), one deletion at a time,
no reload while the POST is on its way, and the user acts on messages on the screen.

**SessionStream.** `hook` has the refs (`streaming`, `abort`, `reader`, `queue`, the session
shown), `legs[l]` one call of streamTurn, continueMessage or sendCompare with its `pc`
between awaits, `turns[t]` its turn on the server (running; stopped or failed; gone once it is
saved and closed; void without an answer), `posts`, `stops` and `loads` the requests on their
way. A column of a comparison is a leg of its own, with a POST and a turn; `group` ties the
columns together and `Beside` are those that go on. `Arrive` halts the session's running turn
as registerRun does, be it that of another column (`cut`). `Unwind` is the finally block of an
aborted leg; `Drained` the queue's next prompt. `Resume` is refused when
the run is over (410, 404), belongs to another session (404) or has another subscriber (409, a
disturbance); the client takes each for the end of the turn. `crossed` (history): a leg began
while another was under way, the user pressed Stop, or the session changed; `faulty`: something
broke; `early`: the resume of a leg was refused before its answer was saved. What the tree looks like
is `Conversation`.

**AuthSession.** `account`, `links`, `families` are the tables, `jar[b]` the cookies of a browser,
`tabs[t]` the wrapper's state in one tab: calls that got a 401 (`asked`), calls that wait
(`waiting`) for its one refresh, and whether `refreshing` holds a promise, which is `Pending` or
settled; to await a settled one takes no time (`Waits`). `reqs` are POSTs of /refresh with the step
of the handler they are at, `entries` sign-ins. `Check`, `Reused`, `ReadUser`, `Barred`, `Rotate`
are the queries of a refresh and `Reply` its cookies, which go to whoever is signed in by then;
`Break` loses the connection, the reply or the handler. `Insert` is the insert of a user, for a
sign-up link (`Create`) or for somebody LDAP, OIDC or the proxy vouches for (`Provisioned`);
`ScimCreate`, `Suspend` and `Restore` are what the directory does to `account` through SCIM, with no
word to the families. `Restore` ends the history `late` of the requests under way: they may renew
again. `crossed[b]` (history): two tabs of b refreshed at once, or a reply was lost.

## Runs

Each passing run takes between ten seconds and about two and a half minutes. Deadlock is
not checked in any of them: every system here may simply be done (all requests answered,
the turn over), and what must happen is stated as liveness instead.

| Run | Bounds | Shows |
|---|---|---|
| `hitl_safe` | 1 request, 2 answers, 2 instances, 2 faults | `WaitingIsReachable`, `AnsweredLeavesTrace`, that `Hitl` implements `Approval` (`KeepsPromise`), and under fairness `AsksEndAndKeysDrain` |
| `runreg_safe` | 2 instances, 2 turns, 2 Stops, 1 fault | `StaleKeyIsReplaced`, `OwnerCanStop`, `SightedIsHit` |
| `runreg_self` | no fault, no Stop | violated: `OnlyStopOrNewTurnAborts` |
| `msgrun_safe` | 2 readers, 2 events, 1 fault | `LocalResumeIsExact`, `RelayIsConsecutive`, `ReadersAreReleased` |
| `turn_safe` | 3 kinds of call, 3 calls a round, 2 steps, threshold 2, 1 progress event waiting | `ResultsMatchUses`, `HitlIsSerial`, `NoFutileLoop`, `StopKeepsNextRound`, `EveryTurnEnds` |
| `turn_killed` | 2 calls a round | violated: `FailureIsReported` |
| `documents_safe` | 2 clients, 4 requests, 2 chunks, 1 fault | `IndexedIsWhole`, `RowHasBytes`, `IndexedStays`, `PendingSettles` |
| `conv_safe` | 2 turns, begun while there are less than 3 rows, new or imported conversation, page and list of 3 rows, 1 deletion, 1 reload, 1 fault | `TreeIsConsistent`, `UntangledDeleteIsExact`, `NoOrphans`, `TurnsAndDeletionsEnd` |
| `conv_reload` | 2 turns, 1 reload, no fault | violated: `ReloadRestoresTheConversation` |
| `stream_safe` | 2 sessions, 3 legs, 1 dropped connection in a row, 1 disturbance (2 for a single leg) | `RefsFollowTheLeg`, `NoSilentEnd`, `RecoveredIsOwn`, `QueueIsFifo`, `LegsEndAndQueueDrains` |
| `stream_compare` | 1 comparison of 2 columns, no fault | violated: `ColumnsAreWhole` |
| `auth_safe` | 2 browsers, 2 tabs of one of them, any 4 of links, sign-ins, SCIM and refused calls, faults | `QuietJarIsCurrent`, `LateNeverRenews`, `SignupLinkSignsInOnce`, `EveryCallReturns` |

Every passing run also checks its module's `TypeOK`.

Why these bounds are enough to be interesting. Two instances are owner and other; a third is in no
case of the code. One session, one request and one message suffice because keys, channels and map
entries carry the id and no handler touches two of them. Two answers race with each other and with
the timer; two turns and two Stops make every pair of operations overlap. Three calls make a batch
of two beside a hitl call, in each order; two steps and threshold 2 make each guard fire and not
fire. Two chunks are a part and a whole; four requests are upload, failed retry, deletion and a new
upload. Two turns are a prompt and its edit, retry or successor, with a deletion and a reload
between any two of their steps; an imported conversation of two messages gives a deletion rows of
both kinds and parents that are not null. A page and a list of three rows are full and overrun by
the fourth row, an answer whose prompt is the third. Three legs are one that runs, one that is
queued, and one that overlaps, or a comparison of two columns (begun only where three legs would
fit); two sessions are the one shown and the one left. Two tabs share a jar and refresh beside each
other, and the other browser is a second device; four events make two refreshes overlap after a
sign-in, or two verifications of one link beside a fault. One fault (two for approvals) hits
anywhere. The theorems below remove these bounds where they exist. The counters are bounded in the
guards by `MaxFaults`, `MaxOps`, `MaxChunks`, `Events`, `MaxCalls`, `MaxProgress`, `MaxTurns`,
`MaxRows`, `MaxLegs`, `MaxDeletes`, `MaxReloads`, `MaxDrops` and `Budget`; `MaxSteps`, `Threshold`,
`Page` and `Listed` are parameters of the code itself.

**Fairness.** A run without liveness uses `Spec`, which has none. `FairSpec` adds weak
fairness of single steps, each for a reason in the code: the timer of askApproval is armed
before anything can go wrong and fires; Redis answers or rejects (ioredis does one of them);
TTLs expire; a subscription is answered; the provider's stream ends and a tool ends (both
have timeouts or take the signal); stores, parser and embedding provider answer; a fetch is
answered or rejected and its continuation runs. Nobody is assumed to press Stop, to answer
an approval, to send, edit, delete, sign in, resume or leave: those actions have no fairness.
In `EveryTurnEnds` a turn without guards may go on for ever, as the messages route passes no
guards; only Stop ends it.

## Disagreements between code and its own statements

The violation runs each check one statement of a comment of the repository; `PROJECT.json`
quotes it with its line. All four happen without any fault.

1. `runreg_self`: registerRun publishes the abort of the older run on a channel that its
   own instance hears, after which the handler may abort the new run.
2. `turn_killed`: the promise of a batch is awaited only after the progress channel has
   been drained; a tool that throws while a progress event is being relayed is an unhandled
   rejection, which ends the process.
3. `conv_reload`: prompts are inserted without a parent, so that after a reload every prompt
   is a branch beside the first and only the last turn is on the screen.
4. `stream_compare`: every column of a comparison posts for itself, and every POST aborts the
   session's run in progress; of columns answered at once only the last is whole, and the
   others look finished.

More is visible in the models, most of it in the notes of the hazards, and is no run:

* *Approvals.* `delivered: true` is answered for a decision the waiting tool does not get,
  when the owner times out between the read of the shared key and the publish.
* *Runs.* unregisterRun compares and deletes in two commands and may delete the key of
  another instance's newer run, which Stop then does not find.
* *Resume.* A stream resumed on another instance reads its snapshot, then claims, then subscribes,
  while the owner writes, then publishes: an event in between is missed or comes twice. A turn that
  throws and whose `unregisterRun` is then rejected never marks the end of its messages: the owner's
  reader waits for good (`Abandoned`). The owner's mirror rewrites the whole snapshot with the
  `claimed` it read: a claim released in between comes back and every later resume is a 409.
* *Documents.* Two overlapping retries mix their chunks or mark an indexed document failed
  (`overlapped`), and a retry lists only the first 1000 chunks (`Page`).
* *Deletion.* The client finds the row of a message by its index among local siblings
  (web/hooks/useSessionStream.ts:1673); after a retry, a failed insert or a deletion this may
  be another row (`tangled`). The handler lists 1000 rows, oldest first (routes/sessions.ts:525):
  in a longer conversation it misses the children beyond them, which become roots. So do an answer
  saved during the deletion and what a failed deletion had not yet reached (`loose`).
* *Streams.* The finally block of an aborted leg clears the refs of the leg that replaced it: after
  an edit during an answer Stop no longer reaches that leg, and a queued prompt starts beside it, so
  that two legs write into one tree (`crossed`). A resume between the recorded final stop and the
  insert of the answer is refused and recovers the previous answer; so does one of a turn that still
  runs, if another tab, or a connection of the page before that the server does not yet know to be
  dead, holds its only subscription (409, routes/messages.ts:1062), because the client takes every
  refusal for the end of the turn (web/hooks/useSessionStream.ts:1065; both are `early`). The URL of
  a continued answer names a node of the page, which the server does not know; its route never
  closes the run in the message-run registry. After Stop, or when a comparison or a continued answer
  ends, which drain nothing, a later prompt overtakes the queue; a prompt queued in one session is
  sent into the one shown when the queue is drained; a POST that fails before message_start ends
  without a message; the DELETE of a Stop may reach the next turn; the history of a session left
  meanwhile may replace the one shown; recovery takes the newest answer of the session, whosever it
  is; web/hooks/useSessionStream.ts:338-345 describes what a closed connection does otherwise than
  routes/messages.ts:604-607.
* *Sign-in.* Two tabs that refresh at once both pass the check of the jti; the jar may keep
  the token that lost and the next refresh is taken for a theft (`crossed`); one lost reply
  does the same. A login link verified twice at once opens two sessions. Logout revokes
  nothing, and the reply of a refresh under way signs the browser in again. DELETE /me marks
  the account and revokes its families in two transactions.

## Theorems

TLAPS proves these for every value of the constants (any number of instances, requests,
turns, calls, rounds, readers, events, chunks, rows, deletions, reloads, sessions, legs, prompts,
browsers, tabs and faults), from the named assumptions of the modules only
(constants are naturals, `None` is none of the values beside it).

| Module | Theorems |
|---|---|
| `HitlProofs` | `InductiveInvariant`, `TypeCorrect`, `Reachability`, `Traceability`, `Goneness`, `Forgetting`, `Implementation` (`Spec => Promise!Spec`) |
| `RunRegistryProofs` | `InductiveInvariant`, `TypeCorrect`, `StaleKeysGo`, `StopReachesOwner`, `SightingAborts`, `NewTurnTakesOver` |
| `MessageRunProofs` | `InductiveInvariant`, `TypeCorrect`, `LocalResumeLosesNothing`, `RelayStaysInOrder` |
| `TurnProofs` | `InductiveInvariant`, `TypeCorrect`, `ResultsAreThoseOfUses`, `ApprovedCallsRunAlone`, `LoopsAreBroken`, `StopIsLast` |
| `DocumentsProofs` | `TypeCorrect`, `BytesStay`, `IndexedWhole`, `IndexedRemains` |
| `ConversationProofs` | `InductiveInvariant`, `TypeCorrect`, `TreeStaysConsistent`, `NoAnswerIsOrphaned`, `DeletionHitsItsRow` |
| `SessionStreamProofs` | `InductiveInvariant`, `TypeCorrect`, `QueueStaysFifo`, `NoLegEndsSilently`, `RefsTellTheTruth`, `AnswersAreOwn` |
| `AuthSessionProofs` | `Invariant`, `TypeCorrect`, `LateIsNeverRenewed`, `SignupLinkIsUsedOnce`, `TabRefreshesOnce`, `QuietBrowserIsNoThief` |

*Hitl.* None of the properties is inductive. `IInv` adds `BookInv` (a request, its owner's
subscription and its shared key go together), `AnswerInv` (what an answer between two
commands still knows: an answer that marks has settled the request and its key is not
forgotten yet), `ClaimInv` (messages, markers and `resolvedKeys` come from a claimed
answer), `OfferInv` (a decision was offered), `ReachInv` (before the key is deleted the
decision is on its way) and `TraceInv` (a decided request has its marker, or somebody is
about to write it while the key is still there). `TraceInv` is where the order matters in
which the code chains the `del` behind the `set` and Redis handles the commands of one
connection in their order. The implementation theorem needs `OfferInv` and `TypeOK`: each
action maps to an opening, an ending, a decision that was offered, or a stutter. What fan-out adds
to an inbox and what taking the first message leaves are lemmas here and in `RunRegistryProofs`.

*RunRegistry.* `IInv` (at the head of `RunRegistryProofs`) orders the runs of an instance by
the number `entered` they got when they entered its map (`Numbered`, `Distinct`), and says
that the map holds the latest of them (`MapHoldsLatest`), that they store their ids in that
order (`StoresInOrder`), so that the key names the one that stored last (`KeyIsLatest`), and
that what somebody saw in the key had been stored (`SawStored`) by an instance that listens
(`Listens`), which is what makes a signal reach it.

*MessageRun.* `IInv` says who is where (`OneLocal`: `run.subscriber` is the one reader served by
the owner; `NoStreamNoQueue`; `Held`: what is patched was read) and what the two kinds of stream
have. `LocalIsCurrent`: the local reader has every event so far, and its queue is closed by the
terminal one and not before; with that `LocalResumeIsExact` is inductive. For the relay the
measure is `Sent`, the number of the last event that can have been published, which is behind
`pos` while the owner mirrors and one past it once the synthetic stop is out. No snapshot,
wherever it waits to be written back, is ahead of `Sent + 1` (`TextIsNotAhead`), so a claim or a
release that restores an old snapshot can only repeat, and a catch-up overlaps the stream by one
event at most; a remote queue is rising, without a hole while nothing failed, and an open one ends
with `Sent` (`RelayFollows`). The lemmas on queues (`RelayedPush`, `RelayedLater`,
`RelayedPrefix`) are about any sequence.

*Turn.* `IInv` follows the segment loop: where it is in the round (`AtIsInside`), that calls are
settled before it and wait behind its segment (`StatusesFollow`), what a closed channel means
(`ChannelTells`: nothing runs, or something threw), and that the results so far are `1..at - 1`
(`ResultsSoFar`). `HitlIsSerial` and `ResultsMatchUses` follow. `NoFutileLoop` needs
`StreakCounts`: `repetitionStreak`, less the round under way, is the number of last rounds with
the same calls, and the round before them, if kept, differs; asking for the same calls is an
equivalence (`SameIsSymmetric`, `SameIsTransitive`), so a conversation of `Threshold` equal rounds
would contradict the round where the streak broke (`StreakBreaks`). `BatchFacts` rests on
`MaxIsElement`: a non-empty set of integers between bounds has its maximum in it. `StopIsLast` is
a temporal formula, proved from a predicate that no step leaves (`Stopped`).

*Documents.* `IInv` is at the end of `Documents`. The number of a request names the row it
inserts and its object (`OpsInv`, `IdsInv`, `FreshInv`). The core is `SoleInv`: for a row
without an overlap, at most one request indexes it, none once it is indexed, and that one
*knows* the chunks (`Knows`): all that are there are on its list of stale ones, later there
are none, later exactly its own. `SoleInv` survives a retry because a retry needs `failed`
and either finds nobody indexing or makes the row overlapped; it survives the listing only
if the list is complete, so `IndexedWhole` and `IndexedRemains` assume `MaxChunks <= Page`.
`TypeCorrect` and `BytesStay` do not.

*Conversation.* `Consistent` alone is not inductive: that no node is its own ancestor needs an
order. Every parent is `Above` its child: the root above all, a row above the local nodes and above
later rows, a local node above those made after it. `Grown` is this order, the agreement of the four
maps and the bounds of their keys. A new local id is below everything (`NewIdFacts`), so `AddNode`
keeps `Grown` (`ForestGrows`) even under a parent that a deletion took or that a roll-back brought
back. A deletion keeps it because what `Prune` takes is closed under children (`SubtreeFacts`,
`CutOf`) and the siblings it mends are those left (`ForestCut`). `CInv` adds that the snapshot of a
deletion is `Grown` as long as the roll-back can come (`DelFits`), and that parents come before
their children in the rows, which makes the tree of a reload grown (`RestoredIsGrown`). `NoOrphans`
(`Adopted`, of its parts) needs `Sunk`: what hangs under a row that is to be deleted is to be
deleted too, or `loose`. It holds at first because what the handler takes is closed under the
children in its list, whatever the limit of the list (`BelowFacts`, `ListingFits`), and the others
are `Overlooked`; an answer that comes during the deletion under such a row is `loose` from its
insert. The recursive functions of the model (`Path`, `Chain`, `Subtree`, `Below`, `Restored`,
`RowAt`) go from step to step up to a bound. What the proofs need is a property of each step
(`Repeated`, `LayersAreLeast`) and, for the two closures, that a chain of growing subsets of a
finite set stands still (`LayersClose`).

`DeletionHitsItsRow` has a second invariant beside `CInv`: until something makes the siblings
differ, the state is `Untangled`. Rows were only appended, so the k-th has number k (`Straight`);
each row has one node (`Named`). The core is `Located`: the j-th child of a node is the j-th row of
the page below that node's row, if there is one. It speaks of `Shown`, the tree the user saw before
a deletion took part of it away. A new row comes last below its parent, and must come where its own
node is or where no child is. The row of a prompt comes below the root while its node hangs below
the last answer: it is no child's, because every child of the root has its row already (`RootFull`;
the very first prompt is the only child and gets the first row). The row of an answer is the first
below its prompt, as the node is the first child, because what is a leaf had no row below it
(`Leaves`). `Legs`, `Opens` and `Apart` say where a prompt or an answer without a row waits, and
that no two wait at one place, so saves may come in any order. With that, `ResolvesToOwnRow` follows
the indices of a node from the root down: each step stays on the row of the node's ancestor or finds
nothing, and the last lands on its own row (`Aimed`). A reload begins the argument again
(`RestoredHangs`: the tree of a page has the rows as its nodes, in their order). The rest of the
hypothesis is in `tangled`: it is set by an edit, a retry, a second message_start (tools), a
failure, a deletion that was carried out or rolled back, and by a reload during an answer.

*SessionStream.* `IInv` says three things of the page, that is, of the hook and its legs. `LegOk`:
a leg that is over and had begun to answer was heard to its end or showed an error, unless it was
aborted, and its state is one its kind has. `QueueOk`: what was sent, followed by the queue, is a
line that `Holds` each of the prompts asked but the removed ones once, rising while nothing
crosses, and nothing waits while nothing streams. `RefsOk`: while nothing crosses, the refs are
those of each leg that is not done (`Follows`), and the others that are not done are columns
beside it (`Alone`). The first two are needed for each other and for the third: a leg that ends
drains the queue and begins the next one in the same synchronous stretch, so the operators on
pages (`Begun`, `Dispatched`, `Drained`, `Finished`, `Driven`) have a lemma each that they keep the
whole of it (`BegunGood`, `FinishedGood`, `DrivenGood`), and an action is a chain of those.
`crossed` is set by the step that makes two legs overlap, which is why each lemma says what
crosses after it. The lemmas on lines (`HoldsNext`, `HoldsLess`, `LineMoves`) are about any
sequence of numbers. `AnswersAreOwn` needs a second invariant beside it, `OwnInv`: until something
crosses or breaks, the state is `Calm`. Nobody disturbs a leg, one that posted ends with its turn
over, and one that asks for a closed run finds it saved, unless its resume was refused `early`
(`LegOwn`); at most one turn that is not over
was there before the page (`OneForeign`); and the turn a leg resumes is the last of the session, so
that once it is over the newest row is its answer (`ResumesOwn`). A leg that is resumed or recovers
has no other beside it, by `IInv`, so no later turn can put its row in between.

*AuthSession.* `Safe` adds to the types that everything refers to what exists (`Refer`), that
before the account there is nothing but what would create it (`Unborn`), that a late request
has not passed the look at the status (`LateIsBarred`: a step cannot make it pass as long as
the account is inactive), and `Once`: of the verifications of sign-up links one at most is past the
insert of the account (`OnePast`), none once such a link has opened a family (`PastOrIn`),
and one family at most is opened by them (`OneIn`). That rests on the unique address and on
the order of the code, which inserts before it marks the link. Requests and sign-ins are
sequences from which elements go, so half of the lemmas say where what is left was before
(`ReqsLeft`, `EntriesLeft`). `QuietBrowserIsNoThief` rests on `Apart`: a family is kept by one
browser, in its jar or in requests of its tabs (`KeptApart`), or waits in one reply to a
sign-in (`RepliesApart`, `RepliesFresh`). So no other browser's rotation or theft touches
what a quiet browser holds (`OthersUntouched`), and `Quiet` says what that is: one request at
most, which is heard (`Solo`) and holds the current token (`SoloIsCurrent`), or a current jar
(`JarIsCurrent`). Five kinds of step disturb it and have a lemma each; the others are
`QuietMove`. `TabRefreshesOnce` states
`RefreshIsShared`, which no run checks: that the calls of a tab share one refresh and that its
promise is forgotten when it settles. It is inductive beside the types, as only `Refused` adds a
request to a tab, when `refreshing` is not set, and whatever takes away the one that is heard
settles its promise.

Only model-checked: liveness (`AsksEndAndKeysDrain`, `ReadersAreReleased`,
`EveryTurnEnds`, `PendingSettles`, `TurnsAndDeletionsEnd`, `LegsEndAndQueueDrains`,
`EveryCallReturns`; TLAPS 1.4 does not prove them under fairness). Every other property of a
passing run is a theorem.

## What the models take for granted

* Redis handles the commands of one connection in the order they were sent, so a `set`
  issued before a `get` or `del` of the same process takes effect first (`Drained`,
  `MarkedFirst`, `InOrder`), and pub/sub is first-in first-out per subscriber. A reconnecting
  subscriber loses what is sent meanwhile (`DropMessages`, `DropEvents`).
* A TTL outlasts the commands and the turn it belongs to, and resolved markers (3600 s)
  do not expire within a behaviour. A pending key expires only once nobody waits for it.
* A process that dies, or calls `close()`, does not come back as itself: a restarted
  instance is a fresh member of `Instances`. In-memory state goes, what is in Redis stays.
* askApproval is called once per key (toolCallIds are distinct); a run id is used once.
* A command of the bus may be rejected before or after its effect. A rejected query of the
  documents had no effect.
* Nothing follows the terminal stop of a message. What is on the way to a reader or in its
  queue counts as received; `DropEvents` takes back an end of it.
* An unhandled rejection ends the process: the server installs no handler, and Node ends
  one by default.
* The sockets of one client are independent: requests and replies of the client overtake each
  other. A POST fails with its prompt saved or not. The
  events of one stream arrive in order.
* A bus command of the route's finally block succeeds in `Conversation` and `SessionStream`; what its
  rejection does to a message's readers is in `MessageRun` (`LeaveUnfinished`).
* A query of the conversation or of the auth route takes effect as a whole or not at all; a
  reply that is lost does not undo what the handler did.
* The directory does not change the e-mail address of an account between two verifications of one
  sign-up link (routes/scim.ts:399 and 441): the address would be free again and a second account
  could be made.
* Tokens and links are neither guessed nor copied to another browser, and their expiry is
  left out except that of the access token.
* What tools, providers, parsers and embeddings compute is not told apart, nor are access
  checks: a request that is refused changes nothing.

## Not modelled, and what comes next

In this order:

1. The composition of turn, run registry and message run under the messages route, including
   what a rejected `unregisterRun` in its `finally` does to the answer and to the client (for the
   readers, `MessageRun` says it) and the `hitl_request` that reaches the client before its entry
   exists (orchestrator.ts:485). `Conversation` and
   `SessionStream` have the route's own steps and take each registry for what its module shows.
2. The map from a session to its active message (message-run-registry.ts:312-317 and 344-351),
   the one part of the message-run registry that is left out: it needs several messages of
   one session on two instances.
3. `RuntimeBus`: the subscription table (subscribe while SUBSCRIBE is pending, off, a
   rejected SUBSCRIBE), with an abstract specification "a handler whose subscribe has
   returned gets every message", which the three registries rely on.
4. Overlapping retries and documents beyond one page as runs on `Documents`.
5. Channels (routes/channels.ts, orchestrator/channel-registry.ts, web/hooks/useChannels.ts):
   do all members of a room come to see the same messages and reactions? A model needs the
   load that overwrites what the stream brought meanwhile, the reply to a post that lands in
   the room opened since, the echo of one's own reaction in another tab, and the roll-back to
   a snapshot. Reading the code answers part of it already: streamed messages lack the
   `reactions` that the message item reads, the list that is meant to hold the latest 200
   messages is ordered oldest first, and an `add` that changed nothing is published as well.

Not planned, and why:

* **Not reached by the running server.** createLLMFailoverProvider, consumeQuota (through
  logUsage) and the planner, worker, evaluator and hand-off modules are imported by tests
  only; there is no behaviour of the program to be faithful to.
* **Data without protocol.** Parsing, chunking, ranking, provider adapters, converters,
  prompts, tool bodies, what components draw: their state is one call's.
* **Single statements.** Administration (except that the suspension and the deletion of a user
  revoke the families in a second statement, which `AuthSession` has only as `Suspend` and as that of
  DELETE /me), groups (SCIM's too), grants, prompts, notes, folders,
  tags, memories and shares are role checks around one SQL statement; schedulers are timers
  over such statements. The other hooks of the client load lists and post forms.
* **Outside the program.** Generated types, build scripts, migrations, the design reference
  and preview pages.
