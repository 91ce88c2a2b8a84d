----------------------------- MODULE Documents -----------------------------
(***************************************************************************)
(* Project documents (db/document-service.ts): concurrent uploads,         *)
(* retries and deletions of one content in one project.  The row, its      *)
(* chunks and the original bytes are in two stores without a transaction   *)
(* around them: every query and every call of the object store is a step.  *)
(*                                                                         *)
(* UNIQUE (project_id, content_hash) allows one row of the content at a    *)
(* time, and its chunks go with it.  Which project and which content, who  *)
(* may write, and what a chunk says are not told apart: a chunk is the     *)
(* number of the operation that inserted it.                               *)
(***************************************************************************)
EXTENDS Naturals, FiniteSets

CONSTANTS
  Clients,    \* requests that may be in progress at once
  MaxOps,     \* bound on the requests
  MaxChunks,  \* bound on the chunks of the content
  Page,       \* how many chunks one list returns
  MaxFaults,  \* bound on crashes and failed queries
  None

ASSUME Bounds == /\ MaxOps \in Nat /\ MaxChunks \in Nat /\ MaxFaults \in Nat
                 /\ Page \in Nat \ {0}

VARIABLES
  blank,       \* the content has no text; an input that never changes
  row,         \* the row of project_documents, or None
  chunks,      \* chunks[k]: the operation that inserted chunk k of the row, or 0
  objects,     \* the keys of the object store
  ops,         \* requests so far; the number of one stands for the ids it makes
  at,          \* at[c]: where request c is
  op,          \* op[c]: its number
  doc,         \* doc[c]: the row it works on, as it read or inserted it
  cut,         \* cut[c]: into how many chunks it cut the content
  done,        \* done[c]: how many of them it inserted
  stale,       \* stale[c]: the chunks that it still has to delete
  overlapped,  \* rows that two requests indexed at the same time
  faults

vars == <<blank, row, chunks, objects, ops, at, op, doc, cut, done, stale, overlapped, faults>>
work == <<doc, cut, done, stale>>

Statuses == {"pending", "indexed", "failed"}
Rows == [id : 1..MaxOps, object : 1..MaxOps, status : Statuses, count : 0..MaxChunks]
Chunks == [at : 1..MaxChunks, by : 1..MaxOps]

ASSUME NoneIsNoRow == None \notin Rows

\* Inside the try of indexDocument or retryDocument.
Trying == {"parsing", "inserting", "marking"}
Indexing == Trying \cup {"listing", "clearing", "fetching", "failing"}

TypeOK ==
  /\ blank \in BOOLEAN
  /\ row \in Rows \cup {None}
  /\ chunks \in [1..MaxChunks -> 0..MaxOps]
  /\ objects \subseteq 1..MaxOps
  /\ ops \in 0..MaxOps
  /\ at \in [Clients -> {"idle", "putting", "storing", "removing", "deleting"} \cup Indexing]
  /\ op \in [Clients -> 0..MaxOps]
  /\ doc \in [Clients -> Rows \cup {None}]
  /\ cut \in [Clients -> 0..MaxChunks]
  /\ done \in [Clients -> 0..MaxChunks]
  /\ stale \in [Clients -> SUBSET Chunks]
  /\ overlapped \subseteq 1..MaxOps
  /\ faults \in 0..MaxFaults

NoChunks == [k \in 1..MaxChunks |-> 0]

Init ==
  /\ blank \in BOOLEAN
  /\ row = None
  /\ chunks = NoChunks
  /\ objects = {}
  /\ ops = 0
  /\ at = [c \in Clients |-> "idle"]
  /\ op = [c \in Clients |-> 0]
  /\ doc = [c \in Clients |-> None]
  /\ cut = [c \in Clients |-> 0]
  /\ done = [c \in Clients |-> 0]
  /\ stale = [c \in Clients |-> {}]
  /\ overlapped = {}
  /\ faults = 0

-----------------------------------------------------------------------------
Go(c, to) == at' = [at EXCEPT ![c] = to]

\* The row that c works on is still there.
Exists(c) == row # None /\ row.id = doc[c].id

\* A request starts with d, the row it read (None: an upload).
StartWith(c, to, d) ==
  /\ at[c] = "idle"
  /\ ops < MaxOps
  /\ ops' = ops + 1
  /\ op' = [op EXCEPT ![c] = ops']
  /\ Go(c, to)
  /\ doc' = [doc EXCEPT ![c] = d]
  /\ cut' = [cut EXCEPT ![c] = 0]
  /\ done' = [done EXCEPT ![c] = 0]
  /\ stale' = [stale EXCEPT ![c] = {}]
  /\ UNCHANGED <<blank, row, chunks, objects, faults>>

-----------------------------------------------------------------------------
(* indexDocument *)

\* byContentHash: an existing row of whatever status is the answer.
Upload(c) ==
  /\ row = None
  /\ StartWith(c, "putting", None)
  /\ UNCHANGED overlapped

Put(c) ==
  /\ at[c] = "putting"
  /\ objects' = objects \cup {op[c]}
  /\ Go(c, "storing")
  /\ UNCHANGED <<blank, row, chunks, ops, op, work, overlapped, faults>>

\* The row of a content that another upload stored meanwhile is refused, and the
\* bytes stay.
Insert(c) ==
  /\ at[c] = "storing"
  /\ IF row = None
       THEN /\ row' = [id |-> op[c], object |-> op[c], status |-> "pending", count |-> 0]
            /\ doc' = [doc EXCEPT ![c] = row']
            /\ Go(c, "parsing")
       ELSE /\ Go(c, "idle")
            /\ UNCHANGED <<row, doc>>
  /\ UNCHANGED <<blank, chunks, objects, ops, op, cut, done, stale, overlapped, faults>>

\* Faulty: the row says how far its indexing is, as its table allows.
ParseStored(c) ==
  /\ at[c] = "parsing"
  /\ row' = IF Exists(c) THEN [row EXCEPT !.status = "parsing"] ELSE row
  /\ \E n \in 1..MaxChunks : cut' = [cut EXCEPT ![c] = n]
  /\ Go(c, "inserting")
  /\ UNCHANGED <<blank, chunks, objects, ops, op, doc, done, stale, overlapped, faults>>

\* Parse, chunk and embed, any of which may throw; the org's chunk size is read
\* here, so two requests may cut the same text differently.
Parse(c) ==
  /\ at[c] = "parsing"
  /\ \/ /\ Go(c, "failing")
        /\ UNCHANGED cut
     \/ \E n \in IF blank THEN {0} ELSE 1..MaxChunks :
          /\ cut' = [cut EXCEPT ![c] = n]
          /\ Go(c, IF n = 0 THEN "marking" ELSE "inserting")
  /\ UNCHANGED <<blank, row, chunks, objects, ops, op, doc, done, stale, overlapped, faults>>

\* bulkInsert inserts one by one.  A chunk of a row that is gone, or one whose
\* place is taken, is refused.
InsertChunk(c) ==
  /\ at[c] = "inserting"
  /\ LET k == done[c] + 1
     IN IF Exists(c) /\ chunks[k] = 0
          THEN /\ chunks' = [chunks EXCEPT ![k] = op[c]]
               /\ done' = [done EXCEPT ![c] = k]
               /\ Go(c, IF k = cut[c] THEN "marking" ELSE "inserting")
          ELSE /\ Go(c, "failing")
               /\ UNCHANGED <<chunks, done>>
  /\ UNCHANGED <<blank, row, objects, ops, op, doc, cut, stale, overlapped, faults>>

\* The update of a row that is gone throws.
Mark(c) ==
  /\ at[c] = "marking"
  /\ IF Exists(c)
       THEN /\ row' = [row EXCEPT !.status = "indexed", !.count = cut[c]]
            /\ Go(c, "idle")
       ELSE /\ Go(c, "failing")
            /\ UNCHANGED row
  /\ UNCHANGED <<blank, chunks, objects, ops, op, work, overlapped, faults>>

\* Faulty: the catch only throws on.
MarkNothing(c) ==
  /\ at[c] = "failing"
  /\ Go(c, "idle")
  /\ UNCHANGED <<blank, row, chunks, objects, ops, op, work, overlapped, faults>>

\* Faulty: a failed indexing discards the bytes.
MarkDiscarded(c) ==
  /\ at[c] = "failing"
  /\ IF Exists(c) THEN row' = [row EXCEPT !.status = "failed"] ELSE UNCHANGED row
  /\ objects' = objects \ {doc[c].object}
  /\ Go(c, "idle")
  /\ UNCHANGED <<blank, chunks, ops, op, work, overlapped, faults>>

MarkFailed(c) ==
  /\ at[c] = "failing"
  /\ IF Exists(c) THEN row' = [row EXCEPT !.status = "failed"] ELSE UNCHANGED row
  /\ Go(c, "idle")
  /\ UNCHANGED <<blank, chunks, objects, ops, op, work, overlapped, faults>>

-----------------------------------------------------------------------------
(* retryDocument *)

Overlap == {d \in Clients : at[d] \in Indexing /\ Exists(d)}

\* Faulty: whatever is not indexed may be indexed again.
RetryPending(c) ==
  /\ row # None
  /\ row.status \in {"pending", "failed"}
  /\ StartWith(c, "listing", row)
  /\ overlapped' = IF row.status = "failed" /\ Overlap # {}
                     THEN overlapped \cup {row.id} ELSE overlapped

\* A document that is not failed is a conflict.
Retry(c) ==
  /\ row # None
  /\ row.status = "failed"
  /\ StartWith(c, "listing", row)
  /\ overlapped' = IF Overlap # {} THEN overlapped \cup {row.id} ELSE overlapped

\* The first page of the chunks in their order.
Listed == {k \in 1..MaxChunks :
             chunks[k] # 0 /\ Cardinality({j \in 1..k : chunks[j] # 0}) <= Page}

ListStale(c) ==
  /\ at[c] = "listing"
  /\ stale' = [stale EXCEPT ![c] =
       IF Exists(c) THEN {[at |-> k, by |-> chunks[k]] : k \in Listed} ELSE {}]
  /\ Go(c, "clearing")
  /\ UNCHANGED <<blank, row, chunks, objects, ops, op, doc, cut, done, overlapped, faults>>

\* Faulty: one stale chunk is deleted, not all.
DeleteOne(c) ==
  /\ at[c] = "clearing"
  /\ Go(c, "fetching")
  /\ chunks' = [k \in 1..MaxChunks |->
       IF \E s \in stale[c] : s.at = k /\ \A t \in stale[c] : k <= t.at THEN 0 ELSE chunks[k]]
  /\ UNCHANGED <<blank, row, objects, ops, op, work, overlapped, faults>>

\* By id: what was inserted in its place since stays.
DeleteStale(c) ==
  /\ at[c] = "clearing"
  /\ \/ /\ stale[c] = {}
        /\ Go(c, "fetching")
        /\ UNCHANGED <<chunks, stale>>
     \/ \E s \in stale[c] :
          /\ \A t \in stale[c] : s.at <= t.at
          /\ chunks' = IF Exists(c) /\ chunks[s.at] = s.by
                         THEN [chunks EXCEPT ![s.at] = 0] ELSE chunks
          /\ stale' = [stale EXCEPT ![c] = @ \ {s}]
          /\ UNCHANGED at
  /\ UNCHANGED <<blank, row, objects, ops, op, doc, cut, done, overlapped, faults>>

\* The bytes that are gone end the retry outside its try.
Fetch(c) ==
  /\ at[c] = "fetching"
  /\ Go(c, IF doc[c].object \in objects THEN "parsing" ELSE "idle")
  /\ UNCHANGED <<blank, row, chunks, objects, ops, op, work, overlapped, faults>>

-----------------------------------------------------------------------------
(* deleteDocument *)

Delete(c) ==
  /\ row # None
  /\ StartWith(c, "removing", row)
  /\ UNCHANGED overlapped

Remove(c) ==
  /\ at[c] = "removing"
  /\ objects' = objects \ {doc[c].object}
  /\ Go(c, "deleting")
  /\ UNCHANGED <<blank, row, chunks, ops, op, work, overlapped, faults>>

\* The chunks go with their row.
DeleteRow(c) ==
  /\ at[c] = "deleting"
  /\ IF Exists(c) THEN row' = None /\ chunks' = NoChunks ELSE UNCHANGED <<row, chunks>>
  /\ Go(c, "idle")
  /\ UNCHANGED <<blank, objects, ops, op, work, overlapped, faults>>

-----------------------------------------------------------------------------
(* faults *)

\* The process dies, or a query outside a try is rejected.
Breaks(c) ==
  /\ faults < MaxFaults
  /\ at[c] # "idle"
  /\ Go(c, "idle")
  /\ faults' = faults + 1
  /\ UNCHANGED <<blank, row, chunks, objects, ops, op, work, overlapped>>

\* A query inside a try is rejected.
Throws(c) ==
  /\ faults < MaxFaults
  /\ at[c] \in Trying
  /\ Go(c, "failing")
  /\ faults' = faults + 1
  /\ UNCHANGED <<blank, row, chunks, objects, ops, op, work, overlapped>>

-----------------------------------------------------------------------------
Proceed(c) ==
  \/ Put(c)
  \/ Insert(c)
  \/ Parse(c)
  \/ InsertChunk(c)
  \/ Mark(c)
  \/ MarkFailed(c)
  \/ ListStale(c)
  \/ DeleteStale(c)
  \/ Fetch(c)
  \/ Remove(c)
  \/ DeleteRow(c)

Next ==
  \E c \in Clients :
    Upload(c) \/ Retry(c) \/ Delete(c) \/ Proceed(c) \/ Breaks(c) \/ Throws(c)

Spec == Init /\ [][Next]_vars

\* The stores answer, parser and embedding provider end.
FairSpec == Spec /\ \A c \in Clients : WF_vars(Proceed(c))

-----------------------------------------------------------------------------
(* properties *)

\* The chunks of an indexed document are those of one indexing, as many as its
\* chunk_count says, whatever failed before; two retries that overlap may mix
\* theirs.
IndexedIsWhole ==
  row # None /\ row.status = "indexed" /\ row.id \notin overlapped =>
    /\ \A k \in 1..MaxChunks : chunks[k] # 0 <=> k <= row.count
    /\ \A k \in 1..row.count : chunks[k] = chunks[1]

\* An indexed document stays as it is until it is deleted: nobody's late failure
\* marks it, unless two retries overlap.
IndexedStays ==
  [][row # None /\ row.status = "indexed" /\ row' # None /\ row'.id = row.id
       /\ row.id \notin overlapped' => row' = row /\ chunks' = chunks]_vars

\* A row has its bytes, unless it is being deleted or a deletion broke off.
\* Otherwise every retry fails for good.
RowHasBytes ==
  row # None /\ row.object \notin objects =>
    faults > 0 \/ \E c \in Clients : at[c] = "deleting" /\ doc[c].id = row.id

\* A pending document is on its way: it gets indexed, failed or deleted.  Neither
\* retry nor upload touches one, so what breaks there stays for good.
PendingSettles ==
  row # None /\ row.status = "pending" ~>
    row = None \/ row.status # "pending" \/ faults > 0

-----------------------------------------------------------------------------
(* the inductive invariant behind the safety properties *)

\* The number of a request names it ...
OpsInv ==
  /\ \A c \in Clients : op[c] <= ops
  /\ \A c, d \in Clients : op[c] = op[d] /\ op[c] > 0 => c = d
  /\ \A c \in Clients : at[c] # "idle" => op[c] > 0

\* ... and the row it inserts, and the bytes it puts.
IdsInv ==
  /\ row # None => row.object = row.id /\ row.id <= ops
  /\ \A c \in Clients : doc[c] # None => doc[c].object = doc[c].id /\ doc[c].id <= ops
  /\ \A c \in Clients : at[c] \in Indexing \cup {"removing", "deleting"} => doc[c] # None
  /\ overlapped \subseteq 0..ops
  /\ row = None => chunks = NoChunks

\* The number of an upload that has yet to insert its row is still unused.
FreshInv ==
  \A c \in Clients : at[c] \in {"putting", "storing"} =>
    /\ op[c] \notin overlapped
    /\ row # None => row.id # op[c]
    /\ \A d \in Clients : doc[d] # None => doc[d].id # op[c]

\* How far an indexing is.
CountInv ==
  \A c \in Clients :
    /\ at[c] \in {"storing", "listing", "clearing", "fetching", "parsing", "putting"} => done[c] = 0
    /\ at[c] = "inserting" => done[c] < cut[c]

BytesInv ==
  /\ RowHasBytes
  /\ \A c \in Clients : at[c] = "storing" => op[c] \in objects

\* c indexes the row.
Works(c) == at[c] \in Indexing /\ Exists(c)

\* What the one that indexes the row knows of its chunks.
Knows(c) ==
  /\ at[c] = "clearing" =>
       \A k \in 1..MaxChunks : chunks[k] # 0 => [at |-> k, by |-> chunks[k]] \in stale[c]
  /\ at[c] \in {"fetching", "parsing"} => chunks = NoChunks
  /\ at[c] = "inserting" =>
       \A k \in 1..MaxChunks : chunks[k] = IF k <= done[c] THEN op[c] ELSE 0
  /\ at[c] = "marking" =>
       \A k \in 1..MaxChunks : chunks[k] = IF k <= cut[c] THEN op[c] ELSE 0

\* Without an overlap a row is indexed by one request at a time, and by none
\* once it is indexed.
SoleInv ==
  row # None /\ row.id \notin overlapped =>
    \A c \in Clients : Works(c) =>
      /\ row.status # "indexed"
      /\ Knows(c)
      /\ \A d \in Clients : Works(d) => c = d

IInv ==
  /\ TypeOK /\ OpsInv /\ IdsInv /\ FreshInv /\ CountInv /\ BytesInv
  /\ SoleInv /\ IndexedIsWhole

=============================================================================
