--------------------------- MODULE DocumentsProofs ---------------------------
(***************************************************************************)
(* Proofs about module Documents, for any number of clients, requests,     *)
(* chunks and faults.                                                      *)
(***************************************************************************)
EXTENDS Documents, FiniteSetTheorems, TLAPS

-----------------------------------------------------------------------------
(* the three steps that write the row, without record expressions *)

\* The record of a row that Insert makes.
LEMMA NewRow ==
  ASSUME NEW i \in 1..MaxOps
  PROVE  LET r == [id |-> i, object |-> i, status |-> "pending", count |-> 0]
         IN r \in Rows /\ r.id = i /\ r.object = i /\ r.status = "pending" /\ r.count = 0
BY Bounds DEF Rows, Statuses

\* A row marked as indexed with n chunks.
LEMMA IndexedRow ==
  ASSUME NEW r \in Rows, NEW n \in 0..MaxChunks
  PROVE  LET q == [r EXCEPT !.status = "indexed", !.count = n]
         IN /\ q \in Rows /\ q.id = r.id /\ q.object = r.object
            /\ q.status = "indexed" /\ q.count = n
BY DEF Rows, Statuses

\* A row marked as failed.
LEMMA FailedRow ==
  ASSUME NEW r \in Rows
  PROVE  LET q == [r EXCEPT !.status = "failed"]
         IN /\ q \in Rows /\ q.id = r.id /\ q.object = r.object
            /\ q.status = "failed" /\ q.count = r.count
BY DEF Rows, Statuses

\* The types as far as the steps need them, the sets of values unopened.
Places == {"idle", "putting", "storing", "removing", "deleting"} \cup Indexing
Docs == Rows \cup {None}

Lean ==
  /\ ops \in Nat /\ op \in [Clients -> Nat] /\ at \in [Clients -> Places]
  /\ doc \in [Clients -> Docs]
  /\ cut \in [Clients -> Nat] /\ done \in [Clients -> Nat]
  /\ stale \in [Clients -> SUBSET Chunks]
  /\ chunks \in [1..MaxChunks -> Nat]
  /\ row = None \/ row \in Rows
  /\ row # None => row.id \in Nat
  /\ faults \in Nat

\* The document of a request has a number for its id.
LEMMA DocIds ==
  ASSUME TypeOK, NEW c \in Clients, doc[c] # None
  PROVE  doc[c] \in Rows /\ doc[c].id \in Nat
BY Bounds DEF TypeOK, Rows

\* The type invariant has them.
LEMMA LeanTypes == TypeOK => Lean
<1> SUFFICES ASSUME TypeOK PROVE Lean
  OBVIOUS
<1>1. row = None \/ row \in Rows
  BY DEF TypeOK
<1>2. row # None => row.id \in Nat
  BY <1>1, Bounds DEF Rows
<1>3. QED
  BY <1>1, <1>2, Bounds DEF TypeOK, Lean, Places, Docs

\* What Insert does.
InsertDoes(c) ==
  /\ at[c] = "storing"
  /\ \/ /\ row = None
        /\ row' \in Rows /\ row' # None
        /\ row'.id = op[c] /\ row'.object = op[c]
        /\ row'.status = "pending" /\ row'.count = 0
        /\ doc' = [doc EXCEPT ![c] = row']
        /\ at' = [at EXCEPT ![c] = "parsing"]
     \/ /\ row # None
        /\ at' = [at EXCEPT ![c] = "idle"]
        /\ UNCHANGED <<row, doc>>
  /\ UNCHANGED <<blank, chunks, objects, ops, op, cut, done, stale, overlapped, faults>>

\* Insert does no more than that.
LEMMA InsertFacts ==
  ASSUME TypeOK, OpsInv, NEW c \in Clients, Insert(c)
  PROVE  InsertDoes(c)
<1>1. op[c] \in 1..MaxOps
  <2>1. op[c] \in 0..MaxOps /\ op[c] > 0
    BY DEF TypeOK, OpsInv, Insert
  <2>2. QED
    BY <2>1, Bounds
<1>2. None \notin Rows
  BY NoneIsNoRow
<1>3. QED
  BY <1>1, <1>2, NewRow DEF Insert, InsertDoes, Go

\* What Mark does.
MarkDoes(c) ==
  /\ at[c] = "marking"
  /\ \/ /\ Exists(c)
        /\ row \in Rows /\ row' \in Rows /\ row' # None
        /\ row'.id = row.id /\ row'.object = row.object
        /\ row'.status = "indexed" /\ row'.count = cut[c]
        /\ at' = [at EXCEPT ![c] = "idle"]
     \/ /\ ~ Exists(c)
        /\ at' = [at EXCEPT ![c] = "failing"]
        /\ UNCHANGED row
  /\ UNCHANGED <<blank, chunks, objects, ops, op, work, overlapped, faults>>

\* Mark does no more than that.
LEMMA MarkFacts ==
  ASSUME TypeOK, NEW c \in Clients, Mark(c)
  PROVE  MarkDoes(c)
<1>1. CASE Exists(c)
  <2>1. row \in Rows /\ cut[c] \in 0..MaxChunks
    BY <1>1 DEF TypeOK, Exists
  <2>2. row' = [row EXCEPT !.status = "indexed", !.count = cut[c]]
    BY <1>1 DEF Mark
  <2>3. /\ row' \in Rows /\ row'.id = row.id /\ row'.object = row.object
        /\ row'.status = "indexed" /\ row'.count = cut[c]
    BY <2>1, <2>2, IndexedRow
  <2>4. row' # None
    BY <2>3, NoneIsNoRow
  <2>5. QED
    BY <1>1, <2>1, <2>3, <2>4 DEF Mark, MarkDoes, Go
<1>2. CASE ~ Exists(c)
  BY <1>2 DEF Mark, MarkDoes, Go
<1>3. QED
  BY <1>1, <1>2

\* What MarkFailed does.
MarkFailedDoes(c) ==
  /\ at[c] = "failing"
  /\ at' = [at EXCEPT ![c] = "idle"]
  /\ \/ /\ Exists(c)
        /\ row \in Rows /\ row' \in Rows /\ row' # None
        /\ row'.id = row.id /\ row'.object = row.object
        /\ row'.status = "failed" /\ row'.count = row.count
     \/ /\ ~ Exists(c)
        /\ UNCHANGED row
  /\ UNCHANGED <<blank, chunks, objects, ops, op, work, overlapped, faults>>

\* MarkFailed does no more than that.
LEMMA MarkFailedFacts ==
  ASSUME TypeOK, NEW c \in Clients, MarkFailed(c)
  PROVE  MarkFailedDoes(c)
<1>1. CASE Exists(c)
  <2>1. row \in Rows /\ 0 \in 0..MaxChunks
    BY <1>1, Bounds DEF TypeOK, Exists
  <2>2. row' = [row EXCEPT !.status = "failed"]
    BY <1>1 DEF MarkFailed
  <2>3. /\ row' \in Rows /\ row'.id = row.id /\ row'.object = row.object
        /\ row'.status = "failed" /\ row'.count = row.count
    BY <2>1, <2>2, FailedRow
  <2>4. row' # None
    BY <2>3, NoneIsNoRow
  <2>5. QED
    BY <1>1, <2>1, <2>3, <2>4 DEF MarkFailed, MarkFailedDoes, Go
<1>2. CASE ~ Exists(c)
  BY <1>2 DEF MarkFailed, MarkFailedDoes, Go
<1>3. QED
  BY <1>1, <1>2

\* The start of a request.
StartDoes(c, to, d) ==
  /\ at[c] = "idle"
  /\ ops + 1 \in 0..MaxOps
  /\ ops' = ops + 1
  /\ op' = [op EXCEPT ![c] = ops + 1]
  /\ at' = [at EXCEPT ![c] = to]
  /\ doc' = [doc EXCEPT ![c] = d]
  /\ cut' = [cut EXCEPT ![c] = 0]
  /\ done' = [done EXCEPT ![c] = 0]
  /\ stale' = [stale EXCEPT ![c] = {}]
  /\ UNCHANGED <<blank, row, chunks, objects, faults>>

\* StartWith does no more than that.
LEMMA StartFacts ==
  ASSUME TypeOK, NEW c \in Clients, NEW to, NEW d, StartWith(c, to, d)
  PROVE  StartDoes(c, to, d)
<1>1. ops + 1 \in 0..MaxOps
  BY Bounds DEF TypeOK, StartWith
<1>2. QED
  BY <1>1 DEF StartWith, StartDoes, Go

-----------------------------------------------------------------------------
(* types, ids and counts *)

\* Every step keeps the types.
LEMMA TypeNext ==
  TypeOK /\ OpsInv /\ IdsInv /\ CountInv /\ [Next]_vars => TypeOK'
<1> SUFFICES ASSUME TypeOK, OpsInv, IdsInv, CountInv, [Next]_vars PROVE TypeOK'
  OBVIOUS
<1> USE DEF TypeOK, Indexing, Trying
<1>Upload. ASSUME NEW c \in Clients, Upload(c) PROVE TypeOK'
  <2>1. StartDoes(c, "putting", None)
    BY <1>Upload, StartFacts DEF Upload, StartWith
  <2>2. overlapped' \subseteq 1..MaxOps
    BY <1>Upload DEF Upload
  <2>3. QED
    BY <2>1, <2>2, Bounds DEF StartDoes
<1>Retry. ASSUME NEW c \in Clients, Retry(c) PROVE TypeOK'
  <2>1. StartDoes(c, "listing", row)
    BY <1>Retry, StartFacts DEF Retry, StartWith
  <2>2. overlapped' \subseteq 1..MaxOps
    <3>1. row.id \in 1..MaxOps
      BY <1>Retry DEF Retry, Rows
    <3>2. QED
      BY <1>Retry, <3>1 DEF Retry
  <2>3. QED
    BY <2>1, <2>2, Bounds DEF StartDoes
<1>Delete. ASSUME NEW c \in Clients, Delete(c) PROVE TypeOK'
  <2>1. StartDoes(c, "removing", row)
    BY <1>Delete, StartFacts DEF Delete, StartWith
  <2>2. overlapped' \subseteq 1..MaxOps
    BY <1>Delete DEF Delete
  <2>3. QED
    BY <2>1, <2>2, Bounds DEF StartDoes
<1>Put. ASSUME NEW c \in Clients, Put(c) PROVE TypeOK'
  <2>1. op[c] \in 1..MaxOps
    <3>1. op[c] \in 0..MaxOps /\ op[c] > 0
      BY <1>Put DEF OpsInv, Put
    <3>2. QED
      BY <3>1, Bounds
  <2>2. QED
    BY <1>Put, <2>1 DEF Put, Go, work
<1>Insert. ASSUME NEW c \in Clients, Insert(c) PROVE TypeOK'
  <2>1. InsertDoes(c)
    BY <1>Insert, InsertFacts
  <2>2. row' \in Rows \cup {None} /\ doc' \in [Clients -> Rows \cup {None}]
    BY <2>1 DEF InsertDoes
  <2>3. at' \in [Clients -> {"idle", "putting", "storing", "removing", "deleting"} \cup Indexing]
    BY <2>1 DEF InsertDoes
  <2>4. QED
    BY <2>1, <2>2, <2>3 DEF InsertDoes
<1>Parse. ASSUME NEW c \in Clients, Parse(c) PROVE TypeOK'
  <2>1. ASSUME NEW n \in IF blank THEN {0} ELSE 1..MaxChunks
        PROVE  n \in 0..MaxChunks
    BY Bounds
  <2>2. cut' \in [Clients -> 0..MaxChunks]
    BY <1>Parse, <2>1 DEF Parse
  <2>3. at' \in [Clients -> {"idle", "putting", "storing", "removing", "deleting"} \cup Indexing]
    BY <1>Parse DEF Parse, Go
  <2>4. QED
    BY <1>Parse, <2>2, <2>3 DEF Parse
<1>InsertChunk. ASSUME NEW c \in Clients, InsertChunk(c) PROVE TypeOK'
  <2>1. op[c] \in 0..MaxOps
    OBVIOUS
  <2>2. done[c] + 1 \in 1..MaxChunks
    BY <1>InsertChunk, Bounds DEF CountInv, InsertChunk
  <2>3. chunks' \in [1..MaxChunks -> 0..MaxOps]
    BY <1>InsertChunk, <2>1 DEF InsertChunk
  <2>4. done' \in [Clients -> 0..MaxChunks]
    <3>1. done[c] + 1 \in 0..MaxChunks
      BY <2>2, Bounds
    <3>2. QED
      BY <1>InsertChunk, <3>1 DEF InsertChunk
  <2>5. at' \in [Clients -> {"idle", "putting", "storing", "removing", "deleting"} \cup Indexing]
    BY <1>InsertChunk DEF InsertChunk, Go
  <2>6. QED
    BY <1>InsertChunk, <2>3, <2>4, <2>5 DEF InsertChunk
<1>Mark. ASSUME NEW c \in Clients, Mark(c) PROVE TypeOK'
  BY <1>Mark, MarkFacts DEF Exists, work, MarkDoes
<1>MarkFailed. ASSUME NEW c \in Clients, MarkFailed(c) PROVE TypeOK'
  BY <1>MarkFailed, MarkFailedFacts DEF Exists, work, MarkFailedDoes
<1>ListStale. ASSUME NEW c \in Clients, ListStale(c) PROVE TypeOK'
  <2>1. ASSUME NEW k \in Listed
        PROVE  [at |-> k, by |-> chunks[k]] \in Chunks
    <3>1. k \in 1..MaxChunks /\ chunks[k] \in 0..MaxOps /\ chunks[k] # 0
      BY DEF Listed
    <3>2. chunks[k] \in 1..MaxOps
      BY <3>1, Bounds
    <3>3. QED
      BY <3>1, <3>2 DEF Chunks
  <2>2. {[at |-> k, by |-> chunks[k]] : k \in Listed} \in SUBSET Chunks
    BY <2>1
  <2>3. stale' \in [Clients -> SUBSET Chunks]
    BY <1>ListStale, <2>2 DEF ListStale
  <2>4. QED
    BY <1>ListStale, <2>3 DEF ListStale, Go
<1>DeleteStale. ASSUME NEW c \in Clients, DeleteStale(c) PROVE TypeOK'
  <2>1. chunks' \in [1..MaxChunks -> 0..MaxOps]
    <3>1. 0 \in 0..MaxOps
      BY Bounds
    <3>2. CASE stale[c] = {} /\ chunks' = chunks
      BY <3>2
    <3>3. ASSUME NEW s \in stale[c],
                 chunks' = IF Exists(c) /\ chunks[s.at] = s.by
                             THEN [chunks EXCEPT ![s.at] = 0] ELSE chunks
          PROVE  chunks' \in [1..MaxChunks -> 0..MaxOps]
      BY <3>1, <3>3
    <3>4. QED
      BY <1>DeleteStale, <3>2, <3>3 DEF DeleteStale
  <2>2. stale' \in [Clients -> SUBSET Chunks]
    <3>1. ASSUME NEW s PROVE stale[c] \ {s} \in SUBSET Chunks
      OBVIOUS
    <3>2. QED
      BY <1>DeleteStale, <3>1 DEF DeleteStale
  <2>3. at' \in [Clients -> {"idle", "putting", "storing", "removing", "deleting"} \cup Indexing]
    BY <1>DeleteStale DEF DeleteStale, Go
  <2>4. QED
    BY <1>DeleteStale, <2>1, <2>2, <2>3 DEF DeleteStale
<1>Fetch. ASSUME NEW c \in Clients, Fetch(c) PROVE TypeOK'
  BY <1>Fetch DEF Fetch, Go, work
<1>Remove. ASSUME NEW c \in Clients, Remove(c) PROVE TypeOK'
  BY <1>Remove DEF Remove, Go, work
<1>DeleteRow. ASSUME NEW c \in Clients, DeleteRow(c) PROVE TypeOK'
  <2>1. NoChunks \in [1..MaxChunks -> 0..MaxOps]
    BY Bounds DEF NoChunks
  <2>2. QED
    BY <1>DeleteRow, <2>1 DEF DeleteRow, Go, work
<1>Breaks. ASSUME NEW c \in Clients, Breaks(c) PROVE TypeOK'
  BY <1>Breaks, Bounds DEF Breaks, Go, work
<1>Throws. ASSUME NEW c \in Clients, Throws(c) PROVE TypeOK'
  BY <1>Throws, Bounds DEF Throws, Go, work
<1>Stutter. CASE UNCHANGED vars
  BY <1>Stutter DEF vars, work
<1> HIDE DEF TypeOK, Indexing, Trying
<1>QED. QED
  BY <1>Upload, <1>Retry, <1>Delete, <1>Put, <1>Insert, <1>Parse, <1>InsertChunk, <1>Mark,
     <1>MarkFailed, <1>ListStale, <1>DeleteStale, <1>Fetch, <1>Remove, <1>DeleteRow, <1>Breaks, <1>Throws, <1>Stutter
     DEF Next, Proceed

\* Every step keeps the numbers apart.
LEMMA OpsNext ==
  TypeOK /\ OpsInv /\ [Next]_vars => OpsInv'
<1> SUFFICES ASSUME TypeOK, OpsInv, [Next]_vars PROVE OpsInv'
  OBVIOUS
<1> USE DEF Lean, OpsInv, Trying
<1>Upload. ASSUME NEW c \in Clients, Upload(c) PROVE OpsInv'
  <2>1. StartDoes(c, "putting", None)
    BY <1>Upload, StartFacts DEF Upload
  <2>2. QED
    BY <2>1, LeanTypes DEF Lean, StartDoes
<1>Retry. ASSUME NEW c \in Clients, Retry(c) PROVE OpsInv'
  <2>1. StartDoes(c, "listing", row)
    BY <1>Retry, StartFacts DEF Retry
  <2>2. QED
    BY <2>1, LeanTypes DEF Lean, StartDoes
<1>Delete. ASSUME NEW c \in Clients, Delete(c) PROVE OpsInv'
  <2>1. StartDoes(c, "removing", row)
    BY <1>Delete, StartFacts DEF Delete
  <2>2. QED
    BY <2>1, LeanTypes DEF Lean, StartDoes
<1>Put. ASSUME NEW c \in Clients, Put(c) PROVE OpsInv'
  BY <1>Put, LeanTypes DEF Put, Go, work
<1>Insert. ASSUME NEW c \in Clients, Insert(c) PROVE OpsInv'
  BY <1>Insert, LeanTypes, InsertFacts DEF work, InsertDoes
<1>Parse. ASSUME NEW c \in Clients, Parse(c) PROVE OpsInv'
  BY <1>Parse, LeanTypes DEF Parse, Go, work
<1>InsertChunk. ASSUME NEW c \in Clients, InsertChunk(c) PROVE OpsInv'
  BY <1>InsertChunk, LeanTypes DEF InsertChunk, Go, Exists, work
<1>Mark. ASSUME NEW c \in Clients, Mark(c) PROVE OpsInv'
  BY <1>Mark, LeanTypes, MarkFacts DEF Exists, work, MarkDoes
<1>MarkFailed. ASSUME NEW c \in Clients, MarkFailed(c) PROVE OpsInv'
  BY <1>MarkFailed, LeanTypes, MarkFailedFacts DEF Exists, work, MarkFailedDoes
<1>ListStale. ASSUME NEW c \in Clients, ListStale(c) PROVE OpsInv'
  BY <1>ListStale, LeanTypes DEF ListStale, Go, Exists, work
<1>DeleteStale. ASSUME NEW c \in Clients, DeleteStale(c) PROVE OpsInv'
  BY <1>DeleteStale, LeanTypes DEF DeleteStale, Go, Exists, work
<1>Fetch. ASSUME NEW c \in Clients, Fetch(c) PROVE OpsInv'
  BY <1>Fetch, LeanTypes DEF Fetch, Go, work
<1>Remove. ASSUME NEW c \in Clients, Remove(c) PROVE OpsInv'
  BY <1>Remove, LeanTypes DEF Remove, Go, work
<1>DeleteRow. ASSUME NEW c \in Clients, DeleteRow(c) PROVE OpsInv'
  BY <1>DeleteRow, LeanTypes DEF DeleteRow, Go, Exists, work
<1>Breaks. ASSUME NEW c \in Clients, Breaks(c) PROVE OpsInv'
  BY <1>Breaks, LeanTypes DEF Breaks, Go, work
<1>Throws. ASSUME NEW c \in Clients, Throws(c) PROVE OpsInv'
  BY <1>Throws, LeanTypes DEF Throws, Go, work
<1>Stutter. CASE UNCHANGED vars
  BY <1>Stutter DEF vars, work
<1> HIDE DEF Lean, OpsInv, Trying
<1>QED. QED
  BY <1>Upload, <1>Retry, <1>Delete, <1>Put, <1>Insert, <1>Parse, <1>InsertChunk, <1>Mark,
     <1>MarkFailed, <1>ListStale, <1>DeleteStale, <1>Fetch, <1>Remove, <1>DeleteRow, <1>Breaks, <1>Throws, <1>Stutter
     DEF Next, Proceed

\* Every step keeps the ids apart.
LEMMA IdsNext ==
  TypeOK /\ OpsInv /\ IdsInv /\ [Next]_vars => IdsInv'
<1> SUFFICES ASSUME TypeOK, OpsInv, IdsInv, [Next]_vars PROVE IdsInv'
  OBVIOUS
<1> USE DEF Lean, Indexing, Trying, IdsInv
<1>Upload. ASSUME NEW c \in Clients, Upload(c) PROVE IdsInv'
  <2>1. StartDoes(c, "putting", None)
    BY <1>Upload, StartFacts DEF Upload
  <2>2. row = None /\ overlapped' \subseteq overlapped
    BY <1>Upload DEF Upload
  <2>3. overlapped' \subseteq 0..ops'
    BY <2>1, <2>2, LeanTypes DEF Lean, StartDoes
  <2>4. row' # None => row'.object = row'.id /\ row'.id <= ops'
    BY <2>1, LeanTypes DEF Lean, StartDoes
  <2>5. ASSUME NEW e \in Clients, doc'[e] # None
        PROVE  doc'[e].object = doc'[e].id /\ doc'[e].id <= ops'
    <3>1. CASE e = c
      BY <2>1, <2>2, <2>5, <3>1, LeanTypes DEF Lean, StartDoes
    <3>2. CASE e # c
      <4>1. doc'[e] = doc[e]
        BY <2>1, <3>2, LeanTypes DEF Lean, StartDoes
      <4>2. doc[e].object = doc[e].id /\ doc[e].id <= ops
        BY <2>5, <4>1
      <4>3. doc[e].id <= ops + 1
        BY <4>2, DocIds, LeanTypes, <4>1, <2>5 DEF Lean
      <4>4. QED
        BY <2>1, <4>1, <4>2, <4>3 DEF StartDoes
    <3>3. QED
      BY <3>1, <3>2
  <2>6. \A e \in Clients : at'[e] \in Indexing \cup {"removing", "deleting"} => doc'[e] # None
    BY <2>1, <2>2, LeanTypes DEF Lean, StartDoes
  <2>7. QED
    BY <2>1, <2>3, <2>4, <2>5, <2>6 DEF StartDoes
<1>Retry. ASSUME NEW c \in Clients, Retry(c) PROVE IdsInv'
  <2>1. StartDoes(c, "listing", row)
    BY <1>Retry, StartFacts DEF Retry
  <2>2. row # None /\ overlapped' \subseteq overlapped \cup {row.id}
    BY <1>Retry DEF Retry
  <2>3. overlapped' \subseteq 0..ops'
    BY <2>1, <2>2, LeanTypes DEF Lean, StartDoes
  <2>4. row' # None => row'.object = row'.id /\ row'.id <= ops'
    BY <2>1, LeanTypes DEF Lean, StartDoes
  <2>5. ASSUME NEW e \in Clients, doc'[e] # None
        PROVE  doc'[e].object = doc'[e].id /\ doc'[e].id <= ops'
    <3>1. CASE e = c
      BY <2>1, <2>2, <2>5, <3>1, LeanTypes DEF Lean, StartDoes
    <3>2. CASE e # c
      <4>1. doc'[e] = doc[e]
        BY <2>1, <3>2, LeanTypes DEF Lean, StartDoes
      <4>2. doc[e].object = doc[e].id /\ doc[e].id <= ops
        BY <2>5, <4>1
      <4>3. doc[e].id <= ops + 1
        BY <4>2, DocIds, LeanTypes, <4>1, <2>5 DEF Lean
      <4>4. QED
        BY <2>1, <4>1, <4>2, <4>3 DEF StartDoes
    <3>3. QED
      BY <3>1, <3>2
  <2>6. \A e \in Clients : at'[e] \in Indexing \cup {"removing", "deleting"} => doc'[e] # None
    BY <2>1, <2>2, LeanTypes DEF Lean, StartDoes
  <2>7. QED
    BY <2>1, <2>3, <2>4, <2>5, <2>6 DEF StartDoes
<1>Delete. ASSUME NEW c \in Clients, Delete(c) PROVE IdsInv'
  <2>1. StartDoes(c, "removing", row)
    BY <1>Delete, StartFacts DEF Delete
  <2>2. row # None /\ overlapped' \subseteq overlapped
    BY <1>Delete DEF Delete
  <2>3. overlapped' \subseteq 0..ops'
    BY <2>1, <2>2, LeanTypes DEF Lean, StartDoes
  <2>4. row' # None => row'.object = row'.id /\ row'.id <= ops'
    BY <2>1, LeanTypes DEF Lean, StartDoes
  <2>5. ASSUME NEW e \in Clients, doc'[e] # None
        PROVE  doc'[e].object = doc'[e].id /\ doc'[e].id <= ops'
    <3>1. CASE e = c
      BY <2>1, <2>2, <2>5, <3>1, LeanTypes DEF Lean, StartDoes
    <3>2. CASE e # c
      <4>1. doc'[e] = doc[e]
        BY <2>1, <3>2, LeanTypes DEF Lean, StartDoes
      <4>2. doc[e].object = doc[e].id /\ doc[e].id <= ops
        BY <2>5, <4>1
      <4>3. doc[e].id <= ops + 1
        BY <4>2, DocIds, LeanTypes, <4>1, <2>5 DEF Lean
      <4>4. QED
        BY <2>1, <4>1, <4>2, <4>3 DEF StartDoes
    <3>3. QED
      BY <3>1, <3>2
  <2>6. \A e \in Clients : at'[e] \in Indexing \cup {"removing", "deleting"} => doc'[e] # None
    BY <2>1, <2>2, LeanTypes DEF Lean, StartDoes
  <2>7. QED
    BY <2>1, <2>3, <2>4, <2>5, <2>6 DEF StartDoes
<1>Put. ASSUME NEW c \in Clients, Put(c) PROVE IdsInv'
  BY <1>Put, LeanTypes, NoneIsNoRow DEF Put, Go, work
<1>Insert. ASSUME NEW c \in Clients, Insert(c) PROVE IdsInv'
  <2>1. InsertDoes(c)
    BY <1>Insert, InsertFacts
  <2>2. op[c] <= ops
    BY DEF OpsInv
  <2>3. row' # None => row'.object = row'.id /\ row'.id <= ops'
    BY <2>1, <2>2 DEF InsertDoes
  <2>4. ASSUME NEW e \in Clients, doc'[e] # None
        PROVE  doc'[e].object = doc'[e].id /\ doc'[e].id <= ops'
    <3>1. CASE e = c /\ row = None
      BY <2>1, <2>2, <3>1, LeanTypes DEF Lean, InsertDoes
    <3>2. CASE ~(e = c /\ row = None)
      <4>1. doc'[e] = doc[e]
        BY <2>1, <3>2, LeanTypes DEF Lean, InsertDoes
      <4>2. QED
        BY <2>1, <2>4, <4>1 DEF InsertDoes
    <3>3. QED
      BY <3>1, <3>2
  <2>5. \A e \in Clients : at'[e] \in Indexing \cup {"removing", "deleting"} => doc'[e] # None
    BY <2>1, LeanTypes DEF Lean, InsertDoes
  <2>6. row' = None => chunks' = NoChunks
    BY <2>1 DEF InsertDoes
  <2>7. overlapped' \subseteq 0..ops'
    BY <2>1 DEF InsertDoes
  <2>8. QED
    BY <2>3, <2>4, <2>5, <2>6, <2>7
<1>Parse. ASSUME NEW c \in Clients, Parse(c) PROVE IdsInv'
  BY <1>Parse, LeanTypes, NoneIsNoRow DEF Parse, Go, work
<1>InsertChunk. ASSUME NEW c \in Clients, InsertChunk(c) PROVE IdsInv'
  BY <1>InsertChunk, LeanTypes, NoneIsNoRow DEF InsertChunk, Go, Exists, work
<1>Mark. ASSUME NEW c \in Clients, Mark(c) PROVE IdsInv'
  BY <1>Mark, LeanTypes, NoneIsNoRow, MarkFacts DEF Exists, work, MarkDoes
<1>MarkFailed. ASSUME NEW c \in Clients, MarkFailed(c) PROVE IdsInv'
  BY <1>MarkFailed, LeanTypes, NoneIsNoRow, MarkFailedFacts DEF Exists, work, MarkFailedDoes
<1>ListStale. ASSUME NEW c \in Clients, ListStale(c) PROVE IdsInv'
  BY <1>ListStale, LeanTypes, NoneIsNoRow DEF ListStale, Go, Exists, work
<1>DeleteStale. ASSUME NEW c \in Clients, DeleteStale(c) PROVE IdsInv'
  BY <1>DeleteStale, LeanTypes, NoneIsNoRow DEF DeleteStale, Go, Exists, work
<1>Fetch. ASSUME NEW c \in Clients, Fetch(c) PROVE IdsInv'
  BY <1>Fetch, LeanTypes, NoneIsNoRow DEF Fetch, Go, work
<1>Remove. ASSUME NEW c \in Clients, Remove(c) PROVE IdsInv'
  BY <1>Remove, LeanTypes, NoneIsNoRow DEF Remove, Go, work
<1>DeleteRow. ASSUME NEW c \in Clients, DeleteRow(c) PROVE IdsInv'
  BY <1>DeleteRow, LeanTypes, NoneIsNoRow DEF DeleteRow, Go, Exists, work
<1>Breaks. ASSUME NEW c \in Clients, Breaks(c) PROVE IdsInv'
  BY <1>Breaks, LeanTypes, NoneIsNoRow DEF Breaks, Go, work
<1>Throws. ASSUME NEW c \in Clients, Throws(c) PROVE IdsInv'
  BY <1>Throws, LeanTypes, NoneIsNoRow DEF Throws, Go, work
<1>Stutter. CASE UNCHANGED vars
  BY <1>Stutter DEF vars, work
<1> HIDE DEF Lean, Indexing, Trying, IdsInv
<1>QED. QED
  BY <1>Upload, <1>Retry, <1>Delete, <1>Put, <1>Insert, <1>Parse, <1>InsertChunk, <1>Mark,
     <1>MarkFailed, <1>ListStale, <1>DeleteStale, <1>Fetch, <1>Remove, <1>DeleteRow, <1>Breaks, <1>Throws, <1>Stutter
     DEF Next, Proceed

\* Every step keeps an upload's number unused.
LEMMA FreshNext ==
  TypeOK /\ OpsInv /\ IdsInv /\ FreshInv /\ [Next]_vars => FreshInv'
<1> SUFFICES ASSUME TypeOK, OpsInv, IdsInv, FreshInv, [Next]_vars PROVE FreshInv'
  OBVIOUS
<1> USE DEF Lean, Indexing, Trying, IdsInv, FreshInv
<1>Upload. ASSUME NEW c \in Clients, Upload(c) PROVE FreshInv'
  <2>1. StartDoes(c, "putting", None)
    BY <1>Upload, StartFacts DEF Upload
  <2>2. row = None /\ overlapped' \subseteq overlapped
    BY <1>Upload DEF Upload
  <2>3. QED
    BY <2>1, <2>2, LeanTypes DEF Lean, StartDoes
<1>Retry. ASSUME NEW c \in Clients, Retry(c) PROVE FreshInv'
  <2>1. StartDoes(c, "listing", row)
    BY <1>Retry, StartFacts DEF Retry
  <2>2. row # None /\ overlapped' \subseteq overlapped \cup {row.id}
    BY <1>Retry DEF Retry
  <2>3. QED
    BY <2>1, <2>2, LeanTypes DEF Lean, StartDoes
<1>Delete. ASSUME NEW c \in Clients, Delete(c) PROVE FreshInv'
  <2>1. StartDoes(c, "removing", row)
    BY <1>Delete, StartFacts DEF Delete
  <2>2. row # None /\ overlapped' \subseteq overlapped
    BY <1>Delete DEF Delete
  <2>3. QED
    BY <2>1, <2>2, LeanTypes DEF Lean, StartDoes
<1>Put. ASSUME NEW c \in Clients, Put(c) PROVE FreshInv'
  BY <1>Put, LeanTypes, NoneIsNoRow DEF Put, Go, work
<1>Insert. ASSUME NEW c \in Clients, Insert(c) PROVE FreshInv'
  <2>1. InsertDoes(c)
    BY <1>Insert, InsertFacts
  <2>2. SUFFICES ASSUME NEW e \in Clients, at'[e] \in {"putting", "storing"}
                 PROVE  /\ op'[e] \notin overlapped'
                        /\ row' # None => row'.id # op'[e]
                        /\ \A d \in Clients : doc'[d] # None => doc'[d].id # op'[e]
    OBVIOUS
  <2>3. e # c /\ at[e] = at'[e] /\ op[e] # op[c] /\ op' = op
    BY <2>1, <2>2, LeanTypes DEF Lean, InsertDoes, OpsInv
  <2>4. op'[e] \notin overlapped' /\ (row' # None => row'.id # op'[e])
    BY <2>1, <2>2, <2>3 DEF InsertDoes
  <2>5. ASSUME NEW d \in Clients, doc'[d] # None PROVE doc'[d].id # op'[e]
    <3>1. CASE d = c /\ row = None
      BY <2>1, <2>3, <3>1, LeanTypes DEF Lean, InsertDoes
    <3>2. CASE ~(d = c /\ row = None)
      <4>1. doc'[d] = doc[d]
        BY <2>1, <3>2, LeanTypes DEF Lean, InsertDoes
      <4>2. QED
        BY <2>2, <2>3, <2>5, <4>1
    <3>3. QED
      BY <3>1, <3>2
  <2>6. QED
    BY <2>4, <2>5
<1>Parse. ASSUME NEW c \in Clients, Parse(c) PROVE FreshInv'
  BY <1>Parse, LeanTypes, NoneIsNoRow DEF Parse, Go, work
<1>InsertChunk. ASSUME NEW c \in Clients, InsertChunk(c) PROVE FreshInv'
  BY <1>InsertChunk, LeanTypes, NoneIsNoRow DEF InsertChunk, Go, Exists, work
<1>Mark. ASSUME NEW c \in Clients, Mark(c) PROVE FreshInv'
  <2>1. MarkDoes(c)
    BY <1>Mark, MarkFacts
  <2>2. /\ \A e \in Clients : at'[e] \in {"putting", "storing"} => at[e] = at'[e]
        /\ row' # None => row # None /\ row'.id = row.id
        /\ UNCHANGED <<op, doc, overlapped>>
    BY <2>1, LeanTypes DEF Lean, MarkDoes, Exists, work
  <2>3. QED
    BY <2>2
<1>MarkFailed. ASSUME NEW c \in Clients, MarkFailed(c) PROVE FreshInv'
  <2>1. MarkFailedDoes(c)
    BY <1>MarkFailed, MarkFailedFacts
  <2>2. /\ \A e \in Clients : at'[e] \in {"putting", "storing"} => at[e] = at'[e]
        /\ row' # None => row # None /\ row'.id = row.id
        /\ UNCHANGED <<op, doc, overlapped>>
    BY <2>1, LeanTypes DEF Lean, MarkFailedDoes, Exists, work
  <2>3. QED
    BY <2>2
<1>ListStale. ASSUME NEW c \in Clients, ListStale(c) PROVE FreshInv'
  BY <1>ListStale, LeanTypes, NoneIsNoRow DEF ListStale, Go, Exists, work
<1>DeleteStale. ASSUME NEW c \in Clients, DeleteStale(c) PROVE FreshInv'
  BY <1>DeleteStale, LeanTypes, NoneIsNoRow DEF DeleteStale, Go, Exists, work
<1>Fetch. ASSUME NEW c \in Clients, Fetch(c) PROVE FreshInv'
  BY <1>Fetch, LeanTypes, NoneIsNoRow DEF Fetch, Go, work
<1>Remove. ASSUME NEW c \in Clients, Remove(c) PROVE FreshInv'
  BY <1>Remove, LeanTypes, NoneIsNoRow DEF Remove, Go, work
<1>DeleteRow. ASSUME NEW c \in Clients, DeleteRow(c) PROVE FreshInv'
  BY <1>DeleteRow, LeanTypes, NoneIsNoRow DEF DeleteRow, Go, Exists, work
<1>Breaks. ASSUME NEW c \in Clients, Breaks(c) PROVE FreshInv'
  BY <1>Breaks, LeanTypes, NoneIsNoRow DEF Breaks, Go, work
<1>Throws. ASSUME NEW c \in Clients, Throws(c) PROVE FreshInv'
  BY <1>Throws, LeanTypes, NoneIsNoRow DEF Throws, Go, work
<1>Stutter. CASE UNCHANGED vars
  BY <1>Stutter DEF vars, work
<1> HIDE DEF Lean, Indexing, Trying, IdsInv, FreshInv
<1>QED. QED
  BY <1>Upload, <1>Retry, <1>Delete, <1>Put, <1>Insert, <1>Parse, <1>InsertChunk, <1>Mark,
     <1>MarkFailed, <1>ListStale, <1>DeleteStale, <1>Fetch, <1>Remove, <1>DeleteRow, <1>Breaks, <1>Throws, <1>Stutter
     DEF Next, Proceed

\* Every step keeps count.
LEMMA CountNext ==
  TypeOK /\ OpsInv /\ CountInv /\ [Next]_vars => CountInv'
<1> SUFFICES ASSUME TypeOK, OpsInv, CountInv, [Next]_vars PROVE CountInv'
  OBVIOUS
<1> USE DEF Lean, Indexing, Trying, CountInv
<1>Upload. ASSUME NEW c \in Clients, Upload(c) PROVE CountInv'
  <2>1. StartDoes(c, "putting", None)
    BY <1>Upload, StartFacts DEF Upload
  <2>2. QED
    BY <2>1, LeanTypes DEF Lean, StartDoes
<1>Retry. ASSUME NEW c \in Clients, Retry(c) PROVE CountInv'
  <2>1. StartDoes(c, "listing", row)
    BY <1>Retry, StartFacts DEF Retry
  <2>2. QED
    BY <2>1, LeanTypes DEF Lean, StartDoes
<1>Delete. ASSUME NEW c \in Clients, Delete(c) PROVE CountInv'
  <2>1. StartDoes(c, "removing", row)
    BY <1>Delete, StartFacts DEF Delete
  <2>2. QED
    BY <2>1, LeanTypes DEF Lean, StartDoes
<1>Put. ASSUME NEW c \in Clients, Put(c) PROVE CountInv'
  BY <1>Put, LeanTypes DEF Put, Go, work
<1>Insert. ASSUME NEW c \in Clients, Insert(c) PROVE CountInv'
  BY <1>Insert, LeanTypes, InsertFacts DEF work, InsertDoes
<1>Parse. ASSUME NEW c \in Clients, Parse(c) PROVE CountInv'
  BY <1>Parse, LeanTypes DEF Parse, Go, work
<1>InsertChunk. ASSUME NEW c \in Clients, InsertChunk(c) PROVE CountInv'
  BY <1>InsertChunk, LeanTypes DEF InsertChunk, Go, Exists, work
<1>Mark. ASSUME NEW c \in Clients, Mark(c) PROVE CountInv'
  BY <1>Mark, LeanTypes, MarkFacts DEF Exists, work, MarkDoes
<1>MarkFailed. ASSUME NEW c \in Clients, MarkFailed(c) PROVE CountInv'
  BY <1>MarkFailed, LeanTypes, MarkFailedFacts DEF Exists, work, MarkFailedDoes
<1>ListStale. ASSUME NEW c \in Clients, ListStale(c) PROVE CountInv'
  BY <1>ListStale, LeanTypes DEF ListStale, Go, Exists, work
<1>DeleteStale. ASSUME NEW c \in Clients, DeleteStale(c) PROVE CountInv'
  BY <1>DeleteStale, LeanTypes DEF DeleteStale, Go, Exists, work
<1>Fetch. ASSUME NEW c \in Clients, Fetch(c) PROVE CountInv'
  BY <1>Fetch, LeanTypes DEF Fetch, Go, work
<1>Remove. ASSUME NEW c \in Clients, Remove(c) PROVE CountInv'
  BY <1>Remove, LeanTypes DEF Remove, Go, work
<1>DeleteRow. ASSUME NEW c \in Clients, DeleteRow(c) PROVE CountInv'
  BY <1>DeleteRow, LeanTypes DEF DeleteRow, Go, Exists, work
<1>Breaks. ASSUME NEW c \in Clients, Breaks(c) PROVE CountInv'
  BY <1>Breaks, LeanTypes DEF Breaks, Go, work
<1>Throws. ASSUME NEW c \in Clients, Throws(c) PROVE CountInv'
  BY <1>Throws, LeanTypes DEF Throws, Go, work
<1>Stutter. CASE UNCHANGED vars
  BY <1>Stutter DEF vars, work
<1> HIDE DEF Lean, Indexing, Trying, CountInv
<1>QED. QED
  BY <1>Upload, <1>Retry, <1>Delete, <1>Put, <1>Insert, <1>Parse, <1>InsertChunk, <1>Mark,
     <1>MarkFailed, <1>ListStale, <1>DeleteStale, <1>Fetch, <1>Remove, <1>DeleteRow, <1>Breaks, <1>Throws, <1>Stutter
     DEF Next, Proceed

\* Every step keeps the bytes of the row.
LEMMA BytesNext ==
  TypeOK /\ OpsInv /\ IdsInv /\ FreshInv /\ BytesInv /\ [Next]_vars => BytesInv'
<1> SUFFICES ASSUME TypeOK, OpsInv, IdsInv, FreshInv, BytesInv, [Next]_vars PROVE BytesInv'
  OBVIOUS
<1> USE DEF Lean, Indexing, Trying, IdsInv, FreshInv, BytesInv, RowHasBytes
<1>Upload. ASSUME NEW c \in Clients, Upload(c) PROVE BytesInv'
  <2>1. StartDoes(c, "putting", None)
    BY <1>Upload, StartFacts DEF Upload
  <2>2. row = None /\ overlapped' \subseteq overlapped
    BY <1>Upload DEF Upload
  <2>3. QED
    BY <2>1, <2>2, LeanTypes DEF Lean, StartDoes
<1>Retry. ASSUME NEW c \in Clients, Retry(c) PROVE BytesInv'
  <2>1. StartDoes(c, "listing", row)
    BY <1>Retry, StartFacts DEF Retry
  <2>2. row # None /\ overlapped' \subseteq overlapped \cup {row.id}
    BY <1>Retry DEF Retry
  <2>3. QED
    BY <2>1, <2>2, LeanTypes DEF Lean, StartDoes
<1>Delete. ASSUME NEW c \in Clients, Delete(c) PROVE BytesInv'
  <2>1. StartDoes(c, "removing", row)
    BY <1>Delete, StartFacts DEF Delete
  <2>2. row # None /\ overlapped' \subseteq overlapped
    BY <1>Delete DEF Delete
  <2>3. QED
    BY <2>1, <2>2, LeanTypes DEF Lean, StartDoes
<1>Put. ASSUME NEW c \in Clients, Put(c) PROVE BytesInv'
  BY <1>Put, LeanTypes, Bounds, NoneIsNoRow DEF Put, Go, work
<1>Insert. ASSUME NEW c \in Clients, Insert(c) PROVE BytesInv'
  BY <1>Insert, LeanTypes, Bounds, NoneIsNoRow, InsertFacts DEF work, InsertDoes
<1>Parse. ASSUME NEW c \in Clients, Parse(c) PROVE BytesInv'
  BY <1>Parse, LeanTypes, Bounds, NoneIsNoRow DEF Parse, Go, work
<1>InsertChunk. ASSUME NEW c \in Clients, InsertChunk(c) PROVE BytesInv'
  BY <1>InsertChunk, LeanTypes, Bounds, NoneIsNoRow DEF InsertChunk, Go, Exists, work
<1>Mark. ASSUME NEW c \in Clients, Mark(c) PROVE BytesInv'
  <2>1. MarkDoes(c)
    BY <1>Mark, MarkFacts
  <2>2. /\ \A e \in Clients : at'[e] \in {"storing", "deleting"} <=> at[e] \in {"storing", "deleting"}
        /\ \A e \in Clients : at[e] \in {"storing", "deleting"} => at'[e] = at[e]
        /\ row' # None => row # None /\ row'.id = row.id /\ row'.object = row.object
        /\ UNCHANGED <<op, doc, objects, faults>>
    BY <2>1, LeanTypes DEF Lean, MarkDoes, Exists, work
  <2>3. QED
    BY <2>2
<1>MarkFailed. ASSUME NEW c \in Clients, MarkFailed(c) PROVE BytesInv'
  <2>1. MarkFailedDoes(c)
    BY <1>MarkFailed, MarkFailedFacts
  <2>2. /\ \A e \in Clients : at'[e] \in {"storing", "deleting"} <=> at[e] \in {"storing", "deleting"}
        /\ \A e \in Clients : at[e] \in {"storing", "deleting"} => at'[e] = at[e]
        /\ row' # None => row # None /\ row'.id = row.id /\ row'.object = row.object
        /\ UNCHANGED <<op, doc, objects, faults>>
    BY <2>1, LeanTypes DEF Lean, MarkFailedDoes, Exists, work
  <2>3. QED
    BY <2>2
<1>ListStale. ASSUME NEW c \in Clients, ListStale(c) PROVE BytesInv'
  BY <1>ListStale, LeanTypes, Bounds, NoneIsNoRow DEF ListStale, Go, Exists, work
<1>DeleteStale. ASSUME NEW c \in Clients, DeleteStale(c) PROVE BytesInv'
  BY <1>DeleteStale, LeanTypes, Bounds, NoneIsNoRow DEF DeleteStale, Go, Exists, work
<1>Fetch. ASSUME NEW c \in Clients, Fetch(c) PROVE BytesInv'
  BY <1>Fetch, LeanTypes, Bounds, NoneIsNoRow DEF Fetch, Go, work
<1>Remove. ASSUME NEW c \in Clients, Remove(c) PROVE BytesInv'
  BY <1>Remove, LeanTypes, Bounds, NoneIsNoRow DEF Remove, Go, work
<1>DeleteRow. ASSUME NEW c \in Clients, DeleteRow(c) PROVE BytesInv'
  BY <1>DeleteRow, LeanTypes, Bounds, NoneIsNoRow DEF DeleteRow, Go, Exists, work
<1>Breaks. ASSUME NEW c \in Clients, Breaks(c) PROVE BytesInv'
  BY <1>Breaks, LeanTypes, Bounds, NoneIsNoRow DEF Breaks, Go, work
<1>Throws. ASSUME NEW c \in Clients, Throws(c) PROVE BytesInv'
  BY <1>Throws, LeanTypes, Bounds, NoneIsNoRow DEF Throws, Go, work
<1>Stutter. CASE UNCHANGED vars
  BY <1>Stutter DEF vars, work
<1> HIDE DEF Lean, Indexing, Trying, IdsInv, FreshInv, BytesInv, RowHasBytes
<1>QED. QED
  BY <1>Upload, <1>Retry, <1>Delete, <1>Put, <1>Insert, <1>Parse, <1>InsertChunk, <1>Mark,
     <1>MarkFailed, <1>ListStale, <1>DeleteStale, <1>Fetch, <1>Remove, <1>DeleteRow, <1>Breaks, <1>Throws, <1>Stutter
     DEF Next, Proceed

-----------------------------------------------------------------------------
(* the chunks of the row *)

\* A step of c that leaves the row and its chunks as they are, and what the
\* others know.
Alone(c) ==
  /\ UNCHANGED <<row, chunks>>
  /\ overlapped \subseteq overlapped'
  /\ \A d \in Clients \ {c} :
       /\ at'[d] = at[d] /\ op'[d] = op[d] /\ doc'[d] = doc[d]
       /\ cut'[d] = cut[d] /\ done'[d] = done[d] /\ stale'[d] = stale[d]

\* Such a step keeps the invariant if it keeps c's part of it.
LEMMA AloneKeeps ==
  ASSUME SoleInv, NEW c \in Clients, Alone(c),
         Works(c)' => Works(c),
         Works(c)' /\ Knows(c) => Knows(c)'
  PROVE  SoleInv'
<1> SUFFICES ASSUME row' # None, row'.id \notin overlapped',
                    NEW e \in Clients, Works(e)'
             PROVE  /\ row'.status # "indexed"
                    /\ Knows(e)'
                    /\ \A d \in Clients : Works(d)' => e = d
  BY DEF SoleInv
<1>1. row # None /\ row.id \notin overlapped
  BY DEF Alone
<1>2. \A d \in Clients : Works(d)' => Works(d)
  BY DEF Alone, Works, Exists
<1>3. row.status # "indexed" /\ Knows(e) /\ \A d \in Clients : Works(d) => e = d
  BY <1>1, <1>2 DEF SoleInv
<1>4. Knows(e)'
  <2>1. CASE e = c
    BY <1>3, <2>1
  <2>2. CASE e # c
    BY <1>3, <2>2 DEF Knows, Alone
  <2>3. QED
    BY <2>1, <2>2
<1>5. QED
  BY <1>2, <1>3, <1>4 DEF Alone

\* While c works on the row of SoleInv nobody else does, and it is not indexed: a
\* step of c that keeps the row keeps the invariant if it keeps c's part.
LEMMA SoleKeeps ==
  ASSUME SoleInv, NEW c \in Clients, Works(c),
         row' = row, overlapped' = overlapped,
         \A d \in Clients \ {c} : at'[d] = at[d] /\ doc'[d] = doc[d],
         row.id \notin overlapped /\ Knows(c) /\ Works(c)' => Knows(c)'
  PROVE  SoleInv'
<1> SUFFICES ASSUME row # None, row.id \notin overlapped,
                    NEW e \in Clients, Works(e)'
             PROVE  /\ row.status # "indexed"
                    /\ Knows(e)'
                    /\ \A d \in Clients : Works(d)' => e = d
  BY DEF SoleInv
<1>1. row.status # "indexed" /\ Knows(c) /\ \A d \in Clients : Works(d) => c = d
  BY DEF SoleInv
<1>2. \A d \in Clients : Works(d)' => d = c
  BY <1>1 DEF Works, Exists
<1>3. QED
  BY <1>1, <1>2

\* If all chunks fit into one page the list has them all.
LEMMA ListedIsAll ==
  ASSUME TypeOK, MaxChunks <= Page, NEW k \in 1..MaxChunks, chunks[k] # 0
  PROVE  k \in Listed
<1> DEFINE J == {j \in 1..k : chunks[j] # 0}
<1>1. k \in Nat /\ k >= 1 /\ k <= Page
  BY Bounds
<1>2. IsFiniteSet(1..k) /\ Cardinality(1..k) = k
  BY <1>1, FS_Interval
<1>3. J \subseteq 1..k
  OBVIOUS
<1>4. IsFiniteSet(J) /\ Cardinality(J) <= k
  BY <1>2, <1>3, FS_Subset
<1>5. Cardinality(J) \in Nat
  BY <1>4, FS_CardinalityType
<1>6. Cardinality(J) <= Page
  BY <1>1, <1>4, <1>5, Bounds
<1>7. QED
  BY <1>6 DEF Listed

\* If the chunks fit into one page, every step keeps rows without an overlap to one
\* request at a time.
LEMMA SoleNext ==
  ASSUME MaxChunks <= Page, TypeOK, OpsInv, IdsInv, FreshInv, CountInv, SoleInv, [Next]_vars
  PROVE  SoleInv'
<1>Upload. ASSUME NEW c \in Clients, Upload(c) PROVE SoleInv'
  <2>1. StartDoes(c, "putting", None) /\ overlapped' = overlapped
    BY <1>Upload, StartFacts DEF Upload
  <2>2. Alone(c) /\ at'[c] = "putting"
    BY <2>1, LeanTypes DEF Lean, StartDoes, Alone
  <2>3. ~ Works(c)'
    BY <2>2 DEF Works, Indexing, Trying
  <2>4. QED
    BY <2>2, <2>3, AloneKeeps
<1>Retry. ASSUME NEW c \in Clients, Retry(c) PROVE SoleInv'
  <2>1. StartDoes(c, "listing", row) /\ row # None /\ row.status = "failed"
    BY <1>Retry, StartFacts DEF Retry
  <2>2. overlapped' = IF Overlap # {} THEN overlapped \cup {row.id} ELSE overlapped
    BY <1>Retry DEF Retry
  <2>3. CASE Overlap # {}
    BY <2>1, <2>2, <2>3 DEF StartDoes, SoleInv
  <2>4. CASE Overlap = {}
    <3>1. \A d \in Clients : ~ Works(d)
      BY <2>4 DEF Overlap, Works
    <3>2. \A d \in Clients : Works(d)' => d = c
      BY <2>1, <3>1, LeanTypes DEF Lean, StartDoes, Works, Exists
    <3>3. at'[c] = "listing"
      BY <2>1, LeanTypes DEF Lean, StartDoes
    <3>4. Knows(c)'
      BY <3>3 DEF Knows
    <3>5. QED
      BY <2>1, <3>2, <3>4 DEF SoleInv, StartDoes
  <2>5. QED
    BY <2>3, <2>4
<1>Delete. ASSUME NEW c \in Clients, Delete(c) PROVE SoleInv'
  <2>1. StartDoes(c, "removing", row) /\ overlapped' = overlapped
    BY <1>Delete, StartFacts DEF Delete
  <2>2. Alone(c) /\ at'[c] = "removing"
    BY <2>1, LeanTypes DEF Lean, StartDoes, Alone
  <2>3. ~ Works(c)'
    BY <2>2 DEF Works, Indexing, Trying
  <2>4. QED
    BY <2>2, <2>3, AloneKeeps
<1>Put. ASSUME NEW c \in Clients, Put(c) PROVE SoleInv'
  <2>1. Alone(c)
    BY <1>Put, LeanTypes DEF Lean, Alone, Put, Go, work
  <2>2. Works(c)' => Works(c) /\ Knows(c)'
    BY <1>Put, LeanTypes DEF Lean, Works, Knows, Indexing, Trying, Exists, Put, Go, work
  <2>3. QED
    BY <2>1, <2>2, AloneKeeps
<1>Insert. ASSUME NEW c \in Clients, Insert(c) PROVE SoleInv'
  <2>1. InsertDoes(c)
    BY <1>Insert, InsertFacts
  <2>2. CASE row = None
    <3>1. /\ row' # None /\ row'.id = op[c] /\ row'.status = "pending"
          /\ doc' = [doc EXCEPT ![c] = row'] /\ at' = [at EXCEPT ![c] = "parsing"]
          /\ chunks' = NoChunks /\ at[c] = "storing"
      BY <2>1, <2>2 DEF InsertDoes, IdsInv
    <3>2. ASSUME NEW d \in Clients, d # c PROVE ~ Works(d)'
      <4>1. at'[d] = at[d] /\ doc'[d] = doc[d]
        BY <3>1, <3>2, LeanTypes DEF Lean
      <4>2. CASE doc[d] = None
        BY <4>1, <4>2 DEF Works, IdsInv
      <4>3. CASE doc[d] # None
        BY <3>1, <4>1, <4>3 DEF Works, Exists, FreshInv
      <4>4. QED
        BY <4>2, <4>3
    <3>3. Knows(c)'
      BY <3>1, LeanTypes DEF Lean, Knows
    <3>4. QED
      BY <3>1, <3>2, <3>3 DEF SoleInv
  <2>3. CASE row # None
    <3>1. Alone(c) /\ at'[c] = "idle"
      BY <2>1, <2>3, LeanTypes DEF Lean, InsertDoes, Alone
    <3>2. ~ Works(c)'
      BY <3>1 DEF Works, Indexing, Trying
    <3>3. QED
      BY <3>1, <3>2, AloneKeeps
  <2>4. QED
    BY <2>2, <2>3
<1>Parse. ASSUME NEW c \in Clients, Parse(c) PROVE SoleInv'
  <2>1. Alone(c)
    BY <1>Parse, LeanTypes DEF Lean, Alone, Parse, Go
  <2>2. /\ at[c] = "parsing" /\ done[c] = 0
        /\ \/ at'[c] = "failing"
           \/ at'[c] = "inserting"
           \/ at'[c] = "marking" /\ cut'[c] = 0
        /\ UNCHANGED <<doc, chunks, done, op>>
    BY <1>Parse, LeanTypes DEF Lean, Parse, Go, CountInv
  <2>3. Works(c)' => Works(c)
    BY <2>1, <2>2 DEF Works, Exists, Alone, Indexing, Trying
  <2>4. Knows(c) => Knows(c)'
    BY <2>2 DEF Knows, NoChunks
  <2>5. QED
    BY <2>1, <2>3, <2>4, AloneKeeps
<1>InsertChunk. ASSUME NEW c \in Clients, InsertChunk(c) PROVE SoleInv'
  <2> DEFINE k == done[c] + 1
  <2>1. k \in 1..MaxChunks /\ k <= cut[c] /\ at[c] = "inserting" /\ op[c] \in Nat /\ done[c] \in Nat
    <3>1. at[c] = "inserting" /\ done[c] < cut[c]
      BY <1>InsertChunk DEF InsertChunk, CountInv
    <3>2. done[c] \in Nat /\ cut[c] \in 0..MaxChunks /\ op[c] \in Nat
      BY LeanTypes DEF Lean, TypeOK
    <3>3. QED
      BY <3>1, <3>2, Bounds
  <2>2. CASE Exists(c) /\ chunks[k] = 0
    <3>1. /\ chunks' = [chunks EXCEPT ![k] = op[c]] /\ done'[c] = k
          /\ at'[c] = (IF k = cut[c] THEN "marking" ELSE "inserting")
          /\ UNCHANGED <<row, op, doc, cut, stale, overlapped>>
          /\ \A d \in Clients \ {c} : at'[d] = at[d]
      BY <1>InsertChunk, <2>2, LeanTypes DEF Lean, InsertChunk, Go
    <3>2. Works(c)
      BY <2>1, <2>2 DEF Works, Indexing, Trying
    <3>3. Knows(c) => \A n \in 1..MaxChunks : chunks'[n] = IF n <= k THEN op[c] ELSE 0
      BY <2>1, <3>1, LeanTypes, Bounds DEF Knows, Lean
    <3>4. Knows(c) => Knows(c)'
      BY <3>1, <3>3 DEF Knows
    <3>5. QED
      BY <3>1, <3>2, <3>4, SoleKeeps
  <2>3. CASE ~(Exists(c) /\ chunks[k] = 0)
    <3>1. Alone(c) /\ at'[c] = "failing" /\ doc' = doc
      BY <1>InsertChunk, <2>3, LeanTypes DEF Lean, InsertChunk, Go, Alone
    <3>2. Works(c)' => Works(c)
      BY <2>1, <3>1 DEF Works, Exists, Alone, Indexing, Trying
    <3>3. Knows(c)'
      BY <3>1 DEF Knows
    <3>4. QED
      BY <3>1, <3>2, <3>3, AloneKeeps
  <2>4. QED
    BY <2>2, <2>3
<1>Mark. ASSUME NEW c \in Clients, Mark(c) PROVE SoleInv'
  <2>1. MarkDoes(c)
    BY <1>Mark, MarkFacts
  <2>2. CASE Exists(c)
    <3>1. Works(c) /\ at'[c] = "idle" /\ row # None /\ row'.id = row.id
      BY <2>1, <2>2, LeanTypes DEF Lean, MarkDoes, Works, Exists, Indexing, Trying
    <3>2. ~ Works(c)'
      BY <3>1 DEF Works, Indexing, Trying
    <3>3. ASSUME NEW d \in Clients, Works(d)' PROVE Works(d) /\ d # c
      BY <2>1, <2>2, <3>1, <3>2, <3>3, LeanTypes DEF Lean, MarkDoes, Works, Exists, work
    <3>4. overlapped' = overlapped
      BY <2>1 DEF MarkDoes
    <3>5. QED
      BY <3>1, <3>3, <3>4 DEF SoleInv
  <2>3. CASE ~ Exists(c)
    <3>1. Alone(c) /\ doc' = doc
      BY <2>1, <2>3, LeanTypes DEF Lean, MarkDoes, Alone, work
    <3>2. ~ Works(c)'
      BY <2>3, <3>1 DEF Works, Exists, Alone
    <3>3. QED
      BY <3>1, <3>2, AloneKeeps
  <2>4. QED
    BY <2>2, <2>3
<1>MarkFailed. ASSUME NEW c \in Clients, MarkFailed(c) PROVE SoleInv'
  <2>1. MarkFailedDoes(c)
    BY <1>MarkFailed, MarkFailedFacts
  <2>2. CASE Exists(c)
    <3>1. Works(c) /\ at'[c] = "idle" /\ row # None /\ row'.id = row.id
      BY <2>1, <2>2, LeanTypes DEF Lean, MarkFailedDoes, Works, Exists, Indexing, Trying
    <3>2. ~ Works(c)'
      BY <3>1 DEF Works, Indexing, Trying
    <3>3. ASSUME NEW d \in Clients, Works(d)' PROVE Works(d) /\ d # c
      BY <2>1, <2>2, <3>1, <3>2, <3>3, LeanTypes DEF Lean, MarkFailedDoes, Works, Exists, work
    <3>4. overlapped' = overlapped
      BY <2>1 DEF MarkFailedDoes
    <3>5. QED
      BY <3>1, <3>3, <3>4 DEF SoleInv
  <2>3. CASE ~ Exists(c)
    <3>1. Alone(c) /\ doc' = doc
      BY <2>1, <2>3, LeanTypes DEF Lean, MarkFailedDoes, Alone, work
    <3>2. ~ Works(c)'
      BY <2>3, <3>1 DEF Works, Exists, Alone
    <3>3. QED
      BY <3>1, <3>2, AloneKeeps
  <2>4. QED
    BY <2>2, <2>3
<1>ListStale. ASSUME NEW c \in Clients, ListStale(c) PROVE SoleInv'
  <2>1. Alone(c)
    BY <1>ListStale, LeanTypes DEF Lean, Alone, ListStale, Go
  <2>2. /\ at[c] = "listing" /\ at'[c] = "clearing"
        /\ UNCHANGED <<doc, row, chunks>>
        /\ Exists(c) => stale'[c] = {[at |-> k, by |-> chunks[k]] : k \in Listed}
    BY <1>ListStale, LeanTypes DEF Lean, ListStale, Go
  <2>3. Works(c)' => Works(c) /\ Exists(c)
    BY <2>2 DEF Works, Exists, Indexing, Trying
  <2>4. Exists(c) => Knows(c)'
    BY <2>2, ListedIsAll DEF Knows
  <2>5. QED
    BY <2>1, <2>3, <2>4, AloneKeeps
<1>DeleteStale. ASSUME NEW c \in Clients, DeleteStale(c) PROVE SoleInv'
  <2>1. CASE stale[c] = {} /\ at' = [at EXCEPT ![c] = "fetching"] /\ UNCHANGED <<chunks, stale>>
    <3>1. Alone(c) /\ at[c] = "clearing" /\ at'[c] = "fetching" /\ doc' = doc
      BY <1>DeleteStale, <2>1, LeanTypes DEF Lean, DeleteStale, Alone
    <3>2. Works(c)' => Works(c)
      BY <3>1 DEF Works, Exists, Alone, Indexing, Trying
    <3>3. Knows(c) => chunks = NoChunks
      <4>1. Knows(c) => \A n \in 1..MaxChunks : chunks[n] = 0
        BY <2>1, <3>1 DEF Knows
      <4>2. chunks \in [1..MaxChunks -> Nat]
        BY LeanTypes DEF Lean
      <4>3. QED
        BY <4>1, <4>2 DEF NoChunks
    <3>4. Knows(c) => Knows(c)'
      BY <3>1, <3>3 DEF Knows, Alone, NoChunks
    <3>5. QED
      BY <3>1, <3>2, <3>4, AloneKeeps
  <2>2. ASSUME NEW s \in stale[c],
               chunks' = IF Exists(c) /\ chunks[s.at] = s.by
                           THEN [chunks EXCEPT ![s.at] = 0] ELSE chunks,
               stale' = [stale EXCEPT ![c] = stale[c] \ {s}],
               at' = at
        PROVE  SoleInv'
    <3>1. /\ at[c] = "clearing" /\ at'[c] = "clearing" /\ stale'[c] = stale[c] \ {s}
          /\ UNCHANGED <<row, op, doc, cut, done, overlapped>>
          /\ \A d \in Clients \ {c} : stale'[d] = stale[d]
      BY <1>DeleteStale, <2>2, LeanTypes DEF Lean, DeleteStale
    <3>2. CASE ~ Exists(c)
      <4>1. Alone(c)
        BY <2>2, <3>1, <3>2 DEF Alone
      <4>2. ~ Works(c)'
        BY <3>1, <3>2 DEF Works, Exists
      <4>3. QED
        BY <4>1, <4>2, AloneKeeps
    <3>3. CASE Exists(c)
      <4>1. Works(c)
        BY <3>1, <3>3 DEF Works, Indexing, Trying
      <4>2. Knows(c) => Knows(c)'
        <5> SUFFICES ASSUME Knows(c), NEW k \in 1..MaxChunks, chunks'[k] # 0
                     PROVE  [at |-> k, by |-> chunks'[k]] \in stale[c] \ {s}
          BY <3>1 DEF Knows
        <5>1. s \in Chunks /\ s.at \in 1..MaxChunks
          BY LeanTypes DEF Lean, Chunks
        <5>2. chunks'[k] = chunks[k]
          BY <2>2, <5>1, LeanTypes DEF Lean
        <5>3. [at |-> k, by |-> chunks[k]] \in stale[c]
          BY <3>1, <5>2 DEF Knows
        <5>4. s # [at |-> k, by |-> chunks[k]]
          BY <2>2, <3>3, <5>1, <5>2, LeanTypes DEF Lean
        <5>5. QED
          BY <5>2, <5>3, <5>4
      <4>3. QED
        BY <2>2, <3>1, <4>1, <4>2, SoleKeeps
    <3>4. QED
      BY <3>2, <3>3
  <2>3. QED
    BY <1>DeleteStale, <2>1, <2>2 DEF DeleteStale, Go
<1>Fetch. ASSUME NEW c \in Clients, Fetch(c) PROVE SoleInv'
  <2>1. Alone(c)
    BY <1>Fetch, LeanTypes DEF Lean, Alone, Fetch, Go, work
  <2>2. at[c] = "fetching" /\ at'[c] \in {"parsing", "idle"} /\ doc' = doc /\ chunks' = chunks
    BY <1>Fetch, LeanTypes DEF Lean, Fetch, Go, work
  <2>3. Works(c)' => Works(c)
    BY <2>1, <2>2 DEF Works, Exists, Alone, Indexing, Trying
  <2>4. Knows(c) => Knows(c)'
    BY <2>2 DEF Knows
  <2>5. QED
    BY <2>1, <2>3, <2>4, AloneKeeps
<1>Remove. ASSUME NEW c \in Clients, Remove(c) PROVE SoleInv'
  <2>1. Alone(c)
    BY <1>Remove, LeanTypes DEF Lean, Alone, Remove, Go, work
  <2>2. Works(c)' => Works(c) /\ Knows(c)'
    BY <1>Remove, LeanTypes DEF Lean, Works, Knows, Indexing, Trying, Exists, Remove, Go, work
  <2>3. QED
    BY <2>1, <2>2, AloneKeeps
<1>DeleteRow. ASSUME NEW c \in Clients, DeleteRow(c) PROVE SoleInv'
  <2>1. CASE Exists(c)
    BY <1>DeleteRow, <2>1 DEF DeleteRow, SoleInv
  <2>2. CASE ~ Exists(c)
    <3>1. Alone(c) /\ at'[c] = "idle"
      BY <1>DeleteRow, <2>2, LeanTypes DEF Lean, DeleteRow, Go, Alone, work
    <3>2. ~ Works(c)'
      BY <3>1 DEF Works, Indexing, Trying
    <3>3. QED
      BY <3>1, <3>2, AloneKeeps
  <2>3. QED
    BY <2>1, <2>2
<1>Breaks. ASSUME NEW c \in Clients, Breaks(c) PROVE SoleInv'
  <2>1. Alone(c)
    BY <1>Breaks, LeanTypes DEF Lean, Alone, Breaks, Go, work
  <2>2. Works(c)' => Works(c) /\ Knows(c)'
    BY <1>Breaks, LeanTypes DEF Lean, Works, Knows, Indexing, Trying, Exists, Breaks, Go, work
  <2>3. QED
    BY <2>1, <2>2, AloneKeeps
<1>Throws. ASSUME NEW c \in Clients, Throws(c) PROVE SoleInv'
  <2>1. Alone(c)
    BY <1>Throws, LeanTypes DEF Lean, Alone, Throws, Go, work
  <2>2. Works(c)' => Works(c) /\ Knows(c)'
    BY <1>Throws, LeanTypes DEF Lean, Works, Knows, Indexing, Trying, Exists, Throws, Go, work
  <2>3. QED
    BY <2>1, <2>2, AloneKeeps
<1>Stutter. CASE UNCHANGED vars
  BY <1>Stutter DEF vars, work, SoleInv, Works, Knows, Exists
<1>QED. QED
  BY <1>Upload, <1>Retry, <1>Delete, <1>Put, <1>Insert, <1>Parse, <1>InsertChunk, <1>Mark,
     <1>MarkFailed, <1>ListStale, <1>DeleteStale, <1>Fetch, <1>Remove, <1>DeleteRow, <1>Breaks, <1>Throws, <1>Stutter
     DEF Next, Proceed

-----------------------------------------------------------------------------
(* what a step may do to the row and its chunks *)

\* It leaves them, deletes the row or inserts it; everything else is done by a
\* request that indexes the row.
Moves ==
  /\ overlapped \subseteq overlapped'
  /\ \/ UNCHANGED <<row, chunks>>
     \/ row' = None
     \/ row = None /\ row'.status = "pending"
     \/ \E c \in Clients :
          /\ Works(c)
          /\ \/ row' = row
             \/ row'.status = "failed"
             \/ /\ at[c] = "marking" /\ chunks' = chunks
                /\ row'.id = row.id /\ row'.count = cut[c]

\* Every step is one of these moves.
LEMMA RowMoves ==
  ASSUME TypeOK, OpsInv, [Next]_vars
  PROVE  Moves
<1>Insert. ASSUME NEW c \in Clients, Insert(c) PROVE Moves
  BY <1>Insert, InsertFacts DEF InsertDoes, Moves
<1>Mark. ASSUME NEW c \in Clients, Mark(c) PROVE Moves
  BY <1>Mark, MarkFacts DEF MarkDoes, Moves, Works, Indexing, Trying
<1>MarkFailed. ASSUME NEW c \in Clients, MarkFailed(c) PROVE Moves
  BY <1>MarkFailed, MarkFailedFacts DEF MarkFailedDoes, Moves, Works, Indexing
<1>InsertChunk. ASSUME NEW c \in Clients, InsertChunk(c) PROVE Moves
  BY <1>InsertChunk DEF InsertChunk, Moves, Works, Indexing, Trying
<1>DeleteStale. ASSUME NEW c \in Clients, DeleteStale(c) PROVE Moves
  BY <1>DeleteStale DEF DeleteStale, Moves, Works, Indexing
<1>DeleteRow. ASSUME NEW c \in Clients, DeleteRow(c) PROVE Moves
  BY <1>DeleteRow DEF DeleteRow, Moves
<1>Retry. ASSUME NEW c \in Clients, Retry(c) PROVE Moves
  BY <1>Retry DEF Retry, StartWith, Moves
<1>Others. ASSUME NEW c \in Clients,
                  \/ Upload(c) \/ Delete(c) \/ Put(c) \/ Parse(c) \/ ListStale(c)
                  \/ Fetch(c) \/ Remove(c) \/ Breaks(c) \/ Throws(c)
           PROVE Moves
  BY <1>Others
     DEF Upload, Delete, StartWith, Put, Parse, ListStale, Fetch, Remove, Breaks, Throws, Moves
<1>Stutter. CASE UNCHANGED vars
  BY <1>Stutter DEF vars, Moves
<1>QED. QED
  BY <1>Insert, <1>Mark, <1>MarkFailed, <1>InsertChunk, <1>DeleteStale, <1>DeleteRow,
     <1>Retry, <1>Others, <1>Stutter
     DEF Next, Proceed

\* Every step keeps indexed documents whole: only the one that indexes a row marks
\* it, when all chunks it cut are there and no others.
LEMMA WholeNext ==
  ASSUME TypeOK, OpsInv, SoleInv, IndexedIsWhole, [Next]_vars
  PROVE  IndexedIsWhole'
<1> SUFFICES ASSUME row' # None, row'.status = "indexed", row'.id \notin overlapped'
             PROVE  /\ \A k \in 1..MaxChunks : chunks'[k] # 0 <=> k <= row'.count
                    /\ \A k \in 1..row'.count : chunks'[k] = chunks'[1]
  BY DEF IndexedIsWhole
<1>1. Moves
  BY RowMoves
<1>2. row'.id \notin overlapped
  BY <1>1 DEF Moves
<1>3. CASE UNCHANGED <<row, chunks>>
  BY <1>2, <1>3 DEF IndexedIsWhole
<1>4. ASSUME NEW c \in Clients, Works(c),
             \/ row' = row
             \/ /\ at[c] = "marking" /\ chunks' = chunks
                /\ row'.id = row.id /\ row'.count = cut[c]
      PROVE  /\ \A k \in 1..MaxChunks : chunks'[k] # 0 <=> k <= row'.count
             /\ \A k \in 1..row'.count : chunks'[k] = chunks'[1]
  <2>1. row # None /\ row.id \notin overlapped
    BY <1>2, <1>4 DEF Works, Exists
  <2>2. row.status # "indexed" /\ Knows(c)
    BY <1>4, <2>1 DEF SoleInv
  <2>3. at[c] = "marking" /\ chunks' = chunks /\ row'.count = cut[c]
    BY <1>4, <2>2
  <2>4. \A k \in 1..MaxChunks : chunks[k] = IF k <= cut[c] THEN op[c] ELSE 0
    BY <2>2, <2>3 DEF Knows
  <2>5. op[c] > 0 /\ op[c] \in Nat /\ cut[c] \in 0..MaxChunks
    BY <2>3, LeanTypes DEF OpsInv, TypeOK, Lean
  <2>6. \A k \in 1..MaxChunks : chunks[k] # 0 <=> k <= cut[c]
    BY <2>4, <2>5
  <2>7. \A k \in 1..cut[c] : k \in 1..MaxChunks /\ 1 \in 1..MaxChunks /\ 1 <= cut[c]
    BY <2>5, Bounds
  <2>8. \A k \in 1..cut[c] : chunks[k] = op[c] /\ chunks[1] = op[c]
    BY <2>4, <2>7
  <2>9. QED
    BY <2>3, <2>6, <2>8
<1>5. CASE \E c \in Clients :
              /\ Works(c)
              /\ \/ row' = row
                 \/ /\ at[c] = "marking" /\ chunks' = chunks
                    /\ row'.id = row.id /\ row'.count = cut[c]
  BY <1>4, <1>5
<1>6. QED
  BY <1>1, <1>3, <1>5 DEF Moves

-----------------------------------------------------------------------------
(* the theorems *)

\* The part of the invariant that does not depend on the size of a page.
BasicInv == TypeOK /\ OpsInv /\ IdsInv /\ FreshInv /\ CountInv /\ BytesInv

\* No request has started yet.
LEMMA InitBasic == Init => BasicInv /\ SoleInv /\ IndexedIsWhole
<1> SUFFICES ASSUME Init PROVE BasicInv /\ SoleInv /\ IndexedIsWhole
  OBVIOUS
<1>1. TypeOK
  BY Bounds DEF Init, TypeOK, NoChunks
<1>2. OpsInv /\ CountInv
  BY DEF Init, OpsInv, CountInv
<1>3. IdsInv /\ FreshInv
  BY DEF Init, IdsInv, FreshInv, Indexing, Trying
<1>4. BytesInv
  BY DEF Init, BytesInv, RowHasBytes
<1>5. SoleInv /\ IndexedIsWhole
  BY DEF Init, SoleInv, IndexedIsWhole
<1>6. QED
  BY <1>1, <1>2, <1>3, <1>4, <1>5 DEF BasicInv

\* It is kept by every step, whatever a page holds.
LEMMA BasicNext == BasicInv /\ [Next]_vars => BasicInv'
BY TypeNext, OpsNext, IdsNext, FreshNext, CountNext, BytesNext DEF BasicInv

\* Hence it always holds.
LEMMA BasicAlways == Spec => []BasicInv
<1>1. Init => BasicInv
  BY InitBasic
<1>2. QED
  BY <1>1, BasicNext, PTL DEF Spec

\* The row, its chunks, the keys of the object store and what each request keeps
\* between two queries stay in their types.
THEOREM TypeCorrect == Spec => []TypeOK
<1>1. BasicInv => TypeOK
  BY DEF BasicInv
<1>2. QED
  BY <1>1, BasicAlways, PTL

\* Without a fault a row has its bytes, but for the moment between the two halves
\* of its deletion: no upload, retry or failure takes them away.
THEOREM BytesStay == Spec => []RowHasBytes
<1>1. BasicInv => RowHasBytes
  BY DEF BasicInv, BytesInv
<1>2. QED
  BY <1>1, BasicAlways, PTL

\* If all chunks fit into the page that a retry lists, the invariant is inductive.
LEMMA InductiveInvariant ==
  ASSUME MaxChunks <= Page
  PROVE  Spec => []IInv
<1>1. Init => IInv
  BY InitBasic DEF BasicInv, IInv
<1>2. IInv /\ [Next]_vars => IInv'
  <2> SUFFICES ASSUME IInv, [Next]_vars PROVE IInv'
    OBVIOUS
  <2>1. BasicInv'
    BY BasicNext DEF IInv, BasicInv
  <2>2. SoleInv'
    BY SoleNext DEF IInv
  <2>3. IndexedIsWhole'
    BY WholeNext DEF IInv
  <2>4. QED
    BY <2>1, <2>2, <2>3 DEF IInv, BasicInv
<1>3. QED
  BY <1>1, <1>2, PTL DEF Spec

\* The chunks of an indexed document are exactly those of one indexing, whatever
\* failed, was retried or deleted before, unless two of its retries overlapped:
\* for every content whose chunks fit into the page that a retry lists.
THEOREM IndexedWhole ==
  ASSUME MaxChunks <= Page
  PROVE  Spec => []IndexedIsWhole
<1>1. IInv => IndexedIsWhole
  BY DEF IInv
<1>2. QED
  BY <1>1, InductiveInvariant, PTL

\* An indexed document stays as it is until it is deleted: a late failure, chunk or
\* deletion of a chunk of another request does not reach it.
THEOREM IndexedRemains ==
  ASSUME MaxChunks <= Page
  PROVE  Spec => IndexedStays
<1>1. IInv /\ [Next]_vars =>
        [row # None /\ row.status = "indexed" /\ row' # None /\ row'.id = row.id
           /\ row.id \notin overlapped' => row' = row /\ chunks' = chunks]_vars
  <2> SUFFICES ASSUME IInv, [Next]_vars,
                      row # None, row.status = "indexed", row' # None, row'.id = row.id,
                      row.id \notin overlapped'
               PROVE  row' = row /\ chunks' = chunks
    OBVIOUS
  <2>1. Moves
    BY RowMoves DEF IInv
  <2>2. row.id \notin overlapped
    BY <2>1 DEF Moves
  <2>3. \A c \in Clients : ~ Works(c)
    BY <2>2 DEF IInv, SoleInv
  <2>4. QED
    BY <2>1, <2>3 DEF Moves
<1>2. QED
  BY <1>1, InductiveInvariant, PTL DEF Spec, IndexedStays

=============================================================================
