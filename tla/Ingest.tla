-------------------------------- MODULE Ingest --------------------------------
(***************************************************************************)
(* ingest_document (src/rag/ingest.py) under POST /ingest and              *)
(* POST /ingest/pdf: a text is looked up by its hash, inserted, cut into   *)
(* chunks, embedded, committed to PostgreSQL and only then upserted into   *)
(* Qdrant.  The two stores share no transaction, any call to them may      *)
(* fail, and the process may be restarted between any two steps.           *)
(*                                                                         *)
(* POST /ingest runs in a thread, POST /ingest/pdf on the event loop, which *)
(* it keeps from the text to the answer.  Each has a database session of   *)
(* its own, which get_db closes; that, too, is driven by the event loop.   *)
(***************************************************************************)
EXTENDS Naturals, FiniteSets

CONSTANTS
  Requests,    \* the ingestion requests
  Pdfs,        \* those to /ingest/pdf
  Texts,       \* the texts, told apart by their MD5 hash
  TextOf,      \* the text each request carries
  TokenCount,  \* the number of tokens of each text
  ChunkSize, Overlap,  \* the parameters of TextChunker, in tokens
  Radix,       \* of the numerals point identifiers are pasted from: ten
  MaxId,       \* bound on the document identifiers the sequence hands out
  MaxRestarts  \* bound on the restarts of the process

ASSUME IngestAssumption ==
  /\ Pdfs \subseteq Requests
  /\ TextOf \in [Requests -> Texts] /\ TokenCount \in [Texts -> Nat]
  /\ ChunkSize \in Nat /\ Overlap \in Nat /\ Overlap < ChunkSize
  /\ Radix \in Nat /\ Radix > 1
  /\ MaxId \in Nat /\ MaxRestarts \in Nat

VARIABLES
  documents,   \* PostgreSQL: the text of each committed document; its chunk
               \* rows are committed with it
  store,       \* Qdrant: the payload of each point
  at,          \* where each request is, or how it ended
  document_id, \* document.id, once the insert was flushed
  fits,        \* how many of its first vectors have the collection's size
  restarts

requestVars == <<at, document_id, fits>>
vars == <<documents, store, requestVars, restarts>>

Ids == 1 .. MaxId

-------------------------------------------------------------------------------
(* TextChunker.chunk_text: windows of ChunkSize tokens, each starting       *)
(* ChunkSize - Overlap after the one before, while there are tokens left.   *)

Step == ChunkSize - Overlap

ChunkIndices(n) == {i \in 0 .. n : i * Step < n}

Window(n, i) == {k \in 0 .. n : i * Step <= k /\ k < i * Step + ChunkSize /\ k < n}

Chunks(t) == ChunkIndices(TokenCount[t])

(* int(f"{document.id}{index}"): the numeral of the index behind that of    *)
(* the document.                                                            *)
Power[n \in Nat] == IF n = 0 THEN 1 ELSE Radix * Power[n - 1]

Digits(i) == CHOOSE n \in 1 .. i + 1 : i < Power[n] /\ (n = 1 \/ Power[n - 1] <= i)

PointId(d, i) == d * Power[Digits(i)] + i

(* The points of the chunks of document d before the n-th, with what of     *)
(* their payload tells them apart.  A point replaces one with its number.   *)
Upserted(d, t, n) ==
  LET indices == {i \in Chunks(t) : i < n}
      points  == {PointId(d, i) : i \in indices}
  IN [p \in points \cup DOMAIN store |->
        IF p \in points
          THEN [document_id |-> d,
                chunk_index |-> CHOOSE i \in indices : PointId(d, i) = p]
          ELSE store[p]]

(* retrieve_context hands out the payloads of the points the search finds,  *)
(* each content once.                                                       *)
RetrieveContext(hits) == {store[p] : p \in hits}

-------------------------------------------------------------------------------
Init ==
  /\ documents = <<>> /\ store = <<>>
  /\ at = [r \in Requests |-> "idle"]
  /\ document_id = [r \in Requests |-> 0]
  /\ fits = [r \in Requests |-> 0]
  /\ restarts = 0

Goto(r, here, there) == at[r] = here /\ at' = [at EXCEPT ![r] = there]

HasDocument(t) == \E d \in DOMAIN documents : documents[d] = t

(* An upload that has its text awaits nothing before it ends. *)
HoldsLoop(r) == r \in Pdfs /\ at[r] \in {"checked", "flushed", "embedded", "committed", "stored"}

LoopIsFree == \A r \in Requests : ~HoldsLoop(r)

Receive(r) ==
  /\ LoopIsFree
  /\ Goto(r, "idle", "received")
  /\ UNCHANGED <<documents, store, document_id, fits, restarts>>

(* The query for a document with the hash sees what is committed.  An        *)
(* upload was read before, and takes the loop again.                         *)
Check(r) ==
  /\ r \in Pdfs => LoopIsFree
  /\ Goto(r, "received", IF HasDocument(TextOf[r]) THEN "duplicate" ELSE "checked")
  /\ UNCHANGED <<documents, store, document_id, fits, restarts>>

(* Between its flush and its commit or rollback a request holds the entry   *)
(* of its hash in the unique index, also when it has raised and its session *)
(* is not closed yet.                                                       *)
InTransaction(r) == at[r] \in {"flushed", "embedded", "raised"}

HashIsFree(r) == \A other \in Requests \ {r} :
                   InTransaction(other) => TextOf[other] # TextOf[r]

(* Slip: content_hash has no unique index. *)
Flush_noIndex(r) ==
  /\ Goto(r, "checked", "flushed")
  /\ \E d \in Ids \ {document_id[q] : q \in Requests} :
       document_id' = [document_id EXCEPT ![r] = d]
  /\ UNCHANGED <<documents, store, fits, restarts>>

(* Slip: without db.flush() the row has no identifier when it is used. *)
Flush_missing(r) ==
  /\ HashIsFree(r)
  /\ Goto(r, "checked", IF HasDocument(TextOf[r]) THEN "error" ELSE "flushed")
  /\ UNCHANGED <<documents, store, document_id, fits, restarts>>

(* The insert waits for a transaction that holds the same hash, and raises  *)
(* when that one has committed.                                             *)
Flush(r) ==
  /\ HashIsFree(r)
  /\ IF HasDocument(TextOf[r])
       THEN /\ Goto(r, "checked", "error")
            /\ UNCHANGED document_id
       ELSE /\ Goto(r, "checked", "flushed")
            /\ \E d \in Ids \ {document_id[q] : q \in Requests} :
                 document_id' = [document_id EXCEPT ![r] = d]
  /\ UNCHANGED <<documents, store, fits, restarts>>

(* Slip: no statement_timeout is asked of PostgreSQL. *)
StatementTimeout_missing(r) == FALSE /\ HashIsFree(r) /\ UNCHANGED vars

(* PostgreSQL cancels an insert that has waited too long for a hash. *)
StatementTimeout(r) ==
  /\ ~HashIsFree(r)
  /\ Goto(r, "checked", "error")
  /\ UNCHANGED <<documents, store, document_id, fits, restarts>>

(* Slip: each vector is stored as soon as it is computed. *)
Embed_stores(r) ==
  /\ Goto(r, "flushed", "embedded")
  /\ \E n \in 0 .. Cardinality(Chunks(TextOf[r])) :
       /\ fits' = [fits EXCEPT ![r] = n]
       /\ store' = Upserted(document_id[r], TextOf[r], n)
  /\ UNCHANGED <<documents, document_id, restarts>>

(* embed_text never raises: it answers with the 384 numbers of the local    *)
(* model, the 1536 of OpenAI's, or none at all, chunk by chunk.             *)
Embed(r) ==
  /\ Goto(r, "flushed", "embedded")
  /\ \E n \in 0 .. Cardinality(Chunks(TextOf[r])) : fits' = [fits EXCEPT ![r] = n]
  /\ UNCHANGED <<documents, store, document_id, restarts>>

Commit(r) ==
  /\ Goto(r, "embedded", "committed")
  /\ documents' = [d \in DOMAIN documents \cup {document_id[r]} |->
                     IF d = document_id[r] THEN TextOf[r] ELSE documents[d]]
  /\ UNCHANGED <<store, document_id, fits, restarts>>

(* Slip: what the store refuses is passed over. *)
Upsert_lenient(r) ==
  /\ Goto(r, "committed", "stored")
  /\ store' = Upserted(document_id[r], TextOf[r], fits[r])
  /\ UNCHANGED <<documents, document_id, fits, restarts>>

Upsert(r) ==
  /\ fits[r] = Cardinality(Chunks(TextOf[r]))
  /\ Goto(r, "committed", "stored")
  /\ store' = Upserted(document_id[r], TextOf[r], fits[r])
  /\ UNCHANGED <<documents, document_id, fits, restarts>>

(* The store takes the points one by one and stops at the first whose       *)
(* vector does not fit, or where it fails; the document stays.              *)
UpsertFails(r) ==
  /\ Goto(r, "committed", "error")
  /\ \E n \in 0 .. fits[r] : store' = Upserted(document_id[r], TextOf[r], n)
  /\ UNCHANGED <<documents, document_id, fits, restarts>>

(* The commit expired `document`, so that the answer reads its id again,    *)
(* which may fail.                                                          *)
Answer(r) ==
  /\ \E end \in {"ingested", "error"} : Goto(r, "stored", end)
  /\ UNCHANGED <<documents, store, document_id, fits, restarts>>

(* Reading the PDF or a statement raises.  SQLAlchemy rolls back a flush    *)
(* that fails, and a commit that fails ends its transaction.                *)
Fail(r) ==
  /\ at[r] \in {"received", "checked", "embedded"}
  /\ r \in Pdfs /\ at[r] = "received" => LoopIsFree
  /\ at' = [at EXCEPT ![r] = "error"]
  /\ UNCHANGED <<documents, store, document_id, fits, restarts>>

(* The tokenizer refuses a text that spells one of its special tokens: no   *)
(* statement failed, so that the transaction stays open.                    *)
ChunkingRaises(r) ==
  /\ Goto(r, "flushed", "raised")
  /\ UNCHANGED <<documents, store, document_id, fits, restarts>>

(* get_db closes the session, which rolls back, and the client gets a 500.  *)
Close(r) ==
  /\ LoopIsFree
  /\ Goto(r, "raised", "error")
  /\ UNCHANGED <<documents, store, document_id, fits, restarts>>

Ended == {"ingested", "duplicate", "error", "lost"}

(* A restart ends every request under way; of an upsert under way some      *)
(* points may have arrived, which UpsertFails covers.                       *)
Restart ==
  /\ restarts < MaxRestarts
  /\ restarts' = restarts + 1
  /\ at' = [r \in Requests |-> IF at[r] \in Ended \cup {"idle"} THEN at[r] ELSE "lost"]
  /\ UNCHANGED <<documents, store, document_id, fits>>

Handle(r) == \/ Check(r) \/ Flush(r) \/ Embed(r) \/ Commit(r)
             \/ Upsert(r) \/ UpsertFails(r) \/ Answer(r)

Next == \/ \E r \in Requests : \/ Receive(r) \/ Handle(r) \/ StatementTimeout(r)
                                \/ Fail(r) \/ ChunkingRaises(r) \/ Close(r)
        \/ Restart

(* A thread, the event loop, get_db on it, and the clock of PostgreSQL go   *)
(* on while they can.                                                       *)
Fairness ==
  \A r \in Requests : WF_vars(Handle(r)) /\ WF_vars(Close(r)) /\ WF_vars(StatementTimeout(r))

Spec == Init /\ [][Next]_vars /\ Fairness

-------------------------------------------------------------------------------
(* Properties *)

Payload == [document_id : Ids, chunk_index : Nat]

(* The shape of the two stores and of the requests; a committed document    *)
(* belongs to the one request that was given its identifier.                *)
TypeOK ==
  /\ documents \in [DOMAIN documents -> Texts] /\ DOMAIN documents \subseteq Ids
  /\ store \in [DOMAIN store -> Payload]
  /\ at \in [Requests -> {"idle", "received", "checked", "flushed", "embedded",
                          "committed", "stored", "raised"} \cup Ended]
  /\ document_id \in [Requests -> Ids \cup {0}]
  /\ fits \in [Requests -> Nat]
  /\ restarts \in 0 .. MaxRestarts
  /\ \A d \in DOMAIN documents : \E r \in Requests : document_id[r] = d

(* Whatever fails between the two stores, a point belongs to a committed    *)
(* document and to one of its chunks, so that no search, whichever points   *)
(* it finds, hands out a context of a text that was rolled back.            *)
PointsHaveDocuments ==
  \A hits \in SUBSET DOMAIN store : \A context \in RetrieveContext(hits) :
    /\ context.document_id \in DOMAIN documents
    /\ context.chunk_index \in Chunks(documents[context.document_id])

(* Once ingest_document has answered that it ingested a text, each chunk    *)
(* can be found, or a chunk of another document whose number is pasted to   *)
(* the very same numeral has taken its point.  Nothing else takes one: a    *)
(* chunk is missing only behind a request that did not end well, or where   *)
(* the comment that ChunksKeepTheirPoints quotes is wrong.                  *)
IngestedIsSearchable ==
  \A r \in Requests : at[r] \in {"stored", "ingested"} =>
    \A i \in Chunks(TextOf[r]) :
      LET p == PointId(document_id[r], i)
      IN /\ p \in DOMAIN store
         /\ \/ store[p] = [document_id |-> document_id[r], chunk_index |-> i]
            \/ /\ store[p].document_id # document_id[r]
               /\ PointId(store[p].document_id, store[p].chunk_index) = p

(* The comment on the identifiers of points says "UNIQUE QDRANT POINT ID":   *)
(* what was ingested keeps the points of its chunks.                         *)
ChunksKeepTheirPoints ==
  \A r \in Requests : at[r] = "ingested" =>
    \A i \in Chunks(TextOf[r]) :
      store[PointId(document_id[r], i)] = [document_id |-> document_id[r], chunk_index |-> i]

(* Every request ends, also one whose insert waits for the transaction of   *)
(* another request with its text, when that one has raised and its session  *)
(* can only be closed by the event loop on which the insert waits.          *)
EveryRequestEnds == \A r \in Requests : at[r] = "received" ~> at[r] \in Ended

(* The commit of a document adds its text for good, at most once although   *)
(* the lookup is not atomic with the insert, and the answers agree with     *)
(* that: of the requests with one text at most one is told it was ingested, *)
(* and none that it is a duplicate of what was rolled back, or of itself.   *)
Catalog == INSTANCE DocumentCatalog WITH
             added  <- {r \in Requests : document_id[r] \in DOMAIN documents},
             answer <- [r \in Requests |-> IF at[r] \in Ended THEN at[r] ELSE "none"]

CatalogSpec == Catalog!Spec
===============================================================================
