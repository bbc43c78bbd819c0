----------------------------- MODULE IngestProofs -----------------------------
(***************************************************************************)
(* What holds of Ingest for any number of requests, texts of any length,   *)
(* any chunking, any numerals and any number of restarts.                  *)
(***************************************************************************)
EXTENDS Ingest, FiniteSetTheorems, WellFoundedInduction, TLAPS

-------------------------------------------------------------------------------
(* The chunker *)

(* Every token of a text lies in the window of a chunk: windows overlap, so *)
(* that none falls between two of them.                                     *)
THEOREM ChunksCoverText ==
  ASSUME NEW n \in Nat, NEW k \in Nat, k < n
  PROVE  \E i \in ChunkIndices(n) : k \in Window(n, i)
<1> DEFINE i == k \div Step
<1>1. Step \in Nat /\ Step > 0 /\ Step <= ChunkSize /\ ChunkSize \in Nat
  BY IngestAssumption DEF Step
<1>2. /\ i \in Nat /\ k = Step * i + (k % Step)
      /\ k % Step \in Nat /\ k % Step < Step
  BY <1>1
<1>3. i * Step = Step * i /\ i * Step \in Nat
  BY <1>1, <1>2
<1>4. i <= i * Step
  BY <1>1, <1>2
<1> HIDE DEF i
<1>5. i * Step <= k /\ k < i * Step + ChunkSize
  BY <1>1, <1>2, <1>3
<1>6. i \in ChunkIndices(n)
  BY <1>2, <1>3, <1>4, <1>5 DEF ChunkIndices
<1>7. k \in Window(n, i)
  BY <1>5 DEF Window
<1>8. QED
  BY <1>6, <1>7

-------------------------------------------------------------------------------
(* Type correctness *)

(* A request has an identifier once its insert was flushed, and two were    *)
(* never given the same.                                                    *)
Given == {"flushed", "embedded", "committed", "stored", "raised", "ingested"}

FreshIds ==
  /\ \A r \in Requests : at[r] \in {"idle", "received", "checked"} => document_id[r] = 0
  /\ \A r \in Requests : at[r] \in Given => document_id[r] # 0
  /\ \A r, q \in Requests : r # q /\ document_id[r] # 0 => document_id[r] # document_id[q]

TypeInv == TypeOK /\ FreshIds

LEMMA ChunksAreNaturals ==
  ASSUME NEW t \in Texts
  PROVE  Chunks(t) \subseteq Nat
BY IngestAssumption DEF Chunks, ChunkIndices

(* The points of a document carry its identifier and the index of one of    *)
(* its chunks; the others stay as they are.                                 *)
LEMMA UpsertedPoints ==
  ASSUME NEW d, NEW t \in Texts, NEW n, NEW p \in DOMAIN Upserted(d, t, n)
  PROVE  \/ /\ Upserted(d, t, n)[p].document_id = d
            /\ Upserted(d, t, n)[p].chunk_index \in Chunks(t)
            /\ Upserted(d, t, n)[p] = [document_id |-> d,
                                      chunk_index |-> Upserted(d, t, n)[p].chunk_index]
         \/ p \in DOMAIN store /\ Upserted(d, t, n)[p] = store[p]
<1> DEFINE indices == {i \in Chunks(t) : i < n}
           points  == {PointId(d, i) : i \in indices}
           c == CHOOSE i \in indices : PointId(d, i) = p
<1>1. CASE p \in points
  <2>1. \E i \in indices : PointId(d, i) = p
    BY <1>1
  <2>2. c \in indices
    BY <2>1
  <2>3. Upserted(d, t, n)[p] = [document_id |-> d, chunk_index |-> c]
    BY <1>1 DEF Upserted
  <2> HIDE DEF c
  <2>4. QED
    BY <2>2, <2>3
<1>2. CASE p \notin points
  BY <1>2 DEF Upserted
<1>3. QED
  BY <1>1, <1>2

LEMMA UpsertedIsStore ==
  ASSUME NEW d \in Ids, NEW t \in Texts, NEW n,
         store \in [DOMAIN store -> Payload]
  PROVE  Upserted(d, t, n) \in [DOMAIN Upserted(d, t, n) -> Payload]
<1> DEFINE U == Upserted(d, t, n)
<1>1. U = [p \in DOMAIN U |-> U[p]]
  BY DEF Upserted
<1>2. ASSUME NEW p \in DOMAIN U PROVE U[p] \in Payload
  <2>1. CASE /\ U[p].document_id = d /\ U[p].chunk_index \in Chunks(t)
             /\ U[p] = [document_id |-> d, chunk_index |-> U[p].chunk_index]
    BY <2>1, ChunksAreNaturals DEF Payload
  <2>2. CASE p \in DOMAIN store /\ U[p] = store[p]
    BY <2>2
  <2>3. QED
    BY <1>2, <2>1, <2>2, UpsertedPoints
<1> HIDE DEF U
<1>3. QED
  BY <1>1, <1>2 DEF U

LEMMA TypeInit == Init => TypeInv
BY IngestAssumption DEF Init, TypeInv, TypeOK, FreshIds, Given, Ids, Payload, Ended

(* A step of one request that moves it, with an identifier or without. *)
LEMMA OneMoves ==
  ASSUME TypeInv, NEW r \in Requests,
         NEW there \in {"received", "checked", "flushed", "embedded", "committed", "stored", "raised"}
                       \cup Ended,
         at' = [at EXCEPT ![r] = there],
         there \in {"received", "checked"} => at[r] \in {"idle", "received"},
         there \in Given => at[r] \in Given,
         UNCHANGED <<documents, document_id, restarts>>,
         store' \in [DOMAIN store' -> Payload],
         fits' \in [Requests -> Nat]
  PROVE  TypeInv'
<1> USE DEF TypeInv, TypeOK
<1>1. TypeOK'
  OBVIOUS
<1>2. FreshIds'
  BY DEF FreshIds, Ended, Given
<1>3. QED
  BY <1>1, <1>2

LEMMA FitsIsType ==
  ASSUME TypeInv, NEW r \in Requests, NEW n \in 0 .. Cardinality(Chunks(TextOf[r]))
  PROVE  [fits EXCEPT ![r] = n] \in [Requests -> Nat]
BY DEF TypeInv, TypeOK

LEMMA TypeNext == TypeInv /\ [Next]_vars => TypeInv'
<1> SUFFICES ASSUME TypeInv, [Next]_vars PROVE TypeInv'
  OBVIOUS
<1>0. /\ store \in [DOMAIN store -> Payload] /\ fits \in [Requests -> Nat]
      /\ at \in [Requests -> {"idle", "received", "checked", "flushed", "embedded",
                              "committed", "stored", "raised"} \cup Ended]
      /\ document_id \in [Requests -> Ids \cup {0}] /\ TextOf \in [Requests -> Texts]
      /\ DOMAIN documents \subseteq Ids
  BY IngestAssumption DEF TypeInv, TypeOK
<1>1. ASSUME NEW r \in Requests, Receive(r) PROVE TypeInv'
  BY <1>0, <1>1, OneMoves DEF Receive, Goto, Given
<1>2. ASSUME NEW r \in Requests, Check(r) PROVE TypeInv'
  BY <1>0, <1>2, OneMoves DEF Check, Goto, Ended, Given
<1>3. ASSUME NEW r \in Requests, Flush(r) PROVE TypeInv'
  <2>1. CASE HasDocument(TextOf[r])
    BY <1>0, <1>3, <2>1, OneMoves DEF Flush, Goto, Ended, Given
  <2>2. CASE ~HasDocument(TextOf[r])
    <3>1. PICK d \in Ids \ {document_id[q] : q \in Requests} :
             document_id' = [document_id EXCEPT ![r] = d]
      BY <1>3, <2>2 DEF Flush
    <3>2. at[r] = "checked" /\ at' = [at EXCEPT ![r] = "flushed"]
          /\ UNCHANGED <<documents, store, fits, restarts>>
      BY <1>3, <2>2 DEF Flush, Goto
    <3>3. document_id[r] = 0
      BY <3>2 DEF TypeInv, FreshIds
    <3>4. d # 0
      BY DEF Ids
    <3>5. \A e \in DOMAIN documents : \E q \in Requests : document_id'[q] = e
      <4>1. ASSUME NEW e \in DOMAIN documents
            PROVE  \E q \in Requests : document_id'[q] = e
        <5>1. PICK q \in Requests : document_id[q] = e
          BY DEF TypeInv, TypeOK
        <5>2. e # 0
          BY <1>0 DEF Ids
        <5>3. q # r
          BY <3>3, <5>1, <5>2
        <5>4. QED
          BY <1>0, <3>1, <5>1, <5>3
      <4>2. QED
        BY <4>1
    <3>6. TypeOK'
      BY <1>0, <3>1, <3>2, <3>5 DEF TypeInv, TypeOK
    <3>7. FreshIds'
      BY <1>0, <3>1, <3>2, <3>4 DEF TypeInv, FreshIds, Given
    <3>8. QED
      BY <3>6, <3>7 DEF TypeInv
  <2>3. QED
    BY <2>1, <2>2
<1>4. ASSUME NEW r \in Requests, Embed(r) PROVE TypeInv'
  <2>1. PICK n \in 0 .. Cardinality(Chunks(TextOf[r])) : fits' = [fits EXCEPT ![r] = n]
    BY <1>4 DEF Embed
  <2>2. QED
    BY <1>0, <1>4, <2>1, FitsIsType, OneMoves DEF Embed, Goto, Given
<1>5. ASSUME NEW r \in Requests, Commit(r) PROVE TypeInv'
  <2>0. document_id[r] \in Ids
    BY <1>0, <1>5 DEF Commit, Goto, TypeInv, FreshIds, Given
  <2>1. /\ documents' = [d \in DOMAIN documents \cup {document_id[r]} |->
                          IF d = document_id[r] THEN TextOf[r] ELSE documents[d]]
        /\ at' = [at EXCEPT ![r] = "committed"]
        /\ UNCHANGED <<store, document_id, fits, restarts>>
    BY <1>5 DEF Commit, Goto
  <2>2. TypeOK'
    BY <1>0, <2>0, <2>1 DEF TypeInv, TypeOK
  <2>3. FreshIds'
    BY <1>0, <2>0, <2>1 DEF TypeInv, FreshIds, Ids
  <2>4. QED
    BY <2>2, <2>3 DEF TypeInv
<1>6. ASSUME NEW r \in Requests, Upsert(r) \/ UpsertFails(r) PROVE TypeInv'
  <2>1. at[r] = "committed" /\ document_id[r] \in Ids
    BY <1>0, <1>6 DEF Upsert, UpsertFails, Goto, TypeInv, FreshIds, Given
  <2>2. \E n : store' = Upserted(document_id[r], TextOf[r], n)
    BY <1>6 DEF Upsert, UpsertFails
  <2>3. store' \in [DOMAIN store' -> Payload]
    BY <1>0, <2>1, <2>2, UpsertedIsStore
  <2>4. QED
    BY <1>0, <1>6, <2>1, <2>3, OneMoves DEF Upsert, UpsertFails, Goto, Ended, Given
<1>7. ASSUME NEW r \in Requests, Answer(r) PROVE TypeInv'
  BY <1>0, <1>7, OneMoves DEF Answer, Goto, Ended, Given
<1>8. ASSUME NEW r \in Requests, Fail(r) PROVE TypeInv'
  BY <1>0, <1>8, OneMoves DEF Fail, Ended, Given
<1>a. ASSUME NEW r \in Requests, StatementTimeout(r) PROVE TypeInv'
  BY <1>0, <1>a, OneMoves DEF StatementTimeout, Goto, Ended, Given
<1>b. ASSUME NEW r \in Requests, ChunkingRaises(r) PROVE TypeInv'
  BY <1>0, <1>b, OneMoves DEF ChunkingRaises, Goto, Given
<1>c. ASSUME NEW r \in Requests, Close(r) PROVE TypeInv'
  BY <1>0, <1>c, OneMoves DEF Close, Goto, Ended, Given
<1>9. CASE Restart
  <2>1. TypeOK'
    BY <1>0, <1>9, IngestAssumption DEF Restart, TypeInv, TypeOK, Ended
  <2>2. FreshIds'
    BY <1>0, <1>9 DEF Restart, TypeInv, FreshIds, Given, Ended
  <2>3. QED
    BY <2>1, <2>2 DEF TypeInv
<1>10. CASE UNCHANGED vars
  BY <1>10 DEF vars, requestVars, TypeInv, TypeOK, FreshIds
<1>11. QED
  BY <1>1, <1>2, <1>3, <1>4, <1>5, <1>6, <1>7, <1>8, <1>a, <1>b, <1>c, <1>9, <1>10
     DEF Next, Handle

(* The two stores and the requests keep their shape. *)
THEOREM TypeCorrect == Spec => []TypeOK
<1>1. Spec => []TypeInv
  BY TypeInit, TypeNext, PTL DEF Spec
<1>2. TypeInv => TypeOK
  BY DEF TypeInv
<1>3. QED
  BY <1>1, <1>2, PTL

-------------------------------------------------------------------------------
(* One document for a text *)

(* While a request is between its flush and its commit or rollback nobody   *)
(* has its text: no document, and no other request in the same position.    *)
TextIsHeld ==
  \A r \in Requests : InTransaction(r) =>
    /\ ~HasDocument(TextOf[r])
    /\ document_id[r] \notin DOMAIN documents
    /\ \A q \in Requests \ {r} : InTransaction(q) => TextOf[q] # TextOf[r]

(* Two requests with one text that both found no document for it still      *)
(* leave only one: the check is not atomic with the insert, the unique      *)
(* index on content_hash is.                                                *)
OneDocumentPerText ==
  \A d, e \in DOMAIN documents : documents[d] = documents[e] => d = e

UniqueInv == TextIsHeld /\ OneDocumentPerText

LEMMA UniqueInit == Init => UniqueInv
BY DEF Init, UniqueInv, TextIsHeld, OneDocumentPerText, InTransaction

(* A step that commits nothing and lets no request into a transaction. *)
LEMMA HoldsBack ==
  ASSUME UniqueInv, UNCHANGED <<documents, document_id>>,
         \A r \in Requests : InTransaction(r)' => InTransaction(r)
  PROVE  UniqueInv'
BY DEF UniqueInv, TextIsHeld, OneDocumentPerText, HasDocument

LEMMA UniqueNext == TypeInv /\ UniqueInv /\ [Next]_vars => UniqueInv'
<1> SUFFICES ASSUME TypeInv, UniqueInv, [Next]_vars PROVE UniqueInv'
  OBVIOUS
<1>0. at \in [Requests -> {"idle", "received", "checked", "flushed", "embedded",
                          "committed", "stored", "raised"} \cup Ended]
      /\ document_id \in [Requests -> Ids \cup {0}] /\ TextOf \in [Requests -> Texts]
  BY IngestAssumption DEF TypeInv, TypeOK
<1>1. ASSUME NEW r \in Requests, Flush(r), ~HasDocument(TextOf[r]) PROVE UniqueInv'
  <2>1. PICK d \in Ids \ {document_id[q] : q \in Requests} :
           document_id' = [document_id EXCEPT ![r] = d]
    BY <1>1 DEF Flush
  <2>2. /\ HashIsFree(r) /\ at[r] = "checked" /\ at' = [at EXCEPT ![r] = "flushed"]
        /\ UNCHANGED documents
    BY <1>1 DEF Flush, Goto
  <2>3. d \notin DOMAIN documents
    BY DEF TypeInv, TypeOK
  <2>4. \A q \in Requests \ {r} : /\ InTransaction(q)' <=> InTransaction(q)
                                  /\ document_id'[q] = document_id[q]
    BY <1>0, <2>1, <2>2 DEF InTransaction
  <2>5. document_id'[r] = d /\ ~InTransaction(r)
    BY <1>0, <2>1, <2>2 DEF InTransaction
  <2>6. TextIsHeld'
    <3>1. SUFFICES ASSUME NEW q \in Requests, InTransaction(q)'
                   PROVE  /\ ~HasDocument(TextOf[q])'
                          /\ document_id'[q] \notin DOMAIN documents'
                          /\ \A o \in Requests \ {q} :
                               InTransaction(o)' => TextOf[o] # TextOf[q]
      BY DEF TextIsHeld
    <3>2. CASE q = r
      BY <1>1, <2>2, <2>3, <2>4, <2>5, <3>2 DEF HasDocument, HashIsFree
    <3>3. CASE q # r
      <4>1. InTransaction(q) /\ TextOf[q] # TextOf[r]
        BY <2>2, <2>4, <3>1, <3>3 DEF HashIsFree
      <4>2. QED
        BY <2>2, <2>4, <3>3, <4>1 DEF UniqueInv, TextIsHeld, HasDocument
    <3>4. QED
      BY <3>2, <3>3
  <2>7. QED
    BY <2>2, <2>6 DEF UniqueInv, OneDocumentPerText
<1>2. ASSUME NEW r \in Requests, Commit(r) PROVE UniqueInv'
  <2>1. /\ at[r] = "embedded" /\ at' = [at EXCEPT ![r] = "committed"]
        /\ documents' = [d \in DOMAIN documents \cup {document_id[r]} |->
                          IF d = document_id[r] THEN TextOf[r] ELSE documents[d]]
        /\ UNCHANGED document_id
    BY <1>2 DEF Commit, Goto
  <2>2. /\ InTransaction(r) /\ ~HasDocument(TextOf[r])
        /\ document_id[r] \notin DOMAIN documents
    BY <2>1 DEF InTransaction, UniqueInv, TextIsHeld
  <2>3. \A d \in DOMAIN documents : documents'[d] = documents[d] /\ documents[d] # TextOf[r]
    BY <2>1, <2>2 DEF HasDocument
  <2>4. OneDocumentPerText'
    BY <2>1, <2>2, <2>3 DEF UniqueInv, OneDocumentPerText
  <2>5. ASSUME NEW q \in Requests, InTransaction(q)'
        PROVE  /\ ~HasDocument(TextOf[q])'
               /\ document_id[q] \notin DOMAIN documents'
               /\ \A o \in Requests \ {q} : InTransaction(o)' => TextOf[o] # TextOf[q]
    <3>1. q # r /\ InTransaction(q)
      BY <1>0, <2>1, <2>5 DEF InTransaction
    <3>2. TextOf[q] # TextOf[r] /\ ~HasDocument(TextOf[q])
          /\ document_id[q] \notin DOMAIN documents
      BY <2>2, <3>1 DEF UniqueInv, TextIsHeld
    <3>3. document_id[q] # document_id[r]
      <4>1. document_id[q] # 0
        BY <3>1 DEF InTransaction, TypeInv, FreshIds, Given
      <4>2. QED
        BY <3>1, <4>1 DEF TypeInv, FreshIds
    <3>4. \A o \in Requests : InTransaction(o)' => InTransaction(o)
      BY <1>0, <2>1 DEF InTransaction
    <3>5. QED
      BY <2>1, <2>3, <3>1, <3>2, <3>3, <3>4 DEF UniqueInv, TextIsHeld, HasDocument
  <2>6. QED
    BY <2>1, <2>4, <2>5 DEF UniqueInv, TextIsHeld
<1>3. ASSUME NEW r \in Requests, UNCHANGED <<documents, document_id>>,
             \E there \in {"received", "checked", "embedded", "stored", "raised"} \cup Ended :
               /\ at' = [at EXCEPT ![r] = there]
               /\ there \in {"embedded", "raised"} => at[r] = "flushed"
      PROVE  UniqueInv'
  <2>1. \A q \in Requests : InTransaction(q)' => InTransaction(q)
    BY <1>0, <1>3 DEF InTransaction, Ended
  <2>2. QED
    BY <1>3, <2>1, HoldsBack
<1>4. CASE Restart
  <2>1. \A q \in Requests : InTransaction(q)' => InTransaction(q)
    BY <1>0, <1>4 DEF Restart, InTransaction, Ended
  <2>2. QED
    BY <1>4, <2>1, HoldsBack DEF Restart
<1>5. CASE UNCHANGED vars
  BY <1>5, HoldsBack DEF vars, requestVars, InTransaction
<1>6. ASSUME NEW r \in Requests, Flush(r) PROVE UniqueInv'
  <2>1. CASE HasDocument(TextOf[r])
    BY <1>3, <1>6, <2>1 DEF Flush, Goto, Ended
  <2>2. CASE ~HasDocument(TextOf[r])
    BY <1>1, <1>6, <2>2
  <2>3. QED
    BY <2>1, <2>2
<1>7. ASSUME NEW r \in Requests, Receive(r) \/ Check(r) \/ Embed(r) PROVE UniqueInv'
  BY <1>3, <1>7 DEF Receive, Check, Embed, Goto, Ended
<1>8. ASSUME NEW r \in Requests, Upsert(r) \/ UpsertFails(r) \/ Answer(r) \/ Fail(r)
      PROVE  UniqueInv'
  BY <1>3, <1>8 DEF Upsert, UpsertFails, Answer, Fail, Goto, Ended
<1>a. ASSUME NEW r \in Requests, StatementTimeout(r) \/ ChunkingRaises(r) \/ Close(r)
      PROVE  UniqueInv'
  BY <1>3, <1>a DEF StatementTimeout, ChunkingRaises, Close, Goto, Ended
<1>9. QED
  BY <1>2, <1>4, <1>5, <1>6, <1>7, <1>8, <1>a DEF Next, Handle

(* However requests overlap, a text has at most one document. *)
THEOREM OneDocument == Spec => []OneDocumentPerText
<1>1. Init => TypeInv /\ UniqueInv
  BY TypeInit, UniqueInit
<1>2. TypeInv /\ UniqueInv /\ [Next]_vars => (TypeInv /\ UniqueInv)'
  BY TypeNext, UniqueNext
<1>3. UniqueInv => OneDocumentPerText
  BY DEF UniqueInv
<1>4. QED
  BY <1>1, <1>2, <1>3, PTL DEF Spec

-------------------------------------------------------------------------------
(* The two stores agree *)

StoredIsCommitted ==
  \A r \in Requests : at[r] \in {"committed", "stored", "ingested"} =>
    /\ document_id[r] \in DOMAIN documents
    /\ documents[document_id[r]] = TextOf[r]

PointsAreChunks ==
  \A p \in DOMAIN store :
    /\ store[p].document_id \in DOMAIN documents
    /\ store[p].chunk_index \in Chunks(documents[store[p].document_id])

StoresInv == StoredIsCommitted /\ PointsAreChunks

LEMMA StoresInit == Init => StoresInv
BY DEF Init, StoresInv, StoredIsCommitted, PointsAreChunks

LEMMA StoresNext == TypeInv /\ UniqueInv /\ StoresInv /\ [Next]_vars => StoresInv'
<1> SUFFICES ASSUME TypeInv, UniqueInv, StoresInv, [Next]_vars PROVE StoresInv'
  OBVIOUS
<1>0. at \in [Requests -> {"idle", "received", "checked", "flushed", "embedded",
                          "committed", "stored", "raised"} \cup Ended]
      /\ document_id \in [Requests -> Ids \cup {0}] /\ TextOf \in [Requests -> Texts]
  BY IngestAssumption DEF TypeInv, TypeOK
<1>1. ASSUME NEW r \in Requests, Flush(r) PROVE StoresInv'
  <2>1. UNCHANGED <<documents, store>>
    BY <1>1 DEF Flush
  <2>2. /\ at' = [at EXCEPT ![r] = "error"] \/ at' = [at EXCEPT ![r] = "flushed"]
        /\ \/ UNCHANGED document_id
           \/ \E d \in Ids : document_id' = [document_id EXCEPT ![r] = d]
    BY <1>1 DEF Flush, Goto
  <2>3. /\ at'[r] \in {"error", "flushed"}
        /\ \A q \in Requests \ {r} : at'[q] = at[q]
    BY <1>0, <2>2
  <2>4. \A q \in Requests \ {r} : document_id'[q] = document_id[q]
    BY <1>0, <2>2
  <2>5. QED
    BY <2>1, <2>3, <2>4 DEF StoresInv, StoredIsCommitted, PointsAreChunks
<1>2. ASSUME NEW r \in Requests, Commit(r) PROVE StoresInv'
  <2>1. /\ at[r] = "embedded" /\ at' = [at EXCEPT ![r] = "committed"]
        /\ documents' = [d \in DOMAIN documents \cup {document_id[r]} |->
                          IF d = document_id[r] THEN TextOf[r] ELSE documents[d]]
        /\ UNCHANGED <<store, document_id>>
    BY <1>2 DEF Commit, Goto
  <2>2. document_id[r] \notin DOMAIN documents
    BY <2>1 DEF InTransaction, UniqueInv, TextIsHeld
  <2>3. /\ DOMAIN documents \subseteq DOMAIN documents'
        /\ \A d \in DOMAIN documents : documents'[d] = documents[d]
        /\ document_id[r] \in DOMAIN documents'
        /\ documents'[document_id[r]] = TextOf[r]
    BY <2>1, <2>2
  <2>4. PointsAreChunks'
    BY <2>1, <2>3 DEF StoresInv, PointsAreChunks
  <2>5. ASSUME NEW q \in Requests, at'[q] \in {"committed", "stored", "ingested"}
        PROVE  /\ document_id[q] \in DOMAIN documents'
               /\ documents'[document_id[q]] = TextOf[q]
    <3>1. CASE q = r
      BY <2>3, <3>1
    <3>2. CASE q # r
      <4>1. at[q] = at'[q]
        BY <1>0, <2>1, <3>2
      <4>2. QED
        BY <2>3, <2>5, <4>1 DEF StoresInv, StoredIsCommitted
    <3>3. QED
      BY <3>1, <3>2
  <2>6. QED
    BY <2>1, <2>4, <2>5 DEF StoresInv, StoredIsCommitted
<1>3. ASSUME NEW r \in Requests, Upsert(r) \/ UpsertFails(r) PROVE StoresInv'
  <2>1. /\ at[r] = "committed" /\ UNCHANGED <<documents, document_id>>
        /\ at' = [at EXCEPT ![r] = "stored"] \/ at' = [at EXCEPT ![r] = "error"]
    BY <1>3 DEF Upsert, UpsertFails, Goto
  <2>2. /\ document_id[r] \in DOMAIN documents
        /\ documents[document_id[r]] = TextOf[r]
    BY <2>1 DEF StoresInv, StoredIsCommitted
  <2>3. PICK n : store' = Upserted(document_id[r], TextOf[r], n)
    BY <1>3 DEF Upsert, UpsertFails
  <2>4. ASSUME NEW p \in DOMAIN store'
        PROVE  /\ store'[p].document_id \in DOMAIN documents
               /\ store'[p].chunk_index \in Chunks(documents[store'[p].document_id])
    <3>1. CASE p \in DOMAIN store /\ store'[p] = store[p]
      BY <3>1 DEF StoresInv, PointsAreChunks
    <3>2. CASE /\ store'[p].document_id = document_id[r]
               /\ store'[p].chunk_index \in Chunks(TextOf[r])
      BY <2>2, <3>2
    <3>3. TextOf[r] \in Texts
      BY <1>0
    <3>4. \/ /\ store'[p].document_id = document_id[r]
             /\ store'[p].chunk_index \in Chunks(TextOf[r])
          \/ p \in DOMAIN store /\ store'[p] = store[p]
      BY <2>3, <2>4, <3>3, UpsertedPoints
    <3>5. QED
      BY <3>1, <3>2, <3>4
  <2>5. StoredIsCommitted'
    BY <1>0, <2>1 DEF StoresInv, StoredIsCommitted
  <2>6. QED
    BY <2>1, <2>4, <2>5 DEF StoresInv, PointsAreChunks
<1>4. ASSUME NEW r \in Requests,
             \/ Receive(r) \/ Check(r) \/ Embed(r) \/ Answer(r) \/ Fail(r)
             \/ StatementTimeout(r) \/ ChunkingRaises(r) \/ Close(r)
      PROVE  StoresInv'
  <2>1. /\ UNCHANGED <<documents, store, document_id>>
        /\ \A q \in Requests : at'[q] \in {"committed", "stored", "ingested"} =>
             at[q] \in {"committed", "stored", "ingested"}
    BY <1>0, <1>4 DEF Receive, Check, Embed, Answer, Fail, StatementTimeout,
                      ChunkingRaises, Close, Goto
  <2>2. QED
    BY <2>1 DEF StoresInv, StoredIsCommitted, PointsAreChunks
<1>5. CASE Restart
  <2>1. /\ UNCHANGED <<documents, store, document_id>>
        /\ \A q \in Requests : at'[q] \in {"committed", "stored", "ingested"} =>
             at[q] \in {"committed", "stored", "ingested"}
    BY <1>0, <1>5 DEF Restart
  <2>2. QED
    BY <2>1 DEF StoresInv, StoredIsCommitted, PointsAreChunks
<1>6. CASE UNCHANGED vars
  BY <1>6 DEF vars, requestVars, StoresInv, StoredIsCommitted, PointsAreChunks
<1>7. QED
  BY <1>1, <1>2, <1>3, <1>4, <1>5, <1>6 DEF Next, Handle

(* No search ever hands out a piece of a text that was not committed.       *)
THEOREM PointsHaveDocumentsHolds == Spec => []PointsHaveDocuments
<1>1. Init => TypeInv /\ UniqueInv /\ StoresInv
  BY TypeInit, UniqueInit, StoresInit
<1>2. TypeInv /\ UniqueInv /\ StoresInv /\ [Next]_vars => (TypeInv /\ UniqueInv /\ StoresInv)'
  BY TypeNext, UniqueNext, StoresNext
<1>3. StoresInv => PointsHaveDocuments
  BY DEF StoresInv, PointsAreChunks, PointsHaveDocuments, RetrieveContext
<1>4. QED
  BY <1>1, <1>2, <1>3, PTL DEF Spec

-------------------------------------------------------------------------------
(* The numerals of the points *)

(* A set of naturals that is not empty has a least element. *)
LEMMA LeastNatural ==
  ASSUME NEW T, T \subseteq Nat, T # {}
  PROVE  \E n \in T : \A k \in T : n <= k
<1> DEFINE Less == {pair \in Nat \X Nat : pair[1] < pair[2]}
<1>1. IsWellFoundedOn(Less, Nat)
  BY NatLessThanWellFounded DEF OpToRel
<1>2. PICK n \in T : \A k \in T : ~(<<k, n>> \in Less)
  <2> HIDE DEF Less
  <2>1. QED
    BY <1>1, WFMin
<1>3. ASSUME NEW k \in T, k < n PROVE FALSE
  <2>1. <<k, n>> \in Nat \X Nat /\ <<k, n>>[1] < <<k, n>>[2]
    BY <1>3
  <2>2. <<k, n>> \in Less
    BY <2>1
  <2>3. QED
    BY <1>2, <2>2
<1>4. QED
  BY <1>3

(* Induction on the natural numbers, for a set that holds some of them.     *)
LEMMA NaturalsInSet ==
  ASSUME NEW T, 0 \in T, \A n \in Nat : n \in T => n + 1 \in T
  PROVE  \A n \in Nat : n \in T
<1> DEFINE Missing == Nat \ T
<1> SUFFICES ASSUME Missing # {} PROVE FALSE
  OBVIOUS
<1>1. PICK n \in Missing : \A k \in Missing : n <= k
  BY LeastNatural
<1>2. n \in Nat /\ n # 0 /\ n - 1 \in Nat /\ (n - 1) + 1 = n /\ ~(n <= n - 1)
  OBVIOUS
<1>3. n - 1 \in T
  BY <1>1, <1>2
<1>4. QED
  BY <1>2, <1>3

(* g is the function of the powers up to the n-th. *)
PowersUpTo(g, n) == g = [k \in 0 .. n |-> IF k = 0 THEN 1 ELSE Radix * g[k - 1]]

LEMMA PowersExist == \A n \in Nat : \E g : PowersUpTo(g, n)
<1> DEFINE T == {n \in Nat : \E g : PowersUpTo(g, n)}
<1>1. 0 \in T
  <2>1. PowersUpTo([k \in 0 .. 0 |-> 1], 0)
    BY DEF PowersUpTo
  <2>2. QED
    BY <2>1
<1>2. ASSUME NEW n \in Nat, n \in T PROVE n + 1 \in T
  <2>1. PICK g : PowersUpTo(g, n)
    BY <1>2
  <2> DEFINE h == [k \in 0 .. n + 1 |-> IF k = n + 1 THEN Radix * g[n] ELSE g[k]]
  <2>2. ASSUME NEW k \in 0 .. n + 1
        PROVE  h[k] = IF k = 0 THEN 1 ELSE Radix * h[k - 1]
    <3>1. CASE k = n + 1
      BY <3>1
    <3>2. CASE k # n + 1
      <4>1. k \in 0 .. n /\ (k # 0 => k - 1 \in 0 .. n)
        BY <3>2
      <4>2. g[k] = IF k = 0 THEN 1 ELSE Radix * g[k - 1]
        BY <2>1, <4>1 DEF PowersUpTo
      <4>3. QED
        BY <4>1, <4>2
    <3>3. QED
      BY <3>1, <3>2
  <2>3. h = [k \in 0 .. n + 1 |-> h[k]]
    OBVIOUS
  <2> HIDE DEF h
  <2>4. h = [k \in 0 .. n + 1 |-> IF k = 0 THEN 1 ELSE Radix * h[k - 1]]
    BY <2>2, <2>3
  <2>5. QED
    BY <2>4 DEF PowersUpTo
<1>3. \A n \in Nat : n \in T
  <2> HIDE DEF T
  <2>1. QED
    BY <1>1, <1>2, NaturalsInSet
<1>4. QED
  BY <1>3

LEMMA PowersAgree ==
  ASSUME NEW n \in Nat, NEW m \in Nat, n <= m, NEW g, NEW h,
         PowersUpTo(g, n), PowersUpTo(h, m)
  PROVE  \A k \in 0 .. n : g[k] = h[k]
<1> DEFINE T == {k \in Nat : k <= n => g[k] = h[k]}
<1>1. 0 \in T
  BY DEF PowersUpTo
<1>2. ASSUME NEW k \in Nat, k \in T PROVE k + 1 \in T
  <2>1. SUFFICES ASSUME k + 1 <= n PROVE g[k + 1] = h[k + 1]
    OBVIOUS
  <2>2. k + 1 \in 0 .. n /\ k + 1 \in 0 .. m /\ k + 1 # 0 /\ (k + 1) - 1 = k /\ k <= n
    BY <2>1
  <2>3. g[k + 1] = Radix * g[k] /\ h[k + 1] = Radix * h[k]
    BY <2>2 DEF PowersUpTo
  <2>4. QED
    BY <1>2, <2>2, <2>3
<1>3. \A k \in Nat : k \in T
  <2> HIDE DEF T
  <2>1. QED
    BY <1>1, <1>2, NaturalsInSet
<1>4. QED
  BY <1>3

(* The recursion that defines Power is well founded. *)
LEMMA PowerIsDefined == Power = [n \in Nat |-> IF n = 0 THEN 1 ELSE Radix * Power[n - 1]]
<1> DEFINE g(n) == CHOOSE h : PowersUpTo(h, n)
           G == [n \in Nat |-> g(n)[n]]
<1>1. \A n \in Nat : PowersUpTo(g(n), n)
  BY PowersExist
<1> HIDE DEF g
<1>2. ASSUME NEW n \in Nat PROVE G[n] = IF n = 0 THEN 1 ELSE Radix * G[n - 1]
  <2>1. PowersUpTo(g(n), n) /\ n \in 0 .. n
    BY <1>1
  <2>2. g(n)[n] = IF n = 0 THEN 1 ELSE Radix * g(n)[n - 1]
    BY <2>1 DEF PowersUpTo
  <2>3. CASE n = 0
    BY <2>2, <2>3
  <2>4. CASE n # 0
    <3>1. n - 1 \in Nat /\ n - 1 <= n /\ n - 1 \in 0 .. n - 1
      BY <2>4
    <3>2. PowersUpTo(g(n - 1), n - 1)
      BY <1>1, <3>1
    <3>3. g(n - 1)[n - 1] = g(n)[n - 1]
      BY <2>1, <3>1, <3>2, PowersAgree
    <3>4. QED
      BY <2>2, <2>4, <3>1, <3>3
  <2>5. QED
    BY <2>3, <2>4
<1>3. G = [n \in Nat |-> G[n]]
  OBVIOUS
<1> HIDE DEF G
<1>4. G = [n \in Nat |-> IF n = 0 THEN 1 ELSE Radix * G[n - 1]]
  BY <1>2, <1>3
<1>5. QED
  BY <1>4 DEF Power

LEMMA PowerStep ==
  /\ Power[0] = 1
  /\ \A n \in Nat : Power[n + 1] = Radix * Power[n]
<1>1. \A n \in Nat : n + 1 \in Nat /\ n + 1 # 0 /\ (n + 1) - 1 = n
  OBVIOUS
<1>2. QED
  BY <1>1, PowerIsDefined

(* A number has fewer digits than the power of its own order. *)
LEMMA PowerExceeds == \A n \in Nat : Power[n] \in Nat /\ n < Power[n]
<1> DEFINE T == {n \in Nat : Power[n] \in Nat /\ n < Power[n]}
<1>1. 0 \in T
  BY PowerStep
<1>2. ASSUME NEW n \in Nat, n \in T PROVE n + 1 \in T
  <2>1. Power[n + 1] = Radix * Power[n]
    BY PowerStep
  <2>2. Power[n] \in Nat /\ Power[n] >= n + 1 /\ Radix \in Nat /\ Radix >= 2
    BY <1>2, IngestAssumption
  <2>3. ASSUME NEW a \in Nat, NEW b \in Nat, b >= 2
        PROVE  b * a \in Nat /\ b * a >= 2 * a
    BY <2>3
  <2>4. Radix * Power[n] \in Nat /\ Radix * Power[n] >= 2 * Power[n]
    BY <2>2, <2>3
  <2>5. QED
    BY <2>1, <2>2, <2>4
<1>3. \A n \in Nat : n \in T
  <2> HIDE DEF T
  <2>1. QED
    BY <1>1, <1>2, NaturalsInSet
<1>4. QED
  BY <1>3

LEMMA PowerGrows ==
  ASSUME NEW n \in Nat, NEW m \in Nat, n < m
  PROVE  Radix * Power[n] <= Power[m]
<1> DEFINE T == {k \in Nat : Radix * Power[n] <= Power[n + 1 + k]}
<1>1. 0 \in T
  <2>1. Power[n + 1] = Radix * Power[n] /\ Power[n + 1] \in Nat /\ n + 1 + 0 = n + 1
    BY PowerStep, PowerExceeds
  <2>2. QED
    BY <2>1
<1>2. ASSUME NEW k \in Nat, k \in T PROVE k + 1 \in T
  <2>1. n + 1 + k \in Nat /\ n + 1 + (k + 1) = (n + 1 + k) + 1
    OBVIOUS
  <2>2. Power[n + 1 + (k + 1)] = Radix * Power[n + 1 + k]
    BY <2>1, PowerStep
  <2>3. Power[n + 1 + k] \in Nat /\ Power[n] \in Nat /\ Radix \in Nat /\ Radix >= 1
    BY <2>1, PowerExceeds, IngestAssumption
  <2>4. ASSUME NEW a \in Nat, NEW b \in Nat, b >= 1 PROVE a <= b * a /\ b * a \in Nat
    BY <2>4
  <2>5. Power[n + 1 + k] <= Radix * Power[n + 1 + k]
        /\ Radix * Power[n + 1 + k] \in Nat /\ Radix * Power[n] \in Nat
    BY <2>3, <2>4
  <2>6. QED
    BY <1>2, <2>2, <2>3, <2>5
<1>3. \A k \in Nat : k \in T
  <2> HIDE DEF T
  <2>1. QED
    BY <1>1, <1>2, NaturalsInSet
<1>4. m - (n + 1) \in Nat /\ n + 1 + (m - (n + 1)) = m
  OBVIOUS
<1>5. QED
  BY <1>3, <1>4

(* The length of a numeral is the least power of the radix above it. *)
LEMMA DigitsFit ==
  ASSUME NEW i \in Nat
  PROVE  Digits(i) \in Nat /\ i < Power[Digits(i)]
<1> DEFINE T == {n \in 1 .. i + 1 : i < Power[n]}
<1>1. i + 1 \in T
  <2>1. i + 1 \in Nat /\ i + 1 < Power[i + 1] /\ Power[i + 1] \in Nat
    BY PowerExceeds
  <2>2. QED
    BY <2>1
<1>2. T \subseteq Nat /\ T # {}
  BY <1>1
<1>3. PICK n \in T : \A k \in T : n <= k
  <2> HIDE DEF T
  <2>1. QED
    BY <1>2, LeastNatural
<1>4. n \in 1 .. i + 1 /\ i < Power[n]
  OBVIOUS
<1>5. n = 1 \/ Power[n - 1] <= i
  <2>1. SUFFICES ASSUME n # 1 PROVE Power[n - 1] <= i
    OBVIOUS
  <2>2. n - 1 \in 1 .. i + 1 /\ n - 1 \in Nat /\ ~(n <= n - 1)
    BY <1>4, <2>1
  <2>3. ~(i < Power[n - 1]) /\ Power[n - 1] \in Nat
    BY <1>3, <2>2, PowerExceeds
  <2>4. QED
    BY <2>3
<1>6. \E k \in 1 .. i + 1 : i < Power[k] /\ (k = 1 \/ Power[k - 1] <= i)
  BY <1>4, <1>5
<1>7. Digits(i) \in 1 .. i + 1 /\ i < Power[Digits(i)]
  BY <1>6 DEF Digits
<1>8. QED
  BY <1>7

(* Of two indices the one with the shorter numeral has the smaller point. *)
LEMMA ShorterIsSmaller ==
  ASSUME NEW d \in Nat, d >= 1, NEW i \in Nat, NEW j \in Nat, Digits(i) < Digits(j)
  PROVE  PointId(d, i) < PointId(d, j)
<1> DEFINE a == Power[Digits(i)]
           b == Power[Digits(j)]
<1>1. a \in Nat /\ b \in Nat /\ i < a /\ Digits(i) \in Nat /\ Digits(j) \in Nat
  BY DigitsFit, PowerExceeds
<1>2. Radix * a <= b /\ Radix \in Nat /\ Radix >= 2
  BY <1>1, PowerGrows, IngestAssumption
<1>3. PointId(d, i) = d * a + i /\ PointId(d, j) = d * b + j
  BY DEF PointId
<1> HIDE DEF a, b
<1>4. 2 * a <= b
  BY <1>1, <1>2
<1>5. a <= d * a /\ d * a \in Nat
  BY <1>1
<1>6. d * (2 * a) <= d * b /\ d * (2 * a) = 2 * (d * a) /\ d * b \in Nat
  BY <1>1, <1>4
<1>7. d * a + i < 2 * (d * a) /\ d * b <= d * b + j
  BY <1>1, <1>5, <1>6
<1>8. QED
  BY <1>1, <1>3, <1>5, <1>6, <1>7

(* No two chunks of one document share a point: pasting the index behind    *)
(* the identifier of the document is unambiguous while the document stays   *)
(* the same.                                                                *)
THEOREM PointsOfDocumentDiffer ==
  ASSUME NEW d \in Nat, d >= 1, NEW i \in Nat, NEW j \in Nat, i # j
  PROVE  PointId(d, i) # PointId(d, j)
<1>1. Digits(i) \in Nat /\ Digits(j) \in Nat
  BY DigitsFit
<1>2. CASE Digits(i) = Digits(j)
  <2>1. d * Power[Digits(i)] \in Nat
    BY <1>1, PowerExceeds
  <2>2. QED
    BY <1>2, <2>1 DEF PointId
<1>3. \A k \in Nat : PointId(d, k) \in Nat
  <2>1. ASSUME NEW k \in Nat PROVE PointId(d, k) \in Nat
    <3>1. Power[Digits(k)] \in Nat
      BY DigitsFit, PowerExceeds
    <3>2. QED
      BY <3>1 DEF PointId
  <2>2. QED
    BY <2>1
<1>4. CASE Digits(i) < Digits(j)
  BY <1>3, <1>4, ShorterIsSmaller
<1>5. CASE Digits(j) < Digits(i)
  BY <1>3, <1>5, ShorterIsSmaller
<1>6. QED
  BY <1>1, <1>2, <1>4, <1>5

-------------------------------------------------------------------------------
(* What was ingested can be found *)

(* The indices of the chunks of a text have no gaps: as many chunks as the  *)
(* text has are all of them.                                                *)
LEMMA AllChunksAreFirst ==
  ASSUME NEW t \in Texts, NEW i \in Chunks(t)
  PROVE  i < Cardinality(Chunks(t))
<1> DEFINE n == TokenCount[t]
<1>1. Chunks(t) = {j \in 0 .. n : j * Step < n}
  BY DEF Chunks, ChunkIndices
<1>2. n \in Nat /\ Step \in Nat /\ i \in 0 .. n /\ i * Step < n
  BY <1>1, IngestAssumption DEF Step
<1>3. IsFiniteSet(0 .. n)
  BY <1>2, FS_Interval
<1>4. IsFiniteSet(Chunks(t))
  BY <1>1, <1>3, FS_Subset
<1>5. 0 .. i \subseteq Chunks(t)
  <2>1. ASSUME NEW j \in 0 .. i PROVE j \in Chunks(t)
    <3>1. j \in Nat /\ j <= i /\ i \in Nat /\ j * Step \in Nat /\ i * Step \in Nat
      BY <1>2
    <3>2. j * Step <= i * Step
      BY <1>2, <3>1
    <3>3. j \in 0 .. n /\ j * Step < n
      BY <1>2, <3>1, <3>2
    <3>4. QED
      BY <1>1, <3>3
  <2>2. QED
    BY <2>1
<1>6. Cardinality(0 .. i) = i + 1
  BY <1>2, FS_Interval
<1>7. Cardinality(0 .. i) <= Cardinality(Chunks(t))
  BY <1>4, <1>5, FS_Subset
<1>8. Cardinality(Chunks(t)) \in Nat
  BY <1>4, FS_CardinalityType
<1>9. QED
  BY <1>2, <1>6, <1>7, <1>8

LEMMA UpsertedKeeps ==
  ASSUME NEW d, NEW t, NEW n
  PROVE  DOMAIN store \subseteq DOMAIN Upserted(d, t, n)
BY DEF Upserted

(* An upsert that goes through leaves every chunk its own point. *)
LEMMA UpsertedHasChunks ==
  ASSUME NEW d \in Ids, NEW t \in Texts, NEW i \in Chunks(t)
  PROVE  LET U == Upserted(d, t, Cardinality(Chunks(t)))
             p == PointId(d, i)
         IN  p \in DOMAIN U /\ U[p] = [document_id |-> d, chunk_index |-> i]
<1> DEFINE n == Cardinality(Chunks(t))
           indices == {j \in Chunks(t) : j < n}
           points  == {PointId(d, j) : j \in indices}
           p == PointId(d, i)
           c == CHOOSE j \in indices : PointId(d, j) = p
<1>1. i \in indices
  BY AllChunksAreFirst
<1>2. p \in points
  BY <1>1
<1>3. c \in indices /\ PointId(d, c) = p
  BY <1>1
<1>4. d \in Nat /\ d >= 1 /\ i \in Nat
  BY ChunksAreNaturals, IngestAssumption DEF Ids
<1>5. c = i
  <2> HIDE DEF c
  <2>1. c \in Nat
    BY <1>3, ChunksAreNaturals
  <2>2. QED
    BY <1>3, <1>4, <2>1, PointsOfDocumentDiffer
<1>6. p \in DOMAIN Upserted(d, t, n)
      /\ Upserted(d, t, n)[p] = [document_id |-> d, chunk_index |-> c]
  BY <1>2 DEF Upserted
<1>7. QED
  BY <1>5, <1>6

(* The chunks of r can be found in store. *)
Searchable(r) ==
  \A i \in Chunks(TextOf[r]) :
    LET p == PointId(document_id[r], i)
    IN /\ p \in DOMAIN store
       /\ \/ store[p] = [document_id |-> document_id[r], chunk_index |-> i]
          \/ store[p].document_id # document_id[r]

Found == \A r \in Requests : at[r] \in {"stored", "ingested"} => Searchable(r)

LEMMA SearchInit == Init => Found
BY DEF Init, Found

(* What another document upserts takes points away only under its own name. *)
LEMMA OthersLeaveSearchable ==
  ASSUME TypeInv, NEW r \in Requests, Searchable(r), NEW q \in Requests, q # r,
         document_id[r] # 0, NEW n, UNCHANGED document_id,
         store' = Upserted(document_id[q], TextOf[q], n)
  PROVE  Searchable(r)'
<1>1. document_id[q] # document_id[r] /\ TextOf[q] \in Texts
  BY IngestAssumption DEF TypeInv, FreshIds
<1>2. ASSUME NEW i \in Chunks(TextOf[r])
      PROVE  /\ PointId(document_id[r], i) \in DOMAIN store'
             /\ \/ store'[PointId(document_id[r], i)]
                     = [document_id |-> document_id[r], chunk_index |-> i]
                \/ store'[PointId(document_id[r], i)].document_id # document_id[r]
  <2> DEFINE p == PointId(document_id[r], i)
  <2>1. /\ p \in DOMAIN store
        /\ \/ store[p] = [document_id |-> document_id[r], chunk_index |-> i]
           \/ store[p].document_id # document_id[r]
    BY DEF Searchable
  <2> HIDE DEF p
  <2>2. p \in DOMAIN store'
    BY <2>1, UpsertedKeeps
  <2>3. store'[p].document_id = document_id[q] \/ store'[p] = store[p]
    BY <1>1, <2>2, UpsertedPoints
  <2>4. QED
    BY <1>1, <2>1, <2>2, <2>3 DEF p
<1>3. QED
  BY <1>2 DEF Searchable

LEMMA SearchNext ==
  TypeInv /\ Found /\ [Next]_vars => Found'
<1> DEFINE Done(r) == at[r] \in {"stored", "ingested"}
<1> SUFFICES ASSUME TypeInv, Found, [Next]_vars,
                    NEW r \in Requests, Done(r)'
             PROVE  Searchable(r)'
  BY DEF Found
<1>0. /\ at \in [Requests -> {"idle", "received", "checked", "flushed", "embedded",
                              "committed", "stored", "raised"} \cup Ended]
      /\ document_id \in [Requests -> Ids \cup {0}] /\ TextOf \in [Requests -> Texts]
  BY IngestAssumption DEF TypeInv, TypeOK
<1>1. Done(r) => Searchable(r) /\ document_id[r] # 0
  BY DEF Found, TypeInv, FreshIds, Given
<1>2. ASSUME Done(r), UNCHANGED <<store, document_id>> PROVE Searchable(r)'
  BY <1>1, <1>2 DEF Searchable
<1>3. ASSUME NEW q \in Requests, Flush(q) PROVE Searchable(r)'
  <2>1. at[q] = "checked" /\ UNCHANGED store
        /\ (at' = [at EXCEPT ![q] = "error"] \/ at' = [at EXCEPT ![q] = "flushed"])
        /\ \/ UNCHANGED document_id
           \/ \E d \in Ids : document_id' = [document_id EXCEPT ![q] = d]
    BY <1>0, <1>3 DEF Flush, Goto
  <2>2. q # r /\ Done(r)
    BY <1>0, <2>1
  <2>3. document_id'[r] = document_id[r]
    BY <1>0, <2>1, <2>2
  <2>4. QED
    BY <1>1, <2>1, <2>2, <2>3 DEF Searchable
<1>4. ASSUME NEW q \in Requests, Upsert(q) \/ UpsertFails(q) PROVE Searchable(r)'
  <2>1. /\ at[q] = "committed" /\ UNCHANGED document_id
        /\ at' = [at EXCEPT ![q] = "stored"] \/ at' = [at EXCEPT ![q] = "error"]
    BY <1>4 DEF Upsert, UpsertFails, Goto
  <2>2. CASE q # r
    <3>1. Done(r)
      BY <1>0, <2>1, <2>2
    <3>2. PICK n : store' = Upserted(document_id[q], TextOf[q], n)
      BY <1>4 DEF Upsert, UpsertFails
    <3>3. QED
      BY <1>1, <2>1, <2>2, <3>1, <3>2, OthersLeaveSearchable
  <2>3. CASE q = r
    <3>1. Upsert(r)
      BY <1>0, <1>4, <2>3 DEF UpsertFails, Goto
    <3>2. /\ store' = Upserted(document_id[r], TextOf[r], Cardinality(Chunks(TextOf[r])))
          /\ UNCHANGED document_id
      BY <3>1 DEF Upsert
    <3>3. document_id[r] \in Ids /\ TextOf[r] \in Texts
      BY <1>0, <2>1, <2>3 DEF TypeInv, FreshIds, Given
    <3>4. QED
      BY <3>2, <3>3, UpsertedHasChunks DEF Searchable
  <2>4. QED
    BY <2>2, <2>3
<1>5. ASSUME NEW q \in Requests,
             \/ Receive(q) \/ Check(q) \/ Embed(q) \/ Answer(q) \/ Fail(q)
             \/ StatementTimeout(q) \/ ChunkingRaises(q) \/ Close(q)
      PROVE  Searchable(r)'
  <2>1. UNCHANGED <<store, document_id>>
    BY <1>5 DEF Receive, Check, Embed, Answer, Fail, StatementTimeout, ChunkingRaises, Close
  <2>2. Done(r)
    BY <1>0, <1>5 DEF Receive, Check, Embed, Answer, Fail, StatementTimeout,
                      ChunkingRaises, Close, Goto
  <2>3. QED
    BY <1>2, <2>1, <2>2
<1>6. ASSUME NEW q \in Requests, Commit(q) PROVE Searchable(r)'
  BY <1>0, <1>2, <1>6 DEF Commit, Goto
<1>7. CASE Restart
  BY <1>0, <1>2, <1>7 DEF Restart
<1>8. CASE UNCHANGED vars
  BY <1>2, <1>8 DEF vars, requestVars
<1>9. QED
  BY <1>3, <1>4, <1>5, <1>6, <1>7, <1>8 DEF Next, Handle

(* A point has the number pasted from its document and its chunk. *)
NumbersInv ==
  \A p \in DOMAIN store : PointId(store[p].document_id, store[p].chunk_index) = p

LEMMA UpsertedNumbers ==
  ASSUME NumbersInv, NEW d, NEW t, NEW n, store' = Upserted(d, t, n)
  PROVE  NumbersInv'
<1> DEFINE indices == {i \in Chunks(t) : i < n}
           points  == {PointId(d, i) : i \in indices}
<1>1. ASSUME NEW p \in DOMAIN store'
      PROVE  PointId(store'[p].document_id, store'[p].chunk_index) = p
  <2> DEFINE c == CHOOSE i \in indices : PointId(d, i) = p
  <2>1. CASE p \in points
    <3>1. \E i \in indices : PointId(d, i) = p
      BY <2>1
    <3>2. PointId(d, c) = p
      BY <3>1
    <3>3. store'[p] = [document_id |-> d, chunk_index |-> c]
      BY <1>1, <2>1 DEF Upserted
    <3> HIDE DEF c
    <3>4. QED
      BY <3>2, <3>3
  <2>2. CASE p \notin points
    <3>1. p \in DOMAIN store /\ store'[p] = store[p]
      BY <1>1, <2>2 DEF Upserted
    <3>2. QED
      BY <3>1 DEF NumbersInv
  <2>3. QED
    BY <2>1, <2>2
<1>2. \A d1, i1 : PointId(d1, i1)' = PointId(d1, i1)
  BY DEF PointId, Digits
<1>3. QED
  BY <1>1, <1>2 DEF NumbersInv

LEMMA NumbersNext == NumbersInv /\ [Next]_vars => NumbersInv'
<1> SUFFICES ASSUME NumbersInv, [Next]_vars PROVE NumbersInv'
  OBVIOUS
<1>1. ASSUME NEW r \in Requests, Upsert(r) \/ UpsertFails(r) PROVE NumbersInv'
  BY <1>1, UpsertedNumbers DEF Upsert, UpsertFails
<1>2. CASE UNCHANGED store
  BY <1>2 DEF NumbersInv
<1>3. QED
  BY <1>1, <1>2 DEF Next, Handle, Receive, Check, Flush, Embed, Commit, Answer, Fail,
     StatementTimeout, ChunkingRaises, Close, Restart, vars, requestVars

(* What ingest_document has answered to have ingested can be found, chunk   *)
(* by chunk, unless another document took a point of the very same number:  *)
(* it stores nothing partly, and none of its own chunks displaces another.  *)
THEOREM IngestedIsSearchableHolds == Spec => []IngestedIsSearchable
<1>1. Init => TypeInv /\ Found /\ NumbersInv
  BY TypeInit, SearchInit DEF Init, NumbersInv
<1>2. TypeInv /\ Found /\ NumbersInv /\ [Next]_vars => (TypeInv /\ Found /\ NumbersInv)'
  BY TypeNext, SearchNext, NumbersNext
<1>3. Found /\ NumbersInv => IngestedIsSearchable
  BY DEF Found, Searchable, NumbersInv, IngestedIsSearchable
<1>4. QED
  BY <1>1, <1>2, <1>3, PTL DEF Spec

-------------------------------------------------------------------------------
(* The catalog *)

(* The document of a request carries its text, also when the request itself *)
(* never heard of it.                                                       *)
OwnersInv ==
  \A r \in Requests : document_id[r] \in DOMAIN documents =>
    documents[document_id[r]] = TextOf[r]

LEMMA OwnersInit == Init => OwnersInv
BY DEF Init, OwnersInv

LEMMA OwnersNext == TypeInv /\ UniqueInv /\ OwnersInv /\ [Next]_vars => OwnersInv'
<1> SUFFICES ASSUME TypeInv, UniqueInv, OwnersInv, [Next]_vars PROVE OwnersInv'
  OBVIOUS
<1>0. document_id \in [Requests -> Ids \cup {0}]
  BY DEF TypeInv, TypeOK
<1>1. ASSUME NEW r \in Requests, Flush(r) PROVE OwnersInv'
  <2>1. CASE UNCHANGED document_id
    BY <1>1, <2>1 DEF Flush, OwnersInv
  <2>2. CASE ~HasDocument(TextOf[r])
    <3>1. PICK d \in Ids \ {document_id[q] : q \in Requests} :
             document_id' = [document_id EXCEPT ![r] = d]
      BY <1>1, <2>2 DEF Flush
    <3>2. d \notin DOMAIN documents
      BY DEF TypeInv, TypeOK
    <3>3. QED
      BY <1>0, <1>1, <3>1, <3>2 DEF Flush, OwnersInv
  <2>3. QED
    BY <1>1, <2>1, <2>2 DEF Flush
<1>2. ASSUME NEW r \in Requests, Commit(r) PROVE OwnersInv'
  <2>1. /\ at[r] = "embedded" /\ UNCHANGED document_id
        /\ documents' = [d \in DOMAIN documents \cup {document_id[r]} |->
                          IF d = document_id[r] THEN TextOf[r] ELSE documents[d]]
    BY <1>2 DEF Commit, Goto
  <2>2. \A q \in Requests : q # r => document_id[q] # document_id[r]
    BY <2>1 DEF TypeInv, FreshIds, Given
  <2>3. QED
    BY <2>1, <2>2 DEF OwnersInv
<1>3. CASE UNCHANGED <<documents, document_id>>
  BY <1>3 DEF OwnersInv
<1>4. QED
  BY <1>1, <1>2, <1>3 DEF Next, Handle, Receive, Check, Embed, Upsert, UpsertFails,
     Answer, Fail, StatementTimeout, ChunkingRaises, Close, Restart, vars, requestVars

CatalogInv == TypeInv /\ UniqueInv /\ StoresInv /\ OwnersInv

LEMMA CatalogInvariant == Spec => []CatalogInv
<1>1. Init => CatalogInv
  BY TypeInit, UniqueInit, StoresInit, OwnersInit DEF CatalogInv
<1>2. CatalogInv /\ [Next]_vars => CatalogInv'
  BY TypeNext, UniqueNext, StoresNext, OwnersNext DEF CatalogInv
<1>3. QED
  BY <1>1, <1>2, PTL DEF Spec

(* What the catalog sees of a state. *)
Added == {r \in Requests : document_id[r] \in DOMAIN documents}

Answered == [r \in Requests |-> IF at[r] \in Ended THEN at[r] ELSE "none"]

LEMMA CatalogInit == Init => Catalog!Init
<1> SUFFICES ASSUME Init PROVE Catalog!Init
  OBVIOUS
<1>1. Added = {}
  BY DEF Init, Added
<1>2. Answered = [r \in Requests |-> "none"]
  BY DEF Init, Answered, Ended
<1>3. QED
  BY <1>1, <1>2 DEF Catalog!Init, Added, Answered

(* The steps of the catalog, of what it sees. *)
LEMMA CatalogSteps ==
  /\ \A r \in Requests : Catalog!Add(r) <=>
       /\ Answered[r] = "none" /\ \A q \in Added : TextOf[q] # TextOf[r]
       /\ Added' = Added \cup {r} /\ Answered' = Answered
  /\ \A r \in Requests : Catalog!Reply(r) <=>
       /\ Answered[r] = "none"
       /\ \E a \in {"ingested", "duplicate", "error"} :
            Catalog!Agrees(r, a) /\ Answered' = [Answered EXCEPT ![r] = a]
       /\ Added' = Added
  /\ Catalog!Lose <=>
       /\ \E lost \in SUBSET {r \in Requests : Answered[r] = "none"} :
            Answered' = [r \in Requests |-> IF r \in lost THEN "lost" ELSE Answered[r]]
       /\ Added' = Added
BY DEF Catalog!Add, Catalog!Reply, Catalog!Lose, Added, Answered

(* A step that ends no request and commits nothing. *)
LEMMA CatalogStutters ==
  ASSUME Added' = Added, Answered' = Answered
  PROVE  UNCHANGED Catalog!vars
BY DEF Catalog!vars, Added, Answered

(* A step of one request is an answer when it ends the request. *)
LEMMA OneIsAnswered ==
  ASSUME TypeInv, NEW r \in Requests, at[r] \notin Ended, NEW there,
         at' = [at EXCEPT ![r] = there]
  PROVE  /\ Answered[r] = "none"
         /\ there \in Ended => Answered' = [Answered EXCEPT ![r] = there]
         /\ there \notin Ended => Answered' = Answered
<1>1. at \in [Requests -> {"idle", "received", "checked", "flushed", "embedded",
                           "committed", "stored", "raised"} \cup Ended]
  BY DEF TypeInv, TypeOK
<1>2. QED
  BY <1>1 DEF Answered

LEMMA CatalogNext == CatalogInv /\ [Next]_vars => [Catalog!Next]_(Catalog!vars)
<1> SUFFICES ASSUME TypeInv, UniqueInv, StoresInv, OwnersInv, [Next]_vars
             PROVE  Catalog!Next \/ UNCHANGED Catalog!vars
  BY DEF CatalogInv
<1>0. /\ at \in [Requests -> {"idle", "received", "checked", "flushed", "embedded",
                              "committed", "stored", "raised"} \cup Ended]
      /\ document_id \in [Requests -> Ids \cup {0}]
      /\ DOMAIN documents \subseteq Ids /\ 0 \notin DOMAIN documents
  BY DEF TypeInv, TypeOK, Ids
<1>s. ASSUME NEW r \in Requests, at[r] \notin Ended, Added' = Added,
             NEW there, there \notin Ended, at' = [at EXCEPT ![r] = there]
      PROVE  UNCHANGED Catalog!vars
  BY <1>s, OneIsAnswered, CatalogStutters
<1>r. ASSUME NEW r \in Requests, at[r] \notin Ended, Added' = Added,
             NEW a \in {"ingested", "duplicate", "error"}, at' = [at EXCEPT ![r] = a],
             Catalog!Agrees(r, a)
      PROVE  Catalog!Next
  BY <1>r, OneIsAnswered, CatalogSteps DEF Catalog!Next, Ended
<1>e. ASSUME NEW r \in Requests PROVE Catalog!Agrees(r, "error")
  BY DEF Catalog!Agrees
<1>1. ASSUME NEW r \in Requests, Receive(r) PROVE UNCHANGED Catalog!vars
  BY <1>1, <1>s DEF Receive, Goto, Ended, Added
<1>2. ASSUME NEW r \in Requests, Check(r) PROVE Catalog!Next \/ UNCHANGED Catalog!vars
  <2>1. at[r] = "received" /\ UNCHANGED <<documents, document_id>> /\ Added' = Added
    BY <1>2 DEF Check, Goto, Added
  <2>2. CASE HasDocument(TextOf[r])
    <3>1. PICK d \in DOMAIN documents : documents[d] = TextOf[r]
      BY <2>2 DEF HasDocument
    <3>2. PICK q \in Requests : document_id[q] = d
      BY DEF TypeInv, TypeOK
    <3>3. q \in Added /\ TextOf[q] = TextOf[r]
      BY <3>1, <3>2 DEF Added, OwnersInv
    <3>4. r \notin Added
      BY <1>0, <2>1 DEF Added, TypeInv, FreshIds
    <3>5. Catalog!Agrees(r, "duplicate")
      BY <3>3, <3>4 DEF Catalog!Agrees, Added
    <3>6. at' = [at EXCEPT ![r] = "duplicate"]
      BY <1>2, <2>2 DEF Check, Goto
    <3>7. QED
      BY <1>r, <2>1, <3>5, <3>6 DEF Ended
  <2>3. CASE ~HasDocument(TextOf[r])
    BY <1>2, <1>s, <2>1, <2>3 DEF Check, Goto, Ended
  <2>4. QED
    BY <2>2, <2>3
<1>3. ASSUME NEW r \in Requests, Flush(r) PROVE Catalog!Next \/ UNCHANGED Catalog!vars
  <2>1. at[r] = "checked" /\ UNCHANGED documents
    BY <1>3 DEF Flush, Goto
  <2>2. CASE HasDocument(TextOf[r])
    BY <1>3, <1>e, <1>r, <2>1, <2>2 DEF Flush, Goto, Ended, Added
  <2>3. CASE ~HasDocument(TextOf[r])
    <3>1. PICK d \in Ids \ {document_id[q] : q \in Requests} :
             document_id' = [document_id EXCEPT ![r] = d]
      BY <1>3, <2>3 DEF Flush
    <3>2. d \notin DOMAIN documents
      BY DEF TypeInv, TypeOK
    <3>3. document_id[r] \notin DOMAIN documents
      BY <1>0, <2>1 DEF TypeInv, FreshIds
    <3>4. Added' = Added
      BY <1>0, <2>1, <3>1, <3>2, <3>3 DEF Added
    <3>5. QED
      BY <1>3, <1>s, <2>1, <2>3, <3>4 DEF Flush, Goto, Ended
  <2>4. QED
    BY <2>2, <2>3
<1>4. ASSUME NEW r \in Requests, Embed(r) PROVE UNCHANGED Catalog!vars
  BY <1>4, <1>s DEF Embed, Goto, Ended, Added
<1>5. ASSUME NEW r \in Requests, Commit(r) PROVE Catalog!Next
  <2>1. /\ at[r] = "embedded" /\ at' = [at EXCEPT ![r] = "committed"]
        /\ documents' = [d \in DOMAIN documents \cup {document_id[r]} |->
                          IF d = document_id[r] THEN TextOf[r] ELSE documents[d]]
        /\ UNCHANGED document_id
    BY <1>5 DEF Commit, Goto
  <2>2. Answered[r] = "none" /\ Answered' = Answered
    <3>1. at[r] \notin Ended /\ "committed" \notin Ended
      BY <2>1 DEF Ended
    <3>2. QED
      BY <2>1, <3>1, OneIsAnswered
  <2>3. \A q \in Added : TextOf[q] # TextOf[r]
    BY <2>1 DEF Added, OwnersInv, UniqueInv, TextIsHeld, InTransaction, HasDocument
  <2>4. \A q \in Requests : q # r => document_id[q] # document_id[r]
    BY <2>1 DEF TypeInv, FreshIds, Given
  <2>5. Added' = Added \cup {r}
    BY <2>1, <2>4 DEF Added
  <2>6. QED
    BY <2>2, <2>3, <2>5, CatalogSteps DEF Catalog!Next
<1>6. ASSUME NEW r \in Requests, Upsert(r) PROVE UNCHANGED Catalog!vars
  BY <1>6, <1>s DEF Upsert, Goto, Ended, Added
<1>7. ASSUME NEW r \in Requests, UpsertFails(r) PROVE Catalog!Next
  BY <1>7, <1>e, <1>r DEF UpsertFails, Goto, Ended, Added
<1>8. ASSUME NEW r \in Requests, Answer(r) PROVE Catalog!Next
  <2>1. at[r] = "stored" /\ UNCHANGED <<documents, document_id>> /\ Added' = Added
    BY <1>8 DEF Answer, Goto, Added
  <2>2. r \in Added
    BY <2>1 DEF Added, StoresInv, StoredIsCommitted
  <2>3. Catalog!Agrees(r, "ingested")
    BY <2>2 DEF Catalog!Agrees, Added
  <2>4. \/ at' = [at EXCEPT ![r] = "ingested"]
        \/ at' = [at EXCEPT ![r] = "error"]
    BY <1>8 DEF Answer, Goto
  <2>5. QED
    BY <1>e, <1>r, <2>1, <2>3, <2>4 DEF Ended
<1>9. ASSUME NEW r \in Requests, Fail(r) PROVE Catalog!Next
  BY <1>9, <1>e, <1>r DEF Fail, Ended, Added
<1>a. ASSUME NEW r \in Requests, StatementTimeout(r) \/ Close(r) PROVE Catalog!Next
  BY <1>a, <1>e, <1>r DEF StatementTimeout, Close, Goto, Ended, Added
<1>b. ASSUME NEW r \in Requests, ChunkingRaises(r) PROVE UNCHANGED Catalog!vars
  BY <1>b, <1>s DEF ChunkingRaises, Goto, Ended, Added
<1>10. CASE Restart
  <2> DEFINE lost == {r \in Requests : at[r] \notin Ended \cup {"idle"}}
  <2>1. Added' = Added
    BY <1>10 DEF Restart, Added
  <2>2. lost \in SUBSET {r \in Requests : Answered[r] = "none"}
    BY DEF Answered
  <2>3. Answered' = [r \in Requests |-> IF r \in lost THEN "lost" ELSE Answered[r]]
    BY <1>0, <1>10 DEF Restart, Answered, Ended
  <2>4. QED
    BY <2>1, <2>2, <2>3, CatalogSteps DEF Catalog!Next
<1>11. CASE UNCHANGED vars
  BY <1>11, CatalogStutters DEF vars, requestVars, Added, Answered
<1>12. QED
  BY <1>1, <1>2, <1>3, <1>4, <1>5, <1>6, <1>7, <1>8, <1>9, <1>a, <1>b, <1>10, <1>11
     DEF Next, Handle

(* Whatever overlaps, fails or is restarted, clients see a catalog that     *)
(* adds a text once and answers accordingly.                                *)
THEOREM ImplementsCatalog == Spec => CatalogSpec
BY CatalogInit, CatalogNext, CatalogInvariant, PTL
   DEF Spec, CatalogSpec, Catalog!Spec
===============================================================================
