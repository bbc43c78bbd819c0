---------------------------- MODULE DocumentCatalog ----------------------------
(***************************************************************************)
(* What POST /ingest promises the clients that send texts: a text is added *)
(* at most once, in one step, by one of the requests that carry it, and    *)
(* what a request is answered says what became of its text.  The lookup,   *)
(* the transactions, the chunks and the vector store are left out.  Ingest *)
(* implements it.                                                          *)
(***************************************************************************)
CONSTANTS Requests,  \* the ingestion requests
          TextOf     \* the text each request carries

VARIABLES added,     \* the requests whose text was added
          answer     \* what each request was answered, or "none"

vars == <<added, answer>>

Init == /\ added = {}
        /\ answer = [r \in Requests |-> "none"]

Add(r) ==
  /\ answer[r] = "none"
  /\ \A q \in added : TextOf[q] # TextOf[r]
  /\ added' = added \cup {r}
  /\ UNCHANGED answer

(* The client that hears of an ingested text is the one whose document it   *)
(* is, and a duplicate is one of somebody else's text.  A request that is   *)
(* answered with an error may have added its text or not.                   *)
Agrees(r, a) ==
  CASE a = "ingested"  -> r \in added
    [] a = "duplicate" -> r \notin added /\ \E q \in added : TextOf[q] = TextOf[r]
    [] a = "error"     -> TRUE

Reply(r) ==
  /\ answer[r] = "none"
  /\ \E a \in {"ingested", "duplicate", "error"} :
       Agrees(r, a) /\ answer' = [answer EXCEPT ![r] = a]
  /\ UNCHANGED added

(* Clients that never hear of their requests. *)
Lose ==
  /\ \E lost \in SUBSET {r \in Requests : answer[r] = "none"} :
       answer' = [r \in Requests |-> IF r \in lost THEN "lost" ELSE answer[r]]
  /\ UNCHANGED added

Next == \/ \E r \in Requests : Add(r) \/ Reply(r)
        \/ Lose

Spec == Init /\ [][Next]_vars

===============================================================================
