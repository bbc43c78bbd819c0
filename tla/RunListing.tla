------------------------------ MODULE RunListing ------------------------------
(***************************************************************************)
(* GET /runs and its siblings (src/api/routes/agent_runs.py, list_runs in  *)
(* src/services/agent_run_service.py): a client fetches page after page of *)
(* its runs, newest first, until has_next is false.  Each page takes two   *)
(* statements, the count and the rows, and runs come and go between them.  *)
(***************************************************************************)
EXTENDS RunStore, Sequences

CONSTANTS
  PageSize        \* page_size

ASSUME PageSizeAssumption == PageSize \in Nat \ {0}

VARIABLES
  at,       \* what the client waits for
  user, wanted, \* the user and the status it asks for
  page,     \* the page it asks for
  total,    \* the count of the page under way
  shown,    \* the pages it got
  present,  \* history: the runs it could see when it began
  entered,  \* history: some run entered the listing since
  crossed,  \* history: ... between the last count and the rows of its page
  left      \* history: some run left the listing, which the filter on a
            \* status allows

requestVars == <<user, wanted, page, total, shown, present>>
walkVars    == <<at, requestVars, entered, crossed, left>>
vars        == <<tables, walkVars>>

-------------------------------------------------------------------------------
(* _apply_run_filters *)
Visible == {r \in DOMAIN runs : /\ InScope(user, r)
                                /\ wanted \in {NoValue, runs[r].status}}

(* How many of the runs come before r in ORDER BY id DESC. *)
Rank(S, r) == Cardinality({q \in S : q > r})

(* OFFSET (n - 1) * PageSize LIMIT PageSize *)
PageOf(S, n) ==
  {r \in S : (n - 1) * PageSize <= Rank(S, r) /\ Rank(S, r) < n * PageSize}

(* Slip: the division rounds down. *)
TotalPages_floor(count) == count \div PageSize

TotalPages(count) == (count + PageSize - 1) \div PageSize

HasNext == page < TotalPages(total)

-------------------------------------------------------------------------------
WalkInit ==
  /\ at = "idle"
  /\ user \in Users /\ wanted \in Filters
  /\ page = 1 /\ total = 0 /\ shown = <<>>
  /\ present = {}
  /\ entered = FALSE /\ crossed = FALSE /\ left = FALSE

Init == StoreInit /\ WalkInit

Begin ==
  /\ at = "idle"
  /\ at' = "count"
  /\ present' = Visible
  /\ UNCHANGED <<tables, user, wanted, page, total, shown, entered, crossed, left>>

(* The endpoints differ in the filters they take. *)
AllRuns     == Begin
SearchRuns  == Begin
SessionRuns == wanted = NoValue /\ Begin
StatusRuns  == wanted # NoValue /\ Begin

CountRuns ==
  /\ at = "count"
  /\ at' = "rows"
  /\ total' = Cardinality(Visible)
  /\ crossed' = FALSE
  /\ UNCHANGED <<tables, user, wanted, page, shown, present, entered, left>>

(* Slip: the next page overlaps this one. *)
FetchPage_overlap ==
  /\ at = "rows"
  /\ shown' = Append(shown, {r \in Visible : Rank(Visible, r) + 1 >= (page - 1) * PageSize
                                             /\ Rank(Visible, r) < page * PageSize})
  /\ IF HasNext THEN at' = "count" /\ page' = page + 1
                ELSE at' = "done" /\ UNCHANGED page
  /\ UNCHANGED <<tables, user, wanted, total, present, entered, crossed, left>>

(* The rows, and PaginatedAgentRuns.build with the count from before. *)
FetchPage ==
  /\ at = "rows"
  /\ shown' = Append(shown, PageOf(Visible, page))
  /\ IF HasNext THEN at' = "count" /\ page' = page + 1
                ELSE at' = "done" /\ UNCHANGED page
  /\ UNCHANGED <<tables, user, wanted, total, present, entered, crossed, left>>

(* Either statement raises: _paginated answers 500 and the walk is over. *)
QueryFails ==
  /\ at \in {"count", "rows"}
  /\ at' = "error"
  /\ UNCHANGED <<tables, requestVars, entered, crossed, left>>

Walking == at \in {"count", "rows"}

WriteMeanwhile ==
  /\ Write
  /\ UNCHANGED <<at, requestVars>>
  /\ LET enters == ~(Visible' \subseteq Visible)
     IN /\ entered' = (entered \/ (Walking /\ enters))
        /\ crossed' = (crossed \/ (at = "rows" /\ enters))
  /\ left' = (left \/ (Walking /\ ~(Visible \subseteq Visible')))

Walk == AllRuns \/ SearchRuns \/ SessionRuns \/ StatusRuns \/ CountRuns \/ FetchPage \/ QueryFails

Next == Walk \/ WriteMeanwhile

Spec == Init /\ [][Next]_vars

-------------------------------------------------------------------------------
(* Properties *)

Shown == UNION {shown[k] : k \in DOMAIN shown}

(* What bounds the walk: it is on the page after the last it got, and the   *)
(* listing holds committed runs only.                                       *)
WalkTypeOK ==
  /\ DOMAIN runs \subseteq Ids /\ present \subseteq Ids
  /\ at \in {"idle", "count", "rows", "done", "error"}
  /\ page \in Nat \ {0} /\ total \in Nat
  /\ shown \in Seq(SUBSET Ids)
  /\ at \in {"idle", "count", "rows"} => page = Len(shown) + 1
  /\ at = "done" => page = Len(shown)

(* A client that follows has_next to the end has seen every run it could    *)
(* see when it began, although each page is cut at an offset and runs are   *)
(* created meanwhile: new runs push the others to later pages, never past   *)
(* the client.  Two things break it, and only they: a run that leaves the   *)
(* listing pulls the others forward, and a run that comes between the count *)
(* of the last page and its rows pushes one beyond the end it announced.    *)
PagesMissNothing ==
  at = "done" /\ ~crossed /\ ~left => present \subseteq Shown

(* Unless a run entered the listing, no run is shown on two pages, and      *)
(* later pages hold older runs, whatever left it.                           *)
ShownOnce ==
  ~entered => \A j, k \in DOMAIN shown : j < k =>
                \A a \in shown[j], b \in shown[k] : a > b
===============================================================================
