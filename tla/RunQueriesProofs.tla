--------------------------- MODULE RunQueriesProofs ---------------------------
(***************************************************************************)
(* What a client that walks the pages of /runs is promised, for any number *)
(* of runs, any page size and whatever happens to the runs meanwhile, and  *)
(* what the reports over runs and steps are, which are read in parts.      *)
(***************************************************************************)
EXTENDS RunQueries, SumTheorems

-------------------------------------------------------------------------------
(* The operators of the model *)

(* Rounding up leaves no run of the count behind the last page. *)
LEMMA PagesCover ==
  ASSUME NEW count \in Nat
  PROVE  TotalPages(count) \in Nat /\ count <= TotalPages(count) * PageSize
<1> DEFINE a == count + PageSize - 1
           n == a \div PageSize
<1>1. PageSize \in Nat /\ PageSize > 0 /\ a \in Nat
  BY PageSizeAssumption
<1>2. n \in Nat /\ a = PageSize * n + (a % PageSize) /\ a % PageSize <= PageSize - 1
  BY <1>1
<1>3. n * PageSize = PageSize * n /\ n * PageSize \in Nat
  BY <1>1, <1>2
<1>4. a % PageSize \in Nat
  BY <1>1
<1> HIDE DEF n
<1>5. count <= n * PageSize
  BY <1>1, <1>2, <1>3, <1>4
<1>6. QED
  BY <1>2, <1>5 DEF TotalPages, n

LEMMA NextPageStarts ==
  ASSUME NEW n \in Nat
  PROVE  (n + 1 - 1) * PageSize = n * PageSize /\ n * PageSize \in Nat
BY PageSizeAssumption

LEMMA EarlierPageStartsBefore ==
  ASSUME NEW n \in Nat \ {0}
  PROVE  (n - 1) * PageSize \in Nat /\ (n - 1) * PageSize <= n * PageSize
<1>1. (n - 1) * PageSize = n * PageSize - PageSize /\ n * PageSize \in Nat
  BY PageSizeAssumption
<1>2. (n - 1) * PageSize \in Nat
  BY PageSizeAssumption
<1>3. QED
  BY <1>1, <1>2, PageSizeAssumption

LEMMA MorePages ==
  ASSUME NEW m \in Nat, NEW n \in Nat, m <= n
  PROVE  m * PageSize <= n * PageSize
<1>1. n * PageSize = m * PageSize + (n - m) * PageSize
  BY PageSizeAssumption
<1>2. m * PageSize \in Nat /\ n - m \in Nat /\ (n - m) * PageSize \in Nat
  BY PageSizeAssumption
<1>3. QED
  BY <1>1, <1>2

(* The rank of a run counts runs of the listing, and grows with it. *)
LEMMA RankIsCount ==
  ASSUME NEW S, IsFiniteSet(S), NEW r
  PROVE  Rank(S, r) \in Nat
<1>1. {q \in S : q > r} \in SUBSET S
  OBVIOUS
<1>2. QED
  BY <1>1, FS_Subset, FS_CardinalityType DEF Rank

LEMMA RankGrows ==
  ASSUME NEW S, NEW T, IsFiniteSet(T), S \subseteq T, NEW r
  PROVE  Rank(S, r) <= Rank(T, r)
<1>1. IsFiniteSet({q \in T : q > r})
  BY {q \in T : q > r} \in SUBSET T, FS_Subset
<1>2. {q \in S : q > r} \in SUBSET {q \in T : q > r}
  OBVIOUS
<1>3. QED
  BY <1>1, <1>2, FS_Subset DEF Rank

(* A run of the listing has fewer runs before it than the listing has. *)
LEMMA RankIsBelowCount ==
  ASSUME NEW S \in SUBSET Nat, IsFiniteSet(S), NEW r \in S
  PROVE  Rank(S, r) < Cardinality(S)
<1> DEFINE B == {q \in S : q > r}
<1>1. B \in SUBSET S /\ r \notin B
  OBVIOUS
<1>2. B # S
  BY <1>1
<1>3. Cardinality(B) <= Cardinality(S) /\ Cardinality(B) # Cardinality(S)
  BY <1>1, <1>2, FS_Subset
<1>4. Cardinality(B) \in Nat /\ Cardinality(S) \in Nat
  BY <1>1, FS_Subset, FS_CardinalityType
<1>5. QED
  BY <1>3, <1>4 DEF Rank

(* A run that has more runs before it comes later, that is, it is older. *)
LEMMA LowerRankIsNewer ==
  ASSUME NEW S \in SUBSET Nat, IsFiniteSet(S), NEW a \in Nat, NEW b \in Nat,
         Rank(S, a) < Rank(S, b)
  PROVE  a > b
<1>1. SUFFICES ASSUME b >= a PROVE FALSE
  OBVIOUS
<1> DEFINE A == {q \in S : q > a}
           B == {q \in S : q > b}
<1>2. IsFiniteSet(A)
  BY A \in SUBSET S, FS_Subset
<1>3. B \in SUBSET A
  <2>1. ASSUME NEW q \in S, q > b PROVE q > a
    <3>1. q \in Nat
      OBVIOUS
    <3>2. QED
      BY <1>1, <2>1, <3>1
  <2>2. QED
    BY <2>1
<1>4. Cardinality(B) <= Cardinality(A)
  BY <1>2, <1>3, FS_Subset
<1>5. Cardinality(A) \in Nat /\ Cardinality(B) \in Nat
  BY <1>2, <1>3, FS_Subset, FS_CardinalityType
<1>6. QED
  BY <1>4, <1>5 DEF Rank

LEMMA VisibleIsFinite ==
  ASSUME DOMAIN runs \subseteq Ids
  PROVE  /\ Visible \in SUBSET Nat /\ Visible \subseteq Ids
         /\ IsFiniteSet(Visible) /\ Cardinality(Visible) \in Nat
<1>1. Visible \in SUBSET Ids
  BY DEF Visible
<1>2. QED
  BY <1>1, IdsAssumption, FS_Subset, FS_CardinalityType

-------------------------------------------------------------------------------
(* Type correctness *)

LEMMA WriteKeepsIds == DOMAIN runs \subseteq Ids /\ Write => DOMAIN runs' \subseteq Ids
<1> SUFFICES ASSUME DOMAIN runs \subseteq Ids, Write PROVE DOMAIN runs' \subseteq Ids
  OBVIOUS
<1>1. PICK r \in Ids : \/ CreateRun(r)
                       \/ \E s \in StepStatuses : RecordStep(r, s)
                       \/ \E outcome \in Outcomes : FinalizeRun(r, outcome)
  BY DEF Write
<1>2. CASE CreateRun(r)
  BY <1>2 DEF CreateRun
<1>3. CASE \E s \in StepStatuses : RecordStep(r, s)
  BY <1>3 DEF RecordStep
<1>4. CASE \E outcome \in Outcomes : FinalizeRun(r, outcome)
  BY <1>4 DEF FinalizeRun
<1>5. QED
  BY <1>1, <1>2, <1>3, <1>4

(* Before the walk nothing was shown. *)
Fresh == at = "idle" => shown = <<>> /\ page = 1

LEMMA TypeInit == Init => WalkTypeOK /\ Fresh
BY DEF Init, StoreInit, WalkInit, WalkTypeOK, Fresh

LEMMA TypeNext == WalkTypeOK /\ Fresh /\ [Next]_vars => (WalkTypeOK /\ Fresh)'
<1> SUFFICES ASSUME WalkTypeOK, Fresh, [Next]_vars PROVE (WalkTypeOK /\ Fresh)'
  OBVIOUS
<1> USE DEF WalkTypeOK, Fresh, tables
<1>1. CASE AllRuns \/ SearchRuns \/ SessionRuns \/ StatusRuns
  BY <1>1, VisibleIsFinite DEF AllRuns, SearchRuns, SessionRuns, StatusRuns, Begin
<1>2. CASE CountRuns
  BY <1>2, VisibleIsFinite DEF CountRuns
<1>3. CASE FetchPage
  <2>1. PageOf(Visible, page) \in SUBSET Ids
    BY VisibleIsFinite DEF PageOf
  <2>2. /\ shown' = Append(shown, PageOf(Visible, page))
        /\ shown' \in Seq(SUBSET Ids) /\ Len(shown') = Len(shown) + 1
    BY <1>3, <2>1 DEF FetchPage
  <2>3. QED
    BY <1>3, <2>2 DEF FetchPage
<1>4. CASE QueryFails
  BY <1>4 DEF QueryFails, requestVars
<1>5. CASE WriteMeanwhile
  BY <1>5, WriteKeepsIds DEF WriteMeanwhile, requestVars
<1>6. CASE UNCHANGED vars
  BY <1>6 DEF vars, walkVars, requestVars
<1>7. QED
  BY <1>1, <1>2, <1>3, <1>4, <1>5, <1>6 DEF Next, Walk

(* The walk stays on the page after the last one it got. *)
THEOREM WalkTypeCorrect == Spec => []WalkTypeOK
<1>1. Spec => [](WalkTypeOK /\ Fresh)
  BY TypeInit, TypeNext, PTL DEF Spec
<1>2. QED
  BY <1>1, PTL

-------------------------------------------------------------------------------
(* Nothing is missed *)

(* What the client could see when it began and has not got yet is on the    *)
(* page it asks for or behind it.                                           *)
Behind == {r \in Visible : (page - 1) * PageSize <= Rank(Visible, r)}

RestIsBehind == at \in {"count", "rows"} /\ ~left => present \subseteq Shown \cup Behind

CountStands == at = "rows" /\ ~crossed => Cardinality(Visible) <= total

CoverInv == RestIsBehind /\ CountStands /\ PagesMissNothing

LEMMA ShownGrows ==
  ASSUME shown \in Seq(SUBSET Ids), NEW P \in SUBSET Ids, shown' = Append(shown, P)
  PROVE  Shown' = Shown \cup P
<1>1. /\ Len(shown') = Len(shown) + 1 /\ Len(shown) \in Nat
      /\ shown'[Len(shown) + 1] = P
      /\ \A k \in 1 .. Len(shown) : shown'[k] = shown[k]
      /\ DOMAIN shown = 1 .. Len(shown) /\ DOMAIN shown' = 1 .. Len(shown) + 1
  OBVIOUS
<1>2. ASSUME NEW r \in Shown' PROVE r \in Shown \cup P
  <2>1. PICK k \in 1 .. Len(shown) + 1 : r \in shown'[k]
    BY <1>1, <1>2 DEF Shown
  <2>2. k = Len(shown) + 1 \/ k \in 1 .. Len(shown)
    BY <1>1, <2>1
  <2>3. QED
    BY <1>1, <2>1, <2>2 DEF Shown
<1>3. ASSUME NEW r \in Shown PROVE r \in Shown'
  <2>1. PICK k \in 1 .. Len(shown) : r \in shown[k]
    BY <1>1, <1>3 DEF Shown
  <2>2. k \in DOMAIN shown' /\ r \in shown'[k]
    BY <1>1, <2>1
  <2>3. QED
    BY <2>2 DEF Shown
<1>4. ASSUME NEW r \in P PROVE r \in Shown'
  <2>1. Len(shown) + 1 \in DOMAIN shown'
    BY <1>1
  <2>2. QED
    BY <1>1, <1>4, <2>1 DEF Shown
<1>5. QED
  BY <1>2, <1>3, <1>4

LEMMA CoverInit == Init => CoverInv
BY DEF Init, WalkInit, CoverInv, RestIsBehind, CountStands, PagesMissNothing

(* The last page that the count announces leaves nothing behind. *)
LEMMA LastPageIsLast ==
  ASSUME WalkTypeOK, CountStands, at = "rows", ~crossed, ~HasNext,
         NEW r \in Visible
  PROVE  Rank(Visible, r) < page * PageSize
<1>1. /\ Visible \in SUBSET Nat /\ IsFiniteSet(Visible)
      /\ Cardinality(Visible) \in Nat /\ Rank(Visible, r) \in Nat
  BY VisibleIsFinite, RankIsCount DEF WalkTypeOK
<1>2. Rank(Visible, r) < Cardinality(Visible) /\ Cardinality(Visible) <= total
  BY <1>1, RankIsBelowCount DEF CountStands
<1>3. /\ total \in Nat /\ page \in Nat
      /\ TotalPages(total) \in Nat /\ total <= TotalPages(total) * PageSize
  BY PagesCover DEF WalkTypeOK
<1>4. TotalPages(total) <= page
  BY <1>3 DEF HasNext
<1>5. TotalPages(total) * PageSize <= page * PageSize
  BY <1>3, <1>4, MorePages
<1>6. TotalPages(total) * PageSize \in Nat /\ page * PageSize \in Nat
  BY <1>3, PageSizeAssumption
<1>7. QED
  BY <1>1, <1>2, <1>3, <1>5, <1>6

LEMMA CoverNext == WalkTypeOK /\ Fresh /\ CoverInv /\ [Next]_vars => CoverInv'
<1> SUFFICES ASSUME WalkTypeOK, Fresh, CoverInv, [Next]_vars PROVE CoverInv'
  OBVIOUS
<1>0. /\ DOMAIN runs \subseteq Ids /\ present \subseteq Ids /\ page \in Nat \ {0}
      /\ total \in Nat /\ shown \in Seq(SUBSET Ids)
      /\ Visible \in SUBSET Nat /\ Visible \subseteq Ids
      /\ IsFiniteSet(Visible) /\ Cardinality(Visible) \in Nat
  BY VisibleIsFinite DEF WalkTypeOK
<1>1. CASE AllRuns \/ SearchRuns \/ SessionRuns \/ StatusRuns
  <2>1. Begin
    BY <1>1 DEF AllRuns, SearchRuns, SessionRuns, StatusRuns
  <2>2. /\ at' = "count" /\ present' = Visible /\ page' = 1
        /\ Visible' = Visible
    BY <2>1 DEF Begin, Fresh, tables, Visible, InScope
  <2>3. Visible \subseteq Behind'
    <3>1. ASSUME NEW r \in Visible PROVE (1 - 1) * PageSize <= Rank(Visible, r)
      BY <1>0, RankIsCount, PageSizeAssumption
    <3>2. QED
      BY <2>2, <3>1 DEF Behind
  <2>4. QED
    BY <2>2, <2>3 DEF CoverInv, RestIsBehind, CountStands, PagesMissNothing
<1>2. CASE CountRuns
  <2>1. /\ at = "count" /\ at' = "rows" /\ total' = Cardinality(Visible)
        /\ UNCHANGED <<runs, present, page, shown, left>>
        /\ Visible' = Visible
    BY <1>2 DEF CountRuns, tables, Visible, InScope
  <2>2. Behind' = Behind /\ Shown' = Shown
    BY <2>1 DEF Behind, Shown
  <2>3. QED
    BY <1>0, <2>1, <2>2 DEF CoverInv, RestIsBehind, CountStands, PagesMissNothing
<1>3. CASE FetchPage
  <2> DEFINE P == PageOf(Visible, page)
  <2>1. /\ at = "rows" /\ shown' = Append(shown, P)
        /\ IF HasNext THEN at' = "count" /\ page' = page + 1
                      ELSE at' = "done" /\ UNCHANGED page
        /\ UNCHANGED <<present, crossed, left>>
        /\ Visible' = Visible
    BY <1>3 DEF FetchPage, tables, Visible, InScope
  <2>2. P \in SUBSET Ids
    BY <1>0 DEF PageOf
  <2>3. Shown' = Shown \cup P
    BY <1>0, <2>1, <2>2, ShownGrows
  <2>4. ASSUME NEW r \in Behind PROVE r \in P \/ page * PageSize <= Rank(Visible, r)
    <3>1. r \in Visible /\ (page - 1) * PageSize <= Rank(Visible, r)
      BY DEF Behind
    <3>2. Rank(Visible, r) \in Nat /\ page * PageSize \in Nat
      BY <1>0, RankIsCount, PageSizeAssumption
    <3>3. QED
      BY <3>1, <3>2 DEF PageOf
  <2>5. CASE HasNext
    <3>1. at' = "count" /\ page' = page + 1 /\ (page' - 1) * PageSize = page * PageSize
      BY <1>0, <2>1, <2>5
    <3>2. Behind \subseteq P \cup Behind'
      BY <2>1, <2>4, <3>1 DEF Behind
    <3>3. QED
      BY <2>1, <2>3, <3>1, <3>2
         DEF CoverInv, RestIsBehind, CountStands, PagesMissNothing
  <2>6. CASE ~HasNext
    <3>1. at' = "done"
      BY <2>1, <2>6
    <3>2. ASSUME ~crossed PROVE Behind \subseteq P
      <4>1. ASSUME NEW r \in Behind PROVE r \in P
        <5>1. r \in Visible
          BY DEF Behind
        <5>2. Rank(Visible, r) < page * PageSize
          BY <2>1, <2>6, <3>2, <5>1, LastPageIsLast DEF CoverInv
        <5>3. Rank(Visible, r) \in Nat /\ page * PageSize \in Nat
          BY <1>0, RankIsCount, PageSizeAssumption
        <5>4. QED
          BY <2>4, <5>2, <5>3
      <4>2. QED
        BY <4>1
    <3>3. QED
      BY <2>1, <2>3, <3>1, <3>2
         DEF CoverInv, RestIsBehind, CountStands, PagesMissNothing
  <2>7. QED
    BY <2>5, <2>6
<1>4. CASE QueryFails
  BY <1>4 DEF QueryFails, CoverInv, RestIsBehind, CountStands, PagesMissNothing
<1>5. CASE WriteMeanwhile
  <2>1. /\ UNCHANGED <<at, page, total, shown, present>>
        /\ left' = (left \/ (Walking /\ ~(Visible \subseteq Visible')))
        /\ crossed' = (crossed \/ (at = "rows" /\ ~(Visible' \subseteq Visible)))
    BY <1>5 DEF WriteMeanwhile, requestVars
  <2>2. Shown' = Shown
    BY <2>1 DEF Shown
  <2>3. /\ Visible' \in SUBSET Nat /\ IsFiniteSet(Visible')
        /\ Cardinality(Visible') \in Nat
    <3>1. DOMAIN runs' \subseteq Ids
      BY <1>0, <1>5, WriteKeepsIds DEF WriteMeanwhile
    <3>2. Visible' \in SUBSET Ids
      BY <3>1 DEF Visible
    <3>3. QED
      BY <3>2, IdsAssumption, FS_Subset, FS_CardinalityType
  <2>4. RestIsBehind'
    <3>1. SUFFICES ASSUME at' \in {"count", "rows"}, ~left'
                   PROVE  present' \subseteq (Shown \cup Behind)'
      BY DEF RestIsBehind
    <3>2. ~left /\ at \in {"count", "rows"} /\ Visible \subseteq Visible'
      BY <2>1, <3>1 DEF Walking
    <3>3. ASSUME NEW r \in Behind PROVE r \in Behind'
      <4>1. r \in Visible /\ (page - 1) * PageSize <= Rank(Visible, r)
        BY DEF Behind
      <4>2. Rank(Visible, r) <= Rank(Visible', r)
        BY <2>3, <3>2, RankGrows
      <4>3. /\ Rank(Visible, r) \in Nat /\ Rank(Visible', r) \in Nat
            /\ (page - 1) * PageSize \in Nat
        BY <1>0, <2>3, RankIsCount, EarlierPageStartsBefore
      <4>4. (page - 1) * PageSize <= Rank(Visible', r)
        BY <4>1, <4>2, <4>3
      <4>5. QED
        BY <2>1, <3>2, <4>1, <4>4 DEF Behind
    <3>4. QED
      BY <2>1, <2>2, <3>2, <3>3 DEF CoverInv, RestIsBehind
  <2>5. CountStands'
    <3>1. SUFFICES ASSUME at' = "rows", ~crossed' PROVE Cardinality(Visible') <= total'
      BY DEF CountStands
    <3>2. at = "rows" /\ ~crossed /\ Visible' \in SUBSET Visible
      BY <2>1, <3>1
    <3>3. Cardinality(Visible') <= Cardinality(Visible) /\ Cardinality(Visible) <= total
      BY <1>0, <3>2, FS_Subset DEF CoverInv, CountStands
    <3>4. QED
      BY <1>0, <2>1, <2>3, <3>3
  <2>6. PagesMissNothing'
    BY <2>1, <2>2 DEF CoverInv, PagesMissNothing
  <2>7. QED
    BY <2>4, <2>5, <2>6 DEF CoverInv
<1>6. CASE UNCHANGED vars
  BY <1>6 DEF vars, walkVars, requestVars, tables, CoverInv, RestIsBehind, CountStands,
              PagesMissNothing, Behind, Visible, Shown, InScope
<1>7. QED
  BY <1>1, <1>2, <1>3, <1>4, <1>5, <1>6 DEF Next, Walk

(* A client that follows has_next to the end misses no run it could see at  *)
(* the start, except one that left the listing or was pushed behind the end *)
(* between the last count and its rows.                                     *)
THEOREM PagesMissNothingHolds == Spec => []PagesMissNothing
<1>1. Init => WalkTypeOK /\ Fresh /\ CoverInv
  BY TypeInit, CoverInit
<1>2. WalkTypeOK /\ Fresh /\ CoverInv /\ [Next]_vars => (WalkTypeOK /\ Fresh /\ CoverInv)'
  BY TypeNext, CoverNext
<1>3. CoverInv => PagesMissNothing
  BY DEF CoverInv
<1>4. QED
  BY <1>1, <1>2, <1>3, PTL DEF Spec

-------------------------------------------------------------------------------
(* Nothing is shown twice *)

(* What is behind the client is older than what it got. *)
ShownIsNewer ==
  at \in {"count", "rows"} /\ ~entered => \A a \in Shown, b \in Behind : a > b

OnceInv == ShownIsNewer /\ ShownOnce

LEMMA OnceInit == Init => OnceInv
BY DEF Init, WalkInit, OnceInv, ShownIsNewer, ShownOnce

LEMMA OnceNext == WalkTypeOK /\ Fresh /\ OnceInv /\ [Next]_vars => OnceInv'
<1> SUFFICES ASSUME WalkTypeOK, Fresh, OnceInv, [Next]_vars PROVE OnceInv'
  OBVIOUS
<1>0. /\ DOMAIN runs \subseteq Ids /\ page \in Nat \ {0} /\ shown \in Seq(SUBSET Ids)
      /\ Visible \in SUBSET Nat /\ Visible \subseteq Ids /\ IsFiniteSet(Visible)
  BY VisibleIsFinite DEF WalkTypeOK
<1>1. CASE AllRuns \/ SearchRuns \/ SessionRuns \/ StatusRuns
  <2>1. Begin
    BY <1>1 DEF AllRuns, SearchRuns, SessionRuns, StatusRuns
  <2>2. shown' = <<>>
    BY <2>1 DEF Begin, Fresh
  <2>3. Shown' = {}
    BY <2>2 DEF Shown
  <2>4. QED
    BY <2>2, <2>3 DEF OnceInv, ShownIsNewer, ShownOnce
<1>2. CASE CountRuns
  <2>1. /\ at = "count" /\ UNCHANGED <<page, shown, entered>> /\ Visible' = Visible
    BY <1>2 DEF CountRuns, tables, Visible, InScope
  <2>2. Behind' = Behind /\ Shown' = Shown
    BY <2>1 DEF Behind, Shown
  <2>3. QED
    BY <2>1, <2>2 DEF OnceInv, ShownIsNewer, ShownOnce
<1>3. CASE FetchPage
  <2> DEFINE P == PageOf(Visible, page)
  <2>1. /\ at = "rows" /\ shown' = Append(shown, P)
        /\ IF HasNext THEN at' = "count" /\ page' = page + 1
                      ELSE at' = "done" /\ UNCHANGED page
        /\ UNCHANGED entered
        /\ Visible' = Visible
    BY <1>3 DEF FetchPage, tables, Visible, InScope
  <2>2. P \in SUBSET Ids /\ P \subseteq Behind
    BY <1>0 DEF PageOf, Behind
  <2>3. Shown' = Shown \cup P
    BY <1>0, <2>1, <2>2, ShownGrows
  <2>4. ShownOnce'
    <3>1. SUFFICES ASSUME ~entered, NEW j \in DOMAIN shown', NEW k \in DOMAIN shown',
                          j < k, NEW a \in shown'[j], NEW b \in shown'[k]
                   PROVE  a > b
      BY <2>1 DEF ShownOnce
    <3>2. /\ Len(shown) \in Nat /\ DOMAIN shown = 1 .. Len(shown)
          /\ DOMAIN shown' = 1 .. Len(shown) + 1
          /\ shown'[Len(shown) + 1] = P
          /\ \A i \in 1 .. Len(shown) : shown'[i] = shown[i]
      BY <1>0, <2>1
    <3>3. j \in DOMAIN shown /\ shown'[j] = shown[j]
      BY <3>1, <3>2
    <3>4. CASE k \in DOMAIN shown
      BY <3>1, <3>2, <3>3, <3>4 DEF OnceInv, ShownOnce
    <3>5. CASE k = Len(shown) + 1
      <4>1. a \in Shown /\ b \in Behind
        BY <2>2, <3>2, <3>3, <3>5 DEF Shown
      <4>2. QED
        BY <2>1, <3>1, <4>1 DEF OnceInv, ShownIsNewer
    <3>6. QED
      BY <3>2, <3>4, <3>5
  <2>5. ShownIsNewer'
    <3>1. SUFFICES ASSUME at' = "count", ~entered, NEW a \in Shown \cup P, NEW b \in Behind'
                   PROVE  a > b
      BY <2>1, <2>3 DEF ShownIsNewer
    <3>2. page' = page + 1 /\ (page' - 1) * PageSize = page * PageSize
      BY <1>0, <2>1, <3>1
    <3>3. b \in Visible /\ page * PageSize <= Rank(Visible, b)
      BY <2>1, <3>2 DEF Behind
    <3>4. /\ Rank(Visible, b) \in Nat /\ page * PageSize \in Nat
          /\ (page - 1) * PageSize \in Nat /\ (page - 1) * PageSize <= page * PageSize
      BY <1>0, RankIsCount, EarlierPageStartsBefore, PageSizeAssumption
    <3>5. CASE a \in Shown
      <4>1. b \in Behind
        BY <3>3, <3>4 DEF Behind
      <4>2. QED
        BY <2>1, <3>1, <3>5, <4>1 DEF OnceInv, ShownIsNewer
    <3>6. CASE a \in P
      <4>1. a \in Visible /\ Rank(Visible, a) < page * PageSize
        BY <3>6 DEF PageOf
      <4>2. Rank(Visible, a) \in Nat /\ a \in Nat /\ b \in Nat
        BY <1>0, <3>3, <4>1, RankIsCount
      <4>3. Rank(Visible, a) < Rank(Visible, b)
        BY <3>3, <3>4, <4>1, <4>2
      <4>4. QED
        BY <1>0, <4>2, <4>3, LowerRankIsNewer
    <3>7. QED
      BY <3>1, <3>5, <3>6
  <2>6. QED
    BY <2>4, <2>5 DEF OnceInv
<1>4. CASE QueryFails
  BY <1>4 DEF QueryFails, requestVars, OnceInv, ShownIsNewer, ShownOnce
<1>5. CASE WriteMeanwhile
  <2>1. /\ UNCHANGED <<at, page, shown>>
        /\ entered' = (entered \/ (Walking /\ ~(Visible' \subseteq Visible)))
    BY <1>5 DEF WriteMeanwhile, requestVars
  <2>2. ShownOnce' /\ Shown' = Shown
    BY <2>1 DEF OnceInv, ShownOnce, Shown
  <2>3. ShownIsNewer'
    <3>1. SUFFICES ASSUME at' \in {"count", "rows"}, ~entered', NEW a \in Shown,
                          NEW b \in Behind'
                   PROVE  a > b
      BY <2>2 DEF ShownIsNewer
    <3>2. ~entered /\ at \in {"count", "rows"} /\ Visible' \subseteq Visible
      BY <2>1, <3>1 DEF Walking
    <3>3. b \in Visible' /\ (page - 1) * PageSize <= Rank(Visible', b)
      BY <2>1 DEF Behind
    <3>4. Rank(Visible', b) <= Rank(Visible, b)
      BY <1>0, <3>2, RankGrows
    <3>5. Rank(Visible, b) \in Nat /\ Rank(Visible', b) \in Nat /\ (page - 1) * PageSize \in Nat
      <4>1. IsFiniteSet(Visible')
        BY <1>0, <3>2, FS_Subset
      <4>2. QED
        BY <1>0, <4>1, RankIsCount, EarlierPageStartsBefore
    <3>6. b \in Behind
      BY <3>2, <3>3, <3>4, <3>5 DEF Behind
    <3>7. QED
      BY <3>2, <3>6 DEF OnceInv, ShownIsNewer
  <2>4. QED
    BY <2>2, <2>3 DEF OnceInv
<1>6. CASE UNCHANGED vars
  BY <1>6 DEF vars, walkVars, requestVars, tables, OnceInv, ShownIsNewer, ShownOnce,
              Behind, Visible, Shown, InScope
<1>7. QED
  BY <1>1, <1>2, <1>3, <1>4, <1>5, <1>6 DEF Next, Walk

(* As long as no run enters the listing, no run is shown twice and later    *)
(* pages hold older runs, whatever leaves it.                               *)
THEOREM ShownOnceHolds == Spec => []ShownOnce
<1>1. Init => WalkTypeOK /\ Fresh /\ OnceInv
  BY TypeInit, OnceInit
<1>2. WalkTypeOK /\ Fresh /\ OnceInv /\ [Next]_vars => (WalkTypeOK /\ Fresh /\ OnceInv)'
  BY TypeNext, OnceNext
<1>3. OnceInv => ShownOnce
  BY DEF OnceInv
<1>4. QED
  BY <1>1, <1>2, <1>3, PTL DEF Spec

-------------------------------------------------------------------------------
(* The rows of the tables *)

(* The telemetry of a run counts rows that were audited, and no more.       *)
RowsInv ==
  /\ DOMAIN runs \subseteq Ids
  /\ audit \in [Ids -> [StepStatuses -> Nat]]
  /\ \A r \in Ids : Steps(r) <= MaxSteps
  /\ \A r \in DOMAIN runs :
       /\ runs[r].status \in {"running", "completed", "failed", "approval_required"}
       /\ runs[r].approved \in BOOLEAN \cup {NoValue}
       /\ runs[r].confidence \in {NoValue} \cup Int
       /\ runs[r].retry_count \in Nat /\ runs[r].results \in Nat
       /\ runs[r].steps_total \in Nat /\ runs[r].steps_failed \in Nat
       /\ runs[r].steps_failed <= runs[r].steps_total
       /\ runs[r].steps_total <= Steps(r) /\ runs[r].steps_failed <= audit[r]["failed"]

(* What a write leaves: every run, every settled row as it is, and no fewer *)
(* audit rows.                                                              *)
Grows ==
  /\ DOMAIN runs \subseteq DOMAIN runs'
  /\ \A r \in DOMAIN runs : runs[r].status # "running" => runs'[r] = runs[r]
  /\ \A r \in Ids, s \in StepStatuses : audit[r][s] <= audit'[r][s]

LEMMA RowsInit == StoreInit => RowsInv
<1> SUFFICES ASSUME StoreInit PROVE RowsInv
  OBVIOUS
<1>1. DOMAIN runs = {}
  BY DEF StoreInit
<1>2. /\ audit \in [Ids -> [StepStatuses -> Nat]]
      /\ \A r \in Ids : Steps(r) = 0
  BY DEF StoreInit, NoSteps, Steps, StepStatuses
<1>3. QED
  BY <1>1, <1>2, MaxStepsAssumption DEF RowsInv

LEMMA RowsNext ==
  ASSUME RowsInv, Write
  PROVE  RowsInv' /\ Grows
<1>0. /\ DOMAIN runs \subseteq Ids /\ audit \in [Ids -> [StepStatuses -> Nat]]
      /\ \A r \in Ids : Steps(r) \in Nat
                        /\ \A s \in StepStatuses : audit[r][s] \in Nat /\ audit[r][s] <= Steps(r)
  BY DEF RowsInv, Steps, StepStatuses
<1>1. PICK r \in Ids : \/ CreateRun(r)
                       \/ \E s \in StepStatuses : RecordStep(r, s)
                       \/ \E outcome \in Outcomes : FinalizeRun(r, outcome)
  BY DEF Write
<1>2. CASE CreateRun(r)
  <2>1. /\ DOMAIN runs' = DOMAIN runs \cup {r} /\ r \notin DOMAIN runs
        /\ runs'[r] = NewRun /\ \A q \in DOMAIN runs : runs'[q] = runs[q]
        /\ UNCHANGED audit
    BY <1>2 DEF CreateRun
  <2>2. \A q \in Ids : Steps(q)' = Steps(q)
    BY <2>1 DEF Steps
  <2>3. Grows
    BY <1>0, <2>1 DEF Grows
  <2>4. RowsInv'
    BY <1>0, <2>1, <2>2 DEF RowsInv, NewRun, StepStatuses
  <2>5. QED
    BY <2>3, <2>4
<1>3. ASSUME NEW s \in StepStatuses, RecordStep(r, s) PROVE RowsInv' /\ Grows
  <2>1. /\ runs[r].status = "running" /\ Steps(r) < MaxSteps
        /\ audit' = [audit EXCEPT ![r][s] = @ + 1]
        /\ UNCHANGED runs
    BY <1>3 DEF RecordStep
  <2>2. audit' \in [Ids -> [StepStatuses -> Nat]]
    BY <1>0, <2>1
  <2>3. \A q \in Ids, t \in StepStatuses :
          audit'[q][t] = IF q = r /\ t = s THEN audit[q][t] + 1 ELSE audit[q][t]
    BY <1>0, <2>1
  <2>4. Steps(r)' = Steps(r) + 1 /\ \A q \in Ids \ {r} : Steps(q)' = Steps(q)
    <3>1. \A q \in Ids : Steps(q)' = audit'[q]["success"] + audit'[q]["failed"]
      BY DEF Steps
    <3>2. QED
      BY <1>0, <2>3, <3>1 DEF Steps, StepStatuses
  <2>5. Grows
    BY <1>0, <2>1, <2>3 DEF Grows
  <2>6. \A q \in Ids : Steps(q) <= Steps(q)' /\ Steps(q)' <= MaxSteps /\ Steps(q)' \in Nat
    BY <1>0, <2>1, <2>4, MaxStepsAssumption DEF RowsInv
  <2>7. ASSUME NEW q \in DOMAIN runs
        PROVE  runs[q].steps_total <= Steps(q)' /\ runs[q].steps_failed <= audit'[q]["failed"]
    <3>1. /\ runs[q].steps_total \in Nat /\ runs[q].steps_failed \in Nat
          /\ runs[q].steps_total <= Steps(q) /\ runs[q].steps_failed <= audit[q]["failed"]
      BY DEF RowsInv
    <3>2. audit[q]["failed"] <= audit'[q]["failed"] /\ audit[q]["failed"] \in Nat
          /\ audit'[q]["failed"] \in Nat
      BY <1>0, <2>2, <2>5 DEF Grows, StepStatuses
    <3>3. QED
      BY <1>0, <2>6, <3>1, <3>2
  <2>8. RowsInv'
    <3>1. \A q \in DOMAIN runs' :
            /\ runs'[q].status \in {"running", "completed", "failed", "approval_required"}
            /\ runs'[q].approved \in BOOLEAN \cup {NoValue}
            /\ runs'[q].confidence \in {NoValue} \cup Int
            /\ runs'[q].retry_count \in Nat /\ runs'[q].results \in Nat
            /\ runs'[q].steps_total \in Nat /\ runs'[q].steps_failed \in Nat
            /\ runs'[q].steps_failed <= runs'[q].steps_total
      BY <2>1 DEF RowsInv
    <3>2. QED
      BY <1>0, <2>1, <2>2, <2>6, <2>7, <3>1 DEF RowsInv
  <2>9. QED
    BY <2>5, <2>8
<1>4. ASSUME NEW outcome \in Outcomes, FinalizeRun(r, outcome) PROVE RowsInv' /\ Grows
  <2> DEFINE row == Summary(outcome, Steps(r), audit[r]["failed"])
  <2>1. /\ r \in DOMAIN runs /\ runs[r].status = "running"
        /\ DOMAIN runs' = DOMAIN runs /\ runs'[r] = row
        /\ \A q \in DOMAIN runs \ {r} : runs'[q] = runs[q]
        /\ UNCHANGED audit
    BY <1>4 DEF FinalizeRun
  <2>2. \A q \in Ids : Steps(q)' = Steps(q)
    BY <2>1 DEF Steps
  <2>3. /\ row.status \in {"completed", "failed", "approval_required"}
        /\ row.approved \in BOOLEAN \cup {NoValue}
        /\ row.confidence \in {NoValue} \cup Int
        /\ row.retry_count \in Nat /\ row.results \in Nat
        /\ row.steps_total = Steps(r) /\ row.steps_failed = audit[r]["failed"]
    BY OutcomesAssumption DEF RunOutcome, Summary
  <2>4. row.steps_failed <= row.steps_total /\ row.steps_total \in Nat
        /\ row.steps_failed \in Nat
    BY <1>0, <2>3 DEF StepStatuses
  <2> HIDE DEF row
  <2>5. Grows
    BY <1>0, <2>1 DEF Grows
  <2>6. RowsInv'
    BY <1>0, <2>1, <2>2, <2>3, <2>4 DEF RowsInv
  <2>7. QED
    BY <2>5, <2>6
<1>5. QED
  BY <1>1, <1>2, <1>3, <1>4

-------------------------------------------------------------------------------
(* Readers and writers together *)

LEMMA QueriesAreWalkSteps == [QueriesNext]_queryVars => [Next]_vars
BY DEF QueriesNext, Query, Next, queryVars, vars, tables

(* What the listing relies on holds from the start for both clients. *)
LEMMA QueriesStart ==
  QueriesInit => /\ WalkTypeOK /\ Fresh /\ CoverInv /\ OnceInv
                 /\ RowsInv
<1> SUFFICES ASSUME QueriesInit PROVE WalkTypeOK /\ Fresh /\ CoverInv /\ OnceInv /\ RowsInv
  OBVIOUS
<1>1. /\ at = "idle" /\ page = 1 /\ total = 0 /\ shown = <<>> /\ present = {}
      /\ entered = FALSE /\ crossed = FALSE /\ left = FALSE
      /\ StoreInit
  BY DEF QueriesInit, Walker, Reporter, WalkInit
<1>2. DOMAIN runs \subseteq Ids
  BY <1>1 DEF StoreInit
<1>3. WalkTypeOK /\ Fresh
  BY <1>1, <1>2 DEF WalkTypeOK, Fresh
<1>4. CoverInv /\ OnceInv
  BY <1>1 DEF CoverInv, RestIsBehind, CountStands, PagesMissNothing,
              OnceInv, ShownIsNewer, ShownOnce
<1>5. QED
  BY <1>1, <1>3, <1>4, RowsInit

(* Whoever writes, and whatever else the client asks, the pages miss        *)
(* nothing and show nothing twice, with the exceptions of the two           *)
(* properties.                                                              *)
THEOREM PagesHoldAmongQueries == QueriesSpec => [](PagesMissNothing /\ ShownOnce)
<1> DEFINE Inv == WalkTypeOK /\ Fresh /\ CoverInv /\ OnceInv
<1>1. QueriesInit => Inv
  BY QueriesStart
<1>2. Inv /\ [QueriesNext]_queryVars => Inv'
  BY QueriesAreWalkSteps, TypeNext, CoverNext, OnceNext
<1>3. Inv => PagesMissNothing /\ ShownOnce
  BY DEF CoverInv, OnceInv
<1>4. QED
  BY <1>1, <1>2, <1>3, PTL DEF QueriesSpec

-------------------------------------------------------------------------------
(* Types of rows and answers *)

IsSequence(s) == \E S : s \in Seq(S)

ReporterInv ==
  /\ client \in {"walker", "reporter"}
  /\ client = "walker" => report = "none"
  /\ client = "reporter" =>
       /\ at = "idle" /\ report \in DOMAIN Queries
       /\ IsSequence(answers) /\ Len(answers) <= Len(Queries[report])

LEMMA Appended ==
  ASSUME NEW s, IsSequence(s), NEW x
  PROVE  /\ IsSequence(Append(s, x)) /\ Len(s) \in Nat
         /\ Len(Append(s, x)) = Len(s) + 1 /\ Append(s, x)[Len(s) + 1] = x
         /\ \A i \in 1 .. Len(s) : Append(s, x)[i] = s[i]
<1>1. PICK S : s \in Seq(S)
  BY DEF IsSequence
<1>2. s \in Seq(S \cup {x})
  BY <1>1, \A T : S \subseteq T => Seq(S) \subseteq Seq(T)
<1>3. QED
  BY <1>2 DEF IsSequence

(* How many statements the endpoints take. *)
LEMMA QueryLengths ==
  /\ DOMAIN Queries = {"overview", "health", "tools", "failures", "trends", "statistics",
                       "inspection", "dashboard"}
  /\ \A q \in DOMAIN Queries : Len(Queries[q]) \in Nat
  /\ /\ Len(Queries["overview"]) = 4
     /\ Queries["overview"][1] = "health" /\ Queries["overview"][2] = "tools"
     /\ Queries["overview"][3] = "failures" /\ Queries["overview"][4] = "trends"
  /\ Len(Queries["health"]) = 1 /\ Queries["health"][1] = "health"
  /\ Len(Queries["statistics"]) = 1 /\ Queries["statistics"][1] = "statistics"
  /\ /\ Len(Queries["inspection"]) = 2
     /\ Queries["inspection"][1] = "detail" /\ Queries["inspection"][2] = "steps"
  /\ /\ Len(Queries["dashboard"]) = 6
     /\ Queries["dashboard"][1] = "runs" /\ Queries["dashboard"][2] = "success"
     /\ Queries["dashboard"][3] = "failure" /\ Queries["dashboard"][4] = "runs"
BY DEF Queries, OverviewQueries, InspectionQueries, DashboardQueries

LEMMA AnswerOf ==
  /\ Answer("health") = Health /\ Answer("tools") = StepRows(Selected, StepStatuses)
  /\ Answer("failures") = StepRows(Selected, {"failed"}) /\ Answer("trends") = Trends
  /\ Answer("statistics") = Statistics
  /\ Answer("detail") = Detail /\ Answer("steps") = Timeline
  /\ Answer("runs") = Cardinality(DOMAIN runs)
  /\ Answer("success") = RunsIn(SuccessStatuses)
  /\ Answer("failure") = RunsIn(FailedStatuses)
BY DEF Answer

(* One more answer, the others as they were; an endpoint that puts its       *)
(* answer together has at least two statements and we look at four.         *)
LEMMA QueryStep ==
  ASSUME ReporterInv, client = "reporter", Query, NEW n, n = Len(answers)
  PROVE  /\ n \in Nat /\ n < Len(Queries[report]) /\ Len(answers') = n + 1
         /\ n = 0 => answers'[1] = Answer(Queries[report][1])
         /\ n = 1 => answers'[2] = Answer(Queries[report][2])
         /\ n = 2 => answers'[3] = Answer(Queries[report][3])
         /\ n = 3 => answers'[4] = Answer(Queries[report][4])
         /\ n >= 1 => answers'[1] = answers[1]
         /\ n >= 2 => answers'[2] = answers[2]
         /\ n >= 3 => answers'[3] = answers[3]
         /\ n >= 4 => answers'[4] = answers[4]
         /\ IsSequence(answers')
         /\ UNCHANGED <<tables, report, filter, subject>>
<1>1. /\ n \in Nat /\ n < Len(Queries[report]) /\ Len(answers') = n + 1
      /\ answers'[n + 1] = Answer(Queries[report][n + 1])
      /\ \A i \in 1 .. n : answers'[i] = answers[i]
      /\ IsSequence(answers')
      /\ UNCHANGED <<tables, report, filter, subject>>
  BY Appended DEF ReporterInv, Query
<1>2. /\ n = 0 => answers'[1] = Answer(Queries[report][1])
      /\ n = 1 => answers'[2] = Answer(Queries[report][2])
      /\ n = 2 => answers'[3] = Answer(Queries[report][3])
      /\ n = 3 => answers'[4] = Answer(Queries[report][4])
  BY <1>1
<1>3. /\ n >= 1 => answers'[1] = answers[1]
      /\ n >= 2 => answers'[2] = answers[2]
      /\ n >= 3 => answers'[3] = answers[3]
      /\ n >= 4 => answers'[4] = answers[4]
  BY <1>1
<1>4. QED
  BY <1>1, <1>2, <1>3

LEMMA ReporterInit == QueriesInit => ReporterInv
<1> SUFFICES ASSUME QueriesInit PROVE ReporterInv
  OBVIOUS
<1>1. CASE Walker
  BY <1>1 DEF Walker, ReporterInv
<1>2. CASE Reporter
  <2>1. answers = <<>> /\ report \in DOMAIN Queries /\ at = "idle" /\ client = "reporter"
    BY <1>2 DEF Reporter, ReportInit
  <2>2. IsSequence(<<>>) /\ Len(<<>>) = 0
    BY <<>> \in Seq({}) DEF IsSequence
  <2>3. QED
    BY <2>1, <2>2, QueryLengths DEF ReporterInv
<1>3. QED
  BY <1>1, <1>2 DEF QueriesInit

LEMMA ReporterNext == ReporterInv /\ [QueriesNext]_queryVars => ReporterInv'
<1> SUFFICES ASSUME ReporterInv, [QueriesNext]_queryVars PROVE ReporterInv'
  OBVIOUS
<1>1. CASE client = "walker" /\ Walk /\ UNCHANGED <<reportVars, client>>
  BY <1>1 DEF ReporterInv, reportVars
<1>2. CASE client = "reporter" /\ Query /\ UNCHANGED <<walkVars, client>>
  <2>1. PICK n : n = Len(answers)
    OBVIOUS
  <2>2. /\ n \in Nat /\ n < Len(Queries[report]) /\ Len(answers') = n + 1
        /\ IsSequence(answers') /\ report' = report
    BY <1>2, <2>1, QueryStep
  <2>3. Len(Queries[report]) \in Nat /\ report \in DOMAIN Queries
    BY <1>2, QueryLengths DEF ReporterInv
  <2>4. QED
    BY <1>2, <2>2, <2>3 DEF ReporterInv, walkVars
<1>3. CASE WriteMeanwhile /\ UNCHANGED <<reportVars, client>>
  BY <1>3 DEF ReporterInv, reportVars, WriteMeanwhile
<1>4. CASE UNCHANGED queryVars
  BY <1>4 DEF ReporterInv, queryVars, vars, walkVars, reportVars
<1>5. QED
  BY <1>1, <1>2, <1>3, <1>4 DEF QueriesNext

(* A step writes the tables or leaves them alone. *)
LEMMA TablesChange == [QueriesNext]_queryVars => Write \/ UNCHANGED tables
<1> SUFFICES ASSUME [QueriesNext]_queryVars PROVE Write \/ UNCHANGED tables
  OBVIOUS
<1>1. Walk => UNCHANGED tables
  BY DEF Walk, AllRuns, SearchRuns, SessionRuns, StatusRuns, Begin, CountRuns, FetchPage,
         QueryFails
<1>2. Query => UNCHANGED tables
  BY DEF Query
<1>3. QED
  BY <1>1, <1>2 DEF QueriesNext, WriteMeanwhile, queryVars, vars

LEMMA RowsStep == RowsInv /\ [QueriesNext]_queryVars => RowsInv' /\ Grows
<1> SUFFICES ASSUME RowsInv, UNCHANGED tables PROVE RowsInv' /\ Grows
  BY RowsNext, TablesChange
<1>1. RowsInv'
  BY DEF RowsInv, tables, Steps
<1>2. Grows
  BY DEF RowsInv, tables, Grows
<1>3. QED
  BY <1>1, <1>2

LEMMA TypesFollow == WalkTypeOK /\ RowsInv /\ ReporterInv => TypeOK
<1> SUFFICES ASSUME WalkTypeOK, RowsInv, ReporterInv PROVE TypeOK
  OBVIOUS
<1>1. \A r \in Ids, s \in StepStatuses : audit[r][s] \in 0 .. MaxSteps
  <2>1. \A r \in Ids : /\ audit[r]["success"] \in Nat /\ audit[r]["failed"] \in Nat
                       /\ audit[r]["success"] + audit[r]["failed"] <= MaxSteps
    BY DEF RowsInv, Steps, StepStatuses
  <2>2. QED
    BY <2>1, MaxStepsAssumption DEF StepStatuses
<1>2. audit \in [Ids -> [StepStatuses -> 0 .. MaxSteps]]
  BY <1>1 DEF RowsInv
<1>3. \A r \in DOMAIN runs : runs[r].steps_total <= MaxSteps
  <2>1. \A r \in DOMAIN runs : r \in Ids /\ runs[r].steps_total \in Nat
                               /\ runs[r].steps_total <= Steps(r) /\ Steps(r) <= MaxSteps
    BY DEF RowsInv
  <2>2. \A r \in Ids : Steps(r) \in Nat
    BY DEF RowsInv, Steps, StepStatuses
  <2>3. QED
    BY <2>1, <2>2, MaxStepsAssumption
<1>4. QED
  BY <1>2, <1>3 DEF TypeOK, RowsInv, ReporterInv, SuccessStatuses, FailedStatuses

(* The tables and what the readers hold are of their types, and no row      *)
(* reports more steps, or more failed ones, than were audited for its run.  *)
THEOREM QueryTypes == QueriesSpec => []TypeOK
<1> DEFINE Inv == WalkTypeOK /\ Fresh /\ RowsInv /\ ReporterInv
<1>1. QueriesInit => Inv
  BY QueriesStart, ReporterInit
<1>2. Inv /\ [QueriesNext]_queryVars => Inv'
  BY QueriesAreWalkSteps, TypeNext, RowsStep, ReporterNext
<1>3. Inv => TypeOK
  BY TypesFollow
<1>4. QED
  BY <1>1, <1>2, <1>3, PTL DEF QueriesSpec

-------------------------------------------------------------------------------
(* What the statements count *)

LEMMA RunsAreFinite ==
  ASSUME RowsInv, NEW S \in SUBSET DOMAIN runs
  PROVE  IsFiniteSet(S) /\ Cardinality(S) \in Nat
BY IdsAssumption, FS_Subset, FS_CardinalityType DEF RowsInv

LEMMA StatusesAreFinite == \A s \in SUBSET StepStatuses : IsFiniteSet(s)
<1>1. StepStatuses = {"success"} \cup {"failed"}
  BY DEF StepStatuses
<1>2. IsFiniteSet(StepStatuses)
  BY <1>1, FS_Singleton, FS_Union
<1>3. QED
  BY <1>2, FS_Subset

LEMMA StepSums ==
  ASSUME RowsInv, NEW r \in Ids
  PROVE  /\ SumFunctionOnSet(audit[r], StepStatuses) = Steps(r)
         /\ SumFunctionOnSet(audit[r], {"failed"}) = audit[r]["failed"]
<1>1. /\ audit[r]["success"] \in Nat /\ audit[r]["failed"] \in Nat
      /\ IsFiniteSet(StepStatuses)
  BY StatusesAreFinite DEF RowsInv, StepStatuses
<1>2. SumFunctionOnSet(audit[r], {"failed"}) = audit[r]["failed"]
  BY <1>1, SumOfOne
<1>3. SumFunctionOnSet(audit[r], StepStatuses)
        = audit[r]["success"] + SumFunctionOnSet(audit[r], StepStatuses \ {"success"})
  BY <1>1, SumRemove DEF StepStatuses
<1>4. StepStatuses \ {"success"} = {"failed"}
  BY DEF StepStatuses
<1>5. QED
  BY <1>2, <1>3, <1>4 DEF Steps

LEMMA StepRowsAreNatural ==
  ASSUME RowsInv, NEW S \in SUBSET DOMAIN runs, NEW statuses \in SUBSET StepStatuses
  PROVE  StepRows(S, statuses) \in Nat
<1> DEFINE f == [r \in S |-> SumFunctionOnSet(audit[r], statuses)]
<1>1. ASSUME NEW r \in S PROVE SumFunctionOnSet(audit[r], statuses) \in Nat
  <2>1. IsFiniteSet(statuses) /\ \A s \in statuses : audit[r][s] \in Nat
    BY StatusesAreFinite DEF RowsInv
  <2>2. QED
    BY <2>1, SumIsNatural
<1>2. SumFunctionOnSet(f, S) \in Nat
  <2>1. \A r \in S : f[r] \in Nat
    BY <1>1
  <2> HIDE DEF f
  <2>2. QED
    BY <2>1, RunsAreFinite, SumIsNatural
<1>3. QED
  BY <1>2 DEF StepRows, SumFunction

(* The executions of the tools only become more. *)
LEMMA StepRowsGrow ==
  ASSUME RowsInv, RowsInv', Grows, NEW S \in SUBSET DOMAIN runs, NEW T \in SUBSET DOMAIN runs',
         S \subseteq T, NEW statuses \in SUBSET StepStatuses
  PROVE  StepRows(S, statuses) <= SumFunction([r \in T |-> SumFunctionOnSet(audit'[r], statuses)])
<1> DEFINE f == [r \in S |-> SumFunctionOnSet(audit[r], statuses)]
           g == [r \in T |-> SumFunctionOnSet(audit'[r], statuses)]
<1>1. IsFiniteSet(statuses) /\ IsFiniteSet(T) /\ T \subseteq Ids /\ S \subseteq Ids
  BY StatusesAreFinite, FS_Subset, IdsAssumption DEF RowsInv
<1>2. ASSUME NEW r \in S PROVE /\ SumFunctionOnSet(audit[r], statuses) \in Nat
                               /\ SumFunctionOnSet(audit[r], statuses)
                                    <= SumFunctionOnSet(audit'[r], statuses)
  <2>1. \A s \in statuses : /\ audit[r][s] \in Nat /\ audit'[r][s] \in Nat
                            /\ audit[r][s] <= audit'[r][s]
    BY <1>1 DEF RowsInv, Grows
  <2>2. QED
    BY <1>1, <2>1, SumMonotone, SumIsNatural
<1>3. ASSUME NEW r \in T PROVE SumFunctionOnSet(audit'[r], statuses) \in Nat
  <2>1. \A s \in statuses : audit'[r][s] \in Nat
    BY <1>1 DEF RowsInv
  <2>2. QED
    BY <1>1, <2>1, SumIsNatural
<1>4. /\ \A r \in S : f[r] \in Nat /\ f[r] <= g[r]
      /\ \A r \in T : g[r] \in Nat
      /\ DOMAIN f = S /\ DOMAIN g = T
  BY <1>2, <1>3
<1>5. StepRows(S, statuses) = SumFunctionOnSet(f, S) /\ SumFunction(g) = SumFunctionOnSet(g, T)
  BY DEF StepRows, SumFunction
<1> HIDE DEF f, g
<1>6. SumFunctionOnSet(f, S) <= SumFunctionOnSet(g, T)
  BY <1>1, <1>4, SumMonotone
<1>7. QED
  BY <1>5, <1>6 DEF g

(* The steps the runs report are among the executions of the tools. *)
LEMMA TotalsAreCovered ==
  ASSUME RowsInv, NEW S \in SUBSET DOMAIN runs
  PROVE  /\ Total(S, "steps_total") \in Nat /\ Total(S, "steps_failed") \in Nat
         /\ Total(S, "steps_total") <= StepRows(S, StepStatuses)
         /\ Total(S, "steps_failed") <= StepRows(S, {"failed"})
<1> DEFINE all == [r \in S |-> runs[r]["steps_total"]]
           bad == [r \in S |-> runs[r]["steps_failed"]]
           rows == [r \in S |-> SumFunctionOnSet(audit[r], StepStatuses)]
           errors == [r \in S |-> SumFunctionOnSet(audit[r], {"failed"})]
<1>1. IsFiniteSet(S) /\ S \subseteq Ids
  BY RunsAreFinite DEF RowsInv
<1>2. \A r \in S : /\ all[r] \in Nat /\ rows[r] \in Nat /\ all[r] <= rows[r]
                   /\ bad[r] \in Nat /\ errors[r] \in Nat /\ bad[r] <= errors[r]
  <2>1. \A r \in S : /\ SumFunctionOnSet(audit[r], StepStatuses) = Steps(r)
                     /\ SumFunctionOnSet(audit[r], {"failed"}) = audit[r]["failed"]
                     /\ Steps(r) \in Nat /\ audit[r]["failed"] \in Nat
    BY <1>1, StepSums DEF RowsInv, Steps, StepStatuses
  <2>2. QED
    BY <2>1 DEF RowsInv
<1>3. /\ Total(S, "steps_total") = SumFunctionOnSet(all, S)
      /\ Total(S, "steps_failed") = SumFunctionOnSet(bad, S)
      /\ StepRows(S, StepStatuses) = SumFunctionOnSet(rows, S)
      /\ StepRows(S, {"failed"}) = SumFunctionOnSet(errors, S)
  BY DEF Total, StepRows, SumFunction
<1> HIDE DEF all, bad, rows, errors
<1>4. /\ SumFunctionOnSet(all, S) <= SumFunctionOnSet(rows, S)
      /\ SumFunctionOnSet(bad, S) <= SumFunctionOnSet(errors, S)
      /\ SumFunctionOnSet(all, S) \in Nat /\ SumFunctionOnSet(bad, S) \in Nat
  BY <1>1, <1>2, SumMonotone, SumIsNatural
<1>5. QED
  BY <1>3, <1>4

(* A run that ended stays where it is counted, and under every filter but   *)
(* "running" all runs do.                                                   *)
LEMMA SelectedGrows ==
  ASSUME RowsInv, RowsInv', Grows, UNCHANGED filter
  PROVE  /\ filter # "running" => Selected \subseteq Selected'
         /\ \A statuses : "running" \notin statuses =>
              InStatus(Selected, statuses) \subseteq InStatus(Selected, statuses)'
BY DEF Selected, InStatus, Grows

LEMMA EndedGrow ==
  ASSUME RowsInv, RowsInv', Grows, NEW statuses, "running" \notin statuses
  PROVE  /\ RunsIn(statuses) \in Nat /\ RunsIn(statuses)' \in Nat
         /\ RunsIn(statuses) <= RunsIn(statuses)'
<1>1. /\ InStatus(DOMAIN runs, statuses) \in SUBSET DOMAIN runs
      /\ InStatus(DOMAIN runs, statuses)' \in SUBSET Ids
      /\ InStatus(DOMAIN runs, statuses) \subseteq InStatus(DOMAIN runs, statuses)'
  BY DEF InStatus, Grows, RowsInv
<1>2. QED
  BY <1>1, IdsAssumption, FS_Subset, FS_CardinalityType, RunsAreFinite DEF RunsIn

(* Runs of different statuses are different runs. *)
LEMMA StatusesAreApart ==
  ASSUME RowsInv, NEW A, NEW B, A \cap B = {}
  PROVE  RunsIn(A) + RunsIn(B) = RunsIn(A \cup B) /\ RunsIn(A) \in Nat /\ RunsIn(B) \in Nat
         /\ RunsIn(A) <= Cardinality(DOMAIN runs)
<1> DEFINE a == InStatus(DOMAIN runs, A)
           b == InStatus(DOMAIN runs, B)
<1>1. /\ a \in SUBSET DOMAIN runs /\ b \in SUBSET DOMAIN runs
      /\ a \cup b = InStatus(DOMAIN runs, A \cup B) /\ a \cap b = {}
  BY DEF InStatus
<1>2. IsFiniteSet(a) /\ IsFiniteSet(b) /\ IsFiniteSet(DOMAIN runs)
      /\ Cardinality(a) \in Nat /\ Cardinality(b) \in Nat
  BY <1>1, RunsAreFinite
<1>3. Cardinality(a \cup b) = Cardinality(a) + Cardinality(b) - Cardinality({})
  BY <1>1, <1>2, FS_Union
<1>4. Cardinality({}) = 0
  BY FS_EmptySet
<1>5. Cardinality(a) <= Cardinality(DOMAIN runs)
  BY <1>1, <1>2, FS_Subset
<1>6. /\ RunsIn(A) = Cardinality(a) /\ RunsIn(B) = Cardinality(b)
      /\ RunsIn(A \cup B) = Cardinality(a \cup b)
  BY <1>1 DEF RunsIn
<1> HIDE DEF a, b
<1>7. QED
  BY <1>2, <1>3, <1>4, <1>5, <1>6

-------------------------------------------------------------------------------
(* The parts of an answer *)

(* What the parts that were answered counted is counted now, and in Nat.    *)
OverviewInv ==
  report = "overview" /\ filter # "running" /\ Len(answers) >= 1 =>
    /\ answers[1].total_steps \in Nat
    /\ answers[1].total_steps <= StepRows(Selected, StepStatuses)
    /\ answers[1].failed_steps \in Nat
    /\ answers[1].failed_steps <= StepRows(Selected, {"failed"})
    /\ answers[1].total_runs \in Nat
    /\ answers[1].total_runs <= Cardinality(Selected)
    /\ answers[1].successful_runs \in Nat
    /\ answers[1].successful_runs <= Cardinality(InStatus(Selected, SuccessStatuses))
    /\ answers[1].failed_runs \in Nat
    /\ answers[1].failed_runs <= Cardinality(InStatus(Selected, FailedStatuses))

DashboardInv ==
  report = "dashboard" =>
    /\ Len(answers) >= 2 => answers[2] \in Nat /\ answers[2] <= RunsIn(SuccessStatuses)
    /\ Len(answers) >= 3 => answers[3] \in Nat /\ answers[3] <= RunsIn(FailedStatuses)

InspectionInv ==
  report = "inspection" /\ Len(answers) >= 1 /\ answers[1].recorded > 0 =>
    /\ subject.run \in Ids
    /\ answers[1].steps_total \in Nat /\ answers[1].steps_total <= Steps(subject.run)

PartsInv == OverviewInv /\ DashboardInv /\ InspectionInv /\ LaterPartsCover

LEMMA PartsInit == QueriesInit => PartsInv
<1> SUFFICES ASSUME QueriesInit PROVE PartsInv
  OBVIOUS
<1>1. answers = <<>>
  BY DEF QueriesInit, Walker, Reporter, ReportInit
<1>2. Len(answers) = 0
  BY <1>1
<1>3. QED
  BY <1>2 DEF PartsInv, OverviewInv, DashboardInv, InspectionInv, LaterPartsCover

LEMMA SelectedIsFinite ==
  ASSUME RowsInv
  PROVE  /\ Selected \in SUBSET DOMAIN runs
         /\ \A statuses : InStatus(Selected, statuses) \in SUBSET DOMAIN runs
         /\ \A S \in SUBSET DOMAIN runs : IsFiniteSet(S) /\ Cardinality(S) \in Nat
BY RunsAreFinite DEF Selected, InStatus

(* Writes do not take back what was counted. *)
LEMMA WritesKeepParts ==
  ASSUME RowsInv, RowsInv', Grows, PartsInv, UNCHANGED reportVars
  PROVE  PartsInv'
<1>0. UNCHANGED <<report, filter, subject, answers>>
  BY DEF reportVars
<1>1. OverviewInv'
  <2>1. SUFFICES ASSUME report = "overview", filter # "running", Len(answers) >= 1
                 PROVE OverviewInv'
    BY <1>0 DEF OverviewInv
  <2>2. /\ Selected \in SUBSET DOMAIN runs /\ Selected' \in SUBSET DOMAIN runs'
        /\ Selected \subseteq Selected'
    BY <1>0, <2>1, SelectedGrows DEF Selected
  <2>3. ASSUME NEW statuses \in SUBSET StepStatuses
        PROVE  StepRows(Selected, statuses) <= StepRows(Selected, statuses)'
               /\ StepRows(Selected, statuses) \in Nat
               /\ StepRows(Selected, statuses)' \in Nat
    <3>1. StepRows(Selected, statuses)'
            = SumFunction([r \in Selected' |-> SumFunctionOnSet(audit'[r], statuses)])
      BY DEF StepRows
    <3>2. StepRows(Selected, statuses) <= StepRows(Selected, statuses)'
      BY <2>2, <3>1, StepRowsGrow
    <3>3. StepRows(Selected, statuses) \in Nat
      BY <2>2, StepRowsAreNatural
    <3>4. StepRows(Selected, statuses)' \in Nat
      <4> DEFINE f == [r \in Selected' |-> SumFunctionOnSet(audit'[r], statuses)]
      <4>1. IsFiniteSet(Selected') /\ Selected' \subseteq Ids /\ IsFiniteSet(statuses)
        BY <2>2, IdsAssumption, FS_Subset, StatusesAreFinite DEF RowsInv
      <4>2. \A r \in Selected' : f[r] \in Nat
        <5>1. \A r \in Selected' : \A s \in statuses : audit'[r][s] \in Nat
          BY <4>1 DEF RowsInv
        <5>2. QED
          BY <4>1, <5>1, SumIsNatural
      <4>3. SumFunction(f) = SumFunctionOnSet(f, Selected')
        BY DEF SumFunction
      <4> HIDE DEF f
      <4>4. SumFunctionOnSet(f, Selected') \in Nat
        BY <4>1, <4>2, SumIsNatural
      <4>5. QED
        BY <3>1, <4>3, <4>4 DEF f
    <3>5. QED
      BY <3>2, <3>3, <3>4
  <2>4. ASSUME NEW statuses, "running" \notin statuses
        PROVE  /\ Cardinality(InStatus(Selected, statuses)) \in Nat
               /\ Cardinality(InStatus(Selected, statuses))' \in Nat
               /\ Cardinality(InStatus(Selected, statuses))
                    <= Cardinality(InStatus(Selected, statuses))'
    <3>1. InStatus(Selected, statuses) \subseteq InStatus(Selected, statuses)'
      BY <1>0, <2>4, SelectedGrows
    <3>2. InStatus(Selected, statuses)' \subseteq Ids
      BY <2>2 DEF InStatus, RowsInv
    <3>3. QED
      BY <3>1, <3>2, IdsAssumption, FS_Subset, FS_CardinalityType
  <2>5. /\ Cardinality(Selected) \in Nat /\ Cardinality(Selected') \in Nat
        /\ Cardinality(Selected) <= Cardinality(Selected')
    <3>1. Selected' \subseteq Ids
      BY <2>2 DEF RowsInv
    <3>2. QED
      BY <2>2, <3>1, IdsAssumption, FS_Subset, FS_CardinalityType
  <2>6. /\ "running" \notin SuccessStatuses /\ "running" \notin FailedStatuses
        /\ {"failed"} \subseteq StepStatuses /\ StepStatuses' = StepStatuses
        /\ SuccessStatuses' = SuccessStatuses /\ FailedStatuses' = FailedStatuses
    BY DEF SuccessStatuses, FailedStatuses, StepStatuses
  <2> DEFINE all == StepRows(Selected, StepStatuses)
             bad == StepRows(Selected, {"failed"})
             succ == Cardinality(InStatus(Selected, SuccessStatuses))
             fail == Cardinality(InStatus(Selected, FailedStatuses))
  <2>7. /\ all \in Nat /\ all' \in Nat /\ all <= all' /\ bad \in Nat /\ bad' \in Nat
        /\ bad <= bad'
    BY <2>3, <2>6
  <2>8. /\ succ \in Nat /\ succ' \in Nat /\ succ <= succ' /\ fail \in Nat /\ fail' \in Nat
        /\ fail <= fail'
    BY <2>4, <2>6
  <2>9. /\ answers[1].total_steps \in Nat /\ answers[1].total_steps <= all
        /\ answers[1].failed_steps \in Nat /\ answers[1].failed_steps <= bad
        /\ answers[1].total_runs \in Nat /\ answers[1].total_runs <= Cardinality(Selected)
        /\ answers[1].successful_runs \in Nat /\ answers[1].successful_runs <= succ
        /\ answers[1].failed_runs \in Nat /\ answers[1].failed_runs <= fail
    BY <2>1 DEF PartsInv, OverviewInv
  <2> HIDE DEF all, bad, succ, fail
  <2>10. /\ answers[1].total_steps <= all' /\ answers[1].failed_steps <= bad'
         /\ answers[1].total_runs <= Cardinality(Selected')
         /\ answers[1].successful_runs <= succ' /\ answers[1].failed_runs <= fail'
    BY <2>5, <2>7, <2>8, <2>9
  <2>11. QED
    BY <1>0, <2>9, <2>10 DEF OverviewInv, all, bad, succ, fail
<1>2. DashboardInv'
  <2>1. /\ "running" \notin SuccessStatuses /\ "running" \notin FailedStatuses
    BY DEF SuccessStatuses, FailedStatuses
  <2>2. /\ RunsIn(SuccessStatuses) \in Nat /\ RunsIn(SuccessStatuses)' \in Nat
        /\ RunsIn(SuccessStatuses) <= RunsIn(SuccessStatuses)'
        /\ RunsIn(FailedStatuses) \in Nat /\ RunsIn(FailedStatuses)' \in Nat
        /\ RunsIn(FailedStatuses) <= RunsIn(FailedStatuses)'
    BY <2>1, EndedGrow
  <2>3. QED
    BY <1>0, <2>2 DEF PartsInv, DashboardInv
<1>3. InspectionInv'
  <2>1. \A r \in Ids : Steps(r) \in Nat /\ Steps(r)' \in Nat /\ Steps(r) <= Steps(r)'
    <3>1. \A r \in Ids, s \in StepStatuses :
            audit[r][s] \in Nat /\ audit'[r][s] \in Nat /\ audit[r][s] <= audit'[r][s]
      BY DEF RowsInv, Grows
    <3>2. QED
      BY <3>1 DEF Steps, StepStatuses
  <2>2. Steps(subject.run)' = audit'[subject.run]["success"] + audit'[subject.run]["failed"]
    BY <1>0 DEF Steps
  <2>3. subject.run \in Ids => Steps(subject.run)' \in Nat
                               /\ Steps(subject.run) \in Nat
                               /\ Steps(subject.run) <= Steps(subject.run)'
    BY <1>0, <2>1, <2>2 DEF Steps
  <2>4. QED
    BY <1>0, <2>3 DEF PartsInv, InspectionInv
<1>4. LaterPartsCover'
  BY <1>0 DEF PartsInv, LaterPartsCover
<1>5. QED
  BY <1>1, <1>2, <1>3, <1>4 DEF PartsInv

(* Each statement of the overview counts at least what the parts before it  *)
(* counted.                                                                 *)
LEMMA OverviewAnswers ==
  ASSUME RowsInv, ReporterInv, PartsInv, client = "reporter", Query, report = "overview"
  PROVE  OverviewInv' /\ LaterPartsCover'
<1>n. PICK n : n = Len(answers)
  OBVIOUS
<1>0. /\ n \in Nat /\ n < 4 /\ Len(answers') = n + 1
      /\ n = 0 => answers'[1] = Answer(Queries["overview"][1])
      /\ n = 1 => answers'[2] = Answer(Queries["overview"][2])
      /\ n = 2 => answers'[3] = Answer(Queries["overview"][3])
      /\ n = 3 => answers'[4] = Answer(Queries["overview"][4])
      /\ n >= 1 => answers'[1] = answers[1]
      /\ n >= 2 => answers'[2] = answers[2]
      /\ n >= 3 => answers'[3] = answers[3]
      /\ UNCHANGED <<runs, audit, report, filter>>
  BY <1>n, QueryStep, QueryLengths DEF tables
<1>1. /\ Selected' = Selected
      /\ \A S, statuses : StepRows(S, statuses)' = StepRows(S, statuses)
      /\ \A S, statuses : InStatus(S, statuses)' = InStatus(S, statuses)
  BY <1>0 DEF Selected, StepRows, InStatus
<1>2. SUFFICES ASSUME filter # "running" PROVE OverviewInv' /\ LaterPartsCover'
  BY <1>0 DEF OverviewInv, LaterPartsCover
<1> DEFINE all == StepRows(Selected, StepStatuses)
           bad == StepRows(Selected, {"failed"})
           count == Cardinality(Selected)
           succ == Cardinality(InStatus(Selected, SuccessStatuses))
           fail == Cardinality(InStatus(Selected, FailedStatuses))
           Covered(a) == /\ a.total_steps \in Nat /\ a.total_steps <= all
                         /\ a.failed_steps \in Nat /\ a.failed_steps <= bad
                         /\ a.total_runs \in Nat /\ a.total_runs <= count
                         /\ a.successful_runs \in Nat /\ a.successful_runs <= succ
                         /\ a.failed_runs \in Nat /\ a.failed_runs <= fail
<1>3. /\ OverviewInv <=> (n >= 1 => Covered(answers[1]))
      /\ OverviewInv' <=> Covered(answers'[1])
  BY <1>0, <1>1, <1>2, <1>n DEF OverviewInv, SuccessStatuses, FailedStatuses, StepStatuses
<1>4. n = 0 => answers'[1] = Health
  BY <1>0, QueryLengths, AnswerOf
<1>5. Covered(Health)
  <2>1. /\ Selected \in SUBSET DOMAIN runs
        /\ count \in Nat /\ succ \in Nat /\ fail \in Nat
    BY SelectedIsFinite
  <2>2. /\ Health.total_steps = Total(Selected, "steps_total")
        /\ Health.failed_steps = Total(Selected, "steps_failed")
        /\ Health.total_runs = count /\ Health.successful_runs = succ
        /\ Health.failed_runs = fail
    BY DEF Health
  <2>3. /\ Total(Selected, "steps_total") \in Nat /\ Total(Selected, "steps_total") <= all
        /\ Total(Selected, "steps_failed") \in Nat /\ Total(Selected, "steps_failed") <= bad
    BY <2>1, TotalsAreCovered
  <2> HIDE DEF all, bad, count, succ, fail
  <2>4. QED
    BY <2>1, <2>2, <2>3
<1>6. Covered(answers'[1])
  <2> HIDE DEF Covered
  <2>1. CASE n = 0
    BY <1>4, <1>5, <2>1
  <2>2. CASE n >= 1
    BY <1>0, <1>3, <2>2 DEF PartsInv
  <2>3. QED
    BY <1>0, <2>1, <2>2
<1>7. /\ n = 1 => answers'[2] = all
      /\ n = 2 => answers'[3] = bad
      /\ n = 3 => answers'[4] = Trends
  BY <1>0, QueryLengths, AnswerOf
<1>8. Trends.total_runs = count /\ Trends.successful_runs = succ /\ Trends.failed_runs = fail
  BY DEF Trends
<1>9. /\ n >= 2 => answers[1].total_steps <= answers[2]
      /\ n >= 3 => answers[1].failed_steps <= answers[3]
  BY <1>2, <1>n DEF PartsInv, LaterPartsCover
<1> HIDE DEF all, bad, count, succ, fail
<1>10. /\ n + 1 >= 2 => answers'[1].total_steps <= answers'[2]
       /\ n + 1 >= 3 => answers'[1].failed_steps <= answers'[3]
  BY <1>0, <1>6, <1>7, <1>9
<1>11. n + 1 >= 4 => /\ answers'[1].total_runs <= answers'[4].total_runs
                     /\ answers'[1].successful_runs <= answers'[4].successful_runs
                     /\ answers'[1].failed_runs <= answers'[4].failed_runs
  BY <1>0, <1>6, <1>7, <1>8
<1>12. n + 1 >= 4 => \A c \in {"total_runs", "successful_runs", "failed_runs"} :
                       answers'[1][c] <= answers'[4][c]
  BY <1>11
<1>13. QED
  BY <1>0, <1>3, <1>6, <1>10, <1>12 DEF LaterPartsCover

LEMMA DashboardAnswers ==
  ASSUME RowsInv, ReporterInv, PartsInv, client = "reporter", Query, report = "dashboard"
  PROVE  DashboardInv' /\ LaterPartsCover'
<1>n. PICK n : n = Len(answers)
  OBVIOUS
<1> DEFINE succ == RunsIn(SuccessStatuses)
           fail == RunsIn(FailedStatuses)
<1>0. /\ n \in Nat /\ n < 6 /\ Len(answers') = n + 1
      /\ n = 0 => answers'[1] = Answer(Queries["dashboard"][1])
      /\ n = 1 => answers'[2] = Answer(Queries["dashboard"][2])
      /\ n = 2 => answers'[3] = Answer(Queries["dashboard"][3])
      /\ n = 3 => answers'[4] = Answer(Queries["dashboard"][4])
      /\ n >= 1 => answers'[1] = answers[1]
      /\ n >= 2 => answers'[2] = answers[2]
      /\ n >= 3 => answers'[3] = answers[3]
      /\ n >= 4 => answers'[4] = answers[4]
      /\ UNCHANGED <<runs, audit, report>>
  BY <1>n, QueryStep, QueryLengths DEF tables
<1>1. succ' = succ /\ fail' = fail
  BY <1>0 DEF RunsIn, InStatus, SuccessStatuses, FailedStatuses
<1>2. /\ n = 1 => answers'[2] = succ
      /\ n = 2 => answers'[3] = fail
      /\ n = 3 => answers'[4] = Cardinality(DOMAIN runs)
  BY <1>0, QueryLengths, AnswerOf
<1>3. succ \in Nat /\ fail \in Nat /\ Cardinality(DOMAIN runs) \in Nat
      /\ succ + fail <= Cardinality(DOMAIN runs)
  <2>1. /\ succ + fail = RunsIn(SuccessStatuses \cup FailedStatuses)
        /\ succ \in Nat /\ fail \in Nat
    <3>1. SuccessStatuses \cap FailedStatuses = {}
      BY DEF SuccessStatuses, FailedStatuses
    <3>2. QED
      BY <3>1, StatusesAreApart
  <2>2. RunsIn(SuccessStatuses \cup FailedStatuses) <= Cardinality(DOMAIN runs)
    BY StatusesAreApart, (SuccessStatuses \cup FailedStatuses) \cap {} = {}
  <2>3. Cardinality(DOMAIN runs) \in Nat
    BY RunsAreFinite
  <2>4. QED
    BY <2>1, <2>2, <2>3
<1>4. /\ n >= 2 => answers[2] \in Nat /\ answers[2] <= succ
      /\ n >= 3 => answers[3] \in Nat /\ answers[3] <= fail
      /\ n >= 4 => answers[2] + answers[3] <= answers[4]
  BY <1>n DEF PartsInv, DashboardInv, LaterPartsCover
<1> HIDE DEF succ, fail
<1>5. /\ n + 1 >= 2 => answers'[2] \in Nat /\ answers'[2] <= succ
      /\ n + 1 >= 3 => answers'[3] \in Nat /\ answers'[3] <= fail
  BY <1>0, <1>2, <1>3, <1>4
<1>6. n + 1 >= 4 => answers'[2] + answers'[3] <= answers'[4]
  <2>1. CASE n = 3
    BY <1>0, <1>2, <1>3, <1>5, <2>1
  <2>2. CASE n >= 4
    BY <1>0, <1>4, <2>2
  <2>3. QED
    BY <1>0, <2>1, <2>2
<1>7. QED
  BY <1>0, <1>1, <1>5, <1>6 DEF DashboardInv, LaterPartsCover, succ, fail

LEMMA InspectionAnswers ==
  ASSUME RowsInv, ReporterInv, PartsInv, client = "reporter", Query, report = "inspection"
  PROVE  InspectionInv' /\ LaterPartsCover'
<1>n. PICK n : n = Len(answers)
  OBVIOUS
<1>0. /\ n \in Nat /\ n < 2 /\ Len(answers') = n + 1
      /\ n = 0 => answers'[1] = Answer(Queries["inspection"][1])
      /\ n = 1 => answers'[2] = Answer(Queries["inspection"][2])
      /\ n >= 1 => answers'[1] = answers[1]
      /\ UNCHANGED <<runs, audit, report, subject>>
  BY <1>n, QueryStep, QueryLengths DEF tables
<1>1. Steps(subject.run)' = Steps(subject.run)
  BY <1>0 DEF Steps
<1>2. n = 0 => answers'[1] = Detail
  BY <1>0, QueryLengths, AnswerOf
<1>3. Detail.recorded > 0 =>
        /\ subject.run \in Ids
        /\ Detail.steps_total \in Nat /\ Detail.steps_total <= Steps(subject.run)
  BY DEF Detail, CountSteps, RowsInv
<1>4. n = 1 => answers'[2] = Steps(subject.run)
  BY <1>0, QueryLengths, AnswerOf DEF Timeline
<1>5. answers'[1].recorded > 0 =>
        /\ subject.run \in Ids
        /\ answers'[1].steps_total \in Nat /\ answers'[1].steps_total <= Steps(subject.run)
  BY <1>0, <1>2, <1>3, <1>n DEF PartsInv, InspectionInv
<1>6. QED
  BY <1>0, <1>1, <1>4, <1>5 DEF InspectionInv, LaterPartsCover

(* The groups of one GROUP BY do not overlap. *)
LEMMA StatisticsAddUp ==
  ASSUME RowsInv
  PROVE  Statistics.total_runs >= Statistics.successful_runs + Statistics.failed_runs
                                  + Statistics.running_runs + Statistics.pending_runs
<1> DEFINE ended == SuccessStatuses \cup FailedStatuses
           begun == ended \cup {"running"}
           known == begun \cup {"pending"}
<1>1. /\ SuccessStatuses \cap FailedStatuses = {} /\ ended \cap {"running"} = {}
      /\ begun \cap {"pending"} = {} /\ known \cap {} = {}
  BY DEF SuccessStatuses, FailedStatuses
<1> HIDE DEF ended, begun, known
<1>2. /\ RunsIn(SuccessStatuses) + RunsIn(FailedStatuses) = RunsIn(ended)
      /\ RunsIn(SuccessStatuses) \in Nat /\ RunsIn(FailedStatuses) \in Nat
  BY <1>1, StatusesAreApart DEF ended
<1>3. RunsIn(ended) + RunsIn({"running"}) = RunsIn(begun) /\ RunsIn({"running"}) \in Nat
      /\ RunsIn(ended) \in Nat
  BY <1>1, StatusesAreApart DEF begun
<1>4. RunsIn(begun) + RunsIn({"pending"}) = RunsIn(known) /\ RunsIn({"pending"}) \in Nat
      /\ RunsIn(begun) \in Nat
  BY <1>1, StatusesAreApart DEF known
<1>5. RunsIn(known) <= Cardinality(DOMAIN runs) /\ RunsIn(known) \in Nat
      /\ Cardinality(DOMAIN runs) \in Nat
  BY <1>1, StatusesAreApart, RunsAreFinite
<1>6. Cardinality(DOMAIN runs) >= RunsIn(SuccessStatuses) + RunsIn(FailedStatuses)
                                  + RunsIn({"running"}) + RunsIn({"pending"})
  BY <1>2, <1>3, <1>4, <1>5
<1>7. QED
  BY <1>6 DEF Statistics

LEMMA StatisticsAnswers ==
  ASSUME RowsInv, ReporterInv, client = "reporter", Query, report = "statistics"
  PROVE  LaterPartsCover'
<1>1. /\ Len(answers) = 0 /\ answers'[1] = Statistics /\ UNCHANGED <<tables, report>>
  <2>1. PICK n : n = Len(answers)
    OBVIOUS
  <2>2. n = 0
    BY <2>1, QueryStep, QueryLengths
  <2>3. QED
    BY <2>1, <2>2, QueryStep, QueryLengths, AnswerOf
<1>2. QED
  BY <1>1, StatisticsAddUp DEF LaterPartsCover

LEMMA PartsNext == RowsInv /\ ReporterInv /\ PartsInv /\ [QueriesNext]_queryVars => PartsInv'
<1> SUFFICES ASSUME RowsInv, ReporterInv, PartsInv, [QueriesNext]_queryVars PROVE PartsInv'
  OBVIOUS
<1>1. CASE UNCHANGED reportVars
  BY <1>1, RowsStep, WritesKeepParts
<1>2. CASE client = "reporter" /\ Query
  <2>1. report' = report
    BY <1>2 DEF Query
  <2>2. report # "overview" => OverviewInv'
    BY <2>1 DEF OverviewInv
  <2>3. report # "dashboard" => DashboardInv'
    BY <2>1 DEF DashboardInv
  <2>4. report # "inspection" => InspectionInv'
    BY <2>1 DEF InspectionInv
  <2>5. report \notin {"overview", "dashboard", "inspection", "statistics"} => LaterPartsCover'
    BY <2>1 DEF LaterPartsCover
  <2>6. report = "statistics" => LaterPartsCover'
    BY <1>2, StatisticsAnswers
  <2>7. /\ report = "overview" => OverviewInv' /\ LaterPartsCover'
        /\ report = "dashboard" => DashboardInv' /\ LaterPartsCover'
        /\ report = "inspection" => InspectionInv' /\ LaterPartsCover'
    BY <1>2, OverviewAnswers, DashboardAnswers, InspectionAnswers
  <2>8. QED
    BY <2>2, <2>3, <2>4, <2>5, <2>6, <2>7 DEF PartsInv
<1>3. QED
  BY <1>1, <1>2 DEF QueriesNext, queryVars

(* A report that is read in parts, while runs are opened, audited and       *)
(* settled, never contradicts itself backwards: what a later part counts    *)
(* covers what an earlier one counted.                                      *)
THEOREM LaterPartsCoverHolds == QueriesSpec => []LaterPartsCover
<1> DEFINE Inv == RowsInv /\ ReporterInv /\ PartsInv
<1>1. QueriesInit => Inv
  BY QueriesStart, ReporterInit, PartsInit
<1>2. Inv /\ [QueriesNext]_queryVars => Inv'
  BY RowsStep, ReporterNext, PartsNext
<1>3. Inv => LaterPartsCover
  BY DEF PartsInv
<1>4. QED
  BY <1>1, <1>2, <1>3, PTL DEF QueriesSpec

-------------------------------------------------------------------------------
(* The health score *)

LEMMA RoundIsInteger ==
  ASSUME NEW n \in Int, NEW d \in Nat \ {0}
  PROVE  Round(n, d) \in Int
<1>1. n \div d \in Int
  OBVIOUS
<1>2. QED
  BY <1>1 DEF Round

(* Rounding does not exceed a bound that is a whole number. *)
LEMMA RoundBounds ==
  ASSUME NEW n \in Nat, NEW d \in Nat \ {0}, NEW k \in Nat, n <= k * d
  PROVE  Round(n, d) \in 0 .. k
<1> DEFINE q == n \div d
           r == n % d
<1>1. q \in Nat /\ r \in Nat /\ r < d /\ n = d * q + r
  OBVIOUS
<1> HIDE DEF q, r
<1>2. q <= k
  <2>1. SUFFICES ASSUME q >= k + 1 PROVE FALSE
    BY <1>1
  <2>2. d * q = d * (k + 1) + d * (q - (k + 1)) /\ d * (k + 1) = k * d + d
    BY <1>1
  <2>3. q - (k + 1) \in Nat /\ d * (q - (k + 1)) \in Nat /\ k * d \in Nat
    BY <1>1, <2>1
  <2>4. QED
    BY <1>1, <2>2, <2>3
<1>3. q = k => r = 0
  <2>1. d * k = k * d /\ k * d \in Nat
    OBVIOUS
  <2>2. QED
    BY <1>1, <2>1
<1>4. Round(n, d) = IF 2 * r < d \/ (2 * r = d /\ q % 2 = 0) THEN q ELSE q + 1
  BY DEF Round, q, r
<1>5. q = k => Round(n, d) = q
  BY <1>1, <1>3, <1>4
<1>6. Round(n, d) = q \/ Round(n, d) = q + 1
  BY <1>4
<1>7. QED
  BY <1>1, <1>2, <1>5, <1>6

Half == 5000

LEMMA WholeIsTwoHalves == Half \in Nat \ {0} /\ Whole = 2 * Half /\ Whole \in Nat \ {0}
BY DEF Half, Whole

LEMMA RateBounds ==
  ASSUME NEW n \in Nat, NEW d \in Nat, n <= d
  PROVE  /\ Rate(n, d) \in 0 .. Whole
         /\ 2 * n <= d => Rate(n, d) \in 0 .. Half
         /\ n = 0 => Rate(n, d) = 0
<1>0. Half \in Nat \ {0} /\ Whole = 2 * Half /\ Whole \in Nat \ {0}
  BY WholeIsTwoHalves
<1>1. CASE d = 0
  BY <1>0, <1>1 DEF Rate
<1>2. CASE d # 0
  <2>1. Rate(n, d) = Round(Whole * n, d) /\ Whole * n \in Nat
    BY <1>0, <1>2 DEF Rate
  <2>2. Rate(n, d) \in 0 .. Whole
    <3>1. Whole * n <= Whole * d
      <4>1. Whole * d = Whole * n + Whole * (d - n) /\ Whole * (d - n) \in Nat
        BY <1>0
      <4>2. QED
        BY <2>1, <4>1
    <3>2. QED
      BY <1>0, <1>2, <2>1, <3>1, RoundBounds
  <2>3. ASSUME 2 * n <= d PROVE Rate(n, d) \in 0 .. Half
    <3>1. Whole * n = Half * (2 * n)
      BY <1>0
    <3>2. Half * d = Half * (2 * n) + Half * (d - 2 * n) /\ Half * (d - 2 * n) \in Nat
      BY <1>0, <2>3
    <3>3. Whole * n <= Half * d
      BY <2>1, <3>1, <3>2
    <3>4. QED
      BY <1>0, <1>2, <2>1, <3>3, RoundBounds
  <2>4. ASSUME n = 0 PROVE Rate(n, d) \in 0 .. 0
    <3>1. Whole * n <= 0 * d
      BY <1>0, <2>4
    <3>2. QED
      BY <1>2, <2>1, <3>1, RoundBounds
  <2>5. QED
    BY <2>2, <2>3, <2>4
<1>3. QED
  BY <1>1, <1>2

LEMMA AverageIsNumber ==
  ASSUME RowsInv
  PROVE  Average(Selected, "confidence") \in {NoValue} \cup Int
<1> DEFINE known == {r \in Selected : runs[r]["confidence"] # NoValue}
           f == [r \in known |-> runs[r]["confidence"]]
<1>1. IsFiniteSet(known) /\ Cardinality(known) \in Nat
  BY RunsAreFinite DEF Selected
<1>2. \A r \in known : f[r] \in Int
  BY DEF RowsInv, Selected
<1>3. Total(known, "confidence") = SumFunctionOnSet(f, known)
  BY DEF Total, SumFunction
<1>4. Average(Selected, "confidence")
        = IF known = {} THEN NoValue ELSE Round(Total(known, "confidence"), Cardinality(known))
  BY DEF Average
<1> HIDE DEF known, f
<1>5. Total(known, "confidence") \in Int
  BY <1>1, <1>2, <1>3, SumIsInteger
<1>6. known # {} => Cardinality(known) # 0
  BY <1>1, FS_EmptySet
<1>7. QED
  BY <1>1, <1>4, <1>5, <1>6, RoundIsInteger

LEMMA CountersAreNatural ==
  ASSUME RowsInv
  PROVE  /\ Total(Selected, "steps_total") \in Nat
         /\ Total(Selected, "steps_failed") \in Nat
         /\ Total(Selected, "retry_count") \in Nat
<1>1. Selected \in SUBSET DOMAIN runs /\ IsFiniteSet(Selected)
  BY SelectedIsFinite
<1> DEFINE f == [r \in Selected |-> runs[r]["retry_count"]]
<1>2. \A r \in Selected : f[r] \in Nat
  BY <1>1 DEF RowsInv
<1>3. Total(Selected, "retry_count") = SumFunctionOnSet(f, Selected)
  BY DEF Total, SumFunction
<1> HIDE DEF f
<1>4. QED
  BY <1>1, <1>2, <1>3, SumIsNatural, TotalsAreCovered

LEMMA QuotientIsNatural ==
  ASSUME NEW a \in Nat, NEW b \in Nat \ {0}
  PROVE  a \div b \in Nat
OBVIOUS

LEMMA AtMostBounds ==
  ASSUME NEW b \in Nat, NEW n \in Nat
  PROVE  AtMost(b, n) \in 0 .. b
BY DEF AtMost

LEMMA BlendBounds ==
  ASSUME NEW s \in 0 .. Whole, NEW a \in 0 .. Whole, NEW c \in Int,
         NEW f \in 0 .. Whole, NEW r \in 0 .. Whole
  PROVE  /\ 35 * s + 15 * a + 20 * c + 15 * (Whole - f) + 15 * (Whole - r) \in Int
         /\ c <= Whole =>
              35 * s + 15 * a + 20 * c + 15 * (Whole - f) + 15 * (Whole - r)
                <= 35 * s + 65 * Whole
<1>1. Whole \in Nat
  BY WholeIsTwoHalves
<1>2. QED
  BY <1>1

(* What is cut stays below every bound it is below. *)
LEMMA CutBounds ==
  ASSUME NEW raw \in Int, NEW top \in Nat
  PROVE  /\ AtLeast(0, AtMost(top, raw)) \in 0 .. top
         /\ \A k \in Nat : raw <= k => AtLeast(0, AtMost(top, raw)) <= k
BY DEF AtMost, AtLeast

(* The score of the parts it blends. *)
LEMMA ScoreBounds ==
  ASSUME NEW m, m.success_rate \in 0 .. Whole, m.approval_rate \in 0 .. Whole,
         m.average_confidence \in {NoValue} \cup Int,
         m.total_steps \in Nat, m.failed_steps \in Nat, m.total_retries \in Nat,
         m.total_runs \in Nat \ {0}
  PROVE  /\ Score(m) \in 0 .. 100
         /\ m.average_confidence = NoValue \/ m.average_confidence <= Whole =>
              /\ m.success_rate = 0 => Score(m) \in 0 .. 65
              /\ m.success_rate \in 0 .. Half => Score(m) \in 0 .. 83
<1> DEFINE confidence == IF m.average_confidence = NoValue THEN 7000
                                                           ELSE m.average_confidence
           failed == IF m.total_steps = 0 THEN 0
                     ELSE AtMost(Whole, (Whole * m.failed_steps) \div m.total_steps)
           retries == AtMost(Whole, (2000 * m.total_retries) \div m.total_runs)
           raw == 35 * m.success_rate + 15 * m.approval_rate + 20 * confidence
                  + 15 * (Whole - failed) + 15 * (Whole - retries)
           blend == AtLeast(0, AtMost(100 * Whole, raw))
<1>0. Half \in Nat \ {0} /\ Whole = 2 * Half /\ Whole \in Nat \ {0}
  BY WholeIsTwoHalves
<1>1. Score(m) = Round(blend, Whole)
  BY DEF Score
<1>2. confidence \in Int
  OBVIOUS
<1>3. failed \in 0 .. Whole
  <2>1. Whole * m.failed_steps \in Nat
    BY <1>0
  <2>2. m.total_steps # 0 => (Whole * m.failed_steps) \div m.total_steps \in Nat
    BY <2>1, QuotientIsNatural
  <2>3. m.total_steps # 0 => AtMost(Whole, (Whole * m.failed_steps) \div m.total_steps)
                               \in 0 .. Whole
    BY <1>0, <2>2, AtMostBounds
  <2>4. QED
    BY <1>0, <2>3
<1>4. retries \in 0 .. Whole
  <2>1. 2000 * m.total_retries \in Nat
    OBVIOUS
  <2>2. (2000 * m.total_retries) \div m.total_runs \in Nat
    BY <2>1, QuotientIsNatural
  <2>3. QED
    BY <1>0, <2>2, AtMostBounds
<1>5. m.average_confidence = NoValue \/ m.average_confidence <= Whole => confidence <= Whole
  BY DEF Whole
<1> HIDE DEF confidence, failed, retries
<1>6. raw \in Int /\ (confidence <= Whole => raw <= 35 * m.success_rate + 65 * Whole)
  BY <1>2, <1>3, <1>4, BlendBounds
<1> HIDE DEF raw
<1>7. blend \in Nat /\ blend <= 100 * Whole
      /\ \A k \in Nat : raw <= k => blend <= k
  <2>1. 100 * Whole \in Nat
    BY <1>0
  <2>2. PICK top \in Nat : top = 100 * Whole
    BY <2>1
  <2>3. /\ AtLeast(0, AtMost(top, raw)) \in 0 .. top
        /\ \A k \in Nat : raw <= k => AtLeast(0, AtMost(top, raw)) <= k
    BY <1>6, CutBounds
  <2>4. QED
    BY <2>2, <2>3
<1> HIDE DEF blend
<1>8. ASSUME NEW k \in Nat, blend <= k * Whole PROVE Score(m) \in 0 .. k
  BY <1>0, <1>1, <1>7, <1>8, RoundBounds
<1>9. Score(m) \in 0 .. 100
  BY <1>7, <1>8
<1>10. ASSUME confidence <= Whole, m.success_rate = 0 PROVE Score(m) \in 0 .. 65
  <2>1. raw <= 65 * Whole /\ 65 * Whole \in Nat
    BY <1>0, <1>6, <1>10
  <2>2. QED
    BY <1>7, <1>8, <2>1
<1>11. ASSUME confidence <= Whole, m.success_rate \in 0 .. Half PROVE Score(m) \in 0 .. 83
  <2>1. raw <= 83 * Whole /\ 83 * Whole \in Nat
    BY <1>0, <1>6, <1>11
  <2>2. QED
    BY <1>7, <1>8, <2>1
<1>12. QED
  BY <1>5, <1>9, <1>10, <1>11

EarnedHealth(m) ==
  m.total_runs > 0 =>
    /\ Score(m) \in 0 .. 100
    /\ m.average_confidence = NoValue \/ m.average_confidence <= Whole =>
         /\ HealthStatus(m) \in {"healthy", "excellent"} => m.successful_runs > 0
         /\ HealthStatus(m) = "excellent" => 2 * m.successful_runs > m.total_runs

LEMMA HealthIsEarned == ASSUME RowsInv PROVE EarnedHealth(Health)
<1> DEFINE count == Cardinality(Selected)
           succ == Cardinality(InStatus(Selected, SuccessStatuses))
           verified == {r \in Selected : runs[r].approved # NoValue}
           approving == {r \in verified : runs[r].approved}
<1>1. /\ Health.total_runs = count /\ Health.successful_runs = succ
      /\ Health.success_rate = Rate(succ, count)
      /\ Health.approval_rate = Rate(Cardinality(approving), Cardinality(verified))
      /\ Health.average_confidence = Average(Selected, "confidence")
      /\ Health.total_steps = Total(Selected, "steps_total")
      /\ Health.failed_steps = Total(Selected, "steps_failed")
      /\ Health.total_retries = Total(Selected, "retry_count")
  BY DEF Health
<1>2. count \in Nat /\ succ \in Nat /\ succ <= count
  <2>1. InStatus(Selected, SuccessStatuses) \in SUBSET Selected
    BY DEF InStatus
  <2>2. QED
    BY <2>1, SelectedIsFinite, FS_Subset
<1>3. Cardinality(approving) \in Nat /\ Cardinality(verified) \in Nat
      /\ Cardinality(approving) <= Cardinality(verified)
  <2>1. /\ verified \in SUBSET DOMAIN runs /\ approving \in SUBSET DOMAIN runs
        /\ approving \in SUBSET verified
    BY SelectedIsFinite
  <2> HIDE DEF verified, approving
  <2>2. QED
    BY <2>1, SelectedIsFinite, FS_Subset
<1> HIDE DEF count, succ, verified, approving
<1>4. /\ Health.success_rate \in 0 .. Whole
      /\ 2 * succ <= count => Health.success_rate \in 0 .. Half
      /\ succ = 0 => Health.success_rate = 0
      /\ Health.approval_rate \in 0 .. Whole
  BY <1>1, <1>2, <1>3, RateBounds
<1> DEFINE m == Health
<1>5. /\ m.average_confidence \in {NoValue} \cup Int
      /\ m.total_steps \in Nat /\ m.failed_steps \in Nat /\ m.total_retries \in Nat
  BY <1>1, AverageIsNumber, CountersAreNatural
<1>6. SUFFICES ASSUME m.total_runs > 0 PROVE EarnedHealth(m)
  BY DEF EarnedHealth
<1>7. m.total_runs \in Nat \ {0}
  BY <1>1, <1>2, <1>6
<1>8. HealthStatus(m) = Band(Score(m))
  BY <1>7 DEF HealthStatus
<1>9. /\ m.success_rate \in 0 .. Whole /\ m.approval_rate \in 0 .. Whole
      /\ 2 * m.successful_runs <= m.total_runs => m.success_rate \in 0 .. Half
      /\ m.successful_runs = 0 => m.success_rate = 0
      /\ m.successful_runs \in Nat
  BY <1>1, <1>2, <1>4
<1> HIDE DEF m
<1>10. /\ Score(m) \in 0 .. 100
       /\ m.average_confidence = NoValue \/ m.average_confidence <= Whole =>
            /\ m.success_rate = 0 => Score(m) \in 0 .. 65
            /\ m.success_rate \in 0 .. Half => Score(m) \in 0 .. 83
  BY <1>5, <1>7, <1>9, ScoreBounds
<1>11. ASSUME m.average_confidence = NoValue \/ m.average_confidence <= Whole
       PROVE  /\ HealthStatus(m) \in {"healthy", "excellent"} => m.successful_runs > 0
              /\ HealthStatus(m) = "excellent" => 2 * m.successful_runs > m.total_runs
  <2>1. m.successful_runs = 0 => HealthStatus(m) \notin {"healthy", "excellent"}
    BY <1>8, <1>9, <1>10, <1>11 DEF Band
  <2>2. 2 * m.successful_runs <= m.total_runs => HealthStatus(m) # "excellent"
    BY <1>8, <1>9, <1>10, <1>11 DEF Band
  <2>3. QED
    BY <1>7, <1>9, <2>1, <2>2
<1>12. QED
  BY <1>10, <1>11 DEF EarnedHealth

LEMMA EarnedNext == RowsInv /\ ReporterInv /\ HealthyIsEarned /\ [QueriesNext]_queryVars
                    => HealthyIsEarned'
<1> SUFFICES ASSUME RowsInv, ReporterInv, HealthyIsEarned, [QueriesNext]_queryVars
             PROVE  HealthyIsEarned'
  OBVIOUS
<1>0. HealthyIsEarned <=>
        (report \in {"overview", "health"} /\ answers # <<>> => EarnedHealth(answers[1]))
  BY DEF HealthyIsEarned, EarnedHealth
<1>1. HealthyIsEarned' <=>
        (report' \in {"overview", "health"} /\ answers' # <<>> => EarnedHealth(answers'[1]))
  BY DEF HealthyIsEarned, EarnedHealth
<1>2. CASE UNCHANGED reportVars
  BY <1>0, <1>1, <1>2 DEF reportVars
<1>3. CASE client = "reporter" /\ Query
  <2>1. PICK n : n = Len(answers)
    OBVIOUS
  <2>2. /\ report' = report /\ n \in Nat
        /\ n >= 1 => answers'[1] = answers[1]
        /\ n = 0 => answers'[1] = Answer(Queries[report][1])
    BY <1>3, <2>1, QueryStep
  <2>3. n >= 1 => answers # <<>>
    BY <2>1
  <2>4. report \in {"overview", "health"} => Queries[report][1] = "health"
    BY QueryLengths
  <2>5. QED
    BY <1>0, <1>1, <2>2, <2>3, <2>4, AnswerOf, HealthIsEarned
<1>4. QED
  BY <1>2, <1>3 DEF QueriesNext, queryVars

(* The health endpoint never calls the system healthy without a run that    *)
(* succeeded, nor excellent unless most did, and its score is a percentage: *)
(* whatever the runs, their confidences, their retries and the filter.      *)
THEOREM HealthyIsEarnedHolds == QueriesSpec => []HealthyIsEarned
<1> DEFINE Inv == RowsInv /\ ReporterInv /\ HealthyIsEarned
<1>1. QueriesInit => HealthyIsEarned
  BY DEF QueriesInit, Walker, Reporter, ReportInit, HealthyIsEarned
<1>2. QueriesInit => Inv
  BY <1>1, QueriesStart, ReporterInit
<1>3. Inv /\ [QueriesNext]_queryVars => Inv'
  BY RowsStep, ReporterNext, EarnedNext
<1>4. Inv => HealthyIsEarned
  OBVIOUS
<1>5. QED
  BY <1>2, <1>3, <1>4, PTL DEF QueriesSpec
===============================================================================
