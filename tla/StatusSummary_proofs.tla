------------------------- MODULE StatusSummary_proofs -------------------------
(***************************************************************************)
(* The summary of the processing status: types, and the bounds every count *)
(* keeps, for any finite tables.                                           *)
(***************************************************************************)
EXTENDS StatusSummary, FiniteSetTheorems, TLAPS

\* The rows an answer was computed from: all that had the status throughout, some
\* that had it for a while, and no others.
Answered(q) ==
    \E S \in SUBSET RowsOf(q.table) :
        /\ counts[q] = Cardinality(S)
        /\ {x \in RowsOf(q.table) : seen[x] = {q.status}} \subseteq S
        /\ S \subseteq {x \in RowsOf(q.table) : q.status \in seen[x]}

\* What a row was when the summary began and became since is seen.
Watched == running => \A x \in Rows : status[x] \in seen[x]

SummaryInv == TypeOK /\ Watched /\ \A q \in answered : Answered(q)

\* The sets of rows a query chooses from and chooses are finite.
LEMMA RowsFinite ==
    ASSUME NEW q \in Queries
    PROVE  /\ RowsOf(q.table) \subseteq Rows
           /\ \A S \in SUBSET RowsOf(q.table) :
                 /\ IsFiniteSet(S) /\ Cardinality(S) \in Nat
                 /\ Cardinality(S) <= Cardinality(RowsOf(q.table))
<1>1. RowsOf(q.table) \in {Jobs, Alerts, Incidents}
  BY DEF Queries, RowsOf
<1>2. IsFiniteSet(RowsOf(q.table)) /\ RowsOf(q.table) \subseteq Rows
  BY <1>1, RowsAssumption DEF Rows
<1>3. ASSUME NEW S \in SUBSET RowsOf(q.table)
      PROVE  /\ IsFiniteSet(S) /\ Cardinality(S) \in Nat
             /\ Cardinality(S) <= Cardinality(RowsOf(q.table))
  BY <1>2, <1>3, FS_Subset, FS_CardinalityType
<1> QED  BY <1>2, <1>3

\* A row that moves is seen with its new status.
LEMMA MoveSeen ==
    ASSUME SummaryInv, NEW x \in Rows, Move(x)
    PROVE  SummaryInv'
<1>  USE DEF SummaryInv
<1>1. PICK move \in MovesOf(x) :
          /\ status' = [status EXCEPT ![x] = move[2]]
          /\ seen' = IF running THEN [seen EXCEPT ![x] = @ \cup {move[2]}] ELSE seen
  BY DEF Move
<1>2. move[2] \in Status
  BY DEF MovesOf, Status, JobStatus
<1>3. UNCHANGED <<running, answered, counts>>  BY DEF Move
<1>4. TypeOK'
  <2>1. status' \in [Rows -> Status]  BY <1>1, <1>2 DEF TypeOK
  <2>2. seen' \in [Rows -> SUBSET Status]  BY <1>1, <1>2 DEF TypeOK
  <2>  QED  BY <2>1, <2>2, <1>3 DEF TypeOK
<1>5. Watched'
  BY <1>1, <1>3 DEF Watched, TypeOK
<1>6. \A y \in Rows : seen[y] \subseteq seen'[y]
  BY <1>1 DEF TypeOK
<1>7. ASSUME NEW q \in answered' PROVE Answered(q)'
  <2>0. q \in Queries /\ RowsOf(q.table) \subseteq Rows
    BY <1>3, <1>7, RowsFinite DEF TypeOK
  <2>1. PICK S \in SUBSET RowsOf(q.table) :
            /\ counts[q] = Cardinality(S)
            /\ {y \in RowsOf(q.table) : seen[y] = {q.status}} \subseteq S
            /\ S \subseteq {y \in RowsOf(q.table) : q.status \in seen[y]}
    BY <1>3, <1>7 DEF Answered
  <2>2. S \subseteq {y \in RowsOf(q.table) : q.status \in seen'[y]}  BY <2>0, <2>1, <1>6
  <2>3. {y \in RowsOf(q.table) : seen'[y] = {q.status}} \subseteq S
    <3>1. SUFFICES ASSUME NEW y \in RowsOf(q.table), seen'[y] = {q.status} PROVE y \in S
      OBVIOUS
    <3>2. seen[y] \subseteq {q.status}  BY <2>0, <3>1, <1>6
    <3>3. CASE seen[y] = {q.status}  BY <3>3, <2>1
    <3>4. CASE seen[y] = {}
      <4>1. ~running
        BY <2>0, <3>4 DEF Watched
      <4>2. seen' = seen  BY <4>1, <1>1
      <4>  QED  BY <4>2, <3>1, <3>4
    <3>  QED  BY <3>2, <3>3, <3>4
  <2>  QED  BY <2>1, <2>2, <2>3, <1>3 DEF Answered
<1>  QED  BY <1>4, <1>5, <1>7

\* A query that answers counts the rows that match now.
LEMMA CountMatches ==
    ASSUME SummaryInv, NEW q \in Queries, Count(q)
    PROVE  SummaryInv'
<1>  USE DEF SummaryInv
<1>1. /\ running /\ answered' = answered \cup {q}
      /\ counts' = [counts EXCEPT ![q] = Cardinality(Matching(q))]
      /\ running' = (answered' # Queries)
      /\ UNCHANGED <<status, seen>>
  BY DEF Count
<1>2. Matching(q) \in SUBSET RowsOf(q.table)  BY DEF Matching
<1>a. Cardinality(Matching(q)) \in Nat /\ Cardinality(Matching(q)) <= Cardinality(RowsOf(q.table))
  BY <1>2, RowsFinite
<1>3. TypeOK'
  BY <1>1, <1>a DEF TypeOK
<1>4. Watched'  BY <1>1 DEF Watched
<1>5. ASSUME NEW r \in answered' PROVE Answered(r)'
  <2>1. CASE r = q
    <3>0. RowsOf(q.table) \subseteq Rows  BY RowsFinite
    <3>1. {x \in RowsOf(q.table) : seen[x] = {q.status}} \subseteq Matching(q)
      BY <1>1, <3>0 DEF Matching, Watched
    <3>2. Matching(q) \subseteq {x \in RowsOf(q.table) : q.status \in seen[x]}
      BY <1>1, <3>0 DEF Matching, Watched
    <3>3. counts'[q] = Cardinality(Matching(q))  BY <1>1 DEF TypeOK
    <3>  QED  BY <2>1, <3>1, <3>2, <3>3, <1>1, <1>2 DEF Answered
  <2>2. CASE r # q
    <3>1. r \in answered  BY <2>2, <1>1, <1>5
    <3>2. counts'[r] = counts[r]  BY <2>2, <3>1, <1>1 DEF TypeOK
    <3>  QED  BY <3>1, <3>2, <1>1 DEF Answered
  <2>  QED  BY <2>1, <2>2
<1>  QED  BY <1>3, <1>4, <1>5

LEMMA SummaryInductive == Spec => []SummaryInv
<1>  USE DEF SummaryInv
<1>1. Init => SummaryInv
  <2>  SUFFICES ASSUME Init PROVE SummaryInv
    OBVIOUS
  <2>1. \A q \in Queries : 0 <= Cardinality(RowsOf(q.table))
    BY RowsFinite
  <2>2. TypeOK  BY <2>1 DEF Init, TypeOK, Status
  <2>  QED  BY <2>2 DEF Init, Watched
<1>2. SummaryInv /\ [Next]_vars => SummaryInv'
  <2>  SUFFICES ASSUME SummaryInv, [Next]_vars PROVE SummaryInv'
    OBVIOUS
  <2>1. CASE \E x \in Rows : Move(x)  BY <2>1, MoveSeen
  <2>2. CASE \E q \in Queries : Count(q)  BY <2>2, CountMatches
  <2>3. CASE BeginSummary
    <3>1. \A q \in Queries : 0 <= Cardinality(RowsOf(q.table))
      BY RowsFinite
    <3>2. [table |-> "jobs", status |-> "queued"] \in Queries
      BY DEF Queries, JobStatus
    <3>3. TypeOK'  BY <2>3, <3>1, <3>2 DEF BeginSummary, TypeOK
    <3>  QED  BY <2>3, <3>3 DEF BeginSummary, Watched, TypeOK
  <2>4. CASE CountFails  BY <2>4 DEF CountFails, TypeOK, Watched
  <2>5. CASE UNCHANGED vars  BY <2>5 DEF vars, TypeOK, Watched, Answered
  <2>  QED  BY <2>1, <2>2, <2>3, <2>4, <2>5 DEF Next
<1>  QED  BY <1>1, <1>2, PTL DEF Spec

\* The answers of a summary are numbers of rows, and it is over when it has them
\* all (processing-status.service.ts:26-42).
THEOREM TypeCorrect == Spec => []TypeOK
<1>1. SummaryInv => TypeOK  BY DEF SummaryInv
<1>  QED  BY <1>1, SummaryInductive, PTL

\* For any tables and any interleaving, a count is between the rows that had its
\* status all along and the rows that had it at all
\* (processing-status.service.ts:27-40).
THEOREM CountsBounded == Spec => []CountsWithin
<1>1. SummaryInv => CountsWithin
  <2>  SUFFICES ASSUME SummaryInv, NEW q \in answered
                PROVE  /\ Cardinality({x \in RowsOf(q.table) : seen[x] = {q.status}}) <= counts[q]
                       /\ counts[q] <= Cardinality({x \in RowsOf(q.table) : q.status \in seen[x]})
    BY DEF CountsWithin
  <2>  DEFINE Always == {x \in RowsOf(q.table) : seen[x] = {q.status}}
              Ever == {x \in RowsOf(q.table) : q.status \in seen[x]}
  <2>1. PICK S \in SUBSET RowsOf(q.table) :
            counts[q] = Cardinality(S) /\ Always \subseteq S /\ S \subseteq Ever
    BY DEF SummaryInv, Answered
  <2>2. IsFiniteSet(S) /\ IsFiniteSet(Ever)  BY RowsFinite DEF SummaryInv, TypeOK
  <2>  HIDE DEF Always, Ever
  <2>3. Cardinality(Always) <= Cardinality(S)  BY <2>1, <2>2, FS_Subset
  <2>4. Cardinality(S) <= Cardinality(Ever)  BY <2>1, <2>2, FS_Subset
  <2>  QED  BY <2>1, <2>3, <2>4 DEF Always, Ever
<1>  QED  BY <1>1, SummaryInductive, PTL
=============================================================================
