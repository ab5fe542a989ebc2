--------------------------- MODULE RateLimit_proofs ---------------------------
(***************************************************************************)
(* Theorems about RateLimit, for every limit and every number of keys and  *)
(* requests.                                                               *)
(***************************************************************************)
EXTENDS RateLimit, FiniteSetTheorems, TLAPS

LEMMA TypeInit == Init => TypeOK
  BY DEF Init, TypeOK

\* The type invariant is inductive.
LEMMA TypeStep == TypeOK /\ [Next]_vars => TypeOK'
<1> SUFFICES ASSUME TypeOK, [Next]_vars PROVE TypeOK'
  OBVIOUS
<1> USE NoneAssumption DEF TypeOK
<1>1. ASSUME NEW r \in Requests, NEW k \in Keys, Incr(r, k) PROVE TypeOK'
  BY <1>1 DEF Incr, Counted, Goto
<1>2. ASSUME NEW r \in Requests, NEW k \in Keys, IncrResent(r, k) PROVE TypeOK'
  BY <1>2 DEF IncrResent, Goto
<1>3. ASSUME NEW r \in Requests, Expire(r) PROVE TypeOK'
  BY <1>3 DEF Expire, Goto
<1>4. ASSUME NEW r \in Requests, Decide(r) PROVE TypeOK'
  BY <1>4 DEF Decide, Goto
<1>5. ASSUME NEW r \in Requests, ExpireLost(r) PROVE TypeOK'
  BY <1>5 DEF ExpireLost, Goto
<1>6. ASSUME NEW k \in Keys, WindowEnds(k) PROVE TypeOK'
  BY <1>6 DEF WindowEnds, guardVars
<1>7. CASE Finished \/ UNCHANGED vars
  BY <1>7 DEF Finished, vars, guardVars
<1> QED
  BY <1>1, <1>2, <1>3, <1>4, <1>5, <1>6, <1>7 DEF Next

\* The counters, keys and guards stay in their domains.
THEOREM TypeCorrect == Spec => []TypeOK
  BY TypeInit, TypeStep, PTL DEF Spec

-----------------------------------------------------------------------------

\* The requests of one window got different answers from INCR, none beyond the
\* counter, and whoever is admitted was within the limit.
Answers(k) ==
    /\ \A r \in window[k] : pc[r] # "idle" /\ seen[r] \in 1 .. count[k]
    /\ \A q, r \in window[k] : seen[q] = seen[r] => q = r
    /\ \A r \in window[k] : pc[r] = "admitted" => seen[r] <= MaxRequests

WindowInv == TypeOK /\ \A k \in Keys : Answers(k)

\* A request that moves on without touching counters keeps the answers.
LEMMA AnswersMove ==
    ASSUME WindowInv, NEW r \in Requests, NEW to,
           to # "idle", to = "admitted" => seen[r] <= MaxRequests,
           pc' = [pc EXCEPT ![r] = to],
           UNCHANGED <<count, seen, window>>
    PROVE  \A k \in Keys : Answers(k)'
  BY DEF WindowInv, TypeOK, Answers

\* INCR answers every request of a window with a number of its own, even if it
\* was executed twice.
LEMMA AnswersCount ==
    ASSUME WindowInv, NEW r \in Requests, NEW k \in Keys, NEW n \in {1, 2}, NEW to,
           pc[r] = "idle", to \in {"expire", "decide"},
           count' = [count EXCEPT ![k] = @ + n],
           seen' = [seen EXCEPT ![r] = count[k] + n],
           window' = [window EXCEPT ![k] = @ \cup {r}],
           pc' = [pc EXCEPT ![r] = to]
    PROVE  \A i \in Keys : Answers(i)'
<1> USE DEF WindowInv, TypeOK, Answers
<1>1. \A i \in Keys : r \notin window[i]
  OBVIOUS
<1>2. /\ seen'[r] = count[k] + n /\ pc'[r] = to
      /\ \A q \in Requests \ {r} : seen'[q] = seen[q] /\ pc'[q] = pc[q]
  OBVIOUS
<1>3. Answers(k)'
  <2>1. count'[k] = count[k] + n /\ window'[k] = window[k] \cup {r} /\ window[k] \subseteq Requests
        /\ count[k] \in Nat
    OBVIOUS
  <2>2. \A q \in window[k] : q # r /\ q \in Requests /\ seen[q] \in 1 .. count[k]
    BY <1>1, <2>1
  <2> QED
    BY <1>1, <1>2, <2>1, <2>2
<1>4. \A i \in Keys \ {k} : Answers(i)'
  <2>1. \A i \in Keys \ {k} : count'[i] = count[i] /\ window'[i] = window[i]
    OBVIOUS
  <2> QED
    BY <1>1, <1>2, <2>1
<1> QED
  BY <1>3, <1>4

\* WindowInv is inductive.
LEMMA WindowStep == WindowInv /\ [Next]_vars => WindowInv'
<1> SUFFICES ASSUME WindowInv, [Next]_vars PROVE WindowInv'
  OBVIOUS
<1>0. TypeOK'
  BY TypeStep DEF WindowInv
<1> SUFFICES \A k \in Keys : Answers(k)'
  BY <1>0 DEF WindowInv
<1>1. ASSUME NEW r \in Requests, NEW k \in Keys, Incr(r, k) PROVE \A i \in Keys : Answers(i)'
  <2>1. CASE pc' = [pc EXCEPT ![r] = "expire"]
    BY <1>1, <2>1, AnswersCount DEF Incr, Counted
  <2>2. CASE pc' = [pc EXCEPT ![r] = "decide"]
    BY <1>1, <2>2, AnswersCount DEF Incr, Counted
  <2> QED
    BY <1>1, <2>1, <2>2 DEF Incr, Goto
<1>2. ASSUME NEW r \in Requests, NEW k \in Keys, IncrResent(r, k)
      PROVE  \A i \in Keys : Answers(i)'
  BY <1>2, AnswersCount DEF IncrResent, Goto
<1>3. ASSUME NEW r \in Requests, Expire(r) PROVE \A i \in Keys : Answers(i)'
  BY <1>3, AnswersMove DEF Expire, Goto
<1>4. ASSUME NEW r \in Requests, Decide(r) PROVE \A i \in Keys : Answers(i)'
  <2>1. seen[r] \in Nat
    BY DEF WindowInv, TypeOK
  <2>2. UNCHANGED <<count, seen, window>>
    BY <1>4 DEF Decide
  <2>3. CASE Exceeded(seen[r])
    BY <1>4, <2>2, <2>3, AnswersMove DEF Decide, Goto
  <2>4. CASE ~Exceeded(seen[r])
    <3>1. seen[r] <= MaxRequests
      BY <2>1, <2>4, MaxAssumption DEF Exceeded
    <3> QED
      BY <1>4, <2>2, <2>4, <3>1, AnswersMove DEF Decide, Goto
  <2> QED
    BY <2>3, <2>4
<1>5. ASSUME NEW r \in Requests, ExpireLost(r) PROVE \A i \in Keys : Answers(i)'
  BY <1>5, AnswersMove DEF ExpireLost, Goto
<1>6. ASSUME NEW k \in Keys, WindowEnds(k) PROVE \A i \in Keys : Answers(i)'
  BY <1>6 DEF WindowEnds, guardVars, WindowInv, TypeOK, Answers
<1>7. CASE Finished \/ UNCHANGED vars
  BY <1>7 DEF Finished, vars, guardVars, WindowInv, Answers
<1> QED
  BY <1>1, <1>2, <1>3, <1>4, <1>5, <1>6, <1>7 DEF Next

\* Different answers up to the limit are at most as many as the limit.
LEMMA AnswersBound == WindowInv => WindowLimit
<1> SUFFICES ASSUME WindowInv, NEW k \in Keys
             PROVE  Cardinality({r \in window[k] : pc[r] = "admitted"}) <= MaxRequests
  BY DEF WindowLimit
<1> DEFINE S == {r \in window[k] : pc[r] = "admitted"}
           f == [r \in S |-> seen[r]]
<1>1. MaxRequests \in Nat
  BY MaxAssumption
<1>2. IsFiniteSet(1 .. MaxRequests) /\ Cardinality(1 .. MaxRequests) = MaxRequests
  BY <1>1, FS_Interval
<1>3. f \in Injection(S, 1 .. MaxRequests)
  <2>1. \A r \in S : seen[r] \in 1 .. MaxRequests
    BY <1>1 DEF WindowInv, TypeOK, Answers
  <2>2. \A q, r \in S : seen[q] = seen[r] => q = r
    BY DEF WindowInv, Answers
  <2> QED
    BY <2>1, <2>2 DEF Injection, IsInjective
<1>4. Cardinality(S) <= Cardinality(1 .. MaxRequests)
  BY <1>2, <1>3, FS_Injection
<1> QED
  BY <1>2, <1>4

\* Whatever the interleaving of round trips and whatever Redis is sent twice, a
\* window admits at most MaxRequests of the requests it counted.
THEOREM LimitHolds == Spec => []WindowLimit
<1>1. Init => WindowInv
  BY TypeInit DEF Init, WindowInv, Answers
<1> QED
  BY <1>1, WindowStep, AnswersBound, PTL DEF Spec

-----------------------------------------------------------------------------

\* ExpiryComing is inductive: the key's creator is the only one that need act.
LEMMA ExpiryStep == TypeOK /\ ExpiryComing /\ [Next]_vars => ExpiryComing'
<1> SUFFICES ASSUME TypeOK, ExpiryComing, [Next]_vars PROVE ExpiryComing'
  OBVIOUS
<1> USE DEF TypeOK, ExpiryComing
<1>1. ASSUME NEW r \in Requests, NEW k \in Keys, Incr(r, k) PROVE ExpiryComing'
  <2>1. count'[k] = count[k] + 1 /\ seen'[r] = count[k] + 1 /\ count[k] \in Nat
    BY <1>1 DEF Incr, Counted
  <2>2. count[k] = 0 => pc'[r] = "expire" /\ key'[r] = k
    BY <1>1, <2>1 DEF Incr, Created, Goto
  <2>3. \A q \in Requests \ {r} : pc'[q] = pc[q] /\ key'[q] = key[q]
    BY <1>1 DEF Incr, Goto
  <2>4. \A i \in Keys \ {k} : count'[i] = count[i]
    BY <1>1 DEF Incr, Counted
  <2>5. UNCHANGED <<ttl, orphaned>> /\ pc[r] = "idle"
    BY <1>1 DEF Incr
  <2> QED
    BY <2>1, <2>2, <2>3, <2>4, <2>5
<1>2. ASSUME NEW r \in Requests, NEW k \in Keys, IncrResent(r, k) PROVE ExpiryComing'
  <2>1. count[k] \in Nat /\ (count[k] = 0 => k \in orphaned') /\ orphaned \subseteq orphaned'
    BY <1>2 DEF IncrResent, Created
  <2>2. \A q \in Requests \ {r} : pc'[q] = pc[q] /\ key'[q] = key[q]
    BY <1>2 DEF IncrResent, Goto
  <2>3. \A i \in Keys \ {k} : count'[i] = count[i]
    BY <1>2 DEF IncrResent
  <2>4. UNCHANGED ttl /\ pc[r] = "idle"
    BY <1>2 DEF IncrResent
  <2> QED
    BY <2>1, <2>2, <2>3, <2>4
<1>3. ASSUME NEW r \in Requests, Expire(r) PROVE ExpiryComing'
  BY <1>3 DEF Expire, Goto
<1>4. ASSUME NEW r \in Requests, Decide(r) PROVE ExpiryComing'
  BY <1>4 DEF Decide, Goto
<1>5. ASSUME NEW r \in Requests, ExpireLost(r) PROVE ExpiryComing'
  BY <1>5 DEF ExpireLost, Goto
<1>6. ASSUME NEW k \in Keys, WindowEnds(k) PROVE ExpiryComing'
  BY <1>6 DEF WindowEnds, guardVars
<1>7. CASE Finished \/ UNCHANGED vars
  BY <1>7 DEF Finished, vars, guardVars
<1> QED
  BY <1>1, <1>2, <1>3, <1>4, <1>5, <1>6, <1>7 DEF Next

\* A counter never stays without a TTL unless an EXPIRE was lost.
THEOREM ExpiryComes == Spec => []ExpiryComing
<1>1. Init => ExpiryComing
  BY DEF Init, ExpiryComing
<1> QED
  BY <1>1, TypeInit, TypeStep, ExpiryStep, PTL DEF Spec

-----------------------------------------------------------------------------

\* What one request may add to a counter: INCR is executed twice at the most.
Cost == IF MayFail THEN 2 ELSE 1

\* A counter is never ahead of the requests of its window by more than that.
Accounted(k) == IsFiniteSet(window[k]) /\ count[k] <= Cost * Cardinality(window[k])

AccountInv == WindowInv /\ \A k \in Keys : Accounted(k)

\* A refused request leaves its window only when the window ends, and it was
\* refused because its answer was above the limit.
Refused(k) == \A r \in window[k] : pc[r] = "rejected" => seen[r] > MaxRequests

RefusalInv == AccountInv /\ \A k \in Keys : Refused(k)

\* One more request in a window, and at most what it may cost on the counter.
LEMMA AccountCount ==
    ASSUME AccountInv, NEW r \in Requests, NEW k \in Keys, NEW n \in 1 .. Cost,
           pc[r] = "idle",
           count' = [count EXCEPT ![k] = @ + n],
           window' = [window EXCEPT ![k] = @ \cup {r}]
    PROVE  \A i \in Keys : Accounted(i)'
<1> USE DEF AccountInv, WindowInv, TypeOK, Accounted
<1>1. r \notin window[k]
  BY DEF Answers
<1>2. IsFiniteSet(window[k] \cup {r})
      /\ Cardinality(window[k] \cup {r}) = Cardinality(window[k]) + 1
  BY <1>1, FS_AddElement
<1>3. Cardinality(window[k]) \in Nat
  BY FS_CardinalityType
<1>4. Accounted(k)'
  <2> DEFINE size == Cardinality(window[k])
  <2>1. count[k] + n <= Cost * (size + 1)
    <3>1. size \in Nat /\ count[k] \in Nat /\ count[k] <= Cost * size
      BY <1>3
    <3> HIDE DEF size
    <3>2. CASE MayFail
      BY <3>1, <3>2 DEF Cost
    <3>3. CASE ~MayFail
      BY <3>1, <3>3 DEF Cost
    <3> QED
      BY <3>2, <3>3
  <2>2. count'[k] = count[k] + n /\ window'[k] = window[k] \cup {r}
    OBVIOUS
  <2> QED
    BY <2>1, <2>2, <1>2
<1>5. \A i \in Keys \ {k} : Accounted(i)'
  <2>1. \A i \in Keys \ {k} : count'[i] = count[i] /\ window'[i] = window[i]
    OBVIOUS
  <2> QED
    BY <2>1
<1> QED
  BY <1>4, <1>5

\* AccountInv is inductive.
LEMMA AccountStep == AccountInv /\ [Next]_vars => AccountInv'
<1> SUFFICES ASSUME AccountInv, [Next]_vars PROVE AccountInv'
  OBVIOUS
<1>0. WindowInv'
  BY WindowStep DEF AccountInv
<1> SUFFICES \A k \in Keys : Accounted(k)'
  BY <1>0 DEF AccountInv
<1>1. ASSUME NEW r \in Requests, NEW k \in Keys, Incr(r, k) PROVE \A i \in Keys : Accounted(i)'
  <2>1. 1 \in 1 .. Cost
    BY DEF Cost
  <2> QED
    BY <1>1, <2>1, AccountCount DEF Incr, Counted
<1>2. ASSUME NEW r \in Requests, NEW k \in Keys, IncrResent(r, k)
      PROVE  \A i \in Keys : Accounted(i)'
  <2>1. 2 \in 1 .. Cost
    BY <1>2 DEF Cost, IncrResent
  <2> QED
    BY <1>2, <2>1, AccountCount DEF IncrResent
<1>3. ASSUME UNCHANGED <<count, window>> PROVE \A i \in Keys : Accounted(i)'
  BY <1>3 DEF AccountInv, Accounted
<1>4. ASSUME NEW k \in Keys, WindowEnds(k) PROVE \A i \in Keys : Accounted(i)'
  <2>1. count'[k] = 0 /\ window'[k] = {}
    BY <1>4 DEF WindowEnds, AccountInv, WindowInv, TypeOK
  <2>2. \A i \in Keys \ {k} : count'[i] = count[i] /\ window'[i] = window[i]
    BY <1>4 DEF WindowEnds, AccountInv, WindowInv, TypeOK
  <2>3. Accounted(k)'
    BY <2>1, FS_EmptySet DEF Accounted, Cost
  <2> QED
    BY <2>2, <2>3 DEF AccountInv, Accounted
<1> QED
  BY <1>1, <1>2, <1>3, <1>4 DEF Next, Expire, Decide, ExpireLost, Finished, vars

\* RefusalInv is inductive.
LEMMA RefusalStep == RefusalInv /\ [Next]_vars => RefusalInv'
<1> SUFFICES ASSUME RefusalInv, [Next]_vars, NEW k \in Keys PROVE Refused(k)'
  BY AccountStep DEF RefusalInv
<1> USE DEF RefusalInv, AccountInv, WindowInv, TypeOK, Refused
<1>1. ASSUME NEW r \in Requests, NEW i \in Keys, Incr(r, i) \/ IncrResent(r, i)
      PROVE  Refused(k)'
  <2>1. /\ pc[r] = "idle" /\ pc'[r] # "rejected"
        /\ window'[k] \subseteq window[k] \cup {r}
        /\ \A q \in Requests \ {r} : pc'[q] = pc[q] /\ seen'[q] = seen[q]
    BY <1>1 DEF Incr, IncrResent, Counted, Goto
  <2> QED
    BY <2>1
<1>2. ASSUME NEW r \in Requests, Decide(r) PROVE Refused(k)'
  <2>1. /\ UNCHANGED <<window, seen>> /\ window[k] \subseteq Requests
        /\ pc'[r] = "rejected" => seen[r] > MaxRequests
        /\ \A q \in Requests \ {r} : pc'[q] = pc[q]
    BY <1>2 DEF Decide, Goto, Exceeded
  <2> QED
    BY <2>1
<1>3. ASSUME NEW r \in Requests, Expire(r) \/ ExpireLost(r) PROVE Refused(k)'
  <2>1. /\ UNCHANGED <<window, seen>> /\ window[k] \subseteq Requests
        /\ pc'[r] # "rejected" /\ \A q \in Requests \ {r} : pc'[q] = pc[q]
    BY <1>3 DEF Expire, ExpireLost, Goto
  <2> QED
    BY <2>1
<1>4. ASSUME NEW i \in Keys, WindowEnds(i) PROVE Refused(k)'
  BY <1>4 DEF WindowEnds, guardVars
<1>5. CASE Finished \/ UNCHANGED vars
  BY <1>5 DEF Finished, vars, guardVars
<1> QED
  BY <1>1, <1>2, <1>3, <1>4, <1>5 DEF Next

\* A client is refused only in a window that counted more requests than the
\* limit, or more than half of it where an INCR may be sent twice: interleaved
\* round trips take nothing from anybody's share (redis-rate-limit.guard.ts:49,
\* 55).
RefusalsJustified ==
    \A k \in Keys : \A r \in window[k] : pc[r] = "rejected" =>
        IsFiniteSet(window[k]) /\ Cost * Cardinality(window[k]) > MaxRequests

\* Refusals are justified, whatever the interleaving.
THEOREM RefusalsAreJustified == Spec => []RefusalsJustified
<1>1. Init => RefusalInv
  <2> SUFFICES ASSUME Init, NEW k \in Keys PROVE Answers(k) /\ Accounted(k) /\ Refused(k)
    BY TypeInit DEF RefusalInv, AccountInv, WindowInv
  <2>1. window[k] = {} /\ count[k] = 0
    BY DEF Init
  <2> QED
    BY <2>1, FS_EmptySet DEF Answers, Accounted, Refused, Cost
<1>2. RefusalInv => RefusalsJustified
  <2> SUFFICES ASSUME RefusalInv, NEW k \in Keys, NEW r \in window[k], pc[r] = "rejected"
               PROVE  IsFiniteSet(window[k]) /\ Cost * Cardinality(window[k]) > MaxRequests
    BY DEF RefusalsJustified
  <2> DEFINE size == Cardinality(window[k])
  <2>1. IsFiniteSet(window[k]) /\ count[k] <= Cost * size /\ size \in Nat
    BY FS_CardinalityType DEF RefusalInv, AccountInv, Accounted
  <2>2. seen[r] \in 1 .. count[k] /\ count[k] \in Nat /\ seen[r] > MaxRequests
    BY DEF RefusalInv, AccountInv, WindowInv, TypeOK, Answers, Refused
  <2> HIDE DEF size
  <2>3. Cost * size \in Nat
    BY <2>1 DEF Cost
  <2>4. Cost * size > MaxRequests
    BY <2>1, <2>2, <2>3, MaxAssumption
  <2> QED
    BY <2>1, <2>4 DEF size
<1> QED
  BY <1>1, <1>2, RefusalStep, PTL DEF Spec
=============================================================================
