-------------------------- MODULE RendezvousProofs --------------------------
(***************************************************************************)
(* Proofs about Rendezvous, for any finite group of at least two threads   *)
(* and any number of calls.                                                *)
(*                                                                         *)
(* The invariant says in which round everybody is.  While the result is    *)
(* not in the state, a thread waits for the next result iff its argument   *)
(* is in state.values, and all others have begun exactly as many calls as  *)
(* fn was executed.  While it is, nobody is outside: a thread either waits *)
(* for the result or holds it, and the pointers to it are exactly those of *)
(* the threads that hold it.  That is why counting uses tells the last     *)
(* thread to retrieve the result from the others.                          *)
(***************************************************************************)
EXTENDS Rendezvous, FiniteSetTheorems, TLAPS

Holders == {t \in Threads : pc[t] = "result_taken"}

Outcome(k) == [run |-> k, of |-> Threads \X {k}]

\* The types, but for state.values, which the round determines.
TypeInv ==
    /\ runs \in 0 .. MaxCalls
    /\ pc \in [Threads -> PC]
    /\ calls \in [Threads -> 0 .. MaxCalls]
    /\ got \in [Threads -> Results]
    /\ refs \in SUBSET Pointers
    /\ stuck \in SUBSET Threads
    /\ proc \in {"running", "exit"}

\* Between two results: who waits has its argument in state.values.
Gathering ==
    /\ values = {<<t, runs + 1>> : t \in {u \in Threads : pc[u] = "result_ready"}}
    /\ \A t \in Threads :
          calls[t] = IF pc[t] = "result_ready" THEN runs + 1 ELSE runs
    /\ \E t \in Threads : pc[t] # "result_ready"

\* While the result is in the state: who has it waits for the others.
Handing ==
    /\ values = {}
    /\ result = Outcome(runs)
    /\ runs # 0
    /\ \A t \in Threads : pc[t] # "out" /\ calls[t] = runs
    /\ \E t \in Threads : pc[t] = "result_ready"
    /\ {p \in refs : p[2] = runs} = {<<t, runs, "returned">> : t \in Holders}

RoundInv ==
    /\ TypeInv
    /\ result = NoResult => Gathering
    /\ result # NoResult => Handing
    /\ \A p \in refs : p[2] <= runs
    /\ \A t \in Threads :
          pc[t] = "result_taken" => runs # 0 /\ got[t] = Outcome(runs)
    /\ \A t \in Threads : pc[t] = "out" =>
          got[t] = IF calls[t] = 0 THEN NoResult ELSE Outcome(calls[t])
-----------------------------------------------------------------------------
\* Everything below is about one group.
USE GroupAssumption, MaxCallsAssumption

LEMMA NumThreads == num_threads \in Nat /\ num_threads >= 2
BY FS_CardinalityType DEF num_threads

\* A group has somebody else in it.
LEMMA SomebodyElse == ASSUME NEW t \in Threads
                      PROVE  \E u \in Threads : u # t
<1>1. SUFFICES ASSUME \A u \in Threads : u = t PROVE FALSE
  OBVIOUS
<1>2. Threads = {t}
  BY <1>1
<1>3. Cardinality(Threads) = 1
  BY <1>2, FS_Singleton
<1> QED BY <1>3

\* Pairs with a fixed number are as many as the threads.
LEMMA PairsCount ==
    ASSUME NEW S \in SUBSET Threads, NEW k
    PROVE  /\ IsFiniteSet({<<t, k>> : t \in S})
           /\ Cardinality({<<t, k>> : t \in S}) = Cardinality(S)
<1> DEFINE P == {<<t, k>> : t \in S}
           f == [t \in S |-> <<t, k>>]
<1>1. IsFiniteSet(S)
  BY FS_Subset
<1>2. f \in [S -> P]
  OBVIOUS
<1>3. \A x, y \in S : f[x] = f[y] => x = y
  OBVIOUS
<1>4. \A p \in P : \E x \in S : f[x] = p
  OBVIOUS
<1>5. IsFiniteSet(P) /\ Cardinality(P) = Cardinality(S)
  <2> HIDE DEF P, f
  <2>1. f \in Bijection(S, P)
    BY <1>2, <1>3, <1>4 DEF Bijection, Injection, Surjection, IsInjective
  <2> QED BY <1>1, <2>1, FS_Bijection DEF ExistsBijection
<1> QED BY <1>5

\* So are the pointers to one result that running calls hold.
LEMMA PointersCount ==
    ASSUME NEW S \in SUBSET Threads, NEW k
    PROVE  /\ IsFiniteSet({<<t, k, "returned">> : t \in S})
           /\ Cardinality({<<t, k, "returned">> : t \in S}) = Cardinality(S)
<1> DEFINE P == {<<t, k, "returned">> : t \in S}
           f == [t \in S |-> <<t, k, "returned">>]
<1>1. IsFiniteSet(S)
  BY FS_Subset
<1>2. f \in [S -> P]
  OBVIOUS
<1>3. \A x, y \in S : f[x] = f[y] => x = y
  OBVIOUS
<1>4. \A p \in P : \E x \in S : f[x] = p
  OBVIOUS
<1>5. IsFiniteSet(P) /\ Cardinality(P) = Cardinality(S)
  <2> HIDE DEF P, f
  <2>1. f \in Bijection(S, P)
    BY <1>2, <1>3, <1>4 DEF Bijection, Injection, Surjection, IsInjective
  <2> QED BY <1>1, <2>1, FS_Bijection DEF ExistsBijection
<1> QED BY <1>5

\* The number of members of a subset of the group decides whether it is all.
LEMMA WholeGroup == ASSUME NEW S \in SUBSET Threads
                    PROVE  /\ Cardinality(S) \in Nat
                           /\ Cardinality(S) <= num_threads
                           /\ (Cardinality(S) = num_threads) <=> (S = Threads)
BY FS_Subset, FS_CardinalityType DEF num_threads

\* A set without t has all the others iff it has one member less.
LEMMA AllTheOthers ==
    ASSUME NEW S \in SUBSET Threads, NEW t \in Threads, t \notin S
    PROVE  /\ Cardinality(S) \in Nat
           /\ Cardinality(S) + 1 <= num_threads
           /\ (Cardinality(S) + 1 = num_threads) <=> (S = Threads \ {t})
<1>1. S \cup {t} \in SUBSET Threads
  OBVIOUS
<1>2. IsFiniteSet(S) /\ Cardinality(S) \in Nat
  BY FS_Subset, FS_CardinalityType
<1>3. Cardinality(S \cup {t}) = Cardinality(S) + 1
  BY <1>2, FS_AddElement
<1>4. S \cup {t} = Threads <=> S = Threads \ {t}
  OBVIOUS
<1> QED BY <1>1, <1>2, <1>3, <1>4, WholeGroup

\* With result # NoResult, UseCount counts the threads that wait for the rest.
LEMMA CountHolders ==
    ASSUME RoundInv, result # NoResult
    PROVE  /\ UseCount = 1 + Cardinality(Holders)
           /\ Holders \in SUBSET Threads
<1>1. result.run = runs
  BY DEF RoundInv, Handing, Outcome
<1>2. {p \in refs : p[2] = result.run} = {<<t, runs, "returned">> : t \in Holders}
  BY <1>1 DEF RoundInv, Handing
<1>3. Holders \in SUBSET Threads
  BY DEF Holders
<1>4. Cardinality({<<t, runs, "returned">> : t \in Holders}) = Cardinality(Holders)
  BY <1>3, PointersCount
<1> QED BY <1>2, <1>3, <1>4 DEF UseCount
-----------------------------------------------------------------------------
LEMMA InitRound == Init => RoundInv
<1> SUFFICES ASSUME Init PROVE RoundInv
  OBVIOUS
<1>1. TypeInv
  BY DEF Init, TypeInv, PC, Results, NoResult
<1>2. \E t \in Threads : TRUE
  BY FS_EmptySet
<1>3. Gathering
  BY <1>2 DEF Init, Gathering
<1> QED BY <1>1, <1>3 DEF Init, RoundInv

LEMMA ArriveRound == ASSUME RoundInv, NEW t \in Threads, Arrive(t)
                     PROVE  RoundInv'
<1> USE DEF Arrive, Enter
<1>1. result = NoResult
  BY DEF RoundInv, Handing
<1>2. Gathering /\ TypeInv
  BY <1>1 DEF RoundInv
<1>3. calls[t] = runs
  BY <1>2 DEF Gathering
<1>4. TypeInv'
  BY <1>2 DEF TypeInv, PC
<1> DEFINE Waiting == {u \in Threads : pc[u] = "result_ready"}
<1>5. {u \in Threads : pc'[u] = "result_ready"} = Waiting \cup {t}
  BY <1>2 DEF TypeInv
<1>6. values' = {<<u, runs + 1>> : u \in Waiting \cup {t}}
  BY <1>2, <1>3 DEF Gathering, Arrived
<1>7. \E u \in Threads : pc'[u] # "result_ready"
  <2>1. SUFFICES ASSUME Waiting \cup {t} = Threads PROVE FALSE
    BY <1>5
  <2>2. Cardinality(values') = num_threads
    BY <1>6, <2>1, PairsCount DEF num_threads
  <2> QED BY <2>2
<1>8. \A u \in Threads :
         calls'[u] = IF pc'[u] = "result_ready" THEN runs + 1 ELSE runs
  BY <1>2, <1>3 DEF Gathering, TypeInv
<1>9. Gathering'
  BY <1>5, <1>6, <1>7, <1>8 DEF Gathering
<1> QED BY <1>1, <1>2, <1>4, <1>9 DEF RoundInv, TypeInv

LEMMA ArriveLastRound == ASSUME RoundInv, NEW t \in Threads, ArriveLast(t)
                         PROVE  RoundInv'
<1> USE DEF ArriveLast, Enter
<1>1. result = NoResult
  BY DEF RoundInv, Handing
<1>2. Gathering /\ TypeInv
  BY <1>1 DEF RoundInv
<1>3. calls[t] = runs
  BY <1>2 DEF Gathering
<1> DEFINE Waiting == {u \in Threads : pc[u] = "result_ready"}
<1>4. Arrived(t) = {<<u, runs + 1>> : u \in Waiting \cup {t}}
  BY <1>2, <1>3 DEF Gathering, Arrived
<1>5. Waiting \cup {t} = Threads
  <2>1. Waiting \cup {t} \in SUBSET Threads
    OBVIOUS
  <2> HIDE DEF Waiting
  <2>2. Cardinality({<<u, runs + 1>> : u \in Waiting \cup {t}})
           = Cardinality(Waiting \cup {t})
    BY <2>1, PairsCount
  <2>3. Cardinality(Waiting \cup {t}) = num_threads
    BY <1>4, <2>2
  <2> QED BY <2>1, <2>3, WholeGroup
<1>6. Arrived(t) = Threads \X {runs + 1}
  BY <1>4, <1>5
<1>7. runs' \in 0 .. MaxCalls /\ runs' = runs + 1 /\ runs \in Nat
  BY <1>2, <1>3 DEF TypeInv
<1>8. result' = Outcome(runs')
  BY <1>6, <1>7 DEF Outcome
<1>9. result' \in Results /\ result' # NoResult
  BY <1>7, <1>8 DEF Outcome, Results, NoResult
<1>10. TypeInv'
  <2>1. refs' \in SUBSET Pointers
    BY <1>2, <1>7 DEF TypeInv, Pointers
  <2>2. got' \in [Threads -> Results]
    BY <1>2, <1>9 DEF TypeInv
  <2> QED BY <1>1, <1>2, <1>7, <2>1, <2>2 DEF TypeInv, PC
<1>11. \A u \in Threads : u # t => pc[u] = "result_ready" /\ pc'[u] = pc[u]
  BY <1>2, <1>5 DEF TypeInv
<1>12. pc'[t] = "result_taken" /\ got'[t] = Outcome(runs')
  BY <1>2, <1>8 DEF TypeInv
<1>13. Holders' = {t}
  BY <1>11, <1>12 DEF Holders
<1>14. \A u \in Threads : pc'[u] # "out" /\ calls'[u] = runs'
  BY <1>2, <1>3, <1>7, <1>11, <1>12 DEF Gathering, TypeInv
<1>15. {p \in refs' : p[2] = runs'} = {<<u, runs', "returned">> : u \in Holders'}
  <2>1. \A p \in refs : p[2] # runs'
    BY <1>2, <1>7 DEF RoundInv, TypeInv, Pointers
  <2> QED BY <2>1, <1>7, <1>13
<1>16. Handing'
  BY <1>7, <1>8, <1>11, <1>14, <1>15, SomebodyElse DEF Handing
<1>17. \A p \in refs' : p[2] <= runs'
  BY <1>2, <1>7 DEF RoundInv, TypeInv, Pointers
<1> QED BY <1>7, <1>9, <1>10, <1>11, <1>12, <1>14, <1>16, <1>17 DEF RoundInv
\* What retrieving the result changes, whoever is left.
LEMMA RetrieveRound ==
    ASSUME RoundInv, NEW t \in Threads, Retrieve(t)
    PROVE  /\ Handing /\ TypeInv /\ result # NoResult /\ result = Outcome(runs)
           /\ runs \in Nat /\ runs # 0 /\ pc[t] = "result_ready"
           /\ got' = [got EXCEPT ![t] = Outcome(runs)]
           /\ refs' = refs \cup {<<t, runs, "returned">>}
           /\ got' \in [Threads -> Results]
           /\ refs' \in SUBSET Pointers
           /\ stuck' \in SUBSET Threads
           /\ t \notin Holders
<1> USE DEF Retrieve, ResultReady
<1>1. Handing /\ TypeInv
  BY DEF RoundInv
<1>2. result = Outcome(runs) /\ runs \in 0 .. MaxCalls /\ runs # 0
  BY <1>1 DEF Handing, TypeInv
<1>3. result.run = runs /\ result \in Results
  BY <1>2 DEF Outcome, Results
<1>4. <<t, runs, "returned">> \in Pointers
  BY <1>2 DEF Pointers
<1> QED BY <1>1, <1>2, <1>3, <1>4 DEF TypeInv, Holders

LEMMA CopyResultRound == ASSUME RoundInv, NEW t \in Threads, CopyResult(t)
                         PROVE  RoundInv'
<1> USE DEF CopyResult
<1>1. /\ Handing /\ TypeInv /\ result # NoResult /\ result = Outcome(runs)
      /\ runs \in Nat /\ runs # 0 /\ pc[t] = "result_ready"
      /\ got' = [got EXCEPT ![t] = Outcome(runs)]
      /\ refs' = refs \cup {<<t, runs, "returned">>}
      /\ got' \in [Threads -> Results] /\ refs' \in SUBSET Pointers
      /\ stuck' \in SUBSET Threads /\ t \notin Holders
  BY RetrieveRound
<1>2. TypeInv'
  BY <1>1 DEF TypeInv, PC
<1>3. Holders' = Holders \cup {t}
  BY <1>1 DEF Holders, TypeInv
<1>4. \E u \in Threads : pc'[u] = "result_ready"
  <2>1. Holders \in SUBSET Threads /\ UseCount = 1 + Cardinality(Holders)
    BY <1>1, CountHolders
  <2>2. Holders # Threads \ {t}
    BY <1>1, <2>1, AllTheOthers
  <2>3. PICK u \in Threads : u # t /\ pc[u] # "result_taken"
    BY <1>1, <2>1, <2>2 DEF Holders
  <2>4. pc[u] = "result_ready"
    BY <1>1, <2>3 DEF Handing, TypeInv, PC
  <2> QED BY <1>1, <2>3, <2>4 DEF TypeInv
<1>5. {p \in refs' : p[2] = runs'} = {<<u, runs', "returned">> : u \in Holders'}
  <2>1. {p \in refs : p[2] = runs} = {<<u, runs, "returned">> : u \in Holders}
    BY <1>1 DEF Handing
  <2> QED BY <1>1, <1>3, <2>1
<1>6. Handing'
  BY <1>1, <1>4, <1>5 DEF Handing, TypeInv, Outcome
<1>7. \A p \in refs' : p[2] <= runs'
  BY <1>1 DEF RoundInv
<1> QED BY <1>1, <1>2, <1>6, <1>7 DEF RoundInv, TypeInv

LEMMA TakeResultRound == ASSUME RoundInv, NEW t \in Threads, TakeResult(t)
                         PROVE  RoundInv'
<1> USE DEF TakeResult
<1>1. /\ Handing /\ TypeInv /\ result # NoResult /\ result = Outcome(runs)
      /\ runs \in Nat /\ runs # 0 /\ pc[t] = "result_ready"
      /\ got' = [got EXCEPT ![t] = Outcome(runs)]
      /\ refs' = refs \cup {<<t, runs, "returned">>}
      /\ got' \in [Threads -> Results] /\ refs' \in SUBSET Pointers
      /\ stuck' \in SUBSET Threads /\ t \notin Holders
  BY RetrieveRound
<1>2. TypeInv'
  BY <1>1 DEF TypeInv, PC
<1>3. \A u \in Threads : u # t => pc[u] = "result_taken" /\ pc'[u] = pc[u]
  <2>1. Holders \in SUBSET Threads /\ UseCount = 1 + Cardinality(Holders)
    BY <1>1, CountHolders
  <2>2. Holders = Threads \ {t}
    BY <1>1, <2>1, AllTheOthers, NumThreads
  <2> QED BY <1>1, <2>2 DEF Holders, TypeInv
<1>4. pc'[t] = "out" /\ got'[t] = Outcome(runs)
  BY <1>1 DEF TypeInv
<1>5. Gathering'
  BY <1>1, <1>3, <1>4 DEF Gathering, Handing
<1>6. \A p \in refs' : p[2] <= runs'
  BY <1>1 DEF RoundInv
<1>7. calls'[t] = runs /\ runs' = runs
  BY <1>1 DEF Handing
<1> QED BY <1>1, <1>2, <1>3, <1>4, <1>5, <1>6, <1>7 DEF RoundInv, TypeInv

LEMMA ReturnRound == ASSUME RoundInv, NEW t \in Threads, Return(t)
                     PROVE  RoundInv'
<1> USE DEF Return, ResultTaken
<1>1. Gathering /\ TypeInv
  BY DEF RoundInv
<1>2. TypeInv'
  BY <1>1 DEF TypeInv, PC
<1>3. \A u \in Threads : pc'[u] = IF u = t THEN "out" ELSE pc[u]
  BY <1>1 DEF TypeInv
<1>4. Gathering'
  BY <1>1, <1>3 DEF Gathering
<1>5. calls[t] = runs /\ runs # 0 /\ got[t] = Outcome(runs)
  BY <1>1 DEF Gathering, RoundInv
<1> QED BY <1>2, <1>3, <1>4, <1>5 DEF RoundInv
LEMMA TimeoutRound == ASSUME RoundInv, NEW t \in Threads, Warn(t) \/ Terminate(t)
                      PROVE  RoundInv'
<1>1. TypeInv'
  BY DEF RoundInv, TypeInv, Warn, Terminate
<1>2. UNCHANGED <<values, result, runs, pc, calls, got, refs>>
  BY DEF Warn, Terminate
<1> QED BY <1>1, <1>2 DEF RoundInv, Gathering, Handing, Holders

\* Clients cannot touch the pointers that are being counted.
LEMMA ClientRound == ASSUME RoundInv, NEW p \in refs, Duplicate(p) \/ Drop(p)
                     PROVE  RoundInv'
<1>1. UNCHANGED <<values, result, runs, pc, calls, got, stuck, proc>>
  BY DEF Duplicate, Drop
<1>2. p \in Pointers /\ p[1] \in Threads /\ p[2] <= runs /\ TypeInv
  BY DEF RoundInv, TypeInv, Pointers
<1>3. refs' = refs \cup {<<p[1], p[2], "copy">>} \/ refs' = refs \ {p}
  BY DEF Duplicate, Drop
<1>4. TypeInv' /\ \A q \in refs' : q[2] <= runs'
  BY <1>1, <1>2, <1>3 DEF RoundInv, TypeInv, Pointers
<1>5. result # NoResult => p[2] # runs
  <2> SUFFICES ASSUME result # NoResult, p[2] = runs PROVE FALSE
    OBVIOUS
  <2>1. PICK t \in Holders : p = <<t, runs, "returned">>
    BY DEF RoundInv, Handing
  <2>2. pc[t] = "result_taken" /\ got[t] = Outcome(runs) /\ t \in Threads
    BY DEF RoundInv, Holders
  <2>3. got[p[1]].run = runs
    BY <2>1, <2>2 DEF Outcome
  <2> QED BY <2>1, <2>2, <2>3 DEF Duplicate, Drop, Returned
<1>6. result # NoResult => {q \in refs' : q[2] = runs} = {q \in refs : q[2] = runs}
  BY <1>3, <1>5
<1> QED BY <1>1, <1>4, <1>6 DEF RoundInv, Gathering, Handing, Holders

LEMMA NextRound == RoundInv /\ [Next]_vars => RoundInv'
<1> SUFFICES ASSUME RoundInv, [Next]_vars PROVE RoundInv'
  OBVIOUS
<1>1. CASE UNCHANGED vars
  BY <1>1 DEF vars, RoundInv, TypeInv, Gathering, Handing, Holders
<1>2. ASSUME NEW t \in Threads, Step(t) PROVE RoundInv'
  BY <1>2, ArriveRound, ArriveLastRound, CopyResultRound, TakeResultRound,
     ReturnRound DEF Step
<1>3. ASSUME NEW t \in Threads, Warn(t) \/ Terminate(t) PROVE RoundInv'
  BY <1>3, TimeoutRound
<1>4. ASSUME NEW p \in refs, Duplicate(p) \/ Drop(p) PROVE RoundInv'
  BY <1>4, ClientRound
<1> QED BY <1>1, <1>2, <1>3, <1>4 DEF Next

LEMMA RoundInvariant == Spec => []RoundInv
BY InitRound, NextRound, PTL DEF Spec-----------------------------------------------------------------------------
\* Type correctness: in particular the vector of pointers never holds
\* num_threads of them between two critical sections.
THEOREM TypeOKTheorem == Spec => []TypeOK
<1>1. RoundInv => TypeOK
  <2> SUFFICES ASSUME RoundInv PROVE TypeOK
    OBVIOUS
  <2>1. TypeInv
    BY DEF RoundInv
  <2>2. values \in SUBSET (Threads \X (1 .. MaxCalls)) /\ Cardinality(values) < num_threads
    <3>1. CASE result = NoResult
      <4> DEFINE Waiting == {u \in Threads : pc[u] = "result_ready"}
      <4>1. Gathering
        BY <3>1 DEF RoundInv
      <4>2. Waiting \in SUBSET Threads /\ Waiting # Threads
        BY <4>1 DEF Gathering
      <4>3. \A u \in Waiting : runs + 1 \in 1 .. MaxCalls
        BY <2>1, <4>1 DEF Gathering, TypeInv
      <4>4. values = {<<u, runs + 1>> : u \in Waiting}
        BY <4>1 DEF Gathering
      <4> HIDE DEF Waiting
      <4>5. Cardinality({<<u, runs + 1>> : u \in Waiting}) = Cardinality(Waiting)
        BY <4>2, PairsCount
      <4>6. Cardinality(values) < num_threads
        BY <4>2, <4>4, <4>5, WholeGroup, NumThreads
      <4> QED BY <4>2, <4>3, <4>4, <4>6
    <3>2. CASE result # NoResult
      BY <3>2, NumThreads, FS_EmptySet DEF RoundInv, Handing
    <3> QED BY <3>1, <3>2
  <2>3. result \in Results
    BY <2>1 DEF RoundInv, Handing, TypeInv, Outcome, Results, NoResult
  <2> QED BY <2>1, <2>2, <2>3 DEF TypeOK, TypeInv
<1> QED BY <1>1, RoundInvariant, PTL

\* fn is never executed while the last result is still in the state, and never
\* reads the argument of a call that has returned.
THEOREM RoundsAreSeparate == Spec => []RoundsSeparate
<1>1. RoundInv => CheckHolds
  BY DEF RoundInv, TypeInv, CheckHolds
<1>2. RoundInv => PointersLive
  <2> SUFFICES ASSUME RoundInv, NEW v \in values
               PROVE  pc[v[1]] = "result_ready" /\ calls[v[1]] = v[2]
    BY DEF PointersLive
  <2>1. Gathering
    BY DEF RoundInv, Handing
  <2>2. PICK t \in Threads : pc[t] = "result_ready" /\ v = <<t, runs + 1>>
    BY <2>1 DEF Gathering
  <2> QED BY <2>1, <2>2 DEF Gathering
<1> QED BY <1>1, <1>2, RoundInvariant, PTL DEF RoundsSeparate

\* use_count() counts the threads that have retrieved the result and nothing
\* else, whatever clients do with the pointers they were given.
THEOREM UseCountTheorem == Spec => []UseCountIsExact
<1>1. RoundInv => UseCountIsExact
  BY CountHolders DEF UseCountIsExact, Holders
<1> QED BY <1>1, RoundInvariant, PTL

\* RendezvousSingle implements its contract: a step of a thread that returns
\* is a Leave with the outcome of its round, a thread that comes is an Enter.
THEOREM ImplementsTheorem == Spec => Implements
<1> DEFINE inside == [t \in Threads |-> pc[t] # "out"]
           ret == [t \in Threads |-> IF pc[t] = "out" THEN got[t] ELSE NoResult]
<1>1. Init => Contract!Init
  BY DEF Init, Contract!Init, NoResult, Contract!NoResult
<1>2. RoundInv /\ RoundInv' /\ [Next]_vars => [Contract!Next]_(Contract!vars)
  <2> SUFFICES ASSUME RoundInv, RoundInv', [Next]_vars
               PROVE  [Contract!Next]_(Contract!vars)
    OBVIOUS
  <2>0. TypeInv /\ TypeInv'
    BY DEF RoundInv
  <2>1. ASSUME NEW t \in Threads, Arrive(t) \/ ArriveLast(t) PROVE Contract!Enter(t)
    <3>1. pc[t] = "out" /\ calls[t] < MaxCalls
      BY <2>1 DEF Arrive, ArriveLast, Enter
    <3>2. calls' = [calls EXCEPT ![t] = @ + 1]
      BY <2>1 DEF Arrive, ArriveLast, Enter
    <3>3. \A u \in Threads :
             IF u = t THEN pc'[u] # "out" ELSE pc'[u] = pc[u] /\ got'[u] = got[u]
      BY <2>0, <2>1 DEF Arrive, ArriveLast, Enter, TypeInv
    <3>4. inside' = [inside EXCEPT ![t] = TRUE]
      BY <3>3
    <3>5. ret' = [ret EXCEPT ![t] = NoResult]
      BY <3>3
    <3> QED BY <3>1, <3>2, <3>4, <3>5
            DEF Contract!Enter, NoResult, Contract!NoResult
  <2>2. ASSUME NEW t \in Threads, TakeResult(t) \/ Return(t) PROVE Contract!Leave(t)
    <3>1. pc[t] # "out" /\ pc'[t] = "out" /\ calls' = calls
      BY <2>0, <2>2 DEF TakeResult, Retrieve, ResultReady, Return, ResultTaken, TypeInv
    <3>2. calls[t] = runs /\ runs # 0 /\ \A u \in Threads : calls[u] >= runs
      BY <2>0, <2>2 DEF TakeResult, Retrieve, ResultReady, Return, ResultTaken,
         RoundInv, Gathering, Handing, TypeInv
    <3>3. got'[t] = Outcome(calls[t])
      BY <3>1, <3>2 DEF RoundInv
    <3>4. \A u \in Threads : u # t => pc'[u] = pc[u] /\ got'[u] = got[u]
      BY <2>0, <2>2 DEF TakeResult, Retrieve, Return, TypeInv
    <3>5. inside' = [inside EXCEPT ![t] = FALSE]
      BY <3>1, <3>4
    <3>6. ret' = [ret EXCEPT ![t] = Outcome(calls[t])]
      BY <3>1, <3>3, <3>4
    <3> QED BY <3>1, <3>2, <3>5, <3>6
            DEF Contract!Leave, Outcome, Contract!Outcome
  <2>3. ASSUME NEW t \in Threads, CopyResult(t) \/ Warn(t) \/ Terminate(t)
        PROVE  UNCHANGED Contract!vars
    <3>1. \A u \in Threads : /\ pc[u] = "out" <=> pc'[u] = "out"
                             /\ pc[u] = "out" => got'[u] = got[u]
      BY <2>0, <2>3 DEF CopyResult, Retrieve, ResultReady, Warn, Terminate, TypeInv
    <3>2. calls' = calls
      BY <2>3 DEF CopyResult, Warn, Terminate
    <3> QED BY <3>1, <3>2 DEF Contract!vars
  <2>4. ASSUME NEW p \in refs, Duplicate(p) \/ Drop(p) PROVE UNCHANGED Contract!vars
    BY <2>4 DEF Duplicate, Drop, Contract!vars
  <2>5. CASE UNCHANGED vars
    BY <2>5 DEF vars, Contract!vars
  <2> QED BY <2>1, <2>2, <2>3, <2>4, <2>5 DEF Next, Step, Contract!Next
<1> QED BY <1>1, <1>2, RoundInvariant, PTL DEF Spec, Implements, Contract!Spec
=============================================================================
