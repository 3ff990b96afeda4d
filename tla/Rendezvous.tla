----------------------------- MODULE Rendezvous -----------------------------
(***************************************************************************)
(* RendezvousSingle (xla/service/rendezvous.h) for one key: the State of   *)
(* that key, a group of num_threads threads that call it again and again,  *)
(* and the clients that keep, copy and drop the shared_ptrs it returned.   *)
(*                                                                         *)
(* One step is one critical section of state.mutex: a thread gives the     *)
(* mutex up only in AwaitAndLogIfStuck.  Groups of one thread take the     *)
(* fast path, which touches no shared state, and are not modelled.         *)
(***************************************************************************)
EXTENDS Naturals, FiniteSets

CONSTANTS Threads,   \* the group that identifies itself with the key
          MaxCalls   \* bound: calls of each thread

ASSUME GroupAssumption == IsFiniteSet(Threads) /\ Cardinality(Threads) >= 2
ASSUME MaxCallsAssumption == MaxCalls \in Nat

num_threads == Cardinality(Threads)

\* A result is the shared_ptr's object: the number of the execution of fn that
\* made it and the values fn was given.
NoResult == [run |-> 0, of |-> {}]

VARIABLES
    values,   \* state.values: pointers to arguments, <<thread, call>>
    result,   \* state.result, NoResult for nullptr
    runs,     \* how often fn was executed
    pc,       \* out, or waiting for result_ready or result_taken
    calls,    \* calls each thread has begun
    got,      \* the local `result` of each thread, which it returns
    refs,     \* the other shared_ptrs: <<thread, run, which>>
    stuck,    \* threads whose warn_stuck_timeout has passed
    proc      \* "running", "exit" (std::exit(42)) or "check_failed"

vars == <<values, result, runs, pc, calls, got, refs, stuck, proc>>

PC == {"out", "result_ready", "result_taken"}
Results == [run : 0 .. MaxCalls, of : SUBSET (Threads \X (0 .. MaxCalls))]
Pointers == Threads \X (0 .. MaxCalls) \X {"returned", "copy"}

TypeOK ==
    /\ values \in SUBSET (Threads \X (1 .. MaxCalls))
    /\ Cardinality(values) < num_threads
    /\ result \in Results
    /\ runs \in 0 .. MaxCalls
    /\ pc \in [Threads -> PC]
    /\ calls \in [Threads -> 0 .. MaxCalls]
    /\ got \in [Threads -> Results]
    /\ refs \in SUBSET Pointers
    /\ stuck \in SUBSET Threads
    /\ proc \in {"running", "exit", "check_failed"}

Init ==
    /\ values = {} /\ result = NoResult /\ runs = 0
    /\ pc = [t \in Threads |-> "out"]
    /\ calls = [t \in Threads |-> 0]
    /\ got = [t \in Threads |-> NoResult]
    /\ refs = {} /\ stuck = {} /\ proc = "running"

\* state.result.use_count().
UseCount == 1 + Cardinality({p \in refs : p[2] = result.run})

Arrived(t) == values \cup {<<t, calls[t] + 1>>}

\* A thread enters.
Enter(t) ==
    /\ proc = "running"
    /\ pc[t] = "out" /\ calls[t] < MaxCalls
    /\ calls' = [calls EXCEPT ![t] = @ + 1]

\* Not the last to arrive: it leaves a pointer to its argument and waits.
Arrive(t) ==
    /\ Enter(t)
    /\ Cardinality(Arrived(t)) # num_threads
    /\ values' = Arrived(t)
    /\ pc' = [pc EXCEPT ![t] = "result_ready"]
    /\ UNCHANGED <<result, runs, got, refs, stuck, proc>>

\* Fault: the values of the round that is over are not cleared.
ArriveLastKeepsValues(t) ==
    LET new == [run |-> runs + 1, of |-> Arrived(t)] IN
    /\ Enter(t)
    /\ Cardinality(Arrived(t)) = num_threads
    /\ result' = new /\ runs' = runs + 1 /\ values' = Arrived(t)
    /\ got' = [got EXCEPT ![t] = new]
    /\ refs' = refs \cup {<<t, runs + 1, "returned">>}
    /\ pc' = [pc EXCEPT ![t] = "result_taken"]
    /\ UNCHANGED <<stuck, proc>>

\* The last to arrive executes fn, under CHECK(state.result == nullptr).
ArriveLast(t) ==
    LET new == [run |-> runs + 1, of |-> Arrived(t)] IN
    /\ Enter(t)
    /\ Cardinality(Arrived(t)) = num_threads
    /\ proc' = IF result = NoResult THEN proc ELSE "check_failed"
    /\ result' = new
    /\ runs' = runs + 1
    /\ values' = {}
    /\ got' = [got EXCEPT ![t] = new]
    /\ refs' = refs \cup {<<t, runs + 1, "returned">>}
    /\ pc' = [pc EXCEPT ![t] = "result_taken"]
    /\ UNCHANGED stuck

\* Fault: a thread that has its copy does not wait for the others.
ResultTakenAssumed(t) == pc[t] = "result_taken"

\* The condition the thread waits for.
ResultReady(t) == pc[t] = "result_ready" /\ result # NoResult
ResultTaken(t) == pc[t] = "result_taken" /\ result = NoResult

\* The thread retrieves the result.
Retrieve(t) ==
    /\ proc = "running"
    /\ ResultReady(t)
    /\ got' = [got EXCEPT ![t] = result]
    /\ refs' = refs \cup {<<t, result.run, "returned">>}
    /\ stuck' = stuck \ {t}

\* Others have still to retrieve it: it waits until they have.
CopyResult(t) ==
    /\ Retrieve(t)
    /\ UseCount < num_threads
    /\ pc' = [pc EXCEPT ![t] = "result_taken"]
    /\ UNCHANGED <<values, result, runs, calls, proc>>

\* Fault: the use count is compared off by one.
TakeResultLate(t) ==
    /\ Retrieve(t)
    /\ UseCount > num_threads
    /\ result' = NoResult
    /\ pc' = [pc EXCEPT ![t] = "out"]
    /\ UNCHANGED <<values, runs, calls, proc>>

\* The last to retrieve it takes it from the state and returns.
TakeResult(t) ==
    /\ Retrieve(t)
    /\ UseCount >= num_threads
    /\ result' = NoResult
    /\ pc' = [pc EXCEPT ![t] = "out"]
    /\ UNCHANGED <<values, runs, calls, proc>>

\* A thread that has its copy returns once the result was taken.
Return(t) ==
    /\ proc = "running"
    /\ ResultTaken(t)
    /\ pc' = [pc EXCEPT ![t] = "out"]
    /\ stuck' = stuck \ {t}
    /\ UNCHANGED <<values, result, runs, calls, got, refs, proc>>

\* AwaitWithTimeout gives up only when the condition does not hold.
TimedOut(t) == pc[t] # "out" /\ ~ResultReady(t) /\ ~ResultTaken(t)

\* AwaitAndLogIfStuck: the first timeout is logged ...
Warn(t) ==
    /\ proc = "running"
    /\ TimedOut(t) /\ t \notin stuck
    /\ stuck' = stuck \cup {t}
    /\ UNCHANGED <<values, result, runs, pc, calls, got, refs, proc>>

\* Fault: the thread gives up its call instead.
TerminateReturns(t) ==
    /\ proc = "running"
    /\ TimedOut(t) /\ t \in stuck
    /\ pc' = [pc EXCEPT ![t] = "out"]
    /\ stuck' = stuck \ {t}
    /\ UNCHANGED <<values, result, runs, calls, got, refs, proc>>

\* ... and the second ends the process.
Terminate(t) ==
    /\ proc = "running"
    /\ TimedOut(t) /\ t \in stuck
    /\ proc' = "exit"
    /\ UNCHANGED <<values, result, runs, pc, calls, got, refs, stuck>>

\* A pointer that a client of RendezvousSingle owns, and no running call.
Returned(p) ==
    proc = "running" /\ ~(pc[p[1]] = "result_taken" /\ p[2] = got[p[1]].run)

\* Clients copy and drop the pointers that were returned to them.
Duplicate(p) ==
    /\ Returned(p)
    /\ refs' = refs \cup {<<p[1], p[2], "copy">>}
    /\ UNCHANGED <<values, result, runs, pc, calls, got, stuck, proc>>

Drop(p) ==
    /\ Returned(p)
    /\ refs' = refs \ {p}
    /\ UNCHANGED <<values, result, runs, pc, calls, got, stuck, proc>>

Step(t) == Arrive(t) \/ ArriveLast(t) \/ CopyResult(t) \/ TakeResult(t) \/ Return(t)

Next ==
    \/ \E t \in Threads : Step(t) \/ Warn(t) \/ Terminate(t)
    \/ \E p \in refs : Duplicate(p) \/ Drop(p)

Spec == Init /\ [][Next]_vars

\* Every device thread of the group makes its calls, and a mutex wakes a thread
\* whose condition holds.
FairSpec == Spec /\ \A t \in Threads : WF_vars(Step(t))
-----------------------------------------------------------------------------
\* CHECK(state.result == nullptr) holds whenever fn is about to be executed.
CheckHolds == proc # "check_failed"

\* state.values holds pointers to arguments of calls in progress only, so fn
\* never reads the argument of a call that has returned.
PointersLive ==
    \A v \in values : pc[v[1]] = "result_ready" /\ calls[v[1]] = v[2]

\* Nothing of one round is left in the state when fn is executed for the next,
\* though threads begin the next round while others are leaving the last.
RoundsSeparate == CheckHolds /\ PointersLive

\* While the result is in the state, nobody has returned with it and so only
\* the threads that wait for the rest hold it: use_count counts them.
UseCountIsExact ==
    result # NoResult =>
        UseCount = 1 + Cardinality({t \in Threads : pc[t] = "result_taken"})

\* RendezvousSingle keeps its contract also when fast threads begin the next
\* round while slow ones have not left the last.
Contract == INSTANCE RendezvousContract WITH
    inside <- [t \in Threads |-> pc[t] # "out"],
    ret <- [t \in Threads |-> IF pc[t] = "out" THEN got[t] ELSE NoResult]
Implements == Contract!Spec

\* Every call returns, unless a timeout ends the process.
CallsReturn ==
    \A t \in Threads : pc[t] # "out" ~> (pc[t] = "out" \/ proc = "exit")
=============================================================================
