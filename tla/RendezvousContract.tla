------------------------- MODULE RendezvousContract -------------------------
(***************************************************************************)
(* What RendezvousSingle promises a group of threads that meet again and   *)
(* again under one key: "When all threads have arrived at the rendezvous,  *)
(* one thread executes the given function with the values supplied by each *)
(* thread, and all threads receive the result."  A thread leaves its k-th  *)
(* call only when everybody has entered theirs, with the result of the     *)
(* k-th and only execution of the function on everybody's k-th value.      *)
(***************************************************************************)
EXTENDS Naturals

CONSTANTS Threads,   \* the group
          MaxCalls   \* bound: calls of each thread

VARIABLES calls,     \* calls each thread has begun
          inside,    \* whether it is in a call
          ret        \* what its last call returned, unless it is in the next

vars == <<calls, inside, ret>>

\* The argument of t's k-th call is <<t, k>>; a result is the number of the
\* execution that made it and the values it was made of.
NoResult   == [run |-> 0, of |-> {}]
Outcome(k) == [run |-> k, of |-> Threads \X {k}]

Init == /\ calls = [t \in Threads |-> 0]
        /\ inside = [t \in Threads |-> FALSE]
        /\ ret = [t \in Threads |-> NoResult]

Enter(t) == /\ ~inside[t]
            /\ calls[t] < MaxCalls
            /\ calls' = [calls EXCEPT ![t] = @ + 1]
            /\ inside' = [inside EXCEPT ![t] = TRUE]
            /\ ret' = [ret EXCEPT ![t] = NoResult]

Leave(t) == /\ inside[t]
            /\ \A u \in Threads : calls[u] >= calls[t]
            /\ inside' = [inside EXCEPT ![t] = FALSE]
            /\ ret' = [ret EXCEPT ![t] = Outcome(calls[t])]
            /\ UNCHANGED calls

Next == \E t \in Threads : Enter(t) \/ Leave(t)

Spec == Init /\ [][Next]_vars
=============================================================================
