--------------------------- MODULE MCBufferHolds ---------------------------
(***************************************************************************)
(* Small instances of BufferHolds for TLC.                                 *)
(***************************************************************************)
EXTENDS BufferHolds, TLC

CONSTANTS a, b, t1, t2

Use(x)    == [buf |-> x, type |-> Usage]
Donate(x) == [buf |-> x, type |-> Donation]
Share(x)  == [buf |-> x, type |-> External]

Execute(args) == [op |-> "execute", args |-> args]
One(op, arg)  == [op |-> op, args |-> <<arg>>]

\* Every operation on one buffer or the other, executions that use or donate
\* them, and a refused aliasing.  Executions name their buffers in one order,
\* and none asks for a second hold on a buffer it already holds.
OrderedCalls ==
    {Execute(<<Use(a), Donate(b)>>), Execute(<<Donate(a), Use(b)>>),
     Execute(<<Donate(a), Use(a)>>), One("use", Use(b)), One("share", Share(a)),
     One("share", Share(b)), One("donate", Donate(a)), One("release", Use(a)),
     One("release", Use(b))}

\* f(a, a) in one thread and f(donate(a)) in another.
RepeatedUse == {Execute(<<Use(a), Use(a)>>), Execute(<<Donate(a)>>)}
=============================================================================
