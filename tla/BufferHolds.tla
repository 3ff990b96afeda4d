---------------------------- MODULE BufferHolds ----------------------------
(***************************************************************************)
(* The hold protocol of PjRtStreamExecutorBuffer                           *)
(* (xla/pjrt/pjrt_stream_executor_client.{h,cc}).                          *)
(*                                                                         *)
(* A PjRtStreamExecutorBuffer owns at most one TrackedDeviceBuffer, its    *)
(* device_buffer_.  Client threads take holds on it: a usage hold while an *)
(* operation is being enqueued, an external reference while another        *)
(* framework shares the memory, a donation hold while an execution that    *)
(* consumes the memory is being enqueued.  Release (and Delete, and the    *)
(* destructor) takes the device_buffer_ away.                              *)
(*                                                                         *)
(* Every critical section of mu_ is one action.  A mu_.Await inside a      *)
(* critical section gives the mutex up, so it ends the action and its      *)
(* condition is the guard of the next one.  An execution takes one hold    *)
(* per argument, in argument order, and gives none back before it has been *)
(* enqueued or has failed: threads therefore wait for each other while     *)
(* they hold, which is where the protocol is hard.                         *)
(***************************************************************************)
EXTENDS Integers, Sequences, FiniteSets

CONSTANTS
    Threads,      \* client threads
    Buffers,      \* PjRtStreamExecutorBuffer objects
    Calls,        \* the calls a thread may make: see Call
    MaxInflight   \* capacity of LocalDeviceState::compute_semaphore_

Usage    == "kUsage"
External == "kExternalReference"
Donation == "kDonation"
HoldType == {Usage, External, Donation}

(***************************************************************************)
(* A call names the operation and its arguments with the hold each one     *)
(* needs.  "execute" is ExecuteHelper; "use" is any operation that takes   *)
(* one usage hold and either converts it into a usage event or drops it    *)
(* (ToLiteral, CopyRawToHost, CopyToDevice, logical_on_device_shape);      *)
(* "share" is AcquireExternalReference until the reference is destroyed;   *)
(* "donate" is DonateWithControlDependency; "release" is Release, Delete   *)
(* or ReleaseDeviceMemoryOwnership.                                        *)
(***************************************************************************)
Argument == [buf : Buffers, type : HoldType]

Call == [op : {"execute", "use", "share", "donate", "release"},
         args : Seq(Argument)]

NoCall == [op |-> "none", args |-> <<>>]

ASSUME CallsAssumption ==
    /\ Calls \subseteq Call
    /\ \A c \in Calls : c.op # "execute" => Len(c.args) = 1

ASSUME ThreadsAssumption == IsFiniteSet(Threads)

ASSUME InflightAssumption == MaxInflight \in Nat \ {0}

VARIABLES
    valid,      \* valid[b]: device_buffer_ of b is not null
    holds,      \* holds[b][type]: holds_ of b
    in_use,     \* in_use[b]: in_use_ of b's TrackedDeviceBuffer
    memory,     \* memory[b]: who owns the device memory of b
    taken,      \* history: how often the device memory of b was taken
    scoped,     \* the ScopedHold objects that are counted in some holds_
    pc, call,   \* what each thread is doing
    next,       \* the next argument EnqueueExecution takes a hold on
    inflight,   \* reservations taken from compute_semaphore_
    callbacks   \* enqueued compute callbacks that have not run yet

vars == <<valid, holds, in_use, memory, taken, scoped, pc, call, next,
          inflight, callbacks>>

Pcs == {"idle", "acquire", "await_usage", "enqueue", "launched", "commit",
        "confirm", "unwind", "release", "drain"}

ScopedHold == [thread : Threads, arg : Nat, buf : Buffers, type : HoldType]

TypeOK ==
    /\ valid \in [Buffers -> BOOLEAN]
    /\ holds \in [Buffers -> [HoldType -> Nat]]
    /\ in_use \in [Buffers -> BOOLEAN]
    /\ memory \in [Buffers -> {"owned", "donated", "released"}]
    /\ taken \in [Buffers -> Nat]
    /\ scoped \subseteq ScopedHold
    /\ pc \in [Threads -> Pcs]
    /\ call \in [Threads -> Calls \cup {NoCall}]
    /\ next \in [Threads -> Nat]
    /\ inflight \in Int
    /\ callbacks \in Nat

Init ==
    /\ valid = [b \in Buffers |-> TRUE]
    /\ holds = [b \in Buffers |-> [ty \in HoldType |-> 0]]
    /\ in_use = [b \in Buffers |-> TRUE]
    /\ memory = [b \in Buffers |-> "owned"]
    /\ taken = [b \in Buffers |-> 0]
    /\ scoped = {}
    /\ pc = [t \in Threads |-> "idle"]
    /\ call = [t \in Threads |-> NoCall]
    /\ next = [t \in Threads |-> 1]
    /\ inflight = 0
    /\ callbacks = 0

-----------------------------------------------------------------------------
\* The holds of thread t, and whether h is the first of a set of them: a
\* std::vector<ScopedHold> is walked, and destroyed, from its first element.
Mine(t) == {h \in scoped : h.thread = t}

IsFirst(h, S) == h \in S /\ \A g \in S : h.arg <= g.arg

AddHold(t, b, ty) ==
    /\ holds' = [holds EXCEPT ![b][ty] = @ + 1]
    /\ scoped' = scoped \cup
                   {[thread |-> t, arg |-> next[t], buf |-> b, type |-> ty]}

\* Fault: a moved-from ScopedHold is not marked kMoved and is dropped too.
RemoveHoldTwice(h) ==
    /\ holds' = [holds EXCEPT ![h.buf][h.type] = @ - 2]
    /\ scoped' = scoped \ {h}

RemoveHold(h) ==
    /\ holds' = [holds EXCEPT ![h.buf][h.type] = @ - 1]
    /\ scoped' = scoped \ {h}

\* The argument thread t is about to take a hold on.
Arg(t) == call[t].args[next[t]]
HasArg(t) == next[t] \in 1..Len(call[t].args)

\* The call returns to its client.
Return(t) ==
    /\ pc' = [pc EXCEPT ![t] = "idle"]
    /\ call' = [call EXCEPT ![t] = NoCall]
    /\ next' = [next EXCEPT ![t] = 1]

\* A client calls one of the operations.
Begin(t) ==
    /\ pc[t] = "idle"
    /\ \E c \in Calls :
         /\ call' = [call EXCEPT ![t] = c]
         /\ pc' = [pc EXCEPT ![t] = IF c.op = "release" THEN "release"
                                                        ELSE "acquire"]
    /\ UNCHANGED <<valid, holds, in_use, memory, taken, scoped, next,
                   inflight, callbacks>>

\* f(donate(a), donate(a)), f(a, donate(a)) and f(donate(a), a) are refused
\* before a hold on the second argument is asked for.
Conflicts(t) ==
    \E i \in 1..(next[t] - 1) :
       /\ call[t].args[i].buf = Arg(t).buf
       /\ Donation \in {call[t].args[i].type, Arg(t).type}

RefuseAlias(t) ==
    /\ pc[t] = "acquire" /\ HasArg(t)
    /\ Conflicts(t)
    /\ pc' = [pc EXCEPT ![t] = "unwind"]
    /\ UNCHANGED <<valid, holds, in_use, memory, taken, scoped, call, next,
                   inflight, callbacks>>

\* GetBufferWithHold starts with WaitForOutstandingDonationHold.
MayAsk(t) ==
    /\ pc[t] = "acquire" /\ HasArg(t)
    /\ ~Conflicts(t)
    /\ holds[Arg(t).buf][Donation] = 0

\* A usage or external hold on a buffer that has not been deleted or donated.
AcquireShared(t) ==
    /\ MayAsk(t)
    /\ Arg(t).type # Donation
    /\ valid[Arg(t).buf]
    /\ AddHold(t, Arg(t).buf, Arg(t).type)
    /\ next' = [next EXCEPT ![t] = @ + 1]
    /\ UNCHANGED <<valid, in_use, memory, taken, pc, call, inflight,
                   callbacks>>

\* A donation hold is counted first, then the usage holds are waited for.
AcquireDonation(t) ==
    /\ MayAsk(t)
    /\ Arg(t).type = Donation
    /\ valid[Arg(t).buf]
    /\ holds[Arg(t).buf][External] = 0
    /\ AddHold(t, Arg(t).buf, Donation)
    /\ pc' = [pc EXCEPT ![t] = "await_usage"]
    /\ UNCHANGED <<valid, in_use, memory, taken, call, next, inflight,
                   callbacks>>

\* WaitForOutstandingUsageHolds inside GetBufferForHoldLocked.
AwaitUsage(t) ==
    /\ pc[t] = "await_usage"
    /\ holds[Arg(t).buf][Usage] = 0
    /\ pc' = [pc EXCEPT ![t] = "acquire"]
    /\ next' = [next EXCEPT ![t] = @ + 1]
    /\ UNCHANGED <<valid, holds, in_use, memory, taken, scoped, call,
                   inflight, callbacks>>

\* GetBufferForHoldLocked answers with an error.
AcquireFails(t) ==
    /\ MayAsk(t)
    /\ \/ ~valid[Arg(t).buf]
       \/ Arg(t).type = Donation /\ holds[Arg(t).buf][External] > 0
    /\ pc' = [pc EXCEPT ![t] = "unwind"]
    /\ UNCHANGED <<valid, holds, in_use, memory, taken, scoped, call, next,
                   inflight, callbacks>>

\* All arguments are held.  The tuple-option checks and
\* MakeExecutionInputsAndWaitForEvents may fail (so may the enqueue of a
\* transfer); an external reference is simply handed to the client.
Acquired(t) ==
    /\ pc[t] = "acquire" /\ ~HasArg(t)
    /\ \/ /\ call[t].op = "execute"
          /\ pc' = [pc EXCEPT ![t] = "enqueue"]
       \/ /\ call[t].op \in {"use", "donate"}
          /\ pc' = [pc EXCEPT ![t] = "commit"]
       \/ /\ call[t].op \in {"use", "execute", "share"}
          /\ pc' = [pc EXCEPT ![t] = "unwind"]
    /\ UNCHANGED <<valid, holds, in_use, memory, taken, scoped, call, next,
                   inflight, callbacks>>

\* compute_semaphore().ScopedAcquire(1), then RunAsync.
Launch(t) ==
    /\ pc[t] = "enqueue"
    /\ inflight < MaxInflight
    /\ inflight' = inflight + 1
    /\ pc' = [pc EXCEPT ![t] = "launched"]
    /\ UNCHANGED <<valid, holds, in_use, memory, taken, scoped, call, next,
                   callbacks>>

\* Fault: the reservation outlives an execution that failed to launch.
AfterRunLeaks(t) ==
    /\ pc[t] = "launched"
    /\ \E p \in {"commit", "unwind", "confirm"} : pc' = [pc EXCEPT ![t] = p]
    /\ UNCHANGED <<valid, holds, in_use, memory, taken, scoped, call, next,
                   inflight, callbacks>>

\* RunAsync succeeds and the definition event is recorded; or RunAsync fails
\* and the reservation goes with the stack frame; or the execution was
\* enqueued but its event could not be allocated.
AfterRun(t) ==
    /\ pc[t] = "launched"
    /\ \/ /\ pc' = [pc EXCEPT ![t] = "commit"]
          /\ UNCHANGED inflight
       \/ /\ pc' = [pc EXCEPT ![t] = "unwind"]
          /\ inflight' = inflight - 1
       \/ /\ pc' = [pc EXCEPT ![t] = "confirm"]
          /\ UNCHANGED inflight
    /\ UNCHANGED <<valid, holds, in_use, memory, taken, scoped, call, next,
                   callbacks>>

-----------------------------------------------------------------------------
\* ScopedHold::ConvertUsageHold: AddUsageEvent, then the hold is given back.
ConvertUsageHold(t) ==
    /\ pc[t] = "commit"
    /\ \E h \in scoped :
         /\ IsFirst(h, Mine(t))
         /\ h.type = Usage
         /\ RemoveHold(h)
    /\ UNCHANGED <<valid, in_use, memory, taken, pc, call, next, inflight,
                   callbacks>>

\* Fault: holds_[kDonation] is not reset.
ConfirmDonationKeepsHold(t) ==
    /\ pc[t] \in {"commit", "confirm"}
    /\ \E h \in scoped :
         /\ IsFirst(h, Mine(t))
         /\ h.type = Donation
         /\ scoped' = scoped \ {h}
         /\ in_use' = [in_use EXCEPT ![h.buf] = FALSE]
         /\ memory' = [memory EXCEPT ![h.buf] = "donated"]
         /\ taken' = [taken EXCEPT ![h.buf] = @ + 1]
         /\ valid' = [valid EXCEPT ![h.buf] = FALSE]
    /\ UNCHANGED <<holds, pc, call, next, inflight, callbacks>>

\* ScopedHold::ConfirmDonation: the memory now belongs to the execution (or
\* to the buffer DonateWithControlDependency returns) and *this is invalid.
ConfirmDonation(t) ==
    /\ \E h \in scoped :
         /\ \/ pc[t] = "commit" /\ IsFirst(h, Mine(t))
            \/ pc[t] = "confirm"
               /\ IsFirst(h, {g \in Mine(t) : g.type = Donation})
         /\ h.type = Donation
         /\ holds' = [holds EXCEPT ![h.buf][Donation] = 0]
         /\ scoped' = scoped \ {h}
         /\ in_use' = [in_use EXCEPT ![h.buf] = FALSE]
         /\ memory' = [memory EXCEPT ![h.buf] = "donated"]
         /\ taken' = [taken EXCEPT ![h.buf] = @ + 1]
         /\ valid' = [valid EXCEPT ![h.buf] = FALSE]
    /\ UNCHANGED <<pc, call, next, inflight, callbacks>>

\* Every hold was converted or confirmed: an execution enqueues its compute
\* callback, which owns the semaphore reservation from here on.
Commit(t) ==
    /\ pc[t] = "commit"
    /\ Mine(t) = {}
    /\ Return(t)
    /\ callbacks' = IF call[t].op = "execute" THEN callbacks + 1
                                              ELSE callbacks
    /\ UNCHANGED <<valid, holds, in_use, memory, taken, scoped, inflight>>

\* The compute callback runs on the callback thread and drops the reservation.
ComputeCallback ==
    /\ callbacks > 0
    /\ callbacks' = callbacks - 1
    /\ inflight' = inflight - 1
    /\ UNCHANGED <<valid, holds, in_use, memory, taken, scoped, pc, call,
                   next>>

\* The holds that are still valid are destroyed: on an error return, and in
\* ExecuteHelper after a failed ThenAllocateAndRecordEvent once the donations
\* have been confirmed.
Dropping(t) ==
    \/ pc[t] = "unwind"
    \/ pc[t] = "confirm" /\ \A h \in Mine(t) : h.type # Donation

\* Fault: a hold destroyed on an error path is not given back.
DropHoldLeaks(t) ==
    /\ Dropping(t)
    /\ \E h \in scoped : IsFirst(h, Mine(t)) /\ scoped' = scoped \ {h}
    /\ UNCHANGED <<valid, holds, in_use, memory, taken, pc, call, next,
                   inflight, callbacks>>

\* ~ScopedHold of a hold that is still valid.
DropHold(t) ==
    /\ Dropping(t)
    /\ \E h \in scoped : IsFirst(h, Mine(t)) /\ RemoveHold(h)
    /\ UNCHANGED <<valid, in_use, memory, taken, pc, call, next, inflight,
                   callbacks>>

\* ExecuteHelper returns the error of ThenAllocateAndRecordEvent; the
\* reservation goes last, with the local compute_callbacks.
ConfirmedAll(t) ==
    /\ pc[t] = "confirm"
    /\ Mine(t) = {}
    /\ inflight' = inflight - 1
    /\ Return(t)
    /\ UNCHANGED <<valid, holds, in_use, memory, taken, scoped, callbacks>>

Unwound(t) ==
    /\ pc[t] = "unwind"
    /\ Mine(t) = {}
    /\ Return(t)
    /\ UNCHANGED <<valid, holds, in_use, memory, taken, scoped, inflight,
                   callbacks>>

-----------------------------------------------------------------------------
Target(t) == call[t].args[1].buf

\* Fault: Release leaves device_buffer_ in place while it waits for the
\* usage holds, so a second Release finds it there.
ReleaseKeepsBuffer(t) ==
    /\ pc[t] = "release"
    /\ holds[Target(t)][Donation] = 0
    /\ IF memory[Target(t)] = "owned"
         THEN pc' = [pc EXCEPT ![t] = "drain"] /\ UNCHANGED <<call, next>>
         ELSE Return(t)
    /\ UNCHANGED <<valid, holds, in_use, memory, taken, scoped, inflight,
                   callbacks>>

\* Release up to WaitForOutstandingUsageHolds: an outstanding donation is
\* waited for, a buffer that is already invalid is left alone, otherwise
\* device_buffer_ is swapped out so that no new hold can be added.
Release(t) ==
    /\ pc[t] = "release"
    /\ holds[Target(t)][Donation] = 0
    /\ IF valid[Target(t)]
         THEN /\ valid' = [valid EXCEPT ![Target(t)] = FALSE]
              /\ pc' = [pc EXCEPT ![t] = "drain"]
              /\ UNCHANGED <<call, next>>
         ELSE Return(t) /\ UNCHANGED valid
    /\ UNCHANGED <<holds, in_use, memory, taken, scoped, inflight, callbacks>>

\* Fault: Release does not wait for the usage holds.
DrainAtOnce(t) ==
    /\ pc[t] = "drain"
    /\ in_use' = [in_use EXCEPT ![Target(t)] = FALSE]
    /\ memory' = [memory EXCEPT ![Target(t)] = "released"]
    /\ taken' = [taken EXCEPT ![Target(t)] = @ + 1]
    /\ Return(t)
    /\ UNCHANGED <<valid, holds, scoped, inflight, callbacks>>

\* The rest of Release: the final set of usage events is taken.
Drain(t) ==
    /\ pc[t] = "drain"
    /\ holds[Target(t)][Usage] = 0
    /\ in_use' = [in_use EXCEPT ![Target(t)] = FALSE]
    /\ memory' = [memory EXCEPT ![Target(t)] = "released"]
    /\ taken' = [taken EXCEPT ![Target(t)] = @ + 1]
    /\ Return(t)
    /\ UNCHANGED <<valid, holds, scoped, inflight, callbacks>>

-----------------------------------------------------------------------------
\* What a thread does once it is inside a call.
Continue(t) ==
    \/ RefuseAlias(t)
    \/ AcquireShared(t)
    \/ AcquireDonation(t)
    \/ AwaitUsage(t)
    \/ AcquireFails(t)
    \/ Acquired(t)
    \/ Launch(t)
    \/ AfterRun(t)
    \/ ConvertUsageHold(t)
    \/ ConfirmDonation(t)
    \/ Commit(t)
    \/ ConfirmedAll(t)
    \/ DropHold(t)
    \/ Unwound(t)
    \/ Release(t)
    \/ Drain(t)

Next ==
    \/ \E t \in Threads : Begin(t) \/ Continue(t)
    \/ ComputeCallback

Spec == Init /\ [][Next]_vars

\* A thread inside a call keeps running, except that nothing obliges the
\* owner of an external reference to destroy it; the compute stream drains
\* and its callback thread runs what it is given.  A thread that waits in
\* mu_.Await for a condition other threads may make false again (a donation
\* hold on the argument it asks for, a full semaphore) is assumed to be
\* served if the condition comes back for ever: absl::Mutex queues waiters.
Fairness ==
    /\ \A t \in Threads :
         /\ WF_vars(Continue(t) /\ call[t].op # "share")
         /\ SF_vars(AcquireShared(t) \/ AcquireDonation(t) \/ AcquireFails(t))
         /\ SF_vars(Launch(t))
         /\ SF_vars(Release(t))
    /\ WF_vars(ComputeCallback)

FairSpec == Spec /\ Fairness

-----------------------------------------------------------------------------
(***************************************************************************)
(* Properties.                                                             *)
(***************************************************************************)

HoldsOn(b, ty) == {h \in scoped : h.buf = b /\ h.type = ty}

\* holds_ counts exactly the ScopedHold objects that are alive: every error
\* path of ExecuteHelper, EnqueueExecution and Release gives back what it
\* took, once.  (The CHECK_GT and CHECK_EQ on holds_ in DropHold,
\* ConvertUsageHold and ~PjRtStreamExecutorBuffer.)
HoldsAreCounted ==
    \A b \in Buffers, ty \in HoldType :
        holds[b][ty] = Cardinality(HoldsOn(b, ty))

\* "Donation holds behave like exclusive write locks": once a donation hold
\* has been granted (its thread is past WaitForOutstandingUsageHolds) no
\* other hold of any type exists on the buffer, and the buffer is still
\* there: the CHECKs of ConfirmDonation, and the CHECK(device_buffer_ !=
\* nullptr) of GetBufferForHoldLocked.
Granted(h) == h.arg < next[h.thread]

DonationExclusive ==
    \A h \in scoped : h.type = Donation =>
        /\ valid[h.buf]
        /\ \A g \in scoped : g.buf = h.buf /\ g # h =>
              g.type = Usage /\ ~Granted(h)

\* A usage hold can always be converted: the TrackedDeviceBuffer still
\* accepts usage events while any usage hold is outstanding (CHECK(in_use_)
\* in AddUsageEvent), so Release never misses the event of an operation that
\* was enqueued before it took the final set of usage events.
UsageHoldKeepsEventsOpen ==
    \A h \in scoped : h.type = Usage => in_use[h.buf] /\ memory[h.buf] = "owned"

\* Memory that an external framework shares through AcquireExternalReference
\* is never handed to an execution.
ExternalNeverDonated ==
    \A h \in scoped : h.type = External => memory[h.buf] # "donated"

\* What a hold protects its holder from, whatever the other threads do and
\* wherever they give the mutex up.
HoldsProtect == DonationExclusive /\ UsageHoldKeepsEventsOpen /\ ExternalNeverDonated

\* The device memory leaves the buffer once, either to the one donation or
\* to the one Release that took it.  A second Release, a second confirmed
\* donation or one of each never takes it again, although Release gives mu_
\* up while it waits for usage holds, and a donation between asking for the
\* buffer and confirming.
MemoryTakenOnce == \A b \in Buffers : taken[b] <= 1

\* compute_semaphore_ is neither leaked nor over-released on any path: every
\* reservation belongs to an execution being enqueued or to a callback that
\* is still going to run.
Reserving == {t \in Threads : /\ pc[t] \in {"launched", "commit", "confirm"}
                              /\ call[t].op = "execute"}

ReservationsAccounted ==
    /\ inflight = Cardinality(Reserving) + callbacks
    /\ inflight <= MaxInflight

\* "... so this wait will complete eventually": a thread that has added its
\* donation hold and waits for the usage holds of others gets past that wait.
DonationWaitCompletes ==
    \A t \in Threads : pc[t] = "await_usage" ~> pc[t] # "await_usage"

\* Every call returns, except that an external reference may be kept.
CallsReturn ==
    \A t \in Threads :
        pc[t] # "idle" ~> pc[t] = "idle" \/ call[t].op = "share"

-----------------------------------------------------------------------------
(***************************************************************************)
(* The inductive invariant behind the safety properties.                   *)
(***************************************************************************)

\* What a thread is calling, by where it stands.
Phases ==
    \A t \in Threads :
        /\ pc[t] # "idle" => call[t] \in Calls
        /\ pc[t] \in {"release", "drain"} => call[t].op = "release"
        /\ pc[t] = "await_usage" => HasArg(t)

\* A ScopedHold lives inside the call that took it, and only the donation
\* hold that is being waited for is not among the arguments already passed.
HoldsInCalls ==
    \A h \in scoped :
        /\ pc[h.thread] \notin {"idle", "release", "drain"}
        /\ \/ h.arg < next[h.thread]
           \/ /\ pc[h.thread] = "await_usage"
              /\ h.arg = next[h.thread]
              /\ h.buf = Arg(h.thread).buf
              /\ h.type = Donation

\* A buffer that can still be held has its memory and accepts usage events.
ValidIsOwned ==
    \A b \in Buffers : valid[b] => in_use[b] /\ memory[b] = "owned"

\* The history agrees with who owns the memory.
TakenWhenNotOwned ==
    \A b \in Buffers : taken[b] = IF memory[b] = "owned" THEN 0 ELSE 1

\* A Release that drains is the only one to have taken its buffer.
DrainsAlone ==
    \A t \in Threads : pc[t] = "drain" =>
        /\ ~valid[Target(t)] /\ in_use[Target(t)]
        /\ memory[Target(t)] = "owned"
        /\ \A u \in Threads : pc[u] = "drain" /\ Target(u) = Target(t) => u = t

HoldsInv ==
    /\ TypeOK
    /\ IsFiniteSet(scoped)
    /\ HoldsAreCounted
    /\ Phases
    /\ HoldsInCalls
    /\ DonationExclusive
    /\ UsageHoldKeepsEventsOpen
    /\ ExternalNeverDonated
    /\ ValidIsOwned
    /\ TakenWhenNotOwned
    /\ DrainsAlone

\* The same for the semaphore: only an execution comes near it.
ReservationInv ==
    /\ ReservationsAccounted
    /\ \A t \in Threads :
         pc[t] \in {"enqueue", "launched", "confirm"} =>
            call[t].op = "execute"
=============================================================================
