--------------------------- MODULE AsyncTransfer ---------------------------
(***************************************************************************)
(* AsyncHostToDeviceTransferManager of the GPU client                      *)
(* (xla/pjrt/gpu/se_gpu_pjrt_client.cc).  A manager owns a batch of        *)
(* uninitialized buffers; client threads ask it to copy pieces of host     *)
(* data into them, and a buffer becomes available to its consumers when    *)
(* the transfer that was announced as its last one has been executed.      *)
(*                                                                         *)
(* A transfer passes through the thread pool (literals only), the          *)
(* host-to-device stream, and a host callback on that stream that calls    *)
(* CleanUp.  mu_ is held for one step at a time, so every section under it *)
(* is one action; what happens after mu_ is released is another action.    *)
(* The event recorded between a copy and its callback has completed when   *)
(* the callback runs and is not represented.  The bytes of a transfer are  *)
(* abstracted to where they are: there are "none", they are in the host's  *)
(* memory, or they have been copied to the device.                         *)
(***************************************************************************)
EXTENDS Naturals, Sequences, FiniteSets

CONSTANTS
    Buffers,        \* the indices of the manager's buffers
    MaxCalls,       \* the client's threads: how many transfer calls overlap
    MaxTransfers    \* bound: the transfers the client starts

ASSUME AsyncAssumption ==
    /\ IsFiniteSet(Buffers)
    /\ MaxTransfers \in Nat
    /\ MaxCalls \in Nat

VARIABLES
    manager,                \* "live", "destroying" (blocked in the destructor) or "destroyed"
    handle,                 \* who has the PjRtBuffer: buffers_, the client, nobody any more
    buffer_ptrs,            \* buffer_ptrs_[b] is not null
    last_transfer_started,
    definition,             \* the definition event: "none", "recorded" or "error"
    transfers_in_flight,
    remaining_buffer_count,
    transfer,               \* the accepted transfers, in the order of acceptance
    calls,                  \* the transfers whose calls are about to enqueue their callback
    stream                  \* the host-to-device stream's queue

state == <<handle, buffer_ptrs, last_transfer_started, definition>>
vars == <<manager, state, transfers_in_flight, remaining_buffer_count,
          transfer, calls, stream>>

Transfers == DOMAIN transfer

TransferRecord ==
    [buffer : Buffers, last : BOOLEAN, data : {"none", "host", "device"},
     stage : {"pool", "enqueued", "cleaned", "done"}]

Copy(t) == [kind |-> "copy", transfer |-> t]
HostCallback(t) == [kind |-> "callback", transfer |-> t]

Into(b) == {t \in Transfers : transfer[t].buffer = b}
Pending(t) == transfer[t].stage \in {"pool", "enqueued"}   \* CleanUp is still to come
Uncopied(t) == transfer[t].data = "host"
Copied(t) == transfer[t].data = "device"

(* The TrackedDeviceBuffer is kept by buffer_ptrs_ and by the PjRtBuffer,   *)
(* unless it was donated, which empties its device_memory().                *)
Referenced(b) == buffer_ptrs[b] \/ handle[b] \in {"manager", "client"}
Donated(b) == handle[b] = "donated"

Init ==
    /\ manager = "live"
    /\ handle = [b \in Buffers |-> "manager"]
    /\ buffer_ptrs = [b \in Buffers |-> TRUE]
    /\ last_transfer_started = [b \in Buffers |-> FALSE]
    /\ definition = [b \in Buffers |-> "none"]
    /\ transfers_in_flight = 0
    /\ remaining_buffer_count = Cardinality(Buffers)
    /\ transfer = <<>>
    /\ calls = {}
    /\ stream = <<>>

(***************************************************************************)
(* Client calls.  A client calls no method of a manager it is destroying,  *)
(* and no transfer method for a buffer it set an error for.  A call that   *)
(* finds the last transfer started returns an error and changes nothing.   *)
(***************************************************************************)
Callable == manager = "live" /\ Cardinality(calls) < MaxCalls

Transferable(b) ==
    /\ definition[b] # "error"
    /\ ~last_transfer_started[b]

\* Fault: only a transfer that is already on the stream counts.
AcceptedUncounted(b, last, data, stage) ==
    /\ Len(transfer) < MaxTransfers
    /\ transfers_in_flight' = transfers_in_flight + (IF stage = "pool" THEN 0 ELSE 1)
    /\ transfer' = Append(transfer, [buffer |-> b, last |-> last,
                                     data |-> data, stage |-> stage])

Accepted(b, last, data, stage) ==
    /\ Len(transfer) < MaxTransfers
    /\ transfers_in_flight' = transfers_in_flight + 1
    /\ transfer' = Append(transfer, [buffer |-> b, last |-> last,
                                     data |-> data, stage |-> stage])

RetrieveBuffer(b) ==
    /\ manager = "live"
    /\ handle[b] = "manager"
    /\ handle' = [handle EXCEPT ![b] = "client"]
    /\ UNCHANGED <<manager, buffer_ptrs, last_transfer_started, definition,
                   transfers_in_flight, remaining_buffer_count, transfer, calls, stream>>

\* Fault: last_transfer_started_ is left to the pool's thread.
TransferLiteralLate(b) ==
    /\ Callable /\ Transferable(b) /\ ~Donated(b)
    /\ Accepted(b, TRUE, "host", "pool")
    /\ UNCHANGED <<manager, state, remaining_buffer_count, calls, stream>>

(* last_transfer_started_ is set before the literal's size is compared.     *)
TransferLiteralToBuffer(b) ==
    /\ Callable
    /\ Transferable(b)
    /\ ~Donated(b)
    /\ last_transfer_started' = [last_transfer_started EXCEPT ![b] = TRUE]
    /\ Accepted(b, TRUE, "host", "pool")
    /\ UNCHANGED <<manager, handle, buffer_ptrs, definition,
                   remaining_buffer_count, calls, stream>>

(* The calls that announce the last transfer and are then refused: the      *)
(* buffer was donated or, for a literal, the size is wrong.                 *)
LastTransferRefused(b) ==
    /\ Callable
    /\ Transferable(b)
    /\ last_transfer_started' = [last_transfer_started EXCEPT ![b] = TRUE]
    /\ UNCHANGED <<manager, handle, buffer_ptrs, definition, transfers_in_flight,
                   remaining_buffer_count, transfer, calls, stream>>

\* Fault: the callback is enqueued first.
TransferH2DSwapped(t) ==
    /\ transfer[t].stage = "pool"
    /\ ~Donated(transfer[t].buffer)
    /\ stream' = stream \o <<HostCallback(t), Copy(t)>>
    /\ transfer' = [transfer EXCEPT ![t].stage = "enqueued"]
    /\ UNCHANGED <<manager, state, transfers_in_flight, remaining_buffer_count, calls>>

(* The pool's thread linearizes the literal and enqueues everything.  If    *)
(* the buffer was donated meanwhile, AsShapedBuffer's CHECK ends the        *)
(* process: such a transfer goes no further.                                *)
TransferH2D(t) ==
    /\ transfer[t].stage = "pool"
    /\ ~Donated(transfer[t].buffer)
    /\ stream' = stream \o <<Copy(t), HostCallback(t)>>
    /\ transfer' = [transfer EXCEPT ![t].stage = "enqueued"]
    /\ UNCHANGED <<manager, state, transfers_in_flight, remaining_buffer_count, calls>>

(* The copy is enqueued under mu_, unless there is nothing to copy; the     *)
(* callback is enqueued after mu_ was released.                             *)
TransferRawDataToSubBuffer(b, last, empty) ==
    /\ Callable
    /\ Transferable(b)
    /\ ~Donated(b)
    /\ last_transfer_started' = [last_transfer_started EXCEPT ![b] = last]
    /\ Accepted(b, last, IF empty THEN "none" ELSE "host", "enqueued")
    /\ stream' = IF empty THEN stream ELSE Append(stream, Copy(Len(transfer) + 1))
    /\ calls' = calls \cup {Len(transfer) + 1}
    /\ UNCHANGED <<manager, handle, buffer_ptrs, definition, remaining_buffer_count>>

\* Fault: only last transfers are cleaned up.
ThenDoHostCallbackIfLast(t) ==
    /\ t \in calls
    /\ stream' = IF transfer[t].last THEN Append(stream, HostCallback(t)) ELSE stream
    /\ calls' = calls \ {t}
    /\ UNCHANGED <<manager, state, transfers_in_flight, remaining_buffer_count, transfer>>

ThenDoHostCallback(t) ==
    /\ t \in calls
    /\ stream' = Append(stream, HostCallback(t))
    /\ calls' = calls \ {t}
    /\ UNCHANGED <<manager, state, transfers_in_flight, remaining_buffer_count, transfer>>

(* Not after another SetBufferError, and not after an accepted last one.    *)
SetBufferError(b) ==
    /\ Callable
    /\ definition[b] # "error"
    /\ \A t \in Into(b) : ~transfer[t].last
    /\ definition' = [definition EXCEPT ![b] = "error"]
    /\ UNCHANGED <<manager, handle, buffer_ptrs, last_transfer_started,
                   transfers_in_flight, remaining_buffer_count, transfer, calls, stream>>

(***************************************************************************)
(* What the client does with a retrieved buffer.  A buffer without usage   *)
(* events is deleted at once.  DonateWithControlDependency waits for no    *)
(* definition event, so a buffer may be donated with transfers under way.  *)
(***************************************************************************)
Delete(b) ==
    /\ handle[b] = "client"
    /\ handle' = [handle EXCEPT ![b] = "deleted"]
    /\ UNCHANGED <<manager, buffer_ptrs, last_transfer_started, definition,
                   transfers_in_flight, remaining_buffer_count, transfer, calls, stream>>

Donate(b) ==
    /\ handle[b] = "client"
    /\ handle' = [handle EXCEPT ![b] = "donated"]
    /\ UNCHANGED <<manager, buffer_ptrs, last_transfer_started, definition,
                   transfers_in_flight, remaining_buffer_count, transfer, calls, stream>>

(***************************************************************************)
(* The destructor, which runs while no method does.                        *)
(***************************************************************************)
Destroy ==
    /\ manager = "live"
    /\ calls = {}
    /\ manager' = "destroying"
    /\ UNCHANGED <<state, transfers_in_flight, remaining_buffer_count, transfer, calls, stream>>

\* Fault: the destructor does not wait.
TransfersUnfinished ==
    /\ manager = "destroying"
    /\ manager' = "destroyed"
    /\ buffer_ptrs' = [b \in Buffers |-> FALSE]
    /\ handle' = [b \in Buffers |-> IF handle[b] = "manager" THEN "deleted" ELSE handle[b]]
    /\ UNCHANGED <<last_transfer_started, definition, transfers_in_flight,
                   remaining_buffer_count, transfer, calls, stream>>

TransfersFinished ==
    /\ manager = "destroying"
    /\ transfers_in_flight = 0
    /\ manager' = "destroyed"
    /\ buffer_ptrs' = [b \in Buffers |-> FALSE]
    /\ handle' = [b \in Buffers |-> IF handle[b] = "manager" THEN "deleted" ELSE handle[b]]
    /\ UNCHANGED <<last_transfer_started, definition, transfers_in_flight,
                   remaining_buffer_count, transfer, calls, stream>>

(***************************************************************************)
(* The stream: copies, and callbacks that hold it until on_done returned.  *)
(***************************************************************************)
ExecuteCopy ==
    /\ stream # <<>> /\ Head(stream).kind = "copy"
    /\ transfer' = [transfer EXCEPT ![Head(stream).transfer].data = "device"]
    /\ stream' = Tail(stream)
    /\ UNCHANGED <<manager, state, transfers_in_flight, remaining_buffer_count, calls>>

\* Fault: every transfer drops the reference to its buffer.
CleanUpDropsReference(t) ==
    /\ stream # <<>> /\ Head(stream) = HostCallback(t)
    /\ transfer[t].stage = "enqueued"
    /\ transfers_in_flight' = transfers_in_flight - 1
    /\ transfer' = [transfer EXCEPT ![t].stage = "cleaned"]
    /\ buffer_ptrs' = [buffer_ptrs EXCEPT ![transfer[t].buffer] = FALSE]
    /\ IF transfer[t].last
         THEN /\ remaining_buffer_count' = remaining_buffer_count - 1
              /\ definition' = [definition EXCEPT ![transfer[t].buffer] = "recorded"]
         ELSE UNCHANGED <<remaining_buffer_count, definition>>
    /\ UNCHANGED <<manager, handle, last_transfer_started, calls, stream>>

\* Fault: only last transfers are counted down.
CleanUpMiscounts(t) ==
    /\ stream # <<>> /\ Head(stream) = HostCallback(t)
    /\ transfer[t].stage = "enqueued"
    /\ transfer' = [transfer EXCEPT ![t].stage = "cleaned"]
    /\ IF transfer[t].last
         THEN LET b == transfer[t].buffer
              IN  /\ transfers_in_flight' = transfers_in_flight - 1
                  /\ buffer_ptrs' = [buffer_ptrs EXCEPT ![b] = FALSE]
                  /\ remaining_buffer_count' = remaining_buffer_count - 1
                  /\ definition' = [definition EXCEPT ![b] = "recorded"]
         ELSE UNCHANGED <<transfers_in_flight, buffer_ptrs, remaining_buffer_count, definition>>
    /\ UNCHANGED <<manager, handle, last_transfer_started, calls, stream>>

CleanUp(t) ==
    /\ stream # <<>> /\ Head(stream) = HostCallback(t)
    /\ transfer[t].stage = "enqueued"
    /\ transfers_in_flight' = transfers_in_flight - 1
    /\ transfer' = [transfer EXCEPT ![t].stage = "cleaned"]
    /\ IF transfer[t].last
         THEN LET b == transfer[t].buffer
              IN  /\ buffer_ptrs' = [buffer_ptrs EXCEPT ![b] = FALSE]
                  /\ remaining_buffer_count' = remaining_buffer_count - 1
                  /\ definition' = [definition EXCEPT ![b] = "recorded"]
         ELSE UNCHANGED <<buffer_ptrs, remaining_buffer_count, definition>>
    /\ UNCHANGED <<manager, handle, last_transfer_started, calls, stream>>

OnDone(t) ==
    /\ stream # <<>> /\ Head(stream) = HostCallback(t)
    /\ transfer[t].stage = "cleaned"
    /\ transfer' = [transfer EXCEPT ![t].stage = "done"]
    /\ stream' = Tail(stream)
    /\ UNCHANGED <<manager, state, transfers_in_flight, remaining_buffer_count, calls>>

ClientCall ==
    \E b \in Buffers :
        \/ TransferLiteralToBuffer(b)
        \/ LastTransferRefused(b)
        \/ \E last, empty \in BOOLEAN : TransferRawDataToSubBuffer(b, last, empty)
        \/ SetBufferError(b)

Next ==
    \/ ClientCall
    \/ \E b \in Buffers : RetrieveBuffer(b) \/ Delete(b) \/ Donate(b)
    \/ \E t \in Transfers : TransferH2D(t) \/ ThenDoHostCallback(t) \/ CleanUp(t) \/ OnDone(t)
    \/ ExecuteCopy
    \/ Destroy
    \/ TransfersFinished

Spec == Init /\ [][Next]_vars

(* The pool, the stream, a call that was started and the destructor go on;  *)
(* the client need not call anything.                                      *)
Fairness ==
    /\ \A t \in 1..MaxTransfers :
          /\ WF_vars(t \in Transfers /\ TransferH2D(t))
          /\ WF_vars(ThenDoHostCallback(t))
          /\ WF_vars(t \in Transfers /\ (CleanUp(t) \/ OnDone(t)))
    /\ WF_vars(ExecuteCopy)
    /\ WF_vars(TransfersFinished)

FairSpec == Spec /\ Fairness

(***************************************************************************)
(* Properties.                                                             *)
(***************************************************************************)

(* The types of the manager's members and of the queues around it.          *)
TypeOK ==
    /\ manager \in {"live", "destroying", "destroyed"}
    /\ handle \in [Buffers -> {"manager", "client", "deleted", "donated"}]
    /\ buffer_ptrs \in [Buffers -> BOOLEAN]
    /\ last_transfer_started \in [Buffers -> BOOLEAN]
    /\ definition \in [Buffers -> {"none", "recorded", "error"}]
    /\ transfers_in_flight \in Nat
    /\ remaining_buffer_count \in Nat
    /\ transfer \in Seq(TransferRecord)
    /\ calls \subseteq Transfers
    /\ stream \in Seq([kind : {"copy", "callback"}, transfer : Transfers])

(* A buffer whose definition event was recorded holds the data of every     *)
(* transfer the manager accepted for it, whichever threads asked for them   *)
(* and whether they went through the pool or not.                          *)
DefinedAfterTransfers ==
    \A t \in Transfers :
        definition[transfer[t].buffer] = "recorded" => ~Uncopied(t)

(* The transfers into a buffer are executed in the order in which they were *)
(* accepted, so that of two that overlap the later one wins.               *)
CopiedInOrder ==
    \A t, u \in Transfers :
        (t < u /\ transfer[t].buffer = transfer[u].buffer /\ Copied(u))
            => ~Uncopied(t)

(* "References to the underlying storage ... ensures that the buffers can't *)
(* be freed before all transfers complete": the TrackedDeviceBuffer of a    *)
(* transfer that is in the pool or on the stream exists, though the pool's  *)
(* closure has a raw pointer only and the client deletes or donates its     *)
(* buffer and destroys the manager when it likes.  (The device memory is    *)
(* still its own unless the client has donated it.)                         *)
BufferOutlivesTransfers ==
    \A t \in Transfers : Uncopied(t) => Referenced(transfer[t].buffer)

(* The cleanup routine of a transfer finds the manager alive ("Make sure we  *)
(* don't leave dangling pointers in cleanup routines"), and the CHECKs of   *)
(* CleanUp and SetSequencingEvent hold when it runs, as does the DCHECK of  *)
(* the transfer methods when they are called.                              *)
CleanUpIsSafe ==
    /\ \A t \in Transfers : Pending(t) =>
          /\ manager # "destroyed"
          /\ transfers_in_flight > 0
          /\ transfer[t].last => /\ buffer_ptrs[transfer[t].buffer]
                                 /\ remaining_buffer_count > 0
                                 /\ definition[transfer[t].buffer] = "none"
    /\ manager = "live" =>
          \A b \in Buffers : ~last_transfer_started[b] => buffer_ptrs[b]

(* AsShapedBuffer's CHECK in the pool fails: the client donated a buffer    *)
(* with a literal on its way, which the errors call unsupported.            *)
CheckFails ==
    \E t \in Transfers : transfer[t].stage = "pool" /\ Donated(transfer[t].buffer)

(* Every accepted transfer is executed and its on_done called; if it was    *)
(* the last one, consumers of the buffer are let go.  Also when the manager *)
(* is destroyed at once, and unless a donation made the process end.        *)
TransfersComplete ==
    \A t \in 1..MaxTransfers :
        (t \in Transfers) ~>
            \/ /\ t \in Transfers /\ transfer[t].stage = "done" /\ ~Uncopied(t)
               /\ transfer[t].last => definition[transfer[t].buffer] = "recorded"
            \/ CheckFails

(* The destructor returns, whatever was under way when it was called,       *)
(* unless a donation made the process end.                                 *)
DestructorReturns == manager = "destroying" ~> manager = "destroyed" \/ CheckFails
============================================================================
