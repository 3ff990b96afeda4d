------------------------ MODULE AsyncTransferProofs ------------------------
(***************************************************************************)
(* Theorems on AsyncTransfer, for any number of buffers, calls and         *)
(* transfers.  None of the properties is inductive by itself: that a       *)
(* callback finds all the copies into its buffer executed depends on where *)
(* the items of the transfers are on the stream, and that its CHECKs hold  *)
(* on what the counters count.                                             *)
(***************************************************************************)
EXTENDS AsyncTransfer, FiniteSetTheorems, TLAPS

SameBuffer(t, u) == transfer[t].buffer = transfer[u].buffer
Cleaned(t) == transfer[t].stage \in {"cleaned", "done"}
CopyAt(i, t) == stream[i].kind = "copy" /\ stream[i].transfer = t
Item == [kind : {"copy", "callback"}, transfer : Transfers]

(* Nothing is accepted into a buffer after its last transfer.               *)
LastIsFinal ==
    \A t \in Transfers : transfer[t].last =>
        /\ last_transfer_started[transfer[t].buffer]
        /\ definition[transfer[t].buffer] # "error"
        /\ \A u \in Transfers : SameBuffer(t, u) => u <= t

(* Where a transfer is, and what has happened to its data there.            *)
Places ==
    /\ \A t \in Transfers : transfer[t].stage = "pool" =>
          transfer[t].last /\ Uncopied(t) /\ t \notin calls
    /\ \A t \in calls : transfer[t].stage = "enqueued"
    /\ \A t \in Transfers : Cleaned(t) => ~Uncopied(t)

(* The items on the stream are those of transfers that need them, once.     *)
CopiesOnStream ==
    \A i \in DOMAIN stream : stream[i].kind = "copy" =>
        /\ Uncopied(stream[i].transfer)
        /\ transfer[stream[i].transfer].stage = "enqueued"

CallbacksOnStream ==
    \A i \in DOMAIN stream : stream[i].kind = "callback" =>
        /\ stream[i].transfer \notin calls
        /\ \/ transfer[stream[i].transfer].stage = "enqueued"
           \/ transfer[stream[i].transfer].stage = "cleaned" /\ i = 1

ItemsOnce ==
    \A i, j \in DOMAIN stream :
        (stream[i].kind = stream[j].kind /\ stream[i].transfer = stream[j].transfer) => i = j

UncopiedOnStream ==
    \A t \in Transfers : Uncopied(t) /\ transfer[t].stage # "pool" =>
        \E i \in DOMAIN stream : CopyAt(i, t)

(* A callback is behind all the copies into its buffer up to its own, and   *)
(* the copies into a buffer are in the order of acceptance.                *)
CallbackAfterCopies ==
    \A i \in DOMAIN stream, u \in Transfers :
        (/\ stream[i].kind = "callback"
         /\ SameBuffer(stream[i].transfer, u)
         /\ u <= stream[i].transfer
         /\ Uncopied(u)) => \E j \in DOMAIN stream : j < i /\ CopyAt(j, u)

CopiesInOrder ==
    \A i, j \in DOMAIN stream :
        (/\ stream[i].kind = "copy" /\ stream[j].kind = "copy"
         /\ SameBuffer(stream[i].transfer, stream[j].transfer)
         /\ stream[i].transfer < stream[j].transfer) => i < j

(* A definition event is recorded by the CleanUp of a last transfer; until  *)
(* then the manager keeps its reference.                                   *)
RecordedByLast ==
    /\ \A b \in Buffers : definition[b] = "recorded" =>
          \E t \in Transfers : transfer[t].last /\ Cleaned(t) /\ transfer[t].buffer = b
    /\ manager # "destroyed" =>
          \A b \in Buffers : buffer_ptrs[b] <=> definition[b] # "recorded"

PendingTransfers == {t \in Transfers : Pending(t)}
UndefinedBuffers == {b \in Buffers : definition[b] # "recorded"}

Counts ==
    /\ transfers_in_flight = Cardinality(PendingTransfers)
    /\ remaining_buffer_count = Cardinality(UndefinedBuffers)
    /\ manager = "destroyed" => transfers_in_flight = 0
    /\ manager # "live" => calls = {}

QueueInv ==
    /\ TypeOK
    /\ LastIsFinal
    /\ Places
    /\ CopiesOnStream
    /\ CallbacksOnStream
    /\ ItemsOnce
    /\ UncopiedOnStream
    /\ CallbackAfterCopies
    /\ CopiesInOrder

TransferInv ==
    /\ QueueInv
    /\ DefinedAfterTransfers
    /\ CopiedInOrder
    /\ RecordedByLast
    /\ Counts

----------------------------------------------------------------------------
(***************************************************************************)
(* What the changes to the list of transfers do.                           *)
(***************************************************************************)

\* A function on an interval from 1 is a sequence.
LEMMA FunctionIsSeq ==
    ASSUME NEW S, NEW n \in Nat, NEW f \in [1..n -> S]
    PROVE  f \in Seq(S)
  OBVIOUS

\* A list of transfers whose stage was set: CleanUp, OnDone and the pool.
LEMMA StageSet ==
    ASSUME TypeOK, NEW t \in Transfers,
           NEW s \in {"pool", "enqueued", "cleaned", "done"},
           transfer' = [transfer EXCEPT ![t].stage = s]
    PROVE  /\ transfer' \in Seq(TransferRecord)
           /\ Transfers' = Transfers
           /\ \A u \in Transfers :
                 /\ transfer'[u].buffer = transfer[u].buffer
                 /\ transfer'[u].last = transfer[u].last
                 /\ transfer'[u].data = transfer[u].data
                 /\ transfer'[u].stage = IF u = t THEN s ELSE transfer[u].stage
<1>1. transfer \in Seq(TransferRecord) BY DEF TypeOK
<1>2. Len(transfer) \in Nat /\ Transfers = 1..Len(transfer) BY <1>1 DEF Transfers
<1>3. \A u \in Transfers : transfer[u] \in TransferRecord BY <1>1, <1>2
<1>0. transfer \in [1..Len(transfer) -> TransferRecord] BY <1>1
<1>4. transfer' = [u \in 1..Len(transfer) |->
                     IF u = t THEN [transfer[t] EXCEPT !.stage = s] ELSE transfer[u]]
  BY <1>0, <1>2
<1>5. [transfer[t] EXCEPT !.stage = s] \in TransferRecord
  BY <1>3 DEF TransferRecord
<1>6. transfer' \in [1..Len(transfer) -> TransferRecord]
  BY <1>2, <1>3, <1>4, <1>5
<1>7. transfer' \in Seq(TransferRecord) BY <1>2, <1>6, FunctionIsSeq
<1>8. Transfers' = Transfers
  <2>1. DOMAIN transfer' = 1..Len(transfer) BY <1>6
  <2> QED BY <1>2, <2>1 DEF Transfers
<1>9. \A u \in Transfers : u # t => transfer'[u] = transfer[u] BY <1>2, <1>4
<1>10. transfer'[t] = [transfer[t] EXCEPT !.stage = s] BY <1>2, <1>4
<1>11. /\ transfer'[t].buffer = transfer[t].buffer
       /\ transfer'[t].last = transfer[t].last
       /\ transfer'[t].data = transfer[t].data
       /\ transfer'[t].stage = s
  BY <1>3, <1>10 DEF TransferRecord
<1> QED BY <1>7, <1>8, <1>9, <1>11

\* A list of transfers of which one was copied.
LEMMA DataSet ==
    ASSUME TypeOK, NEW t \in Transfers,
           transfer' = [transfer EXCEPT ![t].data = "device"]
    PROVE  /\ transfer' \in Seq(TransferRecord)
           /\ Transfers' = Transfers
           /\ \A u \in Transfers :
                 /\ transfer'[u].buffer = transfer[u].buffer
                 /\ transfer'[u].last = transfer[u].last
                 /\ transfer'[u].stage = transfer[u].stage
                 /\ transfer'[u].data = IF u = t THEN "device" ELSE transfer[u].data
<1>1. transfer \in Seq(TransferRecord) BY DEF TypeOK
<1>2. Len(transfer) \in Nat /\ Transfers = 1..Len(transfer) BY <1>1 DEF Transfers
<1>3. \A u \in Transfers : transfer[u] \in TransferRecord BY <1>1, <1>2
<1>0. transfer \in [1..Len(transfer) -> TransferRecord] BY <1>1
<1>4. transfer' = [u \in 1..Len(transfer) |->
                     IF u = t THEN [transfer[t] EXCEPT !.data = "device"] ELSE transfer[u]]
  BY <1>0, <1>2
<1>5. [transfer[t] EXCEPT !.data = "device"] \in TransferRecord
  BY <1>3 DEF TransferRecord
<1>6. transfer' \in [1..Len(transfer) -> TransferRecord]
  BY <1>2, <1>3, <1>4, <1>5
<1>7. transfer' \in Seq(TransferRecord) BY <1>2, <1>6, FunctionIsSeq
<1>8. Transfers' = Transfers
  <2>1. DOMAIN transfer' = 1..Len(transfer) BY <1>6
  <2> QED BY <1>2, <2>1 DEF Transfers
<1>9. \A u \in Transfers : u # t => transfer'[u] = transfer[u] BY <1>2, <1>4
<1>10. transfer'[t] = [transfer[t] EXCEPT !.data = "device"] BY <1>2, <1>4
<1>11. /\ transfer'[t].buffer = transfer[t].buffer
       /\ transfer'[t].last = transfer[t].last
       /\ transfer'[t].stage = transfer[t].stage
       /\ transfer'[t].data = "device"
  BY <1>3, <1>10 DEF TransferRecord
<1> QED BY <1>7, <1>8, <1>9, <1>11

\* The number of the next transfer.
Fresh == Len(transfer) + 1

\* The list once another transfer is accepted.
LEMMA AcceptedFacts ==
    ASSUME TypeOK, NEW b \in Buffers, NEW last \in BOOLEAN,
           NEW data \in {"none", "host"}, NEW stage \in {"pool", "enqueued"},
           Accepted(b, last, data, stage)
    PROVE  /\ transfer' \in Seq(TransferRecord)
           /\ Transfers' = Transfers \cup {Fresh}
           /\ Fresh \notin Transfers
           /\ Fresh \in Nat
           /\ \A u \in Transfers : u \in Nat /\ u < Fresh
           /\ \A u \in Transfers : transfer'[u] = transfer[u]
           /\ transfer'[Fresh].buffer = b
           /\ transfer'[Fresh].last = last
           /\ transfer'[Fresh].data = data
           /\ transfer'[Fresh].stage = stage
<1> DEFINE r == [buffer |-> b, last |-> last, data |-> data, stage |-> stage]
<1>1. transfer \in Seq(TransferRecord) BY DEF TypeOK
<1>2. Len(transfer) \in Nat /\ Transfers = 1..Len(transfer) BY <1>1 DEF Transfers
<1>3. r \in TransferRecord BY DEF TransferRecord
<1>4. transfer' = Append(transfer, r) BY DEF Accepted
<1> HIDE DEF r
<1>5. transfer' \in Seq(TransferRecord) BY <1>1, <1>3, <1>4
<1>6. Len(transfer') = Fresh BY <1>1, <1>3, <1>4 DEF Fresh
<1>7. Transfers' = 1..Fresh BY <1>5, <1>6 DEF Transfers
<1>8. \A u \in Transfers : transfer'[u] = transfer[u] BY <1>1, <1>2, <1>3, <1>4
<1>9. transfer'[Fresh] = r BY <1>1, <1>3, <1>4 DEF Fresh
<1>10. /\ transfer'[Fresh].buffer = b
       /\ transfer'[Fresh].last = last
       /\ transfer'[Fresh].data = data
       /\ transfer'[Fresh].stage = stage
  BY <1>9 DEF r
<1>11. Transfers' = Transfers \cup {Fresh} BY <1>2, <1>7 DEF Fresh
<1>12. Fresh \notin Transfers /\ Fresh \in Nat BY <1>2 DEF Fresh
<1>13. \A u \in Transfers : u \in Nat /\ u < Fresh BY <1>2 DEF Fresh
<1> QED BY <1>5, <1>8, <1>10, <1>11, <1>12, <1>13

----------------------------------------------------------------------------
(***************************************************************************)
(* What the changes to the stream do.                                      *)
(***************************************************************************)

\* The types, element by element.
LEMMA Elements ==
    ASSUME TypeOK
    PROVE  /\ Len(transfer) \in Nat /\ Transfers = 1..Len(transfer)
           /\ \A t \in Transfers :
                 /\ t \in Nat
                 /\ transfer[t].buffer \in Buffers
                 /\ transfer[t].last \in BOOLEAN
                 /\ transfer[t].data \in {"none", "host", "device"}
                 /\ transfer[t].stage \in {"pool", "enqueued", "cleaned", "done"}
           /\ Len(stream) \in Nat /\ DOMAIN stream = 1..Len(stream)
           /\ \A i \in DOMAIN stream :
                 /\ i \in Nat
                 /\ stream[i].kind \in {"copy", "callback"}
                 /\ stream[i].transfer \in Transfers
<1>1. transfer \in Seq(TransferRecord) BY DEF TypeOK
<1>2. Len(transfer) \in Nat /\ Transfers = 1..Len(transfer) BY <1>1 DEF Transfers
<1>3. \A t \in Transfers : transfer[t] \in TransferRecord BY <1>1, <1>2
<1>4. stream \in Seq(Item) BY DEF TypeOK, Item
<1>5. Len(stream) \in Nat /\ DOMAIN stream = 1..Len(stream) BY <1>4
<1>6. \A i \in DOMAIN stream : stream[i] \in Item BY <1>4, <1>5
<1>7. \A t \in Transfers :
        /\ t \in Nat
        /\ transfer[t].buffer \in Buffers
        /\ transfer[t].last \in BOOLEAN
        /\ transfer[t].data \in {"none", "host", "device"}
        /\ transfer[t].stage \in {"pool", "enqueued", "cleaned", "done"}
  BY <1>2, <1>3 DEF TransferRecord
<1>8. \A i \in DOMAIN stream :
        /\ i \in Nat
        /\ stream[i].kind \in {"copy", "callback"}
        /\ stream[i].transfer \in Transfers
  BY <1>5, <1>6 DEF Item
<1> QED BY <1>2, <1>5, <1>7, <1>8

\* A queue stays one while transfers are added.
LEMMA StreamKept ==
    ASSUME TypeOK, Transfers \subseteq Transfers', UNCHANGED stream
    PROVE  stream' \in Seq([kind : {"copy", "callback"}, transfer : Transfers'])
<1>1. stream \in Seq(Item) BY DEF TypeOK, Item
<1>2. Len(stream) \in Nat /\ stream \in [1..Len(stream) -> Item] BY <1>1
<1>3. Item \subseteq Item' BY DEF Item
<1>4. stream \in [1..Len(stream) -> Item'] BY <1>2, <1>3
<1>5. stream \in Seq(Item') BY <1>2, <1>4, FunctionIsSeq
<1> QED BY <1>5 DEF Item

\* One item is enqueued.
LEMMA StreamGrows ==
    ASSUME TypeOK, Transfers \subseteq Transfers',
           NEW k \in {"copy", "callback"}, NEW t \in Transfers',
           stream' = Append(stream, [kind |-> k, transfer |-> t])
    PROVE  /\ stream' \in Seq([kind : {"copy", "callback"}, transfer : Transfers'])
           /\ Len(stream) + 1 \notin DOMAIN stream
           /\ DOMAIN stream' = DOMAIN stream \cup {Len(stream) + 1}
           /\ \A i \in DOMAIN stream : stream'[i] = stream[i] /\ i < Len(stream) + 1
           /\ stream'[Len(stream) + 1].kind = k
           /\ stream'[Len(stream) + 1].transfer = t
<1> DEFINE x == [kind |-> k, transfer |-> t]
<1>1. stream \in Seq(Item) BY DEF TypeOK, Item
<1>2. Len(stream) \in Nat /\ stream \in [1..Len(stream) -> Item] BY <1>1
<1>3. Item \subseteq Item' BY DEF Item
<1>4. stream \in [1..Len(stream) -> Item'] BY <1>2, <1>3
<1>5. stream \in Seq(Item') BY <1>2, <1>4, FunctionIsSeq
<1>6. x \in Item' BY DEF Item
<1>7. x.kind = k /\ x.transfer = t OBVIOUS
<1>8. stream' = Append(stream, x) OBVIOUS
<1> HIDE DEF x
<1>9. stream' \in Seq(Item') /\ Len(stream') = Len(stream) + 1 BY <1>5, <1>6, <1>8
<1>10. stream'[Len(stream) + 1] = x BY <1>5, <1>6, <1>8
<1>11. \A i \in 1..Len(stream) : stream'[i] = stream[i] BY <1>5, <1>6, <1>8
<1>12. DOMAIN stream = 1..Len(stream) BY <1>2
<1>13. DOMAIN stream' = 1..(Len(stream) + 1) BY <1>9
<1>14. DOMAIN stream' = DOMAIN stream \cup {Len(stream) + 1} BY <1>2, <1>12, <1>13
<1>15. stream' \in Seq([kind : {"copy", "callback"}, transfer : Transfers'])
  BY <1>9 DEF Item
<1> QED BY <1>2, <1>7, <1>10, <1>11, <1>12, <1>14, <1>15

\* The item at the head is gone.
LEMMA StreamShrinks ==
    ASSUME TypeOK, stream # <<>>, stream' = Tail(stream), Transfers' = Transfers
    PROVE  /\ stream' \in Seq([kind : {"copy", "callback"}, transfer : Transfers'])
           /\ 1 \in DOMAIN stream /\ Head(stream) = stream[1]
           /\ \A i \in DOMAIN stream' :
                 i \in Nat /\ i + 1 \in DOMAIN stream /\ i + 1 # 1 /\ stream'[i] = stream[i + 1]
           /\ \A i \in DOMAIN stream :
                 i # 1 => i - 1 \in DOMAIN stream' /\ stream'[i - 1] = stream[i]
<1>1. stream \in Seq(Item) BY DEF TypeOK, Item
<1>2. Len(stream) \in Nat /\ DOMAIN stream = 1..Len(stream) /\ Len(stream) > 0 BY <1>1
<1>3. stream' \in Seq(Item) /\ Len(stream') = Len(stream) - 1 BY <1>1, <1>2
<1>4. DOMAIN stream' = 1..(Len(stream) - 1) BY <1>3
<1>5. \A i \in 1..(Len(stream) - 1) : stream'[i] = stream[i + 1] BY <1>1, <1>2, <1>3
<1>6. stream' \in Seq([kind : {"copy", "callback"}, transfer : Transfers'])
  BY <1>3 DEF Item
<1>7. Head(stream) = stream[1] BY <1>1
<1>8. \A i \in DOMAIN stream' :
        i \in Nat /\ i + 1 \in DOMAIN stream /\ i + 1 # 1 /\ stream'[i] = stream[i + 1]
  BY <1>2, <1>4, <1>5
<1>9. \A i \in DOMAIN stream :
        i # 1 => i - 1 \in DOMAIN stream' /\ stream'[i - 1] = stream[i]
  BY <1>2, <1>4, <1>5
<1> QED BY <1>2, <1>6, <1>7, <1>8, <1>9

\* The sets that are counted are finite.
LEMMA CountedSets ==
    ASSUME TypeOK
    PROVE  IsFiniteSet(PendingTransfers) /\ IsFiniteSet(UndefinedBuffers)
<1>1. Len(transfer) \in Nat /\ Transfers = 1..Len(transfer) BY Elements
<1>2. IsFiniteSet(Transfers) BY <1>1, FS_Interval
<1>3. IsFiniteSet(PendingTransfers) BY <1>2, FS_Subset DEF PendingTransfers
<1>4. IsFiniteSet(UndefinedBuffers) BY FS_Subset, AsyncAssumption DEF UndefinedBuffers
<1> QED BY <1>3, <1>4

----------------------------------------------------------------------------
(***************************************************************************)
(* The invariant holds initially and every action preserves it.            *)
(***************************************************************************)

\* A new manager: no transfers, and every buffer counted.
LEMMA InitHolds == Init => TransferInv
<1> SUFFICES ASSUME Init PROVE TransferInv OBVIOUS
<1>1. transfer = <<>> /\ stream = <<>> /\ calls = {} BY DEF Init
<1>2. Transfers = {} /\ DOMAIN stream = {} BY <1>1 DEF Transfers
<1>3. UndefinedBuffers = Buffers BY DEF Init, UndefinedBuffers
<1>4. PendingTransfers = {} BY <1>2 DEF PendingTransfers
<1>5. Cardinality(PendingTransfers) = 0 BY <1>4, FS_EmptySet
<1>6. Cardinality(Buffers) \in Nat BY FS_CardinalityType, AsyncAssumption
<1>7. TypeOK
  <2>1. transfer \in Seq(TransferRecord) BY <1>1
  <2>2. stream \in Seq([kind : {"copy", "callback"}, transfer : Transfers]) BY <1>1
  <2> QED BY <2>1, <2>2, <1>1, <1>6 DEF Init, TypeOK
<1>8. QueueInv
  BY <1>1, <1>2, <1>7 DEF QueueInv, LastIsFinal, Places, CopiesOnStream,
     CallbacksOnStream, ItemsOnce, UncopiedOnStream, CallbackAfterCopies, CopiesInOrder
<1>9. Counts BY <1>1, <1>3, <1>5 DEF Init, Counts
<1>10. RecordedByLast BY DEF Init, RecordedByLast
<1>11. DefinedAfterTransfers /\ CopiedInOrder
  BY <1>2 DEF DefinedAfterTransfers, CopiedInOrder
<1> QED BY <1>8, <1>9, <1>10, <1>11 DEF TransferInv

\* The actions that touch neither the transfers nor the stream.
LEMMA QueueUnmoved ==
    ASSUME QueueInv, UNCHANGED <<transfer, stream, calls>>, TypeOK', LastIsFinal'
    PROVE  QueueInv' /\ Transfers' = Transfers
  BY DEF QueueInv, Transfers, Places, CopiesOnStream, CallbacksOnStream, ItemsOnce,
     UncopiedOnStream, CallbackAfterCopies, CopiesInOrder, CopyAt, Uncopied, Cleaned,
     SameBuffer

\* The handle of a buffer goes from the manager to the client, or is given up or donated.
LEMMA HandleMoves ==
    ASSUME TransferInv, NEW b \in Buffers, NEW h \in {"client", "donated", "deleted"},
           handle' = [handle EXCEPT ![b] = h],
           UNCHANGED <<manager, buffer_ptrs, last_transfer_started, definition,
                       transfers_in_flight, remaining_buffer_count, transfer, calls, stream>>
    PROVE  TransferInv'
<1>1. TypeOK' BY DEF TransferInv, QueueInv, TypeOK, Transfers
<1>2. LastIsFinal' BY DEF TransferInv, QueueInv, LastIsFinal, Transfers, SameBuffer
<1>3. QueueInv' BY <1>1, <1>2, QueueUnmoved DEF TransferInv
<1>4. DefinedAfterTransfers' /\ CopiedInOrder'
  BY DEF TransferInv, DefinedAfterTransfers, CopiedInOrder, Transfers, Uncopied, Copied
<1>5. RecordedByLast' /\ Counts'
  BY DEF TransferInv, RecordedByLast, Counts, Transfers, Cleaned, PendingTransfers,
     Pending, UndefinedBuffers
<1> QED BY <1>3, <1>4, <1>5 DEF TransferInv

\* A refused call announces a last transfer that never comes.
LEMMA LastTransferRefusedStep ==
    ASSUME TransferInv, NEW b \in Buffers, LastTransferRefused(b)
    PROVE  TransferInv'
<1>1. TypeOK' BY DEF TransferInv, QueueInv, TypeOK, Transfers, LastTransferRefused
<1>2. LastIsFinal'
  BY DEF TransferInv, QueueInv, TypeOK, LastIsFinal, Transfers, SameBuffer,
     LastTransferRefused
<1>3. QueueInv' BY <1>1, <1>2, QueueUnmoved DEF TransferInv, LastTransferRefused
<1>4. DefinedAfterTransfers' /\ CopiedInOrder'
  BY DEF TransferInv, DefinedAfterTransfers, CopiedInOrder, Transfers,
     Uncopied, Copied, Donated, LastTransferRefused
<1>5. RecordedByLast' /\ Counts'
  BY DEF TransferInv, RecordedByLast, Counts, Transfers, Cleaned, PendingTransfers,
     Pending, UndefinedBuffers, LastTransferRefused
<1> QED BY <1>3, <1>4, <1>5 DEF TransferInv

\* An error is set for a buffer without a last transfer, which is not recorded.
LEMMA SetBufferErrorStep ==
    ASSUME TransferInv, NEW b \in Buffers, SetBufferError(b)
    PROVE  TransferInv'
<1>1. TypeOK' BY DEF TransferInv, QueueInv, TypeOK, Transfers, SetBufferError
<1>2. LastIsFinal'
  BY DEF TransferInv, QueueInv, TypeOK, LastIsFinal, Transfers, SameBuffer,
     SetBufferError, Into
<1>3. QueueInv' BY <1>1, <1>2, QueueUnmoved DEF TransferInv, SetBufferError
<1>4. definition \in [Buffers -> {"none", "recorded", "error"}]
      /\ definition' = [definition EXCEPT ![b] = "error"]
  BY DEF TransferInv, QueueInv, TypeOK, SetBufferError
<1>5. DefinedAfterTransfers' /\ CopiedInOrder'
  BY <1>4 DEF TransferInv, DefinedAfterTransfers, CopiedInOrder, Transfers,
     Uncopied, Copied, Donated, SetBufferError
<1>6. definition[b] # "recorded"
  BY DEF TransferInv, RecordedByLast, SetBufferError, Into
<1>7. UndefinedBuffers' = UndefinedBuffers BY <1>4, <1>6 DEF UndefinedBuffers
<1>8. Counts'
  BY <1>7 DEF TransferInv, Counts, Transfers, PendingTransfers, Pending, SetBufferError
<1>9. RecordedByLast'
  BY <1>4, <1>6 DEF TransferInv, RecordedByLast, Transfers, Cleaned, SetBufferError
<1> QED BY <1>3, <1>5, <1>8, <1>9 DEF TransferInv

\* The destructor is entered while no call is in progress.
LEMMA DestroyStep ==
    ASSUME TransferInv, Destroy
    PROVE  TransferInv'
<1>1. TypeOK' BY DEF TransferInv, QueueInv, TypeOK, Transfers, Destroy, state
<1>2. LastIsFinal' BY DEF TransferInv, QueueInv, LastIsFinal, Transfers, SameBuffer,
     Destroy, state
<1>3. QueueInv' BY <1>1, <1>2, QueueUnmoved DEF TransferInv, Destroy
<1>4. DefinedAfterTransfers' /\ CopiedInOrder'
  BY DEF TransferInv, DefinedAfterTransfers, CopiedInOrder, Transfers,
     Uncopied, Copied, Donated, Destroy, state
<1>5. RecordedByLast' /\ Counts'
  BY DEF TransferInv, RecordedByLast, Counts, Transfers, Cleaned, PendingTransfers,
     Pending, UndefinedBuffers, Destroy, state
<1> QED BY <1>3, <1>4, <1>5 DEF TransferInv

\* The destructor returns once nothing is in flight.
LEMMA TransfersFinishedStep ==
    ASSUME TransferInv, TransfersFinished
    PROVE  TransferInv'
<1>1. TypeOK' BY DEF TransferInv, QueueInv, TypeOK, Transfers, TransfersFinished
<1>2. LastIsFinal'
  BY DEF TransferInv, QueueInv, LastIsFinal, Transfers, SameBuffer, TransfersFinished
<1>3. QueueInv' BY <1>1, <1>2, QueueUnmoved DEF TransferInv, TransfersFinished
<1>4. DefinedAfterTransfers' /\ CopiedInOrder'
  BY DEF TransferInv, DefinedAfterTransfers, CopiedInOrder, Transfers,
     Uncopied, Copied, TransfersFinished
<1>5. RecordedByLast' /\ Counts'
  BY DEF TransferInv, RecordedByLast, Counts, Transfers, Cleaned, PendingTransfers,
     Pending, UndefinedBuffers, TransfersFinished
<1>6. \A t \in Transfers : transfer[t].buffer \in Buffers
  BY Elements DEF TransferInv, QueueInv
<1> QED BY <1>3, <1>4, <1>5 DEF TransferInv

\* Nothing is accepted for a buffer whose last transfer was announced, so what
\* is true of the accepted transfers stays true.
LEMMA AcceptedStep ==
    ASSUME TransferInv, manager = "live", NEW b \in Buffers, NEW last \in BOOLEAN,
           NEW data \in {"none", "host"}, NEW stage \in {"pool", "enqueued"},
           Transferable(b), ~Donated(b), Accepted(b, last, data, stage),
           last_transfer_started' = [last_transfer_started EXCEPT ![b] = last],
           UNCHANGED <<manager, handle, buffer_ptrs, definition, remaining_buffer_count>>
    PROVE  /\ LastIsFinal' /\ DefinedAfterTransfers' /\ CopiedInOrder'
           /\ RecordedByLast'
           /\ transfers_in_flight' = Cardinality(PendingTransfers')
           /\ remaining_buffer_count' = Cardinality(UndefinedBuffers')
           /\ transfers_in_flight' \in Nat
<1>0. TypeOK BY DEF TransferInv, QueueInv
<1>1. /\ Transfers' = Transfers \cup {Fresh}
      /\ Fresh \notin Transfers
      /\ Fresh \in Nat
      /\ \A u \in Transfers : u \in Nat /\ u < Fresh
      /\ \A u \in Transfers : transfer'[u] = transfer[u]
      /\ transfer'[Fresh].buffer = b
      /\ transfer'[Fresh].last = last
      /\ transfer'[Fresh].data = data
      /\ transfer'[Fresh].stage = stage
  BY <1>0, AcceptedFacts
<1>2. /\ last_transfer_started \in [Buffers -> BOOLEAN]
      /\ \A t \in Transfers : transfer[t].buffer \in Buffers
  BY <1>0, Elements DEF TypeOK
<1>3. \A t \in Transfers : transfer[t].buffer = b => ~transfer[t].last
  BY DEF TransferInv, QueueInv, LastIsFinal, Transferable
<1>4. definition[b] # "recorded" /\ definition[b] # "error"
  BY <1>3 DEF TransferInv, RecordedByLast, Transferable
<1>5. LastIsFinal'
  <2> SUFFICES ASSUME NEW t \in Transfers', transfer'[t].last
               PROVE  /\ last_transfer_started'[transfer'[t].buffer]
                      /\ definition'[transfer'[t].buffer] # "error"
                      /\ \A u \in Transfers' : SameBuffer(t, u)' => u <= t
    BY DEF LastIsFinal
  <2>1. CASE t = Fresh
    <3>1. last BY <1>1, <2>1
    <3>2. last_transfer_started'[b] BY <1>2, <3>1
    <3> QED BY <1>1, <1>4, <2>1, <3>2
  <2>2. CASE t \in Transfers
    <3>1. transfer'[t] = transfer[t] /\ transfer[t].buffer # b BY <1>1, <1>3, <2>2
    <3>2. /\ last_transfer_started[transfer[t].buffer]
          /\ definition[transfer[t].buffer] # "error"
          /\ \A u \in Transfers : SameBuffer(t, u) => u <= t
      BY <2>2, <3>1 DEF TransferInv, QueueInv, LastIsFinal
    <3> QED BY <1>1, <1>2, <2>2, <3>1, <3>2 DEF SameBuffer
  <2> QED BY <1>1, <2>1, <2>2
<1>6. DefinedAfterTransfers'
  BY <1>1, <1>4 DEF TransferInv, DefinedAfterTransfers, Uncopied
<1>7. CopiedInOrder' BY <1>1 DEF TransferInv, CopiedInOrder, Uncopied, Copied
<1>8. RecordedByLast' BY <1>1 DEF TransferInv, RecordedByLast, Cleaned
<1>10. PendingTransfers' = PendingTransfers \cup {Fresh}
  BY <1>1 DEF PendingTransfers, Pending
<1>11. Fresh \notin PendingTransfers BY <1>1 DEF PendingTransfers
<1>12. /\ Cardinality(PendingTransfers') = Cardinality(PendingTransfers) + 1
       /\ Cardinality(PendingTransfers) \in Nat
  BY <1>0, <1>10, <1>11, CountedSets, FS_AddElement, FS_CardinalityType
<1>13. UndefinedBuffers' = UndefinedBuffers BY DEF UndefinedBuffers
<1>14. transfers_in_flight' = Cardinality(PendingTransfers') /\ transfers_in_flight' \in Nat
  BY <1>12 DEF TransferInv, Counts, Accepted
<1>15. remaining_buffer_count' = Cardinality(UndefinedBuffers')
  BY <1>13 DEF TransferInv, Counts
<1> QED BY <1>5, <1>6, <1>7, <1>8, <1>14, <1>15

\* A literal goes to the pool and leaves the stream alone.
LEMMA TransferLiteralStep ==
    ASSUME TransferInv, NEW b \in Buffers, TransferLiteralToBuffer(b)
    PROVE  TransferInv'
<1>0. TypeOK BY DEF TransferInv, QueueInv
<1>1. /\ Accepted(b, TRUE, "host", "pool") /\ manager = "live"
      /\ last_transfer_started' = [last_transfer_started EXCEPT ![b] = TRUE]
      /\ Transferable(b) /\ ~Donated(b)
      /\ UNCHANGED <<manager, handle, buffer_ptrs, definition, remaining_buffer_count>>
      /\ UNCHANGED <<calls, stream>>
  BY DEF TransferLiteralToBuffer, Callable
<1>2. /\ LastIsFinal' /\ DefinedAfterTransfers' /\ CopiedInOrder'
      /\ RecordedByLast'
      /\ transfers_in_flight' = Cardinality(PendingTransfers')
      /\ remaining_buffer_count' = Cardinality(UndefinedBuffers')
      /\ transfers_in_flight' \in Nat
  BY <1>1, AcceptedStep
<1>3. /\ transfer' \in Seq(TransferRecord)
      /\ Transfers' = Transfers \cup {Fresh}
      /\ Fresh \notin Transfers /\ Fresh \in Nat
      /\ \A u \in Transfers : u \in Nat /\ u < Fresh
      /\ \A u \in Transfers : transfer'[u] = transfer[u]
      /\ transfer'[Fresh].last = TRUE
      /\ transfer'[Fresh].data = "host"
      /\ transfer'[Fresh].stage = "pool"
  BY <1>0, <1>1, AcceptedFacts
<1>4. stream' \in Seq([kind : {"copy", "callback"}, transfer : Transfers'])
  BY <1>0, <1>1, <1>3, StreamKept
<1>5. TypeOK' BY <1>0, <1>1, <1>2, <1>3, <1>4 DEF TypeOK
<1>6. calls \subseteq Transfers BY <1>0 DEF TypeOK
<1>7. /\ \A i \in DOMAIN stream : stream[i].transfer \in Transfers
      /\ \A i \in DOMAIN stream : i \in Nat
      /\ stream' = stream /\ calls' = calls
  BY <1>0, <1>1, Elements
<1>8. Places' BY <1>3, <1>6, <1>7 DEF TransferInv, QueueInv, Places, Uncopied, Cleaned
<1>9. CopiesOnStream' /\ CallbacksOnStream' /\ ItemsOnce'
  BY <1>3, <1>7 DEF TransferInv, QueueInv, CopiesOnStream, CallbacksOnStream,
     ItemsOnce, Uncopied
<1>10. UncopiedOnStream'
  BY <1>3, <1>7 DEF TransferInv, QueueInv, UncopiedOnStream, Uncopied, CopyAt
<1>11. CallbackAfterCopies'
  <2> SUFFICES ASSUME NEW i \in DOMAIN stream, NEW u \in Transfers',
                      stream[i].kind = "callback", u <= stream[i].transfer,
                      transfer'[stream[i].transfer].buffer = transfer'[u].buffer,
                      transfer'[u].data = "host"
               PROVE  \E j \in DOMAIN stream : j < i /\ CopyAt(j, u)
    BY <1>7 DEF CallbackAfterCopies, SameBuffer, Uncopied, CopyAt
  <2>1. stream[i].transfer \in Transfers /\ u \in Transfers BY <1>3, <1>7
  <2>2. SameBuffer(stream[i].transfer, u) /\ Uncopied(u)
    BY <1>3, <2>1 DEF SameBuffer, Uncopied
  <2> QED BY <2>1, <2>2 DEF TransferInv, QueueInv, CallbackAfterCopies
<1>12. CopiesInOrder'
  BY <1>3, <1>7 DEF TransferInv, QueueInv, CopiesInOrder, SameBuffer
<1>13. Counts' BY <1>1, <1>2 DEF TransferInv, Counts
<1> QED BY <1>2, <1>5, <1>8, <1>9, <1>10, <1>11, <1>12, <1>13 DEF TransferInv, QueueInv

\* Raw data goes to the end of the stream, if there is any.
LEMMA TransferRawDataStep ==
    ASSUME TransferInv, NEW b \in Buffers, NEW last \in BOOLEAN, NEW empty \in BOOLEAN,
           TransferRawDataToSubBuffer(b, last, empty)
    PROVE  TransferInv'
<1> DEFINE data == IF empty THEN "none" ELSE "host"
<1>0. TypeOK BY DEF TransferInv, QueueInv
<1>1. /\ Accepted(b, last, data, "enqueued") /\ manager = "live"
      /\ last_transfer_started' = [last_transfer_started EXCEPT ![b] = last]
      /\ Transferable(b) /\ ~Donated(b)
      /\ UNCHANGED <<manager, handle, buffer_ptrs, definition, remaining_buffer_count>>
      /\ stream' = IF empty THEN stream ELSE Append(stream, Copy(Fresh))
      /\ calls' = calls \cup {Fresh}
  BY DEF TransferRawDataToSubBuffer, Callable, Fresh
<1>d. data \in {"none", "host"} /\ (data = "host" <=> ~empty) OBVIOUS
<1> HIDE DEF data
<1>2. /\ LastIsFinal' /\ DefinedAfterTransfers' /\ CopiedInOrder'
      /\ RecordedByLast'
      /\ transfers_in_flight' = Cardinality(PendingTransfers')
      /\ remaining_buffer_count' = Cardinality(UndefinedBuffers')
      /\ transfers_in_flight' \in Nat
  BY <1>1, <1>d, AcceptedStep
<1>3. /\ transfer' \in Seq(TransferRecord)
      /\ Transfers' = Transfers \cup {Fresh}
      /\ Fresh \notin Transfers /\ Fresh \in Nat
      /\ \A u \in Transfers : u \in Nat /\ u < Fresh
      /\ \A u \in Transfers : transfer'[u] = transfer[u]
      /\ transfer'[Fresh].data = data
      /\ transfer'[Fresh].stage = "enqueued"
  BY <1>0, <1>1, <1>d, AcceptedFacts
<1>4. /\ \A i \in DOMAIN stream : i \in Nat /\ stream[i].transfer \in Transfers
      /\ Len(stream) \in Nat
  BY <1>0, Elements
<1>5. /\ stream' \in Seq([kind : {"copy", "callback"}, transfer : Transfers'])
      /\ DOMAIN stream \subseteq DOMAIN stream'
      /\ \A i \in DOMAIN stream : stream'[i] = stream[i]
      /\ \A i \in DOMAIN stream' : i \notin DOMAIN stream =>
            /\ i = Len(stream) + 1 /\ data = "host"
            /\ stream'[i].kind = "copy" /\ stream'[i].transfer = Fresh
            /\ \A j \in DOMAIN stream : j < i
      /\ data = "host" => \E i \in DOMAIN stream' :
            stream'[i].kind = "copy" /\ stream'[i].transfer = Fresh
  <2>1. CASE empty
    <3>1. stream' = stream BY <1>1, <2>1
    <3>2. stream' \in Seq([kind : {"copy", "callback"}, transfer : Transfers'])
      BY <1>0, <1>3, <3>1, StreamKept
    <3> QED BY <1>d, <2>1, <3>1, <3>2
  <2>2. CASE ~empty
    <3>1. stream' = Append(stream, [kind |-> "copy", transfer |-> Fresh])
      BY <1>1, <2>2 DEF Copy
    <3>2. Transfers \subseteq Transfers' /\ Fresh \in Transfers' BY <1>3
    <3>3. /\ stream' \in Seq([kind : {"copy", "callback"}, transfer : Transfers'])
          /\ Len(stream) + 1 \notin DOMAIN stream
          /\ DOMAIN stream' = DOMAIN stream \cup {Len(stream) + 1}
          /\ \A i \in DOMAIN stream : stream'[i] = stream[i] /\ i < Len(stream) + 1
          /\ stream'[Len(stream) + 1].kind = "copy"
          /\ stream'[Len(stream) + 1].transfer = Fresh
      BY <1>0, <3>1, <3>2, StreamGrows
    <3> QED BY <1>d, <2>2, <3>3 DEF CopyAt
  <2> QED BY <2>1, <2>2
<1>6. calls \subseteq Transfers BY <1>0 DEF TypeOK
<1>7. TypeOK' BY <1>0, <1>1, <1>2, <1>3, <1>5, <1>6 DEF TypeOK
<1>8. Places' BY <1>1, <1>3, <1>6 DEF TransferInv, QueueInv, Places, Uncopied, Cleaned
<1>9. CopiesOnStream'
  <2> SUFFICES ASSUME NEW i \in DOMAIN stream', stream'[i].kind = "copy"
               PROVE  /\ Uncopied(stream[i].transfer)'
                      /\ transfer'[stream'[i].transfer].stage = "enqueued"
    BY DEF CopiesOnStream
  <2>1. CASE i \in DOMAIN stream
    <3>1. stream'[i] = stream[i] /\ stream[i].transfer \in Transfers BY <1>4, <1>5, <2>1
    <3>2. Uncopied(stream[i].transfer) /\ transfer[stream[i].transfer].stage = "enqueued"
      BY <2>1, <3>1 DEF TransferInv, QueueInv, CopiesOnStream
    <3> QED BY <1>3, <3>1, <3>2 DEF Uncopied
  <2>2. CASE i \notin DOMAIN stream
    <3>1. stream'[i].transfer = Fresh /\ data = "host" BY <1>5, <2>2
    <3> QED BY <1>3, <3>1 DEF Uncopied
  <2> QED BY <2>1, <2>2
<1>10. CallbacksOnStream'
  BY <1>1, <1>3, <1>4, <1>5 DEF TransferInv, QueueInv, CallbacksOnStream, CopyAt
<1>11. ItemsOnce'
  <2> SUFFICES ASSUME NEW i \in DOMAIN stream', NEW j \in DOMAIN stream',
                      stream'[i].kind = stream'[j].kind,
                      stream'[i].transfer = stream'[j].transfer
               PROVE  i = j
    BY DEF ItemsOnce
  <2>1. CASE i \in DOMAIN stream /\ j \in DOMAIN stream
    <3>1. stream'[i] = stream[i] /\ stream'[j] = stream[j] BY <1>5, <2>1
    <3> QED BY <2>1, <3>1 DEF TransferInv, QueueInv, ItemsOnce
  <2>2. CASE i \notin DOMAIN stream /\ j \notin DOMAIN stream BY <1>5, <2>2
  <2>3. \A k \in DOMAIN stream : stream'[k].transfer # Fresh BY <1>3, <1>4, <1>5
  <2>4. \A k \in DOMAIN stream' : k \notin DOMAIN stream => stream'[k].transfer = Fresh
    BY <1>5
  <2> QED BY <2>1, <2>2, <2>3, <2>4
<1>12. UncopiedOnStream'
  <2> SUFFICES ASSUME NEW t \in Transfers', Uncopied(t)', transfer'[t].stage # "pool"
               PROVE  \E i \in DOMAIN stream' : CopyAt(i, t)'
    BY DEF UncopiedOnStream
  <2>1. CASE t = Fresh BY <1>3, <1>5, <2>1 DEF Uncopied, CopyAt
  <2>2. CASE t \in Transfers
    <3>1. PICK i \in DOMAIN stream : CopyAt(i, t)
      BY <1>3, <2>2 DEF TransferInv, QueueInv, UncopiedOnStream, Uncopied
    <3> QED BY <1>5, <3>1 DEF CopyAt
  <2> QED BY <1>3, <2>1, <2>2
<1>13. CallbackAfterCopies'
  <2> SUFFICES ASSUME NEW i \in DOMAIN stream', NEW u \in Transfers',
                      stream'[i].kind = "callback",
                      SameBuffer(stream[i].transfer, u)',
                      u <= stream'[i].transfer, Uncopied(u)'
               PROVE  \E j \in DOMAIN stream' : j < i /\ CopyAt(j, u)'
    BY DEF CallbackAfterCopies
  <2>1. i \in DOMAIN stream /\ stream'[i] = stream[i] BY <1>5 DEF CopyAt
  <2>2. stream[i].transfer \in Transfers /\ u \in Transfers BY <1>3, <1>4, <2>1
  <2>3. SameBuffer(stream[i].transfer, u) /\ Uncopied(u)
    BY <1>3, <2>1, <2>2 DEF SameBuffer, Uncopied
  <2>4. PICK j \in DOMAIN stream : j < i /\ CopyAt(j, u)
    BY <2>1, <2>2, <2>3 DEF TransferInv, QueueInv, CallbackAfterCopies
  <2> QED BY <1>5, <2>4 DEF CopyAt
<1>14. CopiesInOrder'
  <2> SUFFICES ASSUME NEW i \in DOMAIN stream', NEW j \in DOMAIN stream',
                      stream'[i].kind = "copy", stream'[j].kind = "copy",
                      SameBuffer(stream[i].transfer, stream[j].transfer)',
                      stream'[i].transfer < stream'[j].transfer
               PROVE  i < j
    BY DEF CopiesInOrder
  <2>1. i \in DOMAIN stream BY <1>3, <1>4, <1>5 DEF CopyAt
  <2>2. CASE j \in DOMAIN stream
    <3>1. stream'[i] = stream[i] /\ stream'[j] = stream[j] BY <1>5, <2>1, <2>2
    <3>2. SameBuffer(stream[i].transfer, stream[j].transfer)
      BY <1>3, <1>4, <2>1, <2>2, <3>1 DEF SameBuffer
    <3> QED BY <2>1, <2>2, <3>1, <3>2 DEF TransferInv, QueueInv, CopiesInOrder
  <2>3. CASE j \notin DOMAIN stream BY <1>5, <2>1, <2>3
  <2> QED BY <2>2, <2>3
<1>15. Counts' BY <1>1, <1>2 DEF TransferInv, Counts
<1> QED BY <1>2, <1>7, <1>8, <1>9, <1>10, <1>11, <1>12, <1>13, <1>14, <1>15
        DEF TransferInv, QueueInv

\* The facts about a callback at the head of the stream.
LEMMA CallbackAtHead ==
    ASSUME TransferInv, NEW t \in Transfers, stream # <<>>, Head(stream) = HostCallback(t)
    PROVE  /\ 1 \in DOMAIN stream
           /\ stream[1].kind = "callback" /\ stream[1].transfer = t
           /\ t \notin calls
           /\ \A u \in Transfers : SameBuffer(t, u) /\ u <= t => ~Uncopied(u)
           /\ \A i \in DOMAIN stream :
                 i # 1 /\ stream[i].kind = "callback" => stream[i].transfer # t
           /\ \A i \in DOMAIN stream : stream[i].kind = "copy" => stream[i].transfer # t
<1>1. TypeOK BY DEF TransferInv, QueueInv
<1>2. stream \in Seq(Item) BY <1>1 DEF TypeOK, Item
<1>3. 1 \in DOMAIN stream /\ Head(stream) = stream[1] BY <1>2
<1>4. stream[1].kind = "callback" /\ stream[1].transfer = t BY <1>3 DEF HostCallback
<1>5. \A i \in DOMAIN stream : i \in Nat /\ i >= 1 BY <1>1, Elements
<1>6. \A u \in Transfers : SameBuffer(t, u) /\ u <= t => ~Uncopied(u)
  BY <1>3, <1>4, <1>5 DEF TransferInv, QueueInv, CallbackAfterCopies
<1>7. ~Uncopied(t) BY <1>1, <1>6, Elements DEF SameBuffer
<1>8. \A i \in DOMAIN stream : stream[i].kind = "copy" => stream[i].transfer # t
  BY <1>7 DEF TransferInv, QueueInv, CopiesOnStream
<1>9. t \notin calls BY <1>3, <1>4 DEF TransferInv, QueueInv, CallbacksOnStream
<1>10. \A i \in DOMAIN stream :
         i # 1 /\ stream[i].kind = "callback" => stream[i].transfer # t
  BY <1>3, <1>4 DEF TransferInv, QueueInv, ItemsOnce
<1> QED BY <1>3, <1>4, <1>6, <1>8, <1>9, <1>10

\* The stage of a transfer is of no interest to most of the invariant.
LEMMA StageChange ==
    ASSUME TransferInv, NEW t \in Transfers,
           NEW s \in {"pool", "enqueued", "cleaned", "done"},
           transfer' = [transfer EXCEPT ![t].stage = s], UNCHANGED handle
    PROVE  CopiedInOrder'
<1>1. TypeOK BY DEF TransferInv, QueueInv
<1>2. /\ Transfers' = Transfers
      /\ \A u \in Transfers :
            /\ transfer'[u].buffer = transfer[u].buffer
            /\ transfer'[u].data = transfer[u].data
  BY <1>1, StageSet
<1>3. CopiedInOrder'
  <2>1. \A u \in Transfers : (Uncopied(u)' <=> Uncopied(u)) /\ (Copied(u)' <=> Copied(u))
    BY <1>2 DEF Uncopied, Copied
  <2> QED BY <1>2, <2>1 DEF TransferInv, CopiedInOrder
<1> QED BY <1>3

\* What is behind the head moves up, in the same order.
LEMMA StreamMovesUp ==
    ASSUME TransferInv, stream # <<>>, stream' = Tail(stream), Transfers' = Transfers,
           \A u \in Transfers : transfer'[u].buffer = transfer[u].buffer
    PROVE  ItemsOnce' /\ CopiesInOrder'
<1>0. TypeOK BY DEF TransferInv, QueueInv
<1>1. \A i \in DOMAIN stream' :
        i \in Nat /\ i + 1 \in DOMAIN stream /\ stream'[i] = stream[i + 1]
  BY <1>0, StreamShrinks
<1>2. \A i \in DOMAIN stream : stream[i].transfer \in Transfers BY <1>0, Elements
<1>3. ItemsOnce'
  <2> SUFFICES ASSUME NEW i \in DOMAIN stream', NEW j \in DOMAIN stream',
                      stream'[i].kind = stream'[j].kind,
                      stream'[i].transfer = stream'[j].transfer
               PROVE  i = j
    BY DEF ItemsOnce
  <2>1. i + 1 = j + 1 BY <1>1 DEF TransferInv, QueueInv, ItemsOnce
  <2> QED BY <1>1, <2>1
<1>4. CopiesInOrder'
  <2> SUFFICES ASSUME NEW i \in DOMAIN stream', NEW j \in DOMAIN stream',
                      stream'[i].kind = "copy", stream'[j].kind = "copy",
                      SameBuffer(stream[i].transfer, stream[j].transfer)',
                      stream'[i].transfer < stream'[j].transfer
               PROVE  i < j
    BY DEF CopiesInOrder
  <2>1. /\ i \in Nat /\ i + 1 \in DOMAIN stream /\ stream'[i] = stream[i + 1]
        /\ j \in Nat /\ j + 1 \in DOMAIN stream /\ stream'[j] = stream[j + 1]
    BY <1>1
  <2>2. SameBuffer(stream[i + 1].transfer, stream[j + 1].transfer)
    BY <1>2, <2>1 DEF SameBuffer
  <2>3. i + 1 < j + 1 BY <2>1, <2>2 DEF TransferInv, QueueInv, CopiesInOrder
  <2> QED BY <2>1, <2>3
<1> QED BY <1>3, <1>4

\* The callback leaves the stream after on_done.
LEMMA OnDoneStep ==
    ASSUME TransferInv, NEW t \in Transfers, OnDone(t)
    PROVE  TransferInv'
<1>0. TypeOK BY DEF TransferInv, QueueInv
<1>1. /\ stream # <<>> /\ Head(stream) = HostCallback(t)
      /\ transfer[t].stage = "cleaned"
      /\ transfer' = [transfer EXCEPT ![t].stage = "done"]
      /\ stream' = Tail(stream)
      /\ UNCHANGED <<manager, handle, buffer_ptrs, last_transfer_started, definition,
                     transfers_in_flight, remaining_buffer_count, calls>>
  BY DEF OnDone, state
<1>2. /\ transfer' \in Seq(TransferRecord)
      /\ Transfers' = Transfers
      /\ \A u \in Transfers :
            /\ transfer'[u].buffer = transfer[u].buffer
            /\ transfer'[u].last = transfer[u].last
            /\ transfer'[u].data = transfer[u].data
            /\ transfer'[u].stage = IF u = t THEN "done" ELSE transfer[u].stage
  BY <1>0, <1>1, StageSet
<1>3. /\ stream' \in Seq([kind : {"copy", "callback"}, transfer : Transfers'])
      /\ \A i \in DOMAIN stream' :
            i \in Nat /\ i + 1 \in DOMAIN stream /\ i + 1 # 1 /\ stream'[i] = stream[i + 1]
      /\ \A i \in DOMAIN stream :
            i # 1 => i - 1 \in DOMAIN stream' /\ stream'[i - 1] = stream[i]
  BY <1>0, <1>1, <1>2, StreamShrinks
<1>4. /\ 1 \in DOMAIN stream
      /\ stream[1].kind = "callback" /\ stream[1].transfer = t
      /\ t \notin calls
      /\ \A i \in DOMAIN stream :
            i # 1 /\ stream[i].kind = "callback" => stream[i].transfer # t
      /\ \A i \in DOMAIN stream : stream[i].kind = "copy" => stream[i].transfer # t
  BY <1>1, CallbackAtHead
<1>5. /\ \A i \in DOMAIN stream : i \in Nat /\ stream[i].transfer \in Transfers
      /\ \A u \in Transfers : u \in Nat
      /\ calls \subseteq Transfers
  BY <1>0, Elements DEF TypeOK
<1>6. TypeOK' BY <1>0, <1>1, <1>2, <1>3 DEF TypeOK
<1>7. LastIsFinal'
  BY <1>1, <1>2 DEF TransferInv, QueueInv, LastIsFinal, SameBuffer
<1>8. Places'
  BY <1>1, <1>2, <1>4, <1>5 DEF TransferInv, QueueInv, Places, Uncopied, Cleaned
<1>9. CopiesOnStream' /\ CallbacksOnStream'
  <2>1. CopiesOnStream'
    BY <1>2, <1>3, <1>4, <1>5 DEF TransferInv, QueueInv, CopiesOnStream, Uncopied
  <2>2. CallbacksOnStream'
    BY <1>1, <1>2, <1>3, <1>4, <1>5 DEF TransferInv, QueueInv, CallbacksOnStream
  <2> QED BY <2>1, <2>2
<1>10. ItemsOnce' /\ CopiesInOrder' BY <1>1, <1>2, StreamMovesUp
<1>11. \A i \in DOMAIN stream, u \in Transfers :
         CopyAt(i, u) => i # 1 /\ i - 1 \in DOMAIN stream' /\ CopyAt(i - 1, u)'
  BY <1>3, <1>4 DEF CopyAt
<1>12. UncopiedOnStream'
  <2> SUFFICES ASSUME NEW u \in Transfers, Uncopied(u), transfer'[u].stage # "pool"
               PROVE  \E i \in DOMAIN stream' : CopyAt(i, u)'
    BY <1>2 DEF UncopiedOnStream, Uncopied
  <2>1. transfer[u].stage # "pool" BY <1>1, <1>2
  <2>2. PICK i \in DOMAIN stream : CopyAt(i, u)
    BY <2>1 DEF TransferInv, QueueInv, UncopiedOnStream
  <2> QED BY <1>11, <2>2
<1>13. CallbackAfterCopies'
  <2> SUFFICES ASSUME NEW i \in DOMAIN stream', NEW u \in Transfers,
                      stream'[i].kind = "callback",
                      SameBuffer(stream[i].transfer, u)',
                      u <= stream'[i].transfer, Uncopied(u)
               PROVE  \E j \in DOMAIN stream' : j < i /\ CopyAt(j, u)'
    BY <1>2 DEF CallbackAfterCopies, Uncopied
  <2>1. i \in Nat /\ i + 1 \in DOMAIN stream /\ stream'[i] = stream[i + 1] BY <1>3
  <2>2. SameBuffer(stream[i + 1].transfer, u) BY <1>2, <1>5, <2>1 DEF SameBuffer
  <2>3. PICK j \in DOMAIN stream : j < i + 1 /\ CopyAt(j, u)
    BY <2>1, <2>2 DEF TransferInv, QueueInv, CallbackAfterCopies
  <2>4. j - 1 < i BY <1>5, <2>1, <2>3
  <2> QED BY <1>11, <2>3, <2>4
<1>14. CopiedInOrder' BY <1>1, StageChange
<1>15. DefinedAfterTransfers' /\ RecordedByLast'
  BY <1>1, <1>2 DEF TransferInv, DefinedAfterTransfers, RecordedByLast, Uncopied, Cleaned
<1>16. PendingTransfers' = PendingTransfers /\ UndefinedBuffers' = UndefinedBuffers
  BY <1>1, <1>2 DEF PendingTransfers, Pending, UndefinedBuffers
<1>17. Counts' BY <1>1, <1>16 DEF TransferInv, Counts
<1> QED BY <1>6, <1>7, <1>8, <1>9, <1>10, <1>12, <1>13, <1>14, <1>15, <1>17
        DEF TransferInv, QueueInv

\* The copy at the head of the stream is the oldest one into its buffer.
LEMMA ExecuteCopyStep ==
    ASSUME TransferInv, ExecuteCopy
    PROVE  TransferInv'
<1>0. TypeOK BY DEF TransferInv, QueueInv
<1>1. /\ stream # <<>> /\ Head(stream).kind = "copy"
      /\ transfer' = [transfer EXCEPT ![Head(stream).transfer].data = "device"]
      /\ stream' = Tail(stream)
      /\ UNCHANGED <<manager, handle, buffer_ptrs, last_transfer_started, definition,
                     transfers_in_flight, remaining_buffer_count, calls>>
  BY DEF ExecuteCopy, state
<1>2. /\ \A i \in DOMAIN stream : i \in Nat /\ i >= 1 /\ stream[i].transfer \in Transfers
      /\ \A u \in Transfers : u \in Nat
  BY <1>0, Elements
<1>3. 1 \in DOMAIN stream /\ Head(stream) = stream[1]
  <2>1. stream \in Seq(Item) BY <1>0 DEF TypeOK, Item
  <2> QED BY <1>1, <2>1
<1>4. PICK t \in Transfers : t = stream[1].transfer BY <1>2, <1>3
<1>5. CopyAt(1, t) /\ Uncopied(t) /\ transfer[t].stage = "enqueued"
  BY <1>1, <1>3, <1>4 DEF TransferInv, QueueInv, CopiesOnStream, CopyAt
<1>6. /\ transfer' \in Seq(TransferRecord)
      /\ Transfers' = Transfers
      /\ \A u \in Transfers :
            /\ transfer'[u].buffer = transfer[u].buffer
            /\ transfer'[u].last = transfer[u].last
            /\ transfer'[u].stage = transfer[u].stage
            /\ transfer'[u].data = IF u = t THEN "device" ELSE transfer[u].data
  BY <1>0, <1>1, <1>3, <1>4, DataSet
<1>7. /\ stream' \in Seq([kind : {"copy", "callback"}, transfer : Transfers'])
      /\ \A i \in DOMAIN stream' :
            i \in Nat /\ i + 1 \in DOMAIN stream /\ i + 1 # 1 /\ stream'[i] = stream[i + 1]
      /\ \A i \in DOMAIN stream :
            i # 1 => i - 1 \in DOMAIN stream' /\ stream'[i - 1] = stream[i]
  BY <1>0, <1>1, <1>6, StreamShrinks
<1>8. \A u \in Transfers : Uncopied(u)' <=> Uncopied(u) /\ u # t BY <1>6 DEF Uncopied
<1>9. \A i \in DOMAIN stream : i # 1 => ~CopyAt(i, t)
  BY <1>3, <1>5 DEF TransferInv, QueueInv, ItemsOnce, CopyAt
<1>10. \A i \in DOMAIN stream, u \in Transfers :
         CopyAt(i, u) /\ u # t => i # 1 /\ i - 1 \in DOMAIN stream' /\ CopyAt(i - 1, u)'
  BY <1>5, <1>7 DEF CopyAt
<1>11. TypeOK' BY <1>0, <1>1, <1>6, <1>7 DEF TypeOK
<1>12. LastIsFinal'
  BY <1>1, <1>6 DEF TransferInv, QueueInv, LastIsFinal, SameBuffer
<1>13. calls \subseteq Transfers BY <1>0 DEF TypeOK
<1>14. Places'
  BY <1>1, <1>5, <1>6, <1>8, <1>13 DEF TransferInv, QueueInv, Places, Cleaned
<1>15. CopiesOnStream'
  <2> SUFFICES ASSUME NEW i \in DOMAIN stream', stream'[i].kind = "copy"
               PROVE  /\ Uncopied(stream[i].transfer)'
                      /\ transfer'[stream'[i].transfer].stage = "enqueued"
    BY DEF CopiesOnStream
  <2>1. i + 1 \in DOMAIN stream /\ i + 1 # 1 /\ stream'[i] = stream[i + 1] BY <1>7
  <2>2. stream[i + 1].transfer # t BY <1>9, <2>1 DEF CopyAt
  <2>3. /\ Uncopied(stream[i + 1].transfer)
        /\ transfer[stream[i + 1].transfer].stage = "enqueued"
    BY <2>1 DEF TransferInv, QueueInv, CopiesOnStream
  <2> QED BY <1>2, <1>6, <2>1, <2>2, <2>3 DEF Uncopied
<1>16. CallbacksOnStream'
  BY <1>1, <1>2, <1>6, <1>7 DEF TransferInv, QueueInv, CallbacksOnStream
<1>17. ItemsOnce' /\ CopiesInOrder' BY <1>1, <1>6, StreamMovesUp
<1>18. UncopiedOnStream'
  <2> SUFFICES ASSUME NEW u \in Transfers, Uncopied(u), u # t, transfer[u].stage # "pool"
               PROVE  \E i \in DOMAIN stream' : CopyAt(i, u)'
    BY <1>6, <1>8 DEF UncopiedOnStream
  <2>1. PICK i \in DOMAIN stream : CopyAt(i, u)
    BY DEF TransferInv, QueueInv, UncopiedOnStream
  <2> QED BY <1>10, <2>1
<1>19. CallbackAfterCopies'
  <2> SUFFICES ASSUME NEW i \in DOMAIN stream', NEW u \in Transfers,
                      stream'[i].kind = "callback",
                      SameBuffer(stream[i].transfer, u)',
                      u <= stream'[i].transfer, Uncopied(u), u # t
               PROVE  \E j \in DOMAIN stream' : j < i /\ CopyAt(j, u)'
    BY <1>6, <1>8 DEF CallbackAfterCopies
  <2>1. i \in Nat /\ i + 1 \in DOMAIN stream /\ stream'[i] = stream[i + 1] BY <1>7
  <2>2. SameBuffer(stream[i + 1].transfer, u) BY <1>2, <1>6, <2>1 DEF SameBuffer
  <2>3. PICK j \in DOMAIN stream : j < i + 1 /\ CopyAt(j, u)
    BY <2>1, <2>2 DEF TransferInv, QueueInv, CallbackAfterCopies
  <2>4. j - 1 < i BY <1>2, <2>1, <2>3
  <2> QED BY <1>10, <2>3, <2>4
<1>20. \A u \in Transfers : u < t /\ SameBuffer(u, t) => ~Uncopied(u)
  <2> SUFFICES ASSUME NEW u \in Transfers, u < t, SameBuffer(u, t), Uncopied(u)
               PROVE  FALSE
    OBVIOUS
  <2>1. transfer[u].stage # "pool"
    BY <1>2 DEF TransferInv, QueueInv, Places, LastIsFinal
  <2>2. PICK i \in DOMAIN stream : CopyAt(i, u)
    BY <2>1 DEF TransferInv, QueueInv, UncopiedOnStream
  <2>3. i < 1 BY <1>3, <1>5, <2>2 DEF TransferInv, QueueInv, CopiesInOrder, CopyAt
  <2> QED BY <1>2, <2>3
<1>21. CopiedInOrder'
  BY <1>2, <1>6, <1>8, <1>20 DEF TransferInv, CopiedInOrder, Copied, SameBuffer
<1>22. DefinedAfterTransfers' /\ RecordedByLast'
  BY <1>1, <1>6, <1>8 DEF TransferInv, DefinedAfterTransfers, RecordedByLast,
     Cleaned, Donated
<1>23. PendingTransfers' = PendingTransfers /\ UndefinedBuffers' = UndefinedBuffers
  BY <1>1, <1>6 DEF PendingTransfers, Pending, UndefinedBuffers
<1>24. Counts' BY <1>1, <1>23 DEF TransferInv, Counts
<1> QED BY <1>11, <1>12, <1>14, <1>15, <1>16, <1>17, <1>18, <1>19, <1>21, <1>22, <1>24
        DEF TransferInv, QueueInv

\* The callback at the head of the stream has all the copies into its buffer
\* behind it; if it is the last transfer's, there are no others.
LEMMA CleanUpStep ==
    ASSUME TransferInv, NEW t \in Transfers, CleanUp(t)
    PROVE  TransferInv'
<1> DEFINE b == transfer[t].buffer
<1>0. TypeOK BY DEF TransferInv, QueueInv
<1>1. /\ stream # <<>> /\ Head(stream) = HostCallback(t)
      /\ transfer[t].stage = "enqueued"
      /\ transfers_in_flight' = transfers_in_flight - 1
      /\ transfer' = [transfer EXCEPT ![t].stage = "cleaned"]
      /\ UNCHANGED <<manager, handle, last_transfer_started, calls, stream>>
  BY DEF CleanUp
<1>2. /\ transfer[t].last => /\ buffer_ptrs' = [buffer_ptrs EXCEPT ![b] = FALSE]
                             /\ remaining_buffer_count' = remaining_buffer_count - 1
                             /\ definition' = [definition EXCEPT ![b] = "recorded"]
      /\ ~transfer[t].last => UNCHANGED <<buffer_ptrs, remaining_buffer_count, definition>>
  BY DEF CleanUp
<1>3. /\ transfer' \in Seq(TransferRecord)
      /\ Transfers' = Transfers
      /\ \A u \in Transfers :
            /\ transfer'[u].buffer = transfer[u].buffer
            /\ transfer'[u].last = transfer[u].last
            /\ transfer'[u].data = transfer[u].data
            /\ transfer'[u].stage = IF u = t THEN "cleaned" ELSE transfer[u].stage
  BY <1>0, <1>1, StageSet
<1>4. /\ 1 \in DOMAIN stream
      /\ stream[1].kind = "callback" /\ stream[1].transfer = t
      /\ t \notin calls
      /\ \A u \in Transfers : SameBuffer(t, u) /\ u <= t => ~Uncopied(u)
      /\ \A i \in DOMAIN stream :
            i # 1 /\ stream[i].kind = "callback" => stream[i].transfer # t
      /\ \A i \in DOMAIN stream : stream[i].kind = "copy" => stream[i].transfer # t
  BY <1>1, CallbackAtHead
<1>5. /\ \A i \in DOMAIN stream : i \in Nat /\ stream[i].transfer \in Transfers
      /\ \A u \in Transfers : u \in Nat /\ transfer[u].buffer \in Buffers
      /\ transfer[t].last \in BOOLEAN
      /\ calls \subseteq Transfers
      /\ definition \in [Buffers -> {"none", "recorded", "error"}]
      /\ buffer_ptrs \in [Buffers -> BOOLEAN]
  BY <1>0, Elements DEF TypeOK
<1>6. ~Uncopied(t) BY <1>4, <1>5 DEF SameBuffer
<1>7. transfer[t].last => definition[b] # "recorded" /\ definition[b] # "error"
  <2> SUFFICES ASSUME transfer[t].last, definition[b] = "recorded" PROVE FALSE
    BY DEF TransferInv, QueueInv, LastIsFinal
  <2>1. PICK u \in Transfers : transfer[u].last /\ Cleaned(u) /\ transfer[u].buffer = b
    BY <1>5 DEF TransferInv, RecordedByLast
  <2>2. u <= t /\ t <= u
    BY <2>1 DEF TransferInv, QueueInv, LastIsFinal, SameBuffer
  <2>3. u = t BY <1>5, <2>2
  <2> QED BY <1>1, <2>1, <2>3 DEF Cleaned
<1>8. \A c \in Buffers : definition'[c] =
         IF transfer[t].last /\ c = b THEN "recorded" ELSE definition[c]
  BY <1>2, <1>5
<1> HIDE DEF b
<1>9. t \in PendingTransfers BY <1>1 DEF PendingTransfers, Pending
<1>10. PendingTransfers' = PendingTransfers \ {t}
  BY <1>1, <1>3 DEF PendingTransfers, Pending
<1>11. /\ Cardinality(PendingTransfers') = Cardinality(PendingTransfers) - 1
       /\ Cardinality(PendingTransfers') \in Nat
       /\ Cardinality(PendingTransfers) \in Nat
  <2>1. IsFiniteSet(PendingTransfers) /\ IsFiniteSet(PendingTransfers \ {t})
    BY <1>0, CountedSets, FS_RemoveElement
  <2>2. /\ Cardinality(PendingTransfers) \in Nat
        /\ Cardinality(PendingTransfers \ {t}) \in Nat
    BY <2>1, FS_CardinalityType
  <2>3. Cardinality(PendingTransfers \ {t}) = Cardinality(PendingTransfers) - 1
    BY <1>9, <2>1, FS_RemoveElement
  <2> QED BY <1>10, <2>2, <2>3
<1>12. /\ transfers_in_flight' = Cardinality(PendingTransfers')
       /\ transfers_in_flight' \in Nat
       /\ manager # "destroyed"
  BY <1>1, <1>11 DEF TransferInv, Counts
<1>13. /\ remaining_buffer_count' = Cardinality(UndefinedBuffers')
       /\ remaining_buffer_count' \in Nat
  <2>1. CASE ~transfer[t].last
    <3>1. UndefinedBuffers' = UndefinedBuffers BY <1>2, <2>1 DEF UndefinedBuffers
    <3> QED BY <1>0, <1>2, <2>1, <3>1 DEF TransferInv, Counts, TypeOK
  <2>2. CASE transfer[t].last
    <3>1. UndefinedBuffers' = UndefinedBuffers \ {b}
      BY <1>8, <2>2 DEF UndefinedBuffers
    <3>2. b \in UndefinedBuffers BY <1>5, <1>7, <2>2 DEF UndefinedBuffers, b
    <3>3. IsFiniteSet(UndefinedBuffers) /\ IsFiniteSet(UndefinedBuffers \ {b})
      BY <1>0, CountedSets, FS_RemoveElement
    <3>4. /\ Cardinality(UndefinedBuffers) \in Nat
          /\ Cardinality(UndefinedBuffers \ {b}) \in Nat
      BY <3>3, FS_CardinalityType
    <3>5. Cardinality(UndefinedBuffers \ {b}) = Cardinality(UndefinedBuffers) - 1
      BY <3>2, <3>3, FS_RemoveElement
    <3> QED BY <1>2, <2>2, <3>1, <3>4, <3>5 DEF TransferInv, Counts
  <2> QED BY <2>1, <2>2
<1>14. Counts' BY <1>1, <1>12, <1>13 DEF TransferInv, Counts
<1>15. stream' \in Seq([kind : {"copy", "callback"}, transfer : Transfers'])
  BY <1>0, <1>1, <1>3, StreamKept
<1>16. /\ definition' \in [Buffers -> {"none", "recorded", "error"}]
       /\ buffer_ptrs' \in [Buffers -> BOOLEAN]
  BY <1>2, <1>5
<1>17. TypeOK' BY <1>0, <1>1, <1>3, <1>12, <1>13, <1>15, <1>16 DEF TypeOK
<1>18. LastIsFinal'
  BY <1>1, <1>3, <1>5, <1>8 DEF TransferInv, QueueInv, LastIsFinal, SameBuffer
<1>19. Places'
  BY <1>1, <1>3, <1>4, <1>5, <1>6 DEF TransferInv, QueueInv, Places, Cleaned, Uncopied
<1>20. CopiesOnStream' /\ CallbacksOnStream'
  BY <1>1, <1>3, <1>4, <1>5 DEF TransferInv, QueueInv, CopiesOnStream,
     CallbacksOnStream, Uncopied
<1>21. ItemsOnce' /\ UncopiedOnStream'
  BY <1>1, <1>3 DEF TransferInv, QueueInv, ItemsOnce, UncopiedOnStream, Uncopied, CopyAt
<1>22. CallbackAfterCopies'
  <2>1. stream' = stream BY <1>1
  <2>2. \A u \in Transfers : Uncopied(u)' <=> Uncopied(u) BY <1>3 DEF Uncopied
  <2>3. \A u, v \in Transfers : SameBuffer(u, v)' <=> SameBuffer(u, v)
    BY <1>3 DEF SameBuffer
  <2>4. \A i \in DOMAIN stream, u \in Transfers : CopyAt(i, u)' <=> CopyAt(i, u)
    BY <2>1 DEF CopyAt
  <2> SUFFICES ASSUME NEW i \in DOMAIN stream, NEW u \in Transfers,
                      stream[i].kind = "callback", SameBuffer(stream[i].transfer, u),
                      u <= stream[i].transfer, Uncopied(u)
               PROVE  \E j \in DOMAIN stream : j < i /\ CopyAt(j, u)
    <3>1. \A i \in DOMAIN stream, u \in Transfers :
             SameBuffer(stream[i].transfer, u)' <=> SameBuffer(stream[i].transfer, u)
      BY <1>5, <2>1, <2>3 DEF SameBuffer
    <3> QED BY <1>3, <2>1, <2>2, <2>4, <3>1 DEF CallbackAfterCopies
  <2> QED BY DEF TransferInv, QueueInv, CallbackAfterCopies
<1>23. CopiesInOrder'
  BY <1>1, <1>3, <1>5 DEF TransferInv, QueueInv, CopiesInOrder, SameBuffer
<1>24. DefinedAfterTransfers'
  <2> SUFFICES ASSUME NEW u \in Transfers, definition'[transfer[u].buffer] = "recorded"
               PROVE  ~Uncopied(u)
    BY <1>3 DEF DefinedAfterTransfers, Uncopied
  <2>1. CASE transfer[t].last /\ transfer[u].buffer = b
    BY <1>4, <2>1 DEF TransferInv, QueueInv, LastIsFinal, SameBuffer, b
  <2>2. CASE ~(transfer[t].last /\ transfer[u].buffer = b)
    BY <1>5, <1>8, <2>2 DEF TransferInv, DefinedAfterTransfers
  <2> QED BY <2>1, <2>2
<1>25. CopiedInOrder' BY <1>1, StageChange
<1>26. RecordedByLast'
  <2>1. \A c \in Buffers : definition'[c] = "recorded" =>
           \E u \in Transfers : transfer'[u].last /\ Cleaned(u)' /\ transfer'[u].buffer = c
    BY <1>3, <1>8 DEF TransferInv, RecordedByLast, Cleaned, b
  <2>2. \A c \in Buffers : buffer_ptrs'[c] <=> definition'[c] # "recorded"
    <3>1. \A c \in Buffers : buffer_ptrs[c] <=> definition[c] # "recorded"
      BY <1>12 DEF TransferInv, RecordedByLast
    <3> QED BY <1>2, <1>5, <1>8, <3>1
  <2> QED BY <1>3, <2>1, <2>2 DEF RecordedByLast
<1> QED BY <1>14, <1>17, <1>18, <1>19, <1>20, <1>21, <1>22, <1>23, <1>24, <1>25, <1>26
        DEF TransferInv, QueueInv

\* A callback is enqueued behind whatever its transfer needs.
LEMMA ThenDoHostCallbackStep ==
    ASSUME TransferInv, NEW t \in Transfers, ThenDoHostCallback(t)
    PROVE  TransferInv'
<1> DEFINE n == Len(stream) + 1
<1>0. TypeOK BY DEF TransferInv, QueueInv
<1>1. /\ t \in calls
      /\ stream' = Append(stream, [kind |-> "callback", transfer |-> t])
      /\ calls' = calls \ {t}
      /\ UNCHANGED <<manager, handle, buffer_ptrs, last_transfer_started, definition,
                     transfers_in_flight, remaining_buffer_count, transfer>>
  BY DEF ThenDoHostCallback, HostCallback, state
<1>2. Transfers' = Transfers BY <1>1 DEF Transfers
<1>3. /\ stream' \in Seq([kind : {"copy", "callback"}, transfer : Transfers'])
      /\ n \notin DOMAIN stream
      /\ DOMAIN stream' = DOMAIN stream \cup {n}
      /\ \A i \in DOMAIN stream : stream'[i] = stream[i] /\ i < n
      /\ stream'[n].kind = "callback"
      /\ stream'[n].transfer = t
  BY <1>0, <1>1, <1>2, StreamGrows
<1> HIDE DEF n
<1>4. transfer[t].stage = "enqueued" BY <1>1 DEF TransferInv, QueueInv, Places
<1>5. /\ \A i \in DOMAIN stream : i \in Nat /\ stream[i].transfer \in Transfers
      /\ \A u \in Transfers : u \in Nat
      /\ calls \subseteq Transfers
  BY <1>0, Elements DEF TypeOK
<1>6. TypeOK' BY <1>0, <1>1, <1>2, <1>3, <1>5 DEF TypeOK
<1>7. LastIsFinal' BY <1>1, <1>2 DEF TransferInv, QueueInv, LastIsFinal, SameBuffer
<1>8. Places' BY <1>1, <1>2 DEF TransferInv, QueueInv, Places, Uncopied, Cleaned
<1>9. CopiesOnStream'
  BY <1>1, <1>3 DEF TransferInv, QueueInv, CopiesOnStream, Uncopied
<1>10. CallbacksOnStream'
  BY <1>1, <1>3, <1>4 DEF TransferInv, QueueInv, CallbacksOnStream
<1>11. ItemsOnce'
  BY <1>1, <1>3 DEF TransferInv, QueueInv, ItemsOnce, CallbacksOnStream
<1>12. \A i \in DOMAIN stream, u \in Transfers :
         CopyAt(i, u) => i \in DOMAIN stream' /\ CopyAt(i, u)'
  BY <1>3 DEF CopyAt
<1>13. UncopiedOnStream'
  BY <1>1, <1>2, <1>12 DEF TransferInv, QueueInv, UncopiedOnStream, Uncopied
<1>14. CallbackAfterCopies'
  <2> SUFFICES ASSUME NEW i \in DOMAIN stream', NEW u \in Transfers,
                      stream'[i].kind = "callback",
                      transfer[stream'[i].transfer].buffer = transfer[u].buffer,
                      u <= stream'[i].transfer, Uncopied(u)
               PROVE  \E j \in DOMAIN stream' : j < i /\ CopyAt(j, u)'
    BY <1>1, <1>2 DEF CallbackAfterCopies, Uncopied, SameBuffer
  <2>1. CASE i \in DOMAIN stream
    <3>1. PICK j \in DOMAIN stream : j < i /\ CopyAt(j, u)
      BY <1>3, <2>1 DEF TransferInv, QueueInv, CallbackAfterCopies, SameBuffer
    <3> QED BY <1>12, <3>1
  <2>2. CASE i = n
    <3>1. SameBuffer(u, t) /\ u <= t BY <1>3, <2>2 DEF SameBuffer
    <3>2. transfer[u].stage # "pool"
      <4> SUFFICES ASSUME transfer[u].stage = "pool" PROVE FALSE OBVIOUS
      <4>1. t <= u BY <3>1 DEF TransferInv, QueueInv, Places, LastIsFinal
      <4>2. u = t BY <1>5, <3>1, <4>1
      <4> QED BY <1>4, <4>2
    <3>3. PICK j \in DOMAIN stream : CopyAt(j, u)
      BY <3>2 DEF TransferInv, QueueInv, UncopiedOnStream
    <3> QED BY <1>3, <1>12, <2>2, <3>3
  <2> QED BY <1>3, <2>1, <2>2
<1>15. CopiesInOrder'
  BY <1>1, <1>3 DEF TransferInv, QueueInv, CopiesInOrder, SameBuffer
<1>16. DefinedAfterTransfers' /\ CopiedInOrder'
  BY <1>1, <1>2 DEF TransferInv, DefinedAfterTransfers, CopiedInOrder, 
     Uncopied, Copied, Donated
<1>17. RecordedByLast' BY <1>1, <1>2 DEF TransferInv, RecordedByLast, Cleaned
<1>18. PendingTransfers' = PendingTransfers /\ UndefinedBuffers' = UndefinedBuffers
  BY <1>1, <1>2 DEF PendingTransfers, Pending, UndefinedBuffers
<1>19. Counts' BY <1>1, <1>18 DEF TransferInv, Counts
<1> QED BY <1>6, <1>7, <1>8, <1>9, <1>10, <1>11, <1>13, <1>14, <1>15, <1>16, <1>17, <1>19
        DEF TransferInv, QueueInv

\* The pool's thread enqueues the copy and the callback of the last transfer of
\* a buffer, behind everything that was enqueued for it before.
LEMMA TransferH2DStep ==
    ASSUME TransferInv, NEW t \in Transfers, TransferH2D(t)
    PROVE  TransferInv'
<1>n. PICK n : n = Len(stream) OBVIOUS
<1>0. TypeOK BY DEF TransferInv, QueueInv
<1>1. /\ transfer[t].stage = "pool"
      /\ stream' = stream \o <<[kind |-> "copy", transfer |-> t],
                                [kind |-> "callback", transfer |-> t]>>
      /\ transfer' = [transfer EXCEPT ![t].stage = "enqueued"]
      /\ UNCHANGED <<manager, handle, buffer_ptrs, last_transfer_started, definition,
                     transfers_in_flight, remaining_buffer_count, calls>>
  BY DEF TransferH2D, Copy, HostCallback, state
<1>2. /\ transfer' \in Seq(TransferRecord)
      /\ Transfers' = Transfers
      /\ \A u \in Transfers :
            /\ transfer'[u].buffer = transfer[u].buffer
            /\ transfer'[u].last = transfer[u].last
            /\ transfer'[u].data = transfer[u].data
            /\ transfer'[u].stage = IF u = t THEN "enqueued" ELSE transfer[u].stage
  BY <1>0, <1>1, StageSet
<1>3. /\ stream' \in Seq([kind : {"copy", "callback"}, transfer : Transfers'])
      /\ n \in Nat /\ n + 1 \notin DOMAIN stream /\ n + 2 \notin DOMAIN stream
      /\ DOMAIN stream' = DOMAIN stream \cup {n + 1, n + 2}
      /\ \A i \in DOMAIN stream : stream'[i] = stream[i] /\ i < n + 1
      /\ stream'[n + 1].kind = "copy" /\ stream'[n + 1].transfer = t
      /\ stream'[n + 2].kind = "callback" /\ stream'[n + 2].transfer = t
  <2> DEFINE x == [kind |-> "copy", transfer |-> t]
             y == [kind |-> "callback", transfer |-> t]
  <2>1. stream \in Seq(Item) BY <1>0 DEF TypeOK, Item
  <2>2. x \in Item /\ y \in Item BY DEF Item
  <2>3. /\ x.kind = "copy" /\ x.transfer = t
        /\ y.kind = "callback" /\ y.transfer = t
    OBVIOUS
  <2>4. stream' = stream \o <<x, y>> BY <1>1
  <2> HIDE DEF x, y
  <2>5. <<x, y>> \in Seq(Item) /\ Len(<<x, y>>) = 2 BY <2>2
  <2>6. stream' \in Seq(Item) /\ Len(stream') = n + 2 BY <1>n, <2>1, <2>4, <2>5
  <2>7. n \in Nat /\ DOMAIN stream = 1..n BY <1>n, <2>1
  <2>8. DOMAIN stream' = 1..(n + 2) BY <2>6
  <2>9. \A i \in 1..n : stream'[i] = stream[i] BY <1>n, <2>1, <2>2, <2>4
  <2>10. stream'[n + 1] = x /\ stream'[n + 2] = y BY <1>n, <2>1, <2>2, <2>4, <2>7
  <2>11. stream' \in Seq([kind : {"copy", "callback"}, transfer : Transfers'])
    BY <1>2, <2>6 DEF Item
  <2>12. DOMAIN stream' = DOMAIN stream \cup {n + 1, n + 2} BY <2>7, <2>8
  <2> QED BY <2>3, <2>7, <2>9, <2>10, <2>11, <2>12
<1>4. /\ \A i \in DOMAIN stream : i \in Nat /\ stream[i].transfer \in Transfers
      /\ \A u \in Transfers : u \in Nat
      /\ calls \subseteq Transfers
  BY <1>0, Elements DEF TypeOK
<1>5. /\ transfer[t].last /\ Uncopied(t) /\ t \notin calls
      /\ \A u \in Transfers : SameBuffer(t, u) => u <= t
  BY <1>1 DEF TransferInv, QueueInv, Places, LastIsFinal
<1>6. \A i \in DOMAIN stream : stream[i].transfer # t
  <2>1. \A i \in DOMAIN stream : stream[i].kind \in {"copy", "callback"}
    BY <1>0, Elements
  <2> QED BY <1>1, <2>1 DEF TransferInv, QueueInv, CopiesOnStream, CallbacksOnStream
<1>7. \A u \in Transfers : SameBuffer(t, u) /\ u # t => transfer[u].stage # "pool"
  <2> SUFFICES ASSUME NEW u \in Transfers, SameBuffer(t, u), u # t,
                      transfer[u].stage = "pool"
               PROVE  FALSE
    OBVIOUS
  <2>1. t <= u BY DEF TransferInv, QueueInv, Places, LastIsFinal, SameBuffer
  <2> QED BY <1>4, <1>5, <2>1
<1>8. TypeOK' BY <1>0, <1>1, <1>2, <1>3 DEF TypeOK
<1>9. LastIsFinal' BY <1>1, <1>2 DEF TransferInv, QueueInv, LastIsFinal, SameBuffer
<1>10. Places'
  BY <1>1, <1>2, <1>4, <1>5 DEF TransferInv, QueueInv, Places, Uncopied, Cleaned
<1>11. CopiesOnStream'
  <2> SUFFICES ASSUME NEW i \in DOMAIN stream', stream'[i].kind = "copy"
               PROVE  /\ Uncopied(stream[i].transfer)'
                      /\ transfer'[stream'[i].transfer].stage = "enqueued"
    BY DEF CopiesOnStream
  <2>1. CASE i \in DOMAIN stream
    <3>1. stream'[i] = stream[i] /\ stream[i].transfer \in Transfers BY <1>3, <1>4, <2>1
    <3>2. Uncopied(stream[i].transfer) /\ transfer[stream[i].transfer].stage = "enqueued"
      BY <2>1, <3>1 DEF TransferInv, QueueInv, CopiesOnStream
    <3> QED BY <1>2, <1>6, <2>1, <3>1, <3>2 DEF Uncopied
  <2>2. CASE i = n + 1
    <3>1. stream'[i].transfer = t BY <1>3, <2>2
    <3> QED BY <1>2, <1>5, <3>1 DEF Uncopied
  <2> QED BY <1>3, <2>1, <2>2
<1>12. CallbacksOnStream'
  <2> SUFFICES ASSUME NEW i \in DOMAIN stream', stream'[i].kind = "callback"
               PROVE  /\ stream'[i].transfer \notin calls
                      /\ \/ transfer'[stream'[i].transfer].stage = "enqueued"
                         \/ transfer'[stream'[i].transfer].stage = "cleaned" /\ i = 1
    BY <1>1 DEF CallbacksOnStream
  <2>1. CASE i \in DOMAIN stream
    <3>1. /\ stream[i].transfer \notin calls
          /\ \/ transfer[stream[i].transfer].stage = "enqueued"
             \/ transfer[stream[i].transfer].stage = "cleaned" /\ i = 1
      BY <1>3, <2>1 DEF TransferInv, QueueInv, CallbacksOnStream
    <3> QED BY <1>2, <1>3, <1>4, <1>6, <2>1, <3>1
  <2>2. CASE i = n + 2 BY <1>2, <1>3, <1>5, <2>2
  <2> QED BY <1>3, <2>1, <2>2
<1>13. ItemsOnce'
  <2> SUFFICES ASSUME NEW i \in DOMAIN stream', NEW j \in DOMAIN stream',
                      stream'[i].kind = stream'[j].kind,
                      stream'[i].transfer = stream'[j].transfer
               PROVE  i = j
    BY DEF ItemsOnce
  <2>1. CASE i \in DOMAIN stream /\ j \in DOMAIN stream
    BY <1>3, <2>1 DEF TransferInv, QueueInv, ItemsOnce
  <2>2. CASE i \in {n + 1, n + 2} /\ j \in {n + 1, n + 2} BY <1>3, <2>2
  <2>3. \A k \in DOMAIN stream : stream'[k].transfer # t BY <1>3, <1>6
  <2>4. \A k \in {n + 1, n + 2} : stream'[k].transfer = t BY <1>3
  <2> QED BY <1>3, <2>1, <2>2, <2>3, <2>4
<1>14. \A i \in DOMAIN stream, u \in Transfers :
         CopyAt(i, u) => i \in DOMAIN stream' /\ CopyAt(i, u)'
  BY <1>3 DEF CopyAt
<1>15. n + 1 \in DOMAIN stream' /\ CopyAt(n + 1, t)'
  BY <1>3 DEF CopyAt
<1>16. UncopiedOnStream'
  <2> SUFFICES ASSUME NEW u \in Transfers, Uncopied(u), transfer'[u].stage # "pool"
               PROVE  \E i \in DOMAIN stream' : CopyAt(i, u)'
    BY <1>2 DEF UncopiedOnStream, Uncopied
  <2>1. CASE u = t BY <1>15, <2>1
  <2>2. CASE u # t
    <3>1. PICK i \in DOMAIN stream : CopyAt(i, u)
      BY <1>2, <2>2 DEF TransferInv, QueueInv, UncopiedOnStream
    <3> QED BY <1>14, <3>1
  <2> QED BY <2>1, <2>2
<1>17. CallbackAfterCopies'
  <2> SUFFICES ASSUME NEW i \in DOMAIN stream', NEW u \in Transfers,
                      stream'[i].kind = "callback",
                      transfer'[stream'[i].transfer].buffer = transfer'[u].buffer,
                      u <= stream'[i].transfer, Uncopied(u)
               PROVE  \E j \in DOMAIN stream' : j < i /\ CopyAt(j, u)'
    BY <1>2 DEF CallbackAfterCopies, Uncopied, SameBuffer
  <2>1. CASE i \in DOMAIN stream
    <3>1. SameBuffer(stream[i].transfer, u) /\ u <= stream[i].transfer
      BY <1>2, <1>3, <1>4, <2>1 DEF SameBuffer
    <3>2. PICK j \in DOMAIN stream : j < i /\ CopyAt(j, u)
      BY <1>3, <2>1, <3>1 DEF TransferInv, QueueInv, CallbackAfterCopies
    <3> QED BY <1>14, <3>2
  <2>2. CASE i = n + 2 /\ u = t BY <1>3, <1>15, <2>2
  <2>3. CASE i = n + 2 /\ u # t
    <3>1. SameBuffer(t, u) BY <1>2, <1>3, <2>3 DEF SameBuffer
    <3>2. PICK j \in DOMAIN stream : CopyAt(j, u)
      BY <1>7, <2>3, <3>1 DEF TransferInv, QueueInv, UncopiedOnStream
    <3>3. j < i BY <1>3, <1>4, <2>3, <3>2
    <3> QED BY <1>14, <3>2, <3>3
  <2> QED BY <1>3, <2>1, <2>2, <2>3
<1>18. CopiesInOrder'
  <2> SUFFICES ASSUME NEW i \in DOMAIN stream', NEW j \in DOMAIN stream',
                      stream'[i].kind = "copy", stream'[j].kind = "copy",
                      transfer'[stream'[i].transfer].buffer
                         = transfer'[stream'[j].transfer].buffer,
                      stream'[i].transfer < stream'[j].transfer
               PROVE  i < j
    BY DEF CopiesInOrder, SameBuffer
  <2>1. CASE i \in DOMAIN stream /\ j \in DOMAIN stream
    <3>1. stream'[i] = stream[i] /\ stream'[j] = stream[j] BY <1>3, <2>1
    <3>2. SameBuffer(stream[i].transfer, stream[j].transfer)
      BY <1>2, <1>4, <2>1, <3>1 DEF SameBuffer
    <3> QED BY <2>1, <3>1, <3>2 DEF TransferInv, QueueInv, CopiesInOrder
  <2>2. CASE i \in DOMAIN stream /\ j = n + 1 BY <1>3, <2>2
  <2>3. i # n + 1
    <3> SUFFICES ASSUME i = n + 1 PROVE FALSE OBVIOUS
    <3>1. j # n + 1 /\ j \in DOMAIN stream BY <1>3, <1>4
    <3>2. SameBuffer(t, stream[j].transfer) /\ t < stream[j].transfer
      BY <1>2, <1>3, <1>4, <3>1 DEF SameBuffer
    <3> QED BY <1>4, <1>5, <3>1, <3>2
  <2> QED BY <1>3, <2>1, <2>2, <2>3
<1>19. CopiedInOrder' BY <1>1, StageChange
<1>20. DefinedAfterTransfers' /\ RecordedByLast'
  <2>1. \A u \in Transfers : Cleaned(u) => Cleaned(u)' BY <1>1, <1>2 DEF Cleaned
  <2>2. RecordedByLast'
    <3>1. UNCHANGED <<manager, definition, buffer_ptrs>> BY <1>1
    <3>2. \A u \in Transfers :
             transfer'[u].buffer = transfer[u].buffer /\ transfer'[u].last = transfer[u].last
      BY <1>2
    <3>3. ASSUME NEW b \in Buffers, definition'[b] = "recorded"
          PROVE  \E u \in Transfers' :
                    transfer'[u].last /\ Cleaned(u)' /\ transfer'[u].buffer = b
      <4>1. PICK u \in Transfers : transfer[u].last /\ Cleaned(u) /\ transfer[u].buffer = b
        BY <3>1, <3>3 DEF TransferInv, RecordedByLast
      <4> QED BY <1>2, <2>1, <3>2, <4>1
    <3> QED BY <3>1, <3>3 DEF TransferInv, RecordedByLast
  <2>3. DefinedAfterTransfers' BY <1>1, <1>2 DEF TransferInv, DefinedAfterTransfers, Uncopied
  <2> QED BY <2>2, <2>3
<1>21. PendingTransfers' = PendingTransfers /\ UndefinedBuffers' = UndefinedBuffers
  BY <1>1, <1>2 DEF PendingTransfers, Pending, UndefinedBuffers
<1>22. Counts' BY <1>1, <1>21 DEF TransferInv, Counts
<1> QED BY <1>8, <1>9, <1>10, <1>11, <1>12, <1>13, <1>16, <1>17, <1>18, <1>19, <1>20, <1>22
        DEF TransferInv, QueueInv

----------------------------------------------------------------------------
(***************************************************************************)
(* The theorems.                                                           *)
(***************************************************************************)

\* The invariant is inductive.
LEMMA NextPreserves == TransferInv /\ [Next]_vars => TransferInv'
<1> SUFFICES ASSUME TransferInv, [Next]_vars PROVE TransferInv' OBVIOUS
<1>1. ASSUME NEW b \in Buffers, TransferLiteralToBuffer(b) PROVE TransferInv'
  BY <1>1, TransferLiteralStep
<1>2. ASSUME NEW b \in Buffers, LastTransferRefused(b) PROVE TransferInv'
  BY <1>2, LastTransferRefusedStep
<1>3. ASSUME NEW b \in Buffers, NEW last \in BOOLEAN, NEW empty \in BOOLEAN,
             TransferRawDataToSubBuffer(b, last, empty)
      PROVE  TransferInv'
  BY <1>3, TransferRawDataStep
<1>4. ASSUME NEW b \in Buffers, SetBufferError(b) PROVE TransferInv'
  BY <1>4, SetBufferErrorStep
<1>5. ASSUME NEW b \in Buffers, RetrieveBuffer(b) PROVE TransferInv'
  BY <1>5, HandleMoves DEF RetrieveBuffer
<1>6. ASSUME NEW b \in Buffers, Delete(b) PROVE TransferInv'
  BY <1>6, HandleMoves DEF Delete
<1>7. ASSUME NEW b \in Buffers, Donate(b) PROVE TransferInv'
  BY <1>7, HandleMoves DEF Donate
<1>8. ASSUME NEW t \in Transfers, TransferH2D(t) PROVE TransferInv'
  BY <1>8, TransferH2DStep
<1>9. ASSUME NEW t \in Transfers, ThenDoHostCallback(t) PROVE TransferInv'
  BY <1>9, ThenDoHostCallbackStep
<1>10. ASSUME NEW t \in Transfers, CleanUp(t) PROVE TransferInv'
  BY <1>10, CleanUpStep
<1>11. ASSUME NEW t \in Transfers, OnDone(t) PROVE TransferInv'
  BY <1>11, OnDoneStep
<1>12. CASE ExecuteCopy BY <1>12, ExecuteCopyStep
<1>13. CASE Destroy BY <1>13, DestroyStep
<1>14. CASE TransfersFinished BY <1>14, TransfersFinishedStep
<1>15. CASE UNCHANGED vars
  <2>1. UNCHANGED <<manager, handle, buffer_ptrs, last_transfer_started, definition,
                    transfers_in_flight, remaining_buffer_count, transfer, calls, stream>>
    BY <1>15 DEF vars, state
  <2> QED
    BY <2>1 DEF TransferInv, QueueInv, TypeOK, LastIsFinal, Places, CopiesOnStream,
       CallbacksOnStream, ItemsOnce, UncopiedOnStream, CallbackAfterCopies, CopiesInOrder,
       DefinedAfterTransfers, CopiedInOrder, RecordedByLast, Counts,
       Transfers, SameBuffer, Cleaned, CopyAt, Uncopied, Copied, Donated, Pending,
       PendingTransfers, UndefinedBuffers
<1> QED
  BY <1>1, <1>2, <1>3, <1>4, <1>5, <1>6, <1>7, <1>8, <1>9, <1>10, <1>11, <1>12, <1>13,
     <1>14, <1>15 DEF Next, ClientCall

\* TransferInv holds in every state of every behaviour.
LEMMA Invariant == Spec => []TransferInv
  BY InitHolds, NextPreserves, PTL DEF Spec

\* While a transfer is pending the count says so, and the destructor waits.
LEMMA PendingAreCounted ==
    ASSUME TransferInv, NEW t \in Transfers, Pending(t)
    PROVE  manager # "destroyed" /\ transfers_in_flight > 0
<1>1. TypeOK BY DEF TransferInv, QueueInv
<1>2. t \in PendingTransfers BY DEF PendingTransfers
<1>3. Cardinality(PendingTransfers) # 0 /\ Cardinality(PendingTransfers) \in Nat
  BY <1>1, <1>2, CountedSets, FS_EmptySet, FS_CardinalityType
<1> QED BY <1>3 DEF TransferInv, Counts

\* The members of the manager and the queues around it have their types; in
\* particular transfers_in_flight_ and remaining_buffer_count_ never fall
\* below zero.
THEOREM TypeOKTheorem == Spec => []TypeOK
<1>1. TransferInv => TypeOK BY DEF TransferInv, QueueInv
<1> QED BY <1>1, Invariant, PTL

\* A buffer whose definition event CleanUp has recorded holds the data of every
\* transfer TransferLiteralToBuffer and TransferRawDataToSubBuffer accepted for
\* it, however many threads asked for however many of them.
THEOREM DefinedAfterTransfersTheorem == Spec => []DefinedAfterTransfers
<1>1. TransferInv => DefinedAfterTransfers BY DEF TransferInv
<1> QED BY <1>1, Invariant, PTL

\* The transfers into a buffer are executed in the order of acceptance, though
\* literals go through the thread pool and raw data does not.
THEOREM CopiedInOrderTheorem == Spec => []CopiedInOrder
<1>1. TransferInv => CopiedInOrder BY DEF TransferInv
<1> QED BY <1>1, Invariant, PTL

\* The TrackedDeviceBuffer of a transfer on its way exists, whatever the
\* client does with the buffer and the manager: buffer_ptrs_ keeps it until
\* the CleanUp of its last transfer, and the destructor waits for the
\* transfers.
THEOREM BufferOutlivesTransfersTheorem == Spec => []BufferOutlivesTransfers
<1>1. TransferInv => BufferOutlivesTransfers
  <2> SUFFICES ASSUME TransferInv, NEW t \in Transfers, Uncopied(t)
               PROVE  Referenced(transfer[t].buffer)
    BY DEF BufferOutlivesTransfers
  <2>1. TypeOK BY DEF TransferInv, QueueInv
  <2>2. transfer[t].buffer \in Buffers
        /\ transfer[t].stage \in {"pool", "enqueued", "cleaned", "done"}
    BY <2>1, Elements
  <2>3. Pending(t) BY <2>2 DEF TransferInv, QueueInv, Places, Cleaned, Pending
  <2>4. manager # "destroyed" BY <2>1, <2>3, PendingAreCounted
  <2>5. definition[transfer[t].buffer] # "recorded"
    BY DEF TransferInv, DefinedAfterTransfers
  <2>6. buffer_ptrs[transfer[t].buffer] BY <2>2, <2>4, <2>5 DEF TransferInv, RecordedByLast
  <2> QED BY <2>6 DEF Referenced
<1> QED BY <1>1, Invariant, PTL

\* The CHECKs of CleanUp and SetSequencingEvent hold whenever they are
\* evaluated, and the manager whose CleanUp runs has not been destroyed.
THEOREM CleanUpIsSafeTheorem == Spec => []CleanUpIsSafe
<1>1. TransferInv => CleanUpIsSafe
  <2> SUFFICES ASSUME TransferInv PROVE CleanUpIsSafe OBVIOUS
  <2>0. TypeOK BY DEF TransferInv, QueueInv
  <2>1. ASSUME NEW t \in Transfers, Pending(t)
        PROVE  manager # "destroyed" /\ transfers_in_flight > 0
    BY <2>1, PendingAreCounted
  <2>2. ASSUME NEW t \in Transfers, Pending(t), transfer[t].last
        PROVE  /\ buffer_ptrs[transfer[t].buffer]
               /\ remaining_buffer_count > 0
               /\ definition[transfer[t].buffer] = "none"
    <3> DEFINE b == transfer[t].buffer
    <3>1. /\ b \in Buffers /\ definition[b] \in {"none", "recorded", "error"}
          /\ \A u \in Transfers : u \in Nat
      BY <2>0, Elements DEF TypeOK
    <3>2. definition[b] # "error" BY <2>2 DEF TransferInv, QueueInv, LastIsFinal
    <3>3. definition[b] # "recorded"
      <4> SUFFICES ASSUME definition[b] = "recorded" PROVE FALSE OBVIOUS
      <4>1. PICK u \in Transfers : transfer[u].last /\ Cleaned(u) /\ transfer[u].buffer = b
        BY <3>1 DEF TransferInv, RecordedByLast
      <4>2. u <= t /\ t <= u
        BY <2>2, <4>1 DEF TransferInv, QueueInv, LastIsFinal, SameBuffer
      <4>3. u = t BY <3>1, <4>2
      <4> QED BY <2>2, <4>1, <4>3 DEF Cleaned, Pending
    <3>4. buffer_ptrs[b] BY <2>1, <2>2, <3>1, <3>3 DEF TransferInv, RecordedByLast
    <3>5. b \in UndefinedBuffers BY <3>1, <3>3 DEF UndefinedBuffers
    <3>6. Cardinality(UndefinedBuffers) # 0 /\ Cardinality(UndefinedBuffers) \in Nat
      BY <2>0, <3>5, CountedSets, FS_EmptySet, FS_CardinalityType
    <3>7. remaining_buffer_count > 0 BY <3>6 DEF TransferInv, Counts
    <3> QED BY <3>1, <3>2, <3>3, <3>4, <3>7
  <2>3. ASSUME manager = "live", NEW b \in Buffers, ~last_transfer_started[b]
        PROVE  buffer_ptrs[b]
    <3>1. definition[b] # "recorded"
      BY <2>3 DEF TransferInv, QueueInv, RecordedByLast, LastIsFinal
    <3> QED BY <2>3, <3>1 DEF TransferInv, RecordedByLast
  <2> QED BY <2>1, <2>2, <2>3 DEF CleanUpIsSafe
<1> QED BY <1>1, Invariant, PTL
============================================================================
