-------------------------- MODULE HostBufferReuse --------------------------
(***************************************************************************)
(* How the MUSA plugin (src/pjrt_plugin/src/pjrt_api.cc) reuses device     *)
(* memory for host buffers that are transferred again and again.           *)
(*                                                                         *)
(* The first transfer of a host pointer goes to the PjRt client and its    *)
(* buffer is pooled: the caller gets a view of its memory. Later transfers *)
(* of the pointer write the same memory and return another view. Once a    *)
(* program has run and enough pointers are pooled they move to an arena: a *)
(* transfer then only packs the data into pinned host memory, and the next *)
(* Execute flushes the packed slots to the device. Views of slots may be   *)
(* cached and handed out again after the caller destroyed them.            *)
(*                                                                         *)
(* Contents are version numbers of the host buffers. All host buffers have *)
(* the same shape, which is the one they were pooled with unless Ops has   *)
(* "reshape". The environment variables that make reuse possible at all    *)
(* (REUSE_HOST_BUFFERS, WAIT_TRANSFER_DONE, WAIT_EXECUTE_DONE) are set and *)
(* the inflight gates admit one transfer and one execution, as the arena   *)
(* demands. The operations of the PjRt client below the plugin are         *)
(* external: a transfer returns a buffer whose memory is written by a DMA  *)
(* later on, an execution reads its arguments until it is done.            *)
(***************************************************************************)
EXTENDS ArenaCopyPlan

CONSTANTS
    Hosts,          \* host pointers, ordered by their address
    Threads,        \* client threads
    NumBuffers,     \* bound: PJRT_Buffers that exist at the same time
    MaxVersion,     \* bound: how often a host buffer is overwritten
    MaxArgs,        \* bound: arguments of an execution
    MinEntries,     \* kReusableHostBufferArenaMinEntries
    Alignment,      \* kReusableHostBufferArenaAlignment
    Bytes,          \* the size of a buffer
    MaxDirtyRanges, MergeGapBytes, CopyOverheadBytes,  \* of the copy plan
    DirtyRanges,    \* ShouldCopyReusableHostBufferArenaDirtyRanges
    PoolOrder,      \* ShouldUseReusableHostBufferArenaPoolOrderLayout
    Semantics,      \* the caller's HostBufferSemantics
    ForceCopy,      \* ShouldForceHostBufferCopy
    Ops             \* the operations and failures of this instance

ASSUME ReuseAssumption ==
    /\ Hosts \subseteq Nat /\ IsFiniteSet(Hosts)
    /\ NumBuffers \in Nat /\ MaxVersion \in Nat /\ MaxArgs \in Nat
    /\ MinEntries \in Nat \ {0} /\ Alignment \in Nat \ {0} /\ Bytes \in Nat \ {0}
    /\ MaxDirtyRanges \in Nat /\ MergeGapBytes \in Nat /\ CopyOverheadBytes \in Nat
    /\ Semantics \in {"kImmutableOnlyDuringCall", "kImmutableUntilTransferCompletes",
                      "kZeroCopy"}
    /\ ForceCopy \in BOOLEAN /\ DirtyRanges \in BOOLEAN /\ PoolOrder \in BOOLEAN
    /\ Ops \subseteq {"delete", "reshape", "faults", "to_host", "flushed_to_host",
                     "no_events"}

VARIABLES
    opt,       \* the environment variables that are still open
    host,      \* contents of the host buffers
    entry,     \* g_reuse_host_buffers
    staging,   \* contents of the arena's host memory, by host buffer
    memory,    \* contents of device memory
    dma,       \* transfers that have not reached the device: buffer and contents
    buffer,    \* the PJRT_Buffers
    call,      \* what each thread does
    reading,   \* what the device reads for each thread: memory and what it should hold
    executed   \* g_completed_execute_count > 0

vars == <<opt, host, entry, staging, memory, dma, buffer, call, reading, executed>>

Buffers  == 1..NumBuffers
NoBuffer == 0
Garbage  == -1
Contents == {Garbage} \cup 0..MaxVersion

\* The memory of a buffer the client allocated, and a slot of the arena.
Own(b)  == <<"own", b>>
Slot(h) == <<"slot", h>>
Places  == {Own(b) : b \in Buffers} \cup {Slot(h) : h \in Hosts}

\* ReusableHostBufferEntry. pending is arena_copy_pending; the arena's
\* pending_inputs, pending_ranges and pending_entries are filled and cleared
\* with it.
NoEntry == [pooled |-> FALSE, ptr |-> Own(NoBuffer), sequence |-> 0, offset |-> 0,
            member |-> FALSE, pending |-> FALSE, valid |-> FALSE,
            cached |-> NoBuffer, in_use |-> FALSE]

\* A PJRT_Buffer: "held" by the caller, the "owner" of a pooled buffer's
\* memory, or "kept" as a cached view after the caller destroyed it. snap is
\* what it should hold, lost that a failed flush was reported for it.
Free == [st |-> "free", h |-> 0, snap |-> 0, place |-> Own(NoBuffer),
         deleted |-> FALSE, lost |-> FALSE]

Idle == [op |-> "idle", h |-> 0, b |-> NoBuffer, args |-> {}]

\* Each option needs the ones before it: ShouldReuseHostBuffersArena,
\* ShouldCacheReusedBufferViews, ShouldTrustCachedReusableHostBufferViewLifetime
\* and ShouldTrustReusableHostBufferContents.
Options ==
    {o \in [arena : BOOLEAN, cache : BOOLEAN, trust_lifetime : BOOLEAN,
            trust_contents : BOOLEAN] :
        /\ o.cache => o.arena
        /\ o.trust_lifetime => o.cache
        /\ o.trust_contents => o.trust_lifetime}

Init ==
    /\ opt \in Options
    /\ host = [h \in Hosts |-> 0]
    /\ entry = [h \in Hosts |-> NoEntry]
    /\ staging = [h \in Hosts |-> Garbage]
    /\ memory = [p \in Places |-> Garbage]
    /\ dma = {}
    /\ buffer = [b \in Buffers |-> Free]
    /\ call = [t \in Threads |-> Idle]
    /\ reading = [t \in Threads |-> {}]
    /\ executed = FALSE

Pooled  == {h \in Hosts : entry[h].pooled}
Members == {h \in Hosts : entry[h].member}
Pending == {h \in Hosts : entry[h].pending}
Held    == {b \in Buffers : buffer[b].st = "held"}

\* The device reads the memory of b.
Read(b) == \E t \in Threads : \E r \in reading[t] : r[1] = Own(b)
Unused  == {b \in Buffers : buffer[b].st = "free" /\ ~Read(b)}

\* ScopedInflightGate with max_inflight 1.
GateOpen(ops) == \A t \in Threads : call[t].op \notin ops

Faults == "faults" \in Ops

-----------------------------------------------------------------------------
(***************************************************************************)
(* The arena.                                                              *)
(***************************************************************************)
AlignReusableHostBufferArenaOffset(value) ==
    ((value + Alignment - 1) \div Alignment) * Alignment

\* OrderReusableHostBufferArenaEntries.
Before(g, h) ==
    IF PoolOrder THEN entry[g].sequence < entry[h].sequence ELSE g < h

TotalBytes(hosts) == Cardinality(hosts) * AlignReusableHostBufferArenaOffset(Bytes)

\* Fault: host buffers that were never pooled get a slot too.
AllInArena == [h \in Hosts |-> [entry[h] EXCEPT !.member = TRUE, !.ptr = Slot(h)]]

\* Every pooled entry gets a slot; what it held before does not move.
ArenaCreated ==
    [h \in Hosts |->
        IF h \notin Pooled THEN entry[h]
        ELSE [entry[h] EXCEPT !.offset = TotalBytes({g \in Pooled : Before(g, h)}),
                              !.member = TRUE, !.valid = FALSE, !.ptr = Slot(h)]]

\* The entries after the call; the allocation of the arena may fail.
GetOrCreateReusableHostBufferArena ==
    IF /\ opt.arena /\ executed /\ Members = {}
       /\ Cardinality(Pooled) >= MinEntries
    THEN {ArenaCreated} \cup (IF Faults THEN {entry} ELSE {})
    ELSE {entry}

DirtyRange(h) == [offset |-> entry[h].offset, bytes |-> Bytes]

CopyPlan ==
    LET plan == IF DirtyRanges
                THEN PlanReusableHostBufferArenaCopies(
                        TotalBytes(Members), {DirtyRange(h) : h \in Pending},
                        MaxDirtyRanges, MergeGapBytes, CopyOverheadBytes)
                ELSE <<>>
    IN  IF plan = <<>> THEN FullArenaPlan(TotalBytes(Members)) ELSE plan

\* The slots the planned copies write.
Flushed ==
    {h \in Members : \E i \in DOMAIN CopyPlan :
        /\ CopyPlan[i].offset <= entry[h].offset
        /\ End(DirtyRange(h)) <= End(CopyPlan[i])}

\* Fault: the entries of a failed copy are marked valid as well.
AfterFlushValid(ok) ==
    [h \in Hosts |->
        [entry[h] EXCEPT !.pending = FALSE,
                         !.valid = @ \/ (entry[h].pending /\ opt.trust_contents)]]

\* pending_entries is only filled when contents are trusted.
AfterFlush(ok) ==
    [h \in Hosts |->
        [entry[h] EXCEPT !.pending = FALSE,
                         !.valid = IF entry[h].pending /\ opt.trust_contents
                                   THEN ok ELSE @]]

WithSlots(hosts) ==
    [p \in Places |-> IF \E h \in hosts : p = Slot(h)
                      THEN staging[p[2]] ELSE memory[p]]

-----------------------------------------------------------------------------
(***************************************************************************)
(* Proxy_Client_BufferFromHostBuffer.                                      *)
(***************************************************************************)
\* CreateReusableHostBufferView, and the caller gets the view.
View(h, ptr) == [Free EXCEPT !.st = "held", !.h = h, !.snap = host[h], !.place = ptr]

\* The cached view of e is deleted and may not be handed out.
Stale(e) == ~opt.trust_lifetime /\ buffer[e.cached].deleted

Offered(e) == e.cached # NoBuffer /\ ~e.in_use /\ ~Stale(e)

\* A cached view that is handed out again.
HandOutCachedView(h, en) ==
    LET e == en[h] IN
    /\ Offered(e)
    /\ entry' = [en EXCEPT ![h].in_use = TRUE]
    /\ buffer' = [buffer EXCEPT ![e.cached] = [View(h, @.place) EXCEPT !.deleted = buffer[e.cached].deleted]]

\* A new view; it is cached when there is no cached view, or a deleted one
\* that goes now. Creating it may fail.
HandOutNewView(h, en, cache) ==
    LET e == en[h]
        drop == cache /\ e.cached # NoBuffer /\ ~e.in_use
        left == IF drop THEN [buffer EXCEPT ![e.cached] = Free] ELSE buffer
        kept == IF drop THEN NoBuffer ELSE e.cached
        free == {b \in Buffers : left[b].st = "free"}
    IN  /\ ~(cache /\ Offered(e))
        /\ \/ /\ free # {}
              /\ buffer' = [left EXCEPT ![Min(free)] = View(h, e.ptr)]
              /\ entry' = IF cache /\ kept = NoBuffer
                          THEN [en EXCEPT ![h].cached = Min(free), ![h].in_use = TRUE]
                          ELSE en
           \/ /\ Faults
              /\ buffer' = left
              /\ entry' = [en EXCEPT ![h].cached = kept]

HandOutView(h, en, cache) ==
    \/ cache /\ HandOutCachedView(h, en)
    \/ HandOutNewView(h, en, cache)

\* Fault: trusted contents need not be valid.
ReuseSlotUnseen(h, en) ==
    LET skip == opt.trust_contents IN
    /\ en[h].member /\ ~en[h].pending
    /\ staging' = IF skip THEN staging ELSE [staging EXCEPT ![h] = host[h]]
    /\ HandOutView(h, [en EXCEPT ![h].pending = ~skip], opt.cache)
    /\ UNCHANGED memory

\* The entry is in the arena and its slot is not waiting for a flush: the data
\* is packed, unless what the device holds is trusted.
ReuseSlot(h, en) ==
    LET skip == opt.trust_contents /\ en[h].valid IN
    /\ en[h].member /\ ~en[h].pending
    /\ staging' = IF skip THEN staging ELSE [staging EXCEPT ![h] = host[h]]
    /\ HandOutView(h, [en EXCEPT ![h].pending = ~skip], opt.cache)
    /\ UNCHANGED memory

\* SynchronousMemcpyH2D into the pooled buffer.
ReuseOwn(h, en) ==
    /\ ~en[h].member
    /\ UNCHANGED staging
    /\ \/ /\ memory' = [memory EXCEPT ![en[h].ptr] = host[h]]
          /\ HandOutView(h, en, FALSE)
       \/ /\ Faults
          /\ entry' = en
          /\ UNCHANGED <<memory, buffer>>

\* The pool answers the call, all of it in one critical section.
TryReuseHostBuffer(t, h) ==
    /\ call[t] = Idle /\ GateOpen({"transfer"})
    /\ entry[h].pooled
    /\ \E en \in GetOrCreateReusableHostBufferArena : ReuseSlot(h, en) \/ ReuseOwn(h, en)
    /\ UNCHANGED <<opt, host, dma, call, reading, executed>>

\* The pool has no entry for the pointer, one of another shape, or one whose
\* slot waits for a flush.
Missed(h) == ~entry[h].pooled \/ entry[h].pending \/ "reshape" \in Ops

\* The client's own transfer is called.
BaseTransfer(t, h) ==
    /\ call[t] = Idle /\ GateOpen({"transfer"})
    /\ Missed(h) /\ Unused # {}
    /\ LET b == Min(Unused) IN
       /\ buffer' = [buffer EXCEPT ![b].st = "owner"]
       /\ memory' = [memory EXCEPT ![Own(b)] = Garbage]
       /\ dma' = dma \cup {<<b, host[h]>>}
       /\ call' = [call EXCEPT ![t] = [Idle EXCEPT !.op = "transfer", !.h = h, !.b = b]]
    /\ UNCHANGED <<opt, host, entry, staging, reading, executed>>

\* The data reaches the device; until done_with_host_buffer the host buffer
\* or its staged copy still holds what it held at the call.
TransferCompletes(transfer) ==
    /\ memory' = [memory EXCEPT ![Own(transfer[1])] = transfer[2]]
    /\ dma' = dma \ {transfer}
    /\ UNCHANGED <<opt, host, entry, staging, buffer, call, reading, executed>>

\* The semantics the client sees: done_with_host_buffer is set as soon as the
\* data is staged, or when the transfer is complete.
Transferring(b) == \E transfer \in dma : transfer[1] = b

Staged == ForceCopy \/ Semantics = "kImmutableOnlyDuringCall"

\* Fault: the call does not wait.
DoneAtOnce(b) == TRUE

\* WaitForEventViaCallback(done_with_host_buffer).
DoneWithHostBuffer(b) == Staged \/ ~Transferring(b)

\* MaybePoolHostBuffer: a new entry that owns the buffer, and a view of it for
\* the caller; or the caller gets the buffer itself.
MaybePoolHostBuffer(t) ==
    LET b == call[t].b  h == call[t].h IN
    /\ call[t].op = "transfer"
    /\ DoneWithHostBuffer(b)
    /\ \/ /\ ~entry[h].pooled /\ Unused # {}
          /\ entry' = [entry EXCEPT ![h] = [NoEntry EXCEPT !.pooled = TRUE, !.ptr = Own(b),
                                               !.sequence = Cardinality(Pooled)]]
          /\ buffer' = [buffer EXCEPT ![Min(Unused)] = View(h, Own(b))]
       \/ /\ entry[h].pooled \/ Faults
          /\ buffer' = [buffer EXCEPT ![b] = View(h, Own(b))]
          /\ UNCHANGED entry
    /\ call' = [call EXCEPT ![t] = Idle]
    /\ UNCHANGED <<opt, host, staging, memory, dma, reading, executed>>

-----------------------------------------------------------------------------
(***************************************************************************)
(* Proxy_LoadedExecutable_Execute.                                         *)
(***************************************************************************)
\* What the device has to find in the memory of the buffers.
Reads(args) == {<<buffer[b].place, buffer[b].snap>> : b \in {c \in args : ~buffer[c].lost}}

\* The definition event of a buffer the client itself made orders the device
\* behind its transfer; the event of a view is recorded on the compute stream.
Defined(b) == buffer[b].place = Own(b) => ~Transferring(b)

\* FlushReusableHostBufferArena, then the client's Execute is called.
FlushReusableHostBufferArena(t, args) ==
    /\ memory' = IF Pending = {} THEN memory ELSE WithSlots(Flushed)
    /\ entry' = AfterFlush(TRUE)
    /\ call' = [call EXCEPT ![t] = [Idle EXCEPT !.op = "execute", !.args = args]]
    /\ UNCHANGED buffer

\* A copy fails after some slots were written: nothing is pending any more
\* and the call returns the error.
FlushFails(t) ==
    /\ Faults /\ Pending # {}
    /\ entry' = AfterFlush(FALSE)
    /\ \E written \in SUBSET Flushed :
        /\ memory' = WithSlots(written)
        /\ buffer' = [b \in Buffers |->
                        IF b \in Held /\ \E h \in Pending \ written :
                              buffer[b].place = Slot(h) /\ memory[Slot(h)] # buffer[b].snap
                        THEN [buffer[b] EXCEPT !.lost = TRUE] ELSE buffer[b]]
    /\ UNCHANGED call

Execute(t, args) ==
    /\ call[t] = Idle /\ reading[t] = {} /\ GateOpen({"execute", "running"})
    /\ FlushReusableHostBufferArena(t, args) \/ FlushFails(t)
    /\ UNCHANGED <<opt, host, staging, dma, reading, executed>>

\* The client launches the program, or refuses a deleted argument. Without
\* device_complete_events the call returns now.
BaseExecute(t) ==
    LET args == call[t].args IN
    /\ call[t].op = "execute"
    /\ \/ /\ \A b \in args : ~buffer[b].deleted /\ Defined(b)
          /\ reading' = [reading EXCEPT ![t] = Reads(args)]
          /\ \/ /\ call' = [call EXCEPT ![t].op = "running"]
                /\ UNCHANGED executed
             \/ /\ "no_events" \in Ops
                /\ call' = [call EXCEPT ![t] = Idle]
                /\ executed' = TRUE
       \/ /\ Faults \/ \E b \in args : buffer[b].deleted
          /\ call' = [call EXCEPT ![t] = Idle]
          /\ UNCHANGED <<reading, executed>>
    /\ UNCHANGED <<opt, host, entry, staging, memory, dma, buffer>>

\* The program has run, or the data has been read; a call that waits for the
\* program returns.
DeviceCompletes(t) ==
    LET waits == call[t].op \in {"running", "to_host"} IN
    /\ waits \/ reading[t] # {}
    /\ reading' = [reading EXCEPT ![t] = {}]
    /\ call' = IF waits THEN [call EXCEPT ![t] = Idle] ELSE call
    /\ executed' = (executed \/ call[t].op = "running")
    /\ UNCHANGED <<opt, host, entry, staging, memory, dma, buffer>>

-----------------------------------------------------------------------------
(***************************************************************************)
(* The caller.                                                             *)
(***************************************************************************)
\* A buffer that no call uses as an argument.
NotInCall(b) == \A t \in Threads : b \notin call[t].args

\* Fault: any view of the entry that is destroyed releases the cached one.
BufferDestroyReleases(b) ==
    LET h == buffer[b].h
        cached == entry[h].cached = b
    IN  /\ b \in Held /\ NotInCall(b)
        /\ entry' = [entry EXCEPT ![h].in_use = FALSE]
        /\ buffer' = [buffer EXCEPT ![b] = IF cached THEN [@ EXCEPT !.st = "kept"] ELSE Free]
        /\ UNCHANGED <<opt, host, staging, memory, dma, call, reading, executed>>

\* Proxy_Buffer_Destroy: a cached view is kept, anything else goes.
BufferDestroy(b) ==
    LET h == buffer[b].h
        cached == entry[h].cached = b
    IN  /\ b \in Held /\ NotInCall(b)
        /\ entry' = IF cached THEN [entry EXCEPT ![h].in_use = FALSE] ELSE entry
        /\ buffer' = [buffer EXCEPT ![b] = IF cached THEN [@ EXCEPT !.st = "kept", !.snap = 0, !.lost = FALSE]
                                               ELSE Free]
        /\ dma' = {transfer \in dma : transfer[1] # b}
        /\ memory' = IF buffer[b].place = Own(b) /\ ~Read(b)
                     THEN [memory EXCEPT ![Own(b)] = Garbage] ELSE memory
        /\ UNCHANGED <<opt, host, staging, call, reading, executed>>

\* PJRT_Buffer_Delete, which the plugin does not see.
BufferDelete(b) ==
    /\ "delete" \in Ops /\ ~opt.trust_lifetime
    /\ b \in Held /\ NotInCall(b) /\ ~buffer[b].deleted
    /\ buffer' = [buffer EXCEPT ![b].deleted = TRUE]
    /\ UNCHANGED <<opt, host, entry, staging, memory, dma, call, reading, executed>>

\* PJRT_Buffer_ToHostBuffer, which the plugin does not see either. The caller
\* waits for it; with "flushed_to_host" it only reads what an Execute has
\* flushed.
BufferToHostBuffer(t, b) ==
    /\ \/ "to_host" \in Ops
       \/ "flushed_to_host" \in Ops /\ \A h \in Pending : buffer[b].place # Slot(h)
    /\ call[t] = Idle /\ reading[t] = {}
    /\ b \in Held /\ ~buffer[b].deleted /\ Defined(b)
    /\ reading' = [reading EXCEPT ![t] = Reads({b})]
    /\ call' = [call EXCEPT ![t] = [Idle EXCEPT !.op = "to_host", !.args = {b}]]
    /\ UNCHANGED <<opt, host, entry, staging, memory, dma, buffer, executed>>

\* The caller keeps its promise: whoever sets TRUST_CONTENTS never changes the
\* data, kZeroCopy keeps it while a buffer of it is alive, and nobody changes
\* it during a call.
MayWrite(h) ==
    /\ ~opt.trust_contents
    /\ \A t \in Threads : ~(call[t].op = "transfer" /\ call[t].h = h)
    /\ Semantics = "kZeroCopy" => \A b \in Held : buffer[b].h # h

WriteHost(h) ==
    /\ host[h] < MaxVersion /\ MayWrite(h)
    /\ host' = [host EXCEPT ![h] = @ + 1]
    /\ UNCHANGED <<opt, entry, staging, memory, dma, buffer, call, reading, executed>>

Next ==
    \/ \E t \in Threads, h \in Hosts : TryReuseHostBuffer(t, h) \/ BaseTransfer(t, h)
    \/ \E t \in Threads :
        \/ MaybePoolHostBuffer(t)
        \/ \E args \in SUBSET Held : Cardinality(args) \in 1..MaxArgs /\ Execute(t, args)
        \/ BaseExecute(t)
        \/ DeviceCompletes(t)
        \/ \E b \in Buffers : BufferToHostBuffer(t, b)
    \/ \E transfer \in dma : TransferCompletes(transfer)
    \/ \E b \in Buffers : BufferDestroy(b) \/ BufferDelete(b)
    \/ \E h \in Hosts : WriteHost(h)

Spec == Init /\ [][Next]_vars
-----------------------------------------------------------------------------
(***************************************************************************)
(* Properties.                                                             *)
(***************************************************************************)
TypeOK ==
    /\ opt \in Options
    /\ host \in [Hosts -> 0..MaxVersion]
    /\ \A h \in Hosts :
        /\ entry[h].ptr \in Places \cup {Own(NoBuffer)}
        /\ entry[h].cached \in Buffers \cup {NoBuffer}
        /\ entry[h].member => entry[h].pooled
        /\ entry[h].pending => entry[h].member
        /\ entry[h].offset \in 0..(Cardinality(Hosts) * (Bytes + Alignment))
    /\ staging \in [Hosts -> Contents]
    /\ memory \in [Places -> Contents]
    /\ dma \subseteq Buffers \X Contents
    /\ \A b \in Buffers : buffer[b].st \in {"free", "held", "owner", "kept"}
    /\ \A t \in Threads : call[t].op \in {"idle", "transfer", "execute", "running", "to_host"}
    /\ executed \in BOOLEAN

\* Whatever a running program or a copy to the host reads in a buffer is what
\* the host buffer held when it was transferred: the reuse of device memory,
\* the packing into the arena and the flushes of its dirty ranges cannot be
\* seen through the buffers, except after a flush that reported an error.
ReadsSeeHostData == \A t \in Threads : \A r \in reading[t] : memory[r[1]] = r[2]

\* The contents of every buffer in the caller's hands are on the device, or
\* packed in a slot that waits for the next flush, or in the client's transfer.
BuffersAreBacked ==
    \A b \in Held : ~buffer[b].lost =>
        \/ memory[buffer[b].place] = buffer[b].snap
        \/ \E h \in Pending : buffer[b].place = Slot(h) /\ staging[h] = buffer[b].snap
        \/ \E transfer \in dma : buffer[b].place = Own(transfer[1]) /\ transfer[2] = buffer[b].snap

\* device_contents_valid, by which TryReuseHostBuffer skips packing, means that
\* the slot holds the host buffer's data.
ValidSlotsHoldHostData ==
    \A h \in Hosts : entry[h].valid => memory[Slot(h)] = host[h] /\ ~entry[h].pending

\* A cached view is in the caller's hands exactly while cached_view_in_use is
\* set, so it is never handed out twice, and it shows its entry's slot.
CachedViewHasOneHolder ==
    \A h \in Hosts : LET e == entry[h] IN
        /\ e.in_use <=> (e.cached # NoBuffer /\ buffer[e.cached].st = "held")
        /\ e.cached # NoBuffer => /\ buffer[e.cached].st \in {"held", "kept"}
                                 /\ buffer[e.cached].place = Slot(h)
=============================================================================
