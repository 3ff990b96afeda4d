--------------------------- MODULE DeviceBuffers ---------------------------
(***************************************************************************)
(* Lifetime of device memory in the StreamExecutor PjRt client             *)
(* (xla/pjrt/pjrt_stream_executor_client.cc, tracked_device_buffer.{h,cc}, *)
(* local_device_state.{h,cc}).                                             *)
(*                                                                         *)
(* The host enqueues work on FIFO streams that devices drain later.  When  *)
(* device memory may be handed out again is decided on the host, from      *)
(* BufferSequencingEvents (has the write been enqueued, on which streams   *)
(* is it ordered, has it completed), from usage events, and from           *)
(* references to the TrackedDeviceBuffer kept in tasks and callbacks.      *)
(*                                                                         *)
(* A host call is atomic up to the points where it blocks: BufferHolds     *)
(* shows that the holds it takes keep other calls away from the buffer in  *)
(* between.  Memory contents are abstracted to the buffer that wrote them. *)
(***************************************************************************)
EXTENDS Integers, Sequences, FiniteSets

CONSTANTS
    NumBuffers,    \* bound: PjRtBuffers created in a behaviour
    Slots,         \* bound: allocations that fit in the memory of a device
    Devices,
    Model,         \* LocalDeviceState::AllocationModel of the platform
    Workers,       \* threads in PjRtStreamExecutorClient::thread_pool_
    MaxArgs,       \* bound: arguments of an execution
    MaxFutures,    \* bound: futures clients ask for in a behaviour
    Ops            \* the operations clients use

ASSUME ModelAssumption ==
    Model \in {"kSynchronous", "kComputeSynchronized", "kAsynchronous"}

ASSUME BoundsAssumption ==
    /\ NumBuffers \in Nat /\ Workers \in Nat
    /\ MaxArgs \in Nat /\ MaxFutures \in Nat

ASSUME OpsAssumption ==
    Ops \subseteq {"from_host", "error", "execute", "donate", "donate_error",
                   "to_literal", "copy", "ready", "delete", "release",
                   "control", "faults"}

Buffers == 1..NumBuffers
Cells   == Devices \X Slots
Streams == {"compute", "h2d", "d2h", "d2d"} \X Devices
NoStream == <<"pool", 0>>

\* The sequencing events of a buffer: the operation that writes it, its
\* allocation point on the compute stream, its copy to the host, the control
\* dependency it was donated with; "joined" is the event behind
\* stream->ThenWaitFor(compute_stream).
Events == {"written", "allocated", "read", "dependency", "joined"} \X Buffers

VARIABLES
    buf,       \* PjRtStreamExecutorBuffer and its TrackedDeviceBuffer
    ev,        \* BufferSequencingEvent
    stream,    \* what is enqueued on each stream and not yet done
    mem,       \* contents of the device memory
    tasks,     \* closures in the thread pool or waiting for an event
    call,      \* host calls that have begun and not returned, by their buffer
    pool,      \* streams borrowed from the pool and what they wait for
    callbacks, \* queue of LocalDeviceState::callback_thread_
    ready, literal, dependency   \* the futures of each buffer

vars == <<buf, ev, stream, mem, tasks, call, pool, callbacks, ready, literal,
          dependency>>

Unborn  == [st |-> "unborn", dev |-> 0, cell |-> <<>>, val |-> 0, defs |-> <<>>,
            usage |-> <<>>, owns |-> FALSE]
NotSet  == [seq |-> 0, stream |-> NoStream, status |-> "none", on |-> {}, done |-> FALSE]
NoCall  == [op |-> "none", ins |-> {}, don |-> {}]
Future  == {"none", "pending", "ok", "error"}

UsageEvent == [stream : Streams, event : Events, reference_held : BOOLEAN]

\* With it, the CHECK of GetDefinedStatus: a task that has left the deferred
\* state finds the status of the event it was waiting for.
TypeOK ==
    /\ \A b \in Buffers :
         /\ buf[b].st \in {"unborn", "making", "live", "external", "gone"}
         /\ buf[b].owns => buf[b].dev \in Devices /\ buf[b].cell \in Cells
         /\ buf[b].val \in 0..NumBuffers /\ buf[b].owns \in BOOLEAN
         /\ buf[b].defs \in Seq(Events) /\ buf[b].usage \in Seq(UsageEvent)
    /\ ev \in [Events -> [seq : Nat, stream : Streams \cup {NoStream},
                          status : {"none", "ok", "error"},
                          on : SUBSET Streams, done : BOOLEAN]]
    /\ DOMAIN stream = Streams
    /\ mem \in [Cells -> 0..NumBuffers]
    /\ \A t \in tasks :
         /\ t.kind \in {"h2d", "d2h", "copy", "ready"}
         /\ t.at \in {"deferred", "queued", "running"}
         /\ t.kind # "h2d" /\ t.at # "deferred" => ev[t.on].status # "none"
         /\ Cardinality({u \in tasks : u.at = "running"}) <= Workers
    /\ \A b \in Buffers :
         /\ call[b].op \in {"none", "execute", "copy", "await_delete",
                            "await_release", "delete", "release"}
         /\ call[b].don \subseteq call[b].ins /\ call[b].ins \subseteq Buffers
    /\ ready \in [Buffers -> Future] /\ literal \in [Buffers -> Future]
    /\ dependency \in [Buffers -> Future]

Init ==
    /\ buf = [b \in Buffers |-> Unborn]
    /\ ev = [e \in Events |-> NotSet]
    /\ stream = [s \in Streams |-> <<>>]
    /\ mem = [c \in Cells |-> 0]
    /\ tasks = {}
    /\ call = [b \in Buffers |-> NoCall]
    /\ pool = {}
    /\ callbacks = [d \in Devices |-> <<>>]
    /\ ready = [b \in Buffers |-> "none"]
    /\ literal = [b \in Buffers |-> "none"]
    /\ dependency = [b \in Buffers |-> "none"]

-----------------------------------------------------------------------------
(***************************************************************************)
(* BufferSequencingEvent.                                                  *)
(***************************************************************************)

EventHasBeenRecorded(e) == ev[e].seq > 0

\* EventPool::ThenRecordEvent.  Sequence numbers grow with every event that is
\* recorded; only those of one stream are ever compared, so each stream counts
\* its own.
SequenceNumber(evs, s) ==
    1 + Cardinality({e \in Events : evs[e].seq > 0 /\ evs[e].stream = s})

SetSequencingEvent(evs, e, s) ==
    [evs EXCEPT ![e] = [seq |-> SequenceNumber(evs, s), stream |-> s,
                        status |-> "ok", on |-> {s}, done |-> FALSE]]

\* Fault: the stream does not wait.
WaitsNever(s, E) == <<>>

\* WaitForEventOnStream for a set of recorded events: what is put on the
\* stream, and the cached streams_defined_on_.
Waits(s, E) ==
    LET w == {e \in E : s \notin ev[e].on}
    IN  IF w = {} THEN <<>> ELSE <<[op |-> "wait", events |-> w]>>

DefinedOn(s, E) ==
    [e \in Events |-> IF e \in E THEN [ev[e] EXCEPT !.on = @ \cup {s}]
                                 ELSE ev[e]]

\* Fault: the task does not wait for the event.
ScheduledAtOnce(t, e) ==
    [kind |-> t[1], buf |-> t[2], src |-> t[3], on |-> e, at |-> "queued"]

\* ExecuteOrAddToFutureTasks and ExecuteFutureTasks.
Scheduled(t, e) ==
    [kind |-> t[1], buf |-> t[2], src |-> t[3], on |-> e,
     at |-> IF ev[e].status = "none" THEN "deferred" ELSE "queued"]

\* Fault: SetSequencingEvent does not run the tasks that wait for it.
AwakenedNever(ts, e) == ts

Awakened(ts, e) ==
    {IF t.at = "deferred" /\ t.on = e THEN [t EXCEPT !.at = "queued"] ELSE t :
       t \in ts}

\* TrackedDeviceBuffer::AddUsageEvent.  Recorded events of one stream are
\* merged into the first recorded entry for it; an unrecorded one is kept.
AddUsageEvent(evs, u, s, e, held) ==
    LET new  == [stream |-> s, event |-> e, reference_held |-> held]
        same == {i \in DOMAIN u : evs[u[i].event].seq > 0 /\ u[i].stream = s}
        i    == CHOOSE i \in same : \A j \in same : i <= j
    IN  IF evs[e].seq = 0 \/ same = {} THEN Append(u, new)
        ELSE IF evs[u[i].event].seq < evs[e].seq THEN [u EXCEPT ![i] = new]
        ELSE u

UsageEvents(b) == {buf[b].usage[i].event : i \in DOMAIN buf[b].usage}

DefinitionEvents(b) == {buf[b].defs[i] : i \in DOMAIN buf[b].defs}

-----------------------------------------------------------------------------
(***************************************************************************)
(* Memory.  A TrackedDeviceBuffer lives as long as a shared_ptr to it, and *)
(* its destructor gives the memory back to the allocator.                  *)
(***************************************************************************)

StreamOps(s) == {stream[s][i] : i \in DOMAIN stream[s]}
Pending == UNION {StreamOps(s) : s \in Streams}
Queued  == UNION {{callbacks[d][i] : i \in DOMAIN callbacks[d]} : d \in Devices}

Callbacks == {o \in Pending : o.op = "callback"} \cup Queued

Alive(b) ==
    \/ buf[b].st \in {"making", "live", "external"}
    \/ call[b].op \in {"delete", "release"}
    \/ \E t \in tasks : b \in {t.buf, t.src}
    \/ \E o \in Callbacks : b \in o.drops
    \/ \E p \in pool : p.op = "release" /\ p.buf = b

Touches(o, c) ==
    o.op = "access" /\ \E r \in o.reads \cup o.writes : r.cell = c

Owned(c) ==
    \/ \E b \in Buffers : buf[b].owns /\ buf[b].cell = c /\ Alive(b)
    \/ \E o \in Callbacks : c \in o.frees

\* What the allocator may hand out: kAsynchronous leaves it to the runtime of
\* the device to keep memory from being reused under its own streams.
Free(c) ==
    /\ ~Owned(c)
    /\ Model = "kAsynchronous" =>
         \A s \in Streams : s[2] = c[1] => \A o \in StreamOps(s) : ~Touches(o, c)

\* A transfer or a launch, with the event recorded right behind it.
Access(reads, writes, e) ==
    <<[op |-> "access", reads |-> reads, writes |-> writes, event |-> e]>>
Contents(b) == [cell |-> buf[b].cell, val |-> buf[b].val]
Record(e)   == <<[op |-> "record", event |-> e]>>

\* ThenExecuteCallback, left out when it would only drop what is not modelled.
Callback(drops, frees) ==
    IF drops = {} /\ frees = {} THEN <<>>
    ELSE <<[op |-> "callback", drops |-> drops, frees |-> frees]>>

\* RecordUsage's retain_buffer_until_completion, when the caller does not
\* prefer to retain a reference and names one device for buffer and stream.
Retain == Model = "kSynchronous"

\* Fault: the writing stream does not wait for the compute stream.
JoinNever(d, s, b, on_s) == [stream EXCEPT ![s] = @ \o on_s]

\* AllocateDestinationBuffer: in the compute-synchronized model memory is
\* valid once the compute stream has passed this point, so the stream that
\* will write it waits for the compute stream.
Join(d, s, b, on_s) ==
    LET c == <<"compute", d>> IN
    IF Model # "kComputeSynchronized" \/ stream[c] = <<>>
      THEN [stream EXCEPT ![s] = @ \o on_s]
      ELSE [stream EXCEPT
              ![c] = @ \o Record(<<"joined", b>>),
              ![s] = @ \o <<[op |-> "wait", events |-> {<<"joined", b>>}]>>
                       \o on_s]

\* Buffers are numbered in the order they are created.
New == 1 + Cardinality({b \in Buffers : buf[b].st # "unborn" \/ call[b] # NoCall})
CanCreate == New <= NumBuffers

NewBuffer(st, d, c, val, defs) ==
    [st |-> st, dev |-> d, cell |-> c, val |-> val, defs |-> defs,
     usage |-> <<>>, owns |-> TRUE]

\* Holds: the closure of a host transfer keeps its ScopedHold, a call keeps
\* its own until it returns.
DonationHold(b) == \E x \in Buffers : call[x].op = "execute" /\ b \in call[x].don
UsageHold(b) ==
    \/ \E t \in tasks : t.kind = "h2d" /\ t.buf = b
    \/ \E x \in Buffers : b \in call[x].ins \ call[x].don

Live(b) == buf[b].st = "live" /\ ~DonationHold(b)

\* A call of Release that is in WaitForOutstandingDonationHold.
Awaiting(op) == IF op = "delete" THEN "await_delete" ELSE "await_release"

\* Fault: ReleaseDeviceMemory is not called.
ConfirmDonationOwns(b) == [buf[b] EXCEPT !.st = "gone", !.usage = <<>>]

\* ConfirmDonation: no more usage events, and the memory belongs to others:
\* ReleaseDeviceMemory leaves device_memory_ empty.
ConfirmDonation(b) ==
    [buf[b] EXCEPT !.st = "gone", !.usage = <<>>, !.owns = FALSE]

\* The CHECK of AsShapedBuffer, in the tasks that look up device_memory_.  If
\* it fails the process ends: such a task goes no further.
AsShapedBuffer(b) == buf[b].owns

\* The bound on futures.
CanAsk ==
    Cardinality({b \in Buffers : ready[b] # "none"})
      + Cardinality({b \in Buffers : literal[b] # "none"}) < MaxFutures

-----------------------------------------------------------------------------
(***************************************************************************)
(* Host calls.                                                             *)
(***************************************************************************)

\* BufferFromHostBuffer: the transfer is given to the thread pool, with a
\* usage hold on the new buffer.
BufferFromHostBuffer(d) ==
    LET b == New  e == <<"written", b>> IN
    /\ "from_host" \in Ops /\ CanCreate
    /\ \E c \in Cells :
         /\ c[1] = d /\ Free(c)
         /\ buf' = [buf EXCEPT ![b] = NewBuffer("live", d, c, b, <<e>>)]
    /\ stream' = Join(d, <<"h2d", d>>, b, <<>>)
    /\ tasks' = tasks \cup {[kind |-> "h2d", buf |-> b, src |-> b, on |-> e,
                             at |-> "queued"]}
    /\ UNCHANGED <<ev, mem, call, pool, callbacks, ready, literal, dependency>>

\* CreateErrorBuffer: the first definition event has a status but is never
\* recorded; the compute-synchronized model adds one on the compute stream.
CreateErrorBuffer(d) ==
    LET b == New  e == <<"written", b>>  a == <<"allocated", b>>
        err == [ev EXCEPT ![e].status = "error"]
    IN
    /\ "error" \in Ops /\ CanCreate
    /\ \E c \in Cells :
         /\ c[1] = d /\ Free(c)
         /\ IF Model = "kComputeSynchronized"
              THEN /\ buf' = [buf EXCEPT ![b] =
                                NewBuffer("live", d, c, b, <<e, a>>)]
                   /\ ev' = SetSequencingEvent(err, a, <<"compute", d>>)
                   /\ stream' = [stream EXCEPT ![<<"compute", d>>] =
                                   @ \o Record(a)]
              ELSE /\ buf' = [buf EXCEPT ![b] =
                                NewBuffer("live", d, c, b, <<e>>)]
                   /\ ev' = err
                   /\ UNCHANGED stream
    /\ UNCHANGED <<mem, tasks, call, pool, callbacks, ready, literal,
                   dependency>>

\* EnqueueExecution up to its holds.  At most one argument is donated; error
\* buffers are donated only with "donate_error".
Execute(d) ==
    LET out == New IN
    /\ "execute" \in Ops /\ CanCreate
    /\ \E ins \in SUBSET Buffers : \E don \in SUBSET ins :
         /\ Cardinality(ins) \in 1..MaxArgs /\ Cardinality(don) <= 1
         /\ don # {} => "donate" \in Ops
         /\ \A b \in ins : Live(b) /\ buf[b].dev = d
         /\ \A b \in don : /\ ~UsageHold(b)
                            /\ \/ "donate_error" \in Ops
                               \/ ev[buf[b].defs[1]].status # "error"
         /\ call' = [call EXCEPT ![out] = [op |-> "execute", ins |-> ins,
                                           don |-> don]]
    /\ UNCHANGED <<buf, ev, stream, mem, tasks, pool, callbacks, ready,
                   literal, dependency>>

\* Fault: a donation does not wait for usage events.
ExecutionEventsUnused(ins, don) == UNION {DefinitionEvents(b) : b \in ins}

\* The events the compute stream has to wait for before it runs.
ExecutionEvents(ins, don) ==
    UNION ({UsageEvents(b) : b \in don} \cup
           {DefinitionEvents(b) : b \in
              IF Model = "kComputeSynchronized" THEN ins ELSE ins \ don})

\* The rest of ExecuteHelper, once WaitForEventOnStream has seen every event
\* recorded: launch, definition event, outputs, usage events, confirmed
\* donations, and the compute callback.  A donated argument is aliased with
\* the output, or its memory comes back with the ExecutionOutput.
ExecuteHelper(out) ==
    LET ins == call[out].ins
        don == call[out].don
        d   == buf[CHOOSE b \in ins : TRUE].dev
        s   == <<"compute", d>>
        e   == <<"written", out>>
        E   == ExecutionEvents(ins, don)
        evs == SetSequencingEvent(DefinedOn(s, E), e, s)
        kept == IF Retain THEN {out} \cup (ins \ don) ELSE {}
    IN
    /\ call[out].op = "execute"
    /\ \A x \in E : EventHasBeenRecorded(x)
    /\ \E c \in Cells :
         LET alias == \E b \in don : buf[b].cell = c
             back  == IF Retain /\ ~alias THEN {buf[b].cell : b \in don}
                                          ELSE {}
             made  == NewBuffer("live", d, c, out, <<e>>)
         IN
         /\ c[1] = d /\ (alias \/ Free(c))
         /\ buf' = [b \in Buffers |->
              CASE b = out -> [made EXCEPT !.usage =
                                 AddUsageEvent(evs, <<>>, s, e, Retain)]
                [] b \in don -> ConfirmDonation(b)
                [] b \in ins \ don ->
                     [buf[b] EXCEPT !.usage =
                        AddUsageEvent(evs, @, s, e, Retain)]
                [] OTHER -> buf[b]]
         /\ stream' = [stream EXCEPT ![s] =
              @ \o Waits(s, E)
                \o Access({Contents(b) : b \in ins},
                          {[cell |-> c, val |-> out]}, e)
                \o Callback(kept, back)]
    /\ ev' = evs
    /\ call' = [call EXCEPT ![out] = NoCall]
    /\ UNCHANGED <<mem, tasks, pool, callbacks, ready, literal, dependency>>

\* RunAsync fails: no memory for the output, or the launch failed.  The
\* arguments are given back; the waits stay on the compute stream.
ExecuteFails(out) ==
    LET d == buf[CHOOSE b \in call[out].ins : TRUE].dev
        s == <<"compute", d>>
        E == ExecutionEvents(call[out].ins, call[out].don)
    IN
    /\ call[out].op = "execute"
    /\ \A x \in E : EventHasBeenRecorded(x)
    /\ "faults" \in Ops \/ \A c \in Cells : c[1] = d => ~Free(c)
    /\ stream' = [stream EXCEPT ![s] = @ \o Waits(s, E)]
    /\ ev' = DefinedOn(s, E)
    /\ buf' = [buf EXCEPT ![out].st = "gone"]
    /\ call' = [call EXCEPT ![out] = NoCall]
    /\ UNCHANGED <<mem, tasks, pool, callbacks, ready, literal, dependency>>

\* Fault: the usage event says that no reference is kept.
ToLiteralNotHeld(b) ==
    LET s == <<"d2h", buf[b].dev>> IN
    /\ "to_literal" \in Ops /\ CanAsk
    /\ Live(b) /\ literal[b] = "none"
    /\ buf' = [buf EXCEPT ![b].usage =
                 AddUsageEvent(ev, @, s, <<"read", b>>, FALSE)]
    /\ tasks' = tasks \cup {Scheduled(<<"d2h", b, b>>, buf[b].defs[1])}
    /\ literal' = [literal EXCEPT ![b] = "pending"]
    /\ UNCHANGED <<ev, stream, mem, call, pool, callbacks, ready, dependency>>

\* ToLiteral: one copy to the host per buffer is in progress at a time.
ToLiteral(b) ==
    LET s == <<"d2h", buf[b].dev>> IN
    /\ "to_literal" \in Ops /\ CanAsk
    /\ Live(b) /\ literal[b] = "none"
    /\ buf' = [buf EXCEPT ![b].usage =
                 AddUsageEvent(ev, @, s, <<"read", b>>, TRUE)]
    /\ tasks' = tasks \cup {Scheduled(<<"d2h", b, b>>, buf[b].defs[1])}
    /\ literal' = [literal EXCEPT ![b] = "pending"]
    /\ UNCHANGED <<ev, stream, mem, call, pool, callbacks, ready, dependency>>

\* CopyToDevice and CopyToDeviceHelper up to the point where the copy is
\* scheduled; the transfer stream is the source device's.
CopyToDevice(src, d) ==
    LET dst == New  s == <<"d2d", buf[src].dev>> IN
    /\ "copy" \in Ops /\ CanCreate
    /\ Live(src) /\ buf[src].dev # d
    /\ \E c \in Cells :
         /\ c[1] = d /\ Free(c)
         /\ buf' = [buf EXCEPT ![dst] =
                      NewBuffer("making", d, c, dst, <<<<"written", dst>>>>)]
    /\ stream' = Join(d, s, dst, <<>>)
    /\ tasks' = tasks \cup {Scheduled(<<"copy", dst, src>>, buf[src].defs[1])}
    /\ call' = [call EXCEPT ![dst] = [op |-> "copy", ins |-> {src}, don |-> {}]]
    /\ UNCHANGED <<ev, mem, pool, callbacks, ready, literal, dependency>>

\* The rest of CopyToDevice: the usage of both buffers is recorded, whether
\* or not the copy has been enqueued meanwhile.
CopyToDeviceReturn(dst) ==
    /\ call[dst].op = "copy"
    /\ \E src \in call[dst].ins :
         LET s == <<"d2d", buf[src].dev>>  e == <<"written", dst>> IN
         /\ buf' = [buf EXCEPT
              ![dst].st = "live",
              ![dst].usage = AddUsageEvent(ev, @, s, e, Retain),
              ![src].usage = AddUsageEvent(ev, @, s, e, TRUE)]
         /\ stream' = [stream EXCEPT ![s] =
              @ \o Callback(IF Retain THEN {dst} ELSE {}, {})]
    /\ call' = [call EXCEPT ![dst] = NoCall]
    /\ UNCHANGED <<ev, mem, tasks, pool, callbacks, ready, literal, dependency>>

\* GetReadyFuture, when it creates definition_promise_.
GetReadyFuture(b) ==
    /\ "ready" \in Ops /\ CanAsk
    /\ buf[b].st = "live" /\ ready[b] = "none"
    /\ tasks' = tasks \cup {Scheduled(<<"ready", b, b>>, buf[b].defs[1])}
    /\ ready' = [ready EXCEPT ![b] = "pending"]
    /\ UNCHANGED <<buf, ev, stream, mem, call, pool, callbacks, literal,
                   dependency>>

\* Fault: the new buffer has no definition event for the dependency.
DonateWithoutDependency(b) ==
    LET n == New IN
    /\ "control" \in Ops /\ CanCreate
    /\ Live(b) /\ ~UsageHold(b)
    /\ buf' = [buf EXCEPT
         ![b] = ConfirmDonation(b),
         ![n] = NewBuffer("live", buf[b].dev, buf[b].cell, buf[b].val,
                          buf[b].defs)]
    /\ dependency' = [dependency EXCEPT ![n] = "pending"]
    /\ UNCHANGED <<ev, stream, mem, tasks, call, pool, callbacks, ready,
                   literal>>

\* DonateWithControlDependency: the memory goes to a new buffer with the old
\* definition events behind one for the dependency.
DonateWithControlDependency(b) ==
    LET n == New IN
    /\ "control" \in Ops /\ CanCreate
    /\ Live(b) /\ ~UsageHold(b)
    /\ buf' = [buf EXCEPT
         ![b] = ConfirmDonation(b),
         ![n] = NewBuffer("live", buf[b].dev, buf[b].cell, buf[b].val,
                          <<<<"dependency", n>>>> \o buf[b].defs)]
    /\ dependency' = [dependency EXCEPT ![n] = "pending"]
    /\ UNCHANGED <<ev, stream, mem, tasks, call, pool, callbacks, ready,
                   literal>>

\* The callback DonateWithControlDependency puts on the future: whatever its
\* status, an event is recorded on an idle stream from the pool.
DependencyReady(n, status) ==
    LET e == <<"dependency", n>> IN
    /\ dependency[n] = "pending"
    /\ dependency' = [dependency EXCEPT ![n] = status]
    /\ ev' = [ev EXCEPT ![e] = [seq |-> 1, stream |-> NoStream,
                                status |-> "ok", on |-> {}, done |-> TRUE]]
    /\ tasks' = Awakened(tasks, e)
    /\ UNCHANGED <<buf, stream, mem, call, pool, callbacks, ready, literal>>

\* Release, called by Delete or by ReleaseDeviceMemoryOwnership(true), finds a
\* donation hold and waits for it.
AwaitDonation(b, op) ==
    /\ buf[b].st = "live" /\ DonationHold(b) /\ call[b].op = "none"
    /\ call' = [call EXCEPT ![b].op = Awaiting(op)]
    /\ UNCHANGED <<buf, ev, stream, mem, tasks, pool, callbacks, ready, literal,
                   dependency>>

\* The donation was confirmed meanwhile: there is nothing to release.
ReleaseNothing(b) ==
    /\ call[b].op \in {"await_delete", "await_release"}
    /\ buf[b].st # "live"
    /\ call' = [call EXCEPT ![b] = NoCall]
    /\ UNCHANGED <<buf, ev, stream, mem, tasks, pool, callbacks, ready, literal,
                   dependency>>

\* Release up to WaitForOutstandingUsageHolds, at once (from "none") or after
\* that wait.
Release(b, op, from) ==
    /\ call[b].op = from
    /\ Live(b)
    /\ buf' = [buf EXCEPT ![b].st = "gone"]
    /\ call' = [call EXCEPT ![b].op = op]
    /\ UNCHANGED <<ev, stream, mem, tasks, pool, callbacks, ready, literal,
                   dependency>>

\* Fault: Delete leaves nothing behind for copies that are still running.
DeleteAtOnce(b) ==
    /\ call[b].op = "delete" /\ ~UsageHold(b)
    /\ buf' = [buf EXCEPT ![b].usage = <<>>]
    /\ call' = [call EXCEPT ![b] = NoCall]
    /\ UNCHANGED <<ev, stream, mem, tasks, pool, callbacks, ready, literal,
                   dependency>>

\* The rest of Delete.  A reference is left on a borrowed stream for usages
\* that neither hold one themselves nor are ordered before the compute stream.
Delete(b) ==
    LET u == {buf[b].usage[i] : i \in DOMAIN buf[b].usage}
        loose == {x.event : x \in {y \in u : ~y.reference_held}}
        E == {e \in loose : <<"compute", buf[b].dev>> \notin ev[e].on /\
                            ~ev[e].done}
    IN
    /\ call[b].op = "delete" /\ ~UsageHold(b)
    /\ IF Model = "kComputeSynchronized"
         THEN /\ \A e \in loose : EventHasBeenRecorded(e)
              /\ pool' = IF E = {} THEN pool
                         ELSE pool \cup {[op |-> "release", buf |-> b,
                                          events |-> E]}
         ELSE UNCHANGED pool
    /\ buf' = [buf EXCEPT ![b].usage = <<>>]
    /\ call' = [call EXCEPT ![b] = NoCall]
    /\ UNCHANGED <<ev, stream, mem, tasks, callbacks, ready, literal,
                   dependency>>

\* Fault: usages that hold a reference are not waited for.
ReleaseWithoutHeld(b) ==
    LET u == {buf[b].usage[i] : i \in DOMAIN buf[b].usage} IN
    /\ call[b].op = "release" /\ ~UsageHold(b)
    /\ \A x \in u : x.reference_held \/ ev[x.event].done
    /\ buf' = [buf EXCEPT ![b].st = "external", ![b].usage = <<>>]
    /\ call' = [call EXCEPT ![b] = NoCall]
    /\ UNCHANGED <<ev, stream, mem, tasks, pool, callbacks, ready, literal,
                   dependency>>

\* The rest of Release(wait_for_operations_to_complete=true): the host blocks
\* on every usage event, then the memory belongs to another framework.
ReleaseDeviceMemoryOwnership(b) ==
    /\ call[b].op = "release" /\ ~UsageHold(b)
    /\ \A e \in UsageEvents(b) : ev[e].done
    /\ buf' = [buf EXCEPT ![b].st = "external", ![b].usage = <<>>]
    /\ call' = [call EXCEPT ![b] = NoCall]
    /\ UNCHANGED <<ev, stream, mem, tasks, pool, callbacks, ready, literal,
                   dependency>>

\* The other framework drops the ExternalReference.
DropExternalReference(b) ==
    /\ buf[b].st = "external"
    /\ buf' = [buf EXCEPT ![b].st = "gone"]
    /\ UNCHANGED <<ev, stream, mem, tasks, call, pool, callbacks, ready,
                   literal, dependency>>

-----------------------------------------------------------------------------
(***************************************************************************)
(* The thread pool.  A task that has to wait for an event to be recorded   *)
(* keeps its worker.                                                       *)
(***************************************************************************)

Busy == Cardinality({t \in tasks : t.at = "running"})

HasWorker(t) == t.at = "running" \/ (t.at = "queued" /\ Busy < Workers)

\* GetDefinedStatus of the first definition event of the buffer t reads.
DefinedStatus(t) == ev[buf[t.src].defs[1]].status

AllRecorded(t) == \A e \in DefinitionEvents(t.src) : EventHasBeenRecorded(e)

\* The task blocks in BufferSequencingEvent's mu_.Await.
Block(t) ==
    /\ t.at = "queued" /\ Busy < Workers
    /\ t.kind # "h2d" /\ DefinedStatus(t) = "ok" /\ ~AllRecorded(t)
    /\ tasks' = (tasks \ {t}) \cup {[t EXCEPT !.at = "running"]}
    /\ UNCHANGED <<buf, ev, stream, mem, call, pool, callbacks, ready, literal,
                   dependency>>

\* transfer_h2d and AddDestinationBufferSynchronization.
TransferH2D(t) ==
    LET b == t.buf  e == <<"written", b>>  s == <<"h2d", buf[b].dev>>
        evs == SetSequencingEvent(ev, e, s)
    IN
    /\ t.kind = "h2d" /\ HasWorker(t) /\ AsShapedBuffer(b)
    /\ ev' = evs
    /\ stream' = [stream EXCEPT ![s] =
         @ \o Access({}, {Contents(b)}, e)
           \o Callback(IF Retain THEN {b} ELSE {}, {})]
    /\ buf' = [buf EXCEPT ![b].usage = AddUsageEvent(evs, @, s, e, Retain)]
    /\ tasks' = Awakened(tasks \ {t}, e)
    /\ UNCHANGED <<mem, call, pool, callbacks, ready, literal, dependency>>

\* async_to_literal: the wait, the copy, the usage event, and a reference
\* that stays until the copy is done.
AsyncToLiteral(t) ==
    LET b == t.buf  e == <<"read", b>>  s == <<"d2h", buf[b].dev>>
        E == DefinitionEvents(b)
    IN
    /\ t.kind = "d2h" /\ HasWorker(t)
    /\ DefinedStatus(t) = "ok" /\ AllRecorded(t) /\ AsShapedBuffer(b)
    /\ stream' = [stream EXCEPT ![s] =
         @ \o Waits(s, E) \o Access({Contents(b)}, {}, e)
           \o Callback({b}, {})]
    /\ ev' = SetSequencingEvent(DefinedOn(s, E), e, s)
    /\ tasks' = tasks \ {t}
    /\ UNCHANGED <<buf, mem, call, pool, callbacks, ready, literal, dependency>>

\* No event can be allocated, which is tried first, or the buffer carries an
\* error.  The usage event is never recorded.
AsyncToLiteralFails(t) ==
    /\ t.kind = "d2h" /\ HasWorker(t)
    /\ DefinedStatus(t) = "error" \/ (t.at = "queued" /\ "faults" \in Ops)
    /\ literal' = [literal EXCEPT ![t.buf] = "error"]
    /\ tasks' = tasks \ {t}
    /\ UNCHANGED <<buf, ev, stream, mem, call, pool, callbacks, ready,
                   dependency>>

\* async_copy_to_device.
AsyncCopyToDevice(t) ==
    LET s == <<"d2d", buf[t.src].dev>>  e == <<"written", t.buf>>
        E == DefinitionEvents(t.src)
    IN
    /\ t.kind = "copy" /\ HasWorker(t)
    /\ \/ /\ DefinedStatus(t) = "ok" /\ AllRecorded(t)
          /\ AsShapedBuffer(t.src) /\ AsShapedBuffer(t.buf)
          /\ stream' = [stream EXCEPT ![s] =
               @ \o Waits(s, E)
                 \o Access({Contents(t.src)}, {Contents(t.buf)}, e)
                 \o Callback({t.src}, {})]
          /\ ev' = SetSequencingEvent(DefinedOn(s, E), e, s)
       \/ /\ DefinedStatus(t) = "error"
          /\ stream' = [stream EXCEPT ![s] = @ \o Callback({t.src}, {})]
          /\ ev' = [ev EXCEPT ![e].status = "error"]
    /\ tasks' = Awakened(tasks \ {t}, e)
    /\ UNCHANGED <<buf, mem, call, pool, callbacks, ready, literal, dependency>>

\* Fault: the promise is fulfilled as soon as the events are recorded.
AsyncWaitForEventsRecorded(t) ==
    /\ t.kind = "ready" /\ HasWorker(t) /\ AllRecorded(t)
    /\ ready' = [ready EXCEPT ![t.buf] = DefinedStatus(t)]
    /\ tasks' = tasks \ {t}
    /\ UNCHANGED <<buf, ev, stream, mem, call, pool, callbacks, literal,
                   dependency>>

\* async_wait_for_events: events the host does not know to be complete are
\* waited for on a borrowed stream.
AsyncWaitForEvents(t) ==
    LET b == t.buf  E == {e \in DefinitionEvents(b) : ~ev[e].done} IN
    /\ t.kind = "ready" /\ HasWorker(t)
    /\ IF DefinedStatus(t) = "ok"
         THEN /\ AllRecorded(t)
              /\ IF E = {}
                   THEN ready' = [ready EXCEPT ![b] = "ok"] /\ UNCHANGED pool
                   ELSE /\ pool' = pool \cup {[op |-> "ready", buf |-> b,
                                               events |-> E]}
                        /\ UNCHANGED ready
         ELSE /\ ready' = [ready EXCEPT ![b] = "error"]
              /\ UNCHANGED pool
    /\ tasks' = tasks \ {t}
    /\ UNCHANGED <<buf, ev, stream, mem, call, callbacks, literal, dependency>>

RunTask(t) ==
    \/ TransferH2D(t)
    \/ AsyncToLiteral(t)
    \/ AsyncToLiteralFails(t)
    \/ AsyncCopyToDevice(t)
    \/ AsyncWaitForEvents(t)

-----------------------------------------------------------------------------
(***************************************************************************)
(* The devices: every stream runs in order, streams run independently.  A  *)
(* copy to the host fulfils its promise from the done callback.            *)
(***************************************************************************)

Advance(s) == stream' = [stream EXCEPT ![s] = Tail(@)]

Enabled(s) ==
    /\ stream[s] # <<>>
    /\ Head(stream[s]).op = "wait" =>
         \A e \in Head(stream[s]).events : ev[e].done

StreamStep(s) ==
    LET o == Head(stream[s]) IN
    /\ Enabled(s)
    /\ Advance(s)
    /\ mem' = IF o.op = "access"
                THEN [c \in Cells |->
                        IF \E w \in o.writes : w.cell = c
                          THEN (CHOOSE w \in o.writes : w.cell = c).val
                          ELSE mem[c]]
                ELSE mem
    /\ ev' = IF o.op \in {"access", "record"}
               THEN [ev EXCEPT ![o.event].done = TRUE] ELSE ev
    /\ literal' = IF o.op = "access" /\ o.event[1] = "read"
                    THEN [literal EXCEPT ![o.event[2]] = "ok"] ELSE literal
    /\ callbacks' = IF o.op = "callback"
                      THEN [callbacks EXCEPT ![s[2]] = Append(@, o)]
                      ELSE callbacks
    /\ UNCHANGED <<buf, tasks, call, pool, ready, dependency>>

\* The callback thread of device d runs the next callback and destroys it.
RunCallback(d) ==
    /\ callbacks[d] # <<>>
    /\ callbacks' = [callbacks EXCEPT ![d] = Tail(@)]
    /\ UNCHANGED <<buf, ev, stream, mem, tasks, call, pool, ready, literal,
                   dependency>>

\* A borrowed stream has passed its events: Release's goes through the
\* callback thread, GetReadyFuture's sets the promise at once.
PoolStreamDone(p) ==
    /\ \A e \in p.events : ev[e].done
    /\ pool' = pool \ {p}
    /\ IF p.op = "release"
         THEN /\ callbacks' = [callbacks EXCEPT ![buf[p.buf].dev] =
                                 @ \o Callback({p.buf}, {})]
              /\ UNCHANGED ready
         ELSE /\ ready' = [ready EXCEPT ![p.buf] =
                             ev[buf[p.buf].defs[1]].status]
              /\ UNCHANGED callbacks
    /\ UNCHANGED <<buf, ev, stream, mem, tasks, call, literal, dependency>>

-----------------------------------------------------------------------------
\* What clients may start.
Start ==
    \/ \E d \in Devices : \/ BufferFromHostBuffer(d)
                          \/ CreateErrorBuffer(d)
                          \/ Execute(d)
    \/ \E b \in Buffers : \/ ToLiteral(b)
                          \/ GetReadyFuture(b)
                          \/ DonateWithControlDependency(b)
                          \/ DropExternalReference(b)
    \/ \E b \in Buffers, op \in {"delete", "release"} \cap Ops :
          AwaitDonation(b, op) \/ Release(b, op, "none")
    \/ \E b \in Buffers, d \in Devices : CopyToDevice(b, d)

\* What the runtime does once it has been started.
Resolve == \E b \in Buffers, status \in {"ok", "error"} :
              DependencyReady(b, status)

HostStep(b) ==
    \/ ExecuteHelper(b)
    \/ ExecuteFails(b)
    \/ CopyToDeviceReturn(b)
    \/ \E op \in {"delete", "release"} : Release(b, op, Awaiting(op))
    \/ ReleaseNothing(b)
    \/ Delete(b)
    \/ ReleaseDeviceMemoryOwnership(b)

Work == \E t \in tasks : Block(t) \/ RunTask(t)

Drain == \E p \in pool : PoolStreamDone(p)

Next ==
    \/ Start
    \/ Resolve
    \/ \E b \in Buffers : HostStep(b)
    \/ Work
    \/ Drain
    \/ \E s \in Streams : StreamStep(s)
    \/ \E d \in Devices : RunCallback(d)

Spec == Init /\ [][Next]_vars

\* Devices drain their streams, the pool and the callback threads run what
\* they are given, a host thread goes on when it can, and the dependencies
\* clients hand in are resolved.  Nobody has to start anything.
Fairness ==
    /\ WF_vars(Resolve) /\ WF_vars(Work) /\ WF_vars(Drain)
    /\ \A b \in Buffers : WF_vars(HostStep(b))
    /\ \A s \in Streams : WF_vars(StreamStep(s))
    /\ \A d \in Devices : WF_vars(RunCallback(d))

FairSpec == Spec /\ Fairness

-----------------------------------------------------------------------------
(***************************************************************************)
(* Properties.                                                             *)
(***************************************************************************)

Accessing(s) == Enabled(s) /\ Head(stream[s]).op = "access"

\* No two streams are at conflicting accesses of the same memory: every write
\* is ordered, by events or by the order of frees and allocations, against
\* every other access.
RaceFree ==
    \A s, r \in Streams : s # r /\ Accessing(s) /\ Accessing(r) =>
        \A w \in Head(stream[s]).writes : ~Touches(Head(stream[r]), w.cell)

\* Whatever a transfer or an execution reads is what the operation that
\* defines the buffer wrote: nobody reads before the definition or after the
\* memory went to another buffer.
ReadsSeeContents ==
    \A s \in Streams : Accessing(s) =>
        \A r \in Head(stream[s]).reads : mem[r.cell] = r.val

\* Streams do to device memory what the order of the client's calls says,
\* although nothing but events and references orders them.
AccessesAreSafe == RaceFree /\ ReadsSeeContents

\* Device memory has at most one owner that will free it, a buffer somebody
\* still refers to or the callback of an execution that was given it, and is
\* not handed out while it has one.
OneOwner ==
    /\ \A b, c \in Buffers :
         /\ b # c /\ buf[b].owns /\ buf[c].owns /\ Alive(b) /\ Alive(c)
         => buf[b].cell # buf[c].cell
    /\ \A b \in Buffers : buf[b].owns /\ Alive(b) =>
         \A o \in Callbacks : buf[b].cell \notin o.frees

\* Once GetReadyFuture has said OK, the buffer has its contents for as long
\* as the client can use it.
ReadyKeepsContents ==
    \A b \in Buffers :
        ready[b] = "ok" /\ buf[b].st = "live" => mem[buf[b].cell] = buf[b].val

\* "Usage events dominate definition events, so this also waits for the
\* buffer to be defined": when Release(wait_for_operations_to_complete=true)
\* has handed the memory out, it is defined (unless the buffer carries an
\* error) and no stream uses it any more.
ReleasedIsQuiescent ==
    \A b \in Buffers : buf[b].st = "external" =>
        /\ ev[buf[b].defs[1]].status = "error" \/ mem[buf[b].cell] = buf[b].val
        /\ \A o \in Pending : ~Touches(o, buf[b].cell)

\* kSynchronous: "A buffer cannot be freed until after the last stream
\* operation referencing the buffer has completed".
FreedIsQuiescent ==
    Model = "kSynchronous" =>
        \A c \in Cells : ~Owned(c) => \A o \in Pending : ~Touches(o, c)

\* Memory the client no longer owns, freed or handed out, is not touched.
LetGoIsQuiescent == ReleasedIsQuiescent /\ FreedIsQuiescent

\* Who looks up the memory of a buffer finds it: a donation waits for the
\* usages before it, so AsShapedBuffer's CHECK never fails in a task that was
\* scheduled before the buffer was donated to an execution.
TasksHaveMemory ==
    \A t \in tasks : t.kind # "ready" => AsShapedBuffer(t.src) /\ AsShapedBuffer(t.buf)

\* The buffer DonateWithControlDependency returns is "ready only when both
\* 'this' and 'dependency' are ready": its own definition events, those of
\* 'this', have completed and the dependency is resolved.
ReadyAfterDependency ==
    \A b \in Buffers : ready[b] = "ok" =>
        /\ \A e \in DefinitionEvents(b) : ev[e].done
        /\ dependency[b] # "pending"

\* "If either 'this' or 'dependency' transitions to error, then the returned
\* buffer will transition to error."
DependencyErrorForwarded ==
    \A b \in Buffers : dependency[b] = "error" => ready[b] # "ok"

\* An event nobody will record: it was given an error status instead, or the
\* copy to the host it stands for has failed.
Abandoned(e) ==
    /\ ~EventHasBeenRecorded(e)
    /\ ev[e].status = "error" \/ (e[1] = "read" /\ literal[e[2]] = "error")

\* The only things that stop the runtime, as the code is: a task is about to
\* fail AsShapedBuffer's CHECK, because the client donated with a control
\* dependency what it reads; a pool thread, or an execution that uses b,
\* waits for an event that nobody will record.
CheckFails ==
    \E t \in tasks :
        /\ t.kind \in {"d2h", "copy"} /\ t.at # "deferred"
        /\ DefinedStatus(t) = "ok" /\ AllRecorded(t)
        /\ ~AsShapedBuffer(t.src) \/ ~AsShapedBuffer(t.buf)

PoolHangs ==
    \E t \in tasks : /\ t.at = "running"
                     /\ \E e \in DefinitionEvents(t.src) : Abandoned(e)

ExecuteHangs(b) ==
    \E x \in Buffers :
        /\ call[x].op = "execute" /\ b \in call[x].ins
        /\ \E e \in ExecutionEvents(call[x].ins, call[x].don) : Abandoned(e)

\* Every future handed to a client is fulfilled, unless the process ends or a
\* pool thread hangs.
FuturesResolve ==
    \A b \in Buffers :
        /\ ready[b] = "pending" ~> ready[b] # "pending" \/ CheckFails \/ PoolHangs
        /\ literal[b] = "pending" ~> literal[b] # "pending" \/ CheckFails \/ PoolHangs

\* "Delete may briefly block ... but it will never block for a stream
\* operation to complete": a call of Delete returns, also one that finds a
\* donation under way, and in the end no stream, task or call refers to a
\* buffer that was given up and its memory is given back; unless an execution
\* that uses the buffer hangs.
DeletedIsFreed ==
    \A b \in Buffers :
        call[b].op = "await_delete" \/ buf[b].st = "gone"
          ~> \/ call[b].op = "none" /\ ~Alive(b)
             \/ CheckFails \/ PoolHangs \/ ExecuteHangs(b)
=============================================================================
